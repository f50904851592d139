----------------------------- MODULE MemoryStore -----------------------------
(***************************************************************************)
(* The file store of published memory (agent_skill_loop/memory, file_lock).  *)
(* An entry is a series of versions, each one a sidecar .json and a text    *)
(* .md, written one after the other under the lock .writer.lock; old       *)
(* versions stay.  Several processes, of several Sessions, write to it and  *)
(* others search it without a lock.                                         *)
(*                                                                         *)
(* A file is reduced to who wrote it: the operation key in a sidecar, and   *)
(* the write whose content a text holds.  The index MEMORY.md is left out:  *)
(* it is rebuilt from the versions and nothing reads it back.               *)
(***************************************************************************)
EXTENDS Naturals

CONSTANTS
  Entries,     (* <<project, type, name>>                                    *)
  Legacy,      (* entries with a historical file without version and sidecar *)
  Writes,      (* operation keys <<run_id, operation_id>>                     *)
  Writers,     (* processes inside commit_pending                            *)
  Readers,     (* processes inside memory_search                             *)
  Nobody,      (* no process holds the lock                                  *)
  NoWrite,     (* no such file                                               *)
  LegacyText,  (* the content of a historical file                           *)
  MaxVersion,  (* bound: versions of an entry                                *)
  MaxFaults,   (* bound: crashes, failed writes and damaged files            *)
  MaxMissed    (* bound: reads that fail although the file is sound          *)

ASSUME StoreAssumption ==
  /\ Legacy \subseteq Entries
  /\ Nobody \notin Writers
  /\ NoWrite \notin Writes \cup {LegacyText} /\ LegacyText \notin Writes
  /\ MaxVersion \in Nat \ {0} /\ MaxFaults \in Nat /\ MaxMissed \in Nat

VARIABLES
  asked,     (* of each write: its entry, its memory_based_on, eligibility   *)
  sidecar,   (* <entry>__v<version>.json                                     *)
  text,      (* <entry>__v<version>.md                                       *)
  damaged,   (* versions whose files were damaged from outside               *)
  writer,    (* the process that holds .writer.lock                          *)
  lockFile,  (* what the lock file says: a PID of an old writer, or metadata  *)
  pc,        (* where a writer is                                            *)
  key,       (* the write it works on                                        *)
  at,        (* the version it is writing                                    *)
  outcome,   (* what it will record                                          *)
  found,     (* of a search: the newest version of each entry it has listed   *)
  shown,     (* what it returned of each entry last                          *)
  faults, missed

storeVars == <<asked, sidecar, text, damaged, writer, lockFile, pc, key, at, outcome,
               found, shown, faults, missed>>

Versions == 1..MaxVersion
Proposals == [entry : Entries, base : 0..MaxVersion, ok : BOOLEAN]
NotAsked == [entry |-> NoWrite]

StoreTypeOK ==
  /\ asked \in [Writes -> Proposals \cup {NotAsked}]
  /\ sidecar \in [Entries -> [Versions -> Writes \cup {NoWrite}]]
  /\ text \in [Entries -> [Versions -> Writes \cup {NoWrite, LegacyText}]]
  /\ damaged \subseteq Entries \X Versions
  /\ writer \in Writers \cup {Nobody}
  /\ lockFile \in {"live pid", "dead pid", "os-lock/v1"}
  /\ pc \in [Writers -> {"idle", "check", "accepted", "scan", "sidecar", "text", "record"}]
  /\ key \in [Writers -> Writes \cup {NoWrite}]
  /\ at \in [Writers -> 0..MaxVersion]
  /\ outcome \in [Writers -> {"none", "published", "failed", "rejected"}]
  /\ \A w \in Writers : /\ pc[w] = "idle" <=> key[w] = NoWrite
                        /\ pc[w] = "record" <=> outcome[w] # "none"
  /\ found \in [Readers -> [Entries -> 0..MaxVersion]]
  /\ shown \in [Readers -> [Entries -> 0..MaxVersion]]
  /\ faults \in 0..MaxFaults /\ missed \in 0..MaxMissed

StoreInit ==
  /\ asked = [o \in Writes |-> NotAsked]
  /\ sidecar = [e \in Entries |-> [v \in Versions |-> NoWrite]]
  /\ text = [e \in Entries |-> [v \in Versions |->
       IF e \in Legacy /\ v = 1 THEN LegacyText ELSE NoWrite]]
  /\ damaged = {}
  /\ writer = Nobody
  /\ lockFile \in {"live pid", "dead pid", "os-lock/v1"}
  /\ pc = [w \in Writers |-> "idle"]
  /\ key = [w \in Writers |-> NoWrite]
  /\ at = [w \in Writers |-> 0]
  /\ outcome = [w \in Writers |-> "none"]
  /\ found = [r \in Readers |-> [e \in Entries |-> 0]]
  /\ shown = [r \in Readers |-> [e \in Entries |-> 0]]
  /\ faults = 0 /\ missed = 0

-----------------------------------------------------------------------------
(* What the files say                                                      *)

(* Fault: a sidecar without a text does not reserve its version. *)
TakenText(e) == {v \in Versions : text[e][v] # NoWrite}

(* A sidecar without a text reserves its version like a complete one.      *)
Taken(e) == {v \in Versions : sidecar[e][v] # NoWrite \/ text[e][v] # NoWrite}

Latest(e) == IF Taken(e) = {} THEN 0
             ELSE CHOOSE v \in Taken(e) : \A w \in Taken(e) : w <= v

(* read_version: the text is there and agrees with its sidecar; only a     *)
(* historical text has none.                                               *)
Readable(e, v) ==
  /\ v \in Versions /\ <<e, v>> \notin damaged
  /\ text[e][v] = sidecar[e][v] \/ text[e][v] = LegacyText
  /\ text[e][v] # NoWrite

(* The versions whose sidecar holds the operation key of a write.          *)
KeyOf(o) == {x \in Entries \X Versions : sidecar[x[1]][x[2]] = o}

(* Fault: an update is not compared with the newest version. *)
FitsAny(o) == asked[o].base = 0 \/ Readable(asked[o].entry, asked[o].base)

(* Compare and set: a new entry has no version yet, an update names the    *)
(* newest one, which can be read.                                          *)
Fits(o) ==
  LET e == asked[o].entry  b == asked[o].base IN
  b = Latest(e) /\ (b = 0 \/ Readable(e, b))

-----------------------------------------------------------------------------
(* MemoryAPI.write, a step per effect that another process or a crash can  *)
(* see                                                                     *)

Goto(w, where) == pc' = [pc EXCEPT ![w] = where]
Ends(w, how)   == Goto(w, "record") /\ outcome' = [outcome EXCEPT ![w] = how]
Unlock         == writer' = Nobody

(* Fault: a lock that is taken does not keep others out. *)
OpenWriterAnyway(w) ==
  /\ pc[w] = "accepted" /\ lockFile # "live pid"
  /\ writer' = w /\ lockFile' = "os-lock/v1" /\ Goto(w, "scan")
  /\ UNCHANGED <<asked, sidecar, text, damaged, key, at, outcome, found, shown, faults, missed>>

(* The lock is not waited for.  A PID that an old writer left is adopted   *)
(* only when that process is dead.                                         *)
OpenWriter(w) ==
  /\ pc[w] = "accepted"
  /\ writer = Nobody /\ lockFile # "live pid"
  /\ writer' = w /\ lockFile' = "os-lock/v1" /\ Goto(w, "scan")
  /\ UNCHANGED <<asked, sidecar, text, damaged, key, at, outcome, found, shown, faults, missed>>

WriterBusy(w) ==
  /\ pc[w] = "accepted"
  /\ writer # Nobody \/ lockFile = "live pid"
  /\ Ends(w, "failed")
  /\ UNCHANGED <<asked, sidecar, text, damaged, writer, lockFile, key, at, found, shown, faults, missed>>

OldWriterExits ==
  /\ lockFile = "live pid" /\ lockFile' = "dead pid"
  /\ UNCHANGED <<asked, sidecar, text, damaged, writer, pc, key, at, outcome, found, shown, faults, missed>>

(* Fault: a sidecar alone counts as a publication. *)
ReplaysBlind(w) ==
  /\ pc[w] = "scan" /\ KeyOf(key[w]) # {}
  /\ Ends(w, "published") /\ Unlock
  /\ UNCHANGED <<asked, sidecar, text, damaged, lockFile, key, at, found, shown, faults, missed>>

(* The key is found: the write is answered from what is stored, or fails   *)
(* because its text is missing or damaged.                                 *)
Replays(w) ==
  /\ pc[w] = "scan" /\ KeyOf(key[w]) # {}
  /\ Ends(w, IF \E x \in KeyOf(key[w]) : Readable(x[1], x[2]) THEN "published" ELSE "failed")
  /\ Unlock
  /\ UNCHANGED <<asked, sidecar, text, damaged, lockFile, key, at, found, shown, faults, missed>>

(* The key is not found, or its sidecar cannot be read and is passed over. *)
Unseen(w) ==
  /\ pc[w] = "scan"
  /\ \/ KeyOf(key[w]) \subseteq damaged /\ UNCHANGED missed
     \/ KeyOf(key[w]) # {} /\ missed < MaxMissed /\ missed' = missed + 1

StartsVersion(w) ==
  LET o == key[w]  e == asked[o].entry IN
  /\ Unseen(w) /\ Fits(o) /\ Latest(e) < MaxVersion
  /\ at' = [at EXCEPT ![w] = Latest(e) + 1]
  /\ Goto(w, "sidecar")
  /\ UNCHANGED <<asked, sidecar, text, damaged, writer, lockFile, key, outcome, found, shown, faults>>

Conflicts(w) ==
  /\ Unseen(w) /\ ~Fits(key[w])
  /\ Ends(w, "failed") /\ Unlock
  /\ UNCHANGED <<asked, sidecar, text, damaged, lockFile, key, at, found, shown, faults>>

WriteSidecar(w) ==
  /\ pc[w] = "sidecar"
  /\ sidecar' = [sidecar EXCEPT ![asked[key[w]].entry][at[w]] = key[w]]
  /\ Goto(w, "text")
  /\ UNCHANGED <<asked, text, damaged, writer, lockFile, key, at, outcome, found, shown, faults, missed>>

(* The text, then the index, whose failure is only reported.               *)
WriteText(w) ==
  /\ pc[w] = "text"
  /\ text' = [text EXCEPT ![asked[key[w]].entry][at[w]] = key[w]]
  /\ Ends(w, "published") /\ Unlock
  /\ UNCHANGED <<asked, sidecar, damaged, lockFile, key, at, found, shown, faults, missed>>

(* An OSError ends the write where it is: before the first file, or with a *)
(* sidecar that has no text.                                               *)
WriteFails(w) ==
  /\ pc[w] \in {"sidecar", "text"}
  /\ faults < MaxFaults /\ faults' = faults + 1
  /\ Ends(w, "failed") /\ Unlock
  /\ UNCHANGED <<asked, sidecar, text, damaged, lockFile, key, at, found, shown, missed>>

(* Someone damages a file of the store. *)
Damage(e, v) ==
  /\ text[e][v] # NoWrite /\ <<e, v>> \notin damaged
  /\ faults < MaxFaults /\ faults' = faults + 1
  /\ damaged' = damaged \cup {<<e, v>>}
  /\ UNCHANGED <<asked, sidecar, text, writer, lockFile, pc, key, at, outcome, found, shown, missed>>

-----------------------------------------------------------------------------
(* Searching                                                               *)

(* Fault: a version is chosen after it was checked. *)
NewestReadable(e) ==
  LET ok == {v \in Versions : Readable(e, v)} IN
  IF ok = {} THEN 0 ELSE CHOOSE v \in ok : \A w \in ok : w <= v

(* The newest version of an entry, chosen before its content is checked.   *)
Newest(e) == Latest(e)

List(r) ==
  /\ found' = [found EXCEPT ![r] = [e \in Entries |-> Newest(e)]]
  /\ UNCHANGED <<asked, sidecar, text, damaged, writer, lockFile, pc, key, at, outcome, shown, faults, missed>>

(* What was listed is read later: it is returned when it can be read and   *)
(* otherwise reported and left out.                                        *)
Show(r, e) ==
  /\ found[r][e] # 0
  /\ shown' = IF Readable(e, found[r][e]) THEN [shown EXCEPT ![r][e] = found[r][e]] ELSE shown
  /\ found' = [found EXCEPT ![r][e] = 0]
  /\ UNCHANGED <<asked, sidecar, text, damaged, writer, lockFile, pc, key, at, outcome, faults, missed>>

=============================================================================
