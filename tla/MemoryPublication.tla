-------------------------- MODULE MemoryPublication --------------------------
(***************************************************************************)
(* The publication of memory by several Sessions into one store            *)
(* (session_memory.commit_pending): a short transaction that accepts the   *)
(* proposal, the write of its files, a short transaction that records the  *)
(* result.  The process may die between any two of them; the operation is  *)
(* then replayed, and a lock per proposal keeps two replays apart.         *)
(***************************************************************************)
EXTENDS MemoryStore

CONSTANTS Sessions, SessionOf

ASSUME SessionAssumption == SessionOf \in [Writes -> Sessions]

VARIABLES
  status,    (* memory_writes.status                                         *)
  proposer   (* the process that holds locks/<operation>.memory.lock          *)

vars == <<storeVars, status, proposer>>

Pending == {"proposed", "accepted"}
Settled == {"published", "failed", "rejected"}

TypeOK ==
  /\ StoreTypeOK
  /\ status \in [Writes -> Pending \cup Settled \cup {"none"}]
  /\ proposer \in [Writes -> Writers \cup {Nobody}]

Init ==
  /\ StoreInit
  /\ status = [o \in Writes |-> "none"]
  /\ proposer = [o \in Writes |-> Nobody]

-----------------------------------------------------------------------------
(* submit-evaluation or memory-revise inserts a proposal.  A round that    *)
(* has one in progress neither finishes nor takes a revision, so a Session *)
(* has at most one of them.                                                *)
Propose(o) ==
  /\ status[o] = "none"
  /\ \A p \in Writes : SessionOf[p] = SessionOf[o] => status[p] \notin Pending
  /\ status' = [status EXCEPT ![o] = "proposed"]
  /\ \E p \in Proposals : asked' = [asked EXCEPT ![o] = p]
  /\ UNCHANGED <<sidecar, text, damaged, writer, lockFile, pc, key, at, outcome, found, shown,
                 faults, missed, proposer>>

(* Fault: two calls work on the same proposal. *)
LockedBySome(o) == FALSE

LockedBy(o) == proposer[o] # Nobody

(* A call that finds its proposal locked returns what is recorded of it.   *)
Begin(w, o) ==
  /\ pc[w] = "idle" /\ status[o] \in Pending /\ ~LockedBy(o)
  /\ proposer' = [proposer EXCEPT ![o] = w]
  /\ key' = [key EXCEPT ![w] = o] /\ Goto(w, "check")
  /\ UNCHANGED <<asked, sidecar, text, damaged, writer, lockFile, at, outcome, found, shown,
                 faults, missed, status>>

(* Everything the proposal names still has its identity and the solution   *)
(* passes its threshold.                                                   *)
Accept(w) ==
  /\ pc[w] = "check" /\ asked[key[w]].ok
  /\ status' = [status EXCEPT ![key[w]] = "accepted"]
  /\ Goto(w, "accepted")
  /\ UNCHANGED <<asked, sidecar, text, damaged, writer, lockFile, key, at, outcome, found, shown,
                 faults, missed, proposer>>

(* It does not, or one of the files cannot be read this time.              *)
Reject(w) ==
  /\ pc[w] = "check"
  /\ \/ ~asked[key[w]].ok /\ UNCHANGED missed
     \/ missed < MaxMissed /\ missed' = missed + 1
  /\ Ends(w, "rejected")
  /\ UNCHANGED <<asked, sidecar, text, damaged, writer, lockFile, key, at, found, shown, faults,
                 status, proposer>>

Write(w) ==
  /\ \/ OpenWriter(w) \/ WriterBusy(w) \/ Replays(w) \/ StartsVersion(w) \/ Conflicts(w)
     \/ WriteSidecar(w) \/ WriteText(w) \/ WriteFails(w)
  /\ UNCHANGED <<status, proposer>>

(* Fault: the lock of a proposal outlives the process that took it. *)
LeaveLocked(w) ==
  /\ UNCHANGED proposer
  /\ key' = [key EXCEPT ![w] = NoWrite] /\ at' = [at EXCEPT ![w] = 0]
  /\ outcome' = [outcome EXCEPT ![w] = "none"]
  /\ Goto(w, "idle")

Leave(w) ==
  /\ proposer' = [o \in Writes |-> IF proposer[o] = w THEN Nobody ELSE proposer[o]]
  /\ key' = [key EXCEPT ![w] = NoWrite] /\ at' = [at EXCEPT ![w] = 0]
  /\ outcome' = [outcome EXCEPT ![w] = "none"]
  /\ Goto(w, "idle")

(* _record_status, last transaction of the publication. *)
Record(w) ==
  /\ pc[w] = "record"
  /\ status' = [status EXCEPT ![key[w]] = outcome[w]]
  /\ Leave(w)
  /\ UNCHANGED <<asked, sidecar, text, damaged, writer, lockFile, found, shown, faults, missed>>

(* The process dies or its transaction fails: the operating system lets go *)
(* of its locks, the proposal stays as it is recorded.                     *)
CallDies(w) ==
  /\ pc[w] # "idle"
  /\ faults < MaxFaults /\ faults' = faults + 1
  /\ writer' = IF writer = w THEN Nobody ELSE writer
  /\ Leave(w)
  /\ UNCHANGED <<asked, sidecar, text, damaged, lockFile, found, shown, missed, status>>

Step(w) ==
  \/ Accept(w) \/ Reject(w) \/ Write(w) \/ Record(w)

Outside ==
  /\ \/ OldWriterExits
     \/ \E e \in Entries, v \in Versions : Damage(e, v)
     \/ \E r \in Readers : List(r) \/ \E e \in Entries : Show(r, e)
  /\ UNCHANGED <<status, proposer>>

Next ==
  \/ \E o \in Writes : Propose(o)
  \/ \E w \in Writers : \/ \E o \in Writes : Begin(w, o)
                        \/ Step(w) \/ CallDies(w)
  \/ Outside

Spec == Init /\ [][Next]_vars

(* The processes are scheduled, and an Agent that finds a publication in   *)
(* progress replays its operation, as finish-round tells it to.            *)
Fairness ==
  /\ \A w \in Writers : WF_vars(Step(w))
  /\ \A o \in Writes : WF_vars(\E w \in Writers : Begin(w, o))

FairSpec == Spec /\ Fairness

-----------------------------------------------------------------------------
(* Safety                                                                  *)

(* A publication is stored at most once, however often it is replayed and  *)
(* even when a replay misses the sidecar of the first attempt: the         *)
(* comparison of versions stands in for the lost operation key.            *)
StoredOnce ==
  \A o \in Writes, x, y \in Entries \X Versions :
    sidecar[x[1]][x[2]] = o /\ sidecar[y[1]][y[2]] = o => x = y

(* No update is lost: what a version was based on is the version before    *)
(* it, complete when the new one was written, so that no two publications  *)
(* replace the same one.                                                   *)
ChainUnbroken ==
  \A e \in Entries, v \in Versions :
    text[e][v] \in Writes =>
      /\ sidecar[e][v] = text[e][v]
      /\ asked[text[e][v]].entry = e /\ asked[text[e][v]].base = v - 1
      /\ v > 1 => text[e][v - 1] # NoWrite

(* What a Session calls published is in the store.                         *)
PublishedIsStored ==
  \A o \in Writes : status[o] = "published" => \E x \in KeyOf(o) : text[x[1]][x[2]] = o

(* The store and the status of the publications agree.                     *)
StoreAgrees == StoredOnce /\ ChainUnbroken /\ PublishedIsStored

(* A proposal that a Session may revise, because it failed or was          *)
(* rejected, is not published (docs/cli-contract.md: published proposals   *)
(* cannot be revised).                                                     *)
RevisableIsUnpublished ==
  \A o \in Writes : status[o] \in {"failed", "rejected"} =>
    \A x \in KeyOf(o) : ~Readable(x[1], x[2])

-----------------------------------------------------------------------------
(* What a step may never do                                                *)

(* Versions are immutable: no file of a version is written a second time,  *)
(* not even the sidecar that a crash left without its text.                *)
VersionsImmutable ==
  [][\A e \in Entries, v \in Versions :
       /\ sidecar[e][v] # NoWrite => sidecar'[e][v] = sidecar[e][v]
       /\ text[e][v] # NoWrite => text'[e][v] = text[e][v]]_vars

(* Superseded advice never comes back: whatever is damaged or half         *)
(* written, a later search returns no older version of an entry.           *)
SearchNeverRegresses ==
  [][\A r \in Readers, e \in Entries : shown'[r][e] >= shown[r][e]]_vars

(* The result of a publication is final.                                   *)
ResultIsFinal ==
  [][\A o \in Writes : status[o] \in Settled => status'[o] = status[o]]_vars

(* What the store and the Sessions have said stays said.                   *)
HistoryKept == VersionsImmutable /\ SearchNeverRegresses /\ ResultIsFinal

(* The text files of an entry are a register each publication writes at    *)
(* most once, on top of the version it was based on.                       *)
Register == INSTANCE MemoryRegister WITH
  register <- text, proposal <- asked, status <- status,
  First <- [e \in Entries |-> [v \in Versions |->
              IF e \in Legacy /\ v = 1 THEN LegacyText ELSE NoWrite]]
ImplementsRegister == Register!Spec

-----------------------------------------------------------------------------
(* Liveness: every proposal is settled, whoever died while it was          *)
(* published; no lock outlives its owner.                                  *)
PublicationsSettle == \A o \in Writes : (status[o] = "proposed") ~> (status[o] \in Settled)

=============================================================================
