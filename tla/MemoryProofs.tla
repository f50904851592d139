---------------------------- MODULE MemoryProofs ----------------------------
(***************************************************************************)
(* Theorems about module MemoryPublication, for every number of entries,   *)
(* writes, processes and versions: what the store and the Sessions say of  *)
(* a publication agrees, what they have said stays said, and the text      *)
(* files implement the register that docs/protocol.md promises.            *)
(***************************************************************************)
EXTENDS MemoryPublication, WellFoundedInduction, TLAPS

-----------------------------------------------------------------------------
(* The inductive invariant                                                 *)

(* A process that works on a proposal holds its lock, and no other lock of *)
(* a proposal is held; .writer.lock is held exactly between opening it and *)
(* the end of the write.                                                   *)
LocksAreHeld ==
  /\ \A w \in Writers : key[w] # NoWrite => proposer[key[w]] = w
  /\ \A w \in Writers : pc[w] \in {"scan", "sidecar", "text"} <=> writer = w

(* A proposal that is worked on is pending, and accepted once it passed    *)
(* the check.                                                              *)
WorkIsPending ==
  /\ \A o \in Writes : status[o] # "none" => asked[o] \in Proposals
  /\ \A w \in Writers : key[w] # NoWrite => status[key[w]] \in Pending
  /\ \A w \in Writers :
       pc[w] \in {"accepted", "scan", "sidecar", "text"} => status[key[w]] = "accepted"

(* A sidecar stands where its proposal asked for, on top of a complete     *)
(* version; a text of a publication stands beside its own sidecar and a    *)
(* historical text beside none.                                            *)
FilesAreAsked ==
  \A e \in Entries, v \in Versions :
    /\ sidecar[e][v] # NoWrite =>
         /\ status[sidecar[e][v]] # "none"
         /\ asked[sidecar[e][v]].entry = e /\ asked[sidecar[e][v]].base = v - 1
         /\ v > 1 => text[e][v - 1] # NoWrite
    /\ text[e][v] \in Writes => sidecar[e][v] = text[e][v]
    /\ text[e][v] = LegacyText => sidecar[e][v] = NoWrite

(* The version a process is about to write follows the one its proposal is *)
(* based on, and nothing is stored from there on; between its two files it *)
(* has written the first.                                                  *)
WritesAreNext ==
  \A w \in Writers :
    LET o == key[w]  e == asked[o].entry IN
    /\ pc[w] \in {"sidecar", "text"} => at[w] \in Versions /\ at[w] = asked[o].base + 1
    /\ pc[w] = "sidecar" => /\ \A v \in Taken(e) : v < at[w]
                            /\ at[w] > 1 => text[e][at[w] - 1] # NoWrite
    /\ pc[w] = "text" => sidecar[e][at[w]] = o /\ text[e][at[w]] = NoWrite

(* A publication that is called published, or is about to be, is stored.   *)
Stored(o) == \E e \in Entries, v \in Versions : sidecar[e][v] = o /\ text[e][v] = o

SuccessIsStored ==
  /\ \A o \in Writes : status[o] = "published" => Stored(o)
  /\ \A w \in Writers : outcome[w] = "published" => Stored(key[w])

(* What a search returned is stored, and what it has listed is not older.  *)
SearchIsAhead ==
  \A r \in Readers, e \in Entries :
    /\ shown[r][e] # 0 => text[e][shown[r][e]] # NoWrite
    /\ found[r][e] # 0 => shown[r][e] <= found[r][e]

MemoryInv ==
  /\ TypeOK /\ LocksAreHeld /\ WorkIsPending /\ FilesAreAsked /\ WritesAreNext
  /\ SuccessIsStored /\ SearchIsAhead

-----------------------------------------------------------------------------
(* Versions are numbers up to a bound, so the newest one exists.           *)

(* A set of naturals that is not empty has a smallest element. *)
LEMMA Smallest ==
  ASSUME NEW T \in SUBSET Nat, T # {}
  PROVE  \E x \in T : \A y \in T : x <= y
<1> DEFINE Less == {p \in Nat \X Nat : p[1] < p[2]}
<1>1. IsWellFoundedOn(Less, Nat)
  BY NatLessThanWellFounded DEF OpToRel
<1>2. T \subseteq Nat
  OBVIOUS
<1> HIDE DEF Less
<1>3. \E x \in T : \A y \in T : ~ (<<y, x>> \in Less)
  BY <1>1, <1>2, WFMin
<1>4. \A x, y \in Nat : ~ (<<y, x>> \in Less) => x <= y
  BY DEF Less
<1>5. QED  BY <1>3, <1>4

(* A set of versions that is not empty has a newest one. *)
LEMMA Greatest ==
  ASSUME NEW n \in Nat, NEW T \in SUBSET (1..n), T # {}
  PROVE  \E x \in T : \A y \in T : y <= x
<1> DEFINE S == {k \in Nat : \E v \in T : k = n - v}
<1>1. S \in SUBSET Nat /\ S # {}
  <2>1. PICK v \in T : TRUE
    OBVIOUS
  <2>2. v \in 1..n /\ n - v \in Nat
    OBVIOUS
  <2>3. n - v \in S
    BY <2>2
  <2>4. QED  BY <2>3
<1>2. PICK s \in S : \A y \in S : s <= y
  BY <1>1, Smallest
<1>3. PICK x \in T : s = n - x
  BY <1>2
<1>4. ASSUME NEW y \in T PROVE y <= x
  <2>1. y \in 1..n /\ x \in 1..n /\ n - y \in Nat
    BY <1>4
  <2>2. n - y \in S
    BY <2>1
  <2>3. s <= n - y
    BY <1>2, <2>2
  <2>4. QED  BY <2>1, <2>3, <1>3
<1>5. QED  BY <1>4

(* Latest is 0 for an entry without versions and else the newest of them. *)
LEMMA LatestIsNewest ==
  ASSUME NEW e \in Entries
  PROVE  /\ Latest(e) \in 0..MaxVersion
         /\ \A v \in Taken(e) : v <= Latest(e)
         /\ Latest(e) # 0 => Latest(e) \in Taken(e)
<1>1. Taken(e) \in SUBSET (1..MaxVersion) /\ MaxVersion \in Nat
  BY StoreAssumption DEF Taken, Versions
<1>2. CASE Taken(e) = {}
  BY <1>1, <1>2 DEF Latest
<1>3. CASE Taken(e) # {}
  <2>1. \E x \in Taken(e) : \A y \in Taken(e) : y <= x
    BY <1>1, <1>3, Greatest
  <2>2. Latest(e) = CHOOSE v \in Taken(e) : \A w \in Taken(e) : w <= v
    BY <1>3 DEF Latest
  <2>3. Latest(e) \in Taken(e) /\ \A w \in Taken(e) : w <= Latest(e)
    BY <2>1, <2>2
  <2>4. QED  BY <1>1, <2>3
<1>4. QED  BY <1>2, <1>3

-----------------------------------------------------------------------------
(* Types                                                                   *)

(* TypeOK by what a step changes together: files, writers, readers, bounds *)
(* and what the Sessions record.                                           *)
FileTypes ==
  /\ asked \in [Writes -> Proposals \cup {NotAsked}]
  /\ sidecar \in [Entries -> [Versions -> Writes \cup {NoWrite}]]
  /\ text \in [Entries -> [Versions -> Writes \cup {NoWrite, LegacyText}]]
  /\ damaged \subseteq Entries \X Versions

WriterTypes ==
  /\ writer \in Writers \cup {Nobody}
  /\ lockFile \in {"live pid", "dead pid", "os-lock/v1"}
  /\ pc \in [Writers -> {"idle", "check", "accepted", "scan", "sidecar", "text", "record"}]
  /\ key \in [Writers -> Writes \cup {NoWrite}]
  /\ at \in [Writers -> 0..MaxVersion]
  /\ outcome \in [Writers -> {"none", "published", "failed", "rejected"}]

WriterRows ==
  \A w \in Writers : /\ pc[w] = "idle" <=> key[w] = NoWrite
                     /\ pc[w] = "record" <=> outcome[w] # "none"

ReaderTypes ==
  /\ found \in [Readers -> [Entries -> 0..MaxVersion]]
  /\ shown \in [Readers -> [Entries -> 0..MaxVersion]]

BoundTypes == faults \in 0..MaxFaults /\ missed \in 0..MaxMissed

RecordTypes ==
  /\ status \in [Writes -> Pending \cup Settled \cup {"none"}]
  /\ proposer \in [Writes -> Writers \cup {Nobody}]

LEMMA TypeGroups ==
  TypeOK <=> FileTypes /\ WriterTypes /\ WriterRows /\ ReaderTypes /\ BoundTypes /\ RecordTypes
BY DEF TypeOK, StoreTypeOK, FileTypes, WriterTypes, WriterRows, ReaderTypes, BoundTypes,
       RecordTypes

LEMMA InitType == Init => TypeOK
<1> SUFFICES ASSUME Init PROVE TypeOK
  OBVIOUS
<1>0. 0 \in 0..MaxVersion /\ 0 \in 0..MaxFaults /\ 0 \in 0..MaxMissed
  BY StoreAssumption
<1> USE DEF Init, StoreInit
<1>1. FileTypes
  BY DEF FileTypes
<1>2. WriterTypes
  BY <1>0 DEF WriterTypes
<1>6. WriterRows
  BY DEF WriterRows
<1>3. ReaderTypes 
  BY <1>0 DEF ReaderTypes
<1>7. BoundTypes
  BY <1>0 DEF BoundTypes
<1>4. RecordTypes
  BY DEF RecordTypes
<1> HIDE DEF Init, StoreInit
<1>5. QED  BY <1>1, <1>2, <1>6, <1>3, <1>7, <1>4, TypeGroups

(* Which steps write a file or a row of a proposal. *)
LEMMA FilesAreWrittenBy ==
  ASSUME [Next]_vars
  PROVE  \/ UNCHANGED <<asked, sidecar, text, status>>
         \/ \E o \in Writes : Propose(o)
         \/ \E w \in Writers : Accept(w) \/ Record(w)
         \/ \E w \in Writers : Write(w) /\ (WriteSidecar(w) \/ WriteText(w))
<1>1. ASSUME NEW w \in Writers, Write(w)
      PROVE  WriteSidecar(w) \/ WriteText(w) \/ UNCHANGED <<asked, sidecar, text, status>>
  BY <1>1 DEF Write, OpenWriter, WriterBusy, Replays, StartsVersion, Conflicts, WriteFails
<1>2. ASSUME NEW w \in Writers, Step(w)
      PROVE  \/ Accept(w) \/ Record(w) \/ UNCHANGED <<asked, sidecar, text, status>>
             \/ Write(w) /\ (WriteSidecar(w) \/ WriteText(w))
  BY <1>1, <1>2 DEF Step, Reject
<1>3. ASSUME Outside PROVE UNCHANGED <<asked, sidecar, text, status>>
  BY <1>3 DEF Outside, OldWriterExits, Damage, List, Show
<1>4. CASE UNCHANGED vars
  BY <1>4 DEF vars, storeVars
<1>6. CASE \E w \in Writers : Step(w)
  <2>1. PICK w \in Writers : Step(w)
    BY <1>6
  <2>2. QED  BY <1>2, <2>1
<1>7. CASE \E w \in Writers : CallDies(w) \/ \E o \in Writes : Begin(w, o)
  <2>1. PICK w \in Writers : CallDies(w) \/ \E o \in Writes : Begin(w, o)
    BY <1>7
  <2>2. CASE CallDies(w)
    BY <2>2 DEF CallDies
  <2>3. CASE \E o \in Writes : Begin(w, o)
    BY <2>3 DEF Begin
  <2>4. QED  BY <2>1, <2>2, <2>3
<1>8. QED  BY <1>3, <1>4, <1>6, <1>7 DEF Next

LEMMA DamageIsRecorded ==
  ASSUME [Next]_vars
  PROVE  \/ UNCHANGED damaged
         \/ \E e \in Entries, v \in Versions : damaged' = damaged \cup {<<e, v>>}
<1>1. CASE UNCHANGED vars
  BY <1>1 DEF vars, storeVars
<1>2. ASSUME NEW o \in Writes, Propose(o) PROVE UNCHANGED damaged
  BY <1>2 DEF Propose
<1>3. ASSUME NEW w \in Writers, NEW o \in Writes, Begin(w, o) PROVE UNCHANGED damaged
  BY <1>3 DEF Begin
<1>4. ASSUME NEW w \in Writers, CallDies(w) PROVE UNCHANGED damaged
  BY <1>4 DEF CallDies
<1>5. ASSUME NEW w \in Writers, Step(w) PROVE UNCHANGED damaged
  BY <1>5 DEF Step, Accept, Reject, Record, Write, OpenWriter, WriterBusy, Replays,
              StartsVersion, Conflicts, WriteSidecar, WriteText, WriteFails
<1>6. ASSUME Outside
      PROVE  \/ UNCHANGED damaged
             \/ \E e \in Entries, v \in Versions : damaged' = damaged \cup {<<e, v>>}
  BY <1>6 DEF Outside, OldWriterExits, Damage, List, Show
<1>7. QED  BY <1>1, <1>2, <1>3, <1>4, <1>5, <1>6 DEF Next

LEMMA FileTypesKept ==
  ASSUME TypeOK, [Next]_vars
  PROVE  FileTypes'
<1> USE TypeGroups DEF FileTypes
<1>1. CASE UNCHANGED <<asked, sidecar, text, status>>
  BY <1>1, DamageIsRecorded
<1>2. ASSUME NEW o \in Writes, Propose(o) PROVE FileTypes'
  BY <1>2 DEF Propose
<1>3. ASSUME NEW w \in Writers, Accept(w) \/ Record(w) PROVE FileTypes'
  BY <1>3 DEF Accept, Record
<1>4. ASSUME NEW w \in Writers, Write(w), WriteSidecar(w) PROVE FileTypes'
  <2>1. key[w] \in Writes
    BY <1>4 DEF WriteSidecar, WriterTypes, WriterRows
  <2>2. QED  BY <1>4, <2>1 DEF WriteSidecar
<1>5. ASSUME NEW w \in Writers, Write(w), WriteText(w) PROVE FileTypes'
  <2>1. key[w] \in Writes
    BY <1>5 DEF WriteText, WriterTypes, WriterRows
  <2>2. QED  BY <1>5, <2>1 DEF WriteText
<1>6. QED  BY <1>1, <1>2, <1>3, <1>4, <1>5, FilesAreWrittenBy


(* The steps of a writer, and those that are none. *)
LEMMA WritersMoveBy ==
  ASSUME [Next]_vars
  PROVE  \/ UNCHANGED <<writer, lockFile, pc, key, at, outcome>>
         \/ OldWriterExits
         \/ \E w \in Writers : Step(w) \/ CallDies(w) \/ \E o \in Writes : Begin(w, o)
<1>1. CASE UNCHANGED vars
  BY <1>1 DEF vars, storeVars
<1>2. ASSUME NEW o \in Writes, Propose(o) PROVE UNCHANGED <<writer, lockFile, pc, key, at, outcome>>
  BY <1>2 DEF Propose
<1>3. ASSUME Outside
      PROVE  OldWriterExits \/ UNCHANGED <<writer, lockFile, pc, key, at, outcome>>
  BY <1>3 DEF Outside, Damage, List, Show
<1>4. QED  BY <1>1, <1>2, <1>3 DEF Next

LEMMA NextVersion ==
  ASSUME NEW v \in 0..MaxVersion, v < MaxVersion
  PROVE  v + 1 \in 0..MaxVersion
BY StoreAssumption

LEMMA WriterTypesKept ==
  ASSUME TypeOK, WorkIsPending, [Next]_vars
  PROVE  WriterTypes'
<1>0. 0 \in 0..MaxVersion
  BY StoreAssumption
<1> USE TypeGroups DEF WriterTypes, Goto, Ends, Unlock
<1>1. CASE UNCHANGED <<writer, lockFile, pc, key, at, outcome>>
  BY <1>1
<1>2. CASE OldWriterExits
  BY <1>2 DEF OldWriterExits
<1>3. ASSUME NEW w \in Writers, NEW o \in Writes, Begin(w, o) PROVE WriterTypes'
  BY <1>3 DEF Begin
<1>4. ASSUME NEW w \in Writers, CallDies(w) PROVE WriterTypes'
  BY <1>0, <1>4 DEF CallDies, Leave
<1>5. ASSUME NEW w \in Writers, Accept(w) \/ Reject(w) PROVE WriterTypes'
  BY <1>5 DEF Accept, Reject
<1>6. ASSUME NEW w \in Writers, Record(w) PROVE WriterTypes'
  BY <1>0, <1>6 DEF Record, Leave
<1>7. ASSUME NEW w \in Writers, OpenWriter(w) \/ WriterBusy(w) PROVE WriterTypes'
  BY <1>7 DEF OpenWriter, WriterBusy
<1>8. ASSUME NEW w \in Writers, Replays(w) \/ Conflicts(w) PROVE WriterTypes'
  BY <1>8 DEF Replays, Conflicts
<1>9. ASSUME NEW w \in Writers, StartsVersion(w) PROVE WriterTypes'
  <2>1. key[w] \in Writes
    BY <1>9 DEF StartsVersion, Unseen, WriterRows
  <2>2. asked[key[w]] \in Proposals
    BY <1>9, <2>1 DEF WorkIsPending, StartsVersion, Unseen
  <2> DEFINE last == Latest(asked[key[w]].entry)
  <2>3. last \in 0..MaxVersion
    BY <2>2, LatestIsNewest DEF Proposals
  <2>4. last < MaxVersion /\ at' = [at EXCEPT ![w] = last + 1]
    BY <1>9 DEF StartsVersion
  <2> HIDE DEF last
  <2>5. last + 1 \in 0..MaxVersion
    BY <2>3, <2>4, NextVersion
  <2>6. QED  BY <1>9, <2>4, <2>5 DEF StartsVersion
<1>10. ASSUME NEW w \in Writers, WriteSidecar(w) \/ WriteText(w) \/ WriteFails(w)
       PROVE  WriterTypes'
  BY <1>10 DEF WriteSidecar, WriteText, WriteFails
<1>11. QED
  BY <1>1, <1>2, <1>3, <1>4, <1>5, <1>6, <1>7, <1>8, <1>9, <1>10, WritersMoveBy DEF Step, Write


LEMMA WriterRowsKept ==
  ASSUME TypeOK, WorkIsPending, [Next]_vars
  PROVE  WriterRows'
<1> USE TypeGroups DEF WriterTypes, WriterRows, Goto, Ends, Unlock
<1>1. CASE UNCHANGED <<writer, lockFile, pc, key, at, outcome>>
  BY <1>1
<1>2. CASE OldWriterExits
  BY <1>2 DEF OldWriterExits
<1>3. ASSUME NEW w \in Writers, NEW o \in Writes, Begin(w, o) PROVE WriterRows'
  BY <1>3, StoreAssumption DEF Begin
<1>4. ASSUME NEW w \in Writers, CallDies(w) PROVE WriterRows'
  BY <1>4 DEF CallDies, Leave
<1>5. ASSUME NEW w \in Writers, Accept(w) \/ Reject(w) PROVE WriterRows'
  BY <1>5 DEF Accept, Reject
<1>6. ASSUME NEW w \in Writers, Record(w) PROVE WriterRows'
  BY <1>6 DEF Record, Leave
<1>7. ASSUME NEW w \in Writers, OpenWriter(w) \/ WriterBusy(w), UNCHANGED key PROVE WriterRows'
  BY <1>7 DEF OpenWriter, WriterBusy
<1>8. ASSUME NEW w \in Writers, Replays(w) \/ Conflicts(w) PROVE WriterRows'
  BY <1>8 DEF Replays, Conflicts, Unseen
<1>9. ASSUME NEW w \in Writers, StartsVersion(w) PROVE WriterRows'
  BY <1>9 DEF StartsVersion, Unseen
<1>10. ASSUME NEW w \in Writers, WriteSidecar(w) \/ WriteText(w) \/ WriteFails(w)
       PROVE  WriterRows'
  BY <1>10 DEF WriteSidecar, WriteText, WriteFails
<1>11. ASSUME NEW w \in Writers, OpenWriter(w) \/ WriterBusy(w) PROVE UNCHANGED key
  BY <1>11 DEF OpenWriter, WriterBusy
<1> HIDE DEF WriterRows
<1>12. QED
  BY <1>1, <1>2, <1>3, <1>4, <1>5, <1>6, <1>7, <1>8, <1>9, <1>10, <1>11, WritersMoveBy
     DEF Step, Write

(* Nothing but a search changes what the readers keep. *)
LEMMA ReadersReadBy ==
  ASSUME [Next]_vars
  PROVE  \/ UNCHANGED <<found, shown>>
         \/ \E r \in Readers : List(r) \/ \E e \in Entries : Show(r, e)
<1>1. CASE UNCHANGED vars
  BY <1>1 DEF vars, storeVars
<1>2. ASSUME NEW o \in Writes, Propose(o) PROVE UNCHANGED <<found, shown>>
  BY <1>2 DEF Propose
<1>3. ASSUME NEW w \in Writers, NEW o \in Writes, Begin(w, o) PROVE UNCHANGED <<found, shown>>
  BY <1>3 DEF Begin
<1>4. ASSUME NEW w \in Writers, CallDies(w) PROVE UNCHANGED <<found, shown>>
  BY <1>4 DEF CallDies
<1>5. ASSUME NEW w \in Writers, Step(w) PROVE UNCHANGED <<found, shown>>
  BY <1>5 DEF Step, Accept, Reject, Record, Write, OpenWriter, WriterBusy, Replays,
              StartsVersion, Conflicts, WriteSidecar, WriteText, WriteFails
<1>6. ASSUME Outside
      PROVE  \/ UNCHANGED <<found, shown>>
             \/ \E r \in Readers : List(r) \/ \E e \in Entries : Show(r, e)
  BY <1>6 DEF Outside, OldWriterExits, Damage
<1>7. QED  BY <1>1, <1>2, <1>3, <1>4, <1>5, <1>6 DEF Next

LEMMA ReaderTypesKept ==
  ASSUME TypeOK, [Next]_vars
  PROVE  ReaderTypes'
<1> USE TypeGroups DEF ReaderTypes
<1>1. CASE UNCHANGED <<found, shown>>
  BY <1>1
<1>2. ASSUME NEW r \in Readers, List(r) PROVE ReaderTypes'
  <2>1. [e \in Entries |-> Newest(e)] \in [Entries -> 0..MaxVersion]
    BY LatestIsNewest DEF Newest
  <2>2. QED  BY <1>2, <2>1 DEF List
<1>3. ASSUME NEW r \in Readers, NEW e \in Entries, Show(r, e) PROVE ReaderTypes'
  <2>1. 0 \in 0..MaxVersion
    BY StoreAssumption
  <2>2. QED  BY <1>3, <2>1 DEF Show
<1>4. QED  BY <1>1, <1>2, <1>3, ReadersReadBy


LEMMA BoundTypesKept ==
  ASSUME TypeOK, [Next]_vars
  PROVE  BoundTypes'
<1> USE TypeGroups, StoreAssumption DEF BoundTypes
<1>1. CASE UNCHANGED vars
  BY <1>1 DEF vars, storeVars
<1>2. ASSUME NEW o \in Writes, Propose(o) PROVE BoundTypes'
  BY <1>2 DEF Propose
<1>3. ASSUME NEW w \in Writers, NEW o \in Writes, Begin(w, o) PROVE BoundTypes'
  BY <1>3 DEF Begin
<1>4. ASSUME NEW w \in Writers, CallDies(w) \/ Accept(w) \/ Reject(w) \/ Record(w)
      PROVE  BoundTypes'
  BY <1>4 DEF CallDies, Accept, Reject, Record
<1>5. ASSUME NEW w \in Writers, Write(w) PROVE BoundTypes'
  <2>1. CASE UNCHANGED <<faults, missed>>
    BY <2>1
  <2>2. CASE WriteFails(w)
    BY <2>2 DEF WriteFails
  <2>3. CASE Unseen(w) /\ UNCHANGED faults
    BY <2>3 DEF Unseen
  <2>4. QED
    BY <1>5, <2>1, <2>2, <2>3
       DEF Write, OpenWriter, WriterBusy, Replays, StartsVersion, Conflicts, WriteSidecar, WriteText
<1>6. ASSUME Outside PROVE BoundTypes'
  <2>1. CASE UNCHANGED <<faults, missed>>
    BY <2>1
  <2>2. ASSUME NEW e \in Entries, NEW v \in Versions, Damage(e, v) PROVE BoundTypes'
    BY <2>2 DEF Damage
  <2>3. QED  BY <1>6, <2>1, <2>2 DEF Outside, OldWriterExits, List, Show
<1>7. QED  BY <1>1, <1>2, <1>3, <1>4, <1>5, <1>6 DEF Next, Step

(* Which steps record what a Session says, or take the lock of a proposal. *)
LEMMA RecordTypesKept ==
  ASSUME TypeOK, [Next]_vars
  PROVE  RecordTypes'
<1> USE TypeGroups DEF RecordTypes
<1>1. CASE UNCHANGED <<status, proposer>>
  BY <1>1
<1>2. ASSUME NEW o \in Writes, Propose(o) PROVE RecordTypes'
  BY <1>2 DEF Propose, Pending
<1>3. ASSUME NEW w \in Writers, NEW o \in Writes, Begin(w, o) PROVE RecordTypes'
  BY <1>3 DEF Begin
<1>4. ASSUME NEW w \in Writers, CallDies(w) PROVE RecordTypes'
  BY <1>4 DEF CallDies, Leave
<1>5. ASSUME NEW w \in Writers, Accept(w) PROVE RecordTypes'
  BY <1>5 DEF Accept, Pending
<1>6. ASSUME NEW w \in Writers, Reject(w) \/ Write(w) PROVE UNCHANGED <<status, proposer>>
  BY <1>6 DEF Reject, Write
<1>7. ASSUME NEW w \in Writers, Record(w) PROVE RecordTypes'
  <2>1. outcome[w] \in Settled
    BY <1>7 DEF Record, WriterTypes, WriterRows, Settled
  <2>2. status' \in [Writes -> Pending \cup Settled \cup {"none"}]
    BY <1>7, <2>1 DEF Record
  <2>3. proposer' \in [Writes -> Writers \cup {Nobody}]
    BY <1>7 DEF Record, Leave
  <2>4. QED  BY <2>2, <2>3
<1>8. QED  BY <1>1, <1>2, <1>3, <1>4, <1>5, <1>6, <1>7 DEF Next, Step, Outside, vars

-----------------------------------------------------------------------------
(* The locks                                                               *)

(* What a write does to the locks and to the position of its process. *)
LEMMA WriteMoves ==
  ASSUME NEW w \in Writers, Write(w)
  PROVE  /\ UNCHANGED <<key, proposer, status, asked>>
         /\ \/ /\ pc[w] = "accepted" /\ writer = Nobody /\ writer' = w
               /\ pc' = [pc EXCEPT ![w] = "scan"] /\ UNCHANGED outcome
            \/ /\ pc[w] = "accepted" /\ UNCHANGED writer
               /\ pc' = [pc EXCEPT ![w] = "record"]
            \/ /\ pc[w] = "scan" /\ UNCHANGED <<writer, outcome>>
               /\ pc' = [pc EXCEPT ![w] = "sidecar"]
            \/ /\ pc[w] = "sidecar" /\ UNCHANGED <<writer, outcome>>
               /\ pc' = [pc EXCEPT ![w] = "text"]
            \/ /\ pc[w] \in {"scan", "sidecar", "text"} /\ writer' = Nobody
               /\ pc' = [pc EXCEPT ![w] = "record"]
<1> USE DEF Goto, Ends, Unlock
<1>1. CASE OpenWriter(w)
  BY <1>1 DEF Write, OpenWriter
<1>2. CASE WriterBusy(w)
  BY <1>2 DEF Write, WriterBusy
<1>3. CASE Replays(w)
  BY <1>3 DEF Write, Replays
<1>4. CASE StartsVersion(w)
  BY <1>4 DEF Write, StartsVersion, Unseen
<1>5. CASE Conflicts(w)
  BY <1>5 DEF Write, Conflicts, Unseen
<1>6. CASE WriteSidecar(w)
  BY <1>6 DEF Write, WriteSidecar
<1>7. CASE WriteText(w)
  BY <1>7 DEF Write, WriteText
<1>8. CASE WriteFails(w)
  BY <1>8 DEF Write, WriteFails
<1>9. QED  BY <1>1, <1>2, <1>3, <1>4, <1>5, <1>6, <1>7, <1>8 DEF Write

LEMMA LocksKept ==
  ASSUME TypeOK, LocksAreHeld, [Next]_vars
  PROVE  LocksAreHeld'
<1>1. /\ writer \in Writers \cup {Nobody} /\ Nobody \notin Writers
      /\ pc \in [Writers -> {"idle", "check", "accepted", "scan", "sidecar", "text", "record"}]
      /\ key \in [Writers -> Writes \cup {NoWrite}] /\ NoWrite \notin Writes
      /\ proposer \in [Writes -> Writers \cup {Nobody}]
      /\ \A w \in Writers : pc[w] = "idle" <=> key[w] = NoWrite
  BY TypeGroups, StoreAssumption DEF WriterTypes, WriterRows, RecordTypes
<1>2. CASE UNCHANGED <<writer, pc, key, proposer>>
  BY <1>2 DEF LocksAreHeld
<1>3. ASSUME NEW w \in Writers, NEW o \in Writes, Begin(w, o) PROVE LocksAreHeld'
  <2>1. /\ UNCHANGED writer /\ proposer[o] = Nobody /\ pc[w] = "idle"
        /\ proposer' = [proposer EXCEPT ![o] = w]
        /\ key' = [key EXCEPT ![w] = o] /\ pc' = [pc EXCEPT ![w] = "check"]
    BY <1>3 DEF Begin, LockedBy, Goto
  <2>2. ASSUME NEW x \in Writers, key'[x] # NoWrite PROVE proposer'[key'[x]] = x
    BY <1>1, <2>1, <2>2 DEF LocksAreHeld
  <2>3. ASSUME NEW x \in Writers
        PROVE  pc'[x] \in {"scan", "sidecar", "text"} <=> writer' = x
    BY <1>1, <2>1, <2>3 DEF LocksAreHeld
  <2>4. QED  BY <2>2, <2>3 DEF LocksAreHeld
<1>4. ASSUME NEW w \in Writers, CallDies(w) \/ Record(w) PROVE LocksAreHeld'
  <2>1. /\ proposer' = [o \in Writes |-> IF proposer[o] = w THEN Nobody ELSE proposer[o]]
        /\ key' = [key EXCEPT ![w] = NoWrite] /\ pc' = [pc EXCEPT ![w] = "idle"]
        /\ writer' = IF writer = w THEN Nobody ELSE writer
    BY <1>4 DEF CallDies, Record, Leave, Goto, LocksAreHeld
  <2>2. ASSUME NEW x \in Writers, key'[x] # NoWrite PROVE proposer'[key'[x]] = x
    BY <1>1, <2>1, <2>2 DEF LocksAreHeld
  <2>3. ASSUME NEW x \in Writers
        PROVE  pc'[x] \in {"scan", "sidecar", "text"} <=> writer' = x
    BY <1>1, <2>1, <2>3 DEF LocksAreHeld
  <2>4. QED  BY <2>2, <2>3 DEF LocksAreHeld
<1>5. ASSUME NEW w \in Writers, Accept(w) \/ Reject(w) PROVE LocksAreHeld'
  <2>1. /\ UNCHANGED <<writer, key, proposer>> /\ pc[w] = "check"
        /\ \E where \in {"accepted", "record"} : pc' = [pc EXCEPT ![w] = where]
    BY <1>5 DEF Accept, Reject, Ends, Goto
  <2>2. ASSUME NEW x \in Writers
        PROVE  pc'[x] \in {"scan", "sidecar", "text"} <=> writer' = x
    BY <1>1, <2>1, <2>2 DEF LocksAreHeld
  <2>3. QED  BY <2>1, <2>2 DEF LocksAreHeld
<1>6. ASSUME NEW w \in Writers, Write(w) PROVE LocksAreHeld'
  <2>1. ASSUME NEW x \in Writers
        PROVE  pc'[x] \in {"scan", "sidecar", "text"} <=> writer' = x
    BY <1>1, <1>6, <2>1, WriteMoves DEF LocksAreHeld
  <2>2. QED  BY <1>6, <2>1, WriteMoves DEF LocksAreHeld
<1>7. ASSUME NEW o \in Writes, Propose(o) PROVE UNCHANGED <<writer, pc, key, proposer>>
  BY <1>7 DEF Propose
<1>8. ASSUME Outside PROVE UNCHANGED <<writer, pc, key, proposer>>
  BY <1>8 DEF Outside, OldWriterExits, Damage, List, Show
<1>9. ASSUME NEW w \in Writers, Step(w) PROVE LocksAreHeld'
  BY <1>4, <1>5, <1>6, <1>9 DEF Step
<1>10. CASE UNCHANGED vars
  BY <1>2, <1>10 DEF vars, storeVars
<1>11. QED  BY <1>2, <1>3, <1>4, <1>7, <1>8, <1>9, <1>10 DEF Next


-----------------------------------------------------------------------------
(* The proposals that are worked on                                        *)

LEMMA WorkKept ==
  ASSUME TypeOK, LocksAreHeld, WorkIsPending, [Next]_vars
  PROVE  WorkIsPending'
<1>1. /\ pc \in [Writers -> {"idle", "check", "accepted", "scan", "sidecar", "text", "record"}]
      /\ key \in [Writers -> Writes \cup {NoWrite}] /\ NoWrite \notin Writes
      /\ status \in [Writes -> Pending \cup Settled \cup {"none"}]
      /\ asked \in [Writes -> Proposals \cup {NotAsked}]
      /\ \A w \in Writers : pc[w] = "idle" <=> key[w] = NoWrite
  BY TypeGroups, StoreAssumption DEF WriterTypes, WriterRows, RecordTypes, FileTypes
<1>2. CASE UNCHANGED <<pc, key, status, asked>>
  BY <1>2 DEF WorkIsPending
<1>3. ASSUME NEW o \in Writes, Propose(o) PROVE WorkIsPending'
  <2>1. /\ status[o] = "none" /\ status' = [status EXCEPT ![o] = "proposed"]
        /\ UNCHANGED <<pc, key>>
    BY <1>3 DEF Propose
  <2>2. PICK p \in Proposals : asked' = [asked EXCEPT ![o] = p]
    BY <1>3 DEF Propose
  <2>3. \A w \in Writers : key[w] # o
    BY <1>1, <2>1 DEF WorkIsPending, Pending
  <2>4. QED  BY <1>1, <2>1, <2>2, <2>3 DEF WorkIsPending, Pending
<1>4. ASSUME NEW w \in Writers, NEW o \in Writes, Begin(w, o) PROVE WorkIsPending'
  <2>1. /\ UNCHANGED <<status, asked>> /\ status[o] \in Pending
        /\ key' = [key EXCEPT ![w] = o] /\ pc' = [pc EXCEPT ![w] = "check"]
    BY <1>4 DEF Begin, Goto
  <2>2. QED  BY <1>1, <2>1 DEF WorkIsPending
<1>5. ASSUME NEW w \in Writers, CallDies(w) PROVE WorkIsPending'
  <2>1. /\ UNCHANGED <<status, asked>>
        /\ key' = [key EXCEPT ![w] = NoWrite] /\ pc' = [pc EXCEPT ![w] = "idle"]
    BY <1>5 DEF CallDies, Leave, Goto
  <2>2. QED  BY <1>1, <2>1 DEF WorkIsPending
<1>6. ASSUME NEW w \in Writers, Accept(w) PROVE WorkIsPending'
  <2>1. /\ UNCHANGED <<key, asked>> /\ pc[w] = "check"
        /\ status' = [status EXCEPT ![key[w]] = "accepted"]
        /\ pc' = [pc EXCEPT ![w] = "accepted"]
    BY <1>6 DEF Accept, Goto
  <2>2. key[w] \in Writes /\ status[key[w]] \in Pending
    BY <1>1, <2>1 DEF WorkIsPending
  <2>3. "accepted" \in Pending /\ status[key[w]] # "none"
    BY <2>2 DEF Pending
  <2>4. QED  BY <1>1, <2>1, <2>2, <2>3 DEF WorkIsPending
<1>7. ASSUME NEW w \in Writers, Reject(w) PROVE WorkIsPending'
  <2>1. UNCHANGED <<key, asked, status>> /\ pc' = [pc EXCEPT ![w] = "record"]
    BY <1>7 DEF Reject, Ends, Goto
  <2>2. QED  BY <1>1, <2>1 DEF WorkIsPending
<1>8. ASSUME NEW w \in Writers, Write(w) PROVE WorkIsPending'
  <2>1. /\ UNCHANGED <<key, asked, status>> /\ pc[w] \in {"accepted", "scan", "sidecar", "text"}
        /\ \E where \in {"scan", "sidecar", "text", "record"} : pc' = [pc EXCEPT ![w] = where]
    BY <1>8, WriteMoves
  <2>2. QED  BY <1>1, <2>1 DEF WorkIsPending
<1>9. ASSUME NEW w \in Writers, Record(w) PROVE WorkIsPending'
  <2>1. /\ UNCHANGED asked /\ pc[w] = "record"
        /\ status' = [status EXCEPT ![key[w]] = outcome[w]]
        /\ key' = [key EXCEPT ![w] = NoWrite] /\ pc' = [pc EXCEPT ![w] = "idle"]
    BY <1>9 DEF Record, Leave, Goto
  <2>2. key[w] \in Writes /\ status[key[w]] \in Pending
    BY <1>1, <2>1 DEF WorkIsPending
  <2>3. \A x \in Writers \ {w} : key[x] # key[w]
    BY <1>1, <2>2 DEF LocksAreHeld
  <2>4. asked[key[w]] \in Proposals
    BY <2>2 DEF WorkIsPending, Pending
  <2>5. QED  BY <1>1, <2>1, <2>2, <2>3, <2>4 DEF WorkIsPending
<1>10. ASSUME Outside PROVE UNCHANGED <<pc, key, status, asked>>
  BY <1>10 DEF Outside, OldWriterExits, Damage, List, Show
<1>11. ASSUME NEW w \in Writers, Step(w) PROVE WorkIsPending'
  BY <1>6, <1>7, <1>8, <1>9, <1>11 DEF Step
<1>12. CASE UNCHANGED vars
  BY <1>2, <1>12 DEF vars, storeVars
<1>13. QED  BY <1>2, <1>3, <1>4, <1>5, <1>10, <1>11, <1>12 DEF Next

-----------------------------------------------------------------------------
(* The files                                                               *)

(* What a writer writes next stands behind everything that is stored.      *)
LEMMA SidecarIsNew ==
  ASSUME MemoryInv, NEW w \in Writers, pc[w] = "sidecar"
  PROVE  LET o == key[w]  e == asked[o].entry IN
         /\ o \in Writes /\ e \in Entries /\ at[w] \in Versions
         /\ status[o] = "accepted" /\ at[w] = asked[o].base + 1
         /\ asked[o].base \in 0..MaxVersion
         /\ sidecar[e][at[w]] = NoWrite /\ text[e][at[w]] = NoWrite
         /\ \A v \in Versions : v > at[w] => sidecar[e][v] = NoWrite /\ text[e][v] = NoWrite
         /\ at[w] > 1 => text[e][at[w] - 1] # NoWrite
<1> DEFINE o == key[w]  e == asked[o].entry
<1>1. o \in Writes /\ status[o] = "accepted"
  <2>1. WriterTypes /\ WriterRows /\ WorkIsPending
    BY TypeGroups DEF MemoryInv
  <2>2. key[w] \in Writes
    BY <2>1 DEF WriterTypes, WriterRows
  <2>3. status[key[w]] = "accepted"
    BY <2>1 DEF WorkIsPending
  <2>4. QED  BY <2>2, <2>3
<1>2. asked[o] \in Proposals
  BY <1>1 DEF MemoryInv, WorkIsPending
<1>3. e \in Entries /\ asked[o].base \in 0..MaxVersion
  BY <1>2 DEF Proposals
<1>4. /\ at[w] \in Versions /\ at[w] = asked[o].base + 1
      /\ \A v \in Taken(e) : v < at[w]
      /\ at[w] > 1 => text[e][at[w] - 1] # NoWrite
  BY DEF MemoryInv, WritesAreNext
<1>5. \A v \in Versions : v >= at[w] => sidecar[e][v] = NoWrite /\ text[e][v] = NoWrite
  BY <1>4 DEF Taken, Versions
<1>6. QED  BY <1>1, <1>3, <1>4, <1>5 DEF Versions

LEMMA TextIsNew ==
  ASSUME MemoryInv, NEW w \in Writers, pc[w] = "text"
  PROVE  LET o == key[w]  e == asked[o].entry IN
         /\ o \in Writes /\ e \in Entries /\ at[w] \in Versions
         /\ status[o] = "accepted" /\ at[w] = asked[o].base + 1
         /\ asked[o].base \in 0..MaxVersion
         /\ sidecar[e][at[w]] = o /\ text[e][at[w]] = NoWrite
         /\ at[w] > 1 => text[e][at[w] - 1] # NoWrite
<1> DEFINE o == key[w]  e == asked[o].entry
<1>1. o \in Writes /\ status[o] = "accepted"
  <2>1. WriterTypes /\ WriterRows /\ WorkIsPending
    BY TypeGroups DEF MemoryInv
  <2>2. key[w] \in Writes
    BY <2>1 DEF WriterTypes, WriterRows
  <2>3. status[key[w]] = "accepted"
    BY <2>1 DEF WorkIsPending
  <2>4. QED  BY <2>2, <2>3
<1>2. asked[o] \in Proposals
  BY <1>1 DEF MemoryInv, WorkIsPending
<1>3. e \in Entries /\ asked[o].base \in 0..MaxVersion
  BY <1>2 DEF Proposals
<1>4. /\ at[w] \in Versions /\ at[w] = asked[o].base + 1
      /\ sidecar[e][at[w]] = o /\ text[e][at[w]] = NoWrite
  BY DEF MemoryInv, WritesAreNext
<1>5. at[w] > 1 => text[e][at[w] - 1] # NoWrite
  BY <1>1, <1>3, <1>4, StoreAssumption DEF MemoryInv, FilesAreAsked
<1>6. QED  BY <1>1, <1>3, <1>4, <1>5


(* The files after a step, by the one file it wrote. *)
LEMMA FilesKept ==
  ASSUME MemoryInv, [Next]_vars
  PROVE  FilesAreAsked'
<1>1. /\ sidecar \in [Entries -> [Versions -> Writes \cup {NoWrite}]]
      /\ text \in [Entries -> [Versions -> Writes \cup {NoWrite, LegacyText}]]
      /\ status \in [Writes -> Pending \cup Settled \cup {"none"}]
      /\ asked \in [Writes -> Proposals \cup {NotAsked}]
      /\ NoWrite \notin Writes /\ LegacyText \notin Writes /\ LegacyText # NoWrite
  BY TypeGroups, StoreAssumption DEF MemoryInv, RecordTypes, FileTypes
<1>2. FilesAreAsked
  BY DEF MemoryInv
<1>3. CASE UNCHANGED <<asked, sidecar, text, status>>
  BY <1>2, <1>3 DEF FilesAreAsked
<1>4. ASSUME NEW o \in Writes, Propose(o) PROVE FilesAreAsked'
  <2>1. /\ UNCHANGED <<sidecar, text>> /\ status[o] = "none"
        /\ status' = [status EXCEPT ![o] = "proposed"]
        /\ \A p \in Writes \ {o} : asked'[p] = asked[p]
    BY <1>1, <1>4 DEF Propose
  <2>2. \A e \in Entries, v \in Versions : sidecar[e][v] # o
    BY <1>1, <1>2, <1>4, <2>1 DEF FilesAreAsked
  <2>3. QED  BY <1>1, <1>2, <2>1, <2>2 DEF FilesAreAsked
<1>5. ASSUME NEW w \in Writers, Accept(w) \/ Record(w) PROVE FilesAreAsked'
  <2>1. UNCHANGED <<asked, sidecar, text>>
    BY <1>5 DEF Accept, Record
  <2>2. \A o \in Writes : status[o] # "none" => status'[o] # "none"
    BY <1>1, <1>5, TypeGroups
       DEF Accept, Record, MemoryInv, WriterTypes, WriterRows
  <2>3. QED  BY <1>1, <1>2, <2>1, <2>2 DEF FilesAreAsked
<1>6. ASSUME NEW w \in Writers, Write(w), WriteSidecar(w) PROVE FilesAreAsked'
  <2> DEFINE o == key[w]  e == asked[o].entry  v == at[w]
  <2>1. /\ UNCHANGED <<asked, text, status>> /\ pc[w] = "sidecar"
        /\ sidecar' = [sidecar EXCEPT ![e][v] = o]
    BY <1>6 DEF WriteSidecar, Write
  <2>2. /\ o \in Writes /\ e \in Entries /\ v \in Versions /\ asked[o].base = v - 1
        /\ status[o] # "none" /\ text[e][v] = NoWrite
        /\ v > 1 => text[e][v - 1] # NoWrite
    BY <2>1, SidecarIsNew DEF Versions
  <2>3. sidecar'[e][v] = o
    BY <1>1, <2>1, <2>2
  <2>4. \A f \in Entries, x \in Versions : f # e \/ x # v => sidecar'[f][x] = sidecar[f][x]
    BY <1>1, <2>1, <2>2
  <2> HIDE DEF o, e, v
  <2>5. ASSUME NEW f \in Entries, NEW x \in Versions
        PROVE  /\ sidecar'[f][x] # NoWrite =>
                    /\ status[sidecar'[f][x]] # "none"
                    /\ asked[sidecar'[f][x]].entry = f /\ asked[sidecar'[f][x]].base = x - 1
                    /\ x > 1 => text[f][x - 1] # NoWrite
               /\ text[f][x] \in Writes => sidecar'[f][x] = text[f][x]
               /\ text[f][x] = LegacyText => sidecar'[f][x] = NoWrite
    <3>1. CASE f = e /\ x = v
      BY <1>1, <2>2, <2>3, <3>1 DEF e
    <3>2. CASE f # e \/ x # v
      BY <1>2, <2>4, <3>2 DEF FilesAreAsked
    <3>3. QED  BY <3>1, <3>2
  <2>6. QED  BY <2>1, <2>5 DEF FilesAreAsked
<1>7. ASSUME NEW w \in Writers, Write(w), WriteText(w) PROVE FilesAreAsked'
  <2> DEFINE o == key[w]  e == asked[o].entry  v == at[w]
  <2>1. /\ UNCHANGED <<asked, sidecar, status>> /\ pc[w] = "text"
        /\ text' = [text EXCEPT ![e][v] = o]
    BY <1>7 DEF WriteText, Write
  <2>2. o \in Writes /\ e \in Entries /\ v \in Versions /\ sidecar[e][v] = o
    BY <2>1, TextIsNew
  <2>3. text'[e][v] = o
    BY <1>1, <2>1, <2>2
  <2>4. \A f \in Entries, x \in Versions : f # e \/ x # v => text'[f][x] = text[f][x]
    BY <1>1, <2>1, <2>2
  <2> HIDE DEF o, e, v
  <2>5. \A f \in Entries, x \in Versions : text[f][x] # NoWrite => text'[f][x] # NoWrite
    BY <1>1, <2>2, <2>3, <2>4
  <2>6. \A x \in Versions : x > 1 => x - 1 \in Versions
    BY StoreAssumption DEF Versions
  <2>7. QED  BY <1>1, <1>2, <2>1, <2>2, <2>3, <2>4, <2>5, <2>6 DEF FilesAreAsked
<1>8. QED  BY <1>3, <1>4, <1>5, <1>6, <1>7, FilesAreWrittenBy

(* Nothing that is stored changes, and a step stores one file of one       *)
(* version at most.                                                        *)
LEMMA FilesStay ==
  ASSUME MemoryInv, [Next]_vars, NEW e \in Entries, NEW v \in Versions
  PROVE  /\ sidecar[e][v] # NoWrite => sidecar'[e][v] = sidecar[e][v]
         /\ text[e][v] # NoWrite => text'[e][v] = text[e][v]
<1>1. /\ sidecar \in [Entries -> [Versions -> Writes \cup {NoWrite}]]
      /\ text \in [Entries -> [Versions -> Writes \cup {NoWrite, LegacyText}]]
  BY TypeGroups DEF MemoryInv, FileTypes
<1>2. ASSUME NEW o \in Writes, Propose(o) PROVE UNCHANGED <<sidecar, text>>
  BY <1>2 DEF Propose
<1>3. ASSUME NEW w \in Writers, Accept(w) \/ Record(w) PROVE UNCHANGED <<sidecar, text>>
  BY <1>3 DEF Accept, Record
<1>4. ASSUME NEW w \in Writers, WriteSidecar(w)
      PROVE  /\ sidecar[e][v] # NoWrite => sidecar'[e][v] = sidecar[e][v]
             /\ UNCHANGED text
  <2>1. /\ UNCHANGED text /\ pc[w] = "sidecar"
        /\ sidecar' = [sidecar EXCEPT ![asked[key[w]].entry][at[w]] = key[w]]
    BY <1>4 DEF WriteSidecar
  <2>2. QED  BY <1>1, <2>1, SidecarIsNew
<1>5. ASSUME NEW w \in Writers, WriteText(w)
      PROVE  /\ text[e][v] # NoWrite => text'[e][v] = text[e][v]
             /\ UNCHANGED sidecar
  <2>1. /\ UNCHANGED sidecar /\ pc[w] = "text"
        /\ text' = [text EXCEPT ![asked[key[w]].entry][at[w]] = key[w]]
    BY <1>5 DEF WriteText
  <2>2. QED  BY <1>1, <2>1, TextIsNew
<1>6. QED  BY <1>2, <1>3, <1>4, <1>5, FilesAreWrittenBy


(* A step of one process, on a store that stays as it is, leaves the       *)
(* writes of the others where they are.                                    *)
LEMMA OthersStayNext ==
  ASSUME MemoryInv, NEW w \in Writers, UNCHANGED <<asked, sidecar, text>>,
         \A x \in Writers : x # w => pc'[x] = pc[x] /\ key'[x] = key[x] /\ at'[x] = at[x],
         pc'[w] \notin {"sidecar", "text"}
  PROVE  WritesAreNext'
BY DEF MemoryInv, WritesAreNext, Taken

LEMMA WritesKept ==
  ASSUME MemoryInv, [Next]_vars
  PROVE  WritesAreNext'
<1>1. /\ pc \in [Writers -> {"idle", "check", "accepted", "scan", "sidecar", "text", "record"}]
      /\ key \in [Writers -> Writes \cup {NoWrite}] /\ at \in [Writers -> 0..MaxVersion]
      /\ status \in [Writes -> Pending \cup Settled \cup {"none"}]
      /\ asked \in [Writes -> Proposals \cup {NotAsked}]
      /\ sidecar \in [Entries -> [Versions -> Writes \cup {NoWrite}]]
      /\ text \in [Entries -> [Versions -> Writes \cup {NoWrite, LegacyText}]]
      /\ \A w \in Writers : pc[w] # "idle" => key[w] \in Writes
      /\ NoWrite \notin Writes
  BY TypeGroups, StoreAssumption
     DEF MemoryInv, WriterTypes, WriterRows, RecordTypes, FileTypes
<1>2. CASE UNCHANGED <<asked, sidecar, text, pc, key, at>>
  BY <1>2 DEF MemoryInv, WritesAreNext, Taken
<1>3. ASSUME NEW o \in Writes, Propose(o) PROVE WritesAreNext'
  <2>1. /\ UNCHANGED <<sidecar, text, pc, key, at>> /\ status[o] = "none"
        /\ \A p \in Writes \ {o} : asked'[p] = asked[p]
    BY <1>1, <1>3 DEF Propose
  <2>2. \A w \in Writers : pc[w] # "idle" => asked'[key[w]] = asked[key[w]]
    BY <1>1, <2>1, StoreAssumption DEF MemoryInv, WorkIsPending, Pending
  <2>3. QED  BY <2>1, <2>2 DEF MemoryInv, WritesAreNext, Taken
<1>4. ASSUME NEW w \in Writers, NEW o \in Writes, Begin(w, o) PROVE WritesAreNext'
  <2>1. /\ UNCHANGED <<asked, sidecar, text, at>>
        /\ key' = [key EXCEPT ![w] = o] /\ pc' = [pc EXCEPT ![w] = "check"]
    BY <1>4 DEF Begin, Goto
  <2>2. QED  BY <1>1, <2>1, OthersStayNext
<1>5. ASSUME NEW w \in Writers, CallDies(w) \/ Record(w) PROVE WritesAreNext'
  <2>1. /\ UNCHANGED <<asked, sidecar, text>> /\ at' = [at EXCEPT ![w] = 0]
        /\ key' = [key EXCEPT ![w] = NoWrite] /\ pc' = [pc EXCEPT ![w] = "idle"]
    BY <1>5 DEF CallDies, Record, Leave, Goto
  <2>2. QED  BY <1>1, <2>1, OthersStayNext
<1>6. ASSUME NEW w \in Writers, Accept(w) \/ Reject(w) PROVE WritesAreNext'
  <2>1. /\ UNCHANGED <<asked, sidecar, text, key, at>>
        /\ \E where \in {"accepted", "record"} : pc' = [pc EXCEPT ![w] = where]
    BY <1>6 DEF Accept, Reject, Ends, Goto
  <2>2. QED  BY <1>1, <2>1, OthersStayNext
<1>7. ASSUME NEW w \in Writers,
             OpenWriter(w) \/ WriterBusy(w) \/ Replays(w) \/ Conflicts(w) \/ WriteFails(w)
      PROVE  WritesAreNext'
  <2>1. /\ UNCHANGED <<asked, sidecar, text, key, at>>
        /\ \E where \in {"scan", "record"} : pc' = [pc EXCEPT ![w] = where]
    BY <1>7 DEF OpenWriter, WriterBusy, Replays, Conflicts, WriteFails, Ends, Goto
  <2>2. QED  BY <1>1, <2>1, OthersStayNext
<1>8. ASSUME NEW w \in Writers, StartsVersion(w) PROVE WritesAreNext'
  <2> DEFINE o == key[w]  e == asked[o].entry
  <2>1. /\ UNCHANGED <<asked, sidecar, text, key>> /\ pc[w] = "scan" /\ Fits(o)
        /\ at' = [at EXCEPT ![w] = Latest(e) + 1] /\ pc' = [pc EXCEPT ![w] = "sidecar"]
        /\ Latest(e) < MaxVersion
    BY <1>8 DEF StartsVersion, Unseen, Goto
  <2>2. o \in Writes /\ asked[o] \in Proposals
    BY <1>1, <2>1 DEF MemoryInv, WorkIsPending
  <2>3. e \in Entries
    BY <2>2 DEF Proposals
  <2>4. /\ Latest(e) \in 0..MaxVersion /\ \A v \in Taken(e) : v <= Latest(e)
        /\ asked[o].base = Latest(e) /\ (Latest(e) = 0 \/ text[e][Latest(e)] # NoWrite)
    BY <2>1, <2>3, LatestIsNewest DEF Fits, Readable
  <2> DEFINE last == Latest(e)
  <2> HIDE DEF last
  <2>5. last + 1 \in Versions /\ last + 1 > 0 /\ (last + 1) - 1 = last
    BY <2>1, <2>4, StoreAssumption DEF Versions, last
  <2>6. pc'[w] = "sidecar" /\ at'[w] = last + 1 /\ key'[w] = o
    BY <1>1, <2>1 DEF last
  <2>7. \A v \in Taken(e) : v < last + 1
    BY <2>4, StoreAssumption DEF last, Taken, Versions
  <2>8. Taken(e)' = Taken(e)
    BY <2>1 DEF Taken
  <2>9. \A x \in Writers : x # w => pc'[x] = pc[x] /\ key'[x] = key[x] /\ at'[x] = at[x]
    BY <1>1, <2>1
  <2> HIDE DEF o, e
  <2>10. ASSUME NEW x \in Writers, x # w
         PROVE  /\ pc'[x] \in {"sidecar", "text"} =>
                     at'[x] \in Versions /\ at'[x] = asked'[key'[x]].base + 1
                /\ pc'[x] = "sidecar" =>
                     /\ \A v \in Taken(asked[key[x]].entry)' : v < at'[x]
                     /\ at'[x] > 1 => text'[asked'[key'[x]].entry][at'[x] - 1] # NoWrite
                /\ pc'[x] = "text" =>
                     /\ sidecar'[asked'[key'[x]].entry][at'[x]] = key'[x]
                     /\ text'[asked'[key'[x]].entry][at'[x]] = NoWrite
    BY <2>1, <2>9, <2>10 DEF MemoryInv, WritesAreNext, Taken
  <2>11. QED
    BY <2>1, <2>4, <2>5, <2>6, <2>7, <2>8, <2>9, <2>10 DEF WritesAreNext, o, e, last
<1>9. ASSUME NEW w \in Writers, WriteSidecar(w) \/ WriteText(w),
             NEW x \in Writers, x # w
      PROVE  pc'[x] = pc[x] /\ pc[x] \notin {"scan", "sidecar", "text"}
  <2>1. pc[w] \in {"sidecar", "text"} /\ \E where \in {"text", "record"} :
          pc' = [pc EXCEPT ![w] = where]
    BY <1>9 DEF WriteSidecar, WriteText, Ends, Goto
  <2>2. QED  BY <1>1, <1>9, <2>1 DEF MemoryInv, LocksAreHeld
<1>10. ASSUME NEW w \in Writers, WriteSidecar(w) PROVE WritesAreNext'
  <2>1. /\ UNCHANGED <<asked, text, key, at>> /\ pc[w] = "sidecar"
        /\ pc' = [pc EXCEPT ![w] = "text"]
        /\ sidecar' = [sidecar EXCEPT ![asked[key[w]].entry][at[w]] = key[w]]
    BY <1>10 DEF WriteSidecar, Goto
  <2>2. pc'[w] = "text" /\ sidecar'[asked[key[w]].entry][at[w]] = key[w]
    BY <1>1, <2>1, SidecarIsNew
  <2>3. QED  BY <1>9, <1>10, <2>1, <2>2, SidecarIsNew DEF WritesAreNext
<1>11. ASSUME NEW w \in Writers, WriteText(w) PROVE WritesAreNext'
  <2>1. pc'[w] = "record"
    BY <1>1, <1>11 DEF WriteText, Ends, Goto
  <2>2. QED  BY <1>9, <1>11, <2>1 DEF WritesAreNext
<1>12. ASSUME Outside PROVE UNCHANGED <<asked, sidecar, text, pc, key, at>>
  BY <1>12 DEF Outside, OldWriterExits, Damage, List, Show
<1>13. ASSUME NEW w \in Writers, Step(w) PROVE WritesAreNext'
  BY <1>5, <1>6, <1>7, <1>8, <1>10, <1>11, <1>13 DEF Step, Write
<1>14. CASE UNCHANGED vars
  BY <1>2, <1>14 DEF vars, storeVars
<1>15. QED  BY <1>2, <1>3, <1>4, <1>5, <1>12, <1>13, <1>14 DEF Next


(* What is stored stays stored. *)
LEMMA StoredStays ==
  ASSUME MemoryInv, [Next]_vars, NEW o \in Writes, Stored(o)
  PROVE  Stored(o)'
<1>1. PICK e \in Entries, v \in Versions : sidecar[e][v] = o /\ text[e][v] = o
  BY DEF Stored
<1>2. sidecar'[e][v] = o /\ text'[e][v] = o
  BY <1>1, FilesStay, StoreAssumption
<1>3. QED  BY <1>2 DEF Stored

LEMMA SuccessKept ==
  ASSUME MemoryInv, [Next]_vars
  PROVE  SuccessIsStored'
<1>1. /\ outcome \in [Writers -> {"none", "published", "failed", "rejected"}]
      /\ key \in [Writers -> Writes \cup {NoWrite}] /\ NoWrite \notin Writes
      /\ status \in [Writes -> Pending \cup Settled \cup {"none"}]
      /\ \A w \in Writers : pc[w] # "idle" => key[w] \in Writes
      /\ \A w \in Writers : outcome[w] # "none" => pc[w] = "record"
  BY TypeGroups, StoreAssumption DEF MemoryInv, WriterTypes, WriterRows, RecordTypes
<1>2. /\ \A o \in Writes : status[o] = "published" => Stored(o)'
      /\ \A w \in Writers, o \in Writes :
           outcome[w] = "published" /\ key[w] = o => Stored(o)'
  BY <1>1, StoredStays DEF MemoryInv, SuccessIsStored
<1>3. CASE UNCHANGED <<status, outcome, key>>
  BY <1>1, <1>2, <1>3 DEF SuccessIsStored, Stored
<1>4. ASSUME NEW o \in Writes, Propose(o) PROVE SuccessIsStored'
  <2>1. UNCHANGED <<outcome, key>> /\ status' = [status EXCEPT ![o] = "proposed"]
    BY <1>4 DEF Propose
  <2>2. QED  BY <1>1, <1>2, <2>1 DEF SuccessIsStored, Stored
<1>5. ASSUME NEW w \in Writers, NEW o \in Writes, Begin(w, o) PROVE SuccessIsStored'
  <2>1. UNCHANGED <<outcome, status>> /\ key' = [key EXCEPT ![w] = o] /\ pc[w] = "idle"
    BY <1>5 DEF Begin
  <2>2. QED  BY <1>1, <1>2, <2>1 DEF SuccessIsStored, Stored
<1>6. ASSUME NEW w \in Writers, CallDies(w) PROVE SuccessIsStored'
  <2>1. /\ UNCHANGED status /\ key' = [key EXCEPT ![w] = NoWrite]
        /\ outcome' = [outcome EXCEPT ![w] = "none"]
    BY <1>6 DEF CallDies, Leave
  <2>2. QED  BY <1>1, <1>2, <2>1 DEF SuccessIsStored, Stored
<1>7. ASSUME NEW w \in Writers, Record(w) PROVE SuccessIsStored'
  <2>1. /\ status' = [status EXCEPT ![key[w]] = outcome[w]] /\ pc[w] = "record"
        /\ key' = [key EXCEPT ![w] = NoWrite] /\ outcome' = [outcome EXCEPT ![w] = "none"]
    BY <1>7 DEF Record, Leave
  <2>2. \A o \in Writes : status'[o] = "published" => Stored(o)'
    BY <1>1, <1>2, <2>1
  <2>3. ASSUME NEW x \in Writers, outcome'[x] = "published"
        PROVE  x # w /\ key'[x] = key[x] /\ outcome[x] = "published" /\ key[x] \in Writes
    BY <1>1, <2>1, <2>3
  <2>4. QED  BY <1>2, <2>2, <2>3 DEF SuccessIsStored
<1>8. ASSUME NEW w \in Writers, Accept(w) PROVE SuccessIsStored'
  <2>1. UNCHANGED <<outcome, key>> /\ status' = [status EXCEPT ![key[w]] = "accepted"]
    BY <1>8 DEF Accept
  <2>2. QED  BY <1>1, <1>2, <2>1 DEF SuccessIsStored, Stored
<1>9. ASSUME NEW w \in Writers, UNCHANGED <<status, key>>, NEW how,
             outcome' = [outcome EXCEPT ![w] = how], how = "published" => Stored(key[w])'
      PROVE  SuccessIsStored'
  BY <1>1, <1>2, <1>9 DEF SuccessIsStored, Stored
<1>10. ASSUME NEW w \in Writers, Reject(w) PROVE SuccessIsStored'
  BY <1>9, <1>10 DEF Reject, Ends
<1>11. ASSUME NEW w \in Writers, Write(w), WriterBusy(w) \/ Conflicts(w) \/ WriteFails(w)
       PROVE  SuccessIsStored'
  BY <1>9, <1>11 DEF Write, WriterBusy, Conflicts, WriteFails, Ends
<1>12. ASSUME NEW w \in Writers, Write(w), OpenWriter(w) \/ StartsVersion(w) \/ WriteSidecar(w)
       PROVE  UNCHANGED <<status, outcome, key>>
  BY <1>12 DEF Write, OpenWriter, StartsVersion, WriteSidecar
<1>13. ASSUME NEW w \in Writers, Write(w), Replays(w) PROVE SuccessIsStored'
  <2> DEFINE kept == \E x \in KeyOf(key[w]) : Readable(x[1], x[2])
  <2>1. /\ UNCHANGED <<status, key>> /\ pc[w] = "scan"
        /\ outcome' = [outcome EXCEPT ![w] = IF kept THEN "published" ELSE "failed"]
    BY <1>13 DEF Write, Replays, Ends
  <2>2. ASSUME kept PROVE Stored(key[w])
    <3>1. key[w] \in Writes
      BY <1>1, <2>1
    <3>2. PICK e \in Entries, v \in Versions : sidecar[e][v] = key[w] /\ Readable(e, v)
      BY <2>2 DEF KeyOf
    <3>3. text[e][v] = key[w]
      BY <3>1, <3>2, StoreAssumption DEF Readable, MemoryInv, FilesAreAsked
    <3>4. QED  BY <3>2, <3>3 DEF Stored
  <2> HIDE DEF kept
  <2>3. kept => Stored(key[w])'
    BY <1>1, <2>1, <2>2, StoredStays
  <2>4. QED  BY <1>9, <2>1, <2>3
<1>14. ASSUME NEW w \in Writers, Write(w), WriteText(w) PROVE SuccessIsStored'
  <2> DEFINE e == asked[key[w]].entry  v == at[w]
  <2>1. /\ UNCHANGED <<status, key, sidecar>> /\ pc[w] = "text"
        /\ outcome' = [outcome EXCEPT ![w] = "published"]
        /\ text' = [text EXCEPT ![e][v] = key[w]]
    BY <1>14 DEF Write, WriteText, Ends
  <2>2. e \in Entries /\ v \in Versions /\ sidecar[e][v] = key[w]
    BY <2>1, TextIsNew
  <2>3. text'[e][v] = key[w]
    BY <2>1, <2>2, TypeGroups DEF MemoryInv, FileTypes
  <2> HIDE DEF e, v
  <2>4. Stored(key[w])'
    BY <2>1, <2>2, <2>3 DEF Stored
  <2>5. QED  BY <1>9, <2>1, <2>4
<1>15. ASSUME Outside PROVE UNCHANGED <<status, outcome, key>>
  BY <1>15 DEF Outside, OldWriterExits, Damage, List, Show
<1>16. ASSUME NEW w \in Writers, Write(w) PROVE SuccessIsStored'
  BY <1>3, <1>11, <1>12, <1>13, <1>14, <1>16 DEF Write
<1>17. CASE UNCHANGED vars
  BY <1>3, <1>17 DEF vars, storeVars
<1>18. QED
  BY <1>3, <1>4, <1>5, <1>6, <1>7, <1>8, <1>10, <1>15, <1>16, <1>17 DEF Next, Step

-----------------------------------------------------------------------------
(* The readers                                                             *)

LEMMA SearchKept ==
  ASSUME MemoryInv, [Next]_vars
  PROVE  SearchIsAhead'
<1>1. /\ found \in [Readers -> [Entries -> 0..MaxVersion]]
      /\ shown \in [Readers -> [Entries -> 0..MaxVersion]]
  BY TypeGroups DEF MemoryInv, ReaderTypes
<1>2. SearchIsAhead
  BY DEF MemoryInv
<1>3. \A r \in Readers, e \in Entries :
        shown[r][e] # 0 => shown[r][e] \in Versions /\ text'[e][shown[r][e]] # NoWrite
  BY <1>1, <1>2, FilesStay DEF SearchIsAhead, Versions
<1>4. CASE UNCHANGED <<found, shown>>
  BY <1>2, <1>3, <1>4 DEF SearchIsAhead
<1>5. ASSUME NEW q \in Readers, List(q) PROVE SearchIsAhead'
  <2>1. /\ UNCHANGED <<shown, text>>
        /\ found' = [found EXCEPT ![q] = [e \in Entries |-> Latest(e)]]
    BY <1>5 DEF List, Newest
  <2>2. ASSUME NEW e \in Entries, shown[q][e] # 0 PROVE shown[q][e] <= Latest(e)
    BY <1>2, <1>3, <2>1, <2>2, LatestIsNewest DEF SearchIsAhead, Taken
  <2>3. ASSUME NEW r \in Readers, NEW e \in Entries, found'[r][e] # 0
        PROVE  shown'[r][e] <= found'[r][e]
    <3>1. CASE r = q
      <4>1. found'[r][e] = Latest(e) /\ shown'[r][e] = shown[q][e]
        BY <1>1, <2>1, <3>1
      <4>2. shown[q][e] \in 0..MaxVersion /\ Latest(e) \in 0..MaxVersion
        BY <1>1, LatestIsNewest
      <4>3. QED  BY <2>2, <4>1, <4>2, StoreAssumption
    <3>2. CASE r # q
      BY <1>1, <1>2, <2>1, <2>3, <3>2 DEF SearchIsAhead
    <3>3. QED  BY <3>1, <3>2
  <2>4. QED  BY <1>2, <2>1, <2>3 DEF SearchIsAhead
<1>6. ASSUME NEW q \in Readers, NEW f \in Entries, Show(q, f) PROVE SearchIsAhead'
  <2>1. /\ UNCHANGED text /\ found[q][f] # 0
        /\ found' = [found EXCEPT ![q][f] = 0]
        /\ \/ UNCHANGED shown
           \/ shown' = [shown EXCEPT ![q][f] = found[q][f]] /\ text[f][found[q][f]] # NoWrite
    BY <1>6 DEF Show, Readable
  <2>2. QED  BY <1>1, <1>2, <2>1 DEF SearchIsAhead
<1>7. QED  BY <1>4, <1>5, <1>6, ReadersReadBy


-----------------------------------------------------------------------------
(* The invariant                                                           *)

LEMMA InvInit == Init => MemoryInv
<1> SUFFICES ASSUME Init PROVE MemoryInv
  OBVIOUS
<1>1. TypeOK
  BY InitType
<1>2. LocksAreHeld /\ WorkIsPending
  BY StoreAssumption DEF Init, StoreInit, LocksAreHeld, WorkIsPending
<1>3. FilesAreAsked
  BY StoreAssumption DEF Init, StoreInit, FilesAreAsked
<1>4. WritesAreNext /\ SuccessIsStored /\ SearchIsAhead
  BY DEF Init, StoreInit, WritesAreNext, SuccessIsStored, SearchIsAhead
<1>5. QED  BY <1>1, <1>2, <1>3, <1>4 DEF MemoryInv

LEMMA InvKept ==
  ASSUME MemoryInv, [Next]_vars
  PROVE  MemoryInv'
<1>1. FileTypes' /\ WriterTypes' /\ WriterRows' /\ ReaderTypes' /\ BoundTypes' /\ RecordTypes'
  BY FileTypesKept, WriterTypesKept, WriterRowsKept, ReaderTypesKept, BoundTypesKept,
     RecordTypesKept DEF MemoryInv
<1>2. TypeOK'
  BY <1>1, TypeGroups DEF TypeOK, StoreTypeOK, FileTypes, WriterTypes, WriterRows, ReaderTypes,
                          BoundTypes, RecordTypes
<1>3. LocksAreHeld' /\ WorkIsPending'
  BY LocksKept, WorkKept DEF MemoryInv
<1>4. QED  BY <1>2, <1>3, FilesKept, WritesKept, SuccessKept, SearchKept DEF MemoryInv

(* What MemoryInv says holds of every state of the program. *)
LEMMA Invariant == Spec => []MemoryInv
<1>1. MemoryInv /\ [Next]_vars => MemoryInv'
  BY InvKept
<1>2. QED  BY <1>1, InvInit, PTL DEF Spec

(* The types of the store and of the rows of the Sessions. *)
THEOREM MemoryTypeCorrect == Spec => []TypeOK
<1>1. MemoryInv => TypeOK
  BY DEF MemoryInv
<1>2. QED  BY <1>1, Invariant, PTL

(* However many processes publish and replay, die and miss files: a        *)
(* publication is stored at most once, no update is lost, and what a       *)
(* Session calls published is in the store.                                *)
THEOREM StoreAndSessionsAgree == Spec => []StoreAgrees
<1>1. ASSUME MemoryInv PROVE StoredOnce
  <2>1. SUFFICES ASSUME NEW o \in Writes, NEW e \in Entries, NEW v \in Versions,
                        NEW f \in Entries, NEW x \in Versions,
                        sidecar[e][v] = o, sidecar[f][x] = o
                 PROVE  e = f /\ v = x
    BY DEF StoredOnce
  <2>2. /\ asked[o].entry = e /\ asked[o].base = v - 1
        /\ asked[o].entry = f /\ asked[o].base = x - 1
    BY <1>1, <2>1, StoreAssumption DEF MemoryInv, FilesAreAsked
  <2>3. QED  BY <2>2 DEF Versions
<1>2. ASSUME MemoryInv PROVE ChainUnbroken
  BY <1>2, StoreAssumption DEF MemoryInv, FilesAreAsked, ChainUnbroken
<1>3. ASSUME MemoryInv PROVE PublishedIsStored
  <2>1. SUFFICES ASSUME NEW o \in Writes, status[o] = "published"
                 PROVE  \E x \in KeyOf(o) : text[x[1]][x[2]] = o
    BY DEF PublishedIsStored
  <2>2. PICK e \in Entries, v \in Versions : sidecar[e][v] = o /\ text[e][v] = o
    BY <1>3, <2>1 DEF MemoryInv, SuccessIsStored, Stored
  <2>3. <<e, v>> \in KeyOf(o)
    BY <2>2 DEF KeyOf
  <2>4. QED  BY <2>2, <2>3
<1>4. MemoryInv => StoreAgrees
  BY <1>1, <1>2, <1>3 DEF StoreAgrees
<1>5. QED  BY <1>4, Invariant, PTL

-----------------------------------------------------------------------------
(* What a step may never do                                                *)

LEMMA ShownGrows ==
  ASSUME MemoryInv, [Next]_vars, NEW r \in Readers, NEW e \in Entries
  PROVE  shown'[r][e] >= shown[r][e]
<1>1. /\ found \in [Readers -> [Entries -> 0..MaxVersion]]
      /\ shown \in [Readers -> [Entries -> 0..MaxVersion]]
  BY TypeGroups DEF MemoryInv, ReaderTypes
<1>2. CASE shown' = shown
  BY <1>1, <1>2
<1>3. ASSUME NEW q \in Readers, List(q) PROVE shown' = shown
  BY <1>3 DEF List
<1>4. ASSUME NEW q \in Readers, NEW f \in Entries, Show(q, f) PROVE shown'[r][e] >= shown[r][e]
  <2>1. /\ found[q][f] # 0
        /\ \/ shown' = shown
           \/ shown' = [shown EXCEPT ![q][f] = found[q][f]]
    BY <1>4 DEF Show
  <2>2. shown[q][f] <= found[q][f]
    BY <2>1 DEF MemoryInv, SearchIsAhead
  <2>3. QED  BY <1>1, <2>1, <2>2
<1>5. QED  BY <1>2, <1>3, <1>4, ReadersReadBy

LEMMA ResultStays ==
  ASSUME MemoryInv, [Next]_vars, NEW o \in Writes, status[o] \in Settled
  PROVE  status'[o] = status[o]
<1>1. /\ status \in [Writes -> Pending \cup Settled \cup {"none"}]
      /\ \A w \in Writers : pc[w] # "idle" => key[w] \in Writes /\ status[key[w]] \in Pending
  BY TypeGroups, StoreAssumption
     DEF MemoryInv, WriterTypes, WriterRows, RecordTypes, WorkIsPending
<1>2. ASSUME NEW p \in Writes, Propose(p) PROVE status'[o] = status[o]
  <2>1. status[p] = "none" /\ status' = [status EXCEPT ![p] = "proposed"]
    BY <1>2 DEF Propose
  <2>2. QED  BY <1>1, <2>1 DEF Settled
<1>3. ASSUME NEW w \in Writers, Accept(w) \/ Record(w) PROVE status'[o] = status[o]
  <2>1. /\ pc[w] # "idle"
        /\ \E how : status' = [status EXCEPT ![key[w]] = how]
    BY <1>3 DEF Accept, Record
  <2>2. key[w] # o
    BY <1>1, <2>1 DEF Settled, Pending
  <2>3. QED  BY <1>1, <2>1, <2>2
<1>4. ASSUME NEW w \in Writers, Write(w) PROVE status' = status
  BY <1>4 DEF Write
<1>5. QED  BY <1>2, <1>3, <1>4, FilesAreWrittenBy

(* No file of a version is written a second time, no later search returns  *)
(* an older version, and the result of a publication is final.             *)
THEOREM StoreHistoryIsKept == Spec => HistoryKept
<1>1. MemoryInv /\ [Next]_vars =>
        \A e \in Entries, v \in Versions :
          /\ sidecar[e][v] # NoWrite => sidecar'[e][v] = sidecar[e][v]
          /\ text[e][v] # NoWrite => text'[e][v] = text[e][v]
  BY FilesStay
<1>2. MemoryInv /\ [Next]_vars =>
        \A r \in Readers, e \in Entries : shown'[r][e] >= shown[r][e]
  BY ShownGrows
<1>3. MemoryInv /\ [Next]_vars =>
        \A o \in Writes : status[o] \in Settled => status'[o] = status[o]
  BY ResultStays
<1>4. QED
  BY <1>1, <1>2, <1>3, Invariant, PTL
     DEF Spec, HistoryKept, VersionsImmutable, SearchNeverRegresses, ResultIsFinal

-----------------------------------------------------------------------------
(* The register                                                            *)

(* A step of a Session or of a process is a step of the register or leaves *)
(* its variables as they are; only the text file changes a register.       *)
LEMMA RegisterStep ==
  ASSUME MemoryInv, [Next]_vars
  PROVE  [Register!Next]_(Register!vars)
<1>1. /\ status \in [Writes -> Pending \cup Settled \cup {"none"}]
      /\ asked \in [Writes -> Proposals \cup {NotAsked}]
      /\ text \in [Entries -> [Versions -> Writes \cup {NoWrite, LegacyText}]]
      /\ \A w \in Writers : pc[w] # "idle" => key[w] \in Writes /\ status[key[w]] \in Pending
      /\ NoWrite \notin Writes
  BY TypeGroups, StoreAssumption
     DEF MemoryInv, FileTypes, WriterTypes, WriterRows, RecordTypes, WorkIsPending
<1>2. CASE UNCHANGED <<asked, text, status>>
  BY <1>2 DEF Register!vars
<1>3. ASSUME NEW o \in Writes, Propose(o) PROVE Register!Next
  <2>1. Register!Propose(o)
    BY <1>1, <1>3 DEF Propose, Register!Propose
  <2>2. QED  BY <2>1 DEF Register!Next
<1>4. ASSUME NEW w \in Writers, Accept(w) PROVE Register!Next
  <2>1. Register!Accept(key[w])
    BY <1>1, <1>4 DEF Accept, Register!Accept, Pending
  <2>2. key[w] \in Writes
    BY <1>1, <1>4 DEF Accept
  <2>3. QED  BY <2>1, <2>2 DEF Register!Next
<1>5. ASSUME NEW w \in Writers, Record(w) PROVE Register!Next
  <2>1. /\ key[w] \in Writes /\ status[key[w]] \in Pending
        /\ outcome[w] \in {"published", "failed", "rejected"}
    BY <1>1, <1>5, TypeGroups DEF Record, MemoryInv, WriterTypes, WriterRows
  <2>2. outcome[w] = "published" => Register!Applied(key[w])
    BY DEF MemoryInv, SuccessIsStored, Stored, Register!Applied
  <2>3. Register!Settle(key[w], outcome[w])
    BY <1>5, <2>1, <2>2 DEF Record, Register!Settle, Pending
  <2>4. QED  BY <2>1, <2>3 DEF Register!Next
<1>6. ASSUME NEW w \in Writers, Write(w), WriteText(w) PROVE Register!Next
  <2> DEFINE o == key[w]  e == asked[o].entry  b == asked[o].base
  <2>1. /\ UNCHANGED <<asked, status>> /\ pc[w] = "text"
        /\ text' = [text EXCEPT ![e][at[w]] = o]
    BY <1>6 DEF Write, WriteText
  <2>2. /\ o \in Writes /\ e \in Entries /\ at[w] \in Versions /\ status[o] = "accepted"
        /\ at[w] = b + 1 /\ b \in 0..MaxVersion
        /\ sidecar[e][at[w]] = o /\ text[e][at[w]] = NoWrite
        /\ at[w] > 1 => text[e][at[w] - 1] # NoWrite
    BY <2>1, TextIsNew
  <2>3. ASSUME NEW f \in Entries, NEW v \in Versions, text[f][v] = o PROVE FALSE
    <3>1. sidecar[f][v] = o
      BY <2>2, <2>3 DEF MemoryInv, FilesAreAsked
    <3>2. e = f /\ b = v - 1
      BY <2>2, <3>1, StoreAssumption DEF MemoryInv, FilesAreAsked
    <3>3. v = at[w]
      BY <2>2, <3>2 DEF Versions
    <3>4. QED  BY <1>1, <2>2, <2>3, <3>2, <3>3
  <2>4. ~ Register!Applied(o)
    BY <2>3 DEF Register!Applied
  <2>5. b = 0 \/ (at[w] > 1 /\ at[w] - 1 = b)
    BY <2>2, StoreAssumption
  <2>6. Register!Apply(o)
    BY <2>1, <2>2, <2>4, <2>5 DEF Register!Apply, Register!Present
  <2>7. QED  BY <2>2, <2>6 DEF Register!Next
<1>7. ASSUME NEW w \in Writers, Write(w), WriteSidecar(w) PROVE UNCHANGED <<asked, text, status>>
  BY <1>7 DEF Write, WriteSidecar
<1>8. QED  BY <1>2, <1>3, <1>4, <1>5, <1>6, <1>7, FilesAreWrittenBy

(* The text files of the store, the proposals and their status implement   *)
(* the register: each publication is applied at most once, to the newest   *)
(* version, and is called published only when it was.                      *)
THEOREM StoreIsARegister == Spec => ImplementsRegister
<1>1. ASSUME Init PROVE Register!Init
  <2>1. \A o \in Writes : asked[o].entry = NoWrite
    BY <1>1 DEF Init, StoreInit, NotAsked
  <2>2. /\ text = [e \in Entries |-> [v \in Versions |->
                   IF e \in Legacy /\ v = 1 THEN LegacyText ELSE NoWrite]]
        /\ status = [o \in Writes |-> "none"]
    BY <1>1 DEF Init, StoreInit
  <2>3. QED  BY <2>1, <2>2 DEF Register!Init
<1>2. MemoryInv /\ [Next]_vars => [Register!Next]_(Register!vars)
  BY RegisterStep
<1>3. QED  BY <1>1, <1>2, Invariant, PTL DEF Spec, ImplementsRegister, Register!Spec

=============================================================================
