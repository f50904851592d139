----------------------------- MODULE StateQuery -----------------------------
(***************************************************************************)
(* session state (read_state): a read transaction that pins one snapshot   *)
(* of the database, and then a look at the journal file, which is not part *)
(* of the snapshot.                                                        *)
(***************************************************************************)
EXTENDS Operations

VARIABLES
  reader   (* what read_state holds: the number of events in its snapshot,   *)
           (* whether some are pending there, how many the file held then    *)
           (* (which the code does not know), and integrity.audit            *)

NotReading == [at |-> "idle", events |-> 0, pending |-> FALSE, fileThen |-> 0, audit |-> "none"]

QueryInit == Init /\ reader = NotReading

(* BEGIN (deferred) and the first SELECT: no lock is needed. *)
TakeSnapshot ==
  /\ reader.at = "idle"
  /\ reader' = [at |-> "snapshot", events |-> Len(outbox), pending |-> flushed < Len(outbox),
                fileThen |-> journal, audit |-> "none"]

(* verify_audit_journal: the number of events in the file as it is now. *)
VerifiedEvents == journal

(* If nothing is pending in the snapshot, the file is compared with the    *)
(* snapshot's count.                                                       *)
CheckJournal ==
  /\ reader.at = "snapshot"
  /\ reader' = [reader EXCEPT !.at = "answered", !.audit =
                  IF reader.pending THEN "pending"
                  ELSE IF VerifiedEvents # reader.events THEN "out_of_sync" ELSE "ok"]

AnswerState == reader.at = "answered" /\ reader' = NotReading

QueryNext ==
  \/ Next /\ UNCHANGED reader
  \/ (TakeSnapshot \/ CheckJournal \/ AnswerState) /\ UNCHANGED vars

QuerySpec == QueryInit /\ [][QueryNext]_<<vars, reader>>

(* "All fields in a state response must describe the same SQLite snapshot" *)
(* (read_state): a journal that was complete for the snapshot is not       *)
(* reported as out of sync with it.                                        *)
AuditDescribesSnapshot == reader.audit = "out_of_sync" => reader.fileThen # reader.events

=============================================================================
