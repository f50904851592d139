---------------------------- MODULE AuditJournal ----------------------------
(***************************************************************************)
(* The audit outbox of a Session and its projection, journal/events.jsonl. *)
(*                                                                         *)
(* Every transaction that changes the state of the Session queues its      *)
(* events in the same transaction (_queue_audit).  Whoever committed it    *)
(* then calls flush_audit, which under SQLite's write lock writes the      *)
(* whole outbox to a new file, renames it over the journal and marks all   *)
(* rows as flushed.  A rename cannot be rolled back; the mark can.         *)
(*                                                                         *)
(* The events of one transaction are queued, written and marked together,  *)
(* so they count as one: outbox is the sequence of the state versions      *)
(* that queued something.  The journal is a function of the outbox, so     *)
(* the number of its elements that the file holds says what the file is.   *)
(***************************************************************************)
EXTENDS Naturals, Sequences

CONSTANTS
  Process,   (* processes with a connection to the database of the Session   *)
  Nobody     (* the write lock is free                                       *)

VARIABLES
  writer,    (* the process in a BEGIN IMMEDIATE transaction                 *)
  outbox,    (* table audit_events: the state versions that queued events    *)
  flushed,   (* how many of them have status 'flushed'                       *)
  journal,   (* how many of them the file holds                              *)
  flush      (* for each process: how far its flush_audit is, and the number *)
             (* of rows it has read                                          *)

auditVars == <<writer, outbox, flushed, journal, flush>>

FlushSteps == {"no", "selected", "replaced"}
NotFlushing == [at |-> "no", rows |-> 0]

AuditTypeOK ==
  /\ writer \in Process \cup {Nobody}
  /\ outbox \in Seq(Nat)
  /\ flushed \in Nat /\ journal \in Nat
  /\ flush \in [Process -> [at : FlushSteps, rows : Nat]]

(* init_session queues and flushes its own events in a staging directory,  *)
(* which becomes the run by a rename: a Session begins with version 1 and  *)
(* with its journal written.                                               *)
AuditInit ==
  /\ writer = Nobody
  /\ outbox = <<1>> /\ flushed = 1 /\ journal = 1
  /\ flush = [p \in Process |-> NotFlushing]

(* BEGIN IMMEDIATE is granted to one process at a time. *)
LockFree == writer = Nobody

(* _queue_audit, inside a transaction that ends in version v. *)
Queue(v) == outbox' = Append(outbox, v)

-----------------------------------------------------------------------------
(* flush_audit, one action per effect another process or a crash can see   *)

(* Fault: the rows are read before the lock is taken. *)
FlushSelectUnlocked(p) ==
  /\ flush[p].at = "no"
  /\ flush' = [flush EXCEPT ![p] = [at |-> "selected", rows |-> Len(outbox)]]
  /\ UNCHANGED <<writer, outbox, flushed, journal>>

(* BEGIN IMMEDIATE and the SELECT. *)
FlushSelect(p) ==
  /\ flush[p].at = "no" /\ LockFree
  /\ writer' = p
  /\ flush' = [flush EXCEPT ![p] = [at |-> "selected", rows |-> Len(outbox)]]
  /\ UNCHANGED <<outbox, flushed, journal>>

(* _atomic_write: a temporary file and os.replace. *)
FlushReplace(p) ==
  /\ flush[p].at = "selected"
  /\ journal' = flush[p].rows
  /\ flush' = [flush EXCEPT ![p].at = "replaced"]
  /\ UNCHANGED <<writer, outbox, flushed>>

(* Fault: the transaction ends without the UPDATE. *)
FlushUnacknowledged(p) ==
  /\ flush[p].at = "replaced"
  /\ writer' = Nobody
  /\ flush' = [flush EXCEPT ![p] = NotFlushing]
  /\ UNCHANGED <<outbox, flushed, journal>>

(* UPDATE audit_events SET status='flushed', for every row, and COMMIT. *)
FlushAcknowledge(p) ==
  /\ flush[p].at = "replaced"
  /\ flushed' = Len(outbox)
  /\ writer' = Nobody
  /\ flush' = [flush EXCEPT ![p] = NotFlushing]
  /\ UNCHANGED <<outbox, journal>>

(* Fault: the rows are marked although the file could not be written. *)
FlushFailsMarked(p) ==
  /\ flush[p].at \in {"selected", "replaced"}
  /\ flushed' = Len(outbox)
  /\ writer' = Nobody
  /\ flush' = [flush EXCEPT ![p] = NotFlushing]
  /\ UNCHANGED <<outbox, journal>>

(* Fault: the connection is left in its transaction. *)
FlushFailsLocked(p) ==
  /\ flush[p].at \in {"selected", "replaced"}
  /\ flush' = [flush EXCEPT ![p] = NotFlushing]
  /\ UNCHANGED <<writer, outbox, flushed, journal>>

(* The file cannot be written, or the transaction not committed: roll back *)
(* and return False, which no caller looks at.                             *)
FlushFails(p) ==
  /\ flush[p].at \in {"selected", "replaced"}
  /\ writer' = Nobody
  /\ flush' = [flush EXCEPT ![p] = NotFlushing]
  /\ UNCHANGED <<outbox, flushed, journal>>

(* A process that dies gives its lock back, and SQLite rolls back what it  *)
(* had not committed.                                                      *)
Vanish(p) ==
  /\ writer' = IF writer = p THEN Nobody ELSE writer
  /\ flush' = [flush EXCEPT ![p] = NotFlushing]
  /\ UNCHANGED <<outbox, flushed, journal>>

-----------------------------------------------------------------------------
(* What is acknowledged is in the file, and the file holds only what was   *)
(* committed, whenever a flush stops or its process dies (flush_audit:     *)
(* "recovers a crash between the file replacement and the outbox           *)
(* acknowledgement").                                                      *)
JournalCoversFlushed == flushed <= journal /\ journal <= Len(outbox)

(* The journal is append-only although every flush rewrites it: no flush   *)
(* puts an older projection over a newer one, because SELECT and           *)
(* os.replace are under one lock.                                          *)
JournalOnlyGrows == [][journal' >= journal /\ flushed' >= flushed]_auditVars

=============================================================================
