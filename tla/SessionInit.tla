----------------------------- MODULE SessionInit -----------------------------
(***************************************************************************)
(* How a Session comes to be (initialize_session): a call stages the files *)
(* and the database beside the output directory and renames them into      *)
(* place; a call that finds the directory replays its receipt or is        *)
(* refused.  Calls share nothing but the directory.  Later operations are  *)
(* admitted only under the identity that was frozen here (_verify_files).  *)
(***************************************************************************)
EXTENDS Naturals, FiniteSets

CONSTANTS
  Callers,  (* command lines                                                 *)
  Asked,    (* what is asked for: [op, input, manifest, declared, valid]     *)
  Codes,    (* versions of the runtime and of its skill, by one evaluator    *)
  None,
  MaxCalls, (* bound: calls of init                                          *)
  MaxEdits  (* bound: changes of code or files                               *)

ASSUME InitAssumption ==
  /\ \A a \in Asked : a.manifest \in Codes \cup {None} /\ {a.declared, a.valid} \subseteq BOOLEAN
  /\ None \notin Codes /\ {MaxCalls, MaxEdits} \subseteq Nat

VARIABLES
  call,     (* what each caller asks, where it is and what it was told       *)
  session,  (* the output directory                                          *)
  staged,   (* staging directories                                           *)
  code,     (* the runtime that is installed                                 *)
  sound,    (* the frozen files and the evaluator are as they were           *)
  calls, edits

initVars == <<call, session, staged, code, sound, calls, edits>>

NoCall  == [at |-> "away", ask |-> None, run |-> 0, code |-> None, told |-> "nothing"]
Answers == {"receipt", "invalid", "exists", "conflict", "failed"}

StartOut ==
  /\ call = [c \in Callers |-> NoCall] /\ session = None /\ staged = {}
  /\ code \in Codes /\ sound = TRUE /\ calls = 0 /\ edits = 0

InitTypeOK ==
  /\ staged \subseteq 1..MaxCalls /\ code \in Codes /\ sound \in BOOLEAN
  /\ \A c \in Callers : call[c].at \in {"away", "looking", "building", "built"}
                        /\ call[c].told \in Answers \cup {"nothing"}

Goto(c, at) == call' = [call EXCEPT ![c].at = at]
Tell(c, r, answer) == call' = [call EXCEPT ![c] = [@ EXCEPT !.at = "away", !.run = r,
                                                            !.told = answer]]

-----------------------------------------------------------------------------
(* The steps of init                                                       *)

Valid(a) == a.valid

Call(c, a) ==
  /\ call[c].at = "away" /\ calls < MaxCalls /\ calls' = calls + 1
  /\ call' = [call EXCEPT ![c] = [at |-> IF Valid(a) THEN "looking" ELSE "away", ask |-> a,
                                  run |-> calls + 1, code |-> None,
                                  told |-> IF Valid(a) THEN "nothing" ELSE "invalid"]]
  /\ UNCHANGED <<session, staged, code, sound, edits>>

SameOperation(a) == session.ask.op = a.op

(* Fault: only the id is compared. *)
SameRequestId(a) == TRUE

(* What the arguments come to: hints of the manifest, suite, seeds, policy. *)
Input(a) == a.input

(* Of a manifest only the hash it declares itself belongs to the request.  *)
Label(a) == IF a.declared THEN a.manifest ELSE None

SameRequest(a) == Input(session.ask) = Input(a) /\ Label(session.ask) = Label(a)

(* The directory is there: the receipt is replayed for the same request.   *)
Replay(c) ==
  LET a == call[c].ask IN
  /\ call[c].at = "looking" /\ session # None
  /\ \/ SameOperation(a) /\ SameRequest(a) /\ Tell(c, session.run, "receipt")
     \/ SameOperation(a) /\ ~SameRequest(a) /\ Tell(c, 0, "conflict")
     \/ ~SameOperation(a) /\ Tell(c, 0, "exists")
  /\ UNCHANGED <<session, staged, code, sound, calls, edits>>

(* A manifest names the runtime it was made for.                           *)
ManifestHolds(a) == a.manifest \in {None, code}

(* It is not: a new run is made, in a directory of its own.                *)
Begin(c) ==
  /\ call[c].at = "looking" /\ session = None
  /\ IF ManifestHolds(call[c].ask)
     THEN /\ call' = [call EXCEPT ![c].at = "building", ![c].code = code]
          /\ staged' = staged \cup {call[c].run}
     ELSE Tell(c, 0, "invalid") /\ UNCHANGED staged
  /\ UNCHANGED <<session, code, sound, calls, edits>>

Build(c) ==
  /\ call[c].at = "building" /\ Goto(c, "built")
  /\ UNCHANGED <<session, staged, code, sound, calls, edits>>

(* What is staged is removed, unless somebody else's directory is there.   *)
Cleared(c) == IF session = None THEN staged \ {call[c].run} ELSE staged

BuildFails(c) ==
  /\ call[c].at = "building" /\ Tell(c, 0, "failed")
  /\ staged' \in {staged, Cleared(c)}
  /\ UNCHANGED <<session, code, sound, calls, edits>>

Created(c) == [run |-> call[c].run, ask |-> call[c].ask, code |-> call[c].code]

(* Fault: the directory that is there is replaced. *)
RenamedOver(c) == Created(c)

(* A directory is not renamed to one that is there and not empty.          *)
Renamed(c) == IF session = None THEN Created(c) ELSE session

Rename(c) ==
  /\ call[c].at = "built" /\ session' = Renamed(c)
  /\ IF session' = session
     THEN Tell(c, 0, "failed") /\ staged' = Cleared(c)
     ELSE Tell(c, call[c].run, "receipt") /\ staged' = staged \ {call[c].run}
  /\ UNCHANGED <<code, sound, calls, edits>>

CallDies(c) ==
  /\ call[c].at \in {"looking", "building", "built"} /\ Tell(c, 0, "nothing")
  /\ UNCHANGED <<session, staged, code, sound, calls, edits>>

-----------------------------------------------------------------------------
(* What init froze                                                         *)

ReadOnly == {"state", "read-evaluation", "memory_search"}

(* _verify_files; what only reads is allowed under another runtime.        *)
Admitted(action) ==
  session # None /\ sound /\ (action \in ReadOnly \/ code = session.code)

Change ==
  /\ edits < MaxEdits /\ edits' = edits + 1
  /\ \/ \E k \in Codes \ {code} : code' = k /\ UNCHANGED sound
     \/ session # None /\ sound' = ~sound /\ UNCHANGED code
  /\ UNCHANGED <<call, session, staged, calls>>

InitStep ==
  \/ \E c \in Callers :
       \/ \E a \in Asked : Call(c, a)
       \/ Replay(c) \/ Begin(c) \/ Build(c) \/ BuildFails(c) \/ Rename(c) \/ CallDies(c)
  \/ Change

InitSpec == StartOut /\ [][InitStep]_initVars

-----------------------------------------------------------------------------
(* A receipt is of the Session that is there: whoever has one, the first   *)
(* caller or one that repeated its request, raced with it or came after a  *)
(* crash, asked for this very Session and was told its run; and a Session  *)
(* was made by a runtime its manifest names.                               *)
ReceiptsAreTrue ==
  /\ \A c \in Callers : call[c].told = "receipt" =>
       /\ session # None /\ session.run = call[c].run
       /\ session.ask.op = call[c].ask.op /\ session.ask.input = call[c].ask.input
       /\ Label(session.ask) = Label(call[c].ask)
  /\ session # None => session.ask.manifest \in {None, session.code}

(* Not kept: a manifest that declares no hash of its own is not compared   *)
(* when a receipt is replayed, nor is it validated then.                   *)
ReceiptsNameTheManifest ==
  \A c \in Callers : call[c].told = "receipt" => call[c].ask.manifest = session.ask.manifest

=============================================================================
