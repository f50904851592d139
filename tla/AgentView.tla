----------------------------- MODULE AgentView ------------------------------
(***************************************************************************)
(* What an Agent is told before it plans: the receipt of init, which many  *)
(* callers may race for (SessionInit), the pages of memory it searches and *)
(* reads (MemoryPages) and the progress of its search (SearchProgress).    *)
(* Each call is admitted by the identity that init froze.                  *)
(***************************************************************************)
EXTENDS MemoryPages, SessionInit, SearchProgress

(* Bounds, for the parts share nothing but the Session: the Agent works in *)
(* a Session of one call of init and no call is made after its first step; *)
(* it reads when its search for memory has ended; and the progress of a    *)
(* search is followed without memory and changes, under a manifest that is *)
(* declared, for otherwise the policy is the one that tells nothing.       *)
Consults == offset # 0 \/ rows # {} \/ ~(Lengths[body] = Longest)
Searches == policy # Nothing
OneCall  == calls = 1 /\ \A c \in Callers : call[c].at = "away"
Found    == offset = -1
Followed == hits = 0 /\ ~Consults /\ edits = 0 /\ session # None /\ session.ask.declared

ViewInit == Init /\ Lengths[body] = Longest /\ StartOut /\ ProgressOut

Admit(action) == OneCall /\ Admitted(action) /\ UNCHANGED initVars

Consult ==
  \/ SearchStep /\ Admit("memory_search")
  \/ ReadStep /\ Found /\ Admit("memory_read")
  \/ SubmitPlan /\ Admit("submit_plan")
  \/ Edit /\ Found /\ OneCall /\ UNCHANGED initVars

ViewNext ==
  \/ InitStep /\ ~Searches /\ (Consults => call' = call) /\ UNCHANGED <<vars, progressVars>>
  \/ Consult /\ ~Searches /\ UNCHANGED progressVars
  \/ Followed /\ ProgressStep /\ Admit("collect") /\ UNCHANGED vars

ViewSpec == ViewInit /\ [][ViewNext]_<<vars, initVars, progressVars>>

=============================================================================
