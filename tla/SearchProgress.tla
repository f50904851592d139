--------------------------- MODULE SearchProgress ---------------------------
(***************************************************************************)
(* What a Session says of its search (collect_facts, search_progress.py):  *)
(* every collected round is given the novelty of what it generated and a   *)
(* verdict, progress or stagnation, over the last evaluations; and the     *)
(* phases of a search have evaluation budgets of their own.  Yield,        *)
(* lineage, diversity and cost are plain ratios and are left out.          *)
(***************************************************************************)
EXTENDS Integers, FiniteSets, SequencesExt

CONSTANTS
  Worth,       (* programs: a function to the objective, which is minimised  *)
  Behaviour,   (* programs: a function to the signature of what they do      *)
  Baseline,    (* the program a search starts from                           *)
  Policies,    (* [enabled, window, gain, share, coverage, budgets,          *)
               (*  schedule, enforce]; fractions are <<number, of>>          *)
  Nothing,
  Intents,     (* the phases that plans declare, or Nothing                  *)
  Evaluations, (* max_solver_calls                                           *)
  PerRound,    (* round_budget                                               *)
  Rounds       (* max_rounds                                                 *)

ASSUME ProgressAssumption ==
  /\ DOMAIN Behaviour = DOMAIN Worth /\ Baseline \in DOMAIN Worth
  /\ \A p \in DOMAIN Worth : Worth[p] \in Nat /\ Nothing \notin {p, Behaviour[p]}
  /\ Nothing \notin Nat \cup Policies
  /\ Intents \subseteq {"exploration", "exploitation", Nothing}
  /\ {Evaluations, PerRound, Rounds} \subseteq Nat

VARIABLES
  policy,   (* the policy that init froze                                    *)
  told,     (* the facts of the rounds that were collected                   *)
  phase,    (* the phase of the round that runs                              *)
  trials    (* its evaluations: [origin, program, sound, phase]              *)

progressVars == <<policy, told, phase, trials>>

Phases   == {"exploration", "exploitation"}
Programs == DOMAIN Worth
Waiting  == "no round"

ProgressOut == policy = Nothing /\ told = <<>> /\ phase = Waiting /\ trials = <<>>

-----------------------------------------------------------------------------
(* Policies and phases                                                     *)

Total(numbers) == FoldFunction(+, 0, numbers)

Normal(p) ==
  /\ {p.enabled, p.enforce} \subseteq BOOLEAN /\ p.schedule \in Seq(Phases)
  /\ p.window \in Nat \ {0} /\ p.coverage[1] <= p.coverage[2]
  /\ DOMAIN p.budgets \subseteq Phases /\ p.budgets \in [DOMAIN p.budgets -> Nat]
  /\ Total(p.budgets) <= Evaluations
  /\ p.enabled /\ p.enforce => DOMAIN p.budgets # {}
  /\ Len(p.schedule) <= Rounds
  /\ DOMAIN p.budgets # {} => ToSet(p.schedule) \subseteq DOMAIN p.budgets

(* What the Agent declares comes before the schedule.                      *)
PhaseFor(round, declared) ==
  IF ~policy.enabled THEN Nothing
  ELSE IF declared \in Phases THEN declared
  ELSE IF round <= Len(policy.schedule) THEN policy.schedule[round] ELSE Nothing

History == FlattenSeq([i \in DOMAIN told |-> told[i].trials])
Spent(ph) == LET all == History \o trials
             IN  Cardinality({i \in DOMAIN all : all[i].phase = ph})

(* Fault: the budget of a phase is that of each round. *)
AllowedByRound(ph) ==
  /\ Len(History) + Len(trials) < Evaluations /\ Len(trials) < PerRound
  /\ policy.enabled /\ policy.enforce => ph \in DOMAIN policy.budgets
                                         /\ Len(trials) < policy.budgets[ph]

(* A phase without a budget, which a plan may declare, allows nothing.     *)
Allowed(ph) ==
  /\ Len(History) + Len(trials) < Evaluations /\ Len(trials) < PerRound
  /\ policy.enabled /\ policy.enforce => ph \in DOMAIN policy.budgets
                                         /\ Spent(ph) < policy.budgets[ph]

-----------------------------------------------------------------------------
(* Novelty: generated programs against all that came before them           *)

Generated(ts)  == {i \in DOMAIN ts : ts[i].origin = "generated"}
Comparable(ts) == {i \in Generated(ts) : ts[i].sound}

(* What an evaluation counts as, Nothing where it does not count.          *)
Sources(ts) ==
  [i \in DOMAIN ts |-> IF i \in Generated(ts) THEN ts[i].program ELSE Nothing]
Signs(ts) ==
  [i \in DOMAIN ts |-> IF i \in Comparable(ts) THEN Behaviour[ts[i].program] ELSE Nothing]

Count(acc, key) ==
  IF key = Nothing THEN acc
  ELSE IF key \in acc.seen THEN [acc EXCEPT !.again = @ + 1]
  ELSE [acc EXCEPT !.novel = @ + 1, !.seen = @ \cup {key}]
Tally(seen, keys) == FoldLeft(Count, [seen |-> seen, novel |-> 0, again |-> 0], keys)

(* Fault: what repairs and parents do is not remembered. *)
SeenGenerated(ts) ==
  {Behaviour[t.program] : t \in {u \in ToSet(ts) : u.sound /\ u.origin = "generated"}}

Seen(ts) == {Behaviour[t.program] : t \in {u \in ToSet(ts) : u.sound}}

Novelty(before, ts) ==
  LET did == Tally(Seen(before), Signs(ts)) IN
  [novel |-> did.novel, again |-> did.again, made |-> Cardinality(Generated(ts)),
   copies |-> Tally({t.program : t \in ToSet(before)}, Sources(ts)).again]

Best(ts, other) ==
  LET found == {Worth[t.program] : t \in {u \in ToSet(ts) : u.sound}} \cup ({other} \ {Nothing})
  IN  IF found = {} THEN Nothing ELSE CHOOSE n \in found : \A m \in found : n <= m

(* The incumbent of a round is what the round before it ended with.        *)
Incumbent == IF told = <<>> THEN Nothing ELSE Last(told).after

Facts(verdict) ==
  [trials |-> trials, before |-> Incumbent, after |-> Best(trials, Incumbent),
   window |-> Novelty(History, trials), cumulative |-> Novelty(<<>>, History \o trials),
   verdict |-> verdict]

-----------------------------------------------------------------------------
(* The verdict over the last evaluations: whole rounds, from the last one  *)
(* back, until there are enough                                            *)

(* Fault: one round more is taken when the window is just full. *)
TakenBeyond(acc, f) ==
  IF acc.attempts > policy.window THEN acc
  ELSE [attempts |-> acc.attempts + Len(f.trials), start |-> f.before,
        comparable |-> acc.comparable + f.window.novel + f.window.again,
        made |-> acc.made + f.window.made]

Taken(acc, f) ==
  IF acc.attempts >= policy.window THEN acc
  ELSE [attempts |-> acc.attempts + Len(f.trials), start |-> f.before,
        comparable |-> acc.comparable + f.window.novel + f.window.again,
        made |-> acc.made + f.window.made]

AtLeast(n, of, share) == of # 0 /\ n * share[2] >= share[1] * of

Gains(start, end) ==
  /\ start # Nothing /\ end # Nothing
  /\ start > end
  /\ start - end >= policy.gain \/ AtLeast(start - end, start, policy.share)

Covers(comparable, made) ==
  policy.coverage[1] = 0 \/ AtLeast(comparable, made, policy.coverage)

Verdict(fs) ==
  LET none == [attempts |-> 0, start |-> Nothing, comparable |-> 0, made |-> 0]
      w    == FoldLeft(Taken, none, Reverse(fs))
  IN  CASE ~policy.enabled -> "disabled"
        [] policy.enabled /\ w.attempts < policy.window -> "insufficient"
        [] OTHER -> IF Gains(w.start, Last(fs).after) /\ Covers(w.comparable, w.made)
                    THEN "progress" ELSE "stagnated"

-----------------------------------------------------------------------------
(* A round                                                                 *)

Freeze == policy = Nothing /\ policy' \in {p \in Policies : Normal(p)}
          /\ UNCHANGED <<told, phase, trials>>

(* A round first evaluates the baseline and, twice, its incumbent.         *)
Known == IF Incumbent = Nothing THEN <<"baseline">>
         ELSE <<"baseline", "explicit_parent", "explicit_parent">>

Open(declared) ==
  /\ policy # Nothing /\ phase = Waiting /\ Len(told) < Rounds
  /\ Len(Known) <= PerRound /\ Len(History) + Len(Known) <= Evaluations
  /\ phase' = PhaseFor(Len(told) + 1, declared)
  /\ UNCHANGED <<policy, told, trials>>

(* A program that failed may be repaired.  Bound: what is known is sound.  *)
Repairs == trials # <<>> /\ Last(trials).origin = "generated" /\ ~Last(trials).sound
Origins == IF Len(trials) < Len(Known) THEN {Known[Len(trials) + 1]}
           ELSE {"generated"} \cup {o \in {"generated_repair"} : Repairs}

Evaluate(origin, program, sound) ==
  /\ phase # Waiting /\ origin \in Origins /\ Allowed(phase)
  /\ origin \in {"baseline", "explicit_parent"} => sound
  /\ origin = "baseline" => program = Baseline
  /\ origin = "explicit_parent" => Worth[program] = Incumbent
  /\ trials' = Append(trials, [origin |-> origin, program |-> program, sound |-> sound,
                               phase |-> phase])
  /\ UNCHANGED <<policy, told, phase>>

Collect ==
  /\ phase # Waiting
  /\ told' = Append(told, Facts(Verdict(Append(told, Facts(Nothing)))))
  /\ phase' = Waiting /\ trials' = <<>> /\ UNCHANGED policy

ProgressStep ==
  \/ Freeze
  \/ \E declared \in Intents : Open(declared)
  \/ \E o \in Origins, p \in Programs, s \in BOOLEAN : Evaluate(o, p, s)
  \/ Collect

-----------------------------------------------------------------------------
(* A behaviour is news in one round at most: the first that showed it, and *)
(* only if a generated program did.                                        *)
NoveltyIsCountedOnce ==
  LET By(r)    == {t \in ToSet(told[r].trials) : t.sound}
      Shown(r) == {Behaviour[t.program] : t \in By(r)}
      News(r)  == {Behaviour[t.program] : t \in {u \in By(r) : u.origin = "generated"}}
                    \ UNION {Shown(q) : q \in 1..(r - 1)}
  IN  \A r \in DOMAIN told : told[r].window.novel = Cardinality(News(r))
                             /\ told[r].window.novel <= told[r].cumulative.novel

(* Progress is what it says: the best program found before the shortest    *)
(* run of last rounds with enough evaluations was beaten by the gain, and  *)
(* enough of what those rounds generated can be compared.                  *)
VerdictIsOfItsWindow ==
  \A r \in {q \in DOMAIN told : policy.enabled} :
    LET Span(i)  == FlattenSeq([k \in 1..(r - i + 1) |-> told[i + k - 1].trials])
        BestBefore(i) == Best(FlattenSeq([k \in 1..(i - 1) |-> told[k].trials]), Nothing)
        Full     == {i \in 1..r : Len(Span(i)) >= policy.window}
        Shortest == {i \in Full : i + 1 \notin Full}
        Beaten(i) == /\ Gains(BestBefore(i), BestBefore(r + 1))
                     /\ Covers(Cardinality(Comparable(Span(i))), Cardinality(Generated(Span(i))))
    IN  told[r].verdict = IF Full = {} THEN "insufficient"
                          ELSE IF \E i \in Shortest : Beaten(i) THEN "progress" ELSE "stagnated"

(* No phase has more evaluations than its budget, over all rounds.         *)
PhasesKeepTheirBudgets ==
  policy # Nothing /\ policy.enabled /\ policy.enforce =>
    \A ph \in DOMAIN policy.budgets : Spent(ph) <= policy.budgets[ph]

(* What the Agent is told of its search is true of all that was evaluated. *)
ProgressIsAccounted == NoveltyIsCountedOnce /\ VerdictIsOfItsWindow /\ PhasesKeepTheirBudgets

=============================================================================
