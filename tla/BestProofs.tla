------------------------------ MODULE BestProofs ------------------------------
(***************************************************************************)
(* Proofs about the best candidate of an optics session: what a search is  *)
(* said to have found is the best of all that was assessed.                *)
(***************************************************************************)
EXTENDS ArtifactProofs

-----------------------------------------------------------------------------
(* The best of a search                                                    *)

(* Every complete assessment has a number of its own.                      *)
Ordered(tab) ==
  /\ \A a \in DOMAIN tab : tab[a].state = "COMPLETE" => tab[a].order # 0
  /\ \A a, b \in DOMAIN tab : tab[a].order = tab[b].order /\ tab[a].order # 0 => a = b

(* What is complete, or was said to be, is on disk.                        *)
Told(row) == row.worker = "written" \/ row.exit = "ok"
OnDiskFits(tab) ==
  \A a \in DOMAIN tab :
    (tab[a].mode = "online" /\ tab[a].state = "COMPLETE") \/ Told(tab[a]) => tab[a].terminal

(* The baseline is of the initial artifact, an assessment of a candidate   *)
(* is the only one of it, and there is none of a candidate that is reused. *)
SourcesFit(tab, rows) ==
  /\ \A a \in DOMAIN tab : tab[a].mode = "online" =>
       IF tab[a].of = 0 THEN tab[a].artifact = 0
       ELSE tab[a].of \in DOMAIN rows /\ rows[tab[a].of].reuse = 0
  /\ \A a, b \in DOMAIN tab :
       tab[a].mode = "online" /\ tab[b].mode = "online" /\ tab[a].of = tab[b].of /\ tab[a].of # 0
         => a = b

(* The baseline comes before every candidate, and before an incumbent.     *)
BaselineFits(r, tab, rows) ==
  /\ r.incumbent # 0 \/ DOMAIN rows # {} => r.baseline # 0
  /\ r.baseline # 0 => r.baseline \in CompleteOnline(tab) /\ tab[r.baseline].of = 0

(* No assessment that was accepted is better than the incumbent.           *)
Beaten(a, r, tab) == KeyOf(a, tab) <= KeyOf(r.incumbent, tab)
Accepted(a, r, tab) == tab[a].state = "COMPLETE" /\ Beaten(a, r, tab)
BestKnown(r, tab, rows) ==
  /\ r.baseline # 0 => Beaten(r.baseline, r, tab)
  /\ \A a \in DOMAIN tab : tab[a].mode = "online" /\ tab[a].of # 0 =>
       (rows[tab[a].of].state = "COMPLETE" => Accepted(a, r, tab))

BestTables(r, tab, rows) ==
  /\ Ordered(tab) /\ OnDiskFits(tab) /\ SourcesFit(tab, rows) /\ BaselineFits(r, tab, rows)
  /\ ~r.sealed => BestKnown(r, tab, rows)

(* What a runner of a search compares with, and what it holds.             *)
Executing == Current.state = "EXECUTING"
Requesting == {"start", "call", "wait", "reply", "validate"}
BeforeIts(t) == tasks[t].at \in Requesting \/ (tasks[t].at = "assess" /\ tasks[t].c # 0)
OfNone(c) == \A a \in DOMAIN assessments : Online(a) => assessments[a].of # c
AllCompleteOf(c) ==
  \A a \in DOMAIN assessments :
    Online(a) /\ assessments[a].of = c => assessments[a].state = "COMPLETE"
Fresh(c) == candidates[c].reuse = 0 /\ candidates[c].state # "COMPLETE"
AllBeaten == \A a \in CompleteOnline(assessments) : Beaten(a, run, assessments)

ComparesBaseline(t) ==
  /\ tasks[t].c = 0 /\ tasks[t].at \in Assessing \cup {"assess", "baseline"} => run.baseline = 0
  /\ tasks[t].at = "baseline" => tasks[t].c = 0 /\ assessments[tasks[t].a].of = 0
NeedsParent(t) ==
  \/ tasks[t].at \in Requesting \cup {"generate", "compare"}
  \/ tasks[t].c # 0 /\ tasks[t].at \in Assessing \cup {"assess"}
ComparesParent(t) == NeedsParent(t) => tasks[t].parent = Parent(run)
ComparesNew(t) == BeforeIts(t) => OfNone(tasks[t].c) /\ Fresh(tasks[t].c)
ComparesAssessed(t) ==
  /\ tasks[t].at \in Assessing => assessments[tasks[t].a].of = tasks[t].c
  /\ tasks[t].at = "record" => assessments[tasks[t].a].terminal
  /\ tasks[t].at = "compare" \/ (tasks[t].at = "finish" /\ tasks[t].verdict = "COMPLETE") =>
       AllCompleteOf(tasks[t].c)
HoldsBest(t) ==
  ~run.sealed => \A a \in CompleteOnline(assessments) :
    \/ Beaten(a, run, assessments)
    \/ Executing /\ tasks[t].at \in {"baseline", "compare"} /\ tasks[t].a = a
Compares(t) ==
  /\ ComparesBaseline(t) /\ ComparesParent(t) /\ ComparesNew(t) /\ ComparesAssessed(t)
  /\ HoldsBest(t)
SearchersCompare == \A t \in DOMAIN tasks : Alive(t) /\ Searches(t) => Compares(t)

(* Without a runner, only what a dead one left may be better.              *)
Abandoned(t) == t \in Active /\ Searches(t) /\ tasks[t].pid /\ tasks[t].runner = "gone"
NoSearcher == \A t \in DOMAIN tasks : Alive(t) => ~Searches(t)
SearchIsBest ==
  run.state = "SEARCHING" /\ NoSearcher =>
    AllBeaten \/ (Executing /\ \E t \in DOMAIN tasks : Abandoned(t))

(* The round of a search that is not over executes.                        *)
RoundExecutes ==
  ~run.sealed => \A t \in Active :
    Searches(t) /\ tasks[t].runner # "gone" /\ ~(Alive(t) /\ tasks[t].at \in {"done", "failed"})
      => Executing
AuditsAreSealed ==
  /\ run.state = "COMPLETED" => run.sealed
  /\ \A t \in DOMAIN tasks : ~Searches(t) => run.sealed

BestInv ==
  /\ BestTables(run, assessments, candidates)
  /\ SearchersCompare /\ SearchIsBest /\ RoundExecutes /\ AuditsAreSealed

-----------------------------------------------------------------------------
(* Keys                                                                    *)

LEMMA KeyIs ==
  ASSUME NEW tab \in Seq(AssessmentRow), NEW a \in DOMAIN tab \cup {0}
  PROVE  KeyOf(a, tab) \in Nat
<1>1. CASE a = 0
  BY <1>1 DEF KeyOf
<1>2. CASE a # 0
  <2>1. tab[a] \in AssessmentRow
    BY <1>2
  <2>2. tab[a].artifact \in Artifacts
    BY <2>1 DEF AssessmentRow
  <2>3. QED  BY <1>2, <2>2, BudgetAssumption DEF KeyOf
<1>3. QED  BY <1>1, <1>2

LEMMA SameKey ==
  ASSUME NEW old, NEW new, NEW a \in DOMAIN old \cup {0},
         \A b \in DOMAIN old : new[b].artifact = old[b].artifact
  PROVE  KeyOf(a, new) = KeyOf(a, old)
  BY DEF KeyOf

(* What a step may change in the tables without a word on what is best.    *)
SameRecord(old, new) ==
  /\ new.mode = old.mode /\ new.of = old.of /\ new.artifact = old.artifact
  /\ new.order = old.order
  /\ new.state = "COMPLETE" => old.state = "COMPLETE"
  /\ old.mode = "online" /\ old.state = "COMPLETE" => new.state = "COMPLETE"
  /\ old.terminal => new.terminal
  /\ Told(new) => Told(old) \/ new.terminal
SameRecords(old, new) ==
  DOMAIN new = DOMAIN old /\ \A a \in DOMAIN old : SameRecord(old[a], new[a])
SameOutcome(old, new) == new.reuse = old.reuse /\ (new.state = "COMPLETE" => old.state = "COMPLETE")
SameOutcomes(old, new) ==
  DOMAIN new = DOMAIN old /\ \A c \in DOMAIN old : SameOutcome(old[c], new[c])
SameBest(old, new) ==
  /\ new.incumbent = old.incumbent /\ new.baseline = old.baseline
  /\ old.sealed => new.sealed

LEMMA BestTablesKept ==
  ASSUME NEW r, NEW tab, NEW rows, NEW q, NEW new, NEW cs, BestTables(r, tab, rows),
         SameRecords(tab, new), SameOutcomes(rows, cs), SameBest(r, q),
         r.incumbent \in DOMAIN tab \cup {0}
  PROVE  /\ BestTables(q, new, cs)
         /\ \A a \in DOMAIN tab \cup {0} : KeyOf(a, new) = KeyOf(a, tab)
         /\ CompleteOnline(new) = CompleteOnline(tab)
<1>1. \A a \in DOMAIN tab \cup {0} : KeyOf(a, new) = KeyOf(a, tab)
  BY SameKey DEF SameRecords, SameRecord
<1>2. CompleteOnline(new) = CompleteOnline(tab)
  BY DEF CompleteOnline, SameRecords, SameRecord
<1>3. Ordered(new) /\ OnDiskFits(new)
  BY DEF BestTables, Ordered, OnDiskFits, SameRecords, SameRecord
<1>4. SourcesFit(new, cs)
  BY DEF BestTables, SourcesFit, SameRecords, SameRecord, SameOutcomes, SameOutcome
<1>5. BaselineFits(q, new, cs)
  BY <1>2 DEF BestTables, BaselineFits, SameRecords, SameRecord, SameOutcomes, SameOutcome,
     SameBest, CompleteOnline
<1>6. ASSUME ~q.sealed PROVE BestKnown(q, new, cs)
  <2>1. BestKnown(r, tab, rows)
    BY <1>6 DEF SameBest, BestTables
  <2>2. ASSUME NEW a \in DOMAIN tab PROVE Beaten(a, q, new) <=> Beaten(a, r, tab)
    BY <1>1 DEF Beaten, SameBest
  <2>3. r.baseline # 0 => r.baseline \in DOMAIN tab
    BY DEF BestTables, BaselineFits, CompleteOnline
  <2>4. \A a \in DOMAIN tab : tab[a].mode = "online" /\ tab[a].of # 0 => tab[a].of \in DOMAIN rows
    BY DEF BestTables, SourcesFit
  <2>5. q.baseline # 0 => Beaten(q.baseline, q, new)
    BY <2>1, <2>2, <2>3 DEF BestKnown, SameBest
  <2>6. ASSUME NEW a \in DOMAIN new, new[a].mode = "online", new[a].of # 0,
               cs[new[a].of].state = "COMPLETE"
        PROVE  Accepted(a, q, new)
    <3>1. a \in DOMAIN tab /\ tab[a].mode = "online" /\ tab[a].of # 0 /\ new[a].of = tab[a].of
      BY <2>6 DEF SameRecords, SameRecord
    <3>2. rows[tab[a].of].state = "COMPLETE"
      BY <2>4, <2>6, <3>1 DEF SameOutcomes, SameOutcome
    <3>3. Accepted(a, r, tab)
      BY <2>1, <3>1, <3>2 DEF BestKnown
    <3>4. QED  BY <2>2, <3>1, <3>3 DEF Accepted, SameRecords, SameRecord
  <2>7. QED  BY <2>5, <2>6 DEF BestKnown
<1>7. QED  BY <1>1, <1>2, <1>3, <1>4, <1>5, <1>6 DEF BestTables

-----------------------------------------------------------------------------
(* What the repair has reached                                             *)

(* A fold is where its steps have led, from one index to the next.         *)
LEMMA FoldClimbs ==
  ASSUME NEW W, NEW n \in Nat, NEW G, G[{}] \in W[0],
         \A k \in 1..n : G[1..(k - 1)] \in W[k - 1] => G[1..k] \in W[k]
  PROVE  G[1..n] \in W[n]
<1> DEFINE Odd == {k \in 0..n : G[1..k] \notin W[k]}
<1>1. n \in 0..n
  OBVIOUS
<1>2. SUFFICES ASSUME n \in Odd PROVE FALSE
  BY <1>1
<1>3. Odd \in SUBSET Nat
  OBVIOUS
<1>4. PICK k \in Odd : \A j \in Odd : k <= j
  BY <1>2, <1>3, SmallestNumber
<1>5. k # 0
  <2>1. 1..0 = {}
    OBVIOUS
  <2>2. G[1..k] \notin W[k]
    OBVIOUS
  <2>3. QED  BY <2>1, <2>2
<1>6. k \in 1..n /\ k - 1 \in 0..n /\ k - 1 \notin Odd
  BY <1>4, <1>5
<1> HIDE DEF Odd
<1>7. G[1..(k - 1)] \in W[k - 1]
  BY <1>6 DEF Odd
<1>8. G[1..k] \in W[k]
  BY <1>6, <1>7
<1>9. QED  BY <1>4, <1>8 DEF Odd

(* The repair goes through the assessments, and leads from W[k - 1] to W[k].*)
LEMMA AssessmentsClimb ==
  ASSUME NEW V, NEW n \in Nat, NEW base \in V,
         \A s \in V, k \in 1..n : ReconcileAssessment(s, k) \in V,
         NEW W, base \in W[0],
         \A s \in V, k \in 1..n : s \in W[k - 1] => ReconcileAssessment(s, k) \in W[k]
  PROVE  FoldLeft(ReconcileAssessment, base, Upto(n)) \in V \cap W[n]
<1> DEFINE F == [p \in V \X (1..n) |-> ReconcileAssessment(p[1], p[2])]
           G == CHOOSE g : g = [T \in SUBSET DOMAIN Upto(n) |->
                  IF T = {} THEN base
                  ELSE ReconcileAssessment(g[T \ {Max(T)}], Upto(n)[Max(T)])]
           Body(h, T) == IF T = {} THEN base
                         ELSE ReconcileAssessment(h[T \ {Max(T)}], Upto(n)[Max(T)])
           U == [k \in 0..n |-> V \cap W[k]]
<1>1. F \in [V \X (1..n) -> V]
  OBVIOUS
<1>2. DOMAIN Upto(n) = 1..n /\ \A i \in 1..n : Upto(n)[i] = i
  BY DEF Upto
<1>3. PICK g : FoldsTo(g, F, base, V, n)
  <2> HIDE DEF F
  <2>1. QED  BY <1>1, FoldExists
<1>4. G = [T \in SUBSET DOMAIN Upto(n) |-> Body(G, T)]
  <2>1. ASSUME NEW T \in SUBSET (1..n) PROVE g[T] = Body(g, T)
    <3>1. CASE T = {}
      BY <3>1, <1>3 DEF FoldsTo
    <3>2. CASE T # {}
      <4>1. Max(T) \in 1..n /\ T \ {Max(T)} \in SUBSET (1..n)
        BY <3>2, LargestOfPlaces
      <4>2. g[T \ {Max(T)}] \in V /\ g[T] = F[<<g[T \ {Max(T)}], Max(T)>>]
        <5> HIDE DEF F
        <5>1. QED  BY <4>1, <3>2, <1>3 DEF FoldsTo
      <4>3. F[<<g[T \ {Max(T)}], Max(T)>>] = ReconcileAssessment(g[T \ {Max(T)}], Max(T))
        BY <4>1, <4>2
      <4> HIDE DEF F, G
      <4>4. QED  BY <4>1, <4>2, <4>3, <1>2, <3>2
    <3>3. QED  BY <3>1, <3>2
  <2> HIDE DEF Body, F
  <2>2. g = [T \in SUBSET (1..n) |-> g[T]]
    BY <1>3 DEF FoldsTo
  <2>3. g = [T \in SUBSET DOMAIN Upto(n) |-> Body(g, T)]
    BY <2>1, <2>2, <1>2
  <2> USE DEF Body
  <2>4. \E h : h = [T \in SUBSET DOMAIN Upto(n) |-> Body(h, T)]
    BY <2>3
  <2>5. QED  BY <2>4
<1>5. FoldLeft(ReconcileAssessment, base, Upto(n)) = G[DOMAIN Upto(n)]
  BY DEF FoldLeft, MapThenFoldSet
<1>6. G[{}] \in U[0]
  <2>1. {} \in SUBSET DOMAIN Upto(n) /\ 0 \in 0..n
    OBVIOUS
  <2> HIDE DEF F, G
  <2>2. G[{}] = base
    BY <2>1, <1>4
  <2>3. QED  BY <2>1, <2>2
<1>7. ASSUME NEW k \in 1..n, G[1..(k - 1)] \in U[k - 1]
      PROVE  G[1..k] \in U[k]
  <2> HIDE DEF F, G, U
  <2>1. 1..k \in SUBSET (1..n) /\ 1..k # {} /\ k \in 1..k /\ k \in Nat
    <3>1. k \in Nat /\ k \in 1..k /\ k <= n
      OBVIOUS
    <3>2. \A i \in 1..k : i \in 1..n
      <4> HIDE DEF U, Body
      <4>1. QED  BY <3>1
    <3>3. 1..k # {}
      BY <3>1
    <3>4. QED  BY <3>1, <3>2, <3>3
  <2>2. Max(1..k) = k
    <3>1. 1..k \in SUBSET (0..k)
      OBVIOUS
    <3>2. Max(1..k) \in 1..k /\ k <= Max(1..k)
      BY <2>1, <3>1, LargestNumber
    <3>3. QED  BY <2>1, <3>2
  <2>3. (1..k) \ {k} = 1..(k - 1)
    BY <2>1
  <2>4. G[1..k] = ReconcileAssessment(G[1..(k - 1)], k)
    <3>1. G[1..k] = Body(G, 1..k)
      <4> HIDE DEF Body
      <4>1. QED  BY <1>2, <1>4, <2>1
    <3>2. Body(G, 1..k) = ReconcileAssessment(G[(1..k) \ {k}], Upto(n)[k])
      BY <2>1, <2>2
    <3>3. Upto(n)[k] = k
      BY <1>2
    <3>4. QED  BY <2>3, <3>1, <3>2, <3>3
  <2>5. k - 1 \in 0..n /\ k \in 0..n
    BY <2>1
  <2>6. G[1..(k - 1)] \in V /\ G[1..(k - 1)] \in W[k - 1]
    BY <1>7, <2>5 DEF U
  <2>7. G[1..k] \in V /\ G[1..k] \in W[k]
    BY <2>4, <2>6
  <2>8. QED  BY <2>5, <2>7 DEF U
<1>8. G[1..n] \in U[n]
  <2> HIDE DEF F, G, Body, U
  <2>1. QED  BY <1>6, <1>7, FoldClimbs
<1>9. n \in 0..n /\ U[n] = V \cap W[n]
  OBVIOUS
<1> HIDE DEF F, G, Body, U
<1>10. QED  BY <1>2, <1>5, <1>8, <1>9

-----------------------------------------------------------------------------
(* What is recorded, and what is accepted                                  *)

(* An assessment is recorded, with the next number.                        *)
Records(old, a, new) ==
  /\ DOMAIN new = DOMAIN old
  /\ new[a].state = "COMPLETE" /\ new[a].order = NextOrder(old)
  /\ \A b \in DOMAIN old :
       /\ new[b].mode = old[b].mode /\ new[b].of = old[b].of /\ new[b].artifact = old[b].artifact
       /\ new[b].worker = old[b].worker /\ new[b].exit = old[b].exit
       /\ new[b].terminal = old[b].terminal
       /\ b # a => new[b].state = old[b].state /\ new[b].order = old[b].order

LEMMA RecordBest ==
  ASSUME NEW r, NEW tab \in Seq(AssessmentRow), NEW rows, NEW a \in DOMAIN tab, NEW new,
         BestTables(r, tab, rows), Records(tab, a, new),
         tab[a].mode = "online" => tab[a].terminal,
         r.incumbent \in DOMAIN tab \cup {0}
  PROVE  /\ BestTables(r, new, rows)
         /\ \A b \in DOMAIN tab \cup {0} : KeyOf(b, new) = KeyOf(b, tab)
         /\ \A b \in CompleteOnline(new) : b = a \/ b \in CompleteOnline(tab)
<1>1. \A b \in DOMAIN tab \cup {0} : KeyOf(b, new) = KeyOf(b, tab)
  BY SameKey DEF Records
<1>2. \A b \in CompleteOnline(new) : b = a \/ b \in CompleteOnline(tab)
  BY DEF CompleteOnline, Records
<1>3. \A b \in CompleteOnline(tab) : b \in CompleteOnline(new) /\ b \in DOMAIN tab
  BY DEF CompleteOnline, Records
<1>4. Ordered(new)
  <2>1. /\ \A b \in DOMAIN tab : tab[b].order \in Nat /\ tab[b].order < NextOrder(tab)
        /\ NextOrder(tab) \in Nat \ {0}
    <3>1. \A b \in DOMAIN tab : tab[b] \in AssessmentRow
      OBVIOUS
    <3>2. \A b \in DOMAIN tab : tab[b].order \in Nat
      BY <3>1 DEF AssessmentRow
    <3>3. Recorded(tab) \in Nat /\ \A b \in DOMAIN tab : tab[b].order <= Recorded(tab)
      BY LastNumber
    <3>4. QED  BY <3>2, <3>3 DEF NextOrder
  <2>2. Ordered(tab)
    BY DEF BestTables
  <2>3. \A b \in DOMAIN tab : new[b].order = IF b = a THEN NextOrder(tab) ELSE tab[b].order
    BY DEF Records
  <2>4. \A b \in DOMAIN tab : new[b].order # NextOrder(tab) \/ b = a
    BY <2>1, <2>3
  <2>5. \A b \in DOMAIN tab : new[b].state = "COMPLETE" => new[b].order # 0
    BY <2>1, <2>2, <2>3 DEF Ordered, Records
  <2>6. \A b, d \in DOMAIN tab : new[b].order = new[d].order /\ new[b].order # 0 => b = d
    BY <2>2, <2>3, <2>4 DEF Ordered
  <2>7. QED  BY <2>5, <2>6 DEF Ordered, Records
<1>5. OnDiskFits(new)
  BY DEF BestTables, OnDiskFits, Told, Records
<1>6. SourcesFit(new, rows)
  BY DEF BestTables, SourcesFit, Records
<1>7. BaselineFits(r, new, rows)
  BY <1>3 DEF BestTables, BaselineFits, Records
<1>8. ASSUME ~r.sealed PROVE BestKnown(r, new, rows)
  <2>1. BestKnown(r, tab, rows)
    BY <1>8 DEF BestTables
  <2>2. r.baseline # 0 => r.baseline \in DOMAIN tab
    BY DEF BestTables, BaselineFits, CompleteOnline
  <2>3. \A b \in DOMAIN tab : Beaten(b, r, new) <=> Beaten(b, r, tab)
    BY <1>1 DEF Beaten
  <2>4. \A b \in DOMAIN tab : Accepted(b, r, tab) => Accepted(b, r, new)
    BY <2>3 DEF Accepted, Records
  <2>5. QED  BY <2>1, <2>2, <2>3, <2>4 DEF BestKnown, Records
<1>9. QED  BY <1>1, <1>2, <1>4, <1>5, <1>6, <1>7, <1>8 DEF BestTables

(* The incumbent is replaced by one that is not worse, and candidates are  *)
(* completed whose assessments are accepted.                               *)
Improves(r, q, tab) ==
  /\ q.incumbent \in DOMAIN tab \cup {0} /\ q.sealed = r.sealed
  /\ KeyOf(r.incumbent, tab) <= KeyOf(q.incumbent, tab)
  /\ \/ q.baseline = r.baseline
     \/ /\ r.baseline = 0 /\ q.baseline \in CompleteOnline(tab) /\ tab[q.baseline].of = 0
        /\ Beaten(q.baseline, q, tab)
  /\ q.incumbent # 0 => q.baseline # 0
AcceptedOf(c, q, tab) ==
  \A a \in DOMAIN tab : tab[a].mode = "online" /\ tab[a].of = c => Accepted(a, q, tab)
Completes(rows, cs, q, tab) ==
  /\ DOMAIN cs = DOMAIN rows
  /\ \A c \in DOMAIN rows :
       /\ cs[c].reuse = rows[c].reuse
       /\ (~q.sealed /\ cs[c].state = "COMPLETE" =>
             rows[c].state = "COMPLETE" \/ AcceptedOf(c, q, tab))

LEMMA AcceptBest ==
  ASSUME NEW r, NEW tab \in Seq(AssessmentRow), NEW rows, NEW q, NEW cs,
         BestTables(r, tab, rows), r.incumbent \in DOMAIN tab \cup {0},
         Improves(r, q, tab), Completes(rows, cs, q, tab)
  PROVE  BestTables(q, tab, cs)
<1>1. \A a \in DOMAIN tab \cup {0} : KeyOf(a, tab) \in Nat
  BY KeyIs
<1>2. \A a \in DOMAIN tab : Beaten(a, r, tab) => Beaten(a, q, tab)
  BY <1>1 DEF Beaten, Improves
<1>3. Ordered(tab) /\ OnDiskFits(tab)
  BY DEF BestTables
<1>4. SourcesFit(tab, cs)
  BY DEF BestTables, SourcesFit, Completes
<1>5. BaselineFits(q, tab, cs)
  BY DEF BestTables, BaselineFits, CompleteOnline, Improves, Completes
<1>6. ASSUME ~q.sealed PROVE BestKnown(q, tab, cs)
  <2>1. BestKnown(r, tab, rows)
    BY <1>6 DEF BestTables, Improves
  <2>2. r.baseline # 0 => r.baseline \in DOMAIN tab
    BY DEF BestTables, BaselineFits, CompleteOnline
  <2>3. q.baseline # 0 => Beaten(q.baseline, q, tab)
    BY <1>2, <2>1, <2>2 DEF BestKnown, Improves
  <2>4. \A a \in DOMAIN tab : Accepted(a, r, tab) => Accepted(a, q, tab)
    BY <1>2 DEF Accepted
  <2>5. \A a \in DOMAIN tab : tab[a].mode = "online" /\ tab[a].of # 0 => tab[a].of \in DOMAIN rows
    BY DEF BestTables, SourcesFit
  <2>6. QED  BY <1>6, <2>1, <2>3, <2>4, <2>5 DEF BestKnown, Completes, AcceptedOf
<1>7. QED  BY <1>3, <1>4, <1>5, <1>6 DEF BestTables

(* What the repair keeps of what is best.                                  *)
BestRepairs ==
  {s \in Repairs :
     /\ BestTables(s.run, s.assessments, s.candidates)
     /\ KeyOf(run.incumbent, assessments) <= KeyOf(s.run.incumbent, s.assessments)
     /\ \A a \in DOMAIN assessments : s.assessments[a].terminal = assessments[a].terminal}

(* Up to k, what is on disk was accepted.                                  *)
Reached(s, k) ==
  s.ok /\ ~s.run.sealed =>
    \A a \in DOMAIN assessments : a <= k /\ Online(a) /\ assessments[a].terminal =>
      Accepted(a, s.run, s.assessments)

LEMMA RepairIs ==
  ASSUME NEW s \in BestRepairs
  PROVE  /\ s \in Repairs /\ BestTables(s.run, s.assessments, s.candidates)
         /\ s \in [run : RunRow, assessments : Seq(AssessmentRow), candidates : Seq(CandidateRow),
                   ok : BOOLEAN]
         /\ s.run \in RunRow /\ s.assessments \in Seq(AssessmentRow)
         /\ s.candidates \in Seq(CandidateRow)
         /\ DOMAIN s.assessments = DOMAIN assessments /\ DOMAIN s.candidates = DOMAIN candidates
         /\ \A a \in DOMAIN assessments :
              /\ s.assessments[a].mode = assessments[a].mode
              /\ s.assessments[a].of = assessments[a].of
              /\ s.assessments[a].artifact = assessments[a].artifact
              /\ s.assessments[a].terminal = assessments[a].terminal
              /\ s.assessments[a].state = "INVALID" <=> assessments[a].state = "INVALID"
         /\ \A c \in DOMAIN candidates : s.candidates[c].reuse = candidates[c].reuse
         /\ s.run.incumbent \in DOMAIN s.assessments \cup {0}
         /\ s.run.sealed = run.sealed
         /\ KeyOf(run.incumbent, assessments) <= KeyOf(s.run.incumbent, s.assessments)
<1>1. /\ RunRecovers(s.run, s.assessments) /\ Advances(assessments, s.assessments)
      /\ Uninvalidated(s.assessments) /\ SameRequests(s.candidates) /\ s \in Repairs
      /\ s \in [run : RunRow, assessments : Seq(AssessmentRow), candidates : Seq(CandidateRow),
                ok : BOOLEAN]
  BY DEF BestRepairs, Repairs
<1>2. s.run.incumbent \in DOMAIN s.assessments \cup {0} /\ s.run.sealed = run.sealed
  BY <1>1 DEF RunRecovers, CompleteOnline
<1>3. \A a \in DOMAIN assessments :
         s.assessments[a].state = "INVALID" <=> assessments[a].state = "INVALID"
  BY <1>1 DEF Uninvalidated, Advances
<1>4. QED  BY <1>1, <1>2, <1>3 DEF BestRepairs, Advances, SameRequests

LEMMA IncumbentKey ==
  ASSUME TypeOK, SealFits
  PROVE  KeyOf(run.incumbent, assessments) \in Nat
<1>1. run.incumbent \in DOMAIN assessments \cup {0} /\ assessments \in Seq(AssessmentRow)
  BY Rows DEF SealFits, CompleteOnline
<1>2. QED  BY <1>1, KeyIs

LEMMA TablesAreBest ==
  ASSUME TypeOK, SealFits, BestTables(run, assessments, candidates)
  PROVE  Tables \in BestRepairs /\ Reached(Tables, 0)
<1>1. /\ Tables \in Repairs /\ Tables.run = run /\ Tables.assessments = assessments
      /\ Tables.candidates = candidates
  BY TablesRepair DEF Tables
<1>2. KeyOf(run.incumbent, assessments) \in Nat
  BY IncumbentKey
<1>3. \A a \in DOMAIN assessments : ~(a <= 0)
  BY Rows
<1>4. QED  BY <1>1, <1>2, <1>3 DEF BestRepairs, Reached

LEMMA PromoteBest ==
  ASSUME NEW s \in BestRepairs, NEW a \in DOMAIN assessments, assessments[a].terminal,
         s.assessments[a].state # "INVALID"
  PROVE  /\ Promote(s, a) \in BestRepairs
         /\ Promote(s, a).run = s.run /\ Promote(s, a).candidates = s.candidates
         /\ Promote(s, a).ok = s.ok
         /\ Promote(s, a).assessments[a].state = "COMPLETE"
         /\ \A b \in DOMAIN assessments : Accepted(b, s.run, s.assessments) =>
              Accepted(b, Promote(s, a).run, Promote(s, a).assessments)
<1> DEFINE p == Promote(s, a)
<1>1. /\ s \in [run : RunRow, assessments : Seq(AssessmentRow), candidates : Seq(CandidateRow),
                ok : BOOLEAN]
      /\ s \in Repairs /\ BestTables(s.run, s.assessments, s.candidates)
      /\ DOMAIN s.assessments = DOMAIN assessments /\ s.assessments \in Seq(AssessmentRow)
      /\ s.run.incumbent \in DOMAIN s.assessments \cup {0} /\ s.assessments[a].terminal
      /\ KeyOf(run.incumbent, assessments) <= KeyOf(s.run.incumbent, s.assessments)
      /\ \A b \in DOMAIN assessments : s.assessments[b].terminal = assessments[b].terminal
  BY RepairIs
<1>2. /\ p \in Repairs /\ p.assessments[a].state = "COMPLETE" /\ p.ok = s.ok
  BY <1>1, PromoteRepairs
<1>3. CASE s.assessments[a].state = "COMPLETE"
  BY <1>1, <1>2, <1>3 DEF Promote
<1>4. CASE s.assessments[a].state # "COMPLETE"
  <2> DEFINE old == s.assessments
             row == [old[a] EXCEPT !.state = "COMPLETE", !.order = NextOrder(old)]
             tab == [old EXCEPT ![a] = row]
  <2>1. a \in DOMAIN old /\ old[a] \in AssessmentRow
    BY <1>1
  <2>2. NextOrder(old) \in Nat
    BY <1>1, LastNumber DEF NextOrder
  <2>3. /\ row \in AssessmentRow /\ row.state = "COMPLETE" /\ row.order = NextOrder(old)
        /\ row.mode = old[a].mode /\ row.of = old[a].of /\ row.artifact = old[a].artifact
        /\ row.worker = old[a].worker /\ row.exit = old[a].exit /\ row.terminal = old[a].terminal
    <3> HIDE DEF old
    <3>1. QED  BY <2>1, <2>2 DEF AssessmentRow
  <2>4. /\ p.assessments = tab /\ p.run = s.run /\ p.candidates = s.candidates
    BY <1>1, <1>4, <2>1 DEF Promote
  <2> HIDE DEF row, p
  <2>5. /\ DOMAIN tab = DOMAIN old
        /\ \A b \in DOMAIN old : tab[b] = IF b = a THEN row ELSE old[b]
    <3>1. old \in Seq(AssessmentRow)
      BY <1>1
    <3> HIDE DEF old
    <3>2. QED  BY <2>3, <3>1, RowReplaced
  <2>6. /\ old \in Seq(AssessmentRow) /\ BestTables(s.run, old, s.candidates) /\ old[a].terminal
        /\ s.run.incumbent \in DOMAIN old \cup {0} /\ DOMAIN old = DOMAIN assessments
        /\ KeyOf(run.incumbent, assessments) <= KeyOf(s.run.incumbent, old)
        /\ \A b \in DOMAIN assessments : old[b].terminal = assessments[b].terminal
    BY <1>1
  <2>7. \A b \in DOMAIN assessments :
          Accepted(b, s.run, old) <=> Accepted(b, s.run, s.assessments)
    OBVIOUS
  <2> DEFINE r == s.run
             rows == s.candidates
  <2> HIDE DEF tab, old
  <2>8. Records(old, a, tab)
    BY <2>1, <2>3, <2>5 DEF Records
  <2>9. /\ BestTables(s.run, tab, s.candidates)
        /\ \A b \in DOMAIN old \cup {0} : KeyOf(b, tab) = KeyOf(b, old)
    <3>1. /\ BestTables(r, old, rows) /\ r.incumbent \in DOMAIN old \cup {0}
          /\ a \in DOMAIN old /\ old \in Seq(AssessmentRow) /\ old[a].terminal
      BY <2>1, <2>6
    <3> HIDE DEF r, rows
    <3>2. /\ BestTables(r, tab, rows)
          /\ \A b \in DOMAIN old \cup {0} : KeyOf(b, tab) = KeyOf(b, old)
      BY <2>8, <3>1, RecordBest
    <3>3. QED  BY <3>2 DEF r, rows
  <2>10. \A b \in DOMAIN assessments : tab[b].terminal = assessments[b].terminal
    BY <2>6, <2>8 DEF Records
  <2>11. KeyOf(run.incumbent, assessments) <= KeyOf(s.run.incumbent, tab)
    BY <2>6, <2>9
  <2>12. p \in BestRepairs
    BY <1>2, <2>4, <2>9, <2>10, <2>11 DEF BestRepairs
  <2>13. \A b \in DOMAIN assessments : Accepted(b, s.run, old) => Accepted(b, s.run, tab)
    BY <2>6, <2>8, <2>9 DEF Accepted, Beaten, Records
  <2>14. QED  BY <1>2, <2>4, <2>7, <2>12, <2>13 DEF p
<1>5. QED  BY <1>3, <1>4


(* What was accepted stays accepted.                                       *)
Grows(s, p) ==
  /\ p.ok => s.ok
  /\ p.run.sealed = s.run.sealed
  /\ \A b \in DOMAIN assessments :
       Accepted(b, s.run, s.assessments) => Accepted(b, p.run, p.assessments)

LEMMA GrowsReaches ==
  ASSUME NEW s, NEW p, NEW k, Grows(s, p), Reached(s, k)
  PROVE  Reached(p, k)
  BY DEF Grows, Reached

LEMMA FailsBest ==
  ASSUME NEW s \in BestRepairs
  PROVE  /\ [s EXCEPT !.ok = FALSE] \in BestRepairs
         /\ [s EXCEPT !.ok = FALSE].run = s.run /\ ~[s EXCEPT !.ok = FALSE].ok
<1> DEFINE f == [s EXCEPT !.ok = FALSE]
<1>1. s \in Repairs /\ s \in [run : RunRow, assessments : Seq(AssessmentRow),
                              candidates : Seq(CandidateRow), ok : BOOLEAN]
  BY RepairIs
<1>2. f \in Repairs
  BY <1>1, FailsRepairs
<1>3. f.run = s.run /\ f.assessments = s.assessments /\ f.candidates = s.candidates /\ ~f.ok
  BY <1>1
<1> HIDE DEF f
<1>4. f \in BestRepairs
  BY <1>2, <1>3 DEF BestRepairs
<1>5. QED  BY <1>3, <1>4 DEF f

LEMMA AdoptBest ==
  ASSUME TypeOK, SealFits, NEW s \in BestRepairs, NEW c \in DOMAIN candidates,
         NEW a \in CompleteOnline(s.assessments),
         \A b \in DOMAIN assessments : Online(b) /\ assessments[b].of = c => b = a
  PROVE  /\ Adopt(s, c, a) \in BestRepairs /\ Grows(s, Adopt(s, c, a))
         /\ Adopt(s, c, a).ok /\ ~Adopt(s, c, a).run.sealed =>
              Accepted(a, Adopt(s, c, a).run, Adopt(s, c, a).assessments)
<1> DEFINE R == [run : RunRow, assessments : Seq(AssessmentRow), candidates : Seq(CandidateRow),
                 ok : BOOLEAN]
           tab  == s.assessments
           best == IF Accepts(s.run.incumbent, a, tab) THEN a ELSE s.run.incumbent
           r    == [s.run EXCEPT !.incumbent = best]
           rows == [s.candidates EXCEPT ![c].state = "COMPLETE"]
           p    == Adopt(s, c, a)
<1>1. /\ s \in R /\ tab \in Seq(AssessmentRow) /\ s.candidates \in Seq(CandidateRow)
      /\ s.run \in RunRow /\ s \in Repairs /\ BestTables(s.run, tab, s.candidates)
      /\ DOMAIN tab = DOMAIN assessments /\ DOMAIN s.candidates = DOMAIN candidates
      /\ \A b \in DOMAIN assessments :
           /\ tab[b].mode = assessments[b].mode /\ tab[b].of = assessments[b].of
           /\ tab[b].terminal = assessments[b].terminal
      /\ s.run.incumbent \in DOMAIN tab \cup {0}
      /\ KeyOf(run.incumbent, assessments) <= KeyOf(s.run.incumbent, tab)
  BY RepairIs
<1>2. p \in Repairs
  BY <1>1, AdoptRepairs
<1>3. CASE s.run.sealed
  <2>1. p = [s EXCEPT !.ok = FALSE]
    BY <1>3 DEF Adopt
  <2>2. p \in BestRepairs /\ p.run = s.run /\ ~p.ok
    BY <2>1, FailsBest
  <2>3. p.assessments = s.assessments
    BY <1>1, <2>1
  <2>4. QED  BY <2>2, <2>3 DEF Grows
<1>4. CASE ~s.run.sealed
  <2>1. p = [s EXCEPT !.run = r, !.candidates = rows]
    BY <1>1, <1>4 DEF Adopt
  <2>2. /\ p.run = r /\ p.candidates = rows /\ p.assessments = tab /\ p.ok = s.ok
    <3> HIDE DEF r, rows, p, tab
    <3>1. QED  BY <1>1, <2>1 DEF tab
  <2>3. a \in DOMAIN tab /\ tab[a].mode = "online" /\ tab[a].state = "COMPLETE"
    BY DEF CompleteOnline
  <2>4. \A b \in DOMAIN tab \cup {0} : KeyOf(b, tab) \in Nat
    <3> HIDE DEF tab
    <3>1. QED  BY <1>1, KeyIs
  <2>5. /\ best \in DOMAIN tab \cup {0} /\ KeyOf(s.run.incumbent, tab) <= KeyOf(best, tab)
        /\ KeyOf(a, tab) <= KeyOf(best, tab)
    <3> HIDE DEF tab
    <3>1. QED  BY <1>1, <2>3, <2>4 DEF Accepts
  <2>6. /\ r.incumbent = best /\ r.baseline = s.run.baseline /\ r.sealed = s.run.sealed
    <3> HIDE DEF best
    <3>1. QED  BY <1>1 DEF RunRow
  <2>7. /\ DOMAIN rows = DOMAIN s.candidates
        /\ \A d \in DOMAIN s.candidates : rows[d].reuse = s.candidates[d].reuse
        /\ \A d \in DOMAIN s.candidates \ {c} : rows[d].state = s.candidates[d].state
    <3> DEFINE row == [s.candidates[c] EXCEPT !.state = "COMPLETE"]
    <3>1. s.candidates[c] \in CandidateRow
      BY <1>1
    <3>2. row \in CandidateRow /\ row.reuse = s.candidates[c].reuse
      BY <3>1 DEF CandidateRow, CandidateStates
    <3>3. rows = [s.candidates EXCEPT ![c] = row]
      OBVIOUS
    <3> HIDE DEF row, rows
    <3>4. /\ rows \in Seq(CandidateRow) /\ DOMAIN rows = DOMAIN s.candidates
          /\ \A d \in DOMAIN s.candidates : rows[d] = IF d = c THEN row ELSE s.candidates[d]
      BY <1>1, <3>2, <3>3, RowReplaced
    <3>5. QED  BY <3>2, <3>4
  <2>8. Accepted(a, r, tab)
    <3> HIDE DEF tab, r, best
    <3>1. QED  BY <2>3, <2>5, <2>6 DEF Accepted, Beaten
  <2>9. \A b \in DOMAIN assessments : Accepted(b, s.run, tab) => Accepted(b, r, tab)
    <3> HIDE DEF tab, r, best
    <3>1. QED  BY <1>1, <2>4, <2>5, <2>6 DEF Accepted, Beaten
  <2>10. s.run.baseline # 0
    BY <1>1 DEF BestTables, BaselineFits
  <2>11. BestTables(r, tab, rows)
    <3> DEFINE old == s.run
               cs == s.candidates
    <3>1. AcceptedOf(c, r, tab)
      <4> HIDE DEF r
      <4>1. QED  BY <1>1, <2>8 DEF Online, AcceptedOf
    <3>2. /\ BestTables(old, tab, cs) /\ old.incumbent \in DOMAIN tab \cup {0}
          /\ tab \in Seq(AssessmentRow)
      <4> HIDE DEF r, rows, best
      <4>1. QED  BY <1>1
    <3>3. Improves(old, r, tab)
      <4> HIDE DEF r, rows, best, tab
      <4>1. QED  BY <2>5, <2>6, <2>10 DEF Improves
    <3>4. Completes(cs, rows, r, tab)
      <4> HIDE DEF r, rows, tab
      <4>1. QED  BY <2>7, <3>1 DEF Completes
    <3> HIDE DEF old, cs, r, rows, tab
    <3>5. QED  BY <3>2, <3>3, <3>4, AcceptBest
  <2>12. KeyOf(run.incumbent, assessments) <= KeyOf(r.incumbent, tab)
    <3>1. KeyOf(run.incumbent, assessments) \in Nat
      BY IncumbentKey
    <3> HIDE DEF tab, r, best
    <3>2. /\ KeyOf(run.incumbent, assessments) <= KeyOf(s.run.incumbent, tab)
          /\ KeyOf(s.run.incumbent, tab) <= KeyOf(r.incumbent, tab)
          /\ KeyOf(s.run.incumbent, tab) \in Nat /\ KeyOf(r.incumbent, tab) \in Nat
      BY <1>1, <2>4, <2>5, <2>6
    <3>3. QED  BY <3>1, <3>2
  <2> HIDE DEF p, r, rows, tab
  <2>13. p \in BestRepairs
    BY <1>1, <1>2, <2>2, <2>11, <2>12 DEF BestRepairs
  <2>14. Grows(s, p)
    BY <2>2, <2>6, <2>9 DEF Grows, tab
  <2>15. Accepted(a, p.run, p.assessments)
    BY <2>2, <2>8
  <2>16. QED  BY <2>13, <2>14, <2>15 DEF p
<1>5. QED  BY <1>3, <1>4

LEMMA BaselineBest ==
  ASSUME TypeOK, SealFits, NEW s \in BestRepairs, NEW a \in CompleteOnline(s.assessments),
         s.assessments[a].of = 0, s.run.baseline = 0
  PROVE  /\ [s EXCEPT !.run = TakeBaseline(s.run, a, s.assessments)] \in BestRepairs
         /\ Grows(s, [s EXCEPT !.run = TakeBaseline(s.run, a, s.assessments)])
         /\ Accepted(a, [s EXCEPT !.run = TakeBaseline(s.run, a, s.assessments)].run,
                        [s EXCEPT !.run = TakeBaseline(s.run, a, s.assessments)].assessments)
<1> DEFINE R == [run : RunRow, assessments : Seq(AssessmentRow), candidates : Seq(CandidateRow),
                 ok : BOOLEAN]
           tab  == s.assessments
           best == IF KeyOf(a, tab) # 0 THEN a ELSE s.run.incumbent
           r    == TakeBaseline(s.run, a, tab)
           p    == [s EXCEPT !.run = r]
<1>1. /\ s \in R /\ tab \in Seq(AssessmentRow) /\ s.candidates \in Seq(CandidateRow)
      /\ s.run \in RunRow /\ s \in Repairs /\ BestTables(s.run, tab, s.candidates)
      /\ DOMAIN tab = DOMAIN assessments
      /\ \A b \in DOMAIN assessments : tab[b].terminal = assessments[b].terminal
      /\ KeyOf(run.incumbent, assessments) <= KeyOf(s.run.incumbent, tab)
  BY RepairIs
<1>2. p \in Repairs
  BY <1>1, BaselineRepairs
<1>3. /\ p.run = r /\ p.candidates = s.candidates /\ p.assessments = tab /\ p.ok = s.ok
  BY <1>1
<1>4. a \in DOMAIN tab /\ a # 0 /\ tab[a].mode = "online" /\ tab[a].state = "COMPLETE"
  BY <1>1 DEF CompleteOnline
<1>5. \A b \in DOMAIN tab \cup {0} : KeyOf(b, tab) \in Nat
  <2> HIDE DEF tab
  <2>1. QED  BY <1>1, KeyIs
<1>6. s.run.incumbent = 0
  BY <1>1 DEF BestTables, BaselineFits
<1>7. r.baseline = a /\ r.incumbent = best /\ r.sealed = s.run.sealed
  <2> HIDE DEF tab
  <2>1. r = [s.run EXCEPT !.baseline = a, !.incumbent = best]
    BY DEF TakeBaseline
  <2> HIDE DEF r, best
  <2>2. QED  BY <1>1, <2>1 DEF RunRow
<1> HIDE DEF r, p, tab
<1>8. KeyOf(0, tab) = 0
  BY DEF KeyOf
<1>9. Accepted(a, r, tab)
  BY <1>4, <1>5, <1>6, <1>7, <1>8 DEF Accepted, Beaten
<1>10. \A b \in DOMAIN assessments : Accepted(b, s.run, tab) => Accepted(b, r, tab)
  BY <1>1, <1>4, <1>5, <1>6, <1>7, <1>8 DEF Accepted, Beaten
<1>11. Improves(s.run, r, tab)
  <2>1. a \in CompleteOnline(tab) /\ tab[a].of = 0
    BY DEF tab
  <2>2. r.incumbent \in DOMAIN tab \cup {0}
    BY <1>4, <1>6, <1>7
  <2>3. KeyOf(s.run.incumbent, tab) <= KeyOf(r.incumbent, tab)
    BY <1>5, <1>6, <1>8, <2>2
  <2>4. QED  BY <1>4, <1>6, <1>7, <1>9, <2>1, <2>2, <2>3 DEF Improves, Accepted
<1>12. BestTables(r, tab, s.candidates)
  <2> DEFINE old == s.run
             cs == s.candidates
  <2>1. /\ BestTables(old, tab, cs) /\ old.incumbent \in DOMAIN tab \cup {0}
        /\ tab \in Seq(AssessmentRow)
    BY <1>1, <1>6
  <2>2. Improves(old, r, tab) /\ Completes(cs, cs, r, tab)
    BY <1>11 DEF Completes
  <2> HIDE DEF old, cs
  <2>3. BestTables(r, tab, cs)
    BY <2>1, <2>2, AcceptBest
  <2>4. QED  BY <2>3 DEF cs
<1>13. KeyOf(run.incumbent, assessments) <= KeyOf(r.incumbent, tab)
  <2>1. KeyOf(run.incumbent, assessments) = 0
    <3>1. KeyOf(run.incumbent, assessments) \in Nat
      BY IncumbentKey
    <3>2. KeyOf(run.incumbent, assessments) <= 0
      BY <1>1, <1>6, <1>8
    <3>3. QED  BY <3>1, <3>2
  <2>2. KeyOf(r.incumbent, tab) \in Nat
    BY <1>5, <1>11 DEF Improves
  <2>3. QED  BY <2>1, <2>2
<1>14. p \in BestRepairs
  BY <1>1, <1>2, <1>3, <1>12, <1>13 DEF BestRepairs
<1>15. Grows(s, p)
  BY <1>3, <1>7, <1>10 DEF Grows, tab
<1>16. Accepted(a, p.run, p.assessments)
  BY <1>3, <1>9
<1>17. QED  BY <1>14, <1>15, <1>16 DEF p, r, tab

(* One assessment is repaired: when it is on disk it is accepted.          *)
Accounts(p, a) ==
  p.ok /\ ~p.run.sealed /\ Online(a) /\ assessments[a].terminal =>
    Accepted(a, p.run, p.assessments)

LEMMA AssessmentBest ==
  ASSUME TypeOK, SealFits, NEW s \in BestRepairs, NEW a \in DOMAIN assessments
  PROVE  /\ ReconcileAssessment(s, a) \in BestRepairs
         /\ Grows(s, ReconcileAssessment(s, a))
         /\ Accounts(ReconcileAssessment(s, a), a)
<1>1. /\ s.assessments \in Seq(AssessmentRow) /\ DOMAIN s.assessments = DOMAIN assessments
      /\ s.assessments[a].mode = assessments[a].mode /\ s.assessments[a].of = assessments[a].of
      /\ s.assessments[a].terminal = assessments[a].terminal /\ s \in Repairs
  BY RepairIs
<1>2. CASE ~s.ok \/ ~OnDisk(s.assessments, a)
  BY <1>1, <1>2 DEF ReconcileAssessment, Grows, Accounts, OnDisk
<1>3. CASE /\ ~(~s.ok \/ ~OnDisk(s.assessments, a))
           /\ s.assessments[a].state \notin {"COMPLETE", "RESERVED", "INCOMPLETE"}
  <2>1. ReconcileAssessment(s, a) = [s EXCEPT !.ok = FALSE]
    BY <1>3 DEF ReconcileAssessment
  <2>2. [s EXCEPT !.ok = FALSE].assessments = s.assessments
    BY <1>1 DEF Repairs
  <2>3. QED  BY <2>1, <2>2, FailsBest DEF Grows, Accounts
<1>4. CASE /\ ~(~s.ok \/ ~OnDisk(s.assessments, a))
           /\ s.assessments[a].state \in {"COMPLETE", "RESERVED", "INCOMPLETE"}
  <2> DEFINE p == Promote(s, a)
             c == s.assessments[a].of
  <2>1. /\ p \in BestRepairs /\ p.run = s.run /\ p.candidates = s.candidates /\ p.ok = s.ok
        /\ p.assessments[a].state = "COMPLETE"
        /\ \A b \in DOMAIN assessments : Accepted(b, s.run, s.assessments) =>
             Accepted(b, p.run, p.assessments)
    BY <1>1, <1>4, PromoteBest DEF OnDisk
  <2> HIDE DEF p
  <2>2. Grows(s, p)
    BY <2>1 DEF Grows
  <2>3. s.assessments[a].mode \in {"online", "audit"}
    <3>1. s.assessments[a] \in AssessmentRow
      BY <1>1
    <3>2. QED  BY <3>1 DEF AssessmentRow
  <2>4. /\ p.assessments \in Seq(AssessmentRow) /\ DOMAIN p.assessments = DOMAIN assessments
        /\ BestTables(p.run, p.assessments, p.candidates) /\ p \in Repairs
        /\ \A b \in DOMAIN assessments :
             /\ p.assessments[b].mode = assessments[b].mode
             /\ p.assessments[b].of = assessments[b].of
        /\ DOMAIN p.candidates = DOMAIN candidates
    BY <2>1, RepairIs
  <2>5. s.assessments[a].mode = "online" => a \in CompleteOnline(p.assessments)
    BY <1>1, <2>1, <2>4 DEF CompleteOnline
  <2>6. CASE s.assessments[a].mode = "audit"
    <3>1. ReconcileAssessment(s, a) = p
      BY <1>4, <2>6 DEF ReconcileAssessment, p
    <3>2. ~Online(a)
      BY <1>1, <2>6 DEF Online
    <3>3. QED  BY <2>1, <2>2, <3>1, <3>2 DEF Accounts
  <2>7. CASE s.assessments[a].mode = "online" /\ c = 0
    <3>1. ReconcileAssessment(s, a)
            = IF p.run.baseline # 0 THEN p
              ELSE [p EXCEPT !.run = TakeBaseline(p.run, a, p.assessments)]
      BY <1>4, <2>7 DEF ReconcileAssessment, p
    <3>2. CASE p.run.baseline = 0
      <4>1. a \in CompleteOnline(p.assessments) /\ p.assessments[a].of = 0
        BY <1>1, <2>4, <2>5, <2>7
      <4> DEFINE q == [p EXCEPT !.run = TakeBaseline(p.run, a, p.assessments)]
      <4>2. q \in BestRepairs /\ Grows(p, q) /\ Accepted(a, q.run, q.assessments)
        BY <2>1, <3>2, <4>1, BaselineBest
      <4> HIDE DEF q
      <4>3. ReconcileAssessment(s, a) = q
        BY <3>1, <3>2 DEF q
      <4>4. QED  BY <2>2, <4>2, <4>3 DEF Grows, Accounts
    <3>3. CASE p.run.baseline # 0
      <4> DEFINE b == p.run.baseline
                 tab == p.assessments
      <4>1. b \in CompleteOnline(tab) /\ tab[b].of = 0
        BY <2>4, <3>3 DEF BestTables, BaselineFits
      <4>2. b \in DOMAIN tab /\ tab[b].mode = "online"
        BY <4>1 DEF CompleteOnline
      <4>3. tab[b].artifact = 0 /\ tab[a].artifact = 0
        BY <1>1, <2>4, <2>7, <4>1, <4>2 DEF BestTables, SourcesFit
      <4>4. KeyOf(a, tab) = KeyOf(b, tab)
        <5>1. a # 0 /\ b # 0
          BY <1>1, <3>3
        <5>2. QED  BY <4>3, <5>1 DEF KeyOf
      <4>5. ~p.run.sealed => Accepted(a, p.run, tab)
        BY <2>1, <2>4, <3>3, <4>4 DEF BestTables, BestKnown, Beaten, Accepted
      <4>6. ReconcileAssessment(s, a) = p
        BY <3>1, <3>3
      <4>7. QED  BY <2>1, <2>2, <4>5, <4>6 DEF Accounts
    <3>4. QED  BY <3>2, <3>3
  <2>8. CASE s.assessments[a].mode = "online" /\ c # 0
    <3>1. ReconcileAssessment(s, a)
            = IF p.candidates[c].state = "COMPLETE" THEN p ELSE Adopt(p, c, a)
      BY <1>4, <2>8 DEF ReconcileAssessment, p
    <3>2. /\ c \in DOMAIN candidates
          /\ \A b \in DOMAIN assessments : Online(b) /\ assessments[b].of = c => b = a
      BY <1>1, <2>4, <2>8 DEF BestTables, SourcesFit, Online
    <3>3. CASE p.candidates[c].state = "COMPLETE"
      <4>1. ~p.run.sealed => Accepted(a, p.run, p.assessments)
        BY <1>1, <2>4, <2>8, <3>3 DEF BestTables, BestKnown
      <4>2. ReconcileAssessment(s, a) = p
        BY <3>1, <3>3
      <4>3. QED  BY <2>1, <2>2, <4>1, <4>2 DEF Accounts
    <3>4. CASE p.candidates[c].state # "COMPLETE"
      <4> DEFINE q == Adopt(p, c, a)
      <4>1. /\ q \in BestRepairs /\ Grows(p, q)
            /\ q.ok /\ ~q.run.sealed => Accepted(a, q.run, q.assessments)
        <5>1. a \in CompleteOnline(p.assessments)
          BY <2>5, <2>8
        <5>2. QED  BY <2>1, <3>2, <5>1, AdoptBest
      <4> HIDE DEF q
      <4>2. ReconcileAssessment(s, a) = q
        BY <3>1, <3>4 DEF q
      <4>3. QED  BY <2>2, <4>1, <4>2 DEF Grows, Accounts
    <3>5. QED  BY <3>3, <3>4
  <2>9. QED  BY <2>3, <2>6, <2>7, <2>8
<1>5. QED  BY <1>2, <1>3, <1>4

LEMMA ReuseBest ==
  ASSUME TypeOK, SealFits, RepliesFit, NEW s \in BestRepairs, NEW c \in DOMAIN candidates
  PROVE  ReconcileReuse(s, c) \in BestRepairs /\ Grows(s, ReconcileReuse(s, c))
<1>1. /\ Advances(assessments, s.assessments) /\ SameRequests(s.candidates)
  BY DEF BestRepairs, Repairs
<1>2. s.candidates[c].reuse # 0 => s.candidates[c].reuse \in CompleteOnline(s.assessments)
  BY <1>1, CompleteStays DEF RepliesFit, SameRequests
<1>3. CASE ~s.ok \/ s.candidates[c].state = "COMPLETE" \/ s.candidates[c].reuse = 0
  BY <1>3 DEF ReconcileReuse, Grows
<1>4. CASE ~(~s.ok \/ s.candidates[c].state = "COMPLETE" \/ s.candidates[c].reuse = 0)
  <2> DEFINE a == s.candidates[c].reuse
             q == Adopt(s, c, a)
  <2>1. ReconcileReuse(s, c) = q
    BY <1>4 DEF ReconcileReuse
  <2>2. \A b \in DOMAIN assessments : ~(Online(b) /\ assessments[b].of = c)
    <3>1. /\ DOMAIN s.assessments = DOMAIN assessments /\ SourcesFit(s.assessments, s.candidates)
          /\ \A b \in DOMAIN assessments : /\ s.assessments[b].mode = assessments[b].mode
                                           /\ s.assessments[b].of = assessments[b].of
      BY RepairIs DEF BestTables
    <3>2. c # 0
      BY Rows
    <3>3. QED  BY <1>4, <3>1, <3>2 DEF SourcesFit, Online
  <2>3. a \in CompleteOnline(s.assessments)
    BY <1>2, <1>4
  <2> HIDE DEF a
  <2>4. q \in BestRepairs /\ Grows(s, q)
    BY <2>2, <2>3, AdoptBest
  <2>5. QED  BY <2>1, <2>4
<1>5. QED  BY <1>3, <1>4

LEMMA ReconcileBest ==
  ASSUME TypeOK, SealFits, RepliesFit, BestTables(run, assessments, candidates)
  PROVE  Reconcile \in BestRepairs /\ Reached(Reconcile, Len(assessments))
<1> DEFINE n == Len(assessments)
           m == Len(candidates)
           half == FoldLeft(ReconcileAssessment, Tables, Upto(n))
           W == [k \in 0..n |-> {s \in BestRepairs : Reached(s, k)}]
<1>1. n \in Nat /\ m \in Nat /\ 1..n = DOMAIN assessments /\ 1..m = DOMAIN candidates
  BY Rows
<1>2. \A s \in BestRepairs, a \in 1..n : ReconcileAssessment(s, a) \in BestRepairs
  <2> HIDE DEF n
  <2>1. QED  BY <1>1, AssessmentBest
<1>3. \A s \in BestRepairs, k \in 1..n : s \in W[k - 1] => ReconcileAssessment(s, k) \in W[k]
  <2>1. SUFFICES ASSUME NEW s \in BestRepairs, NEW k \in 1..n, s \in W[k - 1]
                 PROVE  ReconcileAssessment(s, k) \in W[k]
    OBVIOUS
  <2>2. k \in Nat /\ k - 1 \in 0..n /\ k \in 0..n /\ k \in DOMAIN assessments
    <3>1. k \in DOMAIN assessments
      BY <1>1
    <3> HIDE DEF n
    <3>2. QED  BY <1>1, <3>1
  <2> DEFINE p == ReconcileAssessment(s, k)
  <2>3. Reached(s, k - 1)
    BY <2>1, <2>2
  <2> HIDE DEF n, W
  <2>4. p \in BestRepairs /\ Grows(s, p) /\ Accounts(p, k)
    BY <2>2, AssessmentBest
  <2>5. \A a \in DOMAIN assessments : a \in Nat
    BY Rows
  <2>6. \A a \in DOMAIN assessments : a <= k => a <= k - 1 \/ a = k
    BY <2>2, <2>5
  <2> HIDE DEF p
  <2>7. Reached(p, k)
    BY <2>3, <2>4, <2>6 DEF Reached, Grows, Accounts
  <2>8. QED  BY <2>2, <2>4, <2>7 DEF W, p
<1>4. Tables \in BestRepairs /\ Tables \in W[0]
  <2>1. 0 \in 0..n
    <3> HIDE DEF n
    <3>1. QED  BY <1>1
  <2>2. QED  BY <2>1, TablesAreBest
<1>5. half \in BestRepairs \cap W[n]
  <2> HIDE DEF n, W
  <2>1. QED  BY <1>1, <1>2, <1>3, <1>4, AssessmentsClimb
<1> DEFINE E == {s \in BestRepairs : Reached(s, n)}
<1>6. half \in E
  <2>1. n \in 0..n
    <3> HIDE DEF n
    <3>1. QED  BY <1>1
  <2> HIDE DEF half
  <2>2. QED  BY <1>5, <2>1
<1>7. \A s \in E, c \in 1..m : ReconcileReuse(s, c) \in E
  <2> HIDE DEF n, m
  <2>1. QED  BY <1>1, ReuseBest, GrowsReaches
<1> HIDE DEF half, n, m, E, W
<1>8. FoldLeft(ReconcileReuse, half, Upto(m)) \in E
  BY <1>1, <1>6, <1>7, ReusesFold
<1>9. QED  BY <1>8 DEF Reconcile, half, n, m, E

(* What the repair leaves behind it: without a conflict, no assessment is  *)
(* better than the incumbent.                                              *)
LEMMA AllRecovered ==
  ASSUME TypeOK, SealFits, RepliesFit, BestTables(run, assessments, candidates)
  PROVE  Reconcile.ok /\ ~run.sealed =>
           \A a \in CompleteOnline(Reconcile.assessments) :
             Beaten(a, Reconcile.run, Reconcile.assessments)
<1> DEFINE s == Reconcile
<1>1. s \in BestRepairs /\ Reached(s, Len(assessments))
  BY ReconcileBest
<1> HIDE DEF s
<1>2. /\ DOMAIN s.assessments = DOMAIN assessments /\ s.run.sealed = run.sealed
      /\ OnDiskFits(s.assessments)
      /\ \A a \in DOMAIN assessments : /\ s.assessments[a].mode = assessments[a].mode
                                       /\ s.assessments[a].terminal = assessments[a].terminal
  BY <1>1, RepairIs DEF BestTables
<1>3. \A a \in DOMAIN assessments : a <= Len(assessments)
  BY Rows
<1>4. SUFFICES ASSUME s.ok, ~run.sealed, NEW a \in CompleteOnline(s.assessments)
               PROVE  Beaten(a, s.run, s.assessments)
  BY DEF s
<1>5. a \in DOMAIN assessments /\ Online(a) /\ assessments[a].terminal
  BY <1>2 DEF CompleteOnline, OnDiskFits, Online
<1>6. Accepted(a, s.run, s.assessments)
  BY <1>1, <1>2, <1>3, <1>4, <1>5 DEF Reached
<1>7. QED  BY <1>6 DEF Accepted

-----------------------------------------------------------------------------
(* Steps that keep what is best                                            *)

(* What every step does: it keeps the invariant, never takes a worse one   *)
(* and never seals one.                                                    *)
NotWorse == KeyOf(run.incumbent, assessments) <= KeyOf(run'.incumbent, assessments')
SealsBest ==
  ~run.sealed /\ run'.sealed =>
    \A a \in CompleteOnline(assessments') :
      KeyOf(a, assessments') <= KeyOf(run'.incumbent, assessments')
BestStep == BestInv' /\ NotWorse /\ SealsBest

(* Nothing is recorded, accepted or sealed.                                *)
QuietTables ==
  /\ SameRecords(assessments, assessments') /\ SameOutcomes(candidates, candidates')
  /\ run'.incumbent = run.incumbent /\ run'.baseline = run.baseline /\ run'.sealed = run.sealed

LEMMA QuietFacts ==
  ASSUME TypeOK, SealFits, BestTables(run, assessments, candidates), QuietTables
  PROVE  /\ BestTables(run', assessments', candidates') /\ NotWorse /\ SealsBest
         /\ \A a \in DOMAIN assessments \cup {0} :
              KeyOf(a, assessments') = KeyOf(a, assessments)
         /\ CompleteOnline(assessments') = CompleteOnline(assessments)
         /\ Parent(run') = Parent(run)
         /\ \A c : (OfNone(c) => OfNone(c)') /\ (AllCompleteOf(c) => AllCompleteOf(c)')
         /\ \A c \in DOMAIN candidates : Fresh(c) => Fresh(c)'
         /\ \A a \in CompleteOnline(assessments) :
              Beaten(a, run, assessments) => Beaten(a, run', assessments')
<1>1. run.incumbent \in DOMAIN assessments \cup {0}
  BY DEF SealFits, CompleteOnline
<1>2. /\ BestTables(run', assessments', candidates')
      /\ \A a \in DOMAIN assessments \cup {0} : KeyOf(a, assessments') = KeyOf(a, assessments)
      /\ CompleteOnline(assessments') = CompleteOnline(assessments)
  BY <1>1, BestTablesKept DEF QuietTables, SameBest
<1>3. NotWorse
  BY <1>1, <1>2, IncumbentKey DEF NotWorse, QuietTables
<1>4. SealsBest /\ Parent(run') = Parent(run)
  BY DEF SealsBest, QuietTables, Parent
<1>5. \A c : (OfNone(c) => OfNone(c)') /\ (AllCompleteOf(c) => AllCompleteOf(c)')
  BY DEF OfNone, AllCompleteOf, Online, QuietTables, SameRecords, SameRecord
<1>6. \A c \in DOMAIN candidates : Fresh(c) => Fresh(c)'
  BY DEF Fresh, QuietTables, SameOutcomes, SameOutcome
<1>7. \A a \in CompleteOnline(assessments) :
         Beaten(a, run, assessments) => Beaten(a, run', assessments')
  BY <1>1, <1>2 DEF Beaten, QuietTables, CompleteOnline
<1>8. QED  BY <1>2, <1>3, <1>4, <1>5, <1>6, <1>7

(* A task that ends, or loses its runner.                                  *)
TaskIsQuiet(t) ==
  /\ tasks'[t].purpose = tasks[t].purpose
  /\ Alive(t)' => /\ Alive(t) /\ tasks'[t].at = tasks[t].at /\ tasks'[t].c = tasks[t].c
                  /\ tasks'[t].a = tasks[t].a /\ tasks'[t].parent = tasks[t].parent
                  /\ tasks'[t].verdict = tasks[t].verdict
  /\ t \in Active' => /\ t \in Active
                      /\ tasks'[t].runner # "gone" =>
                           /\ tasks[t].runner # "gone"
                           /\ Alive(t) => Alive(t)'
  /\ Abandoned(t) => Abandoned(t)'
  /\ Searches(t) /\ Alive(t) /\ ~Alive(t)' =>
       Abandoned(t)' \/ tasks[t].at \in {"done", "failed"}

LEMMA QuietTasks ==
  ASSUME ArtifactInv, BestInv, QuietTables, run'.round = run.round, UNCHANGED rounds,
         run'.state = "SEARCHING" => run.state = "SEARCHING",
         run'.state = "COMPLETED" => run.state = "COMPLETED",
         DOMAIN tasks' = DOMAIN tasks, \A t \in DOMAIN tasks : TaskIsQuiet(t)
  PROVE  BestStep
<1>1. TypeOK /\ SealFits /\ RunnersKnow /\ BestTables(run, assessments, candidates)
  BY DEF ArtifactInv, BestInv
<1>2. /\ BestTables(run', assessments', candidates') /\ NotWorse /\ SealsBest
      /\ CompleteOnline(assessments') = CompleteOnline(assessments)
      /\ Parent(run') = Parent(run)
      /\ \A c : (OfNone(c) => OfNone(c)') /\ (AllCompleteOf(c) => AllCompleteOf(c)')
      /\ \A c \in DOMAIN candidates : Fresh(c) => Fresh(c)'
      /\ \A a \in CompleteOnline(assessments) :
           Beaten(a, run, assessments) => Beaten(a, run', assessments')
  BY <1>1, QuietFacts
<1>3. Executing' <=> Executing
  BY DEF Executing, Current
<1>4. AllBeaten => AllBeaten'
  BY <1>2 DEF AllBeaten
<1>5. ASSUME NEW t \in DOMAIN tasks, Alive(t)', Searches(t)'
      PROVE  Compares(t)'
  <2>1. /\ Alive(t) /\ Searches(t) /\ tasks'[t].at = tasks[t].at /\ tasks'[t].c = tasks[t].c
        /\ tasks'[t].a = tasks[t].a /\ tasks'[t].parent = tasks[t].parent
        /\ tasks'[t].verdict = tasks[t].verdict
    BY <1>5 DEF TaskIsQuiet, Searches
  <2>2. Compares(t) /\ RequestFits(t) /\ AssessmentFits(t)
    BY <1>1, <2>1 DEF BestInv, SearchersCompare, RunnersKnow, Knows
  <2>3. /\ tasks[t].at \in Assessing => tasks[t].a \in DOMAIN assessments
        /\ tasks[t].at = "baseline" => tasks[t].a \in DOMAIN assessments
        /\ BeforeIts(t) => tasks[t].c \in DOMAIN candidates
    BY <2>1, <2>2 DEF AssessmentFits, CompleteOnline, RequestFits, BeforeIts, Requesting,
         OfCandidate, Replied
  <2>4. ComparesBaseline(t)'
    BY <2>1, <2>2, <2>3 DEF Compares, ComparesBaseline, QuietTables, SameRecords, SameRecord
  <2>5. ComparesParent(t)'
    BY <1>2, <2>1, <2>2 DEF Compares, ComparesParent, NeedsParent
  <2>6. ComparesNew(t)'
    BY <1>2, <2>1, <2>2, <2>3 DEF Compares, ComparesNew, BeforeIts
  <2>7. ComparesAssessed(t)'
    BY <1>2, <2>1, <2>2, <2>3 DEF Compares, ComparesAssessed, Assessing, QuietTables, SameRecords,
         SameRecord
  <2>8. HoldsBest(t)'
    BY <1>2, <1>3, <2>1, <2>2 DEF Compares, HoldsBest, QuietTables
  <2>9. QED  BY <2>4, <2>5, <2>6, <2>7, <2>8 DEF Compares
<1>6. SearchersCompare'
  BY <1>5 DEF SearchersCompare
<1>7. SearchIsBest'
  <2>1. SUFFICES ASSUME run'.state = "SEARCHING", NoSearcher'
                 PROVE  AllBeaten' \/ (Executing' /\ \E t \in DOMAIN tasks' : Abandoned(t)')
    BY DEF SearchIsBest
  <2>2. run.state = "SEARCHING" /\ ~run.sealed
    BY <1>1, <2>1 DEF SealFits
  <2>3. CASE NoSearcher
    <3>1. AllBeaten \/ (Executing /\ \E t \in DOMAIN tasks : Abandoned(t))
      BY <2>2, <2>3 DEF BestInv, SearchIsBest
    <3>2. QED  BY <1>3, <1>4, <3>1 DEF TaskIsQuiet
  <2>4. CASE ~NoSearcher
    <3>1. PICK t \in DOMAIN tasks : Alive(t) /\ Searches(t)
      BY <2>4 DEF NoSearcher
    <3>2. ~Alive(t)'
      BY <2>1, <3>1 DEF NoSearcher, TaskIsQuiet, Searches
    <3>3. Abandoned(t)' \/ tasks[t].at \in {"done", "failed"}
      BY <3>1, <3>2 DEF TaskIsQuiet
    <3>4. HoldsBest(t)
      BY <3>1 DEF BestInv, SearchersCompare, Compares
    <3>5. AllBeaten \/ (Executing /\ tasks[t].at \in {"baseline", "compare"})
      BY <2>2, <3>4 DEF HoldsBest, AllBeaten
    <3>6. QED  BY <1>3, <1>4, <3>3, <3>5
  <2>5. QED  BY <2>3, <2>4
<1>8. RoundExecutes'
  <2>1. ASSUME ~run'.sealed, NEW t \in Active', Searches(t)', tasks'[t].runner # "gone",
               ~(Alive(t)' /\ tasks'[t].at \in {"done", "failed"})
        PROVE  Executing'
    <3>1. t \in DOMAIN tasks
      BY DEF Active
    <3>2. /\ t \in Active /\ tasks[t].runner # "gone" /\ Searches(t)
          /\ ~(Alive(t) /\ tasks[t].at \in {"done", "failed"})
      BY <2>1, <3>1 DEF TaskIsQuiet, Searches
    <3>3. QED  BY <1>3, <2>1, <3>2 DEF BestInv, RoundExecutes, QuietTables
  <2>2. QED  BY <2>1 DEF RoundExecutes
<1>9. AuditsAreSealed'
  BY DEF BestInv, AuditsAreSealed, QuietTables, TaskIsQuiet, Searches
<1>10. QED  BY <1>2, <1>6, <1>7, <1>8, <1>9 DEF BestStep, BestInv

(* A step of the runner of t, when what it compares with is as it should.  *)
LEMMA MoveBest ==
  ASSUME ArtifactInv, ArtifactInv', BestInv, NEW t \in DOMAIN tasks, Alive(t), Moved(t),
         BestTables(run', assessments', candidates'), NotWorse, SealsBest,
         run.sealed => run'.sealed, run'.state = "COMPLETED" => run'.sealed,
         Searches(t) => Compares(t)',
         Searches(t) /\ ~run'.sealed /\ tasks'[t].at \notin {"done", "failed"} => Executing'
  PROVE  BestStep
<1>1. /\ DOMAIN tasks' = DOMAIN tasks /\ Alive(t)' /\ Active' = Active
      /\ \A u \in DOMAIN tasks : (Searches(u)' <=> Searches(u)) /\ (Alive(u)' => Alive(u))
  BY DEF Moved, Alive, Searches, Active
<1>2. \A u \in DOMAIN tasks : Alive(u) \/ u \in Active => u = t
  BY OneAlive DEF ArtifactInv
<1>3. SearchersCompare'
  BY <1>1, <1>2 DEF SearchersCompare
<1>4. AuditsAreSealed'
  BY <1>1 DEF BestInv, AuditsAreSealed
<1>5. SearchIsBest'
  <2>1. CASE Searches(t)
    BY <1>1, <2>1 DEF SearchIsBest, NoSearcher
  <2>2. CASE ~Searches(t)
    BY <1>1, <1>4, <2>2 DEF AuditsAreSealed, SearchIsBest, ArtifactInv, SealFits
  <2>3. QED  BY <2>1, <2>2
<1>6. RoundExecutes'
  <2>1. \A u \in Active' : u = t
    BY <1>1, <1>2 DEF Active
  <2>2. QED  BY <1>1, <2>1 DEF RoundExecutes
<1>7. QED  BY <1>3, <1>4, <1>5, <1>6 DEF BestStep, BestInv

(* What the runner of t knows of the best.                                 *)
LEMMA KnownBest ==
  ASSUME ArtifactInv, BestInv, NEW t \in DOMAIN tasks, Alive(t)
  PROVE  /\ Searches(t) => Compares(t)
         /\ Searches(t) /\ ~run.sealed /\ tasks[t].at \notin {"done", "failed"} => Executing
         /\ ~Searches(t) => run.sealed
         /\ BestTables(run, assessments, candidates)
<1>1. t \in Active /\ tasks[t].runner # "gone"
  BY OneAlive DEF ArtifactInv, Alive
<1>2. QED  BY <1>1 DEF BestInv, SearchersCompare, RoundExecutes, AuditsAreSealed

(* A step of the runner of t that records, accepts and seals nothing.      *)
LEMMA QuietMove ==
  ASSUME ArtifactInv, ArtifactInv', BestInv, NEW t \in DOMAIN tasks, Alive(t), Moved(t),
         QuietTables, UNCHANGED <<run, rounds>>,
         Searches(t) => /\ tasks[t].at \notin {"baseline", "compare", "done", "failed"}
                        /\ ComparesBaseline(t)' /\ ComparesParent(t)' /\ ComparesNew(t)'
                        /\ ComparesAssessed(t)'
  PROVE  BestStep
<1>1. TypeOK /\ SealFits /\ BestTables(run, assessments, candidates)
  BY DEF ArtifactInv, BestInv
<1>2. /\ BestTables(run', assessments', candidates') /\ NotWorse /\ SealsBest
      /\ CompleteOnline(assessments') = CompleteOnline(assessments)
      /\ \A a \in CompleteOnline(assessments) :
           Beaten(a, run, assessments) => Beaten(a, run', assessments')
  BY <1>1, QuietFacts
<1>3. Executing' <=> Executing
  BY DEF Executing, Current
<1>4. Searches(t) => Compares(t)'
  BY <1>2, KnownBest DEF Compares, HoldsBest
<1>5. run'.state = "COMPLETED" => run'.sealed
  BY DEF BestInv, AuditsAreSealed
<1>6. Searches(t) /\ ~run'.sealed => Executing'
  BY <1>3, KnownBest
<1>7. QED  BY <1>2, <1>4, <1>5, <1>6, MoveBest

(* A step of the runner of an audit.                                       *)
LEMMA AuditMove ==
  ASSUME ArtifactInv, ArtifactInv', BestInv, NEW t \in DOMAIN tasks, Alive(t), Moved(t),
         ~Searches(t), BestTables(run', assessments', candidates'), NotWorse,
         run'.sealed = run.sealed
  PROVE  BestStep
<1>1. run.sealed
  BY KnownBest
<1>2. SealsBest
  BY <1>1 DEF SealsBest
<1>3. QED  BY <1>1, <1>2, MoveBest

(* Nothing at all changes in the tables.                                   *)
LEMMA SameTablesAreQuiet ==
  ASSUME UNCHANGED <<run, candidates, assessments>>
  PROVE  QuietTables
  BY DEF QuietTables, SameRecords, SameRecord, SameOutcomes, SameOutcome

(* The row of an assessment, or of a candidate, is replaced.               *)
LEMMA RecordIsQuiet ==
  ASSUME TypeOK, UNCHANGED <<run, candidates>>, NEW a \in DOMAIN assessments,
         NEW row \in AssessmentRow,
         assessments' = [assessments EXCEPT ![a] = row], SameRecord(assessments[a], row)
  PROVE  QuietTables
<1>1. /\ DOMAIN assessments' = DOMAIN assessments
      /\ \A b \in DOMAIN assessments :
           assessments'[b] = IF b = a THEN row ELSE assessments[b]
  BY Rows, RowReplaced
<1>2. \A b \in DOMAIN assessments : SameRecord(assessments[b], assessments'[b])
  BY <1>1 DEF SameRecord
<1>3. QED  BY <1>1, <1>2 DEF QuietTables, SameRecords, SameOutcomes, SameOutcome

LEMMA OutcomeIsQuiet ==
  ASSUME TypeOK, UNCHANGED <<run, assessments>>, NEW c \in DOMAIN candidates,
         NEW row \in CandidateRow,
         candidates' = [candidates EXCEPT ![c] = row], SameOutcome(candidates[c], row)
  PROVE  QuietTables
<1>1. /\ DOMAIN candidates' = DOMAIN candidates
      /\ \A b \in DOMAIN candidates :
           candidates'[b] = IF b = c THEN row ELSE candidates[b]
  BY Rows, RowReplaced
<1>2. \A b \in DOMAIN candidates : SameOutcome(candidates[b], candidates'[b])
  BY <1>1 DEF SameOutcome
<1>3. QED  BY <1>1, <1>2 DEF QuietTables, SameRecords, SameRecord, SameOutcomes

(* The runner goes to a place where it compares nothing.                   *)
Aside(t) ==
  /\ Moved(t)
  /\ tasks'[t].at
       \notin Requesting \cup Assessing \cup {"assess", "baseline", "generate", "compare"}
  /\ tasks'[t].at = "finish" => tasks'[t].verdict # "COMPLETE"

LEMMA AsideBest ==
  ASSUME ArtifactInv, ArtifactInv', BestInv, NEW t \in DOMAIN tasks, Alive(t), Aside(t),
         QuietTables, UNCHANGED <<run, rounds>>,
         tasks[t].at \notin {"baseline", "compare", "done", "failed"}
  PROVE  BestStep
<1>1. ComparesBaseline(t)' /\ ComparesParent(t)' /\ ComparesNew(t)' /\ ComparesAssessed(t)'
  BY DEF ComparesBaseline, ComparesParent, NeedsParent, ComparesNew, ComparesAssessed,
       BeforeIts, Aside, Requesting, Assessing
<1>2. QED  BY <1>1, QuietMove DEF Aside

(* The runner goes on with its request, or with its assessment.            *)
Onward(t) ==
  /\ Moved(t)
  /\ tasks'[t].c = tasks[t].c /\ tasks'[t].a = tasks[t].a /\ tasks'[t].parent = tasks[t].parent
  /\ \/ {tasks[t].at, tasks'[t].at} \subseteq Requesting
     \/ /\ {tasks[t].at, tasks'[t].at} \subseteq Assessing
        /\ tasks'[t].at = "record" => assessments'[tasks[t].a].terminal

LEMMA OnwardBest ==
  ASSUME ArtifactInv, ArtifactInv', BestInv, NEW t \in DOMAIN tasks, Alive(t), Onward(t),
         QuietTables, UNCHANGED <<run, rounds>>
  PROVE  BestStep
<1>1. Searches(t) => Compares(t)
  BY KnownBest
<1>2. RequestFits(t) /\ AssessmentFits(t) /\ TypeOK /\ SealFits
  BY Known DEF ArtifactInv
<1>3. /\ \A c : (OfNone(c) => OfNone(c)')
      /\ \A c \in DOMAIN candidates : Fresh(c) => Fresh(c)'
  BY <1>2, KnownBest, QuietFacts
<1>4. CASE {tasks[t].at, tasks'[t].at} \subseteq Requesting
  <2>1. /\ tasks[t].at \in Requesting /\ tasks'[t].at \in Requesting
        /\ tasks'[t].at \notin Assessing \cup {"assess", "baseline", "compare", "finish"}
        /\ tasks[t].at \notin {"baseline", "compare", "done", "failed"}
    BY <1>4 DEF Requesting, Assessing
  <2>2. tasks[t].c \in DOMAIN candidates
    BY <1>2, <2>1 DEF RequestFits, OfCandidate, Requesting
  <2>3. /\ ComparesBaseline(t)' /\ ComparesAssessed(t)'
    BY <2>1 DEF ComparesBaseline, ComparesAssessed, Assessing
  <2>4. Searches(t) => ComparesParent(t)'
    BY <1>1, <2>1 DEF Compares, ComparesParent, NeedsParent, Onward
  <2>5. Searches(t) => ComparesNew(t)'
    BY <1>1, <1>3, <2>1, <2>2 DEF Compares, ComparesNew, BeforeIts, Onward
  <2>6. QED  BY <2>1, <2>3, <2>4, <2>5, QuietMove DEF Onward
<1>5. CASE ~({tasks[t].at, tasks'[t].at} \subseteq Requesting)
  <2>1. /\ tasks[t].at \in Assessing /\ tasks'[t].at \in Assessing
        /\ tasks'[t].at = "record" => assessments'[tasks[t].a].terminal
        /\ tasks'[t].c = tasks[t].c /\ tasks'[t].a = tasks[t].a
        /\ tasks'[t].parent = tasks[t].parent
    BY <1>5 DEF Onward
  <2>2. /\ tasks'[t].at
             \notin Requesting \cup {"assess", "baseline", "compare", "finish", "generate"}
        /\ tasks[t].at \notin {"baseline", "compare", "done", "failed"}
    BY <2>1 DEF Requesting, Assessing
  <2>3. tasks[t].a \in DOMAIN assessments
    BY <1>2, <2>1 DEF AssessmentFits
  <2>4. Searches(t) => ComparesBaseline(t)'
    BY <1>1, <2>1, <2>2 DEF Compares, ComparesBaseline
  <2>5. Searches(t) => ComparesParent(t)'
    BY <1>1, <2>1, <2>2 DEF Compares, ComparesParent, NeedsParent
  <2>6. ComparesNew(t)'
    BY <2>2 DEF ComparesNew, BeforeIts
  <2>7. Searches(t) => ComparesAssessed(t)'
    BY <1>1, <2>1, <2>2, <2>3 DEF Compares, ComparesAssessed, QuietTables, SameRecords, SameRecord
  <2>8. QED  BY <2>2, <2>4, <2>5, <2>6, <2>7, QuietMove DEF Onward
<1>6. QED  BY <1>4, <1>5

LEMMA CollectBest ==
  ASSUME ArtifactInv, ArtifactInv', BestInv, NEW t \in DOMAIN tasks, Collect(t)
  PROVE  BestStep
<1>1. Alive(t) /\ tasks[t].at = "await"
  BY DEF Collect, At, Alive
<1>2. /\ tasks[t] \in TaskRow /\ TypeOK /\ AssessmentFits(t)
  BY <1>1, Known
<1> DEFINE how  == Awaited(t).exit
           next == IF how = "ok" THEN "record" ELSE "undo"
<1>3. tasks[t].a \in DOMAIN assessments
  BY <1>1, <1>2 DEF AssessmentFits, Assessing
<1>4. how \in Exits /\ next \in {"record", "undo"}
  <2>1. assessments[tasks[t].a] \in AssessmentRow
    BY <1>2, <1>3, Rows
  <2>2. QED  BY <2>1 DEF AssessmentRow, Awaited
<1>5. tasks' = [tasks EXCEPT ![t].at = next, ![t].verdict = how]
  BY DEF Collect
<1>6. next = "record" => assessments[tasks[t].a].terminal
  BY <1>3, KnownBest, <1>1 DEF BestTables, OnDiskFits, Told, Awaited
<1> HIDE DEF how, next
<1>7. Holds(t, next, tasks[t].c, tasks[t].a, tasks[t].parent, tasks[t].left, how, tasks[t].why)
  BY <1>2, <1>4, <1>5, WritesAtVerdict DEF Places, Verdicts
<1>8. Onward(t)
  BY <1>1, <1>4, <1>6, <1>7 DEF Onward, Holds, Assessing, Collect
<1>9. QED  BY <1>1, <1>8, SameTablesAreQuiet, OnwardBest DEF Collect

(* An exception.                                                           *)
LEMMA RaiseBest ==
  ASSUME ArtifactInv, ArtifactInv', BestInv, NEW t \in DOMAIN tasks, Alive(t),
         NEW why \in Causes, Raise(t, why), QuietTables, UNCHANGED <<run, rounds>>,
         tasks[t].at \notin {"baseline", "compare", "done", "failed"}
  PROVE  BestStep
<1>1. TypeOK
  BY DEF ArtifactInv
<1>2. Holds(t, "raise", tasks[t].c, tasks[t].a, tasks[t].parent, tasks[t].left,
            tasks[t].verdict, why)
  BY <1>1, WritesAtWhy DEF Raise, Places
<1>3. Aside(t)
  BY <1>2 DEF Aside, Holds, Requesting, Assessing
<1>4. QED  BY <1>3, AsideBest

LEMMA SelectBest ==
  ASSUME ArtifactInv, ArtifactInv', BestInv, NEW t \in DOMAIN tasks, Select(t)
  PROVE  BestStep
<1> DEFINE next == IF run.state \in {"STOPPING", "STOPPED"} THEN "done" ELSE "conclude"
<1>1. Alive(t) /\ tasks[t].at = "select" /\ TypeOK
  BY DEF Select, At, Alive, ArtifactInv
<1>2. next \in {"done", "conclude"} /\ tasks' = [tasks EXCEPT ![t].at = next]
  BY DEF Select, Goto
<1> HIDE DEF next
<1>3. Holds(t, next, tasks[t].c, tasks[t].a, tasks[t].parent, tasks[t].left,
            tasks[t].verdict, tasks[t].why)
  BY <1>1, <1>2, WritesAt DEF Places
<1>4. Aside(t)
  BY <1>2, <1>3 DEF Aside, Holds, Requesting, Assessing
<1>5. QED  BY <1>1, <1>4, SameTablesAreQuiet, AsideBest DEF Select

LEMMA LoopBest ==
  ASSUME ArtifactInv, ArtifactInv', BestInv, NEW t \in DOMAIN tasks, Loop(t)
  PROVE  BestStep
<1>1. Alive(t) /\ tasks[t].at = "loop"
  BY DEF Loop, At, Alive
<1>2. tasks[t] \in TaskRow /\ TypeOK /\ run \in RunRow
  BY <1>1, Known, Rows
<1>3. tasks[t].left \in Nat /\ Parent(run) \in Nat
  BY <1>2 DEF TaskRow, RunRow, Parent
<1>4. QuietTables
  BY SameTablesAreQuiet DEF Loop
<1>5. CASE tasks[t].left = 0
  <2>1. tasks' = [tasks EXCEPT ![t].at = "close"]
    BY <1>5 DEF Loop, Goto
  <2>2. Holds(t, "close", tasks[t].c, tasks[t].a, tasks[t].parent, tasks[t].left,
              tasks[t].verdict, tasks[t].why)
    BY <1>2, <2>1, WritesAt DEF Places
  <2>3. Aside(t)
    BY <2>2 DEF Aside, Holds, Requesting, Assessing
  <2>4. QED  BY <1>1, <1>4, <2>3, AsideBest DEF Loop
<1>6. CASE tasks[t].left > 0 /\ (run.state # "SEARCHING" \/ late)
  <2>1. tasks' = [tasks EXCEPT ![t].at = "close", ![t].why = "SEARCH_DEADLINE_OR_STOP"]
    BY <1>3, <1>6 DEF Loop
  <2>2. "close" \in Places /\ "SEARCH_DEADLINE_OR_STOP" \in Causes
    BY DEF Places, Causes
  <2>3. Holds(t, "close", tasks[t].c, tasks[t].a, tasks[t].parent, tasks[t].left,
              tasks[t].verdict, "SEARCH_DEADLINE_OR_STOP")
    BY <1>2, <2>1, <2>2, WritesAtWhy
  <2>4. Aside(t)
    BY <2>3 DEF Aside, Holds, Requesting, Assessing
  <2>5. QED  BY <1>1, <1>4, <2>4, AsideBest DEF Loop
<1>7. CASE tasks[t].left # 0 /\ ~ (tasks[t].left > 0 /\ (run.state # "SEARCHING" \/ late))
  <2>1. tasks' = [tasks EXCEPT ![t].at = "generate", ![t].left = tasks[t].left - 1,
                               ![t].parent = Parent(run)]
    BY <1>3, <1>7 DEF Loop
  <2>2. tasks[t].left - 1 \in Nat
    BY <1>3, <1>7
  <2>3. Holds(t, "generate", tasks[t].c, tasks[t].a, Parent(run), tasks[t].left - 1,
              tasks[t].verdict, tasks[t].why)
    BY <1>2, <1>3, <2>1, <2>2, WritesAtLeftParent DEF Places
  <2>4. Parent(run)' = Parent(run)
    BY DEF Loop, Parent
  <2>5. ComparesBaseline(t)' /\ ComparesParent(t)' /\ ComparesNew(t)' /\ ComparesAssessed(t)'
    BY <2>3, <2>4 DEF ComparesBaseline, ComparesParent, NeedsParent, ComparesNew, ComparesAssessed,
       BeforeIts,
         Holds, Requesting, Assessing
  <2>6. QED  BY <1>1, <1>4, <2>3, <2>5, QuietMove DEF Loop, Holds
<1>8. QED  BY <1>5, <1>6, <1>7

LEMMA BeginBest ==
  ASSUME ArtifactInv, ArtifactInv', BestInv, NEW t \in DOMAIN tasks, Begin(t)
  PROVE  BestStep
<1> DEFINE next == IF run.baseline = 0 THEN "assess" ELSE "loop"
<1>1. Alive(t) /\ tasks[t].at = "begin"
  BY DEF Begin, At, Alive
<1>2. /\ tasks[t] \in TaskRow /\ TypeOK /\ StepFits(t) /\ BaselineIsKnown(t)
  BY <1>1, Known
<1>3. Searches(t)
  BY <1>1, <1>2 DEF StepFits, SharedSteps, AuditSteps
<1>4. Plan(t).budget \in Nat
  BY <1>2, Rows DEF TaskRow, RoundRow, Plan
<1>5. next \in Places /\ tasks' = [tasks EXCEPT ![t].at = next, ![t].left = Plan(t).budget]
  BY DEF Begin, Places
<1>6. Holds(t, next, tasks[t].c, tasks[t].a, tasks[t].parent, Plan(t).budget,
            tasks[t].verdict, tasks[t].why)
  <2> HIDE DEF next
  <2>1. QED  BY <1>2, <1>4, <1>5, WritesAtLeft
<1>7. run.baseline = 0 => tasks[t].c = 0
  BY <1>2, <1>3 DEF BaselineIsKnown
<1>8. ComparesBaseline(t)' /\ ComparesParent(t)' /\ ComparesNew(t)' /\ ComparesAssessed(t)'
  BY <1>6, <1>7 DEF ComparesBaseline, ComparesParent, NeedsParent, ComparesNew, ComparesAssessed,
       BeforeIts,
       Holds, Requesting, Assessing, Begin
<1>9. QED  BY <1>1, <1>6, <1>8, SameTablesAreQuiet, QuietMove DEF Begin, Holds

LEMMA NextAuditBest ==
  ASSUME ArtifactInv, ArtifactInv', BestInv, NEW t \in DOMAIN tasks, NextAudit(t)
  PROVE  BestStep
<1> DEFINE open  == {i \in DOMAIN run.queue : ~Attempted(run.queue[i])}
           first == CHOOSE i \in open : \A j \in open : i <= j
<1>1. Alive(t) /\ tasks[t].at = "audits"
  BY DEF NextAudit, At, Alive
<1>2. TypeOK /\ StepFits(t)
  BY <1>1, Known
<1>3. ~ Searches(t)
  BY <1>1, <1>2 DEF StepFits, SharedSteps, SearchSteps
<1>4. Moved(t)
  <2>1. CASE Goto(t, "select")
    BY <1>2, <2>1, WritesAt DEF Goto, Places, Holds
  <2>2. CASE open # {} /\ tasks' = [tasks EXCEPT ![t].at = "assess", ![t].c = run.queue[first]]
    <3>1. run.queue \in Seq(Nat)
      BY <1>2, Rows DEF RunRow
    <3>2. first \in open
      <4>1. open \in SUBSET Nat
        BY <3>1
      <4> HIDE DEF open
      <4>2. \E i \in open : \A j \in open : i <= j
        BY <2>2, <4>1, SmallestNumber
      <4>3. QED  BY <4>2
    <3> HIDE DEF first
    <3>3. run.queue[first] \in Nat
      BY <3>1, <3>2
    <3>4. QED  BY <1>2, <2>2, <3>3, WritesAtC DEF Places, Holds
  <2>3. QED  BY <2>1, <2>2 DEF NextAudit
<1>5. QED  BY <1>1, <1>3, <1>4, SameTablesAreQuiet, QuietMove DEF NextAudit

LEMMA EvaluateBest ==
  ASSUME ArtifactInv, ArtifactInv', BestInv, NEW t \in DOMAIN tasks, Evaluate(t)
  PROVE  BestStep
<1> DEFINE a == tasks[t].a
           row == [assessments[a] EXCEPT !.worker = "spawned"]
<1>1. Alive(t) /\ tasks[t].at = "evaluate"
  BY DEF Evaluate, At, Alive
<1>2. TypeOK /\ AssessmentFits(t)
  BY <1>1, Known
<1>3. a \in DOMAIN assessments
  BY <1>1, <1>2 DEF AssessmentFits, Assessing
<1>4. CASE Deadline(tasks[t].purpose)
  <2>1. tasks' = [tasks EXCEPT ![t].at = "undo", ![t].verdict = "deadline"] /\ UNCHANGED assessments
    BY <1>4 DEF Evaluate
  <2>2. Holds(t, "undo", tasks[t].c, tasks[t].a, tasks[t].parent, tasks[t].left, "deadline",
              tasks[t].why)
    BY <1>2, <2>1, WritesAtVerdict DEF Places, Verdicts, Exits
  <2>3. Onward(t)
    BY <1>1, <2>2 DEF Onward, Holds, Assessing
  <2>4. QED  BY <1>1, <2>1, <2>3, SameTablesAreQuiet, OnwardBest DEF Evaluate
<1>5. CASE ~Deadline(tasks[t].purpose)
  <2>1. assessments' = [assessments EXCEPT ![a] = row] /\ Goto(t, "await")
    BY <1>5 DEF Evaluate
  <2>2. Holds(t, "await", tasks[t].c, tasks[t].a, tasks[t].parent, tasks[t].left,
              tasks[t].verdict, tasks[t].why)
    BY <1>2, <2>1, WritesAt DEF Places, Goto
  <2>3. row \in AssessmentRow /\ SameRecord(assessments[a], row)
    <3>1. assessments[a] \in AssessmentRow
      BY <1>2, <1>3, Rows
    <3>2. QED  BY <3>1 DEF AssessmentRow, SameRecord, Told
  <2> HIDE DEF row
  <2>4. QuietTables
    BY <1>2, <1>3, <2>1, <2>3, RecordIsQuiet DEF Evaluate
  <2>5. Onward(t)
    BY <1>1, <2>2 DEF Onward, Holds, Assessing
  <2>6. QED  BY <1>1, <2>4, <2>5, OnwardBest DEF Evaluate
<1>6. QED  BY <1>4, <1>5

LEMMA ExpireBest ==
  ASSUME ArtifactInv, ArtifactInv', BestInv, NEW t \in DOMAIN tasks, Expire(t)
  PROVE  BestStep
<1> DEFINE a == tasks[t].a
           row == [assessments[a] EXCEPT !.worker = "gone"]
<1>1. Alive(t) /\ tasks[t].at = "await"
  BY DEF Expire, At, Alive
<1>2. TypeOK /\ AssessmentFits(t)
  BY <1>1, Known
<1>3. a \in DOMAIN assessments
  BY <1>1, <1>2 DEF AssessmentFits, Assessing
<1>4. Holds(t, "undo", tasks[t].c, tasks[t].a, tasks[t].parent, tasks[t].left, "timeout",
            tasks[t].why)
  BY <1>2, WritesAtVerdict DEF Expire, Places, Verdicts, Exits
<1>5. row \in AssessmentRow /\ SameRecord(assessments[a], row)
  <2>1. assessments[a] \in AssessmentRow
    BY <1>2, <1>3, Rows
  <2>2. QED  BY <2>1 DEF AssessmentRow, SameRecord, Told
<1>6. assessments' = [assessments EXCEPT ![a] = row]
  BY DEF Expire
<1> HIDE DEF row
<1>7. QuietTables
  BY <1>2, <1>3, <1>5, <1>6, RecordIsQuiet DEF Expire
<1>8. Onward(t)
  BY <1>1, <1>4 DEF Onward, Holds, Assessing
<1>9. QED  BY <1>1, <1>7, <1>8, OnwardBest DEF Expire

LEMMA UndoBest ==
  ASSUME ArtifactInv, ArtifactInv', BestInv, NEW t \in DOMAIN tasks, Undo(t)
  PROVE  BestStep
<1> DEFINE a == tasks[t].a
           settled == Settle(assessments[a].effects)
           row == [assessments[a] EXCEPT !.effects = settled]
<1>1. Alive(t) /\ tasks[t].at = "undo"
  BY DEF Undo, At, Alive
<1>2. TypeOK /\ AssessmentFits(t)
  BY <1>1, Known
<1>3. a \in DOMAIN assessments
  BY <1>1, <1>2 DEF AssessmentFits, Assessing
<1>4. Holds(t, "shut", tasks[t].c, tasks[t].a, tasks[t].parent, tasks[t].left, tasks[t].verdict,
            tasks[t].why)
  BY <1>2, WritesAt DEF Undo, Places, Goto
<1>5. assessments' = [assessments EXCEPT ![a] = row]
  BY DEF Undo
<1>6. row \in AssessmentRow /\ SameRecord(assessments[a], row)
  <2>1. assessments[a] \in AssessmentRow
    BY <1>2, <1>3, Rows
  <2>2. settled \in Seq(EffectStates)
    BY <2>1, SettledEffects DEF AssessmentRow
  <2> HIDE DEF settled
  <2>3. QED  BY <2>1, <2>2 DEF AssessmentRow, SameRecord, Told
<1> HIDE DEF row
<1>7. QuietTables
  BY <1>2, <1>3, <1>5, <1>6, RecordIsQuiet DEF Undo
<1>8. Onward(t)
  BY <1>1, <1>4 DEF Onward, Holds, Assessing
<1>9. QED  BY <1>1, <1>7, <1>8, OnwardBest DEF Undo

LEMMA ShutBest ==
  ASSUME ArtifactInv, ArtifactInv', BestInv, NEW t \in DOMAIN tasks, Shut(t)
  PROVE  BestStep
<1> DEFINE a     == tasks[t].a
           v     == tasks[t].verdict
           state == IF v = "invalid" THEN "INVALID" ELSE "INCOMPLETE"
           row == [assessments[a] EXCEPT !.state = state]
<1>1. Alive(t) /\ tasks[t].at = "shut"
  BY DEF Shut, At, Alive
<1>2. TypeOK /\ RequestFits(t) /\ AssessmentFits(t)
  BY <1>1, Known
<1>3. /\ a \in DOMAIN assessments /\ v \in Exits
      /\ assessments[a].mode = "online" => assessments[a].state = "RESERVED"
  BY <1>1, <1>2 DEF AssessmentFits, Assessing, RequestFits
<1>4. assessments' = [assessments EXCEPT ![a] = row]
  BY DEF Shut
<1>5. row \in AssessmentRow /\ SameRecord(assessments[a], row)
  <2>1. assessments[a] \in AssessmentRow
    BY <1>2, <1>3, Rows
  <2>2. state \in {"INVALID", "INCOMPLETE"}
    OBVIOUS
  <2> HIDE DEF state
  <2>3. QED  BY <1>3, <2>1, <2>2 DEF AssessmentRow, SameRecord, Told
<1> HIDE DEF row
<1>6. QuietTables
  BY <1>2, <1>3, <1>4, <1>5, RecordIsQuiet DEF Shut
<1>7. CASE tasks[t].purpose = "audit" /\ v = "timeout"
  <2>1. Goto(t, "audits")
    BY <1>7 DEF Shut
  <2>2. Holds(t, "audits", tasks[t].c, tasks[t].a, tasks[t].parent, tasks[t].left, v,
              tasks[t].why)
    BY <1>2, <2>1, WritesAt DEF Places, Goto
  <2>3. Aside(t)
    BY <2>2 DEF Aside, Holds, Requesting, Assessing
  <2>4. QED  BY <1>1, <1>6, <2>3, AsideBest DEF Shut
<1>8. CASE tasks[t].purpose # "audit" /\ tasks[t].c # 0 /\ v = "invalid"
  <2>1. tasks' = [tasks EXCEPT ![t].at = "finish", ![t].verdict = "INVALID"]
    BY <1>8 DEF Shut
  <2>2. Holds(t, "finish", tasks[t].c, tasks[t].a, tasks[t].parent, tasks[t].left, "INVALID",
              tasks[t].why)
    BY <1>2, <2>1, WritesAtVerdict DEF Places, Verdicts, CandidateStates
  <2>3. Aside(t)
    BY <2>2 DEF Aside, Holds, Requesting, Assessing
  <2>4. QED  BY <1>1, <1>6, <2>3, AsideBest DEF Shut
<1>9. CASE tasks[t].purpose # "audit" /\ tasks[t].c # 0 /\ v = "timeout"
  <2>1. tasks' = [tasks EXCEPT ![t].at = "finish", ![t].verdict = "UNKNOWN",
                               ![t].why = "ONLINE_OUTCOME_UNKNOWN"]
    BY <1>9 DEF Shut
  <2>2. Holds(t, "finish", tasks[t].c, tasks[t].a, tasks[t].parent, tasks[t].left, "UNKNOWN",
              "ONLINE_OUTCOME_UNKNOWN")
    BY <1>2, <2>1, WritesAtVerdictWhy DEF Places, Verdicts, CandidateStates, Causes
  <2>3. Aside(t)
    BY <2>2 DEF Aside, Holds, Requesting, Assessing
  <2>4. QED  BY <1>1, <1>6, <2>3, AsideBest DEF Shut
<1>10. CASE /\ ~ (tasks[t].purpose = "audit" /\ v = "timeout")
            /\ ~ (tasks[t].purpose # "audit" /\ tasks[t].c # 0 /\ v \in {"invalid", "timeout"})
  <2> DEFINE why == IF v = "invalid" THEN "failed" ELSE v
  <2>1. Raise(t, why)
    BY <1>10 DEF Shut
  <2>2. why \in Causes
    BY <1>3 DEF Causes, Exits
  <2> HIDE DEF why
  <2>3. QED  BY <1>1, <1>6, <2>1, <2>2, RaiseBest DEF Shut
<1>11. QED  BY <1>7, <1>8, <1>9, <1>10

(* The effect of a request, or its provider, goes on.                      *)
LEMMA EffectIsQuiet ==
  ASSUME TypeOK, UNCHANGED <<run, assessments>>, NEW c \in DOMAIN candidates,
         NEW e \in EffectStates, candidates' = [candidates EXCEPT ![c].effect = e]
  PROVE  QuietTables
<1> DEFINE row == [candidates[c] EXCEPT !.effect = e]
<1>1. candidates[c] \in CandidateRow
  BY Rows
<1>2. row \in CandidateRow /\ SameOutcome(candidates[c], row)
  BY <1>1 DEF CandidateRow, SameOutcome
<1>3. candidates' = [candidates EXCEPT ![c] = row]
  OBVIOUS
<1> HIDE DEF row
<1>4. QED  BY <1>2, <1>3, OutcomeIsQuiet

LEMMA ProviderIsQuiet ==
  ASSUME TypeOK, UNCHANGED <<run, assessments>>, NEW c \in DOMAIN candidates,
         NEW p \in ProviderStates, candidates' = [candidates EXCEPT ![c].provider = p]
  PROVE  QuietTables
<1> DEFINE row == [candidates[c] EXCEPT !.provider = p]
<1>1. candidates[c] \in CandidateRow
  BY Rows
<1>2. row \in CandidateRow /\ SameOutcome(candidates[c], row)
  BY <1>1 DEF CandidateRow, SameOutcome, ProviderStates
<1>3. candidates' = [candidates EXCEPT ![c] = row]
  OBVIOUS
<1> HIDE DEF row
<1>4. QED  BY <1>2, <1>3, OutcomeIsQuiet

LEMMA StartRequestBest ==
  ASSUME ArtifactInv, ArtifactInv', BestInv, NEW t \in DOMAIN tasks, StartRequest(t)
  PROVE  BestStep
<1> DEFINE c == tasks[t].c
<1>1. Alive(t) /\ tasks[t].at = "start"
  BY DEF StartRequest, At, Alive
<1>2. TypeOK /\ RequestFits(t)
  BY <1>1, Known
<1>3. c \in DOMAIN candidates
  BY <1>1, <1>2 DEF RequestFits, OfCandidate
<1>4. CASE Raise(t, Refusal("search")) /\ UNCHANGED candidates
  BY <1>1, <1>4, Refused, RaiseBest, SameTablesAreQuiet DEF StartRequest
<1>5. CASE candidates' = [candidates EXCEPT ![c].effect = "STARTED"] /\ Goto(t, "call")
  <2>1. Holds(t, "call", tasks[t].c, tasks[t].a, tasks[t].parent, tasks[t].left,
              tasks[t].verdict, tasks[t].why)
    BY <1>2, <1>5, WritesAt DEF Places, Goto
  <2>2. Onward(t)
    BY <1>1, <2>1 DEF Onward, Holds, Requesting
  <2>3. QuietTables
    BY <1>2, <1>3, <1>5, EffectIsQuiet DEF StartRequest, EffectStates
  <2>4. QED  BY <1>1, <2>2, <2>3, OnwardBest DEF StartRequest
<1>6. QED  BY <1>4, <1>5 DEF StartRequest

LEMMA CallProviderBest ==
  ASSUME ArtifactInv, ArtifactInv', BestInv, NEW t \in DOMAIN tasks, CallProvider(t)
  PROVE  BestStep
<1> DEFINE c == tasks[t].c
<1>1. Alive(t) /\ tasks[t].at = "call"
  BY DEF CallProvider, At, Alive
<1>2. TypeOK /\ RequestFits(t)
  BY <1>1, Known
<1>3. c \in DOMAIN candidates
  BY <1>1, <1>2 DEF RequestFits, OfCandidate
<1>4. CASE late
  <2>1. Holds(t, "reply", tasks[t].c, tasks[t].a, tasks[t].parent, tasks[t].left, "unknown",
              tasks[t].why)
    BY <1>2, <1>4, WritesAtVerdict DEF CallProvider, Places, Verdicts, Replies
  <2>2. Onward(t)
    BY <1>1, <2>1 DEF Onward, Holds, Requesting
  <2>3. QED  BY <1>1, <1>4, <2>2, SameTablesAreQuiet, OnwardBest DEF CallProvider
<1>5. CASE ~late
  <2>1. Holds(t, "wait", tasks[t].c, tasks[t].a, tasks[t].parent, tasks[t].left,
              tasks[t].verdict, tasks[t].why)
    BY <1>2, <1>5, WritesAt DEF CallProvider, Places, Goto
  <2>2. Onward(t)
    BY <1>1, <2>1 DEF Onward, Holds, Requesting
  <2>3. QuietTables
    BY <1>2, <1>3, <1>5, ProviderIsQuiet DEF CallProvider, ProviderStates
  <2>4. QED  BY <1>1, <2>2, <2>3, OnwardBest DEF CallProvider
<1>6. QED  BY <1>4, <1>5

LEMMA HearBest ==
  ASSUME ArtifactInv, ArtifactInv', BestInv, NEW t \in DOMAIN tasks, Hear(t)
  PROVE  BestStep
<1> DEFINE c == tasks[t].c
<1>1. Alive(t) /\ tasks[t].at = "wait"
  BY DEF Hear, At, Alive
<1>2. TypeOK /\ RequestFits(t)
  BY <1>1, Known
<1>3. c \in DOMAIN candidates
  BY <1>1, <1>2 DEF RequestFits, OfCandidate
<1>4. ASSUME NEW v \in Verdicts, QuietTables,
             tasks' = [tasks EXCEPT ![t].at = "reply", ![t].verdict = v]
      PROVE  BestStep
  <2>1. Holds(t, "reply", tasks[t].c, tasks[t].a, tasks[t].parent, tasks[t].left, v, tasks[t].why)
    BY <1>2, <1>4, WritesAtVerdict DEF Places
  <2>2. Onward(t)
    BY <1>1, <2>1 DEF Onward, Holds, Requesting
  <2>3. QED  BY <1>1, <1>4, <2>2, OnwardBest DEF Hear
<1>5. CASE candidates[c].provider = "gone" /\ UNCHANGED candidates
  <2> DEFINE v == IF candidates[c].reply = "none" THEN "unknown" ELSE candidates[c].reply
  <2>1. candidates[c].reply \in Replies
    BY <1>2, <1>3, Rows DEF CandidateRow
  <2>2. v \in Verdicts
    BY <2>1 DEF Replies, Verdicts
  <2>3. tasks' = [tasks EXCEPT ![t].at = "reply", ![t].verdict = v]
    BY <1>5 DEF Hear, Request
  <2> HIDE DEF v
  <2>4. QED  BY <1>4, <1>5, <2>2, <2>3, SameTablesAreQuiet DEF Hear
<1>6. CASE /\ candidates[c].provider # "gone"
           /\ candidates' = [candidates EXCEPT ![c].provider = "gone"]
           /\ tasks' = [tasks EXCEPT ![t].at = "reply", ![t].verdict = "unknown"]
  <2>1. QuietTables
    BY <1>2, <1>3, <1>6, ProviderIsQuiet DEF Hear, ProviderStates
  <2>2. "unknown" \in Verdicts
    BY DEF Verdicts, Replies
  <2>3. QED  BY <1>4, <1>6, <2>1, <2>2
<1>7. QED  BY <1>5, <1>6 DEF Hear, Request

LEMMA ReplyBest ==
  ASSUME ArtifactInv, ArtifactInv', BestInv, NEW t \in DOMAIN tasks, Reply(t)
  PROVE  BestStep
<1> DEFINE c == tasks[t].c
           v == tasks[t].verdict
<1>1. Alive(t) /\ tasks[t].at = "reply"
  BY DEF Reply, At, Alive
<1>2. TypeOK /\ RequestFits(t)
  BY <1>1, Known
<1>3. c \in DOMAIN candidates /\ v \in DOMAIN Terminal
  BY <1>1, <1>2 DEF RequestFits, OfCandidate
<1>4. CASE candidates[c].effect \in {"RESERVED", "STARTED"}
  <2>1. candidates' = [candidates EXCEPT ![c].effect = Terminal[v]]
    BY <1>4 DEF Reply, Request
  <2>2. Terminal[v] \in EffectStates
    BY <1>3 DEF Terminal, EffectStates
  <2>3. QuietTables
    BY <1>2, <1>3, <2>1, <2>2, EffectIsQuiet DEF Reply
  <2>4. \/ \E verdict \in {"FAILED", "SKIPPED", "INVALID"},
              why \in {"REQUEST_OUTCOME_UNKNOWN", "PROVIDER_TERMINAL", "SEARCH_DEADLINE", "none"} :
             tasks' = [tasks EXCEPT ![t].at = "finish", ![t].verdict = verdict, ![t].why = why]
        \/ v = "complete" /\ Goto(t, "validate")
    <3>1. \/ v = "unknown" \/ v = "provider_failed"
          \/ (v \in {"complete", "generation_failed"} /\ late)
          \/ (v = "generation_failed" /\ ~late) \/ (v = "complete" /\ ~late)
      BY <1>3 DEF Terminal
    <3>2. QED  BY <1>4, <3>1 DEF Reply, Request
  <2>5. ASSUME NEW verdict \in {"FAILED", "SKIPPED", "INVALID"},
               NEW why \in {"REQUEST_OUTCOME_UNKNOWN", "PROVIDER_TERMINAL", "SEARCH_DEADLINE",
                            "none"},
               tasks' = [tasks EXCEPT ![t].at = "finish", ![t].verdict = verdict, ![t].why = why]
        PROVE  BestStep
    <3>1. verdict \in Verdicts /\ verdict # "COMPLETE" /\ why \in Causes
      BY DEF Verdicts, CandidateStates, Causes, Exits
    <3>2. Holds(t, "finish", tasks[t].c, tasks[t].a, tasks[t].parent, tasks[t].left, verdict, why)
      BY <1>2, <2>5, <3>1, WritesAtVerdictWhy DEF Places
    <3>3. Aside(t)
      BY <3>1, <3>2 DEF Aside, Holds, Requesting, Assessing
    <3>4. QED  BY <1>1, <2>3, <3>3, AsideBest DEF Reply
  <2>6. ASSUME Goto(t, "validate") PROVE BestStep
    <3>1. Holds(t, "validate", tasks[t].c, tasks[t].a, tasks[t].parent, tasks[t].left,
                tasks[t].verdict, tasks[t].why)
      BY <1>2, <2>6, WritesAt DEF Places, Goto
    <3>2. Onward(t)
      BY <1>1, <3>1 DEF Onward, Holds, Requesting
    <3>3. QED  BY <1>1, <2>3, <3>2, OnwardBest DEF Reply
  <2>7. QED  BY <2>4, <2>5, <2>6
<1>5. CASE candidates[c].effect \notin {"RESERVED", "STARTED"}
  <2>1. Raise(t, "failed") /\ UNCHANGED candidates
    BY <1>5 DEF Reply, Request
  <2>2. "failed" \in Causes
    BY DEF Causes, Exits
  <2>3. QED  BY <1>1, <2>1, <2>2, RaiseBest, SameTablesAreQuiet DEF Reply
<1>6. QED  BY <1>4, <1>5

(* A step of the runner of t that leaves the run alone.                    *)
LEMMA LedgerMove ==
  ASSUME ArtifactInv, ArtifactInv', BestInv, NEW t \in DOMAIN tasks, Alive(t), Moved(t),
         UNCHANGED <<run, rounds>>, BestTables(run', assessments', candidates'), NotWorse,
         tasks[t].at \notin {"done", "failed"}, Searches(t) => Compares(t)'
  PROVE  BestStep
<1>1. SealsBest
  BY DEF SealsBest
<1>2. run'.state = "COMPLETED" => run'.sealed
  BY DEF BestInv, AuditsAreSealed
<1>3. Executing' <=> Executing
  BY DEF Executing, Current
<1>4. Searches(t) /\ ~run'.sealed => Executing'
  BY <1>3, KnownBest
<1>5. QED  BY <1>1, <1>2, <1>4, MoveBest

LEMMA SameKeysNotWorse ==
  ASSUME TypeOK, SealFits, run'.incumbent = run.incumbent,
         KeyOf(run.incumbent, assessments') = KeyOf(run.incumbent, assessments)
  PROVE  NotWorse
  BY IncumbentKey DEF NotWorse

(* A runner that compares holds nothing that is better.                    *)
LEMMA HoldsNothing ==
  ASSUME ArtifactInv, BestInv, NEW t \in DOMAIN tasks, Alive(t), Searches(t),
         tasks[t].at \notin {"baseline", "compare"}
  PROVE  ~run.sealed => AllBeaten
<1>1. HoldsBest(t)
  BY KnownBest DEF Compares
<1>2. QED  BY <1>1 DEF HoldsBest, AllBeaten

LEMMA ValidateBest ==
  ASSUME ArtifactInv, ArtifactInv', BestInv, NEW t \in DOMAIN tasks, Validate(t)
  PROVE  BestStep
<1> DEFINE c        == tasks[t].c
           reusable == Reusable(candidates[c].artifact, assessments)
           first    == CHOOSE a \in reusable : \A b \in reusable :
                         assessments[a].order <= assessments[b].order
<1>1. Alive(t) /\ tasks[t].at = "validate"
  BY DEF Validate, At, Alive
<1>2. /\ tasks[t] \in TaskRow /\ TypeOK /\ StepFits(t) /\ RequestFits(t)
  BY <1>1, Known
<1>3. Searches(t)
  BY <1>1, <1>2 DEF StepFits, SharedSteps, AuditSteps
<1>4. /\ c \in DOMAIN candidates /\ c \in Nat \ {0} /\ candidates[c] \in CandidateRow
      /\ tasks[t].why \in Causes
  BY <1>1, <1>2, Rows DEF RequestFits, OfCandidate, TaskRow
<1>5. Compares(t) /\ BestTables(run, assessments, candidates)
  BY <1>1, <1>3, KnownBest
<1>6. UNCHANGED candidates => QuietTables
  BY SameTablesAreQuiet DEF Validate
<1>7. ASSUME NEW verdict \in {"INVALID", "UNKNOWN"}, NEW why \in Causes,
             Holds(t, "finish", tasks[t].c, tasks[t].a, tasks[t].parent, tasks[t].left, verdict,
                   why),
             UNCHANGED candidates
      PROVE  BestStep
  <2>1. Aside(t)
    BY <1>7 DEF Aside, Holds, Requesting, Assessing
  <2>2. QED  BY <1>1, <1>6, <1>7, <2>1, AsideBest DEF Validate
<1>8. CASE /\ tasks' = [tasks EXCEPT ![t].at = "finish", ![t].verdict = "INVALID"]
           /\ UNCHANGED candidates
  <2>1. Holds(t, "finish", tasks[t].c, tasks[t].a, tasks[t].parent, tasks[t].left, "INVALID",
              tasks[t].why)
    BY <1>2, <1>8, WritesAtVerdict DEF Places, Verdicts, CandidateStates
  <2>2. QED  BY <1>4, <1>7, <1>8, <2>1
<1>9. CASE /\ tasks' = [tasks EXCEPT ![t].at = "finish", ![t].verdict = "UNKNOWN",
                                     ![t].why = "ONLINE_OUTCOME_UNKNOWN"]
           /\ UNCHANGED candidates
  <2>1. "ONLINE_OUTCOME_UNKNOWN" \in Causes
    BY DEF Causes
  <2>2. Holds(t, "finish", tasks[t].c, tasks[t].a, tasks[t].parent, tasks[t].left, "UNKNOWN",
              "ONLINE_OUTCOME_UNKNOWN")
    BY <1>2, <1>9, <2>1, WritesAtVerdictWhy DEF Places, Verdicts, CandidateStates
  <2>3. QED  BY <1>7, <1>9, <2>1, <2>2
<1>10. CASE Raise(t, "failed") /\ UNCHANGED candidates
  <2>1. "failed" \in Causes
    BY DEF Causes, Exits
  <2>2. QED  BY <1>1, <1>6, <1>10, <2>1, RaiseBest DEF Validate
<1>11. CASE reusable = {} /\ Goto(t, "assess") /\ UNCHANGED candidates
  <2>1. Holds(t, "assess", c, tasks[t].a, tasks[t].parent, tasks[t].left, tasks[t].verdict,
              tasks[t].why)
    BY <1>2, <1>11, WritesAt DEF Places, Goto
  <2>2. ComparesParent(t) /\ ComparesNew(t)
    BY <1>5 DEF Compares
  <2>3. tasks[t].parent = Parent(run) /\ OfNone(c) /\ Fresh(c)
    BY <1>1, <2>2 DEF ComparesParent, NeedsParent, ComparesNew, BeforeIts, Requesting
  <2>4. UNCHANGED <<run, assessments, candidates>>
    BY <1>11 DEF Validate
  <2>5. ComparesBaseline(t)' /\ ComparesAssessed(t)'
    BY <1>4, <2>1 DEF ComparesBaseline, ComparesAssessed, Holds, Assessing
  <2>6. ComparesParent(t)'
    BY <2>1, <2>3, <2>4 DEF ComparesParent, Holds, Parent
  <2>7. ComparesNew(t)'
    BY <2>1, <2>3, <2>4 DEF ComparesNew, Holds, OfNone, Fresh, Online
  <2>8. QED  BY <1>1, <1>6, <1>11, <2>1, <2>5, <2>6, <2>7, QuietMove DEF Validate, Holds
<1>12. CASE /\ reusable # {}
            /\ candidates' = [candidates EXCEPT ![c].reuse = first]
            /\ tasks' = [tasks EXCEPT ![t].at = "compare", ![t].a = first]
  <2>1. first \in reusable
    <3> DEFINE orders == {assessments[a].order : a \in reusable}
    <3>1. \A a \in reusable : assessments[a].order \in Nat
      BY <1>2, Rows DEF Reusable, CompleteOnline, AssessmentRow
    <3>2. orders \in SUBSET Nat /\ orders # {}
      BY <1>12, <3>1
    <3>3. \E x \in orders : \A y \in orders : x <= y
      <4> HIDE DEF orders
      <4>1. QED  BY <3>2, SmallestNumber
    <3>4. \E a \in reusable : \A b \in reusable : assessments[a].order <= assessments[b].order
      BY <3>3
    <3> HIDE DEF reusable
    <3>5. QED  BY <3>4
  <2> HIDE DEF first
  <2>2. first \in Nat
    BY <1>2, <2>1, Rows DEF Reusable, CompleteOnline
  <2>3. Holds(t, "compare", c, first, tasks[t].parent, tasks[t].left, tasks[t].verdict,
              tasks[t].why)
    BY <1>2, <1>12, <2>2, WritesAtA DEF Places
  <2>4. UNCHANGED <<run, rounds, assessments>>
    BY DEF Validate
  <2>5. /\ DOMAIN candidates' = DOMAIN candidates
        /\ \A d \in DOMAIN candidates : candidates'[d].state = candidates[d].state
        /\ \A d \in DOMAIN candidates : d # c => candidates'[d].reuse = candidates[d].reuse
    <3> DEFINE row == [candidates[c] EXCEPT !.reuse = first]
    <3>1. row \in CandidateRow /\ row.state = candidates[c].state
      BY <1>4, <2>2 DEF CandidateRow
    <3>2. candidates' = [candidates EXCEPT ![c] = row] /\ candidates \in Seq(CandidateRow)
      BY <1>2, <1>12, Rows
    <3> HIDE DEF row
    <3>3. QED  BY <3>1, <3>2, RowReplaced
  <2>6. tasks[t].parent = Parent(run) /\ OfNone(c)
    BY <1>1, <1>5 DEF Compares, ComparesParent, NeedsParent, ComparesNew, BeforeIts, Requesting
  <2>7. BestTables(run', assessments', candidates')
    <3>1. SourcesFit(assessments, candidates')
      BY <1>5, <2>5, <2>6 DEF BestTables, SourcesFit, OfNone, Online
    <3>2. BestKnown(run, assessments, candidates) => BestKnown(run, assessments, candidates')
      BY <1>5, <2>5 DEF BestTables, SourcesFit, BestKnown
    <3>3. QED  BY <1>5, <2>4, <2>5, <3>1, <3>2 DEF BestTables, BaselineFits
  <2>8. NotWorse
    BY <1>2, <2>4, SameKeysNotWorse DEF ArtifactInv
  <2>9. Compares(t)'
    <3>1. ComparesBaseline(t)' /\ ComparesNew(t)'
      BY <2>3 DEF ComparesBaseline, ComparesNew, BeforeIts, Holds, Assessing, Requesting
    <3>2. ComparesParent(t)'
      BY <2>3, <2>4, <2>6 DEF ComparesParent, Holds, Parent
    <3>3. ComparesAssessed(t)'
      BY <2>3, <2>4, <2>6 DEF ComparesAssessed, Holds, Assessing, AllCompleteOf, OfNone, Online
    <3>4. HoldsBest(t)'
      BY <1>1, <1>3, <2>4, HoldsNothing DEF HoldsBest, AllBeaten
    <3>5. QED  BY <3>1, <3>2, <3>3, <3>4 DEF Compares
  <2>10. QED  BY <1>1, <2>3, <2>4, <2>7, <2>8, <2>9, LedgerMove DEF Holds
<1>13. QED  BY <1>8, <1>9, <1>10, <1>11, <1>12 DEF Validate

LEMMA GenerateBest ==
  ASSUME ArtifactInv, ArtifactInv', BestInv, NEW t \in DOMAIN tasks, Generate(t)
  PROVE  BestStep
<1>1. Alive(t) /\ tasks[t].at = "generate"
  BY DEF Generate, At, Alive
<1>2. /\ tasks[t] \in TaskRow /\ TypeOK /\ StepFits(t) /\ BaselineIsKnown(t)
  BY <1>1, Known
<1>3. Searches(t) /\ run.baseline # 0
  BY <1>1, <1>2 DEF StepFits, SharedSteps, AuditSteps, BaselineIsKnown, AfterBaseline, SearchSteps
<1>4. Compares(t) /\ BestTables(run, assessments, candidates)
  BY <1>1, <1>3, KnownBest
<1>5. CASE \E why \in Causes : Raise(t, why) /\ UNCHANGED candidates
  <2>1. PICK why \in Causes : Raise(t, why) /\ UNCHANGED candidates
    BY <1>5
  <2>2. QED  BY <1>1, <2>1, RaiseBest, SameTablesAreQuiet DEF Generate
<1>6. CASE /\ candidates' = Append(candidates, NewCandidate(tasks[t].round))
           /\ tasks' = [tasks EXCEPT ![t].at = "start", ![t].c = Len(candidates) + 1]
  <2> DEFINE row == NewCandidate(tasks[t].round)
             c   == Len(candidates) + 1
  <2>1. /\ candidates \in Seq(CandidateRow) /\ Len(candidates) \in Nat
        /\ DOMAIN candidates = 1..Len(candidates)
    BY <1>2, Rows
  <2>2. row \in CandidateRow /\ row.reuse = 0 /\ row.state = "RESERVED"
    BY <1>2 DEF NewCandidate, CandidateRow, TaskRow, CandidateStates, EffectStates, Replies
  <2> HIDE DEF row
  <2>3. /\ candidates'[c] = row /\ c \in DOMAIN candidates' /\ c \notin DOMAIN candidates
        /\ \A d \in DOMAIN candidates : d \in DOMAIN candidates' /\ candidates'[d] = candidates[d]
        /\ c # 0
    BY <1>6, <2>1, <2>2 DEF row
  <2>4. Holds(t, "start", c, tasks[t].a, tasks[t].parent, tasks[t].left, tasks[t].verdict,
              tasks[t].why)
    <3>1. c \in Nat /\ tasks' = [tasks EXCEPT ![t].at = "start", ![t].c = c]
      BY <1>6, <2>1
    <3> HIDE DEF c
    <3>2. QED  BY <1>2, <3>1, WritesAtC DEF Places
  <2> HIDE DEF c
  <2>5. UNCHANGED <<run, rounds, assessments>>
    BY DEF Generate
  <2>6. BestTables(run', assessments', candidates')
    <3>1. SourcesFit(assessments, candidates')
      BY <1>4, <2>3 DEF BestTables, SourcesFit
    <3>2. BestKnown(run, assessments, candidates) => BestKnown(run, assessments, candidates')
      BY <1>4, <2>3 DEF BestTables, SourcesFit, BestKnown
    <3>3. QED  BY <1>3, <1>4, <2>5, <3>1, <3>2 DEF BestTables, BaselineFits
  <2>7. NotWorse
    BY <1>2, <2>5, SameKeysNotWorse DEF ArtifactInv
  <2>8. Compares(t)'
    <3>1. OfNone(tasks[t].c)' /\ Fresh(tasks[t].c)'
      <4>1. tasks'[t].c = c
        BY <2>4 DEF Holds
      <4>2. \A a \in DOMAIN assessments : Online(a) => assessments[a].of # c
        BY <1>4, <2>3 DEF BestTables, SourcesFit, Online
      <4>3. QED  BY <2>2, <2>3, <2>5, <4>1, <4>2 DEF OfNone, Fresh, Online
    <3>2. ComparesBaseline(t)' /\ ComparesNew(t)' /\ ComparesAssessed(t)'
      BY <2>4, <3>1 DEF ComparesBaseline, ComparesNew, ComparesAssessed, Holds, Assessing
    <3>3. ComparesParent(t)'
      BY <1>1, <1>4, <2>4, <2>5 DEF Compares, ComparesParent, NeedsParent, Holds, Parent
    <3>4. HoldsBest(t)'
      BY <1>1, <1>3, <2>5, HoldsNothing DEF HoldsBest, AllBeaten
    <3>5. QED  BY <3>2, <3>3, <3>4 DEF Compares
  <2>9. QED  BY <1>1, <2>4, <2>5, <2>6, <2>7, <2>8, LedgerMove DEF Holds
<1>7. QED  BY <1>5, <1>6, Refused DEF Generate, Causes, Exits

(* A new assessment of what was never assessed.                            *)
LEMMA ReserveBest ==
  ASSUME ArtifactInv, ArtifactInv', BestInv, NEW t \in DOMAIN tasks, Reserve(t)
  PROVE  BestStep
<1>1. /\ Alive(t) /\ tasks[t].at = "assess" /\ UNCHANGED <<run, rounds, candidates, clock>>
  BY DEF Reserve, At, Alive
<1>2. /\ tasks[t] \in TaskRow /\ TypeOK /\ RequestFits(t) /\ SealFits
  BY <1>1, Known DEF ArtifactInv
<1>3. BestTables(run, assessments, candidates) /\ (Searches(t) => Compares(t))
  BY <1>1, KnownBest
<1>4. CASE \E why \in Causes : Raise(t, why) /\ UNCHANGED assessments
  <2>1. PICK why \in Causes : Raise(t, why) /\ UNCHANGED assessments
    BY <1>4
  <2>2. QED  BY <1>1, <2>1, RaiseBest, SameTablesAreQuiet
<1>5. CASE /\ Allowed(tasks[t].purpose)
           /\ assessments' = Append(assessments, NewAssessment(t))
           /\ tasks' = [tasks EXCEPT ![t].at = "evaluate", ![t].a = Len(assessments) + 1]
  <2> DEFINE row == NewAssessment(t)
             n   == Len(assessments) + 1
  <2>1. /\ row \in AssessmentRow /\ row.of = tasks[t].c /\ row.state = "RESERVED"
        /\ row.mode = (IF Searches(t) THEN "online" ELSE "audit")
        /\ Searches(t) => row.artifact = Target(t)
    BY <1>1, NewIs
  <2>2. row.order = 0 /\ row.worker = "none" /\ row.exit = "none"
    BY DEF NewAssessment
  <2>3. /\ assessments \in Seq(AssessmentRow) /\ Len(assessments) \in Nat
        /\ DOMAIN assessments = 1..Len(assessments)
    BY <1>2, Rows
  <2> HIDE DEF row
  <2>4. /\ DOMAIN assessments' = 1..n /\ assessments'[n] = row /\ n \in DOMAIN assessments'
        /\ \A a \in DOMAIN assessments :
             a \in DOMAIN assessments' /\ assessments'[a] = assessments[a] /\ a # n
        /\ n # 0
    BY <1>5, <2>1, <2>3 DEF row
  <2>5. \A a \in DOMAIN assessments' : a \in DOMAIN assessments \/ a = n
    BY <2>3, <2>4
  <2>6. n \in Nat /\ tasks' = [tasks EXCEPT ![t].at = "evaluate", ![t].a = n]
    BY <1>5, <2>3
  <2> HIDE DEF n
  <2>7. Holds(t, "evaluate", tasks[t].c, n, tasks[t].parent, tasks[t].left,
              tasks[t].verdict, tasks[t].why)
    BY <1>2, <2>6, WritesAtA DEF Places
  <2>8. /\ CompleteOnline(assessments') = CompleteOnline(assessments)
        /\ run.incumbent \in DOMAIN assessments \cup {0}
        /\ run.baseline \in DOMAIN assessments \cup {0}
    BY <1>2, <1>3, <2>1, <2>4, <2>5 DEF CompleteOnline, SealFits, BestTables, BaselineFits
  <2>9. \A a \in DOMAIN assessments \cup {0} :
          KeyOf(a, assessments') = KeyOf(a, assessments)
    BY <2>4 DEF KeyOf
  <2>10. Searches(t) /\ tasks[t].c # 0 =>
           /\ OfNone(tasks[t].c) /\ Fresh(tasks[t].c) /\ tasks[t].c \in DOMAIN candidates
    BY <1>1, <1>2, <1>3 DEF Compares, ComparesNew, BeforeIts, RequestFits, Replied, Assessing
  <2>11. BestTables(run', assessments', candidates')
    <3>1. Ordered(assessments')
      BY <1>3, <2>1, <2>2, <2>4, <2>5 DEF BestTables, Ordered
    <3>2. OnDiskFits(assessments')
      BY <1>3, <2>1, <2>2, <2>4, <2>5 DEF BestTables, OnDiskFits, Told
    <3>3. Searches(t) /\ tasks[t].c = 0 => row.artifact = 0
      BY <2>1 DEF Target
    <3>4. SourcesFit(assessments', candidates)
      <4>1. ASSUME NEW a \in DOMAIN assessments', assessments'[a].mode = "online"
            PROVE  IF assessments'[a].of = 0 THEN assessments'[a].artifact = 0
                   ELSE assessments'[a].of \in DOMAIN candidates
                        /\ candidates[assessments'[a].of].reuse = 0
        <5>1. CASE a \in DOMAIN assessments
          BY <1>3, <2>4, <4>1, <5>1 DEF BestTables, SourcesFit
        <5>2. CASE a = n
          BY <2>1, <2>4, <2>10, <3>3, <4>1, <5>2 DEF Fresh
        <5>3. QED  BY <2>5, <5>1, <5>2
      <4>2. ASSUME NEW a \in DOMAIN assessments', NEW b \in DOMAIN assessments',
                   assessments'[a].mode = "online", assessments'[b].mode = "online",
                   assessments'[a].of = assessments'[b].of, assessments'[a].of # 0
            PROVE  a = b
        <5>1. CASE a \in DOMAIN assessments /\ b \in DOMAIN assessments
          BY <1>3, <2>4, <4>2, <5>1 DEF BestTables, SourcesFit
        <5>2. CASE a = n /\ b \in DOMAIN assessments
          BY <2>1, <2>4, <2>10, <4>2, <5>2 DEF OfNone, Online
        <5>3. CASE a \in DOMAIN assessments /\ b = n
          BY <2>1, <2>4, <2>10, <4>2, <5>3 DEF OfNone, Online
        <5>4. QED  BY <2>5, <5>1, <5>2, <5>3
      <4>3. QED  BY <4>1, <4>2 DEF SourcesFit
    <3>5. BaselineFits(run, assessments', candidates)
      BY <1>3, <2>4, <2>8 DEF BestTables, BaselineFits, CompleteOnline
    <3>6. ASSUME ~run.sealed PROVE BestKnown(run, assessments', candidates)
      <4>1. BestKnown(run, assessments, candidates)
        BY <1>3, <3>6 DEF BestTables
      <4>2. \A a \in DOMAIN assessments \cup {0} :
              Beaten(a, run, assessments') <=> Beaten(a, run, assessments)
        BY <2>8, <2>9 DEF Beaten
      <4>3. \A a \in DOMAIN assessments : Accepted(a, run, assessments) =>
                                            Accepted(a, run, assessments')
        BY <2>4, <4>2 DEF Accepted
      <4>4. assessments'[n].mode = "online" /\ assessments'[n].of # 0 =>
              candidates[assessments'[n].of].state # "COMPLETE"
        BY <2>1, <2>4, <2>10 DEF Fresh
      <4>5. QED  BY <2>4, <2>5, <2>8, <4>1, <4>2, <4>3, <4>4 DEF BestKnown
    <3>7. QED  BY <1>1, <3>1, <3>2, <3>4, <3>5, <3>6 DEF BestTables
  <2>12. NotWorse
    BY <1>1, <1>2, <2>8, <2>9, SameKeysNotWorse
  <2>13. Searches(t) => Compares(t)'
    <3>1. SUFFICES ASSUME Searches(t) PROVE Compares(t)'
      OBVIOUS
    <3>2. ComparesBaseline(t)'
      BY <1>1, <1>3, <2>7, <3>1 DEF Compares, ComparesBaseline, Holds, Assessing
    <3>3. ComparesParent(t)'
      BY <1>1, <1>3, <2>7, <3>1 DEF Compares, ComparesParent, NeedsParent, Holds, Assessing, Parent,
         Requesting
    <3>4. ComparesNew(t)'
      BY <2>7 DEF ComparesNew, BeforeIts, Holds, Requesting
    <3>5. ComparesAssessed(t)'
      <4>1. tasks'[t].a = n /\ tasks'[t].c = tasks[t].c /\ tasks'[t].at = "evaluate"
        BY <2>7 DEF Holds
      <4>2. assessments'[n].of = tasks[t].c
        BY <2>1, <2>4
      <4>3. QED  BY <4>1, <4>2 DEF ComparesAssessed
    <3>6. HoldsBest(t)'
      <4>1. ~run.sealed => AllBeaten
        BY <1>1, <3>1, HoldsNothing
      <4>2. \A a \in CompleteOnline(assessments) : a \in DOMAIN assessments
        BY DEF CompleteOnline
      <4>3. QED  BY <1>1, <2>8, <2>9, <4>1, <4>2 DEF HoldsBest, AllBeaten, Beaten
    <3>7. QED  BY <3>2, <3>3, <3>4, <3>5, <3>6 DEF Compares
  <2>14. QED  BY <1>1, <2>7, <2>11, <2>12, <2>13, LedgerMove DEF Holds
<1>6. "budget" \in Causes
  BY DEF Causes
<1>7. QED  BY <1>4, <1>5, <1>6, Refused DEF Reserve

(* What the assessment becomes when it is recorded.                        *)
LEMMA RecordBestStep ==
  ASSUME ArtifactInv, ArtifactInv', BestInv, NEW t \in DOMAIN tasks, Record(t)
  PROVE  BestStep
<1> DEFINE a    == tasks[t].a
           next == IF tasks[t].purpose = "audit" THEN "audits"
                   ELSE IF tasks[t].c = 0 THEN "baseline" ELSE "compare"
           row == [assessments[a] EXCEPT !.state = "COMPLETE", !.order = NextOrder(assessments)]
<1>1. /\ Alive(t) /\ tasks[t].at = "record" /\ UNCHANGED <<run, rounds, candidates>>
  BY DEF Record, At, Alive
<1>2. /\ tasks[t] \in TaskRow /\ TypeOK /\ AssessmentFits(t) /\ SealFits
  BY <1>1, Known DEF ArtifactInv
<1>3. a \in DOMAIN assessments /\ assessments[a] \in AssessmentRow
  BY <1>1, <1>2, Rows DEF AssessmentFits, Assessing
<1>4. next = IF ~Searches(t) THEN "audits" ELSE IF tasks[t].c = 0 THEN "baseline" ELSE "compare"
  BY <1>2 DEF Searches, TaskRow
<1>5. next \in Places /\ tasks' = [tasks EXCEPT ![t].at = next]
  BY DEF Record, Places, Goto
<1> HIDE DEF next
<1>6. Holds(t, next, tasks[t].c, a, tasks[t].parent, tasks[t].left, tasks[t].verdict,
            tasks[t].why)
  BY <1>2, <1>5, WritesAt
<1>7. /\ row \in AssessmentRow /\ row.state = "COMPLETE" /\ row.order = NextOrder(assessments)
      /\ row.mode = assessments[a].mode /\ row.of = assessments[a].of
      /\ row.artifact = assessments[a].artifact /\ row.worker = assessments[a].worker
      /\ row.exit = assessments[a].exit /\ row.terminal = assessments[a].terminal
  <2>1. NextOrder(assessments) \in Nat
    BY <1>2, Rows, LastNumber DEF NextOrder
  <2>2. QED  BY <1>3, <2>1 DEF AssessmentRow
<1>8. assessments' = [assessments EXCEPT ![a] = row]
  BY DEF Record
<1> HIDE DEF row
<1>9. Records(assessments, a, assessments')
  <2>1. /\ DOMAIN assessments' = DOMAIN assessments
        /\ \A b \in DOMAIN assessments :
             assessments'[b] = IF b = a THEN row ELSE assessments[b]
    BY <1>2, <1>7, <1>8, Rows, RowReplaced
  <2>2. QED  BY <1>3, <1>7, <2>1 DEF Records
<1>10. BestTables(run, assessments, candidates) /\ (Searches(t) => Compares(t))
  BY <1>1, KnownBest
<1>11. run.incumbent \in DOMAIN assessments \cup {0}
  BY <1>2 DEF SealFits, CompleteOnline
<1>12. assessments[a].mode = "online" => assessments[a].terminal
  BY <1>1, <1>2, <1>10 DEF Compares, ComparesAssessed, AssessmentFits, Assessing
<1>13. /\ BestTables(run, assessments', candidates)
       /\ \A b \in DOMAIN assessments \cup {0} :
            KeyOf(b, assessments') = KeyOf(b, assessments)
       /\ \A b \in CompleteOnline(assessments') : b = a \/ b \in CompleteOnline(assessments)
  BY <1>2, <1>3, <1>9, <1>10, <1>11, <1>12, RecordBest, Rows
<1>14. NotWorse
  BY <1>1, <1>2, <1>11, <1>13, SameKeysNotWorse
<1>15. Searches(t) => Compares(t)'
  <2>1. SUFFICES ASSUME Searches(t) PROVE Compares(t)'
    OBVIOUS
  <2>2. next = IF tasks[t].c = 0 THEN "baseline" ELSE "compare"
    BY <1>4, <2>1
  <2>3. /\ tasks'[t].at = next /\ tasks'[t].c = tasks[t].c /\ tasks'[t].a = a
        /\ tasks'[t].parent = tasks[t].parent
    BY <1>6 DEF Holds
  <2>4. assessments[a].of = tasks[t].c /\ assessments[a].mode = "online"
    BY <1>1, <1>2, <1>10, <2>1 DEF Compares, ComparesAssessed, AssessmentFits, Assessing
  <2>5. /\ assessments'[a].of = tasks[t].c /\ assessments'[a].state = "COMPLETE"
        /\ DOMAIN assessments' = DOMAIN assessments
        /\ \A b \in DOMAIN assessments : /\ assessments'[b].mode = assessments[b].mode
                                         /\ assessments'[b].of = assessments[b].of
    BY <1>3, <1>9, <2>4 DEF Records
  <2>6. ComparesBaseline(t)'
    BY <1>1, <1>10, <2>1, <2>2, <2>3, <2>5 DEF Compares, ComparesBaseline, Assessing
  <2>7. ComparesParent(t)'
    BY <1>1, <1>10, <2>1, <2>2, <2>3 DEF Compares, ComparesParent, NeedsParent, Assessing, Parent,
       Requesting
  <2>8. ComparesNew(t)'
    BY <2>2, <2>3 DEF ComparesNew, BeforeIts, Requesting
  <2>9. ComparesAssessed(t)'
    <3>1. tasks[t].c # 0 => \A b \in DOMAIN assessments :
            assessments[b].mode = "online" /\ assessments[b].of = tasks[t].c => b = a
      BY <1>3, <1>10, <2>4 DEF BestTables, SourcesFit
    <3>2. tasks[t].c # 0 => AllCompleteOf(tasks[t].c)'
      BY <2>3, <2>5, <3>1 DEF AllCompleteOf, Online
    <3>3. QED  BY <2>2, <2>3, <3>2 DEF ComparesAssessed, Assessing
  <2>10. HoldsBest(t)'
    <3>1. ~run.sealed => AllBeaten /\ Executing
      BY <1>1, <2>1, HoldsNothing, KnownBest
    <3>2. Executing' <=> Executing
      BY <1>1 DEF Executing, Current
    <3>3. \A b \in CompleteOnline(assessments) : b \in DOMAIN assessments
      BY DEF CompleteOnline
    <3>4. QED  BY <1>1, <1>11, <1>13, <2>2, <2>3, <3>1, <3>2, <3>3 DEF HoldsBest, AllBeaten, Beaten
  <2>11. QED  BY <2>6, <2>7, <2>8, <2>9, <2>10 DEF Compares
<1>16. QED  BY <1>1, <1>6, <1>13, <1>14, <1>15, LedgerMove DEF Holds

(* The runner of a search takes another incumbent, which is not worse.     *)
LEMMA AcceptMove ==
  ASSUME ArtifactInv, ArtifactInv', BestInv, NEW t \in DOMAIN tasks, Alive(t), Moved(t),
         Searches(t), tasks[t].at \notin {"done", "failed"},
         UNCHANGED <<rounds, candidates, assessments>>, Improves(run, run', assessments),
         run'.round = run.round, run'.state = run.state,
         ~run.sealed => Beaten(tasks[t].a, run', assessments),
         ComparesBaseline(t)', ComparesParent(t)', ComparesNew(t)', ComparesAssessed(t)'
  PROVE  BestStep
<1>1. TypeOK /\ SealFits /\ BestTables(run, assessments, candidates) /\ HoldsBest(t)
  BY KnownBest DEF ArtifactInv, Compares
<1>2. assessments \in Seq(AssessmentRow) /\ run.incumbent \in DOMAIN assessments \cup {0}
  BY <1>1, Rows DEF SealFits, CompleteOnline
<1>3. BestTables(run', assessments', candidates')
  <2>1. Completes(candidates, candidates, run', assessments)
    BY DEF Completes
  <2>2. BestTables(run', assessments, candidates)
    BY <1>1, <1>2, <2>1, AcceptBest
  <2>3. QED  BY <2>2
<1>4. NotWorse /\ SealsBest /\ run'.sealed = run.sealed
  BY DEF NotWorse, SealsBest, Improves
<1>5. \A b \in DOMAIN assessments : Beaten(b, run, assessments) => Beaten(b, run', assessments)
  <2>1. \A b \in DOMAIN assessments \cup {0} : KeyOf(b, assessments) \in Nat
    BY <1>2, KeyIs
  <2>2. QED  BY <1>2, <2>1 DEF Beaten, Improves
<1>6. HoldsBest(t)'
  <2>1. \A b \in CompleteOnline(assessments) : b \in DOMAIN assessments
    BY DEF CompleteOnline
  <2>2. QED  BY <1>1, <1>4, <1>5, <2>1 DEF HoldsBest
<1>7. Executing' <=> Executing
  BY DEF Executing, Current
<1>8. run'.state = "COMPLETED" => run'.sealed
  BY <1>4 DEF BestInv, AuditsAreSealed
<1>9. ~run'.sealed => Executing'
  BY <1>4, <1>7, KnownBest
<1>10. Compares(t)'
  BY <1>6 DEF Compares
<1>11. QED  BY <1>3, <1>4, <1>8, <1>9, <1>10, MoveBest

LEMMA AcceptBaselineBest ==
  ASSUME ArtifactInv, ArtifactInv', BestInv, NEW t \in DOMAIN tasks, AcceptBaseline(t)
  PROVE  BestStep
<1> DEFINE a    == tasks[t].a
           best == IF KeyOf(a, assessments) # 0 THEN a ELSE run.incumbent
<1>1. Alive(t) /\ tasks[t].at = "baseline"
  BY DEF AcceptBaseline, At, Alive
<1>2. /\ TypeOK /\ StepFits(t) /\ AssessmentFits(t) /\ run \in RunRow
      /\ BestTables(run, assessments, candidates)
  BY <1>1, Known, KnownBest, Rows
<1>3. Searches(t) /\ a \in CompleteOnline(assessments) /\ a \in Nat \ {0}
  BY <1>1, <1>2, Rows DEF StepFits, SharedSteps, AuditSteps, AssessmentFits, CompleteOnline
<1>4. Compares(t)
  BY <1>1, <1>3, KnownBest
<1>5. run.baseline = 0 /\ tasks[t].c = 0 /\ assessments[a].of = 0 /\ run.incumbent = 0
  BY <1>1, <1>2, <1>4 DEF Compares, ComparesBaseline, BestTables, BaselineFits
<1>6. Holds(t, "loop", tasks[t].c, tasks[t].a, tasks[t].parent, tasks[t].left,
            tasks[t].verdict, tasks[t].why)
  BY <1>2, WritesAt DEF AcceptBaseline, Places, Goto
<1>7. run' = [run EXCEPT !.baseline = a, !.incumbent = best]
  BY DEF AcceptBaseline, TakeBaseline
<1>8. best \in {0, a}
  BY <1>5
<1>9. KeyOf(a, assessments) \in Nat /\ KeyOf(0, assessments) = 0
  BY <1>2, <1>3, Rows, KeyIs DEF CompleteOnline, KeyOf
<1>10. KeyOf(a, assessments) = 0 => best = 0
  BY <1>5
<1>11. KeyOf(a, assessments) # 0 => best = a
  OBVIOUS
<1> HIDE DEF best
<1>12. /\ run'.sealed = run.sealed /\ run'.incumbent = best /\ run'.baseline = a
       /\ run'.state = run.state /\ run'.round = run.round
  BY <1>2, <1>7 DEF RunRow
<1>13. Beaten(a, run', assessments)
  BY <1>9, <1>10, <1>11, <1>12 DEF Beaten
<1>14. Improves(run, run', assessments)
  <2>1. KeyOf(run.incumbent, assessments) <= KeyOf(best, assessments)
    BY <1>5, <1>8, <1>9
  <2>2. best \in DOMAIN assessments \cup {0}
    BY <1>3, <1>8 DEF CompleteOnline
  <2>3. QED  BY <1>3, <1>5, <1>12, <1>13, <2>1, <2>2 DEF Improves
<1>15. ComparesBaseline(t)' /\ ComparesParent(t)' /\ ComparesNew(t)' /\ ComparesAssessed(t)'
  BY <1>6 DEF ComparesBaseline, ComparesParent, NeedsParent, ComparesNew, ComparesAssessed,
     BeforeIts, Holds, Requesting, Assessing
<1>16. QED  BY <1>1, <1>3, <1>6, <1>12, <1>13, <1>14, <1>15, AcceptMove DEF AcceptBaseline, Holds

LEMMA CompareBest ==
  ASSUME ArtifactInv, ArtifactInv', BestInv, NEW t \in DOMAIN tasks, Compare(t)
  PROVE  BestStep
<1> DEFINE a == tasks[t].a
<1>1. Alive(t) /\ tasks[t].at = "compare"
  BY DEF Compare, At, Alive
<1>2. /\ TypeOK /\ SealFits /\ StepFits(t) /\ AssessmentFits(t) /\ BaselineIsKnown(t)
      /\ run \in RunRow /\ BestTables(run, assessments, candidates)
  BY <1>1, Known, KnownBest, Rows DEF ArtifactInv
<1>3. Searches(t) /\ run.baseline # 0
  BY <1>1, <1>2 DEF StepFits, SharedSteps, AuditSteps, BaselineIsKnown, AfterBaseline, SearchSteps
<1>4. a \in CompleteOnline(assessments) /\ a \in DOMAIN assessments /\ a \in Nat \ {0}
  BY <1>1, <1>2, Rows DEF AssessmentFits, CompleteOnline
<1>5. Compares(t)
  BY <1>1, <1>3, KnownBest
<1>6. tasks[t].parent = Parent(run)
  BY <1>1, <1>5 DEF Compares, ComparesParent, NeedsParent
<1>7. Holds(t, "finish", tasks[t].c, a, tasks[t].parent, tasks[t].left, "COMPLETE",
            tasks[t].why)
  BY <1>2, WritesAtVerdict DEF Compare, Places, Verdicts, CandidateStates
<1>8. /\ run.incumbent \in DOMAIN assessments \cup {0}
      /\ run.baseline \in DOMAIN assessments
  BY <1>2, <1>3 DEF SealFits, CompleteOnline, BestTables, BaselineFits
<1>9. \A b \in DOMAIN assessments \cup {0} : KeyOf(b, assessments) \in Nat
  BY <1>2, KeyIs, Rows
<1>10. KeyOf(0, assessments) = 0
  BY DEF KeyOf
<1> DEFINE ka == KeyOf(a, assessments)
           kp == KeyOf(tasks[t].parent, assessments)
           ki == KeyOf(run.incumbent, assessments)
<1>11. ka \in Nat /\ ki \in Nat /\ kp \in Nat
  BY <1>4, <1>6, <1>8, <1>9 DEF Parent
<1>12. run.incumbent # 0 => kp = ki
  BY <1>6 DEF Parent
<1>13. run.incumbent = 0 => ki = 0 /\ (~run.sealed => kp <= ki)
  BY <1>2, <1>3, <1>6, <1>10 DEF Parent, BestTables, BestKnown, Beaten
<1>14. CASE Accepts(tasks[t].parent, a, assessments)
  <2>1. run' = [run EXCEPT !.incumbent = a] /\ ka > kp
    BY <1>14 DEF Compare, Accepts
  <2>2. /\ run'.sealed = run.sealed /\ run'.incumbent = a /\ run'.baseline = run.baseline
        /\ run'.state = run.state /\ run'.round = run.round
    BY <1>2, <2>1 DEF RunRow
  <2>3. ki <= ka
    <3> HIDE DEF ka, kp, ki
    <3>1. QED  BY <1>11, <1>12, <1>13, <2>1
  <2>4. Improves(run, run', assessments)
    BY <1>3, <1>4, <2>2, <2>3 DEF Improves
  <2>5. Beaten(a, run', assessments)
    BY <1>11, <2>2 DEF Beaten
  <2>6. ComparesBaseline(t)' /\ ComparesParent(t)' /\ ComparesNew(t)' /\ ComparesAssessed(t)'
    BY <1>1, <1>5, <1>7 DEF Compare, Compares, ComparesBaseline, ComparesParent, NeedsParent,
       ComparesNew, ComparesAssessed, BeforeIts, Holds, Requesting, Assessing, AllCompleteOf, Online
  <2>7. QED  BY <1>1, <1>3, <1>7, <2>2, <2>4, <2>5, <2>6, AcceptMove DEF Compare, Holds
<1>15. CASE ~Accepts(tasks[t].parent, a, assessments)
  <2>1. run' = run /\ ka <= kp
    BY <1>11, <1>15 DEF Compare, Accepts
  <2>2. ~run.sealed => ka <= ki
    <3> HIDE DEF ka, kp, ki
    <3>1. QED  BY <1>11, <1>12, <1>13, <2>1
  <2>3. Improves(run, run', assessments)
    <3>1. KeyOf(run.incumbent, assessments) <= KeyOf(run'.incumbent, assessments)
      BY <1>11, <2>1
    <3>2. QED  BY <1>3, <1>8, <2>1, <3>1 DEF Improves
  <2>4. ~run.sealed => Beaten(a, run', assessments)
    BY <2>1, <2>2 DEF Beaten
  <2>5. ComparesBaseline(t)' /\ ComparesParent(t)' /\ ComparesNew(t)' /\ ComparesAssessed(t)'
    BY <1>1, <1>5, <1>7 DEF Compare, Compares, ComparesBaseline, ComparesParent, NeedsParent,
       ComparesNew, ComparesAssessed, BeforeIts, Holds, Requesting, Assessing, AllCompleteOf, Online
  <2>6. QED  BY <1>1, <1>3, <1>7, <2>1, <2>3, <2>4, <2>5, AcceptMove DEF Compare, Holds
<1>16. QED  BY <1>14, <1>15

LEMMA FinishCandidateBest ==
  ASSUME ArtifactInv, ArtifactInv', BestInv, NEW t \in DOMAIN tasks, FinishCandidate(t)
  PROVE  BestStep
<1> DEFINE c    == tasks[t].c
           next == IF tasks[t].why = "none" THEN "loop" ELSE "close"
           row  == [candidates[c] EXCEPT !.state = tasks[t].verdict]
<1>1. /\ Alive(t) /\ tasks[t].at = "finish" /\ UNCHANGED <<run, rounds, assessments>>
  BY DEF FinishCandidate, At, Alive
<1>2. /\ TypeOK /\ SealFits /\ StepFits(t) /\ RequestFits(t)
      /\ BestTables(run, assessments, candidates)
  BY <1>1, Known, KnownBest DEF ArtifactInv
<1>3. Searches(t)
  BY <1>1, <1>2 DEF StepFits, SharedSteps, AuditSteps
<1>4. c \in DOMAIN candidates /\ tasks[t].verdict \in CandidateStates
  BY <1>1, <1>2 DEF RequestFits, OfCandidate
<1>5. Compares(t) /\ (~run.sealed => AllBeaten)
  BY <1>1, <1>3, KnownBest, HoldsNothing
<1>6. /\ next \in Places /\ next \in {"loop", "close"}
      /\ tasks' = [tasks EXCEPT ![t].at = next, ![t].c = 0, ![t].a = 0, ![t].verdict = "none"]
  BY DEF FinishCandidate, Places
<1> HIDE DEF next
<1>7. "none" \in Verdicts
  BY DEF Verdicts, Exits
<1>8. Holds(t, next, 0, 0, tasks[t].parent, tasks[t].left, "none", tasks[t].why)
  BY <1>2, <1>6, <1>7, WritesAtCAVerdict
<1>9. row \in CandidateRow /\ row.state = tasks[t].verdict /\ row.reuse = candidates[c].reuse
  <2>1. candidates[c] \in CandidateRow
    BY <1>2, <1>4, Rows
  <2>2. QED  BY <1>4, <2>1 DEF CandidateRow
<1>10. candidates' = [candidates EXCEPT ![c] = row] /\ candidates \in Seq(CandidateRow)
  BY <1>2, Rows DEF FinishCandidate
<1> HIDE DEF row
<1>11. /\ DOMAIN candidates' = DOMAIN candidates
       /\ \A d \in DOMAIN candidates : candidates'[d] = IF d = c THEN row ELSE candidates[d]
  BY <1>9, <1>10, RowReplaced
<1>12. ~run.sealed /\ row.state = "COMPLETE" => AcceptedOf(c, run, assessments)
  <2>1. row.state = "COMPLETE" => AllCompleteOf(c)
    BY <1>1, <1>5, <1>9 DEF Compares, ComparesAssessed
  <2>2. QED  BY <1>5, <2>1 DEF AllCompleteOf, AllBeaten, AcceptedOf, Accepted, Online,
                CompleteOnline
<1>13. Completes(candidates, candidates', run, assessments)
  BY <1>9, <1>11, <1>12 DEF Completes
<1>14. run.incumbent \in DOMAIN assessments \cup {0} /\ assessments \in Seq(AssessmentRow)
  BY <1>2, Rows DEF SealFits, CompleteOnline
<1>15. Improves(run, run, assessments)
  BY <1>2, <1>14, IncumbentKey DEF Improves, BestTables, BaselineFits
<1>16. BestTables(run', assessments', candidates')
  BY <1>1, <1>2, <1>13, <1>14, <1>15, AcceptBest
<1>17. NotWorse
  BY <1>1, <1>2, SameKeysNotWorse
<1>18. Compares(t)'
  <2>1. ComparesBaseline(t)' /\ ComparesParent(t)' /\ ComparesNew(t)' /\ ComparesAssessed(t)'
    BY <1>6, <1>8 DEF ComparesBaseline, ComparesParent, NeedsParent, ComparesNew,
       ComparesAssessed, BeforeIts, Holds, Requesting, Assessing
  <2>2. HoldsBest(t)'
    BY <1>1, <1>5 DEF HoldsBest, AllBeaten
  <2>3. QED  BY <2>1, <2>2 DEF Compares
<1>19. QED  BY <1>1, <1>8, <1>16, <1>17, <1>18, LedgerMove DEF Holds

(* The last step of a runner: it may seal, and has nothing left to accept. *)
LEMMA LastMove ==
  ASSUME ArtifactInv, ArtifactInv', BestInv, NEW t \in DOMAIN tasks, Alive(t), Moved(t),
         UNCHANGED <<candidates, assessments>>, SameBest(run, run'),
         tasks[t].at \notin {"baseline", "compare"}, tasks'[t].at \in {"done", "failed"},
         run'.state = "COMPLETED" => run'.sealed
  PROVE  BestStep
<1>1. TypeOK /\ SealFits /\ BestTables(run, assessments, candidates)
  BY KnownBest DEF ArtifactInv
<1>2. run.incumbent \in DOMAIN assessments \cup {0}
  BY <1>1 DEF SealFits, CompleteOnline
<1>3. BestTables(run', assessments', candidates')
  <2>1. SameRecords(assessments, assessments') /\ SameOutcomes(candidates, candidates')
    BY DEF SameRecords, SameRecord, SameOutcomes, SameOutcome
  <2>2. QED  BY <1>1, <1>2, <2>1, BestTablesKept
<1>4. NotWorse
  BY <1>1, SameKeysNotWorse DEF SameBest
<1>5. Searches(t) /\ ~run.sealed => AllBeaten
  BY HoldsNothing
<1>6. ~Searches(t) => run.sealed
  BY KnownBest
<1>7. SealsBest
  BY <1>5, <1>6 DEF SealsBest, AllBeaten, Beaten, SameBest
<1>8. Searches(t) => Compares(t)'
  <2>1. ComparesBaseline(t)' /\ ComparesParent(t)' /\ ComparesNew(t)' /\ ComparesAssessed(t)'
    BY DEF ComparesBaseline, ComparesParent, NeedsParent, ComparesNew, ComparesAssessed,
       BeforeIts, Requesting, Assessing
  <2>2. Searches(t) => HoldsBest(t)'
    BY <1>5 DEF HoldsBest, AllBeaten, Beaten, SameBest
  <2>3. QED  BY <2>1, <2>2 DEF Compares
<1>9. QED  BY <1>3, <1>4, <1>7, <1>8, MoveBest DEF SameBest

LEMMA SealIsSame ==
  ASSUME TypeOK, SealFits, NEW why \in Reasons
  PROVE  /\ SameBest(run, Seal(run, assessments, why))
         /\ Seal(run, assessments, why).sealed
<1>1. CASE run.sealed
  BY <1>1 DEF Seal, SameBest
<1>2. CASE ~run.sealed
  BY <1>2, SealSeals, Rows DEF SameBest, SealFits
<1>3. QED  BY <1>1, <1>2

LEMMA CloseRoundBest ==
  ASSUME ArtifactInv, ArtifactInv', BestInv, NEW t \in DOMAIN tasks, CloseRound(t)
  PROVE  BestStep
<1> DEFINE stop    == tasks[t].why # "none" \/ Exhausted
           why     == IF tasks[t].why # "none" THEN tasks[t].why ELSE "GENERATION_BUDGET"
           sealing == run.state = "SEARCHING" /\ stop
<1>1. Alive(t) /\ tasks[t].at = "close"
  BY DEF CloseRound, At, Alive
<1>2. tasks[t] \in TaskRow /\ TypeOK /\ SealFits
  BY <1>1, Known DEF ArtifactInv
<1>3. Holds(t, "done", tasks[t].c, tasks[t].a, tasks[t].parent, tasks[t].left,
            tasks[t].verdict, tasks[t].why)
  BY <1>2, WritesAt DEF CloseRound, Places, Goto
<1>4. why \in Reasons
  BY <1>2 DEF TaskRow, Reasons
<1>5. run' = IF sealing THEN Seal(run, assessments, why) ELSE run
  BY DEF CloseRound
<1> HIDE DEF why, sealing
<1>6. SameBest(run, run')
  BY <1>2, <1>4, <1>5, SealIsSame DEF SameBest
<1>7. run'.state = "COMPLETED" => run'.sealed
  BY <1>2, <1>4, <1>5, SealIsSame DEF BestInv, AuditsAreSealed
<1>8. QED  BY <1>1, <1>3, <1>6, <1>7, LastMove DEF CloseRound, Holds

LEMMA ExceptBest ==
  ASSUME ArtifactInv, ArtifactInv', BestInv, NEW t \in DOMAIN tasks, Except(t)
  PROVE  BestStep
<1>1. Alive(t) /\ tasks[t].at = "raise"
  BY DEF Except, At, Alive
<1>2. tasks[t] \in TaskRow /\ TypeOK /\ SealFits /\ run \in RunRow
  BY <1>1, Known, Rows DEF ArtifactInv
<1>3. Holds(t, "failed", tasks[t].c, tasks[t].a, tasks[t].parent, tasks[t].left,
            tasks[t].verdict, tasks[t].why)
  BY <1>2, WritesAt DEF Except, Places, Goto
<1>4. "ONLINE_OUTCOME_UNKNOWN" \in Reasons
  BY DEF Reasons, Causes
<1>5. \/ run' = run
      \/ run' = Seal(run, assessments, "ONLINE_OUTCOME_UNKNOWN")
      \/ run' = [run EXCEPT !.state = "FAILED", !.reason = tasks[t].why]
  BY DEF Except
<1>6. SameBest(run, run') /\ (run'.state = "COMPLETED" => run'.sealed)
  <2>1. CASE run' = run
    BY <2>1 DEF SameBest, BestInv, AuditsAreSealed
  <2>2. CASE run' = Seal(run, assessments, "ONLINE_OUTCOME_UNKNOWN")
    BY <1>2, <1>4, <2>2, SealIsSame
  <2>3. CASE run' = [run EXCEPT !.state = "FAILED", !.reason = tasks[t].why]
    BY <1>2, <2>3 DEF SameBest, RunRow
  <2>4. QED  BY <1>5, <2>1, <2>2, <2>3
<1>7. QED  BY <1>1, <1>3, <1>6, LastMove DEF Except, Holds

LEMMA ConcludeBest ==
  ASSUME ArtifactInv, ArtifactInv', BestInv, NEW t \in DOMAIN tasks, Conclude(t)
  PROVE  BestStep
<1>1. Alive(t) /\ tasks[t].at = "conclude"
  BY DEF Conclude, At, Alive
<1>2. tasks[t] \in TaskRow /\ TypeOK /\ SealFits /\ run \in RunRow /\ StepFits(t)
  BY <1>1, Known, Rows DEF ArtifactInv
<1>3. ~Searches(t) /\ run.sealed
  BY <1>1, <1>2, KnownBest DEF StepFits, SharedSteps, SearchSteps
<1>4. CASE Raise(t, "summary") /\ UNCHANGED run
  <2>1. "summary" \in Causes
    BY DEF Causes
  <2>2. QED  BY <1>1, <1>4, <2>1, RaiseBest, SameTablesAreQuiet DEF Conclude
<1>5. CASE /\ run' = [run EXCEPT !.state = "COMPLETED", !.final = Selected, !.summary = Summary]
           /\ Goto(t, "done")
  <2>1. Holds(t, "done", tasks[t].c, tasks[t].a, tasks[t].parent, tasks[t].left,
              tasks[t].verdict, tasks[t].why)
    BY <1>2, <1>5, WritesAt DEF Places, Goto
  <2>2. SameBest(run, run') /\ run'.sealed
    BY <1>2, <1>3, <1>5 DEF SameBest, RunRow
  <2>3. QED  BY <1>1, <2>1, <2>2, LastMove DEF Conclude, Holds
<1>6. QED  BY <1>4, <1>5 DEF Conclude

-----------------------------------------------------------------------------
(* Steps beside the runner, and its end                                    *)

LEMMA SameTaskIsQuiet ==
  ASSUME DOMAIN tasks' = DOMAIN tasks, NEW t \in DOMAIN tasks, tasks'[t] = tasks[t]
  PROVE  TaskIsQuiet(t)
  BY DEF TaskIsQuiet, Alive, Searches, Active, Abandoned

(* A step that changes the task of t, alone.                               *)
LEMMA OneQuietTask ==
  ASSUME ArtifactInv, BestInv, QuietTables, run'.round = run.round, UNCHANGED rounds,
         run'.state = "SEARCHING" => run.state = "SEARCHING",
         run'.state = "COMPLETED" => run.state = "COMPLETED",
         NEW t \in DOMAIN tasks, Replaced(t), TaskIsQuiet(t)
  PROVE  BestStep
<1>1. \A u \in DOMAIN tasks : TaskIsQuiet(u)
  BY SameTaskIsQuiet DEF Replaced
<1>2. QED  BY <1>1, QuietTasks DEF Replaced

(* A step that changes no task.                                            *)
LEMMA NoTaskBest ==
  ASSUME ArtifactInv, BestInv, QuietTables, run'.round = run.round, UNCHANGED <<rounds, tasks>>,
         run'.state = "SEARCHING" => run.state = "SEARCHING",
         run'.state = "COMPLETED" => run.state = "COMPLETED"
  PROVE  BestStep
<1>1. \A t \in DOMAIN tasks : TaskIsQuiet(t)
  BY SameTaskIsQuiet
<1>2. QED  BY <1>1, QuietTasks

(* A step of the launcher or the watchdog of t.                            *)
LEMMA BesideBest ==
  ASSUME ArtifactInv, BestInv, UNCHANGED <<run, rounds, candidates, assessments>>,
         NEW t \in DOMAIN tasks, NEW row \in TaskRow, tasks' = [tasks EXCEPT ![t] = row],
         row.purpose = tasks[t].purpose, row.state = tasks[t].state, row.pid = tasks[t].pid,
         row.at = tasks[t].at, row.c = tasks[t].c, row.a = tasks[t].a,
         row.parent = tasks[t].parent, row.verdict = tasks[t].verdict,
         \/ row.runner = tasks[t].runner
         \/ tasks[t].runner = "none" /\ row.runner = "spawned"
  PROVE  BestStep
<1>1. TypeOK
  BY DEF ArtifactInv
<1>2. Replaced(t) /\ tasks'[t] = row
  BY <1>1, ReplacedIs
<1>3. /\ (Alive(t)' <=> Alive(t)) /\ (t \in Active' <=> t \in Active)
      /\ (Abandoned(t) => Abandoned(t)') /\ (tasks'[t].runner # "gone" <=> tasks[t].runner # "gone")
  BY <1>2 DEF Alive, Active, Abandoned, Searches, Replaced
<1>4. TaskIsQuiet(t)
  BY <1>2, <1>3 DEF TaskIsQuiet
<1>5. QED  BY <1>2, <1>4, OneQuietTask, SameTablesAreQuiet

LEMMA LauncherBest ==
  ASSUME ArtifactInv, BestInv, NEW t \in DOMAIN tasks, Launcher(t) \/ LauncherDies(t)
  PROVE  BestStep
<1>1. /\ tasks[t] \in TaskRow /\ TypeOK
      /\ UNCHANGED <<run, rounds, candidates, assessments>>
  BY Rows DEF ArtifactInv, Launcher, SpawnRunner, SpawnWatchdog, LauncherDies
<1>2. RunnerOfActive(t)
  BY DEF ArtifactInv, ProcessInv
<1>3. CASE SpawnRunner(t)
  <2> DEFINE row == [tasks[t] EXCEPT !.launch = "half", !.runner = "spawned"]
  <2>1. tasks' = [tasks EXCEPT ![t] = row] /\ tasks[t].launch = "committed"
    BY <1>3 DEF SpawnRunner
  <2>2. row \in TaskRow
    BY <1>1 DEF TaskRow
  <2>3. /\ row.purpose = tasks[t].purpose /\ row.state = tasks[t].state /\ row.pid = tasks[t].pid
        /\ row.at = tasks[t].at /\ row.c = tasks[t].c /\ row.a = tasks[t].a
        /\ row.parent = tasks[t].parent /\ row.verdict = tasks[t].verdict
        /\ row.runner = "spawned"
    BY <1>1 DEF TaskRow
  <2> HIDE DEF row
  <2>4. tasks[t].runner = "none"
    BY <1>2, <2>1 DEF RunnerOfActive
  <2>5. QED  BY <1>1, <2>1, <2>2, <2>3, <2>4, BesideBest
<1>4. CASE SpawnWatchdog(t)
  <2> DEFINE row == [tasks[t] EXCEPT !.launch = "done", !.watchdog = "watching"]
  <2>1. tasks' = [tasks EXCEPT ![t] = row]
    BY <1>4 DEF SpawnWatchdog
  <2>2. row \in TaskRow
    BY <1>1 DEF TaskRow
  <2>3. /\ row.purpose = tasks[t].purpose /\ row.state = tasks[t].state /\ row.pid = tasks[t].pid
        /\ row.at = tasks[t].at /\ row.c = tasks[t].c /\ row.a = tasks[t].a
        /\ row.parent = tasks[t].parent /\ row.verdict = tasks[t].verdict
        /\ row.runner = tasks[t].runner
    BY <1>1 DEF TaskRow
  <2> HIDE DEF row
  <2>4. QED  BY <1>1, <2>1, <2>2, <2>3, BesideBest
<1>5. CASE LauncherDies(t)
  <2> DEFINE row == [tasks[t] EXCEPT !.launch = "done"]
  <2>1. tasks' = [tasks EXCEPT ![t] = row]
    BY <1>5 DEF LauncherDies
  <2>2. row \in TaskRow
    BY <1>1 DEF TaskRow
  <2>3. /\ row.purpose = tasks[t].purpose /\ row.state = tasks[t].state /\ row.pid = tasks[t].pid
        /\ row.at = tasks[t].at /\ row.c = tasks[t].c /\ row.a = tasks[t].a
        /\ row.parent = tasks[t].parent /\ row.verdict = tasks[t].verdict
        /\ row.runner = tasks[t].runner
    BY <1>1 DEF TaskRow
  <2> HIDE DEF row
  <2>4. QED  BY <1>1, <2>1, <2>2, <2>3, BesideBest
<1>6. QED  BY <1>3, <1>4, <1>5 DEF Launcher

(* The watchdog leaves, or fires, or finds nothing to close.               *)
LEMMA WatchBest ==
  ASSUME ArtifactInv, BestInv, NEW t \in DOMAIN tasks,
         \/ WatchdogLeaves(t) \/ WatchdogFires(t)
         \/ WatchdogTo(t, "gone") /\ UNCHANGED <<run, rounds, candidates, assessments>>
  PROVE  BestStep
<1>1. /\ tasks[t] \in TaskRow /\ TypeOK
      /\ UNCHANGED <<run, rounds, candidates, assessments>>
  BY Rows DEF ArtifactInv, WatchdogLeaves, WatchdogFires
<1>2. CASE WatchdogTo(t, "gone")
  <2> DEFINE row == [tasks[t] EXCEPT !.watchdog = "gone"]
  <2>1. tasks' = [tasks EXCEPT ![t] = row]
    BY <1>2 DEF WatchdogTo
  <2>2. row \in TaskRow
    BY <1>1 DEF TaskRow
  <2>3. /\ row.purpose = tasks[t].purpose /\ row.state = tasks[t].state /\ row.pid = tasks[t].pid
        /\ row.at = tasks[t].at /\ row.c = tasks[t].c /\ row.a = tasks[t].a
        /\ row.parent = tasks[t].parent /\ row.verdict = tasks[t].verdict
        /\ row.runner = tasks[t].runner
    BY <1>1 DEF TaskRow
  <2> HIDE DEF row
  <2>4. QED  BY <1>1, <2>1, <2>2, <2>3, BesideBest
<1>3. CASE WatchdogFires(t)
  <2> DEFINE row == [tasks[t] EXCEPT !.watchdog = "firing", !.seen = tasks[t].pid]
  <2>1. tasks' = [tasks EXCEPT ![t] = row]
    BY <1>3 DEF WatchdogFires
  <2>2. row \in TaskRow
    BY <1>1 DEF TaskRow
  <2>3. /\ row.purpose = tasks[t].purpose /\ row.state = tasks[t].state /\ row.pid = tasks[t].pid
        /\ row.at = tasks[t].at /\ row.c = tasks[t].c /\ row.a = tasks[t].a
        /\ row.parent = tasks[t].parent /\ row.verdict = tasks[t].verdict
        /\ row.runner = tasks[t].runner
    BY <1>1 DEF TaskRow
  <2> HIDE DEF row
  <2>4. QED  BY <1>1, <2>1, <2>2, <2>3, BesideBest
<1>4. QED  BY <1>2, <1>3 DEF WatchdogLeaves

(* The runner of t ends, in order or not.                                  *)
LEMMA EndOfRunnerBest ==
  ASSUME ArtifactInv, BestInv, QuietTables, run'.round = run.round, UNCHANGED rounds,
         run'.state = run.state, NEW t \in DOMAIN tasks, Replaced(t),
         tasks[t].runner \in {"spawned", "alive"},
         tasks'[t].runner = "gone", tasks'[t].pid = tasks[t].pid,
         \/ tasks'[t].state = tasks[t].state
         \/ /\ tasks'[t].state \notin {"STARTING", "RUNNING"}
            /\ Alive(t) => tasks[t].at \in {"done", "failed"}
  PROVE  BestStep
<1>1. ~Alive(t)' /\ ~Abandoned(t) /\ (Searches(t)' <=> Searches(t))
      /\ (Alive(t) => t \in Active /\ tasks[t].pid)
  BY OneAlive DEF ArtifactInv, Alive, Abandoned, Searches, Replaced
<1>2. t \in Active' => t \in Active /\ tasks'[t].state = tasks[t].state
  BY DEF Active, Replaced
<1>3. Alive(t) /\ Searches(t) => Abandoned(t)' \/ tasks[t].at \in {"done", "failed"}
  <2>1. CASE tasks'[t].state = tasks[t].state
    <3>1. t \in Active => t \in Active'
      BY <2>1 DEF Active, Replaced
    <3>2. QED  BY <1>1, <3>1 DEF Abandoned
  <2>2. QED  BY <2>1
<1>4. TaskIsQuiet(t)
  BY <1>1, <1>2, <1>3 DEF TaskIsQuiet, Replaced
<1>5. QED  BY <1>4, OneQuietTask

LEMMA DeathBest ==
  ASSUME ArtifactInv, BestInv, QuietTables, run'.round = run.round, UNCHANGED rounds,
         run'.state = run.state, NEW t \in DOMAIN tasks, tasks' = [tasks EXCEPT ![t] = Gone(@)],
         tasks[t].runner \in {"spawned", "alive"}
  PROVE  BestStep
<1>1. tasks[t] \in TaskRow /\ TypeOK
  BY Rows DEF ArtifactInv
<1>2. tasks' = [tasks EXCEPT ![t] = Gone(tasks[t])]
  OBVIOUS
<1>3. Replaced(t) /\ tasks'[t] = Gone(tasks[t])
  BY <1>1, <1>2, GoneIs, ReplacedIs
<1>4. /\ tasks'[t].runner = "gone" /\ tasks'[t].pid = tasks[t].pid
      /\ tasks'[t].state = tasks[t].state
  BY <1>1, <1>3, GoneIs
<1>5. QED  BY <1>3, <1>4, EndOfRunnerBest

LEMMA RunnerDiesBest ==
  ASSUME ArtifactInv, BestInv, NEW t \in DOMAIN tasks, RunnerDies(t) \/ DiesBeforeCommit(t)
  PROVE  BestStep
<1>1. /\ tasks' = [tasks EXCEPT ![t] = Gone(@)] /\ tasks[t].runner \in {"spawned", "alive"}
      /\ UNCHANGED <<rounds, candidates, assessments>>
      /\ run' = run \/ run' = [run EXCEPT !.summary = Summary]
  BY DEF RunnerDies, DiesBeforeCommit, At
<1>2. run \in RunRow
  BY Rows DEF ArtifactInv
<1>3. /\ run'.sealed = run.sealed /\ run'.incumbent = run.incumbent /\ run'.state = run.state
      /\ run'.baseline = run.baseline /\ run'.round = run.round
  BY <1>1, <1>2 DEF RunRow
<1>4. QuietTables
  BY <1>1, <1>3 DEF QuietTables, SameRecords, SameRecord, SameOutcomes, SameOutcome
<1>5. QED  BY <1>1, <1>3, <1>4, DeathBest

LEMMA EndBest ==
  ASSUME ArtifactInv, BestInv, NEW t \in DOMAIN tasks, End(t)
  PROVE  BestStep
<1> DEFINE next  == IF tasks[t].at = "done" THEN "COMPLETE" ELSE "FAILED"
           ended == [tasks[t] EXCEPT !.state = next]
<1>1. /\ tasks[t] \in TaskRow /\ TypeOK
      /\ UNCHANGED <<run, rounds, candidates, assessments>>
      /\ tasks[t].runner = "alive" /\ tasks[t].at \in {"done", "failed"}
  BY Rows DEF ArtifactInv, End, At
<1>2. tasks' = [tasks EXCEPT ![t] = Gone(ended)]
  BY DEF End
<1>3. /\ ended \in TaskRow /\ ended.state \in {"COMPLETE", "FAILED"}
      /\ ended.purpose = tasks[t].purpose /\ ended.pid = tasks[t].pid
  BY <1>1 DEF TaskRow
<1> HIDE DEF ended
<1>4. Gone(ended) \in TaskRow /\ Gone(ended).purpose = tasks[t].purpose
  BY <1>3, GoneIs
<1>5. Replaced(t) /\ tasks'[t] = Gone(ended)
  BY <1>1, <1>2, <1>4, ReplacedIs
<1>6. /\ tasks'[t].runner = "gone" /\ tasks'[t].pid = tasks[t].pid
      /\ tasks'[t].state \notin {"STARTING", "RUNNING"}
  BY <1>3, <1>5, GoneIs
<1>7. QED  BY <1>1, <1>5, <1>6, SameTablesAreQuiet, EndOfRunnerBest

(* Without a watchdog that cannot be started, only a runner cannot be.     *)
LEMMA LaunchFailsBest ==
  ASSUME ArtifactInv, BestInv, "watchdog" \notin Kinds, NEW t \in DOMAIN tasks, LaunchFails(t)
  PROVE  BestStep
<1> DEFINE row == [tasks[t] EXCEPT !.launch = "done", !.state = "FAILED"]
<1>1. /\ TypeOK /\ tasks[t] \in TaskRow /\ run \in RunRow /\ tasks[t].launch = "committed"
      /\ UNCHANGED <<rounds, candidates, assessments>>
  BY Rows DEF ArtifactInv, LaunchFails, SpawnFails, Fault
<1>2. tasks[t].runner = "none"
  BY <1>1 DEF ArtifactInv, ProcessInv, RunnerOfActive
<1>3. tasks' = [tasks EXCEPT ![t] = row]
  BY DEF LaunchFails, SpawnFails
<1>4. /\ row \in TaskRow /\ row.purpose = tasks[t].purpose /\ row.state = "FAILED"
      /\ row.runner = tasks[t].runner
  BY <1>1 DEF TaskRow
<1> HIDE DEF row
<1>5. Replaced(t) /\ tasks'[t] = row
  BY <1>1, <1>3, <1>4, ReplacedIs
<1>6. run' = [run EXCEPT !.state = "FAILED", !.reason = "WORKER_START_FAILED"]
  BY DEF LaunchFails, SpawnFails
<1>7. /\ run'.sealed = run.sealed /\ run'.incumbent = run.incumbent /\ run'.state = "FAILED"
      /\ run'.baseline = run.baseline /\ run'.round = run.round
  BY <1>1, <1>6 DEF RunRow
<1>8. QuietTables
  BY <1>1, <1>7 DEF QuietTables, SameRecords, SameRecord, SameOutcomes, SameOutcome
<1>9. TaskIsQuiet(t)
  BY <1>2, <1>4, <1>5 DEF TaskIsQuiet, Alive, Active, Abandoned, Replaced
<1>10. QED  BY <1>1, <1>5, <1>7, <1>8, <1>9, OneQuietTask

-----------------------------------------------------------------------------
(* Kills, children and the start of a runner                               *)

(* A worker is killed, or a provider.                                      *)
LEMMA KilledIsSame ==
  ASSUME TypeOK
  PROVE  /\ \A a \in DOMAIN assessments :
              SameRecord(assessments[a], [assessments[a] EXCEPT !.worker = "gone"])
         /\ \A c \in DOMAIN candidates :
              SameOutcome(candidates[c], [candidates[c] EXCEPT !.provider = "gone"])
<1>1. \A a \in DOMAIN assessments : assessments[a] \in AssessmentRow
  BY Rows
<1>2. \A c \in DOMAIN candidates : candidates[c] \in CandidateRow
  BY Rows
<1>3. \A a \in DOMAIN assessments :
         SameRecord(assessments[a], [assessments[a] EXCEPT !.worker = "gone"])
  BY <1>1 DEF AssessmentRow, SameRecord, Told
<1>4. \A c \in DOMAIN candidates :
         SameOutcome(candidates[c], [candidates[c] EXCEPT !.provider = "gone"])
  BY <1>2 DEF CandidateRow, SameOutcome
<1>5. QED  BY <1>3, <1>4

LEMMA KillsAreQuiet ==
  ASSUME TypeOK, UNCHANGED run, NEW S, assessments' = KillWorkers(S),
         candidates' = KillProviders(S)
  PROVE  QuietTables
<1>1. /\ DOMAIN assessments' = DOMAIN assessments
      /\ \A a \in DOMAIN assessments :
           assessments'[a] = assessments[a]
           \/ assessments'[a] = [assessments[a] EXCEPT !.worker = "gone"]
  BY DEF KillWorkers
<1>2. /\ DOMAIN candidates' = DOMAIN candidates
      /\ \A c \in DOMAIN candidates :
           candidates'[c] = candidates[c]
           \/ candidates'[c] = [candidates[c] EXCEPT !.provider = "gone"]
  BY DEF KillProviders
<1>3. ASSUME NEW a \in DOMAIN assessments PROVE SameRecord(assessments[a], assessments'[a])
  <2>1. CASE assessments'[a] = assessments[a]
    BY <2>1 DEF SameRecord
  <2>2. CASE assessments'[a] = [assessments[a] EXCEPT !.worker = "gone"]
    BY <2>2, KilledIsSame
  <2>3. QED  BY <1>1, <2>1, <2>2
<1>4. ASSUME NEW c \in DOMAIN candidates PROVE SameOutcome(candidates[c], candidates'[c])
  <2>1. CASE candidates'[c] = candidates[c]
    BY <2>1 DEF SameOutcome
  <2>2. CASE candidates'[c] = [candidates[c] EXCEPT !.provider = "gone"]
    BY <2>2, KilledIsSame
  <2>3. QED  BY <1>2, <2>1, <2>2
<1>5. QED  BY <1>1, <1>2, <1>3, <1>4 DEF QuietTables, SameRecords, SameOutcomes

(* A runner at work is killed, its task remains as it is.                  *)
LEMMA KilledTask ==
  ASSUME ArtifactInv, DOMAIN tasks' = DOMAIN tasks, NEW t \in DOMAIN tasks,
         tasks'[t].purpose = tasks[t].purpose, tasks'[t].state = tasks[t].state,
         tasks'[t].pid = tasks[t].pid, tasks'[t].runner \in {tasks[t].runner, "gone"},
         ~Alive(t)'
  PROVE  TaskIsQuiet(t)
<1>1. (t \in Active' <=> t \in Active) /\ (Searches(t)' <=> Searches(t))
  BY DEF Active, Searches
<1>2. Alive(t) => t \in Active /\ tasks[t].pid /\ tasks'[t].runner = "gone"
  BY OneAlive DEF ArtifactInv, Alive
<1>3. Abandoned(t) => Abandoned(t)'
  BY <1>1 DEF Abandoned
<1>4. Searches(t) /\ Alive(t) => Abandoned(t)'
  BY <1>1, <1>2 DEF Abandoned
<1>5. QED  BY <1>1, <1>2, <1>3, <1>4 DEF TaskIsQuiet

LEMMA WatchdogKillsBest ==
  ASSUME ArtifactInv, BestInv, NEW t \in DOMAIN tasks, WatchdogKills(t)
  PROVE  BestStep
<1> DEFINE S    == IF tasks[t].seen THEN {t} ELSE {}
           base == IF S # {} /\ Alive(t) THEN Gone(tasks[t]) ELSE tasks[t]
           row  == [base EXCEPT !.watchdog = "killed", !.seen = FALSE]
<1>1. /\ tasks[t] \in TaskRow /\ TypeOK /\ UNCHANGED <<run, rounds>>
      /\ assessments' = KillWorkers(S) /\ candidates' = KillProviders(S)
  BY Rows DEF ArtifactInv, WatchdogKills
<1>2. tasks[t].watchdog = "firing" /\ RunnerOfActive(t) /\ WatchdogIsLate(t)
  BY DEF ArtifactInv, ProcessInv, WatchdogKills
<1>3. tasks' = [tasks EXCEPT ![t] = row]
  BY DEF WatchdogKills, KillRunner, Alive
<1>4. S = {} => ~Alive(t)
  BY <1>2 DEF WatchdogIsLate, RunnerOfActive
<1>5. base \in TaskRow /\ base.purpose = tasks[t].purpose /\ base.state = tasks[t].state
      /\ base.pid = tasks[t].pid
      /\ base.runner = (IF Alive(t) THEN "gone" ELSE tasks[t].runner)
  BY <1>1, <1>4, GoneIs
<1> HIDE DEF base
<1>6. /\ row \in TaskRow /\ row.purpose = base.purpose /\ row.state = base.state
      /\ row.pid = base.pid /\ row.runner = base.runner
  BY <1>5 DEF TaskRow
<1> HIDE DEF row
<1>7. Replaced(t) /\ tasks'[t] = row
  BY <1>1, <1>3, <1>5, <1>6, ReplacedIs
<1>8. ~Alive(t)' /\ tasks'[t].runner \in {tasks[t].runner, "gone"}
  BY <1>5, <1>6, <1>7 DEF Alive
<1>9. TaskIsQuiet(t)
  BY <1>5, <1>6, <1>7, <1>8, KilledTask DEF Replaced
<1> HIDE DEF S
<1>10. QuietTables
  BY <1>1, KillsAreQuiet
<1>11. QED  BY <1>1, <1>7, <1>9, <1>10, OneQuietTask

LEMMA StopKillBest ==
  ASSUME ArtifactInv, BestInv, StopKill
  PROVE  BestStep
<1>1. TypeOK /\ UNCHANGED <<run, rounds>>
  BY DEF ArtifactInv, StopKill
<1>2. CASE UNCHANGED <<tasks, candidates, assessments>>
  BY <1>1, <1>2, SameTablesAreQuiet, NoTaskBest
<1>3. CASE KillGroups(Active)
  <2>1. /\ DOMAIN tasks' = DOMAIN tasks
        /\ \A u \in DOMAIN tasks :
             tasks'[u] = IF u \in Active /\ Alive(u) THEN Gone(tasks[u]) ELSE tasks[u]
    BY <1>3 DEF KillGroups, KillRunner, Alive
  <2>2. ASSUME NEW u \in DOMAIN tasks PROVE TaskIsQuiet(u)
    <3>1. Alive(u) => u \in Active
      BY OneAlive DEF ArtifactInv
    <3>2. tasks[u] \in TaskRow
      BY <1>1, Rows
    <3>3. tasks'[u] = IF Alive(u) THEN Gone(tasks[u]) ELSE tasks[u]
      BY <2>1, <3>1
    <3>4. /\ tasks'[u].purpose = tasks[u].purpose /\ tasks'[u].state = tasks[u].state
          /\ tasks'[u].pid = tasks[u].pid /\ tasks'[u].runner \in {tasks[u].runner, "gone"}
          /\ tasks'[u].runner # "alive"
      BY <3>2, <3>3, GoneIs DEF Alive
    <3>5. QED  BY <2>1, <3>4, KilledTask DEF Alive
  <2>3. QuietTables
    BY <1>1, <1>3, KillsAreQuiet DEF KillGroups
  <2>4. QED  BY <1>1, <2>1, <2>2, <2>3, QuietTasks
<1>4. QED  BY <1>2, <1>3 DEF StopKill

LEMMA RestartBest ==
  ASSUME ArtifactInv, BestInv, Restart
  PROVE  BestStep
<1>1. TypeOK /\ UNCHANGED <<run, rounds>> /\ DOMAIN tasks' = DOMAIN tasks
  BY DEF ArtifactInv, Restart
<1>2. ASSUME NEW u \in DOMAIN tasks PROVE TaskIsQuiet(u)
  <2> DEFINE dead == Gone(tasks[u])
  <2>1. tasks[u] \in TaskRow
    BY <1>1, Rows
  <2>2. /\ dead \in TaskRow /\ dead.purpose = tasks[u].purpose /\ dead.state = tasks[u].state
        /\ dead.pid = tasks[u].pid /\ dead.runner = "gone"
    BY <2>1, GoneIs
  <2>3. tasks'[u] = [dead EXCEPT !.watchdog = "gone", !.launch = "done", !.seen = FALSE]
    BY DEF Restart
  <2> HIDE DEF dead
  <2>4. /\ tasks'[u].purpose = tasks[u].purpose /\ tasks'[u].state = tasks[u].state
        /\ tasks'[u].pid = tasks[u].pid /\ tasks'[u].runner = "gone"
    BY <2>2, <2>3 DEF TaskRow
  <2>5. QED  BY <1>1, <2>4, KilledTask DEF Alive
<1>3. QuietTables
  <2>1. DOMAIN assessments' = DOMAIN assessments /\ DOMAIN candidates' = DOMAIN candidates
    BY DEF Restart
  <2>2. ASSUME NEW a \in DOMAIN assessments PROVE SameRecord(assessments[a], assessments'[a])
    <3>1. assessments[a] \in AssessmentRow
      BY <1>1, Rows
    <3>2. PICK worker \in {"none", "gone"} :
            assessments'[a] = [assessments[a] EXCEPT !.worker = worker]
      BY <3>1 DEF Restart
    <3>3. QED  BY <3>1, <3>2 DEF AssessmentRow, SameRecord, Told
  <2>3. ASSUME NEW c \in DOMAIN candidates PROVE SameOutcome(candidates[c], candidates'[c])
    <3>1. candidates[c] \in CandidateRow
      BY <1>1, Rows
    <3>2. PICK provider \in {candidates[c].provider, "gone"} :
            candidates'[c] = [candidates[c] EXCEPT !.provider = provider]
      BY <3>1 DEF Restart
    <3>3. QED  BY <3>1, <3>2 DEF CandidateRow, SameOutcome
  <2>4. QED  BY <1>1, <2>1, <2>2, <2>3 DEF QuietTables, SameRecords, SameOutcomes
<1>4. QED  BY <1>1, <1>2, <1>3, QuietTasks

LEMMA ExitIsQuiet ==
  ASSUME TypeOK, UNCHANGED <<run, candidates>>, NEW a \in DOMAIN assessments,
         NEW how \in Exits, WorkerExits(a, how), how = "ok" => assessments[a].worker = "written"
  PROVE  QuietTables
<1> DEFINE row == [assessments[a] EXCEPT !.worker = "gone", !.exit = how]
<1>1. assessments[a] \in AssessmentRow
  BY Rows
<1>2. row \in AssessmentRow /\ SameRecord(assessments[a], row)
  BY <1>1 DEF AssessmentRow, SameRecord, Told
<1>3. assessments' = [assessments EXCEPT ![a] = row]
  BY DEF WorkerExits
<1> HIDE DEF row
<1>4. QED  BY <1>2, <1>3, RecordIsQuiet

(* The worker goes on with its effects, or ends in one.                    *)
LEMMA ProfileIsQuiet ==
  ASSUME TypeOK, UNCHANGED <<run, candidates>>, NEW a \in DOMAIN assessments,
         NEW worker \in WorkerStates \ {"written"}, NEW exit \in Exits \ {"ok"},
         NEW effects \in Seq(EffectStates),
         \/ assessments' = [assessments EXCEPT ![a].worker = worker, ![a].effects = effects]
         \/ assessments' = [assessments EXCEPT ![a].worker = worker, ![a].exit = exit,
                                               ![a].effects = effects]
  PROVE  QuietTables
<1>1. assessments[a] \in AssessmentRow
  BY Rows
<1>2. CASE assessments' = [assessments EXCEPT ![a].worker = worker, ![a].effects = effects]
  <2> DEFINE row == [assessments[a] EXCEPT !.worker = worker, !.effects = effects]
  <2>1. row \in AssessmentRow
    BY <1>1 DEF AssessmentRow, WorkerStates
  <2>2. SameRecord(assessments[a], row)
    BY <1>1 DEF AssessmentRow, SameRecord, Told
  <2>3. assessments' = [assessments EXCEPT ![a] = row]
    BY <1>2
  <2> HIDE DEF row
  <2>4. QED  BY <2>1, <2>2, <2>3, RecordIsQuiet
<1>3. CASE assessments' = [assessments EXCEPT ![a].worker = worker, ![a].exit = exit,
                                              ![a].effects = effects]
  <2> DEFINE row == [assessments[a] EXCEPT !.worker = worker, !.exit = exit, !.effects = effects]
  <2>1. row \in AssessmentRow
    BY <1>1 DEF AssessmentRow, WorkerStates
  <2>2. SameRecord(assessments[a], row)
    BY <1>1 DEF AssessmentRow, SameRecord, Told
  <2>3. assessments' = [assessments EXCEPT ![a] = row]
    BY <1>3
  <2> HIDE DEF row
  <2>4. QED  BY <2>1, <2>2, <2>3, RecordIsQuiet
<1>4. QED  BY <1>2, <1>3

LEMMA WorkerBest ==
  ASSUME ArtifactInv, BestInv, NEW a \in DOMAIN assessments, Worker(a) \/ WorkerDies(a)
  PROVE  BestStep
<1> DEFINE i == NextProfile(a)
           Written(effect) == [assessments[a].effects EXCEPT ![i] = effect]
<1>1. TypeOK /\ UNCHANGED <<run, rounds, tasks, candidates>> /\ assessments[a] \in AssessmentRow
  BY Rows DEF ArtifactInv, Worker, WorkerDies
<1>2. ASSUME NEW effect \in {"STARTED", "COMPLETE"} PROVE Written(effect) \in Seq(EffectStates)
  <2>1. assessments[a].effects \in Seq(EffectStates)
    BY <1>1 DEF AssessmentRow
  <2>2. effect \in EffectStates
    BY DEF EffectStates
  <2> HIDE DEF i
  <2>3. QED  BY <2>1, <2>2, RowReplaced
<1>3. ASSUME NEW how \in Exits \ {"ok"}, WorkerExits(a, how) PROVE QuietTables
  BY <1>1, <1>3, ExitIsQuiet
<1>4. {"failed", "timeout", "deadline", "refused", "invalid"} \subseteq Exits \ {"ok"}
  BY DEF Exits
<1>5. QuietTables
  <2>1. CASE WorkerOwns(a)
    <3> DEFINE row == [assessments[a] EXCEPT !.worker = "owned"]
    <3>1. row \in AssessmentRow /\ SameRecord(assessments[a], row)
      BY <1>1 DEF AssessmentRow, SameRecord, Told
    <3>2. assessments' = [assessments EXCEPT ![a] = row]
      BY <2>1 DEF WorkerOwns, WorkerTo
    <3> HIDE DEF row
    <3>3. QED  BY <1>1, <3>1, <3>2, RecordIsQuiet
  <2>2. CASE StartProfile(a)
    <3>1. CASE assessments' = [assessments EXCEPT ![a].worker = "computing",
                                                  ![a].effects[i] = "STARTED"]
      <4>1. assessments' = [assessments EXCEPT ![a].worker = "computing",
                                               ![a].effects = Written("STARTED")]
        BY <3>1
      <4>2. Written("STARTED") \in Seq(EffectStates)
        BY <1>2
      <4> HIDE DEF Written
      <4>3. QED  BY <1>1, <1>4, <4>1, <4>2, ProfileIsQuiet DEF WorkerStates
    <3>2. CASE \E how \in Exits \ {"ok"} : WorkerExits(a, how)
      BY <1>3, <3>2
    <3>3. \A purpose : Refusal(purpose) \in {"deadline", "refused"}
      BY DEF Refusal
    <3>4. QED  BY <1>4, <2>2, <3>1, <3>2, <3>3 DEF StartProfile
  <2>3. CASE FinishProfile(a)
    <3>1. Written("COMPLETE") \in Seq(EffectStates)
      BY <1>2
    <3>2. CASE assessments' = [assessments EXCEPT ![a].worker = "owned",
                                                  ![a].effects[i] = "COMPLETE"]
      <4>1. assessments' = [assessments EXCEPT ![a].worker = "owned",
                                               ![a].effects = Written("COMPLETE")]
        BY <3>2
      <4> HIDE DEF Written
      <4>2. QED  BY <1>1, <1>4, <3>1, <4>1, ProfileIsQuiet DEF WorkerStates
    <3>3. CASE assessments' = [assessments EXCEPT ![a].worker = "gone", ![a].exit = "invalid",
                                                  ![a].effects[i] = "COMPLETE"]
      <4>1. assessments' = [assessments EXCEPT ![a].worker = "gone", ![a].exit = "invalid",
                                               ![a].effects = Written("COMPLETE")]
        BY <3>3
      <4> HIDE DEF Written
      <4>2. QED  BY <1>1, <1>4, <3>1, <4>1, ProfileIsQuiet DEF WorkerStates
    <3>4. CASE \E how \in Exits \ {"ok"} : WorkerExits(a, how)
      BY <1>3, <3>4
    <3>5. QED  BY <1>4, <2>3, <3>2, <3>3, <3>4 DEF FinishProfile
  <2>4. CASE WriteTerminal(a)
    <3> DEFINE row == [assessments[a] EXCEPT !.worker = "written", !.terminal = TRUE]
    <3>1. row \in AssessmentRow /\ SameRecord(assessments[a], row)
      BY <1>1 DEF AssessmentRow, SameRecord, Told
    <3>2. assessments' = [assessments EXCEPT ![a] = row]
      BY <2>4 DEF WriteTerminal
    <3> HIDE DEF row
    <3>3. QED  BY <1>1, <3>1, <3>2, RecordIsQuiet
  <2>5. CASE WorkerEnds(a)
    BY <1>1, <2>5, ExitIsQuiet DEF WorkerEnds, WorkerIs, Exits
  <2>6. CASE WorkerDies(a)
    BY <1>3, <1>4, <2>6 DEF WorkerDies
  <2>7. QED  BY <2>1, <2>2, <2>3, <2>4, <2>5, <2>6 DEF Worker
<1>6. QED  BY <1>1, <1>5, NoTaskBest

LEMMA ProviderBest ==
  ASSUME ArtifactInv, BestInv, NEW c \in DOMAIN candidates, Provider(c)
  PROVE  BestStep
<1>1. TypeOK /\ UNCHANGED <<run, rounds, tasks, assessments>> /\ candidates[c] \in CandidateRow
  BY Rows DEF ArtifactInv, Provider
<1>2. QuietTables
  <2>1. CASE candidates' = [candidates EXCEPT ![c].provider = "owned", ![c].owner = TRUE]
    <3> DEFINE row == [candidates[c] EXCEPT !.provider = "owned", !.owner = TRUE]
    <3>1. row \in CandidateRow /\ SameOutcome(candidates[c], row)
      BY <1>1 DEF CandidateRow, SameOutcome
    <3>2. candidates' = [candidates EXCEPT ![c] = row]
      BY <2>1
    <3> HIDE DEF row
    <3>3. QED  BY <1>1, <3>1, <3>2, OutcomeIsQuiet
  <2>2. CASE candidates' = [candidates EXCEPT ![c].provider = "sent"]
    BY <1>1, <2>2, ProviderIsQuiet DEF ProviderStates
  <2>3. CASE \E reply \in Replies, artifact \in Artifacts \cup {-1} :
               candidates' = [candidates EXCEPT ![c].provider = "gone", ![c].reply = reply,
                                                ![c].artifact = artifact]
    <3>1. PICK reply \in Replies, artifact \in Artifacts \cup {-1} :
               candidates' = [candidates EXCEPT ![c].provider = "gone", ![c].reply = reply,
                                                ![c].artifact = artifact]
      BY <2>3
    <3> DEFINE row == [candidates[c] EXCEPT !.provider = "gone", !.reply = reply,
                                            !.artifact = artifact]
    <3>2. row \in CandidateRow /\ SameOutcome(candidates[c], row)
      BY <1>1 DEF CandidateRow, SameOutcome
    <3>3. candidates' = [candidates EXCEPT ![c] = row]
      BY <3>1
    <3> HIDE DEF row
    <3>4. QED  BY <1>1, <3>2, <3>3, OutcomeIsQuiet
  <2>4. QED  BY <2>1, <2>2, <2>3 DEF Provider, Replies
<1>3. QED  BY <1>1, <1>2, NoTaskBest

LEMMA StopBest ==
  ASSUME ArtifactInv, BestInv, Stop
  PROVE  BestStep
<1>1. /\ run \in RunRow /\ UNCHANGED <<rounds, tasks, candidates, assessments>>
      /\ run' = [run EXCEPT !.state = "STOPPING", !.reason = "USER_STOP"]
  BY Rows DEF Stop, ArtifactInv
<1>2. /\ run'.sealed = run.sealed /\ run'.incumbent = run.incumbent /\ run'.state = "STOPPING"
      /\ run'.baseline = run.baseline /\ run'.round = run.round
  BY <1>1 DEF RunRow
<1>3. QuietTables
  BY <1>1, <1>2 DEF QuietTables, SameRecords, SameRecord, SameOutcomes, SameOutcome
<1>4. QED  BY <1>1, <1>2, <1>3, NoTaskBest

LEMMA TimeBest ==
  ASSUME ArtifactInv, BestInv, UNCHANGED tables
  PROVE  BestStep
  BY SameTablesAreQuiet, NoTaskBest DEF tables

(* A runner registers: before it, nothing was left to accept.              *)
LEMMA RegisterBest ==
  ASSUME ArtifactInv, BestInv, NEW t \in DOMAIN tasks, Register(t)
  PROVE  BestStep
<1>1. /\ tasks[t] \in TaskRow /\ TypeOK /\ UNCHANGED <<run, rounds, candidates, assessments>>
      /\ tasks[t].runner = "spawned"
  BY Rows DEF ArtifactInv, Register
<1>2. RunnerOfActive(t) /\ ~Alive(t)
  BY <1>1 DEF ArtifactInv, ProcessInv, Alive
<1>3. CASE tasks' = [tasks EXCEPT ![t] = Gone(@)]
  BY <1>1, <1>3, DeathBest, SameTablesAreQuiet
<1>4. CASE tasks' = [tasks EXCEPT ![t] = Gone([@ EXCEPT !.state = "CANCELLED"])]
  <2> DEFINE ended == [tasks[t] EXCEPT !.state = "CANCELLED"]
  <2>1. tasks' = [tasks EXCEPT ![t] = Gone(ended)]
    BY <1>4
  <2>2. /\ ended \in TaskRow /\ ended.state = "CANCELLED"
        /\ ended.purpose = tasks[t].purpose /\ ended.pid = tasks[t].pid
    BY <1>1 DEF TaskRow
  <2> HIDE DEF ended
  <2>3. Replaced(t) /\ tasks'[t] = Gone(ended)
    BY <1>1, <2>1, <2>2, GoneIs, ReplacedIs
  <2>4. /\ tasks'[t].runner = "gone" /\ tasks'[t].pid = tasks[t].pid
        /\ tasks'[t].state = "CANCELLED"
    BY <2>2, <2>3, GoneIs
  <2>5. QED  BY <1>1, <1>2, <2>3, <2>4, EndOfRunnerBest, SameTablesAreQuiet
<1>5. CASE /\ tasks[t].state = "STARTING"
           /\ run.state \notin {"STOPPING", "STOPPED", "FAILED"}
           /\ tasks' = [tasks EXCEPT ![t] =
                [@ EXCEPT !.state = "RUNNING", !.pid = TRUE, !.runner = "alive",
                          !.at = IF tasks[t].purpose = "search" THEN "begin" ELSE "audits"]]
  <2> DEFINE first == IF tasks[t].purpose = "search" THEN "begin" ELSE "audits"
             row   == [tasks[t] EXCEPT !.state = "RUNNING", !.pid = TRUE, !.runner = "alive",
                                       !.at = first]
  <2>1. tasks' = [tasks EXCEPT ![t] = row]
    BY <1>5
  <2>2. first \in Places /\ (Searches(t) => first = "begin")
    BY DEF Places, Searches
  <2> HIDE DEF first
  <2>3. row \in TaskRow
    BY <1>1, <2>2 DEF TaskRow
  <2>4. /\ row.purpose = tasks[t].purpose /\ row.state = "RUNNING" /\ row.pid = TRUE
        /\ row.c = tasks[t].c /\ row.runner = "alive" /\ row.at = first
    BY <1>1 DEF TaskRow
  <2> HIDE DEF row
  <2>5. Replaced(t) /\ tasks'[t] = row
    BY <1>1, <2>1, <2>3, <2>4, ReplacedIs
  <2>6. tasks[t].c = 0 /\ ~tasks[t].pid /\ t \in Active
    BY <1>1, <1>2, <1>5 DEF RunnerOfActive, Active
  <2>7. \A u \in DOMAIN tasks : u \in Active => u = t
    BY <2>6 DEF ArtifactInv, ProcessInv, OneActive
  <2>8. \A u \in DOMAIN tasks : ~Alive(u)
    BY <1>2, <2>7, OneAlive DEF ArtifactInv
  <2>9. /\ DOMAIN tasks' = DOMAIN tasks
        /\ \A u \in DOMAIN tasks : /\ Searches(u)' <=> Searches(u)
                                   /\ u # t => ~Alive(u)' /\ u \notin Active'
        /\ Alive(t)'
    BY <2>4, <2>5, <2>7, <2>8 DEF Replaced, Searches, Alive, Active
  <2>10. /\ BestTables(run', assessments', candidates') /\ NotWorse /\ SealsBest
         /\ AuditsAreSealed
    BY <1>1, SameTablesAreQuiet, QuietFacts DEF ArtifactInv, BestInv
  <2>11. ~run.sealed => AllBeaten
    <3>1. SUFFICES ASSUME ~run.sealed PROVE AllBeaten
      OBVIOUS
    <3>2. run.state \in RunStates
      BY <1>1, Rows DEF RunRow
    <3>3. run.state = "SEARCHING"
      BY <1>5, <2>10, <3>1, <3>2 DEF RunStates, AuditsAreSealed, ArtifactInv, SealFits
    <3>4. \A u \in DOMAIN tasks : ~Abandoned(u)
      BY <2>6, <2>7 DEF Abandoned
    <3>5. QED  BY <2>8, <3>3, <3>4 DEF BestInv, SearchIsBest, NoSearcher
  <2>12. AllBeaten' <=> AllBeaten
    BY <1>1 DEF AllBeaten
  <2>13. Searches(t) => Compares(t)'
    <3>1. SUFFICES ASSUME Searches(t) PROVE Compares(t)'
      OBVIOUS
    <3>2. tasks'[t].at = "begin" /\ tasks'[t].c = 0
      BY <2>2, <2>4, <2>5, <2>6, <3>1
    <3>3. /\ ComparesBaseline(t)' /\ ComparesParent(t)' /\ ComparesNew(t)'
          /\ ComparesAssessed(t)'
      BY <3>2 DEF ComparesBaseline, ComparesParent, NeedsParent, ComparesNew, BeforeIts,
         ComparesAssessed, Assessing, Requesting
    <3>4. HoldsBest(t)'
      BY <1>1, <2>11, <2>12 DEF HoldsBest, AllBeaten
    <3>5. QED  BY <3>3, <3>4 DEF Compares
  <2>14. SearchersCompare'
    BY <2>9, <2>13 DEF SearchersCompare
  <2>15. SearchIsBest'
    <3>1. ~Searches(t) => run.sealed
      BY <2>10 DEF AuditsAreSealed
    <3>2. QED  BY <1>1, <2>9, <3>1 DEF SearchIsBest, NoSearcher, ArtifactInv, SealFits
  <2>16. RoundExecutes'
    <3>1. ~run.sealed /\ Searches(t) => Executing
      BY <1>1, <1>2, <2>6 DEF BestInv, RoundExecutes
    <3>2. Executing' <=> Executing
      BY <1>1 DEF Executing, Current
    <3>3. \A u \in Active' : u = t
      BY <2>9 DEF Active
    <3>4. QED  BY <1>1, <2>9, <3>1, <3>2, <3>3 DEF RoundExecutes
  <2>17. AuditsAreSealed'
    BY <1>1, <2>9, <2>10 DEF AuditsAreSealed
  <2>18. QED  BY <2>10, <2>14, <2>15, <2>16, <2>17 DEF BestStep, BestInv
<1>6. QED  BY <1>3, <1>4, <1>5 DEF Register

-----------------------------------------------------------------------------
(* Steps of the Agent                                                      *)

(* A round that does not execute has nothing left to accept.               *)
LEMMA NotExecuting ==
  ASSUME ArtifactInv, BestInv, run.state = "SEARCHING", ~Executing
  PROVE  ~run.sealed /\ AllBeaten
<1>1. ~run.sealed
  BY DEF ArtifactInv, SealFits
<1>2. CASE NoSearcher
  BY <1>1, <1>2 DEF BestInv, SearchIsBest
<1>3. CASE ~NoSearcher
  <2>1. PICK t \in DOMAIN tasks : Alive(t) /\ Searches(t)
    BY <1>3 DEF NoSearcher
  <2>2. HoldsBest(t)
    BY <2>1, KnownBest DEF Compares
  <2>3. QED  BY <1>1, <2>2 DEF HoldsBest, AllBeaten
<1>4. QED  BY <1>1, <1>2, <1>3

(* The round, or the row of the run, changes between two executions.       *)
LEMMA BetweenBest ==
  ASSUME ArtifactInv, BestInv, run.state = "SEARCHING", ~Executing,
         UNCHANGED <<tasks, candidates, assessments>>, SameBest(run, run'),
         run'.state = "SEARCHING" \/ run'.sealed
  PROVE  BestStep
<1>1. /\ ~run.sealed /\ AllBeaten /\ TypeOK /\ SealFits
      /\ BestTables(run, assessments, candidates)
  BY NotExecuting DEF ArtifactInv, BestInv
<1>2. run.incumbent \in DOMAIN assessments \cup {0}
  BY <1>1 DEF SealFits, CompleteOnline
<1>3. BestTables(run', assessments', candidates')
  <2>1. SameRecords(assessments, assessments') /\ SameOutcomes(candidates, candidates')
    BY DEF SameRecords, SameRecord, SameOutcomes, SameOutcome
  <2>2. QED  BY <1>1, <1>2, <2>1, BestTablesKept
<1>4. NotWorse
  BY <1>1, SameKeysNotWorse DEF SameBest
<1>5. AllBeaten' /\ SealsBest /\ Parent(run') = Parent(run)
  BY <1>1 DEF AllBeaten, SealsBest, Beaten, SameBest, Parent
<1>6. ASSUME NEW t \in DOMAIN tasks, Alive(t), Searches(t)
      PROVE  Compares(t)'
  <2>1. Compares(t)
    BY <1>6, KnownBest
  <2>2. ComparesBaseline(t)' /\ ComparesParent(t)'
    BY <1>5, <2>1 DEF Compares, ComparesBaseline, ComparesParent, NeedsParent, SameBest
  <2>3. ComparesNew(t)' /\ ComparesAssessed(t)'
    BY <2>1 DEF Compares, ComparesNew, BeforeIts, OfNone, Fresh, ComparesAssessed, AllCompleteOf,
       Online
  <2>4. HoldsBest(t)'
    BY <1>5 DEF HoldsBest, AllBeaten
  <2>5. QED  BY <2>2, <2>3, <2>4 DEF Compares
<1>7. SearchersCompare'
  BY <1>6 DEF SearchersCompare, Alive, Searches
<1>8. SearchIsBest'
  BY <1>5 DEF SearchIsBest
<1>9. RoundExecutes'
  BY <1>1 DEF BestInv, RoundExecutes, Active, Searches, Alive
<1>10. AuditsAreSealed'
  <2>1. \A t \in DOMAIN tasks : Searches(t)
    BY <1>1 DEF BestInv, AuditsAreSealed
  <2>2. QED  BY <2>1 DEF AuditsAreSealed, Searches
<1>11. QED  BY <1>3, <1>4, <1>5, <1>7, <1>8, <1>9, <1>10 DEF BestStep, BestInv

LEMMA AgentRoundsBest ==
  ASSUME ArtifactInv, BestInv, SubmitPlan \/ SubmitEvaluation \/ MemoryWrite
  PROVE  BestStep
<1>1. /\ run.state = "SEARCHING" /\ ~Executing
      /\ UNCHANGED <<run, tasks, candidates, assessments>>
  BY DEF SubmitPlan, SubmitEvaluation, MemoryWrite, Executing
<1>2. SameBest(run, run')
  BY <1>1 DEF SameBest
<1>3. QED  BY <1>1, <1>2, BetweenBest

LEMMA FinishRoundBest ==
  ASSUME ArtifactInv, BestInv, FinishRound
  PROVE  BestStep
<1>1. /\ run.state = "SEARCHING" /\ ~Executing /\ TypeOK /\ SealFits /\ run \in RunRow
      /\ UNCHANGED <<tasks, candidates, assessments>>
  BY Rows DEF FinishRound, Executing, ArtifactInv
<1>2. CASE \E why \in {"agent_complete", "search_limit"} : run' = Seal(run, assessments, why)
  <2>1. PICK why \in Reasons : run' = Seal(run, assessments, why)
    BY <1>2 DEF Reasons
  <2>2. SameBest(run, run') /\ run'.sealed
    BY <1>1, <2>1, SealIsSame
  <2>3. QED  BY <1>1, <2>2, BetweenBest
<1>3. CASE run' = [run EXCEPT !.round = run.round + 1]
  <2>1. SameBest(run, run') /\ run'.state = "SEARCHING"
    BY <1>1, <1>3 DEF SameBest, RunRow
  <2>2. QED  BY <1>1, <2>1, BetweenBest
<1>4. QED  BY <1>2, <1>3 DEF FinishRound

(* A launch: nobody works, and the round of a search begins to execute.    *)
LEMMA LaunchBest ==
  ASSUME ArtifactInv, BestInv, NEW purpose \in {"search", "audit"}, Launch(purpose)
  PROVE  BestStep
<1> DEFINE row == NewTask(purpose)
           n   == Len(tasks) + 1
<1>1. /\ TypeOK /\ run \in RunRow /\ tasks \in Seq(TaskRow) /\ Active = {} /\ SealFits
      /\ rounds \in [1..MaxRounds -> RoundRow] /\ Len(tasks) \in Nat /\ DOMAIN tasks = 1..Len(tasks)
      /\ UNCHANGED <<candidates, assessments>>
  BY Rows DEF ArtifactInv, Launch, LaunchAllowed
<1>2. row \in TaskRow
  BY <1>1 DEF NewTask, TaskRow, Places, Verdicts, Causes, Exits, RunRow
<1>3. row.runner = "none" /\ row.purpose = purpose
  BY DEF NewTask
<1> HIDE DEF row
<1>4. /\ DOMAIN tasks' = 1..n /\ tasks'[n] = row /\ n \in DOMAIN tasks'
      /\ \A u \in DOMAIN tasks : u \in DOMAIN tasks' /\ tasks'[u] = tasks[u]
  BY <1>1, <1>2 DEF Launch, row
<1>5. \A u \in DOMAIN tasks' : u \in DOMAIN tasks \/ u = n
  BY <1>1, <1>4
<1> HIDE DEF n
<1>6. \A u \in DOMAIN tasks : ~Alive(u)
  BY <1>1, OneAlive DEF ArtifactInv
<1>7. \A u \in DOMAIN tasks' : ~Alive(u)'
  BY <1>3, <1>4, <1>5, <1>6 DEF Alive
<1>8. Active' \subseteq {n}
  BY <1>1, <1>4, <1>5 DEF Active
<1>9. /\ run'.sealed = run.sealed /\ run'.incumbent = run.incumbent
      /\ run'.baseline = run.baseline /\ run'.state # "COMPLETED"
      /\ IF purpose = "search"
         THEN run' = run /\ run.state = "SEARCHING" /\ ~Executing /\ SetRound("EXECUTING")
         ELSE run.sealed /\ run'.state # "SEARCHING"
  <2>1. CASE purpose = "search"
    BY <2>1 DEF Launch, Executing
  <2>2. CASE purpose = "audit"
    <3>1. run.state = "SEARCH_SEALED" /\ run' = [run EXCEPT !.state = "FINALIZING"]
      BY <2>2 DEF Launch
    <3>2. QED  BY <1>1, <2>2, <3>1 DEF RunRow, SealFits
  <2>3. QED  BY <2>1, <2>2
<1>10. /\ BestTables(run', assessments', candidates') /\ NotWorse /\ SealsBest
  <2>1. QuietTables
    BY <1>1, <1>9 DEF QuietTables, SameRecords, SameRecord, SameOutcomes, SameOutcome
  <2>2. QED  BY <1>1, <2>1, QuietFacts DEF BestInv
<1>11. SearchersCompare'
  BY <1>7 DEF SearchersCompare
<1>12. SearchIsBest'
  <2>1. CASE purpose = "search"
    <3>1. AllBeaten
      BY <1>9, <2>1, NotExecuting
    <3>2. AllBeaten'
      BY <1>1, <1>9, <3>1 DEF AllBeaten, Beaten
    <3>3. QED  BY <3>2 DEF SearchIsBest
  <2>2. CASE purpose # "search"
    BY <1>9, <2>2 DEF SearchIsBest
  <2>3. QED  BY <2>1, <2>2
<1>13. RoundExecutes'
  <2>1. CASE purpose = "search"
    <3>1. run'.round \in 1..MaxRounds /\ run' = run
      BY <1>1, <1>9, <2>1 DEF RunRow
    <3>2. rounds' = [rounds EXCEPT ![run.round].state = "EXECUTING"]
      BY <1>9, <2>1 DEF SetRound
    <3>3. rounds[run.round] \in RoundRow /\ run.round \in DOMAIN rounds
      BY <1>1, <3>1
    <3>4. Executing'
      BY <1>1, <3>1, <3>2, <3>3 DEF Executing, Current, RoundRow
    <3>5. QED  BY <3>4 DEF RoundExecutes
  <2>2. CASE purpose # "search"
    BY <1>9, <2>2 DEF RoundExecutes
  <2>3. QED  BY <2>1, <2>2
<1>14. AuditsAreSealed'
  <2>1. \A u \in DOMAIN tasks : ~Searches(u) => run.sealed
    BY DEF BestInv, AuditsAreSealed
  <2>2. \A u \in DOMAIN tasks' : ~Searches(u)' => run'.sealed
    BY <1>3, <1>4, <1>5, <1>9, <2>1 DEF Searches
  <2>3. QED  BY <1>9, <2>2 DEF AuditsAreSealed
<1>15. QED  BY <1>10, <1>11, <1>12, <1>13, <1>14 DEF BestStep, BestInv

-----------------------------------------------------------------------------
(* Stop, watchdog and recover keep what is best                            *)

(* The repair stays in the round of the run.                               *)
Rounded == {s \in Repairs : s.run.round = run.round}

LEMMA AdoptStaysInRound ==
  ASSUME NEW s \in Rounded, NEW c, NEW a
  PROVE  Adopt(s, c, a).run.round = run.round
<1>1. /\ s \in [run : RunRow, assessments : Seq(AssessmentRow), candidates : Seq(CandidateRow),
                ok : BOOLEAN]
      /\ s.run.round = run.round
  BY DEF Rounded, Repairs
<1> DEFINE best == IF Accepts(s.run.incumbent, a, s.assessments) THEN a ELSE s.run.incumbent
           rows == [s.candidates EXCEPT ![c].state = "COMPLETE"]
           r    == [s.run EXCEPT !.incumbent = best]
<1>2. r.round = run.round
  <2> HIDE DEF best
  <2>1. QED  BY <1>1 DEF RunRow
<1>3. CASE s.run.sealed
  <2>1. Adopt(s, c, a) = [s EXCEPT !.ok = FALSE]
    BY <1>3 DEF Adopt
  <2>2. QED  BY <1>1, <2>1
<1>4. CASE ~s.run.sealed
  <2>1. Adopt(s, c, a) = [s EXCEPT !.run = r, !.candidates = rows]
    BY <1>1, <1>4 DEF Adopt
  <2> HIDE DEF r, rows
  <2>2. QED  BY <1>1, <1>2, <2>1
<1>5. QED  BY <1>3, <1>4

LEMMA AssessmentStaysInRound ==
  ASSUME TypeOK, SealFits, NEW s \in Rounded, NEW a \in DOMAIN assessments
  PROVE  ReconcileAssessment(s, a) \in Rounded
<1>1. /\ s \in [run : RunRow, assessments : Seq(AssessmentRow), candidates : Seq(CandidateRow),
                ok : BOOLEAN]
      /\ s.run.round = run.round /\ s \in Repairs
  BY DEF Rounded, Repairs
<1>2. ReconcileAssessment(s, a) \in Repairs
  BY <1>1, AssessmentRepairs
<1>3. ReconcileAssessment(s, a).run.round = run.round
  <2>1. CASE ~s.ok \/ ~OnDisk(s.assessments, a)
    BY <1>1, <2>1 DEF ReconcileAssessment
  <2>2. CASE /\ ~(~s.ok \/ ~OnDisk(s.assessments, a))
             /\ s.assessments[a].state \notin {"COMPLETE", "RESERVED", "INCOMPLETE"}
    <3>1. ReconcileAssessment(s, a) = [s EXCEPT !.ok = FALSE]
      BY <2>2 DEF ReconcileAssessment
    <3>2. QED  BY <1>1, <3>1
  <2>3. CASE /\ ~(~s.ok \/ ~OnDisk(s.assessments, a))
             /\ s.assessments[a].state \in {"COMPLETE", "RESERVED", "INCOMPLETE"}
    <3> DEFINE p == Promote(s, a)
               c == s.assessments[a].of
               q == [p EXCEPT !.run = TakeBaseline(p.run, a, p.assessments)]
    <3>1. p \in Repairs /\ p.run = s.run
      <4>1. p \in Repairs
        BY <1>1, <2>3, PromoteRepairs
      <4>2. p.run = s.run
        BY <1>1 DEF Promote
      <4>3. QED  BY <4>1, <4>2
    <3> HIDE DEF p
    <3>2. p \in Rounded
      BY <1>1, <3>1 DEF Rounded
    <3>3. \/ ReconcileAssessment(s, a) = p \/ ReconcileAssessment(s, a) = q
          \/ ReconcileAssessment(s, a) = Adopt(p, c, a)
      <4>1. s.assessments[a].mode \in {"online", "audit"}
        <5>1. Advances(assessments, s.assessments)
          BY <1>1 DEF Repairs
        <5>2. s.assessments[a] \in AssessmentRow
          BY <1>1, <5>1 DEF Advances
        <5>3. QED  BY <5>2 DEF AssessmentRow
      <4>2. QED  BY <2>3, <4>1 DEF ReconcileAssessment, p
    <3>4. q.run.round = run.round
      <4> DEFINE tab == p.assessments
                 best == IF KeyOf(a, tab) # 0 THEN a ELSE p.run.incumbent
                 r == TakeBaseline(p.run, a, tab)
      <4>1. /\ p \in [run : RunRow, assessments : Seq(AssessmentRow),
                      candidates : Seq(CandidateRow), ok : BOOLEAN]
            /\ p.run \in RunRow /\ p.run.round = run.round
        BY <1>1, <3>1 DEF Repairs
      <4>2. r = [p.run EXCEPT !.baseline = a, !.incumbent = best]
        BY DEF TakeBaseline
      <4> HIDE DEF best, r
      <4>3. r.round = run.round
        BY <4>1, <4>2 DEF RunRow
      <4>4. q.run = r
        BY <4>1 DEF r
      <4>5. QED  BY <4>3, <4>4
    <3> HIDE DEF q
    <3>5. QED  BY <1>1, <3>1, <3>2, <3>3, <3>4, AdoptStaysInRound
  <2>4. QED  BY <2>1, <2>2, <2>3
<1>4. QED  BY <1>2, <1>3 DEF Rounded

LEMMA RepairStaysInRound ==
  ASSUME TypeOK, SealFits, RepliesFit
  PROVE  Reconcile.run.round = run.round
<1> DEFINE n == Len(assessments)
           m == Len(candidates)
           half == FoldLeft(ReconcileAssessment, Tables, Upto(n))
<1>1. n \in Nat /\ m \in Nat /\ 1..n = DOMAIN assessments /\ 1..m = DOMAIN candidates
  BY Rows
<1>2. \A s \in Rounded, a \in 1..n : ReconcileAssessment(s, a) \in Rounded
  BY <1>1, AssessmentStaysInRound
<1>3. \A s \in Rounded, c \in 1..m : ReconcileReuse(s, c) \in Rounded
  <2>1. SUFFICES ASSUME NEW s \in Rounded, NEW c \in 1..m
                 PROVE  ReconcileReuse(s, c) \in Rounded
    OBVIOUS
  <2>2. ReconcileReuse(s, c) \in Repairs
    BY <1>1, ReuseRepairs DEF Rounded
  <2>3. ReconcileReuse(s, c).run.round = run.round
    BY AdoptStaysInRound DEF ReconcileReuse, Rounded
  <2>4. QED  BY <2>2, <2>3 DEF Rounded
<1>4. Tables \in Rounded
  BY TablesRepair DEF Tables, Rounded
<1>5. half \in Rounded
  <2> HIDE DEF n
  <2>1. QED  BY <1>1, <1>2, <1>4, AssessmentsFold
<1> HIDE DEF half, n, m
<1>6. FoldLeft(ReconcileReuse, half, Upto(m)) \in Rounded
  BY <1>1, <1>3, <1>5, ReusesFold
<1>7. QED  BY <1>6 DEF Reconcile, half, n, m, Rounded

(* What closes a task changes no outcome.                                  *)
LEMMA EffectsAreSame ==
  ASSUME NEW tab \in Seq(AssessmentRow)
  PROVE  SettleAll(tab) \in Seq(AssessmentRow) /\ SameRecords(tab, SettleAll(tab))
<1> DEFINE new == SettleAll(tab)
<1>1. /\ DOMAIN new = DOMAIN tab /\ new = [a \in DOMAIN new |-> new[a]]
      /\ \A a \in DOMAIN tab : new[a] = [tab[a] EXCEPT !.effects = Settle(tab[a].effects)]
  BY DEF SettleAll
<1> HIDE DEF new
<1>2. ASSUME NEW a \in DOMAIN tab
      PROVE  new[a] \in AssessmentRow /\ SameRecord(tab[a], new[a])
  <2> DEFINE settled == Settle(tab[a].effects)
  <2>1. tab[a] \in AssessmentRow
    OBVIOUS
  <2>2. settled \in Seq(EffectStates)
    <3>1. tab[a].effects \in Seq(EffectStates)
      BY <2>1 DEF AssessmentRow
    <3>2. QED  BY <3>1, SettledEffects
  <2> HIDE DEF settled
  <2>3. new[a] = [tab[a] EXCEPT !.effects = settled]
    BY <1>1 DEF settled
  <2>4. QED  BY <2>1, <2>2, <2>3 DEF AssessmentRow, SameRecord, Told
<1>3. new \in Seq(AssessmentRow)
  BY <1>1, <1>2, RowsReplaced
<1>4. SameRecords(tab, new)
  BY <1>1, <1>2 DEF SameRecords
<1>5. QED  BY <1>3, <1>4 DEF new

LEMMA IncompleteIsSame ==
  ASSUME NEW tab \in Seq(AssessmentRow)
  PROVE  SameRecords(tab, Incomplete(tab))
<1> DEFINE new == Incomplete(tab)
           state(a) == IF tab[a].state = "RESERVED" THEN "INCOMPLETE" ELSE tab[a].state
<1>1. DOMAIN new = DOMAIN tab /\ \A a \in DOMAIN tab : new[a] = [tab[a] EXCEPT !.state = state(a)]
  BY DEF Incomplete
<1> HIDE DEF new
<1>2. ASSUME NEW a \in DOMAIN tab PROVE SameRecord(tab[a], new[a])
  <2>1. tab[a] \in AssessmentRow /\ new[a] = [tab[a] EXCEPT !.state = state(a)]
    BY <1>1
  <2>2. /\ state(a) = "COMPLETE" => tab[a].state = "COMPLETE"
        /\ tab[a].state = "COMPLETE" => state(a) = "COMPLETE"
    OBVIOUS
  <2> HIDE DEF state
  <2>3. QED  BY <2>1, <2>2 DEF AssessmentRow, SameRecord, Told
<1>3. SameRecords(tab, new)
  BY <1>1, <1>2 DEF SameRecords
<1>4. QED  BY <1>3 DEF new

LEMMA RequestsAreSame ==
  ASSUME NEW rows \in Seq(CandidateRow)
  PROVE  SameOutcomes(rows, SettleRequests(rows))
<1> DEFINE new == SettleRequests(rows)
<1>1. /\ DOMAIN new = DOMAIN rows
      /\ \A c \in DOMAIN rows : new[c] = [rows[c] EXCEPT !.effect = Reconciled[rows[c].effect]]
  BY DEF SettleRequests
<1> HIDE DEF new
<1>2. ASSUME NEW c \in DOMAIN rows PROVE SameOutcome(rows[c], new[c])
  <2> DEFINE effect == Reconciled[rows[c].effect]
  <2>1. rows[c] \in CandidateRow /\ new[c] = [rows[c] EXCEPT !.effect = effect]
    BY <1>1
  <2> HIDE DEF effect
  <2>2. QED  BY <2>1 DEF CandidateRow, SameOutcome
<1>3. SameOutcomes(rows, new)
  BY <1>1, <1>2 DEF SameOutcomes
<1>4. QED  BY <1>3 DEF new

LEMMA ClosedAreSame ==
  ASSUME NEW tab \in Seq(AssessmentRow)
  PROVE  SameRecords(tab, Incomplete(SettleAll(tab)))
<1> DEFINE mid == SettleAll(tab)
           new == Incomplete(mid)
<1>1. mid \in Seq(AssessmentRow) /\ SameRecords(tab, mid)
  BY EffectsAreSame
<1> HIDE DEF mid
<1>2. SameRecords(mid, new)
  BY <1>1, IncompleteIsSame
<1> HIDE DEF new
<1>3. SameRecords(tab, new)
  BY <1>1, <1>2 DEF SameRecords, SameRecord
<1>4. QED  BY <1>3 DEF new, mid

(* The tables of the repair, with their effects closed.                    *)
RepairWritten ==
  /\ SameRecords(Reconcile.assessments, assessments')
  /\ SameOutcomes(Reconcile.candidates, candidates')

(* The repair keeps what is best; where it meets no conflict all is beaten.*)
LEMMA RepairedBest ==
  ASSUME ArtifactInv, BestInv, RepairWritten, SameBest(Reconcile.run, run')
  PROVE  /\ BestTables(run', assessments', candidates') /\ NotWorse
         /\ run.sealed => run'.sealed
         /\ Reconcile.ok /\ ~run.sealed => AllBeaten'
<1> DEFINE s   == Reconcile
           r   == s.run
           tab == s.assessments
           rows == s.candidates
<1>1. /\ TypeOK /\ SealFits /\ RepliesFit /\ BestTables(run, assessments, candidates)
  BY DEF ArtifactInv, BestInv
<1>2. s \in BestRepairs
  BY <1>1, ReconcileBest
<1>3. SameRecords(tab, assessments') /\ SameOutcomes(rows, candidates') /\ SameBest(r, run')
  BY DEF RepairWritten
<1>4. s.ok /\ ~run.sealed => \A a \in CompleteOnline(tab) : Beaten(a, r, tab)
  BY <1>1, AllRecovered
<1> HIDE DEF s
<1>5. /\ BestTables(r, tab, rows) /\ r.incumbent \in DOMAIN tab \cup {0} /\ r.sealed = run.sealed
      /\ KeyOf(run.incumbent, assessments) <= KeyOf(r.incumbent, tab)
  BY <1>2, RepairIs
<1> HIDE DEF r, tab, rows
<1>6. /\ BestTables(run', assessments', candidates')
      /\ \A a \in DOMAIN tab \cup {0} : KeyOf(a, assessments') = KeyOf(a, tab)
      /\ CompleteOnline(assessments') = CompleteOnline(tab)
  BY <1>3, <1>5, BestTablesKept
<1>7. NotWorse
  BY <1>3, <1>5, <1>6 DEF NotWorse, SameBest
<1>8. run.sealed => run'.sealed
  BY <1>3, <1>5 DEF SameBest
<1>9. ASSUME s.ok, ~run.sealed PROVE AllBeaten'
  <2>1. \A a \in CompleteOnline(tab) : a \in DOMAIN tab /\ Beaten(a, r, tab)
    BY <1>4, <1>9 DEF CompleteOnline
  <2>2. QED  BY <1>3, <1>5, <1>6, <2>1 DEF AllBeaten, Beaten, SameBest
<1>10. QED  BY <1>6, <1>7, <1>8, <1>9 DEF s

(* Tasks that nobody works on are ended.                                   *)
LEMMA CloseBest ==
  ASSUME ArtifactInv, BestInv, BestTables(run', assessments', candidates'), NotWorse,
         DOMAIN tasks' = DOMAIN tasks,
         \A u \in DOMAIN tasks : tasks'[u] = tasks[u] \/ Ended(u),
         \A u \in DOMAIN tasks : Alive(u) => ~Searches(u),
         run.sealed => run'.sealed, ~run.sealed /\ run'.sealed => AllBeaten',
         run'.state = "COMPLETED" => run'.sealed, run'.state = "SEARCHING" => AllBeaten',
         run'.sealed \/ Active' = {} \/ (rounds' = rounds /\ run'.round = run.round)
  PROVE  BestStep
<1>1. SealsBest
  BY DEF SealsBest, AllBeaten, Beaten
<1>2. \A u \in DOMAIN tasks : /\ Searches(u)' <=> Searches(u)
                              /\ Alive(u)' => ~Searches(u)
                              /\ u \in Active' => u \in Active /\ tasks'[u] = tasks[u]
  BY DEF Ended, Searches, Alive, Active
<1>3. SearchersCompare'
  BY <1>2 DEF SearchersCompare
<1>4. SearchIsBest'
  BY DEF SearchIsBest
<1>5. RoundExecutes'
  <2>1. CASE run'.sealed \/ Active' = {}
    BY <2>1 DEF RoundExecutes
  <2>2. CASE rounds' = rounds /\ run'.round = run.round
    <3>1. ASSUME ~run'.sealed, NEW u \in Active', Searches(u)', tasks'[u].runner # "gone",
                 ~(Alive(u)' /\ tasks'[u].at \in {"done", "failed"})
          PROVE  Executing'
      <4>1. u \in DOMAIN tasks
        BY DEF Active
      <4>2. /\ u \in Active /\ tasks[u].runner # "gone" /\ Searches(u) /\ ~run.sealed
            /\ ~(Alive(u) /\ tasks[u].at \in {"done", "failed"})
        BY <1>2, <3>1, <4>1 DEF Alive
      <4>3. Executing
        BY <4>2 DEF BestInv, RoundExecutes
      <4>4. QED  BY <2>2, <4>3 DEF Executing, Current
    <3>2. QED  BY <3>1 DEF RoundExecutes
  <2>3. QED  BY <2>1, <2>2
<1>6. AuditsAreSealed'
  BY <1>2 DEF BestInv, AuditsAreSealed
<1>7. QED  BY <1>1, <1>3, <1>4, <1>5, <1>6 DEF BestStep, BestInv

LEMMA SealKeepsBest ==
  ASSUME NEW r \in RunRow, NEW tab, NEW why
  PROVE  /\ SameBest(r, Seal(r, tab, why)) /\ Seal(r, tab, why).sealed
         /\ ~r.sealed => Seal(r, tab, why).state = "SEARCH_SEALED"
<1> DEFINE queue == AuditQueue(r.incumbent, tab)
<1>1. Seal(r, tab, why)
        = IF r.sealed THEN r
          ELSE [r EXCEPT !.state = "SEARCH_SEALED", !.reason = why, !.sealed = TRUE,
                         !.queue = queue]
  BY DEF Seal
<1> HIDE DEF queue
<1>2. CASE r.sealed
  BY <1>1, <1>2 DEF SameBest
<1>3. CASE ~r.sealed
  BY <1>1, <1>3 DEF SameBest, RunRow
<1>4. QED  BY <1>2, <1>3

(* The row of the run that stops or fails after the repair.                *)
StillBest(r, q, state) ==
  SameBest(r, q) /\ q.state = state /\ q.sealed = r.sealed /\ q.round = r.round

LEMMA EndKeepsBest ==
  ASSUME NEW r \in RunRow, NEW state, NEW why
  PROVE  /\ StillBest(r, [r EXCEPT !.state = state], state)
         /\ StillBest(r, [r EXCEPT !.state = state, !.reason = why], state)
<1> DEFINE q == [r EXCEPT !.state = state]
           p == [r EXCEPT !.state = state, !.reason = why]
<1>1. StillBest(r, q, state)
  BY DEF StillBest, SameBest, RunRow
<1>2. StillBest(r, p, state)
  BY DEF StillBest, SameBest, RunRow
<1>3. QED  BY <1>1, <1>2

LEMMA ReconciledRow ==
  ASSUME ArtifactInv
  PROVE  /\ Reconcile.run \in RunRow /\ Reconcile.run.sealed = run.sealed
         /\ Reconcile.run.state = run.state /\ Reconcile.run.round = run.round
         /\ Reconcile.assessments \in Seq(AssessmentRow)
         /\ Reconcile.candidates \in Seq(CandidateRow)
<1> DEFINE s == Reconcile
<1>1. Repaired(s.run, s.assessments, s.candidates)
  BY ReconcileIsRepaired
<1>2. s.run.round = run.round
  BY RepairStaysInRound DEF ArtifactInv
<1> HIDE DEF s
<1>3. /\ s.run \in RunRow /\ s.run.sealed = run.sealed /\ s.run.state = run.state
      /\ s.assessments \in Seq(AssessmentRow) /\ s.candidates \in Seq(CandidateRow)
  BY <1>1 DEF Repaired, RunRecovers, Advances
<1>4. QED  BY <1>2, <1>3 DEF s

LEMMA NoneActive ==
  ASSUME NEW state \in {"CANCELLED", "INTERRUPTED"}, tasks' = EndActive(state), TypeOK
  PROVE  Active' = {}
<1>1. \A u \in DOMAIN tasks : tasks[u] \in TaskRow
  BY Rows
<1>2. /\ DOMAIN tasks' = DOMAIN tasks
      /\ \A u \in DOMAIN tasks :
           tasks'[u] = IF u \in Active THEN [tasks[u] EXCEPT !.state = state] ELSE tasks[u]
  BY DEF EndActive
<1>3. \A u \in DOMAIN tasks : tasks'[u].state \notin {"STARTING", "RUNNING"}
  <2>1. ASSUME NEW u \in DOMAIN tasks PROVE tasks'[u].state \notin {"STARTING", "RUNNING"}
    <3>1. CASE u \in Active
      BY <1>1, <1>2, <3>1 DEF TaskRow
    <3>2. CASE u \notin Active
      BY <1>2, <3>2 DEF Active
    <3>3. QED  BY <3>1, <3>2
  <2>2. QED  BY <2>1
<1>4. QED  BY <1>2, <1>3 DEF Active

LEMMA StopCloseBest ==
  ASSUME ArtifactInv, BestInv, StopClose
  PROVE  BestStep
<1> DEFINE s == Reconcile
<1>1. TypeOK /\ stopper = "killed"
  BY DEF ArtifactInv, StopClose
<1>2. CASE UNCHANGED tables
  BY <1>2, TimeBest
<1>3. CASE /\ run.state = "STOPPING" /\ s.ok /\ run' = [s.run EXCEPT !.state = "STOPPED"]
           /\ assessments' = SettleAll(s.assessments)
           /\ candidates' = SettleRequests(s.candidates)
           /\ tasks' = EndActive("CANCELLED")
  <2>1. /\ s.run \in RunRow /\ s.run.sealed = run.sealed /\ s.assessments \in Seq(AssessmentRow)
        /\ s.candidates \in Seq(CandidateRow)
    BY ReconciledRow
  <2>2. RepairWritten
    BY <1>3, <2>1, EffectsAreSame, RequestsAreSame DEF RepairWritten
  <2>3. /\ SameBest(s.run, run') /\ run'.state = "STOPPED" /\ run'.sealed = run.sealed
    <3> DEFINE r == s.run
    <3>1. r \in RunRow /\ run' = [r EXCEPT !.state = "STOPPED"] /\ r.sealed = run.sealed
      BY <1>3, <2>1
    <3> HIDE DEF r
    <3>2. SameBest(r, run') /\ run'.state = "STOPPED" /\ run'.sealed = run.sealed
      <4>1. StillBest(r, run', "STOPPED")
        BY <3>1, EndKeepsBest
      <4>2. QED  BY <3>1, <4>1 DEF StillBest
    <3>3. QED  BY <3>2 DEF r
  <2>4. /\ BestTables(run', assessments', candidates') /\ NotWorse
    BY <2>2, <2>3, RepairedBest
  <2>5. \A u \in DOMAIN tasks : ~Alive(u)
    BY <1>1, <1>3 DEF ArtifactInv, ProcessInv, StopperIsAlone
  <2>6. /\ DOMAIN tasks' = DOMAIN tasks
        /\ \A u \in DOMAIN tasks : tasks'[u] = tasks[u] \/ Ended(u)
    BY <1>1, <1>3, <2>5, ActiveEnd DEF Active
  <2>7. Active' = {}
    BY <1>1, <1>3, NoneActive
  <2>8. QED  BY <2>3, <2>4, <2>5, <2>6, <2>7, CloseBest
<1>4. QED  BY <1>2, <1>3 DEF StopClose

LEMMA WatchdogClosesBest ==
  ASSUME ArtifactInv, BestInv, NEW t \in DOMAIN tasks, WatchdogCloses(t)
  PROVE  BestStep
<1> DEFINE s   == Reconcile
           as1 == Incomplete(SettleAll(s.assessments))
           searching == tasks[t].purpose = "search" /\ run.state = "SEARCHING"
<1>1. TypeOK /\ tasks[t].watchdog = "killed" /\ tasks[t] \in TaskRow
  BY Rows DEF ArtifactInv, WatchdogCloses
<1>2. ~Alive(t) /\ \A u \in DOMAIN tasks : Alive(u) => ~Searches(u)
  BY <1>1 DEF ArtifactInv, ProcessInv, WatchdogIsLate
<1>3. CASE WatchdogTo(t, "gone") /\ UNCHANGED <<run, rounds, candidates, assessments>>
  BY <1>3, WatchBest
<1>4. CASE /\ run.state \notin {"STOPPED", "FAILED", "COMPLETED"} /\ s.ok
           /\ assessments' = as1 /\ candidates' = SettleRequests(s.candidates)
           /\ tasks' = [tasks EXCEPT ![t].watchdog = "gone", ![t].state = "INTERRUPTED"]
           /\ ~searching => rounds' = rounds
           /\ run' = IF searching THEN Seal(s.run, as1, "SEARCH_DEADLINE")
                     ELSE [s.run EXCEPT !.state = "STOPPED", !.reason = "GLOBAL_DEADLINE"]
  <2>1. /\ s.run \in RunRow /\ s.run.sealed = run.sealed /\ s.run.round = run.round
        /\ s.assessments \in Seq(AssessmentRow) /\ s.candidates \in Seq(CandidateRow)
    BY ReconciledRow
  <2>2. RepairWritten
    BY <1>4, <2>1, ClosedAreSame, RequestsAreSame DEF RepairWritten
  <2>3. /\ SameBest(s.run, run') /\ run'.state \notin {"SEARCHING", "COMPLETED"}
        /\ run'.sealed \/ (rounds' = rounds /\ run'.round = run.round)
    <3> DEFINE r == s.run
    <3>1. r \in RunRow /\ r.sealed = run.sealed /\ r.round = run.round
      BY <2>1
    <3> HIDE DEF r, as1
    <3>2. CASE searching
      <4>1. ~run.sealed /\ run' = Seal(r, as1, "SEARCH_DEADLINE")
        BY <1>4, <3>2 DEF ArtifactInv, SealFits, r
      <4>2. SameBest(r, run') /\ run'.sealed /\ run'.state = "SEARCH_SEALED"
        BY <3>1, <4>1, SealKeepsBest
      <4>3. QED  BY <4>2 DEF r
    <3>3. CASE ~searching
      <4>1. run' = [r EXCEPT !.state = "STOPPED", !.reason = "GLOBAL_DEADLINE"]
            /\ rounds' = rounds
        BY <1>4, <3>3 DEF r
      <4>2. SameBest(r, run') /\ run'.state = "STOPPED" /\ run'.round = run.round
        <5>1. StillBest(r, run', "STOPPED")
          BY <3>1, <4>1, EndKeepsBest
        <5>2. QED  BY <3>1, <5>1 DEF StillBest
      <4>3. QED  BY <4>1, <4>2 DEF r
    <3>4. QED  BY <3>2, <3>3
  <2>4. /\ BestTables(run', assessments', candidates') /\ NotWorse
        /\ run.sealed => run'.sealed
        /\ ~run.sealed => AllBeaten'
    BY <1>4, <2>2, <2>3, RepairedBest
  <2> HIDE DEF s, as1, searching
  <2>5. /\ DOMAIN tasks' = DOMAIN tasks
        /\ \A u \in DOMAIN tasks : tasks'[u] = tasks[u] \/ Ended(u)
    <3> DEFINE row == [tasks[t] EXCEPT !.watchdog = "gone", !.state = "INTERRUPTED"]
    <3>1. /\ row \in TaskRow /\ row.purpose = tasks[t].purpose /\ row.state = "INTERRUPTED"
          /\ row.pid = tasks[t].pid /\ row.seen = tasks[t].seen /\ row.c = tasks[t].c
          /\ row.runner = tasks[t].runner /\ row.launch = tasks[t].launch /\ row.watchdog = "gone"
      BY <1>1 DEF TaskRow
    <3>2. tasks' = [tasks EXCEPT ![t] = row]
      BY <1>4
    <3> HIDE DEF row
    <3>3. Replaced(t) /\ tasks'[t] = row
      BY <1>1, <3>1, <3>2, ReplacedIs
    <3>4. Ended(t)
      BY <1>2, <3>1, <3>3 DEF Ended
    <3>5. QED  BY <3>3, <3>4 DEF Replaced
  <2>6. QED  BY <1>2, <2>3, <2>4, <2>5, CloseBest
<1>5. QED  BY <1>3, <1>4 DEF WatchdogCloses

LEMMA RecoverBest ==
  ASSUME ArtifactInv, BestInv, Recover
  PROVE  BestStep
<1> DEFINE s   == Reconcile
           as1 == Incomplete(SettleAll(s.assessments))
           why == IF UnknownSearchEffect(s.assessments, s.candidates)
                  THEN "UNKNOWN_SEARCH_EFFECT" ELSE "WORKER_INTERRUPTED"
           sealing == run.state = "SEARCHING" /\ Active # {} /\ ~over
<1>1. TypeOK /\ tasks' = EndActive("INTERRUPTED") /\ Recoverable
  BY DEF ArtifactInv, Recover
<1>2. \A u \in DOMAIN tasks : ~Alive(u)
  BY <1>1, OneAlive DEF ArtifactInv, Recoverable, Alive
<1>3. /\ DOMAIN tasks' = DOMAIN tasks /\ Active' = {}
      /\ \A u \in DOMAIN tasks : tasks'[u] = tasks[u] \/ Ended(u)
  BY <1>1, <1>2, ActiveEnd, NoneActive DEF Active
<1>4. /\ s.run \in RunRow /\ s.run.sealed = run.sealed /\ s.run.state = run.state
      /\ s.assessments \in Seq(AssessmentRow) /\ s.candidates \in Seq(CandidateRow)
  BY ReconciledRow
<1>5. CASE /\ run' = [s.run EXCEPT !.state = "FAILED", !.reason = "RECOVERY_EVIDENCE_FAILED"]
           /\ assessments' = s.assessments /\ candidates' = s.candidates
  <2>1. RepairWritten
    BY <1>5 DEF RepairWritten, SameRecords, SameRecord, SameOutcomes, SameOutcome
  <2>2. SameBest(s.run, run') /\ run'.state = "FAILED" /\ run'.sealed = run.sealed
    <3> DEFINE r == s.run
    <3>1. /\ r \in RunRow /\ r.sealed = run.sealed
          /\ run' = [r EXCEPT !.state = "FAILED", !.reason = "RECOVERY_EVIDENCE_FAILED"]
      BY <1>4, <1>5
    <3> HIDE DEF r
    <3>2. SameBest(r, run') /\ run'.state = "FAILED" /\ run'.sealed = run.sealed
      <4>1. StillBest(r, run', "FAILED")
        BY <3>1, EndKeepsBest
      <4>2. QED  BY <3>1, <4>1 DEF StillBest
    <3>3. QED  BY <3>2 DEF r
  <2>3. BestTables(run', assessments', candidates') /\ NotWorse
    BY <2>1, <2>2, RepairedBest
  <2>4. QED  BY <1>2, <1>3, <2>2, <2>3, CloseBest
<1>6. CASE /\ s.ok /\ assessments' = as1 /\ candidates' = SettleRequests(s.candidates)
           /\ run' = CASE over -> [s.run EXCEPT !.state = "STOPPED",
                                                !.reason = "GLOBAL_DEADLINE"]
                       [] sealing -> Seal(s.run, as1, why)
                       [] ~over /\ run.state = "FINALIZING" /\ Active # {} ->
                            [s.run EXCEPT !.state = "SEARCH_SEALED",
                                          !.reason = "AUDIT_INTERRUPTED"]
                       [] OTHER -> s.run
  <2>1. RepairWritten
    BY <1>4, <1>6, ClosedAreSame, RequestsAreSame DEF RepairWritten
  <2>2. /\ SameBest(s.run, run') /\ (run'.state = "SEARCHING" => run.state = "SEARCHING")
        /\ run'.state = "COMPLETED" => run.state = "COMPLETED"
    <3> DEFINE r == s.run
    <3>1. r \in RunRow /\ r.sealed = run.sealed /\ r.state = run.state
      BY <1>4
    <3> HIDE DEF r, as1, why
    <3>2. CASE over
      <4>1. run' = [r EXCEPT !.state = "STOPPED", !.reason = "GLOBAL_DEADLINE"]
        BY <1>6, <3>2 DEF r
      <4>2. SameBest(r, run') /\ run'.state = "STOPPED"
        <5>1. StillBest(r, run', "STOPPED")
          BY <3>1, <4>1, EndKeepsBest
        <5>2. QED  BY <3>1, <5>1 DEF StillBest
      <4>3. QED  BY <4>2 DEF r
    <3>3. CASE sealing
      <4>1. run' = Seal(r, as1, why) /\ ~r.sealed
        BY <1>6, <3>1, <3>3 DEF ArtifactInv, SealFits, r
      <4>2. SameBest(r, run') /\ run'.state = "SEARCH_SEALED"
        BY <3>1, <4>1, SealKeepsBest
      <4>3. QED  BY <4>2 DEF r
    <3>4. CASE ~over /\ run.state = "FINALIZING" /\ Active # {}
      <4>1. run' = [r EXCEPT !.state = "SEARCH_SEALED", !.reason = "AUDIT_INTERRUPTED"]
        BY <1>6, <3>4 DEF r
      <4>2. SameBest(r, run') /\ run'.state = "SEARCH_SEALED"
        <5>1. StillBest(r, run', "SEARCH_SEALED")
          BY <3>1, <4>1, EndKeepsBest
        <5>2. QED  BY <3>1, <5>1 DEF StillBest
      <4>3. QED  BY <4>2 DEF r
    <3>5. CASE ~over /\ ~sealing /\ ~(run.state = "FINALIZING" /\ Active # {})
      <4>1. run' = r
        BY <1>6, <3>5 DEF r
      <4>2. SameBest(r, run') /\ run'.state = run.state
        BY <3>1, <4>1 DEF SameBest
      <4>3. QED  BY <4>2 DEF r
    <3>6. QED  BY <3>2, <3>3, <3>4, <3>5
  <2>3. /\ BestTables(run', assessments', candidates') /\ NotWorse
        /\ run.sealed => run'.sealed
        /\ ~run.sealed => AllBeaten'
    BY <1>6, <2>1, <2>2, RepairedBest
  <2>4. run.state = "SEARCHING" => ~run.sealed
    BY DEF ArtifactInv, SealFits
  <2>5. run.state = "COMPLETED" => run.sealed
    BY DEF BestInv, AuditsAreSealed
  <2>6. QED  BY <1>2, <1>3, <2>2, <2>3, <2>4, <2>5, CloseBest
<1>7. QED  BY <1>5, <1>6 DEF Recover

-----------------------------------------------------------------------------
(* Every step keeps what is best                                           *)

LEMMA InitIsBest ==
  ASSUME Init
  PROVE  BestInv
<1>1. /\ tasks = <<>> /\ candidates = <<>> /\ assessments = <<>>
      /\ run = [state |-> "SEARCHING", reason |-> "none", round |-> 1, incumbent |-> 0,
                baseline |-> 0, sealed |-> FALSE, queue |-> <<>>, final |-> 0, summary |-> <<>>]
  BY DEF Init, TableInit
<1>2. run.incumbent = 0 /\ run.baseline = 0 /\ run.state = "SEARCHING"
  BY <1>1
<1>3. /\ DOMAIN tasks = {} /\ DOMAIN candidates = {} /\ DOMAIN assessments = {}
  BY <1>1
<1>4. BestTables(run, assessments, candidates)
  BY <1>2, <1>3 DEF BestTables, Ordered, OnDiskFits, SourcesFit, BaselineFits, BestKnown
<1>5. SearchersCompare /\ SearchIsBest /\ RoundExecutes /\ AuditsAreSealed
  BY <1>2, <1>3 DEF SearchersCompare, SearchIsBest, AllBeaten, CompleteOnline, RoundExecutes,
     Active, AuditsAreSealed
<1>6. QED  BY <1>4, <1>5 DEF BestInv

LEMMA RunnerBest ==
  ASSUME ArtifactInv, ArtifactInv', BestInv, NEW t \in DOMAIN tasks, Runner(t)
  PROVE  BestStep
<1>1. CASE Register(t) \/ Reserve(t) \/ Evaluate(t) \/ Collect(t) \/ Expire(t)
  BY <1>1, RegisterBest, ReserveBest, EvaluateBest, CollectBest, ExpireBest
<1>2. CASE Record(t) \/ Undo(t) \/ Shut(t) \/ Begin(t) \/ AcceptBaseline(t)
  BY <1>2, RecordBestStep, UndoBest, ShutBest, BeginBest, AcceptBaselineBest
<1>3. CASE Loop(t) \/ Generate(t) \/ StartRequest(t) \/ CallProvider(t) \/ Hear(t)
  BY <1>3, LoopBest, GenerateBest, StartRequestBest, CallProviderBest, HearBest
<1>4. CASE Reply(t) \/ Validate(t) \/ Compare(t) \/ FinishCandidate(t) \/ CloseRound(t)
  BY <1>4, ReplyBest, ValidateBest, CompareBest, FinishCandidateBest, CloseRoundBest
<1>5. CASE NextAudit(t) \/ Select(t) \/ Conclude(t) \/ Except(t) \/ End(t)
  BY <1>5, NextAuditBest, SelectBest, ConcludeBest, ExceptBest, EndBest
<1>6. QED  BY <1>1, <1>2, <1>3, <1>4, <1>5 DEF Runner

(* Every step keeps the invariant of the best, never takes a worse         *)
(* incumbent and never seals a search that has found a better one.         *)
LEMMA EveryStepIsBest ==
  ASSUME "watchdog" \notin Kinds, ArtifactInv, BestInv, [Next]_vars
  PROVE  BestStep
<1>1. ArtifactInv'
  BY ArtifactStep
<1>2. CASE UNCHANGED vars
  BY <1>2, TimeBest DEF vars
<1>3. CASE Agent
  <2>1. CASE SubmitPlan \/ SubmitEvaluation \/ MemoryWrite
    BY <2>1, AgentRoundsBest
  <2>2. CASE FinishRound
    BY <2>2, FinishRoundBest
  <2>3. CASE Launch("search")
    BY <2>3, LaunchBest
  <2>4. CASE Launch("audit")
    BY <2>4, LaunchBest
  <2>5. QED  BY <1>3, <2>1, <2>2, <2>3, <2>4 DEF Agent
<1>4. CASE Processes
  <2>1. ASSUME NEW t \in DOMAIN tasks, Launcher(t) PROVE BestStep
    BY <2>1, LauncherBest
  <2>2. ASSUME NEW t \in DOMAIN tasks, Runner(t) PROVE BestStep
    BY <1>1, <2>2, RunnerBest
  <2>3. ASSUME NEW t \in DOMAIN tasks, Watchdog(t) PROVE BestStep
    BY <2>3, WatchBest, WatchdogKillsBest, WatchdogClosesBest DEF Watchdog
  <2>4. ASSUME NEW a \in DOMAIN assessments, Worker(a) PROVE BestStep
    BY <2>4, WorkerBest
  <2>5. ASSUME NEW c \in DOMAIN candidates, Provider(c) PROVE BestStep
    BY <2>5, ProviderBest
  <2>6. QED  BY <1>4, <2>1, <2>2, <2>3, <2>4, <2>5 DEF Processes
<1>5. CASE Stop \/ StopKill \/ StopClose \/ Recover
  BY <1>5, StopBest, StopKillBest, StopCloseBest, RecoverBest
<1>6. CASE Crash
  <2>1. ASSUME NEW t \in DOMAIN tasks, RunnerDies(t) \/ DiesBeforeCommit(t) PROVE BestStep
    BY <2>1, RunnerDiesBest
  <2>2. ASSUME NEW t \in DOMAIN tasks, LauncherDies(t) PROVE BestStep
    BY <2>2, LauncherBest
  <2>3. ASSUME NEW t \in DOMAIN tasks, LaunchFails(t) PROVE BestStep
    BY <2>3, LaunchFailsBest
  <2>4. ASSUME NEW a \in DOMAIN assessments, WorkerDies(a) PROVE BestStep
    BY <2>4, WorkerBest
  <2>5. CASE Restart
    BY <2>5, RestartBest
  <2>6. QED  BY <1>6, <2>1, <2>2, <2>3, <2>4, <2>5 DEF Crash
<1>7. CASE SearchTimeEnds \/ TimeEnds
  BY <1>7, TimeBest DEF SearchTimeEnds, TimeEnds
<1>8. QED  BY <1>2, <1>3, <1>4, <1>5, <1>6, <1>7 DEF Next

-----------------------------------------------------------------------------
(* What a run completes with                                               *)

(* Finitely many numbers have a bound.                                     *)
LEMMA NumbersAreBounded ==
  ASSUME NEW n \in Nat, NEW f \in [1..n -> Nat]
  PROVE  \E b \in Nat : \A k \in 1..n : f[k] <= b
<1> DEFINE Bounds(k, b) == b \in Nat /\ \A j \in 1..k : f[j] <= b
           Odd == {k \in 0..n : ~ \E b : Bounds(k, b)}
<1>1. SUFFICES ASSUME Odd # {} PROVE FALSE
  <2>1. n \in 0..n
    OBVIOUS
  <2>2. QED  BY <2>1
<1>2. Odd \in SUBSET Nat
  OBVIOUS
<1>3. PICK k \in Odd : \A j \in Odd : k <= j
  BY <1>1, <1>2, SmallestNumber
<1>4. k # 0
  <2>1. Bounds(0, 0)
    OBVIOUS
  <2>2. QED  BY <2>1
<1>5. k \in 1..n /\ k - 1 \in 0..n /\ k - 1 \notin Odd
  <2>1. k \in 0..n
    BY <1>3
  <2>2. k \in 1..n /\ k - 1 \in 0..n /\ ~ (k <= k - 1)
    BY <2>1, <1>4
  <2> HIDE DEF Odd
  <2>3. QED  BY <1>3, <2>2
<1>6. PICK b : Bounds(k - 1, b)
  BY <1>5
<1>7. Bounds(k, IF b <= f[k] THEN f[k] ELSE b)
  <2>1. \A j \in 1..k : j \in 1..(k - 1) \/ j = k
    BY <1>5
  <2>2. \A j \in 1..k : f[j] \in Nat
    BY <1>5
  <2> HIDE DEF Odd
  <2>3. QED  BY <1>5, <1>6, <2>1, <2>2
<1>8. QED  BY <1>3, <1>7

(* A set of positions has one where f is largest.                          *)
LEMMA LargestOf ==
  ASSUME NEW n \in Nat, NEW f \in [1..n -> Nat], NEW S \in SUBSET (1..n), S # {}
  PROVE  \E x \in S : \A y \in S : f[y] <= f[x]
<1> DEFINE T == {f[y] : y \in S}
<1>1. PICK b \in Nat : \A k \in 1..n : f[k] <= b
  BY NumbersAreBounded
<1>2. T \in SUBSET (0..b) /\ T # {}
  <2>1. \A y \in S : f[y] \in 0..b
    <3>1. ASSUME NEW y \in S PROVE f[y] \in 0..b
      <4>1. y \in 1..n /\ f[y] \in Nat /\ f[y] <= b
        BY <1>1
      <4>2. QED  BY <1>1, <4>1
    <3>2. QED  BY <3>1
  <2>2. QED  BY <2>1
<1>3. \A y \in S : f[y] \in T
  OBVIOUS
<1>4. \A m \in T : \E x \in S : f[x] = m
  OBVIOUS
<1> HIDE DEF T
<1>5. Max(T) \in T /\ \A m \in T : m <= Max(T)
  BY <1>2, LargestNumber
<1>6. QED  BY <1>3, <1>4, <1>5

(* Sources of audits are told apart by their numbers, so that there is one *)
(* best among the audits that have passed.                                 *)
LEMMA BestPassedIs ==
  ASSUME TypeOK, SealFits, AuditsFit, Ordered(assessments), Passed # {}
  PROVE  /\ BestPassed \in Passed
         /\ \A d \in Passed : KeyOf(d, assessments) <= KeyOf(BestPassed, assessments)
<1> DEFINE n == Len(assessments)
           key == [b \in 1..n |-> Key[assessments[b].artifact]]
           number(b) == assessments[assessments[b].of].order
           Better(b, d) == \/ Key[assessments[b].artifact] > Key[assessments[d].artifact]
                           \/ /\ Key[assessments[b].artifact] = Key[assessments[d].artifact]
                              /\ EarlierSource(b, d)
           best == {b \in Passed : \A d \in Passed \ {b} : Better(b, d)}
<1>1. /\ n \in Nat /\ 1..n = DOMAIN assessments
      /\ \A b \in DOMAIN assessments : assessments[b] \in AssessmentRow /\ b # 0
  BY Rows
<1>2. Passed \in SUBSET (1..n)
  BY <1>1 DEF Passed, Audits
<1>3. key \in [1..n -> Nat]
  BY <1>1, BudgetAssumption DEF AssessmentRow
<1>4. \A b \in Passed : Key[assessments[b].artifact] = key[b] /\ key[b] \in Nat
  BY <1>2, <1>3
<1>5. \A b \in Passed : /\ assessments[b].of \in DOMAIN assessments
                        /\ number(b) \in Nat /\ number(b) # 0
  <2>1. ASSUME NEW b \in Passed
        PROVE  assessments[b].of \in DOMAIN assessments /\ number(b) \in Nat /\ number(b) # 0
    <3>1. assessments[b].of \in Range(run.queue)
      BY DEF AuditsFit, Passed
    <3>2. run.queue \in Seq(CompleteOnline(assessments))
      BY DEF SealFits, IsQueue
    <3>3. assessments[b].of \in CompleteOnline(assessments)
      BY <3>1, <3>2 DEF Range
    <3>4. QED  BY <1>1, <3>3 DEF CompleteOnline, Ordered, AssessmentRow
  <2>2. QED  BY <2>1
<1>6. \A b, d \in Passed : number(b) = number(d) => b = d
  <2>1. \A b, d \in Passed : number(b) = number(d) => assessments[b].of = assessments[d].of
    BY <1>5 DEF Ordered
  <2>2. QED  BY <2>1 DEF AuditsFit, Passed
<1> HIDE DEF n, key
<1>7. PICK x \in Passed : \A y \in Passed : key[y] <= key[x]
  BY <1>1, <1>2, <1>3, LargestOf
<1> DEFINE Top == {b \in Passed : key[b] = key[x]}
           Numbers == {number(b) : b \in Top}
<1>8. PICK z \in Top : \A d \in Top : number(z) <= number(d)
  <2>1. Numbers \in SUBSET Nat /\ Numbers # {}
    BY <1>5
  <2>2. PICK m \in Numbers : \A k \in Numbers : m <= k
    <3> HIDE DEF Numbers
    <3>1. QED  BY <2>1, SmallestNumber
  <2>3. QED  BY <2>2
<1>9. ASSUME NEW d \in Passed \ {z} PROVE Better(z, d)
  <2>1. key[d] <= key[z] /\ key[d] \in Nat /\ key[z] \in Nat
    BY <1>4, <1>7, <1>8
  <2>2. CASE key[d] = key[z]
    <3>1. d \in Top
      BY <1>8, <2>2
    <3>2. number(z) <= number(d) /\ number(z) # number(d)
      BY <1>6, <1>8, <3>1
    <3>3. number(z) < number(d)
      <4>1. number(z) \in Nat /\ number(d) \in Nat
        BY <1>5, <1>8
      <4> HIDE DEF number
      <4>2. QED  BY <3>2, <4>1
    <3>4. QED  BY <1>4, <1>8, <2>2, <3>3 DEF EarlierSource
  <2>3. CASE key[d] # key[z]
    <3>1. key[z] > key[d]
      BY <2>1, <2>3
    <3>2. QED  BY <1>4, <1>8, <3>1
  <2>4. QED  BY <2>2, <2>3
<1>10. z \in best
  BY <1>8, <1>9
<1>11. BestPassed = IF best = {} THEN 0 ELSE CHOOSE b \in best : TRUE
  BY DEF BestPassed
<1>12. BestPassed \in best
  <2> HIDE DEF best
  <2>1. QED  BY <1>10, <1>11
<1>13. ASSUME NEW d \in Passed PROVE KeyOf(d, assessments) <= KeyOf(BestPassed, assessments)
  <2>1. BestPassed \in Passed /\ (d # BestPassed => Better(BestPassed, d))
    BY <1>12
  <2>2. d # 0 /\ BestPassed # 0
    BY <1>1, <1>2, <2>1
  <2>3. /\ KeyOf(d, assessments) = key[d] /\ KeyOf(BestPassed, assessments) = key[BestPassed]
        /\ key[d] \in Nat /\ key[BestPassed] \in Nat
    BY <1>4, <2>1, <2>2 DEF KeyOf
  <2>4. key[d] <= key[BestPassed]
    BY <1>4, <2>1, <2>3
  <2>5. QED  BY <2>3, <2>4
<1>14. QED  BY <1>12, <1>13

(* Only the end of a finalization completes a run.                         *)
LEMMA SealIsNoEnd ==
  ASSUME NEW r \in RunRow, r.state # "COMPLETED", NEW tab, NEW why
  PROVE  Seal(r, tab, why).state # "COMPLETED"
<1>1. CASE r.sealed
  BY <1>1 DEF Seal
<1>2. CASE ~r.sealed
  BY <1>2, SealKeepsBest
<1>3. QED  BY <1>1, <1>2

LEMMA RunnersEnd ==
  ASSUME TypeOK, NEW t \in DOMAIN tasks, Runner(t),
         run.state # "COMPLETED", run'.state = "COMPLETED"
  PROVE  Conclude(t)
<1>1. run \in RunRow /\ run' # run
  BY Rows
<1> DEFINE Sealed(why) == Seal(run, assessments, why)
<1>2. \A why : Sealed(why).state # "COMPLETED"
  BY <1>1, SealIsNoEnd
<1> HIDE DEF Sealed
<1>3. ~ UNCHANGED run
  BY <1>1
<1>4. CASE Register(t) \/ Reserve(t) \/ Evaluate(t) \/ Collect(t) \/ Expire(t)
  BY <1>3, <1>4 DEF Register, Reserve, Evaluate, Collect, Expire
<1>5. CASE Record(t) \/ Undo(t) \/ Shut(t) \/ Begin(t)
  BY <1>3, <1>5 DEF Record, Undo, Shut, Begin
<1>6. CASE AcceptBaseline(t)
  <2>1. run' = TakeBaseline(run, tasks[t].a, assessments)
    BY <1>6 DEF AcceptBaseline
  <2>2. run'.state = run.state
    BY <1>1, <2>1 DEF TakeBaseline, RunRow
  <2>3. QED  BY <2>2
<1>7. CASE Loop(t) \/ Generate(t) \/ StartRequest(t) \/ CallProvider(t) \/ Hear(t)
  BY <1>3, <1>7 DEF Loop, Generate, StartRequest, CallProvider, Hear
<1>8. CASE Reply(t) \/ Validate(t) \/ FinishCandidate(t) \/ NextAudit(t) \/ Select(t) \/ End(t)
  BY <1>3, <1>8 DEF Reply, Validate, FinishCandidate, NextAudit, Select, End
<1>9. CASE Compare(t)
  <2>1. \E a : run' = [run EXCEPT !.incumbent = a]
    BY <1>1, <1>3, <1>9 DEF Compare
  <2>2. run'.state = run.state
    BY <1>1, <2>1 DEF RunRow
  <2>3. QED  BY <2>2
<1>10. CASE CloseRound(t)
  <2>1. \E why : run' = Sealed(why)
    BY <1>3, <1>10 DEF CloseRound, Sealed
  <2>2. QED  BY <1>2, <2>1
<1>11. CASE Except(t)
  <2>1. CASE run' = Sealed("ONLINE_OUTCOME_UNKNOWN")
    BY <1>2, <2>1
  <2>2. CASE run' = [run EXCEPT !.state = "FAILED", !.reason = tasks[t].why]
    BY <1>1, <2>2 DEF RunRow
  <2>3. QED  BY <1>3, <1>11, <2>1, <2>2 DEF Except, Sealed
<1>12. QED
  BY <1>4, <1>5, <1>6, <1>7, <1>8, <1>9, <1>10, <1>11 DEF Runner

LEMMA OnlyRunnersEnd ==
  ASSUME ArtifactInv, [Next]_vars, run.state # "COMPLETED", run'.state = "COMPLETED"
  PROVE  \E t \in DOMAIN tasks : Conclude(t)
<1>1. TypeOK /\ run \in RunRow /\ ~ UNCHANGED run
  BY Rows DEF ArtifactInv
<1> DEFINE Sealed(r, as, why) == Seal(r, as, why)
<1>2. \A row \in RunRow : row.state # "COMPLETED" =>
        \A as, why : Sealed(row, as, why).state # "COMPLETED"
  BY SealIsNoEnd
<1> HIDE DEF Sealed
<1>3. ASSUME NEW state, state # "COMPLETED", NEW why, NEW r \in RunRow,
             run' = [r EXCEPT !.state = state, !.reason = why]
      PROVE  FALSE
  BY <1>3 DEF RunRow
<1> DEFINE r == Reconcile.run
<1>4. r \in RunRow /\ r.state = run.state
  BY ReconciledRow
<1>5. CASE UNCHANGED vars \/ SearchTimeEnds \/ TimeEnds
  BY <1>1, <1>5 DEF vars, tables, SearchTimeEnds, TimeEnds
<1>6. CASE Agent
  <2>1. CASE SubmitPlan \/ SubmitEvaluation \/ MemoryWrite
    BY <1>1, <2>1 DEF SubmitPlan, SubmitEvaluation, MemoryWrite
  <2>2. CASE FinishRound
    <3>1. CASE run' = [run EXCEPT !.round = @ + 1]
      BY <1>1, <3>1 DEF RunRow
    <3>2. CASE \E why : run' = Sealed(run, assessments, why)
      BY <1>1, <1>2, <3>2
    <3>3. QED  BY <2>2, <3>1, <3>2 DEF FinishRound, Sealed
  <2>3. CASE Launch("search")
    BY <1>1, <2>3 DEF Launch
  <2>4. CASE Launch("audit")
    <3>1. run' = [run EXCEPT !.state = "FINALIZING"]
      BY <2>4 DEF Launch
    <3>2. QED  BY <1>1, <3>1 DEF RunRow
  <2>5. QED  BY <1>6, <2>1, <2>2, <2>3, <2>4 DEF Agent
<1>7. CASE Processes
  <2>1. ASSUME NEW t \in DOMAIN tasks, Launcher(t) PROVE FALSE
    BY <1>1, <2>1 DEF Launcher, SpawnRunner, SpawnWatchdog
  <2>2. ASSUME NEW a \in DOMAIN assessments, Worker(a) PROVE FALSE
    BY <1>1, <2>2 DEF Worker
  <2>3. ASSUME NEW c \in DOMAIN candidates, Provider(c) PROVE FALSE
    BY <1>1, <2>3 DEF Provider
  <2>4. ASSUME NEW t \in DOMAIN tasks, Watchdog(t) PROVE FALSE
    <3>1. CASE WatchdogLeaves(t) \/ WatchdogFires(t) \/ WatchdogKills(t)
      BY <1>1, <3>1 DEF WatchdogLeaves, WatchdogFires, WatchdogKills
    <3>2. CASE WatchdogCloses(t)
      <4>1. CASE UNCHANGED run
        BY <1>1, <4>1
      <4>2. CASE \E as : run' = Sealed(r, as, "SEARCH_DEADLINE")
        BY <1>2, <1>4, <4>2
      <4>3. CASE run' = [r EXCEPT !.state = "STOPPED", !.reason = "GLOBAL_DEADLINE"]
        BY <1>3, <1>4, <4>3
      <4>4. QED  BY <3>2, <4>1, <4>2, <4>3 DEF WatchdogCloses, Sealed
    <3>3. QED  BY <2>4, <3>1, <3>2 DEF Watchdog
  <2>5. QED  BY <1>1, <1>7, <2>1, <2>2, <2>3, <2>4, RunnersEnd DEF Processes
<1>8. CASE Stop \/ StopKill \/ StopClose \/ Recover
  <2>1. CASE Stop
    BY <1>1, <1>3, <2>1 DEF Stop
  <2>2. CASE StopKill
    BY <1>1, <2>2 DEF StopKill
  <2>3. CASE StopClose
    <3>1. CASE UNCHANGED run
      BY <1>1, <3>1
    <3>2. CASE run' = [r EXCEPT !.state = "STOPPED"]
      BY <1>4, <3>2 DEF RunRow
    <3>3. QED  BY <2>3, <3>1, <3>2 DEF StopClose, tables
  <2>4. CASE Recover
    <3>1. CASE run' = [r EXCEPT !.state = "FAILED", !.reason = "RECOVERY_EVIDENCE_FAILED"]
      BY <1>3, <1>4, <3>1
    <3>2. CASE run' = [r EXCEPT !.state = "STOPPED", !.reason = "GLOBAL_DEADLINE"]
      BY <1>3, <1>4, <3>2
    <3>3. CASE \E as, why : run' = Sealed(r, as, why)
      BY <1>2, <1>4, <3>3
    <3>4. CASE run' = [r EXCEPT !.state = "SEARCH_SEALED", !.reason = "AUDIT_INTERRUPTED"]
      BY <1>3, <1>4, <3>4
    <3>5. CASE run' = r
      BY <1>4, <3>5
    <3>6. QED  BY <2>4, <3>1, <3>2, <3>3, <3>4, <3>5 DEF Recover, Sealed
  <2>5. QED  BY <1>8, <2>1, <2>2, <2>3, <2>4
<1>9. CASE Crash
  <2>1. ASSUME NEW t \in DOMAIN tasks, DiesBeforeCommit(t) PROVE FALSE
    <3>1. run' = [run EXCEPT !.summary = Summary]
      BY <2>1 DEF DiesBeforeCommit
    <3>2. QED  BY <1>1, <3>1 DEF RunRow
  <2>2. ASSUME NEW t \in DOMAIN tasks, RunnerDies(t) \/ LauncherDies(t) PROVE FALSE
    BY <1>1, <2>2 DEF RunnerDies, LauncherDies
  <2>3. ASSUME NEW t \in DOMAIN tasks, LaunchFails(t) PROVE FALSE
    BY <1>1, <1>3, <2>3 DEF LaunchFails, SpawnFails
  <2>4. ASSUME NEW a \in DOMAIN assessments, WorkerDies(a) PROVE FALSE
    BY <1>1, <2>4 DEF WorkerDies
  <2>5. CASE Restart
    BY <1>1, <2>5 DEF Restart
  <2>6. QED  BY <1>9, <2>1, <2>2, <2>3, <2>4, <2>5 DEF Crash
<1>10. QED  BY <1>5, <1>6, <1>7, <1>8, <1>9 DEF Next

(* What a run completes with is the best of the audits that have passed.   *)
EndsWithBest ==
  run.state # "COMPLETED" /\ run'.state = "COMPLETED" =>
    \A b \in Passed : /\ run'.final \in Passed
                      /\ KeyOf(b, assessments) <= KeyOf(run'.final, assessments)

LEMMA StepEndsWithBest ==
  ASSUME ArtifactInv, BestInv, [Next]_vars
  PROVE  EndsWithBest
<1> SUFFICES ASSUME run.state # "COMPLETED", run'.state = "COMPLETED", NEW b \in Passed
             PROVE  /\ run'.final \in Passed
                    /\ KeyOf(b, assessments) <= KeyOf(run'.final, assessments)
  BY DEF EndsWithBest
<1>1. PICK t \in DOMAIN tasks : Conclude(t)
  BY OnlyRunnersEnd
<1>2. run \in RunRow /\ ~ UNCHANGED run
  BY Rows DEF ArtifactInv
<1>3. run' = [run EXCEPT !.state = "COMPLETED", !.final = Selected, !.summary = Summary]
  BY <1>1, <1>2 DEF Conclude
<1>4. run'.final = Selected
  BY <1>2, <1>3 DEF RunRow
<1>5. /\ BestPassed \in Passed
      /\ \A d \in Passed : KeyOf(d, assessments) <= KeyOf(BestPassed, assessments)
  BY BestPassedIs DEF ArtifactInv, BestInv, BestTables
<1>6. BestPassed # 0
  BY <1>5, Rows DEF ArtifactInv, Passed, Audits
<1>7. Selected = BestPassed
  BY <1>6 DEF Selected
<1>8. QED  BY <1>4, <1>5, <1>7

LEMMA StepImproves ==
  ASSUME ArtifactInv, ArtifactInv', NotWorse
  PROVE  KeyOf(run'.incumbent, assessments') >= KeyOf(run.incumbent, assessments)
<1>1. KeyOf(run.incumbent, assessments) \in Nat
  BY IncumbentKey DEF ArtifactInv
<1>2. KeyOf(run'.incumbent, assessments') \in Nat
  <2>1. /\ assessments' \in Seq(AssessmentRow)
        /\ run'.incumbent \in DOMAIN assessments' \cup {0}
    BY DEF ArtifactInv, TypeOK, TableTypeOK, SealFits, CompleteOnline
  <2>2. QED  BY <2>1, KeyIs
<1> DEFINE old == KeyOf(run.incumbent, assessments)
           new == KeyOf(run'.incumbent, assessments')
<1>3. old <= new
  BY DEF NotWorse
<1> HIDE DEF old, new
<1>4. old \in Nat /\ new \in Nat => new >= old
  BY <1>3
<1>5. QED  BY <1>1, <1>2, <1>4 DEF old, new

(* While a run searches, nothing that was accepted is better than the      *)
(* incumbent, and all that is better is about to be compared by the one    *)
(* runner at work, or left to recover by one that has died.                *)
THEOREM BestInvariant ==
  ASSUME "watchdog" \notin Kinds
  PROVE  Spec => []BestInv
<1>1. Init => BestInv
  BY InitIsBest
<1>2. ArtifactInv /\ BestInv /\ [Next]_vars => BestInv'
  BY EveryStepIsBest DEF BestStep
<1>3. QED  BY <1>1, <1>2, ArtifactInvariant, PTL DEF Spec

(* The best of a search is kept: what is sealed is no worse than any       *)
(* complete assessment, the incumbent is never replaced by a worse one,    *)
(* and a run completes with the best of the audits that have passed,       *)
(* wherever runners, launchers and machines died on the way.               *)
THEOREM BestIsAlwaysKept ==
  ASSUME "watchdog" \notin Kinds
  PROVE  Spec => BestIsKept
<1> DEFINE Seals == ~run.sealed /\ run'.sealed =>
             \A a \in CompleteOnline(assessments') :
               KeyOf(a, assessments') <= KeyOf(run'.incumbent, assessments')
           IsKept == KeyOf(run'.incumbent, assessments') >= KeyOf(run.incumbent, assessments)
<1>1. ArtifactInv /\ BestInv /\ [Next]_vars => [Seals]_vars
  BY EveryStepIsBest DEF BestStep, SealsBest
<1>2. ArtifactInv /\ BestInv /\ [Next]_vars => [EndsWithBest]_vars
  BY StepEndsWithBest
<1>3. ArtifactInv /\ BestInv /\ [Next]_vars => [IsKept]_vars
  BY ArtifactStep, EveryStepIsBest, StepImproves DEF BestStep
<1>4. Spec => [][Seals]_vars
  <2> HIDE DEF Seals
  <2>1. QED  BY <1>1, ArtifactInvariant, BestInvariant, PTL DEF Spec
<1>5. Spec => [][EndsWithBest]_vars
  BY <1>2, ArtifactInvariant, BestInvariant, PTL DEF Spec
<1>6. Spec => [][IsKept]_vars
  <2> HIDE DEF IsKept
  <2>1. QED  BY <1>3, ArtifactInvariant, BestInvariant, PTL DEF Spec
<1>7. QED
  BY <1>4, <1>5, <1>6 DEF BestIsKept, SealedIsBest, FinalIsBest, IncumbentImproves, EndsWithBest

=============================================================================
