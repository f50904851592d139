---------------------------- MODULE ArtifactProofs ----------------------------
(***************************************************************************)
(* Proofs about the optics session (ArtifactSession, ArtifactRunner,       *)
(* ArtifactSupervisor).                                                    *)
(***************************************************************************)
EXTENDS ArtifactSupervisor, FiniteSetTheorems, NaturalsInduction, TLAPS

-----------------------------------------------------------------------------
(* Folds.  The code goes through the rows of a table in order; the model  *)
(* does it with FoldLeft, whose recursive function has to be shown to      *)
(* exist.                                                                  *)

(* A set of naturals that is not empty has a smallest element.             *)
LEMMA SmallestNumber ==
  ASSUME NEW T \in SUBSET Nat, T # {}
  PROVE  \E x \in T : \A y \in T : x <= y
<1> DEFINE Less == {p \in Nat \X Nat : p[1] < p[2]}
<1>1. IsWellFoundedOn(Less, Nat)
  BY NatLessThanWellFounded DEF OpToRel
<1>2. T \subseteq Nat
  OBVIOUS
<1> HIDE DEF Less
<1>3. \E x \in T : \A y \in T : ~ (<<y, x>> \in Less)
  BY <1>1, <1>2, WFMin
<1>4. \A x, y \in Nat : ~ (<<y, x>> \in Less) => x <= y
  BY DEF Less
<1>5. QED  BY <1>3, <1>4

(* The largest of some numbers up to m is one of them.                     *)
LEMMA LargestNumber ==
  ASSUME NEW m \in Nat, NEW T \in SUBSET (0..m), T # {}
  PROVE  Max(T) \in T /\ \A y \in T : y <= Max(T)
<1> DEFINE Above == {k \in Nat : \A y \in T : y <= k}
<1>1. Above \in SUBSET Nat /\ m \in Above
  OBVIOUS
<1>2. PICK x \in Above : \A y \in Above : x <= y
  BY <1>1, SmallestNumber
<1>3. x \in T
  <2>1. SUFFICES ASSUME x \notin T PROVE FALSE
    OBVIOUS
  <2>2. \A y \in T : y \in Nat /\ y <= x /\ y # x
    BY <1>2, <2>1
  <2>3. x >= 1 /\ x \in Nat
    <3>1. PICK y \in T : TRUE
      OBVIOUS
    <3>2. x \in Nat
      BY <1>2
    <3>3. QED  BY <2>2, <3>1, <3>2
  <2>4. x - 1 \in Above
    BY <2>2, <2>3
  <2>5. QED  BY <1>2, <2>4
<1>4. \A y \in T : x >= y
  BY <1>2
<1>5. QED  BY <1>3, <1>4 DEF Max

LEMMA LargestOfPlaces ==
  ASSUME NEW m \in Nat, NEW T \in SUBSET (1..m), T # {}
  PROVE  Max(T) \in 1..m
<1>1. T \in SUBSET (0..m)
  OBVIOUS
<1>2. QED  BY <1>1, LargestNumber

(* What a fold over 1..m computes for the sets of indices up to m: F is    *)
(* the step, V a set that it does not leave.                               *)
FoldsTo(g, F, base, V, m) ==
  /\ g \in [SUBSET (1..m) -> V]
  /\ \A T \in SUBSET (1..m) :
       g[T] = IF T = {} THEN base ELSE F[<<g[T \ {Max(T)}], Max(T)>>]

LEMMA FoldExists ==
  ASSUME NEW V, NEW n \in Nat, NEW F \in [V \X (1..n) -> V], NEW base \in V
  PROVE  \E g : FoldsTo(g, F, base, V, n)
<1> DEFINE Without == {m \in 0..n : ~ \E g : FoldsTo(g, F, base, V, m)}
<1>1. SUFFICES ASSUME Without # {} PROVE FALSE
  OBVIOUS
<1>2. Without \in SUBSET Nat
  OBVIOUS
<1>3. PICK m \in Without : \A k \in Without : m <= k
  BY <1>1, <1>2, SmallestNumber
<1>4. CASE m = 0
  <2>1. FoldsTo([T \in SUBSET (1..0) |-> base], F, base, V, 0)
    <3>1. \A T \in SUBSET (1..0) : T = {}
      OBVIOUS
    <3>2. QED  BY <3>1 DEF FoldsTo
  <2>2. QED  BY <1>3, <1>4, <2>1
<1>5. CASE m # 0
  <2>1. m - 1 \in 0..n /\ m \in 1..n /\ m - 1 \notin Without
    BY <1>3, <1>5
  <2>2. PICK g : FoldsTo(g, F, base, V, m - 1)
    BY <2>1
  <2> DEFINE P == SUBSET (1..m)
             h == [T \in P |-> IF m \in T THEN F[<<g[T \ {m}], m>>] ELSE g[T]]
  <2>3. ASSUME NEW T \in P
        PROVE  /\ h[T] \in V
               /\ h[T] = IF T = {} THEN base ELSE F[<<h[T \ {Max(T)}], Max(T)>>]
    <3>1. CASE m \in T
      <4>1. Max(T) = m
        <5>1. T \in SUBSET (0..m) /\ T # {} /\ m \in Nat
          BY <3>1, <2>1
        <5>2. Max(T) \in T /\ m <= Max(T)
          BY <5>1, <3>1, LargestNumber
        <5>3. Max(T) \in 1..m
          BY <5>2
        <5>4. QED  BY <5>2, <5>3, <2>1
      <4>2. T \ {m} \in P /\ m \notin T \ {m} /\ T # {} /\ T \ {m} \in SUBSET (1..(m - 1))
        BY <3>1, <2>1
      <4>3. g[T \ {m}] \in V
        BY <2>2, <4>2 DEF FoldsTo
      <4>4. h[T] = F[<<g[T \ {m}], m>>] /\ h[T \ {m}] = g[T \ {m}]
        BY <3>1, <4>2
      <4>5. QED  BY <2>1, <4>1, <4>2, <4>3, <4>4
    <3>2. CASE m \notin T
      <4>1. T \in SUBSET (1..(m - 1))
        BY <3>2, <2>1
      <4>2. g[T] \in V /\ g[T] = IF T = {} THEN base ELSE F[<<g[T \ {Max(T)}], Max(T)>>]
        BY <2>2, <4>1 DEF FoldsTo
      <4>3. h[T] = g[T] /\ T \ {Max(T)} \in P /\ h[T \ {Max(T)}] = g[T \ {Max(T)}]
        BY <3>2
      <4>4. QED  BY <4>2, <4>3
    <3>3. QED  BY <3>1, <3>2
  <2>4. h \in [P -> V]
    <3>1. h = [T \in P |-> h[T]]
      OBVIOUS
    <3> HIDE DEF h
    <3>2. QED  BY <2>3, <3>1
  <2>5. FoldsTo(h, F, base, V, m)
    <3> HIDE DEF h
    <3>1. QED  BY <2>3, <2>4 DEF FoldsTo
  <2>6. QED  BY <1>3, <2>5
<1>6. QED  BY <1>4, <1>5

(* A fold does not leave a set that its steps do not leave.                *)
LEMMA FoldStays ==
  ASSUME NEW V, NEW n \in Nat, NEW G, G[{}] \in V,
         \A T \in SUBSET (1..n) : T # {} /\ G[T \ {Max(T)}] \in V => G[T] \in V
  PROVE  G[1..n] \in V
<1> DEFINE Odd == {k \in 0..n : G[1..k] \notin V}
<1>1. n \in 0..n
  OBVIOUS
<1>2. SUFFICES ASSUME n \in Odd PROVE FALSE
  BY <1>1
<1>3. Odd \in SUBSET Nat
  OBVIOUS
<1>4. PICK k \in Odd : \A j \in Odd : k <= j
  BY <1>2, <1>3, SmallestNumber
<1>5. k # 0
  <2>1. 1..0 = {}
    OBVIOUS
  <2>2. G[1..k] \notin V
    OBVIOUS
  <2>3. QED  BY <2>1, <2>2
<1>6. k \in 1..n /\ k - 1 \in 0..n /\ k - 1 \notin Odd
  BY <1>4, <1>5
<1> HIDE DEF Odd
<1>7. Max(1..k) = k
  <2>1. 1..k \in SUBSET (0..k) /\ 1..k # {} /\ k \in 1..k /\ k \in Nat
    BY <1>6
  <2>2. Max(1..k) \in 1..k /\ k <= Max(1..k)
    BY <2>1, LargestNumber
  <2>3. QED  BY <1>6, <2>2
<1>8. (1..k) \ {k} = 1..(k - 1) /\ 1..k \in SUBSET (1..n) /\ 1..k # {}
  <2>1. k \in Nat /\ k \in 1..k /\ k <= n
    BY <1>6
  <2>2. QED  BY <2>1
<1>9. G[1..(k - 1)] \in V
  BY <1>6 DEF Odd
<1>10. G[1..k] \in V
  BY <1>7, <1>8, <1>9
<1>11. QED  BY <1>4, <1>10 DEF Odd

(* The last number that was given to an assessment is a natural number.    *)
LEMMA LastNumber ==
  ASSUME NEW tab \in Seq(AssessmentRow)
  PROVE  /\ Recorded(tab) \in Nat
         /\ \A a \in DOMAIN tab : tab[a].order <= Recorded(tab)
         /\ Recorded(tab) # 0 => \E a \in DOMAIN tab : tab[a].order = Recorded(tab)
<1> DEFINE Number(a) == tab[a].order
           Numbers == {0} \cup {Number(a) : a \in DOMAIN tab}
           Bounds(k, b) == b \in Nat /\ \A a \in 1..k : Number(a) <= b
           Odd == {k \in 0..Len(tab) : ~ \E b : Bounds(k, b)}
<1>1. Len(tab) \in Nat /\ DOMAIN tab = 1..Len(tab)
  OBVIOUS
<1>2. \A a \in DOMAIN tab : Number(a) \in Nat
  <2>1. \A a \in DOMAIN tab : tab[a] \in AssessmentRow
    OBVIOUS
  <2>2. QED  BY <2>1 DEF AssessmentRow
<1> HIDE DEF Number
<1>3. \E b : Bounds(Len(tab), b)
  <2>1. SUFFICES ASSUME Odd # {} PROVE FALSE
    BY <1>1
  <2>2. Odd \in SUBSET Nat
    BY <1>1
  <2>3. PICK k \in Odd : \A j \in Odd : k <= j
    BY <2>1, <2>2, SmallestNumber
  <2>4. k # 0
    <3>1. Bounds(0, 0)
      OBVIOUS
    <3>2. QED  BY <3>1
  <2>5. k - 1 \in 0..Len(tab) /\ k - 1 \notin Odd /\ k \in 1..Len(tab)
    <3>1. k \in 0..Len(tab)
      BY <2>3
    <3>2. k - 1 \in 0..Len(tab) /\ k \in 1..Len(tab) /\ ~ (k <= k - 1)
      BY <3>1, <2>4, <1>1
    <3> HIDE DEF Odd
    <3>3. QED  BY <2>3, <3>2
  <2>6. PICK b : Bounds(k - 1, b)
    BY <2>5
  <2>7. Number(k) \in Nat
    BY <2>5, <1>1, <1>2
  <2>8. Bounds(k, IF b <= Number(k) THEN Number(k) ELSE b)
    <3>1. k \in Nat
      BY <2>5, <1>1
    <3>2. \A a \in 1..k : a \in 1..(k - 1) \/ a = k
      BY <3>1
    <3>3. \A a \in 1..k : Number(a) \in Nat
      BY <2>5, <1>1, <1>2
    <3> HIDE DEF Odd
    <3>4. QED  BY <3>2, <3>3, <2>6, <2>7
  <2>9. QED  BY <2>3, <2>8
<1>4. PICK b : Bounds(Len(tab), b)
  BY <1>3
<1>5. Numbers \in SUBSET (0..b) /\ Numbers # {} /\ b \in Nat
  BY <1>1, <1>2, <1>4
<1>6. Max(Numbers) \in Numbers /\ \A y \in Numbers : y <= Max(Numbers)
  <2> HIDE DEF Numbers
  <2>1. QED  BY <1>5, LargestNumber
<1>7. Recorded(tab) = Max(Numbers)
  BY DEF Recorded, Number
<1>8. QED
  <2>1. Max(Numbers) \in Nat
    BY <1>5, <1>6
  <2>2. \A a \in DOMAIN tab : Number(a) <= Max(Numbers)
    BY <1>6
  <2>3. Max(Numbers) # 0 => \E a \in DOMAIN tab : Number(a) = Max(Numbers)
    BY <1>6
  <2> HIDE DEF Numbers
  <2>4. QED  BY <1>7, <2>1, <2>2, <2>3 DEF Number

(* A queue of complete online assessments, each artifact once.             *)
IsQueue(queue, tab) ==
  /\ queue \in Seq(CompleteOnline(tab))
  /\ \A i, j \in DOMAIN queue : tab[queue[i]].artifact = tab[queue[j]].artifact => i = j

LEMMA EnqueueKeeps ==
  ASSUME NEW tab, NEW queue, IsQueue(queue, tab), NEW a \in CompleteOnline(tab)
  PROVE  IsQueue(Enqueue(queue, a, tab), tab)
<1> DEFINE C == CompleteOnline(tab)
           longer == Append(queue, a)
<1>1. queue \in Seq(C) /\ Len(queue) \in Nat /\ DOMAIN queue = 1..Len(queue)
  BY DEF IsQueue
<1>2. CASE Enqueue(queue, a, tab) = queue
  BY <1>2
<1>3. CASE \A i \in DOMAIN queue : tab[queue[i]].artifact # tab[a].artifact
  <2> HIDE DEF C
  <2>1. /\ longer \in Seq(C) /\ DOMAIN longer = 1..(Len(queue) + 1)
        /\ longer[Len(queue) + 1] = a /\ \A i \in 1..Len(queue) : longer[i] = queue[i]
    BY <1>1 DEF C
  <2>2. ASSUME NEW i \in DOMAIN longer, NEW j \in DOMAIN longer,
               tab[longer[i]].artifact = tab[longer[j]].artifact
        PROVE  i = j
    <3>1. (i \in 1..Len(queue) \/ i = Len(queue) + 1) /\ (j \in 1..Len(queue) \/ j = Len(queue) + 1)
      BY <1>1, <2>1, <2>2
    <3> HIDE DEF longer
    <3>2. QED  BY <1>1, <1>3, <2>1, <2>2, <3>1 DEF IsQueue
  <2>3. IsQueue(longer, tab)
    <3> HIDE DEF longer
    <3>1. QED  BY <2>1, <2>2 DEF IsQueue, C
  <2>4. QED  BY <2>3 DEF Enqueue
<1>4. QED  BY <1>2, <1>3 DEF Enqueue

LEMMA QueueIsCut ==
  ASSUME NEW tab, NEW queue, IsQueue(queue, tab), NEW m \in Nat, m <= Len(queue)
  PROVE  IsQueue(SubSeq(queue, 1, m), tab)
<1> DEFINE C == CompleteOnline(tab)
<1> HIDE DEF C
<1>1. queue \in Seq(C) /\ Len(queue) \in Nat /\ DOMAIN queue = 1..Len(queue)
  BY DEF IsQueue, C
<1>2. SubSeq(queue, 1, m) \in Seq(C) /\ DOMAIN SubSeq(queue, 1, m) = 1..m
  BY <1>1
<1>3. \A i \in 1..m : SubSeq(queue, 1, m)[i] = queue[i] /\ i \in 1..Len(queue)
  BY <1>1
<1>4. QED  BY <1>1, <1>2, <1>3 DEF IsQueue, C

(* What a seal freezes is a queue of complete assessments.                 *)
LEMMA AuditQueueIsQueue ==
  ASSUME NEW tab \in Seq(AssessmentRow), NEW best, best = 0 \/ best \in CompleteOnline(tab)
  PROVE  IsQueue(AuditQueue(best, tab), tab)
<1> DEFINE n     == Recorded(tab)
           V     == {q \in Seq(CompleteOnline(tab)) : IsQueue(q, tab)}
           first == IF best = 0 THEN <<>> ELSE Enqueue(<<>>, best, tab)
           F     == [p \in V \X (1..n) |-> EnqueueNext(p[1], p[2], tab)]
           G     == CHOOSE g : g = [T \in SUBSET DOMAIN Upto(n) |->
                      IF T = {} THEN first
                      ELSE EnqueueNext(g[T \ {Max(T)}], Upto(n)[Max(T)], tab)]
<1>1. n \in Nat
  BY LastNumber
<1>2. first \in V
  <2>1. IsQueue(<<>>, tab)
    BY DEF IsQueue
  <2>2. IsQueue(first, tab)
    BY <2>1, EnqueueKeeps
  <2>3. QED  BY <2>2 DEF IsQueue
<1>3. \A q \in V, k \in 1..n : EnqueueNext(q, k, tab) \in V
  <2> SUFFICES ASSUME NEW q \in V, NEW k \in 1..n PROVE EnqueueNext(q, k, tab) \in V
    OBVIOUS
  <2> DEFINE next == {a \in CompleteOnline(tab) : tab[a].order = k}
  <2>1. CASE next = {}
    BY <2>1 DEF EnqueueNext
  <2>2. CASE next # {}
    <3>1. (CHOOSE a \in next : TRUE) \in CompleteOnline(tab)
      BY <2>2
    <3>2. IsQueue(Enqueue(q, CHOOSE a \in next : TRUE, tab), tab)
      BY <3>1, EnqueueKeeps
    <3>3. QED  BY <2>2, <3>2 DEF EnqueueNext, IsQueue
  <2>3. QED  BY <2>1, <2>2
<1>4. F \in [V \X (1..n) -> V]
  <2> HIDE DEF V, n
  <2>1. QED  BY <1>3
<1>5. DOMAIN Upto(n) = 1..n /\ \A i \in 1..n : Upto(n)[i] = i
  BY DEF Upto
<1>6. PICK g : FoldsTo(g, F, first, V, n)
  <2> HIDE DEF V, n, F, first
  <2>1. QED  BY <1>1, <1>2, <1>4, FoldExists
<1>7. G = [T \in SUBSET DOMAIN Upto(n) |->
             IF T = {} THEN first ELSE EnqueueNext(G[T \ {Max(T)}], Upto(n)[Max(T)], tab)]
  <2> DEFINE Body(h, T) == IF T = {} THEN first
                           ELSE EnqueueNext(h[T \ {Max(T)}], Upto(n)[Max(T)], tab)
  <2>1. ASSUME NEW T \in SUBSET (1..n) PROVE g[T] = Body(g, T)
    <3>1. CASE T = {}
      BY <3>1, <1>6 DEF FoldsTo
    <3>2. CASE T # {}
      <4>1. Max(T) \in 1..n
        <5> HIDE DEF n
        <5>1. QED  BY <1>1, <3>2, LargestOfPlaces
      <4>2. T \ {Max(T)} \in SUBSET (1..n)
        OBVIOUS
      <4>3. g[T \ {Max(T)}] \in V /\ g[T] = F[<<g[T \ {Max(T)}], Max(T)>>]
        <5> HIDE DEF V, n, F, first
        <5>1. QED  BY <4>2, <3>2, <1>6 DEF FoldsTo
      <4>4. F[<<g[T \ {Max(T)}], Max(T)>>] = EnqueueNext(g[T \ {Max(T)}], Max(T), tab)
        <5> HIDE DEF V, n, first
        <5>1. QED  BY <4>1, <4>3
      <4>5. Upto(n)[Max(T)] = Max(T)
        <5> HIDE DEF n
        <5>1. QED  BY <4>1, <1>5
      <4> HIDE DEF V, n, F, first, G
      <4>6. QED  BY <4>3, <4>4, <4>5, <3>2
    <3>3. QED  BY <3>1, <3>2
  <2>2. g = [T \in SUBSET (1..n) |-> g[T]]
    <3> HIDE DEF V, n, F, first
    <3>1. QED  BY <1>6 DEF FoldsTo
  <2>3. g = [T \in SUBSET DOMAIN Upto(n) |-> Body(g, T)]
    <3> HIDE DEF Body, n, V, F, first
    <3>1. QED  BY <2>1, <2>2, <1>5
  <2>4. QED
    <3> HIDE DEF n, V, F, first
    <3>1. \E h : h = [T \in SUBSET DOMAIN Upto(n) |-> Body(h, T)]
      BY <2>3
    <3>2. QED  BY <3>1
<1>8. G[1..n] \in V
  <2>1. G[{}] = first
    <3>1. {} \in SUBSET DOMAIN Upto(n)
      OBVIOUS
    <3> HIDE DEF n, V, F, first, G
    <3>2. QED  BY <3>1, <1>7
  <2>2. ASSUME NEW T \in SUBSET (1..n), T # {}, G[T \ {Max(T)}] \in V
        PROVE  G[T] \in V
    <3> HIDE DEF n, V, F, first, G
    <3>1. Max(T) \in 1..n
      BY <1>1, <2>2, LargestOfPlaces
    <3>2. G[T] = EnqueueNext(G[T \ {Max(T)}], Max(T), tab)
      BY <1>5, <1>7, <2>2, <3>1
    <3>3. QED  BY <1>3, <2>2, <3>1, <3>2
  <2>3. G[{}] \in V
    <3> HIDE DEF n, V, F, first, G
    <3>1. QED  BY <2>1, <1>2
  <2> HIDE DEF n, V, F, first, G
  <2>4. QED  BY <1>1, <2>2, <2>3, FoldStays
<1> DEFINE all == G[1..n]
           m   == IF Len(all) < MaxAudits THEN Len(all) ELSE MaxAudits
<1>9. AuditQueue(best, tab) = SubSeq(all, 1, m)
  <2>1. G[1..n] = G[DOMAIN Upto(n)]
    <3> HIDE DEF n, G
    <3>1. QED  BY <1>5
  <2> DEFINE Step(q, k) == EnqueueNext(q, k, tab)
  <2>2. FoldLeft(Step, first, Upto(n)) = G[DOMAIN Upto(n)]
    <3> HIDE DEF first, n
    <3>1. QED  BY DEF FoldLeft, MapThenFoldSet
  <2>3. AuditQueue(best, tab)
          = SubSeq(FoldLeft(Step, first, Upto(n)), 1,
                   IF Len(FoldLeft(Step, first, Upto(n))) < MaxAudits
                   THEN Len(FoldLeft(Step, first, Upto(n))) ELSE MaxAudits)
    BY DEF AuditQueue
  <2>4. FoldLeft(Step, first, Upto(n)) = all
    BY <2>1, <2>2
  <2> HIDE DEF all, n, first, Step
  <2>5. QED  BY <2>3, <2>4
<1>10. m \in Nat /\ m <= Len(all) /\ IsQueue(all, tab)
  <2>1. IsQueue(all, tab)
    <3> HIDE DEF n, G
    <3>1. QED  BY <1>8
  <2>2. Len(all) \in Nat
    <3> HIDE DEF all
    <3>1. QED  BY <2>1 DEF IsQueue
  <2> HIDE DEF all
  <2>3. QED  BY <2>1, <2>2, BudgetAssumption
<1> HIDE DEF m, all
<1>11. QED  BY <1>9, <1>10, QueueIsCut

-----------------------------------------------------------------------------
(* The inductive invariant                                                 *)

SearchSteps == {"begin", "baseline", "loop", "generate", "start", "call", "wait", "reply",
                "validate", "compare", "finish", "close"}
AuditSteps == {"audits", "select", "conclude"}
SharedSteps == {"assess", "evaluate", "await", "record", "undo", "shut", "raise", "done", "failed"}
Assessing == {"evaluate", "await", "record", "undo", "shut"}
OfCandidate == {"start", "call", "wait", "reply", "validate", "compare", "finish"}
AfterBaseline == SearchSteps \ {"begin", "baseline"}

Alive(t) == tasks[t].runner = "alive"
Searches(t) == tasks[t].purpose = "search"

(* The processes of the launches.  A task at a time is active, and only    *)
(* its runner works.                                                       *)
OneActive == \A t, u \in Active : t = u
RunnerOfActive(t) ==
  /\ Alive(t) => tasks[t].state = "RUNNING" /\ tasks[t].pid
  /\ tasks[t].state = "STARTING" => ~tasks[t].pid
  /\ tasks[t].launch = "committed" => tasks[t].runner = "none"
  /\ tasks[t].runner \in {"none", "spawned"} => ~tasks[t].pid /\ tasks[t].c = 0

(* A watchdog that fires is late: no runner of a search can start again.   *)
WatchdogIsLate(t) ==
  /\ tasks[t].watchdog \in {"firing", "killed"} =>
       /\ Deadline(tasks[t].purpose)
       /\ \A u \in DOMAIN tasks : Alive(u) /\ Searches(u) => u = t
  /\ tasks[t].watchdog = "firing" /\ ~tasks[t].seen => ~tasks[t].pid
  /\ tasks[t].watchdog = "killed" => ~Alive(t)

StopperIsAlone ==
  stopper = "killed" /\ run.state = "STOPPING" => \A t \in DOMAIN tasks : ~Alive(t)

ProcessInv ==
  /\ OneActive /\ StopperIsAlone
  /\ \A t \in DOMAIN tasks : RunnerOfActive(t) /\ WatchdogIsLate(t)

(* What a runner at work knows.                                            *)
StepFits(t) ==
  tasks[t].at \in SharedSteps \cup (IF Searches(t) THEN SearchSteps ELSE AuditSteps)

Target(t) == IF tasks[t].c = 0 THEN 0 ELSE candidates[tasks[t].c].artifact
Replied(c) == c \in DOMAIN candidates /\ candidates[c].reply = "complete"
RequestFits(t) ==
  /\ tasks[t].at \in OfCandidate => tasks[t].c \in DOMAIN candidates
  /\ tasks[t].at \in {"start", "call"} => candidates[tasks[t].c].provider = "none"
  /\ tasks[t].at = "reply" => /\ tasks[t].verdict \in DOMAIN Terminal
                              /\ tasks[t].verdict = "complete" => Replied(tasks[t].c)
  /\ tasks[t].at = "finish" => tasks[t].verdict \in CandidateStates
  /\ tasks[t].at = "shut" => tasks[t].verdict \in Exits
  /\ tasks[t].at = "undo" => tasks[t].verdict \in Exits
  /\ tasks[t].at = "validate" => Replied(tasks[t].c)
  /\ Searches(t) /\ tasks[t].c # 0 /\ tasks[t].at \in Assessing \cup {"assess"} =>
       Replied(tasks[t].c)

AssessmentFits(t) ==
  /\ tasks[t].at \in Assessing =>
       /\ tasks[t].a \in DOMAIN assessments
       /\ assessments[tasks[t].a].mode = IF Searches(t) THEN "online" ELSE "audit"
       /\ IF Searches(t) THEN assessments[tasks[t].a].state = "RESERVED"
          ELSE assessments[tasks[t].a].state # "INVALID"
  /\ tasks[t].at \in {"compare", "baseline"} => tasks[t].a \in CompleteOnline(assessments)

(* What it is about to assess was not assessed before.                     *)
Online(a) == assessments[a].mode = "online"
AssessesNew(t) ==
  tasks[t].at = "assess" =>
    IF Searches(t)
    THEN run.state = "SEARCHING" =>
           \A a \in DOMAIN assessments :
             Online(a) /\ assessments[a].artifact = Target(t) => assessments[a].state = "INVALID"
    ELSE tasks[t].c \in Range(run.queue) /\ ~Attempted(tasks[t].c)

BaselineIsKnown(t) ==
  Searches(t) /\ (tasks[t].at \in AfterBaseline \/ tasks[t].c # 0) => run.baseline # 0

Knows(t) ==
  StepFits(t) /\ RequestFits(t) /\ AssessmentFits(t) /\ AssessesNew(t) /\ BaselineIsKnown(t)
RunnersKnow == \A t \in DOMAIN tasks : Alive(t) => Knows(t)

(* The tables.                                                             *)
RepliesFit ==
  \A c \in DOMAIN candidates :
    /\ candidates[c].provider # "gone" => candidates[c].reply = "none"
    /\ candidates[c].reply = "complete" => candidates[c].artifact \in Artifacts
    /\ candidates[c].reuse # 0 => candidates[c].reuse \in CompleteOnline(assessments)

(* The queue is that of the seal, and every audit is of one of its entries.*)
SealFits ==
  /\ run.state = "SEARCHING" => ~run.sealed
  /\ run.state \in {"SEARCH_SEALED", "FINALIZING"} => run.sealed
  /\ ~run.sealed => run.queue = <<>>
  /\ IsQueue(run.queue, assessments)
  /\ run.incumbent # 0 => run.incumbent \in CompleteOnline(assessments)
AuditsFit ==
  /\ \A b \in Audits : /\ assessments[b].of \in Range(run.queue)
                       /\ assessments[b].artifact = assessments[assessments[b].of].artifact
  /\ \A b, d \in Audits : assessments[b].of = assessments[d].of => b = d

(* As long as the run searches, an assessment that is not settled is in    *)
(* the hands of a task that ends the search, and before there is a         *)
(* baseline every assessment is.                                           *)
Settled(a) == assessments[a].state \in {"COMPLETE", "INVALID"}
Leaves(t) ==
  /\ t \in Active /\ Searches(t) /\ tasks[t].pid
  /\ \/ tasks[t].runner = "gone"
     \/ Alive(t) /\ tasks[t].at = "raise"
     \/ Alive(t) /\ tasks[t].at \in {"finish", "close"} /\ tasks[t].why # "none"
Assesses(t, a) ==
  t \in Active /\ Searches(t) /\ Alive(t) /\ tasks[t].at \in Assessing /\ tasks[t].a = a
SearchIsSettled ==
  run.state = "SEARCHING" =>
    \A a \in DOMAIN assessments : Online(a) /\ ~Settled(a) =>
      \E t \in DOMAIN tasks : Leaves(t) \/ Assesses(t, a)
BaselineIsFirst ==
  run.state = "SEARCHING" /\ run.baseline = 0 =>
    \A a \in DOMAIN assessments : Online(a) =>
      \E t \in DOMAIN tasks :
        \/ Leaves(t)
        \/ Assesses(t, a) /\ tasks[t].c = 0
        \/ t \in Active /\ Alive(t) /\ tasks[t].at = "baseline"

ArtifactInv ==
  /\ TypeOK /\ ProcessInv /\ RunnersKnow /\ RepliesFit /\ SealFits /\ AuditsFit
  /\ SearchIsSettled /\ BaselineIsFirst /\ NoReplay

-----------------------------------------------------------------------------
(* Rows                                                                    *)

(* A row of a table is replaced by another row of its kind.                *)
LEMMA RowReplaced ==
  ASSUME NEW R, NEW s \in Seq(R), NEW i, NEW row, i \in DOMAIN s => row \in R
  PROVE  /\ [s EXCEPT ![i] = row] \in Seq(R)
         /\ DOMAIN [s EXCEPT ![i] = row] = DOMAIN s
         /\ \A j \in DOMAIN s : [s EXCEPT ![i] = row][j] = IF j = i THEN row ELSE s[j]
<1> DEFINE new == [s EXCEPT ![i] = row]
<1>1. Len(s) \in Nat /\ DOMAIN s = 1..Len(s) /\ \A j \in DOMAIN s : s[j] \in R
  OBVIOUS
<1>2. new = [j \in 1..Len(s) |-> IF j = i THEN row ELSE s[j]]
  BY <1>1
<1>3. new \in [1..Len(s) -> R]
  BY <1>1, <1>2
<1>4. QED  BY <1>1, <1>2, <1>3

(* Every row of a table is replaced.                                       *)
LEMMA RowsReplaced ==
  ASSUME NEW R, NEW s \in Seq(R), NEW new, DOMAIN new = DOMAIN s,
         new = [j \in DOMAIN new |-> new[j]], \A j \in DOMAIN s : new[j] \in R
  PROVE  new \in Seq(R)
<1>1. Len(s) \in Nat /\ DOMAIN s = 1..Len(s)
  OBVIOUS
<1>2. new \in [1..Len(s) -> R]
  BY <1>1
<1>3. QED  BY <1>1, <1>2

(* The types of the rows.                                                  *)
LEMMA Rows ==
  ASSUME TypeOK
  PROVE  /\ \A t \in DOMAIN tasks : tasks[t] \in TaskRow /\ t \in Nat \ {0}
         /\ \A c \in DOMAIN candidates : candidates[c] \in CandidateRow /\ c \in Nat \ {0}
         /\ \A a \in DOMAIN assessments : assessments[a] \in AssessmentRow /\ a \in Nat \ {0}
         /\ tasks \in Seq(TaskRow) /\ candidates \in Seq(CandidateRow)
         /\ assessments \in Seq(AssessmentRow) /\ run \in RunRow
         /\ rounds \in [1..MaxRounds -> RoundRow]
  BY DEF TypeOK, TableTypeOK

(* Assessments only become complete or invalid, and then stay so.          *)
Advances(old, new) ==
  /\ new \in Seq(AssessmentRow) /\ DOMAIN new = DOMAIN old
  /\ \A a \in DOMAIN old :
       /\ new[a].mode = old[a].mode /\ new[a].of = old[a].of /\ new[a].artifact = old[a].artifact
       /\ old[a].state = "INVALID" => new[a].state = "INVALID"
       /\ old[a].mode = "online" /\ old[a].state = "COMPLETE" => new[a].state = "COMPLETE"

LEMMA CompleteStays ==
  ASSUME NEW old, NEW new, Advances(old, new)
  PROVE  /\ \A a \in CompleteOnline(old) : a \in CompleteOnline(new)
         /\ \A queue : IsQueue(queue, old) => IsQueue(queue, new)
<1>1. \A a \in CompleteOnline(old) :
         a \in CompleteOnline(new) /\ new[a].artifact = old[a].artifact
  BY DEF Advances, CompleteOnline
<1>2. ASSUME NEW queue, IsQueue(queue, old) PROVE IsQueue(queue, new)
  <2>1. queue \in Seq(CompleteOnline(old))
    BY <1>2 DEF IsQueue
  <2>2. \A i \in DOMAIN queue : queue[i] \in CompleteOnline(old)
    BY <2>1
  <2>3. queue \in Seq(CompleteOnline(new))
    <3>1. Len(queue) \in Nat /\ queue \in [1..Len(queue) -> CompleteOnline(old)]
      BY <2>1
    <3>2. queue \in [1..Len(queue) -> CompleteOnline(new)]
      BY <3>1, <1>1
    <3>3. QED  BY <3>1, <3>2
  <2>4. QED  BY <1>1, <1>2, <2>2, <2>3 DEF IsQueue
<1>3. QED  BY <1>1, <1>2

LEMMA SameAdvances ==
  ASSUME TypeOK
  PROVE  Advances(assessments, assessments)
  BY Rows DEF Advances

-----------------------------------------------------------------------------
(* One runner at work                                                      *)

(* The task of a runner at work is the only active one.                    *)
LEMMA OneAlive ==
  ASSUME ProcessInv, NEW t \in DOMAIN tasks, Alive(t)
  PROVE  /\ tasks[t].state = "RUNNING" /\ tasks[t].pid /\ t \in Active
         /\ \A u \in DOMAIN tasks : Alive(u) \/ u \in Active => u = t
  BY DEF ProcessInv, OneActive, RunnerOfActive, Active

(* A step of the runner of t that only changes what it keeps in memory.    *)
Moved(t) ==
  /\ tasks' \in Seq(TaskRow) /\ DOMAIN tasks' = DOMAIN tasks
  /\ \A u \in DOMAIN tasks : u # t => tasks'[u] = tasks[u]
  /\ tasks'[t].purpose = tasks[t].purpose /\ tasks'[t].state = tasks[t].state
  /\ tasks'[t].pid = tasks[t].pid /\ tasks'[t].seen = tasks[t].seen
  /\ tasks'[t].launch = tasks[t].launch /\ tasks'[t].runner = tasks[t].runner
  /\ tasks'[t].watchdog = tasks[t].watchdog /\ tasks'[t].round = tasks[t].round

LEMMA MoveKeepsProcesses ==
  ASSUME ProcessInv, NEW t \in DOMAIN tasks, Alive(t), Moved(t), UNCHANGED <<late, over, stopper>>,
         run'.state = "STOPPING" => run.state = "STOPPING" \/ stopper' = "marked"
  PROVE  ProcessInv'
<1>1. Active' = Active
  BY DEF Active, Moved
<1>2. \A u \in DOMAIN tasks' : /\ u \in DOMAIN tasks /\ (Alive(u)' <=> Alive(u))
                               /\ (Searches(u)' <=> Searches(u))
  BY DEF Alive, Searches, Moved
<1>3. OneActive'
  BY <1>1 DEF ProcessInv, OneActive
<1>4. StopperIsAlone'
  BY <1>2 DEF ProcessInv, StopperIsAlone
<1>5. ASSUME NEW u \in DOMAIN tasks PROVE RunnerOfActive(u)'
  BY DEF RunnerOfActive, ProcessInv, Alive, Moved
<1>6. ASSUME NEW u \in DOMAIN tasks PROVE WatchdogIsLate(u)'
  <2>1. WatchdogIsLate(u)
    BY DEF ProcessInv
  <2>2. tasks'[u].watchdog = tasks[u].watchdog /\ tasks'[u].seen = tasks[u].seen
        /\ tasks'[u].pid = tasks[u].pid /\ tasks'[u].purpose = tasks[u].purpose
    BY DEF Moved
  <2>3. Deadline(tasks[u].purpose)' <=> Deadline(tasks[u].purpose)
    BY <2>2 DEF Deadline
  <2>4. DOMAIN tasks' = DOMAIN tasks
    BY DEF Moved
  <2>5. QED  BY <1>2, <2>1, <2>2, <2>3, <2>4 DEF WatchdogIsLate
<1>7. DOMAIN tasks' = DOMAIN tasks
  BY DEF Moved
<1>8. QED  BY <1>3, <1>4, <1>5, <1>6, <1>7 DEF ProcessInv

(* What a step leaves of the run: nothing is sealed, and the incumbent is  *)
(* a complete assessment.                                                  *)
RunKeeps ==
  /\ run' \in RunRow /\ run'.sealed = run.sealed /\ run'.queue = run.queue
  /\ run'.incumbent # 0 => run'.incumbent \in CompleteOnline(assessments')
  /\ run'.state = "SEARCHING" => run.state = "SEARCHING"
  /\ run'.state \in {"SEARCH_SEALED", "FINALIZING"} => run.sealed
  /\ run'.state = "STOPPING" => run.state = "STOPPING" \/ stopper' = "marked"

(* The step of a seal: the queue is made of what is complete.              *)
RunSeals ==
  /\ run' \in RunRow /\ ~run.sealed /\ run'.sealed /\ run'.state \notin {"SEARCHING", "STOPPING"}
  /\ IsQueue(run'.queue, assessments')
  /\ run'.incumbent # 0 => run'.incumbent \in CompleteOnline(assessments')

LEMMA TablesKept ==
  ASSUME TypeOK, SealFits, AuditsFit, NoReplay, Advances(assessments, assessments'),
         RunKeeps \/ RunSeals
  PROVE  SealFits' /\ AuditsFit' /\ NoReplay'
<1>1. /\ DOMAIN assessments' = DOMAIN assessments
      /\ \A a \in DOMAIN assessments :
           /\ assessments'[a].mode = assessments[a].mode
           /\ assessments'[a].of = assessments[a].of
           /\ assessments'[a].artifact = assessments[a].artifact
           /\ assessments[a].state = "INVALID" => assessments'[a].state = "INVALID"
  BY DEF Advances
<1>2. Audits' = Audits
  BY <1>1 DEF Audits
<1>3. NoReplay'
  BY <1>1 DEF NoReplay
<1>4. CASE RunKeeps
  <2>1. SealFits'
    <3>1. IsQueue(run.queue, assessments')
      BY CompleteStays DEF SealFits
    <3>2. QED  BY <1>4, <3>1 DEF SealFits, RunKeeps
  <2>2. AuditsFit'
    <3>1. Range(run.queue) \subseteq DOMAIN assessments
      <4>1. run.queue \in Seq(CompleteOnline(assessments))
        BY DEF SealFits, IsQueue
      <4>2. \A i \in DOMAIN run.queue : run.queue[i] \in CompleteOnline(assessments)
        BY <4>1
      <4>3. QED  BY <4>2 DEF Range, CompleteOnline
    <3>2. \A b \in Audits : b \in DOMAIN assessments /\ assessments[b].of \in DOMAIN assessments
      BY <3>1 DEF AuditsFit, Audits
    <3>3. QED  BY <1>1, <1>2, <1>4, <3>2 DEF AuditsFit, RunKeeps
  <2>3. QED  BY <1>3, <2>1, <2>2
<1>5. CASE RunSeals
  <2>1. Audits = {}
    BY <1>5 DEF AuditsFit, SealFits, RunSeals, Range
  <2>2. AuditsFit'
    BY <1>2, <2>1 DEF AuditsFit
  <2>3. SealFits'
    BY <1>5 DEF SealFits, RunSeals
  <2>4. QED  BY <1>3, <2>2, <2>3
<1>6. QED  BY <1>4, <1>5

(* How a runner of a search hands over what it assesses.                   *)
HandsOver(t) ==
  run'.state = "SEARCHING" /\ Searches(t) =>
    /\ Leaves(t) => Leaves(t)'
    /\ tasks[t].at \in Assessing =>
         \/ Leaves(t)'
         \/ /\ tasks'[t].at \in Assessing
            /\ tasks'[t].a = tasks[t].a /\ tasks'[t].c = tasks[t].c
         \/ /\ assessments'[tasks[t].a].state \in {"COMPLETE", "INVALID"}
            /\ tasks[t].c = 0 => tasks'[t].at = "baseline"
    /\ tasks[t].at = "baseline" => run'.baseline # 0 \/ Leaves(t)'
BaselineStays == run.baseline # 0 => run'.baseline # 0

LEMMA MoveKeepsSearch ==
  ASSUME ArtifactInv, NEW t \in DOMAIN tasks, Alive(t), Moved(t),
         Advances(assessments, assessments'), HandsOver(t), BaselineStays,
         run'.state = "SEARCHING" => run.state = "SEARCHING"
  PROVE  SearchIsSettled' /\ BaselineIsFirst'
<1> SUFFICES ASSUME run'.state = "SEARCHING"
             PROVE  SearchIsSettled' /\ BaselineIsFirst'
  BY DEF SearchIsSettled, BaselineIsFirst
<1>1. /\ run.state = "SEARCHING" /\ tasks[t].pid /\ t \in Active
      /\ \A u \in DOMAIN tasks : u \in Active => u = t
  BY OneAlive DEF ArtifactInv
<1>2. /\ DOMAIN tasks' = DOMAIN tasks /\ Alive(t)' /\ t \in Active' /\ tasks'[t].pid
      /\ (Searches(t)' <=> Searches(t))
  BY <1>1 DEF Moved, Active, Alive, Searches
<1>3. \A a \in DOMAIN assessments :
        Online(a) /\ ~Settled(a) => Leaves(t) \/ Assesses(t, a)
  BY <1>1 DEF ArtifactInv, SearchIsSettled, Leaves, Assesses
<1>4. run.baseline = 0 =>
        \A a \in DOMAIN assessments : Online(a) =>
          \/ Leaves(t)
          \/ Assesses(t, a) /\ tasks[t].c = 0
          \/ tasks[t].at = "baseline"
  BY <1>1 DEF ArtifactInv, BaselineIsFirst, Leaves, Assesses
<1>5. /\ DOMAIN assessments' = DOMAIN assessments
      /\ \A a \in DOMAIN assessments :
           (Online(a)' <=> Online(a)) /\ (Online(a) /\ Settled(a) => Settled(a)')
  BY DEF Advances, Online, Settled
<1>6. ASSUME NEW a \in DOMAIN assessments, Online(a), ~Settled(a)'
      PROVE  Leaves(t)' \/ Assesses(t, a)'
  <2>1. Leaves(t) \/ Assesses(t, a)
    BY <1>3, <1>5, <1>6
  <2>2. CASE Leaves(t)
    BY <2>2 DEF HandsOver, Leaves
  <2>3. CASE Assesses(t, a)
    BY <1>2, <1>6, <2>3 DEF HandsOver, Assesses, Settled
  <2>4. QED  BY <2>1, <2>2, <2>3
<1>7. SearchIsSettled'
  BY <1>2, <1>5, <1>6 DEF SearchIsSettled
<1>8. ASSUME NEW a \in DOMAIN assessments, Online(a), run'.baseline = 0
      PROVE  \/ Leaves(t)'
             \/ Assesses(t, a)' /\ tasks'[t].c = 0
             \/ tasks'[t].at = "baseline"
  <2>1. run.baseline = 0
    BY <1>8 DEF BaselineStays
  <2>2. Leaves(t) \/ (Assesses(t, a) /\ tasks[t].c = 0) \/ tasks[t].at = "baseline"
    BY <1>4, <1>8, <2>1
  <2>3. CASE Leaves(t)
    BY <2>3 DEF HandsOver, Leaves
  <2>4. CASE Assesses(t, a) /\ tasks[t].c = 0
    BY <1>2, <2>4 DEF HandsOver, Assesses
  <2>5. CASE tasks[t].at = "baseline"
    <3>1. Searches(t)
      BY <2>5 DEF ArtifactInv, RunnersKnow, Knows, StepFits, SharedSteps, AuditSteps
    <3>2. QED  BY <1>8, <2>5, <3>1 DEF HandsOver
  <2>6. QED  BY <2>2, <2>3, <2>4, <2>5
<1>9. BaselineIsFirst'
  BY <1>2, <1>5, <1>8 DEF BaselineIsFirst
<1>10. QED  BY <1>7, <1>9

(* A step of the runner of t keeps the invariant when it keeps the types,  *)
(* what t knows, and hands over what it assesses.                          *)
LEMMA MoveKeeps ==
  ASSUME ArtifactInv, NEW t \in DOMAIN tasks, Alive(t), Moved(t),
         UNCHANGED <<clock, stopper, faults>>,
         rounds' \in [1..MaxRounds -> RoundRow], candidates' \in Seq(CandidateRow),
         Advances(assessments, assessments'), RunKeeps \/ RunSeals,
         BaselineStays, RepliesFit', Knows(t)', HandsOver(t)
  PROVE  ArtifactInv'
<1>1. TypeOK'
  BY DEF ArtifactInv, TypeOK, TableTypeOK, clock, Moved, Advances, RunKeeps, RunSeals
<1>2. ProcessInv'
  BY MoveKeepsProcesses DEF ArtifactInv, RunKeeps, RunSeals, clock
<1>3. RunnersKnow'
  <2>1. \A u \in DOMAIN tasks' : Alive(u)' => u = t
    BY OneAlive DEF ArtifactInv, Moved, Alive
  <2>2. QED  BY <2>1 DEF RunnersKnow
<1>4. SealFits' /\ AuditsFit' /\ NoReplay'
  BY TablesKept DEF ArtifactInv
<1>5. SearchIsSettled' /\ BaselineIsFirst'
  BY MoveKeepsSearch DEF RunKeeps, RunSeals
<1>6. QED  BY <1>1, <1>2, <1>3, <1>4, <1>5 DEF ArtifactInv

-----------------------------------------------------------------------------
(* Steps of a runner that only change what it keeps in memory              *)

LEMMA MoveIs ==
  ASSUME TypeOK, NEW t \in DOMAIN tasks, NEW row \in TaskRow,
         tasks' = [tasks EXCEPT ![t] = row],
         row.purpose = tasks[t].purpose, row.state = tasks[t].state, row.pid = tasks[t].pid,
         row.seen = tasks[t].seen, row.launch = tasks[t].launch, row.runner = tasks[t].runner,
         row.watchdog = tasks[t].watchdog, row.round = tasks[t].round
  PROVE  Moved(t) /\ tasks'[t] = row
  BY Rows, RowReplaced DEF Moved

(* The runner of t is at another step, with what it keeps in memory.       *)
Holds(t, at, c, a, parent, left, verdict, why) ==
  /\ Moved(t)
  /\ tasks'[t].at = at /\ tasks'[t].c = c /\ tasks'[t].a = a /\ tasks'[t].parent = parent
  /\ tasks'[t].left = left /\ tasks'[t].verdict = verdict /\ tasks'[t].why = why

(* One lemma for each set of places that steps write.                      *)
LEMMA WritesAt ==
  ASSUME TypeOK, NEW t \in DOMAIN tasks, NEW at \in Places,
         tasks' = [tasks EXCEPT ![t].at = at]
  PROVE  Holds(t, at, tasks[t].c, tasks[t].a, tasks[t].parent, tasks[t].left, tasks[t].verdict,
               tasks[t].why)
<1> DEFINE row == [tasks[t] EXCEPT !.at = at]
<1>1. tasks[t] \in TaskRow
  BY Rows
<1>2. row \in TaskRow
  BY <1>1 DEF TaskRow
<1>3. tasks' = [tasks EXCEPT ![t] = row]
  OBVIOUS
<1>4. /\ row.at = at /\ row.c = tasks[t].c /\ row.a = tasks[t].a
      /\ row.parent = tasks[t].parent /\ row.left = tasks[t].left /\ row.verdict = tasks[t].verdict
      /\ row.why = tasks[t].why /\ row.purpose = tasks[t].purpose /\ row.state = tasks[t].state
      /\ row.pid = tasks[t].pid /\ row.seen = tasks[t].seen /\ row.launch = tasks[t].launch
      /\ row.runner = tasks[t].runner /\ row.watchdog = tasks[t].watchdog
      /\ row.round = tasks[t].round
  BY <1>1 DEF TaskRow
<1> HIDE DEF row
<1>5. QED  BY <1>2, <1>3, <1>4, MoveIs DEF Holds

LEMMA WritesAtVerdict ==
  ASSUME TypeOK, NEW t \in DOMAIN tasks, NEW at \in Places, NEW verdict \in Verdicts,
         tasks' = [tasks EXCEPT ![t].at = at, ![t].verdict = verdict]
  PROVE  Holds(t, at, tasks[t].c, tasks[t].a, tasks[t].parent, tasks[t].left, verdict, tasks[t].why)
<1> DEFINE row == [tasks[t] EXCEPT !.at = at, !.verdict = verdict]
<1>1. tasks[t] \in TaskRow
  BY Rows
<1>2. row \in TaskRow
  BY <1>1 DEF TaskRow
<1>3. tasks' = [tasks EXCEPT ![t] = row]
  OBVIOUS
<1>4. /\ row.at = at /\ row.c = tasks[t].c /\ row.a = tasks[t].a
      /\ row.parent = tasks[t].parent /\ row.left = tasks[t].left /\ row.verdict = verdict
      /\ row.why = tasks[t].why /\ row.purpose = tasks[t].purpose /\ row.state = tasks[t].state
      /\ row.pid = tasks[t].pid /\ row.seen = tasks[t].seen /\ row.launch = tasks[t].launch
      /\ row.runner = tasks[t].runner /\ row.watchdog = tasks[t].watchdog
      /\ row.round = tasks[t].round
  BY <1>1 DEF TaskRow
<1> HIDE DEF row
<1>5. QED  BY <1>2, <1>3, <1>4, MoveIs DEF Holds

LEMMA WritesAtC ==
  ASSUME TypeOK, NEW t \in DOMAIN tasks, NEW at \in Places, NEW c \in Nat,
         tasks' = [tasks EXCEPT ![t].at = at, ![t].c = c]
  PROVE  Holds(t, at, c, tasks[t].a, tasks[t].parent, tasks[t].left, tasks[t].verdict, tasks[t].why)
<1> DEFINE row == [tasks[t] EXCEPT !.at = at, !.c = c]
<1>1. tasks[t] \in TaskRow
  BY Rows
<1>2. row \in TaskRow
  BY <1>1 DEF TaskRow
<1>3. tasks' = [tasks EXCEPT ![t] = row]
  OBVIOUS
<1>4. /\ row.at = at /\ row.c = c /\ row.a = tasks[t].a
      /\ row.parent = tasks[t].parent /\ row.left = tasks[t].left /\ row.verdict = tasks[t].verdict
      /\ row.why = tasks[t].why /\ row.purpose = tasks[t].purpose /\ row.state = tasks[t].state
      /\ row.pid = tasks[t].pid /\ row.seen = tasks[t].seen /\ row.launch = tasks[t].launch
      /\ row.runner = tasks[t].runner /\ row.watchdog = tasks[t].watchdog
      /\ row.round = tasks[t].round
  BY <1>1 DEF TaskRow
<1> HIDE DEF row
<1>5. QED  BY <1>2, <1>3, <1>4, MoveIs DEF Holds

LEMMA WritesAtA ==
  ASSUME TypeOK, NEW t \in DOMAIN tasks, NEW at \in Places, NEW a \in Nat,
         tasks' = [tasks EXCEPT ![t].at = at, ![t].a = a]
  PROVE  Holds(t, at, tasks[t].c, a, tasks[t].parent, tasks[t].left, tasks[t].verdict, tasks[t].why)
<1> DEFINE row == [tasks[t] EXCEPT !.at = at, !.a = a]
<1>1. tasks[t] \in TaskRow
  BY Rows
<1>2. row \in TaskRow
  BY <1>1 DEF TaskRow
<1>3. tasks' = [tasks EXCEPT ![t] = row]
  OBVIOUS
<1>4. /\ row.at = at /\ row.c = tasks[t].c /\ row.a = a
      /\ row.parent = tasks[t].parent /\ row.left = tasks[t].left /\ row.verdict = tasks[t].verdict
      /\ row.why = tasks[t].why /\ row.purpose = tasks[t].purpose /\ row.state = tasks[t].state
      /\ row.pid = tasks[t].pid /\ row.seen = tasks[t].seen /\ row.launch = tasks[t].launch
      /\ row.runner = tasks[t].runner /\ row.watchdog = tasks[t].watchdog
      /\ row.round = tasks[t].round
  BY <1>1 DEF TaskRow
<1> HIDE DEF row
<1>5. QED  BY <1>2, <1>3, <1>4, MoveIs DEF Holds

LEMMA WritesAtLeft ==
  ASSUME TypeOK, NEW t \in DOMAIN tasks, NEW at \in Places, NEW left \in Nat,
         tasks' = [tasks EXCEPT ![t].at = at, ![t].left = left]
  PROVE  Holds(t, at, tasks[t].c, tasks[t].a, tasks[t].parent, left, tasks[t].verdict, tasks[t].why)
<1> DEFINE row == [tasks[t] EXCEPT !.at = at, !.left = left]
<1>1. tasks[t] \in TaskRow
  BY Rows
<1>2. row \in TaskRow
  BY <1>1 DEF TaskRow
<1>3. tasks' = [tasks EXCEPT ![t] = row]
  OBVIOUS
<1>4. /\ row.at = at /\ row.c = tasks[t].c /\ row.a = tasks[t].a
      /\ row.parent = tasks[t].parent /\ row.left = left /\ row.verdict = tasks[t].verdict
      /\ row.why = tasks[t].why /\ row.purpose = tasks[t].purpose /\ row.state = tasks[t].state
      /\ row.pid = tasks[t].pid /\ row.seen = tasks[t].seen /\ row.launch = tasks[t].launch
      /\ row.runner = tasks[t].runner /\ row.watchdog = tasks[t].watchdog
      /\ row.round = tasks[t].round
  BY <1>1 DEF TaskRow
<1> HIDE DEF row
<1>5. QED  BY <1>2, <1>3, <1>4, MoveIs DEF Holds

LEMMA WritesAtWhy ==
  ASSUME TypeOK, NEW t \in DOMAIN tasks, NEW at \in Places, NEW why \in Causes,
         tasks' = [tasks EXCEPT ![t].at = at, ![t].why = why]
  PROVE  Holds(t, at, tasks[t].c, tasks[t].a, tasks[t].parent, tasks[t].left, tasks[t].verdict, why)
<1> DEFINE row == [tasks[t] EXCEPT !.at = at, !.why = why]
<1>1. tasks[t] \in TaskRow
  BY Rows
<1>2. row \in TaskRow
  BY <1>1 DEF TaskRow
<1>3. tasks' = [tasks EXCEPT ![t] = row]
  OBVIOUS
<1>4. /\ row.at = at /\ row.c = tasks[t].c /\ row.a = tasks[t].a
      /\ row.parent = tasks[t].parent /\ row.left = tasks[t].left /\ row.verdict = tasks[t].verdict
      /\ row.why = why /\ row.purpose = tasks[t].purpose /\ row.state = tasks[t].state
      /\ row.pid = tasks[t].pid /\ row.seen = tasks[t].seen /\ row.launch = tasks[t].launch
      /\ row.runner = tasks[t].runner /\ row.watchdog = tasks[t].watchdog
      /\ row.round = tasks[t].round
  BY <1>1 DEF TaskRow
<1> HIDE DEF row
<1>5. QED  BY <1>2, <1>3, <1>4, MoveIs DEF Holds

LEMMA WritesAtLeftParent ==
  ASSUME TypeOK, NEW t \in DOMAIN tasks, NEW at \in Places, NEW left \in Nat, NEW parent \in Nat,
         tasks' = [tasks EXCEPT ![t].at = at, ![t].left = left, ![t].parent = parent]
  PROVE  Holds(t, at, tasks[t].c, tasks[t].a, parent, left, tasks[t].verdict, tasks[t].why)
<1> DEFINE row == [tasks[t] EXCEPT !.at = at, !.left = left, !.parent = parent]
<1>1. tasks[t] \in TaskRow
  BY Rows
<1>2. row \in TaskRow
  BY <1>1 DEF TaskRow
<1>3. tasks' = [tasks EXCEPT ![t] = row]
  OBVIOUS
<1>4. /\ row.at = at /\ row.c = tasks[t].c /\ row.a = tasks[t].a
      /\ row.parent = parent /\ row.left = left /\ row.verdict = tasks[t].verdict
      /\ row.why = tasks[t].why /\ row.purpose = tasks[t].purpose /\ row.state = tasks[t].state
      /\ row.pid = tasks[t].pid /\ row.seen = tasks[t].seen /\ row.launch = tasks[t].launch
      /\ row.runner = tasks[t].runner /\ row.watchdog = tasks[t].watchdog
      /\ row.round = tasks[t].round
  BY <1>1 DEF TaskRow
<1> HIDE DEF row
<1>5. QED  BY <1>2, <1>3, <1>4, MoveIs DEF Holds

LEMMA WritesAtVerdictWhy ==
  ASSUME TypeOK, NEW t \in DOMAIN tasks, NEW at \in Places, NEW verdict \in Verdicts,
         NEW why \in Causes,
         tasks' = [tasks EXCEPT ![t].at = at, ![t].verdict = verdict, ![t].why = why]
  PROVE  Holds(t, at, tasks[t].c, tasks[t].a, tasks[t].parent, tasks[t].left, verdict, why)
<1> DEFINE row == [tasks[t] EXCEPT !.at = at, !.verdict = verdict, !.why = why]
<1>1. tasks[t] \in TaskRow
  BY Rows
<1>2. row \in TaskRow
  BY <1>1 DEF TaskRow
<1>3. tasks' = [tasks EXCEPT ![t] = row]
  OBVIOUS
<1>4. /\ row.at = at /\ row.c = tasks[t].c /\ row.a = tasks[t].a
      /\ row.parent = tasks[t].parent /\ row.left = tasks[t].left /\ row.verdict = verdict
      /\ row.why = why /\ row.purpose = tasks[t].purpose /\ row.state = tasks[t].state
      /\ row.pid = tasks[t].pid /\ row.seen = tasks[t].seen /\ row.launch = tasks[t].launch
      /\ row.runner = tasks[t].runner /\ row.watchdog = tasks[t].watchdog
      /\ row.round = tasks[t].round
  BY <1>1 DEF TaskRow
<1> HIDE DEF row
<1>5. QED  BY <1>2, <1>3, <1>4, MoveIs DEF Holds

LEMMA WritesAtCAVerdict ==
  ASSUME TypeOK, NEW t \in DOMAIN tasks, NEW at \in Places, NEW c \in Nat, NEW a \in Nat,
         NEW verdict \in Verdicts,
         tasks' = [tasks EXCEPT ![t].at = at, ![t].c = c, ![t].a = a, ![t].verdict = verdict]
  PROVE  Holds(t, at, c, a, tasks[t].parent, tasks[t].left, verdict, tasks[t].why)
<1> DEFINE row == [tasks[t] EXCEPT !.at = at, !.c = c, !.a = a, !.verdict = verdict]
<1>1. tasks[t] \in TaskRow
  BY Rows
<1>2. row \in TaskRow
  BY <1>1 DEF TaskRow
<1>3. tasks' = [tasks EXCEPT ![t] = row]
  OBVIOUS
<1>4. /\ row.at = at /\ row.c = c /\ row.a = a
      /\ row.parent = tasks[t].parent /\ row.left = tasks[t].left /\ row.verdict = verdict
      /\ row.why = tasks[t].why /\ row.purpose = tasks[t].purpose /\ row.state = tasks[t].state
      /\ row.pid = tasks[t].pid /\ row.seen = tasks[t].seen /\ row.launch = tasks[t].launch
      /\ row.runner = tasks[t].runner /\ row.watchdog = tasks[t].watchdog
      /\ row.round = tasks[t].round
  BY <1>1 DEF TaskRow
<1> HIDE DEF row
<1>5. QED  BY <1>2, <1>3, <1>4, MoveIs DEF Holds

LEMMA TablesStay ==
  ASSUME ArtifactInv, NEW t \in DOMAIN tasks, Alive(t), Moved(t),
         UNCHANGED <<run, rounds, candidates, assessments, clock, stopper, faults>>,
         Knows(t)', HandsOver(t)
  PROVE  ArtifactInv'
<1>1. /\ rounds' \in [1..MaxRounds -> RoundRow] /\ candidates' \in Seq(CandidateRow)
      /\ Advances(assessments, assessments')
  BY Rows, SameAdvances DEF ArtifactInv
<1>2. RunKeeps /\ BaselineStays
  BY Rows DEF RunKeeps, BaselineStays, ArtifactInv, SealFits
<1>3. RepliesFit'
  BY DEF ArtifactInv, RepliesFit
<1>4. QED  BY <1>1, <1>2, <1>3, MoveKeeps

(* What the runner of t knows now.                                         *)
LEMMA Known ==
  ASSUME ArtifactInv, NEW t \in DOMAIN tasks, Alive(t)
  PROVE  /\ TypeOK /\ tasks[t] \in TaskRow /\ StepFits(t) /\ RequestFits(t) /\ AssessmentFits(t)
         /\ AssessesNew(t) /\ BaselineIsKnown(t)
         /\ tasks[t].state = "RUNNING" /\ tasks[t].pid /\ t \in Active
  BY Rows, OneAlive DEF ArtifactInv, RunnersKnow, Knows


LEMMA CollectKeeps ==
  ASSUME ArtifactInv, NEW t \in DOMAIN tasks, Collect(t), UNCHANGED <<stopper, faults>>
  PROVE  ArtifactInv'
<1>1. Alive(t) /\ tasks[t].at = "await"
  BY DEF Collect, At, Alive
<1>2. /\ tasks[t] \in TaskRow /\ TypeOK /\ StepFits(t) /\ RequestFits(t) /\ AssessmentFits(t)
      /\ BaselineIsKnown(t)
  BY <1>1, Known
<1> DEFINE how  == Awaited(t).exit
           next == IF how = "ok" THEN "record" ELSE "undo"
<1>3. how \in Exits /\ next \in {"record", "undo"}
  <2>1. assessments[tasks[t].a] \in AssessmentRow
    BY <1>1, <1>2, Rows DEF AssessmentFits, Assessing
  <2>2. QED  BY <2>1 DEF AssessmentRow, Awaited
<1>4. tasks' = [tasks EXCEPT ![t].at = next, ![t].verdict = how]
  BY DEF Collect
<1> HIDE DEF how, next
<1>5. Holds(t, next, tasks[t].c, tasks[t].a, tasks[t].parent, tasks[t].left, how, tasks[t].why)
  BY <1>2, <1>3, <1>4, WritesAtVerdict DEF Places, Verdicts
<1>6. Knows(t)'
  BY <1>1, <1>2, <1>3, <1>5 DEF Collect, Knows, StepFits, RequestFits, AssessmentFits, AssessesNew,
       BaselineIsKnown, Searches, Assessing, SharedSteps, AfterBaseline, OfCandidate, SearchSteps,
       Replied, Holds, Moved
<1>7. HandsOver(t)
  BY <1>1, <1>2, <1>3, <1>5 DEF HandsOver, Assessing, Leaves, Holds, Moved, Alive
<1>8. QED  BY <1>1, <1>5, <1>6, <1>7, TablesStay DEF Collect, Holds

(* An exception that only changes where the runner is.                     *)
LEMMA RaiseKeeps ==
  ASSUME ArtifactInv, NEW t \in DOMAIN tasks, Alive(t), NEW why \in Causes, Raise(t, why),
         UNCHANGED <<run, rounds, candidates, assessments, clock, stopper, faults>>
  PROVE  ArtifactInv'
<1>1. Alive(t)
  OBVIOUS
<1>2. /\ tasks[t] \in TaskRow /\ TypeOK /\ StepFits(t) /\ RequestFits(t) /\ AssessmentFits(t)
      /\ BaselineIsKnown(t) /\ t \in Active /\ tasks[t].pid
  BY <1>1, Known
<1>3. Holds(t, "raise", tasks[t].c, tasks[t].a, tasks[t].parent, tasks[t].left,
            tasks[t].verdict, why)
  BY <1>2, WritesAtWhy DEF Raise, Places
<1>4. Knows(t)'
  BY <1>1, <1>2, <1>3 DEF Knows, StepFits, RequestFits, AssessmentFits, AssessesNew,
       BaselineIsKnown, Searches, Assessing, SharedSteps, AfterBaseline, OfCandidate, SearchSteps,
       AuditSteps, Replied, Holds, Moved
<1>5. Searches(t) => Leaves(t)'
  BY <1>1, <1>2, <1>3 DEF Leaves, Active, Holds, Moved, Alive, Searches
<1>6. HandsOver(t)
  BY <1>2, <1>3, <1>5 DEF HandsOver
<1>7. QED  BY <1>3, <1>4, <1>6, TablesStay DEF Holds

LEMMA SelectKeeps ==
  ASSUME ArtifactInv, NEW t \in DOMAIN tasks, Select(t), UNCHANGED <<stopper, faults>>
  PROVE  ArtifactInv'
<1> DEFINE next == IF run.state \in {"STOPPING", "STOPPED"} THEN "done" ELSE "conclude"
<1>1. Alive(t) /\ tasks[t].at = "select"
  BY DEF Select, At, Alive
<1>2. /\ tasks[t] \in TaskRow /\ TypeOK /\ StepFits(t) /\ RequestFits(t) /\ AssessmentFits(t)
      /\ BaselineIsKnown(t) /\ t \in Active /\ tasks[t].pid
  BY <1>1, Known
<1>3. ~ Searches(t)
  BY <1>1, <1>2 DEF StepFits, SharedSteps, SearchSteps
<1>4. next \in {"done", "conclude"} /\ tasks' = [tasks EXCEPT ![t].at = next]
  BY DEF Select, Goto
<1> HIDE DEF next
<1>5. Holds(t, next, tasks[t].c, tasks[t].a, tasks[t].parent, tasks[t].left,
            tasks[t].verdict, tasks[t].why)
  BY <1>2, <1>4, WritesAt DEF Places, Causes, Exits
<1>6. Knows(t)'
  BY <1>1, <1>2, <1>3, <1>4, <1>5 DEF Knows, StepFits, RequestFits, AssessmentFits, AssessesNew,
       BaselineIsKnown, Searches, Assessing, SharedSteps, AfterBaseline, OfCandidate, SearchSteps,
       AuditSteps, Replied, Holds, Moved
<1>7. HandsOver(t)
  BY <1>3 DEF HandsOver
<1>8. QED  BY <1>1, <1>5, <1>6, <1>7, TablesStay DEF Select, Holds

LEMMA LoopKeeps ==
  ASSUME ArtifactInv, NEW t \in DOMAIN tasks, Loop(t), UNCHANGED <<stopper, faults>>
  PROVE  ArtifactInv'
<1>1. Alive(t) /\ tasks[t].at = "loop"
  BY DEF Loop, At, Alive
<1>2. /\ tasks[t] \in TaskRow /\ TypeOK /\ StepFits(t) /\ RequestFits(t) /\ AssessmentFits(t)
      /\ BaselineIsKnown(t) /\ t \in Active /\ tasks[t].pid
  BY <1>1, Known
<1>3. Searches(t) /\ run.baseline # 0
  BY <1>1, <1>2 DEF StepFits, SharedSteps, AuditSteps, BaselineIsKnown, AfterBaseline, SearchSteps
<1>4. /\ tasks[t].left \in Nat /\ tasks[t].parent \in Nat /\ tasks[t].why \in Causes
      /\ Parent(run) \in Nat
  BY <1>2, Rows DEF TaskRow, RunRow, Parent
<1>5. PICK next \in {"close", "generate"}, left \in Nat, parent \in Nat, why \in Causes :
        Holds(t, next, tasks[t].c, tasks[t].a, parent, left, tasks[t].verdict, why)
  <2>1. CASE tasks[t].left = 0
    <3>1. tasks' = [tasks EXCEPT ![t].at = "close"]
      BY <2>1 DEF Loop, Goto
    <3>2. QED  BY <1>2, <1>4, <3>1, WritesAt DEF Places, Causes, Exits
  <2>2. CASE tasks[t].left > 0 /\ (run.state # "SEARCHING" \/ late)
    <3>1. tasks' = [tasks EXCEPT ![t].at = "close", ![t].why = "SEARCH_DEADLINE_OR_STOP"]
      BY <2>2, <1>4 DEF Loop
    <3>2. "close" \in Places /\ "SEARCH_DEADLINE_OR_STOP" \in Causes
      BY DEF Places, Causes
    <3>3. Holds(t, "close", tasks[t].c, tasks[t].a, tasks[t].parent, tasks[t].left,
                tasks[t].verdict, "SEARCH_DEADLINE_OR_STOP")
      BY <1>2, <3>1, <3>2, WritesAtWhy
    <3>4. QED  BY <1>4, <3>2, <3>3
  <2>3. CASE tasks[t].left # 0 /\ ~ (tasks[t].left > 0 /\ (run.state # "SEARCHING" \/ late))
    <3>1. tasks' = [tasks EXCEPT ![t].at = "generate", ![t].left = tasks[t].left - 1,
                                 ![t].parent = Parent(run)]
      BY <2>3, <1>4 DEF Loop
    <3>2. tasks[t].left - 1 \in Nat
      BY <2>3, <1>4
    <3>3. QED  BY <1>2, <1>4, <3>1, <3>2, WritesAtLeftParent DEF Places, Causes, Exits
  <2>4. QED  BY <2>1, <2>2, <2>3
<1>6. Knows(t)'
  BY <1>1, <1>2, <1>3, <1>5 DEF Loop, Knows, StepFits, RequestFits, AssessmentFits, AssessesNew,
       BaselineIsKnown, Searches, Assessing, SharedSteps, AfterBaseline, OfCandidate, SearchSteps,
       AuditSteps, Replied, Holds, Moved
<1>7. HandsOver(t)
  BY <1>1, <1>2, <1>5 DEF HandsOver, Assessing, Leaves, Active, Holds, Moved, Alive, Searches
<1>8. QED  BY <1>1, <1>5, <1>6, <1>7, TablesStay DEF Loop, Holds

LEMMA BeginKeeps ==
  ASSUME ArtifactInv, NEW t \in DOMAIN tasks, Begin(t), UNCHANGED <<stopper, faults>>
  PROVE  ArtifactInv'
<1> DEFINE next == IF run.baseline = 0 THEN "assess" ELSE "loop"
<1>1. Alive(t) /\ tasks[t].at = "begin"
  BY DEF Begin, At, Alive
<1>2. /\ tasks[t] \in TaskRow /\ TypeOK /\ StepFits(t) /\ RequestFits(t) /\ AssessmentFits(t)
      /\ BaselineIsKnown(t) /\ t \in Active /\ tasks[t].pid
  BY <1>1, Known
<1>3. Searches(t)
  BY <1>1, <1>2 DEF StepFits, SharedSteps, AuditSteps
<1>4. Plan(t).budget \in Nat
  BY <1>2, Rows DEF TaskRow, RoundRow, Plan
<1>5. next \in Places /\ tasks' = [tasks EXCEPT ![t].at = next, ![t].left = Plan(t).budget]
  BY DEF Begin, Places
<1>6. Holds(t, next, tasks[t].c, tasks[t].a, tasks[t].parent, Plan(t).budget,
            tasks[t].verdict, tasks[t].why)
  <2> HIDE DEF next
  <2>1. QED  BY <1>2, <1>4, <1>5, WritesAtLeft
<1>7. CASE run.baseline = 0
  <2>1. tasks[t].c = 0
    BY <1>2, <1>3, <1>7 DEF BaselineIsKnown
  <2>2. run.state = "SEARCHING" => \A a \in DOMAIN assessments : ~Online(a)
    <3>1. ~Leaves(t) /\ \A a \in DOMAIN assessments : ~Assesses(t, a)
      BY <1>1 DEF Leaves, Assesses, Assessing, Alive
    <3>2. \A u \in DOMAIN tasks : u \in Active => u = t
      BY <1>1, OneAlive DEF ArtifactInv
    <3>3. QED  BY <1>1, <1>7, <3>1, <3>2 DEF ArtifactInv, BaselineIsFirst, Leaves, Assesses
  <2>3. AssessesNew(t)'
    BY <1>3, <1>6, <2>1, <2>2 DEF Begin, AssessesNew, Online, Holds, Moved, Searches
  <2>4. QED
    <3>1. Knows(t)'
      BY <1>1, <1>2, <1>3, <1>6, <1>7, <2>1, <2>3 DEF Begin, Knows, StepFits, RequestFits,
         AssessmentFits, BaselineIsKnown, Searches, Assessing, SharedSteps, AfterBaseline,
         OfCandidate, SearchSteps, AuditSteps, Replied, Holds, Moved
    <3>2. HandsOver(t)
      BY <1>1, <1>2, <1>6 DEF HandsOver, Assessing, Leaves, Active, Holds, Moved, Alive, Searches
    <3>3. QED  BY <1>1, <1>6, <3>1, <3>2, TablesStay DEF Begin, Holds
<1>8. CASE run.baseline # 0
  <2>1. Knows(t)'
    BY <1>1, <1>2, <1>3, <1>6, <1>8 DEF Begin, Knows, StepFits, RequestFits, AssessesNew,
       AssessmentFits, BaselineIsKnown, Searches, Assessing, SharedSteps, AfterBaseline,
       OfCandidate, SearchSteps, AuditSteps, Replied, Holds, Moved
  <2>2. HandsOver(t)
    BY <1>1, <1>2, <1>6 DEF HandsOver, Assessing, Leaves, Active, Holds, Moved, Alive, Searches
  <2>3. QED  BY <1>1, <1>6, <2>1, <2>2, TablesStay DEF Begin, Holds
<1>9. QED  BY <1>7, <1>8

LEMMA NextAuditKeeps ==
  ASSUME ArtifactInv, NEW t \in DOMAIN tasks, NextAudit(t), UNCHANGED <<stopper, faults>>
  PROVE  ArtifactInv'
<1> DEFINE open  == {i \in DOMAIN run.queue : ~Attempted(run.queue[i])}
           first == CHOOSE i \in open : \A j \in open : i <= j
<1>1. Alive(t) /\ tasks[t].at = "audits"
  BY DEF NextAudit, At, Alive
<1>2. /\ tasks[t] \in TaskRow /\ TypeOK /\ StepFits(t) /\ RequestFits(t) /\ AssessmentFits(t)
      /\ BaselineIsKnown(t) /\ t \in Active /\ tasks[t].pid
  BY <1>1, Known
<1>3. ~ Searches(t)
  BY <1>1, <1>2 DEF StepFits, SharedSteps, SearchSteps
<1>4. HandsOver(t)
  BY <1>3 DEF HandsOver
<1>5. CASE Goto(t, "select")
  <2>1. Holds(t, "select", tasks[t].c, tasks[t].a, tasks[t].parent, tasks[t].left,
              tasks[t].verdict, tasks[t].why)
    BY <1>2, <1>5, WritesAt DEF Goto, Places
  <2>2. Knows(t)'
    BY <1>1, <1>2, <1>3, <2>1 DEF Knows, StepFits, RequestFits, AssessmentFits, AssessesNew,
       BaselineIsKnown, Searches, Assessing, SharedSteps, AfterBaseline, OfCandidate, SearchSteps,
       AuditSteps, Replied, Holds, Moved
  <2>3. QED  BY <1>1, <1>4, <2>1, <2>2, TablesStay DEF NextAudit, Holds
<1>6. CASE open # {} /\ tasks' = [tasks EXCEPT ![t].at = "assess", ![t].c = run.queue[first]]
  <2>1. run.queue \in Seq(Nat)
    BY <1>2, Rows DEF RunRow
  <2>2. first \in open
    <3>1. open \in SUBSET Nat
      BY <2>1
    <3> HIDE DEF open
    <3>2. \E i \in open : \A j \in open : i <= j
      BY <1>6, <3>1, SmallestNumber
    <3>3. QED  BY <3>2
  <2> HIDE DEF first
  <2>3. run.queue[first] \in Nat /\ run.queue[first] \in Range(run.queue)
        /\ ~Attempted(run.queue[first])
    BY <2>1, <2>2 DEF Range
  <2>4. Holds(t, "assess", run.queue[first], tasks[t].a, tasks[t].parent, tasks[t].left,
              tasks[t].verdict, tasks[t].why)
    BY <1>2, <1>6, <2>3, WritesAtC DEF Places, Causes, Exits
  <2>5. AssessesNew(t)'
    BY <1>3, <2>3, <2>4 DEF NextAudit, AssessesNew, Attempted, Audits, Holds, Moved, Searches
  <2>6. Knows(t)'
    BY <1>1, <1>2, <1>3, <2>4, <2>5 DEF Knows, StepFits, RequestFits, AssessmentFits,
       BaselineIsKnown, Searches, Assessing, SharedSteps, AfterBaseline, OfCandidate, SearchSteps,
       AuditSteps, Replied, Holds, Moved
  <2>7. QED  BY <1>1, <1>4, <2>4, <2>6, TablesStay DEF NextAudit, Holds
<1>7. QED  BY <1>5, <1>6 DEF NextAudit

-----------------------------------------------------------------------------
(* Steps that change an assessment                                         *)

WorkerStates == {"none", "spawned", "owned", "computing", "written", "gone"}
AssessmentStates == {"RESERVED", "COMPLETE", "INVALID", "INCOMPLETE"}

(* The row of a, alone, has changed: in its state, in nothing of what was  *)
(* assessed.                                                               *)
Assessed(a, state) ==
  /\ assessments' \in Seq(AssessmentRow) /\ DOMAIN assessments' = DOMAIN assessments
  /\ \A b \in DOMAIN assessments : b # a => assessments'[b] = assessments[b]
  /\ assessments'[a].mode = assessments[a].mode /\ assessments'[a].of = assessments[a].of
  /\ assessments'[a].artifact = assessments[a].artifact /\ assessments'[a].state = state

LEMMA AssessedIs ==
  ASSUME TypeOK, NEW a \in DOMAIN assessments, NEW row \in AssessmentRow,
         assessments' = [assessments EXCEPT ![a] = row], row.mode = assessments[a].mode,
         row.of = assessments[a].of, row.artifact = assessments[a].artifact
  PROVE  Assessed(a, row.state)
  BY Rows, RowReplaced DEF Assessed

LEMMA AssessedAdvances ==
  ASSUME TypeOK, NEW a \in DOMAIN assessments, NEW state, Assessed(a, state),
         \/ state = assessments[a].state
         \/ assessments[a].state \in {"RESERVED", "INCOMPLETE"}
         \/ assessments[a].mode = "audit" /\ assessments[a].state # "INVALID"
  PROVE  Advances(assessments, assessments')
  BY DEF Assessed, Advances

LEMMA TurnsWorker ==
  ASSUME TypeOK, NEW a \in DOMAIN assessments, NEW worker \in WorkerStates,
         assessments' = [assessments EXCEPT ![a].worker = worker]
  PROVE  Assessed(a, assessments[a].state)
<1> DEFINE row == [assessments[a] EXCEPT !.worker = worker]
<1>1. assessments[a] \in AssessmentRow
  BY Rows
<1>2. row \in AssessmentRow
  BY <1>1 DEF AssessmentRow, WorkerStates, AssessmentStates
<1>3. assessments' = [assessments EXCEPT ![a] = row]
  OBVIOUS
<1>4. /\ row.mode = assessments[a].mode /\ row.of = assessments[a].of
      /\ row.artifact = assessments[a].artifact /\ row.state = assessments[a].state
  BY <1>1 DEF AssessmentRow
<1> HIDE DEF row
<1>5. QED  BY <1>2, <1>3, <1>4, AssessedIs

LEMMA TurnsEffects ==
  ASSUME TypeOK, NEW a \in DOMAIN assessments, NEW effects \in Seq(EffectStates),
         assessments' = [assessments EXCEPT ![a].effects = effects]
  PROVE  Assessed(a, assessments[a].state)
<1> DEFINE row == [assessments[a] EXCEPT !.effects = effects]
<1>1. assessments[a] \in AssessmentRow
  BY Rows
<1>2. row \in AssessmentRow
  BY <1>1 DEF AssessmentRow, WorkerStates, AssessmentStates
<1>3. assessments' = [assessments EXCEPT ![a] = row]
  OBVIOUS
<1>4. /\ row.mode = assessments[a].mode /\ row.of = assessments[a].of
      /\ row.artifact = assessments[a].artifact /\ row.state = assessments[a].state
  BY <1>1 DEF AssessmentRow
<1> HIDE DEF row
<1>5. QED  BY <1>2, <1>3, <1>4, AssessedIs

LEMMA TurnsWorkerExit ==
  ASSUME TypeOK, NEW a \in DOMAIN assessments, NEW worker \in WorkerStates, NEW exit \in Exits,
         assessments' = [assessments EXCEPT ![a].worker = worker, ![a].exit = exit]
  PROVE  Assessed(a, assessments[a].state)
<1> DEFINE row == [assessments[a] EXCEPT !.worker = worker, !.exit = exit]
<1>1. assessments[a] \in AssessmentRow
  BY Rows
<1>2. row \in AssessmentRow
  BY <1>1 DEF AssessmentRow, WorkerStates, AssessmentStates
<1>3. assessments' = [assessments EXCEPT ![a] = row]
  OBVIOUS
<1>4. /\ row.mode = assessments[a].mode /\ row.of = assessments[a].of
      /\ row.artifact = assessments[a].artifact /\ row.state = assessments[a].state
  BY <1>1 DEF AssessmentRow
<1> HIDE DEF row
<1>5. QED  BY <1>2, <1>3, <1>4, AssessedIs

LEMMA TurnsState ==
  ASSUME TypeOK, NEW a \in DOMAIN assessments, NEW state \in AssessmentStates,
         assessments' = [assessments EXCEPT ![a].state = state]
  PROVE  Assessed(a, state)
<1> DEFINE row == [assessments[a] EXCEPT !.state = state]
<1>1. assessments[a] \in AssessmentRow
  BY Rows
<1>2. row \in AssessmentRow
  BY <1>1 DEF AssessmentRow, WorkerStates, AssessmentStates
<1>3. assessments' = [assessments EXCEPT ![a] = row]
  OBVIOUS
<1>4. /\ row.mode = assessments[a].mode /\ row.of = assessments[a].of
      /\ row.artifact = assessments[a].artifact /\ row.state = state
  BY <1>1 DEF AssessmentRow
<1> HIDE DEF row
<1>5. QED  BY <1>2, <1>3, <1>4, AssessedIs

LEMMA TurnsStateOrder ==
  ASSUME TypeOK, NEW a \in DOMAIN assessments, NEW state \in AssessmentStates, NEW order \in Nat,
         assessments' = [assessments EXCEPT ![a].state = state, ![a].order = order]
  PROVE  Assessed(a, state)
<1> DEFINE row == [assessments[a] EXCEPT !.state = state, !.order = order]
<1>1. assessments[a] \in AssessmentRow
  BY Rows
<1>2. row \in AssessmentRow
  BY <1>1 DEF AssessmentRow, WorkerStates, AssessmentStates
<1>3. assessments' = [assessments EXCEPT ![a] = row]
  OBVIOUS
<1>4. /\ row.mode = assessments[a].mode /\ row.of = assessments[a].of
      /\ row.artifact = assessments[a].artifact /\ row.state = state
  BY <1>1 DEF AssessmentRow
<1> HIDE DEF row
<1>5. QED  BY <1>2, <1>3, <1>4, AssessedIs

LEMMA TurnsWorkerEffects ==
  ASSUME TypeOK, NEW a \in DOMAIN assessments, NEW worker \in WorkerStates,
         NEW effects \in Seq(EffectStates),
         assessments' = [assessments EXCEPT ![a].worker = worker, ![a].effects = effects]
  PROVE  Assessed(a, assessments[a].state)
<1> DEFINE row == [assessments[a] EXCEPT !.worker = worker, !.effects = effects]
<1>1. assessments[a] \in AssessmentRow
  BY Rows
<1>2. row \in AssessmentRow
  BY <1>1 DEF AssessmentRow, WorkerStates, AssessmentStates
<1>3. assessments' = [assessments EXCEPT ![a] = row]
  OBVIOUS
<1>4. /\ row.mode = assessments[a].mode /\ row.of = assessments[a].of
      /\ row.artifact = assessments[a].artifact /\ row.state = assessments[a].state
  BY <1>1 DEF AssessmentRow
<1> HIDE DEF row
<1>5. QED  BY <1>2, <1>3, <1>4, AssessedIs

LEMMA TurnsWorkerTerminal ==
  ASSUME TypeOK, NEW a \in DOMAIN assessments, NEW worker \in WorkerStates,
         NEW terminal \in BOOLEAN,
         assessments' = [assessments EXCEPT ![a].worker = worker, ![a].terminal = terminal]
  PROVE  Assessed(a, assessments[a].state)
<1> DEFINE row == [assessments[a] EXCEPT !.worker = worker, !.terminal = terminal]
<1>1. assessments[a] \in AssessmentRow
  BY Rows
<1>2. row \in AssessmentRow
  BY <1>1 DEF AssessmentRow, WorkerStates, AssessmentStates
<1>3. assessments' = [assessments EXCEPT ![a] = row]
  OBVIOUS
<1>4. /\ row.mode = assessments[a].mode /\ row.of = assessments[a].of
      /\ row.artifact = assessments[a].artifact /\ row.state = assessments[a].state
  BY <1>1 DEF AssessmentRow
<1> HIDE DEF row
<1>5. QED  BY <1>2, <1>3, <1>4, AssessedIs

LEMMA TurnsWorkerExitEffects ==
  ASSUME TypeOK, NEW a \in DOMAIN assessments, NEW worker \in WorkerStates, NEW exit \in Exits,
         NEW effects \in Seq(EffectStates),
         assessments' = [assessments EXCEPT ![a].worker = worker, ![a].exit = exit,
                                            ![a].effects = effects]
  PROVE  Assessed(a, assessments[a].state)
<1> DEFINE row == [assessments[a] EXCEPT !.worker = worker, !.exit = exit, !.effects = effects]
<1>1. assessments[a] \in AssessmentRow
  BY Rows
<1>2. row \in AssessmentRow
  BY <1>1 DEF AssessmentRow, WorkerStates, AssessmentStates
<1>3. assessments' = [assessments EXCEPT ![a] = row]
  OBVIOUS
<1>4. /\ row.mode = assessments[a].mode /\ row.of = assessments[a].of
      /\ row.artifact = assessments[a].artifact /\ row.state = assessments[a].state
  BY <1>1 DEF AssessmentRow
<1> HIDE DEF row
<1>5. QED  BY <1>2, <1>3, <1>4, AssessedIs

(* The effects of an assessment, settled, are effects.                     *)
LEMMA SettledEffects ==
  ASSUME NEW effects \in Seq(EffectStates)
  PROVE  Settle(effects) \in Seq(EffectStates)
<1>1. Len(effects) \in Nat /\ DOMAIN effects = 1..Len(effects)
  OBVIOUS
<1>2. \A i \in DOMAIN effects : effects[i] \in EffectStates
  OBVIOUS
<1>3. \A e \in EffectStates : Reconciled[e] \in EffectStates
  BY DEF Reconciled, EffectStates
<1>4. Settle(effects) \in [1..Len(effects) -> EffectStates]
  BY <1>1, <1>2, <1>3 DEF Settle
<1>5. QED  BY <1>1, <1>4

LEMMA AssessmentsMove ==
  ASSUME ArtifactInv, NEW t \in DOMAIN tasks, Alive(t), Moved(t),
         UNCHANGED <<run, rounds, candidates, clock, stopper, faults>>,
         Advances(assessments, assessments'), Knows(t)', HandsOver(t)
  PROVE  ArtifactInv'
<1>1. /\ rounds' \in [1..MaxRounds -> RoundRow] /\ candidates' \in Seq(CandidateRow)
  BY Rows DEF ArtifactInv
<1>2. RunKeeps /\ BaselineStays
  BY Rows, CompleteStays DEF RunKeeps, BaselineStays, ArtifactInv, SealFits
<1>3. RepliesFit'
  BY CompleteStays DEF ArtifactInv, RepliesFit
<1>4. QED  BY <1>1, <1>2, <1>3, MoveKeeps

LEMMA EvaluateKeeps ==
  ASSUME ArtifactInv, NEW t \in DOMAIN tasks, Evaluate(t), UNCHANGED <<stopper, faults>>
  PROVE  ArtifactInv'
<1> DEFINE a == tasks[t].a
<1>1. Alive(t) /\ tasks[t].at = "evaluate"
  BY DEF Evaluate, At, Alive
<1>2. /\ tasks[t] \in TaskRow /\ TypeOK /\ StepFits(t) /\ RequestFits(t) /\ AssessmentFits(t)
      /\ BaselineIsKnown(t) /\ t \in Active /\ tasks[t].pid
  BY <1>1, Known
<1>3. a \in DOMAIN assessments
  BY <1>1, <1>2 DEF AssessmentFits, Assessing
<1>4. CASE Deadline(tasks[t].purpose)
  <2>1. tasks' = [tasks EXCEPT ![t].at = "undo", ![t].verdict = "deadline"] /\ UNCHANGED assessments
    BY <1>4 DEF Evaluate
  <2>2. Holds(t, "undo", tasks[t].c, tasks[t].a, tasks[t].parent, tasks[t].left, "deadline",
              tasks[t].why)
    BY <1>2, <2>1, WritesAtVerdict DEF Places, Verdicts, Exits
  <2>3. Knows(t)'
    BY <1>1, <1>2, <2>1, <2>2 DEF Evaluate, Knows, StepFits, RequestFits, AssessmentFits,
       AssessesNew, BaselineIsKnown, Searches, Assessing, SharedSteps, AfterBaseline, OfCandidate,
       SearchSteps, AuditSteps, Replied, Holds, Moved, Exits
  <2>4. HandsOver(t)
    BY <1>1, <1>2, <2>2 DEF HandsOver, Assessing, Leaves, Active, Holds, Moved, Alive, Searches
  <2>5. QED  BY <1>1, <2>1, <2>2, <2>3, <2>4, TablesStay DEF Evaluate, Holds
<1>5. CASE ~Deadline(tasks[t].purpose)
  <2>1. assessments' = [assessments EXCEPT ![a].worker = "spawned"] /\ Goto(t, "await")
    BY <1>5 DEF Evaluate
  <2>2. Holds(t, "await", tasks[t].c, tasks[t].a, tasks[t].parent, tasks[t].left,
              tasks[t].verdict, tasks[t].why)
    BY <1>2, <2>1, WritesAt DEF Places, Goto
  <2>3. Assessed(a, assessments[a].state)
    BY <1>2, <1>3, <2>1, TurnsWorker DEF WorkerStates
  <2>4. Advances(assessments, assessments')
    BY <1>2, <1>3, <2>3, AssessedAdvances
  <2>5. Knows(t)'
    BY <1>1, <1>2, <2>2, <2>3 DEF Evaluate, Knows, StepFits, RequestFits, AssessmentFits,
       AssessesNew, BaselineIsKnown, Searches, Assessing, SharedSteps, AfterBaseline, OfCandidate,
       SearchSteps, AuditSteps, Replied, Holds, Moved, Assessed
  <2>6. HandsOver(t)
    BY <1>1, <1>2, <2>2 DEF HandsOver, Assessing, Leaves, Active, Holds, Moved, Alive, Searches
  <2>7. QED  BY <1>1, <2>2, <2>4, <2>5, <2>6, AssessmentsMove DEF Evaluate, Holds
<1>6. QED  BY <1>4, <1>5

LEMMA ExpireKeeps ==
  ASSUME ArtifactInv, NEW t \in DOMAIN tasks, Expire(t), UNCHANGED <<stopper, faults>>
  PROVE  ArtifactInv'
<1> DEFINE a == tasks[t].a
<1>1. Alive(t) /\ tasks[t].at = "await"
  BY DEF Expire, At, Alive
<1>2. /\ tasks[t] \in TaskRow /\ TypeOK /\ StepFits(t) /\ RequestFits(t) /\ AssessmentFits(t)
      /\ BaselineIsKnown(t) /\ t \in Active /\ tasks[t].pid
  BY <1>1, Known
<1>3. a \in DOMAIN assessments
  BY <1>1, <1>2 DEF AssessmentFits, Assessing
<1>4. Holds(t, "undo", tasks[t].c, tasks[t].a, tasks[t].parent, tasks[t].left, "timeout",
            tasks[t].why)
  BY <1>2, WritesAtVerdict DEF Expire, Places, Verdicts, Exits
<1>5. Assessed(a, assessments[a].state)
  BY <1>2, <1>3, TurnsWorker DEF Expire, WorkerStates
<1>6. Advances(assessments, assessments')
  BY <1>2, <1>3, <1>5, AssessedAdvances
<1>7. Knows(t)'
  BY <1>1, <1>2, <1>4, <1>5 DEF Expire, Knows, StepFits, RequestFits, AssessmentFits,
     AssessesNew, BaselineIsKnown, Searches, Assessing, SharedSteps, AfterBaseline, OfCandidate,
     SearchSteps, AuditSteps, Replied, Holds, Moved, Assessed, Exits
<1>8. HandsOver(t)
  BY <1>1, <1>2, <1>4 DEF HandsOver, Assessing, Leaves, Active, Holds, Moved, Alive, Searches
<1>9. QED  BY <1>1, <1>4, <1>6, <1>7, <1>8, AssessmentsMove DEF Expire, Holds

LEMMA UndoKeeps ==
  ASSUME ArtifactInv, NEW t \in DOMAIN tasks, Undo(t), UNCHANGED <<stopper, faults>>
  PROVE  ArtifactInv'
<1> DEFINE a == tasks[t].a
<1>1. Alive(t) /\ tasks[t].at = "undo"
  BY DEF Undo, At, Alive
<1>2. /\ tasks[t] \in TaskRow /\ TypeOK /\ StepFits(t) /\ RequestFits(t) /\ AssessmentFits(t)
      /\ BaselineIsKnown(t) /\ t \in Active /\ tasks[t].pid
  BY <1>1, Known
<1>3. a \in DOMAIN assessments
  BY <1>1, <1>2 DEF AssessmentFits, Assessing
<1>4. Holds(t, "shut", tasks[t].c, tasks[t].a, tasks[t].parent, tasks[t].left, tasks[t].verdict,
            tasks[t].why)
  BY <1>2, WritesAt DEF Undo, Places, Goto
<1>5. Assessed(a, assessments[a].state)
  <2>1. Settle(assessments[a].effects) \in Seq(EffectStates)
    BY <1>2, <1>3, Rows, SettledEffects DEF AssessmentRow
  <2>2. assessments' = [assessments EXCEPT ![a].effects = Settle(assessments[a].effects)]
    BY DEF Undo
  <2>3. QED  BY <1>2, <1>3, <2>1, <2>2, TurnsEffects
<1>6. Advances(assessments, assessments')
  BY <1>2, <1>3, <1>5, AssessedAdvances
<1>7. Knows(t)'
  BY <1>1, <1>2, <1>4, <1>5 DEF Undo, Knows, StepFits, RequestFits, AssessmentFits,
     AssessesNew, BaselineIsKnown, Searches, Assessing, SharedSteps, AfterBaseline, OfCandidate,
     SearchSteps, AuditSteps, Replied, Holds, Moved, Assessed
<1>8. HandsOver(t)
  BY <1>1, <1>2, <1>4 DEF HandsOver, Assessing, Leaves, Active, Holds, Moved, Alive, Searches
<1>9. QED  BY <1>1, <1>4, <1>6, <1>7, <1>8, AssessmentsMove DEF Undo, Holds

LEMMA RecordKeeps ==
  ASSUME ArtifactInv, NEW t \in DOMAIN tasks, Record(t), UNCHANGED <<stopper, faults>>
  PROVE  ArtifactInv'
<1> DEFINE a    == tasks[t].a
           next == IF tasks[t].purpose = "audit" THEN "audits"
                   ELSE IF tasks[t].c = 0 THEN "baseline" ELSE "compare"
<1>1. Alive(t) /\ tasks[t].at = "record"
  BY DEF Record, At, Alive
<1>2. /\ tasks[t] \in TaskRow /\ TypeOK /\ StepFits(t) /\ RequestFits(t) /\ AssessmentFits(t)
      /\ BaselineIsKnown(t) /\ t \in Active /\ tasks[t].pid
  BY <1>1, Known
<1>3. /\ a \in DOMAIN assessments
      /\ assessments[a].mode = IF Searches(t) THEN "online" ELSE "audit"
      /\ IF Searches(t) THEN assessments[a].state = "RESERVED" ELSE assessments[a].state # "INVALID"
  BY <1>1, <1>2 DEF AssessmentFits, Assessing
<1>4. next = IF ~Searches(t) THEN "audits" ELSE IF tasks[t].c = 0 THEN "baseline" ELSE "compare"
  BY <1>2 DEF Searches, TaskRow
<1>5. next \in Places /\ tasks' = [tasks EXCEPT ![t].at = next]
  BY DEF Record, Places, Goto
<1> HIDE DEF next
<1>6. Holds(t, next, tasks[t].c, tasks[t].a, tasks[t].parent, tasks[t].left, tasks[t].verdict,
            tasks[t].why)
  BY <1>2, <1>5, WritesAt
<1>7. Assessed(a, "COMPLETE")
  <2>1. NextOrder(assessments) \in Nat
    BY <1>2, Rows, LastNumber DEF NextOrder
  <2>2. QED  BY <1>2, <1>3, <2>1, TurnsStateOrder DEF Record, AssessmentStates
<1>8. Advances(assessments, assessments')
  BY <1>2, <1>3, <1>7, AssessedAdvances DEF Searches
<1>9. Knows(t)'
  BY <1>1, <1>2, <1>3, <1>4, <1>6, <1>7 DEF Record, Knows, StepFits, RequestFits, AssessmentFits,
     AssessesNew, BaselineIsKnown, Searches, Assessing, SharedSteps, AfterBaseline, OfCandidate,
     SearchSteps, AuditSteps, Replied, Holds, Moved, Assessed, CompleteOnline
<1>10. HandsOver(t)
  BY <1>1, <1>2, <1>4, <1>6, <1>7 DEF HandsOver, Assessing, Leaves, Active, Holds, Moved, Alive,
     Searches, Assessed
<1>11. QED  BY <1>1, <1>6, <1>8, <1>9, <1>10, AssessmentsMove DEF Record, Holds

LEMMA ShutKeeps ==
  ASSUME ArtifactInv, NEW t \in DOMAIN tasks, Shut(t), UNCHANGED <<stopper, faults>>
  PROVE  ArtifactInv'
<1> DEFINE a     == tasks[t].a
           v     == tasks[t].verdict
           state == IF v = "invalid" THEN "INVALID" ELSE "INCOMPLETE"
<1>1. Alive(t) /\ tasks[t].at = "shut"
  BY DEF Shut, At, Alive
<1>2. /\ tasks[t] \in TaskRow /\ TypeOK /\ StepFits(t) /\ RequestFits(t) /\ AssessmentFits(t)
      /\ BaselineIsKnown(t) /\ t \in Active /\ tasks[t].pid
  BY <1>1, Known
<1>3. /\ a \in DOMAIN assessments
      /\ assessments[a].mode = IF Searches(t) THEN "online" ELSE "audit"
      /\ IF Searches(t) THEN assessments[a].state = "RESERVED" ELSE assessments[a].state # "INVALID"
      /\ v \in Exits
  BY <1>1, <1>2 DEF AssessmentFits, Assessing, RequestFits
<1>4. Assessed(a, state)
  <2>1. state \in AssessmentStates /\ assessments' = [assessments EXCEPT ![a].state = state]
    BY DEF Shut, AssessmentStates
  <2> HIDE DEF state
  <2>2. QED  BY <1>2, <1>3, <2>1, TurnsState
<1>5. Advances(assessments, assessments')
  <2> HIDE DEF state
  <2>1. QED  BY <1>2, <1>3, <1>4, AssessedAdvances DEF Searches
<1>6. CASE tasks[t].purpose = "audit" /\ v = "timeout"
  <2>1. Goto(t, "audits")
    BY <1>6 DEF Shut
  <2>2. Holds(t, "audits", tasks[t].c, tasks[t].a, tasks[t].parent, tasks[t].left, v,
              tasks[t].why)
    BY <1>2, <2>1, WritesAt DEF Places, Goto
  <2>3. Knows(t)' /\ HandsOver(t)
    BY <1>1, <1>2, <1>6, <2>2 DEF Shut, Knows, StepFits, RequestFits, AssessmentFits,
       AssessesNew, BaselineIsKnown, Searches, Assessing, SharedSteps, AfterBaseline, OfCandidate,
       SearchSteps, AuditSteps, Replied, Holds, Moved, HandsOver
  <2>4. QED  BY <1>1, <1>5, <2>2, <2>3, AssessmentsMove DEF Shut, Holds
<1>7. CASE tasks[t].purpose # "audit" /\ tasks[t].c # 0 /\ v = "invalid"
  <2>1. tasks' = [tasks EXCEPT ![t].at = "finish", ![t].verdict = "INVALID"]
    BY <1>7 DEF Shut
  <2>2. Holds(t, "finish", tasks[t].c, tasks[t].a, tasks[t].parent, tasks[t].left, "INVALID",
              tasks[t].why)
    BY <1>2, <2>1, WritesAtVerdict DEF Places, Verdicts, CandidateStates
  <2>3. Searches(t)
    BY <1>2, <1>7 DEF Searches, TaskRow
  <2>4. Knows(t)'
    BY <1>1, <1>2, <1>7, <2>2, <2>3 DEF Shut, Knows, StepFits, RequestFits, AssessmentFits,
       AssessesNew, BaselineIsKnown, Searches, Assessing, SharedSteps, AfterBaseline, OfCandidate,
       SearchSteps, AuditSteps, Replied, Holds, Moved, CandidateStates
  <2>5. HandsOver(t)
    BY <1>1, <1>2, <1>4, <1>7, <2>2, <2>3 DEF HandsOver, Assessing, Leaves, Holds, Moved, Alive,
       Assessed
  <2>6. QED  BY <1>1, <1>5, <2>2, <2>4, <2>5, AssessmentsMove DEF Shut, Holds
<1>8. CASE tasks[t].purpose # "audit" /\ tasks[t].c # 0 /\ v = "timeout"
  <2>1. tasks' = [tasks EXCEPT ![t].at = "finish", ![t].verdict = "UNKNOWN",
                               ![t].why = "ONLINE_OUTCOME_UNKNOWN"]
    BY <1>8 DEF Shut
  <2>2. Holds(t, "finish", tasks[t].c, tasks[t].a, tasks[t].parent, tasks[t].left, "UNKNOWN",
              "ONLINE_OUTCOME_UNKNOWN")
    BY <1>2, <2>1, WritesAtVerdictWhy DEF Places, Verdicts, CandidateStates, Causes
  <2>3. Searches(t)
    BY <1>2, <1>8 DEF Searches, TaskRow
  <2>4. Knows(t)'
    BY <1>1, <1>2, <1>8, <2>2, <2>3 DEF Shut, Knows, StepFits, RequestFits, AssessmentFits,
       AssessesNew, BaselineIsKnown, Searches, Assessing, SharedSteps, AfterBaseline, OfCandidate,
       SearchSteps, AuditSteps, Replied, Holds, Moved, CandidateStates
  <2>5. Leaves(t)'
    BY <1>1, <1>2, <2>2, <2>3 DEF Leaves, Active, Holds, Moved, Alive, Searches
  <2>6. HandsOver(t)
    BY <1>1, <2>5 DEF HandsOver
  <2>7. QED  BY <1>1, <1>5, <2>2, <2>4, <2>6, AssessmentsMove DEF Shut, Holds
<1>9. CASE /\ ~ (tasks[t].purpose = "audit" /\ v = "timeout")
           /\ ~ (tasks[t].purpose # "audit" /\ tasks[t].c # 0 /\ v \in {"invalid", "timeout"})
  <2> DEFINE why == IF v = "invalid" THEN "failed" ELSE v
  <2>1. Raise(t, why)
    BY <1>9 DEF Shut
  <2>2. why \in Causes
    BY <1>3 DEF Causes, Exits
  <2> HIDE DEF why
  <2>3. Holds(t, "raise", tasks[t].c, tasks[t].a, tasks[t].parent, tasks[t].left, v, why)
    BY <1>2, <2>1, <2>2, WritesAtWhy DEF Places, Raise
  <2>4. Knows(t)'
    BY <1>1, <1>2, <2>3 DEF Shut, Knows, StepFits, RequestFits, AssessmentFits,
       AssessesNew, BaselineIsKnown, Searches, Assessing, SharedSteps, AfterBaseline, OfCandidate,
       SearchSteps, AuditSteps, Replied, Holds, Moved
  <2>5. Searches(t) => Leaves(t)'
    BY <1>1, <1>2, <2>3 DEF Leaves, Active, Holds, Moved, Alive, Searches
  <2>6. HandsOver(t)
    BY <2>5 DEF HandsOver
  <2>7. QED  BY <1>1, <1>5, <2>3, <2>4, <2>6, AssessmentsMove DEF Shut, Holds
<1>10. QED  BY <1>6, <1>7, <1>8, <1>9

-----------------------------------------------------------------------------
(* Steps that change a candidate                                           *)

ProviderStates == {"none", "spawned", "owned", "sent", "gone"}

(* The row of c, alone, has changed; this is what a runner looks at in it. *)
Requested(c, provider, reply, artifact, reuse) ==
  /\ candidates' \in Seq(CandidateRow) /\ DOMAIN candidates' = DOMAIN candidates
  /\ \A d \in DOMAIN candidates : d # c => candidates'[d] = candidates[d]
  /\ candidates'[c].provider = provider /\ candidates'[c].reply = reply
  /\ candidates'[c].artifact = artifact /\ candidates'[c].reuse = reuse

LEMMA RequestedIs ==
  ASSUME TypeOK, NEW c \in DOMAIN candidates, NEW row \in CandidateRow,
         candidates' = [candidates EXCEPT ![c] = row]
  PROVE  Requested(c, row.provider, row.reply, row.artifact, row.reuse)
  BY Rows, RowReplaced DEF Requested

LEMMA SetsEffect ==
  ASSUME TypeOK, NEW c \in DOMAIN candidates,
         NEW effect \in EffectStates,
         candidates' = [candidates EXCEPT ![c].effect = effect]
  PROVE  Requested(c, candidates[c].provider, candidates[c].reply, candidates[c].artifact,
                   candidates[c].reuse)
<1> DEFINE row == [candidates[c] EXCEPT !.effect = effect]
<1>1. candidates[c] \in CandidateRow
  BY Rows
<1>2. row \in CandidateRow
  BY <1>1 DEF CandidateRow, ProviderStates
<1>3. candidates' = [candidates EXCEPT ![c] = row]
  OBVIOUS
<1>4. /\ row.provider = candidates[c].provider /\ row.reply = candidates[c].reply
      /\ row.artifact = candidates[c].artifact /\ row.reuse = candidates[c].reuse
  BY <1>1 DEF CandidateRow
<1> HIDE DEF row
<1>5. QED  BY <1>2, <1>3, <1>4, RequestedIs

LEMMA SetsProvider ==
  ASSUME TypeOK, NEW c \in DOMAIN candidates,
         NEW provider \in ProviderStates,
         candidates' = [candidates EXCEPT ![c].provider = provider]
  PROVE  Requested(c, provider, candidates[c].reply, candidates[c].artifact, candidates[c].reuse)
<1> DEFINE row == [candidates[c] EXCEPT !.provider = provider]
<1>1. candidates[c] \in CandidateRow
  BY Rows
<1>2. row \in CandidateRow
  BY <1>1 DEF CandidateRow, ProviderStates
<1>3. candidates' = [candidates EXCEPT ![c] = row]
  OBVIOUS
<1>4. /\ row.provider = provider /\ row.reply = candidates[c].reply
      /\ row.artifact = candidates[c].artifact /\ row.reuse = candidates[c].reuse
  BY <1>1 DEF CandidateRow
<1> HIDE DEF row
<1>5. QED  BY <1>2, <1>3, <1>4, RequestedIs

LEMMA SetsReuse ==
  ASSUME TypeOK, NEW c \in DOMAIN candidates,
         NEW reuse \in Nat,
         candidates' = [candidates EXCEPT ![c].reuse = reuse]
  PROVE  Requested(c, candidates[c].provider, candidates[c].reply, candidates[c].artifact, reuse)
<1> DEFINE row == [candidates[c] EXCEPT !.reuse = reuse]
<1>1. candidates[c] \in CandidateRow
  BY Rows
<1>2. row \in CandidateRow
  BY <1>1 DEF CandidateRow, ProviderStates
<1>3. candidates' = [candidates EXCEPT ![c] = row]
  OBVIOUS
<1>4. /\ row.provider = candidates[c].provider /\ row.reply = candidates[c].reply
      /\ row.artifact = candidates[c].artifact /\ row.reuse = reuse
  BY <1>1 DEF CandidateRow
<1> HIDE DEF row
<1>5. QED  BY <1>2, <1>3, <1>4, RequestedIs

LEMMA SetsState ==
  ASSUME TypeOK, NEW c \in DOMAIN candidates,
         NEW state \in CandidateStates,
         candidates' = [candidates EXCEPT ![c].state = state]
  PROVE  Requested(c, candidates[c].provider, candidates[c].reply, candidates[c].artifact,
                   candidates[c].reuse)
<1> DEFINE row == [candidates[c] EXCEPT !.state = state]
<1>1. candidates[c] \in CandidateRow
  BY Rows
<1>2. row \in CandidateRow
  BY <1>1 DEF CandidateRow, ProviderStates
<1>3. candidates' = [candidates EXCEPT ![c] = row]
  OBVIOUS
<1>4. /\ row.provider = candidates[c].provider /\ row.reply = candidates[c].reply
      /\ row.artifact = candidates[c].artifact /\ row.reuse = candidates[c].reuse
  BY <1>1 DEF CandidateRow
<1> HIDE DEF row
<1>5. QED  BY <1>2, <1>3, <1>4, RequestedIs

LEMMA SetsProviderOwner ==
  ASSUME TypeOK, NEW c \in DOMAIN candidates,
         NEW provider \in ProviderStates, NEW owner \in BOOLEAN,
         candidates' = [candidates EXCEPT ![c].provider = provider, ![c].owner = owner]
  PROVE  Requested(c, provider, candidates[c].reply, candidates[c].artifact, candidates[c].reuse)
<1> DEFINE row == [candidates[c] EXCEPT !.provider = provider, !.owner = owner]
<1>1. candidates[c] \in CandidateRow
  BY Rows
<1>2. row \in CandidateRow
  BY <1>1 DEF CandidateRow, ProviderStates
<1>3. candidates' = [candidates EXCEPT ![c] = row]
  OBVIOUS
<1>4. /\ row.provider = provider /\ row.reply = candidates[c].reply
      /\ row.artifact = candidates[c].artifact /\ row.reuse = candidates[c].reuse
  BY <1>1 DEF CandidateRow
<1> HIDE DEF row
<1>5. QED  BY <1>2, <1>3, <1>4, RequestedIs

LEMMA SetsProviderReplyArtifact ==
  ASSUME TypeOK, NEW c \in DOMAIN candidates,
         NEW provider \in ProviderStates, NEW reply \in Replies,
         NEW artifact \in Artifacts \cup {-1},
         candidates' = [candidates EXCEPT ![c].provider = provider, ![c].reply = reply,
                                          ![c].artifact = artifact]
  PROVE  Requested(c, provider, reply, artifact, candidates[c].reuse)
<1> DEFINE row == [candidates[c] EXCEPT !.provider = provider, !.reply = reply,
                                        !.artifact = artifact]
<1>1. candidates[c] \in CandidateRow
  BY Rows
<1>2. row \in CandidateRow
  BY <1>1 DEF CandidateRow, ProviderStates
<1>3. candidates' = [candidates EXCEPT ![c] = row]
  OBVIOUS
<1>4. /\ row.provider = provider /\ row.reply = reply
      /\ row.artifact = artifact /\ row.reuse = candidates[c].reuse
  BY <1>1 DEF CandidateRow
<1> HIDE DEF row
<1>5. QED  BY <1>2, <1>3, <1>4, RequestedIs

LEMMA CandidatesMove ==
  ASSUME ArtifactInv, NEW t \in DOMAIN tasks, Alive(t), Moved(t),
         UNCHANGED <<run, rounds, assessments, clock, stopper, faults>>,
         candidates' \in Seq(CandidateRow), RepliesFit', Knows(t)', HandsOver(t)
  PROVE  ArtifactInv'
<1>1. /\ rounds' \in [1..MaxRounds -> RoundRow] /\ Advances(assessments, assessments')
  BY Rows, SameAdvances DEF ArtifactInv
<1>2. RunKeeps /\ BaselineStays
  BY Rows DEF RunKeeps, BaselineStays, ArtifactInv, SealFits
<1>3. QED  BY <1>1, <1>2, MoveKeeps

(* The assessments and the other candidates are not concerned.             *)
LEMMA RequestedFits ==
  ASSUME RepliesFit, NEW c \in DOMAIN candidates, NEW provider, NEW reply, NEW artifact,
         NEW reuse, Requested(c, provider, reply, artifact, reuse), UNCHANGED assessments,
         provider # "gone" => reply = "none", reply = "complete" => artifact \in Artifacts,
         reuse # 0 => reuse \in CompleteOnline(assessments)
  PROVE  RepliesFit'
  BY DEF RepliesFit, Requested

LEMMA Refused ==
  ASSUME NEW purpose PROVE Refusal(purpose) \in Causes /\ Refusal(purpose) \in Exits
  BY DEF Refusal, Causes, Exits

LEMMA GenerateKeeps ==
  ASSUME ArtifactInv, NEW t \in DOMAIN tasks, Generate(t), UNCHANGED <<stopper, faults>>
  PROVE  ArtifactInv'
<1>1. Alive(t) /\ tasks[t].at = "generate"
  BY DEF Generate, At, Alive
<1>2. /\ tasks[t] \in TaskRow /\ TypeOK /\ StepFits(t) /\ RequestFits(t) /\ AssessmentFits(t)
      /\ BaselineIsKnown(t) /\ t \in Active /\ tasks[t].pid
  BY <1>1, Known
<1>3. Searches(t) /\ run.baseline # 0
  BY <1>1, <1>2 DEF StepFits, SharedSteps, AuditSteps, BaselineIsKnown, AfterBaseline, SearchSteps
<1>4. CASE \E why \in Causes : Raise(t, why) /\ UNCHANGED candidates
  BY <1>1, <1>4, RaiseKeeps DEF Generate
<1>5. CASE /\ candidates' = Append(candidates, NewCandidate(tasks[t].round))
           /\ tasks' = [tasks EXCEPT ![t].at = "start", ![t].c = Len(candidates) + 1]
  <2> DEFINE row == NewCandidate(tasks[t].round)
             c   == Len(candidates) + 1
  <2>1. /\ candidates \in Seq(CandidateRow) /\ Len(candidates) \in Nat
        /\ DOMAIN candidates = 1..Len(candidates)
    BY <1>2, Rows
  <2>2. row \in CandidateRow /\ row.provider = "none" /\ row.reply = "none" /\ row.reuse = 0
    BY <1>2 DEF NewCandidate, CandidateRow, TaskRow, CandidateStates, EffectStates, Replies
  <2> HIDE DEF row
  <2>3. /\ candidates' \in Seq(CandidateRow) /\ DOMAIN candidates' = 1..c
        /\ candidates'[c] = row /\ c \in DOMAIN candidates'
        /\ \A d \in DOMAIN candidates : candidates'[d] = candidates[d]
    BY <1>5, <2>1, <2>2 DEF row
  <2>4. Holds(t, "start", c, tasks[t].a, tasks[t].parent, tasks[t].left, tasks[t].verdict,
              tasks[t].why)
    <3>1. c \in Nat /\ tasks' = [tasks EXCEPT ![t].at = "start", ![t].c = c]
      BY <1>5, <2>1
    <3> HIDE DEF c
    <3>2. QED  BY <1>2, <3>1, WritesAtC DEF Places
  <2>5. RepliesFit'
    <3>1. \A d \in DOMAIN candidates' : d \in DOMAIN candidates \/ d = c
      BY <2>1, <2>3
    <3>2. UNCHANGED assessments
      BY DEF Generate
    <3> HIDE DEF c
    <3>3. QED  BY <2>2, <2>3, <3>1, <3>2 DEF RepliesFit, ArtifactInv
  <2>6. Knows(t)'
    <3> HIDE DEF c
    <3>1. QED  BY <1>1, <1>2, <1>3, <2>2, <2>3, <2>4 DEF Generate, Knows, StepFits, RequestFits,
                  AssessmentFits,
       AssessesNew, BaselineIsKnown, Searches, Assessing, SharedSteps, AfterBaseline, OfCandidate,
       SearchSteps, AuditSteps, Replied, Holds, Moved
  <2>7. HandsOver(t)
    BY <1>1, <1>2, <2>4 DEF HandsOver, Assessing, Leaves, Active, Holds, Moved, Alive, Searches
  <2>8. QED  BY <1>1, <2>3, <2>4, <2>5, <2>6, <2>7, CandidatesMove DEF Generate, Holds
<1>6. QED  BY <1>4, <1>5, Refused DEF Generate, Causes, Exits

LEMMA StartRequestKeeps ==
  ASSUME ArtifactInv, NEW t \in DOMAIN tasks, StartRequest(t), UNCHANGED <<stopper, faults>>
  PROVE  ArtifactInv'
<1> DEFINE c == tasks[t].c
<1>1. Alive(t) /\ tasks[t].at = "start"
  BY DEF StartRequest, At, Alive
<1>2. /\ tasks[t] \in TaskRow /\ TypeOK /\ StepFits(t) /\ RequestFits(t) /\ AssessmentFits(t)
      /\ BaselineIsKnown(t) /\ t \in Active /\ tasks[t].pid
  BY <1>1, Known
<1>3. Searches(t) /\ run.baseline # 0
  BY <1>1, <1>2 DEF StepFits, SharedSteps, AuditSteps, BaselineIsKnown, AfterBaseline, SearchSteps
<1>4. c \in DOMAIN candidates /\ candidates[c].provider = "none"
  BY <1>1, <1>2 DEF RequestFits, OfCandidate
<1>5. CASE Raise(t, Refusal("search")) /\ UNCHANGED candidates
  BY <1>1, <1>5, Refused, RaiseKeeps DEF StartRequest
<1>6. CASE candidates' = [candidates EXCEPT ![c].effect = "STARTED"] /\ Goto(t, "call")
  <2>1. Requested(c, candidates[c].provider, candidates[c].reply, candidates[c].artifact,
                  candidates[c].reuse)
    BY <1>2, <1>4, <1>6, SetsEffect DEF EffectStates
  <2>2. Holds(t, "call", tasks[t].c, tasks[t].a, tasks[t].parent, tasks[t].left, tasks[t].verdict,
              tasks[t].why)
    BY <1>2, <1>6, WritesAt DEF Places, Goto
  <2>3. RepliesFit'
    BY <1>4, <2>1, RequestedFits DEF StartRequest, ArtifactInv, RepliesFit
  <2>4. Knows(t)'
    BY <1>1, <1>2, <1>3, <1>4, <2>1, <2>2 DEF StartRequest, Knows, StepFits, RequestFits,
       AssessmentFits,
       AssessesNew, BaselineIsKnown, Searches, Assessing, SharedSteps, AfterBaseline, OfCandidate,
       SearchSteps, AuditSteps, Replied, Holds, Moved, Requested
  <2>5. HandsOver(t)
    BY <1>1, <1>2, <2>2 DEF HandsOver, Assessing, Leaves, Active, Holds, Moved, Alive, Searches
  <2>6. QED  BY <1>1, <2>1, <2>2, <2>3, <2>4, <2>5, CandidatesMove DEF StartRequest, Holds,
                Requested
<1>7. QED  BY <1>5, <1>6 DEF StartRequest

LEMMA CallProviderKeeps ==
  ASSUME ArtifactInv, NEW t \in DOMAIN tasks, CallProvider(t), UNCHANGED <<stopper, faults>>
  PROVE  ArtifactInv'
<1> DEFINE c == tasks[t].c
<1>1. Alive(t) /\ tasks[t].at = "call"
  BY DEF CallProvider, At, Alive
<1>2. /\ tasks[t] \in TaskRow /\ TypeOK /\ StepFits(t) /\ RequestFits(t) /\ AssessmentFits(t)
      /\ BaselineIsKnown(t) /\ t \in Active /\ tasks[t].pid
  BY <1>1, Known
<1>3. Searches(t) /\ run.baseline # 0
  BY <1>1, <1>2 DEF StepFits, SharedSteps, AuditSteps, BaselineIsKnown, AfterBaseline, SearchSteps
<1>4. /\ c \in DOMAIN candidates /\ candidates[c].provider = "none"
      /\ candidates[c].reply = "none"
  BY <1>1, <1>2 DEF RequestFits, OfCandidate, ArtifactInv, RepliesFit
<1>5. CASE late
  <2>1. Holds(t, "reply", tasks[t].c, tasks[t].a, tasks[t].parent, tasks[t].left, "unknown",
              tasks[t].why)
    BY <1>2, <1>5, WritesAtVerdict DEF CallProvider, Places, Verdicts, Replies
  <2>2. Knows(t)'
    BY <1>1, <1>2, <1>3, <1>4, <1>5, <2>1 DEF CallProvider, Knows, StepFits, RequestFits,
       AssessmentFits,
       AssessesNew, BaselineIsKnown, Searches, Assessing, SharedSteps, AfterBaseline, OfCandidate,
       SearchSteps, AuditSteps, Replied, Holds, Moved, Terminal
  <2>3. HandsOver(t)
    BY <1>1, <1>2, <2>1 DEF HandsOver, Assessing, Leaves, Active, Holds, Moved, Alive, Searches
  <2>4. QED  BY <1>1, <1>5, <2>1, <2>2, <2>3, TablesStay DEF CallProvider, Holds
<1>6. CASE ~late
  <2>1. Requested(c, "spawned", candidates[c].reply, candidates[c].artifact, candidates[c].reuse)
    BY <1>2, <1>4, <1>6, SetsProvider DEF CallProvider, ProviderStates
  <2>2. Holds(t, "wait", tasks[t].c, tasks[t].a, tasks[t].parent, tasks[t].left, tasks[t].verdict,
              tasks[t].why)
    BY <1>2, <1>6, WritesAt DEF CallProvider, Places, Goto
  <2>3. RepliesFit'
    BY <1>4, <2>1, RequestedFits DEF CallProvider, ArtifactInv, RepliesFit
  <2>4. Knows(t)'
    BY <1>1, <1>2, <1>3, <1>4, <2>1, <2>2 DEF CallProvider, Knows, StepFits, RequestFits,
       AssessmentFits,
       AssessesNew, BaselineIsKnown, Searches, Assessing, SharedSteps, AfterBaseline, OfCandidate,
       SearchSteps, AuditSteps, Replied, Holds, Moved, Requested
  <2>5. HandsOver(t)
    BY <1>1, <1>2, <2>2 DEF HandsOver, Assessing, Leaves, Active, Holds, Moved, Alive, Searches
  <2>6. QED  BY <1>1, <2>1, <2>2, <2>3, <2>4, <2>5, CandidatesMove DEF CallProvider, Holds,
                Requested
<1>7. QED  BY <1>5, <1>6

LEMMA HearKeeps ==
  ASSUME ArtifactInv, NEW t \in DOMAIN tasks, Hear(t), UNCHANGED <<stopper, faults>>
  PROVE  ArtifactInv'
<1> DEFINE c == tasks[t].c
<1>1. Alive(t) /\ tasks[t].at = "wait"
  BY DEF Hear, At, Alive
<1>2. /\ tasks[t] \in TaskRow /\ TypeOK /\ StepFits(t) /\ RequestFits(t) /\ AssessmentFits(t)
      /\ BaselineIsKnown(t) /\ t \in Active /\ tasks[t].pid
  BY <1>1, Known
<1>3. Searches(t) /\ run.baseline # 0
  BY <1>1, <1>2 DEF StepFits, SharedSteps, AuditSteps, BaselineIsKnown, AfterBaseline, SearchSteps
<1>4. c \in DOMAIN candidates /\ candidates[c].reply \in Replies
  BY <1>1, <1>2, Rows DEF RequestFits, OfCandidate, CandidateRow
<1>5. CASE candidates[c].provider = "gone" /\ UNCHANGED candidates
  <2> DEFINE v == IF candidates[c].reply = "none" THEN "unknown" ELSE candidates[c].reply
  <2>1. /\ v \in DOMAIN Terminal /\ v \in Verdicts
        /\ (v = "complete" => candidates[c].reply = "complete")
    BY <1>4 DEF Terminal, Replies, Verdicts
  <2>2. tasks' = [tasks EXCEPT ![t].at = "reply", ![t].verdict = v]
    BY <1>5 DEF Hear, Request
  <2> HIDE DEF v
  <2>3. Holds(t, "reply", tasks[t].c, tasks[t].a, tasks[t].parent, tasks[t].left, v, tasks[t].why)
    BY <1>2, <2>1, <2>2, WritesAtVerdict DEF Places
  <2>4. Knows(t)'
    BY <1>1, <1>2, <1>3, <1>4, <1>5, <2>1, <2>3 DEF Hear, Knows, StepFits, RequestFits,
       AssessmentFits,
       AssessesNew, BaselineIsKnown, Searches, Assessing, SharedSteps, AfterBaseline, OfCandidate,
       SearchSteps, AuditSteps, Replied, Holds, Moved, Terminal
  <2>5. HandsOver(t)
    BY <1>1, <1>2, <2>3 DEF HandsOver, Assessing, Leaves, Active, Holds, Moved, Alive, Searches
  <2>6. QED  BY <1>1, <1>5, <2>3, <2>4, <2>5, TablesStay DEF Hear, Holds
<1>6. CASE /\ candidates[c].provider # "gone"
           /\ candidates' = [candidates EXCEPT ![c].provider = "gone"]
           /\ tasks' = [tasks EXCEPT ![t].at = "reply", ![t].verdict = "unknown"]
  <2>1. Requested(c, "gone", candidates[c].reply, candidates[c].artifact, candidates[c].reuse)
    BY <1>2, <1>4, <1>6, SetsProvider DEF ProviderStates
  <2>2. Holds(t, "reply", tasks[t].c, tasks[t].a, tasks[t].parent, tasks[t].left, "unknown",
              tasks[t].why)
    BY <1>2, <1>6, WritesAtVerdict DEF Places, Verdicts, Replies
  <2>3. RepliesFit'
    BY <1>4, <2>1, RequestedFits DEF Hear, ArtifactInv, RepliesFit
  <2>4. Knows(t)'
    BY <1>1, <1>2, <1>3, <1>4, <2>1, <2>2 DEF Hear, Knows, StepFits, RequestFits, AssessmentFits,
       AssessesNew, BaselineIsKnown, Searches, Assessing, SharedSteps, AfterBaseline, OfCandidate,
       SearchSteps, AuditSteps, Replied, Holds, Moved, Requested, Terminal
  <2>5. HandsOver(t)
    BY <1>1, <1>2, <2>2 DEF HandsOver, Assessing, Leaves, Active, Holds, Moved, Alive, Searches
  <2>6. QED  BY <1>1, <2>1, <2>2, <2>3, <2>4, <2>5, CandidatesMove DEF Hear, Holds, Requested
<1>7. QED  BY <1>5, <1>6 DEF Hear, Request

LEMMA ReplyKeeps ==
  ASSUME ArtifactInv, NEW t \in DOMAIN tasks, Reply(t), UNCHANGED <<stopper, faults>>
  PROVE  ArtifactInv'
<1> DEFINE c == tasks[t].c
           v == tasks[t].verdict
<1>1. Alive(t) /\ tasks[t].at = "reply"
  BY DEF Reply, At, Alive
<1>2. /\ tasks[t] \in TaskRow /\ TypeOK /\ StepFits(t) /\ RequestFits(t) /\ AssessmentFits(t)
      /\ BaselineIsKnown(t) /\ t \in Active /\ tasks[t].pid
  BY <1>1, Known
<1>3. Searches(t) /\ run.baseline # 0
  BY <1>1, <1>2 DEF StepFits, SharedSteps, AuditSteps, BaselineIsKnown, AfterBaseline, SearchSteps
<1>4. /\ c \in DOMAIN candidates /\ v \in DOMAIN Terminal
      /\ v = "complete" => candidates[c].reply = "complete"
  BY <1>1, <1>2 DEF RequestFits, OfCandidate, Replied
<1>5. CASE candidates[c].effect \in {"RESERVED", "STARTED"}
  <2>1. candidates' = [candidates EXCEPT ![c].effect = Terminal[v]]
    BY <1>5 DEF Reply, Request
  <2>2. Terminal[v] \in EffectStates
    BY <1>4 DEF Terminal, EffectStates
  <2>3. Requested(c, candidates[c].provider, candidates[c].reply, candidates[c].artifact,
                  candidates[c].reuse)
    BY <1>2, <1>4, <2>1, <2>2, SetsEffect
  <2>4. RepliesFit'
    BY <1>4, <2>3, RequestedFits DEF Reply, ArtifactInv, RepliesFit
  <2>5. \/ \E verdict \in {"FAILED", "SKIPPED", "INVALID"},
              why \in {"REQUEST_OUTCOME_UNKNOWN", "PROVIDER_TERMINAL", "SEARCH_DEADLINE", "none"} :
             tasks' = [tasks EXCEPT ![t].at = "finish", ![t].verdict = verdict, ![t].why = why]
        \/ v = "complete" /\ Goto(t, "validate")
    <3>1. \/ v = "unknown" \/ v = "provider_failed"
          \/ (v \in {"complete", "generation_failed"} /\ late)
          \/ (v = "generation_failed" /\ ~late) \/ (v = "complete" /\ ~late)
      BY <1>4 DEF Terminal
    <3>2. QED  BY <1>5, <3>1 DEF Reply, Request
  <2>6. ASSUME NEW verdict \in {"FAILED", "SKIPPED", "INVALID"},
               NEW why \in {"REQUEST_OUTCOME_UNKNOWN", "PROVIDER_TERMINAL", "SEARCH_DEADLINE",
                            "none"},
               tasks' = [tasks EXCEPT ![t].at = "finish", ![t].verdict = verdict, ![t].why = why]
        PROVE  ArtifactInv'
    <3>1. verdict \in Verdicts /\ verdict \in CandidateStates /\ why \in Causes
      BY DEF Verdicts, CandidateStates, Causes, Exits
    <3>2. Holds(t, "finish", tasks[t].c, tasks[t].a, tasks[t].parent, tasks[t].left, verdict, why)
      BY <1>2, <2>6, <3>1, WritesAtVerdictWhy DEF Places
    <3>3. Knows(t)'
      BY <1>1, <1>2, <1>3, <1>4, <2>3, <3>1, <3>2 DEF Reply, Knows, StepFits, RequestFits,
         AssessmentFits,
       AssessesNew, BaselineIsKnown, Searches, Assessing, SharedSteps, AfterBaseline, OfCandidate,
       SearchSteps, AuditSteps, Replied, Holds, Moved, Requested
    <3>4. HandsOver(t)
      BY <1>1, <1>2, <3>2 DEF HandsOver, Assessing, Leaves, Active, Holds, Moved, Alive, Searches
    <3>5. QED  BY <1>1, <2>3, <2>4, <3>2, <3>3, <3>4, CandidatesMove DEF Reply, Holds, Requested
  <2>7. ASSUME v = "complete", Goto(t, "validate") PROVE ArtifactInv'
    <3>1. Holds(t, "validate", tasks[t].c, tasks[t].a, tasks[t].parent, tasks[t].left,
                tasks[t].verdict, tasks[t].why)
      BY <1>2, <2>7, WritesAt DEF Places, Goto
    <3>2. Knows(t)'
      BY <1>1, <1>2, <1>3, <1>4, <2>3, <2>7, <3>1 DEF Reply, Knows, StepFits, RequestFits,
         AssessmentFits,
       AssessesNew, BaselineIsKnown, Searches, Assessing, SharedSteps, AfterBaseline, OfCandidate,
       SearchSteps, AuditSteps, Replied, Holds, Moved, Requested
    <3>3. HandsOver(t)
      BY <1>1, <1>2, <3>1 DEF HandsOver, Assessing, Leaves, Active, Holds, Moved, Alive, Searches
    <3>4. QED  BY <1>1, <2>3, <2>4, <3>1, <3>2, <3>3, CandidatesMove DEF Reply, Holds, Requested
  <2>8. QED  BY <2>5, <2>6, <2>7
<1>6. CASE candidates[c].effect \notin {"RESERVED", "STARTED"}
  <2>1. Raise(t, "failed") /\ UNCHANGED candidates
    BY <1>6 DEF Reply, Request
  <2>2. "failed" \in Causes
    BY DEF Causes, Exits
  <2>3. QED  BY <1>1, <2>1, <2>2, RaiseKeeps DEF Reply
<1>7. QED  BY <1>5, <1>6

LEMMA FinishCandidateKeeps ==
  ASSUME ArtifactInv, NEW t \in DOMAIN tasks, FinishCandidate(t), UNCHANGED <<stopper, faults>>
  PROVE  ArtifactInv'
<1> DEFINE c    == tasks[t].c
           next == IF tasks[t].why = "none" THEN "loop" ELSE "close"
<1>1. Alive(t) /\ tasks[t].at = "finish"
  BY DEF FinishCandidate, At, Alive
<1>2. /\ tasks[t] \in TaskRow /\ TypeOK /\ StepFits(t) /\ RequestFits(t) /\ AssessmentFits(t)
      /\ BaselineIsKnown(t) /\ t \in Active /\ tasks[t].pid
  BY <1>1, Known
<1>3. Searches(t) /\ run.baseline # 0
  BY <1>1, <1>2 DEF StepFits, SharedSteps, AuditSteps, BaselineIsKnown, AfterBaseline, SearchSteps
<1>4. c \in DOMAIN candidates /\ tasks[t].verdict \in CandidateStates
  BY <1>1, <1>2 DEF RequestFits, OfCandidate
<1>5. Requested(c, candidates[c].provider, candidates[c].reply, candidates[c].artifact,
                candidates[c].reuse)
  BY <1>2, <1>4, SetsState DEF FinishCandidate
<1>6. RepliesFit'
  BY <1>4, <1>5, RequestedFits DEF FinishCandidate, ArtifactInv, RepliesFit
<1>7. /\ next \in Places /\ next \in {"loop", "close"}
      /\ tasks' = [tasks EXCEPT ![t].at = next, ![t].c = 0, ![t].a = 0, ![t].verdict = "none"]
      /\ tasks[t].why # "none" => next = "close"
  BY DEF FinishCandidate, Places
<1> HIDE DEF next
<1>8. "none" \in Verdicts
  BY DEF Verdicts, Exits
<1>9. Holds(t, next, 0, 0, tasks[t].parent, tasks[t].left, "none", tasks[t].why)
  BY <1>2, <1>7, <1>8, WritesAtCAVerdict
<1>10. Knows(t)'
  BY <1>1, <1>2, <1>3, <1>5, <1>7, <1>9 DEF FinishCandidate, Knows, StepFits, RequestFits,
     AssessmentFits,
       AssessesNew, BaselineIsKnown, Searches, Assessing, SharedSteps, AfterBaseline, OfCandidate,
       SearchSteps, AuditSteps, Replied, Holds, Moved, Requested
<1>11. HandsOver(t)
  BY <1>1, <1>2, <1>7, <1>9 DEF HandsOver, Assessing, Leaves, Active, Holds, Moved, Alive, Searches
<1>12. QED  BY <1>1, <1>5, <1>6, <1>9, <1>10, <1>11, CandidatesMove DEF FinishCandidate, Holds,
               Requested

LEMMA ValidateKeeps ==
  ASSUME ArtifactInv, NEW t \in DOMAIN tasks, Validate(t), UNCHANGED <<stopper, faults>>
  PROVE  ArtifactInv'
<1> DEFINE c        == tasks[t].c
           reusable == Reusable(candidates[c].artifact, assessments)
           first    == CHOOSE a \in reusable : \A b \in reusable :
                         assessments[a].order <= assessments[b].order
<1>1. Alive(t) /\ tasks[t].at = "validate"
  BY DEF Validate, At, Alive
<1>2. /\ tasks[t] \in TaskRow /\ TypeOK /\ StepFits(t) /\ RequestFits(t) /\ AssessmentFits(t)
      /\ BaselineIsKnown(t) /\ t \in Active /\ tasks[t].pid
  BY <1>1, Known
<1>3. Searches(t) /\ run.baseline # 0
  BY <1>1, <1>2 DEF StepFits, SharedSteps, AuditSteps, BaselineIsKnown, AfterBaseline, SearchSteps
<1>4. c \in DOMAIN candidates /\ candidates[c].reply = "complete" /\ c \in Nat \ {0}
  BY <1>1, <1>2, Rows DEF RequestFits, OfCandidate, Replied
<1>5. ASSUME NEW verdict \in {"INVALID", "UNKNOWN"}, NEW why \in Causes,
             Holds(t, "finish", tasks[t].c, tasks[t].a, tasks[t].parent, tasks[t].left, verdict,
                   why),
             UNCHANGED candidates
      PROVE  ArtifactInv'
  <2>1. verdict \in CandidateStates
    BY DEF CandidateStates
  <2>2. Knows(t)'
    BY <1>1, <1>2, <1>3, <1>4, <1>5, <2>1 DEF Validate, Knows, StepFits, RequestFits,
       AssessmentFits,
       AssessesNew, BaselineIsKnown, Searches, Assessing, SharedSteps, AfterBaseline, OfCandidate,
       SearchSteps, AuditSteps, Replied, Holds, Moved
  <2>3. HandsOver(t)
    BY <1>1, <1>2, <1>5 DEF HandsOver, Assessing, Leaves, Active, Holds, Moved, Alive, Searches
  <2>4. QED  BY <1>1, <1>5, <2>2, <2>3, TablesStay DEF Validate, Holds
<1>6. CASE /\ tasks' = [tasks EXCEPT ![t].at = "finish", ![t].verdict = "INVALID"]
           /\ UNCHANGED candidates
  <2>1. Holds(t, "finish", tasks[t].c, tasks[t].a, tasks[t].parent, tasks[t].left, "INVALID",
              tasks[t].why)
    BY <1>2, <1>6, WritesAtVerdict DEF Places, Verdicts, CandidateStates
  <2>2. tasks[t].why \in Causes
    BY <1>2 DEF TaskRow
  <2>3. QED  BY <1>5, <1>6, <2>1, <2>2
<1>7. CASE /\ tasks' = [tasks EXCEPT ![t].at = "finish", ![t].verdict = "UNKNOWN",
                                     ![t].why = "ONLINE_OUTCOME_UNKNOWN"]
           /\ UNCHANGED candidates
  <2>1. "ONLINE_OUTCOME_UNKNOWN" \in Causes
    BY DEF Causes
  <2>2. Holds(t, "finish", tasks[t].c, tasks[t].a, tasks[t].parent, tasks[t].left, "UNKNOWN",
              "ONLINE_OUTCOME_UNKNOWN")
    BY <1>2, <1>7, <2>1, WritesAtVerdictWhy DEF Places, Verdicts, CandidateStates
  <2>3. QED  BY <1>5, <1>7, <2>1, <2>2
<1>8. CASE Raise(t, "failed") /\ UNCHANGED candidates
  <2>1. "failed" \in Causes
    BY DEF Causes, Exits
  <2>2. QED  BY <1>1, <1>8, <2>1, RaiseKeeps DEF Validate
<1>9. CASE reusable = {} /\ Goto(t, "assess") /\ UNCHANGED candidates
  <2>1. Holds(t, "assess", tasks[t].c, tasks[t].a, tasks[t].parent, tasks[t].left,
              tasks[t].verdict, tasks[t].why)
    BY <1>2, <1>9, WritesAt DEF Places, Goto
  <2>2. ASSUME run.state = "SEARCHING", NEW a \in DOMAIN assessments, Online(a),
               assessments[a].artifact = candidates[c].artifact
        PROVE  assessments[a].state = "INVALID"
    <3>1. ~Leaves(t) /\ ~Assesses(t, a)
      BY <1>1 DEF Leaves, Assesses, Assessing, Alive
    <3>2. \A u \in DOMAIN tasks : u \in Active => u = t
      BY <1>1, OneAlive DEF ArtifactInv
    <3>3. Settled(a)
      BY <2>2, <3>1, <3>2 DEF ArtifactInv, SearchIsSettled, Leaves, Assesses
    <3>4. a \notin CompleteOnline(assessments)
      BY <1>9, <2>2 DEF Reusable
    <3>5. QED  BY <2>2, <3>3, <3>4 DEF Settled, CompleteOnline, Online
  <2>3. AssessesNew(t)'
    BY <1>3, <1>4, <1>9, <2>1, <2>2 DEF Validate, AssessesNew, Target, Online, Holds, Moved,
       Searches
  <2>4. Knows(t)'
    BY <1>1, <1>2, <1>3, <1>4, <1>9, <2>1, <2>3 DEF Validate, Knows, StepFits, RequestFits,
       AssessmentFits, BaselineIsKnown, Searches, Assessing, SharedSteps, AfterBaseline,
       OfCandidate, SearchSteps, AuditSteps, Replied, Holds, Moved
  <2>5. HandsOver(t)
    BY <1>1, <1>2, <2>1 DEF HandsOver, Assessing, Leaves, Active, Holds, Moved, Alive, Searches
  <2>6. QED  BY <1>1, <1>9, <2>1, <2>4, <2>5, TablesStay DEF Validate, Holds
<1>10. CASE /\ reusable # {}
            /\ candidates' = [candidates EXCEPT ![c].reuse = first]
            /\ tasks' = [tasks EXCEPT ![t].at = "compare", ![t].a = first]
  <2>1. first \in reusable
    <3> DEFINE orders == {assessments[a].order : a \in reusable}
    <3>1. \A a \in reusable : assessments[a].order \in Nat
      BY <1>2, Rows DEF Reusable, CompleteOnline, AssessmentRow
    <3>2. orders \in SUBSET Nat /\ orders # {}
      BY <1>10, <3>1
    <3>3. \E x \in orders : \A y \in orders : x <= y
      <4> HIDE DEF orders
      <4>1. QED  BY <3>2, SmallestNumber
    <3>4. \E a \in reusable : \A b \in reusable : assessments[a].order <= assessments[b].order
      BY <3>3
    <3> HIDE DEF reusable
    <3>5. QED  BY <3>4
  <2> HIDE DEF first
  <2>2. first \in CompleteOnline(assessments) /\ first \in Nat
    BY <1>2, <2>1, Rows DEF Reusable, CompleteOnline
  <2>3. Requested(c, candidates[c].provider, candidates[c].reply, candidates[c].artifact, first)
    BY <1>2, <1>4, <1>10, <2>2, SetsReuse
  <2>4. RepliesFit'
    BY <1>4, <2>2, <2>3, RequestedFits DEF Validate, ArtifactInv, RepliesFit
  <2>5. Holds(t, "compare", tasks[t].c, first, tasks[t].parent, tasks[t].left, tasks[t].verdict,
              tasks[t].why)
    BY <1>2, <1>10, <2>2, WritesAtA DEF Places
  <2>6. Knows(t)'
    BY <1>1, <1>2, <1>3, <1>4, <2>2, <2>3, <2>5 DEF Validate, Knows, StepFits, RequestFits,
       AssessmentFits,
       AssessesNew, BaselineIsKnown, Searches, Assessing, SharedSteps, AfterBaseline, OfCandidate,
       SearchSteps, AuditSteps, Replied, Holds, Moved, Requested
  <2>7. HandsOver(t)
    BY <1>1, <1>2, <2>5 DEF HandsOver, Assessing, Leaves, Active, Holds, Moved, Alive, Searches
  <2>8. QED  BY <1>1, <2>3, <2>4, <2>5, <2>6, <2>7, CandidatesMove DEF Validate, Holds, Requested
<1>11. QED  BY <1>6, <1>7, <1>8, <1>9, <1>10 DEF Validate

-----------------------------------------------------------------------------
(* Steps that change the run                                               *)

LEMMA RunMoves ==
  ASSUME ArtifactInv, NEW t \in DOMAIN tasks, Alive(t), Moved(t),
         UNCHANGED <<candidates, assessments, clock, stopper, faults>>,
         rounds' \in [1..MaxRounds -> RoundRow], RunKeeps \/ RunSeals, BaselineStays,
         Knows(t)', HandsOver(t)
  PROVE  ArtifactInv'
<1>1. /\ candidates' \in Seq(CandidateRow) /\ Advances(assessments, assessments')
  BY Rows, SameAdvances DEF ArtifactInv
<1>2. RepliesFit'
  BY DEF ArtifactInv, RepliesFit
<1>3. QED  BY <1>1, <1>2, MoveKeeps

(* A seal, when the run has not been sealed and no assessment is new.      *)
LEMMA SealSeals ==
  ASSUME NEW r \in RunRow, ~r.sealed, NEW why \in Reasons, NEW tab \in Seq(AssessmentRow),
         r.incumbent # 0 => r.incumbent \in CompleteOnline(tab)
  PROVE  /\ Seal(r, tab, why) \in RunRow
         /\ Seal(r, tab, why).sealed /\ Seal(r, tab, why).state = "SEARCH_SEALED"
         /\ IsQueue(Seal(r, tab, why).queue, tab)
         /\ Seal(r, tab, why).incumbent = r.incumbent
         /\ Seal(r, tab, why).baseline = r.baseline
         /\ Seal(r, tab, why).round = r.round
<1> DEFINE queue == AuditQueue(r.incumbent, tab)
<1>1. r \in RunRow
  OBVIOUS
<1>2. IsQueue(queue, tab)
  BY AuditQueueIsQueue
<1>3. queue \in Seq(Nat)
  <2>1. queue \in Seq(CompleteOnline(tab))
    BY <1>2 DEF IsQueue
  <2>2. CompleteOnline(tab) \subseteq Nat
    <3>1. DOMAIN tab \subseteq Nat
      OBVIOUS
    <3>2. QED  BY <3>1 DEF CompleteOnline
  <2> HIDE DEF queue
  <2>3. Len(queue) \in Nat /\ queue \in [1..Len(queue) -> Nat]
    BY <2>1, <2>2
  <2>4. QED  BY <2>3
<1>4. Seal(r, tab, why) = [r EXCEPT !.state = "SEARCH_SEALED", !.reason = why,
                                        !.sealed = TRUE, !.queue = queue]
  BY DEF Seal
<1> HIDE DEF queue
<1>5. [r EXCEPT !.state = "SEARCH_SEALED", !.reason = why, !.sealed = TRUE, !.queue = queue]
        \in RunRow
  BY <1>1, <1>3 DEF RunRow, RunStates
<1>6. QED  BY <1>1, <1>2, <1>4, <1>5 DEF RunRow

(* What is returned is an assessment, or none.                             *)
LEMMA SelectedFits ==
  ASSUME TypeOK
  PROVE  Selected \in Nat /\ Summary \in Reasons \X Nat
<1> DEFINE Better(b, d) == \/ Key[assessments[b].artifact] > Key[assessments[d].artifact]
                           \/ /\ Key[assessments[b].artifact] = Key[assessments[d].artifact]
                              /\ EarlierSource(b, d)
           best == {b \in Passed : \A d \in Passed \ {b} : Better(b, d)}
<1>1. Passed \subseteq Nat
  BY Rows DEF Passed, Audits
<1>2. BestPassed = IF best = {} THEN 0 ELSE CHOOSE b \in best : TRUE
  BY DEF BestPassed
<1>3. best \subseteq Nat
  BY <1>1
<1> HIDE DEF best
<1>4. BestPassed \in Nat
  BY <1>2, <1>3
<1>5. Parent(run) \in Nat /\ run.reason \in Reasons
  BY Rows DEF Parent, RunRow
<1>6. QED  BY <1>4, <1>5 DEF Selected, Summary

LEMMA RoundWritten ==
  ASSUME NEW rs \in [1..MaxRounds -> RoundRow], NEW r, NEW state \in RoundStates
  PROVE  /\ [rs EXCEPT ![r].facts = TRUE, ![r].state = state] \in [1..MaxRounds -> RoundRow]
         /\ [rs EXCEPT ![r].state = state] \in [1..MaxRounds -> RoundRow]
  BY DEF RoundRow

LEMMA AcceptBaselineKeeps ==
  ASSUME ArtifactInv, NEW t \in DOMAIN tasks, AcceptBaseline(t), UNCHANGED <<stopper, faults>>
  PROVE  ArtifactInv'
<1> DEFINE a    == tasks[t].a
           best == IF KeyOf(a, assessments) # 0 THEN a ELSE run.incumbent
<1>1. Alive(t) /\ tasks[t].at = "baseline"
  BY DEF AcceptBaseline, At, Alive
<1>2. /\ tasks[t] \in TaskRow /\ TypeOK /\ StepFits(t) /\ RequestFits(t) /\ AssessmentFits(t)
      /\ BaselineIsKnown(t) /\ t \in Active /\ tasks[t].pid
  BY <1>1, Known
<1>3. Searches(t) /\ a \in CompleteOnline(assessments) /\ a \in Nat \ {0}
  BY <1>1, <1>2, Rows DEF StepFits, SharedSteps, AuditSteps, AssessmentFits, CompleteOnline
<1>4. Holds(t, "loop", tasks[t].c, tasks[t].a, tasks[t].parent, tasks[t].left,
            tasks[t].verdict, tasks[t].why)
  BY <1>2, WritesAt DEF AcceptBaseline, Places, Goto
<1>5. run' = [run EXCEPT !.baseline = a, !.incumbent = best]
  BY DEF AcceptBaseline, TakeBaseline
<1>6. run \in RunRow /\ best \in Nat /\ (best # 0 => best \in CompleteOnline(assessments))
  BY <1>2, <1>3, Rows DEF RunRow, ArtifactInv, SealFits
<1> HIDE DEF best
<1>7. /\ run' \in RunRow /\ run'.sealed = run.sealed /\ run'.queue = run.queue
      /\ run'.incumbent = best /\ run'.state = run.state /\ run'.baseline = a
  BY <1>3, <1>5, <1>6 DEF RunRow
<1>8. RunKeeps /\ BaselineStays
  BY <1>3, <1>6, <1>7 DEF RunKeeps, BaselineStays, AcceptBaseline, ArtifactInv, SealFits
<1>9. Knows(t)'
  BY <1>1, <1>2, <1>3, <1>4, <1>7 DEF AcceptBaseline, Knows, StepFits, RequestFits, AssessmentFits,
       AssessesNew, BaselineIsKnown, Searches, Assessing, SharedSteps, AfterBaseline, OfCandidate,
       SearchSteps, AuditSteps, Replied, Holds, Moved
<1>10. HandsOver(t)
  BY <1>1, <1>2, <1>3, <1>4, <1>7 DEF HandsOver, Assessing, Leaves, Active, Holds, Moved, Alive,
     Searches
<1>11. rounds' \in [1..MaxRounds -> RoundRow]
  BY <1>2, Rows DEF AcceptBaseline
<1>12. QED  BY <1>1, <1>4, <1>8, <1>9, <1>10, <1>11, RunMoves DEF AcceptBaseline, Holds

LEMMA CompareKeeps ==
  ASSUME ArtifactInv, NEW t \in DOMAIN tasks, Compare(t), UNCHANGED <<stopper, faults>>
  PROVE  ArtifactInv'
<1> DEFINE a == tasks[t].a
<1>1. Alive(t) /\ tasks[t].at = "compare"
  BY DEF Compare, At, Alive
<1>2. /\ tasks[t] \in TaskRow /\ TypeOK /\ StepFits(t) /\ RequestFits(t) /\ AssessmentFits(t)
      /\ BaselineIsKnown(t) /\ t \in Active /\ tasks[t].pid
  BY <1>1, Known
<1>3. Searches(t) /\ run.baseline # 0
  BY <1>1, <1>2 DEF StepFits, SharedSteps, AuditSteps, BaselineIsKnown, AfterBaseline, SearchSteps
<1>4. a \in CompleteOnline(assessments) /\ a \in Nat /\ run \in RunRow
  BY <1>1, <1>2, Rows DEF AssessmentFits, CompleteOnline
<1>5. tasks' = [tasks EXCEPT ![t].at = "finish", ![t].verdict = "COMPLETE"]
  BY DEF Compare
<1>6. Holds(t, "finish", tasks[t].c, tasks[t].a, tasks[t].parent, tasks[t].left, "COMPLETE",
            tasks[t].why)
  BY <1>2, <1>5, WritesAtVerdict DEF Places, Verdicts, CandidateStates
<1>7. run' = run \/ run' = [run EXCEPT !.incumbent = a]
  BY DEF Compare
<1>8. /\ run' \in RunRow /\ run'.sealed = run.sealed /\ run'.queue = run.queue
      /\ run'.incumbent \in {run.incumbent, a}
      /\ run'.state = run.state /\ run'.baseline = run.baseline
  BY <1>4, <1>7 DEF RunRow
<1>9. RunKeeps /\ BaselineStays
  BY <1>4, <1>8 DEF RunKeeps, BaselineStays, Compare, ArtifactInv, SealFits
<1>10. Knows(t)'
  BY <1>1, <1>2, <1>3, <1>6, <1>8 DEF Compare, CandidateStates, Knows, StepFits, RequestFits,
     AssessmentFits,
       AssessesNew, BaselineIsKnown, Searches, Assessing, SharedSteps, AfterBaseline, OfCandidate,
       SearchSteps, AuditSteps, Replied, Holds, Moved
<1>11. HandsOver(t)
  BY <1>1, <1>2, <1>6, <1>8 DEF HandsOver, Assessing, Leaves, Active, Holds, Moved, Alive, Searches
<1>12. rounds' \in [1..MaxRounds -> RoundRow]
  BY <1>2, Rows DEF Compare
<1>13. QED  BY <1>1, <1>6, <1>9, <1>10, <1>11, <1>12, RunMoves DEF Compare, Holds

LEMMA ConcludeKeeps ==
  ASSUME ArtifactInv, NEW t \in DOMAIN tasks, Conclude(t), UNCHANGED <<stopper, faults>>
  PROVE  ArtifactInv'
<1>1. Alive(t) /\ tasks[t].at = "conclude"
  BY DEF Conclude, At, Alive
<1>2. /\ tasks[t] \in TaskRow /\ TypeOK /\ StepFits(t) /\ RequestFits(t) /\ AssessmentFits(t)
      /\ BaselineIsKnown(t) /\ t \in Active /\ tasks[t].pid
  BY <1>1, Known
<1>3. ~Searches(t)
  BY <1>1, <1>2 DEF StepFits, SharedSteps, SearchSteps
<1>4. CASE Raise(t, "summary") /\ UNCHANGED run
  <2>1. "summary" \in Causes
    BY DEF Causes
  <2>2. QED  BY <1>1, <1>4, <2>1, RaiseKeeps DEF Conclude
<1>5. CASE /\ run' = [run EXCEPT !.state = "COMPLETED", !.final = Selected, !.summary = Summary]
           /\ Goto(t, "done")
  <2>1. Holds(t, "done", tasks[t].c, tasks[t].a, tasks[t].parent, tasks[t].left,
              tasks[t].verdict, tasks[t].why)
    BY <1>2, <1>5, WritesAt DEF Places, Goto
  <2>2. run \in RunRow /\ Selected \in Nat /\ Summary \in Reasons \X Nat
    BY <1>2, SelectedFits, Rows
  <2>3. /\ run' \in RunRow /\ run'.sealed = run.sealed /\ run'.queue = run.queue
        /\ run'.incumbent = run.incumbent
        /\ run'.state = "COMPLETED" /\ run'.baseline = run.baseline
    BY <1>5, <2>2 DEF RunRow, RunStates
  <2>4. RunKeeps /\ BaselineStays
    BY <2>3 DEF RunKeeps, BaselineStays, Conclude, ArtifactInv, SealFits
  <2>5. Knows(t)'
    BY <1>1, <1>2, <1>3, <2>1, <2>3 DEF Conclude, Knows, StepFits, RequestFits, AssessmentFits,
       AssessesNew, BaselineIsKnown, Searches, Assessing, SharedSteps, AfterBaseline, OfCandidate,
       SearchSteps, AuditSteps, Replied, Holds, Moved
  <2>6. HandsOver(t)
    BY <1>3 DEF HandsOver
  <2>7. rounds' \in [1..MaxRounds -> RoundRow]
    BY <1>2, Rows DEF Conclude
  <2>8. QED  BY <1>1, <2>1, <2>4, <2>5, <2>6, <2>7, RunMoves DEF Conclude, Holds
<1>6. QED  BY <1>4, <1>5 DEF Conclude

LEMMA CloseRoundKeeps ==
  ASSUME ArtifactInv, NEW t \in DOMAIN tasks, CloseRound(t), UNCHANGED <<stopper, faults>>
  PROVE  ArtifactInv'
<1> DEFINE stop    == tasks[t].why # "none" \/ Exhausted
           why     == IF tasks[t].why # "none" THEN tasks[t].why ELSE "GENERATION_BUDGET"
           sealing == run.state = "SEARCHING" /\ stop
<1>1. Alive(t) /\ tasks[t].at = "close"
  BY DEF CloseRound, At, Alive
<1>2. /\ tasks[t] \in TaskRow /\ TypeOK /\ StepFits(t) /\ RequestFits(t) /\ AssessmentFits(t)
      /\ BaselineIsKnown(t) /\ t \in Active /\ tasks[t].pid
  BY <1>1, Known
<1>3. Searches(t) /\ run.baseline # 0
  BY <1>1, <1>2 DEF StepFits, SharedSteps, AuditSteps, BaselineIsKnown, AfterBaseline, SearchSteps
<1>4. Holds(t, "done", tasks[t].c, tasks[t].a, tasks[t].parent, tasks[t].left,
            tasks[t].verdict, tasks[t].why)
  BY <1>2, WritesAt DEF CloseRound, Places, Goto
<1>5. rounds' \in [1..MaxRounds -> RoundRow]
  <2> DEFINE r    == tasks[t].round
             next == IF sealing THEN "EVALUATE_SKIPPED" ELSE "WAITING_FOR_EVALUATION"
  <2>1. rounds' = [rounds EXCEPT ![r].facts = TRUE, ![r].state = next]
    BY DEF CloseRound
  <2>2. next \in RoundStates
    BY DEF RoundStates
  <2>3. rounds \in [1..MaxRounds -> RoundRow]
    BY <1>2, Rows
  <2> HIDE DEF next, r
  <2>4. QED  BY <2>1, <2>2, <2>3, RoundWritten
<1>6. why \in Reasons
  BY <1>2 DEF TaskRow, Reasons
<1>7. run' = IF sealing THEN Seal(run, assessments, why) ELSE run
  BY DEF CloseRound
<1>8. sealing => ~run.sealed
  BY DEF ArtifactInv, SealFits
<1> HIDE DEF why
<1>9. CASE sealing
  <2>1. /\ run' \in RunRow /\ run'.sealed /\ run'.state = "SEARCH_SEALED"
        /\ IsQueue(run'.queue, assessments) /\ run'.incumbent = run.incumbent
        /\ run'.baseline = run.baseline
    BY <1>2, <1>6, <1>7, <1>8, <1>9, SealSeals, Rows DEF ArtifactInv, SealFits
  <2>2. RunSeals /\ BaselineStays
    BY <1>8, <1>9, <2>1 DEF RunSeals, BaselineStays, CloseRound, ArtifactInv, SealFits
  <2>3. Knows(t)'
    BY <1>1, <1>2, <1>3, <1>4, <2>1 DEF CloseRound, Knows, StepFits, RequestFits, AssessmentFits,
       AssessesNew, BaselineIsKnown, Searches, Assessing, SharedSteps, AfterBaseline, OfCandidate,
       SearchSteps, AuditSteps, Replied, Holds, Moved
  <2>4. HandsOver(t)
    BY <2>1 DEF HandsOver
  <2>5. QED  BY <1>1, <1>4, <1>5, <2>2, <2>3, <2>4, RunMoves DEF CloseRound, Holds
<1>10. CASE ~sealing
  <2>1. run' = run
    BY <1>7, <1>10
  <2>2. RunKeeps /\ BaselineStays
    BY <1>2, <2>1, Rows DEF RunKeeps, BaselineStays, CloseRound, ArtifactInv, SealFits
  <2>3. Knows(t)'
    BY <1>1, <1>2, <1>3, <1>4, <2>1 DEF CloseRound, Knows, StepFits, RequestFits, AssessmentFits,
       AssessesNew, BaselineIsKnown, Searches, Assessing, SharedSteps, AfterBaseline, OfCandidate,
       SearchSteps, AuditSteps, Replied, Holds, Moved
  <2>4. HandsOver(t)
    BY <1>1, <1>2, <1>10, <2>1 DEF HandsOver, Assessing, Leaves, Alive
  <2>5. QED  BY <1>1, <1>4, <1>5, <2>2, <2>3, <2>4, RunMoves DEF CloseRound, Holds
<1>11. QED  BY <1>9, <1>10

LEMMA ExceptKeeps ==
  ASSUME ArtifactInv, NEW t \in DOMAIN tasks, Except(t), UNCHANGED <<stopper, faults>>
  PROVE  ArtifactInv'
<1>1. Alive(t) /\ tasks[t].at = "raise"
  BY DEF Except, At, Alive
<1>2. /\ tasks[t] \in TaskRow /\ TypeOK /\ StepFits(t) /\ RequestFits(t) /\ AssessmentFits(t)
      /\ BaselineIsKnown(t) /\ t \in Active /\ tasks[t].pid
  BY <1>1, Known
<1>3. Holds(t, "failed", tasks[t].c, tasks[t].a, tasks[t].parent, tasks[t].left,
            tasks[t].verdict, tasks[t].why)
  BY <1>2, WritesAt DEF Except, Places, Goto
<1>4. run \in RunRow /\ tasks[t].why \in Reasons /\ "ONLINE_OUTCOME_UNKNOWN" \in Reasons
  BY <1>2, Rows DEF TaskRow, Reasons, Causes
<1>5. /\ RunKeeps \/ RunSeals
      /\ BaselineStays /\ run'.baseline = run.baseline /\ run'.state # "SEARCHING"
  <2>1. CASE run' = run /\ run.state \in {"STOPPING", "STOPPED"}
    BY <1>4, <2>1 DEF RunKeeps, BaselineStays, Except, ArtifactInv, SealFits
  <2>2. CASE run' = [run EXCEPT !.state = "FAILED", !.reason = tasks[t].why]
    <3>1. /\ run' \in RunRow /\ run'.sealed = run.sealed /\ run'.queue = run.queue
          /\ run'.incumbent = run.incumbent
          /\ run'.state = "FAILED" /\ run'.baseline = run.baseline
      BY <1>4, <2>2 DEF RunRow, RunStates
    <3>2. QED  BY <3>1 DEF RunKeeps, BaselineStays, Except, ArtifactInv, SealFits
  <2>3. CASE /\ run.state \notin {"STOPPING", "STOPPED"} /\ tasks[t].purpose = "search"
             /\ run' = Seal(run, assessments, "ONLINE_OUTCOME_UNKNOWN")
    <3>1. CASE run.sealed
      <4>1. run' = run
        BY <2>3, <3>1 DEF Seal
      <4>2. QED  BY <1>4, <2>3, <3>1, <4>1 DEF RunKeeps, BaselineStays, Except, ArtifactInv,
                    SealFits
    <3>2. CASE ~run.sealed
      <4>1. /\ run' \in RunRow /\ run'.sealed /\ run'.state = "SEARCH_SEALED"
            /\ IsQueue(run'.queue, assessments) /\ run'.incumbent = run.incumbent
            /\ run'.baseline = run.baseline
        BY <1>2, <1>4, <2>3, <3>2, SealSeals, Rows DEF ArtifactInv, SealFits
      <4>2. QED  BY <3>2, <4>1 DEF RunSeals, BaselineStays, Except, ArtifactInv, SealFits
    <3>3. QED  BY <3>1, <3>2
  <2>4. QED  BY <2>1, <2>2, <2>3 DEF Except
<1>6. Knows(t)'
  BY <1>1, <1>2, <1>3, <1>5 DEF Except, Knows, StepFits, RequestFits, AssessmentFits,
       AssessesNew, BaselineIsKnown, Searches, Assessing, SharedSteps, AfterBaseline, OfCandidate,
       SearchSteps, AuditSteps, Replied, Holds, Moved
<1>7. HandsOver(t)
  BY <1>5 DEF HandsOver
<1>8. rounds' \in [1..MaxRounds -> RoundRow]
  BY <1>2, Rows DEF Except
<1>9. QED  BY <1>1, <1>3, <1>5, <1>6, <1>7, <1>8, RunMoves DEF Except, Holds

-----------------------------------------------------------------------------
(* Steps of other processes                                                *)

(* The runner of t is left alone.                                          *)
LeftAlone(t) ==
  /\ Alive(t) /\ Alive(t)' /\ tasks'[t].at = tasks[t].at /\ tasks'[t].c = tasks[t].c
  /\ tasks'[t].a = tasks[t].a /\ tasks'[t].verdict = tasks[t].verdict
  /\ tasks'[t].why = tasks[t].why /\ (t \in Active => t \in Active')

(* What was asked for and what came of it stays.                           *)
RequestsStay ==
  /\ DOMAIN candidates' = DOMAIN candidates
  /\ \A c \in DOMAIN candidates :
       /\ candidates[c].provider = "none" =>
            candidates'[c].provider = "none" \/ \A t \in DOMAIN tasks : ~Alive(t)'
       /\ candidates[c].reply = "complete" =>
            candidates'[c].reply = "complete" /\ candidates'[c].artifact = candidates[c].artifact

(* An assessment is only settled when no search is at work.                *)
AssessmentsStay ==
  /\ Advances(assessments, assessments')
  /\ \A a \in DOMAIN assessments :
       /\ assessments'[a].state = "INVALID" => assessments[a].state = "INVALID"
       /\ \A t \in DOMAIN tasks :
            Alive(t)' /\ Searches(t) => assessments'[a].state = assessments[a].state

(* Who ends the search, or assesses for it, still does.                    *)
SearchStays ==
  run'.state = "SEARCHING" =>
    \A t \in DOMAIN tasks :
      /\ Leaves(t) => Leaves(t)'
      /\ t \in Active /\ Searches(t) /\ Alive(t) => Leaves(t)' \/ LeftAlone(t)
                                     \/ tasks[t].at \notin Assessing \cup {"baseline"}

LEMMA AlonesKnow ==
  ASSUME ArtifactInv, NEW t \in DOMAIN tasks, LeftAlone(t), tasks'[t].purpose = tasks[t].purpose,
         RequestsStay, AssessmentsStay, RunKeeps \/ RunSeals, BaselineStays
  PROVE  Knows(t)'
<1>1. /\ tasks[t] \in TaskRow /\ TypeOK /\ StepFits(t) /\ RequestFits(t) /\ AssessmentFits(t)
      /\ AssessesNew(t) /\ BaselineIsKnown(t) /\ Alive(t) /\ Alive(t)'
  BY Known DEF LeftAlone
<1>2. (Searches(t)' <=> Searches(t)) /\ tasks'[t].at = tasks[t].at /\ tasks'[t].c = tasks[t].c
      /\ tasks'[t].a = tasks[t].a /\ tasks'[t].verdict = tasks[t].verdict
  BY DEF LeftAlone, Searches
<1>3. StepFits(t)' /\ BaselineIsKnown(t)'
  BY <1>1, <1>2 DEF StepFits, BaselineIsKnown, BaselineStays
<1>4. Replied(tasks[t].c) => Replied(tasks[t].c)'
  BY <1>2 DEF Replied, RequestsStay
<1>5. RequestFits(t)'
  <2>1. tasks[t].at \in {"start", "call"} => candidates'[tasks[t].c].provider = "none"
    BY <1>1 DEF RequestFits, RequestsStay, OfCandidate
  <2>2. QED  BY <1>1, <1>2, <1>4, <2>1 DEF RequestFits, RequestsStay, OfCandidate
<1>6. /\ DOMAIN assessments' = DOMAIN assessments
      /\ \A a \in DOMAIN assessments :
           /\ assessments'[a].mode = assessments[a].mode /\ assessments'[a].of = assessments[a].of
           /\ assessments'[a].artifact = assessments[a].artifact
           /\ assessments[a].state = "INVALID" => assessments'[a].state = "INVALID"
           /\ assessments'[a].state = "INVALID" => assessments[a].state = "INVALID"
           /\ Searches(t) => assessments'[a].state = assessments[a].state
  BY <1>1 DEF AssessmentsStay, Advances
<1>7. AssessmentFits(t)'
  <2>1. tasks[t].at \in {"compare", "baseline"} => tasks[t].a \in CompleteOnline(assessments')
    BY <1>1, CompleteStays DEF AssessmentFits, AssessmentsStay
  <2>2. tasks[t].at \in Assessing =>
          /\ tasks[t].a \in DOMAIN assessments'
          /\ assessments'[tasks[t].a].mode = IF Searches(t) THEN "online" ELSE "audit"
          /\ IF Searches(t) THEN assessments'[tasks[t].a].state = "RESERVED"
             ELSE assessments'[tasks[t].a].state # "INVALID"
    BY <1>1, <1>6 DEF AssessmentFits
  <2>3. QED  BY <1>2, <2>1, <2>2 DEF AssessmentFits
<1>8. AssessesNew(t)'
  <2>1. CASE tasks[t].at # "assess"
    BY <1>2, <2>1 DEF AssessesNew
  <2>2. CASE tasks[t].at = "assess" /\ Searches(t)
    <3>1. run'.state = "SEARCHING" => run.state = "SEARCHING"
      BY DEF RunKeeps, RunSeals
    <3>2. tasks[t].c = 0 \/ Replied(tasks[t].c)
      BY <1>1, <2>2 DEF RequestFits
    <3>3. Target(t)' = Target(t)
      BY <1>2, <3>2 DEF Target, Replied, RequestsStay
    <3>4. QED  BY <1>1, <1>2, <1>6, <2>2, <3>1, <3>3 DEF AssessesNew, Online
  <2>3. CASE tasks[t].at = "assess" /\ ~Searches(t)
    <3>1. tasks[t].c \in Range(run.queue) /\ ~Attempted(tasks[t].c)
      BY <1>1, <2>3 DEF AssessesNew
    <3>2. run.sealed
      BY <3>1 DEF ArtifactInv, SealFits, Range
    <3>3. run'.queue = run.queue
      BY <3>2 DEF RunKeeps, RunSeals
    <3>4. ~Attempted(tasks[t].c)'
      BY <1>2, <1>6, <3>1 DEF Attempted, Audits
    <3>5. QED  BY <1>2, <2>3, <3>1, <3>3, <3>4 DEF AssessesNew
  <2>4. QED  BY <2>1, <2>2, <2>3
<1>9. QED  BY <1>3, <1>5, <1>7, <1>8 DEF Knows

(* A step of another process keeps the invariant when it keeps the types   *)
(* and the processes, and leaves alone who is at work.                     *)
LEMMA StepKeeps ==
  ASSUME ArtifactInv, TypeOK', ProcessInv', RepliesFit', DOMAIN tasks' = DOMAIN tasks,
         \A t \in DOMAIN tasks : /\ tasks'[t].purpose = tasks[t].purpose
                                 /\ Alive(t)' => LeftAlone(t) \/ Knows(t)',
         RequestsStay, AssessmentsStay, RunKeeps \/ RunSeals, BaselineStays, SearchStays
  PROVE  ArtifactInv'
<1>1. RunnersKnow'
  BY AlonesKnow DEF RunnersKnow
<1>2. SealFits' /\ AuditsFit' /\ NoReplay'
  BY TablesKept DEF ArtifactInv, AssessmentsStay
<1>3. /\ DOMAIN assessments' = DOMAIN assessments
      /\ \A a \in DOMAIN assessments :
           (Online(a)' <=> Online(a)) /\ (Online(a) /\ Settled(a) => Settled(a)')
  BY DEF AssessmentsStay, Advances, Online, Settled
<1>4. SearchIsSettled' /\ BaselineIsFirst'
  <2> SUFFICES ASSUME run'.state = "SEARCHING"
               PROVE  SearchIsSettled' /\ BaselineIsFirst'
    BY DEF SearchIsSettled, BaselineIsFirst
  <2>1. run.state = "SEARCHING"
    BY DEF RunKeeps, RunSeals
  <2>2. ASSUME NEW t \in DOMAIN tasks, NEW a, Assesses(t, a)
        PROVE  Leaves(t)' \/ (Assesses(t, a)' /\ tasks'[t].c = tasks[t].c)
    <3>1. tasks'[t].purpose = tasks[t].purpose
      OBVIOUS
    <3>2. QED  BY <2>2, <3>1 DEF SearchStays, LeftAlone, Assesses, Searches
  <2>3. ASSUME NEW a \in DOMAIN assessments, Online(a)', ~Settled(a)'
        PROVE  \E t \in DOMAIN tasks' : Leaves(t)' \/ Assesses(t, a)'
    <3>1. PICK t \in DOMAIN tasks : Leaves(t) \/ Assesses(t, a)
      BY <1>3, <2>1, <2>3 DEF ArtifactInv, SearchIsSettled
    <3>2. Leaves(t)' \/ Assesses(t, a)'
      BY <2>2, <3>1 DEF SearchStays
    <3>3. QED  BY <3>2
  <2>4. SearchIsSettled'
    BY <1>3, <2>3 DEF SearchIsSettled
  <2>5. ASSUME run'.baseline = 0, NEW a \in DOMAIN assessments, Online(a)'
        PROVE  \E t \in DOMAIN tasks' :
                 \/ Leaves(t)'
                 \/ Assesses(t, a)' /\ tasks'[t].c = 0
                 \/ t \in Active' /\ Alive(t)' /\ tasks'[t].at = "baseline"
    <3>1. run.baseline = 0
      BY <2>5 DEF BaselineStays
    <3>2. PICK t \in DOMAIN tasks : \/ Leaves(t)
                                    \/ Assesses(t, a) /\ tasks[t].c = 0
                                    \/ t \in Active /\ Alive(t) /\ tasks[t].at = "baseline"
      BY <1>3, <2>1, <2>5, <3>1 DEF ArtifactInv, BaselineIsFirst
    <3>3. CASE Leaves(t)
      BY <3>3 DEF SearchStays
    <3>4. CASE Assesses(t, a) /\ tasks[t].c = 0
      BY <2>2, <3>4
    <3>5. CASE t \in Active /\ Alive(t) /\ tasks[t].at = "baseline"
      <4>1. Searches(t)
        BY <3>5, Known DEF StepFits, SharedSteps, AuditSteps
      <4>2. Leaves(t)' \/ LeftAlone(t)
        BY <3>5, <4>1 DEF SearchStays
      <4>3. QED  BY <3>5, <4>2 DEF LeftAlone
    <3>6. QED  BY <3>2, <3>3, <3>4, <3>5
  <2>6. BaselineIsFirst'
    BY <1>3, <2>5 DEF BaselineIsFirst
  <2>7. QED  BY <2>4, <2>6
<1>5. QED  BY <1>1, <1>2, <1>4 DEF ArtifactInv

-----------------------------------------------------------------------------
(* Steps that no runner takes part in                                      *)

LEMMA QuietKeeps ==
  ASSUME ArtifactInv, UNCHANGED tasks, TypeOK', RepliesFit', RequestsStay,
         Advances(assessments, assessments'),
         \A a \in DOMAIN assessments : assessments'[a].state = assessments[a].state,
         RunKeeps \/ RunSeals, BaselineStays,
         late => late', over => over', stopper' = "killed" => stopper = "killed"
  PROVE  ArtifactInv'
<1>1. Active' = Active
  BY DEF Active
<1>2. \A t : (Alive(t)' <=> Alive(t)) /\ (Searches(t)' <=> Searches(t))
  BY DEF Alive, Searches
<1>3. ProcessInv'
  <2>1. OneActive'
    BY <1>1 DEF ArtifactInv, ProcessInv, OneActive
  <2>2. StopperIsAlone'
    BY <1>2 DEF ArtifactInv, ProcessInv, StopperIsAlone, RunKeeps, RunSeals
  <2>3. \A t \in DOMAIN tasks : RunnerOfActive(t)'
    BY <1>2 DEF ArtifactInv, ProcessInv, RunnerOfActive
  <2>4. \A t \in DOMAIN tasks : Deadline(tasks[t].purpose) => Deadline(tasks[t].purpose)'
    BY DEF Deadline
  <2>5. \A t \in DOMAIN tasks : WatchdogIsLate(t)'
    BY <1>2, <2>4 DEF ArtifactInv, ProcessInv, WatchdogIsLate
  <2>6. QED  BY <2>1, <2>2, <2>3, <2>5 DEF ProcessInv
<1>4. \A t \in DOMAIN tasks : Alive(t) => LeftAlone(t)
  BY <1>1, <1>2 DEF LeftAlone
<1>5. AssessmentsStay
  BY DEF AssessmentsStay
<1>6. SearchStays
  <2>1. \A t \in DOMAIN tasks : Leaves(t) => Leaves(t)'
    BY <1>1, <1>2 DEF Leaves
  <2>2. QED  BY <1>4, <2>1 DEF SearchStays
<1>7. \A t \in DOMAIN tasks : /\ tasks'[t].purpose = tasks[t].purpose
                              /\ Alive(t)' => LeftAlone(t) \/ Knows(t)'
  BY <1>2, <1>4
<1>8. QED  BY <1>3, <1>5, <1>6, <1>7, StepKeeps

(* The Agent writes rounds and the row of the run.                         *)
LEMMA RoundsKeep ==
  ASSUME ArtifactInv, UNCHANGED <<tasks, candidates, assessments, clock, stopper, faults>>,
         rounds' \in [1..MaxRounds -> RoundRow], RunKeeps \/ RunSeals, BaselineStays
  PROVE  ArtifactInv'
<1>1. TypeOK'
  BY DEF ArtifactInv, TypeOK, TableTypeOK, clock, RunKeeps, RunSeals
<1>2. RepliesFit' /\ RequestsStay
  BY DEF ArtifactInv, RepliesFit, RequestsStay
<1>3. Advances(assessments, assessments')
  BY SameAdvances DEF ArtifactInv
<1>4. QED  BY <1>1, <1>2, <1>3, QuietKeeps DEF clock

LEMMA SameRunKeeps ==
  ASSUME ArtifactInv, UNCHANGED run, Advances(assessments, assessments')
  PROVE  RunKeeps /\ BaselineStays
  BY CompleteStays, Rows DEF ArtifactInv, SealFits, RunKeeps, BaselineStays

LEMMA AgentRoundsKeep ==
  ASSUME ArtifactInv, SubmitPlan \/ SubmitEvaluation \/ MemoryWrite, UNCHANGED <<stopper, faults>>
  PROVE  ArtifactInv'
<1>1. rounds \in [1..MaxRounds -> RoundRow] /\ run \in RunRow
  BY Rows DEF ArtifactInv
<1>2. rounds' \in [1..MaxRounds -> RoundRow]
  <2>1. ASSUME NEW n \in Nat, NEW r
        PROVE  [rounds EXCEPT ![r].state = "READY_TO_EXECUTE", ![r].budget = n]
                 \in [1..MaxRounds -> RoundRow]
    BY <1>1 DEF RoundRow, RoundStates
  <2>2. ASSUME NEW insight \in {"none", "pending"}, NEW r
        PROVE  [rounds EXCEPT ![r].state = "READY_TO_FINISH", ![r].insight = insight]
                 \in [1..MaxRounds -> RoundRow]
    BY <1>1 DEF RoundRow, RoundStates
  <2>3. ASSUME NEW r
        PROVE  [rounds EXCEPT ![r].insight = "published"] \in [1..MaxRounds -> RoundRow]
    BY <1>1 DEF RoundRow
  <2>4. 1..RoundLimit \subseteq Nat
    OBVIOUS
  <2>5. CASE SubmitPlan
    <3>1. PICK n \in Nat : rounds' = [rounds EXCEPT ![run.round].state = "READY_TO_EXECUTE",
                                                   ![run.round].budget = n]
      BY <2>4, <2>5 DEF SubmitPlan
    <3>2. QED  BY <2>1, <3>1
  <2>6. CASE SubmitEvaluation
    <3>1. PICK insight \in {"none", "pending"} :
            rounds' = [rounds EXCEPT ![run.round].state = "READY_TO_FINISH",
                                     ![run.round].insight = insight]
      BY <2>6 DEF SubmitEvaluation
    <3>2. QED  BY <2>2, <3>1
  <2>7. CASE MemoryWrite
    BY <2>3, <2>7 DEF MemoryWrite
  <2>8. QED  BY <2>5, <2>6, <2>7
<1>3. UNCHANGED <<run, tasks, candidates, assessments, clock>>
  BY DEF SubmitPlan, SubmitEvaluation, MemoryWrite
<1>4. RunKeeps /\ BaselineStays
  BY <1>3, SameAdvances, SameRunKeeps DEF ArtifactInv
<1>5. QED  BY <1>2, <1>3, <1>4, RoundsKeep

LEMMA FinishRoundKeeps ==
  ASSUME ArtifactInv, FinishRound, UNCHANGED <<stopper, faults>>
  PROVE  ArtifactInv'
<1>1. /\ TypeOK /\ run \in RunRow /\ rounds \in [1..MaxRounds -> RoundRow]
      /\ run.state = "SEARCHING" /\ ~run.sealed /\ SealFits
      /\ UNCHANGED <<tasks, candidates, assessments, clock>>
  BY Rows DEF FinishRound, ArtifactInv, SealFits
<1>2. CASE \E why \in {"agent_complete", "search_limit"} :
             run' = Seal(run, assessments, why) /\ SetRound("ROUND_COMPLETED")
  <2>1. PICK why \in Reasons : run' = Seal(run, assessments, why)
    BY <1>2 DEF Reasons
  <2>2. /\ run' \in RunRow /\ run'.sealed /\ run'.state = "SEARCH_SEALED"
        /\ IsQueue(run'.queue, assessments) /\ run'.incumbent = run.incumbent
        /\ run'.baseline = run.baseline
    BY <1>1, <2>1, SealSeals, Rows DEF SealFits
  <2>3. RunSeals /\ BaselineStays
    BY <1>1, <2>2 DEF RunSeals, BaselineStays, SealFits
  <2>4. rounds' \in [1..MaxRounds -> RoundRow]
    <3>1. rounds' = [rounds EXCEPT ![run.round].state = "ROUND_COMPLETED"]
      BY <1>2 DEF SetRound
    <3>2. "ROUND_COMPLETED" \in RoundStates
      BY DEF RoundStates
    <3>3. QED  BY <1>1, <3>1, <3>2, RoundWritten
  <2>5. QED  BY <1>1, <2>3, <2>4, RoundsKeep
<1>3. CASE /\ ~LastRound /\ run' = [run EXCEPT !.round = run.round + 1]
           /\ rounds' = [rounds EXCEPT ![run.round].state = "ROUND_COMPLETED",
                                       ![run.round + 1].state = "WAITING_FOR_PLAN"]
  <2>1. run.round + 1 \in 1..MaxRounds
    BY <1>1, <1>3, BudgetAssumption DEF LastRound, RunRow
  <2>2. /\ run' \in RunRow /\ run'.sealed = run.sealed /\ run'.queue = run.queue
        /\ run'.incumbent = run.incumbent /\ run'.state = run.state
        /\ run'.baseline = run.baseline
    BY <1>1, <1>3, <2>1 DEF RunRow
  <2>3. RunKeeps /\ BaselineStays
    BY <1>1, <2>2 DEF RunKeeps, BaselineStays, SealFits
  <2>4. rounds' \in [1..MaxRounds -> RoundRow]
    <3> DEFINE ended == [rounds EXCEPT ![run.round].state = "ROUND_COMPLETED"]
    <3>1. "ROUND_COMPLETED" \in RoundStates /\ "WAITING_FOR_PLAN" \in RoundStates
      BY DEF RoundStates
    <3>2. ended \in [1..MaxRounds -> RoundRow]
      BY <1>1, <3>1, RoundWritten
    <3>3. rounds' = [ended EXCEPT ![run.round + 1].state = "WAITING_FOR_PLAN"]
      BY <1>3
    <3> HIDE DEF ended
    <3>4. QED  BY <3>1, <3>2, <3>3, RoundWritten
  <2>5. QED  BY <1>1, <2>3, <2>4, RoundsKeep
<1>4. QED  BY <1>2, <1>3 DEF FinishRound

LEMMA StopKeeps ==
  ASSUME ArtifactInv, Stop
  PROVE  ArtifactInv'
<1>1. /\ TypeOK /\ run \in RunRow /\ SealFits
      /\ UNCHANGED <<rounds, tasks, candidates, assessments, clock, faults>>
      /\ stopper' = "marked" /\ run' = [run EXCEPT !.state = "STOPPING", !.reason = "USER_STOP"]
  BY Rows DEF Stop, ArtifactInv
<1>2. /\ run' \in RunRow /\ run'.sealed = run.sealed /\ run'.queue = run.queue
      /\ run'.incumbent = run.incumbent /\ run'.state = "STOPPING"
      /\ run'.baseline = run.baseline
  BY <1>1 DEF RunRow, RunStates, Reasons
<1>3. RunKeeps /\ BaselineStays
  BY <1>1, <1>2 DEF RunKeeps, BaselineStays, SealFits
<1>4. TypeOK'
  BY <1>1, <1>2 DEF TypeOK, TableTypeOK, clock
<1>5. RepliesFit' /\ RequestsStay
  BY <1>1 DEF ArtifactInv, RepliesFit, RequestsStay
<1>6. Advances(assessments, assessments')
  BY <1>1, SameAdvances
<1>7. QED  BY <1>1, <1>3, <1>4, <1>5, <1>6, QuietKeeps DEF clock

LEMMA TimeKeeps ==
  ASSUME ArtifactInv, SearchTimeEnds \/ TimeEnds
  PROVE  ArtifactInv'
<1>1. UNCHANGED <<run, rounds, tasks, candidates, assessments, stopper, faults>>
  BY DEF SearchTimeEnds, TimeEnds, tables
<1>2. TypeOK /\ late' = TRUE /\ over' \in BOOLEAN /\ (over => over')
  BY DEF ArtifactInv, SearchTimeEnds, TimeEnds, TypeOK, TableTypeOK
<1>3. TypeOK'
  BY <1>1, <1>2 DEF TypeOK, TableTypeOK
<1>4. RepliesFit' /\ RequestsStay
  BY <1>1 DEF ArtifactInv, RepliesFit, RequestsStay
<1>5. Advances(assessments, assessments')
  BY <1>1, <1>2, SameAdvances
<1>6. RunKeeps /\ BaselineStays
  BY <1>1, <1>5, SameRunKeeps
<1>7. QED  BY <1>1, <1>2, <1>3, <1>4, <1>5, <1>6, QuietKeeps

(* A step of a worker.                                                     *)
LEMMA WorkKeeps ==
  ASSUME ArtifactInv, NEW a \in DOMAIN assessments, Assessed(a, assessments[a].state),
         UNCHANGED <<run, rounds, tasks, candidates, clock, stopper>>, faults' \in 0..MaxFaults
  PROVE  ArtifactInv'
<1>1. Advances(assessments, assessments')
  BY AssessedAdvances DEF ArtifactInv
<1>2. TypeOK'
  BY <1>1 DEF ArtifactInv, TypeOK, TableTypeOK, clock, Advances
<1>3. RepliesFit' /\ RequestsStay
  BY <1>1, CompleteStays DEF ArtifactInv, RepliesFit, RequestsStay
<1>4. RunKeeps /\ BaselineStays
  BY <1>1, SameRunKeeps
<1>5. \A b \in DOMAIN assessments : assessments'[b].state = assessments[b].state
  BY DEF Assessed
<1>6. QED  BY <1>1, <1>2, <1>3, <1>4, <1>5, QuietKeeps DEF clock

LEMMA ExitsIs ==
  ASSUME TypeOK, NEW a \in DOMAIN assessments, NEW how \in Exits, WorkerExits(a, how)
  PROVE  Assessed(a, assessments[a].state)
  BY TurnsWorkerExit DEF WorkerExits, WorkerStates

LEMMA WorkerKeeps ==
  ASSUME ArtifactInv, NEW a \in DOMAIN assessments, Worker(a), UNCHANGED <<stopper, faults>>
  PROVE  ArtifactInv'
<1> DEFINE i == NextProfile(a)
           Written(effect) == [assessments[a].effects EXCEPT ![i] = effect]
<1>1. TypeOK /\ faults' \in 0..MaxFaults
  BY DEF ArtifactInv, TypeOK
<1>2. ASSUME NEW effect \in {"STARTED", "COMPLETE"} PROVE Written(effect) \in Seq(EffectStates)
  <2>1. assessments[a].effects \in Seq(EffectStates)
    BY <1>1, Rows DEF AssessmentRow
  <2>2. effect \in EffectStates
    BY DEF EffectStates
  <2> HIDE DEF i
  <2>3. QED  BY <2>1, <2>2, RowReplaced
<1>3. Assessed(a, assessments[a].state)
  <2>1. CASE WorkerOwns(a)
    BY <1>1, <2>1, TurnsWorker DEF WorkerOwns, WorkerTo, WorkerStates
  <2>2. CASE StartProfile(a)
    <3>1. CASE assessments' = [assessments EXCEPT ![a].worker = "computing",
                                                  ![a].effects[i] = "STARTED"]
      <4>1. assessments' = [assessments EXCEPT ![a].worker = "computing",
                                               ![a].effects = Written("STARTED")]
        BY <3>1
      <4>2. Written("STARTED") \in Seq(EffectStates)
        BY <1>2
      <4> HIDE DEF Written
      <4>3. QED  BY <1>1, <4>1, <4>2, TurnsWorkerEffects DEF WorkerStates
    <3>2. CASE \E how \in Exits : WorkerExits(a, how)
      BY <1>1, <3>2, ExitsIs
    <3>3. "failed" \in Exits
      BY DEF Exits
    <3>4. QED  BY <2>2, <3>1, <3>2, <3>3, Refused DEF StartProfile
  <2>3. CASE FinishProfile(a)
    <3>1. Written("COMPLETE") \in Seq(EffectStates)
      BY <1>2
    <3>2. CASE assessments' = [assessments EXCEPT ![a].worker = "owned",
                                                  ![a].effects[i] = "COMPLETE"]
      <4>1. assessments' = [assessments EXCEPT ![a].worker = "owned",
                                               ![a].effects = Written("COMPLETE")]
        BY <3>2
      <4> HIDE DEF Written
      <4>2. QED  BY <1>1, <3>1, <4>1, TurnsWorkerEffects DEF WorkerStates
    <3>3. CASE assessments' = [assessments EXCEPT ![a].worker = "gone", ![a].exit = "invalid",
                                                  ![a].effects[i] = "COMPLETE"]
      <4>1. assessments' = [assessments EXCEPT ![a].worker = "gone", ![a].exit = "invalid",
                                               ![a].effects = Written("COMPLETE")]
        BY <3>3
      <4> HIDE DEF Written
      <4>2. QED  BY <1>1, <3>1, <4>1, TurnsWorkerExitEffects DEF WorkerStates, Exits
    <3>4. CASE \E how \in Exits : WorkerExits(a, how)
      BY <1>1, <3>4, ExitsIs
    <3>5. "failed" \in Exits /\ "timeout" \in Exits
      BY DEF Exits
    <3>6. QED  BY <2>3, <3>2, <3>3, <3>4, <3>5 DEF FinishProfile
  <2>4. CASE WriteTerminal(a)
    BY <1>1, <2>4, TurnsWorkerTerminal DEF WriteTerminal, WorkerStates
  <2>5. CASE WorkerEnds(a)
    BY <1>1, <2>5, ExitsIs DEF WorkerEnds, Exits
  <2>6. QED  BY <2>1, <2>2, <2>3, <2>4, <2>5 DEF Worker
<1>4. QED  BY <1>1, <1>3, WorkKeeps DEF Worker

LEMMA WorkerDiesKeeps ==
  ASSUME ArtifactInv, NEW a \in DOMAIN assessments, WorkerDies(a)
  PROVE  ArtifactInv'
<1>1. TypeOK /\ faults' \in 0..MaxFaults
  BY FaultAssumption DEF ArtifactInv, TypeOK, WorkerDies, Fault
<1>2. Assessed(a, assessments[a].state)
  BY <1>1, ExitsIs DEF WorkerDies, Exits
<1>3. QED  BY <1>1, <1>2, WorkKeeps DEF WorkerDies

(* A step of a provider.                                                   *)
LEMMA ProviderKeeps ==
  ASSUME ArtifactInv, NEW c \in DOMAIN candidates, Provider(c), UNCHANGED <<stopper, faults>>
  PROVE  ArtifactInv'
<1>1. TypeOK /\ UNCHANGED <<run, rounds, tasks, assessments, clock>>
  BY DEF ArtifactInv, Provider
<1>2. candidates[c].provider \in {"spawned", "owned", "sent"} /\ candidates[c].reply = "none"
      /\ (candidates[c].reuse # 0 => candidates[c].reuse \in CompleteOnline(assessments))
  BY DEF Provider, ArtifactInv, RepliesFit
<1>3. PICK provider \in {"owned", "sent", "gone"}, reply \in Replies,
           artifact \in Artifacts \cup {-1} :
        /\ Requested(c, provider, reply, artifact, candidates[c].reuse)
        /\ provider # "gone" => reply = "none"
        /\ reply = "complete" => artifact \in Artifacts
  <2>1. candidates[c] \in CandidateRow
    BY <1>1, Rows
  <2>2. candidates[c].artifact \in Artifacts \cup {-1}
    BY <2>1 DEF CandidateRow
  <2>3. CASE candidates' = [candidates EXCEPT ![c].provider = "owned", ![c].owner = TRUE]
    BY <1>1, <1>2, <2>2, <2>3, SetsProviderOwner DEF ProviderStates, Replies
  <2>4. CASE candidates' = [candidates EXCEPT ![c].provider = "sent"]
    BY <1>1, <1>2, <2>2, <2>4, SetsProvider DEF ProviderStates, Replies
  <2>5. CASE \E reply \in Replies, artifact \in Artifacts \cup {-1} :
               /\ candidates' = [candidates EXCEPT ![c].provider = "gone", ![c].reply = reply,
                                                   ![c].artifact = artifact]
               /\ reply = "complete" => artifact \in Artifacts
    BY <1>1, <2>5, SetsProviderReplyArtifact DEF ProviderStates
  <2>6. QED  BY <2>3, <2>4, <2>5 DEF Provider, Replies
<1>4. RepliesFit'
  BY <1>1, <1>2, <1>3, RequestedFits DEF ArtifactInv
<1>5. RequestsStay
  BY <1>2, <1>3 DEF RequestsStay, Requested
<1>6. TypeOK'
  BY <1>1, <1>3 DEF TypeOK, TableTypeOK, clock, Requested
<1>7. Advances(assessments, assessments') /\ RunKeeps /\ BaselineStays
  BY <1>1, SameAdvances, SameRunKeeps
<1>8. QED  BY <1>1, <1>4, <1>5, <1>6, <1>7, QuietKeeps DEF clock

-----------------------------------------------------------------------------
(* Steps that change a task, alone                                         *)

(* The row of t, alone, is replaced by another row of a task.              *)
Replaced(t) ==
  /\ tasks' \in Seq(TaskRow) /\ DOMAIN tasks' = DOMAIN tasks
  /\ \A u \in DOMAIN tasks : u # t => tasks'[u] = tasks[u]
  /\ tasks'[t].purpose = tasks[t].purpose

LEMMA ReplacedIs ==
  ASSUME TypeOK, NEW t \in DOMAIN tasks, NEW row \in TaskRow,
         tasks' = [tasks EXCEPT ![t] = row], row.purpose = tasks[t].purpose
  PROVE  Replaced(t) /\ tasks'[t] = row
  BY Rows, RowReplaced DEF Replaced

(* What may become of the processes of t: a task does not become active,   *)
(* a watchdog only fires when it is time, and a runner only starts to work *)
(* before.                                                                 *)
ProcessFits(t) ==
  /\ tasks'[t].state \in {"STARTING", "RUNNING"} => t \in Active
  /\ RunnerOfActive(t)'
  /\ tasks'[t].watchdog \in {"firing", "killed"} =>
       \/ tasks[t].watchdog \in {"firing", "killed"}
       \/ t \in Active /\ Deadline(tasks[t].purpose)
  /\ tasks'[t].watchdog = "firing" /\ ~tasks'[t].seen => ~tasks'[t].pid
  /\ tasks'[t].watchdog = "killed" => ~Alive(t)'
  /\ Alive(t)' =>
       \/ Alive(t)
       \/ run.state # "STOPPING" /\ (Searches(t) => ~late)

LEMMA ReplacedKeepsProcesses ==
  ASSUME ArtifactInv, NEW t \in DOMAIN tasks, Replaced(t), UNCHANGED <<late, over, stopper>>,
         run'.state = "STOPPING" => run.state = "STOPPING" \/ stopper' = "marked", ProcessFits(t)
  PROVE  ProcessInv'
<1>1. \A u \in DOMAIN tasks : u # t =>
        /\ tasks'[u] = tasks[u] /\ (Alive(u)' <=> Alive(u))
        /\ (RunnerOfActive(u)' <=> RunnerOfActive(u))
  BY DEF Replaced, Alive, RunnerOfActive
<1>2. DOMAIN tasks' = DOMAIN tasks /\ \A u \in DOMAIN tasks : Searches(u)' <=> Searches(u)
  BY DEF Replaced, Searches
<1>3. Active' \subseteq Active
  BY <1>1, <1>2 DEF Active, ProcessFits
<1>4. OneActive'
  BY <1>3 DEF ArtifactInv, ProcessInv, OneActive
<1>5. StopperIsAlone'
  <2> SUFFICES ASSUME stopper' = "killed", run'.state = "STOPPING", NEW u \in DOMAIN tasks,
                      Alive(u)'
               PROVE  FALSE
    BY <1>2 DEF StopperIsAlone
  <2>1. \A w \in DOMAIN tasks : ~Alive(w)
    BY DEF ArtifactInv, ProcessInv, StopperIsAlone
  <2>2. run.state = "STOPPING"
    OBVIOUS
  <2>3. QED  BY <1>1, <2>1, <2>2 DEF ProcessFits
<1>6. ASSUME NEW u \in DOMAIN tasks PROVE RunnerOfActive(u)'
  BY <1>1 DEF ProcessFits, ArtifactInv, ProcessInv
<1>7. ASSUME NEW u \in DOMAIN tasks PROVE WatchdogIsLate(u)'
  <2>1. Deadline(tasks[u].purpose)' <=> Deadline(tasks[u].purpose)
    BY <1>1 DEF Deadline, Replaced
  <2>2. /\ tasks'[u].watchdog = "firing" /\ ~tasks'[u].seen => ~tasks'[u].pid
        /\ tasks'[u].watchdog = "killed" => ~Alive(u)'
    BY <1>1 DEF ProcessFits, ArtifactInv, ProcessInv, WatchdogIsLate
  <2>3. ASSUME tasks'[u].watchdog \in {"firing", "killed"}
        PROVE  /\ Deadline(tasks[u].purpose)
               /\ \A w \in DOMAIN tasks : Alive(w) /\ Searches(w) => w = u
    <3>1. CASE tasks[u].watchdog \in {"firing", "killed"}
      BY <3>1 DEF ArtifactInv, ProcessInv, WatchdogIsLate
    <3>2. CASE u \in Active /\ Deadline(tasks[u].purpose)
      BY <3>2, OneAlive DEF ArtifactInv
    <3>3. QED  BY <1>1, <2>3, <3>1, <3>2 DEF ProcessFits
  <2>4. ASSUME tasks'[u].watchdog \in {"firing", "killed"},
               NEW w \in DOMAIN tasks, Alive(w)', Searches(w)
        PROVE  w = u
    <3>1. CASE Alive(w)
      BY <2>3, <2>4, <3>1
    <3>2. CASE ~Alive(w)
      <4>1. w = t /\ ~late
        BY <1>1, <2>4, <3>2 DEF ProcessFits
      <4>2. late
        BY <2>3, <2>4 DEF Deadline, ArtifactInv, TypeOK, TableTypeOK
      <4>3. QED  BY <4>1, <4>2
    <3>3. QED  BY <3>1, <3>2
  <2>5. QED  BY <1>2, <2>1, <2>2, <2>3, <2>4 DEF WatchdogIsLate
<1>8. QED  BY <1>2, <1>4, <1>5, <1>6, <1>7 DEF ProcessInv

(* What becomes of what t was doing for the search.                        *)
TaskHandsOver(t) ==
  run'.state = "SEARCHING" =>
    /\ Leaves(t) => Leaves(t)'
    /\ t \in Active /\ Searches(t) /\ Alive(t) => Leaves(t)' \/ LeftAlone(t)
                                   \/ tasks[t].at \notin Assessing \cup {"baseline"}

LEMMA TaskKeeps ==
  ASSUME ArtifactInv, NEW t \in DOMAIN tasks, Replaced(t),
         UNCHANGED <<rounds, late, over, stopper>>,
         faults' \in 0..MaxFaults, candidates' \in Seq(CandidateRow), ProcessFits(t),
         Alive(t)' => LeftAlone(t) \/ Knows(t)', TaskHandsOver(t), RepliesFit', RequestsStay,
         AssessmentsStay, RunKeeps \/ RunSeals, BaselineStays
  PROVE  ArtifactInv'
<1>1. TypeOK'
  BY DEF ArtifactInv, TypeOK, TableTypeOK, AssessmentsStay, Advances, RunKeeps, RunSeals, Replaced
<1>2. ProcessInv'
  BY ReplacedKeepsProcesses DEF RunKeeps, RunSeals
<1>3. ASSUME NEW u \in DOMAIN tasks, u # t
      PROVE  /\ tasks'[u] = tasks[u] /\ (Alive(u)' <=> Alive(u)) /\ (Leaves(u) => Leaves(u)')
             /\ Alive(u) => LeftAlone(u)
  <2>1. tasks'[u] = tasks[u] /\ DOMAIN tasks' = DOMAIN tasks
    BY <1>3 DEF Replaced
  <2>2. (u \in Active => u \in Active') /\ (Alive(u)' <=> Alive(u))
        /\ (Searches(u)' <=> Searches(u))
    BY <2>1 DEF Active, Alive, Searches
  <2>3. QED  BY <2>1, <2>2 DEF Leaves, LeftAlone
<1>4. SearchStays
  BY <1>3 DEF SearchStays, TaskHandsOver
<1>5. \A u \in DOMAIN tasks : /\ tasks'[u].purpose = tasks[u].purpose
                              /\ Alive(u)' => LeftAlone(u) \/ Knows(u)'
  BY <1>3 DEF Replaced
<1>6. DOMAIN tasks' = DOMAIN tasks
  BY DEF Replaced
<1>7. QED  BY <1>1, <1>2, <1>4, <1>5, <1>6, StepKeeps

(* A step that also leaves the other tables as they are.                   *)
LEMMA OneTaskKeeps ==
  ASSUME ArtifactInv, NEW t \in DOMAIN tasks, Replaced(t),
         UNCHANGED <<rounds, candidates, assessments, clock, stopper>>, faults' \in 0..MaxFaults,
         ProcessFits(t), Alive(t)' => LeftAlone(t) \/ Knows(t)', TaskHandsOver(t),
         RunKeeps, BaselineStays
  PROVE  ArtifactInv'
<1>1. Advances(assessments, assessments')
  BY SameAdvances DEF ArtifactInv
<1>2. AssessmentsStay /\ RequestsStay /\ RepliesFit'
  BY <1>1 DEF AssessmentsStay, RequestsStay, ArtifactInv, RepliesFit
<1>3. candidates' \in Seq(CandidateRow)
  BY Rows DEF ArtifactInv
<1>4. QED  BY <1>2, <1>3, TaskKeeps DEF clock

(* The row of a task without a runner.                                     *)
LEMMA GoneIs ==
  ASSUME NEW row \in TaskRow
  PROVE  /\ Gone(row) \in TaskRow /\ Gone(row).runner = "gone" /\ Gone(row).c = 0
         /\ Gone(row).purpose = row.purpose /\ Gone(row).state = row.state
         /\ Gone(row).pid = row.pid /\ Gone(row).launch = row.launch
         /\ Gone(row).watchdog = row.watchdog /\ Gone(row).seen = row.seen
<1> DEFINE without == [row EXCEPT !.runner = "gone", !.at = "none", !.c = 0, !.a = 0]
<1>1. without \in TaskRow
  BY DEF TaskRow, Places
<1>2. /\ without.runner = "gone" /\ without.c = 0 /\ without.purpose = row.purpose
      /\ without.state = row.state /\ without.pid = row.pid /\ without.launch = row.launch
      /\ without.watchdog = row.watchdog /\ without.seen = row.seen
  BY DEF TaskRow
<1>3. Gone(row) = [without EXCEPT !.parent = 0, !.left = 0, !.verdict = "none", !.why = "none"]
  BY DEF Gone
<1> HIDE DEF without
<1>4. "none" \in Verdicts /\ "none" \in Causes
  BY DEF Verdicts, Causes, Exits
<1>5. Gone(row) \in TaskRow
  <2> DEFINE idle == [without EXCEPT !.parent = 0, !.left = 0]
  <2>1. idle \in TaskRow
    BY <1>1 DEF TaskRow
  <2>2. Gone(row) = [idle EXCEPT !.verdict = "none", !.why = "none"]
    BY <1>3
  <2> HIDE DEF idle
  <2>3. QED  BY <1>4, <2>1, <2>2 DEF TaskRow
<1>6. /\ Gone(row).runner = without.runner /\ Gone(row).c = without.c
      /\ Gone(row).purpose = without.purpose
      /\ Gone(row).state = without.state /\ Gone(row).pid = without.pid
      /\ Gone(row).launch = without.launch /\ Gone(row).watchdog = without.watchdog
      /\ Gone(row).seen = without.seen
  BY <1>1, <1>3 DEF TaskRow
<1>7. QED  BY <1>2, <1>5, <1>6

(* A step beside the runner of t: of its launcher or its watchdog.         *)
LEMMA BesideKeeps ==
  ASSUME ArtifactInv, NEW t \in DOMAIN tasks, Replaced(t),
         UNCHANGED <<run, rounds, candidates, assessments, clock, stopper>>,
         faults' \in 0..MaxFaults,
         tasks'[t].state = tasks[t].state, tasks'[t].pid = tasks[t].pid, tasks'[t].at = tasks[t].at,
         tasks'[t].c = tasks[t].c, tasks'[t].a = tasks[t].a, tasks'[t].verdict = tasks[t].verdict,
         tasks'[t].why = tasks[t].why,
         \/ tasks'[t].runner = tasks[t].runner
         \/ tasks[t].runner = "none" /\ tasks'[t].runner = "spawned",
         \/ tasks'[t].launch = tasks[t].launch /\ tasks'[t].runner = tasks[t].runner
         \/ tasks'[t].launch # "committed",
         \/ tasks'[t].watchdog = tasks[t].watchdog /\ tasks'[t].seen = tasks[t].seen
         \/ tasks'[t].watchdog \notin {"firing", "killed"}
         \/ /\ tasks'[t].watchdog = "firing" /\ (tasks'[t].seen <=> tasks[t].pid)
            /\ t \in Active /\ Deadline(tasks[t].purpose)
  PROVE  ArtifactInv'
<1>1. (Alive(t)' <=> Alive(t)) /\ (Searches(t)' <=> Searches(t)) /\ (t \in Active' <=> t \in Active)
  BY DEF Alive, Searches, Active, Replaced
<1>2. ProcessFits(t)
  <2>1. RunnerOfActive(t)'
    BY <1>1 DEF RunnerOfActive, ArtifactInv, ProcessInv
  <2>2. t \in Active <=> tasks[t].state \in {"STARTING", "RUNNING"}
    BY DEF Active
  <2>3. WatchdogIsLate(t)
    BY DEF ArtifactInv, ProcessInv
  <2>4. QED  BY <1>1, <2>1, <2>2, <2>3 DEF ProcessFits, WatchdogIsLate
<1>3. Alive(t)' => LeftAlone(t)
  BY <1>1 DEF LeftAlone
<1>4. TaskHandsOver(t)
  <2>1. Leaves(t) => Leaves(t)'
    BY <1>1 DEF Leaves
  <2>2. QED  BY <1>1, <1>3, <2>1 DEF TaskHandsOver
<1>5. RunKeeps /\ BaselineStays
  BY SameAdvances, SameRunKeeps DEF ArtifactInv
<1>6. QED  BY <1>2, <1>3, <1>4, <1>5, OneTaskKeeps

LEMMA LauncherKeeps ==
  ASSUME ArtifactInv, NEW t \in DOMAIN tasks, faults' \in 0..MaxFaults,
         \/ Launcher(t) /\ UNCHANGED stopper
         \/ LauncherDies(t)
  PROVE  ArtifactInv'
<1>1. /\ tasks[t] \in TaskRow /\ TypeOK
      /\ UNCHANGED <<run, rounds, candidates, assessments, clock, stopper>>
  BY Rows DEF ArtifactInv, Launcher, SpawnRunner, SpawnWatchdog, LauncherDies
<1>2. RunnerOfActive(t)
  BY DEF ArtifactInv, ProcessInv
<1>3. CASE SpawnRunner(t)
  <2> DEFINE row == [tasks[t] EXCEPT !.launch = "half", !.runner = "spawned"]
  <2>1. tasks' = [tasks EXCEPT ![t] = row] /\ tasks[t].launch = "committed"
    BY <1>3 DEF SpawnRunner
  <2>2. row \in TaskRow
    BY <1>1 DEF TaskRow
  <2>3. /\ row.purpose = tasks[t].purpose /\ row.state = tasks[t].state /\ row.pid = tasks[t].pid
        /\ row.at = tasks[t].at /\ row.c = tasks[t].c /\ row.a = tasks[t].a
        /\ row.verdict = tasks[t].verdict /\ row.why = tasks[t].why /\ row.runner = "spawned"
        /\ row.launch = "half" /\ row.watchdog = tasks[t].watchdog /\ row.seen = tasks[t].seen
    BY <1>1 DEF TaskRow
  <2> HIDE DEF row
  <2>4. Replaced(t) /\ tasks'[t] = row
    BY <1>1, <2>1, <2>2, <2>3, ReplacedIs
  <2>5. tasks[t].runner = "none"
    BY <1>2, <2>1 DEF RunnerOfActive
  <2>6. QED  BY <1>1, <2>3, <2>4, <2>5, BesideKeeps
<1>4. CASE SpawnWatchdog(t)
  <2> DEFINE row == [tasks[t] EXCEPT !.launch = "done", !.watchdog = "watching"]
  <2>1. tasks' = [tasks EXCEPT ![t] = row]
    BY <1>4 DEF SpawnWatchdog
  <2>2. row \in TaskRow
    BY <1>1 DEF TaskRow
  <2>3. /\ row.purpose = tasks[t].purpose /\ row.state = tasks[t].state /\ row.pid = tasks[t].pid
        /\ row.at = tasks[t].at /\ row.c = tasks[t].c /\ row.a = tasks[t].a
        /\ row.verdict = tasks[t].verdict /\ row.why = tasks[t].why
        /\ row.runner = tasks[t].runner /\ row.launch = "done" /\ row.watchdog = "watching"
    BY <1>1 DEF TaskRow
  <2> HIDE DEF row
  <2>4. Replaced(t) /\ tasks'[t] = row
    BY <1>1, <2>1, <2>2, <2>3, ReplacedIs
  <2>5. QED  BY <1>1, <2>3, <2>4, BesideKeeps
<1>5. CASE LauncherDies(t)
  <2> DEFINE row == [tasks[t] EXCEPT !.launch = "done"]
  <2>1. tasks' = [tasks EXCEPT ![t] = row]
    BY <1>5 DEF LauncherDies
  <2>2. row \in TaskRow
    BY <1>1 DEF TaskRow
  <2>3. /\ row.purpose = tasks[t].purpose /\ row.state = tasks[t].state /\ row.pid = tasks[t].pid
        /\ row.at = tasks[t].at /\ row.c = tasks[t].c /\ row.a = tasks[t].a
        /\ row.verdict = tasks[t].verdict /\ row.why = tasks[t].why
        /\ row.runner = tasks[t].runner /\ row.launch = "done"
        /\ row.watchdog = tasks[t].watchdog /\ row.seen = tasks[t].seen
    BY <1>1 DEF TaskRow
  <2> HIDE DEF row
  <2>4. Replaced(t) /\ tasks'[t] = row
    BY <1>1, <2>1, <2>2, <2>3, ReplacedIs
  <2>5. QED  BY <1>1, <2>3, <2>4, BesideKeeps
<1>6. QED  BY <1>3, <1>4, <1>5 DEF Launcher

LEMMA WatchKeeps ==
  ASSUME ArtifactInv, NEW t \in DOMAIN tasks, WatchdogLeaves(t) \/ WatchdogFires(t)
  PROVE  ArtifactInv'
<1>1. /\ tasks[t] \in TaskRow /\ TypeOK /\ faults' \in 0..MaxFaults
      /\ UNCHANGED <<run, rounds, candidates, assessments, clock, stopper>>
  BY Rows DEF ArtifactInv, TypeOK, WatchdogLeaves, WatchdogFires
<1>2. CASE WatchdogLeaves(t)
  <2> DEFINE row == [tasks[t] EXCEPT !.watchdog = "gone"]
  <2>1. tasks' = [tasks EXCEPT ![t] = row]
    BY <1>2 DEF WatchdogLeaves, WatchdogTo
  <2>2. row \in TaskRow
    BY <1>1 DEF TaskRow
  <2>3. /\ row.purpose = tasks[t].purpose /\ row.state = tasks[t].state /\ row.pid = tasks[t].pid
        /\ row.at = tasks[t].at /\ row.c = tasks[t].c /\ row.a = tasks[t].a
        /\ row.verdict = tasks[t].verdict /\ row.why = tasks[t].why
        /\ row.runner = tasks[t].runner /\ row.launch = tasks[t].launch /\ row.watchdog = "gone"
    BY <1>1 DEF TaskRow
  <2> HIDE DEF row
  <2>4. Replaced(t) /\ tasks'[t] = row
    BY <1>1, <2>1, <2>2, <2>3, ReplacedIs
  <2>5. QED  BY <1>1, <2>3, <2>4, BesideKeeps
<1>3. CASE WatchdogFires(t)
  <2> DEFINE row == [tasks[t] EXCEPT !.watchdog = "firing", !.seen = tasks[t].pid]
  <2>1. /\ tasks' = [tasks EXCEPT ![t] = row] /\ t \in Active /\ Deadline(tasks[t].purpose)
    BY <1>3 DEF WatchdogFires
  <2>2. row \in TaskRow
    BY <1>1 DEF TaskRow
  <2>3. /\ row.purpose = tasks[t].purpose /\ row.state = tasks[t].state /\ row.pid = tasks[t].pid
        /\ row.at = tasks[t].at /\ row.c = tasks[t].c /\ row.a = tasks[t].a
        /\ row.verdict = tasks[t].verdict /\ row.why = tasks[t].why
        /\ row.runner = tasks[t].runner /\ row.launch = tasks[t].launch
        /\ row.watchdog = "firing" /\ row.seen = tasks[t].pid
    BY <1>1 DEF TaskRow
  <2> HIDE DEF row
  <2>4. Replaced(t) /\ tasks'[t] = row
    BY <1>1, <2>1, <2>2, <2>3, ReplacedIs
  <2>5. QED  BY <1>1, <2>1, <2>3, <2>4, BesideKeeps
<1>4. QED  BY <1>2, <1>3

(* The runner of t ends, in order or not.                                  *)
LEMMA EndOfRunnerKeeps ==
  ASSUME ArtifactInv, NEW t \in DOMAIN tasks, Replaced(t),
         UNCHANGED <<rounds, candidates, assessments, clock, stopper>>, faults' \in 0..MaxFaults,
         RunKeeps, BaselineStays, tasks[t].runner \in {"spawned", "alive"},
         tasks'[t].runner = "gone", tasks'[t].c = 0, tasks'[t].pid = tasks[t].pid,
         tasks'[t].launch = tasks[t].launch, tasks'[t].watchdog = tasks[t].watchdog,
         tasks'[t].seen = tasks[t].seen,
         \/ tasks'[t].state = tasks[t].state
         \/ /\ tasks'[t].state \notin {"STARTING", "RUNNING"}
            /\ Alive(t) => tasks[t].at \in {"done", "failed"}
  PROVE  ArtifactInv'
<1>1. ~Alive(t)' /\ (Searches(t)' <=> Searches(t)) /\ (Alive(t) => t \in Active /\ tasks[t].pid)
  BY OneAlive DEF ArtifactInv, Alive, Searches, Replaced
<1>2. RunnerOfActive(t) /\ WatchdogIsLate(t)
  BY DEF ArtifactInv, ProcessInv
<1>3. ProcessFits(t)
  <2>1. RunnerOfActive(t)'
    BY <1>1, <1>2 DEF RunnerOfActive
  <2>2. QED  BY <1>1, <1>2, <2>1 DEF ProcessFits, WatchdogIsLate, Active
<1>4. TaskHandsOver(t)
  <2>1. CASE tasks'[t].state = tasks[t].state
    <3>1. t \in Active' <=> t \in Active
      BY <2>1 DEF Active, Replaced
    <3>2. Alive(t) /\ Searches(t) => Leaves(t)'
      BY <1>1, <3>1 DEF Leaves
    <3>3. Leaves(t) => Leaves(t)'
      BY <1>1, <3>1 DEF Leaves
    <3>4. QED  BY <3>2, <3>3 DEF TaskHandsOver
  <2>2. CASE Alive(t) => tasks[t].at \in {"done", "failed"}
    <3>1. CASE Alive(t)
      BY <2>2, <3>1 DEF TaskHandsOver, Leaves, Alive, Assessing
    <3>2. CASE ~Alive(t)
      <4>1. ~Leaves(t)
        BY <1>2, <3>2 DEF Leaves, Alive, RunnerOfActive
      <4>2. QED  BY <3>2, <4>1 DEF TaskHandsOver
    <3>3. QED  BY <3>1, <3>2
  <2>3. QED  BY <2>1, <2>2
<1>5. QED  BY <1>1, <1>3, <1>4, OneTaskKeeps

LEMMA EndKeeps ==
  ASSUME ArtifactInv, NEW t \in DOMAIN tasks, End(t), UNCHANGED <<stopper, faults>>
  PROVE  ArtifactInv'
<1> DEFINE next  == IF tasks[t].at = "done" THEN "COMPLETE" ELSE "FAILED"
           ended == [tasks[t] EXCEPT !.state = next]
<1>1. /\ tasks[t] \in TaskRow /\ TypeOK /\ faults' \in 0..MaxFaults
      /\ UNCHANGED <<run, rounds, candidates, assessments, clock>>
      /\ tasks[t].runner = "alive" /\ tasks[t].at \in {"done", "failed"}
  BY Rows DEF ArtifactInv, TypeOK, End, At
<1>2. tasks' = [tasks EXCEPT ![t] = Gone(ended)]
  BY DEF End
<1>3. /\ ended \in TaskRow /\ ended.state \in {"COMPLETE", "FAILED"}
      /\ ended.purpose = tasks[t].purpose /\ ended.pid = tasks[t].pid
      /\ ended.launch = tasks[t].launch /\ ended.watchdog = tasks[t].watchdog
      /\ ended.seen = tasks[t].seen
  BY <1>1 DEF TaskRow
<1> HIDE DEF ended
<1>4. Gone(ended) \in TaskRow /\ Gone(ended).purpose = tasks[t].purpose
  BY <1>3, GoneIs
<1>5. Replaced(t) /\ tasks'[t] = Gone(ended)
  BY <1>1, <1>2, <1>4, ReplacedIs
<1>6. /\ tasks'[t].runner = "gone" /\ tasks'[t].c = 0 /\ tasks'[t].pid = tasks[t].pid
      /\ tasks'[t].launch = tasks[t].launch /\ tasks'[t].watchdog = tasks[t].watchdog
      /\ tasks'[t].seen = tasks[t].seen /\ tasks'[t].state \in {"COMPLETE", "FAILED"}
  BY <1>3, <1>5, GoneIs
<1>7. RunKeeps /\ BaselineStays
  BY <1>1, SameAdvances, SameRunKeeps
<1>8. QED  BY <1>1, <1>5, <1>6, <1>7, EndOfRunnerKeeps

(* A runner that dies leaves its task as it is.                            *)
LEMMA DeathKeeps ==
  ASSUME ArtifactInv, NEW t \in DOMAIN tasks, tasks' = [tasks EXCEPT ![t] = Gone(@)],
         tasks[t].runner \in {"spawned", "alive"}, RunKeeps, BaselineStays,
         UNCHANGED <<rounds, candidates, assessments, clock, stopper>>, faults' \in 0..MaxFaults
  PROVE  ArtifactInv'
<1>1. tasks[t] \in TaskRow /\ TypeOK
  BY Rows DEF ArtifactInv
<1>2. tasks' = [tasks EXCEPT ![t] = Gone(tasks[t])]
  OBVIOUS
<1>3. Replaced(t) /\ tasks'[t] = Gone(tasks[t])
  BY <1>1, <1>2, GoneIs, ReplacedIs
<1>4. /\ tasks'[t].runner = "gone" /\ tasks'[t].c = 0 /\ tasks'[t].pid = tasks[t].pid
      /\ tasks'[t].launch = tasks[t].launch /\ tasks'[t].watchdog = tasks[t].watchdog
      /\ tasks'[t].seen = tasks[t].seen /\ tasks'[t].state = tasks[t].state
  BY <1>1, <1>3, GoneIs
<1>5. QED  BY <1>3, <1>4, EndOfRunnerKeeps

LEMMA RunnerDiesKeeps ==
  ASSUME ArtifactInv, NEW t \in DOMAIN tasks, RunnerDies(t)
  PROVE  ArtifactInv'
<1>1. faults' \in 0..MaxFaults
  BY FaultAssumption DEF ArtifactInv, TypeOK, RunnerDies, Fault
<1>2. RunKeeps /\ BaselineStays
  BY SameAdvances, SameRunKeeps DEF RunnerDies, ArtifactInv
<1>3. QED  BY <1>1, <1>2, DeathKeeps DEF RunnerDies

LEMMA DiesBeforeCommitKeeps ==
  ASSUME ArtifactInv, NEW t \in DOMAIN tasks, DiesBeforeCommit(t)
  PROVE  ArtifactInv'
<1>1. faults' \in 0..MaxFaults /\ tasks[t].runner = "alive" /\ TypeOK /\ SealFits
  BY FaultAssumption DEF ArtifactInv, TypeOK, DiesBeforeCommit, Fault, At
<1>2. run \in RunRow /\ Summary \in Reasons \X Nat
  BY <1>1, SelectedFits, Rows
<1>3. run' = [run EXCEPT !.summary = Summary]
  BY DEF DiesBeforeCommit
<1>4. /\ run' \in RunRow /\ run'.sealed = run.sealed /\ run'.queue = run.queue
      /\ run'.incumbent = run.incumbent /\ run'.state = run.state
      /\ run'.baseline = run.baseline
  BY <1>2, <1>3 DEF RunRow
<1>5. RunKeeps /\ BaselineStays
  BY <1>1, <1>4 DEF RunKeeps, BaselineStays, SealFits, DiesBeforeCommit
<1>6. QED  BY <1>1, <1>5, DeathKeeps DEF DiesBeforeCommit

(* Without a watchdog that cannot be started, only a runner cannot be.     *)
LEMMA LaunchFailsKeeps ==
  ASSUME ArtifactInv, "watchdog" \notin Kinds, NEW t \in DOMAIN tasks, LaunchFails(t)
  PROVE  ArtifactInv'
<1> DEFINE row == [tasks[t] EXCEPT !.launch = "done", !.state = "FAILED"]
<1>1. /\ faults' \in 0..MaxFaults /\ TypeOK /\ SealFits /\ tasks[t] \in TaskRow /\ run \in RunRow
      /\ tasks[t].launch = "committed"
      /\ UNCHANGED <<rounds, candidates, assessments, clock, stopper>>
  BY FaultAssumption, Rows DEF ArtifactInv, TypeOK, LaunchFails, SpawnFails, Fault
<1>2. RunnerOfActive(t) /\ WatchdogIsLate(t)
  BY DEF ArtifactInv, ProcessInv
<1>3. tasks[t].runner = "none"
  BY <1>1, <1>2 DEF RunnerOfActive
<1>4. tasks' = [tasks EXCEPT ![t] = row]
  BY DEF LaunchFails, SpawnFails
<1>5. row \in TaskRow
  BY <1>1 DEF TaskRow
<1>6. /\ row.purpose = tasks[t].purpose /\ row.state = "FAILED" /\ row.pid = tasks[t].pid
      /\ row.c = tasks[t].c /\ row.runner = tasks[t].runner /\ row.launch = "done"
      /\ row.watchdog = tasks[t].watchdog /\ row.seen = tasks[t].seen
  BY <1>1 DEF TaskRow
<1> HIDE DEF row
<1>7. Replaced(t) /\ tasks'[t] = row
  BY <1>1, <1>4, <1>5, <1>6, ReplacedIs
<1>8. ProcessFits(t)
  <2>1. RunnerOfActive(t)'
    BY <1>2, <1>3, <1>6, <1>7 DEF RunnerOfActive, Alive
  <2>2. QED  BY <1>2, <1>3, <1>6, <1>7, <2>1 DEF ProcessFits, WatchdogIsLate, Alive
<1>9. run' = [run EXCEPT !.state = "FAILED", !.reason = "WORKER_START_FAILED"]
  BY DEF LaunchFails, SpawnFails
<1>10. /\ run' \in RunRow /\ run'.sealed = run.sealed /\ run'.queue = run.queue
       /\ run'.incumbent = run.incumbent /\ run'.state = "FAILED"
       /\ run'.baseline = run.baseline
  BY <1>1, <1>9 DEF RunRow, RunStates, Reasons
<1>11. RunKeeps /\ BaselineStays
  BY <1>1, <1>10 DEF RunKeeps, BaselineStays, SealFits
<1>12. TaskHandsOver(t)
  BY <1>10 DEF TaskHandsOver
<1>13. ~Alive(t)'
  BY <1>3, <1>6, <1>7 DEF Alive
<1>14. QED  BY <1>1, <1>7, <1>8, <1>11, <1>12, <1>13, OneTaskKeeps

LEMMA RegisterKeeps ==
  ASSUME ArtifactInv, NEW t \in DOMAIN tasks, Register(t), UNCHANGED <<stopper, faults>>
  PROVE  ArtifactInv'
<1>1. /\ tasks[t] \in TaskRow /\ TypeOK /\ faults' \in 0..MaxFaults
      /\ UNCHANGED <<run, rounds, candidates, assessments, clock>>
      /\ tasks[t].runner = "spawned"
  BY Rows DEF ArtifactInv, TypeOK, Register
<1>2. RunnerOfActive(t) /\ WatchdogIsLate(t)
  BY DEF ArtifactInv, ProcessInv
<1>3. RunKeeps /\ BaselineStays
  BY <1>1, SameAdvances, SameRunKeeps
<1>4. CASE tasks' = [tasks EXCEPT ![t] = Gone(@)]
  BY <1>1, <1>3, <1>4, DeathKeeps
<1>5. CASE tasks' = [tasks EXCEPT ![t] = Gone([@ EXCEPT !.state = "CANCELLED"])]
  <2> DEFINE ended == [tasks[t] EXCEPT !.state = "CANCELLED"]
  <2>1. tasks' = [tasks EXCEPT ![t] = Gone(ended)]
    BY <1>5
  <2>2. /\ ended \in TaskRow /\ ended.state = "CANCELLED"
        /\ ended.purpose = tasks[t].purpose /\ ended.pid = tasks[t].pid
        /\ ended.launch = tasks[t].launch /\ ended.watchdog = tasks[t].watchdog
        /\ ended.seen = tasks[t].seen
    BY <1>1 DEF TaskRow
  <2> HIDE DEF ended
  <2>3. Gone(ended) \in TaskRow /\ Gone(ended).purpose = tasks[t].purpose
    BY <2>2, GoneIs
  <2>4. Replaced(t) /\ tasks'[t] = Gone(ended)
    BY <1>1, <2>1, <2>3, ReplacedIs
  <2>5. /\ tasks'[t].runner = "gone" /\ tasks'[t].c = 0 /\ tasks'[t].pid = tasks[t].pid
        /\ tasks'[t].launch = tasks[t].launch /\ tasks'[t].watchdog = tasks[t].watchdog
        /\ tasks'[t].seen = tasks[t].seen /\ tasks'[t].state = "CANCELLED"
    BY <2>2, <2>4, GoneIs
  <2>6. ~Alive(t)
    BY <1>1 DEF Alive
  <2>7. QED  BY <1>1, <1>3, <2>4, <2>5, <2>6, EndOfRunnerKeeps
<1>6. CASE /\ tasks[t].state = "STARTING" /\ run.state # "STOPPING"
           /\ ~Deadline(tasks[t].purpose)
           /\ tasks' = [tasks EXCEPT ![t] =
                [@ EXCEPT !.state = "RUNNING", !.pid = TRUE, !.runner = "alive",
                          !.at = IF tasks[t].purpose = "search" THEN "begin" ELSE "audits"]]
  <2> DEFINE first == IF tasks[t].purpose = "search" THEN "begin" ELSE "audits"
             row   == [tasks[t] EXCEPT !.state = "RUNNING", !.pid = TRUE, !.runner = "alive",
                                       !.at = first]
  <2>1. tasks' = [tasks EXCEPT ![t] = row]
    BY <1>6
  <2>2. first \in Places /\ first = IF Searches(t) THEN "begin" ELSE "audits"
    BY DEF Places, Searches
  <2> HIDE DEF first
  <2>3. row \in TaskRow
    BY <1>1, <2>2 DEF TaskRow
  <2>4. /\ row.purpose = tasks[t].purpose /\ row.state = "RUNNING" /\ row.pid = TRUE
        /\ row.c = tasks[t].c /\ row.runner = "alive" /\ row.launch = tasks[t].launch
        /\ row.watchdog = tasks[t].watchdog /\ row.seen = tasks[t].seen /\ row.at = first
    BY <1>1 DEF TaskRow
  <2> HIDE DEF row
  <2>5. Replaced(t) /\ tasks'[t] = row
    BY <1>1, <2>1, <2>3, <2>4, ReplacedIs
  <2>6. (Searches(t)' <=> Searches(t)) /\ (Searches(t) => ~late)
    BY <1>6, <2>5 DEF Searches, Replaced, Deadline
  <2>7. ProcessFits(t)
    <3>1. RunnerOfActive(t)'
      BY <1>1, <1>2, <2>4, <2>5 DEF RunnerOfActive
    <3>2. tasks[t].watchdog \notin {"firing", "killed"}
      BY <1>2, <1>6 DEF WatchdogIsLate
    <3>3. t \in Active
      BY <1>6 DEF Active
    <3>4. QED  BY <1>6, <2>4, <2>5, <2>6, <3>1, <3>2, <3>3 DEF ProcessFits
  <2>8. tasks[t].c = 0 /\ ~tasks[t].pid
    BY <1>1, <1>2 DEF RunnerOfActive
  <2>9. Knows(t)'
    BY <2>2, <2>4, <2>5, <2>6, <2>8 DEF Knows, StepFits, RequestFits, AssessmentFits, AssessesNew,
       BaselineIsKnown, Searches, Assessing, SharedSteps, AfterBaseline, OfCandidate, SearchSteps,
       AuditSteps
  <2>10. TaskHandsOver(t)
    BY <1>1, <2>8 DEF TaskHandsOver, Leaves, Alive
  <2>11. QED  BY <1>1, <1>3, <2>5, <2>7, <2>9, <2>10, OneTaskKeeps
<1>7. QED  BY <1>4, <1>5, <1>6 DEF Register

-----------------------------------------------------------------------------
(* Kills                                                                   *)

LEMMA KilledWorkers ==
  ASSUME TypeOK, NEW S, assessments' = KillWorkers(S)
  PROVE  /\ Advances(assessments, assessments')
         /\ \A a \in DOMAIN assessments : assessments'[a].state = assessments[a].state
<1>1. \A a \in DOMAIN assessments : assessments[a] \in AssessmentRow
  BY Rows
<1>2. ASSUME NEW a \in DOMAIN assessments
      PROVE  LET row == [assessments[a] EXCEPT !.worker = "gone"]
             IN /\ row \in AssessmentRow /\ row.mode = assessments[a].mode
                /\ row.of = assessments[a].of /\ row.artifact = assessments[a].artifact
                /\ row.state = assessments[a].state
  BY <1>1 DEF AssessmentRow
<1>3. /\ DOMAIN assessments' = DOMAIN assessments
      /\ assessments' = [a \in DOMAIN assessments' |-> assessments'[a]]
      /\ \A a \in DOMAIN assessments :
           assessments'[a] = assessments[a]
           \/ assessments'[a] = [assessments[a] EXCEPT !.worker = "gone"]
  BY DEF KillWorkers
<1>4. \A a \in DOMAIN assessments :
        /\ assessments'[a] \in AssessmentRow /\ assessments'[a].mode = assessments[a].mode
        /\ assessments'[a].of = assessments[a].of
        /\ assessments'[a].artifact = assessments[a].artifact
        /\ assessments'[a].state = assessments[a].state
  BY <1>1, <1>2, <1>3
<1>5. assessments' \in Seq(AssessmentRow)
  BY <1>3, <1>4, RowsReplaced, Rows
<1>6. QED  BY <1>3, <1>4, <1>5 DEF Advances

(* Of a candidate, only the provider changes.                              *)
OnlyProviders ==
  /\ candidates' \in Seq(CandidateRow) /\ DOMAIN candidates' = DOMAIN candidates
  /\ \A c \in DOMAIN candidates :
       /\ candidates'[c].provider \in {candidates[c].provider, "gone"}
       /\ candidates'[c].reply = candidates[c].reply
       /\ candidates'[c].artifact = candidates[c].artifact
       /\ candidates'[c].reuse = candidates[c].reuse

LEMMA KilledProviders ==
  ASSUME TypeOK, NEW S, candidates' = KillProviders(S)
  PROVE  /\ OnlyProviders
         /\ \A c \in DOMAIN candidates :
              candidates'[c] = candidates[c] \/ \E t \in S : Waiting(t, "wait") /\ tasks[t].c = c
<1>1. \A c \in DOMAIN candidates : candidates[c] \in CandidateRow
  BY Rows
<1>2. ASSUME NEW c \in DOMAIN candidates
      PROVE  LET row == [candidates[c] EXCEPT !.provider = "gone"]
             IN /\ row \in CandidateRow /\ row.provider = "gone"
                /\ row.reply = candidates[c].reply /\ row.artifact = candidates[c].artifact
                /\ row.reuse = candidates[c].reuse
  BY <1>1 DEF CandidateRow
<1>3. /\ DOMAIN candidates' = DOMAIN candidates
      /\ candidates' = [c \in DOMAIN candidates' |-> candidates'[c]]
      /\ \A c \in DOMAIN candidates :
           \/ candidates'[c] = candidates[c]
           \/ /\ candidates'[c] = [candidates[c] EXCEPT !.provider = "gone"]
              /\ \E t \in S : Waiting(t, "wait") /\ tasks[t].c = c
  BY DEF KillProviders
<1>4. \A c \in DOMAIN candidates :
        /\ candidates'[c] \in CandidateRow
        /\ candidates'[c].provider \in {candidates[c].provider, "gone"}
        /\ candidates'[c].reply = candidates[c].reply
        /\ candidates'[c].artifact = candidates[c].artifact
        /\ candidates'[c].reuse = candidates[c].reuse
  <2> TAKE c \in DOMAIN candidates
  <2>1. CASE candidates'[c] = candidates[c]
    BY <1>1, <2>1
  <2>2. CASE candidates'[c] = [candidates[c] EXCEPT !.provider = "gone"]
    BY <1>2, <2>2
  <2>3. QED  BY <1>3, <2>1, <2>2
<1>5. candidates' \in Seq(CandidateRow)
  BY <1>3, <1>4, RowsReplaced, Rows
<1>6. QED  BY <1>3, <1>4, <1>5 DEF OnlyProviders

LEMMA ProvidersFit ==
  ASSUME ArtifactInv, OnlyProviders, Advances(assessments, assessments')
  PROVE  RepliesFit'
  BY CompleteStays DEF ArtifactInv, RepliesFit, OnlyProviders

LEMMA WatchdogKillsKeeps ==
  ASSUME ArtifactInv, NEW t \in DOMAIN tasks, WatchdogKills(t)
  PROVE  ArtifactInv'
<1> DEFINE S    == IF tasks[t].seen THEN {t} ELSE {}
           base == IF S # {} /\ Alive(t) THEN Gone(tasks[t]) ELSE tasks[t]
           row  == [base EXCEPT !.watchdog = "killed", !.seen = FALSE]
<1>1. /\ tasks[t] \in TaskRow /\ TypeOK /\ faults' \in 0..MaxFaults
      /\ UNCHANGED <<run, rounds, clock, stopper>> /\ tasks[t].watchdog = "firing"
      /\ assessments' = KillWorkers(S) /\ candidates' = KillProviders(S)
  BY Rows DEF ArtifactInv, TypeOK, WatchdogKills
<1>2. RunnerOfActive(t) /\ WatchdogIsLate(t)
  BY DEF ArtifactInv, ProcessInv
<1>3. tasks' = [tasks EXCEPT ![t] = row]
  BY DEF WatchdogKills, KillRunner, Alive
<1>4. S = {} => ~Alive(t)
  BY <1>1, <1>2 DEF WatchdogIsLate, RunnerOfActive
<1>5. base \in TaskRow /\ base.purpose = tasks[t].purpose /\ base.state = tasks[t].state
      /\ base.pid = tasks[t].pid /\ base.launch = tasks[t].launch
      /\ base.runner = (IF Alive(t) THEN "gone" ELSE tasks[t].runner)
      /\ (~Alive(t) => base = tasks[t]) /\ (Alive(t) => base.c = 0)
  BY <1>1, <1>4, GoneIs
<1> HIDE DEF base
<1>6. /\ row \in TaskRow /\ row.purpose = base.purpose /\ row.state = base.state
      /\ row.pid = base.pid /\ row.launch = base.launch /\ row.runner = base.runner
      /\ row.c = base.c /\ row.watchdog = "killed" /\ row.seen = FALSE
  BY <1>5 DEF TaskRow
<1> HIDE DEF row
<1>7. Replaced(t) /\ tasks'[t] = row
  BY <1>1, <1>3, <1>5, <1>6, ReplacedIs
<1>8. ~Alive(t)'
  BY <1>5, <1>6, <1>7 DEF Alive
<1>9. ProcessFits(t)
  <2>1. RunnerOfActive(t)'
    BY <1>2, <1>5, <1>6, <1>7, <1>8 DEF RunnerOfActive, Alive
  <2>2. QED  BY <1>1, <1>5, <1>6, <1>7, <1>8, <2>1 DEF ProcessFits, Active
<1>10. /\ Advances(assessments, assessments')
       /\ \A a \in DOMAIN assessments : assessments'[a].state = assessments[a].state
  BY <1>1, KilledWorkers
<1>11. /\ OnlyProviders
       /\ \A c \in DOMAIN candidates :
            candidates'[c] = candidates[c] \/ \E u \in S : Waiting(u, "wait") /\ tasks[u].c = c
  BY <1>1, KilledProviders
<1>12. RequestsStay
  <2>1. ASSUME NEW c \in DOMAIN candidates, candidates'[c] # candidates[c], NEW u \in DOMAIN tasks
        PROVE  ~Alive(u)'
    <3>1. Alive(t)
      BY <1>11, <2>1 DEF Waiting, Alive
    <3>2. \A w \in DOMAIN tasks : Alive(w) => w = t
      BY <3>1, OneAlive DEF ArtifactInv
    <3>3. QED  BY <1>7, <1>8, <3>2 DEF Replaced, Alive
  <2>2. QED  BY <1>11, <2>1 DEF RequestsStay, OnlyProviders
<1>13. AssessmentsStay /\ RepliesFit' /\ candidates' \in Seq(CandidateRow)
  BY <1>10, <1>11, ProvidersFit DEF AssessmentsStay, OnlyProviders
<1>14. RunKeeps /\ BaselineStays
  BY <1>1, <1>10, SameRunKeeps
<1>15. TaskHandsOver(t)
  <2>1. (t \in Active' <=> t \in Active) /\ (Searches(t)' <=> Searches(t))
    BY <1>5, <1>6, <1>7 DEF Active, Searches, Replaced
  <2>2. Alive(t) /\ Searches(t) => Leaves(t)'
    BY <1>5, <1>6, <1>7, <1>8, <2>1, OneAlive DEF ArtifactInv, Leaves
  <2>3. Leaves(t) => Leaves(t)'
    BY <1>5, <1>6, <1>7, <1>8, <2>1 DEF Leaves, Alive
  <2>4. QED  BY <2>2, <2>3 DEF TaskHandsOver
<1>16. QED  BY <1>1, <1>7, <1>8, <1>9, <1>12, <1>13, <1>14, <1>15, TaskKeeps DEF clock

(* A step that leaves no runner at work.                                   *)
LEMMA AllEnd ==
  ASSUME ArtifactInv, TypeOK', DOMAIN tasks' = DOMAIN tasks, UNCHANGED <<run, rounds, clock>>,
         \A u \in DOMAIN tasks :
           /\ tasks'[u].purpose = tasks[u].purpose /\ tasks'[u].state = tasks[u].state
           /\ tasks'[u].pid = tasks[u].pid /\ tasks'[u].runner # "alive"
           /\ tasks[u].runner \in {"alive", "gone"} => tasks'[u].runner = "gone"
           /\ tasks'[u].launch = "committed" => tasks'[u].runner = "none"
           /\ tasks'[u].runner \in {"none", "spawned"} =>
                tasks'[u].runner = tasks[u].runner /\ tasks'[u].c = tasks[u].c
           /\ \/ tasks'[u].watchdog \notin {"firing", "killed"}
              \/ tasks'[u].watchdog = tasks[u].watchdog /\ tasks'[u].seen = tasks[u].seen,
         OnlyProviders, Advances(assessments, assessments'),
         \A a \in DOMAIN assessments : assessments'[a].state = assessments[a].state
  PROVE  ArtifactInv'
<1>1. \A u \in DOMAIN tasks : ~Alive(u)' /\ (Searches(u)' <=> Searches(u))
  BY DEF Alive, Searches
<1>2. Active' = Active
  BY DEF Active
<1>3. ProcessInv'
  <2>1. OneActive' /\ StopperIsAlone'
    BY <1>1, <1>2 DEF ArtifactInv, ProcessInv, OneActive, StopperIsAlone
  <2>2. ASSUME NEW u \in DOMAIN tasks PROVE RunnerOfActive(u)'
    BY <1>1 DEF ArtifactInv, ProcessInv, RunnerOfActive
  <2>3. ASSUME NEW u \in DOMAIN tasks PROVE WatchdogIsLate(u)'
    <3>1. Deadline(tasks[u].purpose)' <=> Deadline(tasks[u].purpose)
      BY DEF Deadline, clock
    <3>2. WatchdogIsLate(u)
      BY DEF ArtifactInv, ProcessInv
    <3>3. QED  BY <1>1, <3>1, <3>2 DEF WatchdogIsLate
  <2>4. QED  BY <2>1, <2>2, <2>3 DEF ProcessInv
<1>4. RequestsStay /\ AssessmentsStay
  BY <1>1 DEF RequestsStay, AssessmentsStay, OnlyProviders
<1>5. RepliesFit' /\ RunKeeps /\ BaselineStays
  BY ProvidersFit, SameRunKeeps
<1>6. SearchStays
  <2>1. ASSUME NEW u \in DOMAIN tasks, Leaves(u) PROVE Leaves(u)'
    BY <1>1, <1>2, <2>1 DEF Leaves, Alive
  <2>2. ASSUME NEW u \in DOMAIN tasks, u \in Active, Searches(u), Alive(u) PROVE Leaves(u)'
    <3>1. tasks[u].pid
      BY <2>2, OneAlive DEF ArtifactInv
    <3>2. QED  BY <1>1, <1>2, <2>2, <3>1 DEF Leaves, Alive
  <2>3. QED  BY <2>1, <2>2 DEF SearchStays
<1>7. QED  BY <1>1, <1>3, <1>4, <1>5, <1>6, StepKeeps

LEMMA StopKillKeeps ==
  ASSUME ArtifactInv, StopKill
  PROVE  ArtifactInv'
<1>1. TypeOK /\ UNCHANGED <<run, rounds, clock, faults>>
  BY DEF ArtifactInv, StopKill
<1>2. CASE stopper' = "idle" /\ UNCHANGED <<tasks, candidates, assessments>>
  <2>1. TypeOK'
    BY <1>1, <1>2 DEF TypeOK, TableTypeOK, clock
  <2>2. RepliesFit' /\ RequestsStay
    BY <1>2 DEF ArtifactInv, RepliesFit, RequestsStay
  <2>3. Advances(assessments, assessments') /\ RunKeeps /\ BaselineStays
    BY <1>1, <1>2, SameAdvances, SameRunKeeps
  <2>4. QED  BY <1>1, <1>2, <2>1, <2>2, <2>3, QuietKeeps DEF clock
<1>3. CASE stopper' = "killed" /\ KillGroups(Active)
  <2>1. /\ DOMAIN tasks' = DOMAIN tasks
        /\ tasks' = [u \in DOMAIN tasks' |-> tasks'[u]]
        /\ \A u \in DOMAIN tasks :
             tasks'[u] = IF Alive(u) THEN Gone(tasks[u]) ELSE tasks[u]
    <3>1. \A u \in DOMAIN tasks : Alive(u) => u \in Active
      BY OneAlive DEF ArtifactInv
    <3>2. \A u \in DOMAIN tasks :
            KillRunner(tasks, u)[u] = IF Alive(u) THEN Gone(tasks[u]) ELSE tasks[u]
      BY DEF KillRunner, Alive
    <3>3. tasks' = [u \in DOMAIN tasks |->
                      IF u \in Active THEN KillRunner(tasks, u)[u] ELSE tasks[u]]
      BY <1>3 DEF KillGroups
    <3>4. QED  BY <3>1, <3>2, <3>3
  <2>2. ASSUME NEW u \in DOMAIN tasks
        PROVE  /\ tasks'[u] \in TaskRow /\ tasks'[u].purpose = tasks[u].purpose
               /\ tasks'[u].state = tasks[u].state /\ tasks'[u].pid = tasks[u].pid
               /\ tasks'[u].launch = tasks[u].launch /\ tasks'[u].watchdog = tasks[u].watchdog
               /\ tasks'[u].seen = tasks[u].seen
               /\ tasks'[u].runner = IF Alive(u) THEN "gone" ELSE tasks[u].runner
               /\ ~Alive(u) => tasks'[u] = tasks[u]
    <3>1. tasks[u] \in TaskRow
      BY <1>1, Rows
    <3>2. QED  BY <2>1, <3>1, GoneIs
  <2>3. tasks' \in Seq(TaskRow)
    BY <1>1, <2>1, <2>2, RowsReplaced, Rows
  <2>4. /\ Advances(assessments, assessments')
        /\ \A a \in DOMAIN assessments : assessments'[a].state = assessments[a].state
    BY <1>1, <1>3, KilledWorkers DEF KillGroups
  <2>5. OnlyProviders
    BY <1>1, <1>3, KilledProviders DEF KillGroups
  <2>6. TypeOK'
    BY <1>1, <1>3, <2>3, <2>4, <2>5 DEF TypeOK, TableTypeOK, clock, Advances, OnlyProviders
  <2>7. ASSUME NEW u \in DOMAIN tasks
        PROVE  /\ tasks'[u].runner # "alive"
               /\ tasks[u].runner \in {"alive", "gone"} => tasks'[u].runner = "gone"
               /\ tasks'[u].launch = "committed" => tasks'[u].runner = "none"
               /\ tasks'[u].runner \in {"none", "spawned"} =>
                    tasks'[u].runner = tasks[u].runner /\ tasks'[u].c = tasks[u].c
    <3>1. RunnerOfActive(u)
      BY DEF ArtifactInv, ProcessInv
    <3>2. QED  BY <2>2, <3>1 DEF Alive, RunnerOfActive
  <2>8. QED  BY <1>1, <2>1, <2>2, <2>4, <2>5, <2>6, <2>7, AllEnd
<1>4. QED  BY <1>2, <1>3 DEF StopKill

LEMMA RestartKeeps ==
  ASSUME ArtifactInv, Restart
  PROVE  ArtifactInv'
<1>1. /\ TypeOK /\ UNCHANGED <<run, rounds, clock>> /\ stopper' = "idle" /\ faults' \in 0..MaxFaults
  <2>1. TypeOK
    BY DEF ArtifactInv
  <2>2. faults < MaxFaults /\ faults' = faults + 1
    BY DEF Restart, Fault
  <2>3. faults' \in 0..MaxFaults
    BY <2>1, <2>2, FaultAssumption DEF TypeOK
  <2>4. QED  BY <2>1, <2>3 DEF Restart
<1>2. /\ DOMAIN tasks' = DOMAIN tasks /\ tasks' = [u \in DOMAIN tasks' |-> tasks'[u]]
      /\ \A u \in DOMAIN tasks :
           tasks'[u] = [Gone(tasks[u]) EXCEPT !.watchdog = "gone", !.launch = "done",
                                              !.seen = FALSE]
  BY DEF Restart
<1>3. ASSUME NEW u \in DOMAIN tasks
      PROVE  /\ tasks'[u] \in TaskRow /\ tasks'[u].purpose = tasks[u].purpose
             /\ tasks'[u].state = tasks[u].state /\ tasks'[u].pid = tasks[u].pid
             /\ tasks'[u].launch = "done" /\ tasks'[u].watchdog = "gone"
             /\ tasks'[u].runner = "gone"
  <2> DEFINE dead == Gone(tasks[u])
  <2>1. tasks[u] \in TaskRow
    BY <1>1, Rows
  <2>2. /\ dead \in TaskRow /\ dead.purpose = tasks[u].purpose /\ dead.state = tasks[u].state
        /\ dead.pid = tasks[u].pid /\ dead.runner = "gone"
    BY <2>1, GoneIs
  <2>3. tasks'[u] = [dead EXCEPT !.watchdog = "gone", !.launch = "done", !.seen = FALSE]
    BY <1>2
  <2> HIDE DEF dead
  <2>4. QED  BY <2>2, <2>3 DEF TaskRow
<1>4. tasks' \in Seq(TaskRow)
  BY <1>1, <1>2, <1>3, RowsReplaced, Rows
<1>5. /\ Advances(assessments, assessments')
      /\ \A a \in DOMAIN assessments : assessments'[a].state = assessments[a].state
  <2>1. /\ DOMAIN assessments' = DOMAIN assessments
        /\ assessments' = [a \in DOMAIN assessments' |-> assessments'[a]]
    BY DEF Restart
  <2>2. ASSUME NEW a \in DOMAIN assessments
        PROVE  /\ assessments'[a] \in AssessmentRow
               /\ assessments'[a].mode = assessments[a].mode
               /\ assessments'[a].of = assessments[a].of
               /\ assessments'[a].artifact = assessments[a].artifact
               /\ assessments'[a].state = assessments[a].state
    <3>1. assessments[a] \in AssessmentRow
      BY <1>1, Rows
    <3>2. PICK worker \in WorkerStates :
            assessments'[a] = [assessments[a] EXCEPT !.worker = worker]
      BY <3>1 DEF Restart, WorkerStates
    <3>3. QED  BY <3>1, <3>2 DEF AssessmentRow, WorkerStates
  <2>3. assessments' \in Seq(AssessmentRow)
    BY <1>1, <2>1, <2>2, RowsReplaced, Rows
  <2>4. QED  BY <2>1, <2>2, <2>3 DEF Advances
<1>6. OnlyProviders
  <2>1. /\ DOMAIN candidates' = DOMAIN candidates
        /\ candidates' = [c \in DOMAIN candidates' |-> candidates'[c]]
    BY DEF Restart
  <2>2. ASSUME NEW c \in DOMAIN candidates
        PROVE  /\ candidates'[c] \in CandidateRow
               /\ candidates'[c].provider \in {candidates[c].provider, "gone"}
               /\ candidates'[c].reply = candidates[c].reply
               /\ candidates'[c].artifact = candidates[c].artifact
               /\ candidates'[c].reuse = candidates[c].reuse
    <3>1. candidates[c] \in CandidateRow
      BY <1>1, Rows
    <3>2. candidates[c].provider \in ProviderStates
      BY <3>1 DEF CandidateRow, ProviderStates
    <3>3. PICK provider \in {candidates[c].provider, "gone"} :
            candidates'[c] = [candidates[c] EXCEPT !.provider = provider]
      BY <3>1 DEF Restart
    <3>4. provider \in ProviderStates
      BY <3>2 DEF ProviderStates
    <3>5. /\ candidates'[c] \in CandidateRow /\ candidates'[c].provider = provider
          /\ candidates'[c].reply = candidates[c].reply
          /\ candidates'[c].artifact = candidates[c].artifact
          /\ candidates'[c].reuse = candidates[c].reuse
      BY <3>1, <3>3, <3>4 DEF CandidateRow, ProviderStates
    <3>6. QED  BY <3>5
  <2>3. candidates' \in Seq(CandidateRow)
    BY <1>1, <2>1, <2>2, RowsReplaced, Rows
  <2>4. QED  BY <2>1, <2>2, <2>3 DEF OnlyProviders
<1>7. TypeOK'
  BY <1>1, <1>4, <1>5, <1>6 DEF TypeOK, TableTypeOK, clock, Advances, OnlyProviders
<1>8. \A u \in DOMAIN tasks :
        tasks'[u].runner # "alive" /\ tasks'[u].watchdog \notin {"firing", "killed"}
  BY <1>3
<1>9. QED  BY <1>1, <1>2, <1>3, <1>5, <1>6, <1>7, <1>8, AllEnd

(* A launch: the row of a task is new.                                     *)
LEMMA LaunchKeeps ==
  ASSUME ArtifactInv, NEW purpose \in {"search", "audit"}, Launch(purpose),
         UNCHANGED <<stopper, faults>>
  PROVE  ArtifactInv'
<1> DEFINE row == NewTask(purpose)
           n   == Len(tasks) + 1
<1>1. /\ TypeOK /\ run \in RunRow /\ tasks \in Seq(TaskRow) /\ Active = {} /\ SealFits
      /\ rounds \in [1..MaxRounds -> RoundRow] /\ Len(tasks) \in Nat /\ DOMAIN tasks = 1..Len(tasks)
      /\ UNCHANGED <<candidates, assessments, clock>>
  BY Rows DEF ArtifactInv, Launch, LaunchAllowed
<1>2. row \in TaskRow
  BY <1>1 DEF NewTask, TaskRow, Places, Verdicts, Causes, Exits, RunRow
<1>3. /\ row.state = "STARTING" /\ ~row.pid /\ row.launch = "committed" /\ row.runner = "none"
      /\ row.watchdog = "none" /\ row.c = 0
  BY DEF NewTask
<1> HIDE DEF row
<1>4. /\ tasks' \in Seq(TaskRow) /\ DOMAIN tasks' = 1..n /\ tasks'[n] = row /\ n \in DOMAIN tasks'
      /\ n \notin DOMAIN tasks
      /\ \A u \in DOMAIN tasks : u \in DOMAIN tasks' /\ tasks'[u] = tasks[u]
  BY <1>1, <1>2 DEF Launch, row
<1>5. \A u \in DOMAIN tasks' : u \in DOMAIN tasks \/ u = n
  BY <1>1, <1>4
<1> HIDE DEF n
<1>6. \A u \in DOMAIN tasks : ~Alive(u)
  BY <1>1, OneAlive DEF ArtifactInv
<1>7. \A u \in DOMAIN tasks' : ~Alive(u)'
  BY <1>3, <1>4, <1>5, <1>6 DEF Alive
<1>8. ProcessInv'
  <2>1. Active' \subseteq {n}
    BY <1>1, <1>4, <1>5 DEF Active
  <2>2. OneActive' /\ StopperIsAlone'
    BY <1>7, <2>1 DEF OneActive, StopperIsAlone
  <2>3. ASSUME NEW u \in DOMAIN tasks' PROVE RunnerOfActive(u)' /\ WatchdogIsLate(u)'
    <3>1. CASE u = n
      BY <1>3, <1>4, <1>7, <3>1 DEF RunnerOfActive, WatchdogIsLate
    <3>2. CASE u \in DOMAIN tasks
      <4>1. RunnerOfActive(u) /\ WatchdogIsLate(u) /\ tasks'[u] = tasks[u]
        BY <1>4, <3>2 DEF ArtifactInv, ProcessInv
      <4>2. Deadline(tasks[u].purpose)' <=> Deadline(tasks[u].purpose)
        BY <1>1, <4>1 DEF Deadline, clock
      <4>3. RunnerOfActive(u)'
        BY <1>6, <1>7, <3>2, <4>1 DEF RunnerOfActive
      <4>4. WatchdogIsLate(u)'
        BY <1>6, <1>7, <3>2, <4>1, <4>2 DEF WatchdogIsLate
      <4>5. QED  BY <4>3, <4>4
    <3>3. QED  BY <1>5, <3>1, <3>2
  <2>4. QED  BY <2>2, <2>3 DEF ProcessInv
<1>9. /\ run' \in RunRow /\ run'.sealed = run.sealed /\ run'.queue = run.queue
      /\ run'.incumbent = run.incumbent /\ run'.baseline = run.baseline
      /\ \/ run'.state = run.state
         \/ run.state = "SEARCH_SEALED" /\ run'.state = "FINALIZING"
  <2>1. run' = run \/ (run.state = "SEARCH_SEALED" /\ run' = [run EXCEPT !.state = "FINALIZING"])
    BY DEF Launch
  <2>2. CASE run' = run
    BY <1>1, <2>2
  <2>3. CASE run.state = "SEARCH_SEALED" /\ run' = [run EXCEPT !.state = "FINALIZING"]
    BY <1>1, <2>3 DEF RunRow, RunStates
  <2>4. QED  BY <2>1, <2>2, <2>3
<1>10. RunKeeps /\ BaselineStays
  BY <1>1, <1>9 DEF RunKeeps, BaselineStays, SealFits
<1>11. rounds' \in [1..MaxRounds -> RoundRow]
  <2>1. "EXECUTING" \in RoundStates
    BY DEF RoundStates
  <2>2. rounds' = rounds \/ rounds' = [rounds EXCEPT ![run.round].state = "EXECUTING"]
    BY DEF Launch, SetRound
  <2>3. [rounds EXCEPT ![run.round].state = "EXECUTING"] \in [1..MaxRounds -> RoundRow]
    BY <1>1, <2>1, RoundWritten
  <2>4. QED  BY <1>1, <2>2, <2>3
<1>12. TypeOK'
  BY <1>1, <1>4, <1>9, <1>11 DEF TypeOK, TableTypeOK, clock
<1>13. RunnersKnow' /\ RepliesFit'
  BY <1>1, <1>7 DEF RunnersKnow, ArtifactInv, RepliesFit
<1>14. Advances(assessments, assessments')
  BY <1>1, SameAdvances
<1>15. SealFits' /\ AuditsFit' /\ NoReplay'
  BY <1>10, <1>14, TablesKept DEF ArtifactInv
<1>16. SearchIsSettled' /\ BaselineIsFirst'
  <2>1. \A u \in DOMAIN tasks : ~Leaves(u) /\ \A a : ~Assesses(u, a)
    BY <1>1 DEF Leaves, Assesses
  <2>2. run'.state = "SEARCHING" => run.state = "SEARCHING"
    BY <1>9
  <2>3. SearchIsSettled'
    BY <1>1, <2>1, <2>2 DEF ArtifactInv, SearchIsSettled, Online, Settled
  <2>4. BaselineIsFirst'
    BY <1>1, <1>9, <2>1, <2>2 DEF ArtifactInv, BaselineIsFirst, Online
  <2>5. QED  BY <2>3, <2>4
<1>17. QED  BY <1>8, <1>12, <1>13, <1>15, <1>16 DEF ArtifactInv

-----------------------------------------------------------------------------
(* The reservation of an assessment                                        *)

(* The row of a new assessment.                                            *)
LEMMA NewIs ==
  ASSUME ArtifactInv, NEW t \in DOMAIN tasks, Alive(t), tasks[t].at = "assess"
  PROVE  /\ NewAssessment(t) \in AssessmentRow /\ NewAssessment(t).of = tasks[t].c
         /\ NewAssessment(t).state = "RESERVED"
         /\ NewAssessment(t).mode = (IF Searches(t) THEN "online" ELSE "audit")
         /\ Searches(t) => NewAssessment(t).artifact = Target(t)
         /\ ~Searches(t) => NewAssessment(t).artifact = assessments[tasks[t].c].artifact
<1> DEFINE audit == tasks[t].purpose = "audit"
           n     == IF audit THEN AuditProfiles ELSE 1
           mode  == IF audit THEN "audit" ELSE "online"
           artifact == IF audit THEN assessments[tasks[t].c].artifact
                       ELSE IF tasks[t].c = 0 THEN 0 ELSE candidates[tasks[t].c].artifact
           effects == [i \in 1..n |-> "RESERVED"]
<1>1. /\ tasks[t] \in TaskRow /\ TypeOK /\ RequestFits(t) /\ AssessesNew(t)
  BY Known
<1>2. Searches(t) <=> ~audit
  BY <1>1 DEF TaskRow, Searches
<1>3. effects \in Seq(EffectStates)
  <2>1. n \in Nat
    BY BudgetAssumption
  <2>2. "RESERVED" \in EffectStates
    BY DEF EffectStates
  <2> HIDE DEF n
  <2>3. QED  BY <2>1, <2>2
<1>4. artifact \in Artifacts
  <2>1. CASE audit
    <3>1. tasks[t].c \in Range(run.queue)
      BY <1>1, <1>2, <2>1 DEF AssessesNew
    <3>2. run.queue \in Seq(CompleteOnline(assessments))
      BY DEF ArtifactInv, SealFits, IsQueue
    <3>3. tasks[t].c \in DOMAIN assessments
      BY <3>1, <3>2 DEF Range, CompleteOnline
    <3>4. assessments[tasks[t].c] \in AssessmentRow
      BY <1>1, <3>3, Rows
    <3>5. QED  BY <2>1, <3>4 DEF AssessmentRow
  <2>2. CASE ~audit /\ tasks[t].c = 0
    BY <2>2, BudgetAssumption
  <2>3. CASE ~audit /\ tasks[t].c # 0
    BY <1>1, <1>2, <2>3 DEF RequestFits, Replied, ArtifactInv, RepliesFit
  <2>4. QED  BY <2>1, <2>2, <2>3
<1>5. NewAssessment(t) = [mode |-> mode, of |-> tasks[t].c, artifact |-> artifact,
                          state |-> "RESERVED", order |-> 0, effects |-> effects,
                          worker |-> "none", exit |-> "none", terminal |-> FALSE]
  BY DEF NewAssessment
<1>6. mode \in {"online", "audit"} /\ tasks[t].c \in Nat /\ "none" \in Exits
  BY <1>1 DEF TaskRow, Exits
<1>7. (Searches(t) => artifact = Target(t))
      /\ (~Searches(t) => artifact = assessments[tasks[t].c].artifact)
      /\ mode = IF Searches(t) THEN "online" ELSE "audit"
  BY <1>2 DEF Target
<1> HIDE DEF mode, artifact, effects
<1>8. NewAssessment(t) \in AssessmentRow
  BY <1>3, <1>4, <1>5, <1>6 DEF AssessmentRow
<1>9. QED  BY <1>5, <1>7, <1>8

(* A queue stays one when its entries do.                                  *)
LEMMA QueueStays ==
  ASSUME NEW old, NEW new, NEW queue, IsQueue(queue, old),
         \A a \in CompleteOnline(old) :
           a \in CompleteOnline(new) /\ new[a].artifact = old[a].artifact
  PROVE  IsQueue(queue, new)
<1>1. queue \in Seq(CompleteOnline(old))
  BY DEF IsQueue
<1>2. \A i \in DOMAIN queue : queue[i] \in CompleteOnline(old)
  BY <1>1
<1>3. queue \in Seq(CompleteOnline(new))
  <2>1. Len(queue) \in Nat /\ queue \in [1..Len(queue) -> CompleteOnline(old)]
    BY <1>1
  <2>2. queue \in [1..Len(queue) -> CompleteOnline(new)]
    BY <2>1
  <2>3. QED  BY <2>1, <2>2
<1>4. QED  BY <1>2, <1>3 DEF IsQueue

LEMMA ReserveKeeps ==
  ASSUME ArtifactInv, NEW t \in DOMAIN tasks, Reserve(t), UNCHANGED <<stopper, faults>>
  PROVE  ArtifactInv'
<1>1. Alive(t) /\ tasks[t].at = "assess" /\ UNCHANGED <<run, rounds, candidates, clock>>
  BY DEF Reserve, At, Alive
<1>2. /\ tasks[t] \in TaskRow /\ TypeOK /\ StepFits(t) /\ RequestFits(t) /\ AssessmentFits(t)
      /\ BaselineIsKnown(t) /\ AssessesNew(t) /\ t \in Active /\ tasks[t].pid
  BY <1>1, Known
<1>3. CASE \E why \in Causes : Raise(t, why) /\ UNCHANGED assessments
  BY <1>1, <1>3, RaiseKeeps DEF Reserve
<1>4. CASE /\ Allowed(tasks[t].purpose)
           /\ assessments' = Append(assessments, NewAssessment(t))
           /\ tasks' = [tasks EXCEPT ![t].at = "evaluate", ![t].a = Len(assessments) + 1]
  <2> DEFINE row == NewAssessment(t)
             n   == Len(assessments) + 1
  <2>1. /\ row \in AssessmentRow /\ row.of = tasks[t].c /\ row.state = "RESERVED"
        /\ row.mode = (IF Searches(t) THEN "online" ELSE "audit")
        /\ Searches(t) => row.artifact = Target(t)
        /\ ~Searches(t) => row.artifact = assessments[tasks[t].c].artifact
    BY <1>1, NewIs
  <2>2. /\ assessments \in Seq(AssessmentRow) /\ Len(assessments) \in Nat
        /\ DOMAIN assessments = 1..Len(assessments)
    BY <1>2, Rows
  <2> HIDE DEF row
  <2>3. /\ assessments' \in Seq(AssessmentRow) /\ DOMAIN assessments' = 1..n
        /\ assessments'[n] = row /\ n \in DOMAIN assessments' /\ n \notin DOMAIN assessments
        /\ \A a \in DOMAIN assessments :
             a \in DOMAIN assessments' /\ assessments'[a] = assessments[a] /\ a < n
    BY <1>4, <2>1, <2>2 DEF row
  <2>4. \A a \in DOMAIN assessments' : a \in DOMAIN assessments \/ a = n
    BY <2>2, <2>3
  <2>5. n \in Nat /\ tasks' = [tasks EXCEPT ![t].at = "evaluate", ![t].a = n]
    BY <1>4, <2>2
  <2> HIDE DEF n
  <2>6. Holds(t, "evaluate", tasks[t].c, n, tasks[t].parent, tasks[t].left,
              tasks[t].verdict, tasks[t].why)
    BY <1>2, <2>5, WritesAtA DEF Places
  <2>7. /\ Moved(t) /\ DOMAIN tasks' = DOMAIN tasks /\ Alive(t)' /\ (Searches(t)' <=> Searches(t))
        /\ t \in Active' /\ \A u \in DOMAIN tasks : Alive(u)' => u = t
    BY <1>1, <1>2, <2>6, OneAlive DEF Holds, Moved, ArtifactInv, Alive, Searches, Active
  <2>8. Searches(t) => run.state = "SEARCHING"
    BY <1>4 DEF Allowed, Searches
  <2>9. ~Searches(t) => run.state = "FINALIZING" /\ tasks[t].purpose = "audit"
    BY <1>2, <1>4 DEF Allowed, Searches, TaskRow
  <2>10. \A a \in CompleteOnline(assessments) :
           a \in CompleteOnline(assessments') /\ assessments'[a].artifact = assessments[a].artifact
    BY <2>3 DEF CompleteOnline
  <2>11. TypeOK'
    BY <1>1, <1>2, <2>3, <2>7 DEF TypeOK, TableTypeOK, clock, Moved
  <2>12. ProcessInv'
    BY <1>1, <2>7, MoveKeepsProcesses DEF ArtifactInv, clock
  <2>13. Knows(t)'
    BY <1>1, <1>2, <2>1, <2>3, <2>6, <2>7 DEF Knows, StepFits, RequestFits, AssessmentFits,
       AssessesNew, BaselineIsKnown, Assessing, SharedSteps, AfterBaseline, OfCandidate,
       SearchSteps, AuditSteps, Replied, Holds, Moved
  <2>14. RunnersKnow'
    BY <2>7, <2>13 DEF RunnersKnow
  <2>15. RepliesFit'
    BY <1>1, <2>10 DEF RepliesFit, ArtifactInv
  <2>16. SealFits'
    BY <1>1, <2>10, QueueStays DEF SealFits, ArtifactInv
  <2>17. ~Searches(t) => tasks[t].c \in Range(run.queue) /\ ~Attempted(tasks[t].c)
    BY <1>1, <1>2 DEF AssessesNew
  <2>18. \A a \in DOMAIN assessments : a \in Audits' <=> a \in Audits
    BY <2>3 DEF Audits
  <2>19. n \in Audits' => ~Searches(t)
    BY <2>1, <2>3 DEF Audits
  <2>20. Range(run.queue) \subseteq DOMAIN assessments
    <3>1. run.queue \in Seq(CompleteOnline(assessments))
      BY DEF ArtifactInv, SealFits, IsQueue
    <3>2. QED  BY <3>1 DEF Range, CompleteOnline
  <2>21. AuditsFit'
    <3>1. ASSUME NEW b \in Audits'
          PROVE  /\ assessments'[b].of \in Range(run'.queue)
                 /\ assessments'[b].artifact = assessments'[assessments'[b].of].artifact
      <4>1. CASE b = n
        BY <1>1, <2>1, <2>3, <2>17, <2>19, <2>20, <3>1, <4>1
      <4>2. CASE b \in DOMAIN assessments
        BY <1>1, <2>3, <2>18, <2>20, <3>1, <4>2 DEF ArtifactInv, AuditsFit
      <4>3. QED  BY <2>4, <3>1, <4>1, <4>2 DEF Audits
    <3>2. ASSUME NEW b \in Audits', NEW d \in Audits', assessments'[b].of = assessments'[d].of
          PROVE  b = d
      <4>1. b \in DOMAIN assessments' /\ d \in DOMAIN assessments'
        BY DEF Audits
      <4>2. CASE b \in DOMAIN assessments /\ d \in DOMAIN assessments
        BY <2>3, <2>18, <3>2, <4>2 DEF ArtifactInv, AuditsFit
      <4>3. CASE b = n /\ d \in DOMAIN assessments
        BY <2>1, <2>3, <2>17, <2>18, <2>19, <3>2, <4>3 DEF Attempted
      <4>4. CASE d = n /\ b \in DOMAIN assessments
        BY <2>1, <2>3, <2>17, <2>18, <2>19, <3>2, <4>4 DEF Attempted
      <4>5. QED  BY <2>4, <4>1, <4>2, <4>3, <4>4
    <3>3. QED  BY <3>1, <3>2 DEF AuditsFit
  <2>22. NoReplay'
    <3> SUFFICES ASSUME NEW a \in DOMAIN assessments', NEW b \in DOMAIN assessments', a < b,
                        assessments'[a].mode = assessments'[b].mode,
                        assessments'[a].artifact = assessments'[b].artifact
                 PROVE  assessments'[a].mode = "online" /\ assessments'[a].state = "INVALID"
      BY DEF NoReplay
    <3>1. CASE b \in DOMAIN assessments /\ a \in DOMAIN assessments
      BY <2>3, <3>1 DEF ArtifactInv, NoReplay
    <3>2. CASE b \in DOMAIN assessments /\ a = n
      <4>1. b < n /\ n < b /\ b \in Nat /\ n \in Nat
        BY <2>2, <2>3, <2>5, <3>2
      <4>2. QED  BY <4>1
    <3>3. CASE a = n /\ b = n
      BY <2>5, <3>3
    <3>4. CASE a \in DOMAIN assessments /\ b = n /\ Searches(t)
      BY <1>1, <1>2, <2>1, <2>3, <2>8, <3>4 DEF AssessesNew, Online
    <3>5. CASE a \in DOMAIN assessments /\ b = n /\ ~Searches(t)
      <4>1. a \in Audits /\ assessments[a].artifact = assessments[tasks[t].c].artifact
        BY <2>1, <2>3, <3>5 DEF Audits
      <4>2. PICK i \in DOMAIN run.queue : run.queue[i] = assessments[a].of
        BY <4>1 DEF ArtifactInv, AuditsFit, Range
      <4>3. PICK j \in DOMAIN run.queue : run.queue[j] = tasks[t].c
        BY <2>17, <3>5 DEF Range
      <4>4. assessments[run.queue[i]].artifact = assessments[run.queue[j]].artifact
        BY <4>1, <4>2, <4>3 DEF ArtifactInv, AuditsFit
      <4>5. i = j
        BY <4>4 DEF ArtifactInv, SealFits, IsQueue
      <4>6. assessments[a].of = tasks[t].c
        BY <4>2, <4>3, <4>5
      <4>7. QED  BY <2>17, <3>5, <4>1, <4>6 DEF Attempted
    <3>6. QED  BY <2>4, <3>1, <3>2, <3>3, <3>4, <3>5
  <2>23. /\ \A u \in DOMAIN tasks : ~Leaves(u) /\ \A a : ~Assesses(u, a)
         /\ \A u \in DOMAIN tasks : u \in Active => tasks[u].at # "baseline"
    BY <1>1, OneAlive DEF ArtifactInv, Leaves, Assesses, Assessing, Alive
  <2>24. \A a \in DOMAIN assessments : (Online(a)' <=> Online(a)) /\ (Settled(a)' <=> Settled(a))
    BY <2>3 DEF Online, Settled
  <2>25. ASSUME NEW a, a = n, Online(a)' PROVE Assesses(t, a)'
    BY <2>1, <2>3, <2>6, <2>7, <2>25 DEF Online, Assesses, Assessing, Holds
  <2>26. SearchIsSettled'
    <3> SUFFICES ASSUME run'.state = "SEARCHING", NEW a \in DOMAIN assessments', Online(a)',
                        ~Settled(a)'
                 PROVE  Assesses(t, a)'
      BY <2>7 DEF SearchIsSettled
    <3>1. a \notin DOMAIN assessments
      BY <1>1, <2>23, <2>24 DEF ArtifactInv, SearchIsSettled
    <3>2. QED  BY <2>4, <2>25, <3>1
  <2>27. BaselineIsFirst'
    <3> SUFFICES ASSUME run'.state = "SEARCHING", run'.baseline = 0, NEW a \in DOMAIN assessments',
                        Online(a)'
                 PROVE  Assesses(t, a)' /\ tasks'[t].c = 0
      BY <2>7 DEF BaselineIsFirst
    <3>1. a \notin DOMAIN assessments
      BY <1>1, <2>23, <2>24 DEF ArtifactInv, BaselineIsFirst
    <3>2. Assesses(t, a)'
      BY <2>4, <2>25, <3>1
    <3>3. Searches(t)
      BY <3>2, <2>7 DEF Assesses
    <3>4. tasks[t].c = 0
      BY <1>1, <1>2, <3>3 DEF BaselineIsKnown
    <3>5. QED  BY <2>6, <3>2, <3>4 DEF Holds
  <2>28. QED
    BY <2>11, <2>12, <2>14, <2>15, <2>16, <2>21, <2>22, <2>26, <2>27 DEF ArtifactInv
<1>5. "budget" \in Causes
  BY DEF Causes
<1>6. QED  BY <1>3, <1>4, <1>5, Refused DEF Reserve

-----------------------------------------------------------------------------
(* What is reconciled                                                      *)

(* The repair goes through the assessments, then through the candidates.   *)
LEMMA AssessmentsFold ==
  ASSUME NEW V, NEW n \in Nat, NEW base \in V,
         \A s \in V, k \in 1..n : ReconcileAssessment(s, k) \in V
  PROVE  FoldLeft(ReconcileAssessment, base, Upto(n)) \in V
<1> DEFINE F == [p \in V \X (1..n) |-> ReconcileAssessment(p[1], p[2])]
           G == CHOOSE g : g = [T \in SUBSET DOMAIN Upto(n) |->
                  IF T = {} THEN base
                  ELSE ReconcileAssessment(g[T \ {Max(T)}], Upto(n)[Max(T)])]
           Body(h, T) == IF T = {} THEN base
                         ELSE ReconcileAssessment(h[T \ {Max(T)}], Upto(n)[Max(T)])
<1>1. F \in [V \X (1..n) -> V]
  OBVIOUS
<1>2. DOMAIN Upto(n) = 1..n /\ \A i \in 1..n : Upto(n)[i] = i
  BY DEF Upto
<1>3. PICK g : FoldsTo(g, F, base, V, n)
  <2> HIDE DEF F
  <2>1. QED  BY <1>1, FoldExists
<1>4. G = [T \in SUBSET DOMAIN Upto(n) |-> Body(G, T)]
  <2>1. ASSUME NEW T \in SUBSET (1..n) PROVE g[T] = Body(g, T)
    <3>1. CASE T = {}
      BY <3>1, <1>3 DEF FoldsTo
    <3>2. CASE T # {}
      <4>1. Max(T) \in 1..n /\ T \ {Max(T)} \in SUBSET (1..n)
        BY <3>2, LargestOfPlaces
      <4>2. g[T \ {Max(T)}] \in V /\ g[T] = F[<<g[T \ {Max(T)}], Max(T)>>]
        <5> HIDE DEF F
        <5>1. QED  BY <4>1, <3>2, <1>3 DEF FoldsTo
      <4>3. F[<<g[T \ {Max(T)}], Max(T)>>] = ReconcileAssessment(g[T \ {Max(T)}], Max(T))
        BY <4>1, <4>2
      <4> HIDE DEF F, G
      <4>4. QED  BY <4>1, <4>2, <4>3, <1>2, <3>2
    <3>3. QED  BY <3>1, <3>2
  <2> HIDE DEF Body, F
  <2>2. g = [T \in SUBSET (1..n) |-> g[T]]
    BY <1>3 DEF FoldsTo
  <2>3. g = [T \in SUBSET DOMAIN Upto(n) |-> Body(g, T)]
    BY <2>1, <2>2, <1>2
  <2> USE DEF Body
  <2>4. \E h : h = [T \in SUBSET DOMAIN Upto(n) |-> Body(h, T)]
    BY <2>3
  <2>5. QED  BY <2>4
<1>5. FoldLeft(ReconcileAssessment, base, Upto(n)) = G[DOMAIN Upto(n)]
  BY DEF FoldLeft, MapThenFoldSet
<1>6. G[{}] \in V
  <2>1. {} \in SUBSET DOMAIN Upto(n)
    OBVIOUS
  <2> HIDE DEF F, G
  <2>2. QED  BY <2>1, <1>4
<1>7. ASSUME NEW T \in SUBSET (1..n), T # {}, G[T \ {Max(T)}] \in V
      PROVE  G[T] \in V
  <2> HIDE DEF F, G
  <2>1. Max(T) \in 1..n
    BY <1>7, LargestOfPlaces
  <2>2. G[T] = ReconcileAssessment(G[T \ {Max(T)}], Max(T))
    BY <1>2, <1>4, <1>7, <2>1
  <2>3. QED  BY <1>7, <2>1, <2>2
<1>8. G[1..n] \in V
  <2> HIDE DEF F, G, Body
  <2>1. QED  BY <1>6, <1>7, FoldStays
<1> HIDE DEF F, G, Body
<1>9. QED  BY <1>2, <1>5, <1>8

LEMMA ReusesFold ==
  ASSUME NEW V, NEW n \in Nat, NEW base \in V,
         \A s \in V, k \in 1..n : ReconcileReuse(s, k) \in V
  PROVE  FoldLeft(ReconcileReuse, base, Upto(n)) \in V
<1> DEFINE F == [p \in V \X (1..n) |-> ReconcileReuse(p[1], p[2])]
           G == CHOOSE g : g = [T \in SUBSET DOMAIN Upto(n) |->
                  IF T = {} THEN base
                  ELSE ReconcileReuse(g[T \ {Max(T)}], Upto(n)[Max(T)])]
           Body(h, T) == IF T = {} THEN base
                         ELSE ReconcileReuse(h[T \ {Max(T)}], Upto(n)[Max(T)])
<1>1. F \in [V \X (1..n) -> V]
  OBVIOUS
<1>2. DOMAIN Upto(n) = 1..n /\ \A i \in 1..n : Upto(n)[i] = i
  BY DEF Upto
<1>3. PICK g : FoldsTo(g, F, base, V, n)
  <2> HIDE DEF F
  <2>1. QED  BY <1>1, FoldExists
<1>4. G = [T \in SUBSET DOMAIN Upto(n) |-> Body(G, T)]
  <2>1. ASSUME NEW T \in SUBSET (1..n) PROVE g[T] = Body(g, T)
    <3>1. CASE T = {}
      BY <3>1, <1>3 DEF FoldsTo
    <3>2. CASE T # {}
      <4>1. Max(T) \in 1..n /\ T \ {Max(T)} \in SUBSET (1..n)
        BY <3>2, LargestOfPlaces
      <4>2. g[T \ {Max(T)}] \in V /\ g[T] = F[<<g[T \ {Max(T)}], Max(T)>>]
        <5> HIDE DEF F
        <5>1. QED  BY <4>1, <3>2, <1>3 DEF FoldsTo
      <4>3. F[<<g[T \ {Max(T)}], Max(T)>>] = ReconcileReuse(g[T \ {Max(T)}], Max(T))
        BY <4>1, <4>2
      <4> HIDE DEF F, G
      <4>4. QED  BY <4>1, <4>2, <4>3, <1>2, <3>2
    <3>3. QED  BY <3>1, <3>2
  <2> HIDE DEF Body, F
  <2>2. g = [T \in SUBSET (1..n) |-> g[T]]
    BY <1>3 DEF FoldsTo
  <2>3. g = [T \in SUBSET DOMAIN Upto(n) |-> Body(g, T)]
    BY <2>1, <2>2, <1>2
  <2> USE DEF Body
  <2>4. \E h : h = [T \in SUBSET DOMAIN Upto(n) |-> Body(h, T)]
    BY <2>3
  <2>5. QED  BY <2>4
<1>5. FoldLeft(ReconcileReuse, base, Upto(n)) = G[DOMAIN Upto(n)]
  BY DEF FoldLeft, MapThenFoldSet
<1>6. G[{}] \in V
  <2>1. {} \in SUBSET DOMAIN Upto(n)
    OBVIOUS
  <2> HIDE DEF F, G
  <2>2. QED  BY <2>1, <1>4
<1>7. ASSUME NEW T \in SUBSET (1..n), T # {}, G[T \ {Max(T)}] \in V
      PROVE  G[T] \in V
  <2> HIDE DEF F, G
  <2>1. Max(T) \in 1..n
    BY <1>7, LargestOfPlaces
  <2>2. G[T] = ReconcileReuse(G[T \ {Max(T)}], Max(T))
    BY <1>2, <1>4, <1>7, <2>1
  <2>3. QED  BY <1>7, <2>1, <2>2
<1>8. G[1..n] \in V
  <2> HIDE DEF F, G, Body
  <2>1. QED  BY <1>6, <1>7, FoldStays
<1> HIDE DEF F, G, Body
<1>9. QED  BY <1>2, <1>5, <1>8

(* What the repair may have made of the tables.                            *)
RunRecovers(r, tab) ==
  /\ r.sealed = run.sealed /\ r.queue = run.queue /\ r.state = run.state
  /\ r.incumbent # 0 => r.incumbent \in CompleteOnline(tab)
  /\ run.baseline # 0 => r.baseline # 0
Uninvalidated(tab) ==
  \A a \in DOMAIN assessments : tab[a].state = "INVALID" => assessments[a].state = "INVALID"
SameRequests(rows) ==
  /\ DOMAIN rows = DOMAIN candidates
  /\ \A c \in DOMAIN candidates :
       /\ rows[c].provider = candidates[c].provider /\ rows[c].reply = candidates[c].reply
       /\ rows[c].artifact = candidates[c].artifact /\ rows[c].reuse = candidates[c].reuse
Repairs ==
  {s \in [run : RunRow, assessments : Seq(AssessmentRow), candidates : Seq(CandidateRow),
          ok : BOOLEAN] :
     /\ RunRecovers(s.run, s.assessments) /\ Advances(assessments, s.assessments)
     /\ Uninvalidated(s.assessments) /\ SameRequests(s.candidates)}

LEMMA TablesRepair ==
  ASSUME TypeOK, SealFits
  PROVE  Tables \in Repairs
<1>1. run \in RunRow /\ assessments \in Seq(AssessmentRow) /\ candidates \in Seq(CandidateRow)
  BY Rows
<1>2. Advances(assessments, assessments)
  BY SameAdvances
<1>3. RunRecovers(run, assessments) /\ Uninvalidated(assessments) /\ SameRequests(candidates)
  BY DEF RunRecovers, Uninvalidated, SameRequests, SealFits
<1>4. QED  BY <1>1, <1>2, <1>3 DEF Tables, Repairs

LEMMA FailsRepairs ==
  ASSUME NEW s \in Repairs
  PROVE  [s EXCEPT !.ok = FALSE] \in Repairs
<1> DEFINE R == [run : RunRow, assessments : Seq(AssessmentRow), candidates : Seq(CandidateRow),
                 ok : BOOLEAN]
           f == [s EXCEPT !.ok = FALSE]
<1>1. s \in R
  BY DEF Repairs
<1>2. f \in R /\ f.run = s.run /\ f.assessments = s.assessments /\ f.candidates = s.candidates
  BY <1>1
<1> HIDE DEF f
<1>3. QED  BY <1>2 DEF Repairs

(* An assessment that is promoted is complete, and has the next number.    *)
LEMMA PromoteRepairs ==
  ASSUME NEW s \in Repairs, NEW a \in DOMAIN assessments, s.assessments[a].state # "INVALID"
  PROVE  /\ Promote(s, a) \in Repairs
         /\ Promote(s, a).assessments[a].state = "COMPLETE"
         /\ Promote(s, a).assessments[a].mode = s.assessments[a].mode
         /\ Promote(s, a).ok = s.ok
<1> DEFINE R == [run : RunRow, assessments : Seq(AssessmentRow), candidates : Seq(CandidateRow),
                 ok : BOOLEAN]
<1>1. /\ s \in R /\ s.assessments \in Seq(AssessmentRow) /\ Advances(assessments, s.assessments)
      /\ Uninvalidated(s.assessments) /\ RunRecovers(s.run, s.assessments)
      /\ SameRequests(s.candidates)
  BY DEF Repairs
<1>2. CASE s.assessments[a].state = "COMPLETE"
  BY <1>2 DEF Promote
<1>3. CASE s.assessments[a].state # "COMPLETE"
  <2> DEFINE old == s.assessments
             row == [old[a] EXCEPT !.state = "COMPLETE", !.order = NextOrder(old)]
             tab == [old EXCEPT ![a] = row]
             p   == [s EXCEPT !.assessments = tab]
  <2>1. a \in DOMAIN old /\ old[a] \in AssessmentRow
    BY <1>1 DEF Advances
  <2>2. NextOrder(old) \in Nat
    BY <1>1, LastNumber DEF NextOrder
  <2>3. /\ row \in AssessmentRow /\ row.state = "COMPLETE" /\ row.mode = old[a].mode
        /\ row.of = old[a].of /\ row.artifact = old[a].artifact
    <3> HIDE DEF old
    <3>1. QED  BY <2>1, <2>2 DEF AssessmentRow
  <2>4. Promote(s, a) = p
    BY <1>1, <1>3, <2>1 DEF Promote
  <2> HIDE DEF row
  <2>5. /\ tab \in Seq(AssessmentRow) /\ DOMAIN tab = DOMAIN old
        /\ \A b \in DOMAIN old : tab[b] = IF b = a THEN row ELSE old[b]
    <3>1. old \in Seq(AssessmentRow)
      BY <1>1
    <3> HIDE DEF old
    <3>2. QED  BY <2>3, <3>1, RowReplaced
  <2> HIDE DEF tab
  <2>6. /\ p \in R /\ p.run = s.run /\ p.assessments = tab /\ p.candidates = s.candidates
        /\ p.ok = s.ok
    BY <1>1, <2>5
  <2> HIDE DEF p, R
  <2>7. /\ old \in Seq(AssessmentRow) /\ Advances(assessments, old) /\ Uninvalidated(old)
        /\ RunRecovers(s.run, old) /\ SameRequests(s.candidates) /\ old[a].state # "INVALID"
        /\ DOMAIN old = DOMAIN assessments
    BY <1>1 DEF Advances
  <2> HIDE DEF old
  <2>8. Advances(old, tab)
    BY <2>3, <2>5, <2>7 DEF Advances
  <2>9. Advances(assessments, tab)
    BY <2>7, <2>8 DEF Advances
  <2>10. Uninvalidated(tab)
    BY <2>3, <2>5, <2>7 DEF Uninvalidated
  <2>11. RunRecovers(s.run, tab)
    BY <2>7, <2>8, CompleteStays DEF RunRecovers
  <2>12. p \in Repairs
    BY <2>6, <2>7, <2>9, <2>10, <2>11 DEF Repairs, R
  <2>13. tab[a] = row
    BY <2>1, <2>5, <2>7
  <2>14. old[a].mode = s.assessments[a].mode
    BY DEF old
  <2>15. QED  BY <2>3, <2>4, <2>6, <2>12, <2>13, <2>14
<1>4. QED  BY <1>2, <1>3

LEMMA AdoptRepairs ==
  ASSUME NEW s \in Repairs, NEW c, NEW a \in CompleteOnline(s.assessments)
  PROVE  Adopt(s, c, a) \in Repairs
<1> DEFINE R == [run : RunRow, assessments : Seq(AssessmentRow), candidates : Seq(CandidateRow),
                 ok : BOOLEAN]
           best == IF Accepts(s.run.incumbent, a, s.assessments) THEN a ELSE s.run.incumbent
           r    == [s.run EXCEPT !.incumbent = best]
           rows == [s.candidates EXCEPT ![c].state = "COMPLETE"]
           p    == [s EXCEPT !.run = r, !.candidates = rows]
<1>1. /\ s \in R /\ s.assessments \in Seq(AssessmentRow) /\ Advances(assessments, s.assessments)
      /\ Uninvalidated(s.assessments) /\ RunRecovers(s.run, s.assessments)
      /\ SameRequests(s.candidates) /\ s.run \in RunRow /\ s.candidates \in Seq(CandidateRow)
  BY DEF Repairs
<1>2. CASE s.run.sealed
  BY <1>2, FailsRepairs DEF Adopt
<1>3. CASE ~s.run.sealed
  <2>1. Adopt(s, c, a) = p
    BY <1>1, <1>3 DEF Adopt
  <2>2. best \in {a, s.run.incumbent}
    OBVIOUS
  <2>3. a \in Nat
    BY <1>1 DEF CompleteOnline
  <2> HIDE DEF best
  <2>4. /\ r \in RunRow /\ r.incumbent = best /\ r.sealed = s.run.sealed /\ r.queue = s.run.queue
        /\ r.state = s.run.state /\ r.baseline = s.run.baseline
    BY <1>1, <2>2, <2>3 DEF RunRow
  <2>5. RunRecovers(r, s.assessments)
    <3> HIDE DEF r
    <3>1. QED  BY <1>1, <2>2, <2>4 DEF RunRecovers
  <2>6. rows \in Seq(CandidateRow) /\ SameRequests(rows)
    <3> DEFINE row == [s.candidates[c] EXCEPT !.state = "COMPLETE"]
    <3>1. DOMAIN s.candidates = DOMAIN candidates
      BY <1>1 DEF SameRequests
    <3>2. ASSUME c \in DOMAIN s.candidates
          PROVE  /\ row \in CandidateRow /\ row.provider = s.candidates[c].provider
                 /\ row.reply = s.candidates[c].reply /\ row.artifact = s.candidates[c].artifact
                 /\ row.reuse = s.candidates[c].reuse
      <4>1. s.candidates[c] \in CandidateRow
        BY <1>1, <3>2
      <4>2. QED  BY <4>1 DEF CandidateRow, CandidateStates
    <3>3. rows = [s.candidates EXCEPT ![c] = row]
      BY <1>1
    <3> HIDE DEF row, rows
    <3>4. /\ rows \in Seq(CandidateRow) /\ DOMAIN rows = DOMAIN s.candidates
          /\ \A d \in DOMAIN s.candidates : rows[d] = IF d = c THEN row ELSE s.candidates[d]
      BY <1>1, <3>2, <3>3, RowReplaced
    <3>5. QED  BY <1>1, <3>1, <3>2, <3>4 DEF SameRequests
  <2> HIDE DEF r, rows
  <2>7. p \in R /\ p.run = r /\ p.assessments = s.assessments /\ p.candidates = rows
    BY <1>1, <2>4, <2>6
  <2> HIDE DEF p
  <2>8. QED  BY <1>1, <2>1, <2>5, <2>6, <2>7 DEF Repairs
<1>4. QED  BY <1>2, <1>3

LEMMA BaselineRepairs ==
  ASSUME NEW s \in Repairs, NEW a \in CompleteOnline(s.assessments)
  PROVE  [s EXCEPT !.run = TakeBaseline(s.run, a, s.assessments)] \in Repairs
<1> DEFINE R == [run : RunRow, assessments : Seq(AssessmentRow), candidates : Seq(CandidateRow),
                 ok : BOOLEAN]
           r    == TakeBaseline(s.run, a, s.assessments)
           best == IF KeyOf(a, s.assessments) # 0 THEN a ELSE s.run.incumbent
           p    == [s EXCEPT !.run = r]
<1>1. /\ s \in R /\ s.assessments \in Seq(AssessmentRow) /\ Advances(assessments, s.assessments)
      /\ Uninvalidated(s.assessments) /\ RunRecovers(s.run, s.assessments)
      /\ SameRequests(s.candidates) /\ s.run \in RunRow
  BY DEF Repairs
<1>2. a \in Nat \ {0}
  BY <1>1 DEF CompleteOnline
<1>3. best \in {a, s.run.incumbent}
  OBVIOUS
<1>4. r = [s.run EXCEPT !.baseline = a, !.incumbent = best]
  BY DEF TakeBaseline
<1> HIDE DEF r, best
<1>5. /\ r \in RunRow /\ r.incumbent = best /\ r.sealed = s.run.sealed /\ r.queue = s.run.queue
      /\ r.state = s.run.state /\ r.baseline = a
  BY <1>1, <1>2, <1>3, <1>4 DEF RunRow
<1>6. RunRecovers(r, s.assessments)
  BY <1>1, <1>2, <1>3, <1>5 DEF RunRecovers
<1>7. p \in R /\ p.run = r /\ p.assessments = s.assessments /\ p.candidates = s.candidates
  BY <1>1, <1>5
<1> HIDE DEF p
<1>8. p \in Repairs
  BY <1>1, <1>6, <1>7 DEF Repairs
<1>9. QED  BY <1>8 DEF p, r

LEMMA AssessmentRepairs ==
  ASSUME NEW s \in Repairs, NEW a \in DOMAIN assessments
  PROVE  ReconcileAssessment(s, a) \in Repairs
<1>1. /\ s.assessments \in Seq(AssessmentRow) /\ DOMAIN s.assessments = DOMAIN assessments
  BY DEF Repairs, Advances
<1>2. CASE ~s.ok \/ ~OnDisk(s.assessments, a)
  BY <1>2 DEF ReconcileAssessment
<1>3. CASE /\ ~(~s.ok \/ ~OnDisk(s.assessments, a))
           /\ s.assessments[a].state \notin {"COMPLETE", "RESERVED", "INCOMPLETE"}
  BY <1>3, FailsRepairs DEF ReconcileAssessment
<1>4. CASE /\ ~(~s.ok \/ ~OnDisk(s.assessments, a))
           /\ s.assessments[a].state \in {"COMPLETE", "RESERVED", "INCOMPLETE"}
  <2> DEFINE p == Promote(s, a)
             c == s.assessments[a].of
  <2>1. /\ p \in Repairs /\ p.assessments[a].state = "COMPLETE"
        /\ p.assessments[a].mode = s.assessments[a].mode
    BY <1>4, PromoteRepairs
  <2> HIDE DEF p
  <2>2. s.assessments[a].mode \in {"online", "audit"}
    <3>1. s.assessments[a] \in AssessmentRow
      BY <1>1
    <3>2. QED  BY <3>1 DEF AssessmentRow
  <2>3. DOMAIN p.assessments = DOMAIN assessments
    BY <2>1 DEF Repairs, Advances
  <2>4. s.assessments[a].mode = "online" => a \in CompleteOnline(p.assessments)
    BY <2>1, <2>3 DEF CompleteOnline
  <2>5. CASE s.assessments[a].mode = "audit"
    <3>1. ReconcileAssessment(s, a) = p
      BY <1>4, <2>5 DEF ReconcileAssessment, p
    <3>2. QED  BY <2>1, <3>1
  <2>6. CASE s.assessments[a].mode = "online" /\ c = 0
    <3>1. ReconcileAssessment(s, a)
            = IF p.run.baseline # 0 THEN p
              ELSE [p EXCEPT !.run = TakeBaseline(p.run, a, p.assessments)]
      BY <1>4, <2>6 DEF ReconcileAssessment, p
    <3>2. QED  BY <2>1, <2>4, <2>6, <3>1, BaselineRepairs
  <2>7. CASE s.assessments[a].mode = "online" /\ c # 0
    <3>1. ReconcileAssessment(s, a)
            = IF p.candidates[c].state = "COMPLETE" THEN p ELSE Adopt(p, c, a)
      BY <1>4, <2>7 DEF ReconcileAssessment, p
    <3>2. QED  BY <2>1, <2>4, <2>7, <3>1, AdoptRepairs
  <2>8. QED  BY <2>2, <2>5, <2>6, <2>7
<1>5. QED  BY <1>2, <1>3, <1>4

LEMMA ReuseRepairs ==
  ASSUME TypeOK, RepliesFit, NEW s \in Repairs, NEW c \in DOMAIN candidates
  PROVE  ReconcileReuse(s, c) \in Repairs
<1>1. /\ Advances(assessments, s.assessments) /\ SameRequests(s.candidates)
  BY DEF Repairs
<1>2. s.candidates[c].reuse # 0 => s.candidates[c].reuse \in CompleteOnline(s.assessments)
  BY <1>1, CompleteStays DEF RepliesFit, SameRequests
<1>3. QED  BY <1>2, AdoptRepairs DEF ReconcileReuse

(* The repair stays within what it may do.                                 *)
LEMMA ReconcileRepairs ==
  ASSUME TypeOK, SealFits, RepliesFit
  PROVE  Reconcile \in Repairs
<1> DEFINE n == Len(assessments)
           m == Len(candidates)
           half == FoldLeft(ReconcileAssessment, Tables, Upto(n))
<1>1. n \in Nat /\ m \in Nat /\ 1..n = DOMAIN assessments /\ 1..m = DOMAIN candidates
  BY Rows
<1>2. \A s \in Repairs, a \in 1..n : ReconcileAssessment(s, a) \in Repairs
  BY <1>1, AssessmentRepairs
<1>3. \A s \in Repairs, c \in 1..m : ReconcileReuse(s, c) \in Repairs
  BY <1>1, ReuseRepairs
<1>4. half \in Repairs
  <2> HIDE DEF n
  <2>1. QED  BY <1>1, <1>2, TablesRepair, AssessmentsFold
<1> HIDE DEF half, n, m
<1>5. FoldLeft(ReconcileReuse, half, Upto(m)) \in Repairs
  BY <1>1, <1>3, <1>4, ReusesFold
<1>6. QED  BY <1>5 DEF Reconcile, half, n, m

-----------------------------------------------------------------------------
(* Stop, watchdog and recover close what they find                         *)

(* The tables after the repair, r the row of the run.                      *)
Repaired(r, tab, rows) ==
  /\ r \in RunRow /\ rows \in Seq(CandidateRow) /\ RunRecovers(r, tab)
  /\ Advances(assessments, tab) /\ Uninvalidated(tab) /\ SameRequests(rows)

LEMMA ReconcileIsRepaired ==
  ASSUME ArtifactInv
  PROVE  Repaired(Reconcile.run, Reconcile.assessments, Reconcile.candidates)
<1>1. Reconcile \in Repairs
  BY ReconcileRepairs DEF ArtifactInv
<1>2. \A s \in Repairs : Repaired(s.run, s.assessments, s.candidates)
  BY DEF Repairs, Repaired
<1>3. QED  BY <1>1, <1>2

(* Only the effects, or what is not settled, changes.                      *)
LEMMA StatesRepaired ==
  ASSUME TypeOK, NEW r, NEW tab, NEW rows, Repaired(r, tab, rows), NEW new \in Seq(AssessmentRow),
         DOMAIN new = DOMAIN tab,
         \A a \in DOMAIN tab :
           /\ new[a].mode = tab[a].mode /\ new[a].of = tab[a].of
           /\ new[a].artifact = tab[a].artifact
           /\ \/ new[a].state = tab[a].state
              \/ tab[a].state = "RESERVED" /\ new[a].state = "INCOMPLETE"
  PROVE  Repaired(r, new, rows)
<1>1. Advances(tab, new)
  BY DEF Advances, Repaired
<1>2. Advances(assessments, new)
  BY <1>1 DEF Advances, Repaired
<1>3. Uninvalidated(new)
  BY DEF Uninvalidated, Repaired, Advances
<1>4. RunRecovers(r, new)
  BY <1>1, CompleteStays DEF RunRecovers, Repaired
<1>5. QED  BY <1>2, <1>3, <1>4 DEF Repaired

LEMMA EffectsRepaired ==
  ASSUME TypeOK, NEW r, NEW tab, NEW rows, Repaired(r, tab, rows)
  PROVE  Repaired(r, SettleAll(tab), rows)
<1> DEFINE new == SettleAll(tab)
<1>1. tab \in Seq(AssessmentRow)
  BY DEF Repaired, Advances
<1>2. /\ DOMAIN new = DOMAIN tab /\ new = [a \in DOMAIN new |-> new[a]]
      /\ \A a \in DOMAIN tab : new[a] = [tab[a] EXCEPT !.effects = Settle(tab[a].effects)]
  BY DEF SettleAll
<1> HIDE DEF new
<1>3. ASSUME NEW a \in DOMAIN tab
      PROVE  /\ new[a] \in AssessmentRow /\ new[a].mode = tab[a].mode /\ new[a].of = tab[a].of
             /\ new[a].artifact = tab[a].artifact /\ new[a].state = tab[a].state
  <2> DEFINE settled == Settle(tab[a].effects)
  <2>1. tab[a] \in AssessmentRow
    BY <1>1
  <2>2. settled \in Seq(EffectStates)
    <3>1. tab[a].effects \in Seq(EffectStates)
      BY <2>1 DEF AssessmentRow
    <3>2. QED  BY <3>1, SettledEffects
  <2> HIDE DEF settled
  <2>3. new[a] = [tab[a] EXCEPT !.effects = settled]
    BY <1>2 DEF settled
  <2>4. QED  BY <2>1, <2>2, <2>3 DEF AssessmentRow
<1>4. new \in Seq(AssessmentRow)
  BY <1>1, <1>2, <1>3, RowsReplaced
<1>5. Repaired(r, new, rows)
  BY <1>2, <1>3, <1>4, StatesRepaired
<1>6. QED  BY <1>5 DEF new

LEMMA IncompleteRepaired ==
  ASSUME TypeOK, NEW r, NEW tab, NEW rows, Repaired(r, tab, rows)
  PROVE  Repaired(r, Incomplete(tab), rows)
<1> DEFINE new == Incomplete(tab)
           state(a) == IF tab[a].state = "RESERVED" THEN "INCOMPLETE" ELSE tab[a].state
<1>1. tab \in Seq(AssessmentRow)
  BY DEF Repaired, Advances
<1>2. /\ DOMAIN new = DOMAIN tab /\ new = [a \in DOMAIN new |-> new[a]]
      /\ \A a \in DOMAIN tab : new[a] = [tab[a] EXCEPT !.state = state(a)]
  BY DEF Incomplete
<1> HIDE DEF new
<1>3. ASSUME NEW a \in DOMAIN tab
      PROVE  /\ new[a] \in AssessmentRow /\ new[a].mode = tab[a].mode /\ new[a].of = tab[a].of
             /\ new[a].artifact = tab[a].artifact /\ new[a].state = state(a)
  <2>1. tab[a] \in AssessmentRow
    BY <1>1
  <2>2. state(a) \in {"RESERVED", "COMPLETE", "INVALID", "INCOMPLETE"}
    BY <2>1 DEF AssessmentRow
  <2>3. new[a] = [tab[a] EXCEPT !.state = state(a)]
    BY <1>2
  <2> HIDE DEF state
  <2>4. QED  BY <2>1, <2>2, <2>3 DEF AssessmentRow
<1>4. new \in Seq(AssessmentRow)
  BY <1>1, <1>2, <1>3, RowsReplaced
<1>5. Repaired(r, new, rows)
  BY <1>2, <1>3, <1>4, StatesRepaired
<1>6. QED  BY <1>5 DEF new

LEMMA RequestsRepaired ==
  ASSUME NEW r, NEW tab, NEW rows, Repaired(r, tab, rows)
  PROVE  Repaired(r, tab, SettleRequests(rows))
<1> DEFINE new == SettleRequests(rows)
<1>1. rows \in Seq(CandidateRow) /\ SameRequests(rows)
  BY DEF Repaired
<1>2. /\ DOMAIN new = DOMAIN rows /\ new = [c \in DOMAIN new |-> new[c]]
      /\ \A c \in DOMAIN rows : new[c] = [rows[c] EXCEPT !.effect = Reconciled[rows[c].effect]]
  BY DEF SettleRequests
<1> HIDE DEF new
<1>3. ASSUME NEW c \in DOMAIN rows
      PROVE  /\ new[c] \in CandidateRow /\ new[c].provider = rows[c].provider
             /\ new[c].reply = rows[c].reply /\ new[c].artifact = rows[c].artifact
             /\ new[c].reuse = rows[c].reuse
  <2> DEFINE effect == Reconciled[rows[c].effect]
  <2>1. rows[c] \in CandidateRow
    BY <1>1
  <2>2. effect \in EffectStates
    <3>1. rows[c].effect \in EffectStates
      BY <2>1 DEF CandidateRow
    <3>2. \A e \in EffectStates : Reconciled[e] \in EffectStates
      BY DEF Reconciled, EffectStates
    <3>3. QED  BY <3>1, <3>2
  <2>3. new[c] = [rows[c] EXCEPT !.effect = effect]
    BY <1>2
  <2> HIDE DEF effect
  <2>4. QED  BY <2>1, <2>2, <2>3 DEF CandidateRow
<1>4. new \in Seq(CandidateRow)
  BY <1>1, <1>2, <1>3, RowsReplaced
<1>5. SameRequests(new)
  BY <1>1, <1>2, <1>3 DEF SameRequests
<1>6. Repaired(r, tab, new)
  BY <1>4, <1>5 DEF Repaired
<1>7. QED  BY <1>6 DEF new

LEMMA InterruptedRounds ==
  ASSUME NEW rs \in [1..MaxRounds -> RoundRow], NEW r
  PROVE  /\ Interrupt(rs, r) \in [1..MaxRounds -> RoundRow]
         /\ [Interrupt(rs, r) EXCEPT ![r].state = "EVALUATE_SKIPPED"] \in [1..MaxRounds -> RoundRow]
<1>1. "EVALUATE_SKIPPED" \in RoundStates
  BY DEF RoundStates
<1>2. Interrupt(rs, r) \in [1..MaxRounds -> RoundRow]
  BY <1>1, RoundWritten DEF Interrupt
<1>3. QED  BY <1>1, <1>2, RoundWritten

(* The row of the run is sealed with the repair, or its search is over.    *)
LEMMA RepairedSeals ==
  ASSUME NEW r, Repaired(r, assessments', candidates'), ~run.sealed, NEW why \in Reasons,
         run' = Seal(r, assessments', why)
  PROVE  RunSeals /\ BaselineStays
<1>1. r \in RunRow /\ RunRecovers(r, assessments') /\ assessments' \in Seq(AssessmentRow)
  BY DEF Repaired, Advances
<1>2. ~r.sealed /\ (r.incumbent # 0 => r.incumbent \in CompleteOnline(assessments'))
  BY <1>1 DEF RunRecovers
<1>3. /\ run' \in RunRow /\ run'.sealed /\ run'.state = "SEARCH_SEALED"
      /\ IsQueue(run'.queue, assessments') /\ run'.incumbent = r.incumbent
      /\ run'.baseline = r.baseline
  BY <1>1, <1>2, SealSeals
<1>4. QED  BY <1>1, <1>2, <1>3 DEF RunSeals, BaselineStays, RunRecovers

LEMMA RepairedEnds ==
  ASSUME ArtifactInv, NEW r, Repaired(r, assessments', candidates'), NEW why \in Reasons,
         NEW state \in {"STOPPED", "FAILED", "SEARCH_SEALED"},
         state = "SEARCH_SEALED" => run.sealed,
         \/ run' = [r EXCEPT !.state = state] \/ run' = [r EXCEPT !.state = state, !.reason = why]
         \/ run' = r
  PROVE  RunKeeps /\ BaselineStays
<1>1. r \in RunRow /\ RunRecovers(r, assessments')
  BY DEF Repaired
<1>2. /\ run' \in RunRow /\ run'.sealed = r.sealed /\ run'.queue = r.queue
      /\ run'.incumbent = r.incumbent /\ run'.baseline = r.baseline
      /\ run'.state \in {r.state, state}
  <2>1. CASE run' = [r EXCEPT !.state = state]
    BY <1>1, <2>1 DEF RunRow, RunStates
  <2>2. CASE run' = [r EXCEPT !.state = state, !.reason = why]
    BY <1>1, <2>2 DEF RunRow, RunStates
  <2>3. CASE run' = r
    BY <1>1, <2>3
  <2>4. QED  BY <2>1, <2>2, <2>3
<1>3. QED  BY <1>1, <1>2 DEF RunKeeps, BaselineStays, RunRecovers, ArtifactInv, SealFits

(* A task that nobody works on is ended.                                   *)
Ended(u) ==
  /\ ~Alive(u) /\ tasks'[u].purpose = tasks[u].purpose /\ tasks'[u].pid = tasks[u].pid
  /\ tasks'[u].seen = tasks[u].seen /\ tasks'[u].launch = tasks[u].launch
  /\ tasks'[u].runner = tasks[u].runner /\ tasks'[u].c = tasks[u].c
  /\ tasks'[u].state \notin {"STARTING", "RUNNING"}
  /\ tasks'[u].watchdog \in {tasks[u].watchdog, "gone"}

LEMMA CloseKeeps ==
  ASSUME ArtifactInv, NEW r, Repaired(r, assessments', candidates'),
         rounds' \in [1..MaxRounds -> RoundRow], UNCHANGED <<clock, faults>>,
         stopper' \in {"idle", stopper}, tasks' \in Seq(TaskRow), DOMAIN tasks' = DOMAIN tasks,
         \A u \in DOMAIN tasks : tasks'[u] = tasks[u] \/ Ended(u),
         \A u \in DOMAIN tasks : Alive(u) => ~Searches(u),
         RunKeeps \/ RunSeals, BaselineStays, run'.state = "SEARCHING" => Active = {}
  PROVE  ArtifactInv'
<1>1. /\ Advances(assessments, assessments') /\ Uninvalidated(assessments')
      /\ SameRequests(candidates') /\ candidates' \in Seq(CandidateRow)
  BY DEF Repaired
<1>2. TypeOK'
  BY <1>1 DEF ArtifactInv, TypeOK, TableTypeOK, clock, Advances, RunKeeps, RunSeals
<1>3. /\ \A u \in DOMAIN tasks : /\ tasks'[u].purpose = tasks[u].purpose
                                 /\ (Alive(u)' <=> Alive(u)) /\ (Searches(u)' <=> Searches(u))
                                 /\ u \in Active' => u \in Active
                                 /\ Alive(u) => tasks'[u] = tasks[u]
  BY DEF Ended, Alive, Searches, Active
<1>4. ProcessInv'
  <2>1. OneActive'
    BY <1>3 DEF ArtifactInv, ProcessInv, OneActive, Active
  <2>2. StopperIsAlone'
    <3>1. stopper' = "killed" => stopper = "killed"
      OBVIOUS
    <3>2. stopper' = "killed" /\ run'.state = "STOPPING" => run.state = "STOPPING"
      BY DEF RunKeeps, RunSeals
    <3>3. QED  BY <1>3, <3>1, <3>2 DEF ArtifactInv, ProcessInv, StopperIsAlone
  <2>3. ASSUME NEW u \in DOMAIN tasks PROVE RunnerOfActive(u)'
    <3>1. RunnerOfActive(u)
      BY DEF ArtifactInv, ProcessInv
    <3>2. CASE tasks'[u] = tasks[u]
      BY <1>3, <3>1, <3>2 DEF RunnerOfActive
    <3>3. CASE Ended(u)
      BY <1>3, <3>1, <3>3 DEF RunnerOfActive, Ended
    <3>4. QED  BY <3>2, <3>3
  <2>4. ASSUME NEW u \in DOMAIN tasks PROVE WatchdogIsLate(u)'
    <3>1. WatchdogIsLate(u)
      BY DEF ArtifactInv, ProcessInv
    <3>2. Deadline(tasks[u].purpose)' <=> Deadline(tasks[u].purpose)
      BY <1>3 DEF Deadline, clock
    <3>3. CASE tasks'[u] = tasks[u]
      BY <1>3, <3>1, <3>2, <3>3 DEF WatchdogIsLate
    <3>4. CASE Ended(u)
      BY <1>3, <3>1, <3>2, <3>4 DEF WatchdogIsLate, Ended
    <3>5. QED  BY <3>3, <3>4
  <2>5. QED  BY <2>1, <2>2, <2>3, <2>4 DEF ProcessInv
<1>5. RepliesFit' /\ RequestsStay
  BY <1>1, CompleteStays DEF ArtifactInv, RepliesFit, RequestsStay, SameRequests
<1>6. AssessmentsStay
  BY <1>1, <1>3 DEF AssessmentsStay, Uninvalidated
<1>7. \A u \in DOMAIN tasks : Alive(u)' => LeftAlone(u)
  <2>1. \A u \in DOMAIN tasks : tasks'[u] = tasks[u] => (u \in Active => u \in Active')
    BY DEF Active
  <2>2. QED  BY <1>3, <2>1 DEF LeftAlone
<1>8. SearchStays
  BY DEF SearchStays, Leaves
<1>9. QED  BY <1>2, <1>3, <1>4, <1>5, <1>6, <1>7, <1>8, StepKeeps

LEMMA ActiveEnd ==
  ASSUME TypeOK, NEW state \in {"CANCELLED", "INTERRUPTED"}, tasks' = EndActive(state),
         \A u \in Active : ~Alive(u)
  PROVE  /\ tasks' \in Seq(TaskRow) /\ DOMAIN tasks' = DOMAIN tasks
         /\ \A u \in DOMAIN tasks : tasks'[u] = tasks[u] \/ Ended(u)
<1>1. \A u \in DOMAIN tasks : tasks[u] \in TaskRow
  BY Rows
<1>2. /\ DOMAIN tasks' = DOMAIN tasks /\ tasks' = [u \in DOMAIN tasks' |-> tasks'[u]]
      /\ \A u \in DOMAIN tasks :
           tasks'[u] = IF u \in Active THEN [tasks[u] EXCEPT !.state = state] ELSE tasks[u]
  BY DEF EndActive
<1>3. ASSUME NEW u \in DOMAIN tasks
      PROVE  tasks'[u] \in TaskRow /\ (tasks'[u] = tasks[u] \/ Ended(u))
  <2>1. CASE u \in Active
    <3>1. /\ tasks'[u] \in TaskRow /\ tasks'[u].purpose = tasks[u].purpose
          /\ tasks'[u].pid = tasks[u].pid /\ tasks'[u].seen = tasks[u].seen
          /\ tasks'[u].launch = tasks[u].launch /\ tasks'[u].runner = tasks[u].runner
          /\ tasks'[u].c = tasks[u].c /\ tasks'[u].state = state
          /\ tasks'[u].watchdog = tasks[u].watchdog
      BY <1>1, <1>2, <2>1 DEF TaskRow
    <3>2. QED  BY <2>1, <3>1 DEF Ended
  <2>2. CASE u \notin Active
    BY <1>1, <1>2, <2>2
  <2>3. QED  BY <2>1, <2>2
<1>4. tasks' \in Seq(TaskRow)
  BY <1>2, <1>3, RowsReplaced, Rows
<1>5. QED  BY <1>2, <1>3, <1>4

LEMMA StopCloseKeeps ==
  ASSUME ArtifactInv, StopClose
  PROVE  ArtifactInv'
<1> DEFINE s == Reconcile
<1>1. /\ TypeOK /\ UNCHANGED <<clock, faults>> /\ stopper = "killed" /\ stopper' = "idle"
      /\ rounds \in [1..MaxRounds -> RoundRow]
  BY Rows DEF ArtifactInv, StopClose
<1>2. CASE UNCHANGED tables
  <2>1. TypeOK' /\ RepliesFit' /\ RequestsStay
    BY <1>1, <1>2 DEF ArtifactInv, TypeOK, TableTypeOK, clock, tables, RepliesFit, RequestsStay
  <2>2. Advances(assessments, assessments') /\ RunKeeps /\ BaselineStays
    BY <1>1, <1>2, SameAdvances, SameRunKeeps DEF tables
  <2>3. QED  BY <1>1, <1>2, <2>1, <2>2, QuietKeeps DEF clock, tables
<1>3. CASE /\ run.state = "STOPPING" /\ run' = [s.run EXCEPT !.state = "STOPPED"]
           /\ assessments' = SettleAll(s.assessments)
           /\ candidates' = SettleRequests(s.candidates)
           /\ rounds' = Interrupt(rounds, run.round) /\ tasks' = EndActive("CANCELLED")
  <2>1. Repaired(s.run, s.assessments, s.candidates)
    BY ReconcileIsRepaired
  <2> HIDE DEF s
  <2>2. Repaired(s.run, assessments', candidates')
    BY <1>1, <1>3, <2>1, EffectsRepaired, RequestsRepaired
  <2>3. \A u \in DOMAIN tasks : ~Alive(u)
    BY <1>1, <1>3 DEF ArtifactInv, ProcessInv, StopperIsAlone
  <2>4. /\ tasks' \in Seq(TaskRow) /\ DOMAIN tasks' = DOMAIN tasks
        /\ \A u \in DOMAIN tasks : tasks'[u] = tasks[u] \/ Ended(u)
    BY <1>1, <1>3, <2>3, ActiveEnd DEF Active
  <2>5. RunKeeps /\ BaselineStays
    BY <1>3, <2>2, RepairedEnds DEF Reasons, Causes
  <2>6. rounds' \in [1..MaxRounds -> RoundRow]
    BY <1>1, <1>3, InterruptedRounds
  <2>7. run'.state # "SEARCHING"
    <3>1. s.run \in RunRow
      BY <2>1 DEF Repaired
    <3>2. QED  BY <1>3, <3>1 DEF RunRow
  <2>8. QED  BY <1>1, <2>2, <2>3, <2>4, <2>5, <2>6, <2>7, CloseKeeps
<1>4. QED  BY <1>2, <1>3 DEF StopClose

LEMMA WatchdogClosesKeeps ==
  ASSUME ArtifactInv, NEW t \in DOMAIN tasks, WatchdogCloses(t)
  PROVE  ArtifactInv'
<1> DEFINE s  == Reconcile
           as1 == Incomplete(SettleAll(s.assessments))
           searching == tasks[t].purpose = "search" /\ run.state = "SEARCHING"
<1>1. /\ TypeOK /\ UNCHANGED <<clock, stopper, faults>> /\ tasks[t].watchdog = "killed"
      /\ rounds \in [1..MaxRounds -> RoundRow] /\ tasks[t] \in TaskRow /\ faults \in 0..MaxFaults
  BY Rows DEF ArtifactInv, WatchdogCloses, TypeOK
<1>2. /\ ~Alive(t) /\ \A u \in DOMAIN tasks : Alive(u) => ~Searches(u)
  BY <1>1 DEF ArtifactInv, ProcessInv, WatchdogIsLate
<1>3. CASE WatchdogTo(t, "gone") /\ UNCHANGED <<run, rounds, candidates, assessments>>
  <2> DEFINE row == [tasks[t] EXCEPT !.watchdog = "gone"]
  <2>1. /\ row \in TaskRow /\ row.purpose = tasks[t].purpose /\ row.state = tasks[t].state
        /\ row.pid = tasks[t].pid /\ row.at = tasks[t].at /\ row.c = tasks[t].c
        /\ row.a = tasks[t].a /\ row.verdict = tasks[t].verdict /\ row.why = tasks[t].why
        /\ row.runner = tasks[t].runner /\ row.launch = tasks[t].launch /\ row.watchdog = "gone"
    BY <1>1 DEF TaskRow
  <2>2. tasks' = [tasks EXCEPT ![t] = row]
    BY <1>3 DEF WatchdogTo
  <2> HIDE DEF row
  <2>3. Replaced(t) /\ tasks'[t] = row
    BY <1>1, <2>1, <2>2, ReplacedIs
  <2>4. QED  BY <1>1, <1>3, <2>1, <2>3, BesideKeeps
<1>4. CASE /\ run.state \notin {"STOPPED", "FAILED", "COMPLETED"}
           /\ assessments' = as1 /\ candidates' = SettleRequests(s.candidates)
           /\ tasks' = [tasks EXCEPT ![t].watchdog = "gone", ![t].state = "INTERRUPTED"]
           /\ rounds' = IF searching
                        THEN [Interrupt(rounds, tasks[t].round)
                                EXCEPT ![tasks[t].round].state = "EVALUATE_SKIPPED"]
                        ELSE rounds
           /\ run' = IF searching THEN Seal(s.run, as1, "SEARCH_DEADLINE")
                     ELSE [s.run EXCEPT !.state = "STOPPED", !.reason = "GLOBAL_DEADLINE"]
  <2>1. Repaired(s.run, s.assessments, s.candidates)
    BY ReconcileIsRepaired
  <2>2. Repaired(s.run, assessments', candidates')
    <3> HIDE DEF s
    <3>1. Repaired(s.run, SettleAll(s.assessments), s.candidates)
      BY <1>1, <2>1, EffectsRepaired
    <3>2. Repaired(s.run, as1, s.candidates)
      BY <1>1, <3>1, IncompleteRepaired
    <3>3. QED  BY <1>4, <3>2, RequestsRepaired
  <2>3. rounds' \in [1..MaxRounds -> RoundRow]
    BY <1>1, <1>4, InterruptedRounds
  <2> HIDE DEF s, as1, searching
  <2>4. /\ tasks' \in Seq(TaskRow) /\ DOMAIN tasks' = DOMAIN tasks
        /\ \A u \in DOMAIN tasks : tasks'[u] = tasks[u] \/ Ended(u)
    <3> DEFINE row == [tasks[t] EXCEPT !.watchdog = "gone", !.state = "INTERRUPTED"]
    <3>1. /\ row \in TaskRow /\ row.purpose = tasks[t].purpose /\ row.state = "INTERRUPTED"
          /\ row.pid = tasks[t].pid /\ row.seen = tasks[t].seen /\ row.c = tasks[t].c
          /\ row.runner = tasks[t].runner /\ row.launch = tasks[t].launch /\ row.watchdog = "gone"
      BY <1>1 DEF TaskRow
    <3>2. tasks' = [tasks EXCEPT ![t] = row]
      BY <1>4
    <3> HIDE DEF row
    <3>3. Replaced(t) /\ tasks'[t] = row
      BY <1>1, <3>1, <3>2, ReplacedIs
    <3>4. Ended(t)
      BY <1>2, <3>1, <3>3 DEF Ended
    <3>5. QED  BY <3>3, <3>4 DEF Replaced
  <2>5. (RunKeeps \/ RunSeals) /\ BaselineStays
    <3>1. CASE searching
      <4>1. ~run.sealed /\ "SEARCH_DEADLINE" \in Reasons
        BY <3>1 DEF searching, ArtifactInv, SealFits, Reasons, Causes
      <4>2. QED  BY <1>4, <2>2, <3>1, <4>1, RepairedSeals
    <3>2. CASE ~searching
      BY <1>4, <2>2, <3>2, RepairedEnds DEF Reasons, Causes
    <3>3. QED  BY <3>1, <3>2
  <2>6. run'.state # "SEARCHING"
    <3>1. CASE searching
      <4>1. ~run.sealed /\ "SEARCH_DEADLINE" \in Reasons
        BY <3>1 DEF searching, ArtifactInv, SealFits, Reasons, Causes
      <4>2. RunSeals
        BY <1>4, <2>2, <3>1, <4>1, RepairedSeals
      <4>3. QED  BY <4>2 DEF RunSeals
    <3>2. CASE ~searching
      <4>1. s.run \in RunRow
        BY <2>1 DEF Repaired
      <4>2. QED  BY <1>4, <3>2, <4>1 DEF RunRow
    <3>3. QED  BY <3>1, <3>2
  <2>7. QED  BY <1>1, <1>2, <2>2, <2>3, <2>4, <2>5, <2>6, CloseKeeps
<1>5. QED  BY <1>3, <1>4 DEF WatchdogCloses

LEMMA RecoverKeeps ==
  ASSUME ArtifactInv, Recover
  PROVE  ArtifactInv'
<1> DEFINE s   == Reconcile
           as1 == Incomplete(SettleAll(s.assessments))
           why == IF UnknownSearchEffect(s.assessments, s.candidates)
                  THEN "UNKNOWN_SEARCH_EFFECT" ELSE "WORKER_INTERRUPTED"
           sealing == run.state = "SEARCHING" /\ Active # {} /\ ~over
<1>1. /\ TypeOK /\ UNCHANGED <<clock, stopper, faults>> /\ tasks' = EndActive("INTERRUPTED")
      /\ rounds \in [1..MaxRounds -> RoundRow] /\ Recoverable
  BY Rows DEF ArtifactInv, Recover
<1>2. \A u \in DOMAIN tasks : ~Alive(u)
  BY <1>1, OneAlive DEF ArtifactInv, Recoverable, Alive
<1>3. /\ tasks' \in Seq(TaskRow) /\ DOMAIN tasks' = DOMAIN tasks
      /\ \A u \in DOMAIN tasks : tasks'[u] = tasks[u] \/ Ended(u)
  BY <1>1, <1>2, ActiveEnd DEF Active
<1>4. Repaired(s.run, s.assessments, s.candidates) /\ s.run \in RunRow
  BY ReconcileIsRepaired DEF Repaired
<1>5. CASE /\ run' = [s.run EXCEPT !.state = "FAILED", !.reason = "RECOVERY_EVIDENCE_FAILED"]
           /\ assessments' = s.assessments /\ candidates' = s.candidates /\ rounds' = rounds
  <2> HIDE DEF s
  <2>1. Repaired(s.run, assessments', candidates')
    BY <1>4, <1>5
  <2>2. RunKeeps /\ BaselineStays
    BY <1>5, <2>1, RepairedEnds DEF Reasons, Causes
  <2>3. run'.state # "SEARCHING"
    BY <1>4, <1>5 DEF RunRow
  <2>4. QED  BY <1>1, <1>2, <1>3, <1>5, <2>1, <2>2, <2>3, CloseKeeps
<1>6. CASE /\ assessments' = as1 /\ candidates' = SettleRequests(s.candidates)
           /\ rounds' = IF sealing THEN Interrupt(rounds, run.round) ELSE rounds
           /\ run' = CASE over -> [s.run EXCEPT !.state = "STOPPED",
                                                !.reason = "GLOBAL_DEADLINE"]
                       [] sealing -> Seal(s.run, as1, why)
                       [] ~over /\ run.state = "FINALIZING" /\ Active # {} ->
                            [s.run EXCEPT !.state = "SEARCH_SEALED",
                                          !.reason = "AUDIT_INTERRUPTED"]
                       [] OTHER -> s.run
  <2>1. Repaired(s.run, assessments', candidates')
    <3> HIDE DEF s
    <3>1. Repaired(s.run, SettleAll(s.assessments), s.candidates)
      BY <1>1, <1>4, EffectsRepaired
    <3>2. Repaired(s.run, as1, s.candidates)
      BY <1>1, <3>1, IncompleteRepaired
    <3>3. QED  BY <1>6, <3>2, RequestsRepaired
  <2>2. rounds' \in [1..MaxRounds -> RoundRow]
    BY <1>1, <1>6, InterruptedRounds
  <2>3. why \in Reasons
    BY DEF Reasons
  <2> HIDE DEF s, as1, why
  <2>4. (RunKeeps \/ RunSeals) /\ BaselineStays /\ (run'.state = "SEARCHING" => Active = {})
    <3>1. CASE over
      <4>1. run' = [s.run EXCEPT !.state = "STOPPED", !.reason = "GLOBAL_DEADLINE"]
        BY <1>6, <3>1
      <4>2. RunKeeps /\ BaselineStays
        BY <2>1, <4>1, RepairedEnds DEF Reasons, Causes
      <4>3. run'.state # "SEARCHING"
        BY <1>4, <4>1 DEF RunRow
      <4>4. QED  BY <4>2, <4>3
    <3>2. CASE sealing
      <4>1. run' = Seal(s.run, assessments', why) /\ ~run.sealed
        BY <1>6, <3>2 DEF ArtifactInv, SealFits
      <4>2. RunSeals /\ BaselineStays
        BY <2>1, <2>3, <4>1, RepairedSeals
      <4>3. QED  BY <4>2 DEF RunSeals
    <3>3. CASE ~over /\ run.state = "FINALIZING" /\ Active # {}
      <4>1. run' = [s.run EXCEPT !.state = "SEARCH_SEALED", !.reason = "AUDIT_INTERRUPTED"]
            /\ run.sealed
        BY <1>6, <3>3 DEF ArtifactInv, SealFits
      <4>2. RunKeeps /\ BaselineStays
        BY <2>1, <4>1, RepairedEnds DEF Reasons
      <4>3. run'.state # "SEARCHING"
        BY <1>4, <4>1 DEF RunRow
      <4>4. QED  BY <4>2, <4>3
    <3>4. CASE ~over /\ ~sealing /\ ~(run.state = "FINALIZING" /\ Active # {})
      <4>1. run' = s.run
        BY <1>6, <3>4
      <4>2. RunKeeps /\ BaselineStays
        BY <2>1, <4>1, RepairedEnds DEF Reasons, Causes
      <4>3. run'.state = run.state
        BY <1>4, <4>1 DEF Repaired, RunRecovers
      <4>4. QED  BY <3>4, <4>2, <4>3
    <3>5. QED  BY <3>1, <3>2, <3>3, <3>4
  <2>5. QED  BY <1>1, <1>2, <1>3, <2>1, <2>2, <2>4, CloseKeeps
<1>7. QED  BY <1>5, <1>6 DEF Recover

-----------------------------------------------------------------------------
(* The theorems                                                            *)

LEMMA InitIsArtifactInv ==
  ASSUME Init
  PROVE  ArtifactInv
<1>1. /\ tasks = <<>> /\ candidates = <<>> /\ assessments = <<>> /\ stopper = "idle" /\ faults = 0
      /\ late = FALSE /\ over = FALSE
  BY DEF Init, TableInit
<1>2. /\ MaxRounds \in Nat \ {0} /\ MaxFaults \in Nat
  BY BudgetAssumption, FaultAssumption
<1>3. run = [state |-> "SEARCHING", reason |-> "none", round |-> 1, incumbent |-> 0,
             baseline |-> 0, sealed |-> FALSE, queue |-> <<>>, final |-> 0, summary |-> <<>>]
  BY DEF Init, TableInit
<1>4. run \in RunRow
  BY <1>2, <1>3 DEF RunRow, RunStates, Reasons, Causes, Exits
<1>5. rounds \in [1..MaxRounds -> RoundRow]
  <2>1. rounds = [r \in 1..MaxRounds |->
                    [state |-> IF r = 1 THEN "WAITING_FOR_PLAN" ELSE "none", budget |-> 0,
                     facts |-> FALSE, insight |-> "none"]]
    BY DEF Init, TableInit
  <2>2. QED  BY <2>1 DEF RoundRow, RoundStates
<1>6. TypeOK
  <2>1. tasks \in Seq(TaskRow) /\ candidates \in Seq(CandidateRow)
        /\ assessments \in Seq(AssessmentRow)
    BY <1>1
  <2>2. {late, over} \subseteq BOOLEAN /\ (over => late)
    BY <1>1
  <2>3. TableTypeOK
    BY <1>4, <1>5, <2>1, <2>2 DEF TableTypeOK
  <2>4. stopper \in {"idle", "marked", "killed"} /\ faults \in 0..MaxFaults
    BY <1>1, <1>2
  <2>5. QED  BY <2>3, <2>4 DEF TypeOK
<1>7. ProcessInv /\ RunnersKnow /\ RepliesFit /\ AuditsFit /\ NoReplay
  BY <1>1 DEF ProcessInv, OneActive, Active, StopperIsAlone, RunnersKnow, RepliesFit, AuditsFit,
              Audits, NoReplay
<1>8. SealFits
  BY <1>3 DEF SealFits, IsQueue
<1>9. SearchIsSettled /\ BaselineIsFirst
  BY <1>1 DEF SearchIsSettled, BaselineIsFirst
<1>10. QED  BY <1>6, <1>7, <1>8, <1>9 DEF ArtifactInv

LEMMA RunnerKeeps ==
  ASSUME ArtifactInv, NEW t \in DOMAIN tasks, Runner(t), UNCHANGED <<stopper, faults>>
  PROVE  ArtifactInv'
<1>1. CASE Register(t) \/ Reserve(t) \/ Evaluate(t) \/ Collect(t) \/ Expire(t)
  BY <1>1, RegisterKeeps, ReserveKeeps, EvaluateKeeps, CollectKeeps, ExpireKeeps
<1>2. CASE Record(t) \/ Undo(t) \/ Shut(t) \/ Begin(t) \/ AcceptBaseline(t)
  BY <1>2, RecordKeeps, UndoKeeps, ShutKeeps, BeginKeeps, AcceptBaselineKeeps
<1>3. CASE Loop(t) \/ Generate(t) \/ StartRequest(t) \/ CallProvider(t) \/ Hear(t)
  BY <1>3, LoopKeeps, GenerateKeeps, StartRequestKeeps, CallProviderKeeps, HearKeeps
<1>4. CASE Reply(t) \/ Validate(t) \/ Compare(t) \/ FinishCandidate(t) \/ CloseRound(t)
  BY <1>4, ReplyKeeps, ValidateKeeps, CompareKeeps, FinishCandidateKeeps, CloseRoundKeeps
<1>5. CASE NextAudit(t) \/ Select(t) \/ Conclude(t) \/ Except(t) \/ End(t)
  BY <1>5, NextAuditKeeps, SelectKeeps, ConcludeKeeps, ExceptKeeps, EndKeeps
<1>6. QED  BY <1>1, <1>2, <1>3, <1>4, <1>5 DEF Runner

(* Every step keeps the invariant, where a watchdog can always be started. *)
LEMMA ArtifactStep ==
  ASSUME "watchdog" \notin Kinds, ArtifactInv, [Next]_vars
  PROVE  ArtifactInv'
<1>1. CASE UNCHANGED vars
  <2>1. UNCHANGED <<run, rounds, tasks, candidates, assessments, clock, stopper, faults>>
    BY <1>1 DEF vars, tables
  <2>2. rounds' \in [1..MaxRounds -> RoundRow]
    BY <2>1, Rows DEF ArtifactInv
  <2>3. RunKeeps /\ BaselineStays
    BY <2>1, SameAdvances, SameRunKeeps DEF ArtifactInv
  <2>4. QED  BY <2>1, <2>2, <2>3, RoundsKeep
<1>2. CASE Agent /\ Still
  <2>1. UNCHANGED <<stopper, faults>>
    BY <1>2 DEF Still
  <2>2. CASE SubmitPlan \/ SubmitEvaluation \/ MemoryWrite
    BY <2>1, <2>2, AgentRoundsKeep
  <2>3. CASE FinishRound
    BY <2>1, <2>3, FinishRoundKeeps
  <2>4. CASE Launch("search")
    BY <2>1, <2>4, LaunchKeeps
  <2>5. CASE Launch("audit")
    BY <2>1, <2>5, LaunchKeeps
  <2>6. QED  BY <1>2, <2>2, <2>3, <2>4, <2>5 DEF Agent
<1>3. CASE Processes
  <2>1. faults \in 0..MaxFaults
    BY DEF ArtifactInv, TypeOK
  <2>2. ASSUME NEW t \in DOMAIN tasks, Launcher(t), Still PROVE ArtifactInv'
    <3>1. faults' \in 0..MaxFaults /\ UNCHANGED stopper
      BY <2>1, <2>2 DEF Still
    <3>2. QED  BY <2>2, <3>1, LauncherKeeps
  <2>3. ASSUME NEW t \in DOMAIN tasks, Runner(t), Still PROVE ArtifactInv'
    BY <2>3, RunnerKeeps DEF Still
  <2>4. ASSUME NEW t \in DOMAIN tasks, Watchdog(t) PROVE ArtifactInv'
    BY <2>4, WatchKeeps, WatchdogKillsKeeps, WatchdogClosesKeeps DEF Watchdog
  <2>5. ASSUME NEW a \in DOMAIN assessments, Worker(a), Still PROVE ArtifactInv'
    BY <2>5, WorkerKeeps DEF Still
  <2>6. ASSUME NEW c \in DOMAIN candidates, Provider(c), Still PROVE ArtifactInv'
    BY <2>6, ProviderKeeps DEF Still
  <2>7. QED  BY <1>3, <2>2, <2>3, <2>4, <2>5, <2>6 DEF Processes
<1>4. CASE Stop \/ StopKill \/ StopClose \/ Recover
  BY <1>4, StopKeeps, StopKillKeeps, StopCloseKeeps, RecoverKeeps
<1>5. CASE Crash
  <2>1. ASSUME NEW t \in DOMAIN tasks, RunnerDies(t) \/ DiesBeforeCommit(t) PROVE ArtifactInv'
    BY <2>1, RunnerDiesKeeps, DiesBeforeCommitKeeps
  <2>2. ASSUME NEW t \in DOMAIN tasks, LauncherDies(t) PROVE ArtifactInv'
    <3>1. faults \in 0..MaxFaults /\ faults < MaxFaults /\ faults' = faults + 1
      BY <2>2 DEF ArtifactInv, TypeOK, LauncherDies, Fault
    <3>2. faults' \in 0..MaxFaults
      BY <3>1, FaultAssumption
    <3>3. QED  BY <2>2, <3>2, LauncherKeeps
  <2>3. ASSUME NEW t \in DOMAIN tasks, LaunchFails(t) PROVE ArtifactInv'
    BY <2>3, LaunchFailsKeeps
  <2>4. ASSUME NEW a \in DOMAIN assessments, WorkerDies(a) PROVE ArtifactInv'
    BY <2>4, WorkerDiesKeeps
  <2>5. CASE Restart
    BY <2>5, RestartKeeps
  <2>6. QED  BY <1>5, <2>1, <2>2, <2>3, <2>4, <2>5 DEF Crash
<1>6. CASE SearchTimeEnds \/ TimeEnds
  BY <1>6, TimeKeeps
<1>7. QED  BY <1>1, <1>2, <1>3, <1>4, <1>5, <1>6 DEF Next

(* The inductive invariant holds of every state that is reached, where a   *)
(* watchdog can always be started: without one launch fails the run and    *)
(* leaves a live runner behind, that a stop no longer finds in the table.  *)
THEOREM ArtifactInvariant ==
  ASSUME "watchdog" \notin Kinds
  PROVE  Spec => []ArtifactInv
<1>1. Init => ArtifactInv
  BY InitIsArtifactInv
<1>2. ArtifactInv /\ [Next]_vars => ArtifactInv'
  BY ArtifactStep
<1>3. QED  BY <1>1, <1>2, PTL DEF Spec

(* Every table, process and deadline keeps its type.                       *)
THEOREM ArtifactTypes ==
  ASSUME "watchdog" \notin Kinds
  PROVE  Spec => []TypeOK
<1>1. ArtifactInv => TypeOK
  BY DEF ArtifactInv
<1>2. QED  BY <1>1, ArtifactInvariant, PTL

(* There is never more than one runner at work, however many tasks are     *)
(* launched, stopped, recovered and restarted.                             *)
THEOREM OneRunnerAlways ==
  ASSUME "watchdog" \notin Kinds
  PROVE  Spec => []OneRunner
<1>1. ArtifactInv => OneRunner
  <2> SUFFICES ASSUME ArtifactInv PROVE OneRunner
    OBVIOUS
  <2> DEFINE T == {t \in DOMAIN tasks : tasks[t].runner = "alive"}
  <2>1. \A t, u \in T : t = u
    BY OneAlive DEF ArtifactInv, Alive
  <2>2. CASE T = {}
    <3>1. Cardinality(T) = 0
      BY <2>2, FS_EmptySet
    <3> HIDE DEF T
    <3>2. Cardinality(T) <= 1
      BY <3>1
    <3>3. QED  BY <3>2 DEF OneRunner, T
  <2>3. CASE T # {}
    <3>1. PICK t \in T : TRUE
      BY <2>3
    <3>2. T = {t}
      BY <2>1, <3>1
    <3>3. Cardinality(T) = 1
      BY <3>2, FS_Singleton
    <3> HIDE DEF T
    <3>4. Cardinality(T) <= 1
      BY <3>3
    <3>5. QED  BY <3>4 DEF OneRunner, T
  <2>4. QED  BY <2>2, <2>3
<1>2. QED  BY <1>1, ArtifactInvariant, PTL

(* No effect is ever paid for twice: an artifact is only assessed again in *)
(* the same mode where the earlier assessment found the design invalid.    *)
THEOREM NothingIsReplayed ==
  ASSUME "watchdog" \notin Kinds
  PROVE  Spec => []NoReplay
<1>1. ArtifactInv => NoReplay
  BY DEF ArtifactInv
<1>2. QED  BY <1>1, ArtifactInvariant, PTL

-----------------------------------------------------------------------------
(* What starts                                                             *)

(* What has started had started before.                                    *)
RequestsKept(old, new) ==
  \A c \in DOMAIN new :
    new[c].effect = "STARTED" => c \in DOMAIN old /\ old[c].effect = "STARTED"
ProfilesKept(old, new) ==
  \A a \in DOMAIN new :
    "STARTED" \in Range(new[a].effects) =>
      a \in DOMAIN old /\ new[a].mode = old[a].mode /\ "STARTED" \in Range(old[a].effects)
StartsKept ==
  RequestsKept(candidates, candidates') /\ ProfilesKept(assessments, assessments')

StartsRightly ==
  \A e \in Started' \ Started : run.state \notin Closed /\ (run.sealed => e[1] = "audit")

LEMMA KeptStartsRightly ==
  ASSUME StartsKept
  PROVE  StartsRightly
<1> SUFFICES ASSUME NEW e \in Started' PROVE e \in Started
  BY DEF StartsRightly
<1>1. CASE \E c \in DOMAIN candidates' : e = <<"request", c>> /\ candidates'[c].effect = "STARTED"
  BY <1>1 DEF StartsKept, RequestsKept, Started
<1>2. CASE \E a \in DOMAIN assessments' :
             e = <<assessments'[a].mode, a>> /\ "STARTED" \in Range(assessments'[a].effects)
  BY <1>2 DEF StartsKept, ProfilesKept, Started
<1>3. QED  BY <1>1, <1>2 DEF Started

LEMMA SameStarts ==
  ASSUME NEW old
  PROVE  RequestsKept(old, old) /\ ProfilesKept(old, old)
  BY DEF RequestsKept, ProfilesKept

LEMMA KeptInTurn ==
  ASSUME NEW old, NEW half, NEW new
  PROVE  /\ RequestsKept(old, half) /\ RequestsKept(half, new) => RequestsKept(old, new)
         /\ ProfilesKept(old, half) /\ ProfilesKept(half, new) => ProfilesKept(old, new)
  BY DEF RequestsKept, ProfilesKept

(* A row is replaced in which nothing starts, or a row is added.           *)
LEMMA ProfileRow ==
  ASSUME NEW old, NEW a, NEW row,
         a \in DOMAIN old /\ "STARTED" \in Range(row.effects) =>
           row.mode = old[a].mode /\ "STARTED" \in Range(old[a].effects)
  PROVE  ProfilesKept(old, [old EXCEPT ![a] = row])
  BY DEF ProfilesKept

LEMMA RequestRow ==
  ASSUME NEW old, NEW c, NEW row,
         c \in DOMAIN old /\ row.effect = "STARTED" => old[c].effect = "STARTED"
  PROVE  RequestsKept(old, [old EXCEPT ![c] = row])
  BY DEF RequestsKept

(* Other fields of a table change.                                         *)
SameProfiles ==
  /\ DOMAIN assessments' = DOMAIN assessments
  /\ \A a \in DOMAIN assessments : /\ assessments'[a].mode = assessments[a].mode
                                   /\ assessments'[a].effects = assessments[a].effects
SameRequestEffects ==
  /\ DOMAIN candidates' = DOMAIN candidates
  /\ \A c \in DOMAIN candidates : candidates'[c].effect = candidates[c].effect

LEMMA BesideStarts ==
  /\ UNCHANGED assessments => SameProfiles
  /\ UNCHANGED candidates => SameRequestEffects
  /\ SameProfiles => ProfilesKept(assessments, assessments')
  /\ SameRequestEffects => RequestsKept(candidates, candidates')
  /\ SameProfiles /\ SameRequestEffects => StartsKept
  BY DEF SameProfiles, SameRequestEffects, ProfilesKept, RequestsKept, StartsKept

(* What is settled has not started: it has ended or is unknown.            *)
LEMMA SettledHasEnded ==
  ASSUME NEW effects \in Seq(EffectStates)
  PROVE  "STARTED" \notin Range(Settle(effects))
<1>1. \A i \in DOMAIN effects : effects[i] \in EffectStates
  OBVIOUS
<1>2. \A e \in EffectStates : Reconciled[e] # "STARTED"
  BY DEF Reconciled, EffectStates
<1>3. QED  BY <1>1, <1>2 DEF Settle, Range

LEMMA AllSettledKeep ==
  ASSUME NEW old, NEW tab \in Seq(AssessmentRow), NEW rows \in Seq(CandidateRow)
  PROVE  /\ ProfilesKept(old, SettleAll(tab)) /\ ProfilesKept(old, Incomplete(SettleAll(tab)))
         /\ RequestsKept(old, SettleRequests(rows))
<1>1. ASSUME NEW a \in DOMAIN tab
      PROVE  /\ "STARTED" \notin Range(SettleAll(tab)[a].effects)
             /\ Incomplete(SettleAll(tab))[a].effects = SettleAll(tab)[a].effects
  <2> DEFINE settled == Settle(tab[a].effects)
             row     == [tab[a] EXCEPT !.effects = settled]
             state   == IF row.state = "RESERVED" THEN "INCOMPLETE" ELSE row.state
             last    == [row EXCEPT !.state = state]
  <2>1. tab[a] \in AssessmentRow
    OBVIOUS
  <2>2. tab[a].effects \in Seq(EffectStates)
    BY <2>1 DEF AssessmentRow
  <2>3. "STARTED" \notin Range(settled) /\ settled \in Seq(EffectStates)
    BY <2>2, SettledHasEnded, SettledEffects
  <2>4. SettleAll(tab)[a] = row /\ DOMAIN SettleAll(tab) = DOMAIN tab
    BY DEF SettleAll
  <2>5. Incomplete(SettleAll(tab))[a] = last
    BY <2>4 DEF Incomplete
  <2> HIDE DEF settled, state
  <2>6. row.effects = settled /\ row \in AssessmentRow
    BY <2>1, <2>3 DEF AssessmentRow
  <2> HIDE DEF row
  <2>7. last.effects = row.effects
    BY <2>6 DEF AssessmentRow
  <2>8. QED  BY <2>3, <2>4, <2>5, <2>6, <2>7
<1>2. DOMAIN SettleAll(tab) = DOMAIN tab /\ DOMAIN Incomplete(SettleAll(tab)) = DOMAIN tab
  BY DEF SettleAll, Incomplete
<1>3. ASSUME NEW c \in DOMAIN rows PROVE SettleRequests(rows)[c].effect # "STARTED"
  <2> DEFINE effect == Reconciled[rows[c].effect]
  <2>1. rows[c] \in CandidateRow
    OBVIOUS
  <2>2. rows[c].effect \in EffectStates
    BY <2>1 DEF CandidateRow
  <2>3. effect # "STARTED"
    BY <2>2 DEF Reconciled, EffectStates
  <2>4. SettleRequests(rows)[c] = [rows[c] EXCEPT !.effect = effect]
    BY DEF SettleRequests
  <2> HIDE DEF effect
  <2>5. QED  BY <2>1, <2>3, <2>4 DEF CandidateRow
<1>4. DOMAIN SettleRequests(rows) = DOMAIN rows
  BY DEF SettleRequests
<1>5. ProfilesKept(old, SettleAll(tab)) /\ ProfilesKept(old, Incomplete(SettleAll(tab)))
  BY <1>1, <1>2 DEF ProfilesKept
<1>6. RequestsKept(old, SettleRequests(rows))
  BY <1>3, <1>4 DEF RequestsKept
<1>7. QED  BY <1>5, <1>6

-----------------------------------------------------------------------------
(* The runner and its children                                             *)

(* A new assessment and a new candidate only reserve their effects.        *)
LEMMA NewStartsNothing ==
  ASSUME TypeOK
  PROVE  /\ \A t : ProfilesKept(assessments, Append(assessments, NewAssessment(t)))
         /\ \A r : RequestsKept(candidates, Append(candidates, NewCandidate(r)))
<1>1. /\ assessments \in Seq(AssessmentRow) /\ candidates \in Seq(CandidateRow)
      /\ Len(assessments) \in Nat /\ DOMAIN assessments = 1..Len(assessments)
      /\ Len(candidates) \in Nat /\ DOMAIN candidates = 1..Len(candidates)
  BY Rows
<1>2. ASSUME NEW t PROVE ProfilesKept(assessments, Append(assessments, NewAssessment(t)))
  <2> DEFINE row == NewAssessment(t)
             new == Append(assessments, row)
  <2>1. "STARTED" \notin Range(row.effects)
    BY DEF NewAssessment, Range
  <2> HIDE DEF row
  <2>2. /\ \A a \in DOMAIN new : a \in DOMAIN assessments \/ a = Len(assessments) + 1
        /\ \A a \in DOMAIN assessments : new[a] = assessments[a]
        /\ new[Len(assessments) + 1] = row
    BY <1>1
  <2> HIDE DEF new
  <2>3. ProfilesKept(assessments, new)
    BY <2>1, <2>2 DEF ProfilesKept
  <2>4. QED  BY <2>3 DEF new, row
<1>3. ASSUME NEW r PROVE RequestsKept(candidates, Append(candidates, NewCandidate(r)))
  <2> DEFINE row == NewCandidate(r)
             new == Append(candidates, row)
  <2>1. row.effect # "STARTED"
    BY DEF NewCandidate
  <2> HIDE DEF row
  <2>2. /\ \A c \in DOMAIN new : c \in DOMAIN candidates \/ c = Len(candidates) + 1
        /\ \A c \in DOMAIN candidates : new[c] = candidates[c]
        /\ new[Len(candidates) + 1] = row
    BY <1>1
  <2> HIDE DEF new
  <2>3. RequestsKept(candidates, new)
    BY <2>1, <2>2 DEF RequestsKept
  <2>4. QED  BY <2>3 DEF new, row
<1>4. QED  BY <1>2, <1>3

(* Of the steps of a runner only the start of a request starts anything.   *)
LEMMA RunnerStarts ==
  ASSUME ArtifactInv, NEW t \in DOMAIN tasks, Runner(t), ~StartRequest(t)
  PROVE  StartsKept
<1>1. /\ \A a \in DOMAIN assessments : assessments[a] \in AssessmentRow
      /\ \A c \in DOMAIN candidates : candidates[c] \in CandidateRow
      /\ TypeOK
  BY Rows DEF ArtifactInv
<1>2. CASE UNCHANGED <<candidates, assessments>>
  BY <1>2, BesideStarts
<1>3. CASE Register(t) \/ Collect(t) \/ Begin(t) \/ AcceptBaseline(t) \/ Loop(t)
  BY <1>2, <1>3 DEF Register, Collect, Begin, AcceptBaseline, Loop
<1>4. CASE Compare(t) \/ CloseRound(t) \/ NextAudit(t) \/ Select(t) \/ Conclude(t)
  BY <1>2, <1>4 DEF Compare, CloseRound, NextAudit, Select, Conclude
<1>5. CASE Except(t) \/ End(t)
  BY <1>2, <1>5 DEF Except, End
<1>6. CASE Reserve(t)
  <2>1. CASE UNCHANGED assessments
    BY <1>2, <1>6, <2>1 DEF Reserve
  <2>2. CASE assessments' = Append(assessments, NewAssessment(t))
    <3>1. ProfilesKept(assessments, assessments') /\ UNCHANGED candidates
      BY <1>1, <1>6, <2>2, NewStartsNothing DEF Reserve
    <3>2. QED  BY <3>1, BesideStarts DEF StartsKept
  <2>3. QED  BY <1>6, <2>1, <2>2 DEF Reserve
<1>7. CASE Evaluate(t)
  <2>1. CASE UNCHANGED assessments
    BY <1>2, <1>7, <2>1 DEF Evaluate
  <2>2. CASE assessments' = [assessments EXCEPT ![tasks[t].a].worker = "spawned"]
    <3>1. SameProfiles
      BY <1>1, <2>2 DEF SameProfiles, AssessmentRow
    <3>2. QED  BY <1>7, <3>1, BesideStarts DEF Evaluate
  <2>3. QED  BY <1>7, <2>1, <2>2 DEF Evaluate
<1>8. CASE Expire(t)
  <2>1. assessments' = [assessments EXCEPT ![tasks[t].a].worker = "gone"]
    BY <1>8 DEF Expire
  <2>2. SameProfiles
    BY <1>1, <2>1 DEF SameProfiles, AssessmentRow
  <2>3. QED  BY <1>8, <2>2, BesideStarts DEF Expire
<1>9. CASE Record(t)
  <2>1. assessments' = [assessments EXCEPT ![tasks[t].a].state = "COMPLETE",
                                           ![tasks[t].a].order = NextOrder(assessments)]
    BY <1>9 DEF Record
  <2>2. SameProfiles
    BY <1>1, <2>1 DEF SameProfiles, AssessmentRow
  <2>3. QED  BY <1>9, <2>2, BesideStarts DEF Record
<1>10. CASE Shut(t)
  <2> DEFINE state == IF tasks[t].verdict = "invalid" THEN "INVALID" ELSE "INCOMPLETE"
  <2>1. UNCHANGED candidates /\ assessments' = [assessments EXCEPT ![tasks[t].a].state = state]
    BY <1>10 DEF Shut
  <2> HIDE DEF state
  <2>2. SameProfiles
    BY <1>1, <2>1 DEF SameProfiles, AssessmentRow
  <2>3. QED  BY <2>1, <2>2, BesideStarts
<1>11. CASE Undo(t)
  <2> DEFINE a       == tasks[t].a
             settled == Settle(assessments[a].effects)
             row     == [assessments[a] EXCEPT !.effects = settled]
  <2>1. UNCHANGED candidates /\ assessments' = [assessments EXCEPT ![a] = row]
    BY <1>11 DEF Undo
  <2>2. a \in DOMAIN assessments => "STARTED" \notin Range(row.effects)
    <3> HIDE DEF a
    <3>1. SUFFICES ASSUME a \in DOMAIN assessments PROVE "STARTED" \notin Range(row.effects)
      OBVIOUS
    <3>2. assessments[a] \in AssessmentRow
      BY <1>1, <3>1
    <3>3. assessments[a].effects \in Seq(EffectStates)
      BY <3>2 DEF AssessmentRow
    <3>4. "STARTED" \notin Range(settled)
      BY <3>3, SettledHasEnded
    <3> HIDE DEF settled
    <3>5. row.effects = settled
      BY <3>2 DEF AssessmentRow
    <3>6. QED  BY <3>4, <3>5
  <2> HIDE DEF row, a
  <2>3. ProfilesKept(assessments, assessments')
    BY <2>1, <2>2, ProfileRow
  <2>4. QED  BY <2>1, <2>3, BesideStarts DEF StartsKept
<1>12. CASE Generate(t)
  <2>1. CASE UNCHANGED candidates
    BY <1>2, <1>12, <2>1 DEF Generate
  <2>2. CASE candidates' = Append(candidates, NewCandidate(tasks[t].round))
    <3>1. RequestsKept(candidates, candidates') /\ UNCHANGED assessments
      BY <1>1, <1>12, <2>2, NewStartsNothing DEF Generate
    <3>2. QED  BY <3>1, BesideStarts DEF StartsKept
  <2>3. QED  BY <1>12, <2>1, <2>2 DEF Generate
<1>13. CASE CallProvider(t)
  <2>1. CASE UNCHANGED candidates
    BY <1>2, <1>13, <2>1 DEF CallProvider
  <2>2. CASE candidates' = [candidates EXCEPT ![tasks[t].c].provider = "spawned"]
    <3>1. SameRequestEffects
      BY <1>1, <2>2 DEF SameRequestEffects, CandidateRow
    <3>2. QED  BY <1>13, <3>1, BesideStarts DEF CallProvider
  <2>3. QED  BY <1>13, <2>1, <2>2 DEF CallProvider
<1>14. CASE Hear(t)
  <2>1. CASE UNCHANGED candidates
    BY <1>2, <1>14, <2>1 DEF Hear
  <2>2. CASE candidates' = [candidates EXCEPT ![tasks[t].c].provider = "gone"]
    <3>1. SameRequestEffects
      BY <1>1, <2>2 DEF SameRequestEffects, CandidateRow
    <3>2. QED  BY <1>14, <3>1, BesideStarts DEF Hear
  <2>3. QED  BY <1>14, <2>1, <2>2 DEF Hear
<1>15. CASE FinishCandidate(t)
  <2>1. candidates' = [candidates EXCEPT ![tasks[t].c].state = tasks[t].verdict]
    BY <1>15 DEF FinishCandidate
  <2>2. SameRequestEffects
    BY <1>1, <2>1 DEF SameRequestEffects, CandidateRow
  <2>3. QED  BY <1>15, <2>2, BesideStarts DEF FinishCandidate
<1>16. CASE Validate(t)
  <2>1. CASE UNCHANGED candidates
    BY <1>2, <1>16, <2>1 DEF Validate
  <2>2. CASE \E first : candidates' = [candidates EXCEPT ![tasks[t].c].reuse = first]
    <3>1. PICK first : candidates' = [candidates EXCEPT ![tasks[t].c].reuse = first]
      BY <2>2
    <3>2. SameRequestEffects
      BY <1>1, <3>1 DEF SameRequestEffects, CandidateRow
    <3>3. QED  BY <1>16, <3>2, BesideStarts DEF Validate
  <2>3. QED  BY <1>16, <2>1, <2>2 DEF Validate
<1>17. CASE Reply(t)
  <2> DEFINE c   == tasks[t].c
             new == Terminal[tasks[t].verdict]
             row == [candidates[c] EXCEPT !.effect = new]
  <2>1. CASE UNCHANGED candidates
    BY <1>2, <1>17, <2>1 DEF Reply
  <2>2. CASE candidates' = [candidates EXCEPT ![c] = row] /\ At(t, "reply")
    <3>1. tasks[t].verdict \in DOMAIN Terminal
      BY <2>2, Known DEF At, Alive, RequestFits
    <3>2. new # "STARTED"
      BY <3>1 DEF Terminal
    <3> HIDE DEF new, c
    <3>3. c \in DOMAIN candidates => row.effect = new
      BY <1>1 DEF CandidateRow
    <3> HIDE DEF row
    <3>4. RequestsKept(candidates, candidates')
      BY <2>2, <3>2, <3>3, RequestRow
    <3>5. UNCHANGED assessments
      BY <1>17 DEF Reply
    <3>6. QED  BY <3>4, <3>5, BesideStarts DEF StartsKept
  <2>3. QED  BY <1>17, <2>1, <2>2 DEF Reply
<1>18. QED
  BY <1>3, <1>4, <1>5, <1>6, <1>7, <1>8, <1>9, <1>10, <1>11, <1>12, <1>13, <1>14, <1>15, <1>16,
     <1>17 DEF Runner

(* A request is only started in a search that is neither closed nor sealed.*)
LEMMA RequestStarts ==
  ASSUME ArtifactInv, NEW t \in DOMAIN tasks, StartRequest(t)
  PROVE  StartsRightly
<1> DEFINE c   == tasks[t].c
           row == [candidates[c] EXCEPT !.effect = "STARTED"]
<1>1. CASE UNCHANGED candidates
  <2>1. UNCHANGED <<candidates, assessments>>
    BY <1>1 DEF StartRequest
  <2>2. QED  BY <2>1, SameStarts, KeptStartsRightly DEF StartsKept
<1>2. CASE Allowed("search")
  <2>1. run.state = "SEARCHING"
    BY <1>2 DEF Allowed
  <2>2. run.state \notin Closed /\ ~run.sealed
    BY <2>1 DEF ArtifactInv, SealFits, Closed
  <2>3. QED  BY <2>2 DEF StartsRightly
<1>3. QED  BY <1>1, <1>2 DEF StartRequest

(* A worker only starts a profile where its ledger still allows it.        *)
LEMMA WorkerStarts ==
  ASSUME ArtifactInv, NEW a \in DOMAIN assessments, Worker(a)
  PROVE  StartsRightly
<1>1. /\ \A b \in DOMAIN assessments : assessments[b] \in AssessmentRow
      /\ UNCHANGED <<run, candidates>>
  BY Rows DEF ArtifactInv, Worker
<1>2. RequestsKept(candidates, candidates')
  BY <1>1, BesideStarts
<1>3. ASSUME ProfilesKept(assessments, assessments') PROVE StartsRightly
  BY <1>2, <1>3, KeptStartsRightly DEF StartsKept
<1>4. ASSUME NEW how, WorkerExits(a, how) PROVE StartsRightly
  <2>1. assessments' = [assessments EXCEPT ![a].worker = "gone", ![a].exit = how]
    BY <1>4 DEF WorkerExits
  <2>2. SameProfiles
    BY <1>1, <2>1 DEF SameProfiles, AssessmentRow
  <2>3. QED  BY <1>3, <2>2, BesideStarts
<1>5. CASE WorkerOwns(a)
  <2>1. assessments' = [assessments EXCEPT ![a].worker = "owned"]
    BY <1>5 DEF WorkerOwns, WorkerTo
  <2>2. SameProfiles
    BY <1>1, <2>1 DEF SameProfiles, AssessmentRow
  <2>3. QED  BY <1>3, <2>2, BesideStarts
<1>6. CASE WriteTerminal(a)
  <2>1. assessments' = [assessments EXCEPT ![a].worker = "written", ![a].terminal = TRUE]
    BY <1>6 DEF WriteTerminal
  <2>2. SameProfiles
    BY <1>1, <2>1 DEF SameProfiles, AssessmentRow
  <2>3. QED  BY <1>3, <2>2, BesideStarts
<1>7. CASE WorkerEnds(a)
  BY <1>4, <1>7 DEF WorkerEnds
<1>8. CASE StartProfile(a)
  <2> DEFINE purpose == IF assessments[a].mode = "audit" THEN "audit" ELSE "search"
             i   == NextProfile(a)
             row == [assessments[a] EXCEPT !.worker = "computing", !.effects[i] = "STARTED"]
  <2>1. CASE ~Allowed(purpose) \/ ~Startable(assessments[a].effects[i])
    <3>1. \E how : WorkerExits(a, how)
      BY <1>8, <2>1 DEF StartProfile
    <3>2. QED  BY <1>4, <3>1
  <2>2. CASE Allowed(purpose) /\ Startable(assessments[a].effects[i])
    <3>1. assessments' = [assessments EXCEPT ![a] = row]
      BY <1>8, <2>2 DEF StartProfile
    <3>2. row.mode = assessments[a].mode
      BY <1>1 DEF AssessmentRow
    <3>3. run.state \notin Closed /\ (run.sealed => assessments[a].mode = "audit")
      BY <2>2 DEF Allowed, ArtifactInv, SealFits
    <3> HIDE DEF row, purpose, i
    <3>4. assessments'[a].mode = assessments[a].mode /\ DOMAIN assessments' = DOMAIN assessments
          /\ \A b \in DOMAIN assessments : b # a => assessments'[b] = assessments[b]
      BY <1>1, <3>1, <3>2
    <3>5. ASSUME NEW e \in Started', e \notin Started PROVE e = <<assessments[a].mode, a>>
      <4>1. CASE \E c \in DOMAIN candidates' :
                   e = <<"request", c>> /\ candidates'[c].effect = "STARTED"
        BY <1>1, <3>5, <4>1 DEF Started
      <4>2. CASE \E b \in DOMAIN assessments' :
                   e = <<assessments'[b].mode, b>> /\ "STARTED" \in Range(assessments'[b].effects)
        BY <3>4, <3>5, <4>2 DEF Started
      <4>3. QED  BY <3>5, <4>1, <4>2 DEF Started
    <3>6. QED  BY <3>3, <3>5 DEF StartsRightly
  <2>3. QED  BY <2>1, <2>2
<1>9. CASE FinishProfile(a)
  <2> DEFINE i    == NextProfile(a)
             done == [assessments[a].effects EXCEPT ![i] = "COMPLETE"]
  <2>1. CASE \E how : WorkerExits(a, how)
    BY <1>4, <2>1
  <2>2. "STARTED" \in Range(done) => "STARTED" \in Range(assessments[a].effects)
    BY DEF Range
  <2>3. CASE assessments' = [assessments EXCEPT ![a].worker = "owned", ![a].effects[i] = "COMPLETE"]
    <3> DEFINE row == [assessments[a] EXCEPT !.worker = "owned", !.effects = done]
    <3>1. assessments' = [assessments EXCEPT ![a] = row]
      BY <1>1, <2>3 DEF AssessmentRow
    <3> HIDE DEF done
    <3>2. row.mode = assessments[a].mode /\ row.effects = done
      BY <1>1 DEF AssessmentRow
    <3> HIDE DEF row
    <3>3. QED  BY <1>3, <2>2, <3>1, <3>2, ProfileRow
  <2>4. CASE assessments' = [assessments EXCEPT ![a].worker = "gone", ![a].exit = "invalid",
                                                ![a].effects[i] = "COMPLETE"]
    <3> DEFINE row == [assessments[a] EXCEPT !.worker = "gone", !.exit = "invalid",
                                             !.effects = done]
    <3>1. assessments' = [assessments EXCEPT ![a] = row]
      BY <1>1, <2>4 DEF AssessmentRow
    <3> HIDE DEF done
    <3>2. row.mode = assessments[a].mode /\ row.effects = done
      BY <1>1 DEF AssessmentRow
    <3> HIDE DEF row
    <3>3. QED  BY <1>3, <2>2, <3>1, <3>2, ProfileRow
  <2>5. QED  BY <1>9, <2>1, <2>3, <2>4 DEF FinishProfile
<1>10. QED  BY <1>5, <1>6, <1>7, <1>8, <1>9 DEF Worker

LEMMA ProviderStarts ==
  ASSUME ArtifactInv, NEW c \in DOMAIN candidates, Provider(c)
  PROVE  StartsKept
<1>1. /\ \A d \in DOMAIN candidates : candidates[d] \in CandidateRow
      /\ UNCHANGED assessments
  BY Rows DEF ArtifactInv, Provider
<1>2. CASE candidates' = [candidates EXCEPT ![c].provider = "owned", ![c].owner = TRUE]
  <2>1. SameRequestEffects
    BY <1>1, <1>2 DEF SameRequestEffects, CandidateRow
  <2>2. QED  BY <1>1, <2>1, BesideStarts
<1>3. CASE candidates' = [candidates EXCEPT ![c].provider = "sent"]
  <2>1. SameRequestEffects
    BY <1>1, <1>3 DEF SameRequestEffects, CandidateRow
  <2>2. QED  BY <1>1, <2>1, BesideStarts
<1>4. CASE \E reply \in Replies, artifact \in Artifacts \cup {-1} :
             candidates' = [candidates EXCEPT ![c].provider = "gone", ![c].reply = reply,
                                              ![c].artifact = artifact]
  <2>1. PICK reply \in Replies, artifact \in Artifacts \cup {-1} :
          candidates' = [candidates EXCEPT ![c].provider = "gone", ![c].reply = reply,
                                           ![c].artifact = artifact]
    BY <1>4
  <2>2. SameRequestEffects
    BY <1>1, <2>1 DEF SameRequestEffects, CandidateRow
  <2>3. QED  BY <1>1, <2>2, BesideStarts
<1>5. QED  BY <1>2, <1>3, <1>4 DEF Provider, Replies

-----------------------------------------------------------------------------
(* Kills, deaths, and what closes the tables                               *)

LEMMA KillsStart ==
  ASSUME ArtifactInv, NEW S, assessments' = KillWorkers(S), candidates' = KillProviders(S)
  PROVE  StartsKept
<1>1. /\ \A a \in DOMAIN assessments : assessments[a] \in AssessmentRow
      /\ \A c \in DOMAIN candidates : candidates[c] \in CandidateRow
  BY Rows DEF ArtifactInv
<1>2. SameProfiles
  BY <1>1 DEF SameProfiles, KillWorkers, AssessmentRow
<1>3. SameRequestEffects
  BY <1>1 DEF SameRequestEffects, KillProviders, CandidateRow
<1>4. QED  BY <1>2, <1>3, BesideStarts

LEMMA CrashStarts ==
  ASSUME ArtifactInv, Crash
  PROVE  StartsKept
<1>1. /\ \A a \in DOMAIN assessments : assessments[a] \in AssessmentRow
      /\ \A c \in DOMAIN candidates : candidates[c] \in CandidateRow
  BY Rows DEF ArtifactInv
<1>2. ASSUME NEW t, \/ RunnerDies(t) \/ DiesBeforeCommit(t) \/ LauncherDies(t) \/ LaunchFails(t)
      PROVE  StartsKept
  BY <1>2, BesideStarts DEF RunnerDies, DiesBeforeCommit, LauncherDies, LaunchFails, SpawnFails
<1>3. ASSUME NEW a, WorkerDies(a) PROVE StartsKept
  <2>1. assessments' = [assessments EXCEPT ![a].worker = "gone", ![a].exit = "failed"]
    BY <1>3 DEF WorkerDies, WorkerExits
  <2>2. SameProfiles
    BY <1>1, <2>1 DEF SameProfiles, AssessmentRow
  <2>3. QED  BY <1>3, <2>2, BesideStarts DEF WorkerDies
<1>4. CASE Restart
  <2>1. SameProfiles
    BY <1>1, <1>4 DEF SameProfiles, Restart, AssessmentRow
  <2>2. SameRequestEffects
    BY <1>1, <1>4 DEF SameRequestEffects, Restart, CandidateRow
  <2>3. QED  BY <2>1, <2>2, BesideStarts
<1>5. QED  BY <1>2, <1>3, <1>4 DEF Crash

(* The repair starts nothing.                                              *)
StartsNothing ==
  {s \in Repairs : RequestsKept(candidates, s.candidates)
                   /\ ProfilesKept(assessments, s.assessments)}

LEMMA PromoteStarts ==
  ASSUME NEW s \in StartsNothing, NEW a \in DOMAIN assessments, s.assessments[a].state # "INVALID"
  PROVE  Promote(s, a) \in StartsNothing
<1> DEFINE old == s.assessments
           row == [old[a] EXCEPT !.state = "COMPLETE", !.order = NextOrder(old)]
           p   == [s EXCEPT !.assessments = [old EXCEPT ![a] = row]]
<1>1. /\ s \in [run : RunRow, assessments : Seq(AssessmentRow), candidates : Seq(CandidateRow),
                ok : BOOLEAN]
      /\ DOMAIN old = DOMAIN assessments /\ Promote(s, a) \in Repairs
      /\ RequestsKept(candidates, s.candidates) /\ ProfilesKept(assessments, old)
  BY PromoteRepairs DEF StartsNothing, Repairs, Advances
<1>2. CASE s.assessments[a].state = "COMPLETE"
  BY <1>2 DEF Promote
<1>3. CASE s.assessments[a].state # "COMPLETE"
  <2>1. Promote(s, a) = p
    BY <1>1, <1>3 DEF Promote
  <2>2. row.mode = old[a].mode /\ row.effects = old[a].effects
    <3>1. old[a] \in AssessmentRow
      BY <1>1
    <3> HIDE DEF old
    <3>2. QED  BY <3>1 DEF AssessmentRow
  <2> HIDE DEF row
  <2>3. p.assessments = [old EXCEPT ![a] = row] /\ p.candidates = s.candidates
    BY <1>1
  <2> HIDE DEF p, old
  <2>4. ProfilesKept(old, p.assessments)
    BY <2>2, <2>3, ProfileRow
  <2>5. ProfilesKept(assessments, p.assessments)
    BY <1>1, <2>4, KeptInTurn
  <2>6. QED  BY <1>1, <2>1, <2>3, <2>5 DEF StartsNothing
<1>4. QED  BY <1>2, <1>3

LEMMA AdoptStarts ==
  ASSUME NEW s \in StartsNothing, NEW c, NEW a \in CompleteOnline(s.assessments)
  PROVE  Adopt(s, c, a) \in StartsNothing
<1> DEFINE best == IF Accepts(s.run.incumbent, a, s.assessments) THEN a ELSE s.run.incumbent
           row  == [s.candidates[c] EXCEPT !.state = "COMPLETE"]
           p    == [s EXCEPT !.run = [s.run EXCEPT !.incumbent = best],
                             !.candidates = [s.candidates EXCEPT ![c] = row]]
<1>1. /\ s \in [run : RunRow, assessments : Seq(AssessmentRow), candidates : Seq(CandidateRow),
                ok : BOOLEAN]
      /\ Adopt(s, c, a) \in Repairs
      /\ RequestsKept(candidates, s.candidates) /\ ProfilesKept(assessments, s.assessments)
  BY AdoptRepairs DEF StartsNothing, Repairs
<1>2. CASE s.run.sealed
  <2>1. Adopt(s, c, a) = [s EXCEPT !.ok = FALSE]
    BY <1>2 DEF Adopt
  <2>2. /\ Adopt(s, c, a).assessments = s.assessments
        /\ Adopt(s, c, a).candidates = s.candidates
    BY <1>1, <2>1
  <2>3. QED  BY <1>1, <2>2 DEF StartsNothing
<1>3. CASE ~s.run.sealed
  <2>1. Adopt(s, c, a) = p
    BY <1>1, <1>3 DEF Adopt
  <2>2. c \in DOMAIN s.candidates => row.effect = s.candidates[c].effect
    <3>1. c \in DOMAIN s.candidates => s.candidates[c] \in CandidateRow
      BY <1>1
    <3>2. QED  BY <3>1 DEF CandidateRow
  <2> HIDE DEF row, best
  <2>3. p.candidates = [s.candidates EXCEPT ![c] = row] /\ p.assessments = s.assessments
    BY <1>1
  <2> HIDE DEF p
  <2>4. RequestsKept(s.candidates, p.candidates)
    BY <2>2, <2>3, RequestRow
  <2>5. RequestsKept(candidates, p.candidates)
    BY <1>1, <2>4, KeptInTurn
  <2>6. QED  BY <1>1, <2>1, <2>3, <2>5 DEF StartsNothing
<1>4. QED  BY <1>2, <1>3

LEMMA AssessmentStarts ==
  ASSUME NEW s \in StartsNothing, NEW a \in DOMAIN assessments
  PROVE  ReconcileAssessment(s, a) \in StartsNothing
<1>1. /\ s \in Repairs /\ s.assessments \in Seq(AssessmentRow)
      /\ DOMAIN s.assessments = DOMAIN assessments
  BY DEF StartsNothing, Repairs, Advances
<1>2. CASE ~s.ok \/ ~OnDisk(s.assessments, a)
  BY <1>2 DEF ReconcileAssessment
<1>3. CASE /\ ~(~s.ok \/ ~OnDisk(s.assessments, a))
           /\ s.assessments[a].state \notin {"COMPLETE", "RESERVED", "INCOMPLETE"}
  <2>1. ReconcileAssessment(s, a) = [s EXCEPT !.ok = FALSE]
    BY <1>3 DEF ReconcileAssessment
  <2>2. /\ ReconcileAssessment(s, a).assessments = s.assessments
        /\ ReconcileAssessment(s, a).candidates = s.candidates
    BY <1>1, <2>1 DEF Repairs
  <2>3. QED  BY <1>1, <2>2, AssessmentRepairs DEF StartsNothing
<1>4. CASE /\ ~(~s.ok \/ ~OnDisk(s.assessments, a))
           /\ s.assessments[a].state \in {"COMPLETE", "RESERVED", "INCOMPLETE"}
  <2> DEFINE p == Promote(s, a)
             c == s.assessments[a].of
  <2>1. /\ p \in StartsNothing /\ p.assessments[a].state = "COMPLETE"
        /\ p.assessments[a].mode = s.assessments[a].mode
    BY <1>1, <1>4, PromoteStarts, PromoteRepairs
  <2> HIDE DEF p
  <2>2. s.assessments[a].mode \in {"online", "audit"}
    <3>1. s.assessments[a] \in AssessmentRow
      BY <1>1
    <3>2. QED  BY <3>1 DEF AssessmentRow
  <2>3. DOMAIN p.assessments = DOMAIN assessments /\ p \in Repairs
    BY <2>1 DEF StartsNothing, Repairs, Advances
  <2>4. s.assessments[a].mode = "online" => a \in CompleteOnline(p.assessments)
    BY <2>1, <2>3 DEF CompleteOnline
  <2>5. CASE s.assessments[a].mode = "audit"
    <3>1. ReconcileAssessment(s, a) = p
      BY <1>4, <2>5 DEF ReconcileAssessment, p
    <3>2. QED  BY <2>1, <3>1
  <2>6. CASE s.assessments[a].mode = "online" /\ c = 0
    <3> DEFINE q == [p EXCEPT !.run = TakeBaseline(p.run, a, p.assessments)]
    <3>1. ReconcileAssessment(s, a) = IF p.run.baseline # 0 THEN p ELSE q
      BY <1>4, <2>6 DEF ReconcileAssessment, p
    <3>2. q.assessments = p.assessments /\ q.candidates = p.candidates
      BY <2>3 DEF Repairs
    <3>3. q \in Repairs
      BY <2>3, <2>4, <2>6, BaselineRepairs
    <3> HIDE DEF q
    <3>4. q \in StartsNothing
      BY <2>1, <3>2, <3>3 DEF StartsNothing
    <3>5. QED  BY <2>1, <3>1, <3>4
  <2>7. CASE s.assessments[a].mode = "online" /\ c # 0
    <3>1. ReconcileAssessment(s, a)
            = IF p.candidates[c].state = "COMPLETE" THEN p ELSE Adopt(p, c, a)
      BY <1>4, <2>7 DEF ReconcileAssessment, p
    <3>2. QED  BY <2>1, <2>4, <2>7, <3>1, AdoptStarts
  <2>8. QED  BY <2>2, <2>5, <2>6, <2>7
<1>5. QED  BY <1>2, <1>3, <1>4

LEMMA ReconcileStarts ==
  ASSUME ArtifactInv
  PROVE  Reconcile \in StartsNothing
<1> DEFINE n == Len(assessments)
           m == Len(candidates)
           half == FoldLeft(ReconcileAssessment, Tables, Upto(n))
<1>1. /\ n \in Nat /\ m \in Nat /\ 1..n = DOMAIN assessments /\ 1..m = DOMAIN candidates
      /\ TypeOK /\ SealFits /\ RepliesFit
  BY Rows DEF ArtifactInv
<1>2. Tables \in StartsNothing
  <2>1. Tables.assessments = assessments /\ Tables.candidates = candidates
    BY DEF Tables
  <2>2. QED  BY <1>1, <2>1, TablesRepair, SameStarts DEF StartsNothing
<1>3. \A s \in StartsNothing, a \in 1..n : ReconcileAssessment(s, a) \in StartsNothing
  BY <1>1, AssessmentStarts
<1>4. ASSUME NEW s \in StartsNothing, NEW c \in 1..m PROVE ReconcileReuse(s, c) \in StartsNothing
  <2>1. s \in Repairs /\ Advances(assessments, s.assessments) /\ SameRequests(s.candidates)
    BY DEF StartsNothing, Repairs
  <2>2. s.candidates[c].reuse # 0 => s.candidates[c].reuse \in CompleteOnline(s.assessments)
    BY <1>1, <2>1, CompleteStays DEF RepliesFit, SameRequests
  <2>3. QED  BY <2>2, AdoptStarts DEF ReconcileReuse
<1>5. half \in StartsNothing
  <2> HIDE DEF n
  <2>1. QED  BY <1>1, <1>2, <1>3, AssessmentsFold
<1> HIDE DEF half, n, m
<1>6. FoldLeft(ReconcileReuse, half, Upto(m)) \in StartsNothing
  BY <1>1, <1>4, <1>5, ReusesFold
<1>7. QED  BY <1>6 DEF Reconcile, half, n, m

(* Stop, watchdog and recover write what is repaired, or settle all.       *)
LEMMA ClosingStarts ==
  ASSUME ArtifactInv, NEW t, StopClose \/ WatchdogCloses(t) \/ Recover
  PROVE  StartsKept
<1> DEFINE s   == Reconcile
           all == SettleAll(s.assessments)
           requests == SettleRequests(s.candidates)
<1>1. /\ s \in StartsNothing /\ RequestsKept(candidates, s.candidates)
      /\ ProfilesKept(assessments, s.assessments)
      /\ s.assessments \in Seq(AssessmentRow) /\ s.candidates \in Seq(CandidateRow)
  BY ReconcileStarts DEF StartsNothing, Repairs
<1> HIDE DEF s
<1>2. /\ ProfilesKept(assessments, all) /\ ProfilesKept(assessments, Incomplete(all))
      /\ RequestsKept(candidates, requests)
  BY <1>1, AllSettledKeep
<1>3. CASE UNCHANGED <<candidates, assessments>>
  BY <1>3, BesideStarts
<1>4. CASE assessments' \in {all, Incomplete(all)} /\ candidates' = requests
  BY <1>2, <1>4 DEF StartsKept
<1>5. CASE assessments' = s.assessments /\ candidates' = s.candidates
  BY <1>1, <1>5 DEF StartsKept
<1>6. CASE StopClose
  BY <1>3, <1>4, <1>6 DEF StopClose, tables, s
<1>7. CASE WatchdogCloses(t)
  BY <1>3, <1>4, <1>7 DEF WatchdogCloses, s
<1>8. CASE Recover
  BY <1>4, <1>5, <1>8 DEF Recover, s
<1>9. QED  BY <1>6, <1>7, <1>8

(* Every step starts only what it may.                                     *)
LEMMA StepStartsRightly ==
  ASSUME ArtifactInv, [Next]_vars
  PROVE  StartsRightly
<1>1. CASE UNCHANGED <<candidates, assessments>>
  BY <1>1, BesideStarts, KeptStartsRightly
<1>2. CASE UNCHANGED vars
  BY <1>1, <1>2 DEF vars, tables
<1>3. CASE Agent
  BY <1>1, <1>3 DEF Agent, SubmitPlan, SubmitEvaluation, MemoryWrite, FinishRound, Launch
<1>4. CASE Stop \/ SearchTimeEnds \/ TimeEnds
  BY <1>1, <1>4 DEF Stop, SearchTimeEnds, TimeEnds, tables
<1>5. CASE StopKill
  <2>1. CASE UNCHANGED <<tasks, candidates, assessments>>
    BY <1>1, <2>1
  <2>2. CASE KillGroups(Active)
    BY <2>2, KillsStart, KeptStartsRightly DEF KillGroups
  <2>3. QED  BY <1>5, <2>1, <2>2 DEF StopKill
<1>6. CASE StopClose \/ Recover
  BY <1>6, ClosingStarts, KeptStartsRightly
<1>7. CASE Crash
  BY <1>7, CrashStarts, KeptStartsRightly
<1>8. CASE Processes
  <2>1. ASSUME NEW t \in DOMAIN tasks, Launcher(t) PROVE StartsRightly
    BY <1>1, <2>1 DEF Launcher, SpawnRunner, SpawnWatchdog
  <2>2. ASSUME NEW t \in DOMAIN tasks, Runner(t) PROVE StartsRightly
    BY <2>2, RunnerStarts, RequestStarts, KeptStartsRightly
  <2>3. ASSUME NEW t \in DOMAIN tasks, Watchdog(t) PROVE StartsRightly
    <3>1. CASE WatchdogLeaves(t) \/ WatchdogFires(t)
      BY <1>1, <3>1 DEF WatchdogLeaves, WatchdogFires
    <3>2. CASE WatchdogKills(t)
      BY <3>2, KillsStart, KeptStartsRightly DEF WatchdogKills
    <3>3. CASE WatchdogCloses(t)
      BY <3>3, ClosingStarts, KeptStartsRightly
    <3>4. QED  BY <2>3, <3>1, <3>2, <3>3 DEF Watchdog
  <2>4. ASSUME NEW a \in DOMAIN assessments, Worker(a) PROVE StartsRightly
    BY <2>4, WorkerStarts
  <2>5. ASSUME NEW c \in DOMAIN candidates, Provider(c) PROVE StartsRightly
    BY <2>5, ProviderStarts, KeptStartsRightly
  <2>6. QED  BY <1>8, <2>1, <2>2, <2>3, <2>4, <2>5 DEF Processes
<1>9. QED  BY <1>2, <1>3, <1>4, <1>5, <1>6, <1>7, <1>8 DEF Next

(* Nothing is started for the search once it is sealed, nothing at all in  *)
(* a run that is closed, also by a worker or a provider that outlived its  *)
(* runner: whatever starts asks the ledger first.                          *)
THEOREM ClosedRunsStartNothing ==
  ASSUME "watchdog" \notin Kinds
  PROVE  Spec => ClosedStartsNothing
<1>1. ArtifactInv /\ [Next]_vars => [StartsRightly]_vars
  BY StepStartsRightly
<1>2. Spec => [][StartsRightly]_vars
  BY <1>1, ArtifactInvariant, PTL DEF Spec
<1>3. QED  BY <1>2 DEF ClosedStartsNothing, StartsRightly

=============================================================================
