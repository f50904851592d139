----------------------------- MODULE ViewProofs -----------------------------
(***************************************************************************)
(* Proofs about what an Agent is told (AgentView): the receipt of init     *)
(* (SessionInit), the memory it searches and reads (MemoryPages) and the   *)
(* progress of its search (SearchProgress).                                *)
(***************************************************************************)
EXTENDS AgentView, FiniteSetTheorems, NaturalsInduction, TLAPS

-----------------------------------------------------------------------------
(* Numbers                                                                 *)

(* A set of naturals that is not empty has a smallest element.             *)
LEMMA SmallestNumber ==
  ASSUME NEW T \in SUBSET Nat, T # {}
  PROVE  \E x \in T : \A y \in T : x <= y
<1> DEFINE Less == {p \in Nat \X Nat : p[1] < p[2]}
<1>1. IsWellFoundedOn(Less, Nat)
  BY NatLessThanWellFounded DEF OpToRel
<1>2. T \subseteq Nat
  OBVIOUS
<1> HIDE DEF Less
<1>3. \E x \in T : \A y \in T : ~ (<<y, x>> \in Less)
  BY <1>1, <1>2, WFMin
<1>4. \A x, y \in Nat : ~ (<<y, x>> \in Less) => x <= y
  BY DEF Less
<1>5. QED  BY <1>3, <1>4

(* The largest of some numbers up to m is one of them.                     *)
LEMMA LargestNumber ==
  ASSUME NEW m \in Nat, NEW T \in SUBSET (0..m), T # {}
  PROVE  Max(T) \in T /\ \A y \in T : y <= Max(T)
<1> DEFINE Above == {k \in Nat : \A y \in T : y <= k}
<1>1. Above \in SUBSET Nat /\ m \in Above
  OBVIOUS
<1>2. PICK x \in Above : \A y \in Above : x <= y
  BY <1>1, SmallestNumber
<1>3. x \in T
  <2>1. SUFFICES ASSUME x \notin T PROVE FALSE
    OBVIOUS
  <2>2. \A y \in T : y \in Nat /\ y <= x /\ y # x
    BY <1>2, <2>1
  <2>3. x >= 1 /\ x \in Nat
    <3>1. PICK y \in T : TRUE
      OBVIOUS
    <3>2. x \in Nat
      BY <1>2
    <3>3. QED  BY <2>2, <3>1, <3>2
  <2>4. x - 1 \in Above
    BY <2>2, <2>3
  <2>5. QED  BY <1>2, <2>4
<1>4. \A y \in T : x >= y
  BY <1>2
<1>5. QED  BY <1>3, <1>4 DEF Max

LEMMA LargestOfPlaces ==
  ASSUME NEW m \in Nat, NEW T \in SUBSET (1..m), T # {}
  PROVE  Max(T) \in 1..m
<1>1. T \in SUBSET (0..m)
  OBVIOUS
<1>2. QED  BY <1>1, LargestNumber

(* The largest of some places of a sequence is one of them.                *)
LEMMA LargestPlace ==
  ASSUME NEW m \in Nat, NEW T \in SUBSET (1..m), T # {}
  PROVE  Max(T) \in T /\ \A y \in T : y <= Max(T)
<1>1. T \in SUBSET (0..m)
  OBVIOUS
<1>2. QED  BY <1>1, LargestNumber

-----------------------------------------------------------------------------
(* Folds.  A model goes through a sequence with FoldLeft, whose recursive  *)
(* function over sets of places has to be shown to exist.                  *)

(* What a fold over 1..m computes for the sets of indices up to m: F is    *)
(* the step, V a set that it does not leave.                               *)
FoldsTo(g, F, base, V, m) ==
  /\ g \in [SUBSET (1..m) -> V]
  /\ \A T \in SUBSET (1..m) :
       g[T] = IF T = {} THEN base ELSE F[<<g[T \ {Max(T)}], Max(T)>>]

LEMMA FoldExists ==
  ASSUME NEW V, NEW n \in Nat, NEW F \in [V \X (1..n) -> V], NEW base \in V
  PROVE  \E g : FoldsTo(g, F, base, V, n)
<1> DEFINE Without == {m \in 0..n : ~ \E g : FoldsTo(g, F, base, V, m)}
<1>1. SUFFICES ASSUME Without # {} PROVE FALSE
  OBVIOUS
<1>2. Without \in SUBSET Nat
  OBVIOUS
<1>3. PICK m \in Without : \A k \in Without : m <= k
  BY <1>1, <1>2, SmallestNumber
<1>4. CASE m = 0
  <2>1. FoldsTo([T \in SUBSET (1..0) |-> base], F, base, V, 0)
    <3>1. \A T \in SUBSET (1..0) : T = {}
      OBVIOUS
    <3>2. QED  BY <3>1 DEF FoldsTo
  <2>2. QED  BY <1>3, <1>4, <2>1
<1>5. CASE m # 0
  <2>1. m - 1 \in 0..n /\ m \in 1..n /\ m - 1 \notin Without
    BY <1>3, <1>5
  <2>2. PICK g : FoldsTo(g, F, base, V, m - 1)
    BY <2>1
  <2> DEFINE P == SUBSET (1..m)
             h == [T \in P |-> IF m \in T THEN F[<<g[T \ {m}], m>>] ELSE g[T]]
  <2>3. ASSUME NEW T \in P
        PROVE  /\ h[T] \in V
               /\ h[T] = IF T = {} THEN base ELSE F[<<h[T \ {Max(T)}], Max(T)>>]
    <3>1. CASE m \in T
      <4>1. Max(T) = m
        <5>1. T \in SUBSET (0..m) /\ T # {} /\ m \in Nat
          BY <3>1, <2>1
        <5>2. Max(T) \in T /\ m <= Max(T)
          BY <5>1, <3>1, LargestNumber
        <5>3. Max(T) \in 1..m
          BY <5>2
        <5>4. QED  BY <5>2, <5>3, <2>1
      <4>2. T \ {m} \in P /\ m \notin T \ {m} /\ T # {} /\ T \ {m} \in SUBSET (1..(m - 1))
        BY <3>1, <2>1
      <4>3. g[T \ {m}] \in V
        BY <2>2, <4>2 DEF FoldsTo
      <4>4. h[T] = F[<<g[T \ {m}], m>>] /\ h[T \ {m}] = g[T \ {m}]
        BY <3>1, <4>2
      <4>5. QED  BY <2>1, <4>1, <4>2, <4>3, <4>4
    <3>2. CASE m \notin T
      <4>1. T \in SUBSET (1..(m - 1))
        BY <3>2, <2>1
      <4>2. g[T] \in V /\ g[T] = IF T = {} THEN base ELSE F[<<g[T \ {Max(T)}], Max(T)>>]
        BY <2>2, <4>1 DEF FoldsTo
      <4>3. h[T] = g[T] /\ T \ {Max(T)} \in P /\ h[T \ {Max(T)}] = g[T \ {Max(T)}]
        BY <3>2
      <4>4. QED  BY <4>2, <4>3
    <3>3. QED  BY <3>1, <3>2
  <2>4. h \in [P -> V]
    <3>1. h = [T \in P |-> h[T]]
      OBVIOUS
    <3> HIDE DEF h
    <3>2. QED  BY <2>3, <3>1
  <2>5. FoldsTo(h, F, base, V, m)
    <3> HIDE DEF h
    <3>1. QED  BY <2>3, <2>4 DEF FoldsTo
  <2>6. QED  BY <1>3, <2>5
<1>6. QED  BY <1>4, <1>5

(* A fold does not leave a set that its steps do not leave.                *)
LEMMA FoldStays ==
  ASSUME NEW V, NEW n \in Nat, NEW G, G[{}] \in V,
         \A T \in SUBSET (1..n) : T # {} /\ G[T \ {Max(T)}] \in V => G[T] \in V
  PROVE  G[1..n] \in V
<1> DEFINE Odd == {k \in 0..n : G[1..k] \notin V}
<1>1. n \in 0..n
  OBVIOUS
<1>2. SUFFICES ASSUME n \in Odd PROVE FALSE
  BY <1>1
<1>3. Odd \in SUBSET Nat
  OBVIOUS
<1>4. PICK k \in Odd : \A j \in Odd : k <= j
  BY <1>2, <1>3, SmallestNumber
<1>5. k # 0
  <2>1. 1..0 = {}
    OBVIOUS
  <2>2. G[1..k] \notin V
    OBVIOUS
  <2>3. QED  BY <2>1, <2>2
<1>6. k \in 1..n /\ k - 1 \in 0..n /\ k - 1 \notin Odd
  BY <1>4, <1>5
<1> HIDE DEF Odd
<1>7. Max(1..k) = k
  <2>1. 1..k \in SUBSET (0..k) /\ 1..k # {} /\ k \in 1..k /\ k \in Nat
    BY <1>6
  <2>2. Max(1..k) \in 1..k /\ k <= Max(1..k)
    BY <2>1, LargestNumber
  <2>3. QED  BY <1>6, <2>2
<1>8. (1..k) \ {k} = 1..(k - 1) /\ 1..k \in SUBSET (1..n) /\ 1..k # {}
  <2>1. k \in Nat /\ k \in 1..k /\ k <= n
    BY <1>6
  <2>2. QED  BY <2>1
<1>9. G[1..(k - 1)] \in V
  BY <1>6 DEF Odd
<1>10. G[1..k] \in V
  BY <1>7, <1>8, <1>9
<1>11. QED  BY <1>4, <1>10 DEF Odd

(* G unfolds like a fold as long as its values are in V.                   *)
Unfolds(G, F, base, V, n) ==
  /\ G[{}] = base
  /\ \A T \in SUBSET (1..n) : T # {} /\ G[T \ {Max(T)}] \in V =>
       G[T] \in V /\ G[T] = F[<<G[T \ {Max(T)}], Max(T)>>]

(* A fold in order: h[k] is its value after the first k places.            *)
Walks(h, F, base, n) == h[0] = base /\ \A k \in 1..n : h[k] = F[<<h[k - 1], k>>]

LEMMA FoldWalks ==
  ASSUME NEW V, NEW n \in Nat, NEW F, NEW base \in V, NEW G, Unfolds(G, F, base, V, n)
  PROVE  \E h \in [0..n -> V] : Walks(h, F, base, n) /\ h[n] = G[1..n]
<1> DEFINE h == [k \in 0..n |-> G[1..k]]
<1>0. /\ G[{}] = base
      /\ \A T \in SUBSET (1..n) : T # {} /\ G[T \ {Max(T)}] \in V =>
           G[T] \in V /\ G[T] = F[<<G[T \ {Max(T)}], Max(T)>>]
  BY DEF Unfolds
<1>1. ASSUME NEW k \in 0..n PROVE G[1..k] \in V
  <2>1. k \in Nat /\ SUBSET (1..k) \subseteq SUBSET (1..n)
    OBVIOUS
  <2>2. \A T \in SUBSET (1..k) : T # {} /\ G[T \ {Max(T)}] \in V => G[T] \in V
    BY <1>0, <2>1
  <2>3. QED  BY <1>0, <2>1, <2>2, FoldStays
<1>2. h \in [0..n -> V]
  BY <1>1
<1>3. ASSUME NEW k \in 1..n PROVE h[k] = F[<<h[k - 1], k>>]
  <2>1. /\ k \in Nat /\ k \in 1..k /\ 1..k \in SUBSET (1..n) /\ k - 1 \in 0..n
        /\ (1..k) \ {k} = 1..(k - 1)
    OBVIOUS
  <2>2. Max(1..k) = k
    <3>1. 1..k \in SUBSET (1..k) /\ 1..k # {}
      BY <2>1
    <3>2. Max(1..k) \in 1..k /\ k <= Max(1..k)
      BY <2>1, <3>1, LargestPlace
    <3>3. QED  BY <2>1, <3>2
  <2>3. G[1..(k - 1)] \in V
    BY <1>1, <2>1
  <2>4. G[1..k] = F[<<G[1..(k - 1)], k>>]
    BY <1>0, <2>1, <2>2, <2>3
  <2>5. k \in 0..n /\ h[k] = G[1..k] /\ h[k - 1] = G[1..(k - 1)]
    BY <2>1
  <2>6. QED  BY <2>4, <2>5
<1>4. h[0] = base /\ h[n] = G[1..n]
  <2>1. 1..0 = {} /\ 0 \in 0..n /\ n \in 0..n
    OBVIOUS
  <2>2. QED  BY <1>0, <2>1
<1> HIDE DEF h
<1>5. QED  BY <1>2, <1>3, <1>4 DEF Walks

-----------------------------------------------------------------------------
(* Sequences of sequences                                                  *)

(* The recursive function that FlattenSeq takes exists.                    *)
Flattens(g, ss, n) == g = [i \in 1..n |-> IF i = 1 THEN ss[i] ELSE g[i - 1] \o ss[i]]

LEMMA FlattensExists ==
  ASSUME NEW ss, NEW n \in Nat
  PROVE  \E g : Flattens(g, ss, n)
<1> DEFINE Without == {m \in 0..n : ~ \E g : Flattens(g, ss, m)}
<1>1. SUFFICES ASSUME Without # {} PROVE FALSE
  OBVIOUS
<1>2. Without \in SUBSET Nat
  OBVIOUS
<1>3. PICK m \in Without : \A k \in Without : m <= k
  BY <1>1, <1>2, SmallestNumber
<1>4. CASE m = 0
  <2>1. Flattens([i \in 1..0 |-> 0], ss, 0)
    BY DEF Flattens
  <2>2. QED  BY <1>3, <1>4, <2>1
<1>5. CASE m # 0
  <2>1. m - 1 \in 0..n /\ m \in 1..n /\ m - 1 \notin Without
    BY <1>3, <1>5
  <2>2. PICK g : Flattens(g, ss, m - 1)
    BY <2>1
  <2> DEFINE last == IF m = 1 THEN ss[m] ELSE g[m - 1] \o ss[m]
             h == [i \in 1..m |-> IF i = m THEN last ELSE g[i]]
  <2>3. ASSUME NEW i \in 1..m PROVE h[i] = IF i = 1 THEN ss[i] ELSE h[i - 1] \o ss[i]
    <3>1. CASE i = m
      <4>1. i # 1 => i - 1 \in 1..m /\ i - 1 # m
        BY <3>1, <2>1
      <4>2. h[i] = last /\ (i # 1 => h[i - 1] = g[i - 1])
        BY <3>1, <4>1
      <4>3. QED  BY <3>1, <4>2
    <3>2. CASE i # m
      <4>1. i \in 1..(m - 1) /\ (i # 1 => i - 1 \in 1..m /\ i - 1 # m)
        BY <3>2, <2>1
      <4>2. g[i] = IF i = 1 THEN ss[i] ELSE g[i - 1] \o ss[i]
        BY <4>1, <2>2 DEF Flattens
      <4>3. h[i] = g[i] /\ (i # 1 => h[i - 1] = g[i - 1])
        BY <3>2, <4>1
      <4>4. QED  BY <4>2, <4>3
    <3>3. QED  BY <3>1, <3>2
  <2>4. h = [i \in 1..m |-> h[i]]
    OBVIOUS
  <2>5. Flattens(h, ss, m)
    <3> HIDE DEF h
    <3>1. QED  BY <2>3, <2>4 DEF Flattens
  <2>6. QED  BY <1>3, <2>5
<1>6. QED  BY <1>4, <1>5

LEMMA FlatIs ==
  ASSUME NEW V, NEW ss \in Seq(Seq(V))
  PROVE  FlattenSeq(ss) \in Seq(V)
<1> DEFINE n == Len(ss)
<1>1. n \in Nat
  OBVIOUS
<1>2. CASE n = 0
  BY <1>2 DEF FlattenSeq
<1>3. CASE n # 0
  <2> DEFINE g == CHOOSE f : Flattens(f, ss, n)
  <2>1. Flattens(g, ss, n)
    BY <1>1, FlattensExists
  <2>2. FlattenSeq(ss) = g[n]
    BY <1>3 DEF FlattenSeq, Flattens
  <2> HIDE DEF g
  <2>3. \A i \in 1..n : g[i] = IF i = 1 THEN ss[i] ELSE g[i - 1] \o ss[i]
    BY <2>1 DEF Flattens
  <2> DEFINE Odd == {m \in 1..n : g[m] \notin Seq(V)}
  <2>4. SUFFICES ASSUME Odd # {} PROVE FALSE
    BY <1>1, <1>3, <2>2
  <2>5. Odd \in SUBSET Nat
    BY <1>1
  <2>6. PICK m \in Odd : \A k \in Odd : m <= k
    BY <2>4, <2>5, SmallestNumber
  <2>7. m \in 1..n /\ ss[m] \in Seq(V)
    BY <2>6
  <2>8. CASE m = 1
    BY <2>3, <2>6, <2>7, <2>8
  <2>9. CASE m # 1
    <3>1. m - 1 \in 1..n /\ m - 1 \notin Odd
      BY <2>6, <2>9, <1>1
    <3>2. g[m - 1] \in Seq(V) /\ g[m] = g[m - 1] \o ss[m]
      BY <3>1, <2>3, <2>7, <2>9
    <3>3. g[m - 1] \o ss[m] \in Seq(V)
      <4>1. g[m - 1] \in Seq(V) /\ ss[m] \in Seq(V)
        BY <2>7, <3>2
      <4> HIDE DEF Odd
      <4>2. QED  BY <4>1
    <3>4. QED  BY <2>6, <3>2, <3>3
  <2>10. QED  BY <2>8, <2>9
<1>4. QED  BY <1>2, <1>3

(* y is a and then b.                                                       *)
Joins(y, a, b) == y = a \o b

(* Two such functions agree on what their sequences share, so the longer of *)
(* the two ends with the shorter one's end and the sequence added.          *)
LEMMA FlattensFurther ==
  ASSUME NEW g, NEW h, NEW ss, NEW tt, NEW n \in Nat, n # 0,
         NEW m \in Nat, m = n + 1,
         Flattens(g, ss, n), Flattens(h, tt, m),
         \A i \in 1..n : tt[i] = ss[i]
  PROVE  Joins(h[m], g[n], tt[m])
<1>1. /\ \A i \in 1..n : g[i] = IF i = 1 THEN ss[i] ELSE g[i - 1] \o ss[i]
      /\ \A i \in 1..m : h[i] = IF i = 1 THEN tt[i] ELSE h[i - 1] \o tt[i]
  BY DEF Flattens
<1>2. h[n] = g[n]
  <2> DEFINE Odd == {i \in 1..n : g[i] # h[i]}
  <2>1. SUFFICES ASSUME Odd # {} PROVE FALSE
    <3>1. n \in 1..n
      OBVIOUS
    <3>2. QED  BY <3>1
  <2>2. Odd \in SUBSET Nat
    OBVIOUS
  <2>3. PICK i \in Odd : \A k \in Odd : i <= k
    BY <2>1, <2>2, SmallestNumber
  <2>4. i \in 1..n /\ i \in 1..m /\ tt[i] = ss[i]
    BY <2>3
  <2>5. CASE i = 1
    BY <1>1, <2>3, <2>4, <2>5
  <2>6. CASE i # 1
    <3>1. i - 1 \in 1..n /\ i - 1 \notin Odd
      BY <2>3, <2>4, <2>6
    <3>2. g[i - 1] = h[i - 1]
      BY <3>1
    <3>3. g[i] = g[i - 1] \o ss[i] /\ h[i] = h[i - 1] \o tt[i]
      BY <1>1, <2>4, <2>6
    <3>4. QED  BY <2>3, <2>4, <3>2, <3>3
  <2>7. QED  BY <2>5, <2>6
<1>3. m \in 1..m /\ m # 1 /\ m - 1 = n
  OBVIOUS
<1>4. h[m] = h[m - 1] \o tt[m]
  BY <1>1, <1>3
<1>5. QED  BY <1>2, <1>3, <1>4 DEF Joins

(* A sequence more is put behind what the others flatten to.               *)
LEMMA FlatAppends ==
  ASSUME NEW V, NEW ss \in Seq(Seq(V)), NEW x \in Seq(V)
  PROVE  FlattenSeq(Append(ss, x)) = FlattenSeq(ss) \o x
<1> DEFINE n == Len(ss)
           tt == Append(ss, x)
<1>1. /\ n \in Nat /\ Len(tt) = n + 1 /\ tt[n + 1] = x
      /\ \A i \in 1..n : tt[i] = ss[i] /\ ss[i] \in Seq(V)
  OBVIOUS
<1> DEFINE g == CHOOSE f : Flattens(f, ss, n)
           h == CHOOSE f : Flattens(f, tt, n + 1)
<1>2. Flattens(g, ss, n) /\ Flattens(h, tt, n + 1)
  <2> HIDE DEF tt, n
  <2>1. n + 1 \in Nat
    BY <1>1
  <2>2. (\E f : Flattens(f, ss, n)) /\ (\E f : Flattens(f, tt, n + 1))
    BY <1>1, <2>1, FlattensExists
  <2>3. QED  BY <2>2
<1>3. FlattenSeq(tt) = h[n + 1]
  <2> HIDE DEF tt
  <2>1. Len(tt) # 0
    BY <1>1
  <2>2. FlattenSeq(tt) = (CHOOSE f : Flattens(f, tt, Len(tt)))[Len(tt)]
    BY <2>1 DEF FlattenSeq, Flattens
  <2>3. QED  BY <1>1, <2>2
<1>4. n # 0 => FlattenSeq(ss) = g[n]
  BY DEF FlattenSeq, Flattens
<1> HIDE DEF g, h, tt
<1>5. /\ \A i \in 1..n : g[i] = IF i = 1 THEN ss[i] ELSE g[i - 1] \o ss[i]
      /\ \A i \in 1..(n + 1) : h[i] = IF i = 1 THEN tt[i] ELSE h[i - 1] \o tt[i]
  BY <1>2 DEF Flattens
<1>6. CASE n = 0
  <2>1. ss = <<>> /\ FlattenSeq(ss) = <<>>
    BY <1>6 DEF FlattenSeq
  <2>2. h[n + 1] = x
    <3>1. 1 \in 1..(n + 1) /\ n + 1 = 1
      BY <1>6
    <3>2. h[1] = tt[1]
      BY <1>5, <3>1
    <3>3. QED  BY <1>1, <3>1, <3>2
  <2>3. <<>> \o x = x
    OBVIOUS
  <2>4. QED  BY <1>3, <2>1, <2>2, <2>3 DEF tt
<1>7. CASE n # 0
  <2>1. PICK k \in Nat : k = n
    BY <1>1
  <2>2. PICK m \in Nat : m = k + 1
    BY <2>1
  <2>3. h[m] = g[k] \o tt[m]
    <3>1. \A i \in 1..k : tt[i] = ss[i]
      BY <1>1, <2>1
    <3>2. Flattens(g, ss, k) /\ Flattens(h, tt, m) /\ k # 0
      BY <1>1, <1>2, <1>7, <2>1, <2>2
    <3>3. Joins(h[m], g[k], tt[m])
      BY <2>2, <3>1, <3>2, FlattensFurther
    <3>4. QED  BY <3>3 DEF Joins
  <2>4. FlattenSeq(tt) = FlattenSeq(ss) \o x
    <3> HIDE DEF n
    <3>1. QED  BY <1>1, <1>3, <1>4, <1>7, <2>1, <2>2, <2>3
  <2>5. QED  BY <2>4 DEF tt
<1>8. QED  BY <1>6, <1>7

-----------------------------------------------------------------------------
(* Places                                                                  *)

(* At how many places a sequence has an element of S.                      *)
Places(s, S) == {i \in DOMAIN s : s[i] \in S}

LEMMA PlacesAreFinite ==
  ASSUME NEW V, NEW s \in Seq(V), NEW S
  PROVE  IsFiniteSet(Places(s, S)) /\ Cardinality(Places(s, S)) \in Nat
<1>1. IsFiniteSet(1..Len(s)) /\ Places(s, S) \in SUBSET (1..Len(s))
  BY FS_Interval DEF Places
<1>2. IsFiniteSet(Places(s, S))
  BY <1>1, FS_Subset
<1>3. QED  BY <1>2, FS_CardinalityType

LEMMA PlacesOfNothing ==
  ASSUME NEW S
  PROVE  Cardinality(Places(<<>>, S)) = 0
<1>1. Places(<<>>, S) = {}
  BY DEF Places
<1>2. QED  BY <1>1, FS_EmptySet

LEMMA PlacesAppend ==
  ASSUME NEW V, NEW s \in Seq(V), NEW x \in V, NEW S
  PROVE  Cardinality(Places(Append(s, x), S))
           = Cardinality(Places(s, S)) + (IF x \in S THEN 1 ELSE 0)
<1> DEFINE n == Len(s)
<1>1. n \in Nat /\ n + 1 \notin Places(s, S)
  BY DEF Places
<1>2. CASE x \in S
  <2>1. Places(Append(s, x), S) = Places(s, S) \cup {n + 1}
    BY <1>2 DEF Places
  <2>2. QED  BY <1>1, <1>2, <2>1, PlacesAreFinite, FS_AddElement
<1>3. CASE x \notin S
  <2>1. Places(Append(s, x), S) = Places(s, S)
    BY <1>3 DEF Places
  <2>2. QED  BY <1>3, <2>1, PlacesAreFinite
<1>4. QED  BY <1>2, <1>3

(* The places of two sequences add up.                                     *)
LEMMA PlacesAdd ==
  ASSUME NEW V, NEW s \in Seq(V), NEW t \in Seq(V), NEW S
  PROVE  Cardinality(Places(s \o t, S)) = Cardinality(Places(s, S)) + Cardinality(Places(t, S))
<1> DEFINE n == Len(t)
           first(k) == SubSeq(t, 1, k)
           sum(k) == Cardinality(Places(s, S)) + Cardinality(Places(first(k), S))
           Odd == {k \in 0..n : Cardinality(Places(s \o first(k), S)) # sum(k)}
<1>1. n \in Nat /\ first(n) = t /\ n \in 0..n
  OBVIOUS
<1>2. SUFFICES ASSUME Odd # {} PROVE FALSE
  BY <1>1
<1>3. Odd \in SUBSET Nat
  OBVIOUS
<1>4. PICK k \in Odd : \A j \in Odd : k <= j
  BY <1>2, <1>3, SmallestNumber
<1>5. k # 0
  <2>1. first(0) = <<>> /\ s \o <<>> = s
    OBVIOUS
  <2>2. Cardinality(Places(s \o first(0), S)) = sum(0)
    <3> HIDE DEF first
    <3>1. /\ Places(s \o first(0), S) = Places(s, S) /\ Cardinality(Places(first(0), S)) = 0
          /\ Cardinality(Places(s, S)) \in Nat
      BY <2>1, PlacesOfNothing, PlacesAreFinite
    <3>2. QED  BY <3>1
  <2> HIDE DEF first, sum
  <2>3. QED  BY <1>4, <2>2
<1>6. k \in 1..n /\ k - 1 \in 0..n /\ k - 1 \notin Odd
  BY <1>4, <1>5
<1>7. /\ first(k) = Append(first(k - 1), t[k]) /\ first(k - 1) \in Seq(V) /\ t[k] \in V
      /\ s \o first(k) = Append(s \o first(k - 1), t[k]) /\ s \o first(k - 1) \in Seq(V)
  <2>1. first(k - 1) \in Seq(V) /\ t[k] \in V
    BY <1>6
  <2>2. first(k) = Append(first(k - 1), t[k])
    BY <1>6
  <2> HIDE DEF first
  <2>3. s \o Append(first(k - 1), t[k]) = Append(s \o first(k - 1), t[k])
    BY <2>1
  <2>4. QED  BY <2>1, <2>2, <2>3
<1>8. Cardinality(Places(s \o first(k - 1), S)) = sum(k - 1)
  BY <1>6
<1> DEFINE one == IF t[k] \in S THEN 1 ELSE 0
<1>9. Cardinality(Places(first(k), S)) = Cardinality(Places(first(k - 1), S)) + one
  <2> HIDE DEF first
  <2>1. QED  BY <1>7, PlacesAppend
<1>10. Cardinality(Places(s \o first(k), S)) = Cardinality(Places(s \o first(k - 1), S)) + one
  <2> DEFINE u == s \o first(k - 1)
  <2>1. s \o first(k) = Append(u, t[k]) /\ u \in Seq(V) /\ t[k] \in V
    BY <1>7
  <2> HIDE DEF u
  <2>2. Cardinality(Places(Append(u, t[k]), S)) = Cardinality(Places(u, S)) + one
    BY <2>1, PlacesAppend
  <2>3. QED  BY <2>1, <2>2 DEF u
<1>11. /\ Cardinality(Places(s, S)) \in Nat /\ Cardinality(Places(first(k - 1), S)) \in Nat
       /\ one \in Nat
  <2> HIDE DEF first
  <2>1. QED  BY <1>7, PlacesAreFinite
<1>12. Cardinality(Places(s \o first(k), S)) = sum(k)
  <2> HIDE DEF first, one
  <2>1. QED  BY <1>8, <1>9, <1>10, <1>11
<1>13. QED  BY <1>4, <1>12

(* What is in two sequences is in the one or the other.                    *)
LEMMA ToSetOfTwo ==
  ASSUME NEW V, NEW s \in Seq(V), NEW t \in Seq(V)
  PROVE  ToSet(s \o t) = ToSet(s) \cup ToSet(t) /\ IsFiniteSet(ToSet(s))
<1>1. Len(s \o t) = Len(s) + Len(t) /\ Len(s) \in Nat /\ Len(t) \in Nat
  OBVIOUS
<1>2. \A i \in 1..Len(s) : (s \o t)[i] = s[i] /\ i \in 1..(Len(s) + Len(t))
  OBVIOUS
<1>3. \A i \in 1..Len(t) : (s \o t)[Len(s) + i] = t[i] /\ Len(s) + i \in 1..(Len(s) + Len(t))
  OBVIOUS
<1>4. \A i \in 1..(Len(s) + Len(t)) : i \in 1..Len(s) \/ i - Len(s) \in 1..Len(t)
  BY <1>1
<1>5. ToSet(s \o t) \subseteq ToSet(s) \cup ToSet(t)
  <2>1. ASSUME NEW i \in 1..(Len(s) + Len(t)) PROVE (s \o t)[i] \in ToSet(s) \cup ToSet(t)
    <3>1. CASE i \in 1..Len(s)
      BY <1>2, <3>1 DEF ToSet
    <3>2. CASE i - Len(s) \in 1..Len(t)
      <4>1. Len(s) + (i - Len(s)) = i
        BY <1>1
      <4>2. QED  BY <1>3, <3>2, <4>1 DEF ToSet
    <3>3. QED  BY <1>4, <3>1, <3>2
  <2>2. QED  BY <1>1, <2>1 DEF ToSet
<1>6. ToSet(s) \cup ToSet(t) \subseteq ToSet(s \o t)
  <2>1. \A i \in 1..(Len(s) + Len(t)) : (s \o t)[i] \in ToSet(s \o t)
    BY <1>1 DEF ToSet
  <2>2. \A i \in 1..Len(s) : s[i] \in ToSet(s \o t)
    BY <1>2, <2>1
  <2>3. \A i \in 1..Len(t) : t[i] \in ToSet(s \o t)
    BY <1>3, <2>1
  <2>4. ToSet(s) = {s[i] : i \in 1..Len(s)} /\ ToSet(t) = {t[i] : i \in 1..Len(t)}
    BY DEF ToSet
  <2>5. QED  BY <2>2, <2>3, <2>4
<1>7. IsFiniteSet(ToSet(s))
  <2>1. IsFiniteSet(1..Len(s))
    BY <1>1, FS_Interval
  <2>2. ToSet(s) = {s[i] : i \in 1..Len(s)}
    BY DEF ToSet
  <2>3. s \in Surjection(1..Len(s), ToSet(s))
    BY <2>2 DEF Surjection
  <2>4. QED  BY <2>1, <2>3, FS_Surjection
<1>8. QED  BY <1>5, <1>6, <1>7

-----------------------------------------------------------------------------
(***************************************************************************)
(* Init.  A receipt is true when it is given, and stays true because a     *)
(* directory that is there is never replaced; that the manifest names the  *)
(* runtime of a Session is decided before the Session is built, so a call  *)
(* carries it from there to the rename.                                    *)
(***************************************************************************)

Call_ == [at : {"away", "looking", "building", "built"}, ask : Asked \cup {None}, run : Nat,
          code : Codes \cup {None}, told : Answers \cup {"nothing"}]
Sessions == [run : Nat, ask : Asked \cup {None}, code : Codes \cup {None}]

InitTypes ==
  /\ call \in [Callers -> Call_] /\ session \in Sessions \cup {None}
  /\ staged \subseteq Nat /\ code \in Codes /\ sound \in BOOLEAN /\ calls \in Nat

(* What is built, is built for the runtime its manifest names.             *)
BuiltForItsManifest ==
  \A c \in Callers : call[c].at \in {"building", "built"} =>
    call[c].ask.manifest \in {None, call[c].code}

InitInv == InitTypes /\ BuiltForItsManifest /\ ReceiptsAreTrue

LEMMA StartIsFine == StartOut => InitInv
BY DEF StartOut, InitInv, InitTypes, BuiltForItsManifest, ReceiptsAreTrue, NoCall, Call_, Answers

(* A call that is not told of a receipt and does not begin to build        *)
(* changes nothing that the others rely on.                                *)
LEMMA Harmless ==
  ASSUME InitInv, NEW c \in Callers, NEW r \in Call_,
         call' = [call EXCEPT ![c] = r], session' = session,
         r.told # "receipt",
         r.at \in {"building", "built"} => r.ask.manifest \in {None, r.code},
         staged' \subseteq Nat, code' \in Codes, sound' \in BOOLEAN, calls' \in Nat
  PROVE  InitInv'
<1>1. InitTypes'
  BY DEF InitInv, InitTypes
<1>2. BuiltForItsManifest'
  BY DEF InitInv, InitTypes, BuiltForItsManifest
<1>3. ReceiptsAreTrue'
  BY DEF InitInv, InitTypes, ReceiptsAreTrue, Label
<1> QED
  BY <1>1, <1>2, <1>3 DEF InitInv

LEMMA CallKeeps ==
  ASSUME InitInv, NEW c \in Callers, NEW a \in Asked, Call(c, a) PROVE InitInv'
<1> DEFINE r == [at |-> IF Valid(a) THEN "looking" ELSE "away", ask |-> a, run |-> calls + 1,
                 code |-> None, told |-> IF Valid(a) THEN "nothing" ELSE "invalid"]
<1>0. /\ calls + 1 \in Nat /\ a \in Asked \cup {None} /\ None \in Codes \cup {None}
      /\ (IF Valid(a) THEN "looking" ELSE "away") \in {"away", "looking"}
      /\ (IF Valid(a) THEN "nothing" ELSE "invalid") \in {"nothing", "invalid"}
  BY DEF InitInv, InitTypes
<1>1. r \in Call_ /\ r.told # "receipt" /\ r.at \notin {"building", "built"}
  BY <1>0 DEF Call_, Answers
<1>2. call' = [call EXCEPT ![c] = r]
  BY DEF Call
<1>3. /\ session' = session /\ staged' \subseteq Nat /\ code' \in Codes /\ sound' \in BOOLEAN
      /\ calls' \in Nat
  BY <1>0 DEF Call, InitInv, InitTypes
<1> HIDE DEF r
<1> QED
  BY <1>1, <1>2, <1>3, Harmless

LEMMA ReplayKeeps ==
  ASSUME InitInv, NEW c \in Callers, Replay(c) PROVE InitInv'
<1> DEFINE a == call[c].ask
<1>0. call[c] \in Call_ /\ session # None /\ session \in Sessions
  BY DEF InitInv, InitTypes, Replay
<1>1. CASE Tell(c, session.run, "receipt") /\ SameOperation(a) /\ SameRequest(a)
  <2>1. InitTypes'
    BY <1>0, <1>1 DEF InitInv, InitTypes, Replay, Tell, Call_, Answers, Sessions
  <2>2. BuiltForItsManifest'
    BY <1>0, <1>1 DEF InitInv, InitTypes, BuiltForItsManifest, Replay, Tell, Call_
  <2>3. ReceiptsAreTrue'
    BY <1>0, <1>1 DEF InitInv, InitTypes, ReceiptsAreTrue, Replay, Tell, Call_,
                      SameOperation, SameRequest, Input, Label
  <2> QED
    BY <2>1, <2>2, <2>3 DEF InitInv
<1>2. ASSUME NEW t \in {"conflict", "exists"}, Tell(c, 0, t) PROVE InitInv'
  <2> DEFINE r == [call[c] EXCEPT !.at = "away", !.run = 0, !.told = t]
  <2>1. r \in Call_ /\ r.told # "receipt" /\ r.at \notin {"building", "built"}
    BY <1>0 DEF Call_, Answers
  <2>2. call' = [call EXCEPT ![c] = r]
    BY <1>2 DEF Tell
  <2> HIDE DEF r
  <2> QED
    BY <2>1, <2>2, Harmless DEF Replay, InitInv, InitTypes
<1> QED
  BY <1>1, <1>2 DEF Replay

LEMMA TellKeeps ==
  ASSUME InitInv, NEW c \in Callers, NEW t \in {"failed", "invalid", "nothing"}, Tell(c, 0, t),
         session' = session, staged' \subseteq Nat, code' = code, sound' = sound, calls' = calls
  PROVE  InitInv'
<1> DEFINE r == [call[c] EXCEPT !.at = "away", !.run = 0, !.told = t]
<1>1. r \in Call_ /\ r.told # "receipt" /\ r.at \notin {"building", "built"}
  BY DEF InitInv, InitTypes, Call_, Answers
<1>2. call' = [call EXCEPT ![c] = r]
  BY DEF Tell
<1> HIDE DEF r
<1> QED
  BY <1>1, <1>2, Harmless DEF InitInv, InitTypes

LEMMA BeginKeeps ==
  ASSUME InitInv, NEW c \in Callers, Begin(c) PROVE InitInv'
<1>1. CASE ManifestHolds(call[c].ask)
  <2> DEFINE r == [call[c] EXCEPT !.at = "building", !.code = code]
  <2>0. call[c] \in Call_ /\ code \in Codes /\ call[c].told # "receipt"
                          /\ call[c].ask.manifest \in {None, code}
    BY <1>1 DEF InitInv, InitTypes, ReceiptsAreTrue, Begin, ManifestHolds
  <2>1. r \in Call_ /\ r.told # "receipt" /\ r.ask.manifest \in {None, r.code}
    BY <2>0 DEF Call_
  <2>2. call' = [call EXCEPT ![c] = r] /\ staged' \subseteq Nat
    BY <1>1, <2>0 DEF Begin, InitInv, InitTypes, Call_
  <2> HIDE DEF r
  <2> QED
    BY <2>1, <2>2, Harmless DEF Begin, InitInv, InitTypes
<1>2. CASE ~ManifestHolds(call[c].ask)
  BY <1>2, TellKeeps DEF Begin, InitInv, InitTypes
<1> QED
  BY <1>1, <1>2

LEMMA BuildKeeps ==
  ASSUME InitInv, NEW c \in Callers, Build(c) PROVE InitInv'
<1>1. InitTypes'
  BY DEF InitInv, InitTypes, Build, Goto, Call_
<1>2. BuiltForItsManifest'
  BY DEF InitInv, InitTypes, BuiltForItsManifest, Build, Goto, Call_
<1>3. ReceiptsAreTrue'
  BY DEF InitInv, InitTypes, ReceiptsAreTrue, Build, Goto, Call_, Label
<1> QED
  BY <1>1, <1>2, <1>3 DEF InitInv

LEMMA BuildFailsKeeps ==
  ASSUME InitInv, NEW c \in Callers, BuildFails(c) PROVE InitInv'
BY TellKeeps DEF BuildFails, Cleared, InitInv, InitTypes

LEMMA RenameKeeps ==
  ASSUME InitInv, NEW c \in Callers, Rename(c) PROVE InitInv'
<1>0. call[c] \in Call_
  BY DEF InitInv, InitTypes
<1>1. CASE session' = session
  BY <1>1, TellKeeps DEF Rename, Cleared, InitInv, InitTypes
<1>2. CASE session' # session
  <2>1. session = None /\ session' = Created(c) /\ Tell(c, call[c].run, "receipt")
    BY <1>2 DEF Rename, Renamed
  <2>2. InitTypes'
    <3>1. session' \in Sessions
      BY <1>0, <2>1 DEF Created, Call_, Sessions
    <3>2. call' \in [Callers -> Call_]
      BY <1>0, <2>1 DEF InitInv, InitTypes, Tell, Call_, Answers
    <3>3. staged' \subseteq Nat /\ code' = code /\ sound' = sound /\ calls' = calls
      BY <1>2 DEF InitInv, InitTypes, Rename
    <3> QED
      BY <3>1, <3>2, <3>3 DEF InitInv, InitTypes
  <2>3. BuiltForItsManifest'
    BY <1>0, <2>1 DEF InitInv, InitTypes, BuiltForItsManifest, Tell, Call_
  <2>4. \A d \in Callers : d # c => call'[d].told # "receipt"
    BY <2>1 DEF InitInv, InitTypes, ReceiptsAreTrue, Tell
  <2>5. session' # None /\ session'.run = call[c].run /\ session'.ask = call[c].ask
                        /\ session'.code = call[c].code
    BY <1>2, <2>1 DEF Created
  <2>6. call'[c].run = call[c].run /\ call'[c].ask = call[c].ask
    BY <1>0, <2>1 DEF InitInv, InitTypes, Tell, Call_
  <2>7. call[c].ask.manifest \in {None, call[c].code}
    BY DEF InitInv, BuiltForItsManifest, Rename
  <2>8. ReceiptsAreTrue'
    BY <2>4, <2>5, <2>6, <2>7 DEF ReceiptsAreTrue, Label
  <2> QED
    BY <2>2, <2>3, <2>8 DEF InitInv
<1> QED
  BY <1>1, <1>2

LEMMA CallDiesKeeps ==
  ASSUME InitInv, NEW c \in Callers, CallDies(c) PROVE InitInv'
BY TellKeeps DEF CallDies, InitInv, InitTypes

LEMMA ChangeKeeps ==
  ASSUME InitInv, Change PROVE InitInv'
<1>1. InitTypes'
  BY DEF InitInv, InitTypes, Change
<1>2. BuiltForItsManifest' /\ ReceiptsAreTrue'
  BY DEF InitInv, BuiltForItsManifest, ReceiptsAreTrue, Change, Label
<1> QED
  BY <1>1, <1>2 DEF InitInv

LEMMA InitInvIsInductive == InitInv /\ [InitStep]_initVars => InitInv'
<1> SUFFICES ASSUME InitInv, [InitStep]_initVars PROVE InitInv'
  OBVIOUS
<1>1. CASE UNCHANGED initVars
  BY <1>1 DEF initVars, InitInv, InitTypes, BuiltForItsManifest, ReceiptsAreTrue, Label
<1>2. ASSUME NEW c \in Callers,
             \/ \E a \in Asked : Call(c, a)
             \/ Replay(c) \/ Begin(c) \/ Build(c) \/ BuildFails(c) \/ Rename(c) \/ CallDies(c)
      PROVE  InitInv'
  BY <1>2, CallKeeps, ReplayKeeps, BeginKeeps, BuildKeeps, BuildFailsKeeps, RenameKeeps,
     CallDiesKeeps
<1>3. CASE Change
  BY <1>3, ChangeKeeps
<1> QED
  BY <1>1, <1>2, <1>3 DEF InitStep

(* Whoever holds a receipt of init, after any race, repetition and crash,  *)
(* asked for the Session that is there and was told its run.               *)
THEOREM ReceiptsStayTrue == InitSpec => []ReceiptsAreTrue
<1>1. InitInv => ReceiptsAreTrue
  BY DEF InitInv
<1> QED
  BY <1>1, StartIsFine, InitInvIsInductive, PTL DEF InitSpec

(* The receipts of an Agent whose Session goes on stay true as well.       *)
THEOREM ReceiptsAreKeptTrue == ViewSpec => []ReceiptsAreTrue
<1>1. ViewInit => InitInv
  BY StartIsFine DEF ViewInit
<1>2. InitInv /\ [ViewNext]_<<vars, initVars, progressVars>> => InitInv'
  <2>1. [ViewNext]_<<vars, initVars, progressVars>> => [InitStep]_initVars
    BY DEF ViewNext, Consult, Admit
  <2>2. QED  BY <2>1, InitInvIsInductive
<1>3. InitInv => ReceiptsAreTrue
  BY DEF InitInv
<1>4. QED  BY <1>1, <1>2, <1>3, PTL DEF ViewSpec

-----------------------------------------------------------------------------
(***************************************************************************)
(* Memory.  How an Agent searches and reads it, and that the calls the     *)
(* Agent makes keep what is proved of them.                                *)
(***************************************************************************)

Row == [body : Bodies, offset : 0..Longest, count : 0..Longest]

(* As long as a search goes on, it has returned each record up to its      *)
(* cursor once, and no other.                                              *)
Cursor ==
  offset >= 0 => /\ offset <= hits
                 /\ \A i \in 1..MaxHits : got[i] = IF i <= offset THEN 1 ELSE 0

PagesInv ==
  TypeOK /\ IsFiniteSet(rows) /\ Cursor /\ EndedSearchIsComplete /\ BasisWasRead

-----------------------------------------------------------------------------
(* Texts and pages                                                         *)

(* Some text is the longest.                                               *)
LEMMA LongestText ==
  Longest \in Nat /\ \A b \in Bodies : Lengths[b] \in Nat /\ Lengths[b] <= Longest
<1> DEFINE All == {Lengths[b] : b \in Bodies}
           Bound(n) == \A b \in Bodies : Lengths[b] <= n
<1>1. \E n \in All : Bound(n)
  BY PagesAssumption DEF Bodies
<1>2. Longest \in All /\ Bound(Longest)
  BY <1>1 DEF Longest
<1>3. \A b \in Bodies : Lengths[b] \in Nat
  BY PagesAssumption DEF Bodies
<1>4. QED  BY <1>2, <1>3

(* A page lies within the longest text.                                    *)
LEMMA PageFits ==
  ASSUME body \in Bodies, NEW start \in 0..Longest, NEW limit \in 1..Longest
  PROVE  PageSize(start, limit) \in 0..Longest
<1>1. Lengths[body] \in Nat /\ Longest \in Nat
  BY LongestText
<1>2. QED  BY <1>1 DEF PageSize, Most, Least

-----------------------------------------------------------------------------
(* A search                                                                *)

(* One page more: the cursor has moved behind what was returned, or        *)
(* everything was.                                                         *)
LEMMA SearchKeeps ==
  ASSUME PagesInv, NEW limit \in 1..MaxPage, Search(limit)
  PROVE  /\ offset' \in -1..MaxHits + MaxPage /\ got' \in [1..MaxHits -> Nat]
         /\ Cursor' /\ EndedSearchIsComplete'
<1> DEFINE left    == Most(hits - offset, 0)
           records == Least(Least(limit + 1, MaxPage), left)
           shown   == Least(records, limit)
<1>1. /\ MaxPage \in Nat \ {0} /\ MaxHits \in Nat /\ hits \in 0..MaxHits
      /\ got \in [1..MaxHits -> Nat] /\ limit \in 1..MaxPage /\ offset \in Int
  BY PagesAssumption DEF PagesInv, TypeOK
<1>2. /\ offset >= 0 /\ offset <= hits /\ hits' = hits
      /\ \A i \in 1..MaxHits : got[i] = IF i <= offset THEN 1 ELSE 0
  BY <1>1 DEF PagesInv, Cursor, Search
<1>3. /\ got' = [i \in 1..MaxHits |->
                   IF i > offset /\ i <= offset + shown THEN got[i] + 1 ELSE got[i]]
      /\ offset' = IF HasMore(records, limit) THEN offset + limit ELSE -1
  BY DEF Search
<1>4. left = hits - offset
  BY <1>1, <1>2 DEF Most
<1>5. records \in Nat /\ shown \in Nat /\ offset + shown <= hits
  BY <1>1, <1>2, <1>4 DEF Least
<1>6. \A i \in 1..MaxHits : got'[i] = IF i <= offset + shown THEN 1 ELSE 0
  BY <1>1, <1>2, <1>3, <1>5
<1>7. CASE HasMore(records, limit)
  <2>1. shown = limit
    BY <1>1, <1>2, <1>4, <1>7 DEF HasMore, Least
  <2>2. QED  BY <1>1, <1>2, <1>3, <1>5, <1>6, <1>7, <2>1 DEF Cursor, EndedSearchIsComplete
<1>8. CASE ~HasMore(records, limit)
  <2>1. offset + shown = hits
    BY <1>1, <1>2, <1>4, <1>8 DEF HasMore, Least
  <2>2. QED  BY <1>1, <1>2, <1>3, <1>5, <1>6, <1>8, <2>1 DEF Cursor, EndedSearchIsComplete
<1>9. QED  BY <1>7, <1>8

-----------------------------------------------------------------------------
(* What complete_reads computes over the sorted pages of a text            *)

IsPages(s, n) == DOMAIN s = 1..n /\ \A i \in 1..n : s[i].offset \in Nat /\ s[i].count \in Nat

(* What FoldLeft computes of the pages at some places of s, for all sets   *)
(* of places up to m.                                                      *)
Ends(g, s, m) ==
  g = [T \in SUBSET (1..m) |->
         IF T = {} THEN 0 ELSE Extended(g[T \ {Max(T)}], s[Max(T)])]

(* The recursive function that FoldLeft is defined with exists.            *)
LEMMA EndsExist ==
  ASSUME NEW s, NEW n \in Nat
  PROVE  \E g : Ends(g, s, n)
<1> DEFINE Without == {m \in 0..n : ~ \E g : Ends(g, s, m)}
<1>1. SUFFICES Without = {}
  OBVIOUS
<1>2. SUFFICES ASSUME Without # {} PROVE FALSE
  OBVIOUS
<1>3. Without \in SUBSET Nat
  OBVIOUS
<1>4. PICK m \in Without : \A k \in Without : m <= k
  BY <1>2, <1>3, SmallestNumber
<1>5. CASE m = 0
  <2>1. Ends([T \in SUBSET (1..0) |-> 0], s, 0)
    <3>1. \A T \in SUBSET (1..0) : T = {}
      OBVIOUS
    <3>2. QED  BY <3>1 DEF Ends
  <2>2. QED  BY <1>4, <1>5, <2>1
<1>6. CASE m # 0
  <2>1. m - 1 \in 0..n /\ m \in 1..n /\ m - 1 \notin Without
    BY <1>4, <1>6
  <2>2. PICK g : Ends(g, s, m - 1)
    BY <2>1
  <2> DEFINE P == SUBSET (1..m)
             h == [T \in P |-> IF m \in T THEN Extended(g[T \ {m}], s[m]) ELSE g[T]]
  <2>3. ASSUME NEW T \in P
        PROVE  h[T] = IF T = {} THEN 0 ELSE Extended(h[T \ {Max(T)}], s[Max(T)])
    <3>1. CASE m \in T
      <4>1. Max(T) = m
        <5>1. T \in SUBSET (1..m) /\ T # {} /\ m \in Nat
          BY <3>1, <2>1
        <5>2. Max(T) \in 1..m /\ m <= Max(T)
          BY <5>1, <3>1, LargestPlace
        <5>3. QED  BY <5>2, <2>1
      <4>2. T \ {m} \in P /\ m \notin T \ {m} /\ T # {}
        BY <3>1
      <4>3. QED  BY <3>1, <4>1, <4>2
    <3>2. CASE m \notin T
      <4>1. T \in SUBSET (1..(m - 1))
        BY <3>2, <2>1
      <4>2. g[T] = IF T = {} THEN 0 ELSE Extended(g[T \ {Max(T)}], s[Max(T)])
        BY <2>2, <4>1 DEF Ends
      <4>3. h[T] = g[T] /\ T \ {Max(T)} \in P /\ h[T \ {Max(T)}] = g[T \ {Max(T)}]
        BY <3>2
      <4>4. QED  BY <4>2, <4>3
    <3>3. QED  BY <3>1, <3>2
  <2>4. h = [T \in P |-> h[T]]
    OBVIOUS
  <2>5. Ends(h, s, m)
    <3> HIDE DEF h
    <3>1. QED  BY <2>3, <2>4 DEF Ends
  <2>6. QED  BY <1>4, <2>5
<1>7. QED  BY <1>5, <1>6

(* What is read to is the last of a run of ends, one for each page.        *)
LEMMA ReadToIsARun ==
  ASSUME NEW n \in Nat, NEW s, IsPages(s, n)
  PROVE  \E e \in [0..n -> Nat] :
           /\ e[0] = 0 /\ ReadTo(s) = e[n]
           /\ \A i \in 1..n : e[i] = Extended(e[i - 1], s[i])
<1> DEFINE G == CHOOSE g : g = [T \in SUBSET DOMAIN s |->
                  IF T = {} THEN 0 ELSE Extended(g[T \ {Max(T)}], s[Max(T)])]
           f == [i \in 0..n |-> G[1..i]]
<1>1. ReadTo(s) = G[DOMAIN s]
  BY DEF ReadTo, FoldLeft, MapThenFoldSet
<1>2. DOMAIN s = 1..n
  BY DEF IsPages
<1>3. Ends(G, s, n)
  <2>1. \E g : Ends(g, s, n)
    BY EndsExist
  <2>2. \E g : g = [T \in SUBSET DOMAIN s |->
                  IF T = {} THEN 0 ELSE Extended(g[T \ {Max(T)}], s[Max(T)])]
    BY <2>1, <1>2 DEF Ends
  <2>3. G = [T \in SUBSET DOMAIN s |->
                  IF T = {} THEN 0 ELSE Extended(G[T \ {Max(T)}], s[Max(T)])]
    BY <2>2
  <2> HIDE DEF G
  <2>4. QED  BY <2>3, <1>2 DEF Ends
<1> HIDE DEF G
<1>4. f[0] = 0 /\ ReadTo(s) = f[n]
  <2>1. 1..0 = {} /\ {} \in SUBSET (1..n)
    OBVIOUS
  <2>2. G[{}] = 0
    BY <1>3, <2>1 DEF Ends
  <2>3. QED  BY <1>1, <1>2, <2>1, <2>2
<1>5. \A i \in 1..n : f[i] = Extended(f[i - 1], s[i])
  <2> SUFFICES ASSUME NEW i \in 1..n PROVE f[i] = Extended(f[i - 1], s[i])
    OBVIOUS
  <2>1. 1..i \in SUBSET (1..n) /\ i \in 1..i /\ 1..i # {} /\ i - 1 \in 0..n
    OBVIOUS
  <2>2. Max(1..i) = i
    <3>1. Max(1..i) \in 1..i /\ i <= Max(1..i)
      BY <2>1, LargestPlace
    <3>2. QED  BY <3>1
  <2>3. (1..i) \ {i} = 1..(i - 1)
    OBVIOUS
  <2>4. G[1..i] = Extended(G[(1..i) \ {Max(1..i)}], s[Max(1..i)])
    BY <1>3, <2>1 DEF Ends
  <2>5. f[i] = G[1..i] /\ f[i - 1] = G[1..(i - 1)]
    BY <2>1
  <2> HIDE DEF f
  <2>6. QED  BY <2>2, <2>3, <2>4, <2>5
<1> HIDE DEF f
<1>6. \A i \in 0..n : f[i] \in Nat
  <2> DEFINE Odd == {i \in 0..n : f[i] \notin Nat}
  <2>1. SUFFICES ASSUME Odd # {} PROVE FALSE
    OBVIOUS
  <2>2. Odd \in SUBSET Nat
    OBVIOUS
  <2>3. PICK i \in Odd : \A j \in Odd : i <= j
    BY <2>1, <2>2, SmallestNumber
  <2>4. i # 0
    BY <1>4, <2>3
  <2>5. i \in 1..n /\ i - 1 \in 0..n /\ i - 1 \notin Odd
    BY <2>3, <2>4
  <2>6. f[i - 1] \in Nat /\ s[i].offset \in Nat /\ s[i].count \in Nat
    BY <2>5 DEF IsPages
  <2>7. f[i] \in Nat
    BY <1>5, <2>5, <2>6 DEF Extended, Most
  <2>8. QED  BY <2>3, <2>7
<1>7. f \in [0..n -> Nat]
  <2>1. f = [i \in 0..n |-> f[i]]
    BY DEF f
  <2>2. QED  BY <1>6, <2>1
<1>8. QED  BY <1>4, <1>5, <1>7

(* Everything up to the end of a run is on its pages; and a page that      *)
(* reaches beyond the end starts behind it, since the pages are sorted.    *)
LEMMA EndsAreJust ==
  ASSUME NEW n \in Nat, NEW s, IsPages(s, n),
         \A i, j \in 1..n : i < j => s[i].offset <= s[j].offset,
         NEW e \in [0..n -> Nat], e[0] = 0,
         \A i \in 1..n : e[i] = Extended(e[i - 1], s[i]),
         NEW k \in 0..n
  PROVE  /\ \A c \in 1..e[k] : \E i \in 1..k : c \in Characters(s[i])
         /\ \A i \in 1..k : s[i].offset + s[i].count <= e[k] \/ s[i].offset > e[k]
<1> DEFINE OnPages(m) == \A c \in 1..e[m] : \E i \in 1..m : c \in Characters(s[i])
           Behind(m) == \A i \in 1..m : \/ s[i].offset + s[i].count <= e[m]
                                        \/ s[i].offset > e[m]
           Odd == {m \in 0..n : ~(OnPages(m) /\ Behind(m))}
<1>1. SUFFICES ASSUME Odd # {} PROVE FALSE
  OBVIOUS
<1>2. Odd \in SUBSET Nat
  OBVIOUS
<1>3. PICK m \in Odd : \A j \in Odd : m <= j
  BY <1>1, <1>2, SmallestNumber
<1>4. m # 0
  <2>1. OnPages(0) /\ Behind(0)
    OBVIOUS
  <2>2. QED  BY <1>3, <2>1
<1>5. m \in 1..n /\ m - 1 \in 0..n /\ m - 1 \notin Odd
  BY <1>3, <1>4
<1>6. OnPages(m - 1) /\ Behind(m - 1)
  BY <1>5
<1> HIDE DEF Odd
<1>7. /\ e[m] = Extended(e[m - 1], s[m]) /\ e[m] \in Nat /\ e[m - 1] \in Nat
      /\ s[m].offset \in Nat /\ s[m].count \in Nat
  BY <1>5 DEF IsPages
<1>8. OnPages(m)
  <2> SUFFICES ASSUME NEW c \in 1..e[m] PROVE \E i \in 1..m : c \in Characters(s[i])
    OBVIOUS
  <2>1. CASE c <= e[m - 1]
    <3>1. c \in 1..e[m - 1]
      BY <2>1, <1>7
    <3>2. PICK i \in 1..(m - 1) : c \in Characters(s[i])
      BY <1>6, <3>1
    <3>3. QED  BY <1>5, <3>2
  <2>2. CASE c > e[m - 1]
    <3>1. s[m].offset <= e[m - 1] /\ e[m] = s[m].offset + s[m].count
      BY <1>7, <2>2 DEF Extended, Most
    <3>2. c \in Characters(s[m])
      BY <1>7, <2>2, <3>1 DEF Characters
    <3>3. QED  BY <1>5, <3>2
  <2>3. QED  BY <1>7, <2>1, <2>2
<1>9. Behind(m)
  <2> SUFFICES ASSUME NEW i \in 1..m
               PROVE  s[i].offset + s[i].count <= e[m] \/ s[i].offset > e[m]
    OBVIOUS
  <2>1. s[i].offset \in Nat /\ s[i].count \in Nat
    BY <1>5 DEF IsPages
  <2>2. CASE i = m
    BY <1>7, <2>1, <2>2 DEF Extended, Most
  <2>3. CASE i # m
    <3> HIDE DEF Behind, Read
    <3>1. i \in 1..(m - 1) /\ i \in 1..n /\ i < m
      <4>1. m \in Int /\ m <= n
        BY <1>5
      <4>2. i \in Int /\ 1 <= i /\ i <= m
        BY <4>1
      <4>3. QED  BY <2>3, <4>1, <4>2
    <3>2. s[i].offset <= s[m].offset
      BY <1>5, <3>1
    <3>3. s[i].offset + s[i].count <= e[m - 1] \/ s[i].offset > e[m - 1]
      BY <1>6, <3>1 DEF Behind
    <3>4. e[m] = e[m - 1] \/ (s[m].offset <= e[m - 1] /\ e[m] >= e[m - 1])
      BY <1>7 DEF Extended, Most
    <3>5. QED  BY <1>7, <2>1, <3>2, <3>3, <3>4
  <2>4. QED  BY <2>2, <2>3
<1>10. QED  BY <1>3, <1>8, <1>9 DEF Odd

(* The pages of a text reach its end if and only if they cover it.         *)
LEMMA PagesDecide ==
  ASSUME NEW n \in Nat, NEW s, IsPages(s, n),
         \A i, j \in 1..n : i < j => s[i].offset <= s[j].offset, NEW length \in Nat
  PROVE  ReadTo(s) >= length
           <=> \A c \in 1..length : \E i \in 1..n : c \in Characters(s[i])
<1>1. PICK e \in [0..n -> Nat] : /\ e[0] = 0 /\ ReadTo(s) = e[n]
                                 /\ \A i \in 1..n : e[i] = Extended(e[i - 1], s[i])
  BY ReadToIsARun
<1>2. /\ \A c \in 1..e[n] : \E i \in 1..n : c \in Characters(s[i])
      /\ \A i \in 1..n : s[i].offset + s[i].count <= e[n] \/ s[i].offset > e[n]
  <2>1. n \in 0..n
    OBVIOUS
  <2>2. QED  BY <1>1, <2>1, EndsAreJust
<1>3. e[n] \in Nat
  BY <1>1
<1>4. ASSUME ReadTo(s) >= length, NEW c \in 1..length
      PROVE  \E i \in 1..n : c \in Characters(s[i])
  <2>1. c \in 1..e[n]
    BY <1>1, <1>3, <1>4
  <2>2. QED  BY <1>2, <2>1
<1>5. ASSUME ~(ReadTo(s) >= length)
      PROVE  \E c \in 1..length : \A i \in 1..n : c \notin Characters(s[i])
  <2>1. e[n] + 1 \in 1..length
    BY <1>1, <1>3, <1>5
  <2>2. ASSUME NEW i \in 1..n PROVE e[n] + 1 \notin Characters(s[i])
    <3>1. s[i].offset \in Nat /\ s[i].count \in Nat
      BY DEF IsPages
    <3>2. s[i].offset + s[i].count <= e[n] \/ s[i].offset > e[n]
      BY <1>2
    <3>3. QED  BY <1>3, <3>1, <3>2 DEF Characters
  <2>3. QED  BY <2>1, <2>2
<1>6. QED  BY <1>4, <1>5

-----------------------------------------------------------------------------
(* Reading                                                                 *)

(* A sequence of the rows of a text is one of all of them, sorted.         *)
LEMMA OrdersAreOfAll ==
  ASSUME rows \subseteq Row, IsFiniteSet(rows), NEW b \in Bodies, NEW s \in Orders(b)
  PROVE  \E n \in Nat : /\ IsPages(s, n)
                        /\ \A i, j \in 1..n : i < j => s[i].offset <= s[j].offset
                        /\ \A c : c \in Covered(b) <=> \E i \in 1..n : c \in Characters(s[i])
<1> DEFINE S == {row \in rows : row.body = b}
           n == Cardinality(S)
<1>1. IsFiniteSet(S) /\ n \in Nat /\ S \subseteq Row
  BY FS_Subset, FS_CardinalityType
<1>2. /\ s \in [1..n -> S] /\ \A i, j \in 1..n : i # j => s[i] # s[j]
      /\ \A i, j \in DOMAIN s : i < j => s[i].offset <= s[j].offset
  BY DEF Orders, SetToSeqs
<1> HIDE DEF S, n
<1>3. s \in Injection(1..n, S)
  BY <1>2 DEF Injection, IsInjective
<1>4. s \in Surjection(1..n, S)
  <2>1. Cardinality(1..n) = n
    BY <1>1, FS_Interval
  <2>2. QED  BY <1>1, <1>3, <2>1, FS_Injection DEF n
<1>5. \A row \in S : \E i \in 1..n : s[i] = row
  BY <1>4 DEF Surjection
<1>6. IsPages(s, n)
  <2>1. Longest \in Nat
    BY LongestText
  <2>2. \A i \in 1..n : s[i] \in Row
    BY <1>1, <1>2
  <2>3. QED  BY <1>2, <2>1, <2>2 DEF IsPages, Row
<1>7. \A c : c \in Covered(b) <=> \E row \in S : c \in Characters(row)
  BY DEF Covered, S
<1>8. \A c : c \in Covered(b) <=> \E i \in 1..n : c \in Characters(s[i])
  BY <1>2, <1>5, <1>7
<1>9. QED  BY <1>1, <1>2, <1>6, <1>8

(* The running end decides whether the pages of a text cover it.           *)
LEMMA EndsDecide ==
  ASSUME rows \subseteq Row, IsFiniteSet(rows)
  PROVE  CompleteMeansCovered
<1> SUFFICES ASSUME NEW b \in Bodies, NEW s \in Orders(b)
             PROVE  (ReadTo(s) >= Lengths[b]) <=> (1..Lengths[b] \subseteq Covered(b))
  BY DEF CompleteMeansCovered
<1>1. PICK n \in Nat : /\ IsPages(s, n)
                       /\ \A i, j \in 1..n : i < j => s[i].offset <= s[j].offset
                       /\ \A c : c \in Covered(b) <=> \E i \in 1..n : c \in Characters(s[i])
  BY OrdersAreOfAll
<1>2. Lengths[b] \in Nat
  BY LongestText
<1>3. ReadTo(s) >= Lengths[b]
        <=> \A c \in 1..Lengths[b] : \E i \in 1..n : c \in Characters(s[i])
  BY <1>1, <1>2, PagesDecide
<1>4. QED  BY <1>1, <1>3

(* A plan is accepted when the text it finds was read completely.          *)
LEMMA PlanKeeps ==
  ASSUME rows \subseteq Row, IsFiniteSet(rows), SubmitPlan
  PROVE  BasisWasRead'
<1>1. PICK b \in Bodies : Complete(b) /\ b = body
  BY DEF SubmitPlan, Accepts
<1>2. PICK s \in Orders(b) : ReadTo(s) >= Lengths[b]
  BY <1>1 DEF Complete
<1>3. 1..Lengths[b] \subseteq Covered(b)
  BY <1>2, EndsDecide DEF CompleteMeansCovered
<1>4. basis' = b /\ rows' = rows
  BY <1>1 DEF SubmitPlan
<1>5. Covered(b)' = Covered(b)
  BY <1>4 DEF Covered
<1>6. QED  BY <1>3, <1>4, <1>5 DEF BasisWasRead, Covered

(* A page more, and no plan that rests on it yet.                          *)
LEMMA ReadKeeps ==
  ASSUME PagesInv, NEW start \in 0..Longest, NEW limit \in 1..Longest, Read(start, limit)
  PROVE  rows' \subseteq Row /\ IsFiniteSet(rows') /\ BasisWasRead'
<1> DEFINE page == [body |-> body, offset |-> start, count |-> PageSize(start, limit)]
<1>1. body \in Bodies /\ rows \subseteq Row /\ IsFiniteSet(rows)
  BY DEF PagesInv, TypeOK, Row
<1>2. rows' = rows \cup {page} /\ basis = NoPlan /\ basis' = basis
  BY DEF Read
<1>3. page \in Row
  BY <1>1, PageFits DEF Row
<1> HIDE DEF page
<1>4. IsFiniteSet(rows')
  BY <1>1, <1>2, FS_AddElement
<1>5. QED  BY <1>1, <1>2, <1>3, <1>4 DEF BasisWasRead

-----------------------------------------------------------------------------
(* The invariant and what follows from it                                  *)

LEMMA PagesStart ==
  ASSUME Init
  PROVE  PagesInv
<1>1. MaxPage \in Nat \ {0} /\ MaxHits \in Nat
  BY PagesAssumption
<1>2. TypeOK
  BY <1>1 DEF Init, TypeOK
<1>3. Cursor /\ EndedSearchIsComplete
  BY <1>1 DEF Init, Cursor, EndedSearchIsComplete
<1>4. IsFiniteSet(rows) /\ BasisWasRead
  BY FS_EmptySet DEF Init, BasisWasRead
<1>5. QED  BY <1>2, <1>3, <1>4 DEF PagesInv

LEMMA PagesKeep ==
  ASSUME PagesInv, [Next]_vars
  PROVE  PagesInv'
<1>1. TypeOK /\ IsFiniteSet(rows) /\ Cursor /\ EndedSearchIsComplete /\ BasisWasRead
  BY DEF PagesInv
<1>2. CASE SearchStep
  <2>1. PICK limit \in 1..MaxPage : Search(limit)
    BY <1>2 DEF SearchStep
  <2>2. /\ offset' \in -1..MaxHits + MaxPage /\ got' \in [1..MaxHits -> Nat]
        /\ Cursor' /\ EndedSearchIsComplete'
    BY <2>1, SearchKeeps
  <2>3. UNCHANGED <<body, rows, basis, hits>>
    BY <2>1 DEF Search
  <2>4. TypeOK'
    BY <1>1, <2>2, <2>3 DEF TypeOK
  <2>5. BasisWasRead'
    BY <1>1, <2>3 DEF BasisWasRead, Covered
  <2>6. QED  BY <1>1, <2>2, <2>3, <2>4, <2>5 DEF PagesInv
<1>3. CASE ReadStep
  <2>1. PICK start \in 0..Longest, limit \in 1..Longest : Read(start, limit)
    BY <1>3 DEF ReadStep
  <2>2. rows' \subseteq Row /\ IsFiniteSet(rows') /\ BasisWasRead'
    BY <2>1, ReadKeeps
  <2>3. UNCHANGED <<body, basis, hits, offset, got>>
    BY <2>1 DEF Read
  <2>4. TypeOK' /\ Cursor' /\ EndedSearchIsComplete'
    BY <1>1, <2>2, <2>3 DEF TypeOK, Row, Cursor, EndedSearchIsComplete
  <2>5. QED  BY <2>2, <2>4 DEF PagesInv
<1>4. CASE SubmitPlan
  <2>1. UNCHANGED <<body, rows, hits, offset, got>> /\ basis' = body
    BY <1>4 DEF SubmitPlan
  <2>2. BasisWasRead'
    BY <1>1, <1>4, PlanKeeps DEF TypeOK, Row
  <2>3. TypeOK' /\ Cursor' /\ EndedSearchIsComplete'
    BY <1>1, <2>1 DEF TypeOK, Cursor, EndedSearchIsComplete
  <2>4. QED  BY <1>1, <2>1, <2>2, <2>3 DEF PagesInv
<1>5. CASE Edit
  <2>1. UNCHANGED <<rows, basis, hits, offset, got>> /\ body' \in Bodies
    BY <1>5 DEF Edit
  <2>2. TypeOK' /\ Cursor' /\ EndedSearchIsComplete'
    BY <1>1, <2>1 DEF TypeOK, Cursor, EndedSearchIsComplete
  <2>3. BasisWasRead'
    BY <1>1, <2>1 DEF BasisWasRead, Covered
  <2>4. QED  BY <1>1, <2>1, <2>2, <2>3 DEF PagesInv
<1>6. CASE UNCHANGED vars
  <2>1. UNCHANGED <<body, rows, hits, offset, got, basis>>
    BY <1>6 DEF vars
  <2>2. TypeOK' /\ Cursor' /\ EndedSearchIsComplete' /\ BasisWasRead'
    BY <1>1, <2>1 DEF TypeOK, Cursor, EndedSearchIsComplete, BasisWasRead, Covered
  <2>3. QED  BY <1>1, <2>1, <2>2 DEF PagesInv
<1>7. QED  BY <1>2, <1>3, <1>4, <1>5, <1>6 DEF Next

(* The inductive invariant: a search has returned each record up to its    *)
(* cursor once, and a plan rests on a text that was read, whatever an      *)
(* Agent searches and reads and whenever a text is edited.                 *)
THEOREM PagesInvariant == Spec => []PagesInv
<1>1. QED  BY PagesStart, PagesKeep, PTL DEF Spec

(* Of everything an Agent does (AgentView), only its searches, reads and   *)
(* plans, and the edits of others, change what is modelled here.           *)
LEMMA ViewIsOfPages == ViewInit /\ [][ViewNext]_<<vars, initVars, progressVars>>
                         => Spec
<1>1. ViewInit => Init
  BY DEF ViewInit
<1>2. ASSUME [ViewNext]_<<vars, initVars, progressVars>> PROVE [Next]_vars
  <2>1. CASE Consult
    BY <2>1 DEF Consult, Next
  <2>2. CASE UNCHANGED vars
    BY <2>2
  <2>3. QED  BY <1>2, <2>1, <2>2 DEF ViewNext
<1>3. QED  BY <1>1, <1>2, PTL DEF Spec

(* A search of memory that followed its cursors to the end has returned    *)
(* every record once, whatever the pages it asked for (memory_search).     *)
THEOREM EndedSearchesAreComplete == ViewSpec => []EndedSearchIsComplete
<1>1. PagesInv => EndedSearchIsComplete
  BY DEF PagesInv
<1>2. QED  BY <1>1, ViewIsOfPages, PagesInvariant, PTL DEF ViewSpec

(* The end that complete_reads computes over the sorted pages of a text    *)
(* decides whether they cover it, and a plan that was accepted rests on a  *)
(* text that was read to its last character.                               *)
THEOREM ReadingIsAlwaysDecided == ViewSpec => []ReadingIsDecided
<1>1. ASSUME PagesInv PROVE ReadingIsDecided
  <2>1. rows \subseteq Row /\ IsFiniteSet(rows) /\ BasisWasRead
    BY <1>1 DEF PagesInv, TypeOK, Row
  <2>2. QED  BY <2>1, EndsDecide DEF ReadingIsDecided
<1>2. QED  BY <1>1, ViewIsOfPages, PagesInvariant, PTL DEF ViewSpec

-----------------------------------------------------------------------------
(***************************************************************************)
(* Progress.  What is said of a round is computed from the facts of the    *)
(* rounds before; it is shown to be what the evaluations of all rounds     *)
(* say.                                                                    *)
(***************************************************************************)

(* Evaluations and facts                                                   *)

Trial == [origin : {"baseline", "explicit_parent", "generated", "generated_repair"},
          program : Programs, sound : BOOLEAN, phase : Phases \cup {Nothing, Waiting}]

Counts  == [novel : Nat, again : Nat, made : Nat, copies : Nat]
FactRow == [trials : Seq(Trial), before : Nat \cup {Nothing}, after : Nat \cup {Nothing},
            window : Counts, cumulative : Counts,
            verdict : {Nothing, "disabled", "insufficient", "progress", "stagnated"}]

(* The evaluations of the rounds from i to j.                              *)
Rows(fs, i, j) == [k \in 1..(j - i + 1) |-> fs[i + k - 1].trials]
Part(fs, i, j) == FlattenSeq(Rows(fs, i, j))

LEMMA RowsHaveTrials ==
  ASSUME NEW fs \in Seq(FactRow), NEW i \in 1..Len(fs)
  PROVE  fs[i] \in FactRow /\ fs[i].trials \in Seq(Trial)
<1>1. fs[i] \in FactRow
  OBVIOUS
<1>2. QED  BY <1>1 DEF FactRow

LEMMA RowsAre ==
  ASSUME NEW fs \in Seq(FactRow), NEW i \in 1..(Len(fs) + 1), NEW j \in 0..Len(fs), i <= j + 1
  PROVE  Rows(fs, i, j) \in Seq(Seq(Trial)) /\ Len(Rows(fs, i, j)) = j - i + 1
<1>1. j - i + 1 \in Nat
  OBVIOUS
<1>2. ASSUME NEW k \in 1..(j - i + 1) PROVE fs[i + k - 1].trials \in Seq(Trial)
  <2>1. i + k - 1 \in 1..Len(fs)
    OBVIOUS
  <2>2. QED  BY <2>1, RowsHaveTrials
<1>3. QED  BY <1>1, <1>2 DEF Rows

LEMMA PartIs ==
  ASSUME NEW fs \in Seq(FactRow), NEW i \in 1..(Len(fs) + 1), NEW j \in 0..Len(fs), i <= j + 1
  PROVE  Part(fs, i, j) \in Seq(Trial) /\ Len(Part(fs, i, j)) \in Nat
<1>1. Part(fs, i, j) \in Seq(Trial)
  BY RowsAre, FlatIs DEF Part
<1>2. QED  BY <1>1

LEMMA PartOfNothing ==
  ASSUME NEW fs \in Seq(FactRow), NEW i \in 1..(Len(fs) + 1)
  PROVE  Part(fs, i, i - 1) = <<>>
<1>1. i - 1 \in 0..Len(fs) /\ i <= (i - 1) + 1 /\ (i - 1) - i + 1 = 0
  OBVIOUS
<1>2. Rows(fs, i, i - 1) \in Seq(Seq(Trial)) /\ Len(Rows(fs, i, i - 1)) = 0
  BY <1>1, RowsAre
<1>3. QED  BY <1>2 DEF Part, FlattenSeq

(* A round more is put behind.                                             *)
LEMMA PartAppends ==
  ASSUME NEW fs \in Seq(FactRow), NEW i \in 1..Len(fs), NEW j \in 1..Len(fs), i <= j
  PROVE  Part(fs, i, j) = Part(fs, i, j - 1) \o fs[j].trials
<1>1. j - 1 \in 0..Len(fs) /\ i <= (j - 1) + 1 /\ i \in 1..(Len(fs) + 1) /\ (j - 1) - i + 1 = j - i
  OBVIOUS
<1>2. Rows(fs, i, j - 1) \in Seq(Seq(Trial)) /\ Len(Rows(fs, i, j - 1)) = j - i
  BY <1>1, RowsAre
<1>3. fs[j].trials \in Seq(Trial)
  BY RowsHaveTrials
<1>4. Rows(fs, i, j) = Append(Rows(fs, i, j - 1), fs[j].trials)
  <2>1. j - i + 1 \in Nat /\ j - i \in Nat /\ i + (j - i + 1) - 1 = j
    OBVIOUS
  <2>2. Rows(fs, i, j - 1) = [k \in 1..(j - i) |-> fs[i + k - 1].trials]
    BY <1>1 DEF Rows
  <2>3. Rows(fs, i, j) = [k \in 1..(j - i + 1) |-> fs[i + k - 1].trials]
    BY DEF Rows
  <2> DEFINE m == j - i
             f == [k \in 1..m |-> fs[i + k - 1].trials]
             g == [k \in 1..(m + 1) |-> fs[i + k - 1].trials]
  <2>4. g = Append(f, fs[j].trials)
    <3>1. m \in Nat /\ Len(f) = m /\ Len(g) = m + 1 /\ i + (m + 1) - 1 = j
      BY <2>1
    <3>2. \A k \in 1..m : f[k] = fs[i + k - 1].trials /\ g[k] = fs[i + k - 1].trials
      BY <3>1
    <3>3. g[m + 1] = fs[j].trials
      BY <3>1
    <3> HIDE DEF m
    <3>4. QED  BY <3>1, <3>2, <3>3
  <2>5. QED  BY <2>2, <2>3, <2>4
<1>5. Part(fs, i, j) = FlattenSeq(Append(Rows(fs, i, j - 1), fs[j].trials))
  BY <1>4 DEF Part
<1>6. FlattenSeq(Append(Rows(fs, i, j - 1), fs[j].trials))
        = FlattenSeq(Rows(fs, i, j - 1)) \o fs[j].trials
  BY <1>2, <1>3, FlatAppends
<1>7. QED  BY <1>5, <1>6 DEF Part

(* The rounds from i to j are those of every sequence that agrees to j.    *)
LEMMA PartStable ==
  ASSUME NEW fs, NEW gs, NEW i \in Nat \ {0}, NEW j \in Nat,
         \A k \in 1..j : fs[k].trials = gs[k].trials
  PROVE  Part(fs, i, j) = Part(gs, i, j)
<1>1. \A k \in 1..(j - i + 1) : i + k - 1 \in 1..j
  OBVIOUS
<1>2. \A k \in 1..(j - i + 1) : fs[i + k - 1].trials = gs[i + k - 1].trials
  BY <1>1
<1>3. Rows(fs, i, j) = Rows(gs, i, j)
  BY <1>2 DEF Rows
<1>4. QED  BY <1>3 DEF Part

(* A round more may as well be put before.                                 *)
LEMMA PartBegins ==
  ASSUME NEW fs \in Seq(FactRow), NEW n \in 1..Len(fs), NEW i \in 1..n
  PROVE  Part(fs, i, n) = fs[i].trials \o Part(fs, i + 1, n)
<1> DEFINE Odd == {j \in i..n : Part(fs, i, j) # fs[i].trials \o Part(fs, i + 1, j)}
<1>0. n \in Nat /\ i \in Nat /\ n \in i..n /\ i..n \in SUBSET Nat /\ i \in 1..Len(fs)
  OBVIOUS
<1>1. SUFFICES ASSUME Odd # {} PROVE FALSE
  BY <1>0
<1>2. Odd \in SUBSET Nat
  BY <1>0
<1>3. PICK j \in Odd : \A k \in Odd : j <= k
  BY <1>1, <1>2, SmallestNumber
<1>4. j \in i..n /\ Part(fs, i, j) # fs[i].trials \o Part(fs, i + 1, j)
  BY <1>3
<1>5. fs[i].trials \in Seq(Trial) /\ i \in 1..Len(fs) /\ i + 1 \in 1..(Len(fs) + 1)
  BY <1>0, RowsHaveTrials
<1>6. CASE j = i
  <2>1. Part(fs, i, i - 1) = <<>> /\ Part(fs, i + 1, i) = <<>>
    <3>1. (i + 1) - 1 = i /\ i \in 1..(Len(fs) + 1)
      BY <1>5
    <3>2. QED  BY <1>5, <3>1, PartOfNothing
  <2>2. Part(fs, i, i) = <<>> \o fs[i].trials
    <3>1. i \in Nat /\ i <= i
      BY <1>0
    <3>2. QED  BY <1>5, <2>1, <3>1, PartAppends
  <2>3. <<>> \o fs[i].trials = fs[i].trials \o <<>>
    BY <1>5
  <2>4. QED  BY <1>4, <1>6, <2>1, <2>2, <2>3
<1>7. CASE j # i
  <2>1. /\ j - 1 \in i..n /\ ~ (j <= j - 1) /\ j \in 1..Len(fs) /\ i <= j /\ i + 1 <= j
        /\ i + 1 \in 1..Len(fs) /\ j - 1 \in 0..Len(fs) /\ i + 1 <= (j - 1) + 1
    BY <1>4, <1>7
  <2>2. Part(fs, i, j - 1) = fs[i].trials \o Part(fs, i + 1, j - 1)
    BY <1>3, <2>1
  <2>3. Part(fs, i, j) = Part(fs, i, j - 1) \o fs[j].trials
    BY <1>5, <2>1, PartAppends
  <2>4. Part(fs, i + 1, j) = Part(fs, i + 1, j - 1) \o fs[j].trials
    BY <2>1, PartAppends
  <2>5. Part(fs, i + 1, j - 1) \in Seq(Trial) /\ fs[j].trials \in Seq(Trial)
    BY <1>5, <2>1, PartIs, RowsHaveTrials
  <2> DEFINE a == fs[i].trials
             b == Part(fs, i + 1, j - 1)
             c == fs[j].trials
  <2>6. a \in Seq(Trial) /\ b \in Seq(Trial) /\ c \in Seq(Trial)
    BY <1>5, <2>5
  <2> HIDE DEF a, b, c
  <2>7. (a \o b) \o c = a \o (b \o c)
    BY <2>6
  <2>8. QED  BY <1>4, <2>2, <2>3, <2>4, <2>7 DEF a, b, c
<1>8. QED  BY <1>6, <1>7

-----------------------------------------------------------------------------
(* What a part of the evaluations has                                      *)

IsGenerated  == {t \in Trial : t.origin = "generated"}
IsComparable == {t \in IsGenerated : t.sound}
InPhase(ph)  == {t \in Trial : t.phase = ph}

LEMMA CountsArePlaces ==
  ASSUME NEW ts \in Seq(Trial)
  PROVE  /\ Generated(ts) = Places(ts, IsGenerated) /\ Comparable(ts) = Places(ts, IsComparable)
         /\ Cardinality(Generated(ts)) \in Nat /\ Cardinality(Comparable(ts)) \in Nat
         /\ IsFiniteSet(Comparable(ts))
         /\ \A ph : {i \in DOMAIN ts : ts[i].phase = ph} = Places(ts, InPhase(ph))
<1>1. \A i \in DOMAIN ts : ts[i] \in Trial
  OBVIOUS
<1>2. Generated(ts) = Places(ts, IsGenerated)
  BY <1>1 DEF Generated, Places, IsGenerated
<1>3. Comparable(ts) = Places(ts, IsComparable)
  BY <1>1 DEF Comparable, Generated, Places, IsComparable, IsGenerated
<1>4. \A ph : {i \in DOMAIN ts : ts[i].phase = ph} = Places(ts, InPhase(ph))
  BY <1>1 DEF Places, InPhase
<1>5. QED  BY <1>2, <1>3, <1>4, PlacesAreFinite

(* The counts of two parts add up.                                         *)
LEMMA CountsAdd ==
  ASSUME NEW s \in Seq(Trial), NEW t \in Seq(Trial)
  PROVE  /\ Len(s \o t) = Len(s) + Len(t)
         /\ Cardinality(Generated(s \o t)) = Cardinality(Generated(s)) + Cardinality(Generated(t))
         /\ Cardinality(Comparable(s \o t))
              = Cardinality(Comparable(s)) + Cardinality(Comparable(t))
<1>1. s \o t \in Seq(Trial) /\ Len(s \o t) = Len(s) + Len(t)
  OBVIOUS
<1>2. \A S : Cardinality(Places(s \o t, S)) = Cardinality(Places(s, S)) + Cardinality(Places(t, S))
  BY PlacesAdd
<1>3. QED  BY <1>1, <1>2, CountsArePlaces

LEMMA CountsOfNothing ==
  Len(<<>>) = 0 /\ Cardinality(Generated(<<>>)) = 0 /\ Cardinality(Comparable(<<>>)) = 0
<1>1. <<>> \in Seq(Trial)
  OBVIOUS
<1>2. QED  BY <1>1, CountsArePlaces, PlacesOfNothing

(* The smallest of what is sound, where there is any.                      *)
Worths(ts) == {Worth[t.program] : t \in {u \in ToSet(ts) : u.sound}}

LEMMA WorthsAre ==
  ASSUME NEW ts \in Seq(Trial)
  PROVE  Worths(ts) \in SUBSET Nat
<1>1. \A t \in ToSet(ts) : t \in Trial
  BY DEF ToSet
<1>2. \A t \in Trial : Worth[t.program] \in Nat
  BY ProgressAssumption DEF Trial, Programs
<1>3. QED  BY <1>1, <1>2 DEF Worths

LEMMA BestIs ==
  ASSUME NEW ts \in Seq(Trial), NEW other \in Nat \cup {Nothing}
  PROVE  LET found == Worths(ts) \cup ({other} \ {Nothing}) IN
         /\ found = {} => Best(ts, other) = Nothing
         /\ found # {} => /\ Best(ts, other) \in found
                          /\ \A m \in found : Best(ts, other) <= m
         /\ found \in SUBSET Nat /\ Best(ts, other) \in Nat \cup {Nothing}
<1> DEFINE found == Worths(ts) \cup ({other} \ {Nothing})
<1>1. found \in SUBSET Nat
  BY WorthsAre
<1>2. Best(ts, other)
        = IF found = {} THEN Nothing ELSE CHOOSE n \in found : \A m \in found : n <= m
  BY DEF Best, Worths
<1> HIDE DEF found
<1>3. found # {} => /\ Best(ts, other) \in found
                    /\ \A m \in found : Best(ts, other) <= m
  <2>1. ASSUME found # {}
        PROVE  Best(ts, other) \in found /\ \A m \in found : Best(ts, other) <= m
    <3>1. \E n \in found : \A m \in found : n <= m
      BY <1>1, <2>1, SmallestNumber
    <3>2. Best(ts, other) = CHOOSE n \in found : \A m \in found : n <= m
      BY <1>2, <2>1
    <3>3. QED  BY <3>1, <3>2
  <2>2. QED  BY <2>1
<1>4. QED  BY <1>1, <1>2, <1>3 DEF found

(* The best of two parts is the best of the second and of what the first   *)
(* had as its best.                                                        *)
LEMMA BestGoesOn ==
  ASSUME NEW s \in Seq(Trial), NEW t \in Seq(Trial)
  PROVE  Best(s \o t, Nothing) = Best(t, Best(s, Nothing))
<1> DEFINE a == Best(s, Nothing)
           b == Best(t, a)
           c == Best(s \o t, Nothing)
           A == Worths(s) \cup ({Nothing} \ {Nothing})
           B == Worths(t) \cup ({a} \ {Nothing})
           C == Worths(s \o t) \cup ({Nothing} \ {Nothing})
<1>1. s \o t \in Seq(Trial) /\ Nothing \in Nat \cup {Nothing}
  OBVIOUS
<1>2. Worths(s \o t) = Worths(s) \cup Worths(t)
  BY ToSetOfTwo DEF Worths
<1>3. /\ A = {} => a = Nothing
      /\ A # {} => a \in A /\ \A m \in A : a <= m
      /\ A \in SUBSET Nat /\ a \in Nat \cup {Nothing}
  BY <1>1, BestIs
<1> HIDE DEF a
<1>4. /\ B = {} => b = Nothing
      /\ B # {} => b \in B /\ \A m \in B : b <= m
      /\ B \in SUBSET Nat
  BY <1>3, BestIs
<1>5. /\ C = {} => c = Nothing
      /\ C # {} => c \in C /\ \A m \in C : c <= m
      /\ C \in SUBSET Nat
  BY <1>1, BestIs
<1>6. A = Worths(s) /\ C = A \cup Worths(t) /\ B = Worths(t) \cup ({a} \ {Nothing})
  BY <1>2
<1>7. Nothing \notin Nat
  BY ProgressAssumption
<1> HIDE DEF b, c, A, B, C
<1>8. CASE A = {}
  <2>1. B = C
    BY <1>3, <1>6, <1>8
  <2>2. QED
    <3>1. CASE C = {}
      BY <1>4, <1>5, <2>1, <3>1 DEF a, b, c
    <3>2. CASE C # {}
      <4>1. b \in Nat /\ c \in Nat /\ b <= c /\ c <= b
        BY <1>4, <1>5, <2>1, <3>2
      <4>2. b = c
        BY <4>1
      <4>3. QED  BY <4>2 DEF a, b, c
    <3>3. QED  BY <3>1, <3>2
<1>9. CASE A # {}
  <2>1. a \in A /\ a \in Nat /\ a \in B /\ a \in C /\ a # Nothing
    BY <1>3, <1>6, <1>7, <1>9
  <2>2. b \in Nat /\ c \in Nat /\ b \in C /\ (c \in B \/ c \in A)
    BY <1>4, <1>5, <1>6, <2>1
  <2>3. c <= b
    BY <1>5, <2>2
  <2>4. b <= c
    <3>1. CASE c \in B
      BY <1>4, <3>1
    <3>2. CASE c \in A
      <4>1. b <= a /\ a <= c
        BY <1>3, <1>4, <2>1, <3>2
      <4>2. QED  BY <2>1, <2>2, <4>1
    <3>3. QED  BY <2>2, <3>1, <3>2
  <2>5. b = c
    BY <2>2, <2>3, <2>4
  <2>6. QED  BY <2>5 DEF a, b, c
<1>10. QED  BY <1>8, <1>9

LEMMA BestOfNothing == Best(<<>>, Nothing) = Nothing
<1>1. <<>> \in Seq(Trial) /\ Worths(<<>>) \cup ({Nothing} \ {Nothing}) = {}
  BY DEF Worths, ToSet
<1>2. Nothing \in Nat \cup {Nothing}
  OBVIOUS
<1>3. QED  BY <1>1, <1>2, BestIs

-----------------------------------------------------------------------------
(* Folds over evaluations and over facts, value by value                   *)

CountAll(base, s) == FoldLeft(Count, base, s)
CountStays(V, K) == \A a \in V, x \in K : Count(a, x) \in V

LEMMA CountWalks ==
  ASSUME NEW V, NEW K, NEW s \in Seq(K), NEW base \in V, CountStays(V, K)
  PROVE  \E h \in [0..Len(s) -> V] :
           /\ h[0] = base /\ h[Len(s)] = CountAll(base, s)
           /\ \A k \in 1..Len(s) : h[k] = Count(h[k - 1], s[k])
<1> DEFINE n == Len(s)
           F == [p \in V \X (1..n) |-> Count(p[1], s[p[2]])]
           G == CHOOSE g : g = [T \in SUBSET DOMAIN s |->
                  IF T = {} THEN base ELSE Count(g[T \ {Max(T)}], s[Max(T)])]
           Body(h, T) == IF T = {} THEN base ELSE Count(h[T \ {Max(T)}], s[Max(T)])
<1>0. n \in Nat /\ DOMAIN s = 1..n /\ \A i \in 1..n : s[i] \in K
  OBVIOUS
<1>1. /\ F \in [V \X (1..n) -> V]
      /\ \A a \in V, i \in 1..n : F[<<a, i>>] = Count(a, s[i])
  BY <1>0 DEF CountStays
<1> HIDE DEF F, n
<1>3. PICK g : FoldsTo(g, F, base, V, n)
  BY <1>0, <1>1, FoldExists
<1>4. G = [T \in SUBSET DOMAIN s |-> Body(G, T)]
  <2>1. ASSUME NEW T \in SUBSET (1..n) PROVE g[T] = Body(g, T)
    <3>1. CASE T = {}
      BY <3>1, <1>3 DEF FoldsTo
    <3>2. CASE T # {}
      <4>1. Max(T) \in 1..n /\ T \ {Max(T)} \in SUBSET (1..n)
        BY <1>0, <3>2, LargestOfPlaces
      <4>2. g[T \ {Max(T)}] \in V /\ g[T] = F[<<g[T \ {Max(T)}], Max(T)>>]
        BY <4>1, <3>2, <1>3 DEF FoldsTo
      <4> HIDE DEF G
      <4>4. QED  BY <4>1, <4>2, <1>1, <3>2
    <3>3. QED  BY <3>1, <3>2
  <2> HIDE DEF Body
  <2>2. g = [T \in SUBSET (1..n) |-> g[T]]
    BY <1>3 DEF FoldsTo
  <2>3. g = [T \in SUBSET DOMAIN s |-> Body(g, T)]
    BY <1>0, <2>1, <2>2
  <2> USE DEF Body
  <2>4. \E h : h = [T \in SUBSET DOMAIN s |-> Body(h, T)]
    BY <2>3
  <2>5. QED  BY <2>4
<1>5. CountAll(base, s) = G[DOMAIN s]
  BY DEF CountAll, FoldLeft, MapThenFoldSet
<1>6. G[{}] = base
  <2>1. {} \in SUBSET DOMAIN s
    OBVIOUS
  <2> HIDE DEF G
  <2>2. QED  BY <2>1, <1>4
<1> HIDE DEF G
<1>7. ASSUME NEW T \in SUBSET (1..n), T # {}, G[T \ {Max(T)}] \in V
      PROVE  G[T] \in V /\ G[T] = F[<<G[T \ {Max(T)}], Max(T)>>]
  <2>1. Max(T) \in 1..n
    BY <1>0, <1>7, LargestOfPlaces
  <2>2. G[T] = Count(G[T \ {Max(T)}], s[Max(T)])
    BY <1>0, <1>4, <1>7
  <2>3. s[Max(T)] \in K
    BY <1>0, <2>1
  <2>4. QED  BY <1>1, <1>7, <2>1, <2>2, <2>3 DEF CountStays
<1> HIDE DEF Body
<1>8. PICK h \in [0..n -> V] : Walks(h, F, base, n) /\ h[n] = G[1..n]
  <2>1. n \in Nat /\ base \in V
    BY <1>0
  <2>2. Unfolds(G, F, base, V, n)
    BY <1>6, <1>7 DEF Unfolds
  <2>3. QED  BY <2>1, <2>2, FoldWalks
<1>9. ASSUME NEW k \in 1..n PROVE h[k] = Count(h[k - 1], s[k])
  <2>1. k - 1 \in 0..n
    BY <1>0
  <2>2. h[k - 1] \in V
    BY <2>1
  <2>3. h[k] = F[<<h[k - 1], k>>]
    BY <1>8 DEF Walks
  <2>4. QED  BY <1>1, <2>2, <2>3
<1>10. h[0] = base /\ h[n] = CountAll(base, s)
  BY <1>0, <1>5, <1>8 DEF Walks
<1>11. QED  BY <1>9, <1>10 DEF n

TakenAll(base, s) == FoldLeft(Taken, base, s)
TakenStays(V, K) == \A a \in V, x \in K : Taken(a, x) \in V

LEMMA TakenWalks ==
  ASSUME NEW V, NEW K, NEW s \in Seq(K), NEW base \in V, TakenStays(V, K)
  PROVE  \E h \in [0..Len(s) -> V] :
           /\ h[0] = base /\ h[Len(s)] = TakenAll(base, s)
           /\ \A k \in 1..Len(s) : h[k] = Taken(h[k - 1], s[k])
<1> DEFINE n == Len(s)
           F == [p \in V \X (1..n) |-> Taken(p[1], s[p[2]])]
           G == CHOOSE g : g = [T \in SUBSET DOMAIN s |->
                  IF T = {} THEN base ELSE Taken(g[T \ {Max(T)}], s[Max(T)])]
           Body(h, T) == IF T = {} THEN base ELSE Taken(h[T \ {Max(T)}], s[Max(T)])
<1>0. n \in Nat /\ DOMAIN s = 1..n /\ \A i \in 1..n : s[i] \in K
  OBVIOUS
<1>1. /\ F \in [V \X (1..n) -> V]
      /\ \A a \in V, i \in 1..n : F[<<a, i>>] = Taken(a, s[i])
  BY <1>0 DEF TakenStays
<1> HIDE DEF F, n
<1>3. PICK g : FoldsTo(g, F, base, V, n)
  BY <1>0, <1>1, FoldExists
<1>4. G = [T \in SUBSET DOMAIN s |-> Body(G, T)]
  <2>1. ASSUME NEW T \in SUBSET (1..n) PROVE g[T] = Body(g, T)
    <3>1. CASE T = {}
      BY <3>1, <1>3 DEF FoldsTo
    <3>2. CASE T # {}
      <4>1. Max(T) \in 1..n /\ T \ {Max(T)} \in SUBSET (1..n)
        BY <1>0, <3>2, LargestOfPlaces
      <4>2. g[T \ {Max(T)}] \in V /\ g[T] = F[<<g[T \ {Max(T)}], Max(T)>>]
        BY <4>1, <3>2, <1>3 DEF FoldsTo
      <4> HIDE DEF G
      <4>4. QED  BY <4>1, <4>2, <1>1, <3>2
    <3>3. QED  BY <3>1, <3>2
  <2> HIDE DEF Body
  <2>2. g = [T \in SUBSET (1..n) |-> g[T]]
    BY <1>3 DEF FoldsTo
  <2>3. g = [T \in SUBSET DOMAIN s |-> Body(g, T)]
    BY <1>0, <2>1, <2>2
  <2> USE DEF Body
  <2>4. \E h : h = [T \in SUBSET DOMAIN s |-> Body(h, T)]
    BY <2>3
  <2>5. QED  BY <2>4
<1>5. TakenAll(base, s) = G[DOMAIN s]
  BY DEF TakenAll, FoldLeft, MapThenFoldSet
<1>6. G[{}] = base
  <2>1. {} \in SUBSET DOMAIN s
    OBVIOUS
  <2> HIDE DEF G
  <2>2. QED  BY <2>1, <1>4
<1> HIDE DEF G
<1>7. ASSUME NEW T \in SUBSET (1..n), T # {}, G[T \ {Max(T)}] \in V
      PROVE  G[T] \in V /\ G[T] = F[<<G[T \ {Max(T)}], Max(T)>>]
  <2>1. Max(T) \in 1..n
    BY <1>0, <1>7, LargestOfPlaces
  <2>2. G[T] = Taken(G[T \ {Max(T)}], s[Max(T)])
    BY <1>0, <1>4, <1>7
  <2>3. s[Max(T)] \in K
    BY <1>0, <2>1
  <2>4. QED  BY <1>1, <1>7, <2>1, <2>2, <2>3 DEF TakenStays
<1> HIDE DEF Body
<1>8. PICK h \in [0..n -> V] : Walks(h, F, base, n) /\ h[n] = G[1..n]
  <2>1. n \in Nat /\ base \in V
    BY <1>0
  <2>2. Unfolds(G, F, base, V, n)
    BY <1>6, <1>7 DEF Unfolds
  <2>3. QED  BY <2>1, <2>2, FoldWalks
<1>9. ASSUME NEW k \in 1..n PROVE h[k] = Taken(h[k - 1], s[k])
  <2>1. k - 1 \in 0..n
    BY <1>0
  <2>2. h[k - 1] \in V
    BY <2>1
  <2>3. h[k] = F[<<h[k - 1], k>>]
    BY <1>8 DEF Walks
  <2>4. QED  BY <1>1, <2>2, <2>3
<1>10. h[0] = base /\ h[n] = TakenAll(base, s)
  BY <1>0, <1>5, <1>8 DEF Walks
<1>11. QED  BY <1>9, <1>10 DEF n

-----------------------------------------------------------------------------
(* Novelty                                                                 *)

(* What a tally holds after the first k keys.                              *)
KeysTo(keys, k)   == {keys[j] : j \in 1..k}
CountedTo(keys, k) == {j \in 1..k : keys[j] # Nothing}
Tallied(acc, seen, keys, k) ==
  /\ acc.seen = seen \cup (KeysTo(keys, k) \ {Nothing})
  /\ IsFiniteSet(KeysTo(keys, k) \ ({Nothing} \cup seen)) /\ IsFiniteSet(CountedTo(keys, k))
  /\ acc.novel = Cardinality(KeysTo(keys, k) \ ({Nothing} \cup seen))
  /\ acc.novel + acc.again = Cardinality(CountedTo(keys, k))

LEMMA TallyStarts ==
  ASSUME NEW seen, NEW keys
  PROVE  Tallied([seen |-> seen, novel |-> 0, again |-> 0], seen, keys, 0)
<1>1. KeysTo(keys, 0) = {} /\ CountedTo(keys, 0) = {}
  BY DEF KeysTo, CountedTo
<1>2. KeysTo(keys, 0) \ ({Nothing} \cup seen) = {}
  BY <1>1
<1>3. QED  BY <1>1, <1>2, FS_EmptySet DEF Tallied

LEMMA CountKeepsTally ==
  ASSUME NEW seen, NEW keys, NEW k \in Nat \ {0}, NEW X,
         NEW acc \in [seen : SUBSET X, novel : Nat, again : Nat],
         Tallied(acc, seen, keys, k - 1)
  PROVE  Tallied(Count(acc, keys[k]), seen, keys, k)
<1> DEFINE x == keys[k]
           N(j) == KeysTo(keys, j) \ ({Nothing} \cup seen)
           C(j) == CountedTo(keys, j)
<1>1. \A j \in 1..k : j \in 1..(k - 1) \/ j = k
  OBVIOUS
<1>2. k \in 1..k /\ k \notin 1..(k - 1) /\ 1..(k - 1) \subseteq 1..k
  OBVIOUS
<1>3. KeysTo(keys, k) = KeysTo(keys, k - 1) \cup {x}
  BY <1>1, <1>2 DEF KeysTo
<1>4. C(k) = IF x = Nothing THEN C(k - 1) ELSE C(k - 1) \cup {k}
  BY <1>1, <1>2 DEF CountedTo
<1>5. k \notin C(k - 1)
  BY <1>2 DEF CountedTo
<1>6. /\ acc.seen = seen \cup (KeysTo(keys, k - 1) \ {Nothing})
      /\ IsFiniteSet(N(k - 1)) /\ IsFiniteSet(C(k - 1))
      /\ acc.novel = Cardinality(N(k - 1)) /\ acc.novel + acc.again = Cardinality(C(k - 1))
      /\ acc.novel \in Nat /\ acc.again \in Nat
  BY DEF Tallied
<1>7. CASE x = Nothing
  <2>1. N(k) = N(k - 1) /\ C(k) = C(k - 1) /\ Count(acc, x) = acc
    BY <1>3, <1>4, <1>7 DEF Count
  <2>2. KeysTo(keys, k) \ {Nothing} = KeysTo(keys, k - 1) \ {Nothing}
    BY <1>3, <1>7
  <2>3. QED  BY <1>6, <2>1, <2>2 DEF Tallied
<1>8. CASE x # Nothing /\ x \in acc.seen
  <2>1. Count(acc, x) = [acc EXCEPT !.again = @ + 1]
    BY <1>8 DEF Count
  <2>2. /\ Count(acc, x).seen = acc.seen /\ Count(acc, x).novel = acc.novel
        /\ Count(acc, x).again = acc.again + 1
    BY <2>1
  <2>3. /\ N(k) = N(k - 1) /\ C(k) = C(k - 1) \cup {k}
        /\ seen \cup (KeysTo(keys, k) \ {Nothing}) = acc.seen
    BY <1>3, <1>4, <1>6, <1>8
  <2>4. IsFiniteSet(C(k)) /\ Cardinality(C(k)) = Cardinality(C(k - 1)) + 1
    BY <1>5, <1>6, <2>3, FS_AddElement
  <2> HIDE DEF N, C, x
  <2>5. Count(acc, x).novel + Count(acc, x).again = Cardinality(C(k))
    BY <1>6, <2>2, <2>4
  <2>6. /\ Count(acc, x).seen = seen \cup (KeysTo(keys, k) \ {Nothing})
        /\ Count(acc, x).novel = Cardinality(N(k)) /\ IsFiniteSet(N(k))
    BY <1>6, <2>2, <2>3
  <2>7. QED  BY <2>4, <2>5, <2>6 DEF Tallied, N, C, x
<1>9. CASE x # Nothing /\ x \notin acc.seen
  <2>1. Count(acc, x) = [acc EXCEPT !.novel = @ + 1, !.seen = @ \cup {x}]
    BY <1>9 DEF Count
  <2>2. /\ Count(acc, x).seen = acc.seen \cup {x} /\ Count(acc, x).novel = acc.novel + 1
        /\ Count(acc, x).again = acc.again
    BY <2>1
  <2>3. /\ N(k) = N(k - 1) \cup {x} /\ x \notin N(k - 1) /\ C(k) = C(k - 1) \cup {k}
        /\ seen \cup (KeysTo(keys, k) \ {Nothing}) = acc.seen \cup {x}
    BY <1>3, <1>4, <1>6, <1>9
  <2>4. IsFiniteSet(C(k)) /\ Cardinality(C(k)) = Cardinality(C(k - 1)) + 1
    BY <1>5, <1>6, <2>3, FS_AddElement
  <2>5. IsFiniteSet(N(k)) /\ Cardinality(N(k)) = Cardinality(N(k - 1)) + 1
    <3> DEFINE A == N(k - 1)
               B == N(k)
    <3>1. IsFiniteSet(A) /\ x \notin A /\ B = A \cup {x}
      BY <1>6, <2>3
    <3> HIDE DEF A, B, x
    <3>2. IsFiniteSet(B) /\ Cardinality(B) = Cardinality(A) + 1
      BY <3>1, FS_AddElement
    <3>3. QED  BY <3>2 DEF A, B
  <2> HIDE DEF N, C, x
  <2>6. /\ Count(acc, x).novel + Count(acc, x).again = Cardinality(C(k))
        /\ Count(acc, x).novel = Cardinality(N(k))
    BY <1>6, <2>2, <2>4, <2>5
  <2>7. Count(acc, x).seen = seen \cup (KeysTo(keys, k) \ {Nothing})
    BY <2>2, <2>3
  <2>8. QED  BY <2>4, <2>5, <2>6, <2>7 DEF Tallied, N, C, x
<1>10. QED  BY <1>7, <1>8, <1>9

(* A tally counts as new the keys that were not seen, and every key once.  *)
LEMMA TallyIs ==
  ASSUME NEW seen, NEW K, NEW keys \in Seq(K)
  PROVE  /\ Tally(seen, keys).novel \in Nat /\ Tally(seen, keys).again \in Nat
         /\ Tallied(Tally(seen, keys), seen, keys, Len(keys))
<1> DEFINE X == K \cup seen
           V == [seen : SUBSET X, novel : Nat, again : Nat]
           base == [seen |-> seen, novel |-> 0, again |-> 0]
           n == Len(keys)
<1>1. base \in V
  OBVIOUS
<1>2. ASSUME NEW a \in V, NEW x \in K PROVE Count(a, x) \in V
  <2>1. a.seen \in SUBSET X /\ a.novel \in Nat /\ a.again \in Nat /\ x \in X
    OBVIOUS
  <2>2. a.novel + 1 \in Nat /\ a.again + 1 \in Nat /\ a.seen \cup {x} \in SUBSET X
    BY <2>1
  <2> HIDE DEF X
  <2>3. QED  BY <2>1, <2>2 DEF Count
<1>3. n \in Nat
  OBVIOUS
<1> HIDE DEF V, base
<1>4. PICK h \in [0..Len(keys) -> V] :
        /\ h[0] = base /\ h[Len(keys)] = CountAll(base, keys)
        /\ \A k \in 1..Len(keys) : h[k] = Count(h[k - 1], keys[k])
  <2>1. CountStays(V, K)
    BY <1>2 DEF CountStays
  <2>2. keys \in Seq(K)
    OBVIOUS
  <2>3. QED  BY <1>1, <2>1, <2>2, CountWalks
<1> DEFINE Odd == {k \in 0..n : ~Tallied(h[k], seen, keys, k)}
<1>5. Odd = {}
  <2>1. SUFFICES ASSUME Odd # {} PROVE FALSE
    OBVIOUS
  <2>2. Odd \in SUBSET Nat
    BY <1>3
  <2>3. PICK k \in Odd : \A j \in Odd : k <= j
    BY <2>1, <2>2, SmallestNumber
  <2>4. k # 0
    BY <1>4, <2>3, TallyStarts DEF base
  <2>5. /\ k \in Nat \ {0} /\ k - 1 \in 0..n /\ k \in 1..n /\ k - 1 \notin Odd
    BY <1>3, <2>3, <2>4
  <2>6. Tallied(h[k - 1], seen, keys, k - 1) /\ h[k - 1] \in V
    BY <1>4, <2>5
  <2>7. Tallied(Count(h[k - 1], keys[k]), seen, keys, k)
    BY <2>5, <2>6, CountKeepsTally DEF V
  <2>8. Tallied(h[k], seen, keys, k)
    BY <1>4, <2>5, <2>7
  <2>9. QED  BY <2>3, <2>8
<1>6. Tally(seen, keys) = h[n] /\ h[n] \in V /\ Tallied(h[n], seen, keys, n)
  BY <1>3, <1>4, <1>5 DEF Tally, CountAll, base
<1>7. QED  BY <1>6 DEF V

(* What generated programs do, as far as they can be compared.             *)
Showing(ts) == {Behaviour[t.program] : t \in {u \in ToSet(ts) : u.sound /\ u.origin = "generated"}}

LEMMA SignsAre ==
  ASSUME NEW ts \in Seq(Trial)
  PROVE  /\ Signs(ts) \in Seq({Behaviour[p] : p \in Programs} \cup {Nothing})
         /\ Len(Signs(ts)) = Len(ts)
         /\ CountedTo(Signs(ts), Len(ts)) = Comparable(ts)
         /\ KeysTo(Signs(ts), Len(ts)) \ {Nothing} = Showing(ts)
<1>1. /\ Len(ts) \in Nat /\ DOMAIN ts = 1..Len(ts) /\ \A i \in 1..Len(ts) : ts[i] \in Trial
  OBVIOUS
<1>2. \A t \in Trial : t.program \in Programs /\ Behaviour[t.program] # Nothing
  BY ProgressAssumption DEF Trial, Programs
<1>3. Signs(ts) = [i \in 1..Len(ts) |-> IF i \in Comparable(ts) THEN Behaviour[ts[i].program]
                                        ELSE Nothing]
  BY <1>1 DEF Signs
<1>4. \A i \in 1..Len(ts) : ts[i].program \in Programs /\ Behaviour[ts[i].program] # Nothing
  BY <1>1, <1>2
<1>5. /\ Signs(ts) \in Seq({Behaviour[p] : p \in Programs} \cup {Nothing})
      /\ Len(Signs(ts)) = Len(ts)
  BY <1>1, <1>3, <1>4
<1>6. \A i \in 1..Len(ts) : Signs(ts)[i] = IF i \in Comparable(ts) THEN Behaviour[ts[i].program]
                                           ELSE Nothing
  BY <1>3
<1>7. \A i : i \in Comparable(ts)
               <=> i \in 1..Len(ts) /\ ts[i].origin = "generated" /\ ts[i].sound
  BY <1>1 DEF Comparable, Generated
<1>8. CountedTo(Signs(ts), Len(ts)) = Comparable(ts)
  BY <1>4, <1>6, <1>7 DEF CountedTo
<1>9. KeysTo(Signs(ts), Len(ts)) \ {Nothing} \subseteq Showing(ts)
  <2>1. SUFFICES ASSUME NEW i \in 1..Len(ts), Signs(ts)[i] # Nothing
                 PROVE  Signs(ts)[i] \in Showing(ts)
    BY DEF KeysTo
  <2>2. i \in Comparable(ts) /\ Signs(ts)[i] = Behaviour[ts[i].program]
    BY <1>6, <2>1
  <2>3. ts[i] \in ToSet(ts) /\ ts[i].sound /\ ts[i].origin = "generated"
    BY <1>1, <1>7, <2>2 DEF ToSet
  <2>4. QED  BY <2>2, <2>3 DEF Showing
<1>10. Showing(ts) \subseteq KeysTo(Signs(ts), Len(ts)) \ {Nothing}
  <2>1. SUFFICES ASSUME NEW t \in ToSet(ts), t.sound, t.origin = "generated"
                 PROVE  Behaviour[t.program] \in KeysTo(Signs(ts), Len(ts)) \ {Nothing}
    BY DEF Showing
  <2>2. PICK i \in 1..Len(ts) : t = ts[i]
    BY <1>1 DEF ToSet
  <2>3. i \in Comparable(ts)
    BY <1>7, <2>1, <2>2
  <2>4. Signs(ts)[i] = Behaviour[t.program] /\ Behaviour[t.program] # Nothing
    BY <1>4, <1>6, <2>2, <2>3
  <2>5. QED  BY <2>4 DEF KeysTo
<1>11. QED  BY <1>5, <1>8, <1>9, <1>10

(* What a Session says of the novelty of some evaluations.                 *)
LEMMA NoveltyIs ==
  ASSUME NEW before \in Seq(Trial), NEW ts \in Seq(Trial)
  PROVE  /\ Novelty(before, ts) \in Counts
         /\ Novelty(before, ts).novel = Cardinality(Showing(ts) \ Seen(before))
         /\ IsFiniteSet(Showing(ts) \ Seen(before))
         /\ Novelty(before, ts).novel + Novelty(before, ts).again = Cardinality(Comparable(ts))
         /\ Novelty(before, ts).made = Cardinality(Generated(ts))
<1> DEFINE did == Tally(Seen(before), Signs(ts))
           old == {t.program : t \in ToSet(before)}
           copied == Tally(old, Sources(ts)).again
           n == Len(ts)
<1>1. /\ did.novel \in Nat /\ did.again \in Nat /\ Tallied(did, Seen(before), Signs(ts), n)
  <2>1. Signs(ts) \in Seq({Behaviour[p] : p \in Programs} \cup {Nothing}) /\ Len(Signs(ts)) = n
    BY SignsAre
  <2>2. QED  BY <2>1, TallyIs
<1>2. copied \in Nat
  <2>1. \A i \in DOMAIN ts : ts[i].program \in Programs
    <3>1. \A t \in Trial : t.program \in Programs
      BY DEF Trial
    <3>2. QED  BY <3>1
  <2>2. Sources(ts) \in Seq(Programs \cup {Nothing})
    BY <2>1 DEF Sources
  <2>3. QED  BY <2>2, TallyIs
<1>3. Cardinality(Generated(ts)) \in Nat
  BY CountsArePlaces
<1>4. Novelty(before, ts) = [novel |-> did.novel, again |-> did.again,
                             made |-> Cardinality(Generated(ts)), copies |-> copied]
  BY DEF Novelty
<1> HIDE DEF did, copied
<1>5. /\ KeysTo(Signs(ts), n) \ ({Nothing} \cup Seen(before)) = Showing(ts) \ Seen(before)
      /\ CountedTo(Signs(ts), n) = Comparable(ts)
  BY SignsAre
<1>6. /\ did.novel = Cardinality(Showing(ts) \ Seen(before))
      /\ IsFiniteSet(Showing(ts) \ Seen(before))
      /\ did.novel + did.again = Cardinality(Comparable(ts))
  BY <1>1, <1>5 DEF Tallied
<1>7. QED  BY <1>1, <1>2, <1>3, <1>4, <1>6 DEF Counts

(* What is news after some evaluations is news of them and the new ones.   *)
LEMMA NewsIsCumulative ==
  ASSUME NEW before \in Seq(Trial), NEW ts \in Seq(Trial)
  PROVE  Novelty(before, ts).novel <= Novelty(<<>>, before \o ts).novel
<1> DEFINE a == Showing(ts) \ Seen(before)
           b == Showing(before \o ts) \ Seen(<<>>)
<1>1. <<>> \in Seq(Trial) /\ before \o ts \in Seq(Trial)
  OBVIOUS
<1>2. ToSet(before \o ts) = ToSet(before) \cup ToSet(ts)
  BY ToSetOfTwo
<1>3. Seen(<<>>) = {}
  BY DEF Seen, ToSet
<1>4. Showing(ts) \subseteq Showing(before \o ts)
  BY <1>2 DEF Showing
<1>5. a \subseteq b
  BY <1>3, <1>4
<1>6. /\ Novelty(before, ts).novel = Cardinality(a)
      /\ Novelty(<<>>, before \o ts).novel = Cardinality(b) /\ IsFiniteSet(b)
  BY <1>1, NoveltyIs
<1> HIDE DEF a, b
<1>7. Cardinality(a) <= Cardinality(b)
  BY <1>5, <1>6, FS_Subset
<1>8. QED  BY <1>6, <1>7

-----------------------------------------------------------------------------
(* The verdict                                                             *)

(* What the facts of a round say of it and of the rounds before it.        *)
RowFits(fs, r) ==
  /\ fs[r].before = Best(Part(fs, 1, r - 1), Nothing)
  /\ fs[r].after = Best(Part(fs, 1, r), Nothing)
  /\ fs[r].window.novel + fs[r].window.again = Cardinality(Comparable(fs[r].trials))
  /\ fs[r].window.made = Cardinality(Generated(fs[r].trials))
  /\ fs[r].window.novel = Cardinality(Showing(fs[r].trials) \ Seen(Part(fs, 1, r - 1)))
  /\ fs[r].window.novel <= fs[r].cumulative.novel

(* The rounds from i on, as the verdict adds them up.                      *)
Of(fs, i, n) ==
  [attempts |-> Len(Part(fs, i, n)), start |-> IF i > n THEN Nothing ELSE fs[i].before,
   comparable |-> Cardinality(Comparable(Part(fs, i, n))),
   made |-> Cardinality(Generated(Part(fs, i, n)))]

Sums == [attempts : Nat, start : Nat \cup {Nothing}, comparable : Nat, made : Nat]

(* With a round more there are its evaluations more.                       *)
LEMMA RoundAdds ==
  ASSUME NEW fs \in Seq(FactRow), NEW n \in Nat, n = Len(fs), NEW i \in 1..n
  PROVE  /\ Len(Part(fs, i, n)) = Len(fs[i].trials) + Len(Part(fs, i + 1, n))
         /\ Cardinality(Comparable(Part(fs, i, n)))
              = Cardinality(Comparable(fs[i].trials)) + Cardinality(Comparable(Part(fs, i + 1, n)))
         /\ Cardinality(Generated(Part(fs, i, n)))
              = Cardinality(Generated(fs[i].trials)) + Cardinality(Generated(Part(fs, i + 1, n)))
         /\ Len(fs[i].trials) \in Nat
         /\ Of(fs, i + 1, n).attempts \in Nat /\ Of(fs, i + 1, n).comparable \in Nat
         /\ Of(fs, i + 1, n).made \in Nat
<1>1. /\ n \in 1..Len(fs) /\ i \in 1..Len(fs) /\ i + 1 \in 1..(Len(fs) + 1) /\ n \in 0..Len(fs)
      /\ i + 1 <= n + 1
  OBVIOUS
<1>2. fs[i].trials \in Seq(Trial) /\ Part(fs, i + 1, n) \in Seq(Trial)
  BY <1>1, RowsHaveTrials, PartIs
<1>3. Part(fs, i, n) = fs[i].trials \o Part(fs, i + 1, n)
  BY <1>1, PartBegins
<1>4. /\ Len(fs[i].trials) \in Nat /\ Len(Part(fs, i + 1, n)) \in Nat
      /\ Cardinality(Comparable(Part(fs, i + 1, n))) \in Nat
      /\ Cardinality(Generated(Part(fs, i + 1, n))) \in Nat
  BY <1>2, CountsArePlaces
<1>5. QED  BY <1>2, <1>3, <1>4, CountsAdd DEF Of

LEMMA TakesOneMore ==
  ASSUME NEW fs \in Seq(FactRow), NEW n \in Nat, n = Len(fs), NEW i \in 1..n,
         policy.window \in Nat, RowFits(fs, i)
  PROVE  /\ Len(Part(fs, i + 1, n)) >= policy.window =>
              Taken(Of(fs, i + 1, n), fs[i]) = Of(fs, i + 1, n)
         /\ Len(Part(fs, i + 1, n)) < policy.window =>
              Taken(Of(fs, i + 1, n), fs[i]) = Of(fs, i, n)
<1> DEFINE acc == Of(fs, i + 1, n)
           f   == fs[i]
<1>1. /\ acc.attempts = Len(Part(fs, i + 1, n))
      /\ acc.comparable = Cardinality(Comparable(Part(fs, i + 1, n)))
      /\ acc.made = Cardinality(Generated(Part(fs, i + 1, n)))
  BY DEF Of
<1>5. acc.attempts \in Nat /\ acc.comparable \in Nat /\ acc.made \in Nat
  BY RoundAdds
<1>2. CASE acc.attempts >= policy.window
  <2>1. Taken(acc, f) = acc
    BY <1>2 DEF Taken
  <2>2. ~(acc.attempts < policy.window)
    <3> HIDE DEF acc
    <3>1. QED  BY <1>2, <1>5
  <2>3. QED  BY <1>1, <2>1, <2>2
<1>3. CASE ~(acc.attempts >= policy.window)
  <2>1. Taken(acc, f)
          = [attempts |-> acc.attempts + Len(f.trials), start |-> f.before,
             comparable |-> acc.comparable + f.window.novel + f.window.again,
             made |-> acc.made + f.window.made]
    BY <1>3 DEF Taken
  <2>2. /\ Len(Part(fs, i, n)) = Len(f.trials) + Len(Part(fs, i + 1, n))
        /\ Cardinality(Comparable(Part(fs, i, n)))
             = Cardinality(Comparable(f.trials)) + Cardinality(Comparable(Part(fs, i + 1, n)))
        /\ Cardinality(Generated(Part(fs, i, n)))
             = Cardinality(Generated(f.trials)) + Cardinality(Generated(Part(fs, i + 1, n)))
        /\ Len(f.trials) \in Nat
    BY RoundAdds
  <2>3. /\ Len(Part(fs, i, n)) = Len(f.trials) + acc.attempts
        /\ Cardinality(Comparable(Part(fs, i, n)))
             = Cardinality(Comparable(f.trials)) + acc.comparable
        /\ Cardinality(Generated(Part(fs, i, n))) = Cardinality(Generated(f.trials)) + acc.made
        /\ Len(f.trials) \in Nat
    <3> HIDE DEF acc, f
    <3>1. QED  BY <1>1, <2>2
  <2>4. /\ f.window.novel \in Nat /\ f.window.again \in Nat /\ f.window.made \in Nat
    <3>1. f \in FactRow
      BY RowsHaveTrials
    <3>2. QED  BY <3>1 DEF FactRow, Counts
  <2>5. /\ f.window.novel + f.window.again = Cardinality(Comparable(f.trials))
        /\ f.window.made = Cardinality(Generated(f.trials))
    BY DEF RowFits
  <2> HIDE DEF acc, f
  <2>6. /\ acc.attempts + Len(f.trials) = Len(Part(fs, i, n))
        /\ acc.comparable + f.window.novel + f.window.again
             = Cardinality(Comparable(Part(fs, i, n)))
        /\ acc.made + f.window.made = Cardinality(Generated(Part(fs, i, n)))
    <3> DEFINE l == Len(f.trials)
               c == Cardinality(Comparable(f.trials))
               g == Cardinality(Generated(f.trials))
               ll == Len(Part(fs, i, n))
               cc == Cardinality(Comparable(Part(fs, i, n)))
               gg == Cardinality(Generated(Part(fs, i, n)))
               x == acc.attempts
               y == acc.comparable
               z == acc.made
               w == f.window.novel
               v == f.window.again
               u == f.window.made
    <3>1. ll = l + x /\ cc = c + y /\ gg = g + z /\ l \in Nat /\ w + v = c /\ u = g
      BY <2>3, <2>5
    <3>2. x \in Nat /\ y \in Nat /\ z \in Nat /\ w \in Nat /\ v \in Nat /\ u \in Nat
      BY <1>5, <2>4
    <3> HIDE DEF l, c, g, ll, cc, gg, x, y, z, w, v, u
    <3>3. x + l = ll /\ z + u = gg /\ y + w + v = cc
      BY <3>1, <3>2
    <3>4. QED  BY <3>3 DEF l, ll, cc, gg, x, y, z, w, v, u
  <2>7. ~(i > n) /\ Of(fs, i, n).start = f.before
    BY DEF Of, f
  <2>8. Taken(acc, f) = Of(fs, i, n)
    BY <2>1, <2>6, <2>7 DEF Of
  <2>9. QED  BY <1>1, <1>3, <2>3, <2>8 DEF acc, f
<1>4. QED  BY <1>2, <1>3

(* The fewer rounds, the fewer evaluations.                                *)
LEMMA PartsShrink ==
  ASSUME NEW fs \in Seq(FactRow), NEW n \in Nat, n = Len(fs),
         NEW j \in 1..(n + 1), NEW i \in 1..j
  PROVE  Len(Part(fs, j, n)) <= Len(Part(fs, i, n))
<1> DEFINE Odd == {d \in 0..(j - 1) : ~(Len(Part(fs, j, n)) <= Len(Part(fs, j - d, n)))}
<1>1. \A m \in 1..(n + 1) : Len(Part(fs, m, n)) \in Nat
  <2>1. ASSUME NEW m \in 1..(n + 1) PROVE Len(Part(fs, m, n)) \in Nat
    <3>1. m \in 1..(Len(fs) + 1) /\ n \in 0..Len(fs) /\ m <= n + 1
      OBVIOUS
    <3>2. QED  BY <3>1, PartIs
  <2>2. QED  BY <2>1
<1>2. Odd = {}
  <2>1. SUFFICES ASSUME Odd # {} PROVE FALSE
    OBVIOUS
  <2>2. Odd \in SUBSET Nat
    OBVIOUS
  <2>3. PICK d \in Odd : \A k \in Odd : d <= k
    BY <2>1, <2>2, SmallestNumber
  <2>4. d \in 0..(j - 1)
    BY <2>3
  <2>5. d # 0
    <3>1. j - 0 = j /\ Len(Part(fs, j, n)) <= Len(Part(fs, j, n))
      BY <1>1
    <3>2. QED  BY <2>3, <3>1
  <2>6. /\ d - 1 \in 0..(j - 1) /\ ~(d <= d - 1) /\ j - d \in 1..n /\ j - (d - 1) = (j - d) + 1
        /\ (j - d) + 1 \in 1..(n + 1) /\ j - d \in 1..(n + 1)
    BY <2>4, <2>5
  <2>7. Len(Part(fs, j, n)) <= Len(Part(fs, (j - d) + 1, n))
    BY <2>3, <2>6
  <2>8. /\ Len(Part(fs, j - d, n)) = Len(fs[j - d].trials) + Len(Part(fs, (j - d) + 1, n))
        /\ Len(fs[j - d].trials) \in Nat
    BY <2>6, RoundAdds
  <2>9. Len(Part(fs, (j - d) + 1, n)) \in Nat /\ Len(Part(fs, j, n)) \in Nat
    BY <1>1, <2>6
  <2>10. Len(Part(fs, j, n)) <= Len(Part(fs, j - d, n))
    <3> DEFINE x == Len(Part(fs, j, n))
               y == Len(Part(fs, (j - d) + 1, n))
               z == Len(Part(fs, j - d, n))
               l == Len(fs[j - d].trials)
    <3>1. x <= y /\ z = l + y /\ x \in Nat /\ y \in Nat /\ l \in Nat
      BY <2>7, <2>8, <2>9
    <3> HIDE DEF x, y, z, l
    <3>2. x <= z
      BY <3>1
    <3>3. QED  BY <3>2 DEF x, z
  <2>11. QED  BY <2>3, <2>10
<1>3. j - i \in 0..(j - 1) /\ j - (j - i) = i
  OBVIOUS
<1>4. QED  BY <1>2, <1>3

(* After k rounds, from the last one back, the verdict has added up the    *)
(* rounds from some i on: all k of them, or as many as are enough.         *)
TakenFrom(fs, n, k, acc, i) ==
  /\ acc = Of(fs, i, n)
  /\ \A j \in (i + 1)..(n + 1) : Len(Part(fs, j, n)) < policy.window
  /\ i = n - k + 1 \/ Len(Part(fs, i, n)) >= policy.window

LEMMA TakenBegins ==
  ASSUME NEW fs \in Seq(FactRow), NEW n \in Nat, n = Len(fs)
  PROVE  TakenFrom(fs, n, 0, [attempts |-> 0, start |-> Nothing, comparable |-> 0, made |-> 0],
                   n + 1)
<1>1. Part(fs, n + 1, n) = <<>>
  <2>1. n + 1 \in 1..(Len(fs) + 1) /\ (n + 1) - 1 = n
    OBVIOUS
  <2>2. QED  BY <2>1, PartOfNothing
<1>2. Of(fs, n + 1, n) = [attempts |-> 0, start |-> Nothing, comparable |-> 0, made |-> 0]
  BY <1>1, CountsOfNothing DEF Of
<1>3. n + 1 = n - 0 + 1 /\ (n + 1 + 1)..(n + 1) = {}
  OBVIOUS
<1>4. QED  BY <1>2, <1>3 DEF TakenFrom

LEMMA TakenGoesOn ==
  ASSUME NEW fs \in Seq(FactRow), NEW n \in Nat, n = Len(fs), NEW k \in 1..n,
         policy.window \in Nat, RowFits(fs, n - k + 1), NEW acc,
         NEW i \in (n - k + 2)..(n + 1), TakenFrom(fs, n, k - 1, acc, i)
  PROVE  \E l \in (n - k + 1)..(n + 1) : TakenFrom(fs, n, k, Taken(acc, fs[n - k + 1]), l)
<1>1. /\ acc = Of(fs, i, n)
      /\ \A j \in (i + 1)..(n + 1) : Len(Part(fs, j, n)) < policy.window
      /\ i = n - (k - 1) + 1 \/ Len(Part(fs, i, n)) >= policy.window
  BY DEF TakenFrom
<1>2. /\ n - k + 1 \in 1..n /\ n - (k - 1) + 1 = n - k + 2 /\ i \in 1..(n + 1)
      /\ (n - k + 1) + 1 = n - k + 2
  OBVIOUS
<1>3. \A j \in 1..(n + 1) : Len(Part(fs, j, n)) \in Nat
  <2>1. ASSUME NEW j \in 1..(n + 1) PROVE Len(Part(fs, j, n)) \in Nat
    <3>1. j \in 1..(Len(fs) + 1) /\ n \in 0..Len(fs) /\ j <= n + 1
      OBVIOUS
    <3>2. QED  BY <3>1, PartIs
  <2>2. QED  BY <2>1
<1>4. CASE Len(Part(fs, i, n)) >= policy.window
  <2>1. acc.attempts >= policy.window
    BY <1>1, <1>4 DEF Of
  <2>2. Taken(acc, fs[n - k + 1]) = acc
    BY <2>1 DEF Taken
  <2>3. TakenFrom(fs, n, k, acc, i)
    BY <1>1, <1>4 DEF TakenFrom
  <2>4. i \in (n - k + 1)..(n + 1)
    OBVIOUS
  <2>5. QED  BY <2>2, <2>3, <2>4
<1>5. CASE ~(Len(Part(fs, i, n)) >= policy.window)
  <2>1. i = (n - k + 1) + 1
    BY <1>1, <1>2, <1>5
  <2>2. Len(Part(fs, i, n)) < policy.window
    <3> DEFINE x == Len(Part(fs, i, n))
    <3>1. x \in Nat /\ ~(x >= policy.window)
      BY <1>2, <1>3, <1>5
    <3> HIDE DEF x
    <3>2. x < policy.window
      BY <3>1
    <3>3. QED  BY <3>2 DEF x
  <2> DEFINE m == n - k + 1
  <2>3. m \in 1..n /\ i = m + 1 /\ RowFits(fs, m) /\ m = n - k + 1
    BY <1>2, <2>1
  <2> HIDE DEF m
  <2>4. Taken(acc, fs[m]) = Of(fs, m, n)
    BY <1>1, <2>2, <2>3, TakesOneMore
  <2>5. \A j \in (m + 1)..(n + 1) : Len(Part(fs, j, n)) < policy.window
    <3>1. \A j \in (m + 1)..(n + 1) : j = i \/ j \in (i + 1)..(n + 1)
      BY <2>3
    <3>2. QED  BY <1>1, <2>2, <3>1
  <2>6. TakenFrom(fs, n, k, Taken(acc, fs[m]), m)
    BY <2>3, <2>4, <2>5 DEF TakenFrom
  <2>7. m \in m..(n + 1)
    BY <2>3
  <2>8. QED  BY <2>6, <2>7 DEF m
<1>6. QED  BY <1>4, <1>5

LEMMA TakenStaysInSums == policy.window \in Nat => TakenStays(Sums, FactRow)
<1> SUFFICES ASSUME NEW a \in Sums, NEW f \in FactRow PROVE Taken(a, f) \in Sums
  BY DEF TakenStays
<1>1. /\ a.attempts \in Nat /\ a.comparable \in Nat /\ a.made \in Nat
      /\ f.trials \in Seq(Trial) /\ f.before \in Nat \cup {Nothing}
      /\ f.window.novel \in Nat /\ f.window.again \in Nat /\ f.window.made \in Nat
  BY DEF Sums, FactRow, Counts
<1>2. /\ a.attempts + Len(f.trials) \in Nat /\ a.made + f.window.made \in Nat
      /\ a.comparable + f.window.novel + f.window.again \in Nat
  <2>1. Len(f.trials) \in Nat
    BY <1>1
  <2> DEFINE l == Len(f.trials)
             x == a.attempts
             c == a.comparable
             m == a.made
             w == f.window.novel
             v == f.window.again
             u == f.window.made
  <2>2. /\ l \in Nat /\ x \in Nat /\ c \in Nat /\ m \in Nat
        /\ w \in Nat /\ v \in Nat /\ u \in Nat
    BY <1>1, <2>1
  <2> HIDE DEF l, x, c, m, w, v, u
  <2>3. x + l \in Nat /\ m + u \in Nat /\ c + w + v \in Nat
    BY <2>2
  <2>4. QED  BY <2>3 DEF l, x, c, m, w, v, u
<1>3. Taken(a, f) = a \/ Taken(a, f)
        = [attempts |-> a.attempts + Len(f.trials), start |-> f.before,
           comparable |-> a.comparable + f.window.novel + f.window.again,
           made |-> a.made + f.window.made]
  BY DEF Taken
<1>4. QED  BY <1>1, <1>2, <1>3 DEF Sums

(* The verdict adds up the shortest run of last rounds that is enough.     *)
LEMMA TakesTheWindow ==
  ASSUME NEW fs \in Seq(FactRow), NEW n \in Nat, n = Len(fs), policy.window \in Nat,
         \A r \in 1..n : RowFits(fs, r)
  PROVE  \E i \in 1..(n + 1) :
           TakenFrom(fs, n, n, TakenAll([attempts |-> 0, start |-> Nothing, comparable |-> 0,
                                         made |-> 0], Reverse(fs)), i)
<1> DEFINE base == [attempts |-> 0, start |-> Nothing, comparable |-> 0, made |-> 0]
           s == Reverse(fs)
           Goes(k, acc) == \E i \in (n - k + 1)..(n + 1) : TakenFrom(fs, n, k, acc, i)
<1>1. s \in Seq(FactRow) /\ Len(s) = n /\ \A k \in 1..n : s[k] = fs[n - k + 1]
  <2>1. s = [i \in 1..n |-> fs[(n - i) + 1]]
    BY DEF Reverse
  <2>2. \A i \in 1..n : (n - i) + 1 \in 1..Len(fs) /\ (n - i) + 1 = n - i + 1
    OBVIOUS
  <2>3. \A i \in 1..n : fs[(n - i) + 1] \in FactRow
    BY <2>2
  <2>4. QED  BY <2>1, <2>3
<1>2. base \in Sums /\ TakenStays(Sums, FactRow)
  BY TakenStaysInSums DEF Sums
<1> HIDE DEF s, base
<1>3. PICK h \in [0..Len(s) -> Sums] :
        /\ h[0] = base /\ h[Len(s)] = TakenAll(base, s)
        /\ \A k \in 1..Len(s) : h[k] = Taken(h[k - 1], s[k])
  BY <1>1, <1>2, TakenWalks
<1> DEFINE Odd == {k \in 0..n : ~Goes(k, h[k])}
<1>4. Odd = {}
  <2>1. SUFFICES ASSUME Odd # {} PROVE FALSE
    OBVIOUS
  <2>2. Odd \in SUBSET Nat
    OBVIOUS
  <2>3. PICK k \in Odd : \A j \in Odd : k <= j
    BY <2>1, <2>2, SmallestNumber
  <2>4. k # 0
    <3>1. TakenFrom(fs, n, 0, h[0], n + 1)
      BY <1>3, TakenBegins DEF base
    <3>2. n + 1 \in (n - 0 + 1)..(n + 1)
      OBVIOUS
    <3>3. Goes(0, h[0])
      BY <3>1, <3>2
    <3> HIDE DEF Goes
    <3>4. QED  BY <2>3, <3>3
  <2>5. k \in 1..n /\ k - 1 \in 0..n /\ k - 1 \notin Odd /\ n - k + 1 \in 1..n
    <3>1. k \in 0..n
      BY <2>3
    <3>2. k \in 1..n /\ k - 1 \in 0..n /\ n - k + 1 \in 1..n /\ ~(k <= k - 1)
      BY <2>4, <3>1
    <3> HIDE DEF Odd
    <3>3. QED  BY <2>3, <3>2
  <2>6. PICK i \in (n - (k - 1) + 1)..(n + 1) : TakenFrom(fs, n, k - 1, h[k - 1], i)
    BY <2>5
  <2>7. i \in (n - k + 2)..(n + 1) /\ RowFits(fs, n - k + 1)
    BY <2>5, <2>6
  <2>8. \E l \in (n - k + 1)..(n + 1) : TakenFrom(fs, n, k, Taken(h[k - 1], fs[n - k + 1]), l)
    BY <2>5, <2>6, <2>7, TakenGoesOn
  <2>9. h[k] = Taken(h[k - 1], fs[n - k + 1])
    BY <1>1, <1>3, <2>5
  <2>10. Goes(k, h[k])
    BY <2>8, <2>9
  <2> HIDE DEF Goes
  <2>11. QED  BY <2>3, <2>10
<1>5. Goes(n, h[n])
  <2>1. n \in 0..n
    OBVIOUS
  <2> HIDE DEF Goes
  <2>2. QED  BY <1>4, <2>1
<1>6. n - n + 1 = 1 /\ h[n] = TakenAll(base, s)
  BY <1>1, <1>3
<1>7. QED  BY <1>5, <1>6 DEF base, s

(* What a verdict has to be, from the evaluations of all rounds to r.      *)
GainsBy(p, start, end) ==
  /\ start # Nothing /\ end # Nothing
  /\ start > end
  /\ start - end >= p.gain \/ AtLeast(start - end, start, p.share)
CoversBy(p, comparable, made) == p.coverage[1] = 0 \/ AtLeast(comparable, made, p.coverage)
FullFrom(p, fs, r) == {i \in 1..r : Len(Part(fs, i, r)) >= p.window}
ShortestOf(p, fs, r) == {k \in FullFrom(p, fs, r) : k + 1 \notin FullFrom(p, fs, r)}
BeatenBy(p, fs, i, r) ==
  /\ GainsBy(p, Best(Part(fs, 1, i - 1), Nothing), Best(Part(fs, 1, r), Nothing))
  /\ CoversBy(p, Cardinality(Comparable(Part(fs, i, r))), Cardinality(Generated(Part(fs, i, r))))
Judged(p, fs, r) ==
  IF FullFrom(p, fs, r) = {} THEN "insufficient"
  ELSE IF \E i \in ShortestOf(p, fs, r) : BeatenBy(p, fs, i, r)
       THEN "progress" ELSE "stagnated"

(* Only one run of last rounds is the shortest that is enough.             *)
LEMMA OneIsShortest ==
  ASSUME NEW fs \in Seq(FactRow), NEW n \in Nat, n = Len(fs), NEW p, p.window \in Nat \ {0},
         NEW i \in 1..(n + 1),
         \A j \in (i + 1)..(n + 1) : Len(Part(fs, j, n)) < p.window,
         Len(Part(fs, i, n)) >= p.window
  PROVE  ShortestOf(p, fs, n) = {i}
<1> DEFINE Full == FullFrom(p, fs, n)
<1>1. \A j \in 1..(n + 1) : Len(Part(fs, j, n)) \in Nat
  <2>1. ASSUME NEW j \in 1..(n + 1) PROVE Len(Part(fs, j, n)) \in Nat
    <3>1. j \in 1..(Len(fs) + 1) /\ n \in 0..Len(fs) /\ j <= n + 1
      OBVIOUS
    <3>2. QED  BY <3>1, PartIs
  <2>2. QED  BY <2>1
<1>2. i # n + 1
  <2>1. Part(fs, n + 1, n) = <<>>
    <3>1. n + 1 \in 1..(Len(fs) + 1) /\ (n + 1) - 1 = n
      OBVIOUS
    <3>2. QED  BY <3>1, PartOfNothing
  <2>2. Len(Part(fs, n + 1, n)) = 0
    BY <2>1
  <2>3. QED  BY <2>2
<1>3. i \in Full
  BY <1>2 DEF FullFrom
<1>4. \A j \in (i + 1)..(n + 1) : j \notin Full
  <2>1. ASSUME NEW j \in (i + 1)..(n + 1) PROVE j \notin Full
    <3> DEFINE x == Len(Part(fs, j, n))
    <3>1. x \in Nat /\ x < p.window
      BY <1>1
    <3> HIDE DEF x
    <3>2. ~(x >= p.window)
      BY <3>1
    <3>3. QED  BY <3>2 DEF x, FullFrom
  <2>2. QED  BY <2>1
<1>5. i + 1 \notin Full
  <2>1. i + 1 \in (i + 1)..(n + 1)
    BY <1>2
  <2>2. QED  BY <1>4, <2>1
<1>6. ASSUME NEW k \in Full, k + 1 \notin Full PROVE k = i
  <2>1. k \in 1..n
    BY DEF FullFrom
  <2>2. ~(k > i)
    <3>1. k > i => k \in (i + 1)..(n + 1)
      BY <2>1
    <3>2. QED  BY <1>4, <3>1
  <2>3. ~(k < i)
    <3>1. SUFFICES ASSUME k < i PROVE FALSE
      OBVIOUS
    <3>2. k + 1 \in 1..i /\ k + 1 \in 1..(n + 1) /\ k + 1 \in 1..n
      BY <1>2, <2>1, <3>1
    <3>3. Len(Part(fs, i, n)) <= Len(Part(fs, k + 1, n))
      BY <3>2, PartsShrink
    <3> DEFINE x == Len(Part(fs, i, n))
               y == Len(Part(fs, k + 1, n))
    <3>4. x \in Nat /\ y \in Nat /\ x <= y /\ x >= p.window
      BY <1>1, <3>2, <3>3
    <3> HIDE DEF x, y
    <3>5. y >= p.window
      BY <3>4
    <3>6. QED  BY <1>6, <3>2, <3>5 DEF y, FullFrom
  <2>4. QED  BY <2>1, <2>2, <2>3
<1> HIDE DEF Full
<1>7. {k \in Full : k + 1 \notin Full} = {i}
  BY <1>3, <1>5, <1>6
<1>8. QED  BY <1>7 DEF Full, ShortestOf

LEMMA VerdictIs ==
  ASSUME NEW fs \in Seq(FactRow), NEW n \in Nat, n = Len(fs), n # 0,
         policy.window \in Nat \ {0}, policy.enabled, \A r \in 1..n : RowFits(fs, r)
  PROVE  Verdict(fs) = Judged(policy, fs, n)
<1> DEFINE base == [attempts |-> 0, start |-> Nothing, comparable |-> 0, made |-> 0]
           w == TakenAll(base, Reverse(fs))
<1>1. PICK i \in 1..(n + 1) : TakenFrom(fs, n, n, w, i)
  <2>1. policy.window \in Nat
    OBVIOUS
  <2>2. QED  BY <2>1, TakesTheWindow
<1>2. Verdict(fs) = IF w.attempts < policy.window THEN "insufficient"
                    ELSE IF Gains(w.start, Last(fs).after) /\ Covers(w.comparable, w.made)
                         THEN "progress" ELSE "stagnated"
  BY DEF Verdict, TakenAll
<1> HIDE DEF w
<1>3. /\ w = Of(fs, i, n)
      /\ \A j \in (i + 1)..(n + 1) : Len(Part(fs, j, n)) < policy.window
      /\ i = 1 \/ Len(Part(fs, i, n)) >= policy.window
  <2>1. n - n + 1 = 1
    OBVIOUS
  <2>2. QED  BY <1>1, <2>1 DEF TakenFrom
<1>4. \A j \in 1..(n + 1) : Len(Part(fs, j, n)) \in Nat
  <2>1. ASSUME NEW j \in 1..(n + 1) PROVE Len(Part(fs, j, n)) \in Nat
    <3>1. j \in 1..(Len(fs) + 1) /\ n \in 0..Len(fs) /\ j <= n + 1
      OBVIOUS
    <3>2. QED  BY <3>1, PartIs
  <2>2. QED  BY <2>1
<1> DEFINE x == Len(Part(fs, i, n))
<1>5. x \in Nat /\ w.attempts = x
  BY <1>3, <1>4 DEF Of
<1>6. CASE x < policy.window
  <2>1. FullFrom(policy, fs, n) = {}
    <3>1. ASSUME NEW j \in 1..n PROVE ~(Len(Part(fs, j, n)) >= policy.window)
      <4> DEFINE y == Len(Part(fs, j, n))
      <4>1. i = 1
        <5> HIDE DEF x
        <5>1. ~(x >= policy.window)
          BY <1>5, <1>6
        <5>2. QED  BY <1>3, <5>1 DEF x
      <4>2. j = i \/ j \in (i + 1)..(n + 1)
        BY <4>1
      <4>3. y \in Nat /\ y < policy.window
        BY <1>3, <1>4, <1>6, <4>2
      <4> HIDE DEF y
      <4>4. ~(y >= policy.window)
        BY <4>3
      <4>5. QED  BY <4>4 DEF y
    <3>2. QED  BY <3>1 DEF FullFrom
  <2>2. Verdict(fs) = "insufficient"
    BY <1>2, <1>5, <1>6
  <2>3. QED  BY <2>1, <2>2 DEF Judged
<1>7. CASE ~(x < policy.window)
  <2>1. x >= policy.window
    <3> HIDE DEF x
    <3>1. QED  BY <1>5, <1>7
  <2>2. ShortestOf(policy, fs, n) = {i}
    BY <1>3, <2>1, OneIsShortest
  <2>3. i \in FullFrom(policy, fs, n) /\ i \in 1..n
    <3>1. i \in FullFrom(policy, fs, n)
      BY <2>2 DEF ShortestOf
    <3>2. QED  BY <3>1 DEF FullFrom
  <2>4. Last(fs).after = Best(Part(fs, 1, n), Nothing)
    <3>1. Last(fs) = fs[n] /\ n \in 1..n
      BY DEF Last
    <3>2. QED  BY <3>1 DEF RowFits
  <2>5. /\ w.start = Best(Part(fs, 1, i - 1), Nothing)
        /\ w.comparable = Cardinality(Comparable(Part(fs, i, n)))
        /\ w.made = Cardinality(Generated(Part(fs, i, n)))
    <3>1. fs[i].before = Best(Part(fs, 1, i - 1), Nothing) /\ ~(i > n)
      <4>1. RowFits(fs, i) /\ i \in Nat /\ i <= n
        BY <2>3
      <4>2. ~(i > n)
        BY <4>1
      <4>3. QED  BY <4>1, <4>2 DEF RowFits
    <3>2. QED  BY <1>3, <3>1 DEF Of
  <2>6. /\ Gains(w.start, Last(fs).after)
             <=> GainsBy(policy, Best(Part(fs, 1, i - 1), Nothing), Best(Part(fs, 1, n), Nothing))
        /\ Covers(w.comparable, w.made)
             <=> CoversBy(policy, Cardinality(Comparable(Part(fs, i, n))),
                          Cardinality(Generated(Part(fs, i, n))))
    BY <2>4, <2>5 DEF Gains, GainsBy, Covers, CoversBy
  <2>7. Verdict(fs) = IF BeatenBy(policy, fs, i, n) THEN "progress" ELSE "stagnated"
    BY <1>2, <1>5, <1>7, <2>6 DEF BeatenBy
  <2>8. QED  BY <2>2, <2>3, <2>7 DEF Judged
<1>8. QED  BY <1>6, <1>7

-----------------------------------------------------------------------------
(* The invariant of a search                                               *)

Verdicts == {Nothing, "disabled", "insufficient", "progress", "stagnated"}

SearchTypes ==
  /\ policy \in Policies \cup {Nothing} /\ (policy # Nothing => Normal(policy))
  /\ policy = Nothing => told = <<>> /\ trials = <<>> /\ phase = Waiting
  /\ told \in Seq(FactRow) /\ trials \in Seq(Trial) /\ phase \in Phases \cup {Nothing, Waiting}

RowsFit(fs)   == \A r \in 1..Len(fs) : RowFits(fs, r)
Judges(p, fs) ==
  p # Nothing /\ p.enabled => \A r \in 1..Len(fs) : fs[r].verdict = Judged(p, fs, r)
Budgeted(p, all) ==
  p # Nothing /\ p.enabled /\ p.enforce =>
    \A ph \in DOMAIN p.budgets : Cardinality(Places(all, InPhase(ph))) <= p.budgets[ph]

ProgressInv ==
  /\ SearchTypes /\ RowsFit(told) /\ Judges(policy, told)
  /\ Budgeted(policy, Part(told, 1, Len(told)) \o trials)

LEMMA HistoryIs ==
  ASSUME told \in Seq(FactRow)
  PROVE  History = Part(told, 1, Len(told)) /\ History \in Seq(Trial)
<1> DEFINE n == Len(told)
<1>1. n \in Nat /\ DOMAIN told = 1..n /\ n - 1 + 1 = n /\ \A k \in 1..n : 1 + k - 1 = k
  OBVIOUS
<1>2. [i \in DOMAIN told |-> told[i].trials] = Rows(told, 1, n)
  <2> HIDE DEF n
  <2>1. Rows(told, 1, n) = [k \in 1..n |-> told[1 + k - 1].trials]
    BY <1>1 DEF Rows
  <2>2. QED  BY <1>1, <2>1
<1>3. 1 \in 1..(Len(told) + 1) /\ n \in 0..Len(told) /\ 1 <= n + 1
  OBVIOUS
<1>4. QED  BY <1>2, <1>3, PartIs DEF History, Part

(* A verdict does not depend on those given before.                        *)
LEMMA JudgedByTrials ==
  ASSUME NEW fs, NEW gs, NEW r \in Nat, \A k \in 1..r : fs[k].trials = gs[k].trials
  PROVE  \A p : Judged(p, fs, r) = Judged(p, gs, r)
<1>1. \A i \in 1..r : Part(fs, i, r) = Part(gs, i, r)
  <2>1. \A i \in 1..r : i \in Nat \ {0}
    OBVIOUS
  <2>2. QED  BY <2>1, PartStable
<1>2. ASSUME NEW i \in 1..r PROVE Part(fs, 1, i - 1) = Part(gs, 1, i - 1)
  <2>1. /\ i - 1 \in Nat /\ 1 \in Nat \ {0}
        /\ \A k \in 1..(i - 1) : fs[k].trials = gs[k].trials
    OBVIOUS
  <2>2. QED  BY <2>1, PartStable
<1>3. Part(fs, 1, r) = Part(gs, 1, r)
  <2>1. 1 \in Nat \ {0}
    OBVIOUS
  <2>2. QED  BY <2>1, PartStable
<1>4. ASSUME NEW p PROVE Judged(p, fs, r) = Judged(p, gs, r)
  <2>1. FullFrom(p, fs, r) = FullFrom(p, gs, r)
    BY <1>1 DEF FullFrom
  <2>2. ShortestOf(p, fs, r) = ShortestOf(p, gs, r) /\ ShortestOf(p, fs, r) \subseteq 1..r
    BY <2>1 DEF ShortestOf, FullFrom
  <2>3. \A i \in 1..r : BeatenBy(p, fs, i, r) <=> BeatenBy(p, gs, i, r)
    BY <1>1, <1>2, <1>3 DEF BeatenBy
  <2>4. QED  BY <2>1, <2>2, <2>3 DEF Judged
<1>5. QED  BY <1>4

(* What is said of a round depends on it and the rounds before it only.    *)
LEMMA RowsAreStable ==
  ASSUME NEW fs, NEW gs, NEW r \in Nat \ {0}, \A k \in 1..r : fs[k] = gs[k]
  PROVE  /\ RowFits(fs, r) => RowFits(gs, r)
         /\ \A p : Judged(p, fs, r) = Judged(p, gs, r)
<1>1. /\ r \in 1..r /\ r \in Nat /\ 1 \in Nat \ {0} /\ fs[r] = gs[r] /\ r - 1 \in Nat
      /\ \A k \in 1..(r - 1) : k \in 1..r
  OBVIOUS
<1>2. Part(fs, 1, r) = Part(gs, 1, r) /\ Part(fs, 1, r - 1) = Part(gs, 1, r - 1)
  BY <1>1, PartStable
<1>3. RowFits(fs, r) => RowFits(gs, r)
  BY <1>1, <1>2 DEF RowFits
<1>4. QED  BY <1>1, <1>3, JudgedByTrials

LEMMA IncumbentIs ==
  ASSUME told \in Seq(FactRow), RowsFit(told)
  PROVE  Incumbent = Best(History, Nothing) /\ Incumbent \in Nat \cup {Nothing}
<1> DEFINE n == Len(told)
<1>1. n \in Nat /\ History = Part(told, 1, n) /\ History \in Seq(Trial)
  BY HistoryIs
<1>2. Nothing \in Nat \cup {Nothing}
  OBVIOUS
<1>3. Incumbent = Best(History, Nothing)
  <2>1. CASE told = <<>>
    <3>1. n = 0 /\ 1 \in 1..(Len(told) + 1) /\ 1 - 1 = 0
      BY <2>1
    <3>2. History = <<>>
      BY <1>1, <3>1, PartOfNothing
    <3>3. QED  BY <2>1, <3>2, BestOfNothing DEF Incumbent
  <2>2. CASE told # <<>>
    <3>1. n \in 1..n /\ Last(told) = told[n]
      BY <1>1, <2>2 DEF Last
    <3>2. RowFits(told, n)
      BY <3>1 DEF RowsFit
    <3>3. QED  BY <1>1, <2>2, <3>1, <3>2 DEF Incumbent, RowFits
  <2>3. QED  BY <2>1, <2>2
<1>4. QED  BY <1>1, <1>2, <1>3, BestIs

LEMMA FactsFit ==
  ASSUME told \in Seq(FactRow), trials \in Seq(Trial), RowsFit(told), NEW v \in Verdicts
  PROVE  /\ Facts(v) \in FactRow /\ Append(told, Facts(v)) \in Seq(FactRow)
         /\ RowsFit(Append(told, Facts(v)))
         /\ Part(Append(told, Facts(v)), 1, Len(told) + 1) = History \o trials
<1> DEFINE n == Len(told)
           row == Facts(v)
           fs == Append(told, row)
<1>1. /\ History = Part(told, 1, n) /\ History \in Seq(Trial) /\ n \in Nat
      /\ Incumbent = Best(History, Nothing) /\ Incumbent \in Nat \cup {Nothing}
      /\ <<>> \in Seq(Trial) /\ History \o trials \in Seq(Trial)
  BY HistoryIs, IncumbentIs
<1>2. row = [trials |-> trials, before |-> Incumbent, after |-> Best(trials, Incumbent),
             window |-> Novelty(History, trials), cumulative |-> Novelty(<<>>, History \o trials),
             verdict |-> v]
  BY DEF Facts
<1>3. row \in FactRow
  <2>1. Best(trials, Incumbent) \in Nat \cup {Nothing}
    BY <1>1, BestIs
  <2>2. Novelty(History, trials) \in Counts /\ Novelty(<<>>, History \o trials) \in Counts
    BY <1>1, NoveltyIs
  <2>3. QED  BY <1>1, <1>2, <2>1, <2>2 DEF FactRow, Verdicts
<1> HIDE DEF row
<1>4. /\ fs \in Seq(FactRow) /\ Len(fs) = n + 1 /\ fs[n + 1] = row
      /\ \A k \in 1..n : fs[k] = told[k]
  BY <1>3
<1> HIDE DEF fs
<1>5. Part(fs, 1, n) = History
  <2>1. \A k \in 1..n : fs[k].trials = told[k].trials
    BY <1>4
  <2>2. 1 \in Nat \ {0} /\ n \in Nat
    BY <1>1
  <2>3. QED  BY <1>1, <2>1, <2>2, PartStable
<1>6. Part(fs, 1, n + 1) = History \o trials
  <2>1. /\ 1 \in 1..Len(fs) /\ n + 1 \in 1..Len(fs) /\ 1 <= n + 1 /\ (n + 1) - 1 = n
    BY <1>1, <1>4
  <2>2. Part(fs, 1, n + 1) = Part(fs, 1, n) \o fs[n + 1].trials
    BY <1>4, <2>1, PartAppends
  <2>3. QED  BY <1>2, <1>4, <1>5, <2>2
<1>7. RowFits(fs, n + 1)
  <2>1. (n + 1) - 1 = n
    BY <1>1
  <2>2. Best(trials, Incumbent) = Best(History \o trials, Nothing)
    BY <1>1, BestGoesOn
  <2>3. /\ Novelty(History, trials).novel + Novelty(History, trials).again
             = Cardinality(Comparable(trials))
        /\ Novelty(History, trials).made = Cardinality(Generated(trials))
        /\ Novelty(History, trials).novel = Cardinality(Showing(trials) \ Seen(History))
        /\ Novelty(History, trials).novel <= Novelty(<<>>, History \o trials).novel
    BY <1>1, NoveltyIs, NewsIsCumulative
  <2>4. /\ row.before = Incumbent /\ row.after = Best(trials, Incumbent) /\ row.trials = trials
        /\ row.window = Novelty(History, trials)
        /\ row.cumulative = Novelty(<<>>, History \o trials)
    BY <1>2
  <2>5. QED  BY <1>1, <1>4, <1>5, <1>6, <2>1, <2>2, <2>3, <2>4 DEF RowFits
<1>8. \A r \in 1..n : RowFits(fs, r)
  <2>1. ASSUME NEW r \in 1..n PROVE RowFits(fs, r)
    <3>1. r \in Nat \ {0} /\ \A k \in 1..r : told[k] = fs[k]
      BY <1>1, <1>4
    <3>2. RowFits(told, r)
      BY DEF RowsFit
    <3>3. QED  BY <3>1, <3>2, RowsAreStable
  <2>2. QED  BY <2>1
<1>9. RowsFit(fs)
  <2>1. \A r \in 1..(n + 1) : r = n + 1 \/ r \in 1..n
    BY <1>1
  <2>2. QED  BY <1>4, <1>7, <1>8, <2>1 DEF RowsFit
<1>10. QED  BY <1>3, <1>4, <1>6, <1>9 DEF fs, row

-----------------------------------------------------------------------------
(* Its steps                                                               *)

LEMMA SpentIs ==
  ASSUME told \in Seq(FactRow), trials \in Seq(Trial), NEW ph
  PROVE  Spent(ph) = Cardinality(Places(Part(told, 1, Len(told)) \o trials, InPhase(ph)))
<1> DEFINE all == History \o trials
<1>1. History = Part(told, 1, Len(told)) /\ all \in Seq(Trial)
  BY HistoryIs
<1>2. {i \in DOMAIN all : all[i].phase = ph} = Places(all, InPhase(ph))
  <2> HIDE DEF all
  <2>1. QED  BY <1>1, CountsArePlaces
<1>3. QED  BY <1>1, <1>2 DEF Spent

LEMMA SearchBegins == ProgressOut => ProgressInv
<1> SUFFICES ASSUME ProgressOut PROVE ProgressInv
  OBVIOUS
<1>1. policy = Nothing /\ told = <<>> /\ phase = Waiting /\ trials = <<>>
  BY DEF ProgressOut
<1>2. SearchTypes
  BY <1>1 DEF SearchTypes
<1>3. RowsFit(told) /\ Judges(policy, told) /\ Budgeted(policy, Part(told, 1, Len(told)) \o trials)
  BY <1>1 DEF RowsFit, Judges, Budgeted
<1>4. QED  BY <1>2, <1>3 DEF ProgressInv

LEMMA FreezeKeeps == ProgressInv /\ Freeze => ProgressInv'
<1> SUFFICES ASSUME ProgressInv, Freeze PROVE ProgressInv'
  OBVIOUS
<1>1. /\ policy = Nothing /\ policy' \in Policies /\ Normal(policy')
      /\ told' = told /\ phase' = phase /\ trials' = trials
  BY DEF Freeze
<1>2. /\ told = <<>> /\ trials = <<>> /\ phase = Waiting /\ SearchTypes /\ RowsFit(told)
  BY <1>1 DEF ProgressInv, SearchTypes
<1>3. policy' # Nothing
  BY <1>1, ProgressAssumption
<1>4. SearchTypes'
  <2>1. policy' \in Policies \cup {Nothing} /\ (policy' # Nothing => Normal(policy'))
    BY <1>1
  <2>2. /\ told' \in Seq(FactRow) /\ trials' \in Seq(Trial)
        /\ phase' \in Phases \cup {Nothing, Waiting}
    BY <1>1, <1>2 DEF SearchTypes
  <2>3. QED  BY <1>3, <2>1, <2>2 DEF SearchTypes
<1>5. RowsFit(told') /\ Judges(policy', told')
  BY <1>1, <1>2 DEF RowsFit, Judges
<1>6. Part(told, 1, Len(told)) \o trials = <<>>
  <2>1. told \in Seq(FactRow) /\ 1 \in 1..(Len(told) + 1) /\ Len(told) = 1 - 1
    BY <1>2 DEF SearchTypes
  <2>2. Part(told, 1, Len(told)) = <<>>
    BY <2>1, PartOfNothing
  <2>3. QED  BY <1>2, <2>2
<1>7. Budgeted(policy', <<>>)
  <2>1. \A ph \in DOMAIN policy'.budgets : policy'.budgets[ph] \in Nat
    BY <1>1 DEF Normal
  <2>2. \A ph \in DOMAIN policy'.budgets :
          Cardinality(Places(<<>>, InPhase(ph))) <= policy'.budgets[ph]
    <3>1. ASSUME NEW ph \in DOMAIN policy'.budgets
          PROVE  Cardinality(Places(<<>>, InPhase(ph))) <= policy'.budgets[ph]
      <4>1. Cardinality(Places(<<>>, InPhase(ph))) = 0
        BY PlacesOfNothing
      <4>2. policy'.budgets[ph] \in Nat
        BY <2>1
      <4>3. QED  BY <4>1, <4>2
    <3>2. QED  BY <3>1
  <2>3. QED  BY <2>2 DEF Budgeted
<1>8. Budgeted(policy', Part(told', 1, Len(told')) \o trials')
  BY <1>1, <1>6, <1>7
<1>9. QED  BY <1>4, <1>5, <1>8 DEF ProgressInv

LEMMA PhaseIs ==
  ASSUME SearchTypes, policy # Nothing, NEW declared
  PROVE  PhaseFor(Len(told) + 1, declared) \in Phases \cup {Nothing}
<1>1. policy.schedule \in Seq(Phases) /\ told \in Seq(FactRow)
  BY DEF SearchTypes, Normal
<1>2. Len(told) + 1 <= Len(policy.schedule) => policy.schedule[Len(told) + 1] \in Phases
  BY <1>1
<1>3. QED  BY <1>2 DEF PhaseFor

LEMMA OpenKeeps == \A declared : ProgressInv /\ Open(declared) => ProgressInv'
<1> SUFFICES ASSUME NEW declared, ProgressInv, Open(declared) PROVE ProgressInv'
  OBVIOUS
<1>1. /\ policy # Nothing /\ phase' = PhaseFor(Len(told) + 1, declared)
      /\ policy' = policy /\ told' = told /\ trials' = trials
  BY DEF Open
<1>2. phase' \in Phases \cup {Nothing}
  BY <1>1, PhaseIs DEF ProgressInv
<1>3. SearchTypes'
  BY <1>1, <1>2 DEF ProgressInv, SearchTypes
<1>4. QED  BY <1>1, <1>3 DEF ProgressInv

LEMMA EvaluateKeeps ==
  \A o \in Origins, p \in Programs, s \in BOOLEAN :
    ProgressInv /\ Evaluate(o, p, s) => ProgressInv'
<1> SUFFICES ASSUME NEW o \in Origins, NEW p \in Programs, NEW s \in BOOLEAN,
                    ProgressInv, Evaluate(o, p, s)
             PROVE  ProgressInv'
  OBVIOUS
<1> DEFINE t == [origin |-> o, program |-> p, sound |-> s, phase |-> phase]
           all == Part(told, 1, Len(told)) \o trials
<1>1. /\ phase # Waiting /\ Allowed(phase) /\ trials' = Append(trials, t)
      /\ policy' = policy /\ told' = told /\ phase' = phase
  BY DEF Evaluate
<1>2. /\ SearchTypes /\ RowsFit(told) /\ Judges(policy, told) /\ Budgeted(policy, all)
      /\ told \in Seq(FactRow) /\ trials \in Seq(Trial) /\ phase \in Phases \cup {Nothing, Waiting}
  BY DEF ProgressInv, SearchTypes
<1>3. policy # Nothing
  BY <1>1, <1>2 DEF SearchTypes
<1>4. t \in Trial
  <2>1. o \in {"baseline", "explicit_parent", "generated", "generated_repair"}
    <3>1. CASE Len(trials) < Len(Known)
      <4>1. o = Known[Len(trials) + 1] /\ Len(trials) \in Nat
        BY <1>2, <3>1 DEF Origins
      <4>2. CASE Incumbent = Nothing
        <5>1. Known = <<"baseline">> /\ Len(Known) = 1
          BY <4>2 DEF Known
        <5>2. Len(trials) + 1 = 1
          BY <3>1, <4>1, <5>1
        <5>3. QED  BY <4>1, <5>1, <5>2
      <4>3. CASE Incumbent # Nothing
        <5>1. Known = <<"baseline", "explicit_parent", "explicit_parent">> /\ Len(Known) = 3
          BY <4>3 DEF Known
        <5>2. Len(trials) + 1 \in 1..3
          BY <3>1, <4>1, <5>1
        <5>3. QED  BY <4>1, <5>1, <5>2
      <4>4. QED  BY <4>2, <4>3
    <3>2. CASE ~(Len(trials) < Len(Known))
      BY <3>2 DEF Origins
    <3>3. QED  BY <3>1, <3>2
  <2>2. QED  BY <1>2, <2>1 DEF Trial
<1>5. trials' \in Seq(Trial)
  BY <1>1, <1>2, <1>4
<1>6. SearchTypes'
  BY <1>1, <1>2, <1>3, <1>5 DEF SearchTypes
<1>7. all \in Seq(Trial) /\ Part(told, 1, Len(told)) \o Append(trials, t) = Append(all, t)
  <2>1. Part(told, 1, Len(told)) \in Seq(Trial)
    BY <1>2, HistoryIs
  <2> DEFINE q == Part(told, 1, Len(told))
  <2> HIDE DEF q, t
  <2>2. q \o trials \in Seq(Trial) /\ q \o Append(trials, t) = Append(q \o trials, t)
    BY <1>2, <1>4, <2>1 DEF q
  <2>3. QED  BY <2>2 DEF q
<1> HIDE DEF all
<1>8. Budgeted(policy, Append(all, t))
  <2>1. SUFFICES ASSUME policy.enabled, policy.enforce, NEW ph \in DOMAIN policy.budgets
                 PROVE  Cardinality(Places(Append(all, t), InPhase(ph))) <= policy.budgets[ph]
    BY DEF Budgeted
  <2> DEFINE c == Cardinality(Places(all, InPhase(ph)))
             b == policy.budgets[ph]
  <2>2. /\ Cardinality(Places(Append(all, t), InPhase(ph)))
             = c + (IF t \in InPhase(ph) THEN 1 ELSE 0)
        /\ c \in Nat
    <3> HIDE DEF t
    <3>1. QED  BY <1>4, <1>7, PlacesAppend, PlacesAreFinite
  <2>3. b \in Nat /\ c <= b
    <3>1. Normal(policy)
      BY <1>2, <1>3 DEF SearchTypes
    <3>2. QED  BY <1>2, <1>3, <2>1, <3>1 DEF Normal, Budgeted
  <2>4. t \in InPhase(ph) => c < b
    <3>1. t \in InPhase(ph) => phase = ph
      BY DEF InPhase
    <3>2. Spent(ph) = c
      BY <1>2, SpentIs DEF all
    <3>3. phase = ph => Spent(ph) < policy.budgets[ph]
      BY <1>1, <2>1 DEF Allowed
    <3>4. QED  BY <3>1, <3>2, <3>3
  <2> HIDE DEF b, c, t
  <2>5. c + (IF t \in InPhase(ph) THEN 1 ELSE 0) <= b
    BY <2>2, <2>3, <2>4
  <2>6. QED  BY <2>2, <2>5 DEF b
<1>9. Budgeted(policy', Part(told', 1, Len(told')) \o trials')
  BY <1>1, <1>7, <1>8
<1>10. QED  BY <1>1, <1>2, <1>6, <1>9 DEF ProgressInv

LEMMA CollectKeeps == ProgressInv /\ Collect => ProgressInv'
<1> SUFFICES ASSUME ProgressInv, Collect PROVE ProgressInv'
  OBVIOUS
<1> DEFINE n  == Len(told)
           gs == Append(told, Facts(Nothing))
           v  == Verdict(gs)
           fs == Append(told, Facts(v))
<1>1. /\ phase # Waiting /\ told' = fs /\ phase' = Waiting /\ trials' = <<>> /\ policy' = policy
  BY DEF Collect
<1>2. /\ SearchTypes /\ RowsFit(told) /\ Judges(policy, told)
      /\ Budgeted(policy, Part(told, 1, n) \o trials)
      /\ told \in Seq(FactRow) /\ trials \in Seq(Trial) /\ n \in Nat
  BY DEF ProgressInv, SearchTypes
<1>3. policy # Nothing /\ Normal(policy)
  BY <1>1, <1>2 DEF SearchTypes
<1>4. gs \in Seq(FactRow) /\ RowsFit(gs) /\ Len(gs) = n + 1 /\ \A k \in 1..n : gs[k] = told[k]
  <2>1. Nothing \in Verdicts
    BY DEF Verdicts
  <2>2. Facts(Nothing) \in FactRow /\ gs \in Seq(FactRow) /\ RowsFit(gs)
    BY <1>2, <2>1, FactsFit
  <2>3. QED  BY <1>2, <2>2
<1> HIDE DEF gs
<1>5. v \in Verdicts
  <2> DEFINE w == FoldLeft(Taken, [attempts |-> 0, start |-> Nothing, comparable |-> 0, made |-> 0],
                           Reverse(gs))
  <2>1. policy.enabled \in BOOLEAN
    BY <1>3 DEF Normal
  <2> HIDE DEF w
  <2>2. v = CASE ~policy.enabled -> "disabled"
              [] policy.enabled /\ w.attempts < policy.window -> "insufficient"
              [] OTHER -> IF Gains(w.start, Last(gs).after) /\ Covers(w.comparable, w.made)
                          THEN "progress" ELSE "stagnated"
    BY DEF Verdict, w
  <2>3. QED  BY <2>1, <2>2 DEF Verdicts
<1> HIDE DEF v
<1>6. /\ Facts(v) \in FactRow /\ fs \in Seq(FactRow) /\ RowsFit(fs)
      /\ Part(fs, 1, n + 1) = History \o trials
  BY <1>2, <1>5, FactsFit
<1>7. /\ Len(fs) = n + 1 /\ fs[n + 1] = Facts(v) /\ \A k \in 1..n : fs[k] = told[k]
  BY <1>2, <1>6
<1> HIDE DEF fs
<1>8. SearchTypes'
  <2>1. <<>> \in Seq(Trial) /\ Waiting \in Phases \cup {Nothing, Waiting}
    OBVIOUS
  <2>2. QED  BY <1>1, <1>2, <1>3, <1>6, <2>1 DEF SearchTypes
<1>9. Judges(policy, fs)
  <2>1. SUFFICES ASSUME policy.enabled, NEW r \in 1..(n + 1)
                 PROVE  fs[r].verdict = Judged(policy, fs, r)
    BY <1>7 DEF Judges
  <2>2. CASE r = n + 1
    <3>1. /\ policy.window \in Nat \ {0} /\ \A q \in 1..Len(gs) : RowFits(gs, q)
          /\ n + 1 \in Nat /\ n + 1 # 0
      BY <1>2, <1>3, <1>4 DEF Normal, RowsFit
    <3>2. v = Judged(policy, gs, Len(gs))
      <4>1. Len(gs) \in Nat /\ Len(gs) # 0
        BY <1>4, <3>1
      <4>2. QED  BY <1>4, <2>1, <3>1, <4>1, VerdictIs DEF v
    <3>3. Judged(policy, gs, n + 1) = Judged(policy, fs, n + 1)
      <4>1. \A k \in 1..(n + 1) : gs[k].trials = fs[k].trials
        <5>1. gs[n + 1] = Facts(Nothing) /\ fs[n + 1] = Facts(v)
          BY <1>2, <1>7 DEF gs
        <5>2. Facts(Nothing).trials = Facts(v).trials
          BY DEF Facts
        <5>3. \A k \in 1..(n + 1) : k \in 1..n \/ k = n + 1
          BY <1>2
        <5>4. QED  BY <1>4, <1>7, <5>1, <5>2, <5>3
      <4>2. QED  BY <3>1, <4>1, JudgedByTrials
    <3>4. fs[n + 1].verdict = v
      BY <1>7 DEF Facts
    <3>5. QED  BY <1>4, <2>2, <3>2, <3>3, <3>4
  <2>3. CASE r # n + 1
    <3>1. r \in 1..n /\ r \in Nat \ {0} /\ \A k \in 1..r : told[k] = fs[k]
      BY <1>2, <1>7, <2>3
    <3>2. told[r].verdict = Judged(policy, told, r)
      BY <1>2, <1>3, <2>1, <3>1 DEF Judges
    <3>3. Judged(policy, told, r) = Judged(policy, fs, r)
      BY <3>1, RowsAreStable
    <3>4. told[r] = fs[r]
      BY <3>1
    <3>5. QED  BY <3>2, <3>3, <3>4
  <2>4. QED  BY <2>2, <2>3
<1>10. Budgeted(policy, Part(fs, 1, Len(fs)) \o <<>>)
  <2>1. /\ Part(fs, 1, Len(fs)) = Part(told, 1, n) \o trials
        /\ Part(told, 1, n) \o trials \in Seq(Trial)
    BY <1>2, <1>6, <1>7, HistoryIs
  <2>2. (Part(told, 1, n) \o trials) \o <<>> = Part(told, 1, n) \o trials
    BY <2>1
  <2>3. QED  BY <1>2, <2>1, <2>2
<1>11. QED  BY <1>1, <1>6, <1>8, <1>9, <1>10 DEF ProgressInv

LEMMA SearchStands ==
  ASSUME ProgressInv, UNCHANGED progressVars
  PROVE  ProgressInv'
<1>1. policy' = policy /\ told' = told /\ phase' = phase /\ trials' = trials
  BY DEF progressVars
<1>2. SearchTypes'
  BY <1>1 DEF ProgressInv, SearchTypes
<1>3. QED  BY <1>1, <1>2 DEF ProgressInv

LEMMA SearchKeepsOn == ProgressInv /\ [ViewNext]_<<vars, initVars, progressVars>> => ProgressInv'
<1> SUFFICES ASSUME ProgressInv, [ViewNext]_<<vars, initVars, progressVars>> PROVE ProgressInv'
  OBVIOUS
<1>1. CASE UNCHANGED progressVars
  BY <1>1, SearchStands
<1>2. CASE ProgressStep
  <2>1. CASE Freeze
    BY <2>1, FreezeKeeps
  <2>2. ASSUME NEW declared \in Intents, Open(declared) PROVE ProgressInv'
    BY <2>2, OpenKeeps
  <2>3. ASSUME NEW o \in Origins, NEW p \in Programs, NEW s \in BOOLEAN, Evaluate(o, p, s)
        PROVE  ProgressInv'
    BY <2>3, EvaluateKeeps
  <2>4. CASE Collect
    BY <2>4, CollectKeeps
  <2>5. QED  BY <1>2, <2>1, <2>2, <2>3, <2>4 DEF ProgressStep
<1>3. UNCHANGED progressVars \/ ProgressStep
  <2>1. CASE ViewNext
    BY <2>1 DEF ViewNext, progressVars
  <2>2. CASE UNCHANGED <<vars, initVars, progressVars>>
    BY <2>2
  <2>3. QED  BY <2>1, <2>2
<1>4. QED  BY <1>1, <1>2, <1>3

(* The facts of a search fit what was evaluated, whatever the Agent reads  *)
(* besides (build_search_progress, collect_facts).                         *)
THEOREM ProgressInvariant == ViewSpec => []ProgressInv
<1>1. ViewInit => ProgressInv
  BY SearchBegins DEF ViewInit
<1>2. QED  BY <1>1, SearchKeepsOn, PTL DEF ViewSpec

(* What was seen in some rounds was seen in one of them.                   *)
LEMMA SeenOfRounds ==
  ASSUME NEW fs \in Seq(FactRow), NEW m \in 0..Len(fs)
  PROVE  Seen(Part(fs, 1, m)) = UNION {Seen(fs[q].trials) : q \in 1..m}
<1> DEFINE Union(k) == UNION {Seen(fs[q].trials) : q \in 1..k}
           Odd == {k \in 0..m : Seen(Part(fs, 1, k)) # Union(k)}
<1>1. SUFFICES ASSUME Odd # {} PROVE FALSE
  <2>1. m \in 0..m
    OBVIOUS
  <2>2. QED  BY <2>1
<1>2. Odd \in SUBSET Nat
  OBVIOUS
<1>3. PICK k \in Odd : \A j \in Odd : k <= j
  BY <1>1, <1>2, SmallestNumber
<1>4. k # 0
  <2>1. Part(fs, 1, 0) = <<>>
    <3>1. 1 \in 1..(Len(fs) + 1) /\ 1 - 1 = 0
      OBVIOUS
    <3>2. QED  BY <3>1, PartOfNothing
  <2>2. Seen(<<>>) = {}
    BY DEF Seen, ToSet
  <2>3. Union(0) = {}
    OBVIOUS
  <2> HIDE DEF Union
  <2>4. QED  BY <1>3, <2>1, <2>2, <2>3
<1>5. k \in 1..m /\ k - 1 \in 0..m /\ k - 1 \notin Odd /\ k \in 1..Len(fs) /\ k - 1 \in 0..Len(fs)
  <2>1. k \in 0..m
    BY <1>3
  <2>2. /\ k \in 1..m /\ k - 1 \in 0..m /\ k \in 1..Len(fs) /\ k - 1 \in 0..Len(fs)
        /\ ~(k <= k - 1)
    BY <1>4, <2>1
  <2> HIDE DEF Odd
  <2>3. QED  BY <1>3, <2>2
<1>6. Seen(Part(fs, 1, k - 1)) = Union(k - 1)
  BY <1>5
<1>7. Part(fs, 1, k) = Part(fs, 1, k - 1) \o fs[k].trials
  <2>1. 1 \in 1..Len(fs) /\ 1 <= k
    BY <1>5
  <2>2. QED  BY <1>5, <2>1, PartAppends
<1>8. Part(fs, 1, k - 1) \in Seq(Trial) /\ fs[k].trials \in Seq(Trial)
  <2>1. 1 \in 1..(Len(fs) + 1) /\ 1 <= (k - 1) + 1
    BY <1>5
  <2>2. QED  BY <1>5, <2>1, PartIs, RowsHaveTrials
<1>9. Seen(Part(fs, 1, k)) = Seen(Part(fs, 1, k - 1)) \cup Seen(fs[k].trials)
  <2>1. ToSet(Part(fs, 1, k)) = ToSet(Part(fs, 1, k - 1)) \cup ToSet(fs[k].trials)
    BY <1>7, <1>8, ToSetOfTwo
  <2>2. QED  BY <2>1 DEF Seen
<1>10. Union(k) = Union(k - 1) \cup Seen(fs[k].trials)
  <2>1. 1..k = (1..(k - 1)) \cup {k}
    BY <1>5
  <2>2. QED  BY <2>1
<1> HIDE DEF Union
<1>11. QED  BY <1>3, <1>6, <1>9, <1>10

LEMMA NoveltyHolds == ProgressInv => NoveltyIsCountedOnce
<1> SUFFICES ASSUME ProgressInv, NEW r \in DOMAIN told
             PROVE  LET By(q)    == {t \in ToSet(told[q].trials) : t.sound}
                        Shown(q) == {Behaviour[t.program] : t \in By(q)}
                        Made == {u \in By(r) : u.origin = "generated"}
                        News == {Behaviour[t.program] : t \in Made}
                                  \ UNION {Shown(q) : q \in 1..(r - 1)}
                    IN  told[r].window.novel = Cardinality(News)
                        /\ told[r].window.novel <= told[r].cumulative.novel
  BY DEF NoveltyIsCountedOnce
<1>1. told \in Seq(FactRow) /\ r \in 1..Len(told) /\ r - 1 \in 0..Len(told)
  BY DEF ProgressInv, SearchTypes
<1>2. RowFits(told, r)
  BY <1>1 DEF ProgressInv, RowsFit
<1>3. \A q \in 1..(r - 1) :
        Seen(told[q].trials)
          = {Behaviour[t.program] : t \in {u \in ToSet(told[q].trials) : u.sound}}
  BY DEF Seen
<1>4. Seen(Part(told, 1, r - 1)) = UNION {Seen(told[q].trials) : q \in 1..(r - 1)}
  BY <1>1, SeenOfRounds
<1>5. Showing(told[r].trials)
        = {Behaviour[t.program] :
             t \in {u \in {t \in ToSet(told[r].trials) : t.sound} : u.origin = "generated"}}
  BY DEF Showing
<1>6. QED  BY <1>2, <1>3, <1>4, <1>5 DEF RowFits, Seen

LEMMA VerdictHolds == ProgressInv => VerdictIsOfItsWindow
<1> SUFFICES ASSUME ProgressInv, NEW r \in DOMAIN told, policy.enabled
             PROVE  LET Span(i)  == FlattenSeq([k \in 1..(r - i + 1) |-> told[i + k - 1].trials])
                        BestBefore(i) ==
                          Best(FlattenSeq([k \in 1..(i - 1) |-> told[k].trials]), Nothing)
                        Full     == {i \in 1..r : Len(Span(i)) >= policy.window}
                        Shortest == {i \in Full : i + 1 \notin Full}
                        Beaten(i) ==
                          /\ Gains(BestBefore(i), BestBefore(r + 1))
                          /\ Covers(Cardinality(Comparable(Span(i))),
                                    Cardinality(Generated(Span(i))))
                    IN  told[r].verdict =
                          IF Full = {} THEN "insufficient"
                          ELSE IF \E i \in Shortest : Beaten(i) THEN "progress" ELSE "stagnated"
  BY DEF VerdictIsOfItsWindow
<1> DEFINE Span(i)  == FlattenSeq([k \in 1..(r - i + 1) |-> told[i + k - 1].trials])
           BestBefore(i) == Best(FlattenSeq([k \in 1..(i - 1) |-> told[k].trials]), Nothing)
           Full     == {i \in 1..r : Len(Span(i)) >= policy.window}
           Shortest == {i \in Full : i + 1 \notin Full}
           Beaten(i) == /\ Gains(BestBefore(i), BestBefore(r + 1))
                        /\ Covers(Cardinality(Comparable(Span(i))), Cardinality(Generated(Span(i))))
<1>1. told \in Seq(FactRow) /\ r \in 1..Len(told) /\ told # <<>>
  BY DEF ProgressInv, SearchTypes
<1>2. told[r].verdict = Judged(policy, told, r)
  <2>1. policy # Nothing
    BY <1>1 DEF ProgressInv, SearchTypes
  <2>2. QED  BY <1>1, <2>1 DEF ProgressInv, Judges
<1>3. \A i : Span(i) = Part(told, i, r)
  BY DEF Part, Rows
<1>4. \A i \in 1..(r + 1) : BestBefore(i) = Best(Part(told, 1, i - 1), Nothing)
  <2>1. ASSUME NEW i \in 1..(r + 1) PROVE BestBefore(i) = Best(Part(told, 1, i - 1), Nothing)
    <3>1. (i - 1) - 1 + 1 = i - 1 /\ \A k \in 1..(i - 1) : 1 + k - 1 = k
      BY <1>1
    <3>2. Rows(told, 1, i - 1) = [k \in 1..(i - 1) |-> told[k].trials]
      BY <3>1 DEF Rows
    <3>3. QED  BY <3>2 DEF Part
  <2>2. QED  BY <2>1
<1>5. r + 1 \in 1..(r + 1) /\ (r + 1) - 1 = r /\ \A i \in 1..r : i \in 1..(r + 1)
  BY <1>1
<1> HIDE DEF Span, BestBefore
<1>6. Full = FullFrom(policy, told, r)
  BY <1>3 DEF FullFrom
<1>7. Shortest = ShortestOf(policy, told, r) /\ Shortest \subseteq 1..r
  BY <1>6 DEF ShortestOf
<1>8. \A i \in 1..r : Beaten(i) <=> BeatenBy(policy, told, i, r)
  <2>1. BestBefore(r + 1) = Best(Part(told, 1, r), Nothing)
    BY <1>4, <1>5
  <2>2. \A i \in 1..r : BestBefore(i) = Best(Part(told, 1, i - 1), Nothing)
    BY <1>4, <1>5
  <2>3. QED  BY <1>3, <2>1, <2>2 DEF BeatenBy, Gains, GainsBy, Covers, CoversBy
<1> HIDE DEF Full, Shortest, Beaten
<1>9. told[r].verdict = IF Full = {} THEN "insufficient"
                        ELSE IF \E i \in Shortest : Beaten(i) THEN "progress" ELSE "stagnated"
  BY <1>2, <1>6, <1>7, <1>8 DEF Judged
<1>10. QED  BY <1>9 DEF Full, Shortest, Beaten, Span, BestBefore

LEMMA BudgetsHold == ProgressInv => PhasesKeepTheirBudgets
<1> SUFFICES ASSUME ProgressInv, policy # Nothing, policy.enabled, policy.enforce,
                    NEW ph \in DOMAIN policy.budgets
             PROVE  Spent(ph) <= policy.budgets[ph]
  BY DEF PhasesKeepTheirBudgets
<1>1. Spent(ph) = Cardinality(Places(Part(told, 1, Len(told)) \o trials, InPhase(ph)))
  BY SpentIs DEF ProgressInv, SearchTypes
<1>2. QED  BY <1>1 DEF ProgressInv, Budgeted

(* What an Agent is told of its search is true of all that was evaluated:  *)
(* a behaviour is news once, a verdict is that of the shortest run of last *)
(* rounds that is enough, and no phase exceeds its budget                  *)
(* (build_search_progress and the budget of phases in session_runtime).    *)
THEOREM ProgressIsAlwaysAccounted == ViewSpec => []ProgressIsAccounted
<1>1. ProgressInv => ProgressIsAccounted
  BY NoveltyHolds, VerdictHolds, BudgetsHold DEF ProgressIsAccounted
<1>2. QED  BY <1>1, ProgressInvariant, PTL

=============================================================================
