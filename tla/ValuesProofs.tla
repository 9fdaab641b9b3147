---------------------------- MODULE ValuesProofs ----------------------------
(***************************************************************************)
(* Theorems about Values, for any inputs that its assumptions allow, of    *)
(* any length.                                                             *)
(*                                                                         *)
(* What a recursive definition computes is found without induction over    *)
(* operators: a set of the numbers for which it holds is shown to contain  *)
(* all of them (Counted0), which rests on < being well founded.  Peels and *)
(* AlongSets say so of the functions on sets the folds are made of, Along  *)
(* of those on sequences.                                                  *)
(***************************************************************************)
EXTENDS Values, SequenceTheorems, FiniteSetTheorems, WellFoundedInduction, TLAPS

----------------------------------------------------------------------------
\* Numbers, sets of them, and the functions the folds and filters are made of.

\* A set of numbers has a least one ...
LEMMA Least ==
  ASSUME NEW T \in SUBSET Nat, T # {}
  PROVE  \E x \in T : \A y \in T : x <= y
<1>1. IsWellFoundedOn({ss \in Nat \X Nat : ss[1] < ss[2]}, Nat)
  BY NatLessThanWellFounded DEF OpToRel
<1>2. PICK x \in T : \A y \in T : ~ (<<y, x>> \in {ss \in Nat \X Nat : ss[1] < ss[2]})
  BY <1>1, WFMin
<1>3. \A y \in T : ~ (y < x)
  BY <1>2
<1>. QED
  BY <1>3

\* ... so that what holds of 0 and of each next number holds of all.
LEMMA Counted0 ==
  ASSUME NEW T, 0 \in T, \A k \in Nat : k \in T => k + 1 \in T
  PROVE  Nat \subseteq T
<1> SUFFICES ASSUME Nat \ T # {} PROVE FALSE
  OBVIOUS
<1>1. PICK x \in Nat \ T : \A y \in Nat \ T : x <= y
  BY Least
<1>2. x # 0 /\ x - 1 \in Nat /\ x - 1 \in T
  BY <1>1
<1>. QED
  BY <1>1, <1>2

\* The same up to n.
LEMMA Upto1 ==
  ASSUME NEW n \in Nat, NEW T, 0 \in T, \A k \in 0 .. n - 1 : k \in T => k + 1 \in T
  PROVE  0 .. n \subseteq T
<1> DEFINE U == T \cup {k \in Nat : k > n}
<1>1. 0 \in U
  OBVIOUS
<1>2. ASSUME NEW k \in Nat, k \in U PROVE k + 1 \in U
  BY <1>2
<1>. HIDE DEF U
<1>3. Nat \subseteq U
  BY <1>1, <1>2, Counted0
<1>. QED
  BY <1>3 DEF U

\* The largest of a set of numbers up to n.
LEMMA Greatest ==
  ASSUME NEW n \in Nat, NEW t \in SUBSET (1 .. n), t # {}
  PROVE  Max(t) \in t /\ \A y \in t : y <= Max(t)
<1> DEFINE D == {n - y : y \in t}
<1>1. D \in SUBSET Nat /\ D # {}
  <2>1. \A y \in t : n - y \in Nat
    OBVIOUS
  <2>. QED
    BY <2>1
<1>2. PICK d \in D : \A y \in D : d <= y
  BY <1>1, Least
<1>3. PICK x \in t : d = n - x
  OBVIOUS
<1>4. \A y \in t : n - x <= n - y
  BY <1>2, <1>3
<1>5. \A y \in t : x >= y
  BY <1>4
<1>6. \E z \in t : \A y \in t : z >= y
  BY <1>5
<1>7. Max(t) \in t /\ \A y \in t : Max(t) >= y
  BY <1>6 DEF Max
<1>. QED
  BY <1>7

\* What the n elements of a sequence make of a value, one after the other.
Steps(n, A) == [(1 .. n) \X A -> A]

\* The values they pass through from base on.
Passes(f, n, A, base, G) ==
  f \in [0 .. n -> A] /\ f[0] = base /\ \A k \in 1 .. n : f[k] = G[<<k, f[k - 1]>>]

\* The same when the positions are taken away from the last on, which is how the
\* folds of Folds.tla are defined.
Peels(g, n, A, base, G) ==
  /\ g \in [SUBSET (1 .. n) -> A]
  /\ \A t \in SUBSET (1 .. n) :
       g[t] = IF t = {} THEN base ELSE G[<<Max(t), g[t \ {Max(t)}]>>]

\* A function defined along a sequence: what each element makes of the value so
\* far.
LEMMA Along ==
  ASSUME NEW n \in Nat, NEW A, NEW base \in A, NEW G \in Steps(n, A)
  PROVE  \E f : Passes(f, n, A, base, G)
<1>0. \A k \in 1 .. n, a \in A : G[<<k, a>>] \in A
  BY DEF Steps
<1> DEFINE T == {m \in Nat : m <= n =>
                   \E f \in [0 .. m -> A] :
                     f[0] = base /\ \A k \in 1 .. m : f[k] = G[<<k, f[k - 1]>>]}
<1>1. 0 \in T
  <2> DEFINE f == [k \in 0 .. 0 |-> base]
  <2>1. f \in [0 .. 0 -> A] /\ f[0] = base /\ \A k \in 1 .. 0 : f[k] = G[<<k, f[k - 1]>>]
    OBVIOUS
  <2>. QED
    BY <2>1
<1>2. ASSUME NEW m \in Nat, m \in T PROVE m + 1 \in T
  <2> SUFFICES ASSUME m + 1 <= n
               PROVE  \E f \in [0 .. m + 1 -> A] :
                        f[0] = base /\ \A k \in 1 .. m + 1 : f[k] = G[<<k, f[k - 1]>>]
    OBVIOUS
  <2>1. PICK f \in [0 .. m -> A] :
          f[0] = base /\ \A k \in 1 .. m : f[k] = G[<<k, f[k - 1]>>]
    BY <1>2
  <2> DEFINE g == [k \in 0 .. m + 1 |-> IF k = m + 1 THEN G[<<m + 1, f[m]>>] ELSE f[k]]
  <2>2. G[<<m + 1, f[m]>>] \in A
    BY <1>0, <2>1
  <2>3. g \in [0 .. m + 1 -> A]
    BY <2>1, <2>2
  <2>4. /\ g[m + 1] = G[<<m + 1, f[m]>>]
        /\ \A k \in 0 .. m : g[k] = f[k]
    OBVIOUS
  <2>. HIDE DEF g
  <2>5. ASSUME NEW k \in 1 .. m + 1 PROVE g[k] = G[<<k, g[k - 1]>>]
    <3>1. CASE k = m + 1
      BY <2>4, <3>1
    <3>2. CASE k # m + 1
      <4>1. k \in 1 .. m /\ k \in 0 .. m /\ k - 1 \in 0 .. m
        BY <3>2
      <4>. QED
        BY <2>1, <2>4, <4>1
    <3>. QED
      BY <3>1, <3>2
  <2>. QED
    BY <2>1, <2>3, <2>4, <2>5
<1>. HIDE DEF T
<1>3. n \in T
  BY <1>1, <1>2, Counted0
<1>. QED
  BY <1>3 DEF T, Passes

\* The same backwards.
LEMMA AlongSets ==
  ASSUME NEW n \in Nat, NEW A, NEW base \in A, NEW G \in Steps(n, A)
  PROVE  \E g : Peels(g, n, A, base, G)
<1>0. \A k \in 1 .. n, a \in A : G[<<k, a>>] \in A
  BY DEF Steps
<1> DEFINE Is(g, m) == \A t \in SUBSET (1 .. m) :
                         g[t] = IF t = {} THEN base ELSE G[<<Max(t), g[t \ {Max(t)}]>>]
           Some(m) == \E g \in [SUBSET (1 .. m) -> A] : Is(g, m)
           T == {m \in Nat : m <= n => Some(m)}
<1>1. Some(0)
  <2> DEFINE g == [t \in SUBSET (1 .. 0) |-> base]
  <2>1. g \in [SUBSET (1 .. 0) -> A]
    OBVIOUS
  <2>2. \A t \in SUBSET (1 .. 0) : t = {} /\ g[t] = base
    OBVIOUS
  <2>. QED
    BY <2>1, <2>2
<1>2. ASSUME NEW m \in Nat, m + 1 <= n, Some(m) PROVE Some(m + 1)
  <2>1. PICK f \in [SUBSET (1 .. m) -> A] : Is(f, m)
    BY <1>2
  <2> DEFINE g == [t \in SUBSET (1 .. m + 1) |->
                     IF m + 1 \in t THEN G[<<m + 1, f[t \ {m + 1}]>>] ELSE f[t]]
  <2>2. ASSUME NEW t \in SUBSET (1 .. m + 1)
        PROVE  IF m + 1 \in t THEN t \ {m + 1} \in SUBSET (1 .. m) ELSE t \in SUBSET (1 .. m)
    OBVIOUS
  <2>3. ASSUME NEW t \in SUBSET (1 .. m + 1)
        PROVE  /\ g[t] \in A
               /\ g[t] = IF m + 1 \in t THEN G[<<m + 1, f[t \ {m + 1}]>>] ELSE f[t]
    <3>1. g[t] = IF m + 1 \in t THEN G[<<m + 1, f[t \ {m + 1}]>>] ELSE f[t]
      OBVIOUS
    <3>2. CASE m + 1 \in t
      <4>1. t \ {m + 1} \in SUBSET (1 .. m)
        BY <2>2, <3>2
      <4>2. f[t \ {m + 1}] \in A
        BY <2>1, <4>1
      <4>3. m + 1 \in 1 .. n
        BY <1>2
      <4>. QED
        BY <1>0, <3>1, <3>2, <4>2, <4>3
    <3>3. CASE m + 1 \notin t
      BY <2>1, <2>2, <3>1, <3>3
    <3>. QED
      BY <3>2, <3>3
  <2>4. g \in [SUBSET (1 .. m + 1) -> A]
    BY <2>3
  <2>. HIDE DEF g
  <2>5. ASSUME NEW t \in SUBSET (1 .. m + 1)
        PROVE  g[t] = IF t = {} THEN base ELSE G[<<Max(t), g[t \ {Max(t)}]>>]
    <3>1. CASE t = {}
      <4>1. g[t] = f[t] /\ t \in SUBSET (1 .. m)
        BY <2>3, <3>1
      <4>. QED
        BY <2>1, <3>1, <4>1
    <3>2. CASE t # {} /\ m + 1 \in t
      <4>0. m + 1 \in Nat
        OBVIOUS
      <4>1. Max(t) \in t /\ \A y \in t : y <= Max(t)
        BY <3>2, <4>0, Greatest
      <4>2. Max(t) = m + 1
        <5>1. Max(t) \in 1 .. m + 1 /\ m + 1 <= Max(t)
          BY <3>2, <4>1
        <5>. QED
          BY <5>1
      <4>3. t \ {m + 1} \in SUBSET (1 .. m + 1) /\ m + 1 \notin t \ {m + 1}
        OBVIOUS
      <4>4. g[t] = G[<<m + 1, f[t \ {m + 1}]>>]
        BY <2>3, <3>2
      <4>5. g[t \ {m + 1}] = f[t \ {m + 1}]
        BY <2>3, <4>3
      <4>. QED
        BY <3>2, <4>2, <4>4, <4>5
    <3>3. CASE t # {} /\ m + 1 \notin t
      <4>0. m + 1 \in Nat
        OBVIOUS
      <4>1. Max(t) \in t
        BY <3>3, <4>0, Greatest
      <4>2. t \in SUBSET (1 .. m)
        BY <2>2, <3>3
      <4>3. /\ t \ {Max(t)} \in SUBSET (1 .. m) /\ t \ {Max(t)} \in SUBSET (1 .. m + 1)
            /\ m + 1 \notin t \ {Max(t)}
        BY <3>3, <4>2
      <4>4. g[t] = f[t] /\ g[t \ {Max(t)}] = f[t \ {Max(t)}]
        BY <2>3, <3>3, <4>3
      <4>5. f[t] = IF t = {} THEN base ELSE G[<<Max(t), f[t \ {Max(t)}]>>]
        BY <2>1, <4>2
      <4>. QED
        BY <3>3, <4>4, <4>5
    <3>. QED
      BY <3>1, <3>2, <3>3
  <2>. QED
    BY <2>4, <2>5
<1>. HIDE DEF Some
<1>3. 0 \in T /\ \A m \in Nat : m \in T => m + 1 \in T
  BY <1>1, <1>2
<1>. HIDE DEF T
<1>4. n \in T
  BY <1>3, Counted0
<1>5. Some(n)
  BY <1>4 DEF T
<1>. QED
  BY <1>5 DEF Some, Peels

\* What is joined of the parts ss after each of them.
Joins(f, ss, S) ==
  /\ f \in [0 .. Len(ss) -> Seq(S)]
  /\ f[0] = <<>>
  /\ \A k \in Nat : k + 1 <= Len(ss) => f[k + 1] = f[k] \o ss[k + 1]

\* FlattenSeq joins its parts from the left.
LEMMA Flattened ==
  ASSUME NEW S, NEW ss \in Seq(Seq(S))
  PROVE  \E f : Joins(f, ss, S) /\ FlattenSeq(ss) = f[Len(ss)]
<1> DEFINE n == Len(ss)
           G == [x \in (1 .. n) \X Seq(S) |-> x[2] \o ss[x[1]]]
<1>1. n \in Nat /\ DOMAIN ss = 1 .. n /\ \A k \in 1 .. n : ss[k] \in Seq(S)
  BY LenProperties, ElementOfSeq
<1>2. <<>> \in Seq(S)
  BY EmptySeq
<1>3. G \in Steps(n, Seq(S))
  <2>1. ASSUME NEW x \in (1 .. n) \X Seq(S) PROVE x[2] \o ss[x[1]] \in Seq(S)
    BY <1>1, ConcatProperties
  <2>. QED
    BY <2>1 DEF Steps
<1>4. \A k \in 1 .. n, s \in Seq(S) : G[<<k, s>>] = s \o ss[k]
  OBVIOUS
<1>. HIDE DEF n, G
<1>5. PICK f : Passes(f, n, Seq(S), <<>>, G)
  BY <1>1, <1>2, <1>3, Along
<1>6. f \in [0 .. n -> Seq(S)] /\ f[0] = <<>> /\ \A k \in 1 .. n : f[k] = G[<<k, f[k - 1]>>]
  BY <1>5 DEF Passes
<1>7. \A k \in 1 .. n : f[k] = f[k - 1] \o ss[k]
  <2> SUFFICES ASSUME NEW k \in 1 .. n PROVE f[k] = f[k - 1] \o ss[k]
    OBVIOUS
  <2>1. f[k - 1] \in Seq(S)
    BY <1>1, <1>6
  <2>. QED
    BY <1>4, <1>6, <2>1
<1>8. FlattenSeq(ss) = f[n]
  <2>1. CASE n = 0
    <3>1. ss = <<>>
      BY <2>1, EmptySeq DEF n
    <3>. QED
      BY <1>6, <2>1, <3>1 DEF FlattenSeq, n
  <2>2. CASE n # 0
    <3> DEFINE flatten[i \in 1 .. Len(ss)] == IF i = 1 THEN ss[i] ELSE flatten[i - 1] \o ss[i]
               h == [i \in 1 .. n |-> f[i]]
    <3>1. FlattenSeq(ss) = flatten[Len(ss)]
      BY <2>2 DEF FlattenSeq, n
    <3>2. h = [i \in 1 .. n |-> IF i = 1 THEN ss[i] ELSE h[i - 1] \o ss[i]]
      <4>1. ASSUME NEW i \in 1 .. n PROVE f[i] = IF i = 1 THEN ss[i] ELSE h[i - 1] \o ss[i]
        <5>1. CASE i = 1
          <6>1. 1 - 1 = 0 /\ 1 \in 1 .. n
            BY <5>1
          <6>2. f[1] = f[1 - 1] \o ss[1]
            BY <1>7, <6>1, Zenon
          <6>3. f[1] = <<>> \o ss[1]
            BY <1>6, <6>1, <6>2, Zenon
          <6>4. <<>> \o ss[1] = ss[1]
            BY <1>1, <6>1, ConcatEmptySeq
          <6>. QED
            BY <5>1, <6>3, <6>4
        <5>2. CASE i # 1
          <6>1. i - 1 \in 1 .. n
            BY <1>1, <5>2
          <6>2. h[i - 1] = f[i - 1]
            BY <6>1, Zenon
          <6>3. f[i] = f[i - 1] \o ss[i]
            BY <1>7, Zenon
          <6>. QED
            BY <5>2, <6>2, <6>3, Zenon
        <5>. QED
          BY <5>1, <5>2
      <4>. QED
        BY <4>1
    <3>3. flatten = [i \in 1 .. n |-> IF i = 1 THEN ss[i] ELSE flatten[i - 1] \o ss[i]]
      BY <3>2 DEF n
    <3>. HIDE DEF flatten, h
    <3> DEFINE T == {k \in Nat : k >= 1 /\ k <= n => flatten[k] = f[k]}
    <3>4. 0 \in T
      OBVIOUS
    <3>5. ASSUME NEW k \in Nat, k \in T PROVE k + 1 \in T
      <4> SUFFICES ASSUME k + 1 <= n PROVE flatten[k + 1] = f[k + 1]
        OBVIOUS
      <4>0. k + 1 \in 1 .. n /\ (k + 1) - 1 = k /\ n \in Nat
        BY <1>1
      <4>1. flatten[k + 1] = IF k + 1 = 1 THEN ss[k + 1] ELSE flatten[(k + 1) - 1] \o ss[k + 1]
        BY <3>3, <4>0
      <4>2. f[k + 1] = f[(k + 1) - 1] \o ss[k + 1]
        BY <1>7, <4>0
      <4>3. CASE k = 0
        <5>1. <<>> \o ss[k + 1] = ss[k + 1]
          BY <1>1, <4>0, ConcatEmptySeq
        <5>2. f[(k + 1) - 1] = <<>>
          BY <1>6, <4>0, <4>3, Zenon
        <5>3. k + 1 = 1
          BY <4>3
        <5>. QED
          BY <4>1, <4>2, <5>1, <5>2, <5>3, Zenon
      <4>4. CASE k # 0
        <5>1. flatten[k] = f[k]
          BY <3>5, <4>0, <4>4
        <5>2. k + 1 # 1
          BY <4>4
        <5>. QED
          BY <4>0, <4>1, <4>2, <5>1, <5>2, Zenon
      <4>. QED
        BY <4>3, <4>4
    <3>. HIDE DEF T
    <3>6. n \in T
      BY <1>1, <3>4, <3>5, Counted0
    <3>. QED
      BY <1>1, <2>2, <3>1, <3>6 DEF T, n
  <2>. QED
    BY <2>1, <2>2
<1>9. ASSUME NEW k \in Nat, k + 1 <= n PROVE f[k + 1] = f[k] \o ss[k + 1]
  <2>1. k + 1 \in 1 .. n /\ (k + 1) - 1 = k
    BY <1>1, <1>9
  <2>2. f[k + 1] = f[(k + 1) - 1] \o ss[k + 1]
    BY <1>7, <2>1, Zenon
  <2>. QED
    BY <2>1, <2>2, Zenon
<1>. QED
  BY <1>6, <1>8, <1>9 DEF n, Joins

\* One element more at the end of a sequence.
LEMMA JoinedOne ==
  ASSUME NEW A, NEW q \in Seq(A), NEW x \in A
  PROVE  /\ q \o <<x>> \in Seq(A) /\ Len(q \o <<x>>) = Len(q) + 1
         /\ (q \o <<x>>)[Len(q) + 1] = x
         /\ \A i \in 1 .. Len(q) : (q \o <<x>>)[i] = q[i]
         /\ ToSet(q \o <<x>>) = ToSet(q) \cup {x}
<1> DEFINE r == q \o <<x>>
           n == Len(q)
<1>1. <<x>> \in Seq(A) /\ Len(<<x>>) = 1 /\ <<x>>[1] = x /\ n \in Nat /\ DOMAIN q = 1 .. n
  BY LenProperties
<1>2. /\ r \in Seq(A) /\ Len(r) = n + 1
      /\ \A i \in 1 .. n + 1 : r[i] = IF i <= n THEN q[i] ELSE <<x>>[i - n]
  BY <1>1, ConcatProperties
<1>3. DOMAIN r = 1 .. n + 1
  BY <1>2, LenProperties
<1>. HIDE DEF r, n
<1>4. r[n + 1] = x
  <2>1. n + 1 \in 1 .. n + 1 /\ ~ (n + 1 <= n) /\ (n + 1) - n = 1
    BY <1>1
  <2>2. r[n + 1] = <<x>>[(n + 1) - n]
    BY <1>2, <2>1, Zenon
  <2>. QED
    BY <1>1, <2>1, <2>2, Zenon
<1>5. \A i \in 1 .. n : i \in 1 .. n + 1 /\ i <= n /\ r[i] = q[i]
  BY <1>1, <1>2
<1>6. 1 .. n + 1 = (1 .. n) \cup {n + 1}
  BY <1>1
<1>7. ToSet(r) = ToSet(q) \cup {x}
  <2>1. ToSet(r) = {r[i] : i \in 1 .. n} \cup {r[n + 1]}
    BY <1>3, <1>6 DEF ToSet
  <2>2. {r[i] : i \in 1 .. n} = ToSet(q)
    BY <1>1, <1>5 DEF ToSet
  <2>. QED
    BY <1>4, <2>1, <2>2
<1>. QED
  BY <1>2, <1>4, <1>5, <1>7 DEF r, n

\* How many of the first k are in S.
Count(s, S, k) == Cardinality({i \in 1 .. k : s[i] \in S})

Counts(s, S) ==
  /\ Count(s, S, 0) = 0
  /\ \A k \in Nat : Count(s, S, k) \in Nat
  /\ \A k \in Nat : Count(s, S, k + 1) = IF s[k + 1] \in S THEN Count(s, S, k) + 1
                                                           ELSE Count(s, S, k)
  /\ \A j, k \in Nat : j <= k => Count(s, S, j) <= Count(s, S, k)

\* How Count grows.
LEMMA Counting ==
  ASSUME NEW s, NEW S
  PROVE  Counts(s, S)
<1> DEFINE At(k) == {i \in 1 .. k : s[i] \in S}
<1>1. At(0) = {} /\ \A k : Count(s, S, k) = Cardinality(At(k))
  BY DEF Count
<1>2. Count(s, S, 0) = 0
  BY <1>1, FS_EmptySet
<1>3. ASSUME NEW k \in Nat
      PROVE  IsFiniteSet(At(k)) /\ Count(s, S, k) \in Nat
  <2>1. IsFiniteSet(1 .. k)
    BY FS_Interval
  <2>2. IsFiniteSet(At(k)) /\ Cardinality(At(k)) \in Nat
    BY <2>1, FS_Subset, FS_CardinalityType
  <2>. QED
    BY <1>1, <2>2
<1>4. ASSUME NEW k \in Nat
      PROVE  Count(s, S, k + 1) = IF s[k + 1] \in S THEN Count(s, S, k) + 1 ELSE Count(s, S, k)
  <2>1. CASE s[k + 1] \in S
    <3>1. At(k + 1) = At(k) \cup {k + 1} /\ k + 1 \notin At(k)
      BY <2>1
    <3>. HIDE DEF At
    <3>. QED
      BY <1>1, <1>3, <2>1, <3>1, FS_AddElement
  <2>2. CASE s[k + 1] \notin S
    <3>1. At(k + 1) = At(k)
      BY <2>2
    <3>. HIDE DEF At
    <3>. QED
      BY <1>1, <2>2, <3>1
  <2>. QED
    BY <2>1, <2>2
<1>5. ASSUME NEW j \in Nat, NEW k \in Nat, j <= k
      PROVE  Count(s, S, j) <= Count(s, S, k)
  <2>1. At(j) \subseteq At(k)
    BY <1>5
  <2>. HIDE DEF At
  <2>. QED
    BY <1>1, <1>3, <2>1, FS_Subset
<1>. QED
  BY <1>2, <1>3, <1>4, <1>5 DEF Counts

\* Among keeps every element of S, and nothing else, in their order.
LEMMA Gathered ==
  ASSUME NEW A, NEW s \in Seq(A), NEW S
  PROVE  /\ Among(s, S) \in Seq(A)
         /\ ToSet(Among(s, S)) = ToSet(s) \cap S
         /\ Len(Among(s, S)) = Count(s, S, Len(s))
         /\ \A k \in DOMAIN s : s[k] \in S => Among(s, S)[Count(s, S, k)] = s[k]
<1> DEFINE n == Len(s)
           ss == [i \in DOMAIN s |-> IF s[i] \in S THEN <<s[i]>> ELSE <<>>]
<1>1. n \in Nat /\ DOMAIN s = 1 .. n /\ \A i \in 1 .. n : s[i] \in A
  BY LenProperties, ElementOfSeq
<1>2. ss \in Seq(Seq(A)) /\ Len(ss) = n
  <2>1. \A i \in 1 .. n : <<s[i]>> \in Seq(A) /\ <<>> \in Seq(A)
    BY <1>1
  <2>2. ss \in [1 .. n -> Seq(A)]
    BY <1>1, <2>1
  <2>. QED
    BY <1>1, <2>2
<1>3. PICK f : Joins(f, ss, A) /\ FlattenSeq(ss) = f[n]
  BY <1>2, Flattened
<1>4. /\ \A k \in 0 .. n : f[k] \in Seq(A)
      /\ f[0] = <<>>
      /\ \A k \in Nat : k + 1 <= n => f[k + 1] = f[k] \o ss[k + 1]
  BY <1>2, <1>3 DEF Joins
<1>5. \A i \in 1 .. n : ss[i] = IF s[i] \in S THEN <<s[i]>> ELSE <<>>
  BY <1>1
<1>. HIDE DEF ss, n
<1>13. /\ Count(s, S, 0) = 0
       /\ \A k \in Nat : Count(s, S, k) \in Nat
       /\ \A k \in Nat : Count(s, S, k + 1) = IF s[k + 1] \in S THEN Count(s, S, k) + 1
                                                                ELSE Count(s, S, k)
       /\ \A j, k \in Nat : j <= k => Count(s, S, j) <= Count(s, S, k)
  BY Counting, Zenon DEF Counts
<1> DEFINE T == {k \in Nat : k <= n =>
                   /\ Len(f[k]) = Count(s, S, k)
                   /\ ToSet(f[k]) = {s[i] : i \in {j \in 1 .. k : s[j] \in S}}
                   /\ \A j \in 1 .. k : s[j] \in S => f[k][Count(s, S, j)] = s[j]}
<1>6. 0 \in T
  <2>1. {j \in 1 .. 0 : s[j] \in S} = {}
    OBVIOUS
  <2>2. Len(f[0]) = 0 /\ ToSet(f[0]) = {}
    BY <1>4 DEF ToSet
  <2>. QED
    BY <1>13, <2>1, <2>2
<1>7. ASSUME NEW k \in Nat, k \in T PROVE k + 1 \in T
  <2> SUFFICES ASSUME k + 1 <= n
               PROVE  /\ Len(f[k + 1]) = Count(s, S, k + 1)
                      /\ ToSet(f[k + 1]) = {s[i] : i \in {j \in 1 .. k + 1 : s[j] \in S}}
                      /\ \A j \in 1 .. k + 1 : s[j] \in S => f[k + 1][Count(s, S, j)] = s[j]
    OBVIOUS
  <2>0. k \in 0 .. n /\ k + 1 \in 1 .. n /\ k <= n
    BY <1>1
  <2>1. /\ f[k] \in Seq(A) /\ s[k + 1] \in A
        /\ f[k + 1] = f[k] \o ss[k + 1]
    BY <1>1, <1>4, <2>0, Zenon
  <2>2. /\ Len(f[k]) = Count(s, S, k) /\ ToSet(f[k]) = {s[i] : i \in {j \in 1 .. k : s[j] \in S}}
        /\ \A j \in 1 .. k : s[j] \in S => f[k][Count(s, S, j)] = s[j]
    BY <1>7, <2>0, Zenon
  <2>3. CASE s[k + 1] \in S
    <3>1. f[k + 1] = f[k] \o <<s[k + 1]>>
      BY <1>5, <2>0, <2>1, <2>3
    <3>2. /\ Len(f[k + 1]) = Len(f[k]) + 1
          /\ ToSet(f[k + 1]) = ToSet(f[k]) \cup {s[k + 1]}
          /\ f[k + 1][Len(f[k]) + 1] = s[k + 1]
          /\ \A i \in 1 .. Len(f[k]) : f[k + 1][i] = f[k][i]
      BY <2>1, <3>1, JoinedOne
    <3>3. {j \in 1 .. k + 1 : s[j] \in S} = {j \in 1 .. k : s[j] \in S} \cup {k + 1}
      BY <2>3
    <3>4. {s[i] : i \in {j \in 1 .. k + 1 : s[j] \in S}}
            = {s[i] : i \in {j \in 1 .. k : s[j] \in S}} \cup {s[k + 1]}
      BY <3>3
    <3>5. Len(f[k + 1]) = Count(s, S, k + 1) /\ Count(s, S, k + 1) = Len(f[k]) + 1
      BY <1>13, <2>2, <2>3, <3>2
    <3>6. ASSUME NEW j \in 1 .. k, s[j] \in S PROVE f[k + 1][Count(s, S, j)] = s[j]
      <4>1. j - 1 \in Nat /\ (j - 1) + 1 = j
        OBVIOUS
      <4>2. Count(s, S, j) = Count(s, S, j - 1) + 1 /\ Count(s, S, j - 1) \in Nat
        BY <1>13, <3>6, <4>1
      <4>3. Count(s, S, j) <= Count(s, S, k)
        BY <1>13
      <4>4. Count(s, S, j) \in 1 .. Len(f[k])
        BY <1>13, <2>2, <4>2, <4>3
      <4>. QED
        BY <2>2, <3>2, <3>6, <4>4, Zenon
    <3>7. f[k + 1][Count(s, S, k + 1)] = s[k + 1]
      BY <3>2, <3>5, Zenon
    <3>8. 1 .. k + 1 = (1 .. k) \cup {k + 1}
      OBVIOUS
    <3>. QED
      BY <2>2, <3>2, <3>4, <3>5, <3>6, <3>7, <3>8
  <2>4. CASE s[k + 1] \notin S
    <3>1. f[k + 1] = f[k]
      BY <1>5, <2>0, <2>1, <2>4, ConcatEmptySeq
    <3>2. {j \in 1 .. k + 1 : s[j] \in S} = {j \in 1 .. k : s[j] \in S}
      BY <2>4
    <3>3. Count(s, S, k + 1) = Count(s, S, k)
      BY <1>13, <2>4
    <3>4. \A j \in 1 .. k + 1 : s[j] \in S => j \in 1 .. k
      BY <2>4
    <3>. QED
      BY <2>2, <3>1, <3>2, <3>3, <3>4
  <2>. QED
    BY <2>3, <2>4
<1>. HIDE DEF T
<1>8. n \in T
  BY <1>1, <1>6, <1>7, Counted0
<1>9. Among(s, S) = f[n]
  BY <1>3 DEF Among, ss
<1>10. /\ Len(f[n]) = Count(s, S, n) /\ ToSet(f[n]) = {s[i] : i \in {j \in 1 .. n : s[j] \in S}}
       /\ \A j \in 1 .. n : s[j] \in S => f[n][Count(s, S, j)] = s[j]
  <2>1. n <= n
    BY <1>1
  <2>. QED
    BY <1>8, <2>1, Zenon DEF T
<1>11. {s[i] : i \in {j \in 1 .. n : s[j] \in S}} = ToSet(s) \cap S
  BY <1>1 DEF ToSet
<1>12. f[n] \in Seq(A)
  BY <1>1, <1>4
<1>. QED
  BY <1>1, <1>9, <1>10, <1>11, <1>12, Zenon DEF n

\* The smallest of a set of numbers.
LEMMA Smallest ==
  ASSUME NEW t \in SUBSET Nat, t # {}
  PROVE  Min(t) \in t /\ \A y \in t : Min(t) <= y
<1>1. \E x \in t : \A y \in t : x <= y
  BY Least
<1>. QED
  BY <1>1 DEF Min

----------------------------------------------------------------------------
\* The calls.

\* A behaviour is one call, told by its name.
LEMMA CallNamed ==
  /\ WriteInterval => call'.op = "interval"
  /\ WriteValue => call'.op = "value"
  /\ WriteSections => call'.op = "sections"
  /\ WritePath => call'.op = "path"
  /\ ReadParent => call'.op = "parent"
  /\ ReadInstance => call'.op = "instance"
  /\ ReadReference => call'.op = "reference"
  /\ WriteAndRead => call'.op = "struct"
  /\ ReadEmbedded => call'.op = "embedded"
  /\ FindVm => call'.op = "find"
  /\ ListOf => call'.op = "list"
  /\ FindController => call'.op = "controller"
  /\ MakeSwitch => call'.op = "switch"
  /\ MakeClient => call'.op = "client"
  /\ MakePool => call'.op = "pool"
  /\ CleanAnswer => call'.op = "secrets"
<1>1. WriteInterval => call'.op = "interval"
  BY DEF WriteInterval, Calls
<1>2. WriteValue => call'.op = "value"
  BY DEF WriteValue, Calls
<1>3. WriteSections => call'.op = "sections"
  BY DEF WriteSections, Calls
<1>4. WritePath => call'.op = "path"
  BY DEF WritePath, Calls
<1>5. ReadParent => call'.op = "parent"
  BY DEF ReadParent, Calls
<1>6. ReadInstance => call'.op = "instance"
  <2>1. ReadInstance => \E s, a : Calls([op |-> "instance", of |-> s], a)
    BY Zenon DEF ReadInstance
  <2>. QED
    BY <2>1 DEF Calls
<1>7. ReadReference => call'.op = "reference"
  <2>1. ReadReference => \E s, a : Calls([op |-> "reference", of |-> s], a)
    BY Zenon DEF ReadReference
  <2>. QED
    BY <2>1 DEF Calls
<1>8. WriteAndRead => call'.op = "struct"
  <2>1. WriteAndRead => \E s, a : Calls([op |-> "struct", of |-> s], a)
    BY Zenon DEF WriteAndRead
  <2>. QED
    BY <2>1 DEF Calls
<1>9. ReadEmbedded => call'.op = "embedded"
  <2>1. ReadEmbedded => \E s, a : Calls([op |-> "embedded", of |-> s], a)
    BY Zenon DEF ReadEmbedded
  <2>. QED
    BY <2>1 DEF Calls
<1>10. FindVm => call'.op = "find"
  BY DEF FindVm, Calls
<1>11. ListOf => call'.op = "list"
  BY DEF ListOf, Calls
<1>12. FindController => call'.op = "controller"
  BY DEF FindController, Calls
<1>13. MakeSwitch => call'.op = "switch"
  BY DEF MakeSwitch, Calls
<1>14. MakeClient => call'.op = "client"
  BY DEF MakeClient, Calls
<1>15. MakePool => call'.op = "pool"
  BY DEF MakePool, Calls
<1>16. CleanAnswer => call'.op = "secrets"
  BY DEF CleanAnswer, Calls
<1>. QED
  BY <1>1, <1>2, <1>3, <1>4, <1>5, <1>6, <1>7, <1>8, <1>9, <1>10, <1>11, <1>12, <1>13, <1>14,
     <1>15, <1>16

----------------------------------------------------------------------------
\* Intervals: the digits of a time come from dividing it, and the bound on the
\* fields keeps the product far from overflowing.

\* A number of seconds in digits of days, hours, minutes and seconds.
LEMMA Division ==
  ASSUME NEW t \in Nat, NEW c \in Nat, c > 0
  PROVE  t \div c \in Nat /\ t % c \in Nat /\ t % c < c /\ t = (t \div c) * c + (t % c)
  BY SMT

\* Days, hours, minutes and seconds are digits of a time.
LEMMA Digits ==
  ASSUME NEW t \in Nat
  PROVE  /\ InDigits(t).format = "cim"
         /\ InDigits(t).days = t \div 86400 /\ t \div 86400 \in Nat
         /\ InDigits(t).hours < 24 /\ InDigits(t).minutes < 60 /\ InDigits(t).seconds < 60
         /\ Seconds(InDigits(t)) = t
<1>0. PICK d, r, x, h, m, s :
        /\ d = t \div 86400 /\ r = t % 86400 /\ x = r \div 3600
        /\ h = r % 3600 /\ m = h \div 60 /\ s = r % 60
  OBVIOUS
<1>1. d \in Nat /\ r \in Nat /\ r < 86400 /\ t = d * 86400 + r
  BY <1>0, SMT
<1>2. x \in Nat /\ h \in Nat /\ h < 3600 /\ r = x * 3600 + h
  BY <1>0, <1>1, SMT
<1>3. PICK u : u = h % 60
  OBVIOUS
<1>4. m \in Nat /\ u \in Nat /\ u < 60 /\ h = m * 60 + u
  BY <1>0, <1>2, <1>3, SMT
<1>5. PICK q : q = r \div 60
  OBVIOUS
<1>6. s \in Nat /\ s < 60 /\ q \in Nat /\ r = q * 60 + s
  BY <1>0, <1>1, <1>5, SMT
<1>7. u = s
  BY <1>2, <1>4, <1>6, SMT
<1>8. x < 24 /\ m < 60 /\ t = d * 86400 + x * 3600 + m * 60 + s
  BY <1>1, <1>2, <1>4, <1>7, SMT
<1>9. InDigits(t) = [format |-> "cim", days |-> d, hours |-> x, minutes |-> m, seconds |-> s]
  BY <1>0, SMT DEF InDigits
<1>10. Seconds(InDigits(t)) = t
  BY <1>8, <1>9 DEF Seconds
<1>. QED
  BY <1>0, <1>1, <1>6, <1>8, <1>9, <1>10, SMT

\* No product overflows that the bound on the fields lets through.
LEMMA NoOverflow ==
  ASSUME NEW x \in Nat, NEW H \in Nat, x < H
  PROVE  ((x + H) % (2 * H)) - H = x
<1>1. PICK a, b, q, m : a = x + H /\ b = 2 * H /\ q = a \div b /\ m = a % b
  OBVIOUS
<1>2. a \in Int /\ b \in Int /\ 0 <= a /\ a < b
  BY <1>1
<1>3. a = b * q + m /\ m \in Int /\ 0 <= m /\ m < b /\ q \in Int
  <2>1. a \in Nat /\ b \in Nat /\ b > 0
    BY <1>2
  <2>2. q \in Nat /\ m \in Nat /\ m < b /\ a = q * b + m
    BY <1>1, <2>1, Division
  <2>. QED
    BY <1>2, <2>2
<1>4. q < 1
  <2> SUFFICES ASSUME q >= 1 PROVE FALSE
    BY <1>3
  <2>1. b * q >= b
    BY <1>2, <1>3
  <2>. QED
    BY <1>2, <1>3, <2>1
<1>5. q > -1
  <2> SUFFICES ASSUME q <= -1 PROVE FALSE
    BY <1>3
  <2>1. b * q <= -b
    BY <1>2, <1>3
  <2>. QED
    BY <1>2, <1>3, <2>1
<1>6. q = 0
  BY <1>3, <1>4, <1>5
<1>7. m = a
  BY <1>2, <1>3, <1>6
<1>. QED
  BY <1>1, <1>7

\* What becomes of any duration.
LEMMA IntervalRight ==
  ASSUME NEW s \in Durations
  PROVE  IF CanBeWritten(s)
           THEN InRange(Iso8601ToCIMInterval(s)) /\ Seconds(Iso8601ToCIMInterval(s)) = Seconds(s)
           ELSE Iso8601ToCIMInterval(s).format = "error"
<1>1. /\ s.days \in Nat /\ s.hours \in Nat /\ s.minutes \in Nat /\ s.seconds \in Nat
      /\ s.format = "cim" => s.days <= MaxDays
      /\ MaxDays \in Nat /\ Half \in Nat /\ MaxDays * 90061 < Half
  BY IntervalAssumption, DurationsAssumption
<1>2. CASE s.format = "cim"
  <2>1. Convertible(s) <=> CanBeWritten(s)
    BY <1>1, <1>2 DEF Convertible, CanBeWritten, ValidateCIMInterval, InRange
  <2>2. CASE CanBeWritten(s)
    <3>1. Iso8601ToCIMInterval(s) = s
      BY <1>2, <2>1, <2>2 DEF Iso8601ToCIMInterval
    <3>2. InRange(s)
      BY <1>2, <2>2 DEF CanBeWritten
    <3>. QED
      BY <2>2, <3>1, <3>2
  <2>3. CASE ~CanBeWritten(s)
    BY <2>1, <2>3 DEF Iso8601ToCIMInterval
  <2>. QED
    BY <2>2, <2>3
<1>3. CASE s.format = "iso" /\ FieldsFit(s)
  <2>1. PICK t : t = Seconds(s)
    OBVIOUS
  <2>2. s.days <= MaxDays /\ s.hours <= MaxDays /\ s.minutes <= MaxDays /\ s.seconds <= MaxDays
    BY <1>3 DEF FieldsFit, Fields
  <2>3. t \in Nat /\ t < Half /\ Parses(s)
    <3>1. t \in Nat
      BY <1>1, <2>1 DEF Seconds
    <3>2. t <= MaxDays * 90061
      BY <1>1, <2>1, <2>2 DEF Seconds
    <3>3. MaxDays < Half
      BY <1>1
    <3>4. s.days < Half /\ s.hours < Half /\ s.minutes < Half /\ s.seconds < Half
      BY <1>1, <2>2, <3>3
    <3>. QED
      BY <1>1, <3>1, <3>2, <3>4 DEF Parses, Fields
  <2>4. Total(s) = t
    BY <1>1, <2>1, <2>3, NoOverflow DEF Total, Int64, Seconds
  <2>5. /\ InDigits(t).format = "cim"
        /\ InDigits(t).days = t \div 86400
        /\ InDigits(t).hours < 24 /\ InDigits(t).minutes < 60 /\ InDigits(t).seconds < 60
        /\ Seconds(InDigits(t)) = t
    BY <2>3, Digits
  <2>6. CanBeWritten(s) <=> t \div 86400 <= MaxDays
    BY <1>3, <2>1, SMT DEF CanBeWritten, FieldsFit
  <2>7. Convertible(s) <=> t \div 86400 <= MaxDays
    BY <1>3, <2>3, <2>4, <2>5 DEF Convertible
  <2>8. CASE CanBeWritten(s)
    <3>1. Iso8601ToCIMInterval(s) = InDigits(t)
      BY <1>3, <2>4, <2>6, <2>7, <2>8 DEF Iso8601ToCIMInterval
    <3>. QED
      BY <2>1, <2>5, <2>6, <2>8, <3>1 DEF InRange
  <2>9. CASE ~CanBeWritten(s)
    BY <2>6, <2>7, <2>9 DEF Iso8601ToCIMInterval
  <2>. QED
    BY <2>8, <2>9
<1>4. CASE s.format # "cim" /\ ~(s.format = "iso" /\ FieldsFit(s))
  <2>1. ~Convertible(s) /\ ~CanBeWritten(s)
    BY <1>4 DEF Convertible, CanBeWritten, FieldsFit
  <2>. QED
    BY <2>1 DEF Iso8601ToCIMInterval
<1>. QED
  BY <1>2, <1>3, <1>4

\* For every number of days and every width of the integers that holds them as
\* seconds (cimtag.go:84-140).
THEOREM IntervalAlwaysKept == Spec => []IntervalKept
<1>1. Init => IntervalKept
  BY DEF Init, NoCall, IntervalKept
<1>2. IntervalKept /\ [Next]_vars => IntervalKept'
  <2> SUFFICES ASSUME IntervalKept, [Next]_vars, call'.op = "interval"
               PROVE  IntervalKept'
    BY DEF IntervalKept
  <2>1. CASE UNCHANGED vars
    BY <2>1 DEF IntervalKept, vars, CanBeWritten, InRange, Seconds, Fields
  <2>2. CASE Next
    <3>1. WriteInterval
      BY <2>2, CallNamed DEF Next
    <3>2. PICK s \in Durations : call'.of = s /\ answer' = Iso8601ToCIMInterval(s)
      BY <3>1 DEF WriteInterval, Calls
    <3>. QED
      BY <3>2, IntervalRight DEF IntervalKept
  <2>. QED
    BY <2>1, <2>2
<1>. QED
  BY <1>1, <1>2, PTL DEF Spec

----------------------------------------------------------------------------
\* Switches: the parts that are built, one for each end.

\* The ends of no setting, and of one.
LEMMA EndsOf ==
  ASSUME NEW x, NEW y
  PROVE  /\ Ends(<<>>) = {}
         /\ Ends(<<x>> \o <<>>) = {<<x.kind, x.to>>}
         /\ Ends(<<>> \o <<x>>) = {<<x.kind, x.to>>}
         /\ Ends(<<x>> \o <<y>>) = {<<x.kind, x.to>>, <<y.kind, y.to>>}
<1>1. <<x>> \in Seq({x, y}) /\ <<y>> \in Seq({x, y})
  OBVIOUS
<1>2. <<x>> \o <<>> = <<x>> /\ <<>> \o <<x>> = <<x>>
  BY <1>1, ConcatEmptySeq
<1>3. Ends(<<>>) = {} /\ Ends(<<x>>) = {<<x.kind, x.to>>}
  BY DEF Ends
<1>4. PICK r : r = <<x>> \o <<y>>
  OBVIOUS
<1>5. r \in Seq({x, y}) /\ Len(r) = 2 /\ r[1] = x /\ r[2] = y
  <2>1. Len(<<x>>) = 1 /\ Len(<<y>>) = 1 /\ <<x>>[1] = x /\ <<y>>[1] = y
    OBVIOUS
  <2>. QED
    BY <1>1, <1>4, <2>1, ConcatProperties
<1>6. DOMAIN r = {1, 2}
  BY <1>5, LenProperties
<1>7. Ends(r) = {<<x.kind, x.to>>, <<y.kind, y.to>>}
  BY <1>5, <1>6 DEF Ends
<1>. QED
  BY <1>2, <1>3, <1>4, <1>7

\* A port that names the host names the only one.
LEMMA HostNamed ==
  ASSUME NEW systems \in Systems, NEW q, q = InternalPort(systems), q.err = "nil"
  PROVE  \E h : /\ q.settings = <<[kind |-> "internal", to |-> h]>>
                /\ Hosts(systems) = {h}
<1> DEFINE S == {s \in ToSet(systems) : IsHostComputerSystem(s)}
           hosts == Among(systems, S)
<1>1. systems \in Seq(ToSet(systems))
  BY ListsAssumption
<1>2. hosts \in Seq(ToSet(systems)) /\ ToSet(hosts) = ToSet(systems) \cap S
  BY <1>1, Gathered
<1>3. ToSet(hosts) = S
  BY <1>2
<1>. HIDE DEF hosts
<1>4. Len(hosts) = 1
  <2> SUFFICES ASSUME Len(hosts) # 1 PROVE FALSE
    OBVIOUS
  <2>1. PickHostComputerSystem(systems) = [err |-> "host"]
    BY DEF PickHostComputerSystem, hosts
  <2>2. q = [err |-> "host"]
    BY <2>1 DEF InternalPort
  <2>. QED
    BY <2>2
<1>5. PICK host : host = hosts[1]
  OBVIOUS
<1>6. q.settings = <<[kind |-> "internal", to |-> host.name.id]>>
  <2>1. PICK r : r = PickHostComputerSystem(systems)
    OBVIOUS
  <2>2. r = [err |-> "nil", system |-> host]
    BY <1>4, <1>5, <2>1 DEF PickHostComputerSystem, hosts
  <2>3. r.err = "nil" /\ r.system = host
    BY <2>2
  <2>4. q = [err |-> "nil", settings |-> <<[kind |-> "internal", to |-> host.name.id]>>]
    BY <2>1, <2>3 DEF InternalPort
  <2>. QED
    BY <2>4
<1>7. S = {host}
  <2>0. 1 .. 1 = {1} /\ DOMAIN hosts = 1 .. Len(hosts)
    BY <1>2, LenProperties
  <2>1. DOMAIN hosts = 1 .. 1 /\ 1 .. 1 = {1}
    BY <1>4, <2>0, Zenon
  <2>2. ToSet(hosts) = {hosts[i] : i \in {1}}
    BY <2>1, Zenon DEF ToSet
  <2>. QED
    BY <1>3, <1>5, <2>2, Zenon
<1>8. Hosts(systems) = {s.name.id : s \in S}
  BY DEF Hosts, IsHostComputerSystem
<1>9. Hosts(systems) = {host.name.id}
  BY <1>7, <1>8
<1>. QED
  BY <1>6, <1>9

\* The external end is an adapter of the name.
OneAdapter(o, ports, settings) ==
  \E a \in Adapters(o, ports) : settings = <<[kind |-> "external", to |-> a]>>

\* The adapter that is bound has the name that was asked for.
LEMMA AdapterNamed ==
  ASSUME NEW o, NEW ports \in Ports, NEW r, r = Binding(o, ports), r.err = "nil"
  PROVE  OneAdapter(o, ports, r.settings)
<1> DEFINE I == {i \in 1 .. Len(ports) : ports[i].element = o.externalAdapter}
           first == IF I # {} THEN Min(I) ELSE 0
<1>1. r = IF first = 0 THEN [err |-> "adapter"]
          ELSE IF ~ports[first].keys THEN [err |-> "keys"]
          ELSE [err |-> "nil", settings |-> <<[kind |-> "external", to |-> ports[first].id]>>]
  BY DEF Binding, SelectInSeq
<1>2. ports \in Seq(ToSet(ports))
  BY ListsAssumption
<1>3. Len(ports) \in Nat /\ DOMAIN ports = 1 .. Len(ports)
  BY <1>2, LenProperties
<1>4. first \in I /\ first # 0
  <2>1. first # 0
    <3>1. CASE first = 0
      <4>1. r = [err |-> "adapter"]
        BY <1>1, <3>1
      <4>. QED
        BY <4>1
    <3>. QED
      BY <3>1
  <2>2. I # {}
    BY <2>1
  <2>3. I \in SUBSET Nat
    BY <1>3
  <2>4. Min(I) \in I
    BY <2>2, <2>3, Smallest
  <2>. QED
    BY <2>1, <2>2, <2>4
<1>5. first \in DOMAIN ports /\ ports[first].element = o.externalAdapter
  BY <1>3, <1>4
<1>. HIDE DEF first
<1>6. ports[first] \in {q \in ToSet(ports) : q.element = o.externalAdapter}
  BY <1>5 DEF ToSet
<1>7. PICK a : a = ports[first].id
  OBVIOUS
<1>8. ports[first].keys
  <2>1. CASE ~ports[first].keys
    <3>1. r = [err |-> "keys"]
      BY <1>1, <1>4, <2>1
    <3>. QED
      BY <3>1
  <2>. QED
    BY <2>1
<1>9. r = [err |-> "nil", settings |-> <<[kind |-> "external", to |-> a]>>]
  BY <1>1, <1>4, <1>7, <1>8
<1>10. r.settings = <<[kind |-> "external", to |-> a]>>
  BY <1>9
<1>11. a \in Adapters(o, ports)
  BY <1>6, <1>7 DEF Adapters
<1>. QED
  BY <1>10, <1>11, Zenon DEF OneAdapter

\* The two parts of a switch that is built: the binding b and the port i.
Parts(o, ports, systems, r, b, i) ==
  /\ o.type \in {"Private", "Internal", "External"}
  /\ b = IF o.type = "External" THEN Binding(o, ports)
                                ELSE [err |-> "nil", settings |-> <<>>]
  /\ i = IF WantsInternalPort(o) THEN InternalPort(systems)
                                 ELSE [err |-> "nil", settings |-> <<>>]
  /\ b.err = "nil" /\ i.err = "nil" /\ r.settings = b.settings \o i.settings

\* A switch is built of its two parts, or not at all.
LEMMA SwitchBuilt ==
  ASSUME NEW o, NEW ports, NEW systems, NEW r,
         r = BuildSwitchResourceSettings(o, ports, systems), r.err = "nil"
  PROVE  \E b, i : Parts(o, ports, systems, r, b, i)
<1>1. PICK b, i :
        /\ b = IF o.type = "External" THEN Binding(o, ports)
                                      ELSE [err |-> "nil", settings |-> <<>>]
        /\ i = IF WantsInternalPort(o) THEN InternalPort(systems)
                                       ELSE [err |-> "nil", settings |-> <<>>]
  OBVIOUS
<1>2. r = IF o.type \notin {"Private", "Internal", "External"} THEN [err |-> "type"]
          ELSE IF b.err # "nil" THEN b
          ELSE IF i.err # "nil" THEN i
          ELSE [err |-> "nil", settings |-> b.settings \o i.settings]
  BY <1>1, Zenon DEF BuildSwitchResourceSettings
<1>3. o.type \in {"Private", "Internal", "External"}
  <2>1. CASE o.type \notin {"Private", "Internal", "External"}
    <3>1. r = [err |-> "type"]
      BY <1>2, <2>1, Zenon
    <3>. QED
      BY <3>1
  <2>. QED
    BY <2>1
<1>4. b.err = "nil" /\ i.err = "nil"
  BY <1>2, <1>3, Zenon
<1>5. PICK s : s = b.settings \o i.settings
  OBVIOUS
<1>6. r = [err |-> "nil", settings |-> s]
  BY <1>2, <1>3, <1>4, <1>5, Zenon
<1>7. r.settings = s
  BY <1>6
<1>8. Parts(o, ports, systems, r, b, i)
  BY <1>1, <1>3, <1>4, <1>5, <1>7, Zenon DEF Parts
<1>. QED
  BY <1>8, Zenon

Bound(o, ports, settings) ==
  IF o.type = "External"
    THEN OneAdapter(o, ports, settings) ELSE settings = <<>>

\* The internal end, if there is one, is the host.
LetIn(o, systems, settings) ==
  IF WantsInternalPort(o)
    THEN \E h : settings = <<[kind |-> "internal", to |-> h]>> /\ Hosts(systems) = {h}
    ELSE settings = <<>>

\* The parts of a switch have the ends its options call for.
LEMMA PartsRight ==
  ASSUME NEW o, NEW ports \in Ports, NEW systems \in Systems, NEW r, NEW b, NEW i,
         Parts(o, ports, systems, r, b, i)
  PROVE  /\ Bound(o, ports, b.settings) /\ LetIn(o, systems, i.settings)
         /\ r.settings = b.settings \o i.settings
<1>1. Bound(o, ports, b.settings)
  <2>1. CASE o.type = "External"
    <3>1. b = Binding(o, ports) /\ b.err = "nil"
      BY <2>1, Zenon DEF Parts
    <3>2. OneAdapter(o, ports, b.settings)
      BY <3>1, AdapterNamed, Zenon
    <3>. QED
      BY <2>1, <3>2, Zenon DEF Bound
  <2>2. CASE o.type # "External"
    <3>1. b = [err |-> "nil", settings |-> <<>>]
      BY <2>2, Zenon DEF Parts
    <3>2. b.settings = <<>>
      BY <3>1
    <3>. QED
      BY <2>2, <3>2, Zenon DEF Bound
  <2>. QED
    BY <2>1, <2>2
<1>2. LetIn(o, systems, i.settings)
  <2>1. CASE WantsInternalPort(o)
    <3>1. i = InternalPort(systems) /\ i.err = "nil"
      BY <2>1, Zenon DEF Parts
    <3>. QED
      BY <2>1, <3>1, HostNamed, Zenon DEF LetIn
  <2>2. CASE ~WantsInternalPort(o)
    <3>1. i = [err |-> "nil", settings |-> <<>>]
      BY <2>2, Zenon DEF Parts
    <3>2. i.settings = <<>>
      BY <3>1
    <3>. QED
      BY <2>2, <3>2, Zenon DEF LetIn
  <2>. QED
    BY <2>1, <2>2
<1>. QED
  BY <1>1, <1>2, Zenon DEF Parts

\* What follows of a set of ends for the three conjuncts.
LEMMA EndsCounted ==
  ASSUME NEW E, NEW A
  PROVE  LET internal == {e \in E : e[1] = "internal"}
             external == {e \in E : e[1] = "external"}
         IN /\ \A a \in A : \A h : E = {<<"external", a>>, <<"internal", h>>} =>
                 /\ internal = {<<"internal", h>>} /\ Cardinality(external) = 1
                 /\ \A e \in external : e[2] \in A
            /\ \A a \in A : E = {<<"external", a>>} =>
                 /\ internal = {} /\ Cardinality(external) = 1
                 /\ \A e \in external : e[2] \in A
            /\ \A h : E = {<<"internal", h>>} =>
                 /\ internal = {<<"internal", h>>} /\ Cardinality(external) = 0
                 /\ \A e \in external : e[2] \in A
            /\ E = {} =>
                 /\ internal = {} /\ Cardinality(external) = 0
                 /\ \A e \in external : e[2] \in A
<1> DEFINE internal == {e \in E : e[1] = "internal"}
           external == {e \in E : e[1] = "external"}
<1>1. ASSUME NEW a \in A, NEW h, E = {<<"external", a>>, <<"internal", h>>}
      PROVE  /\ internal = {<<"internal", h>>} /\ external = {<<"external", a>>}
             /\ \A e \in external : e[2] \in A
  BY <1>1
<1>2. ASSUME NEW a \in A, E = {<<"external", a>>}
      PROVE  /\ internal = {} /\ external = {<<"external", a>>}
             /\ \A e \in external : e[2] \in A
  BY <1>2
<1>3. ASSUME NEW h, E = {<<"internal", h>>}
      PROVE  internal = {<<"internal", h>>} /\ external = {}
  BY <1>3
<1>4. ASSUME E = {} PROVE internal = {} /\ external = {}
  BY <1>4
<1>5. Cardinality({}) = 0 /\ \A a : Cardinality({<<"external", a>>}) = 1
  BY FS_EmptySet, FS_Singleton
<1>. HIDE DEF internal, external
<1>6. ASSUME NEW a \in A, NEW h, E = {<<"external", a>>, <<"internal", h>>}
      PROVE  /\ internal = {<<"internal", h>>} /\ Cardinality(external) = 1
             /\ \A e \in external : e[2] \in A
  BY <1>1, <1>5, <1>6, Zenon
<1>7. ASSUME NEW a \in A, E = {<<"external", a>>}
      PROVE  /\ internal = {} /\ Cardinality(external) = 1
             /\ \A e \in external : e[2] \in A
  BY <1>2, <1>5, <1>7, Zenon
<1>8. ASSUME NEW h, E = {<<"internal", h>>}
      PROVE  /\ internal = {<<"internal", h>>} /\ Cardinality(external) = 0
             /\ \A e \in external : e[2] \in A
  BY <1>3, <1>5, <1>8, Zenon
<1>9. ASSUME E = {}
      PROVE  /\ internal = {} /\ Cardinality(external) = 0
             /\ \A e \in external : e[2] \in A
  BY <1>4, <1>5, <1>9, Zenon
<1>. QED
  BY <1>6, <1>7, <1>8, <1>9, Zenon DEF internal, external

\* What becomes of any options of a switch.
LEMMA SwitchAlwaysRight ==
  ASSUME NEW o, NEW ports \in Ports, NEW systems \in Systems
  PROVE  SwitchRight(o, ports, systems, BuildSwitchResourceSettings(o, ports, systems))
<1>0. PICK r : r = BuildSwitchResourceSettings(o, ports, systems)
  OBVIOUS
<1> SUFFICES ASSUME r.err = "nil" PROVE SwitchRight(o, ports, systems, r)
  BY <1>0, Zenon DEF SwitchRight
<1>1. PICK b, i : Parts(o, ports, systems, r, b, i)
  BY <1>0, SwitchBuilt, Zenon
<1> DEFINE A == Adapters(o, ports)
           wants == o.type = "Internal" \/ (o.type = "External" /\ o.allowManagementOS)
<1>2. WantsInternalPort(o) <=> wants
  BY DEF WantsInternalPort
<1>. HIDE DEF A, wants
<1> PICK sb, si, s : sb = b.settings /\ si = i.settings /\ s = r.settings
  OBVIOUS
<1>3. s = sb \o si /\ Bound(o, ports, sb) /\ LetIn(o, systems, si)
  <2>1. Bound(o, ports, b.settings)
    BY <1>1, PartsRight, Zenon
  <2>2. LetIn(o, systems, i.settings)
    BY <1>1, PartsRight, Zenon
  <2>3. r.settings = b.settings \o i.settings
    BY <1>1, Zenon DEF Parts
  <2>. QED
    BY <2>1, <2>2, <2>3, Zenon
<1>4. PICK E : E = Ends(s)
  OBVIOUS
<1> DEFINE internal == {e \in E : e[1] = "internal"}
           external == {e \in E : e[1] = "external"}
<1> SUFFICES /\ internal = IF wants THEN {<<"internal", h>> : h \in Hosts(systems)} ELSE {}
             /\ Cardinality(external) = IF o.type = "External" THEN 1 ELSE 0
             /\ \A e \in external : e[2] \in A
  BY <1>3, <1>4, Zenon DEF SwitchRight, A, wants
<1>5. /\ o.type = "External" => \E a \in A : sb = <<[kind |-> "external", to |-> a]>>
      /\ o.type # "External" => sb = <<>>
      /\ wants => \E h : si = <<[kind |-> "internal", to |-> h]>> /\ Hosts(systems) = {h}
      /\ ~wants => si = <<>>
  BY <1>2, <1>3, Zenon DEF Bound, LetIn, OneAdapter, A
<1>6. ASSUME NEW h, Hosts(systems) = {h}
      PROVE  {<<"internal", g>> : g \in Hosts(systems)} = {<<"internal", h>>}
  BY <1>6
<1>7. ASSUME NEW a, NEW h
      PROVE  /\ Ends(<<[kind |-> "external", to |-> a]>> \o <<[kind |-> "internal", to |-> h]>>)
                  = {<<"external", a>>, <<"internal", h>>}
             /\ Ends(<<[kind |-> "external", to |-> a]>> \o <<>>) = {<<"external", a>>}
             /\ Ends(<<>> \o <<[kind |-> "internal", to |-> h]>>) = {<<"internal", h>>}
  <2>1. PICK x, y : x = [kind |-> "external", to |-> a] /\ y = [kind |-> "internal", to |-> h]
    OBVIOUS
  <2>2. x.kind = "external" /\ x.to = a /\ y.kind = "internal" /\ y.to = h
    BY <2>1
  <2>3. /\ Ends(<<x>> \o <<y>>) = {<<x.kind, x.to>>, <<y.kind, y.to>>}
        /\ Ends(<<x>> \o <<>>) = {<<x.kind, x.to>>}
        /\ Ends(<<>> \o <<y>>) = {<<y.kind, y.to>>}
    BY EndsOf, Zenon
  <2>. QED
    BY <2>1, <2>2, <2>3, Zenon
<1>8. CASE o.type = "External" /\ wants
  <2>1. PICK a \in A : sb = <<[kind |-> "external", to |-> a]>>
    BY <1>5, <1>8, Zenon
  <2>2. PICK h : si = <<[kind |-> "internal", to |-> h]>> /\ Hosts(systems) = {h}
    BY <1>5, <1>8, Zenon
  <2>3. s = <<[kind |-> "external", to |-> a]>> \o <<[kind |-> "internal", to |-> h]>>
    BY <1>3, <2>1, <2>2, Zenon
  <2>4. E = Ends(<<[kind |-> "external", to |-> a]>> \o <<[kind |-> "internal", to |-> h]>>)
    BY <1>4, <2>3, Zenon
  <2>5. E = {<<"external", a>>, <<"internal", h>>}
    BY <1>7, <2>4, Zenon
  <2>6. internal = {<<"internal", h>>}
    BY <2>5
  <2>7. Cardinality(external) = 1
    BY <2>5, EndsCounted, Zenon
  <2>8. \A e \in external : e[2] \in A
    BY <2>5
  <2>. QED
    BY <1>6, <1>8, <2>2, <2>6, <2>7, <2>8, Zenon
<1>9. CASE o.type = "External" /\ ~wants
  <2>1. PICK a \in A : sb = <<[kind |-> "external", to |-> a]>>
    BY <1>5, <1>9, Zenon
  <2>2. si = <<>>
    BY <1>5, <1>9, Zenon
  <2>3. E = {<<"external", a>>}
    BY <1>3, <1>4, <1>7, <2>1, <2>2, Zenon
  <2>. QED
    BY <1>9, <2>3, EndsCounted, Zenon
<1>10. CASE o.type # "External" /\ wants
  <2>1. PICK h : si = <<[kind |-> "internal", to |-> h]>> /\ Hosts(systems) = {h}
    BY <1>5, <1>10, Zenon
  <2>2. sb = <<>>
    BY <1>5, <1>10, Zenon
  <2>3. E = {<<"internal", h>>}
    BY <1>3, <1>4, <1>7, <2>1, <2>2, Zenon
  <2>. QED
    BY <1>6, <1>10, <2>1, <2>3, EndsCounted, Zenon
<1>11. CASE o.type # "External" /\ ~wants
  <2>1. sb = <<>> /\ si = <<>>
    BY <1>5, <1>11, Zenon
  <2>2. <<>> \o <<>> = <<>>
    OBVIOUS
  <2>3. E = {}
    BY <1>3, <1>4, <2>1, <2>2, EndsOf, Zenon
  <2>. QED
    BY <1>11, <2>3, EndsCounted, Zenon
<1>. QED
  BY <1>8, <1>9, <1>10, <1>11, Zenon

\* A switch is made of what its type promises and of what was asked for, on hosts
\* with any number of adapters and systems (switch.go:23, 162-197, 262-296,
\* host_filter.go:117-147).
THEOREM SwitchesAsAsked == Spec => []SwitchAsAsked
<1>1. Init => SwitchAsAsked
  BY DEF Init, NoCall, SwitchAsAsked
<1>2. SwitchAsAsked /\ [Next]_vars => SwitchAsAsked'
  <2> SUFFICES ASSUME SwitchAsAsked, [Next]_vars, call'.op = "switch"
               PROVE  SwitchAsAsked'
    BY DEF SwitchAsAsked
  <2>1. CASE UNCHANGED vars
    <3>1. call' = call /\ answer' = answer
      BY <2>1 DEF vars
    <3>. QED
      BY <3>1, Zenon DEF SwitchAsAsked
  <2>2. CASE Next
    <3>1. MakeSwitch
      BY <2>2, CallNamed DEF Next
    <3>2. PICK o \in Switches, p \in Ports, systems \in Systems :
            /\ call' = [op |-> "switch", opts |-> o, ports |-> p, systems |-> systems]
            /\ answer' = BuildSwitchResourceSettings(o, p, systems)
      BY <3>1, Zenon DEF MakeSwitch, Calls
    <3>3. call'.opts = o /\ call'.ports = p /\ call'.systems = systems
      BY <3>2
    <3>4. SwitchRight(o, p, systems, answer')
      BY <3>2, SwitchAlwaysRight, Zenon
    <3>. QED
      BY <3>3, <3>4, Zenon DEF SwitchAsAsked
  <2>. QED
    BY <2>1, <2>2
<1>. QED
  BY <1>1, <1>2, PTL DEF Spec

----------------------------------------------------------------------------
\* Placeholders: Entered says what the entries are of the first k values, which the
\* m-th values of their kinds were given.

\* The largest of the first k + 1 positions, and the rest of them.
LEMMA Topmost ==
  ASSUME NEW k \in Nat
  PROVE  /\ 1 .. k + 1 # {} /\ Max(1 .. k + 1) = k + 1
         /\ (1 .. k + 1) \ {k + 1} = 1 .. k
<1>1. k + 1 \in 1 .. k + 1 /\ \A y \in 1 .. k + 1 : y <= k + 1
  OBVIOUS
<1>2. k + 1 \in Nat /\ 1 .. k + 1 \in SUBSET (1 .. k + 1) /\ 1 .. k + 1 # {}
  BY <1>1
<1>3. PICK x : x = Max(1 .. k + 1)
  OBVIOUS
<1>4. x \in 1 .. k + 1 /\ \A y \in 1 .. k + 1 : y <= x
  BY <1>2, <1>3, Greatest, Zenon
<1>5. x = k + 1
  BY <1>1, <1>4
<1>6. (1 .. k + 1) \ {k + 1} = 1 .. k
  OBVIOUS
<1>7. Max(1 .. k + 1) = k + 1
  BY <1>3, <1>5
<1>8. 1 .. k + 1 # {}
  BY <1>1
<1>. QED
  BY <1>6, <1>7, <1>8, Zenon

----------------------------------------------------------------------------
Kinds == {"guid", "ip"}

Entries(S) == [value : S, by : [range : Nat, host : Nat]]

Anonymizers(S) == [replaced : Seq(Entries(S)), counters : [Kinds -> Nat]]

\* What the m-th value of a kind is replaced by.
Number(kind, m) == IF kind = "ip" THEN Address(m) ELSE [range |-> 0, host |-> m]

\* Every address of the ranges is one; the first of them are all different.
LEMMA AddressRight ==
  ASSUME NEW m \in Nat \ {0}
  PROVE  /\ Address(m).range \in 1 .. Ranges /\ Address(m).host \in 1 .. PerRange
         /\ Address(m) \in [range : Nat, host : Nat]
<1> DEFINE i == (m - 1) \div PerRange
           j == (m - 1) % PerRange
<1>1. m - 1 \in Nat /\ PerRange \in Nat \ {0} /\ Ranges \in Nat \ {0}
  BY PlaceholderAssumption
<1>2. i \in Nat /\ j \in 0 .. PerRange - 1
  BY <1>1
<1>. HIDE DEF i, j
<1>3. Address(m) = [range |-> (IF i >= Ranges THEN Ranges - 1 ELSE i) + 1, host |-> j + 1]
  BY Zenon DEF Address, i, j
<1>. QED
  BY <1>1, <1>2, <1>3

\* Two numbers have two addresses while there are any left.
LEMMA AddressOnce ==
  ASSUME NEW m \in Nat \ {0}, NEW n \in Nat \ {0}, m <= PerRange * Ranges,
         n <= PerRange * Ranges, Address(m) = Address(n)
  PROVE  m = n
<1> DEFINE i(x) == (x - 1) \div PerRange
           j(x) == (x - 1) % PerRange
<1>0. PerRange \in Nat \ {0} /\ Ranges \in Nat \ {0}
  BY PlaceholderAssumption
<1>1. ASSUME NEW x \in Nat \ {0}, x <= PerRange * Ranges
      PROVE  /\ i(x) \in Nat /\ j(x) \in Nat /\ x - 1 = PerRange * i(x) + j(x)
             /\ i(x) < Ranges
  <2>1. i(x) \in Nat /\ j(x) \in 0 .. PerRange - 1 /\ x - 1 = PerRange * i(x) + j(x)
    BY <1>0, <1>1
  <2>2. i(x) < Ranges
    <3> SUFFICES ASSUME i(x) >= Ranges PROVE FALSE
      BY <1>0, <2>1
    <3>. HIDE DEF i, j
    <3>1. PerRange * i(x) >= PerRange * Ranges
      BY <1>0, <2>1
    <3>. QED
      BY <1>0, <1>1, <2>1, <3>1
  <2>. QED
    BY <2>1, <2>2
<1>2. \A x \in Nat \ {0} :
        Address(x) = [range |-> (IF i(x) >= Ranges THEN Ranges - 1 ELSE i(x)) + 1,
                      host |-> j(x) + 1]
  BY Zenon DEF Address
<1>. HIDE DEF i, j
<1>3. i(m) = i(n) /\ j(m) = j(n)
  <2>1. /\ Address(m) = [range |-> i(m) + 1, host |-> j(m) + 1]
        /\ Address(n) = [range |-> i(n) + 1, host |-> j(n) + 1]
    BY <1>0, <1>1, <1>2
  <2>2. PICK a, b, c, d : a = i(m) + 1 /\ b = j(m) + 1 /\ c = i(n) + 1 /\ d = j(n) + 1
    OBVIOUS
  <2>3. [range |-> a, host |-> b] = [range |-> c, host |-> d]
    BY <2>1, <2>2, Zenon
  <2>4. a = c /\ b = d
    BY <2>3
  <2>. QED
    BY <1>1, <2>2, <2>4
<1>4. m - 1 = n - 1
  BY <1>1, <1>3, Zenon
<1>. QED
  BY <1>4

\* The addresses among the first k values.
Ips(s, k) == {s[i].id : i \in {j \in 1 .. k : s[j].kind = "ip"}}

\* What holds of the entries R, which the m-th values of their kinds were given,
\* and of the counters C after k of the values s.
Entered(R, C, m, s, k) ==
  /\ R \in Seq(Entries(ToSet(s))) /\ C \in [Kinds -> Nat] /\ m \in [DOMAIN R -> Nat \ {0}]
  /\ \A i \in 1 .. k : \E p \in DOMAIN R : SameValue(R[p].value, s[i])
  /\ \A p \in DOMAIN R : \E i \in 1 .. k : R[p].value = s[i]
  /\ \A p, q \in DOMAIN R : SameValue(R[p].value, R[q].value) => p = q
  /\ \A p \in DOMAIN R : /\ R[p].value.kind \in Kinds
                         /\ R[p].by = Number(R[p].value.kind, m[p])
                         /\ m[p] <= C[R[p].value.kind]
  /\ \A p, q \in DOMAIN R : (p # q /\ R[p].value.kind = R[q].value.kind) => m[p] # m[q]
  /\ IsFiniteSet(Ips(s, k)) /\ C["ip"] = Cardinality(Ips(s, k))

\* No value, no entry.
LEMMA KeptFirst ==
  ASSUME NEW s
  PROVE  /\ Entered(NewAnonymizer.replaced, NewAnonymizer.counters, <<>>, s, 0)
         /\ NewAnonymizer \in Anonymizers(ToSet(s))
<1>1. NewAnonymizer.replaced = <<>> /\ NewAnonymizer.counters = [k \in Kinds |-> 0]
  BY DEF NewAnonymizer, Kinds
<1>2. Ips(s, 0) = {}
  BY DEF Ips
<1>3. <<>> \in Seq(Entries(ToSet(s))) /\ DOMAIN <<>> = {}
  OBVIOUS
<1>4. Entered(<<>>, [k \in Kinds |-> 0], <<>>, s, 0)
  BY <1>2, <1>3, FS_EmptySet DEF Entered, Kinds
<1>5. NewAnonymizer \in Anonymizers(ToSet(s))
  BY <1>3 DEF Anonymizers, NewAnonymizer, Kinds
<1>. QED
  BY <1>1, <1>4, <1>5, Zenon

\* One value more.
LEMMA OneMore ==
  ASSUME NEW s, NEW k \in Nat
  PROVE  /\ 1 .. k + 1 = (1 .. k) \cup {k + 1}
         /\ Ips(s, k + 1) = IF s[k + 1].kind = "ip" THEN Ips(s, k) \cup {s[k + 1].id}
                                                    ELSE Ips(s, k)
<1>1. 1 .. k + 1 = (1 .. k) \cup {k + 1}
  OBVIOUS
<1>. QED
  BY <1>1 DEF Ips

\* A value that was replaced before changes nothing.
LEMMA KeptAgain ==
  ASSUME NEW R, NEW C, NEW m, NEW s, NEW k \in Nat, Entered(R, C, m, s, k),
         NEW p \in DOMAIN R, SameValue(R[p].value, s[k + 1])
  PROVE  Entered(R, C, m, s, k + 1)
<1>1. \A i \in 1 .. k + 1 : \E q \in DOMAIN R : SameValue(R[q].value, s[i])
  <2>1. \A i \in 1 .. k : \E q \in DOMAIN R : SameValue(R[q].value, s[i])
    BY Zenon DEF Entered
  <2>. QED
    BY <2>1, OneMore
<1>2. \A q \in DOMAIN R : \E i \in 1 .. k + 1 : R[q].value = s[i]
  <2>1. \A q \in DOMAIN R : \E i \in 1 .. k : R[q].value = s[i]
    BY Zenon DEF Entered
  <2>. QED
    BY <2>1, OneMore, Zenon
<1>3. Ips(s, k + 1) = Ips(s, k)
  <2>1. PICK i \in 1 .. k : R[p].value = s[i]
    BY DEF Entered
  <2>2. s[i].kind = s[k + 1].kind /\ s[i].id = s[k + 1].id
    BY <2>1 DEF SameValue
  <2>3. s[k + 1].kind = "ip" => s[k + 1].id \in Ips(s, k)
    BY <2>2 DEF Ips
  <2>. QED
    BY <2>3, OneMore
<1>. QED
  BY <1>1, <1>2, <1>3, Zenon DEF Entered

\* Another value becomes the last entry, with the next number of its kind.
LEMMA KeptNew ==
  ASSUME NEW R, NEW C, NEW m, NEW s, NEW k \in Nat, s[k + 1].kind \in Kinds,
         s[k + 1] \in ToSet(s), Entered(R, C, m, s, k),
         \A p \in DOMAIN R : ~SameValue(R[p].value, s[k + 1]),
         NEW n, n = C[s[k + 1].kind] + 1,
         NEW e, e = [value |-> s[k + 1], by |-> Number(s[k + 1].kind, n)]
  PROVE  \E l : Entered(Append(R, e), [C EXCEPT ![s[k + 1].kind] = n], l, s, k + 1)
<1> DEFINE v == s[k + 1]
           r == Append(R, e)
           D == [C EXCEPT ![v.kind] = n]
           N == Len(R)
           l == [q \in 1 .. N + 1 |-> IF q = N + 1 THEN n ELSE m[q]]
<1>1. /\ R \in Seq(Entries(ToSet(s))) /\ C \in [Kinds -> Nat] /\ m \in [1 .. N -> Nat \ {0}]
      /\ DOMAIN R = 1 .. N /\ N \in Nat
  BY LenProperties DEF Entered
<1>2. n \in Nat \ {0}
  BY <1>1
<1>3. e.value = v /\ e.by = Number(v.kind, n)
  OBVIOUS
<1>4. e \in Entries(ToSet(s))
  <2>1. Number(v.kind, n) \in [range : Nat, host : Nat]
    BY <1>2, AddressRight DEF Number
  <2>. QED
    BY <2>1 DEF Entries
<1>5. /\ r \in Seq(Entries(ToSet(s))) /\ DOMAIN r = 1 .. N + 1 /\ r[N + 1] = e
      /\ \A q \in 1 .. N : r[q] = R[q]
  BY <1>1, <1>4, AppendProperties
<1>6. D \in [Kinds -> Nat] /\ D[v.kind] = n /\ \A x \in Kinds \ {v.kind} : D[x] = C[x]
  BY <1>1, <1>2
<1>7. /\ l \in [DOMAIN r -> Nat \ {0}] /\ l[N + 1] = n
      /\ \A q \in 1 .. N : l[q] = m[q]
  BY <1>1, <1>2, <1>5
<1>8. 1 .. N + 1 = (1 .. N) \cup {N + 1} /\ N + 1 \notin 1 .. N
  BY <1>1
<1>. HIDE DEF r, D, l, N
<1>9. \A i \in 1 .. k + 1 : \E q \in DOMAIN r : SameValue(r[q].value, s[i])
  <2>1. \A i \in 1 .. k : \E q \in 1 .. N : SameValue(r[q].value, s[i])
    BY <1>1, <1>5 DEF Entered
  <2>2. SameValue(r[N + 1].value, v)
    BY <1>3, <1>5 DEF SameValue
  <2>. QED
    BY <1>5, <1>8, <2>1, <2>2, OneMore
<1>10. \A q \in DOMAIN r : \E i \in 1 .. k + 1 : r[q].value = s[i]
  <2>0. \A q \in 1 .. N : \E i \in 1 .. k : R[q].value = s[i]
    BY <1>1, Zenon DEF Entered
  <2>1. \A q \in 1 .. N : \E i \in 1 .. k : r[q].value = s[i]
    BY <1>5, <2>0, Zenon
  <2>2. r[N + 1].value = s[k + 1]
    BY <1>3, <1>5
  <2>. QED
    BY <1>5, <1>8, <2>1, <2>2, OneMore
<1>11. \A p, q \in DOMAIN r : SameValue(r[p].value, r[q].value) => p = q
  <2>1. \A p, q \in 1 .. N : SameValue(r[p].value, r[q].value) => p = q
    BY <1>1, <1>5 DEF Entered
  <2>2. \A p \in 1 .. N : ~SameValue(r[p].value, v) /\ ~SameValue(v, r[p].value)
    BY <1>1, <1>5 DEF SameValue
  <2>3. r[N + 1].value = v
    BY <1>3, <1>5
  <2>. QED
    BY <1>5, <1>8, <2>1, <2>2, <2>3
<1>12. \A p \in 1 .. N : /\ R[p].value.kind \in Kinds /\ m[p] \in Nat /\ m[p] <= C[R[p].value.kind]
                         /\ R[p].by = Number(R[p].value.kind, m[p])
                         /\ \A q \in 1 .. N : (p # q /\ R[p].value.kind = R[q].value.kind)
                                                => m[p] # m[q]
  BY <1>1, <1>8 DEF Entered
<1>13. \A x \in Kinds : C[x] \in Nat /\ C[x] <= D[x]
  BY <1>1, <1>6
<1>14. \A q \in DOMAIN r : /\ r[q].value.kind \in Kinds
                          /\ r[q].by = Number(r[q].value.kind, l[q])
                          /\ l[q] <= D[r[q].value.kind]
  <2>1. ASSUME NEW q \in 1 .. N
        PROVE  /\ r[q].value.kind \in Kinds /\ r[q].by = Number(r[q].value.kind, l[q])
               /\ l[q] <= D[r[q].value.kind]
    <3>1. r[q] = R[q] /\ l[q] = m[q]
      BY <1>5, <1>7
    <3>2. PICK x \in Kinds : x = R[q].value.kind /\ m[q] \in Nat /\ m[q] <= C[x]
      BY <1>12
    <3>3. C[x] \in Nat /\ D[x] \in Nat /\ C[x] <= D[x]
      BY <1>6, <1>13
    <3>4. m[q] <= D[x]
      BY <3>2, <3>3
    <3>. QED
      BY <1>12, <3>1, <3>2, <3>4, Zenon
  <2>2. r[N + 1].value.kind = v.kind /\ r[N + 1].by = Number(v.kind, n) /\ l[N + 1] = n
    BY <1>3, <1>5, <1>7
  <2>3. n <= D[v.kind]
    BY <1>2, <1>6
  <2>. QED
    BY <1>5, <1>8, <2>1, <2>2, <2>3
<1>15. \A p, q \in DOMAIN r : (p # q /\ r[p].value.kind = r[q].value.kind) => l[p] # l[q]
  <2>1. \A p, q \in 1 .. N : (p # q /\ r[p].value.kind = r[q].value.kind) => l[p] # l[q]
    BY <1>5, <1>7, <1>12
  <2>2. ASSUME NEW p \in 1 .. N, r[p].value.kind = v.kind PROVE l[p] # n
    <3>1. R[p].value.kind = v.kind /\ l[p] = m[p]
      BY <1>5, <1>7, <2>2
    <3>2. m[p] \in Nat /\ m[p] <= C[v.kind] /\ C[v.kind] \in Nat
      BY <1>1, <1>12, <3>1
    <3>. QED
      BY <3>1, <3>2
  <2>3. r[N + 1].value.kind = v.kind /\ l[N + 1] = n
    BY <1>3, <1>5, <1>7
  <2>. QED
    BY <1>5, <1>8, <2>1, <2>2, <2>3
<1>16. IsFiniteSet(Ips(s, k + 1)) /\ D["ip"] = Cardinality(Ips(s, k + 1))
  <2>0. IsFiniteSet(Ips(s, k)) /\ C["ip"] = Cardinality(Ips(s, k))
    BY DEF Entered
  <2>1. CASE v.kind = "ip"
    <3>1. v.id \notin Ips(s, k)
      <4> SUFFICES ASSUME NEW i \in 1 .. k, s[i].kind = "ip", s[i].id = v.id PROVE FALSE
        BY DEF Ips
      <4>1. PICK p \in DOMAIN R : SameValue(R[p].value, s[i])
        BY DEF Entered
      <4>2. SameValue(R[p].value, v)
        BY <2>1, <4>1 DEF SameValue
      <4>. QED
        BY <4>2
    <3>2. Ips(s, k + 1) = Ips(s, k) \cup {v.id}
      BY <2>1, OneMore
    <3>3. D["ip"] = C["ip"] + 1
      BY <1>6, <2>1
    <3>. QED
      BY <2>0, <3>1, <3>2, <3>3, FS_AddElement
  <2>2. CASE v.kind # "ip"
    <3>1. Ips(s, k + 1) = Ips(s, k)
      BY <2>2, OneMore
    <3>2. D["ip"] = C["ip"]
      BY <1>6, <2>2 DEF Kinds
    <3>. QED
      BY <2>0, <3>1, <3>2
  <2>. QED
    BY <2>1, <2>2
<1>17. Entered(r, D, l, s, k + 1)
  BY <1>5, <1>6, <1>7, <1>9, <1>10, <1>11, <1>14, <1>15, <1>16, Zenon DEF Entered
<1>. QED
  BY <1>17, Zenon DEF r, D

\* Entered holds of one value more.
LEMMA KeptStep ==
  ASSUME NEW a, NEW s, NEW k \in Nat, s[k + 1].kind \in Kinds, s[k + 1] \in ToSet(s),
         a \in Anonymizers(ToSet(s)), NEW m, Entered(a.replaced, a.counters, m, s, k),
         NEW b, b = PlaceholderFor(a, s[k + 1])
  PROVE  b \in Anonymizers(ToSet(s)) /\ \E l : Entered(b.replaced, b.counters, l, s, k + 1)
<1> PICK v, R, C : v = s[k + 1] /\ R = a.replaced /\ C = a.counters
  OBVIOUS
<1>1. CASE \E p \in DOMAIN R : SameValue(R[p].value, v)
  <2>1. b = a
    BY <1>1 DEF PlaceholderFor
  <2>2. PICK p \in DOMAIN R : SameValue(R[p].value, v)
    BY <1>1
  <2>3. Entered(R, C, m, s, k + 1)
    BY <2>2, KeptAgain
  <2>. QED
    BY <2>1, <2>3, Zenon
<1>2. CASE \A p \in DOMAIN R : ~SameValue(R[p].value, v)
  <2>1. PICK n : n = C[v.kind] + 1
    OBVIOUS
  <2>2. PICK e : e = [value |-> v, by |-> Number(v.kind, n)]
    OBVIOUS
  <2>3. PICK r, D : r = Append(R, e) /\ D = [C EXCEPT ![v.kind] = n]
    OBVIOUS
  <2>4. b = [replaced |-> r, counters |-> D]
    BY <1>2, <2>1, <2>2, <2>3, Zenon DEF PlaceholderFor, Counted, Number
  <2>5. PICK l : Entered(r, D, l, s, k + 1)
    BY <1>2, <2>1, <2>2, <2>3, KeptNew
  <2>6. b.replaced = r /\ b.counters = D
    BY <2>4
  <2>7. r \in Seq(Entries(ToSet(s))) /\ D \in [Kinds -> Nat]
    BY <2>5 DEF Entered
  <2>8. b \in Anonymizers(ToSet(s))
    BY <2>4, <2>7 DEF Anonymizers
  <2>. QED
    BY <2>5, <2>6, <2>8, Zenon
<1>. QED
  BY <1>1, <1>2

\* What PlaceholderFor keeps is an anonymizer.
LEMMA PlaceholderTyped ==
  ASSUME NEW S, NEW a \in Anonymizers(S), NEW v \in S, v.kind \in Kinds
  PROVE  PlaceholderFor(a, v) \in Anonymizers(S)
<1> PICK R, C, b : R = a.replaced /\ C = a.counters /\ b = PlaceholderFor(a, v)
  OBVIOUS
<1>1. R \in Seq(Entries(S)) /\ C \in [Kinds -> Nat]
  BY DEF Anonymizers
<1>2. CASE \E p \in DOMAIN R : SameValue(R[p].value, v)
  BY <1>2 DEF PlaceholderFor
<1>3. CASE \A p \in DOMAIN R : ~SameValue(R[p].value, v)
  <2>1. PICK n : n = C[v.kind] + 1
    OBVIOUS
  <2>2. n \in Nat \ {0}
    BY <1>1, <2>1
  <2>3. PICK e : e = [value |-> v, by |-> Number(v.kind, n)]
    OBVIOUS
  <2>4. PICK r, D : r = Append(R, e) /\ D = [C EXCEPT ![v.kind] = n]
    OBVIOUS
  <2>5. b = [replaced |-> r, counters |-> D]
    BY <1>3, <2>1, <2>3, <2>4, Zenon DEF PlaceholderFor, Counted, Number
  <2>6. Number(v.kind, n) \in [range : Nat, host : Nat]
    BY <2>2, AddressRight DEF Number
  <2>7. e \in Entries(S)
    BY <2>3, <2>6 DEF Entries
  <2>8. r \in Seq(Entries(S)) /\ D \in [Kinds -> Nat]
    BY <1>1, <2>2, <2>4, <2>7, AppendProperties
  <2>. QED
    BY <2>5, <2>8 DEF Anonymizers
<1>. QED
  BY <1>2, <1>3

\* The recorder's state after all values keeps what it has to.
LEMMA AnonymizedKept ==
  ASSUME NEW s \in Seq(Secrets)
  PROVE  \E m : Entered(Anonymized(s).replaced, Anonymized(s).counters, m, s, Len(s))
<1> DEFINE n == Len(s)
           A == Anonymizers(ToSet(s))
           base == NewAnonymizer
           G == [x \in (1 .. n) \X A |-> PlaceholderFor(x[2], s[x[1]])]
<1>1. n \in Nat /\ DOMAIN s = 1 .. n
  BY LenProperties
<1>2. \A i \in 1 .. n : s[i].kind \in Kinds /\ s[i] \in ToSet(s)
  BY <1>1, ElementOfSeq, SecretsAssumption DEF Kinds, ToSet
<1>3. base \in A
  BY KeptFirst
<1>4. G \in Steps(n, A)
  <2>1. ASSUME NEW x \in (1 .. n) \X A PROVE PlaceholderFor(x[2], s[x[1]]) \in A
    BY <1>2, PlaceholderTyped
  <2>. QED
    BY <2>1 DEF Steps
<1>5. \A i \in 1 .. n, a \in A : G[<<i, a>>] = PlaceholderFor(a, s[i])
  OBVIOUS
<1> DEFINE iter[t \in SUBSET DOMAIN s] ==
             IF t = {} THEN base ELSE PlaceholderFor(iter[t \ {Max(t)}], s[Max(t)])
<1>6. Anonymized(s) = iter[DOMAIN s]
  BY Zenon DEF Anonymized, FoldLeft, MapThenFoldSet
<1>. HIDE DEF n, A, base, G
<1>7. PICK g : Peels(g, n, A, base, G)
  BY <1>1, <1>3, <1>4, AlongSets
<1>8. g = [t \in SUBSET DOMAIN s |->
             IF t = {} THEN base ELSE PlaceholderFor(g[t \ {Max(t)}], s[Max(t)])]
  <2>1. DOMAIN g = SUBSET (1 .. n)
    BY <1>7 DEF Peels
  <2>2. ASSUME NEW t \in SUBSET (1 .. n), t # {}
        PROVE  g[t] = PlaceholderFor(g[t \ {Max(t)}], s[Max(t)])
    <3>1. Max(t) \in t
      BY <1>1, <2>2, Greatest
    <3>2. Max(t) \in 1 .. n /\ t \ {Max(t)} \in SUBSET (1 .. n)
      BY <3>1
    <3>3. g[t \ {Max(t)}] \in A
      BY <1>7, <3>2 DEF Peels
    <3>4. g[t] = G[<<Max(t), g[t \ {Max(t)}]>>]
      BY <1>7, <2>2 DEF Peels
    <3>. QED
      BY <1>5, <3>2, <3>3, <3>4
  <2>3. g[{}] = base
    BY <1>7 DEF Peels
  <2>4. g \in [SUBSET (1 .. n) -> A]
    BY <1>7 DEF Peels
  <2>. QED
    BY <1>1, <2>2, <2>3, <2>4
<1>9. iter = [t \in SUBSET DOMAIN s |->
                IF t = {} THEN base ELSE PlaceholderFor(iter[t \ {Max(t)}], s[Max(t)])]
  BY <1>8
<1>. HIDE DEF iter
<1>10. /\ iter[{}] = base
       /\ \A k \in Nat : k + 1 <= n =>
             iter[1 .. k + 1] = PlaceholderFor(iter[1 .. k], s[k + 1])
  <2>1. iter[{}] = base
    BY <1>9
  <2>2. ASSUME NEW k \in Nat, k + 1 <= n
        PROVE  iter[1 .. k + 1] = PlaceholderFor(iter[1 .. k], s[k + 1])
    <3>1. PICK t : t = 1 .. k + 1
      OBVIOUS
    <3>2. t \in SUBSET DOMAIN s
      BY <1>1, <2>2, <3>1
    <3>3. t # {} /\ Max(t) = k + 1 /\ t \ {Max(t)} = 1 .. k
      BY <3>1, Topmost
    <3>4. iter[t] = IF t = {} THEN base ELSE PlaceholderFor(iter[t \ {Max(t)}], s[Max(t)])
      BY <1>9, <3>2, Zenon
    <3>. QED
      BY <3>1, <3>3, <3>4, Zenon
  <2>. QED
    BY <2>1, <2>2
<1> DEFINE T == {k \in Nat : k <= n =>
                   /\ iter[1 .. k] \in A
                   /\ \E m : Entered(iter[1 .. k].replaced, iter[1 .. k].counters, m, s, k)}
<1>11. 0 \in T
  <2>1. 1 .. 0 = {} /\ 0 \in Nat
    OBVIOUS
  <2>2. iter[1 .. 0] = base
    BY <1>10, <2>1, Zenon
  <2>3. base \in A /\ Entered(base.replaced, base.counters, <<>>, s, 0)
    BY KeptFirst DEF base, A
  <2>. QED
    BY <2>1, <2>2, <2>3, Zenon
<1>12. ASSUME NEW k \in Nat, k \in T PROVE k + 1 \in T
  <2> SUFFICES ASSUME k + 1 <= n
               PROVE  /\ iter[1 .. k + 1] \in A
                      /\ \E m : Entered(iter[1 .. k + 1].replaced, iter[1 .. k + 1].counters,
                                       m, s, k + 1)
    OBVIOUS
  <2>1. k <= n /\ k + 1 \in 1 .. n
    BY <1>1
  <2>2. PICK a, b : a = iter[1 .. k] /\ b = iter[1 .. k + 1]
    OBVIOUS
  <2>3. b = PlaceholderFor(a, s[k + 1])
    BY <1>10, <2>2, Zenon
  <2>4. a \in A /\ \E m : Entered(a.replaced, a.counters, m, s, k)
    BY <1>12, <2>1, <2>2, Zenon
  <2>5. PICK m : Entered(a.replaced, a.counters, m, s, k)
    BY <2>4
  <2>6. s[k + 1].kind \in Kinds /\ s[k + 1] \in ToSet(s)
    BY <1>2, <2>1
  <2>7. b \in A /\ \E l : Entered(b.replaced, b.counters, l, s, k + 1)
    BY <2>3, <2>4, <2>5, <2>6, KeptStep DEF A
  <2>. QED
    BY <2>2, <2>7, Zenon
<1>. HIDE DEF T
<1>13. n \in T
  BY <1>1, <1>11, <1>12, Counted0
<1>14. n <= n
  BY <1>1
<1>15. \E m : Entered(iter[1 .. n].replaced, iter[1 .. n].counters, m, s, n)
  BY <1>13, <1>14, Zenon DEF T
<1>. QED
  BY <1>1, <1>6, <1>15, Zenon DEF n

\* A value is replaced by what its own entry says.
LEMMA ReplacedByEntry ==
  ASSUME NEW a, NEW s, NEW n, NEW m, Entered(a.replaced, a.counters, m, s, n), NEW i \in 1 .. n
  PROVE  \E p \in DOMAIN a.replaced :
           /\ SameValue(a.replaced[p].value, s[i])
           /\ ReplacementOf(a, s[i]) = Number(s[i].kind, m[p])
           /\ m[p] \in Nat \ {0} /\ m[p] <= a.counters[s[i].kind]
<1> PICK R, C, v : R = a.replaced /\ C = a.counters /\ v = s[i]
  OBVIOUS
<1>1. PICK p \in DOMAIN R : SameValue(R[p].value, v)
  BY DEF Entered
<1>2. \A q \in DOMAIN R : SameValue(R[q].value, v) => q = p
  <2> SUFFICES ASSUME NEW q \in DOMAIN R, SameValue(R[q].value, v) PROVE q = p
    OBVIOUS
  <2>1. SameValue(R[q].value, R[p].value)
    BY <1>1 DEF SameValue
  <2>. QED
    BY <2>1 DEF Entered
<1>3. R[p] \in ToSet(R) /\ \A r \in ToSet(R) : SameValue(r.value, v) => r = R[p]
  BY <1>2 DEF ToSet
<1>4. (CHOOSE r \in ToSet(R) : SameValue(r.value, v)) = R[p]
  BY <1>1, <1>3
<1>5. ReplacementOf(a, v) = R[p].by
  BY <1>4, Zenon DEF ReplacementOf
<1>6. R[p].by = Number(R[p].value.kind, m[p]) /\ m[p] <= C[R[p].value.kind]
  BY Zenon DEF Entered
<1>7. R[p].value.kind = v.kind
  BY <1>1 DEF SameValue
<1>8. m[p] \in Nat \ {0}
  BY DEF Entered
<1>. QED
  BY <1>1, <1>5, <1>6, <1>7, <1>8, Zenon

\* Two numbers of a kind stand for different replacements.
LEMMA NumbersDiffer ==
  ASSUME NEW kind, NEW m \in Nat \ {0}, NEW n \in Nat \ {0},
         kind = "ip" => m <= PerRange * Ranges /\ n <= PerRange * Ranges,
         Number(kind, m) = Number(kind, n)
  PROVE  m = n
<1>1. CASE kind = "ip"
  <2>1. Address(m) = Address(n)
    BY <1>1 DEF Number
  <2>. QED
    BY <1>1, <2>1, AddressOnce
<1>2. CASE kind # "ip"
  <2>1. [range |-> 0, host |-> m] = [range |-> 0, host |-> n]
    BY <1>2 DEF Number
  <2>. QED
    BY <2>1
<1>. QED
  BY <1>1, <1>2

\* What becomes of any values.
LEMMA AlwaysDistinct ==
  ASSUME NEW s \in Seq(Secrets), NEW by, NEW a, a = Anonymized(s),
         by = [i \in DOMAIN s |-> ReplacementOf(a, s[i])]
  PROVE  Distinct(s, by)
<1> PICK n, R, C, L : n = Len(s) /\ R = a.replaced /\ C = a.counters /\ L = PerRange * Ranges
  OBVIOUS
<1>1. DOMAIN s = 1 .. n /\ n \in Nat
  BY LenProperties
<1>2. PICK m : Entered(R, C, m, s, n)
  BY AnonymizedKept
<1>3. C["ip"] = Cardinality(Ips(s, n)) /\ C \in [Kinds -> Nat]
  BY <1>2 DEF Entered
<1>4. \A i \in 1 .. n : s[i].kind \in Kinds
  BY <1>1, ElementOfSeq, SecretsAssumption DEF Kinds
<1>5. L \in Nat
  BY PlaceholderAssumption
<1>6. ASSUME NEW i \in 1 .. n
      PROVE  \E p \in DOMAIN R :
               /\ SameValue(R[p].value, s[i]) /\ by[i] = Number(s[i].kind, m[p])
               /\ m[p] \in Nat \ {0} /\ m[p] <= C[s[i].kind]
  <2>1. by[i] = ReplacementOf(a, s[i])
    BY <1>1
  <2>. QED
    BY <1>2, <2>1, ReplacedByEntry, Zenon
<1>7. ASSUME NEW i \in 1 .. n, s[i].kind = "ip"
      PROVE  by[i].range \in 1 .. Ranges /\ by[i].host \in 1 .. PerRange
  <2>1. PICK p \in DOMAIN R : by[i] = Number(s[i].kind, m[p]) /\ m[p] \in Nat \ {0}
    BY <1>6
  <2>2. by[i] = Address(m[p])
    BY <1>7, <2>1 DEF Number
  <2>. QED
    BY <2>1, <2>2, AddressRight, Zenon
<1>8. ASSUME NEW i \in 1 .. n, NEW j \in 1 .. n, s[i].kind = s[j].kind,
             s[i].kind = "ip" => Cardinality(Ips(s, n)) <= L
      PROVE  by[i] = by[j] <=> s[i].id = s[j].id
  <2>1. PICK p \in DOMAIN R :
          /\ SameValue(R[p].value, s[i]) /\ by[i] = Number(s[i].kind, m[p])
          /\ m[p] \in Nat \ {0} /\ m[p] <= C[s[i].kind]
    BY <1>6
  <2>2. PICK q \in DOMAIN R :
          /\ SameValue(R[q].value, s[j]) /\ by[j] = Number(s[j].kind, m[q])
          /\ m[q] \in Nat \ {0} /\ m[q] <= C[s[j].kind]
    BY <1>6
  <2>3. ASSUME s[i].id = s[j].id PROVE by[i] = by[j]
    <3>1. SameValue(R[p].value, R[q].value)
      BY <1>8, <2>1, <2>2, <2>3 DEF SameValue
    <3>2. p = q
      BY <1>2, <3>1 DEF Entered
    <3>. QED
      BY <1>8, <2>1, <2>2, <3>2
  <2>4. ASSUME by[i] = by[j] PROVE s[i].id = s[j].id
    <3>1. C[s[i].kind] \in Nat
      BY <1>3, <1>4
    <3>2. s[i].kind = "ip" => m[p] <= L /\ m[q] <= L
      BY <1>3, <1>5, <1>8, <2>1, <2>2, <3>1
    <3>3. Number(s[i].kind, m[p]) = Number(s[i].kind, m[q])
      BY <1>8, <2>1, <2>2, <2>4, Zenon
    <3>4. PICK x, y : x = m[p] /\ y = m[q]
      OBVIOUS
    <3>5. x \in Nat \ {0} /\ y \in Nat \ {0}
      BY <2>1, <2>2, <3>4
    <3>6. x = y
      BY <3>2, <3>3, <3>4, <3>5, NumbersDiffer
    <3>7. R[p].value.kind = R[q].value.kind
      BY <1>8, <2>1, <2>2 DEF SameValue
    <3>8. (p # q /\ R[p].value.kind = R[q].value.kind) => m[p] # m[q]
      BY <1>2, Zenon DEF Entered
    <3>9. p = q
      BY <3>4, <3>6, <3>7, <3>8, Zenon
    <3>. QED
      BY <2>1, <2>2, <3>9 DEF SameValue
  <2>. QED
    BY <2>3, <2>4
<1> DEFINE ips == {s[i].id : i \in {j \in DOMAIN s : s[j].kind = "ip"}}
<1>9. ips = Ips(s, n)
  BY <1>1 DEF Ips
<1> SUFFICES \A i, j \in DOMAIN s :
                    /\ s[i].kind = "ip" => by[i].range \in 1 .. Ranges /\ by[i].host \in 1 .. PerRange
                    /\ (/\ s[i].kind = s[j].kind
                        /\ s[i].kind = "ip" => Cardinality(ips) <= PerRange * Ranges) =>
                         (by[i] = by[j] <=> s[i].id = s[j].id)
  BY Zenon DEF Distinct
<1>. HIDE DEF ips
<1> SUFFICES ASSUME NEW i \in DOMAIN s, NEW j \in DOMAIN s
             PROVE  /\ s[i].kind = "ip" => by[i].range \in 1 .. Ranges /\ by[i].host \in 1 .. PerRange
                    /\ (s[i].kind = s[j].kind /\ (s[i].kind = "ip" => Cardinality(ips) <= L)) =>
                         (by[i] = by[j] <=> s[i].id = s[j].id)
  BY Zenon
<1>10. i \in 1 .. n /\ j \in 1 .. n
  BY <1>1
<1>. QED
  BY <1>7, <1>8, <1>9, <1>10, Zenon

\* A text of at most so many of a set is a sequence of it.
LEMMA UptoSeq ==
  ASSUME NEW S, NEW n \in Nat, NEW s \in Upto(S, n)
  PROVE  s \in Seq(S)
<1>1. PICK k \in 0 .. n : s \in [1 .. k -> S]
  BY DEF Upto
<1>2. k \in Nat
  OBVIOUS
<1>. QED
  BY <1>1, <1>2

\* One value has one placeholder, two have two while there are addresses left, in
\* recordings of any length and for any number of ranges (record.go:78-165).
THEOREM PlaceholdersAlwaysDistinct == Spec => []PlaceholdersDistinct
<1>1. Init => PlaceholdersDistinct
  BY DEF Init, NoCall, PlaceholdersDistinct
<1>2. PlaceholdersDistinct /\ [Next]_vars => PlaceholdersDistinct'
  <2> SUFFICES ASSUME PlaceholdersDistinct, [Next]_vars, call'.op = "secrets"
               PROVE  PlaceholdersDistinct'
    BY DEF PlaceholdersDistinct
  <2>1. CASE UNCHANGED vars
    <3>1. call' = call /\ answer' = answer
      BY <2>1 DEF vars
    <3>. QED
      BY <3>1, Zenon DEF PlaceholdersDistinct
  <2>2. CASE Next
    <3>1. CleanAnswer
      BY <2>2, CallNamed DEF Next
    <3>2. PICK s \in Upto(Secrets, MaxSecrets) :
            /\ call' = [op |-> "secrets", of |-> s]
            /\ answer' = [i \in DOMAIN s |-> ReplacementOf(Anonymized(s), s[i])]
      BY <3>1, Zenon DEF CleanAnswer, Calls
    <3>3. s \in Seq(Secrets)
      BY <3>2, UptoSeq, SecretsAssumption
    <3>4. call'.of = s
      BY <3>2
    <3>5. Distinct(s, answer')
      BY <3>2, <3>3, AlwaysDistinct, Zenon
    <3>. QED
      BY <3>4, <3>5, Zenon DEF PlaceholdersDistinct
  <2>. QED
    BY <2>1, <2>2
<1>. QED
  BY <1>1, <1>2, PTL DEF Spec

----------------------------------------------------------------------------
\* Options: SameCore is what an option changes at once, SameWishes what it leaves
\* for later; Built is what is known of a client after its first k options.

Timeouts == {"60s", "own", "unset"} \cup {o[2] : o \in Options}

Retries == {0} \cup {o[2] : o \in Options}

HTTPClients ==
  [base : {"http", "other", "nil"}, negotiator : BOOLEAN, recorder : BOOLEAN, skip : BOOLEAN,
   ca : BOOLEAN, cert : BOOLEAN, timeout : Timeouts]

RecordDirs == {"none", "usable", "unusable"}

Clients ==
  [http : HTTPClients \cup {None}, optErr : {"nil", "ca", "certificate"}, timeout : Timeouts,
   retries : Retries, insecure : BOOLEAN, recordDir : RecordDirs]

\* What an option changes at once, and what it leaves as a wish.
SameCore(c, d) == c.http = d.http /\ c.optErr = d.optErr

SameWishes(c, d) ==
  /\ c.timeout = d.timeout /\ c.retries = d.retries
  /\ c.insecure = d.insecure /\ c.recordDir = d.recordDir

\* The HTTP clients that options make.
LEMMA MadeClients ==
  /\ DefaultHTTPClient \in HTTPClients /\ NewNTLMTransport \in HTTPClients
  /\ \A x, y \in BOOLEAN : NewCertTransport(x, y) \in HTTPClients
  /\ \A b \in {"http", "other", "nil"} : CustomHTTPClient(b) \in HTTPClients
  /\ \A h \in HTTPClients : AddCACertToTransport(h) \in HTTPClients
  /\ None \notin HTTPClients
<1>1. DefaultHTTPClient \in HTTPClients
  BY DEF DefaultHTTPClient, HTTPClients, Timeouts
<1>2. NewNTLMTransport \in HTTPClients
  BY <1>1 DEF NewNTLMTransport, HTTPClients
<1>3. \A x, y \in BOOLEAN : NewCertTransport(x, y) \in HTTPClients
  BY <1>1 DEF NewCertTransport, HTTPClients
<1>4. \A b \in {"http", "other", "nil"} : CustomHTTPClient(b) \in HTTPClients
  BY <1>1 DEF CustomHTTPClient, HTTPClients, Timeouts
<1>5. \A h \in HTTPClients : AddCACertToTransport(h) \in HTTPClients
  BY DEF AddCACertToTransport, HTTPClients
<1>6. None \notin HTTPClients
  BY DEF None, HTTPClients
<1>. QED
  BY <1>1, <1>2, <1>3, <1>4, <1>5, <1>6

\* What each option makes of a client.
LEMMA ApplyCore ==
  ASSUME NEW c, NEW o
  PROVE  /\ o[1] = "WithHTTPClient"  => Apply(c, o) = [c EXCEPT !.http = CustomHTTPClient(o[2])]
         /\ o[1] = "WithNTLM"        => Apply(c, o) = [c EXCEPT !.http = NewNTLMTransport]
         /\ (o[1] = "WithCertificate" /\ ~o[2]) => Apply(c, o) = [c EXCEPT !.optErr = "certificate"]
         /\ (o[1] = "WithCertificate" /\ o[2]) =>
              Apply(c, o) = [c EXCEPT !.http = NewCertTransport(TRUE, FALSE)]
         /\ (o[1] = "WithCACert" /\ ~o[2]) => Apply(c, o) = [c EXCEPT !.optErr = "ca"]
         /\ (o[1] = "WithCACert" /\ o[2] /\ c.http = None) =>
              Apply(c, o) = [c EXCEPT !.http = NewCertTransport(FALSE, TRUE)]
         /\ (o[1] = "WithCACert" /\ o[2] /\ c.http # None) =>
              Apply(c, o) = [c EXCEPT !.http = AddCACertToTransport(c.http)]
<1>1. o[1] = "WithHTTPClient"  => Apply(c, o) = [c EXCEPT !.http = CustomHTTPClient(o[2])]
  BY Zenon DEF Apply
<1>2. o[1] = "WithNTLM" => Apply(c, o) = [c EXCEPT !.http = NewNTLMTransport]
  BY Zenon DEF Apply
<1>3. o[1] = "WithCertificate" => Apply(c, o) = WithCertificate(c, o[2])
  BY Zenon DEF Apply
<1>4. o[1] = "WithCACert" => Apply(c, o) = WithCACert(c, o[2])
  BY Zenon DEF Apply
<1>. QED
  BY <1>1, <1>2, <1>3, <1>4, Zenon DEF WithCertificate, WithCACert

\* What each wish makes of a client.
LEMMA ApplyWish ==
  ASSUME NEW c, NEW o
  PROVE  /\ o[1] = "WithTimeout"  => Apply(c, o) = [c EXCEPT !.timeout = o[2]]
         /\ o[1] = "WithRetry"    => Apply(c, o) = [c EXCEPT !.retries = o[2]]
         /\ o[1] = "WithRecorder" => Apply(c, o) = [c EXCEPT !.recordDir = o[2]]
         /\ o[1] = "WithInsecureSkipVerify" => Apply(c, o) = [c EXCEPT !.insecure = TRUE]
<1>1. o[1] = "WithTimeout" => Apply(c, o) = [c EXCEPT !.timeout = o[2]]
  BY Zenon DEF Apply
<1>2. o[1] = "WithRetry" => Apply(c, o) = [c EXCEPT !.retries = o[2]]
  BY Zenon DEF Apply
<1>3. o[1] = "WithRecorder" => Apply(c, o) = [c EXCEPT !.recordDir = o[2]]
  BY Zenon DEF Apply
<1>4. o[1] = "WithInsecureSkipVerify" => Apply(c, o) = [c EXCEPT !.insecure = TRUE]
  BY Zenon DEF Apply, WithInsecureSkipVerify
<1>. QED
  BY <1>1, <1>2, <1>3, <1>4

\* An option that is applied to a client makes a client.
LEMMA ApplyTyped ==
  ASSUME NEW c \in Clients, NEW o \in Options
  PROVE  Apply(c, o) \in Clients
<1> PICK h, a, r : h = c.http /\ a = o[2] /\ r = Apply(c, o)
  OBVIOUS
<1>0. h \in HTTPClients \cup {None} /\ a \in Timeouts /\ a \in Retries
  BY DEF Clients, Timeouts, Retries
<1>1. ASSUME NEW g \in HTTPClients PROVE [c EXCEPT !.http = g] \in Clients
  BY DEF Clients
<1>2. CASE o[1] = "WithHTTPClient"
  <2>1. r = [c EXCEPT !.http = CustomHTTPClient(a)]
    BY <1>2, ApplyCore, Zenon
  <2>2. a \in {"http", "other", "nil"}
    BY <1>2, OptionsAssumption, Zenon
  <2>3. CustomHTTPClient(a) \in HTTPClients
    BY <2>2, MadeClients, Zenon
  <2>. QED
    BY <1>1, <2>1, <2>3, Zenon
<1>3. CASE o[1] = "WithNTLM"
  <2>1. r = [c EXCEPT !.http = NewNTLMTransport]
    BY <1>3, ApplyCore, Zenon
  <2>. QED
    BY <1>1, <2>1, MadeClients, Zenon
<1>4. CASE o[1] = "WithCertificate"
  <2>1. CASE a
    <3>1. r = [c EXCEPT !.http = NewCertTransport(TRUE, FALSE)]
      BY <1>4, <2>1, ApplyCore, Zenon
    <3>. QED
      BY <1>1, <3>1, MadeClients, Zenon
  <2>2. CASE ~a
    <3>1. r = [c EXCEPT !.optErr = "certificate"]
      BY <1>4, <2>2, ApplyCore, Zenon
    <3>. QED
      BY <3>1 DEF Clients
  <2>. QED
    BY <2>1, <2>2
<1>5. CASE o[1] = "WithCACert"
  <2>1. CASE a /\ h = None
    <3>1. r = [c EXCEPT !.http = NewCertTransport(FALSE, TRUE)]
      BY <1>5, <2>1, ApplyCore, Zenon
    <3>. QED
      BY <1>1, <3>1, MadeClients, Zenon
  <2>2. CASE a /\ h # None
    <3>1. h \in HTTPClients
      BY <1>0, <2>2
    <3>2. r = [c EXCEPT !.http = AddCACertToTransport(h)]
      BY <1>5, <2>2, ApplyCore, Zenon
    <3>3. AddCACertToTransport(h) \in HTTPClients
      BY <3>1, MadeClients, Zenon
    <3>. QED
      BY <1>1, <3>2, <3>3, Zenon
  <2>3. CASE ~a
    <3>1. r = [c EXCEPT !.optErr = "ca"]
      BY <1>5, <2>3, ApplyCore, Zenon
    <3>. QED
      BY <3>1 DEF Clients
  <2>. QED
    BY <2>1, <2>2, <2>3
<1>6. CASE o[1] = "WithTimeout"
  <2>1. r = [c EXCEPT !.timeout = a]
    BY <1>6, ApplyWish, Zenon
  <2>. QED
    BY <1>0, <2>1 DEF Clients
<1>7. CASE o[1] = "WithRetry"
  <2>1. r = [c EXCEPT !.retries = a]
    BY <1>7, ApplyWish, Zenon
  <2>. QED
    BY <1>0, <2>1 DEF Clients
<1>8. CASE o[1] = "WithRecorder"
  <2>1. r = [c EXCEPT !.recordDir = a]
    BY <1>8, ApplyWish, Zenon
  <2>2. a \in RecordDirs
    BY <1>8, OptionsAssumption, Zenon DEF RecordDirs
  <2>. QED
    BY <2>1, <2>2 DEF Clients
<1>9. CASE o[1] = "WithInsecureSkipVerify"
  <2>1. r = [c EXCEPT !.insecure = TRUE]
    BY <1>9, ApplyWish, Zenon
  <2>. QED
    BY <2>1 DEF Clients
<1>. QED
  BY <1>2, <1>3, <1>4, <1>5, <1>6, <1>7, <1>8, <1>9, OptionsAssumption

\* A wish changes no more than the wishes, and the same ones in every client.
LEMMA WishApart ==
  ASSUME NEW c \in Clients, NEW d \in Clients, NEW o \in Options, o[1] \in Deferred
  PROVE  /\ SameCore(Apply(c, o), c)
         /\ SameWishes(c, d) => SameWishes(Apply(c, o), Apply(d, o))
<1>1. CASE o[1] = "WithTimeout"
  <2>1. Apply(c, o) = [c EXCEPT !.timeout = o[2]] /\ Apply(d, o) = [d EXCEPT !.timeout = o[2]]
    BY <1>1, ApplyWish, Zenon
  <2>. QED
    BY <2>1 DEF Clients, SameCore, SameWishes
<1>2. CASE o[1] = "WithRetry"
  <2>1. Apply(c, o) = [c EXCEPT !.retries = o[2]] /\ Apply(d, o) = [d EXCEPT !.retries = o[2]]
    BY <1>2, ApplyWish, Zenon
  <2>. QED
    BY <2>1 DEF Clients, SameCore, SameWishes
<1>3. CASE o[1] = "WithRecorder"
  <2>1. Apply(c, o) = [c EXCEPT !.recordDir = o[2]] /\ Apply(d, o) = [d EXCEPT !.recordDir = o[2]]
    BY <1>3, ApplyWish, Zenon
  <2>. QED
    BY <2>1 DEF Clients, SameCore, SameWishes
<1>4. CASE o[1] = "WithInsecureSkipVerify"
  <2>1. Apply(c, o) = [c EXCEPT !.insecure = TRUE] /\ Apply(d, o) = [d EXCEPT !.insecure = TRUE]
    BY <1>4, ApplyWish, Zenon
  <2>. QED
    BY <2>1 DEF Clients, SameCore, SameWishes
<1>. QED
  BY <1>1, <1>2, <1>3, <1>4 DEF Deferred

\* The others change no wish, and the same in every client.
LEMMA CoreApart ==
  ASSUME NEW c \in Clients, NEW d \in Clients, NEW o \in Options, o[1] \notin Deferred
  PROVE  /\ SameWishes(Apply(c, o), c)
         /\ SameCore(c, d) => SameCore(Apply(c, o), Apply(d, o))
<1> PICK x, y : x = Apply(c, o) /\ y = Apply(d, o)
  OBVIOUS
<1> SUFFICES SameWishes(x, c) /\ (SameCore(c, d) => SameCore(x, y))
  OBVIOUS
<1>0. ASSUME NEW g, NEW h, x = [c EXCEPT !.http = g], y = [d EXCEPT !.http = h],
             SameCore(c, d) => g = h
      PROVE  SameWishes(x, c) /\ (SameCore(c, d) => SameCore(x, y))
  BY <1>0 DEF Clients, SameCore, SameWishes
<1>1. ASSUME NEW e, x = [c EXCEPT !.optErr = e], y = [d EXCEPT !.optErr = e]
      PROVE  SameWishes(x, c) /\ (SameCore(c, d) => SameCore(x, y))
  BY <1>1 DEF Clients, SameCore, SameWishes
<1>2. CASE o[1] = "WithHTTPClient"
  <2>1. x = [c EXCEPT !.http = CustomHTTPClient(o[2])] /\ y = [d EXCEPT !.http = CustomHTTPClient(o[2])]
    BY <1>2, ApplyCore, Zenon
  <2>. QED
    BY <1>0, <2>1, Zenon
<1>3. CASE o[1] = "WithNTLM"
  <2>1. x = [c EXCEPT !.http = NewNTLMTransport] /\ y = [d EXCEPT !.http = NewNTLMTransport]
    BY <1>3, ApplyCore, Zenon
  <2>. QED
    BY <1>0, <2>1, Zenon
<1>4. CASE o[1] = "WithCertificate" /\ o[2]
  <2>1. /\ x = [c EXCEPT !.http = NewCertTransport(TRUE, FALSE)]
        /\ y = [d EXCEPT !.http = NewCertTransport(TRUE, FALSE)]
    BY <1>4, ApplyCore, Zenon
  <2>. QED
    BY <1>0, <2>1, Zenon
<1>5. CASE o[1] = "WithCertificate" /\ ~o[2]
  <2>1. x = [c EXCEPT !.optErr = "certificate"] /\ y = [d EXCEPT !.optErr = "certificate"]
    BY <1>5, ApplyCore, Zenon
  <2>. QED
    BY <1>1, <2>1, Zenon
<1>6. CASE o[1] = "WithCACert" /\ ~o[2]
  <2>1. x = [c EXCEPT !.optErr = "ca"] /\ y = [d EXCEPT !.optErr = "ca"]
    BY <1>6, ApplyCore, Zenon
  <2>. QED
    BY <1>1, <2>1, Zenon
<1>7. CASE o[1] = "WithCACert" /\ o[2]
  <2> DEFINE Trusting(h) == IF h = None THEN NewCertTransport(FALSE, TRUE)
                                        ELSE AddCACertToTransport(h)
  <2>1. x = [c EXCEPT !.http = Trusting(c.http)]
    <3>1. CASE c.http = None
      BY <1>7, <3>1, ApplyCore, Zenon
    <3>2. CASE c.http # None
      BY <1>7, <3>2, ApplyCore, Zenon
    <3>. QED
      BY <3>1, <3>2
  <2>2. y = [d EXCEPT !.http = Trusting(d.http)]
    <3>1. CASE d.http = None
      BY <1>7, <3>1, ApplyCore, Zenon
    <3>2. CASE d.http # None
      BY <1>7, <3>2, ApplyCore, Zenon
    <3>. QED
      BY <3>1, <3>2
  <2>3. SameCore(c, d) => Trusting(c.http) = Trusting(d.http)
    BY Zenon DEF SameCore
  <2>. HIDE DEF Trusting
  <2>. QED
    BY <1>0, <2>1, <2>2, <2>3, Zenon
<1>. QED
  BY <1>2, <1>3, <1>4, <1>5, <1>6, <1>7, OptionsAssumption, Zenon DEF Deferred

\* The clients that the options make one after the other.
Applying(f, s) ==
  /\ f \in [0 .. Len(s) -> Clients] /\ f[0] = Unset
  /\ \A k \in Nat : k + 1 <= Len(s) => f[k + 1] = Apply(f[k], s[k + 1])

\* FoldLeft passes through them.
LEMMA Applied ==
  ASSUME NEW s \in Seq(Options)
  PROVE  \E f : Applying(f, s) /\ FoldLeft(Apply, Unset, s) = f[Len(s)]
<1> DEFINE n == Len(s)
           G == [x \in (1 .. n) \X Clients |-> Apply(x[2], s[x[1]])]
<1>1. n \in Nat /\ DOMAIN s = 1 .. n
  BY LenProperties
<1>2. \A i \in 1 .. n : s[i] \in Options
  BY ElementOfSeq
<1>3. Unset \in Clients
  BY DEF Unset, Clients, Timeouts, Retries, RecordDirs
<1>4. G \in Steps(n, Clients)
  <2>1. ASSUME NEW x \in (1 .. n) \X Clients PROVE Apply(x[2], s[x[1]]) \in Clients
    BY <1>2, ApplyTyped
  <2>. QED
    BY <2>1 DEF Steps
<1>5. \A i \in 1 .. n, a \in Clients : G[<<i, a>>] = Apply(a, s[i])
  OBVIOUS
<1> DEFINE iter[t \in SUBSET DOMAIN s] ==
             IF t = {} THEN Unset ELSE Apply(iter[t \ {Max(t)}], s[Max(t)])
<1>6. FoldLeft(Apply, Unset, s) = iter[DOMAIN s]
  BY Zenon DEF FoldLeft, MapThenFoldSet
<1>. HIDE DEF n, G
<1>7. PICK g : Peels(g, n, Clients, Unset, G)
  BY <1>1, <1>3, <1>4, AlongSets
<1>8. g = [t \in SUBSET DOMAIN s |->
             IF t = {} THEN Unset ELSE Apply(g[t \ {Max(t)}], s[Max(t)])]
  <2>1. g \in [SUBSET (1 .. n) -> Clients] /\ g[{}] = Unset
    BY <1>7 DEF Peels
  <2>2. ASSUME NEW t \in SUBSET (1 .. n), t # {}
        PROVE  g[t] = Apply(g[t \ {Max(t)}], s[Max(t)])
    <3>1. Max(t) \in t
      BY <1>1, <2>2, Greatest
    <3>2. Max(t) \in 1 .. n /\ t \ {Max(t)} \in SUBSET (1 .. n)
      BY <3>1
    <3>3. g[t \ {Max(t)}] \in Clients
      BY <2>1, <3>2
    <3>4. g[t] = G[<<Max(t), g[t \ {Max(t)}]>>]
      BY <1>7, <2>2 DEF Peels
    <3>. QED
      BY <1>5, <3>2, <3>3, <3>4
  <2>. QED
    BY <1>1, <2>1, <2>2
<1>9. iter = [t \in SUBSET DOMAIN s |->
                IF t = {} THEN Unset ELSE Apply(iter[t \ {Max(t)}], s[Max(t)])]
  BY <1>8
<1>. HIDE DEF iter
<1> DEFINE f == [k \in 0 .. n |-> iter[1 .. k]]
<1>10. iter[{}] = Unset
  BY <1>9
<1>11. ASSUME NEW k \in Nat, k + 1 <= n
       PROVE  iter[1 .. k + 1] = Apply(iter[1 .. k], s[k + 1])
  <2>1. PICK t : t = 1 .. k + 1
    OBVIOUS
  <2>2. t \in SUBSET DOMAIN s
    BY <1>1, <1>11, <2>1
  <2>3. t # {} /\ Max(t) = k + 1 /\ t \ {Max(t)} = 1 .. k
    BY <2>1, Topmost
  <2>4. iter[t] = IF t = {} THEN Unset ELSE Apply(iter[t \ {Max(t)}], s[Max(t)])
    BY <1>9, <2>2, Zenon
  <2>. QED
    BY <2>1, <2>3, <2>4, Zenon
<1> DEFINE T == {k \in Nat : k <= n => iter[1 .. k] \in Clients}
<1>12. 1 .. 0 = {}
  OBVIOUS
<1>13. 0 \in T
  BY <1>3, <1>10, <1>12
<1>14. ASSUME NEW k \in Nat, k \in T PROVE k + 1 \in T
  <2> SUFFICES ASSUME k + 1 <= n PROVE iter[1 .. k + 1] \in Clients
    OBVIOUS
  <2>1. k <= n /\ k + 1 \in 1 .. n
    BY <1>1
  <2>2. iter[1 .. k] \in Clients /\ s[k + 1] \in Options
    BY <1>2, <1>14, <2>1
  <2>. QED
    BY <1>11, <2>2, ApplyTyped
<1>15. Nat \subseteq T
  BY <1>13, <1>14, Counted0
<1>16. \A k \in 0 .. n : iter[1 .. k] \in Clients
  BY <1>1, <1>15
<1>17. f \in [0 .. n -> Clients] /\ f[0] = Unset /\ f[n] = iter[DOMAIN s]
  BY <1>1, <1>10, <1>12, <1>16
<1>18. ASSUME NEW k \in Nat, k + 1 <= n PROVE f[k + 1] = Apply(f[k], s[k + 1])
  <2>1. k \in 0 .. n /\ k + 1 \in 0 .. n
    BY <1>1, <1>18
  <2>2. f[k] = iter[1 .. k] /\ f[k + 1] = iter[1 .. k + 1]
    BY <2>1, Zenon
  <2>. QED
    BY <1>11, <1>18, <2>2, Zenon
<1>. HIDE DEF f
<1>. QED
  BY <1>6, <1>17, <1>18, Zenon DEF Applying, n

\* The core is made by the options that leave no wish, in their order ...
LEMMA CoreMade ==
  ASSUME NEW s \in Seq(Options), NEW f, Applying(f, s),
         NEW S, S = {x \in ToSet(s) : x[1] \notin Deferred},
         NEW g, Applying(g, Among(s, S))
  PROVE  SameCore(f[Len(s)], g[Len(Among(s, S))])
<1> PICK q, n, N : q = Among(s, S) /\ n = Len(s) /\ N = Len(q)
  OBVIOUS
<1>1. /\ q \in Seq(Options) /\ N = Count(s, S, n) /\ n \in Nat
      /\ \A k \in 1 .. n : s[k] \in S => q[Count(s, S, k)] = s[k]
  BY Gathered, LenProperties
<1>2. \A i \in 1 .. n : s[i] \in Options /\ s[i] \in ToSet(s)
  BY ElementOfSeq, LenProperties DEF ToSet
<1>3. /\ Count(s, S, 0) = 0
      /\ \A k \in Nat : Count(s, S, k) \in Nat
      /\ \A k \in Nat : Count(s, S, k + 1) = IF s[k + 1] \in S THEN Count(s, S, k) + 1
                                                               ELSE Count(s, S, k)
      /\ \A j, k \in Nat : j <= k => Count(s, S, j) <= Count(s, S, k)
  <2>1. Counts(s, S)
    BY Counting, Zenon
  <2>. QED
    BY <2>1, Zenon DEF Counts
<1>4. /\ f \in [0 .. n -> Clients] /\ f[0] = Unset
      /\ \A k \in Nat : k + 1 <= n => f[k + 1] = Apply(f[k], s[k + 1])
  BY Zenon DEF Applying
<1>5. /\ g \in [0 .. N -> Clients] /\ g[0] = Unset
      /\ \A k \in Nat : k + 1 <= N => g[k + 1] = Apply(g[k], q[k + 1])
  BY Zenon DEF Applying
<1> DEFINE T == {k \in Nat : k <= n => SameCore(f[k], g[Count(s, S, k)])}
<1>6. 0 \in T
  BY <1>3, <1>4, <1>5 DEF SameCore
<1>7. ASSUME NEW k \in Nat, k \in T PROVE k + 1 \in T
  <2> SUFFICES ASSUME k + 1 <= n PROVE SameCore(f[k + 1], g[Count(s, S, k + 1)])
    OBVIOUS
  <2>0. k <= n /\ k \in 0 .. n /\ k + 1 \in 1 .. n
    BY <1>1
  <2> PICK c, d, o, j : c = f[k] /\ j = Count(s, S, k) /\ d = g[j] /\ o = s[k + 1]
    OBVIOUS
  <2>1. SameCore(c, d) /\ f[k + 1] = Apply(c, o) /\ c \in Clients
    BY <1>4, <1>7, <2>0
  <2>2. j \in Nat /\ Count(s, S, k + 1) = IF o \in S THEN j + 1 ELSE j
    BY <1>3
  <2>3. Count(s, S, k + 1) <= N
    BY <1>1, <1>3, <2>0
  <2>4. j \in 0 .. N /\ d \in Clients
    BY <1>1, <1>3, <1>5, <2>0, <2>2, <2>3
  <2>5. o \in Options /\ (o \in S <=> o[1] \notin Deferred)
    BY <1>2, <2>0
  <2>6. CASE o \in S
    <3>1. j + 1 <= N /\ q[j + 1] = o
      BY <1>1, <2>0, <2>2, <2>3, <2>6
    <3>2. g[j + 1] = Apply(d, o)
      BY <1>5, <2>2, <3>1
    <3>. QED
      BY <2>1, <2>2, <2>4, <2>5, <2>6, <3>2, CoreApart
  <2>7. CASE o \notin S
    <3>1. SameCore(Apply(c, o), c)
      BY <2>1, <2>4, <2>5, <2>7, WishApart
    <3>. QED
      BY <2>1, <2>2, <2>7, <3>1 DEF SameCore
  <2>. QED
    BY <2>6, <2>7
<1>. HIDE DEF T
<1>8. n \in T
  BY <1>1, <1>6, <1>7, Counted0
<1>9. n <= n
  BY <1>1
<1>. QED
  BY <1>1, <1>8, <1>9, Zenon DEF T

\* ... and the wishes are left by the others.
LEMMA WishesMade ==
  ASSUME NEW s \in Seq(Options), NEW f, Applying(f, s),
         NEW S, S = {x \in ToSet(s) : x[1] \in Deferred},
         NEW g, Applying(g, Among(s, S))
  PROVE  SameWishes(f[Len(s)], g[Len(Among(s, S))])
<1> PICK q, n, N : q = Among(s, S) /\ n = Len(s) /\ N = Len(q)
  OBVIOUS
<1>1. /\ q \in Seq(Options) /\ N = Count(s, S, n) /\ n \in Nat
      /\ \A k \in 1 .. n : s[k] \in S => q[Count(s, S, k)] = s[k]
  BY Gathered, LenProperties
<1>2. \A i \in 1 .. n : s[i] \in Options /\ s[i] \in ToSet(s)
  BY ElementOfSeq, LenProperties DEF ToSet
<1>3. /\ Count(s, S, 0) = 0
      /\ \A k \in Nat : Count(s, S, k) \in Nat
      /\ \A k \in Nat : Count(s, S, k + 1) = IF s[k + 1] \in S THEN Count(s, S, k) + 1
                                                               ELSE Count(s, S, k)
      /\ \A j, k \in Nat : j <= k => Count(s, S, j) <= Count(s, S, k)
  <2>1. Counts(s, S)
    BY Counting, Zenon
  <2>. QED
    BY <2>1, Zenon DEF Counts
<1>4. /\ f \in [0 .. n -> Clients] /\ f[0] = Unset
      /\ \A k \in Nat : k + 1 <= n => f[k + 1] = Apply(f[k], s[k + 1])
  BY Zenon DEF Applying
<1>5. /\ g \in [0 .. N -> Clients] /\ g[0] = Unset
      /\ \A k \in Nat : k + 1 <= N => g[k + 1] = Apply(g[k], q[k + 1])
  BY Zenon DEF Applying
<1> DEFINE T == {k \in Nat : k <= n => SameWishes(f[k], g[Count(s, S, k)])}
<1>6. 0 \in T
  BY <1>3, <1>4, <1>5 DEF SameWishes
<1>7. ASSUME NEW k \in Nat, k \in T PROVE k + 1 \in T
  <2> SUFFICES ASSUME k + 1 <= n PROVE SameWishes(f[k + 1], g[Count(s, S, k + 1)])
    OBVIOUS
  <2>0. k <= n /\ k \in 0 .. n /\ k + 1 \in 1 .. n
    BY <1>1
  <2> PICK c, d, o, j : c = f[k] /\ j = Count(s, S, k) /\ d = g[j] /\ o = s[k + 1]
    OBVIOUS
  <2>1. SameWishes(c, d) /\ f[k + 1] = Apply(c, o) /\ c \in Clients
    BY <1>4, <1>7, <2>0
  <2>2. j \in Nat /\ Count(s, S, k + 1) = IF o \in S THEN j + 1 ELSE j
    BY <1>3
  <2>3. Count(s, S, k + 1) <= N
    BY <1>1, <1>3, <2>0
  <2>4. j \in 0 .. N /\ d \in Clients
    BY <1>1, <1>3, <1>5, <2>0, <2>2, <2>3
  <2>5. o \in Options /\ (o \in S <=> o[1] \in Deferred)
    BY <1>2, <2>0
  <2>6. CASE o \in S
    <3>1. j + 1 <= N /\ q[j + 1] = o
      BY <1>1, <2>0, <2>2, <2>3, <2>6
    <3>2. g[j + 1] = Apply(d, o)
      BY <1>5, <2>2, <3>1
    <3>. QED
      BY <2>1, <2>2, <2>4, <2>5, <2>6, <3>2, WishApart
  <2>7. CASE o \notin S
    <3>1. SameWishes(Apply(c, o), c)
      BY <2>1, <2>4, <2>5, <2>7, CoreApart
    <3>. QED
      BY <2>1, <2>2, <2>7, <3>1 DEF SameWishes
  <2>. QED
    BY <2>6, <2>7
<1>. HIDE DEF T
<1>8. n \in T
  BY <1>1, <1>6, <1>7, Counted0
<1>9. n <= n
  BY <1>1
<1>. QED
  BY <1>1, <1>8, <1>9, Zenon DEF T

\* Clients are alike in a part as equals are.
LEMMA SameTransitive ==
  /\ \A c, d, e : (SameCore(c, d) /\ SameCore(d, e)) => SameCore(c, e)
  /\ \A c, d, e : (SameWishes(c, d) /\ SameWishes(d, e)) => SameWishes(c, e)
  /\ \A c, d : (SameCore(c, d) => SameCore(d, c)) /\ (SameWishes(c, d) => SameWishes(d, c))
  /\ \A c : SameCore(c, c) /\ SameWishes(c, c)
  /\ \A c, d \in Clients : (SameCore(c, d) /\ SameWishes(c, d)) => c = d
<1>1. \A c, d, e : (SameCore(c, d) /\ SameCore(d, e)) => SameCore(c, e)
  BY Zenon DEF SameCore
<1>2. \A c, d, e : (SameWishes(c, d) /\ SameWishes(d, e)) => SameWishes(c, e)
  BY Zenon DEF SameWishes
<1>3. \A c, d : (SameCore(c, d) => SameCore(d, c)) /\ (SameWishes(c, d) => SameWishes(d, c))
  BY Zenon DEF SameCore, SameWishes
<1>4. \A c : SameCore(c, c) /\ SameWishes(c, c)
  BY Zenon DEF SameCore, SameWishes
<1>5. \A c, d \in Clients : (SameCore(c, d) /\ SameWishes(c, d)) => c = d
  BY DEF SameCore, SameWishes, Clients
<1>. QED
  BY <1>1, <1>2, <1>3, <1>4, <1>5

\* The options q that leave no wish, then the options p that do.
LEMMA AppliedInTurn ==
  ASSUME NEW q \in Seq(Options), \A x \in ToSet(q) : x[1] \notin Deferred,
         NEW p \in Seq(Options), \A x \in ToSet(p) : x[1] \in Deferred,
         NEW g, Applying(g, q), NEW h, Applying(h, p), NEW e, Applying(e, q \o p)
  PROVE  SameCore(e[Len(q \o p)], g[Len(q)]) /\ SameWishes(e[Len(q \o p)], h[Len(p)])
<1> PICK r, N, M : r = q \o p /\ N = Len(q) /\ M = Len(p)
  OBVIOUS
<1>1. N \in Nat /\ M \in Nat /\ DOMAIN q = 1 .. N /\ DOMAIN p = 1 .. M
  BY LenProperties
<1>2. /\ r \in Seq(Options) /\ Len(r) = N + M
      /\ \A i \in 1 .. N + M : r[i] = IF i <= N THEN q[i] ELSE p[i - N]
  BY ConcatProperties
<1>3. /\ \A i \in 1 .. N : q[i] \in Options /\ q[i][1] \notin Deferred
      /\ \A i \in 1 .. M : p[i] \in Options /\ p[i][1] \in Deferred
  BY <1>1, ElementOfSeq DEF ToSet
<1>4. /\ \A k \in 0 .. N : g[k] \in Clients
      /\ g[0] = Unset
      /\ \A k \in Nat : k + 1 <= N => g[k + 1] = Apply(g[k], q[k + 1])
  BY DEF Applying
<1>5. /\ \A k \in 0 .. M : h[k] \in Clients
      /\ h[0] = Unset
      /\ \A k \in Nat : k + 1 <= M => h[k + 1] = Apply(h[k], p[k + 1])
  BY DEF Applying
<1>6. /\ \A k \in 0 .. N + M : e[k] \in Clients
      /\ e[0] = Unset
      /\ \A k \in Nat : k + 1 <= N + M => e[k + 1] = Apply(e[k], r[k + 1])
  BY <1>2 DEF Applying
<1> DEFINE T == {k \in Nat : k <= N => SameCore(e[k], g[k]) /\ SameWishes(e[k], Unset)}
<1>7. 0 \in T
  BY <1>4, <1>6, SameTransitive
<1>8. ASSUME NEW k \in Nat, k \in T PROVE k + 1 \in T
  <2> SUFFICES ASSUME k + 1 <= N
               PROVE  SameCore(e[k + 1], g[k + 1]) /\ SameWishes(e[k + 1], Unset)
    OBVIOUS
  <2>0. k <= N /\ k \in 0 .. N /\ k \in 0 .. N + M /\ k + 1 \in 1 .. N /\ k + 1 \in 1 .. N + M
        /\ k + 1 <= N + M
    BY <1>1
  <2> PICK c, d, o : c = e[k] /\ d = g[k] /\ o = q[k + 1]
    OBVIOUS
  <2>1. c \in Clients /\ d \in Clients /\ o \in Options /\ o[1] \notin Deferred
    BY <1>3, <1>4, <1>6, <2>0
  <2>2. r[k + 1] = o
    BY <1>2, <2>0
  <2>3. e[k + 1] = Apply(c, o) /\ g[k + 1] = Apply(d, o)
    BY <1>4, <1>6, <2>0, <2>2
  <2>4. SameCore(c, d) /\ SameWishes(c, Unset)
    BY <1>8, <2>0
  <2>5. SameCore(Apply(c, o), Apply(d, o)) /\ SameWishes(Apply(c, o), c)
    BY <2>1, <2>4, CoreApart
  <2>6. SameWishes(Apply(c, o), Unset)
    BY <2>4, <2>5, SameTransitive, Zenon
  <2>. QED
    BY <2>3, <2>5, <2>6, Zenon
<1>. HIDE DEF T
<1>9. N \in T
  BY <1>1, <1>7, <1>8, Counted0
<1>10. SameCore(e[N], g[N]) /\ SameWishes(e[N], Unset)
  BY <1>1, <1>9 DEF T
<1> DEFINE U == {k \in Nat : k <= M => SameCore(e[N + k], g[N]) /\ SameWishes(e[N + k], h[k])}
<1>11. 0 \in U
  <2>1. N + 0 = N
    BY <1>1
  <2>. QED
    BY <1>5, <1>10, <2>1
<1>12. ASSUME NEW k \in Nat, k \in U PROVE k + 1 \in U
  <2> SUFFICES ASSUME k + 1 <= M
               PROVE  SameCore(e[N + (k + 1)], g[N]) /\ SameWishes(e[N + (k + 1)], h[k + 1])
    OBVIOUS
  <2>0. /\ k <= M /\ k \in 0 .. M /\ N + k \in Nat /\ N + k \in 0 .. N + M /\ k + 1 \in 1 .. M
        /\ (N + k) + 1 = N + (k + 1) /\ (N + k) + 1 <= N + M /\ (N + k) + 1 \in 1 .. N + M
        /\ ~ ((N + k) + 1 <= N) /\ ((N + k) + 1) - N = k + 1
    BY <1>1
  <2> PICK c, d, o : c = e[N + k] /\ d = h[k] /\ o = p[k + 1]
    OBVIOUS
  <2>1. c \in Clients /\ d \in Clients /\ o \in Options /\ o[1] \in Deferred
    BY <1>3, <1>5, <1>6, <2>0
  <2>2. r[(N + k) + 1] = o
    BY <1>2, <2>0
  <2>3. e[N + (k + 1)] = Apply(c, o) /\ h[k + 1] = Apply(d, o)
    BY <1>5, <1>6, <2>0, <2>2
  <2>4. SameCore(c, g[N]) /\ SameWishes(c, d)
    BY <1>12, <2>0
  <2>5. SameCore(Apply(c, o), c) /\ SameWishes(Apply(c, o), Apply(d, o))
    BY <2>1, <2>4, WishApart
  <2>. QED
    BY <2>3, <2>4, <2>5, SameTransitive, Zenon
<1>. HIDE DEF U
<1>13. M \in U
  BY <1>1, <1>11, <1>12, Counted0
<1>14. SameCore(e[N + M], g[N]) /\ SameWishes(e[N + M], h[M])
  BY <1>1, <1>13 DEF U
<1>. QED
  BY <1>2, <1>14

\* Wishes may come anywhere among the options.
LEMMA SameInTurn ==
  ASSUME NEW s \in Seq(Options), NEW endpoint
  PROVE  WishesMayComeAnywhere(endpoint, s, NewClient(endpoint, s))
<1> PICK S, R : /\ S = {x \in ToSet(s) : x[1] \notin Deferred}
                /\ R = {x \in ToSet(s) : x[1] \in Deferred}
  OBVIOUS
<1> PICK q, p, t : q = Among(s, S) /\ p = Among(s, R) /\ t = q \o p
  OBVIOUS
<1>1. /\ q \in Seq(Options) /\ p \in Seq(Options)
      /\ ToSet(q) = ToSet(s) \cap S /\ ToSet(p) = ToSet(s) \cap R
  BY Gathered
<1>2. t \in Seq(Options)
  BY <1>1, ConcatProperties
<1>3. PICK f : Applying(f, s) /\ FoldLeft(Apply, Unset, s) = f[Len(s)]
  BY Applied
<1>4. PICK g : Applying(g, q)
  BY <1>1, Applied
<1>5. PICK h : Applying(h, p)
  BY <1>1, Applied
<1>6. PICK e : Applying(e, t) /\ FoldLeft(Apply, Unset, t) = e[Len(t)]
  BY <1>2, Applied
<1>7. SameCore(f[Len(s)], g[Len(q)]) /\ SameWishes(f[Len(s)], h[Len(p)])
  BY <1>3, <1>4, <1>5, CoreMade, WishesMade
<1>8. SameCore(e[Len(t)], g[Len(q)]) /\ SameWishes(e[Len(t)], h[Len(p)])
  BY <1>1, <1>4, <1>5, <1>6, AppliedInTurn
<1>9. f[Len(s)] \in Clients /\ e[Len(t)] \in Clients
  <2>1. Len(s) \in 0 .. Len(s) /\ Len(t) \in 0 .. Len(t)
    BY <1>2, LenProperties
  <2>2. f \in [0 .. Len(s) -> Clients] /\ e \in [0 .. Len(t) -> Clients]
    BY <1>3, <1>6, Zenon DEF Applying
  <2>. QED
    BY <2>1, <2>2
<1>10. SameCore(f[Len(s)], e[Len(t)]) /\ SameWishes(f[Len(s)], e[Len(t)])
  BY <1>7, <1>8, SameTransitive, Zenon
<1>11. f[Len(s)] = e[Len(t)]
  BY <1>9, <1>10, SameTransitive, Zenon
<1>12. FoldLeft(Apply, Unset, s) = FoldLeft(Apply, Unset, t)
  BY <1>3, <1>6, <1>11, Zenon
<1>13. NewClient(endpoint, s) = NewClient(endpoint, t)
  BY <1>12, Zenon DEF NewClient
<1>. QED
  BY <1>13, Zenon DEF WishesMayComeAnywhere

Asked(s, k, name) == \E i \in 1 .. k : s[i][1] = name

\* What an option replaces the HTTP client by.
Made(o) ==
  IF o[1] = "WithHTTPClient" THEN CustomHTTPClient(o[2])
  ELSE IF o[1] = "WithNTLM" THEN NewNTLMTransport ELSE NewCertTransport(TRUE, FALSE)

\* What a CA certificate makes of it.
Trusting(h) ==
  IF h = None THEN NewCertTransport(FALSE, TRUE) ELSE AddCACertToTransport(h)

\* What options without an error make of a client.
LEMMA AppliedRight ==
  ASSUME NEW c \in Clients, NEW o \in Options, NEW d, d = Apply(c, o), d.optErr = "nil"
  PROVE  /\ c.optErr = "nil"
         /\ Replaces(o) => d.http = Made(o)
         /\ o[1] = "WithCACert" => d.http = Trusting(c.http)
         /\ (~Replaces(o) /\ o[1] # "WithCACert") => d.http = c.http
         /\ d.insecure <=> (c.insecure \/ o[1] = "WithInsecureSkipVerify")
         /\ d.recordDir = IF o[1] = "WithRecorder" THEN o[2] ELSE c.recordDir
<1> PICK h : h = c.http
  OBVIOUS
<1>0. /\ o = <<o[1], o[2]>>
      /\ o[1] \in {"WithHTTPClient", "WithNTLM", "WithCertificate", "WithCACert", "WithTimeout",
                   "WithRetry", "WithInsecureSkipVerify", "WithRecorder"}
      /\ o[1] = "WithHTTPClient" => o[2] \in {"http", "other", "nil"}
      /\ o[1] = "WithNTLM" => o[2] = TRUE
      /\ o[1] \in {"WithCertificate", "WithCACert"} => o[2] \in BOOLEAN
  BY Zenon, OptionsAssumption
<1>1. Replaces(o) <=> (o[1] \in {"WithNTLM", "WithHTTPClient"} \/ (o[1] = "WithCertificate" /\ o[2]))
  BY Zenon DEF Replaces
<1>2. ASSUME NEW g, d = [c EXCEPT !.http = g]
      PROVE  /\ c.optErr = "nil" /\ d.http = g
             /\ d.insecure = c.insecure /\ d.recordDir = c.recordDir
  BY <1>2 DEF Clients
<1>3. CASE o[1] = "WithHTTPClient"
  <2>1. d = [c EXCEPT !.http = CustomHTTPClient(o[2])]
    BY <1>3, ApplyCore, Zenon
  <2>2. Made(o) = CustomHTTPClient(o[2])
    BY <1>3 DEF Made
  <2>. QED
    BY <1>1, <1>2, <1>3, <2>1, <2>2
<1>4. CASE o[1] = "WithNTLM"
  <2>1. d = [c EXCEPT !.http = NewNTLMTransport]
    BY <1>4, ApplyCore, Zenon
  <2>2. Made(o) = NewNTLMTransport
    BY <1>4 DEF Made
  <2>. QED
    BY <1>1, <1>2, <1>4, <2>1, <2>2
<1>5. CASE o[1] = "WithCertificate" /\ o[2]
  <2>1. d = [c EXCEPT !.http = NewCertTransport(TRUE, FALSE)]
    BY <1>5, ApplyCore, Zenon
  <2>2. Made(o) = NewCertTransport(TRUE, FALSE)
    BY <1>5 DEF Made
  <2>. QED
    BY <1>1, <1>2, <1>5, <2>1, <2>2
<1>6. CASE o[1] = "WithCertificate" /\ ~o[2]
  <2>1. d = [c EXCEPT !.optErr = "certificate"]
    BY <1>6, ApplyCore, Zenon
  <2>. QED
    BY <2>1 DEF Clients
<1>7. CASE o[1] = "WithCACert" /\ ~o[2]
  <2>1. d = [c EXCEPT !.optErr = "ca"]
    BY <1>7, ApplyCore, Zenon
  <2>. QED
    BY <2>1 DEF Clients
<1>8. CASE o[1] = "WithCACert" /\ o[2]
  <2>1. d = [c EXCEPT !.http = Trusting(h)]
    <3>1. CASE h = None
      <4>1. Trusting(h) = NewCertTransport(FALSE, TRUE)
        BY <3>1 DEF Trusting
      <4>2. d = [c EXCEPT !.http = NewCertTransport(FALSE, TRUE)]
        <5>1. o[1] = "WithCACert" /\ o[2] /\ c.http = None
          BY <1>8, <3>1, Zenon
        <5>. QED
          BY <5>1, ApplyCore, Zenon
      <4>. QED
        BY <4>1, <4>2, Zenon
    <3>2. CASE h # None
      BY <1>8, <3>2, ApplyCore, Zenon DEF Trusting
    <3>. QED
      BY <3>1, <3>2
  <2>. QED
    BY <1>1, <1>2, <1>8, <2>1
<1>9. CASE o[1] = "WithTimeout"
  <2>1. d = [c EXCEPT !.timeout = o[2]]
    BY <1>9, ApplyWish, Zenon
  <2>. QED
    BY <1>1, <1>9, <2>1 DEF Clients
<1>10. CASE o[1] = "WithRetry"
  <2>1. d = [c EXCEPT !.retries = o[2]]
    BY <1>10, ApplyWish, Zenon
  <2>. QED
    BY <1>1, <1>10, <2>1 DEF Clients
<1>11. CASE o[1] = "WithRecorder"
  <2>1. d = [c EXCEPT !.recordDir = o[2]]
    BY <1>11, ApplyWish, Zenon
  <2>. QED
    BY <1>1, <1>11, <2>1 DEF Clients
<1>12. CASE o[1] = "WithInsecureSkipVerify"
  <2>1. d = [c EXCEPT !.insecure = TRUE]
    BY <1>12, ApplyWish, Zenon
  <2>. QED
    BY <1>1, <1>12, <2>1 DEF Clients
<1>. QED
  BY <1>0, <1>3, <1>4, <1>5, <1>6, <1>7, <1>8, <1>9, <1>10, <1>11, <1>12

Bare(s, z) ==
  z = 0 \/ s[z][1] = "WithCertificate" \/ (s[z][1] = "WithHTTPClient" /\ s[z][2] = "http")

\* A CA was added after the z-th option, which was the last to replace the client.
Added(s, k, z) == \E i \in 1 .. k : i > z /\ s[i][1] = "WithCACert"

FinalAt(s, k, z) ==
  /\ z \in 0 .. k /\ (z # 0 => Replaces(s[z]))
  /\ \A i \in 1 .. k : i > z => ~Replaces(s[i])

\* What the HTTP client is then.
HTTPBuilt(s, k, z, h) ==
  IF z = 0 /\ ~Added(s, k, z) THEN h = None
  ELSE /\ h \in HTTPClients /\ ~h.recorder /\ ~h.skip
       /\ h.negotiator <=> (z # 0 /\ s[z][1] = "WithNTLM")
       /\ h.base = IF z # 0 /\ s[z][1] = "WithHTTPClient" THEN s[z][2] ELSE "http"
       /\ h.ca <=> (Added(s, k, z) /\ Bare(s, z))
       /\ h.cert <=> (z # 0 /\ s[z][1] = "WithCertificate")

\* What the HTTP client is that an option replaces it by.
LEMMA MadeRight ==
  ASSUME NEW o \in Options, Replaces(o), NEW h, h = Made(o)
  PROVE  /\ h \in HTTPClients /\ ~h.recorder /\ ~h.skip /\ ~h.ca
         /\ h.negotiator <=> o[1] = "WithNTLM"
         /\ h.base = IF o[1] = "WithHTTPClient" THEN o[2] ELSE "http"
         /\ h.cert <=> o[1] = "WithCertificate"
<1>1. /\ o[1] \in {"WithHTTPClient", "WithNTLM", "WithCertificate"}
      /\ o[1] = "WithHTTPClient" => o[2] \in {"http", "other", "nil"}
  BY Zenon, OptionsAssumption DEF Replaces
<1>2. CASE o[1] = "WithHTTPClient"
  <2>1. h = CustomHTTPClient(o[2])
    BY <1>2 DEF Made
  <2>2. h \in HTTPClients
    BY <1>1, <1>2, <2>1, MadeClients, Zenon
  <2>. QED
    BY <1>1, <1>2, <2>1, <2>2 DEF CustomHTTPClient, DefaultHTTPClient
<1>3. CASE o[1] = "WithNTLM"
  <2>1. h = NewNTLMTransport
    BY <1>3 DEF Made
  <2>. QED
    BY <1>3, <2>1, MadeClients DEF NewNTLMTransport, DefaultHTTPClient
<1>4. CASE o[1] = "WithCertificate"
  <2>1. h = NewCertTransport(TRUE, FALSE)
    BY <1>4 DEF Made
  <2>. QED
    BY <1>4, <2>1, MadeClients DEF NewCertTransport, DefaultHTTPClient
<1>. QED
  BY <1>1, <1>2, <1>3, <1>4

\* What a CA changes in an HTTP client.
LEMMA TrustingRight ==
  ASSUME NEW h \in HTTPClients \cup {None}, NEW t, t = Trusting(h)
  PROVE  /\ t \in HTTPClients
         /\ h = None => /\ ~t.recorder /\ ~t.skip /\ ~t.negotiator /\ t.base = "http"
                        /\ t.ca /\ ~t.cert
         /\ h # None => /\ t.recorder = h.recorder /\ t.skip = h.skip
                        /\ t.negotiator = h.negotiator /\ t.base = h.base /\ t.cert = h.cert
                        /\ t.ca <=> (h.ca \/ (h.base = "http" /\ ~h.negotiator))
<1>1. CASE h = None
  <2>1. t = NewCertTransport(FALSE, TRUE)
    BY <1>1 DEF Trusting
  <2>2. t \in HTTPClients
    BY <2>1, MadeClients
  <2>. QED
    BY <1>1, <2>1, <2>2 DEF NewCertTransport, DefaultHTTPClient
<1>2. CASE h # None
  <2>1. h \in HTTPClients /\ t = AddCACertToTransport(h)
    BY <1>2, Zenon DEF Trusting
  <2>2. t \in HTTPClients
    BY <2>1, MadeClients
  <2>3. CASE h.base = "http" /\ ~h.negotiator
    <3>1. t = [h EXCEPT !.ca = TRUE]
      BY <2>1, <2>3 DEF AddCACertToTransport
    <3>. QED
      BY <1>2, <2>1, <2>2, <2>3, <3>1 DEF HTTPClients
  <2>4. CASE ~(h.base = "http" /\ ~h.negotiator)
    <3>1. t = h
      BY <2>1, <2>4 DEF AddCACertToTransport
    <3>. QED
      BY <1>2, <2>1, <2>2, <2>4, <3>1 DEF HTTPClients
  <2>. QED
    BY <2>3, <2>4
<1>. QED
  BY <1>1, <1>2

\* One more option that replaces the client, ...
LEMMA Replaced1 ==
  ASSUME NEW s \in Seq(Options), NEW k \in Nat, k + 1 <= Len(s), Replaces(s[k + 1])
  PROVE  FinalAt(s, k + 1, k + 1) /\ HTTPBuilt(s, k + 1, k + 1, Made(s[k + 1]))
<1> PICK o, z, h : o = s[k + 1] /\ z = k + 1 /\ h = Made(o)
  OBVIOUS
<1>1. o \in Options
  BY ElementOfSeq, LenProperties
<1>2. /\ h \in HTTPClients /\ ~h.recorder /\ ~h.skip /\ ~h.ca
      /\ h.negotiator <=> o[1] = "WithNTLM"
      /\ h.base = IF o[1] = "WithHTTPClient" THEN o[2] ELSE "http"
      /\ h.cert <=> o[1] = "WithCertificate"
  BY <1>1, MadeRight
<1>3. FinalAt(s, z, z)
  BY DEF FinalAt
<1>4. ~Added(s, z, z)
  BY DEF Added
<1>5. HTTPBuilt(s, z, z, h)
  <2>1. z # 0 /\ s[z] = o
    OBVIOUS
  <2>. QED
    BY <1>2, <1>4, <2>1 DEF HTTPBuilt
<1>. QED
  BY <1>3, <1>5

\* ... one that adds a CA to it, ...
LEMMA Trusted1 ==
  ASSUME NEW s \in Seq(Options), NEW k \in Nat, k + 1 <= Len(s), s[k + 1][1] = "WithCACert",
         NEW z, FinalAt(s, k, z), NEW h \in HTTPClients \cup {None}, HTTPBuilt(s, k, z, h)
  PROVE  FinalAt(s, k + 1, z) /\ HTTPBuilt(s, k + 1, z, Trusting(h))
<1> PICK n, t : n = k + 1 /\ t = Trusting(h)
  OBVIOUS
<1>0. /\ t \in HTTPClients
      /\ h = None => /\ ~t.recorder /\ ~t.skip /\ ~t.negotiator /\ t.base = "http"
                     /\ t.ca /\ ~t.cert
      /\ h # None => /\ t.recorder = h.recorder /\ t.skip = h.skip
                     /\ t.negotiator = h.negotiator /\ t.base = h.base /\ t.cert = h.cert
                     /\ t.ca <=> (h.ca \/ (h.base = "http" /\ ~h.negotiator))
  BY TrustingRight
<1>1. n \in Nat /\ n > k /\ z \in Nat /\ z <= k /\ \A i \in 1 .. n : i \in 1 .. k \/ i = n
  BY DEF FinalAt
<1>2. ~Replaces(s[n])
  <2>1. s[n][1] = "WithCACert"
    OBVIOUS
  <2>. QED
    BY <2>1 DEF Replaces
<1>3. FinalAt(s, n, z)
  BY <1>1, <1>2 DEF FinalAt
<1>4. Added(s, n, z)
  BY <1>1 DEF Added
<1>5. z # 0 => z \in 1 .. Len(s) /\ Replaces(s[z]) /\ s[z] \in Options
  <2> SUFFICES ASSUME z # 0 PROVE z \in 1 .. Len(s) /\ Replaces(s[z]) /\ s[z] \in Options
    OBVIOUS
  <2>1. z \in 1 .. Len(s)
    BY <1>1, LenProperties
  <2>. QED
    BY <2>1, ElementOfSeq DEF FinalAt
<1>6. CASE h = None
  <2>1. z = 0
    BY <1>6, MadeClients DEF HTTPBuilt
  <2>. QED
    BY <1>0, <1>3, <1>4, <1>6, <2>1 DEF HTTPBuilt, Bare
<1>7. CASE h # None
  <2>1. /\ h \in HTTPClients /\ ~h.recorder /\ ~h.skip
        /\ h.negotiator <=> (z # 0 /\ s[z][1] = "WithNTLM")
        /\ h.base = IF z # 0 /\ s[z][1] = "WithHTTPClient" THEN s[z][2] ELSE "http"
        /\ h.ca <=> (Added(s, k, z) /\ Bare(s, z))
        /\ h.cert <=> (z # 0 /\ s[z][1] = "WithCertificate")
    BY <1>7, Zenon DEF HTTPBuilt
  <2>2. z # 0 => s[z][1] \in {"WithNTLM", "WithHTTPClient", "WithCertificate"}
    BY <1>5, Zenon DEF Replaces
  <2>3. (h.base = "http" /\ ~h.negotiator) <=> Bare(s, z)
    BY <2>1, <2>2 DEF Bare
  <2>4. t.ca <=> Bare(s, z)
    BY <1>0, <1>7, <2>1, <2>3
  <2>. QED
    BY <1>0, <1>3, <1>4, <1>7, <2>1, <2>4 DEF HTTPBuilt
<1>. QED
  BY <1>6, <1>7

\* ... and any other.
LEMMA Unchanged1 ==
  ASSUME NEW s \in Seq(Options), NEW k \in Nat, k + 1 <= Len(s), s[k + 1][1] # "WithCACert",
         ~Replaces(s[k + 1]), NEW z, FinalAt(s, k, z), NEW h, HTTPBuilt(s, k, z, h)
  PROVE  FinalAt(s, k + 1, z) /\ HTTPBuilt(s, k + 1, z, h)
<1> PICK n : n = k + 1
  OBVIOUS
<1>1. n \in Nat /\ n > k /\ z \in Nat /\ z <= k /\ \A i \in 1 .. n : i \in 1 .. k \/ i = n
  BY DEF FinalAt
<1>2. FinalAt(s, n, z)
  BY <1>1 DEF FinalAt
<1>3. Added(s, n, z) <=> Added(s, k, z)
  BY <1>1 DEF Added
<1>. QED
  BY <1>2, <1>3, Zenon DEF HTTPBuilt

\* The i-th of the first k options is the last that asks for recordings.
LastRecorder(s, k, i) ==
  /\ i \in 1 .. k /\ s[i][1] = "WithRecorder"
  /\ \A j \in 1 .. k : j > i => s[j][1] # "WithRecorder"

\* dir is what it asks for, or there is none.
DirAsked(s, k, dir) ==
  \/ dir = "none" /\ ~Asked(s, k, "WithRecorder")
  \/ \E i : LastRecorder(s, k, i) /\ s[i][2] = dir

\* One option more.
LEMMA DirNext ==
  ASSUME NEW s, NEW k \in Nat, NEW dir, DirAsked(s, k, dir),
         NEW e, e = IF s[k + 1][1] = "WithRecorder" THEN s[k + 1][2] ELSE dir
  PROVE  DirAsked(s, k + 1, e)
<1>1. CASE s[k + 1][1] = "WithRecorder"
  <2>1. LastRecorder(s, k + 1, k + 1)
    BY <1>1 DEF LastRecorder
  <2>2. s[k + 1][2] = e
    BY <1>1
  <2>. QED
    BY <2>1, <2>2, Zenon DEF DirAsked
<1>2. CASE s[k + 1][1] # "WithRecorder"
  <2>0. e = dir
    BY <1>2
  <2>1. CASE dir = "none" /\ ~Asked(s, k, "WithRecorder")
    <3>1. ~Asked(s, k + 1, "WithRecorder")
      BY <1>2, <2>1 DEF Asked
    <3>. QED
      BY <2>0, <2>1, <3>1, Zenon DEF DirAsked
  <2>2. CASE \E i : LastRecorder(s, k, i) /\ s[i][2] = dir
    <3>1. PICK i : LastRecorder(s, k, i) /\ s[i][2] = dir
      BY <2>2
    <3>2. LastRecorder(s, k + 1, i)
      BY <1>2, <3>1 DEF LastRecorder
    <3>. QED
      BY <2>0, <3>1, <3>2, Zenon DEF DirAsked
  <2>. QED
    BY <2>1, <2>2, Zenon DEF DirAsked
<1>. QED
  BY <1>1, <1>2

\* There is a directory exactly if the last that asks for recordings names one.
LEMMA DirGiven ==
  ASSUME NEW s, NEW k \in Nat, NEW dir, DirAsked(s, k, dir)
  PROVE  dir # "none" <=> \E i : LastRecorder(s, k, i) /\ s[i][2] # "none"
<1>1. CASE dir = "none" /\ ~Asked(s, k, "WithRecorder")
  <2>1. \A i : ~LastRecorder(s, k, i)
    BY <1>1, Zenon DEF LastRecorder, Asked
  <2>. QED
    BY <1>1, <2>1, Zenon
<1>2. CASE \E i : LastRecorder(s, k, i) /\ s[i][2] = dir
  <2>1. PICK i : LastRecorder(s, k, i) /\ s[i][2] = dir
    BY <1>2
  <2>2. ASSUME NEW j, LastRecorder(s, k, j) PROVE j = i
    BY <2>1, <2>2 DEF LastRecorder
  <2>. QED
    BY <2>1, <2>2, Zenon
<1>. QED
  BY <1>1, <1>2, Zenon DEF DirAsked

\* What is known of a client without an error after k options.
Built(s, k, c) ==
  c.optErr = "nil" =>
    /\ \E z : FinalAt(s, k, z) /\ HTTPBuilt(s, k, z, c.http)
    /\ c.insecure <=> Asked(s, k, "WithInsecureSkipVerify")
    /\ DirAsked(s, k, c.recordDir)

\* One more option is asked for or not.
LEMMA AskedNext ==
  ASSUME NEW s, NEW k \in Nat, NEW name
  PROVE  Asked(s, k + 1, name) <=> (Asked(s, k, name) \/ s[k + 1][1] = name)
BY DEF Asked

\* Built holds of one option more.
LEMMA BuiltNext ==
  ASSUME NEW s \in Seq(Options), NEW k \in Nat, k + 1 <= Len(s),
         NEW c \in Clients, Built(s, k, c)
  PROVE  Built(s, k + 1, Apply(c, s[k + 1]))
<1> PICK o, d : o = s[k + 1] /\ d = Apply(c, o)
  OBVIOUS
<1> SUFFICES ASSUME d.optErr = "nil" PROVE Built(s, k + 1, d)
  BY Zenon DEF Built
<1>1. o \in Options
  BY ElementOfSeq, LenProperties
<1>2. /\ c.optErr = "nil"
      /\ Replaces(o) => d.http = Made(o)
      /\ o[1] = "WithCACert" => d.http = Trusting(c.http)
      /\ (~Replaces(o) /\ o[1] # "WithCACert") => d.http = c.http
      /\ d.insecure <=> (c.insecure \/ o[1] = "WithInsecureSkipVerify")
      /\ d.recordDir = IF o[1] = "WithRecorder" THEN o[2] ELSE c.recordDir
  BY <1>1, AppliedRight
<1>3. PICK z : FinalAt(s, k, z) /\ HTTPBuilt(s, k, z, c.http)
  BY <1>2, Zenon DEF Built
<1>4. c.http \in HTTPClients \cup {None}
  BY DEF Clients
<1>5. \E y : FinalAt(s, k + 1, y) /\ HTTPBuilt(s, k + 1, y, d.http)
  <2>1. CASE Replaces(o)
    <3>1. FinalAt(s, k + 1, k + 1) /\ HTTPBuilt(s, k + 1, k + 1, Made(o))
      BY <2>1, Replaced1
    <3>. QED
      BY <1>2, <2>1, <3>1, Zenon
  <2>2. CASE o[1] = "WithCACert"
    <3>1. FinalAt(s, k + 1, z) /\ HTTPBuilt(s, k + 1, z, Trusting(c.http))
      BY <1>3, <1>4, <2>2, Trusted1
    <3>. QED
      BY <1>2, <2>2, <3>1, Zenon
  <2>3. CASE ~Replaces(o) /\ o[1] # "WithCACert"
    <3>1. FinalAt(s, k + 1, z) /\ HTTPBuilt(s, k + 1, z, c.http)
      BY <1>3, <2>3, Unchanged1
    <3>. QED
      BY <1>2, <2>3, <3>1, Zenon
  <2>. QED
    BY <2>1, <2>2, <2>3, Zenon
<1>6. d.insecure <=> Asked(s, k + 1, "WithInsecureSkipVerify")
  <2>1. c.insecure <=> Asked(s, k, "WithInsecureSkipVerify")
    BY <1>2, Zenon DEF Built
  <2>. QED
    BY <1>2, <2>1, AskedNext, Zenon
<1>7. DirAsked(s, k + 1, d.recordDir)
  <2>1. DirAsked(s, k, c.recordDir)
    BY <1>2, Zenon DEF Built
  <2>. QED
    BY <1>2, <2>1, DirNext
<1>. QED
  BY <1>5, <1>6, <1>7, Zenon DEF Built

\* Built holds of all of them.
LEMMA AllBuilt ==
  ASSUME NEW s \in Seq(Options), NEW f, Applying(f, s)
  PROVE  f[Len(s)] \in Clients /\ Built(s, Len(s), f[Len(s)])
<1> PICK n : n = Len(s)
  OBVIOUS
<1>0. n \in Nat
  BY LenProperties
<1>1. /\ f \in [0 .. n -> Clients] /\ f[0] = Unset
      /\ \A k \in Nat : k + 1 <= n => f[k + 1] = Apply(f[k], s[k + 1])
  BY Zenon DEF Applying
<1> DEFINE T == {k \in Nat : k <= n => Built(s, k, f[k])}
<1>2. 0 \in T
  <2>1. Unset.http = None /\ ~Unset.insecure /\ Unset.recordDir = "none"
    BY DEF Unset
  <2>2. FinalAt(s, 0, 0) /\ ~Added(s, 0, 0)
    BY DEF FinalAt, Added
  <2>3. HTTPBuilt(s, 0, 0, Unset.http)
    BY <2>1, <2>2, Zenon DEF HTTPBuilt
  <2>4. \A name : ~Asked(s, 0, name)
    BY DEF Asked
  <2>5. Built(s, 0, Unset)
    BY <2>1, <2>2, <2>3, <2>4, Zenon DEF Built, DirAsked
  <2>. QED
    BY <1>1, <2>5
<1>3. ASSUME NEW k \in Nat, k \in T PROVE k + 1 \in T
  <2> SUFFICES ASSUME k + 1 <= n PROVE Built(s, k + 1, f[k + 1])
    OBVIOUS
  <2>1. k <= n /\ k \in 0 .. n
    BY <1>0
  <2>2. Built(s, k, f[k]) /\ f[k] \in Clients
    BY <1>1, <1>3, <2>1
  <2>. QED
    BY <1>1, <2>2, BuiltNext
<1>. HIDE DEF T
<1>4. n \in T
  BY <1>0, <1>2, <1>3, Counted0
<1>5. n <= n /\ n \in 0 .. n
  BY <1>0
<1>6. f[n] \in Clients
  BY <1>1, <1>5
<1>. QED
  BY <1>4, <1>5, <1>6, Zenon DEF T

\* The wishes are granted to the client that was built.
LEMMA SettledRight ==
  ASSUME NEW c \in Clients, NEW r, r = Settled(c),
         NEW h, h = (IF c.http = None THEN DefaultHTTPClient ELSE c.http),
         ~h.skip, ~h.recorder
  PROVE  /\ r.base = h.base /\ r.ca = h.ca /\ r.cert = h.cert
         /\ r.skip <=> (c.insecure /\ h.base = "http")
         /\ r.recorder <=> c.recordDir # "none"
<1>0. h \in HTTPClients
  BY MadeClients DEF Clients
<1> PICK h1 : h1 = IF c.timeout = "unset" THEN h ELSE [h EXCEPT !.timeout = c.timeout]
  OBVIOUS
<1> PICK h2 : h2 = IF c.insecure THEN ApplyInsecureSkipVerify(h1) ELSE h1
  OBVIOUS
<1>1. r = IF c.recordDir = "none" THEN h2 ELSE AttachRecorder(h2)
  BY Zenon DEF Settled
<1>2. /\ h1 \in HTTPClients /\ h1.base = h.base /\ h1.ca = h.ca /\ h1.cert = h.cert
      /\ h1.skip = h.skip /\ h1.recorder = h.recorder
  BY <1>0 DEF HTTPClients, Clients
<1>3. /\ h2 \in HTTPClients /\ h2.base = h.base /\ h2.ca = h.ca /\ h2.cert = h.cert
      /\ h2.skip <=> (c.insecure /\ h.base = "http")
      /\ ~h2.recorder
  <2>1. CASE c.insecure /\ h.base = "http"
    <3>1. h2 = [h1 EXCEPT !.skip = TRUE]
      BY <1>2, <2>1 DEF ApplyInsecureSkipVerify
    <3>. QED
      BY <1>2, <2>1, <3>1 DEF HTTPClients
  <2>2. CASE ~(c.insecure /\ h.base = "http")
    <3>1. h2 = h1
      BY <1>2, <2>2 DEF ApplyInsecureSkipVerify
    <3>. QED
      BY <1>2, <2>2, <3>1
  <2>. QED
    BY <2>1, <2>2
<1>4. CASE c.recordDir # "none"
  <2>1. r = [h2 EXCEPT !.recorder = TRUE]
    BY <1>1, <1>4 DEF AttachRecorder
  <2>. QED
    BY <1>3, <1>4, <2>1 DEF HTTPClients
<1>5. CASE c.recordDir = "none"
  <2>1. r = h2
    BY <1>1, <1>5
  <2>. QED
    BY <1>3, <1>5, <2>1
<1>. QED
  BY <1>4, <1>5

\* The last option that replaces the client is the one LastReplacing finds.
LEMMA LastOf ==
  ASSUME NEW s \in Seq(Options), NEW z, FinalAt(s, Len(s), z)
  PROVE  LastReplacing(s) = z
<1> DEFINE R == {i \in DOMAIN s : Replaces(s[i])}
<1> PICK n : n = Len(s)
  OBVIOUS
<1>1. n \in Nat /\ DOMAIN s = 1 .. n
  BY LenProperties
<1>2. z \in 0 .. n /\ (z # 0 => Replaces(s[z])) /\ \A i \in 1 .. n : i > z => ~Replaces(s[i])
  BY Zenon DEF FinalAt
<1>3. LastReplacing(s) = IF R = {} THEN 0 ELSE CHOOSE i \in R : \A j \in R : j <= i
  BY Zenon DEF LastReplacing
<1>4. CASE z = 0
  <2>1. R = {}
    BY <1>1, <1>2, <1>4
  <2>. QED
    BY <1>3, <1>4, <2>1
<1>5. CASE z # 0
  <2>1. z \in R /\ \A j \in R : j <= z
    BY <1>1, <1>2, <1>5
  <2>2. \A i \in R : (\A j \in R : j <= i) => i = z
    BY <1>1, <2>1
  <2>3. (CHOOSE i \in R : \A j \in R : j <= i) = z
    BY <2>1, <2>2, Zenon
  <2>. QED
    BY <1>3, <2>1, <2>3
<1>. QED
  BY <1>4, <1>5

\* What the client of any options is.
LEMMA ClientRight ==
  ASSUME NEW s \in Seq(Options), NEW endpoint, NEW a, a = NewClient(endpoint, s), a.err = "nil"
  PROVE  /\ CaTrusted(s, a) /\ SkipTakesEffect(s, a)
         /\ a.http.recorder <=> a.recordDir # "none"
<1> PICK n, c : n = Len(s) /\ c = FoldLeft(Apply, Unset, s)
  OBVIOUS
<1>0. n \in Nat /\ DOMAIN s = 1 .. n
  BY LenProperties
<1>1. c \in Clients /\ Built(s, n, c)
  <2>1. PICK f : Applying(f, s) /\ FoldLeft(Apply, Unset, s) = f[n]
    BY Applied
  <2>. QED
    BY <2>1, AllBuilt
<1> PICK e : e = Complaint(endpoint, c)
  OBVIOUS
<1>2. a = IF e # "nil" THEN [err |-> e]
          ELSE [err |-> "nil", http |-> Settled(c), retries |-> c.retries,
                recordDir |-> c.recordDir]
  BY Zenon DEF NewClient
<1>3. e = "nil" /\ c.optErr = "nil"
  <2>1. e = "nil"
    <3> SUFFICES ASSUME e # "nil" PROVE FALSE
      OBVIOUS
    <3>1. a = [err |-> e]
      BY <1>2
    <3>. QED
      BY <3>1
  <2>. QED
    BY <2>1 DEF Complaint
<1> PICK r, g : r = Settled(c) /\ g = c.http
  OBVIOUS
<1>4. a.http = r /\ a.recordDir = c.recordDir
  BY <1>2, <1>3
<1>5. PICK z : FinalAt(s, n, z) /\ HTTPBuilt(s, n, z, g)
  BY <1>1, <1>3, Zenon DEF Built
<1>6. LastReplacing(s) = z
  BY <1>5, LastOf
<1>7. z \in 0 .. n /\ (z # 0 => Replaces(s[z]))
  BY <1>5, Zenon DEF FinalAt
<1> PICK h : h = IF g = None THEN DefaultHTTPClient ELSE g
  OBVIOUS
<1>8. /\ ~h.skip /\ ~h.recorder
      /\ h.ca <=> (Added(s, n, z) /\ Bare(s, z))
      /\ h.cert <=> (z # 0 /\ s[z][1] = "WithCertificate")
  <2>1. CASE z = 0 /\ ~Added(s, n, z)
    <3>1. h = DefaultHTTPClient
      BY <1>5, <2>1, Zenon DEF HTTPBuilt
    <3>. QED
      BY <2>1, <3>1 DEF DefaultHTTPClient
  <2>2. CASE ~(z = 0 /\ ~Added(s, n, z))
    <3>1. /\ g \in HTTPClients /\ ~g.recorder /\ ~g.skip
          /\ g.ca <=> (Added(s, n, z) /\ Bare(s, z))
          /\ g.cert <=> (z # 0 /\ s[z][1] = "WithCertificate")
      BY <1>5, <2>2, Zenon DEF HTTPBuilt
    <3>2. h = g
      BY <3>1, MadeClients
    <3>. QED
      BY <3>1, <3>2
  <2>. QED
    BY <2>1, <2>2, Zenon
<1>9. /\ r.base = h.base /\ r.ca = h.ca /\ r.cert = h.cert
      /\ r.skip <=> (c.insecure /\ h.base = "http")
      /\ r.recorder <=> c.recordDir # "none"
  BY <1>1, <1>8, SettledRight
<1>10. Added(s, n, z) <=> CaGiven(s)
  BY <1>0, <1>6 DEF Added, CaGiven
<1>11. Bare(s, z) <=> \/ z = 0 \/ s[z][1] = "WithCertificate"
                      \/ s[z][1] = "WithHTTPClient" /\ s[z][2] = "http"
  BY Zenon DEF Bare
<1>12. CaTrusted(s, a)
  BY <1>4, <1>6, <1>8, <1>9, <1>10, <1>11, Zenon DEF CaTrusted
<1>13. c.insecure <=> Asked(s, n, "WithInsecureSkipVerify")
  BY <1>1, <1>3, Zenon DEF Built
<1>14. c.recordDir # "none" <=> \E i : LastRecorder(s, n, i) /\ s[i][2] # "none"
  <2>1. DirAsked(s, n, c.recordDir)
    BY <1>1, <1>3, Zenon DEF Built
  <2>. QED
    BY <1>0, <2>1, DirGiven
<1>15. SkipTakesEffect(s, a)
  <2>1. a.http.skip <=> /\ \E i \in DOMAIN s : s[i][1] = "WithInsecureSkipVerify"
                        /\ a.http.base = "http"
    BY <1>0, <1>4, <1>9, <1>13, Zenon DEF Asked
  <2>2. a.http.recorder <=> \E i \in DOMAIN s :
           /\ s[i][1] = "WithRecorder" /\ \A j \in DOMAIN s : j > i => s[j][1] # "WithRecorder"
           /\ s[i][2] # "none"
    <3>1. a.http.recorder <=> \E i : LastRecorder(s, n, i) /\ s[i][2] # "none"
      BY <1>4, <1>9, <1>14, Zenon
    <3>. QED
      BY <1>0, <3>1, Zenon DEF LastRecorder
  <2>. QED
    BY <2>1, <2>2, Zenon DEF SkipTakesEffect
<1>. QED
  BY <1>4, <1>9, <1>12, <1>15

\* What a pool of them is.
LEMMA PoolRight ==
  ASSUME NEW s \in Seq(Options), NEW endpoint, NEW size \in Int, NEW a,
         a = NewPooledClient(size, endpoint, s)
  PROVE  PoolOfClients(size, endpoint, s, a)
<1> SUFFICES ASSUME a.err = "nil"
             PROVE  /\ size > 0 /\ DOMAIN a.slots = 1 .. size
                    /\ \A i \in 1 .. size :
                         /\ a.slots[i] = NewClient(endpoint, s)
                         /\ a.slots[i].err = "nil" /\ ~a.slots[i].http.recorder
  BY Zenon DEF PoolOfClients
<1> PICK c : c = NewClient(endpoint, s)
  OBVIOUS
<1>1. a = IF size <= 0 THEN [err |-> "size"]
          ELSE IF c.err # "nil" THEN [err |-> c.err]
          ELSE IF c.recordDir # "none" THEN [err |-> "recorder"]
          ELSE [err |-> "nil", slots |-> [i \in 1 .. size |-> c]]
  BY Zenon DEF NewPooledClient
<1>2. ~(size <= 0) /\ c.err = "nil" /\ c.recordDir = "none"
  BY <1>1
<1>3. a.slots = [i \in 1 .. size |-> c]
  BY <1>1, <1>2
<1>4. ~c.http.recorder
  BY <1>2, ClientRight
<1>. QED
  BY <1>2, <1>3, <1>4

\* Options of any number and order are honoured: wishes may come anywhere; no CA is
\* trusted but one that was given, and it is by every client that it can be added to
\* (not under NTLM); verification is skipped exactly when that was asked
\* for and can be; and a pool of any size is made of such clients, none with a
\* recorder (client.go:49-131, 213-248, pool.go:46-69).
THEOREM OptionsAlwaysHonoured == Spec => []OptionsHonoured
<1>1. Init => OptionsHonoured
  BY DEF Init, NoCall, OptionsHonoured
<1>2. OptionsHonoured /\ [Next]_vars => OptionsHonoured'
  <2> SUFFICES ASSUME OptionsHonoured, [Next]_vars PROVE OptionsHonoured'
    OBVIOUS
  <2>1. CASE UNCHANGED vars
    <3>1. call' = call /\ answer' = answer
      BY <2>1 DEF vars
    <3>. QED
      BY <3>1, Zenon DEF OptionsHonoured
  <2>2. CASE Next /\ call'.op \notin {"client", "pool"}
    BY <2>2 DEF OptionsHonoured
  <2>3. CASE Next /\ call'.op = "client"
    <3>1. MakeClient
      BY <2>3, CallNamed DEF Next
    <3>2. PICK endpoint \in {"url", "other"}, s \in Upto(Options, MaxOptions) :
            /\ call' = [op |-> "client", endpoint |-> endpoint, of |-> s]
            /\ answer' = NewClient(endpoint, s)
      BY <3>1, Zenon DEF MakeClient, Calls
    <3>3. s \in Seq(Options)
      BY <3>2, UptoSeq, OptionsAssumption
    <3>4. call'.of = s /\ call'.endpoint = endpoint /\ call'.op = "client"
      BY <3>2
    <3>5. WishesMayComeAnywhere(endpoint, s, answer')
      BY <3>2, <3>3, SameInTurn, Zenon
    <3>6. CaTrusted(s, answer') /\ SkipTakesEffect(s, answer')
      <4>1. CASE answer'.err = "nil"
        BY <3>2, <3>3, <4>1, ClientRight, Zenon
      <4>2. CASE answer'.err # "nil"
        BY <4>2, Zenon DEF CaTrusted, SkipTakesEffect
      <4>. QED
        BY <4>1, <4>2
    <3>. QED
      BY <3>4, <3>5, <3>6 DEF OptionsHonoured
  <2>4. CASE Next /\ call'.op = "pool"
    <3>1. MakePool
      BY <2>4, CallNamed DEF Next
    <3>2. PICK size \in PoolSizes, endpoint \in {"url", "other"},
               s \in Upto(Options, MaxOptions) :
            /\ call' = [op |-> "pool", size |-> size, endpoint |-> endpoint, of |-> s]
            /\ answer' = NewPooledClient(size, endpoint, s)
      BY <3>1, Zenon DEF MakePool, Calls
    <3>3. s \in Seq(Options) /\ size \in Int
      BY <3>2, UptoSeq, OptionsAssumption
    <3>4. /\ call'.of = s /\ call'.endpoint = endpoint
          /\ call'.size = size /\ call'.op = "pool"
      BY <3>2
    <3>5. PoolOfClients(size, endpoint, s, answer')
      BY <3>2, <3>3, PoolRight, Zenon
    <3>. QED
      BY <3>4, <3>5 DEF OptionsHonoured
  <2>. QED
    BY <2>1, <2>2, <2>3, <2>4
<1>. QED
  BY <1>1, <1>2, PTL DEF Spec

----------------------------------------------------------------------------
\* LookupsSound.

\* A name is found among all that bear it, and the host is not listed.
LEMMA FindRight ==
  ASSUME NEW systems \in Systems, NEW name, NEW a,
         a.found = FindComputerSystemByElementName(systems, name),
         a.all = ListComputerSystems(systems)
  PROVE  FindSound(systems, name, a)
<1> PICK A, S, R, q, n, r :
      /\ A = ToSet(systems) /\ S = {s \in A : EqualFold(s.element, name)}
      /\ R = {s \in A : ~IsHostComputerSystem(s)}
      /\ q = Among(systems, S) /\ n = Len(systems) /\ r = a.found
  OBVIOUS
<1> DEFINE bearing == {i \in DOMAIN systems : systems[i].element.id = name.id}
<1>1. systems \in Seq(A) /\ n \in Nat /\ DOMAIN systems = 1 .. n
  BY ListsAssumption, LenProperties
<1>2. /\ q \in Seq(A) /\ Len(q) = Count(systems, S, n)
      /\ \A k \in 1 .. n : systems[k] \in S => q[Count(systems, S, k)] = systems[k]
      /\ ToSet(Among(systems, R)) = A \cap R
  BY <1>1, Gathered
<1>3. \A i \in 1 .. n : systems[i] \in S <=> systems[i].element.id = name.id
  BY <1>1 DEF ToSet, EqualFold
<1>4. bearing = {i \in 1 .. n : systems[i] \in S}
  BY <1>1, <1>3
<1>5. Len(q) = Cardinality(bearing)
  BY <1>2, <1>4 DEF Count
<1>6. IsFiniteSet(bearing) /\ Len(q) \in Nat
  <2>1. IsFiniteSet(1 .. n)
    BY <1>1, FS_Interval
  <2>. QED
    BY <1>2, <1>4, <2>1, FS_Subset, LenProperties
<1>7. q = <<>> <=> bearing = {}
  <2>1. q = <<>> <=> Len(q) = 0
    BY <1>2, EmptySeq
  <2>. HIDE DEF bearing
  <2>. QED
    BY <1>5, <1>6, <2>1, FS_EmptySet
<1>8. r = IF q = <<>> THEN [err |-> "notFound"]
          ELSE IF Len(q) > 1 THEN [err |-> "ambiguous"]
          ELSE [err |-> "nil", system |-> q[1]]
  BY Zenon DEF FindComputerSystemByElementName, Named
<1>9. r.err = (IF bearing = {} THEN "notFound"
               ELSE IF Cardinality(bearing) > 1 THEN "ambiguous" ELSE "nil")
  <2>. HIDE DEF bearing
  <2>. QED
    BY <1>5, <1>7, <1>8
<1>10. ASSUME r.err = "nil", NEW i \in bearing PROVE r.system = systems[i]
  <2>1. q # <<>> /\ ~(Len(q) > 1)
    BY <1>8, <1>10
  <2>2. r.system = q[1]
    BY <1>8, <2>1
  <2>3. i \in 1 .. n /\ systems[i] \in S
    BY <1>4
  <2>4. Count(systems, S, i) = 1
    <3>1. Counts(systems, S)
      BY Counting
    <3>2. Count(systems, S, i) <= Count(systems, S, n) /\ Count(systems, S, i) \in Nat
          /\ Count(systems, S, i - 1) \in Nat
          /\ Count(systems, S, (i - 1) + 1) = Count(systems, S, i - 1) + 1
      <4>1. i - 1 \in Nat /\ i \in Nat /\ i <= n /\ (i - 1) + 1 = i
        BY <1>1, <2>3
      <4>. QED
        BY <1>1, <2>3, <3>1, <4>1 DEF Counts
    <3>3. (i - 1) + 1 = i
      BY <2>3
    <3>. QED
      BY <1>2, <1>6, <2>1, <3>2, <3>3
  <2>. QED
    BY <1>2, <2>2, <2>3, <2>4
<1>11. ToSet(a.all) = {s \in ToSet(systems) : s.guid}
  <2>1. a.all = Among(systems, R)
    BY Zenon DEF ListComputerSystems
  <2>2. A \cap R = {s \in A : s.guid}
    BY DEF IsHostComputerSystem
  <2>. QED
    BY <1>2, <2>1, <2>2, Zenon
<1>. QED
  BY <1>9, <1>10, <1>11, Zenon DEF FindSound

\* The first of those that are kept is one of them.
LEMMA FirstOne ==
  ASSUME NEW A, NEW s \in Seq(A), NEW S
  PROVE  /\ Among(s, S) = <<>> <=> ToSet(s) \cap S = {}
         /\ Among(s, S) # <<>> => Among(s, S)[1] \in ToSet(s) \cap S
<1> PICK q : q = Among(s, S)
  OBVIOUS
<1>1. q \in Seq(A) /\ ToSet(q) = ToSet(s) \cap S
  BY Gathered
<1>2. Len(q) \in Nat /\ DOMAIN q = 1 .. Len(q) /\ (q = <<>> <=> Len(q) = 0)
  BY <1>1, LenProperties, EmptySeq
<1>3. CASE q = <<>>
  <2>1. ToSet(q) = {}
    BY <1>2, <1>3 DEF ToSet
  <2>. QED
    BY <1>1, <1>3, <2>1
<1>4. CASE q # <<>>
  <2>1. q[1] \in ToSet(q)
    BY <1>2, <1>4 DEF ToSet
  <2>. QED
    BY <1>1, <1>4, <2>1
<1>. QED
  BY <1>3, <1>4

\* The settings of a VM are told from its checkpoints and from those of others.
LEMMA SettingsRight ==
  ASSUME NEW settings \in Settings, NEW name, NEW a,
         a.setting = GetSystemSettingData(settings, name),
         a.checkpoints = ListVmCheckpoints(settings, name),
         a.all = ListSystemSettingData(settings)
  PROVE  SettingsOwn(settings, name, a)
<1> PICK A, S, q, r :
      /\ A = ToSet(settings) /\ S = {s \in A : EqualFold(s.vm, name) /\ s.type = "Realized"}
      /\ q = Among(settings, S) /\ r = a.setting
  OBVIOUS
<1> DEFINE own == {s \in ToSet(settings) : s.vm.id = name.id}
<1>1. settings \in Seq(A)
  BY ListsAssumption
<1>2. S = {s \in own : s.type = "Realized"} /\ A \cap S = S
  BY DEF EqualFold
<1>3. (q = <<>> <=> S = {}) /\ (q # <<>> => q[1] \in S)
  BY <1>1, <1>2, FirstOne
<1>4. r = IF q = <<>> THEN [err |-> "notFound"] ELSE [err |-> "nil", setting |-> q[1]]
  BY Zenon DEF GetSystemSettingData, Realized
<1>5. r.err = "nil" <=> q # <<>>
  BY <1>4
<1>6. r.err = "nil" => r.setting = q[1]
  BY <1>4
<1>7. /\ r.err = "nil" => r.setting \in own
      /\ r.err = "nil" <=> \E s \in own : s.type = "Realized"
      /\ r.err = "nil" => r.setting.type = "Realized"
  BY <1>2, <1>3, <1>5, <1>6
<1>8. ToSet(a.checkpoints) = {s \in own : s.type = "Snapshot:Realized"}
  <2> PICK T : T = {s \in A : EqualFold(s.vm, name) /\ s.type = "Snapshot:Realized"}
    OBVIOUS
  <2>1. a.checkpoints = Among(settings, T)
    BY Zenon DEF ListVmCheckpoints
  <2>2. ToSet(a.checkpoints) = A \cap T
    BY <1>1, <2>1, Gathered
  <2>. QED
    BY <2>2 DEF EqualFold
<1>9. ToSet(a.all) = {s \in ToSet(settings) : s.type = "Realized"}
  <2> PICK T : T = {s \in A : s.type = "Realized"}
    OBVIOUS
  <2>1. a.all = Among(settings, T)
    BY Zenon DEF ListSystemSettingData
  <2>2. ToSet(a.all) = A \cap T
    BY <1>1, <2>1, Gathered
  <2>. QED
    BY <2>2
<1>. QED
  BY <1>7, <1>8, <1>9, Zenon DEF SettingsOwn

\* What each list holds of the devices.
LEMMA DevicesHeld ==
  ASSUME NEW A, NEW devices \in Seq(A), NEW vm, NEW class
  PROVE  /\ Devices(devices, vm, class) \in Seq(A)
         /\ ToSet(Devices(devices, vm, class)) =
              {d \in ToSet(devices) : d.class = class /\ d.owner = vm}
<1> PICK S : S = {d \in ToSet(devices) : d.class = class /\ MatchSettingDataVM(d, vm)}
  OBVIOUS
<1>1. Devices(devices, vm, class) = Among(devices, S)
  BY Zenon DEF Devices
<1>2. Among(devices, S) \in Seq(A) /\ ToSet(Among(devices, S)) = ToSet(devices) \cap S
  BY Gathered
<1>3. ToSet(devices) \cap S = {d \in ToSet(devices) : d.class = class /\ d.owner = vm}
  BY DEF MatchSettingDataVM
<1>. QED
  BY <1>1, <1>2, <1>3

\* What each list of a subtype holds of the devices.
LEMMA SubsHeld ==
  ASSUME NEW A, NEW devices \in Seq(A), NEW vm, NEW sub
  PROVE  /\ OfSub(devices, vm, sub) \in Seq(A)
         /\ ToSet(OfSub(devices, vm, sub)) =
              {d \in ToSet(devices) :
                 d.class = "ResourceAllocation" /\ d.owner = vm /\ d.sub = sub}
<1> PICK q, S : q = Devices(devices, vm, "ResourceAllocation") /\ S = {d \in ToSet(q) : d.sub = sub}
  OBVIOUS
<1>1. OfSub(devices, vm, sub) = Among(q, S)
  BY Zenon DEF OfSub
<1>2. /\ q \in Seq(A)
      /\ ToSet(q) = {d \in ToSet(devices) : d.class = "ResourceAllocation" /\ d.owner = vm}
  BY DevicesHeld
<1>3. Among(q, S) \in Seq(A) /\ ToSet(Among(q, S)) = ToSet(q) \cap S
  BY <1>2, Gathered
<1>. QED
  BY <1>1, <1>2, <1>3

\* The number of the list a device belongs to.
ListOfDevice(d) ==
  CASE d.class = "ResourceAllocation" -> (CASE d.sub = "IDE" -> 1 [] d.sub = "SCSI" -> 2
                                            [] d.sub = "Disk" -> 3 [] OTHER -> 4)
    [] d.class = "StorageAllocation" -> 5 [] d.class = "SyntheticEthernetPort" -> 6
    [] d.class = "EthernetPortAllocation" -> 7 [] d.class = "BootSource" -> 8
    [] d.class = "GpuPartition" -> 9 [] OTHER -> 0

\* One of the devices the package lists.
Known(d) ==
  /\ d.class \in Classes
  /\ d.class = "ResourceAllocation" => d.sub \in {"IDE", "SCSI", "Disk", "DVD"}

\* Each of the nine lists holds exactly the devices of its number.
LEMMA ListedOnce ==
  ASSUME NEW devices \in DeviceLists, NEW vm, NEW l \in 1 .. 9
  PROVE  ToSet(DevicesOf(devices, vm)[l]) =
           {d \in ToSet(devices) : d.owner = vm /\ ListOfDevice(d) = l}
<1> PICK A, lists : A = ToSet(devices) /\ lists = DevicesOf(devices, vm)
  OBVIOUS
<1>1. devices \in Seq(A)
  BY ListsAssumption
<1>2. ASSUME NEW d \in A PROVE Known(d)
  BY <1>2, DevicesAssumption, Zenon DEF Known
<1>3. ASSUME NEW d \in A
      PROVE  /\ (d.class = "ResourceAllocation" /\ d.sub = "IDE") <=> ListOfDevice(d) = 1
             /\ (d.class = "ResourceAllocation" /\ d.sub = "SCSI") <=> ListOfDevice(d) = 2
             /\ (d.class = "ResourceAllocation" /\ d.sub = "Disk") <=> ListOfDevice(d) = 3
             /\ (d.class = "ResourceAllocation" /\ d.sub = "DVD") <=> ListOfDevice(d) = 4
             /\ d.class = "StorageAllocation" <=> ListOfDevice(d) = 5
             /\ d.class = "SyntheticEthernetPort" <=> ListOfDevice(d) = 6
             /\ d.class = "EthernetPortAllocation" <=> ListOfDevice(d) = 7
             /\ d.class = "BootSource" <=> ListOfDevice(d) = 8
             /\ d.class = "GpuPartition" <=> ListOfDevice(d) = 9
  BY <1>2, <1>3 DEF Known, Classes, ListOfDevice
<1>4. /\ lists[1] = OfSub(devices, vm, "IDE") /\ lists[2] = OfSub(devices, vm, "SCSI")
      /\ lists[3] = OfSub(devices, vm, "Disk") /\ lists[4] = OfSub(devices, vm, "DVD")
      /\ lists[5] = Devices(devices, vm, "StorageAllocation")
      /\ lists[6] = Devices(devices, vm, "SyntheticEthernetPort")
      /\ lists[7] = Devices(devices, vm, "EthernetPortAllocation")
      /\ lists[8] = Devices(devices, vm, "BootSource")
      /\ lists[9] = Devices(devices, vm, "GpuPartition")
  BY DEF DevicesOf, ListIDEControllers, ListSCSIControllers, ListDiskDrives, ListDvdDrives,
         ListAttachedStorage, ListNetworkAdapters, ListEthernetPortAllocations,
         ListBootSources, ListGpuAdapters
<1>5. CASE l \in 1 .. 4
  <2>1. PICK sub : /\ lists[l] = OfSub(devices, vm, sub)
                   /\ \A d \in A : (d.class = "ResourceAllocation" /\ d.sub = sub)
                                   <=> ListOfDevice(d) = l
    <3>1. CASE l = 1
      BY <1>3, <1>4, <3>1
    <3>2. CASE l = 2
      BY <1>3, <1>4, <3>2
    <3>3. CASE l = 3
      BY <1>3, <1>4, <3>3
    <3>4. CASE l = 4
      BY <1>3, <1>4, <3>4
    <3>. QED
      BY <1>5, <3>1, <3>2, <3>3, <3>4
  <2>2. ToSet(lists[l]) = {d \in A : d.class = "ResourceAllocation" /\ d.owner = vm /\ d.sub = sub}
    BY <1>1, <2>1, SubsHeld
  <2>. QED
    BY <2>1, <2>2
<1>6. CASE l \in 5 .. 9
  <2>1. PICK class : /\ lists[l] = Devices(devices, vm, class)
                     /\ \A d \in A : d.class = class <=> ListOfDevice(d) = l
    <3>1. CASE l = 5
      BY <1>3, <1>4, <3>1
    <3>2. CASE l = 6
      BY <1>3, <1>4, <3>2
    <3>3. CASE l = 7
      BY <1>3, <1>4, <3>3
    <3>4. CASE l = 8
      BY <1>3, <1>4, <3>4
    <3>5. CASE l = 9
      BY <1>3, <1>4, <3>5
    <3>. QED
      BY <1>6, <3>1, <3>2, <3>3, <3>4, <3>5
  <2>2. ToSet(lists[l]) = {d \in A : d.class = class /\ d.owner = vm}
    BY <1>1, <2>1, DevicesHeld
  <2>. QED
    BY <2>1, <2>2
<1>. QED
  BY <1>5, <1>6

\* Every device of a VM is in one list of it and in none of another VM.
LEMMA DevicesRight ==
  ASSUME NEW devices \in DeviceLists, NEW name \in NamesAsked, NEW a,
         a.devices = DevicesOf(devices, name), a.memory = GetFirst(devices, name, "Memory")
  PROVE  DevicesOwn(devices, name, a)
<1> PICK A, lists, r : A = ToSet(devices) /\ lists = a.devices /\ r = a.memory
  OBVIOUS
<1>0. devices \in Seq(A)
  BY ListsAssumption
<1>1. DOMAIN lists = 1 .. 9
  BY DEF DevicesOf
<1>2. \A l \in 1 .. 9 : ToSet(lists[l]) = {d \in A : d.owner = name /\ ListOfDevice(d) = l}
  BY ListedOnce
<1>3. \A l \in DOMAIN lists : \A d \in ToSet(lists[l]) : d.owner.id = name.id
  BY <1>1, <1>2
<1>4. ASSUME name.spelling = "upper", NEW d \in A, d.owner.id = name.id
      PROVE  IF d.class = "Memory" THEN r.err = "nil"
             ELSE Cardinality({l \in DOMAIN lists : Contains(lists[l], d)}) = 1
  <2>1. d.owner = name
    <3>1. d.owner = [id |-> d.owner.id, spelling |-> "upper"]
      BY <1>4, DevicesAssumption, Zenon
    <3>2. name = [id |-> name.id, spelling |-> name.spelling]
      BY DevicesAssumption, Zenon
    <3>. QED
      BY <1>4, <3>1, <3>2, Zenon
  <2>2. CASE d.class = "Memory"
    <3> PICK q : q = Devices(devices, name, "Memory")
      OBVIOUS
    <3>1. d \in ToSet(q)
      BY <1>0, <2>1, <2>2, DevicesHeld
    <3>2. q # <<>>
      BY <3>1 DEF ToSet
    <3>3. r = [err |-> "nil", device |-> q[1]]
      BY <3>2, Zenon DEF GetFirst
    <3>. QED
      BY <2>2, <3>3
  <2>3. CASE d.class # "Memory"
    <3>1. Known(d)
      BY DevicesAssumption, Zenon DEF Known
    <3> PICK k : k = ListOfDevice(d)
      OBVIOUS
    <3>2. k \in 1 .. 9
      BY <2>3, <3>1 DEF Known, Classes, ListOfDevice
    <3>3. ASSUME NEW l \in 1 .. 9 PROVE Contains(lists[l], d) <=> l = k
      <4>1. lists[l] \in Seq(A)
        <5>1. l \in 1 .. 4 \/ l \in 5 .. 9
          OBVIOUS
        <5>2. \E s : lists[l] = OfSub(devices, name, s) \/ lists[l] = Devices(devices, name, s)
          BY DEF DevicesOf, ListIDEControllers, ListSCSIControllers, ListDiskDrives,
                 ListDvdDrives, ListAttachedStorage, ListNetworkAdapters,
                 ListEthernetPortAllocations, ListBootSources, ListGpuAdapters
        <5>. QED
          BY <1>0, <5>2, SubsHeld, DevicesHeld
      <4>2. Contains(lists[l], d) <=> d \in ToSet(lists[l])
        BY <4>1, LenProperties DEF Contains, ToSet
      <4>. QED
        BY <1>2, <2>1, <4>2
    <3>4. {l \in DOMAIN lists : Contains(lists[l], d)} = {k}
      BY <1>1, <3>2, <3>3
    <3>. QED
      BY <2>3, <3>4, FS_Singleton
  <2>. QED
    BY <2>2, <2>3
<1>. QED
  BY <1>3, <1>4, Zenon DEF DevicesOwn

\* No element twice.
Apart(s) == \A i, j \in DOMAIN s : s[i] = s[j] => i = j

\* f tells the arguments of D apart.
Tells(f, D) == \A i, j \in D : f[i] = f[j] => i = j

\* A function that tells its arguments apart is injective.
LEMMA Injective ==
  ASSUME NEW D, NEW Q, NEW f \in [D -> Q], Tells(f, D)
  PROVE  f \in Injection(D, Q)
  BY DEF Injection, IsInjective, Tells

\* A function that is injective and onto is a bijection.
LEMMA OneToOne ==
  ASSUME NEW D, NEW Q, NEW f \in [D -> Q],
         \A i, j \in D : f[i] = f[j] => i = j, \A x \in Q : \E i \in D : f[i] = x
  PROVE  f \in Bijection(D, Q)
<1>1. f \in Injection(D, Q)
  BY Injective DEF Tells
<1>2. f \in Surjection(D, Q)
  BY DEF Surjection
<1>. QED
  BY <1>1, <1>2 DEF Bijection

\* Q is what s holds at D, nothing of it twice.
AllAt(Q, s, D) ==
  /\ \A x : x \in Q <=> \E i \in D : x = s[i]
  /\ \A i, j \in D : s[i] = s[j] => i = j

\* What is at different places of a sequence without repetition is as much.
LEMMA AsMany ==
  ASSUME NEW s, NEW D, NEW Q, IsFiniteSet(D), AllAt(Q, s, D)
  PROVE  IsFiniteSet(Q) /\ Cardinality(Q) = Cardinality(D)
<1> DEFINE f == [i \in D |-> s[i]]
<1>1. f \in [D -> Q]
  BY DEF AllAt
<1>2. (\A i, j \in D : f[i] = f[j] => i = j) /\ \A x \in Q : \E i \in D : f[i] = x
  BY DEF AllAt
<1>. HIDE DEF f
<1>3. f \in Bijection(D, Q)
  BY <1>1, <1>2, OneToOne
<1>. QED
  BY <1>3, FS_Bijection DEF ExistsBijection

\* The numbers up to n are n.
LEMMA Numbers ==
  ASSUME NEW n \in Nat
  PROVE  IsFiniteSet(1 .. n) /\ Cardinality(1 .. n) = n
  BY FS_Interval

\* Elements that are different stay so, and are as many as they are.
LEMMA KeptApart ==
  ASSUME NEW A, NEW s \in Seq(A), Apart(s), NEW S
  PROVE  /\ Apart(Among(s, S))
         /\ IsFiniteSet(ToSet(Among(s, S)))
         /\ Len(Among(s, S)) = Cardinality(ToSet(Among(s, S)))
<1> PICK q, n, N, Q : q = Among(s, S) /\ n = Len(s) /\ N = Len(q) /\ Q = ToSet(q)
  OBVIOUS
<1> PICK D : D = {i \in 1 .. n : s[i] \in S}
  OBVIOUS
<1>1. n \in Nat /\ DOMAIN s = 1 .. n
  BY LenProperties
<1>2. q \in Seq(A) /\ Q = ToSet(s) \cap S /\ N = Cardinality(D)
  <2>1. q \in Seq(A) /\ Q = ToSet(s) \cap S /\ N = Count(s, S, n)
    BY Gathered
  <2>2. Count(s, S, n) = Cardinality(D)
    BY DEF Count
  <2>. QED
    BY <2>1, <2>2
<1>3. N \in Nat /\ DOMAIN q = 1 .. N
  BY <1>2, LenProperties
<1>4. IsFiniteSet(1 .. n) /\ IsFiniteSet(1 .. N) /\ Cardinality(1 .. N) = N
  BY <1>1, <1>3, Numbers, Zenon
<1>5. IsFiniteSet(D)
  BY <1>4, FS_Subset
<1>6. Q = {s[i] : i \in D} /\ \A i, j \in D : s[i] = s[j] => i = j
  <2>1. \A i, j \in 1 .. n : s[i] = s[j] => i = j
    BY <1>1 DEF Apart
  <2>2. Q = {s[i] : i \in 1 .. n} \cap S
    BY <1>1, <1>2 DEF ToSet
  <2>. QED
    BY <2>1, <2>2
<1>7. IsFiniteSet(Q) /\ Cardinality(Q) = N
  <2>1. AllAt(Q, s, D)
    BY <1>6 DEF AllAt
  <2>. QED
    BY <1>2, <1>5, <2>1, AsMany
<1> PICK g : g = [i \in 1 .. N |-> q[i]]
  OBVIOUS
<1>8. g \in Surjection(1 .. N, Q)
  BY <1>3 DEF Surjection, ToSet
<1>9. g \in Injection(1 .. N, Q)
  BY <1>4, <1>7, <1>8, FS_SurjSameCardinalityImpliesInj
<1>10. Apart(q)
  BY <1>3, <1>9 DEF Injection, IsInjective, Apart
<1>. QED
  BY <1>7, <1>10

\* What is sorted by the order of numbers that differ.
Sortable(q) ==
  /\ \A i \in DOMAIN q : q[i].id \in Nat
  /\ \A i, j \in DOMAIN q : q[i].id = q[j].id => i = j

\* m of S are sorted before c.
Before(S, c, m) == Cardinality({d \in S : d.id < c.id}) = m

\* The k-th of a sorted list has k - 1 before it.
LEMMA SortedAt ==
  ASSUME NEW A, NEW q \in Seq(A), Sortable(q), NEW k \in 1 .. Len(q)
  PROVE  /\ SortRASDByInstanceID(q)[k] \in ToSet(q)
         /\ Before(ToSet(q), SortRASDByInstanceID(q)[k], k - 1)
<1> PICK N, I, c : N = Len(q) /\ I = 1 .. N /\ c = SortRASDByInstanceID(q)[k]
  OBVIOUS
<1>0. /\ \A i \in DOMAIN q : q[i].id \in Nat
      /\ \A i, j \in DOMAIN q : q[i].id = q[j].id => i = j
  BY Zenon DEF Sortable
<1> DEFINE upto(i) == {j \in DOMAIN q : \/ q[j].id < q[i].id
                                        \/ q[j].id = q[i].id /\ j <= i}
<1>1. N \in Nat /\ DOMAIN q = I /\ k \in I
  BY LenProperties
<1>2. c = q[CHOOSE i \in DOMAIN q : Cardinality(upto(i)) = k]
  <2>1. SortRASDByInstanceID(q) = [l \in DOMAIN q |->
                                     q[CHOOSE i \in DOMAIN q : Cardinality(upto(i)) = l]]
    BY Zenon DEF SortRASDByInstanceID
  <2>. HIDE DEF upto
  <2>. QED
    BY <1>1, <2>1
<1>3. IsFiniteSet(I) /\ Cardinality(I) = N
  BY <1>1, Numbers
<1> DEFINE below(i) == {j \in I : q[j].id < q[i].id}
<1>4. ASSUME NEW i \in I
      PROVE  /\ upto(i) = below(i) \cup {i} /\ i \notin below(i)
             /\ IsFiniteSet(below(i)) /\ IsFiniteSet(upto(i))
             /\ Cardinality(upto(i)) = Cardinality(below(i)) + 1
             /\ Cardinality(upto(i)) \in I
  <2>1. upto(i) = below(i) \cup {i} /\ i \notin below(i)
    BY <1>0, <1>1
  <2>2. below(i) \in SUBSET I /\ upto(i) \in SUBSET I
    BY <1>1
  <2>. HIDE DEF below, upto
  <2>3. IsFiniteSet(below(i)) /\ Cardinality(below(i)) \in Nat
    BY <1>3, <2>2, FS_Subset, FS_CardinalityType
  <2>4. Cardinality(upto(i)) = Cardinality(below(i)) + 1
    BY <2>1, <2>3, FS_AddElement
  <2>5. IsFiniteSet(upto(i)) /\ Cardinality(upto(i)) <= N
    BY <1>3, <2>2, FS_Subset
  <2>. QED
    BY <1>1, <2>1, <2>3, <2>4, <2>5
<1>5. ASSUME NEW i \in I, NEW j \in I, q[i].id < q[j].id
      PROVE  Cardinality(upto(i)) < Cardinality(upto(j))
  <2>1. upto(i) \in SUBSET below(j)
    BY <1>0, <1>1, <1>5
  <2>2. /\ IsFiniteSet(below(j)) /\ Cardinality(upto(j)) = Cardinality(below(j)) + 1
        /\ Cardinality(upto(i)) \in I /\ Cardinality(upto(j)) \in I
    BY <1>4
  <2>. HIDE DEF below, upto
  <2>3. Cardinality(upto(i)) <= Cardinality(below(j)) /\ Cardinality(below(j)) \in Nat
    BY <2>1, <2>2, FS_Subset, FS_CardinalityType
  <2>4. PICK u, v, w : u = Cardinality(upto(i)) /\ v = Cardinality(below(j)) /\ w = Cardinality(upto(j))
    OBVIOUS
  <2>5. u \in Int /\ v \in Int /\ w = v + 1 /\ u <= v
    BY <1>1, <2>2, <2>3, <2>4
  <2>6. u < w
    BY <2>5
  <2>. QED
    BY <2>4, <2>6, Zenon
<1> PICK g : g = [i \in I |-> Cardinality(upto(i))]
  OBVIOUS
<1>6. g \in Injection(I, I)
  <2>1. g \in [I -> I]
    BY <1>4
  <2>2. ASSUME NEW i \in I, NEW j \in I, g[i] = g[j] PROVE i = j
    <3>1. g[i] \in I /\ g[i] = Cardinality(upto(i)) /\ g[j] = Cardinality(upto(j))
      BY <1>4
    <3>2. q[i].id \in Nat /\ q[j].id \in Nat
      BY <1>0, <1>1
    <3>. HIDE DEF upto
    <3>3. ~(q[i].id < q[j].id) /\ ~(q[j].id < q[i].id)
      BY <1>1, <1>5, <2>2, <3>1
    <3>. QED
      BY <1>0, <1>1, <3>2, <3>3
  <2>. HIDE DEF upto
  <2>3. Tells(g, I)
    BY <2>2, Zenon DEF Tells
  <2>. QED
    BY <2>1, <2>3, Injective
<1>7. g \in Surjection(I, I)
  BY <1>3, <1>6, FS_Injection
<1>8. \E i \in DOMAIN q : Cardinality(upto(i)) = k
  <2>. HIDE DEF upto
  <2>. QED
    BY <1>1, <1>7 DEF Surjection
<1>9. PICK i \in I : c = q[i] /\ Cardinality(upto(i)) = k
  <2>. HIDE DEF upto
  <2>. QED
    BY <1>1, <1>2, <1>8, Zenon
<1>10. Cardinality(below(i)) = k - 1
  <2>1. Cardinality(upto(i)) = Cardinality(below(i)) + 1 /\ IsFiniteSet(below(i))
    BY <1>4
  <2>. HIDE DEF upto, below
  <2>2. Cardinality(below(i)) \in Nat
    BY <2>1, FS_CardinalityType
  <2>. QED
    BY <1>9, <2>1, <2>2
<1> PICK T : T = {d \in ToSet(q) : d.id < c.id}
  OBVIOUS
<1>11. T = {q[j] : j \in below(i)} /\ \A x, y \in below(i) : q[x] = q[y] => x = y
  BY <1>0, <1>1, <1>9 DEF ToSet
<1>12. Cardinality(T) = k - 1
  <2>1. IsFiniteSet(below(i))
    BY <1>4
  <2>. HIDE DEF below
  <2> PICK B : B = below(i)
    OBVIOUS
  <2>2. AllAt(T, q, B)
    BY <1>11 DEF AllAt
  <2>3. IsFiniteSet(B)
    BY <2>1
  <2>4. Cardinality(T) = Cardinality(B)
    BY <2>2, <2>3, AsMany, Zenon
  <2>. QED
    BY <1>10, <2>4
<1>13. c \in ToSet(q)
  BY <1>1, <1>9 DEF ToSet
<1>. QED
  BY <1>12, <1>13, Zenon DEF Before

\* The controllers of a type of a VM are told apart by what they are sorted by.
LEMMA ControllersApart ==
  ASSUME NEW devices \in DeviceLists, NEW vm, NEW sub, NEW list, list = OfSub(devices, vm, sub)
  PROVE  /\ list \in Seq(ToSet(devices))
         /\ Len(list) = Cardinality(ToSet(list))
         /\ Sortable(list)
<1> PICK A, q, S, T :
      /\ A = ToSet(devices) /\ q = Devices(devices, vm, "ResourceAllocation")
      /\ S = {d \in A : d.class = "ResourceAllocation" /\ MatchSettingDataVM(d, vm)}
      /\ T = {d \in ToSet(q) : d.sub = sub}
  OBVIOUS
<1>1. devices \in Seq(A) /\ q = Among(devices, S) /\ list = Among(q, T)
  BY ListsAssumption, Zenon DEF Devices, OfSub
<1>2. /\ \A i, j \in DOMAIN devices :
           devices[i].owner = devices[j].owner /\ devices[i].id = devices[j].id => i = j
      /\ \A d \in A : d.id \in Nat
  BY DevicesAssumption, Zenon
<1>3. Apart(devices)
  <2> SUFFICES ASSUME NEW i \in DOMAIN devices, NEW j \in DOMAIN devices,
                      devices[i] = devices[j]
               PROVE  i = j
    BY DEF Apart
  <2>1. devices[i].owner = devices[j].owner /\ devices[i].id = devices[j].id
    OBVIOUS
  <2>. QED
    BY <1>2, <2>1, Zenon
<1>4. q \in Seq(A) /\ Apart(q)
  <2>1. Among(devices, S) \in Seq(A)
    BY <1>1, Gathered
  <2>2. Apart(Among(devices, S))
    BY <1>1, <1>3, KeptApart
  <2>. QED
    BY <1>1, <2>1, <2>2, Zenon
<1>5. Apart(list) /\ list \in Seq(A) /\ Len(list) = Cardinality(ToSet(list))
  <2>1. Among(q, T) \in Seq(A)
    BY <1>4, Gathered
  <2>2. Apart(Among(q, T)) /\ Len(Among(q, T)) = Cardinality(ToSet(Among(q, T)))
    BY <1>4, KeptApart
  <2>. QED
    BY <1>1, <2>1, <2>2, Zenon
<1>6. \A i \in DOMAIN list : list[i] \in A /\ list[i].owner = vm
  <2>1. ToSet(Among(devices, S)) = ToSet(devices) \cap S /\ ToSet(Among(q, T)) = ToSet(q) \cap T
    BY <1>1, <1>4, Gathered
  <2>2. \A i \in DOMAIN list : list[i] \in ToSet(list)
    BY DEF ToSet
  <2>3. \A d \in S : d.owner = vm
    BY DEF MatchSettingDataVM
  <2>. QED
    BY <1>1, <2>1, <2>2, <2>3, Zenon
<1>7. ASSUME NEW i \in DOMAIN list, NEW j \in DOMAIN list, list[i].id = list[j].id
      PROVE  i = j
  <2>1. PICK x \in DOMAIN devices, y \in DOMAIN devices : list[i] = devices[x] /\ list[j] = devices[y]
    BY <1>6, Zenon DEF ToSet
  <2>2. x = y
    BY <1>2, <1>6, <1>7, <2>1, Zenon
  <2>. QED
    BY <1>5, <2>1, <2>2, Zenon DEF Apart
<1>. QED
  BY <1>2, <1>5, <1>6, <1>7, Zenon DEF Sortable

\* A number finds the controller that as many others come before.
LEMMA ControllerRight ==
  ASSUME NEW devices \in DeviceLists, NEW name, NEW type,
         NEW number \in Int, NEW location \in Int, NEW a,
         a = ControllerOf(devices, name, type, number, location)
  PROVE  ControllerByNumber(devices, name, type, number, location, a)
<1> PICK list, same, legal, c :
      /\ list = OfSub(devices, name, type)
      /\ same = {d \in ToSet(devices) :
                   d.owner = name /\ d.class = "ResourceAllocation" /\ d.sub = type}
      /\ legal = 0 .. (CASE type = "IDE" -> 1 [] type = "SCSI" -> 63 [] OTHER -> -1)
      /\ c = SortRASDByInstanceID(list)[number + 1]
  OBVIOUS
<1>1. /\ list \in Seq(ToSet(devices)) /\ Len(list) = Cardinality(ToSet(list))
      /\ Sortable(list)
  BY ControllersApart
<1>2. ToSet(list) = same /\ Len(list) = Cardinality(same) /\ Len(list) \in Nat
  <2>1. ToSet(list) = same
    BY <1>1, ListsAssumption, SubsHeld
  <2>. QED
    BY <1>1, <2>1, LenProperties
<1>3. \/ type \in {"IDE", "SCSI"} /\ legal = 0 .. MaxLocation(type)
      \/ type \notin {"IDE", "SCSI"} /\ legal = {}
  BY DEF MaxLocation
<1>4. CASE location \in legal /\ number \in 0 .. Cardinality(same) - 1
  <2>1. a = [err |-> "nil", controller |-> c]
    <3>1. type \in {"IDE", "SCSI"} /\ location \in 0 .. MaxLocation(type)
      BY <1>3, <1>4
    <3>2. number \in 0 .. Len(list) - 1
      BY <1>2, <1>4
    <3>3. list = IF type = "IDE" THEN ListIDEControllers(devices, name)
                 ELSE ListSCSIControllers(devices, name)
      BY <3>1, Zenon DEF ListIDEControllers, ListSCSIControllers
    <3>. QED
      BY <3>1, <3>2, <3>3, Zenon DEF ControllerOf
  <2>2. number + 1 \in 1 .. Len(list)
    BY <1>2, <1>4
  <2> PICK k : k = number + 1
    OBVIOUS
  <2>3. c \in same /\ Cardinality({d \in same : d.id < c.id}) = k - 1
    <3>1. /\ c = SortRASDByInstanceID(list)[k] /\ k \in 1 .. Len(list)
          /\ list \in Seq(ToSet(devices))
      BY <1>1, <2>2
    <3>2. c \in ToSet(list) /\ Before(ToSet(list), c, k - 1)
      BY <1>1, <3>1, SortedAt
    <3>. QED
      BY <1>2, <3>2, Zenon DEF Before
  <2>4. a.err = "nil" /\ a.controller = c
    BY <2>1
  <2>5. k - 1 = number
    OBVIOUS
  <2>. QED
    BY <1>4, <2>3, <2>4, <2>5, Zenon DEF ControllerByNumber
<1>5. CASE ~(location \in legal /\ number \in 0 .. Cardinality(same) - 1)
  <2>1. a.err # "nil"
    <3>1. CASE type \notin {"IDE", "SCSI"}
      BY <3>1 DEF ControllerOf
    <3>2. CASE type \in {"IDE", "SCSI"} /\ location \notin 0 .. MaxLocation(type)
      <4>1. a = [err |-> "location"]
        BY <3>2, Zenon DEF ControllerOf
      <4>. QED
        BY <4>1
    <3>3. CASE /\ type \in {"IDE", "SCSI"} /\ location \in 0 .. MaxLocation(type)
               /\ number \notin 0 .. Len(list) - 1
      <4>1. list = IF type = "IDE" THEN ListIDEControllers(devices, name)
                   ELSE ListSCSIControllers(devices, name)
        BY <3>3, Zenon DEF ListIDEControllers, ListSCSIControllers
      <4>2. a = [err |-> "number"]
        BY <3>3, <4>1, Zenon DEF ControllerOf
      <4>. QED
        BY <4>2
    <3>. QED
      BY <1>2, <1>3, <1>5, <3>1, <3>2, <3>3
  <2>. QED
    BY <1>5, <2>1, Zenon DEF ControllerByNumber
<1>. QED
  BY <1>4, <1>5

\* What is looked up is what was meant: a name finds the one system that bears it or
\* says that none or several do, a VM is shown its own settings, checkpoints and
\* devices, each in one list, and the number of a controller means the same one in
\* whatever order the host lists them (client.go:67, 136, vm.go:24, storage.go:405).
THEOREM LookupsAlwaysSound == Spec => []LookupsSound
<1>1. Init => LookupsSound
  BY DEF Init, NoCall, LookupsSound
<1>2. LookupsSound /\ [Next]_vars => LookupsSound'
  <2> SUFFICES ASSUME LookupsSound, [Next]_vars PROVE LookupsSound'
    OBVIOUS
  <2>1. CASE UNCHANGED vars
    <3>1. call' = call /\ answer' = answer
      BY <2>1 DEF vars
    <3>. QED
      BY <3>1, Zenon DEF LookupsSound
  <2>2. CASE Next /\ call'.op \notin {"find", "list", "controller"}
    BY <2>2 DEF LookupsSound
  <2>3. CASE Next /\ call'.op = "find"
    <3>1. FindVm
      BY <2>3, CallNamed DEF Next
    <3>2. PICK systems \in Systems, name \in NamesAsked :
            /\ call' = [op |-> "find", systems |-> systems, name |-> name]
            /\ answer' = [found |-> FindComputerSystemByElementName(systems, name),
                          all   |-> ListComputerSystems(systems)]
      BY <3>1, Zenon DEF FindVm, Calls
    <3>3. call'.op = "find" /\ call'.systems = systems /\ call'.name = name
      BY <3>2
    <3>4. /\ answer'.found = FindComputerSystemByElementName(systems, name)
          /\ answer'.all = ListComputerSystems(systems)
      BY <3>2
    <3>5. FindSound(systems, name, answer')
      BY <3>4, FindRight, Zenon
    <3>. QED
      BY <3>3, <3>5 DEF LookupsSound
  <2>4. CASE Next /\ call'.op = "list"
    <3>1. ListOf
      BY <2>4, CallNamed DEF Next
    <3>2. PICK settings \in Settings, devices \in DeviceLists, guid \in NamesAsked :
            /\ call' = [op |-> "list", settings |-> settings, devices |-> devices, name |-> guid]
            /\ answer' = [setting     |-> GetSystemSettingData(settings, guid),
                          all         |-> ListSystemSettingData(settings),
                          checkpoints |-> ListVmCheckpoints(settings, guid),
                          devices     |-> DevicesOf(devices, guid),
                          memory      |-> GetFirst(devices, guid, "Memory")]
      BY <3>1, Zenon DEF ListOf, Calls
    <3>3. /\ call'.op = "list" /\ call'.settings = settings
          /\ call'.devices = devices /\ call'.name = guid
      BY <3>2
    <3>4. /\ answer'.setting = GetSystemSettingData(settings, guid)
          /\ answer'.checkpoints = ListVmCheckpoints(settings, guid)
          /\ answer'.all = ListSystemSettingData(settings)
          /\ answer'.devices = DevicesOf(devices, guid)
          /\ answer'.memory = GetFirst(devices, guid, "Memory")
      BY <3>2
    <3>5. SettingsOwn(settings, guid, answer')
      BY <3>4, SettingsRight, Zenon
    <3>6. DevicesOwn(devices, guid, answer')
      BY <3>4, DevicesRight, Zenon
    <3>. QED
      BY <3>3, <3>5, <3>6 DEF LookupsSound
  <2>5. CASE Next /\ call'.op = "controller"
    <3>1. FindController
      BY <2>5, CallNamed DEF Next
    <3>2. PICK devices \in DeviceLists, guid \in NamesAsked, type \in {"IDE", "SCSI", "FC"},
               number \in -1 .. 2, location \in {-1, 0, 1, 2, 63, 64} :
            /\ call' = [op |-> "controller", devices |-> devices, name |-> guid,
                        type |-> type, number |-> number, location |-> location]
            /\ answer' = ControllerOf(devices, guid, type, number, location)
      BY <3>1, Zenon DEF FindController, Calls
    <3>3. /\ call'.op = "controller" /\ call'.devices = devices /\ call'.name = guid
          /\ call'.type = type /\ call'.number = number /\ call'.location = location
      BY <3>2
    <3>4. number \in Int /\ location \in Int
      OBVIOUS
    <3>5. ControllerByNumber(devices, guid, type, number, location, answer')
      BY <3>2, <3>4, ControllerRight, Zenon
    <3>. QED
      BY <3>3, <3>5 DEF LookupsSound
  <2>. QED
    BY <2>1, <2>2, <2>3, <2>4, <2>5
<1>. QED
  BY <1>1, <1>2, PTL DEF Spec

----------------------------------------------------------------------------
\* Texts.

\* What a character is for the host after both escapes: itself or, if no XML can
\* hold it, its replacement; the host may refuse it only if it is one of five.
LEMMA CharRight ==
  ASSUME NEW c \in Chars, NEW w, w = Numeric(Escape(c))
  PROVE  /\ w \notin Refused
         /\ w \in Unobserved => c \in {Quote, "'", "TAB", "LF", "CR"}
         /\ Denotes(w) = IF c \in Illegal THEN Replacement ELSE c
<1>1. c \notin References
  BY CharsAssumption
<1>2. /\ Illegal \cap References = {}
      /\ \A x \in {"&", "<", ">", Quote, "'", "TAB", "LF", "CR", Replacement} : x \notin Illegal
  BY CharsAssumption
<1>3. CASE c \in {"&", "<", ">"}
  BY <1>2, <1>3 DEF Escape, Numeric, Denotes, Refused, Unobserved, References, Quote, Replacement
<1>4. CASE c \in {Quote, "'", "TAB", "LF", "CR"}
  BY <1>2, <1>4 DEF Escape, Numeric, Denotes, Refused, Unobserved, References, Quote, Replacement
<1>5. CASE c \in Illegal
  BY <1>2, <1>5 DEF Escape, Numeric, Denotes, Refused, Unobserved, References, Quote, Replacement
<1>6. CASE c \notin Illegal \cup {"&", "<", ">", Quote, "'", "TAB", "LF", "CR"}
  BY <1>1, <1>2, <1>6 DEF Escape, Numeric, Denotes, Refused, Unobserved, References, Quote
<1>. QED
  BY <1>3, <1>4, <1>5, <1>6

\* So the host reads a value as XML can hold it, or refuses it for one of the five.
LEMMA ValueRight ==
  ASSUME NEW s \in Seq(Chars), NEW taken, NEW a, a = HostValue(CimValueEscape(s), taken)
  PROVE  ValueArrives(s, a)
<1> PICK w : w = CimValueEscape(s)
  OBVIOUS
<1>1. DOMAIN w = DOMAIN s /\ \A i \in DOMAIN s : w[i] = Numeric(Escape(s[i]))
  BY Zenon DEF CimValueEscape, XmlEscape
<1>2. \A i \in DOMAIN s : s[i] \in Chars
  BY ElementOfSeq, LenProperties
<1>3. \A i \in DOMAIN s :
        /\ w[i] \notin Refused
        /\ w[i] \in Unobserved => s[i] \in {Quote, "'", "TAB", "LF", "CR"}
        /\ Denotes(w[i]) = IF s[i] \in Illegal THEN Replacement ELSE s[i]
  BY <1>1, <1>2, CharRight, Zenon
<1>4. CASE \E i \in DOMAIN w : w[i] \in Refused \cup (Unobserved \ taken)
  <2>1. a = <<"refused">>
    BY <1>4, Zenon DEF HostValue
  <2>2. \E i \in DOMAIN s : s[i] \in {Quote, "'", "TAB", "LF", "CR"}
    BY <1>1, <1>3, <1>4
  <2>. QED
    BY <2>1, <2>2, Zenon DEF ValueArrives
<1>5. CASE ~\E i \in DOMAIN w : w[i] \in Refused \cup (Unobserved \ taken)
  <2>1. a = [i \in DOMAIN w |-> Denotes(w[i])]
    BY <1>5, Zenon DEF HostValue
  <2>2. a = Legal(s)
    BY <1>1, <1>3, <2>1, Zenon DEF Legal
  <2>. QED
    BY <2>2, Zenon DEF ValueArrives
<1>. QED
  BY <1>4, <1>5

----------------------------------------------------------------------------
\* What reads a text token by token: D says what a token c makes of a state r, both
\* of given sets.
Reader(D, R, C) == D \in [R \X C -> R]

\* The text t takes D through the states f.
Through(f, D, R, t) ==
  /\ f \in [0 .. Len(t) -> R]
  /\ \A k \in Nat : k + 1 <= Len(t) => f[k + 1] = D[<<f[k], t[k + 1]>>]

\* It takes it from a to b.
Drives(D, R, t, a, b) == \E f : Through(f, D, R, t) /\ f[0] = a /\ f[Len(t)] = b

\* No text changes nothing.
LEMMA DrivesNone ==
  ASSUME NEW R, NEW D, NEW a \in R
  PROVE  Drives(D, R, <<>>, a, a)
<1> DEFINE f == [k \in 0 .. 0 |-> a]
<1>1. f \in [0 .. Len(<<>>) -> R] /\ f[0] = a /\ f[Len(<<>>)] = a
  OBVIOUS
<1>2. \A k \in Nat : k + 1 <= Len(<<>>) => f[k + 1] = D[<<f[k], <<>>[k + 1]>>]
  OBVIOUS
<1>. HIDE DEF f
<1>. QED
  BY <1>1, <1>2, Zenon DEF Drives, Through

\* A token.
LEMMA DrivesOne ==
  ASSUME NEW R, NEW D, NEW a \in R, NEW c, NEW b \in R, D[<<a, c>>] = b
  PROVE  Drives(D, R, <<c>>, a, b)
<1> DEFINE f == [k \in 0 .. 1 |-> IF k = 0 THEN a ELSE b]
<1>1. f \in [0 .. Len(<<c>>) -> R] /\ f[0] = a /\ f[1] = b /\ Len(<<c>>) = 1 /\ <<c>>[1] = c
  OBVIOUS
<1>. HIDE DEF f
<1>2. \A k \in Nat : k + 1 <= Len(<<c>>) => f[k + 1] = D[<<f[k], <<c>>[k + 1]>>]
  <2> SUFFICES ASSUME NEW k \in Nat, k + 1 <= Len(<<c>>)
               PROVE  f[k + 1] = D[<<f[k], <<c>>[k + 1]>>]
    OBVIOUS
  <2>1. k = 0 /\ k + 1 = 1
    BY <1>1
  <2>. QED
    BY <1>1, <2>1, Zenon
<1>. QED
  BY <1>1, <1>2, Zenon DEF Drives, Through

\* A text after another.
LEMMA DrivesOn ==
  ASSUME NEW R, NEW C, NEW D, Reader(D, R, C), NEW s \in Seq(C), NEW t \in Seq(C),
         NEW a, NEW b, NEW c, Drives(D, R, s, a, b), Drives(D, R, t, b, c)
  PROVE  s \o t \in Seq(C) /\ Drives(D, R, s \o t, a, c)
<1> PICK m, n, q : m = Len(s) /\ n = Len(t) /\ q = s \o t
  OBVIOUS
<1>1. /\ m \in Nat /\ n \in Nat /\ q \in Seq(C) /\ Len(q) = m + n
      /\ \A i \in 1 .. m + n : q[i] = IF i <= m THEN s[i] ELSE t[i - m]
  BY LenProperties, ConcatProperties
<1>2. PICK f : Through(f, D, R, s) /\ f[0] = a /\ f[m] = b
  BY Zenon DEF Drives
<1>3. PICK g : Through(g, D, R, t) /\ g[0] = b /\ g[n] = c
  BY Zenon DEF Drives
<1>4. /\ \A k \in 0 .. m : f[k] \in R
      /\ \A k \in Nat : k + 1 <= m => f[k + 1] = D[<<f[k], s[k + 1]>>]
  BY <1>2 DEF Through
<1>5. /\ \A k \in 0 .. n : g[k] \in R
      /\ \A k \in Nat : k + 1 <= n => g[k + 1] = D[<<g[k], t[k + 1]>>]
  BY <1>3 DEF Through
<1> DEFINE h == [k \in 0 .. m + n |-> IF k <= m THEN f[k] ELSE g[k - m]]
<1>6. h \in [0 .. m + n -> R]
  BY <1>1, <1>4, <1>5
<1>7. \A k \in 0 .. m + n : h[k] = IF k <= m THEN f[k] ELSE g[k - m]
  OBVIOUS
<1>. HIDE DEF h
<1>8. \A k \in 0 .. n : h[m + k] = g[k]
  <2> SUFFICES ASSUME NEW k \in 0 .. n PROVE h[m + k] = g[k]
    OBVIOUS
  <2>1. CASE k = 0
    BY <1>1, <1>2, <1>3, <1>7, <2>1
  <2>2. CASE k # 0
    <3>1. m + k \in 0 .. m + n /\ ~ (m + k <= m) /\ (m + k) - m = k
      BY <1>1, <2>2
    <3>. QED
      BY <1>7, <3>1
  <2>. QED
    BY <2>1, <2>2
<1>9. ASSUME NEW k \in Nat, k + 1 <= m + n PROVE h[k + 1] = D[<<h[k], q[k + 1]>>]
  <2>1. CASE k + 1 <= m
    <3>1. /\ k \in 0 .. m + n /\ k + 1 \in 0 .. m + n /\ k + 1 \in 1 .. m + n /\ k <= m
      BY <1>1, <2>1
    <3>2. h[k] = f[k] /\ h[k + 1] = f[k + 1] /\ q[k + 1] = s[k + 1]
      BY <1>1, <1>7, <2>1, <3>1
    <3>. QED
      BY <1>4, <2>1, <3>2, Zenon
  <2>2. CASE ~ (k + 1 <= m)
    <3> PICK j : j = k - m
      OBVIOUS
    <3>1. /\ j \in Nat /\ j + 1 <= n /\ j \in 0 .. n /\ j + 1 \in 0 .. n
          /\ m + j = k /\ m + (j + 1) = k + 1 /\ k + 1 \in 1 .. m + n /\ (k + 1) - m = j + 1
      BY <1>1, <1>9, <2>2
    <3>2. h[k] = g[j] /\ h[k + 1] = g[j + 1]
      BY <1>8, <3>1
    <3>3. q[k + 1] = t[j + 1]
      BY <1>1, <2>2, <3>1
    <3>. QED
      BY <1>5, <3>1, <3>2, <3>3, Zenon
  <2>. QED
    BY <2>1, <2>2
<1>10. h[0] = a /\ h[m + n] = c
  <2>1. 0 \in 0 .. m + n /\ 0 <= m /\ n \in 0 .. n
    BY <1>1
  <2>. QED
    BY <1>2, <1>3, <1>7, <1>8, <2>1
<1>. QED
  BY <1>1, <1>6, <1>9, <1>10, Zenon DEF Drives, Through

\* A text takes it to one state only.
LEMMA DrivesSame ==
  ASSUME NEW R, NEW C, NEW D, NEW t \in Seq(C), NEW a, NEW b, NEW c,
         Drives(D, R, t, a, b), Drives(D, R, t, a, c)
  PROVE  b = c
<1> PICK n : n = Len(t)
  OBVIOUS
<1>1. n \in Nat
  BY LenProperties
<1>2. PICK f : Through(f, D, R, t) /\ f[0] = a /\ f[n] = b
  BY Zenon DEF Drives
<1>3. PICK g : Through(g, D, R, t) /\ g[0] = a /\ g[n] = c
  BY Zenon DEF Drives
<1>4. /\ \A k \in Nat : k + 1 <= n => f[k + 1] = D[<<f[k], t[k + 1]>>]
      /\ \A k \in Nat : k + 1 <= n => g[k + 1] = D[<<g[k], t[k + 1]>>]
  BY <1>2, <1>3, Zenon DEF Through
<1> DEFINE T == {k \in Nat : k <= n => f[k] = g[k]}
<1>5. 0 \in T
  BY <1>2, <1>3
<1>6. ASSUME NEW k \in Nat, k \in T PROVE k + 1 \in T
  <2> SUFFICES ASSUME k + 1 <= n PROVE f[k + 1] = g[k + 1]
    OBVIOUS
  <2>1. f[k] = g[k]
    BY <1>1, <1>6
  <2>. QED
    BY <1>4, <2>1, Zenon
<1>. HIDE DEF T
<1>7. n \in T
  BY <1>1, <1>5, <1>6, Counted0
<1>. QED
  BY <1>1, <1>2, <1>3, <1>7 DEF T

\* The parts of a text take it from state to state.
LEMMA DrivesAll ==
  ASSUME NEW R, NEW C, NEW D, Reader(D, R, C), NEW ss \in Seq(Seq(C)),
         NEW n \in Nat, n = Len(ss), NEW r \in [0 .. n -> R],
         \A k \in Nat : k + 1 <= n => Drives(D, R, ss[k + 1], r[k], r[k + 1])
  PROVE  FlattenSeq(ss) \in Seq(C) /\ Drives(D, R, FlattenSeq(ss), r[0], r[n])
<1>1. PICK f : Joins(f, ss, C) /\ FlattenSeq(ss) = f[n]
  BY Flattened
<1>2. /\ \A k \in 0 .. n : f[k] \in Seq(C)
      /\ f[0] = <<>>
      /\ \A k \in Nat : k + 1 <= n => f[k + 1] = f[k] \o ss[k + 1]
  BY <1>1 DEF Joins
<1> DEFINE T == {k \in Nat : k <= n => Drives(D, R, f[k], r[0], r[k])}
<1>3. 0 \in T
  <2>1. r[0] \in R
    OBVIOUS
  <2>2. Drives(D, R, f[0], r[0], r[0])
    BY <1>2, <2>1, DrivesNone
  <2>. QED
    BY <2>2
<1>4. ASSUME NEW k \in Nat, k \in T PROVE k + 1 \in T
  <2> SUFFICES ASSUME k + 1 <= n PROVE Drives(D, R, f[k + 1], r[0], r[k + 1])
    OBVIOUS
  <2>1. k <= n /\ k \in 0 .. n /\ k + 1 \in 1 .. n
    OBVIOUS
  <2>2. Drives(D, R, f[k], r[0], r[k]) /\ f[k] \in Seq(C) /\ ss[k + 1] \in Seq(C)
    BY <1>2, <1>4, <2>1, ElementOfSeq
  <2>3. Drives(D, R, ss[k + 1], r[k], r[k + 1])
    OBVIOUS
  <2>4. Drives(D, R, f[k] \o ss[k + 1], r[0], r[k + 1])
    BY <2>2, <2>3, DrivesOn, Zenon
  <2>. QED
    BY <1>2, <2>4
<1>. HIDE DEF T
<1>5. n \in T
  BY <1>3, <1>4, Counted0
<1>6. n <= n /\ n \in 0 .. n
  OBVIOUS
<1>. QED
  BY <1>1, <1>2, <1>5, <1>6, Zenon DEF T

\* Tokens one after the other are a text.
LEMMA InARow ==
  ASSUME NEW x, NEW y, NEW z
  PROVE  <<x>> \o <<y>> = <<x, y>> /\ <<x, y>> \o <<z>> = <<x, y, z>>
<1> PICK S : S = {x, y, z}
  OBVIOUS
<1> PICK p, q, r, u, v : /\ p = <<x>> /\ q = <<y>> /\ r = <<z>>
                         /\ u = <<x, y>> /\ v = <<x, y, z>>
  OBVIOUS
<1>1. x \in S /\ y \in S /\ z \in S
  OBVIOUS
<1>2. /\ p \in Seq(S) /\ Len(p) = 1 /\ p[1] = x
      /\ q \in Seq(S) /\ Len(q) = 1 /\ q[1] = y
      /\ r \in Seq(S) /\ Len(r) = 1 /\ r[1] = z
  BY <1>1
<1>3. /\ u \in Seq(S) /\ Len(u) = 2 /\ u[1] = x /\ u[2] = y
      /\ v \in Seq(S) /\ Len(v) = 3 /\ v[1] = x /\ v[2] = y /\ v[3] = z
  BY <1>1
<1> PICK g, h : g = p \o q /\ h = u \o r
  OBVIOUS
<1>4. /\ g \in Seq(S) /\ Len(g) = 2 /\ g[1] = x /\ g[2] = y
  BY <1>2, ConcatProperties
<1>5. /\ h \in Seq(S) /\ Len(h) = 3 /\ h[1] = x /\ h[2] = y /\ h[3] = z
  BY <1>2, <1>3, ConcatProperties
<1>6. g = u
  <2>1. \A i \in 1 .. 2 : i = 1 \/ i = 2
    OBVIOUS
  <2>2. \A i \in 1 .. 2 : g[i] = u[i]
    BY <1>3, <1>4, <2>1
  <2>. QED
    BY <1>3, <1>4, <2>2, SeqEqual
<1>7. h = v
  <2>1. \A i \in 1 .. 3 : i = 1 \/ i = 2 \/ i = 3
    OBVIOUS
  <2>2. \A i \in 1 .. 3 : h[i] = v[i]
    BY <1>3, <1>5, <2>1
  <2>. QED
    BY <1>3, <1>5, <2>2, SeqEqual
<1>. QED
  BY <1>6, <1>7

\* Two more, after three.
LEMMA SplitInARow ==
  ASSUME NEW x, NEW y, NEW z, NEW v, NEW w
  PROVE  <<x, y, z, v, w>> = <<x, y, z>> \o <<v, w>>
<1> PICK S, p, q, r : S = {x, y, z, v, w} /\ p = <<x, y, z>> /\ q = <<v, w>>
                      /\ r = <<x, y, z, v, w>>
  OBVIOUS
<1>1. x \in S /\ y \in S /\ z \in S /\ v \in S /\ w \in S
  OBVIOUS
<1>2. /\ p \in Seq(S) /\ Len(p) = 3 /\ p[1] = x /\ p[2] = y /\ p[3] = z
      /\ q \in Seq(S) /\ Len(q) = 2 /\ q[1] = v /\ q[2] = w
  BY <1>1
<1>3. /\ r \in Seq(S) /\ Len(r) = 5
      /\ r[1] = x /\ r[2] = y /\ r[3] = z /\ r[4] = v /\ r[5] = w
  BY <1>1
<1> PICK g : g = p \o q
  OBVIOUS
<1>4. /\ g \in Seq(S) /\ Len(g) = 5
      /\ g[1] = x /\ g[2] = y /\ g[3] = z /\ g[4] = v /\ g[5] = w
  BY <1>2, ConcatProperties
<1>5. \A i \in 1 .. 5 : i = 1 \/ i = 2 \/ i = 3 \/ i = 4 \/ i = 5
  OBVIOUS
<1>6. \A i \in 1 .. 5 : g[i] = r[i]
  BY <1>3, <1>4, <1>5
<1>7. g = r
  BY <1>3, <1>4, <1>6, SeqEqual
<1>. QED
  BY <1>7

\* Two tokens.
LEMMA DrivesTwo ==
  ASSUME NEW R, NEW C, NEW D, Reader(D, R, C), NEW x \in C, NEW y \in C,
         NEW a \in R, NEW b \in R, NEW c \in R,
         D[<<a, x>>] = b, D[<<b, y>>] = c
  PROVE  <<x, y>> \in Seq(C) /\ Drives(D, R, <<x, y>>, a, c)
<1> PICK p, q : p = <<x>> /\ q = <<y>>
  OBVIOUS
<1>1. p \in Seq(C) /\ q \in Seq(C)
  OBVIOUS
<1>2. Drives(D, R, p, a, b) /\ Drives(D, R, q, b, c)
  BY DrivesOne, Zenon
<1>3. p \o q = <<x, y>>
  BY InARow, Zenon
<1>4. p \o q \in Seq(C) /\ Drives(D, R, p \o q, a, c)
  BY <1>1, <1>2, DrivesOn
<1>. QED
  BY <1>3, <1>4, Zenon

\* Three tokens.
LEMMA DrivesThree ==
  ASSUME NEW R, NEW C, NEW D, Reader(D, R, C), NEW x \in C, NEW y \in C, NEW z \in C,
         NEW a \in R, NEW b \in R, NEW c \in R, NEW d \in R,
         D[<<a, x>>] = b, D[<<b, y>>] = c, D[<<c, z>>] = d
  PROVE  <<x, y, z>> \in Seq(C) /\ Drives(D, R, <<x, y, z>>, a, d)
<1> PICK p, q, r : p = <<x>> /\ q = <<y>> /\ r = <<z>>
  OBVIOUS
<1>1. p \in Seq(C) /\ q \in Seq(C) /\ r \in Seq(C)
  OBVIOUS
<1>2. Drives(D, R, p, a, b) /\ Drives(D, R, q, b, c) /\ Drives(D, R, r, c, d)
  BY DrivesOne, Zenon
<1>3. (p \o q) \o r = <<x, y, z>>
  BY InARow, Zenon
<1>4. p \o q \in Seq(C) /\ Drives(D, R, p \o q, a, c)
  BY <1>1, <1>2, DrivesOn
<1>5. (p \o q) \o r \in Seq(C) /\ Drives(D, R, (p \o q) \o r, a, d)
  BY <1>1, <1>2, <1>4, DrivesOn
<1>. QED
  BY <1>3, <1>5, Zenon

\* A function on the sets of positions of t, as the folds of Folds.tla define it.
Folding(g, D, R, t, a) ==
  /\ g \in [SUBSET (1 .. Len(t)) -> R]
  /\ \A P \in SUBSET (1 .. Len(t)) :
       g[P] = IF P = {} THEN a ELSE D[<<g[P \ {Max(P)}], t[Max(P)]>>]

\* There is one.
LEMMA FoldingExists ==
  ASSUME NEW R, NEW C, NEW D, Reader(D, R, C), NEW t \in Seq(C), NEW a \in R
  PROVE  \E g : Folding(g, D, R, t, a)
<1> PICK n : n = Len(t)
  OBVIOUS
<1> DEFINE G == [x \in (1 .. n) \X R |-> D[<<x[2], t[x[1]]>>]]
<1>1. n \in Nat /\ \A k \in 1 .. n : t[k] \in C
  BY LenProperties, ElementOfSeq
<1>2. \A k \in 1 .. n, r \in R : D[<<r, t[k]>>] \in R
  BY <1>1 DEF Reader
<1>3. G \in Steps(n, R)
  BY <1>2 DEF Steps
<1>4. \A k \in 1 .. n, r \in R : G[<<k, r>>] = D[<<r, t[k]>>]
  OBVIOUS
<1>. HIDE DEF G
<1>5. PICK g : Peels(g, n, R, a, G)
  BY <1>1, <1>3, AlongSets
<1>6. /\ g \in [SUBSET (1 .. n) -> R]
      /\ \A P \in SUBSET (1 .. n) : g[P] = IF P = {} THEN a ELSE G[<<Max(P), g[P \ {Max(P)}]>>]
  BY <1>5, Zenon DEF Peels
<1>7. ASSUME NEW P \in SUBSET (1 .. n)
      PROVE  g[P] = IF P = {} THEN a ELSE D[<<g[P \ {Max(P)}], t[Max(P)]>>]
  <2>1. CASE P = {}
    BY <1>6, <2>1
  <2>2. CASE P # {}
    <3>1. Max(P) \in P
      BY <1>1, <2>2, Greatest
    <3>2. Max(P) \in 1 .. n /\ P \ {Max(P)} \in SUBSET (1 .. n)
      BY <3>1
    <3>3. g[P \ {Max(P)}] \in R
      BY <1>6, <3>2
    <3>4. g[P] = G[<<Max(P), g[P \ {Max(P)}]>>]
      BY <1>6, <2>2, Zenon
    <3>. QED
      BY <1>4, <2>2, <3>2, <3>3, <3>4, Zenon
  <2>. QED
    BY <2>1, <2>2
<1>. QED
  BY <1>6, <1>7, Zenon DEF Folding

\* iter follows D as long as it stays in R.
Follows(iter, D, R, t, a) ==
  /\ iter[{}] = a
  /\ \A P \in SUBSET (1 .. Len(t)) :
       (P # {} /\ iter[P \ {Max(P)}] \in R) =>
         iter[P] = D[<<iter[P \ {Max(P)}], t[Max(P)]>>]

\* Then the text takes D to what iter is for all of it.
LEMMA FoldingDrives ==
  ASSUME NEW R, NEW C, NEW D, Reader(D, R, C), NEW t \in Seq(C), NEW a \in R,
         NEW iter, Follows(iter, D, R, t, a)
  PROVE  Drives(D, R, t, a, iter[DOMAIN t])
<1> PICK n : n = Len(t)
  OBVIOUS
<1>1. n \in Nat /\ (\A k \in 1 .. n : t[k] \in C) /\ DOMAIN t = 1 .. n
  BY LenProperties, ElementOfSeq
<1>2. iter[1 .. 0] = a
  <2>1. 1 .. 0 = {}
    OBVIOUS
  <2>. QED
    BY <2>1, Zenon DEF Follows
<1>3. ASSUME NEW k \in Nat, k + 1 <= n, iter[1 .. k] \in R
      PROVE  iter[1 .. k + 1] = D[<<iter[1 .. k], t[k + 1]>>] /\ iter[1 .. k + 1] \in R
  <2>1. PICK P : P = 1 .. k + 1
    OBVIOUS
  <2>2. P \in SUBSET (1 .. n)
    BY <1>1, <1>3, <2>1
  <2>3. P # {} /\ Max(P) = k + 1 /\ P \ {Max(P)} = 1 .. k
    BY <2>1, Topmost
  <2>4. iter[P] = D[<<iter[1 .. k], t[k + 1]>>]
    BY <1>3, <2>2, <2>3, Zenon DEF Follows
  <2>5. t[k + 1] \in C
    BY <1>1, <1>3
  <2>6. D[<<iter[1 .. k], t[k + 1]>>] \in R
    BY <1>3, <2>5 DEF Reader
  <2>. QED
    BY <2>1, <2>4, <2>6
<1> DEFINE T == {k \in Nat : k <= n => iter[1 .. k] \in R}
<1>4. 0 \in T
  BY <1>2
<1>5. ASSUME NEW k \in Nat, k \in T PROVE k + 1 \in T
  <2> SUFFICES ASSUME k + 1 <= n PROVE iter[1 .. k + 1] \in R
    OBVIOUS
  <2>1. k <= n
    BY <1>1
  <2>2. iter[1 .. k] \in R
    BY <1>5, <2>1
  <2>. QED
    BY <1>3, <2>2, Zenon
<1>6. Nat \subseteq T
  BY <1>4, <1>5, Counted0
<1>7. \A k \in 0 .. n : iter[1 .. k] \in R
  BY <1>1, <1>6
<1> DEFINE f == [k \in 0 .. n |-> iter[1 .. k]]
<1>8. f \in [0 .. n -> R] /\ f[0] = a /\ f[n] = iter[DOMAIN t]
  BY <1>1, <1>2, <1>7
<1>9. ASSUME NEW k \in Nat, k + 1 <= n PROVE f[k + 1] = D[<<f[k], t[k + 1]>>]
  <2>1. k \in 0 .. n /\ k + 1 \in 0 .. n
    BY <1>1, <1>9
  <2>2. f[k] = iter[1 .. k] /\ f[k + 1] = iter[1 .. k + 1] /\ iter[1 .. k] \in R
    BY <1>7, <2>1, Zenon
  <2>. QED
    BY <1>3, <1>9, <2>2, Zenon
<1>. HIDE DEF f
<1>. QED
  BY <1>8, <1>9, Zenon DEF Drives, Through

----------------------------------------------------------------------------
\* Sections.

\* What the reader of sections may have taken so far from tokens of C: the brackets
\* it counts are the last it has read.
SectionStates(C) ==
  {r \in [text : Seq(C), open : BOOLEAN, brackets : Nat, ok : BOOLEAN] :
     r.open => r.brackets <= Len(r.text)}

SectionReader(C) == [x \in SectionStates(C) \X C |-> Section(x[1], x[2])]

\* It starts outside a section.
NoSection == [text |-> <<>>, open |-> FALSE, brackets |-> 0, ok |-> TRUE]

\* What a section makes of a character.
LEMMA SectionTyped ==
  ASSUME NEW C, NEW r \in SectionStates(C), NEW c \in C
  PROVE  Section(r, c) \in SectionStates(C)
<1>1. /\ r \in [text : Seq(C), open : BOOLEAN, brackets : Nat, ok : BOOLEAN]
      /\ r.open => r.brackets <= Len(r.text)
  BY DEF SectionStates
<1> PICK t, n : t = r.text /\ n = r.brackets
  OBVIOUS
<1>2. t \in Seq(C) /\ n \in Nat /\ Len(t) \in Nat
  BY <1>1, LenProperties
<1> PICK q : q = Section(r, c)
  OBVIOUS
<1>3. CASE ~r.open
  <2> PICK v : v = (r.ok /\ c = CdataStart)
    OBVIOUS
  <2>1. q = [r EXCEPT !.open = TRUE, !.brackets = 0, !.ok = v]
    BY <1>3 DEF Section
  <2>2. v \in BOOLEAN
    BY Zenon
  <2>3. q = [text |-> t, open |-> TRUE, brackets |-> 0, ok |-> v]
    BY <1>1, <2>1
  <2>4. q \in [text : Seq(C), open : BOOLEAN, brackets : Nat, ok : BOOLEAN]
    BY <1>2, <2>2, <2>3
  <2>5. q.brackets = 0 /\ q.text = t
    BY <2>3
  <2>. QED
    BY <1>2, <2>4, <2>5 DEF SectionStates
<1>4. CASE r.open /\ c = ">" /\ n >= 2
  <2> PICK u : u = SubSeq(t, 1, Len(t) - 2)
    OBVIOUS
  <2>1. q = [r EXCEPT !.open = FALSE, !.text = u]
    BY <1>4 DEF Section
  <2>2. u \in Seq(C)
    BY <1>1, <1>2, <1>4, SubSeqProperties
  <2>3. q \in [text : Seq(C), open : BOOLEAN, brackets : Nat, ok : BOOLEAN] /\ ~q.open
    BY <1>1, <2>1, <2>2
  <2>. QED
    BY <2>3 DEF SectionStates
<1>5. CASE r.open /\ ~ (c = ">" /\ n >= 2)
  <2> PICK u, m : u = Append(t, c) /\ m = IF c = "]" THEN n + 1 ELSE 0
    OBVIOUS
  <2>1. q = [r EXCEPT !.text = u, !.brackets = m]
    BY <1>5 DEF Section
  <2>2. u \in Seq(C) /\ Len(u) = Len(t) + 1 /\ m \in Nat /\ m <= Len(t) + 1
    BY <1>1, <1>2, <1>5, AppendProperties
  <2>3. /\ q \in [text : Seq(C), open : BOOLEAN, brackets : Nat, ok : BOOLEAN]
        /\ q.text = u /\ q.brackets = m
    BY <1>1, <2>1, <2>2
  <2>. QED
    BY <2>2, <2>3 DEF SectionStates
<1>. QED
  BY <1>3, <1>4, <1>5

\* D reads the tokens of C as Section does.
SectionsBy(D, R, C) == \A r \in R, c \in C : D[<<r, c>>] = Section(r, c)

\* It is a reader.
LEMMA SectionReads ==
  ASSUME NEW C, NEW R, R = SectionStates(C), NEW D, D = SectionReader(C)
  PROVE  Reader(D, R, C) /\ SectionsBy(D, R, C) /\ NoSection \in R
<1>1. D \in [R \X C -> R]
  <2>1. \A x \in R \X C : Section(x[1], x[2]) \in R
    <3> TAKE x \in R \X C
    <3>1. x[1] \in R /\ x[2] \in C
      OBVIOUS
    <3>. QED
      BY <3>1, SectionTyped, Zenon
  <2>. QED
    BY <2>1, Zenon DEF SectionReader
<1>2. \A r \in R, c \in C : D[<<r, c>>] = Section(r, c)
  <2> TAKE r \in R, c \in C
  <2>1. <<r, c>> \in R \X C /\ <<r, c>>[1] = r /\ <<r, c>>[2] = c
    OBVIOUS
  <2>. QED
    BY <2>1, Zenon DEF SectionReader
<1>3. NoSection \in R
  BY EmptySeq DEF NoSection, SectionStates
<1>4. Reader(D, R, C)
  BY <1>1 DEF Reader
<1>. QED
  BY <1>2, <1>3, <1>4, Zenon DEF SectionsBy

\* Sections reads a text character by character.
LEMMA SectionsDriven ==
  ASSUME NEW C, NEW t \in Seq(C), NEW R, R = SectionStates(C), NEW D, D = SectionReader(C)
  PROVE  Drives(D, R, t, NoSection, Sections(t))
<1>0. Reader(D, R, C) /\ SectionsBy(D, R, C) /\ NoSection \in R
  BY SectionReads, Zenon
<1> PICK n : n = Len(t)
  OBVIOUS
<1>1. n \in Nat /\ DOMAIN t = 1 .. n /\ \A k \in 1 .. n : t[k] \in C
  BY LenProperties, ElementOfSeq
<1> DEFINE iter[P \in SUBSET DOMAIN t] ==
             IF P = {} THEN NoSection ELSE Section(iter[P \ {Max(P)}], t[Max(P)])
<1>2. FoldLeft(Section, NoSection, t) = iter[DOMAIN t]
  BY Zenon DEF FoldLeft, MapThenFoldSet
<1>3. PICK g : Folding(g, D, R, t, NoSection)
  BY <1>0, FoldingExists
<1>4. ASSUME NEW P \in SUBSET (1 .. n), P # {}
      PROVE  Max(P) \in 1 .. n /\ P \ {Max(P)} \in SUBSET (1 .. n) /\ t[Max(P)] \in C
  <2>1. Max(P) \in P
    BY <1>1, <1>4, Greatest
  <2>. QED
    BY <1>1, <2>1
<1>5. g = [P \in SUBSET DOMAIN t |->
             IF P = {} THEN NoSection ELSE Section(g[P \ {Max(P)}], t[Max(P)])]
  <2>1. /\ g \in [SUBSET (1 .. n) -> R]
        /\ \A P \in SUBSET (1 .. n) :
             g[P] = IF P = {} THEN NoSection ELSE D[<<g[P \ {Max(P)}], t[Max(P)]>>]
    BY <1>3, Zenon DEF Folding
  <2>2. ASSUME NEW P \in SUBSET (1 .. n), P # {}
        PROVE  g[P] = Section(g[P \ {Max(P)}], t[Max(P)])
    <3>1. g[P \ {Max(P)}] \in R /\ t[Max(P)] \in C
      BY <1>4, <2>1, <2>2
    <3>. QED
      BY <1>0, <2>1, <2>2, <3>1, Zenon DEF SectionsBy
  <2>. QED
    BY <1>1, <2>1, <2>2
<1>6. iter = [P \in SUBSET DOMAIN t |->
                 IF P = {} THEN NoSection ELSE Section(iter[P \ {Max(P)}], t[Max(P)])]
  BY <1>5
<1>. HIDE DEF iter
<1>7. iter[{}] = NoSection
  BY <1>6
<1>8. ASSUME NEW P \in SUBSET (1 .. n), P # {}, iter[P \ {Max(P)}] \in R
       PROVE  iter[P] = D[<<iter[P \ {Max(P)}], t[Max(P)]>>]
  <2>1. iter[P] = Section(iter[P \ {Max(P)}], t[Max(P)])
    BY <1>1, <1>6, <1>8, Zenon
  <2>. QED
    BY <1>0, <1>4, <1>8, <2>1, Zenon DEF SectionsBy
<1>9. Follows(iter, D, R, t, NoSection)
  BY <1>7, <1>8, Zenon DEF Follows
<1>10. Drives(D, R, t, NoSection, iter[DOMAIN t])
  BY <1>0, <1>9, FoldingDrives
<1>11. Sections(t) = iter[DOMAIN t]
  BY <1>2, Zenon DEF Sections, NoSection
<1>. QED
  BY <1>10, <1>11, Zenon

\* Inside a section, and after it: the text so far, and how many brackets it ends in.
InSection(t, m) == [text |-> t, open |-> TRUE, brackets |-> m, ok |-> TRUE]

AfterSection(t, m) == [text |-> t, open |-> FALSE, brackets |-> m, ok |-> TRUE]

\* One character in a section, and one that opens it.
LEMMA SectionSteps ==
  ASSUME NEW C, NEW t \in Seq(C), NEW m \in Nat, NEW c
  PROVE  /\ Section(NoSection, CdataStart) = InSection(<<>>, 0)
         /\ Section(AfterSection(t, m), CdataStart) = InSection(t, 0)
         /\ ~ (c = ">" /\ m >= 2) => Section(InSection(t, m), c)
              = InSection(Append(t, c), IF c = "]" THEN m + 1 ELSE 0)
         /\ m >= 2 => Section(InSection(t, m), ">")
                        = AfterSection(SubSeq(t, 1, Len(t) - 2), m)
<1>1. Section(NoSection, CdataStart) = InSection(<<>>, 0)
  <2>1. NoSection = AfterSection(<<>>, 0)
    BY Zenon DEF NoSection, AfterSection
  <2> PICK q, e : q = AfterSection(e, 0) /\ e = <<>>
    OBVIOUS
  <2>2. ~q.open /\ q.ok /\ Section(q, CdataStart) = InSection(e, 0)
    BY DEF Section, AfterSection, InSection
  <2>. QED
    BY <2>1, <2>2
<1>2. Section(AfterSection(t, m), CdataStart) = InSection(t, 0)
  BY DEF Section, AfterSection, InSection
<1>3. ASSUME ~ (c = ">" /\ m >= 2)
      PROVE  Section(InSection(t, m), c)
               = InSection(Append(t, c), IF c = "]" THEN m + 1 ELSE 0)
  BY <1>3 DEF Section, InSection
<1>4. ASSUME m >= 2
      PROVE  Section(InSection(t, m), ">") = AfterSection(SubSeq(t, 1, Len(t) - 2), m)
  BY <1>4 DEF Section, InSection, AfterSection
<1>. QED
  BY <1>1, <1>2, <1>3, <1>4

\* The states of a section are states of its reader.
LEMMA SectionStated ==
  ASSUME NEW C, NEW t \in Seq(C), NEW m \in Nat
  PROVE  AfterSection(t, m) \in SectionStates(C)
         /\ (m <= Len(t) => InSection(t, m) \in SectionStates(C))
<1>1. AfterSection(t, m) \in SectionStates(C)
  BY DEF SectionStates, AfterSection
<1>2. m <= Len(t) => InSection(t, m) \in SectionStates(C)
  BY DEF SectionStates, InSection
<1>. QED
  BY <1>1, <1>2

\* "]]>" ends a section, and none of it is left.
LEMMA SectionEnds ==
  ASSUME NEW C, "]" \in C, ">" \in C, NEW t \in Seq(C), NEW m \in Nat, m <= Len(t),
         NEW R, R = SectionStates(C), NEW D, D = SectionReader(C)
  PROVE  /\ <<"]", "]", ">">> \in Seq(C)
         /\ Drives(D, R, <<"]", "]", ">">>, InSection(t, m), AfterSection(t, m + 2))
<1> DEFINE br == "]"
           gt == ">"
<1>1. br \in C /\ gt \in C /\ br # gt
  BY Zenon
<1> PICK u, v : u = Append(t, br) /\ v = Append(u, br)
  OBVIOUS
<1> PICK r0, r1, r2, r3 : /\ r0 = InSection(t, m) /\ r1 = InSection(u, m + 1)
                          /\ r2 = InSection(v, m + 2) /\ r3 = AfterSection(t, m + 2)
  OBVIOUS
<1>2. /\ u \in Seq(C) /\ Len(u) = Len(t) + 1 /\ v \in Seq(C) /\ Len(v) = Len(t) + 2
      /\ \A i \in 1 .. Len(t) : v[i] = t[i]
  BY <1>1, AppendProperties
<1>3. SubSeq(v, 1, Len(v) - 2) = t
  <2> PICK w : w = SubSeq(v, 1, Len(t))
    OBVIOUS
  <2>1. Len(t) \in Nat
    BY LenProperties
  <2>2. w \in Seq(C) /\ Len(w) = Len(t) /\ \A i \in 1 .. Len(t) : w[i] = v[i]
    BY <1>2, <2>1, SubSeqProperties
  <2>3. w = t
    BY <1>2, <2>1, <2>2, SeqEqual
  <2>4. Len(v) - 2 = Len(t)
    BY <1>2, <2>1
  <2>. QED
    BY <2>3, <2>4
<1>4. r0 \in R /\ r1 \in R /\ r2 \in R /\ r3 \in R
  <2>1. m + 1 \in Nat /\ m + 2 \in Nat /\ m + 1 <= Len(u) /\ m + 2 <= Len(v)
    BY <1>2, LenProperties
  <2>. QED
    BY <1>2, <2>1, SectionStated, Zenon
<1>5. Section(r0, br) = r1 /\ Section(r1, br) = r2
  <2>1. \A x \in Seq(C), k \in Nat :
          Section(InSection(x, k), br) = InSection(Append(x, br), k + 1)
    BY SectionSteps, <1>1, Zenon
  <2>. HIDE DEF br
  <2>2. (m + 1) + 1 = m + 2 /\ m + 1 \in Nat
    OBVIOUS
  <2>. QED
    BY <1>2, <2>1, <2>2, Zenon
<1>6. Section(r2, gt) = r3
  <2>1. m + 2 \in Nat /\ m + 2 >= 2
    OBVIOUS
  <2>2. Section(r2, gt) = AfterSection(SubSeq(v, 1, Len(v) - 2), m + 2)
    BY <1>2, <2>1, SectionSteps, Zenon
  <2>. QED
    BY <1>3, <2>2
<1>. HIDE DEF br, gt
<1>7. Reader(D, R, C) /\ SectionsBy(D, R, C)
  BY SectionReads, Zenon
<1>8. D[<<r0, br>>] = r1 /\ D[<<r1, br>>] = r2 /\ D[<<r2, gt>>] = r3
  BY <1>1, <1>4, <1>5, <1>6, <1>7, Zenon DEF SectionsBy
<1>9. <<br, br, gt>> \in Seq(C) /\ Drives(D, R, <<br, br, gt>>, r0, r3)
  BY <1>1, <1>4, <1>7, <1>8, DrivesThree, Zenon
<1>. QED
  BY <1>9 DEF br, gt

\* One of the text's own "]]>" ends at i.
EndsAt(s, i) == i > 2 /\ SubSeq(s, i - 2, i) = <<"]", "]", ">">>

\* It is split: the section ends before its last character and another one starts.
Split == <<"]", "]", ">", CdataStart, ">">>

\* Which takes the reader to where it was, and on by that character.
LEMMA SectionSplit ==
  ASSUME NEW C, "]" \in C, ">" \in C, CdataStart \in C,
         NEW t \in Seq(C), NEW m \in Nat, m <= Len(t),
         NEW R, R = SectionStates(C), NEW D, D = SectionReader(C)
  PROVE  Split \in Seq(C) /\ Drives(D, R, Split, InSection(t, m), InSection(Append(t, ">"), 0))
<1> DEFINE br == "]"
           gt == ">"
<1>1. PICK cs : cs = CdataStart
  OBVIOUS
<1>3. br \in C /\ gt \in C /\ cs \in C /\ gt # br
  BY <1>1, Zenon
<1>2. PICK r0, r1, r2, r3, p, q : /\ r0 = InSection(t, m) /\ r1 = AfterSection(t, m + 2)
                                /\ r2 = InSection(t, 0) /\ r3 = InSection(Append(t, gt), 0)
                                /\ p = <<br, br, gt>> /\ q = <<cs, gt>>
  OBVIOUS
<1>4. Drives(D, R, p, r0, r1) /\ p \in Seq(C)
  BY <1>2, SectionEnds, Zenon
<1>5. Section(r1, cs) = r2
  <2>1. m + 2 \in Nat
    OBVIOUS
  <2>. QED
    BY <1>1, <1>2, <2>1, SectionSteps, Zenon
<1>6. Section(r2, gt) = r3
  <2>1. 0 \in Nat /\ ~ (0 >= 2)
    OBVIOUS
  <2>2. Section(InSection(t, 0), gt) = InSection(Append(t, gt), IF gt = br THEN 0 + 1 ELSE 0)
    BY <2>1, SectionSteps, Zenon
  <2>. QED
    BY <1>3, <1>2, <2>2, Zenon
<1>7. r0 \in R /\ r1 \in R /\ r2 \in R /\ r3 \in R
  <2>1. /\ Append(t, gt) \in Seq(C) /\ m + 2 \in Nat /\ 0 \in Nat
        /\ 0 <= Len(t) /\ 0 <= Len(Append(t, gt))
    BY <1>3, AppendProperties, LenProperties
  <2>. QED
    BY <1>2, <2>1, SectionStated, Zenon
<1>8. Reader(D, R, C) /\ SectionsBy(D, R, C)
  BY SectionReads, Zenon
<1>9. D[<<r1, cs>>] = r2 /\ D[<<r2, gt>>] = r3
  BY <1>3, <1>5, <1>6, <1>7, <1>8, Zenon DEF SectionsBy
<1>10. Split = p \o q
  <2>1. Split = <<br, br, gt, cs, gt>>
    BY <1>1, Zenon DEF Split
  <2>2. <<br, br, gt, cs, gt>> = <<br, br, gt>> \o <<cs, gt>>
    BY SplitInARow
  <2>. QED
    BY <1>2, <2>1, <2>2, Zenon
<1>. HIDE DEF br, gt
<1>11. Drives(D, R, q, r1, r3) /\ q \in Seq(C)
  <2>1. <<cs, gt>> \in Seq(C) /\ Drives(D, R, <<cs, gt>>, r1, r3)
    BY <1>3, <1>7, <1>8, <1>9, DrivesTwo
  <2>. QED
    BY <1>2, <2>1, Zenon
<1>12. p \o q \in Seq(C) /\ Drives(D, R, p \o q, r0, r3)
  <2>1. Reader(D, R, C) /\ p \in Seq(C) /\ q \in Seq(C)
        /\ Drives(D, R, p, r0, r1) /\ Drives(D, R, q, r1, r3)
    BY <1>4, <1>8, <1>11
  <2>. HIDE <1>4, <1>8, <1>11
  <2>. QED
    BY <2>1, DrivesOn
<1>. QED
  BY <1>2, <1>10, <1>12, Zenon DEF gt

\* How many brackets each part of s ends in.
BracketsOf(b, s) ==
  /\ b \in [0 .. Len(s) -> Nat] /\ b[0] = 0
  /\ \A k \in Nat : k + 1 <= Len(s) => b[k + 1] = IF s[k + 1] = "]" THEN b[k] + 1 ELSE 0

\* They are among its last characters.
LEMMA BracketsCounted ==
  ASSUME NEW C, NEW s \in Seq(C)
  PROVE  \E b : /\ BracketsOf(b, s)
                /\ \A k \in 0 .. Len(s) :
                     /\ b[k] <= k /\ (b[k] >= 1 => s[k] = "]")
                     /\ b[k] >= 2 => s[k - 1] = "]"
<1> PICK n, br : n = Len(s) /\ br = "]"
  OBVIOUS
<1> DEFINE G == [x \in (1 .. n) \X Nat |-> IF s[x[1]] = br THEN x[2] + 1 ELSE 0]
<1>1. n \in Nat /\ 0 \in Nat
  BY LenProperties
<1>2. G \in Steps(n, Nat)
  BY DEF Steps
<1>3. \A k \in 1 .. n, m \in Nat : G[<<k, m>>] = IF s[k] = br THEN m + 1 ELSE 0
  OBVIOUS
<1>. HIDE DEF G
<1>4. PICK b : Passes(b, n, Nat, 0, G)
  BY <1>1, <1>2, Along, Zenon
<1>5. b \in [0 .. n -> Nat] /\ b[0] = 0 /\ \A k \in 1 .. n : b[k] = G[<<k, b[k - 1]>>]
  BY <1>4, Zenon DEF Passes
<1>6. ASSUME NEW k \in Nat, k + 1 <= n
      PROVE  b[k + 1] = IF s[k + 1] = br THEN b[k] + 1 ELSE 0
  <2>1. k + 1 \in 1 .. n /\ (k + 1) - 1 = k /\ k \in 0 .. n
    BY <1>1, <1>6
  <2>2. b[k + 1] = G[<<k + 1, b[(k + 1) - 1]>>]
    BY <1>5, <2>1, Zenon
  <2>3. b[k] \in Nat /\ b[k + 1] = G[<<k + 1, b[k]>>]
    BY <1>5, <2>1, <2>2
  <2>. QED
    BY <1>3, <2>1, <2>3, Zenon
<1> DEFINE EndsIn(k) == /\ b[k] <= k /\ (b[k] >= 1 => s[k] = br)
                        /\ b[k] >= 2 => s[k - 1] = br
           T == {k \in Nat : k <= n => EndsIn(k)}
<1>7. EndsIn(0)
  BY <1>5
<1>8. ASSUME NEW k \in Nat, k + 1 <= n, EndsIn(k) PROVE EndsIn(k + 1)
  <2>1. b[k] <= k /\ (b[k] >= 1 => s[k] = br)
    BY <1>8
  <2>2. b[k + 1] = IF s[k + 1] = br THEN b[k] + 1 ELSE 0
    BY <1>6, <1>8
  <2>3. b[k] \in Nat /\ (k + 1) - 1 = k
    BY <1>1, <1>5, <1>8
  <2>. QED
    BY <2>1, <2>2, <2>3
<1>. HIDE DEF EndsIn
<1>9. 0 \in T /\ \A k \in Nat : k \in T => k + 1 \in T
  BY <1>1, <1>7, <1>8
<1>. HIDE DEF T
<1>10. Nat \subseteq T
  BY <1>9, Counted0, Zenon
<1>11. \A k \in 0 .. n : EndsIn(k)
  BY <1>1, <1>10 DEF T
<1>12. BracketsOf(b, s)
  BY <1>5, <1>6, Zenon DEF BracketsOf
<1>. QED
  BY <1>11, <1>12 DEF EndsIn

\* The first k + 1 characters are the first k and the next.
LEMMA PrefixGrows ==
  ASSUME NEW C, NEW s \in Seq(C), NEW k \in Nat, k + 1 <= Len(s)
  PROVE  /\ SubSeq(s, 1, k) \in Seq(C) /\ Len(SubSeq(s, 1, k)) = k
         /\ SubSeq(s, 1, k + 1) = Append(SubSeq(s, 1, k), s[k + 1])
<1> PICK p, q, n, x : p = SubSeq(s, 1, k) /\ q = SubSeq(s, 1, k + 1) /\ n = Len(s) /\ x = s[k + 1]
  OBVIOUS
<1>1. n \in Nat /\ k <= n /\ k + 1 \in 1 .. n /\ x \in C
  BY LenProperties, ElementOfSeq
<1>2. p \in Seq(C) /\ Len(p) = k /\ \A i \in 1 .. k : p[i] = s[i]
  BY <1>1, SubSeqProperties
<1>3. q \in Seq(C) /\ Len(q) = k + 1 /\ \A i \in 1 .. k + 1 : q[i] = s[i]
  BY <1>1, SubSeqProperties
<1> PICK r : r = Append(p, x)
  OBVIOUS
<1>4. /\ r \in Seq(C) /\ Len(r) = k + 1 /\ r[k + 1] = x
      /\ \A i \in 1 .. k : r[i] = p[i]
  BY <1>1, <1>2, AppendProperties
<1>5. \A i \in 1 .. k + 1 : r[i] = q[i]
  BY <1>1, <1>2, <1>3, <1>4
<1>6. r = q
  BY <1>3, <1>4, <1>5, SeqEqual
<1>. QED
  BY <1>2, <1>6

\* Three characters in a row.
LEMMA ThreeAt ==
  ASSUME NEW C, NEW s \in Seq(C), NEW i \in Nat, i > 2, i <= Len(s), NEW x, NEW y, NEW z
  PROVE  SubSeq(s, i - 2, i) = <<x, y, z>> <=> s[i - 2] = x /\ s[i - 1] = y /\ s[i] = z
<1> PICK n, q, u : n = Len(s) /\ q = SubSeq(s, i - 2, i) /\ u = <<x, y, z>>
  OBVIOUS
<1>1. n \in Nat /\ i - 2 \in 1 .. n + 1 /\ i \in (i - 2) - 1 .. n /\ i - (i - 2) + 1 = 3
  BY LenProperties
<1>2. /\ q \in Seq(C) /\ Len(q) = 3 /\ \A j \in 1 .. 3 : q[j] = s[(i - 2) + j - 1]
  BY <1>1, SubSeqProperties
<1>3. q[1] = s[i - 2] /\ q[2] = s[i - 1] /\ q[3] = s[i]
  <2>1. (i - 2) + 1 - 1 = i - 2 /\ (i - 2) + 2 - 1 = i - 1 /\ (i - 2) + 3 - 1 = i
    OBVIOUS
  <2>2. 1 \in 1 .. 3 /\ 2 \in 1 .. 3 /\ 3 \in 1 .. 3
    OBVIOUS
  <2>3. q[1] = s[(i - 2) + 1 - 1] /\ q[2] = s[(i - 2) + 2 - 1] /\ q[3] = s[(i - 2) + 3 - 1]
    BY <1>2, <2>2
  <2>. QED
    BY <2>1, <2>3
<1>4. u[1] = x /\ u[2] = y /\ u[3] = z
  OBVIOUS
<1>5. ASSUME q[1] = x, q[2] = y, q[3] = z PROVE q = u
  <2>1. q[1] \in C /\ q[2] \in C /\ q[3] \in C
    BY <1>2, ElementOfSeq
  <2>2. x \in C /\ y \in C /\ z \in C
    BY <1>5, <2>1
  <2>3. u \in Seq(C) /\ Len(u) = 3
    BY <2>2
  <2>4. \A j \in 1 .. 3 : j = 1 \/ j = 2 \/ j = 3
    OBVIOUS
  <2>5. \A j \in 1 .. 3 : q[j] = u[j]
    BY <1>4, <1>5, <2>4
  <2>. QED
    BY <1>2, <2>3, <2>5, SeqEqual
<1>. QED
  BY <1>3, <1>4, <1>5

\* A text in sections is read as it was, and the last section is closed.
LEMMA SectionsRight ==
  ASSUME NEW S, NEW s \in Seq(S), NEW r, r = Sections(CdataWrap(s))
  PROVE  r.ok /\ ~r.open /\ r.text = s
<1>1. PICK n, C, R, D, br, gt, cs :
        /\ n = Len(s) /\ C = S \cup {"]", ">", CdataStart}
        /\ R = SectionStates(C) /\ D = SectionReader(C)
        /\ br = "]" /\ gt = ">" /\ cs = CdataStart
  OBVIOUS
<1>2. br \in C /\ gt \in C /\ cs \in C /\ gt # br
  BY <1>1, Zenon
<1>3. s \in Seq(C) /\ n \in Nat /\ DOMAIN s = 1 .. n /\ \A i \in 1 .. n : s[i] \in C
  <2>1. S \subseteq C
    BY <1>1
  <2>2. s \in Seq(C)
    BY <2>1
  <2>. QED
    BY <1>1, <2>2, LenProperties, ElementOfSeq
<1>4. Reader(D, R, C) /\ SectionsBy(D, R, C) /\ NoSection \in R
  BY <1>1, SectionReads, Zenon
<1>5. PICK b : /\ BracketsOf(b, s)
               /\ \A k \in 0 .. n : /\ b[k] <= k /\ (b[k] >= 1 => s[k] = br)
                                    /\ b[k] >= 2 => s[k - 1] = br
  BY <1>1, <1>3, BracketsCounted
<1>6. /\ b \in [0 .. n -> Nat] /\ b[0] = 0
      /\ \A k \in Nat : k + 1 <= n => b[k + 1] = IF s[k + 1] = br THEN b[k] + 1 ELSE 0
  BY <1>1, <1>5, Zenon DEF BracketsOf
<1> DEFINE st == [k \in 0 .. n |-> InSection(SubSeq(s, 1, k), b[k])]
           ss == [i \in DOMAIN s |-> IF EndsAt(s, i) THEN Split ELSE <<s[i]>>]
<1>7. ASSUME NEW k \in 0 .. n
      PROVE  /\ st[k] = InSection(SubSeq(s, 1, k), b[k])
             /\ SubSeq(s, 1, k) \in Seq(C) /\ Len(SubSeq(s, 1, k)) = k
             /\ b[k] \in Nat /\ b[k] <= k /\ st[k] \in R
  <2> PICK p, m : p = SubSeq(s, 1, k) /\ m = b[k]
    OBVIOUS
  <2>1. p \in Seq(C) /\ Len(p) = k
    BY <1>1, <1>3, SubSeqProperties
  <2>2. m \in Nat /\ m <= k
    BY <1>5, <1>6
  <2>3. st[k] = InSection(p, m)
    BY Zenon
  <2>4. InSection(p, m) \in R
    BY <1>1, <2>1, <2>2, SectionStated
  <2>. QED
    BY <2>1, <2>2, <2>3, <2>4, Zenon
<1>8. st \in [0 .. n -> R]
  BY <1>7
<1>9. \A i \in 1 .. n : ss[i] = IF EndsAt(s, i) THEN Split ELSE <<s[i]>>
  BY <1>3
<1>10. Split \in Seq(C)
  <2>1. <<>> \in Seq(C) /\ 0 \in Nat /\ 0 <= Len(<<>>)
    OBVIOUS
  <2>. QED
    BY <1>1, <1>2, <2>1, SectionSplit
<1>11. ss \in Seq(Seq(C)) /\ Len(ss) = n
  <2>1. \A i \in 1 .. n : <<s[i]>> \in Seq(C)
    BY <1>3
  <2>2. ss \in [1 .. n -> Seq(C)]
    BY <1>3, <1>10, <2>1
  <2>. QED
    BY <1>3, <2>2
<1>. HIDE DEF st, ss
<1>12. ASSUME NEW k \in Nat, k + 1 <= n
       PROVE  Drives(D, R, ss[k + 1], st[k], st[k + 1])
  <2>1. k \in 0 .. n /\ k + 1 \in 0 .. n /\ k + 1 \in 1 .. n
    BY <1>3, <1>12
  <2>2. PICK p, m, c : p = SubSeq(s, 1, k) /\ m = b[k] /\ c = s[k + 1]
    OBVIOUS
  <2>3. p \in Seq(C) /\ Len(p) = k /\ m \in Nat /\ m <= k /\ st[k] = InSection(p, m)
        /\ c \in C /\ st[k] \in R /\ st[k + 1] \in R
    BY <1>3, <1>7, <2>1, <2>2
  <2>4. SubSeq(s, 1, k + 1) = Append(p, c)
    BY <1>1, <1>3, <1>12, <2>2, PrefixGrows
  <2>5. b[k + 1] = IF c = br THEN m + 1 ELSE 0
    BY <1>6, <1>12, <2>2, Zenon
  <2>6. st[k + 1] = InSection(Append(p, c), IF c = br THEN m + 1 ELSE 0)
    BY <1>7, <2>1, <2>4, <2>5, Zenon
  <2>7. CASE EndsAt(s, k + 1)
    <3>1. c = gt
      <4>1. k + 1 > 2 /\ SubSeq(s, (k + 1) - 2, k + 1) = <<br, br, gt>>
        BY <1>1, <2>7, Zenon DEF EndsAt
      <4>2. PICK i : i = k + 1
        OBVIOUS
      <4>3. i \in Nat /\ i <= Len(s) /\ i > 2 /\ SubSeq(s, i - 2, i) = <<br, br, gt>>
        BY <1>1, <1>12, <4>1, <4>2
      <4>4. s[i] = gt
        BY <1>3, <4>3, ThreeAt
      <4>. QED
        BY <2>2, <4>2, <4>4
    <3>2. st[k + 1] = InSection(Append(p, gt), 0)
      BY <1>2, <2>6, <3>1, Zenon
    <3>3. Drives(D, R, Split, InSection(p, m), InSection(Append(p, gt), 0))
      BY <1>1, <1>2, <2>3, SectionSplit
    <3>. QED
      BY <1>9, <2>1, <2>3, <2>7, <3>2, <3>3, Zenon
  <2>8. CASE ~EndsAt(s, k + 1)
    <3>1. ~ (c = gt /\ m >= 2)
      <4> SUFFICES ASSUME c = gt, m >= 2 PROVE FALSE
        OBVIOUS
      <4>1. s[k] = br /\ s[k - 1] = br
        BY <1>5, <2>1, <2>2, <2>3
      <4>2. k + 1 \in Nat /\ k + 1 > 2 /\ k + 1 <= Len(s) /\ (k + 1) - 2 = k - 1 /\ (k + 1) - 1 = k
        BY <1>1, <1>12, <2>3
      <4>3. SubSeq(s, (k + 1) - 2, k + 1) = <<br, br, gt>>
        BY <1>3, <2>2, <4>1, <4>2, ThreeAt
      <4>. QED
        BY <1>1, <2>8, <4>2, <4>3, Zenon DEF EndsAt
    <3>2. Section(InSection(p, m), c) = InSection(Append(p, c), IF c = br THEN m + 1 ELSE 0)
      <4>1. ~ (c = ">" /\ m >= 2)
        BY <1>1, <3>1
      <4>2. Section(InSection(p, m), c) = InSection(Append(p, c), IF c = "]" THEN m + 1 ELSE 0)
        BY <2>3, <4>1, SectionSteps
      <4>. QED
        BY <1>1, <4>2, Zenon
    <3>3. D[<<st[k], c>>] = st[k + 1]
      BY <1>4, <2>3, <2>6, <3>2, Zenon DEF SectionsBy
    <3>4. Drives(D, R, <<c>>, st[k], st[k + 1])
      BY <2>3, <3>3, DrivesOne, Zenon
    <3>. QED
      BY <1>9, <2>1, <2>2, <2>8, <3>4, Zenon
  <2>. QED
    BY <2>7, <2>8
<1>13. PICK t, z : t = FlattenSeq(ss) /\ z = b[n] + 2
  OBVIOUS
<1>14. t \in Seq(C) /\ Drives(D, R, t, st[0], st[n])
  BY <1>3, <1>4, <1>8, <1>11, <1>12, <1>13, DrivesAll
<1>15. st[0] = InSection(<<>>, 0) /\ st[n] = InSection(s, b[n]) /\ b[n] \in Nat /\ b[n] <= Len(s)
  <2>1. SubSeq(s, 1, 0) = <<>> /\ SubSeq(s, 1, n) = s
    BY <1>1, <1>3, SubSeqEmpty, SubSeqFull
  <2>2. 0 \in 0 .. n /\ n \in 0 .. n
    BY <1>3
  <2>. QED
    BY <1>1, <1>6, <1>7, <2>1, <2>2
<1>16. PICK u, v : u = <<cs>> /\ v = <<br, br, gt>>
  OBVIOUS
<1>17. u \in Seq(C) /\ Drives(D, R, u, NoSection, st[0])
  <2>1. Section(NoSection, cs) = st[0]
    BY <1>1, <1>15, SectionSteps
  <2>2. st[0] \in R
    BY <1>3, <1>8
  <2>3. D[<<NoSection, cs>>] = st[0]
    BY <1>2, <1>4, <2>1, Zenon DEF SectionsBy
  <2>4. <<cs>> \in Seq(C)
    BY <1>2
  <2>. QED
    BY <1>4, <1>16, <2>2, <2>3, <2>4, DrivesOne, Zenon
<1>18. v \in Seq(C) /\ Drives(D, R, v, st[n], AfterSection(s, z))
  BY <1>1, <1>2, <1>3, <1>13, <1>15, <1>16, SectionEnds
<1>19. u \o t \in Seq(C) /\ Drives(D, R, u \o t, NoSection, st[n])
  BY <1>4, <1>14, <1>17, DrivesOn
<1>20. (u \o t) \o v \in Seq(C) /\ Drives(D, R, (u \o t) \o v, NoSection, AfterSection(s, z))
  BY <1>4, <1>18, <1>19, DrivesOn
<1>21. CdataWrap(s) = (u \o t) \o v
  BY <1>1, <1>13, <1>16, Zenon DEF CdataWrap, ss, EndsAt, Split
<1>22. Drives(D, R, (u \o t) \o v, NoSection, r)
  BY <1>1, <1>20, <1>21, SectionsDriven
<1>23. r = AfterSection(s, z)
  BY <1>20, <1>22, DrivesSame
<1>. QED
  BY <1>23 DEF AfterSection

----------------------------------------------------------------------------
\* Object paths.

\* What the host may have taken so far from a path of tokens of C, and how it goes on.
PathStates(C) ==
  [values : Seq(Seq(C)), value : Seq(C), inside : BOOLEAN, escaped : BOOLEAN]

PathReader(C) == [x \in PathStates(C) \X C |-> Unquote(x[1], x[2])]

\* It starts before the first key.
NoPath == [values |-> <<>>, value |-> <<>>, inside |-> FALSE, escaped |-> FALSE]

\* D reads the tokens of C as Unquote does.
UnquotesBy(D, R, C) == \A r \in R, c \in C : D[<<r, c>>] = Unquote(r, c)

\* Outside of quotes, in them, and after a backslash in them.
Outside(vs, v) == [values |-> vs, value |-> v, inside |-> FALSE, escaped |-> FALSE]

Inside(vs, v) == [values |-> vs, value |-> v, inside |-> TRUE, escaped |-> FALSE]

Escaping(vs, v) == [values |-> vs, value |-> v, inside |-> TRUE, escaped |-> TRUE]

\* What is made of a token.
LEMMA UnquoteTyped ==
  ASSUME NEW C, NEW r \in PathStates(C), NEW c \in C
  PROVE  Unquote(r, c) \in PathStates(C)
<1> PICK u, v, q : u = Append(r.value, c) /\ v = Append(r.values, r.value) /\ q = Unquote(r, c)
  OBVIOUS
<1>1. r \in [values : Seq(Seq(C)), value : Seq(C), inside : BOOLEAN, escaped : BOOLEAN]
  BY DEF PathStates
<1>2. u \in Seq(C) /\ v \in Seq(Seq(C)) /\ <<>> \in Seq(C)
  BY <1>1, AppendProperties
<1>3. \/ q = [r EXCEPT !.escaped = FALSE, !.value = u]
      \/ q = [r EXCEPT !.escaped = TRUE]
      \/ q = [r EXCEPT !.inside = FALSE, !.values = v]
      \/ q = [r EXCEPT !.value = u]
      \/ q = [r EXCEPT !.inside = TRUE, !.value = <<>>]
      \/ q = r
  BY Zenon DEF Unquote
<1>. QED
  BY <1>1, <1>2, <1>3 DEF PathStates

\* It is a reader.
LEMMA PathReads ==
  ASSUME NEW C, NEW R, R = PathStates(C), NEW D, D = PathReader(C)
  PROVE  Reader(D, R, C) /\ UnquotesBy(D, R, C) /\ NoPath \in R
<1>1. D \in [R \X C -> R]
  <2>1. \A x \in R \X C : Unquote(x[1], x[2]) \in R
    <3> TAKE x \in R \X C
    <3>1. x[1] \in R /\ x[2] \in C
      OBVIOUS
    <3>. QED
      BY <3>1, UnquoteTyped, Zenon
  <2>. QED
    BY <2>1, Zenon DEF PathReader
<1>2. \A r \in R, c \in C : D[<<r, c>>] = Unquote(r, c)
  <2> TAKE r \in R, c \in C
  <2>1. <<r, c>> \in R \X C /\ <<r, c>>[1] = r /\ <<r, c>>[2] = c
    OBVIOUS
  <2>. QED
    BY <2>1, Zenon DEF PathReader
<1>3. NoPath \in R
  BY EmptySeq DEF NoPath, PathStates
<1>4. Reader(D, R, C)
  BY <1>1 DEF Reader
<1>. QED
  BY <1>2, <1>3, <1>4, Zenon DEF UnquotesBy

\* PathValues reads a path token by token.
LEMMA PathDriven ==
  ASSUME NEW C, NEW t \in Seq(C), NEW R, R = PathStates(C), NEW D, D = PathReader(C)
  PROVE  \E r : Drives(D, R, t, NoPath, r) /\ PathValues(t) = r.values
<1>0. Reader(D, R, C) /\ UnquotesBy(D, R, C) /\ NoPath \in R
  BY PathReads, Zenon
<1> PICK n : n = Len(t)
  OBVIOUS
<1>1. n \in Nat /\ DOMAIN t = 1 .. n /\ \A k \in 1 .. n : t[k] \in C
  BY LenProperties, ElementOfSeq
<1> DEFINE iter[P \in SUBSET DOMAIN t] ==
             IF P = {} THEN NoPath ELSE Unquote(iter[P \ {Max(P)}], t[Max(P)])
<1>2. FoldLeft(Unquote, NoPath, t) = iter[DOMAIN t]
  BY Zenon DEF FoldLeft, MapThenFoldSet
<1>3. PICK g : Folding(g, D, R, t, NoPath)
  BY <1>0, FoldingExists
<1>4. ASSUME NEW P \in SUBSET (1 .. n), P # {}
      PROVE  Max(P) \in 1 .. n /\ P \ {Max(P)} \in SUBSET (1 .. n) /\ t[Max(P)] \in C
  <2>1. Max(P) \in P
    BY <1>1, <1>4, Greatest
  <2>. QED
    BY <1>1, <2>1
<1>5. g = [P \in SUBSET DOMAIN t |->
             IF P = {} THEN NoPath ELSE Unquote(g[P \ {Max(P)}], t[Max(P)])]
  <2>1. /\ g \in [SUBSET (1 .. n) -> R]
        /\ \A P \in SUBSET (1 .. n) :
             g[P] = IF P = {} THEN NoPath ELSE D[<<g[P \ {Max(P)}], t[Max(P)]>>]
    BY <1>3, Zenon DEF Folding
  <2>2. ASSUME NEW P \in SUBSET (1 .. n), P # {}
        PROVE  g[P] = Unquote(g[P \ {Max(P)}], t[Max(P)])
    <3>1. g[P \ {Max(P)}] \in R /\ t[Max(P)] \in C
      BY <1>4, <2>1, <2>2
    <3>. QED
      BY <1>0, <2>1, <2>2, <3>1, Zenon DEF UnquotesBy
  <2>. QED
    BY <1>1, <2>1, <2>2
<1>6. iter = [P \in SUBSET DOMAIN t |->
                 IF P = {} THEN NoPath ELSE Unquote(iter[P \ {Max(P)}], t[Max(P)])]
  BY <1>5
<1>. HIDE DEF iter
<1>7. iter[{}] = NoPath
  BY <1>6
<1>8. ASSUME NEW P \in SUBSET (1 .. n), P # {}, iter[P \ {Max(P)}] \in R
       PROVE  iter[P] = D[<<iter[P \ {Max(P)}], t[Max(P)]>>]
  <2>1. iter[P] = Unquote(iter[P \ {Max(P)}], t[Max(P)])
    BY <1>1, <1>6, <1>8, Zenon
  <2>. QED
    BY <1>0, <1>4, <1>8, <2>1, Zenon DEF UnquotesBy
<1>9. Follows(iter, D, R, t, NoPath)
  BY <1>7, <1>8, Zenon DEF Follows
<1>10. Drives(D, R, t, NoPath, iter[DOMAIN t])
  BY <1>0, <1>9, FoldingDrives
<1>11. PathValues(t) = FoldLeft(Unquote, NoPath, t).values
  BY Zenon DEF PathValues, NoPath
<1>. QED
  BY <1>2, <1>10, <1>11, Zenon

\* What is made of each token of a quoted value and around it.
LEMMA UnquoteSteps ==
  ASSUME NEW vs, NEW v, NEW c
  PROVE  /\ c # Quote => Unquote(Outside(vs, v), c) = Outside(vs, v)
         /\ Unquote(Outside(vs, v), Quote) = Inside(vs, <<>>)
         /\ c \notin {"\\", Quote} => Unquote(Inside(vs, v), c) = Inside(vs, Append(v, c))
         /\ Unquote(Inside(vs, v), "\\") = Escaping(vs, v)
         /\ Unquote(Inside(vs, v), Quote) = Outside(Append(vs, v), v)
         /\ Unquote(Escaping(vs, v), c) = Inside(vs, Append(v, c))
<1> DEFINE bs == "\\"
<1>1. bs # Quote
  BY Zenon DEF Quote
<1>2. ASSUME c # Quote PROVE Unquote(Outside(vs, v), c) = Outside(vs, v)
  BY <1>2, Zenon DEF Unquote, Outside
<1>3. Unquote(Outside(vs, v), Quote) = Inside(vs, <<>>)
  BY DEF Unquote, Outside, Inside
<1>4. ASSUME c \notin {bs, Quote} PROVE Unquote(Inside(vs, v), c) = Inside(vs, Append(v, c))
  BY <1>4 DEF Unquote, Inside
<1>5. Unquote(Inside(vs, v), bs) = Escaping(vs, v)
  BY DEF Unquote, Inside, Escaping
<1>6. Unquote(Inside(vs, v), Quote) = Outside(Append(vs, v), v)
  BY <1>1 DEF Unquote, Inside, Outside
<1>7. Unquote(Escaping(vs, v), c) = Inside(vs, Append(v, c))
  BY DEF Unquote, Escaping, Inside
<1>. QED
  BY <1>2, <1>3, <1>4, <1>5, <1>6, <1>7

\* A reader of a text is one of it with a token replaced, if it makes of that token
\* what the other makes of the replacement.
Expands(E, D, R, C, x, e) ==
  \A r \in R, c \in C : Drives(D, R, IF c = x THEN e ELSE <<c>>, r, E[<<r, c>>])

\* Reading a text of which one character was replaced is reading the text with a
\* reader that makes of that character what the first one makes of the replacement.
LEMMA ReplacedDrives ==
  ASSUME NEW R, NEW C, NEW D, Reader(D, R, C), NEW E, Reader(E, R, C),
         NEW x, NEW e \in Seq(C), Expands(E, D, R, C, x, e),
         NEW t \in Seq(C), NEW a, NEW b, Drives(E, R, t, a, b)
  PROVE  Replaced(t, x, e) \in Seq(C) /\ Drives(D, R, Replaced(t, x, e), a, b)
<1>1. PICK n, ss : n = Len(t) /\ ss = [i \in DOMAIN t |-> IF t[i] = x THEN e ELSE <<t[i]>>]
  OBVIOUS
<1>2. n \in Nat /\ DOMAIN t = 1 .. n /\ \A i \in 1 .. n : t[i] \in C
  BY <1>1, LenProperties, ElementOfSeq
<1>3. \A i \in 1 .. n : ss[i] = IF t[i] = x THEN e ELSE <<t[i]>>
  BY <1>1, <1>2
<1>4. ss \in Seq(Seq(C)) /\ Len(ss) = n
  <2>1. \A i \in 1 .. n : <<t[i]>> \in Seq(C)
    BY <1>2
  <2>2. ss \in [1 .. n -> Seq(C)]
    BY <1>1, <1>2, <2>1
  <2>. QED
    BY <1>2, <2>2
<1>5. PICK f : Through(f, E, R, t) /\ f[0] = a /\ f[n] = b
  BY <1>1, Zenon DEF Drives
<1>6. /\ f \in [0 .. n -> R]
      /\ \A k \in Nat : k + 1 <= n => f[k + 1] = E[<<f[k], t[k + 1]>>]
  BY <1>1, <1>5, Zenon DEF Through
<1>7. ASSUME NEW k \in Nat, k + 1 <= n PROVE Drives(D, R, ss[k + 1], f[k], f[k + 1])
  <2>1. k \in 0 .. n /\ k + 1 \in 1 .. n
    BY <1>2, <1>7
  <2>2. f[k] \in R /\ t[k + 1] \in C
    BY <1>2, <1>6, <2>1
  <2>3. Drives(D, R, ss[k + 1], f[k], E[<<f[k], t[k + 1]>>])
    BY <1>3, <2>1, <2>2, Zenon DEF Expands
  <2>. QED
    BY <1>6, <1>7, <2>3, Zenon
<1>8. FlattenSeq(ss) \in Seq(C) /\ Drives(D, R, FlattenSeq(ss), f[0], f[n])
  BY <1>2, <1>4, <1>6, <1>7, DrivesAll
<1>9. Replaced(t, x, e) = FlattenSeq(ss)
  BY <1>1, Zenon DEF Replaced
<1>. QED
  BY <1>5, <1>8, <1>9, Zenon

\* The reader that makes of x what D makes of y and z.
Doubled(D, R, C, x, y, z) ==
  [p \in R \X C |-> IF p[2] = x THEN D[<<D[<<p[1], y>>], z>>] ELSE D[p]]

\* It reads one token as the other reads the two.
LEMMA DoubledExpands ==
  ASSUME NEW R, NEW C, NEW D, Reader(D, R, C), NEW x \in C, NEW y \in C, NEW z \in C,
         NEW E, E = Doubled(D, R, C, x, y, z)
  PROVE  /\ Reader(E, R, C) /\ <<y, z>> \in Seq(C) /\ Expands(E, D, R, C, x, <<y, z>>)
         /\ \A r \in R, c \in C :
              E[<<r, c>>] = IF c = x THEN D[<<D[<<r, y>>], z>>] ELSE D[<<r, c>>]
<1>1. \A r \in R, c \in C : D[<<r, c>>] \in R
  BY DEF Reader
<1>2. \A r \in R, c \in C :
        E[<<r, c>>] = IF c = x THEN D[<<D[<<r, y>>], z>>] ELSE D[<<r, c>>]
  BY DEF Doubled
<1>3. E \in [R \X C -> R]
  <2>1. \A p \in R \X C : (IF p[2] = x THEN D[<<D[<<p[1], y>>], z>>] ELSE D[p]) \in R
    <3> TAKE p \in R \X C
    <3>1. p[1] \in R /\ p[2] \in C /\ p = <<p[1], p[2]>>
      OBVIOUS
    <3>2. D[<<p[1], y>>] \in R /\ D[<<p[1], p[2]>>] \in R
      BY <1>1, <3>1
    <3>3. D[<<D[<<p[1], y>>], z>>] \in R /\ D[p] \in R
      BY <1>1, <3>1, <3>2
    <3>. QED
      BY <3>3
  <2>. QED
    BY <2>1, Zenon DEF Doubled
<1>4. ASSUME NEW r \in R, NEW c \in C
      PROVE  Drives(D, R, IF c = x THEN <<y, z>> ELSE <<c>>, r, E[<<r, c>>])
  <2>1. CASE c = x
    <3>1. PICK q, u : q = D[<<r, y>>] /\ u = D[<<q, z>>]
      OBVIOUS
    <3>2. q \in R /\ u \in R
      BY <1>1, <3>1
    <3>3. Drives(D, R, <<y, z>>, r, u)
      BY <3>1, <3>2, DrivesTwo
    <3>4. E[<<r, c>>] = u
      BY <1>2, <2>1, <3>1, Zenon
    <3>. QED
      BY <2>1, <3>3, <3>4, Zenon
  <2>2. CASE c # x
    <3>1. PICK u : u = D[<<r, c>>]
      OBVIOUS
    <3>2. u \in R /\ E[<<r, c>>] = u
      BY <1>1, <1>2, <2>2, <3>1, Zenon
    <3>3. Drives(D, R, <<c>>, r, u)
      BY <3>1, <3>2, DrivesOne, Zenon
    <3>. QED
      BY <2>2, <3>2, <3>3, Zenon
  <2>. QED
    BY <2>1, <2>2
<1>5. Expands(E, D, R, C, x, <<y, z>>)
  BY <1>4, Zenon DEF Expands
<1>6. Reader(E, R, C) /\ <<y, z>> \in Seq(C)
  BY <1>3 DEF Reader
<1>. QED
  BY <1>2, <1>5, <1>6, Zenon

\* An escaped value between quotes is read as it was.
LEMMA EscapedRead ==
  ASSUME NEW C, "\\" \in C, Quote \in C, NEW t \in Seq(C), NEW vs \in Seq(Seq(C)),
         NEW R, R = PathStates(C), NEW D, D = PathReader(C)
  PROVE  /\ WmiPathValueEscape(t) \in Seq(C)
         /\ Drives(D, R, WmiPathValueEscape(t), Inside(vs, <<>>), Inside(vs, t))
<1>1. PICK bs, qu, E, F, w : /\ bs = "\\" /\ qu = Quote
                             /\ E = Doubled(D, R, C, qu, bs, qu)
                             /\ F = Doubled(E, R, C, bs, bs, bs)
                             /\ w = Replaced(t, bs, <<bs, bs>>)
  OBVIOUS
<1>2. bs \in C /\ qu \in C /\ bs # qu
  BY <1>1, Zenon DEF Quote
<1>3. Reader(D, R, C) /\ UnquotesBy(D, R, C)
  BY PathReads, Zenon
<1>4. /\ Reader(E, R, C) /\ <<bs, qu>> \in Seq(C) /\ Expands(E, D, R, C, qu, <<bs, qu>>)
      /\ \A r \in R, c \in C :
           E[<<r, c>>] = IF c = qu THEN D[<<D[<<r, bs>>], qu>>] ELSE D[<<r, c>>]
  BY <1>1, <1>2, <1>3, DoubledExpands
<1>5. /\ Reader(F, R, C) /\ <<bs, bs>> \in Seq(C) /\ Expands(F, E, R, C, bs, <<bs, bs>>)
      /\ \A r \in R, c \in C :
           F[<<r, c>>] = IF c = bs THEN E[<<E[<<r, bs>>], bs>>] ELSE E[<<r, c>>]
  BY <1>1, <1>2, <1>4, DoubledExpands
<1>6. ASSUME NEW v \in Seq(C)
      PROVE  Inside(vs, v) \in R /\ Escaping(vs, v) \in R
  BY DEF Inside, Escaping, PathStates
<1>7. ASSUME NEW v \in Seq(C), NEW c \in C
      PROVE  F[<<Inside(vs, v), c>>] = Inside(vs, Append(v, c))
  <2>1. PICK a, b, g : a = Inside(vs, v) /\ b = Escaping(vs, v) /\ g = Inside(vs, Append(v, c))
    OBVIOUS
  <2>2. a \in R /\ b \in R
    BY <1>6, <2>1
  <2>3. /\ Unquote(a, bs) = b /\ Unquote(b, c) = g
        /\ c \notin {bs, qu} => Unquote(a, c) = g
    BY <1>1, <2>1, UnquoteSteps
  <2>4. /\ D[<<a, bs>>] = b /\ D[<<b, c>>] = g
        /\ c \notin {bs, qu} => D[<<a, c>>] = g
    BY <1>2, <1>3, <2>2, <2>3, Zenon DEF UnquotesBy
  <2>5. CASE c = bs
    <3>1. E[<<a, bs>>] = b /\ E[<<b, bs>>] = g
      BY <1>2, <1>4, <2>2, <2>4, <2>5, Zenon
    <3>2. F[<<a, c>>] = g
      BY <1>2, <1>5, <2>2, <2>5, <3>1, Zenon
    <3>. QED
      BY <2>1, <3>2
  <2>6. CASE c = qu
    <3>1. E[<<a, qu>>] = g
      BY <1>2, <1>4, <2>2, <2>4, <2>6, Zenon
    <3>2. F[<<a, c>>] = g
      BY <1>2, <1>5, <2>2, <2>6, <3>1, Zenon
    <3>. QED
      BY <2>1, <3>2
  <2>7. CASE c \notin {bs, qu}
    <3>1. E[<<a, c>>] = g
      BY <1>4, <2>2, <2>4, <2>7
    <3>2. F[<<a, c>>] = g
      BY <1>5, <2>2, <2>7, <3>1
    <3>. QED
      BY <2>1, <3>2
  <2>. QED
    BY <2>5, <2>6, <2>7
<1>8. Drives(F, R, t, Inside(vs, <<>>), Inside(vs, t))
  <2>1. PICK n : n = Len(t)
    OBVIOUS
  <2>2. n \in Nat /\ \A i \in 1 .. n : t[i] \in C
    BY <2>1, LenProperties, ElementOfSeq
  <2> DEFINE f == [k \in 0 .. n |-> Inside(vs, SubSeq(t, 1, k))]
  <2>3. ASSUME NEW k \in 0 .. n
        PROVE  f[k] = Inside(vs, SubSeq(t, 1, k)) /\ SubSeq(t, 1, k) \in Seq(C) /\ f[k] \in R
    <3>1. f[k] = Inside(vs, SubSeq(t, 1, k))
      BY Zenon
    <3>2. SubSeq(t, 1, k) \in Seq(C)
      BY <2>1, <2>2, SubSeqProperties
    <3>3. Inside(vs, SubSeq(t, 1, k)) \in R
      BY <1>6, <3>2, Zenon
    <3>. QED
      BY <3>1, <3>2, <3>3, Zenon
  <2>4. f \in [0 .. n -> R]
    BY <2>3
  <2>. HIDE DEF f
  <2>5. ASSUME NEW k \in Nat, k + 1 <= n PROVE f[k + 1] = F[<<f[k], t[k + 1]>>]
    <3>1. k \in 0 .. n /\ k + 1 \in 0 .. n /\ k + 1 \in 1 .. n
      BY <2>2, <2>5
    <3>2. PICK v, c : v = SubSeq(t, 1, k) /\ c = t[k + 1]
      OBVIOUS
    <3>3. v \in Seq(C) /\ c \in C /\ f[k] = Inside(vs, v)
      BY <2>2, <2>3, <3>1, <3>2
    <3>4. SubSeq(t, 1, k + 1) = Append(v, c)
      BY <2>1, <2>5, <3>2, PrefixGrows
    <3>5. f[k + 1] = Inside(vs, Append(v, c))
      BY <2>3, <3>1, <3>4, Zenon
    <3>. QED
      BY <1>7, <3>2, <3>3, <3>5, Zenon
  <2>6. f[0] = Inside(vs, <<>>) /\ f[n] = Inside(vs, t)
    <3>1. SubSeq(t, 1, 0) = <<>> /\ SubSeq(t, 1, n) = t
      BY <2>1, SubSeqEmpty, SubSeqFull
    <3>2. 0 \in 0 .. n /\ n \in 0 .. n
      BY <2>2
    <3>. QED
      BY <2>3, <3>1, <3>2, Zenon
  <2>. QED
    BY <2>1, <2>4, <2>5, <2>6, Zenon DEF Drives, Through
<1>9. w \in Seq(C) /\ Drives(E, R, w, Inside(vs, <<>>), Inside(vs, t))
  BY <1>1, <1>4, <1>5, <1>8, ReplacedDrives
<1>10. /\ Replaced(w, qu, <<bs, qu>>) \in Seq(C)
       /\ Drives(D, R, Replaced(w, qu, <<bs, qu>>), Inside(vs, <<>>), Inside(vs, t))
  BY <1>3, <1>4, <1>9, ReplacedDrives
<1>. QED
  BY <1>1, <1>10, Zenon DEF WmiPathValueEscape

\* One token is a text.
LEMMA OneToken ==
  ASSUME NEW C, NEW c \in C
  PROVE  <<c>> \in Seq(C)
  OBVIOUS

\* A key of a path, and the values before it.
KeyOf(values, k) ==
  (IF k = 1 THEN <<".">> ELSE <<",">>)
    \o <<"key", Quote>> \o WmiPathValueEscape(values[k]) \o <<Quote>>

\* The keys of a path are read one after the other.
LEMMA KeyRead ==
  ASSUME NEW C, {"\\", Quote, "class", ".", ",", "key"} \subseteq C,
         NEW values, NEW k, NEW x \in Seq(C), x = values[k], NEW vs \in Seq(Seq(C)), NEW v \in Seq(C),
         NEW R, R = PathStates(C), NEW D, D = PathReader(C)
  PROVE  /\ KeyOf(values, k) \in Seq(C)
         /\ Drives(D, R, KeyOf(values, k), Outside(vs, v), Outside(Append(vs, x), x))
<1>1. PICK qu, key, sep : qu = Quote /\ key = "key" /\ sep = IF k = 1 THEN "." ELSE ","
  OBVIOUS
<1>2. qu \in C /\ key \in C /\ sep \in C /\ key # qu /\ sep # qu /\ "\\" \in C
  BY <1>1, Zenon DEF Quote
<1>3. Reader(D, R, C) /\ UnquotesBy(D, R, C)
  BY PathReads, Zenon
<1>4. PICK r0, r1, r2, r3 : /\ r0 = Outside(vs, v) /\ r1 = Inside(vs, <<>>)
                            /\ r2 = Inside(vs, x) /\ r3 = Outside(Append(vs, x), x)
  OBVIOUS
<1>5. r0 \in R /\ r1 \in R /\ r2 \in R /\ r3 \in R
  <2>1. Append(vs, x) \in Seq(Seq(C)) /\ <<>> \in Seq(C)
    <3>1. PICK Q : Q = Seq(C)
      OBVIOUS
    <3>2. vs \in Seq(Q) /\ x \in Q
      BY <3>1
    <3>3. Append(vs, x) \in Seq(Q)
      BY <3>2, AppendProperties
    <3>. QED
      BY <3>1, <3>3, EmptySeq
  <2>. QED
    BY <1>4, <2>1 DEF PathStates, Outside, Inside
<1>6. /\ Unquote(r0, sep) = r0 /\ Unquote(r0, key) = r0 /\ Unquote(r0, qu) = r1
      /\ Unquote(r2, qu) = r3
  BY <1>1, <1>2, <1>4, UnquoteSteps
<1>7. D[<<r0, sep>>] = r0 /\ D[<<r0, key>>] = r0 /\ D[<<r0, qu>>] = r1 /\ D[<<r2, qu>>] = r3
  BY <1>2, <1>3, <1>5, <1>6, Zenon DEF UnquotesBy
<1>8. PICK a, b, c, d : a = <<sep>> /\ b = <<key, qu>> /\ c = WmiPathValueEscape(x) /\ d = <<qu>>
  OBVIOUS
<1>9. a \in Seq(C) /\ Drives(D, R, a, r0, r0)
  <2>1. <<sep>> \in Seq(C)
    BY <1>2, OneToken, Zenon
  <2>. QED
    BY <1>5, <1>7, <1>8, <2>1, DrivesOne, Zenon
<1>10. b \in Seq(C) /\ Drives(D, R, b, r0, r1)
  BY <1>2, <1>3, <1>5, <1>7, <1>8, DrivesTwo
<1>11. c \in Seq(C) /\ Drives(D, R, c, r1, r2)
  BY <1>1, <1>2, <1>4, <1>8, EscapedRead
<1>12. d \in Seq(C) /\ Drives(D, R, d, r2, r3)
  <2>1. <<qu>> \in Seq(C)
    BY <1>2, OneToken, Zenon
  <2>. QED
    BY <1>5, <1>7, <1>8, <2>1, DrivesOne, Zenon
<1>13. a \o b \in Seq(C) /\ Drives(D, R, a \o b, r0, r1)
  BY <1>3, <1>9, <1>10, DrivesOn
<1>14. (a \o b) \o c \in Seq(C) /\ Drives(D, R, (a \o b) \o c, r0, r2)
  BY <1>3, <1>11, <1>13, DrivesOn
<1>15. ((a \o b) \o c) \o d \in Seq(C) /\ Drives(D, R, ((a \o b) \o c) \o d, r0, r3)
  BY <1>3, <1>12, <1>14, DrivesOn
<1>16. KeyOf(values, k) = ((a \o b) \o c) \o d
  <2>1. a = IF k = 1 THEN <<".">> ELSE <<",">>
    BY <1>1, <1>8, Zenon
  <2>. QED
    BY <1>1, <1>8, <2>1, Zenon DEF KeyOf
<1>. QED
  BY <1>4, <1>15, <1>16, Zenon

\* The values of a path are those it was made of.
LEMMA PathRight ==
  ASSUME NEW S, NEW values \in Seq(Seq(S))
  PROVE  PathValues(WmiObjectPath(values)) = values
<1>1. PICK n, C, R, D : /\ n = Len(values)
                        /\ C = S \cup {"\\", Quote, "class", ".", ",", "key"}
                        /\ R = PathStates(C) /\ D = PathReader(C)
  OBVIOUS
<1>2. /\ {"\\", Quote, "class", ".", ",", "key"} \subseteq C
      /\ "class" \in C /\ "class" # Quote
  BY <1>1, Zenon DEF Quote
<1>3. /\ n \in Nat /\ DOMAIN values = 1 .. n
      /\ values \in Seq(Seq(C)) /\ \A k \in 1 .. n : values[k] \in Seq(C)
  <2>1. S \subseteq C
    BY <1>1, Zenon
  <2>2. values \in Seq(Seq(C))
    <3>1. PICK P, Q : P = Seq(S) /\ Q = Seq(C)
      OBVIOUS
    <3>2. P \subseteq Q
      BY <2>1, <3>1, SeqMonotonic
    <3>3. values \in Seq(Q)
      BY <3>1, <3>2, SeqMonotonic
    <3>. QED
      BY <3>1, <3>3
  <2>. QED
    BY <1>1, <2>2, LenProperties, ElementOfSeq
<1>4. Reader(D, R, C) /\ UnquotesBy(D, R, C)
  BY <1>1, PathReads, Zenon
<1> DEFINE last(k) == IF k = 0 THEN <<>> ELSE values[k]
           st == [k \in 0 .. n |-> Outside(SubSeq(values, 1, k), last(k))]
           ss == [k \in DOMAIN values |-> KeyOf(values, k)]
<1>5. ASSUME NEW k \in 0 .. n
      PROVE  /\ st[k] = Outside(SubSeq(values, 1, k), last(k))
             /\ SubSeq(values, 1, k) \in Seq(Seq(C)) /\ last(k) \in Seq(C) /\ st[k] \in R
  <2>1. PICK vs, v : vs = SubSeq(values, 1, k) /\ v = last(k)
    OBVIOUS
  <2>2. vs \in Seq(Seq(C))
    <3>1. PICK Q : Q = Seq(C)
      OBVIOUS
    <3>2. 1 \in Int /\ k \in Int /\ \A i \in 1 .. k : values[i] \in Q
      BY <1>3, <3>1
    <3>3. SubSeq(values, 1, k) \in Seq(Q)
      BY <3>2, SubSeqProperties
    <3>. QED
      BY <2>1, <3>1, <3>3
  <2>3. v \in Seq(C)
    BY <1>3, <2>1
  <2>4. st[k] = Outside(SubSeq(values, 1, k), last(k))
    BY Zenon
  <2>5. Outside(vs, v) \in R
    BY <1>1, <2>2, <2>3 DEF Outside, PathStates
  <2>. QED
    BY <2>1, <2>2, <2>3, <2>4, <2>5, Zenon
<1>6. st \in [0 .. n -> R]
  BY <1>5
<1>7. last(0) = <<>> /\ \A k \in Nat : last(k + 1) = values[k + 1]
  OBVIOUS
<1>8. \A k \in 1 .. n : ss[k] = KeyOf(values, k)
  BY <1>3
<1>. HIDE DEF st, last
<1>9. ASSUME NEW k \in Nat, k + 1 <= n
      PROVE  ss[k + 1] \in Seq(C) /\ Drives(D, R, ss[k + 1], st[k], st[k + 1])
  <2>1. k \in 0 .. n /\ k + 1 \in 0 .. n /\ k + 1 \in 1 .. n
    BY <1>3, <1>9
  <2>2. PICK vs, v, x : vs = SubSeq(values, 1, k) /\ v = last(k) /\ x = values[k + 1]
    OBVIOUS
  <2>3. vs \in Seq(Seq(C)) /\ v \in Seq(C) /\ x \in Seq(C) /\ st[k] = Outside(vs, v)
    BY <1>3, <1>5, <2>1, <2>2
  <2>4. SubSeq(values, 1, k + 1) = Append(vs, x)
    BY <1>1, <1>3, <1>9, <2>2, PrefixGrows
  <2>5. st[k + 1] = Outside(Append(vs, x), x)
    BY <1>5, <1>7, <2>1, <2>2, <2>4, Zenon
  <2>6. /\ KeyOf(values, k + 1) \in Seq(C)
        /\ Drives(D, R, KeyOf(values, k + 1), Outside(vs, v), Outside(Append(vs, x), x))
    BY <1>1, <1>2, <2>2, <2>3, KeyRead
  <2>. QED
    BY <1>8, <2>1, <2>3, <2>5, <2>6, Zenon
<1>10. ss \in Seq(Seq(C)) /\ Len(ss) = n
  <2>1. \A i \in 1 .. n : KeyOf(values, i) \in Seq(C)
    <3> TAKE i \in 1 .. n
    <3>1. i - 1 \in Nat /\ (i - 1) + 1 = i /\ (i - 1) + 1 <= n
      BY <1>3
    <3>. QED
      BY <1>8, <1>9, <3>1
  <2>2. ss \in [1 .. n -> Seq(C)]
    BY <1>3, <2>1
  <2>. QED
    BY <1>3, <2>2
<1>. HIDE DEF ss
<1>11. PICK t, u : t = FlattenSeq(ss) /\ u = <<"class">>
  OBVIOUS
<1>12. t \in Seq(C) /\ Drives(D, R, t, st[0], st[n])
  BY <1>3, <1>4, <1>6, <1>9, <1>10, <1>11, DrivesAll
<1>13. st[0] = NoPath /\ st[0] \in R /\ SubSeq(values, 1, n) = values
       /\ st[n] = Outside(values, last(n))
  <2>1. SubSeq(values, 1, 0) = <<>> /\ SubSeq(values, 1, n) = values
    <3>1. PICK Q : Q = Seq(C)
      OBVIOUS
    <3>2. values \in Seq(Q) /\ n = Len(values)
      BY <1>1, <1>3, <3>1
    <3>. QED
      BY <3>2, SubSeqEmpty, SubSeqFull
  <2>2. 0 \in 0 .. n /\ n \in 0 .. n
    BY <1>3
  <2>3. st[0] = Outside(<<>>, <<>>)
    BY <1>5, <1>7, <2>1, <2>2, Zenon
  <2>. QED
    BY <1>5, <2>1, <2>2, <2>3, Zenon DEF Outside, NoPath
<1>14. u \in Seq(C) /\ Drives(D, R, u, NoPath, st[0])
  <2>1. PICK c : c = "class"
    OBVIOUS
  <2>2. Unquote(Outside(<<>>, <<>>), c) = Outside(<<>>, <<>>)
    BY <1>2, <2>1, UnquoteSteps, Zenon
  <2>3. Unquote(NoPath, c) = NoPath
    BY <2>2, Zenon DEF NoPath, Outside
  <2>4. D[<<NoPath, c>>] = NoPath
    BY <1>2, <1>4, <1>13, <2>1, <2>3, Zenon DEF UnquotesBy
  <2>5. <<c>> \in Seq(C)
    BY <1>2, <2>1, OneToken, Zenon
  <2>6. Drives(D, R, <<c>>, NoPath, NoPath)
    BY <1>13, <2>4, DrivesOne, Zenon
  <2>. QED
    BY <1>11, <1>13, <2>1, <2>5, <2>6, Zenon
<1>15. u \o t \in Seq(C) /\ Drives(D, R, u \o t, NoPath, st[n])
  BY <1>4, <1>12, <1>14, DrivesOn
<1>16. WmiObjectPath(values) = u \o t
  BY <1>11, Zenon DEF WmiObjectPath, Keys, ss, KeyOf
<1>17. PICK r : Drives(D, R, u \o t, NoPath, r) /\ PathValues(u \o t) = r.values
  BY <1>1, <1>15, PathDriven
<1>18. r = st[n]
  BY <1>15, <1>17, DrivesSame
<1>. QED
  BY <1>13, <1>16, <1>17, <1>18 DEF Outside

----------------------------------------------------------------------------
\* Parents.

\* i is the first place of c in s, or 0 if there is none.
FirstAt(s, c, i) ==
  IF \E k \in DOMAIN s : s[k] = c
    THEN i \in DOMAIN s /\ s[i] = c /\ \A k \in 1 .. i - 1 : s[k] # c
    ELSE i = 0

\* SelectInSeq finds that place.
LEMMA SelectFirst ==
  ASSUME NEW A, NEW s \in Seq(A), NEW c, NEW i, i = SelectInSeq(s, LAMBDA x : x = c)
  PROVE  FirstAt(s, c, i)
<1>1. PICK n, I : n = Len(s) /\ I = {k \in 1 .. n : s[k] = c}
  OBVIOUS
<1>2. n \in Nat /\ DOMAIN s = 1 .. n
  BY <1>1, LenProperties
<1>3. i = IF I # {} THEN Min(I) ELSE 0
  BY <1>1, Zenon DEF SelectInSeq
<1>4. I \in SUBSET Nat /\ \A k : k \in I <=> k \in DOMAIN s /\ s[k] = c
  BY <1>1, <1>2
<1>5. CASE I = {}
  BY <1>3, <1>4, <1>5, Zenon DEF FirstAt
<1>6. CASE I # {}
  <2>1. i \in I /\ \A y \in I : i <= y
    <3>1. I \in SUBSET Nat
      BY <1>4
    <3>2. Min(I) \in I /\ \A y \in I : Min(I) <= y
      BY <1>6, <3>1, Smallest
    <3>. QED
      BY <1>3, <1>6, <3>2, Zenon
  <2>2. i \in DOMAIN s /\ s[i] = c
    BY <1>4, <2>1
  <2>3. \A k \in 1 .. i - 1 : k \in DOMAIN s /\ ~ (i <= k)
    BY <1>2, <2>2
  <2>4. \A k \in 1 .. i - 1 : s[k] # c
    BY <1>4, <2>1, <2>3, Zenon
  <2>. QED
    BY <2>2, <2>4, Zenon DEF FirstAt
<1>. QED
  BY <1>5, <1>6

\* The parent is what stands between the marker and the next quote.
LEMMA ParentRight ==
  ASSUME NEW A, NEW s \in Seq(A)
  PROVE  ParentRead(s, ParentSnapshotID(s))
<1>1. PICK n, i, rest, j, a, mk, qu :
        /\ n = Len(s) /\ mk = Marker /\ qu = Quote
        /\ i = SelectInSeq(s, LAMBDA x : x = Marker)
        /\ rest = SubSeq(s, i + 1, n)
        /\ j = SelectInSeq(rest, LAMBDA x : x = Quote)
        /\ a = ParentSnapshotID(s)
  OBVIOUS
<1>2. a = IF i = 0 \/ j = 0 THEN <<>> ELSE SubSeq(rest, 1, j - 1)
  BY <1>1, Zenon DEF ParentSnapshotID
<1>3. n \in Nat /\ DOMAIN s = 1 .. n /\ \A k \in 1 .. n : s[k] \in A
  BY <1>1, LenProperties, ElementOfSeq
<1>4. FirstAt(s, mk, i)
  <2>1. FirstAt(s, Marker, i)
    BY <1>1, SelectFirst, Zenon
  <2>. QED
    BY <1>1, <2>1, Zenon
<1> DEFINE Span(u, v) == /\ u < v /\ s[u] = mk /\ s[v] = qu
                         /\ \A k \in 1 .. u - 1 : s[k] # mk
                         /\ \A k \in u + 1 .. v - 1 : s[k] # qu
           spans == {x \in (DOMAIN s) \X (DOMAIN s) : Span(x[1], x[2])}
<1>5. /\ spans = {} => a = <<>>
      /\ \A x \in spans : a = SubSeq(s, x[1] + 1, x[2] - 1)
  <2>1. CASE ~ \E k \in DOMAIN s : s[k] = mk
    <3>1. i = 0 /\ spans = {}
      BY <1>4, <2>1 DEF FirstAt
    <3>. QED
      BY <1>2, <3>1
  <2>2. CASE \E k \in DOMAIN s : s[k] = mk
    <3>1. i \in 1 .. n /\ s[i] = mk /\ \A k \in 1 .. i - 1 : s[k] # mk
      BY <1>3, <1>4, <2>2, Zenon DEF FirstAt
    <3>2. PICK m : m = n - i
      OBVIOUS
    <3>3. /\ m \in Nat /\ rest \in Seq(A) /\ Len(rest) = m /\ DOMAIN rest = 1 .. m
          /\ \A k \in 1 .. m : rest[k] = s[i + k]
      <4>1. i + 1 \in Int /\ n \in Int /\ \A k \in i + 1 .. n : s[k] \in A
        BY <1>3, <3>1
      <4>2. /\ rest \in Seq(A) /\ Len(rest) = IF i + 1 <= n THEN n - (i + 1) + 1 ELSE 0
            /\ \A k \in 1 .. n - (i + 1) + 1 : rest[k] = s[(i + 1) + k - 1]
        <5>1. PICK l : l = i + 1
          OBVIOUS
        <5>2. /\ SubSeq(s, l, n) \in Seq(A)
              /\ Len(SubSeq(s, l, n)) = IF l <= n THEN n - l + 1 ELSE 0
              /\ \A k \in 1 .. n - l + 1 : SubSeq(s, l, n)[k] = s[l + k - 1]
          BY <4>1, <5>1, SubSeqProperties
        <5>. QED
          BY <1>1, <5>1, <5>2, Zenon
      <4>3. m \in Nat /\ n - (i + 1) + 1 = m /\ \A k \in 1 .. m : (i + 1) + k - 1 = i + k
        BY <1>3, <3>1, <3>2
      <4>4. Len(rest) = m
        BY <1>3, <3>1, <3>2, <4>2
      <4>. QED
        BY <4>2, <4>3, <4>4, LenProperties
    <3>4. FirstAt(rest, qu, j)
      <4>1. FirstAt(rest, Quote, j)
        BY <1>1, <3>3, SelectFirst, Zenon
      <4>. QED
        BY <1>1, <4>1, Zenon
    <3>5. ASSUME NEW x \in spans
          PROVE  x[1] = i /\ x[2] \in i + 1 .. n /\ s[x[2]] = qu
                 /\ \A k \in i + 1 .. x[2] - 1 : s[k] # qu
      <4>1. PICK u, v : u = x[1] /\ v = x[2]
        OBVIOUS
      <4>2. /\ u \in 1 .. n /\ v \in 1 .. n /\ u < v /\ s[u] = mk /\ s[v] = qu
            /\ \A k \in 1 .. u - 1 : s[k] # mk
            /\ \A k \in u + 1 .. v - 1 : s[k] # qu
        BY <1>3, <4>1
      <4>3. u = i
        BY <1>3, <3>1, <4>2
      <4>. QED
        BY <1>3, <4>1, <4>2, <4>3
    <3>6. CASE ~ \E k \in DOMAIN rest : rest[k] = qu
      <4>1. j = 0
        BY <3>4, <3>6 DEF FirstAt
      <4>2. ASSUME NEW x \in spans PROVE FALSE
        <5>1. x[2] - i \in 1 .. m /\ i + (x[2] - i) = x[2]
          BY <1>3, <3>1, <3>2, <3>5
        <5>2. rest[x[2] - i] = qu
          BY <3>3, <3>5, <5>1
        <5>. QED
          BY <3>3, <3>6, <5>1, <5>2
      <4>. QED
        BY <1>2, <4>1, <4>2
    <3>7. CASE \E k \in DOMAIN rest : rest[k] = qu
      <4>1. j \in 1 .. m /\ rest[j] = qu /\ \A k \in 1 .. j - 1 : rest[k] # qu
        BY <3>3, <3>4, <3>7, Zenon DEF FirstAt
      <4>2. a = SubSeq(rest, 1, j - 1)
        BY <1>2, <3>1, <4>1
      <4>3. a = SubSeq(s, i + 1, i + j - 1)
        <5>1. PICK c : c = SubSeq(s, i + 1, i + j - 1)
          OBVIOUS
        <5>2. /\ 1 \in Int /\ j - 1 \in Int /\ i + 1 \in Int /\ i + j - 1 \in Int
              /\ \A k \in 1 .. j - 1 : rest[k] \in A
              /\ \A k \in i + 1 .. i + j - 1 : s[k] \in A
              /\ (i + j - 1) - (i + 1) + 1 = j - 1
          BY <1>3, <3>1, <3>2, <3>3, <4>1, ElementOfSeq
        <5>3. /\ a \in Seq(A) /\ Len(a) = j - 1
              /\ \A k \in 1 .. j - 1 : a[k] = s[i + k]
          <6>1. /\ a \in Seq(A) /\ Len(a) = IF 1 <= j - 1 THEN (j - 1) - 1 + 1 ELSE 0
                /\ \A k \in 1 .. (j - 1) - 1 + 1 : a[k] = rest[1 + k - 1]
            BY <4>2, <5>2, SubSeqProperties
          <6>2. \A k \in 1 .. j - 1 : 1 + k - 1 = k /\ k \in 1 .. m /\ k \in 1 .. (j - 1) - 1 + 1
            BY <3>3, <4>1
          <6>3. Len(a) = j - 1
            BY <4>1, <6>1
          <6>. QED
            BY <3>3, <6>1, <6>2, <6>3
        <5>4. /\ c \in Seq(A) /\ Len(c) = j - 1
              /\ \A k \in 1 .. j - 1 : c[k] = s[i + k]
          <6>1. /\ c \in Seq(A)
                /\ Len(c) = IF i + 1 <= i + j - 1 THEN (i + j - 1) - (i + 1) + 1 ELSE 0
                /\ \A k \in 1 .. (i + j - 1) - (i + 1) + 1 : c[k] = s[(i + 1) + k - 1]
            BY <5>1, <5>2, SubSeqProperties
          <6>2. \A k \in 1 .. j - 1 : (i + 1) + k - 1 = i + k
                                      /\ k \in 1 .. (i + j - 1) - (i + 1) + 1
            BY <3>1, <4>1
          <6>3. Len(c) = j - 1
            BY <3>1, <4>1, <6>1
          <6>. QED
            BY <6>1, <6>2, <6>3
        <5>5. \A k \in 1 .. j - 1 : a[k] = c[k]
          BY <5>3, <5>4
        <5>. QED
          BY <5>1, <5>3, <5>4, <5>5, SeqEqual
      <4>4. ASSUME NEW x \in spans PROVE x[1] + 1 = i + 1 /\ x[2] - 1 = i + j - 1
        <5>1. PICK v : v = x[2]
          OBVIOUS
        <5>2. x[1] = i /\ v \in i + 1 .. n /\ s[v] = qu /\ \A k \in i + 1 .. v - 1 : s[k] # qu
          BY <3>5, <5>1
        <5>3. v - i \in 1 .. m /\ i + (v - i) = v /\ i + j \in i + 1 .. n
          BY <1>3, <3>1, <3>2, <4>1, <5>2
        <5>4. rest[v - i] = qu /\ s[i + j] = qu
          BY <3>3, <4>1, <5>2, <5>3
        <5>5. v = i + j
          BY <1>3, <3>1, <4>1, <5>2, <5>3, <5>4
        <5>. QED
          BY <1>3, <3>1, <4>1, <5>1, <5>2, <5>5
      <4>5. spans # {}
        <5>1. PICK x : x = <<i, i + j>>
          OBVIOUS
        <5>2. i \in DOMAIN s /\ i + j \in DOMAIN s /\ i < i + j /\ s[i + j] = qu
          BY <1>3, <3>1, <3>2, <3>3, <4>1
        <5>3. \A k \in i + 1 .. i + j - 1 : s[k] # qu
          <6> TAKE k \in i + 1 .. i + j - 1
          <6>1. k - i \in 1 .. j - 1 /\ k - i \in 1 .. m /\ i + (k - i) = k
            BY <1>3, <3>1, <3>2, <4>1
          <6>. QED
            BY <3>3, <4>1, <6>1
        <5>4. x \in (DOMAIN s) \X (DOMAIN s) /\ x[1] = i /\ x[2] = i + j
          BY <5>1, <5>2
        <5>5. PICK w : w = i + j
          OBVIOUS
        <5>7. i < w /\ s[i] = mk /\ s[w] = qu
          BY <3>1, <5>2, <5>5, Zenon
        <5>8. \A k \in 1 .. i - 1 : s[k] # mk
          BY <3>1, Zenon
        <5>9. \A k \in i + 1 .. w - 1 : s[k] # qu
          <6>1. i + j - 1 = w - 1
            BY <1>3, <3>1, <4>1, <5>5
          <6>. QED
            BY <5>3, <6>1, Zenon
        <5>10. Span(i, w)
          BY <5>7, <5>8, <5>9, Zenon
        <5>11. x[1] = i /\ x[2] = w
          BY <5>4, <5>5, Zenon
        <5>. HIDE DEF Span
        <5>6. x \in spans
          BY <5>4, <5>10, <5>11, Zenon
        <5>. QED
          BY <5>6
      <4>. QED
        BY <4>3, <4>4, <4>5
    <3>. QED
      BY <3>6, <3>7
  <2>. QED
    BY <2>1, <2>2
<1>6. ParentRead(s, a) <=> IF spans = {} THEN a = <<>>
                           ELSE \A x \in spans : a = SubSeq(s, x[1] + 1, x[2] - 1)
  BY <1>1, Zenon DEF ParentRead
<1>. QED
  BY <1>1, <1>5, <1>6, Zenon

\* Texts of any length arrive as they are sent: a value through both escapes, but for
\* characters no XML can hold, which are replaced, and for a refusal that only
\* characters may cause whose references nobody has seen the host take; a text in
\* its CDATA sections, the keys of an object path through their quotes; and a parent
\* is read up to its closing quote (embedded.go:287, 352-389, epr.go:70,
\* checkpoint.go:247).
THEOREM TextsAlwaysArrive == Spec => []TextsArrive
<1>1. Init => TextsArrive
  BY DEF Init, NoCall, TextsArrive, TextArrives, PathsRead
<1>2. TextsArrive /\ [Next]_vars => TextsArrive'
  <2> SUFFICES ASSUME TextsArrive, [Next]_vars PROVE TextsArrive'
    OBVIOUS
  <2>1. CASE UNCHANGED vars
    <3>1. call' = call /\ answer' = answer
      BY <2>1 DEF vars
    <3>. QED
      BY <3>1, Zenon DEF TextsArrive, TextArrives, PathsRead
  <2>2. CASE Next /\ call'.op \notin {"value", "sections", "path", "parent"}
    BY <2>2 DEF TextsArrive, TextArrives, PathsRead
  <2>3. CASE Next /\ call'.op = "value"
    <3>1. WriteValue
      BY <2>3, CallNamed DEF Next
    <3>2. PICK s \in Upto(Chars, MaxText), taken \in SUBSET Unobserved :
            /\ call' = [op |-> "value", of |-> s]
            /\ answer' = HostValue(CimValueEscape(s), taken)
      BY <3>1, Zenon DEF WriteValue, Calls
    <3>3. s \in Seq(Chars)
      BY <3>2, UptoSeq, CharsAssumption
    <3>4. call'.of = s /\ call'.op = "value"
      BY <3>2
    <3>5. ValueArrives(s, answer')
      BY <3>2, <3>3, ValueRight, Zenon
    <3>. QED
      BY <3>4, <3>5, Zenon DEF TextsArrive, TextArrives, PathsRead
  <2>4. CASE Next /\ call'.op = "sections"
    <3>1. WriteSections
      BY <2>4, CallNamed DEF Next
    <3>2. PICK s \in Upto({"]", ">", "x"}, MaxText + 2) :
            call' = [op |-> "sections", of |-> s] /\ answer' = Sections(CdataWrap(s))
      BY <3>1, Zenon DEF WriteSections, Calls
    <3>3. MaxText + 2 \in Nat
      BY CharsAssumption
    <3>4. s \in Seq({"]", ">", "x"})
      BY <3>2, <3>3, UptoSeq
    <3>5. call'.of = s /\ call'.op = "sections"
      BY <3>2
    <3>6. answer'.ok /\ ~answer'.open /\ answer'.text = s
      BY <3>2, <3>4, SectionsRight, Zenon
    <3>. QED
      BY <3>5, <3>6 DEF TextsArrive, TextArrives, PathsRead
  <2>5. CASE Next /\ call'.op = "path"
    <3>1. WritePath
      BY <2>5, CallNamed DEF Next
    <3>2. PICK s \in Upto({"\\", Quote, "x"}, MaxText), t \in Upto({"\\", Quote, "x"}, MaxText) :
            call' = [op |-> "path", of |-> <<s, t>>]
            /\ answer' = PathValues(WmiObjectPath(<<s, t>>))
      BY <3>1, Zenon DEF WritePath, Calls
    <3>3. s \in Seq({"\\", Quote, "x"}) /\ t \in Seq({"\\", Quote, "x"})
      BY <3>2, UptoSeq, CharsAssumption
    <3>4. PICK Q : Q = Seq({"\\", Quote, "x"})
      OBVIOUS
    <3>5. <<s, t>> \in Seq(Q)
      BY <3>3, <3>4
    <3>6. <<s, t>> \in Seq(Seq({"\\", Quote, "x"}))
      BY <3>4, <3>5, Zenon
    <3>7. call'.of = <<s, t>> /\ call'.op = "path"
      BY <3>2
    <3>8. answer' = <<s, t>>
      BY <3>2, <3>6, PathRight, Zenon
    <3>. QED
      BY <3>7, <3>8, Zenon DEF TextsArrive, TextArrives, PathsRead
  <2>6. CASE Next /\ call'.op = "parent"
    <3>1. ReadParent
      BY <2>6, CallNamed DEF Next
    <3>2. PICK s \in Upto({Marker, Quote, "g"}, MaxText + 2) :
            call' = [op |-> "parent", of |-> s] /\ answer' = ParentSnapshotID(s)
      BY <3>1, Zenon DEF ReadParent, Calls
    <3>3. MaxText + 2 \in Nat
      BY CharsAssumption
    <3>4. s \in Seq({Marker, Quote, "g"})
      BY <3>2, <3>3, UptoSeq
    <3>5. call'.of = s /\ call'.op = "parent"
      BY <3>2
    <3>6. ParentRead(s, answer')
      BY <3>2, <3>4, ParentRight, Zenon
    <3>. QED
      BY <3>5, <3>6 DEF TextsArrive, TextArrives, PathsRead
  <2>. QED
    BY <2>1, <2>2, <2>3, <2>4, <2>5, <2>6
<1>. QED
  BY <1>1, <1>2, PTL DEF Spec

----------------------------------------------------------------------------
\* Elements.

\* D takes texts of C as Later does.
LaterBy(D, R, C) == \A r \in R, c \in C : D[<<r, c>>] = Later(r, c)

\* Later is a reader of them.
LEMMA LaterReads ==
  ASSUME NEW C, NEW none, NEW R, R = C \cup {none}, NEW D, D = [x \in R \X C |-> Later(x[1], x[2])]
  PROVE  Reader(D, R, C) /\ LaterBy(D, R, C) /\ none \in R
<1>1. \A x \in R \X C : Later(x[1], x[2]) \in R
  <2> TAKE x \in R \X C
  <2>1. x[1] \in R /\ x[2] \in R
    OBVIOUS
  <2>. QED
    BY <2>1, Zenon DEF Later
<1>2. D \in [R \X C -> R]
  BY <1>1, Zenon
<1>3. \A r \in R, c \in C : D[<<r, c>>] = Later(r, c)
  <2> TAKE r \in R, c \in C
  <2>1. <<r, c>> \in R \X C /\ <<r, c>>[1] = r /\ <<r, c>>[2] = c
    OBVIOUS
  <2>. QED
    BY <2>1, Zenon
<1>. QED
  BY <1>2, <1>3, Zenon DEF Reader, LaterBy

\* The texts of an element are taken one after the other.
LEMMA TextsDriven ==
  ASSUME NEW C, NEW t \in Seq(C), NEW none, NEW R, R = C \cup {none},
         NEW D, D = [x \in R \X C |-> Later(x[1], x[2])]
  PROVE  Drives(D, R, t, none, FoldLeft(Later, none, t))
<1>0. Reader(D, R, C) /\ LaterBy(D, R, C) /\ none \in R
  BY LaterReads, Zenon
<1> PICK n : n = Len(t)
  OBVIOUS
<1>1. n \in Nat /\ DOMAIN t = 1 .. n /\ \A k \in 1 .. n : t[k] \in C
  BY LenProperties, ElementOfSeq
<1> DEFINE iter[P \in SUBSET DOMAIN t] ==
             IF P = {} THEN none ELSE Later(iter[P \ {Max(P)}], t[Max(P)])
<1>2. FoldLeft(Later, none, t) = iter[DOMAIN t]
  BY Zenon DEF FoldLeft, MapThenFoldSet
<1>3. PICK g : Folding(g, D, R, t, none)
  BY <1>0, FoldingExists
<1>4. ASSUME NEW P \in SUBSET (1 .. n), P # {}
      PROVE  Max(P) \in 1 .. n /\ P \ {Max(P)} \in SUBSET (1 .. n) /\ t[Max(P)] \in C
  <2>1. Max(P) \in P
    BY <1>1, <1>4, Greatest
  <2>. QED
    BY <1>1, <2>1
<1>5. g = [P \in SUBSET DOMAIN t |->
             IF P = {} THEN none ELSE Later(g[P \ {Max(P)}], t[Max(P)])]
  <2>1. /\ g \in [SUBSET (1 .. n) -> R]
        /\ \A P \in SUBSET (1 .. n) :
             g[P] = IF P = {} THEN none ELSE D[<<g[P \ {Max(P)}], t[Max(P)]>>]
    BY <1>3, Zenon DEF Folding
  <2>2. ASSUME NEW P \in SUBSET (1 .. n), P # {}
        PROVE  g[P] = Later(g[P \ {Max(P)}], t[Max(P)])
    <3>1. g[P \ {Max(P)}] \in R /\ t[Max(P)] \in C
      BY <1>4, <2>1, <2>2
    <3>. QED
      BY <1>0, <2>1, <2>2, <3>1, Zenon DEF LaterBy
  <2>. QED
    BY <1>1, <2>1, <2>2
<1>6. iter = [P \in SUBSET DOMAIN t |->
                 IF P = {} THEN none ELSE Later(iter[P \ {Max(P)}], t[Max(P)])]
  BY <1>5
<1>. HIDE DEF iter
<1>7. iter[{}] = none
  BY <1>6
<1>8. ASSUME NEW P \in SUBSET (1 .. n), P # {}, iter[P \ {Max(P)}] \in R
       PROVE  iter[P] = D[<<iter[P \ {Max(P)}], t[Max(P)]>>]
  <2>1. iter[P] = Later(iter[P \ {Max(P)}], t[Max(P)])
    BY <1>1, <1>6, <1>8, Zenon
  <2>. QED
    BY <1>0, <1>4, <1>8, <2>1, Zenon DEF LaterBy
<1>9. Follows(iter, D, R, t, none)
  BY <1>7, <1>8, Zenon DEF Follows
<1>10. Drives(D, R, t, none, iter[DOMAIN t])
  BY <1>0, <1>9, FoldingDrives
<1>. QED
  BY <1>2, <1>10, Zenon

\* v is the last of the first k texts of t that is not none.
LastHeld(t, k, none, v) ==
  IF \E i \in 1 .. k : t[i] # none
    THEN \E i \in 1 .. k : t[i] # none /\ t[i] = v /\ \A j \in i + 1 .. k : t[j] = none
    ELSE v = none

\* One text more.
LEMMA LastHeldNext ==
  ASSUME NEW t, NEW k \in Nat, NEW none, NEW v, LastHeld(t, k, none, v), NEW w,
         w = IF t[k + 1] = none THEN v ELSE t[k + 1]
  PROVE  LastHeld(t, k + 1, none, w)
<1>1. /\ \A i \in 1 .. k : i \in 1 .. k + 1
      /\ \A i \in 1 .. k + 1 : i \in 1 .. k \/ i = k + 1
      /\ k + 1 \in 1 .. k + 1 /\ k + 1 + 1 .. k + 1 = {}
      /\ \A i \in 1 .. k : \A j \in i + 1 .. k + 1 : j \in i + 1 .. k \/ j = k + 1
  OBVIOUS
<1>2. CASE t[k + 1] = none
  <2>1. CASE \E i \in 1 .. k : t[i] # none
    BY <1>1, <1>2, <2>1, Zenon DEF LastHeld
  <2>2. CASE ~ \E i \in 1 .. k : t[i] # none
    BY <1>1, <1>2, <2>2, Zenon DEF LastHeld
  <2>. QED
    BY <2>1, <2>2
<1>3. CASE t[k + 1] # none
  <2>1. w = t[k + 1] /\ \A j \in k + 1 + 1 .. k + 1 : t[j] = none
    BY <1>1, <1>3
  <2>. QED
    BY <1>1, <1>3, <2>1, Zenon DEF LastHeld
<1>. QED
  BY <1>2, <1>3

\* The text of an element is what the host means by it.
LEMMA TextMeant ==
  ASSUME NEW C, NEW e, e.texts \in Seq(C)
  PROVE  Text(e) = Meant(e)
<1>1. PICK none, t : none = "" /\ t = e.texts
  BY Zenon
<1>2. PICK n, R, D : n = Len(t) /\ R = C \cup {none} /\ D = [x \in R \X C |-> Later(x[1], x[2])]
  OBVIOUS
<1>3. t \in Seq(C)
  BY <1>1, Zenon
<1>4. n \in Nat /\ DOMAIN t = 1 .. n /\ \A k \in 1 .. n : t[k] \in C
  BY <1>2, <1>3, LenProperties, ElementOfSeq
<1>5. Reader(D, R, C) /\ LaterBy(D, R, C) /\ none \in R
  BY <1>2, LaterReads, Zenon
<1>6. Drives(D, R, t, none, Text(e))
  <2>1. Drives(D, R, t, none, FoldLeft(Later, none, t))
    BY <1>2, <1>3, TextsDriven, Zenon
  <2>. QED
    BY <1>1, <2>1, Zenon DEF Text
<1>7. PICK f : Through(f, D, R, t) /\ f[0] = none /\ f[n] = Text(e)
  BY <1>2, <1>6, Zenon DEF Drives
<1>8. /\ f \in [0 .. n -> R]
      /\ \A k \in Nat : k + 1 <= n => f[k + 1] = D[<<f[k], t[k + 1]>>]
  BY <1>2, <1>7, Zenon DEF Through
<1> DEFINE T == {k \in Nat : k <= n => LastHeld(t, k, none, f[k])}
<1>9. 0 \in T
  <2>1. 1 .. 0 = {}
    OBVIOUS
  <2>2. LastHeld(t, 0, none, f[0])
    BY <1>7, <2>1, Zenon DEF LastHeld
  <2>. QED
    BY <2>2
<1>10. ASSUME NEW k \in Nat, k \in T PROVE k + 1 \in T
  <2> SUFFICES ASSUME k + 1 <= n PROVE LastHeld(t, k + 1, none, f[k + 1])
    OBVIOUS
  <2>1. k <= n /\ k \in 0 .. n /\ k + 1 \in 1 .. n
    BY <1>4
  <2>2. LastHeld(t, k, none, f[k])
    BY <1>10, <2>1
  <2>3. f[k] \in R /\ t[k + 1] \in C
    BY <1>4, <1>8, <2>1
  <2>4. f[k + 1] = Later(f[k], t[k + 1])
    BY <1>5, <1>8, <2>3, Zenon DEF LaterBy
  <2>5. f[k + 1] = IF t[k + 1] = none THEN f[k] ELSE t[k + 1]
    BY <1>1, <2>4, Zenon DEF Later
  <2>. QED
    BY <2>2, <2>5, LastHeldNext, Zenon
<1>11. LastHeld(t, n, none, Text(e))
  <2>1. Nat \subseteq T
    BY <1>9, <1>10, Counted0
  <2>2. n \in T
    BY <1>4, <2>1
  <2>3. LastHeld(t, n, none, f[n])
    BY <1>4, <2>2
  <2>. QED
    BY <1>7, <2>3, Zenon
<1> DEFINE full == {i \in DOMAIN t : t[i] # none}
<1>12. Meant(e) = IF full = {} THEN none ELSE t[Max(full)]
  BY <1>1, Zenon DEF Meant
<1>13. CASE full = {}
  <2>1. ~ \E i \in 1 .. n : t[i] # none
    BY <1>4, <1>13
  <2>. QED
    BY <1>11, <1>12, <1>13, <2>1, Zenon DEF LastHeld
<1>14. CASE full # {}
  <2>1. \E i \in 1 .. n : t[i] # none
    BY <1>4, <1>14
  <2>2. PICK i \in 1 .. n : t[i] # none /\ t[i] = Text(e) /\ \A j \in i + 1 .. n : t[j] = none
    BY <1>11, <2>1, Zenon DEF LastHeld
  <2>3. i \in full /\ \A j \in full : j <= i
    BY <1>4, <2>2
  <2>4. full \in SUBSET (1 .. n)
    BY <1>4
  <2>5. Max(full) \in full /\ \A j \in full : j <= Max(full)
    BY <1>4, <1>14, <2>4, Greatest
  <2>6. Max(full) = i
    <3>1. PICK m : m = Max(full)
      OBVIOUS
    <3>2. m \in full /\ i <= m /\ m <= i
      BY <2>3, <2>5, <3>1, Zenon
    <3>3. m \in 1 .. n
      BY <2>4, <3>2, Zenon
    <3>4. m = i
      BY <1>4, <3>2, <3>3
    <3>. QED
      BY <3>1, <3>4
  <2>. QED
    BY <1>12, <1>14, <2>2, <2>6, Zenon
<1>. QED
  BY <1>13, <1>14

----------------------------------------------------------------------------
\* The places of the elements of parts that are joined.

\* Part i of ss comes after L[i] elements.
Starts(L, ss) ==
  /\ L \in [1 .. Len(ss) + 1 -> Nat] /\ L[1] = 0
  /\ \A i \in 1 .. Len(ss) : L[i + 1] = L[i] + Len(ss[i])

\* q holds the elements of the first k parts at their places, and no others.
Placed(q, L, ss, k) ==
  /\ Len(q) = L[k + 1]
  /\ \A i \in 1 .. k : \A j \in 1 .. Len(ss[i]) :
       L[i] + j \in 1 .. L[k + 1] /\ q[L[i] + j] = ss[i][j]
  /\ \A p \in 1 .. L[k + 1] : \E i \in 1 .. k : \E j \in 1 .. Len(ss[i]) : p = L[i] + j

\* One part more.
LEMMA PlacedNext ==
  ASSUME NEW S, NEW ss \in Seq(Seq(S)), NEW L, Starts(L, ss), NEW k \in Nat, k + 1 <= Len(ss),
         NEW q \in Seq(S), Placed(q, L, ss, k), NEW r, r = q \o ss[k + 1]
  PROVE  Placed(r, L, ss, k + 1)
<1>1. PICK n, l, m, p, Q : /\ n = Len(ss) /\ l = L[k + 1] /\ p = ss[k + 1] /\ m = Len(p)
                           /\ Q = Seq(S)
  OBVIOUS
<1>2. n \in Nat /\ \A i \in 1 .. n : ss[i] \in Q
  <2>1. ss \in Seq(Q)
    BY <1>1
  <2>. QED
    BY <1>1, <2>1, LenProperties, ElementOfSeq
<1>3. /\ L \in [1 .. n + 1 -> Nat]
      /\ \A i \in 1 .. n : L[i + 1] = L[i] + Len(ss[i])
  BY <1>1 DEF Starts
<1>4. /\ Len(q) = l
      /\ \A i \in 1 .. k : \A j \in 1 .. Len(ss[i]) :
           L[i] + j \in 1 .. l /\ q[L[i] + j] = ss[i][j]
      /\ \A x \in 1 .. l : \E i \in 1 .. k : \E j \in 1 .. Len(ss[i]) : x = L[i] + j
  BY <1>1, Zenon DEF Placed
<1>5. k + 1 \in 1 .. n /\ k + 1 \in 1 .. n + 1 /\ p \in Q
  BY <1>1, <1>2
<1>6. l \in Nat /\ m \in Nat /\ L[k + 1 + 1] = l + m
  <2>1. L[k + 1 + 1] = l + m
    BY <1>1, <1>3, <1>5
  <2>2. m \in Nat
    BY <1>1, <1>5, LenProperties
  <2>. QED
    BY <1>1, <1>3, <1>5, <2>1, <2>2
<1>7. /\ r \in Seq(S) /\ Len(r) = l + m
      /\ \A x \in 1 .. l + m : r[x] = IF x <= l THEN q[x] ELSE p[x - l]
  <2>1. p \in Seq(S) /\ r = q \o p /\ Len(q) = l /\ Len(p) = m
    BY <1>1, <1>4, <1>5
  <2>2. /\ q \o p \in Seq(S) /\ Len(q \o p) = Len(q) + Len(p)
        /\ \A x \in 1 .. Len(q) + Len(p) :
             (q \o p)[x] = IF x <= Len(q) THEN q[x] ELSE p[x - Len(q)]
    BY <2>1, ConcatProperties
  <2>. QED
    BY <2>1, <2>2, Zenon
<1> PICK w : w = L[k + 1 + 1]
  OBVIOUS
<1>8. ASSUME NEW i \in 1 .. k + 1, NEW j \in 1 .. Len(ss[i])
      PROVE  L[i] + j \in 1 .. w /\ r[L[i] + j] = ss[i][j]
  <2>1. CASE i \in 1 .. k
    <3>1. PICK x : x = L[i] + j
      OBVIOUS
    <3>2. x \in 1 .. l /\ q[x] = ss[i][j]
      BY <1>4, <1>8, <2>1, <3>1, Zenon
    <3>3. x \in 1 .. l + m /\ x <= l /\ l + m = w
      BY <1>6, <3>2
    <3>4. r[x] = q[x]
      BY <1>7, <3>3, Zenon
    <3>. QED
      BY <3>1, <3>2, <3>3, <3>4, Zenon
  <2>2. CASE i = k + 1
    <3>1. j \in 1 .. m /\ L[i] = l /\ ss[i] = p
      BY <1>1, <1>8, <2>2
    <3>2. l + j \in 1 .. l + m /\ ~ (l + j <= l) /\ (l + j) - l = j
      BY <1>6, <3>1
    <3>3. r[l + j] = p[j] /\ l + m = w
      BY <1>6, <1>7, <3>2
    <3>. QED
      BY <3>1, <3>2, <3>3, Zenon
  <2>3. i \in 1 .. k \/ i = k + 1
    OBVIOUS
  <2>. QED
    BY <2>1, <2>2, <2>3, Zenon
<1>9. ASSUME NEW x \in 1 .. w
      PROVE  \E i \in 1 .. k + 1 : \E j \in 1 .. Len(ss[i]) : x = L[i] + j
  <2>1. CASE x <= l
    <3>1. x \in 1 .. l /\ \A i \in 1 .. k : i \in 1 .. k + 1
      BY <1>6, <2>1
    <3>. QED
      BY <1>4, <3>1, Zenon
  <2>2. CASE ~ (x <= l)
    <3>1. x - l \in 1 .. m /\ x = l + (x - l) /\ k + 1 \in 1 .. k + 1
      BY <1>6, <1>9, <2>2
    <3>. QED
      BY <1>1, <3>1, Zenon
  <2>. QED
    BY <2>1, <2>2
<1>10. Len(r) = w
  BY <1>6, <1>7
<1>. QED
  BY <1>8, <1>9, <1>10, Zenon DEF Placed

\* FlattenSeq puts every element at the place after the parts before its own.
LEMMA FlattenPlaced ==
  ASSUME NEW S, NEW ss \in Seq(Seq(S)), NEW q, q = FlattenSeq(ss)
  PROVE  q \in Seq(S) /\ \E L : Starts(L, ss) /\ Placed(q, L, ss, Len(ss))
<1>1. PICK f : Joins(f, ss, S) /\ q = f[Len(ss)]
  BY Flattened
<1>2. PICK n, Q : n = Len(ss) /\ Q = Seq(S)
  OBVIOUS
<1>3. /\ f \in [0 .. n -> Q] /\ f[0] = <<>>
      /\ \A k \in Nat : k + 1 <= n => f[k + 1] = f[k] \o ss[k + 1]
  BY <1>1, <1>2, Zenon DEF Joins
<1>4. n \in Nat /\ \A i \in 1 .. n : ss[i] \in Q
  <2>1. ss \in Seq(Q)
    BY <1>2
  <2>. QED
    BY <1>2, <2>1, LenProperties, ElementOfSeq
<1>5. \A k \in 0 .. n : f[k] \in Seq(S) /\ Len(f[k]) \in Nat
  BY <1>2, <1>3, LenProperties
<1> DEFINE L == [i \in 1 .. n + 1 |-> Len(f[i - 1])]
<1>6. \A k \in 0 .. n : L[k + 1] = Len(f[k])
  <2> TAKE k \in 0 .. n
  <2>1. k + 1 \in 1 .. n + 1 /\ (k + 1) - 1 = k
    BY <1>4
  <2>. QED
    BY <2>1
<1>7. L \in [1 .. n + 1 -> Nat]
  <2>1. \A i \in 1 .. n + 1 : i - 1 \in 0 .. n
    BY <1>4
  <2>. QED
    BY <1>5, <2>1
<1>. HIDE DEF L
<1>8. ASSUME NEW k \in Nat, k + 1 <= n PROVE L[k + 1 + 1] = L[k + 1] + Len(ss[k + 1])
  <2>1. k \in 0 .. n /\ k + 1 \in 0 .. n /\ k + 1 \in 1 .. n
    BY <1>4, <1>8
  <2>2. f[k] \in Seq(S) /\ ss[k + 1] \in Seq(S) /\ f[k + 1] = f[k] \o ss[k + 1]
    BY <1>2, <1>3, <1>4, <1>5, <1>8, <2>1
  <2>3. Len(f[k + 1]) = Len(f[k]) + Len(ss[k + 1])
    BY <2>2, ConcatProperties
  <2>. QED
    BY <1>6, <2>1, <2>3
<1>9. Starts(L, ss)
  <2>1. L[1] = 0
    <3>1. L[0 + 1] = Len(f[0])
      BY <1>4, <1>6
    <3>. QED
      BY <1>3, <3>1, EmptySeq
  <2>2. \A i \in 1 .. n : L[i + 1] = L[i] + Len(ss[i])
    <3> TAKE i \in 1 .. n
    <3>1. PICK k \in Nat : k + 1 = i
      <4>1. i - 1 \in Nat /\ (i - 1) + 1 = i
        BY <1>4
      <4>. QED
        BY <4>1
    <3>2. k + 1 <= n
      BY <1>4, <3>1
    <3>. QED
      BY <1>8, <3>1, <3>2
  <2>. QED
    BY <1>2, <1>7, <2>1, <2>2 DEF Starts
<1> DEFINE T == {k \in Nat : k <= n => Placed(f[k], L, ss, k)}
<1>10. 0 \in T
  <2>1. L[0 + 1] = 0 /\ Len(f[0]) = 0
    <3>1. L[1] = 0 /\ Len(f[0]) = L[0 + 1]
      BY <1>4, <1>6, <1>9 DEF Starts
    <3>. QED
      BY <3>1
  <2>2. 1 .. 0 = {} /\ 1 .. L[0 + 1] = {}
    BY <2>1
  <2>3. Placed(f[0], L, ss, 0)
    BY <2>1, <2>2, Zenon DEF Placed
  <2>. QED
    BY <2>3
<1>11. ASSUME NEW k \in Nat, k \in T PROVE k + 1 \in T
  <2> SUFFICES ASSUME k + 1 <= n PROVE Placed(f[k + 1], L, ss, k + 1)
    OBVIOUS
  <2>1. k <= n /\ k \in 0 .. n
    BY <1>4
  <2>2. Placed(f[k], L, ss, k)
    BY <1>11, <2>1
  <2>3. f[k] \in Seq(S) /\ f[k + 1] = f[k] \o ss[k + 1] /\ k + 1 <= Len(ss)
    BY <1>2, <1>3, <1>5, <2>1
  <2>. QED
    BY <1>9, <2>2, <2>3, PlacedNext, Zenon
<1>12. Placed(q, L, ss, n)
  <2>1. Nat \subseteq T
    BY <1>10, <1>11, Counted0
  <2>2. n \in T
    BY <1>4, <2>1
  <2>3. Placed(f[n], L, ss, n)
    BY <1>4, <2>2
  <2>. QED
    BY <1>1, <1>2, <2>3, Zenon
<1>13. q \in Seq(S)
  BY <1>1, <1>2, <1>4, <1>5
<1>. QED
  BY <1>2, <1>9, <1>12, <1>13, Zenon

\* Of parts of which one is not empty that one is left.
LEMMA OnlyPart ==
  ASSUME NEW S, NEW ss \in Seq(Seq(S)), NEW p \in 1 .. Len(ss),
         \A i \in 1 .. Len(ss) : i # p => Len(ss[i]) = 0
  PROVE  FlattenSeq(ss) = ss[p]
<1>1. PICK n, Q, q, m, u : /\ n = Len(ss) /\ Q = Seq(S) /\ q = FlattenSeq(ss)
                           /\ u = ss[p] /\ m = Len(u)
  OBVIOUS
<1>2. n \in Nat /\ \A i \in 1 .. n : ss[i] \in Q
  <2>1. ss \in Seq(Q)
    BY <1>1
  <2>. QED
    BY <1>1, <2>1, LenProperties, ElementOfSeq
<1>3. PICK L : q \in Seq(S) /\ Starts(L, ss) /\ Placed(q, L, ss, n)
  BY <1>1, FlattenPlaced
<1>4. /\ L \in [1 .. n + 1 -> Nat] /\ L[1] = 0
      /\ \A i \in 1 .. n : L[i + 1] = L[i] + Len(ss[i])
  BY <1>1, <1>3 DEF Starts
<1>5. /\ Len(q) = L[n + 1]
      /\ \A i \in 1 .. n : \A j \in 1 .. Len(ss[i]) :
           L[i] + j \in 1 .. L[n + 1] /\ q[L[i] + j] = ss[i][j]
  BY <1>3, Zenon DEF Placed
<1>6. u \in Seq(S) /\ m \in Nat /\ p \in 1 .. n
  BY <1>1, <1>2, LenProperties
<1> DEFINE At(k) == L[k + 1] = IF k < p THEN 0 ELSE m
           T == {k \in Nat : k <= n => At(k)}
<1>7. At(0)
  BY <1>4, <1>6
<1>8. ASSUME NEW k \in Nat, k + 1 <= n, At(k) PROVE At(k + 1)
  <2>1. k + 1 \in 1 .. n /\ L[k + 1 + 1] = L[k + 1] + Len(ss[k + 1])
    BY <1>2, <1>4, <1>8
  <2>2. CASE k + 1 = p
    <3>1. L[k + 1] = 0 /\ Len(ss[k + 1]) = m
      BY <1>1, <1>8, <2>2
    <3>. QED
      BY <1>6, <2>1, <2>2, <3>1
  <2>3. CASE k + 1 # p
    <3>1. Len(ss[k + 1]) = 0
      BY <1>1, <2>1, <2>3
    <3>2. L[k + 1 + 1] = L[k + 1]
      BY <1>4, <1>2, <2>1, <3>1
    <3>3. k < p <=> k + 1 < p
      BY <1>6, <2>3
    <3>. QED
      BY <1>8, <3>2, <3>3, Zenon
  <2>. QED
    BY <2>2, <2>3
<1>. HIDE DEF At
<1>9. Nat \subseteq T
  <2>1. 0 \in T
    BY <1>7
  <2>2. \A k \in Nat : k \in T => k + 1 \in T
    <3> TAKE k \in Nat
    <3> HAVE k \in T
    <3>1. k + 1 <= n => k <= n
      BY <1>2
    <3>. QED
      BY <1>8, <3>1
  <2>. QED
    BY <2>1, <2>2, Counted0
<1>10. \A k \in 0 .. n : At(k)
  BY <1>2, <1>9
<1>11. L[p] = 0 /\ L[n + 1] = m
  <2>1. At(p - 1) /\ At(n)
    BY <1>2, <1>6, <1>10
  <2>2. (p - 1) + 1 = p /\ p - 1 < p /\ ~ (n < p)
    BY <1>2, <1>6
  <2>. QED
    BY <2>1, <2>2, Zenon DEF At
<1>12. Len(q) = m
  BY <1>5, <1>11
<1>13. \A j \in 1 .. m : q[j] = u[j]
  <2> TAKE j \in 1 .. m
  <2>1. L[p] + j = j
    BY <1>6, <1>11
  <2>2. q[L[p] + j] = u[j]
    BY <1>1, <1>5, <1>6, Zenon
  <2>. QED
    BY <2>1, <2>2, Zenon
<1>. QED
  BY <1>1, <1>3, <1>6, <1>12, <1>13, SeqEqual

\* The parts of at most one element: of s, those in T have one.
OneEach(ss, s, T) == \A i \in 1 .. Len(ss) : Len(ss[i]) = IF s[i] \in T THEN 1 ELSE 0

\* q holds the element of each at the place that T counts, and nothing else.
Collected(q, ss, s, T) ==
  /\ Len(q) = Count(s, T, Len(ss))
  /\ \A k \in 1 .. Len(ss) : s[k] \in T =>
       Count(s, T, k) \in 1 .. Len(q) /\ q[Count(s, T, k)] = ss[k][1]
  /\ \A x \in 1 .. Len(q) : \E k \in 1 .. Len(ss) : s[k] \in T /\ x = Count(s, T, k)

\* Such parts are collected.
LEMMA PartsCollected ==
  ASSUME NEW S, NEW ss \in Seq(Seq(S)), NEW s, NEW T, OneEach(ss, s, T),
         NEW q, q = FlattenSeq(ss)
  PROVE  q \in Seq(S) /\ Collected(q, ss, s, T)
<1> PICK n : n = Len(ss)
  OBVIOUS
<1>0. \A i \in 1 .. n : Len(ss[i]) = IF s[i] \in T THEN 1 ELSE 0
  BY DEF OneEach
<1>1. n \in Nat
  BY LenProperties
<1>2. PICK L : q \in Seq(S) /\ Starts(L, ss) /\ Placed(q, L, ss, n)
  BY FlattenPlaced
<1>3. /\ L \in [1 .. n + 1 -> Nat] /\ L[1] = 0
      /\ \A i \in 1 .. n : L[i + 1] = L[i] + Len(ss[i])
  BY <1>2 DEF Starts
<1>4. /\ Len(q) = L[n + 1]
      /\ \A i \in 1 .. n : \A j \in 1 .. Len(ss[i]) :
           L[i] + j \in 1 .. L[n + 1] /\ q[L[i] + j] = ss[i][j]
      /\ \A x \in 1 .. L[n + 1] : \E i \in 1 .. n : \E j \in 1 .. Len(ss[i]) : x = L[i] + j
  BY <1>2, Zenon DEF Placed
<1>15. PICK C : C = [k \in Nat |-> Count(s, T, k)]
  OBVIOUS
<1>5. /\ C[0] = 0 /\ \A k \in Nat : C[k] = Count(s, T, k) /\ C[k] \in Nat
      /\ \A k \in Nat : s[k + 1] \in T => C[k + 1] = C[k] + 1
      /\ \A k \in Nat : s[k + 1] \notin T => C[k + 1] = C[k]
  <2>1. Counts(s, T)
    BY Counting
  <2>2. \A k \in Nat : C[k] = Count(s, T, k)
    BY <1>15, Zenon
  <2>3. 0 \in Nat /\ \A k \in Nat : k + 1 \in Nat
    OBVIOUS
  <2>. QED
    BY <2>1, <2>2, <2>3, Zenon DEF Counts
<1> DEFINE U == {k \in Nat : k <= n => L[k + 1] = C[k]}
<1>6. Nat \subseteq U
  <2>1. 0 \in U
    BY <1>3, <1>5
  <2>2. ASSUME NEW k \in Nat, k \in U PROVE k + 1 \in U
    <3> SUFFICES ASSUME k + 1 <= n PROVE L[k + 1 + 1] = C[k + 1]
      OBVIOUS
    <3>1. k + 1 \in 1 .. n /\ L[k + 1] = C[k] /\ C[k] \in Nat
      BY <1>1, <1>5, <2>2
    <3>2. L[k + 1 + 1] = L[k + 1] + Len(ss[k + 1])
      BY <1>3, <3>1
    <3>3. Len(ss[k + 1]) = IF s[k + 1] \in T THEN 1 ELSE 0
      BY <1>0, <3>1
    <3>4. CASE s[k + 1] \in T
      BY <1>5, <3>1, <3>2, <3>3, <3>4
    <3>5. CASE s[k + 1] \notin T
      BY <1>5, <3>1, <3>2, <3>3, <3>5
    <3>. QED
      BY <3>4, <3>5
  <2>. QED
    BY <2>1, <2>2, Counted0
<1>7. \A k \in 0 .. n : L[k + 1] = C[k]
  BY <1>1, <1>6
<1>8. ASSUME NEW k \in 1 .. n, s[k] \in T
      PROVE  /\ L[k] + 1 = C[k] /\ C[k] \in 1 .. Len(q) /\ q[C[k]] = ss[k][1]
             /\ Len(ss[k]) = 1
  <2>0. Len(ss[k]) = 1
    BY <1>0, <1>8, Zenon
  <2>1. Len(ss[k]) = 1 /\ 1 \in 1 .. Len(ss[k])
    BY <2>0
  <2>2. L[k + 1] = L[k] + 1 /\ L[k + 1] = C[k]
    <3>1. k \in 0 .. n
      BY <1>1
    <3>. QED
      BY <1>3, <1>7, <2>1, <3>1, Zenon
  <2>3. L[k] + 1 \in 1 .. Len(q) /\ q[L[k] + 1] = ss[k][1]
    BY <1>4, <2>1, Zenon
  <2>4. PICK c, l : c = C[k] /\ l = L[k] + 1
    OBVIOUS
  <2>5. c = l
    BY <2>2, <2>4, Zenon
  <2>6. C[k] \in 1 .. Len(q) /\ q[C[k]] = ss[k][1]
    BY <2>3, <2>4, <2>5, Zenon
  <2>7. L[k] + 1 = C[k]
    BY <2>4, <2>5, Zenon
  <2>. QED
    BY <2>0, <2>6, <2>7, Zenon
<1>9. ASSUME NEW x \in 1 .. Len(q) PROVE \E k \in 1 .. n : s[k] \in T /\ x = C[k]
  <2>0. 1 .. Len(q) = 1 .. L[n + 1]
    BY <1>4, Zenon
  <2> PICK i \in 1 .. n : \E j \in 1 .. Len(ss[i]) : x = L[i] + j
    BY <1>4, <2>0
  <2>1. PICK j \in 1 .. Len(ss[i]) : x = L[i] + j
    OBVIOUS
  <2>2. s[i] \in T /\ j = 1
    <3>1. CASE s[i] \in T
      <4>1. Len(ss[i]) = 1
        BY <1>0, <3>1, Zenon
      <4>. QED
        BY <3>1, <4>1
    <3>2. CASE s[i] \notin T
      <4>1. Len(ss[i]) = 0
        BY <1>0, <3>2, Zenon
      <4>. QED
        BY <2>1, <4>1
    <3>. QED
      BY <3>1, <3>2
  <2>. QED
    BY <1>8, <2>1, <2>2, Zenon
<1>10. Len(q) = C[n]
  BY <1>1, <1>4, <1>7
<1>11. \A k \in 1 .. n : C[k] = Count(s, T, k)
  BY <1>5
<1>12. C[n] = Count(s, T, n)
  BY <1>1, <1>5
<1>13. ASSUME NEW k \in 1 .. n, s[k] \in T
       PROVE  Count(s, T, k) \in 1 .. Len(q) /\ q[Count(s, T, k)] = ss[k][1]
  BY <1>8, <1>11, <1>13, Zenon
<1>14. ASSUME NEW x \in 1 .. Len(q) PROVE \E k \in 1 .. n : s[k] \in T /\ x = Count(s, T, k)
  <2>1. PICK k \in 1 .. n : s[k] \in T /\ x = C[k]
    BY <1>9, Zenon
  <2>2. x = Count(s, T, k)
    BY <1>11, <2>1
  <2>. QED
    BY <2>1, <2>2, Zenon
<1>. QED
  BY <1>2, <1>10, <1>12, <1>13, <1>14, Zenon DEF Collected

\* The text that is none.
NoText == ""

\* What an element adds: a value that was meant, a place for a NULL, or nothing.
LEMMA KeptIs ==
  ASSUME NEW C, NEW e, e.texts \in Seq(C), NEW m, m = Meant(e)
  PROVE  /\ m # NoText => m \in C /\ Kept(e) = <<m>>
         /\ m = NoText /\ e.nil => Kept(e) = <<Null>>
         /\ m = NoText /\ ~e.nil => Kept(e) = <<>>
<1>1. Text(e) = m
  BY TextMeant
<1>2. /\ m # NoText => Kept(e) = <<m>>
      /\ m = NoText /\ e.nil => Kept(e) = <<Null>>
      /\ m = NoText /\ ~e.nil => Kept(e) = <<>>
  BY <1>1, Zenon DEF Kept, NoText
<1>3. ASSUME m # NoText PROVE m \in C
  <2>1. PICK t, full : t = e.texts /\ full = {i \in DOMAIN e.texts : e.texts[i] # NoText}
    OBVIOUS
  <2>2. m = IF full = {} THEN NoText ELSE t[Max(full)]
    BY <2>1, Zenon DEF Meant, NoText
  <2>3. full # {} /\ m = t[Max(full)]
    BY <1>3, <2>2
  <2>4. t \in Seq(C) /\ Len(t) \in Nat /\ DOMAIN t = 1 .. Len(t)
    BY <2>1, LenProperties
  <2>5. full \in SUBSET (1 .. Len(t))
    BY <2>1, <2>4
  <2>6. Max(full) \in full
    BY <2>3, <2>4, <2>5, Greatest
  <2>7. Max(full) \in 1 .. Len(t)
    BY <2>5, <2>6, Zenon
  <2>. QED
    BY <2>3, <2>4, <2>7, ElementOfSeq
<1>. QED
  BY <1>2, <1>3, Zenon

\* Which elements have a place in the property n.
PlacesOf(es, n) ==
  {i \in DOMAIN es : es[i].name = n /\ (Meant(es[i]) # NoText \/ es[i].nil)}

\* q holds at its places what was meant or NULL, and nothing else.
Keeps(q, es, P) ==
  /\ Len(q) = Cardinality(P)
  /\ \A i \in P : /\ Cardinality({j \in P : j <= i}) \in 1 .. Len(q)
                  /\ q[Cardinality({j \in P : j <= i})]
                       = IF Meant(es[i]) # NoText THEN Meant(es[i]) ELSE Null
  /\ \A x \in 1 .. Len(q) : \E i \in P : x = Cardinality({j \in P : j <= i})

\* The values of a property as its elements add them.
ValuesOf(es, n) ==
  FlattenSeq([i \in DOMAIN es |-> IF es[i].name = n THEN Kept(es[i]) ELSE <<>>])

\* The values of a property before its NULLs are resolved.
LEMMA PropertyKeeps ==
  ASSUME NEW C, NEW E, NEW es \in Seq(E), \A e \in E : e.texts \in Seq(C),
         NEW name, NEW q, q = ValuesOf(es, name)
  PROVE  /\ q \in Seq(C \cup {Null})
         /\ Keeps(q, es, PlacesOf(es, name))
<1>1. PICK n, W, ss, T :
        /\ n = Len(es) /\ W = C \cup {Null}
        /\ ss = [i \in DOMAIN es |-> IF es[i].name = name THEN Kept(es[i]) ELSE <<>>]
        /\ T = {e \in E : e.name = name /\ (Meant(e) # NoText \/ e.nil)}
  OBVIOUS
<1>2. n \in Nat /\ DOMAIN es = 1 .. n /\ \A i \in 1 .. n : es[i] \in E
  BY <1>1, LenProperties, ElementOfSeq
<1>3. ASSUME NEW i \in 1 .. n
      PROVE  /\ ss[i] \in Seq(W)
             /\ Len(ss[i]) = IF es[i] \in T THEN 1 ELSE 0
             /\ es[i] \in T => ss[i][1] = IF Meant(es[i]) # NoText THEN Meant(es[i]) ELSE Null
  <2>1. PICK e, m : e = es[i] /\ m = Meant(e)
    OBVIOUS
  <2>2. /\ m # NoText => m \in C /\ Kept(e) = <<m>>
        /\ m = NoText /\ e.nil => Kept(e) = <<Null>>
        /\ m = NoText /\ ~e.nil => Kept(e) = <<>>
    <3>1. e.texts \in Seq(C)
      BY <1>2, <2>1
    <3>. QED
      BY <2>1, <3>1, KeptIs, Zenon
  <2>3. e \in T <=> e.name = name /\ (m # NoText \/ e.nil)
    BY <1>1, <1>2, <2>1, Zenon
  <2>4. ss[i] = IF e.name = name THEN Kept(e) ELSE <<>>
    BY <1>1, <1>2, <2>1, Zenon
  <2>5. CASE e \notin T
    <3>1. ss[i] = <<>>
      BY <2>2, <2>3, <2>4, <2>5, Zenon
    <3>2. <<>> \in Seq(W) /\ Len(<<>>) = 0
      BY EmptySeq
    <3>3. es[i] \notin T
      BY <2>1, <2>5, Zenon
    <3>4. ss[i] \in Seq(W) /\ Len(ss[i]) = 0
      BY <3>1, <3>2, Zenon
    <3>. QED
      BY <3>3, <3>4
  <2>6. CASE e \in T
    <3>1. ss[i] = IF m # NoText THEN <<m>> ELSE <<Null>>
      BY <2>2, <2>3, <2>4, <2>6, Zenon
    <3>2. m # NoText => m \in W
      BY <1>1, <2>2
    <3>3. PICK x : x = IF m # NoText THEN m ELSE Null
      OBVIOUS
    <3>4. ss[i] = <<x>> /\ x \in W
      <4>1. Null \in W
        BY <1>1
      <4>. QED
        BY <3>1, <3>2, <3>3, <4>1, Zenon
    <3>5. <<x>> \in Seq(W) /\ Len(<<x>>) = 1 /\ <<x>>[1] = x
      BY <3>4
    <3>6. es[i] \in T /\ x = IF Meant(es[i]) # NoText THEN Meant(es[i]) ELSE Null
      BY <2>1, <2>6, <3>3, Zenon
    <3>. QED
      BY <3>4, <3>5, <3>6, Zenon
  <2>. QED
    BY <2>5, <2>6
<1>4. /\ ss \in Seq(Seq(W)) /\ Len(ss) = n
  <2>1. PICK Q : Q = Seq(W)
    OBVIOUS
  <2>2. \A i \in 1 .. n : ss[i] \in Q
    BY <1>3, <2>1, Zenon
  <2>3. ss = [i \in 1 .. n |-> IF es[i].name = name THEN Kept(es[i]) ELSE <<>>]
    BY <1>1, <1>2, Zenon
  <2>4. ss \in [1 .. n -> Q]
    BY <2>2, <2>3, Zenon
  <2>5. ss \in Seq(Q) /\ Len(ss) = n
    BY <1>2, <2>4
  <2>. QED
    BY <2>1, <2>5, Zenon
<1>5. q = FlattenSeq(ss)
  BY <1>1, Zenon DEF ValuesOf
<1>6. \A i \in 1 .. n : Len(ss[i]) = IF es[i] \in T THEN 1 ELSE 0
  BY <1>3, Zenon
<1>7. /\ q \in Seq(W) /\ Len(q) = Count(es, T, n)
      /\ \A k \in 1 .. n : es[k] \in T =>
           Count(es, T, k) \in 1 .. Len(q) /\ q[Count(es, T, k)] = ss[k][1]
      /\ \A x \in 1 .. Len(q) : \E k \in 1 .. n : es[k] \in T /\ x = Count(es, T, k)
  <2>1. n = Len(ss)
    BY <1>4
  <2>2. OneEach(ss, es, T)
    BY <1>6, <2>1, Zenon DEF OneEach
  <2>3. q \in Seq(W) /\ Collected(q, ss, es, T)
    BY <1>4, <1>5, <2>2, PartsCollected
  <2>. QED
    BY <2>1, <2>3, Zenon DEF Collected
<1>8. PICK P : P = PlacesOf(es, name)
  OBVIOUS
<1>9. \A i : i \in P <=> i \in 1 .. n /\ es[i] \in T
  BY <1>1, <1>2, <1>8 DEF PlacesOf
<1>10. ASSUME NEW k \in 1 .. n PROVE Count(es, T, k) = Cardinality({j \in P : j <= k})
  <2>1. \A i : i \in 1 .. k <=> i \in 1 .. n /\ i <= k
    BY <1>2
  <2>2. {i \in 1 .. k : es[i] \in T} = {j \in P : j <= k}
    BY <1>9, <2>1, Zenon
  <2>. QED
    BY <2>2, Zenon DEF Count
<1>11. Count(es, T, n) = Cardinality(P)
  <2>1. {i \in 1 .. n : es[i] \in T} = P
    BY <1>9
  <2>. QED
    BY <2>1, Zenon DEF Count
<1>12. ASSUME NEW i \in P
       PROVE  /\ Cardinality({j \in P : j <= i}) \in 1 .. Len(q)
              /\ q[Cardinality({j \in P : j <= i})]
                   = IF Meant(es[i]) # NoText THEN Meant(es[i]) ELSE Null
  <2>1. i \in 1 .. n /\ es[i] \in T
    BY <1>9
  <2>2. Count(es, T, i) = Cardinality({j \in P : j <= i})
    BY <1>10, <2>1, Zenon
  <2>3. Count(es, T, i) \in 1 .. Len(q) /\ q[Count(es, T, i)] = ss[i][1]
    BY <1>7, <2>1, Zenon
  <2>4. ss[i][1] = IF Meant(es[i]) # NoText THEN Meant(es[i]) ELSE Null
    BY <1>3, <2>1, Zenon
  <2>. QED
    BY <2>2, <2>3, <2>4, Zenon
<1>13. ASSUME NEW x \in 1 .. Len(q) PROVE \E i \in P : x = Cardinality({j \in P : j <= i})
  <2>1. PICK k \in 1 .. n : es[k] \in T /\ x = Count(es, T, k)
    BY <1>7, Zenon
  <2>2. k \in P
    BY <1>9, <2>1
  <2>. QED
    BY <1>10, <2>1, <2>2, Zenon
<1>14. Keeps(q, es, P)
  BY <1>7, <1>11, <1>12, <1>13, Zenon DEF Keeps
<1>. QED
  BY <1>1, <1>7, <1>8, <1>14, Zenon

\* What is left of the properties flat: those with a value, NULLs in their places.
ResolvedOf(props, flat) ==
  /\ \A n : n \in DOMAIN props <=> n \in DOMAIN flat /\ \E i \in DOMAIN flat[n] : flat[n][i] # Null
  /\ \A n \in DOMAIN props :
       /\ DOMAIN props[n] = DOMAIN flat[n]
       /\ \A i \in DOMAIN flat[n] : props[n][i] = IF flat[n][i] = Null THEN NoText ELSE flat[n][i]

\* resolveNullPlaceholders leaves that of them.
LEMMA Resolves ==
  ASSUME NEW flat
  PROVE  ResolvedOf(ResolveNullPlaceholders(flat), flat)
<1>1. PICK props : props = ResolveNullPlaceholders(flat)
  OBVIOUS
<1>2. props = [n \in {m \in DOMAIN flat : \E i \in DOMAIN flat[m] : flat[m][i] # Null} |->
                [i \in DOMAIN flat[n] |-> IF flat[n][i] = Null THEN NoText ELSE flat[n][i]]]
  BY <1>1, Zenon DEF ResolveNullPlaceholders, NoText
<1>3. \A n : n \in DOMAIN props <=> n \in DOMAIN flat /\ \E i \in DOMAIN flat[n] : flat[n][i] # Null
  BY <1>2, Zenon
<1>4. \A n \in DOMAIN props :
        props[n] = [i \in DOMAIN flat[n] |-> IF flat[n][i] = Null THEN NoText ELSE flat[n][i]]
  BY <1>2, <1>3, Zenon
<1>5. ASSUME NEW n \in DOMAIN props
      PROVE  /\ DOMAIN props[n] = DOMAIN flat[n]
             /\ \A i \in DOMAIN flat[n] :
                  props[n][i] = IF flat[n][i] = Null THEN NoText ELSE flat[n][i]
  BY <1>4, Zenon
<1>. QED
  BY <1>1, <1>3, <1>5, Zenon DEF ResolvedOf

\* They are as long as before.
LEMMA ResolvedLong ==
  ASSUME NEW flat, NEW props, ResolvedOf(props, flat), NEW n \in DOMAIN props,
         NEW C, flat[n] \in Seq(C)
  PROVE  Len(props[n]) = Len(flat[n])
<1>1. PICK p, q : p = props[n] /\ q = flat[n]
  OBVIOUS
<1>2. /\ DOMAIN p = DOMAIN q
      /\ \A i \in DOMAIN q : p[i] = IF q[i] = Null THEN NoText ELSE q[i]
  BY <1>1, Zenon DEF ResolvedOf
<1>3. DOMAIN q = 1 .. Len(q) /\ Len(q) \in Nat
  BY <1>1, LenProperties
<1>4. DOMAIN p = 1 .. Len(q)
  BY <1>2, <1>3, Zenon
<1>5. Len(p) = Len(q)
  BY <1>3, <1>4
<1>. QED
  BY <1>1, <1>5, Zenon

\* One property of an answer: it is there if a value was meant, and holds what was
\* meant at the places of the elements.
PropertyRead(es, props, n) ==
  LET P == PlacesOf(es, n)
  IN /\ n \in DOMAIN props <=> \E i \in P : Meant(es[i]) # NoText
     /\ n \in DOMAIN props =>
          /\ Len(props[n]) = Cardinality(P)
          /\ \A i \in P : props[n][Cardinality({j \in P : j <= i})] = Meant(es[i])

\* Every property of an answer is read so.
LEMMA PropertyRight ==
  ASSUME NEW C, Null \notin C, NEW E, NEW es \in Seq(E), \A e \in E : e.texts \in Seq(C),
         NEW n, NEW flat, n \in DOMAIN flat, flat[n] = ValuesOf(es, n),
         NEW props, ResolvedOf(props, flat)
  PROVE  PropertyRead(es, props, n)
<1>1. PICK q, P : q = flat[n] /\ P = PlacesOf(es, n)
  OBVIOUS
<1>2. q \in Seq(C \cup {Null}) /\ Keeps(q, es, P)
  BY <1>1, PropertyKeeps
<1>3. PICK c : c = [i \in P |-> Cardinality({j \in P : j <= i})]
  OBVIOUS
<1>4. \A i \in P : c[i] = Cardinality({j \in P : j <= i})
  BY <1>3
<1>5. /\ Len(q) = Cardinality(P)
      /\ \A i \in P : /\ c[i] \in 1 .. Len(q)
                      /\ q[c[i]] = IF Meant(es[i]) # NoText THEN Meant(es[i]) ELSE Null
      /\ \A x \in 1 .. Len(q) : \E i \in P : x = c[i]
  BY <1>2, <1>4, Zenon DEF Keeps
<1>6. \A i \in P : Meant(es[i]) # NoText => Meant(es[i]) # Null
  <2> TAKE i \in P
  <2>1. i \in DOMAIN es
    BY <1>1 DEF PlacesOf
  <2>2. es[i] \in E
    BY <2>1, ElementOfSeq, LenProperties
  <2>3. es[i].texts \in Seq(C)
    BY <2>2, Zenon
  <2>4. Meant(es[i]) # NoText => Meant(es[i]) \in C
    BY <2>3, KeptIs, Zenon
  <2>. QED
    BY <2>4
<1>7. DOMAIN q = 1 .. Len(q)
  BY <1>2, LenProperties
<1>8. (\E x \in DOMAIN q : q[x] # Null) <=> \E i \in P : Meant(es[i]) # NoText
  <2>1. ASSUME NEW x \in DOMAIN q, q[x] # Null PROVE \E i \in P : Meant(es[i]) # NoText
    <3>1. PICK i \in P : x = c[i]
      BY <1>5, <1>7, <2>1, Zenon
    <3>2. Meant(es[i]) # NoText
      BY <1>5, <2>1, <3>1, Zenon
    <3>. QED
      BY <3>2
  <2>2. ASSUME NEW i \in P, Meant(es[i]) # NoText PROVE \E x \in DOMAIN q : q[x] # Null
    <3>1. c[i] \in DOMAIN q /\ q[c[i]] # Null
      BY <1>5, <1>6, <1>7, <2>2, Zenon
    <3>. QED
      BY <3>1, Zenon
  <2>. QED
    BY <2>1, <2>2, Zenon
<1>9. n \in DOMAIN props <=> \E i \in P : Meant(es[i]) # NoText
  BY <1>1, <1>8, Zenon DEF ResolvedOf
<1>10. ASSUME n \in DOMAIN props
       PROVE  Len(props[n]) = Cardinality(P) /\ \A i \in P : props[n][c[i]] = Meant(es[i])
  <2>1. Len(props[n]) = Len(q)
    BY <1>1, <1>2, <1>10, ResolvedLong
  <2>2. ASSUME NEW i \in P PROVE props[n][c[i]] = Meant(es[i])
    <3>1. c[i] \in DOMAIN q
      BY <1>5, <1>7, Zenon
    <3>2. props[n][c[i]] = IF q[c[i]] = Null THEN NoText ELSE q[c[i]]
      BY <1>1, <1>10, <3>1, Zenon DEF ResolvedOf
    <3>. QED
      BY <1>5, <1>6, <3>2, Zenon
  <2>. QED
    BY <1>5, <2>1, <2>2, Zenon
<1>. QED
  BY <1>1, <1>4, <1>9, <1>10, Zenon DEF PropertyRead

\* Every property of an answer is read, at the places where the host has it.
LEMMA ExtractedRight ==
  ASSUME NEW C, Null \notin C, NEW E, NEW es \in Seq(E), \A e \in E : e.texts \in Seq(C),
         NEW props, props = ExtractProperties(es)
  PROVE  /\ DOMAIN props = Given(es) /\ Aligned(es, props)
         /\ \A n \in Names(es) : PropertyRead(es, props, n)
<1>1. PICK flat : flat = [n \in Names(es) |-> ValuesOf(es, n)]
  OBVIOUS
<1>2. ResolvedOf(props, flat)
  <2>1. props = ResolveNullPlaceholders(flat)
    BY <1>1, Zenon DEF ExtractProperties, ValuesOf
  <2>. QED
    BY <2>1, Resolves, Zenon
<1>3. DOMAIN flat = Names(es) /\ \A n \in Names(es) : flat[n] = ValuesOf(es, n)
  BY <1>1
<1>4. \A n \in Names(es) : PropertyRead(es, props, n)
  BY <1>2, <1>3, PropertyRight, Zenon
<1>5. \A n : n \in DOMAIN props => n \in Names(es)
  BY <1>2, <1>3, Zenon DEF ResolvedOf
<1>6. \A n : n \in DOMAIN props <=> n \in Given(es)
  <2> TAKE n
  <2>1. n \in Given(es) <=> \E i \in DOMAIN es : es[i].name = n /\ Meant(es[i]) # NoText
    BY Zenon DEF Given, NoText
  <2>2. n \in Given(es) => n \in Names(es)
    BY <2>1, Zenon DEF Names
  <2>3. ASSUME n \in Names(es) PROVE n \in DOMAIN props <=> n \in Given(es)
    <3>1. n \in DOMAIN props <=> \E i \in PlacesOf(es, n) : Meant(es[i]) # NoText
      BY <1>4, <2>3, Zenon DEF PropertyRead
    <3>. QED
      BY <2>1, <3>1, Zenon DEF PlacesOf
  <2>. QED
    BY <1>5, <2>2, <2>3, Zenon
<1>7. Aligned(es, props)
  <2>1. ASSUME NEW n \in Names(es), NEW P, P = PlacesOf(es, n),
               \E i \in P : Meant(es[i]) # NoText
        PROVE  /\ n \in DOMAIN props /\ Len(props[n]) = Cardinality(P)
               /\ \A i \in P : props[n][Cardinality({j \in P : j <= i})] = Meant(es[i])
    BY <1>4, <2>1, Zenon DEF PropertyRead
  <2>. QED
    BY <2>1, Zenon DEF Aligned, PlacesOf, NoText
<1>8. DOMAIN props = Given(es)
  BY <1>6
<1>. QED
  BY <1>4, <1>7, <1>8

\* A field of which nothing was given stays as it is, and only a value is unreadable.
LEMMA UnsetRight ==
  ASSUME NEW es, NEW props, DOMAIN props = Given(es),
         NEW a, a = [properties |-> props, read |-> UnmarshalList(props)]
  PROVE  NullsUnset(es, a)
<1>1. PICK r : r = UnmarshalList(props)
  OBVIOUS
<1>2. a.properties = props /\ a.read = r
  BY <1>1
<1>3. CASE Unreadable(props)
  <2>1. r = [err |-> "value"]
    BY <1>1, <1>3, Zenon DEF UnmarshalList
  <2>2. r.err = "value"
    BY <2>1
  <2>3. Given(es) # {}
    BY <1>3, Zenon DEF Unreadable
  <2>. QED
    BY <1>2, <2>2, <2>3, Zenon DEF NullsUnset
<1>4. CASE ~Unreadable(props)
  <2>1. PICK fields : fields = [f \in DOMAIN Zero |->
                        IF f \notin DOMAIN props THEN Zero[f]
                        ELSE IF f = "Notes" THEN props[f] ELSE Head(props[f])]
    BY Zenon
  <2>2. r = [err |-> "nil", fields |-> fields]
    BY <1>1, <1>4, <2>1, Zenon DEF UnmarshalList
  <2>3. r.err = "nil" /\ r.fields = fields
    BY <2>2
  <2>4. \A f \in DOMAIN Zero : f \notin DOMAIN props => fields[f] = Zero[f]
    BY <2>1, Zenon
  <2>. QED
    BY <1>2, <2>3, <2>4, Zenon DEF NullsUnset
<1>. QED
  BY <1>3, <1>4

\* Of the selectors at some places the last of a name counts.
LEMMA SelectedRight ==
  ASSUME NEW A, NEW s \in Seq(A), NEW at \in SUBSET DOMAIN s, NEW i \in at,
         \A j \in at : j > i => s[j].name # s[i].name
  PROVE  Selected(s, at)[s[i].name] = s[i].value
<1>1. PICK n, nm, M : n = Len(s) /\ nm = s[i].name /\ M = {k \in at : s[k].name = nm}
  OBVIOUS
<1>2. n \in Nat /\ DOMAIN s = 1 .. n
  BY <1>1, LenProperties
<1>3. M \in SUBSET (1 .. n) /\ i \in M
  BY <1>1, <1>2
<1>4. Max(M) \in M /\ \A y \in M : y <= Max(M)
  BY <1>2, <1>3, Greatest
<1>5. PICK m : m = Max(M)
  OBVIOUS
<1>6. m \in M /\ i <= m /\ m \in 1 .. n /\ i \in 1 .. n /\ m \in at /\ s[m].name = nm
  BY <1>1, <1>2, <1>3, <1>4, <1>5
<1>7. ~ (m > i)
  BY <1>1, <1>6, Zenon
<1>8. m = i
  BY <1>2, <1>6, <1>7
<1>9. nm \in {s[k].name : k \in at}
  BY <1>1, Zenon
<1>10. Selected(s, at)[nm] = s[Max({k \in at : s[k].name = nm})].value
  BY <1>9, Zenon DEF Selected
<1>. QED
  BY <1>1, <1>5, <1>8, <1>10, Zenon

\* An element whose last text is not empty means that text.
LEMMA MeantLast ==
  ASSUME NEW C, NEW e, NEW t \in Seq(C), t = e.texts, Len(t) > 0, t[Len(t)] # NoText
  PROVE  Meant(e) = t[Len(t)]
<1>1. PICK n, full : n = Len(t) /\ full = {i \in DOMAIN t : t[i] # NoText}
  OBVIOUS
<1>2. n \in Nat /\ DOMAIN t = 1 .. n /\ n \in 1 .. n
  BY <1>1, LenProperties
<1>3. n \in full /\ full \in SUBSET (1 .. n)
  BY <1>1, <1>2
<1>4. PICK m : m = Max(full)
  OBVIOUS
<1>5. m \in full /\ n <= m
  BY <1>2, <1>3, <1>4, Greatest
<1>6. m \in 1 .. n
  BY <1>3, <1>5, Zenon
<1>7. m = n
  BY <1>2, <1>5, <1>6
<1>8. Meant(e) = IF full = {} THEN NoText ELSE t[Max(full)]
  BY <1>1, Zenon DEF Meant, NoText
<1>. QED
  BY <1>1, <1>3, <1>4, <1>7, <1>8, Zenon

\* A property with one place that was meant is the value there.
LEMMA OneMeant ==
  ASSUME NEW es, NEW props, NEW n, PropertyRead(es, props, n),
         NEW i \in Nat, PlacesOf(es, n) = {i}, Meant(es[i]) # NoText
  PROVE  n \in DOMAIN props /\ Property(props, n) = Meant(es[i])
<1>1. n \in DOMAIN props
  BY Zenon DEF PropertyRead
<1>2. /\ Len(props[n]) = Cardinality({i})
      /\ props[n][Cardinality({j \in {i} : j <= i})] = Meant(es[i])
  BY <1>1, Zenon DEF PropertyRead
<1>3. {j \in {i} : j <= i} = {i} /\ Cardinality({i}) = 1
  <2>1. {j \in {i} : j <= i} = {i}
    OBVIOUS
  <2>2. Cardinality({i}) = 1
    BY FS_Singleton
  <2>. QED
    BY <2>1, <2>2
<1>4. props[n][Len(props[n])] = Meant(es[i])
  BY <1>2, <1>3, Zenon
<1>. QED
  BY <1>1, <1>4, Zenon DEF Property, Last

\* The job a method was answered with, and its ReturnValue, are read.
LEMMA ResponseRight ==
  ASSUME NEW V, Null \notin V, NEW epr, epr.uri \in V, NEW A, NEW named \in Seq(A),
         named = epr.selectors, \A s \in A : s.value \in V,
         NEW es, es = <<AsElement("Job", epr),
                        [name |-> "ReturnValue", texts |-> <<"4096">>, nil |-> FALSE]>>,
         NEW r, r = ParseInvokeResponse(es)
  PROVE  /\ Len(named) = 1 /\ named[1].value # NoText =>
              Property(r.properties, "Job") = named[1].value
         /\ r.returnValue = "4096" /\ "ReturnValue" \notin DOMAIN r.properties
<1>1. PICK C, d, e, u : /\ C = V \cup {"address", "4096"}
                        /\ d = AsElement("Job", epr)
                        /\ e = [name |-> "ReturnValue", texts |-> <<"4096">>, nil |-> FALSE]
                        /\ u = [i \in DOMAIN named |-> named[i].value]
  OBVIOUS
<1>2. d = [name |-> "Job", nil |-> FALSE, texts |-> <<"address", epr.uri>> \o u]
  BY <1>1, Zenon DEF AsElement
<1>3. /\ es \in Seq({d, e}) /\ es[1] = d /\ es[2] = e
      /\ \A i : i \in DOMAIN es <=> i = 1 \/ i = 2
  <2>1. es = <<d, e>>
    BY <1>1, Zenon
  <2>2. /\ es \in Seq({d, e}) /\ es[1] = d /\ es[2] = e
        /\ DOMAIN es = 1 .. 2
    BY <2>1
  <2>. QED
    BY <2>2
<1>4. /\ d.name = "Job" /\ ~d.nil /\ d.texts = <<"address", epr.uri>> \o u
      /\ e.name = "ReturnValue" /\ ~e.nil /\ e.texts = <<"4096">>
  <2>1. PICK x, y : x = <<"address", epr.uri>> \o u /\ y = <<"4096">>
    OBVIOUS
  <2>2. /\ d = [name |-> "Job", nil |-> FALSE, texts |-> x]
        /\ e = [name |-> "ReturnValue", texts |-> y, nil |-> FALSE]
    BY <1>1, <1>2, <2>1, Zenon
  <2>3. d.name = "Job" /\ ~d.nil /\ d.texts = x
    BY <2>2
  <2>4. e.name = "ReturnValue" /\ ~e.nil /\ e.texts = y
    BY <2>2
  <2>. QED
    BY <2>1, <2>3, <2>4, Zenon
<1>5. PICK n, h : n = Len(named) /\ h = <<"address", epr.uri>>
  OBVIOUS
<1>6. n \in Nat /\ DOMAIN named = 1 .. n /\ \A i \in 1 .. n : named[i] \in A
  BY <1>5, LenProperties, ElementOfSeq
<1>7. u \in Seq(C) /\ Len(u) = n /\ \A i \in 1 .. n : u[i] = named[i].value
  <2>1. \A i \in 1 .. n : named[i].value \in V
    BY <1>6, Zenon
  <2>2. \A i \in 1 .. n : u[i] = named[i].value /\ u[i] \in C
    BY <1>1, <1>6, <2>1
  <2>3. u \in [1 .. n -> C]
    BY <1>1, <1>6, <2>2
  <2>. QED
    BY <1>6, <2>2, <2>3
<1>8. h \in Seq(C) /\ Len(h) = 2
  BY <1>1, <1>5
<1>9. /\ d.texts \in Seq(C) /\ Len(d.texts) = 2 + n
      /\ n = 1 => d.texts[3] = named[1].value
  <2>1. PICK t : t = h \o u
    OBVIOUS
  <2>2. /\ t \in Seq(C) /\ Len(t) = 2 + n
        /\ \A i \in 1 .. 2 + n : t[i] = IF i <= 2 THEN h[i] ELSE u[i - 2]
    <3>1. /\ h \o u \in Seq(C) /\ Len(h \o u) = Len(h) + Len(u)
          /\ \A i \in 1 .. Len(h) + Len(u) :
               (h \o u)[i] = IF i <= Len(h) THEN h[i] ELSE u[i - Len(h)]
      BY <1>7, <1>8, ConcatProperties
    <3>. QED
      BY <1>7, <1>8, <2>1, <3>1, Zenon
  <2>3. ASSUME n = 1 PROVE t[3] = named[1].value
    <3>1. 3 \in 1 .. 2 + n /\ ~ (3 <= 2) /\ 3 - 2 = 1 /\ 1 \in 1 .. n
      BY <2>3
    <3>2. t[3] = u[1]
      BY <2>2, <3>1, Zenon
    <3>. QED
      BY <1>7, <3>1, <3>2, Zenon
  <2>4. d.texts = t
    BY <1>4, <1>5, <2>1, Zenon
  <2>. QED
    BY <2>2, <2>3, <2>4, Zenon
<1>10. Null \notin C
  <2>1. Null # "address" /\ Null # "4096"
    BY DEF Null
  <2>. QED
    BY <1>1, <2>1
<1>11. e.texts \in Seq(C) /\ Len(e.texts) = 1 /\ e.texts[1] = "4096"
  BY <1>1, <1>4
<1>12. \A x \in {d, e} : x.texts \in Seq(C)
  BY <1>9, <1>11
<1>13. PICK props : props = ExtractProperties(es)
  OBVIOUS
<1>14. \A m \in Names(es) : PropertyRead(es, props, m)
  <2>1. PICK E : E = {d, e}
    OBVIOUS
  <2>2. es \in Seq(E) /\ \A x \in E : x.texts \in Seq(C)
    BY <1>3, <1>12, <2>1, Zenon
  <2>. QED
    BY <1>10, <1>13, <2>2, ExtractedRight, Zenon
<1>15. PropertyRead(es, props, "Job") /\ PropertyRead(es, props, "ReturnValue")
  <2>1. "Job" \in Names(es) /\ "ReturnValue" \in Names(es)
    BY <1>3, <1>4 DEF Names
  <2>. QED
    BY <1>14, <2>1, Zenon
<1>16. "4096" # NoText
  BY Zenon DEF NoText
<1>17. Property(props, "ReturnValue") = "4096"
  <2>1. Meant(e) = "4096"
    <3>1. PICK t : t = e.texts
      OBVIOUS
    <3>2. t \in Seq(C) /\ Len(t) = 1 /\ Len(t) > 0 /\ t[Len(t)] = "4096"
      BY <1>11, <3>1
    <3>. QED
      BY <1>16, <3>1, <3>2, MeantLast, Zenon
  <2>2. PlacesOf(es, "ReturnValue") = {2}
    <3>1. es[1].name # "ReturnValue" /\ es[2].name = "ReturnValue" /\ Meant(es[2]) # NoText
      BY <1>3, <1>4, <1>16, <2>1
    <3>2. \A i : i \in DOMAIN es /\ es[i].name = "ReturnValue" <=> i = 2
      BY <1>3, <3>1, Zenon
    <3>. QED
      BY <3>1, <3>2 DEF PlacesOf
  <2>3. Meant(es[2]) # NoText
    BY <1>3, <1>16, <2>1
  <2>4. Property(props, "ReturnValue") = Meant(es[2])
    <3>1. PICK m, i : m = "ReturnValue" /\ i = 2
      OBVIOUS
    <3>2. i \in Nat /\ PropertyRead(es, props, m)
      BY <1>15, <3>1
    <3>3. PlacesOf(es, m) = {i} /\ Meant(es[i]) # NoText
      BY <2>2, <2>3, <3>1
    <3>4. Property(props, m) = Meant(es[i])
      BY <3>2, <3>3, OneMeant
    <3>. QED
      BY <3>1, <3>4
  <2>. QED
    BY <1>3, <2>1, <2>4
<1>18. ASSUME n = 1, named[1].value # NoText
       PROVE  "Job" \in DOMAIN props /\ Property(props, "Job") = named[1].value
  <2>1. Len(d.texts) = 3 /\ d.texts[3] = named[1].value
    BY <1>9, <1>18
  <2>2. Meant(d) = named[1].value
    <3>1. PICK t : t = d.texts
      OBVIOUS
    <3>2. t \in Seq(C) /\ Len(t) = 3 /\ Len(t) > 0 /\ t[Len(t)] = named[1].value
      BY <1>9, <2>1, <3>1
    <3>. QED
      BY <1>18, <3>1, <3>2, MeantLast, Zenon
  <2>3. PlacesOf(es, "Job") = {1}
    <3>1. es[2].name # "Job" /\ es[1].name = "Job" /\ Meant(es[1]) # NoText
      BY <1>3, <1>4, <1>18, <2>2
    <3>. QED
      BY <1>3, <3>1, Zenon DEF PlacesOf
  <2>4. Meant(es[1]) # NoText
    BY <1>3, <1>18, <2>2
  <2>5. "Job" \in DOMAIN props /\ Property(props, "Job") = Meant(es[1])
    <3>1. PICK m, i : m = "Job" /\ i = 1
      OBVIOUS
    <3>2. i \in Nat /\ PropertyRead(es, props, m)
      BY <1>15, <3>1
    <3>3. PlacesOf(es, m) = {i} /\ Meant(es[i]) # NoText
      BY <2>3, <2>4, <3>1
    <3>4. m \in DOMAIN props /\ Property(props, m) = Meant(es[i])
      BY <3>2, <3>3, OneMeant
    <3>. QED
      BY <3>1, <3>4
  <2>. QED
    BY <1>3, <2>2, <2>5
<1>19. PICK p : p = [m \in DOMAIN props \ {"ReturnValue"} |-> props[m]]
  OBVIOUS
<1>20. r.returnValue = "4096" /\ r.properties = p
  <2>1. r = [returnValue |-> Property(props, "ReturnValue"), properties |-> p]
    BY <1>13, <1>19, Zenon DEF ParseInvokeResponse
  <2>. QED
    BY <1>17, <2>1
<1>21. /\ DOMAIN p = DOMAIN props \ {"ReturnValue"}
       /\ \A m \in DOMAIN p : p[m] = props[m]
  BY <1>19
<1>22. "ReturnValue" \notin DOMAIN p
  BY <1>21
<1>23. ASSUME n = 1, named[1].value # NoText PROVE Property(p, "Job") = named[1].value
  <2>1. "Job" \in DOMAIN props /\ "Job" \in DOMAIN p /\ p["Job"] = props["Job"]
    BY <1>18, <1>21, <1>23
  <2>2. Property(p, "Job") = Property(props, "Job")
    BY <2>1, Zenon DEF Property
  <2>. QED
    BY <1>18, <1>23, <2>2
<1>. QED
  BY <1>5, <1>20, <1>22, <1>23

\* A reference is found in either form, and so is the job it names.
LEMMA ReferenceRight ==
  ASSUME NEW V, Null \notin V, NEW epr, epr.uri \in V, NEW A, NEW named \in Seq(A),
         named = epr.selectors, \A s \in A : s.value \in V /\ s.name # NoText,
         NEW es, es = <<AsElement("Job", epr),
                        [name |-> "ReturnValue", texts |-> <<"4096">>, nil |-> FALSE]>>,
         NEW r, r = ParseInvokeResponse(es),
         NEW a, a = [epr |-> PropertyEPR(epr), created |-> ExtractEndpointReference(epr),
                     response |-> r, ref |-> Property(r.properties, "Job")]
  PROVE  RefersTo(epr, a)
<1>1. PICK p, c, j : /\ p = PropertyEPR(epr) /\ c = ExtractEndpointReference(epr)
                     /\ j = Property(r.properties, "Job")
  OBVIOUS
<1>2. a.epr = p /\ a.created = c /\ a.response = r /\ a.ref = j
  BY <1>1
<1>3. /\ Len(named) = 1 /\ named[1].value # NoText => j = named[1].value
      /\ r.returnValue = "4096" /\ "ReturnValue" \notin DOMAIN r.properties
  <2>1. \A s \in A : s.value \in V
    OBVIOUS
  <2>. QED
    BY <1>1, <2>1, ResponseRight
<1>4. PICK P, Q, at : /\ P = Selected(named, DOMAIN named)
                      /\ at = {i \in DOMAIN named : named[i].name # NoText /\ named[i].value # NoText}
                      /\ Q = Selected(named, at)
  OBVIOUS
<1>5. p.found <=> epr.uri # NoText
  <2>1. epr.uri = NoText => p = [found |-> FALSE]
    BY <1>1, Zenon DEF PropertyEPR, NoText
  <2>2. epr.uri # NoText => p = [found |-> TRUE, uri |-> epr.uri, selectors |-> P]
    BY <1>1, <1>4, Zenon DEF PropertyEPR, NoText
  <2>. QED
    BY <2>1, <2>2
<1>6. ASSUME p.found PROVE p.uri = epr.uri /\ p.selectors = P
  <2>1. p = [found |-> TRUE, uri |-> epr.uri, selectors |-> P]
    BY <1>1, <1>4, <1>5, <1>6, Zenon DEF PropertyEPR, NoText
  <2>. QED
    BY <2>1
<1>7. c.selectors = Q
  <2>1. c = [uri |-> epr.uri, selectors |-> Q]
    BY <1>1, <1>4, Zenon DEF ExtractEndpointReference, NoText
  <2>. QED
    BY <2>1
<1>8. \A i \in DOMAIN named : named[i].name # NoText
  BY LenProperties, ElementOfSeq
<1>9. ASSUME NEW i \in DOMAIN named, \A k \in DOMAIN named : k > i => named[k].name # named[i].name
      PROVE  /\ P[named[i].name] = named[i].value
             /\ named[i].value # NoText => Q[named[i].name] = named[i].value
  <2>1. P[named[i].name] = named[i].value
    BY <1>4, <1>9, SelectedRight, Zenon
  <2>2. ASSUME named[i].value # NoText PROVE Q[named[i].name] = named[i].value
    <3>1. i \in at /\ at \in SUBSET DOMAIN named
      BY <1>4, <1>8, <2>2
    <3>2. \A k \in at : k > i => named[k].name # named[i].name
      BY <1>9, <3>1
    <3>. QED
      BY <1>4, <3>1, <3>2, SelectedRight, Zenon
  <2>. QED
    BY <2>1, <2>2
<1>10. /\ a.epr.found <=> epr.uri # NoText
       /\ a.epr.found => a.epr.uri = epr.uri /\ a.epr.selectors = P
       /\ a.created.selectors = Q
  BY <1>2, <1>5, <1>6, <1>7, Zenon
<1>11. /\ Len(named) = 1 /\ named[1].value # NoText => a.ref = named[1].value
       /\ a.response.returnValue = "4096" /\ "ReturnValue" \notin DOMAIN a.response.properties
  BY <1>2, <1>3, Zenon
<1> DEFINE Final(i) == \A k \in DOMAIN named : k > i => named[k].name # named[i].name
<1>12. \A i \in DOMAIN named : Final(i) =>
         /\ a.epr.found => a.epr.selectors[named[i].name] = named[i].value
         /\ named[i].value # NoText => a.created.selectors[named[i].name] = named[i].value
  <2> TAKE i \in DOMAIN named
  <2> HAVE Final(i)
  <2>1. /\ P[named[i].name] = named[i].value
        /\ named[i].value # NoText => Q[named[i].name] = named[i].value
    BY <1>9, Zenon
  <2>. QED
    BY <1>10, <2>1, Zenon
<1>13. /\ a.epr.found => a.epr.uri = epr.uri
       /\ a.epr.found => \A i \in DOMAIN named : Final(i) =>
                           a.epr.selectors[named[i].name] = named[i].value
       /\ \A i \in DOMAIN named : Final(i) /\ named[i].value # NoText =>
                           a.created.selectors[named[i].name] = named[i].value
  BY <1>10, <1>12, Zenon
<1>. QED
  BY <1>10, <1>11, <1>13, Zenon DEF RefersTo, NoText

\* Every answer is read as the host meant it, however many elements it has and
\* whatever is in them: arrays keep their positions, a property of nothing but NULLs
\* is absent, and a reference is found with all of its selectors
\* (enumerate.go:344-377, unmarshal.go:60, invoke.go:37, create.go:98).  The references
\* of Spec have up to three selectors; ReferenceRight is about any number.
THEOREM AnswersAlwaysRead == Spec => []AnswersRead
<1>1. Init => AnswersRead
  BY DEF Init, NoCall, AnswersRead, ArraysAligned, NullStaysUnset, ReferenceKept
<1>2. AnswersRead /\ [Next]_vars => AnswersRead'
  <2> SUFFICES ASSUME AnswersRead, [Next]_vars PROVE AnswersRead'
    OBVIOUS
  <2>1. CASE UNCHANGED vars
    <3>1. call' = call /\ answer' = answer
      BY <2>1 DEF vars
    <3>. QED
      BY <3>1, Zenon DEF AnswersRead, ArraysAligned, NullStaysUnset, ReferenceKept
  <2>2. CASE Next /\ call'.op \notin {"instance", "reference"}
    BY <2>2 DEF AnswersRead, ArraysAligned, NullStaysUnset, ReferenceKept
  <2>3. CASE Next /\ call'.op = "instance"
    <3>1. ReadInstance
      BY <2>3, CallNamed DEF Next
    <3>2. PICK es \in Upto(Elements, MaxElements) : \E props :
            /\ props = ExtractProperties(es)
            /\ call' = [op |-> "instance", of |-> es]
            /\ answer' = [properties |-> props, read |-> UnmarshalList(props)]
      BY <3>1, Zenon DEF ReadInstance, Calls
    <3>3. PICK props :
            /\ props = ExtractProperties(es)
            /\ call' = [op |-> "instance", of |-> es]
            /\ answer' = [properties |-> props, read |-> UnmarshalList(props)]
      BY <3>2, Zenon
    <3>4. es \in Seq(Elements)
      BY <3>2, UptoSeq, ElementsAssumption
    <3>5. call'.of = es /\ call'.op = "instance" /\ answer'.properties = props
      BY <3>3
    <3>6. Null \notin Texts /\ \A e \in Elements : e.texts \in Seq(Texts)
      BY ElementsAssumption DEF Texts
    <3>7. DOMAIN props = Given(es) /\ Aligned(es, props)
      BY <3>3, <3>4, <3>6, ExtractedRight, Zenon
    <3>8. NullsUnset(es, answer')
      BY <3>3, <3>7, UnsetRight, Zenon
    <3>9. Aligned(es, answer'.properties)
      BY <3>5, <3>7, Zenon
    <3>. QED
      BY <3>5, <3>8, <3>9 DEF AnswersRead, ArraysAligned, NullStaysUnset, ReferenceKept
  <2>4. CASE Next /\ call'.op = "reference"
    <3>1. ReadReference
      BY <2>4, CallNamed DEF Next
    <3>2. PICK A, V : /\ A = [name : {"InstanceID", "CreationClassName"}, value : V]
                      /\ V = {NoText, "Msvm_StorageJob", "job", "class"}
      OBVIOUS
    <3>3. PICK uri \in {NoText, "Msvm_StorageJob"},
               selectors \in Upto([name : {"InstanceID", "CreationClassName"},
                                   value : {NoText, "job", "class"}], 3) : \E epr, r :
            /\ epr = [uri |-> uri, selectors |-> selectors]
            /\ r = ParseInvokeResponse(
                     <<AsElement("Job", epr),
                       [name |-> "ReturnValue", texts |-> <<"4096">>, nil |-> FALSE]>>)
            /\ call' = [op |-> "reference", of |-> epr]
            /\ answer' = [epr |-> PropertyEPR(epr), created |-> ExtractEndpointReference(epr),
                          response |-> r, ref |-> Property(r.properties, "Job")]
      BY <3>1, Zenon DEF ReadReference, Calls, NoText
    <3>4. PICK epr, r :
            /\ epr = [uri |-> uri, selectors |-> selectors]
            /\ r = ParseInvokeResponse(
                     <<AsElement("Job", epr),
                       [name |-> "ReturnValue", texts |-> <<"4096">>, nil |-> FALSE]>>)
            /\ call' = [op |-> "reference", of |-> epr]
            /\ answer' = [epr |-> PropertyEPR(epr), created |-> ExtractEndpointReference(epr),
                          response |-> r, ref |-> Property(r.properties, "Job")]
      BY <3>3, Zenon
    <3>5. selectors \in Seq(A)
      <4>1. PICK B : B = [name : {"InstanceID", "CreationClassName"}, value : {NoText, "job", "class"}]
        OBVIOUS
      <4>2. selectors \in Upto(B, 3) /\ 3 \in Nat
        BY <3>3, <4>1
      <4>3. selectors \in Seq(B)
        BY <4>2, UptoSeq
      <4>4. B \subseteq A
        BY <3>2, <4>1
      <4>. QED
        BY <4>3, <4>4
    <3>6. /\ epr.uri = uri /\ epr.selectors = selectors
          /\ call'.op = "reference" /\ call'.of = epr
      BY <3>4
    <3>7. Null \notin V /\ uri \in V
      <4>1. Null # NoText /\ Null \notin {"Msvm_StorageJob", "job", "class"}
        BY Zenon DEF Null, NoText
      <4>. QED
        BY <3>2, <3>3, <4>1
    <3>8. \A s \in A : s.value \in V /\ s.name # NoText
      <4>1. "InstanceID" # NoText /\ "CreationClassName" # NoText
        BY Zenon DEF NoText
      <4>. QED
        BY <3>2, <4>1
    <3>9. RefersTo(epr, answer')
      BY <3>4, <3>5, <3>6, <3>7, <3>8, ReferenceRight, Zenon
    <3>. QED
      BY <3>6, <3>9 DEF AnswersRead, ArraysAligned, NullStaysUnset, ReferenceKept
  <2>. QED
    BY <2>1, <2>2, <2>3, <2>4
<1>. QED
  BY <1>1, <1>2, PTL DEF Spec

----------------------------------------------------------------------------
\* Embedded instances.

\* The places of the elements of A are the numbers up to n.
Numbering(pos, A, n) ==
  /\ \A x \in A : pos[x] \in 1 .. n
  /\ Tells(pos, A)
  /\ \A p \in 1 .. n : \E x \in A : pos[x] = p

\* As many as m of them are at most at m.
LEMMA Numbered ==
  ASSUME NEW A, NEW n \in Nat, NEW pos, Numbering(pos, A, n), NEW m \in 0 .. n
  PROVE  Cardinality({x \in A : pos[x] <= m}) = m
<1>0. /\ \A x \in A : pos[x] \in 1 .. n
      /\ Tells(pos, A)
      /\ \A p \in 1 .. n : \E x \in A : pos[x] = p
  BY DEF Numbering
<1>1. PICK Q, at : /\ Q = {x \in A : pos[x] <= m}
                   /\ at = [p \in 1 .. m |-> CHOOSE x \in A : pos[x] = p]
  OBVIOUS
<1>2. \A p \in 1 .. m : at[p] \in A /\ pos[at[p]] = p
  <2> TAKE p \in 1 .. m
  <2>1. p \in 1 .. n
    OBVIOUS
  <2>2. at[p] = CHOOSE x \in A : pos[x] = p
    BY <1>1
  <2>. QED
    BY <1>0, <2>1, <2>2, Zenon
<1>3. /\ m \in Nat /\ \A p \in 1 .. m : p <= m
      /\ \A x : x \in Q <=> x \in A /\ pos[x] <= m
  BY <1>1
<1>4. \A x : x \in Q <=> \E p \in 1 .. m : x = at[p]
  <2>1. ASSUME NEW x \in Q PROVE \E p \in 1 .. m : x = at[p]
    <3>1. x \in A /\ pos[x] \in 1 .. n /\ pos[x] <= m
      BY <1>0, <1>1
    <3>2. pos[x] \in 1 .. m
      BY <1>3, <3>1
    <3>3. at[pos[x]] \in A /\ pos[at[pos[x]]] = pos[x]
      BY <1>2, <3>2, Zenon
    <3>4. at[pos[x]] = x
      BY <1>0, <3>1, <3>3, Zenon DEF Tells
    <3>. QED
      BY <3>2, <3>4
  <2>2. \A p \in 1 .. m : at[p] \in Q
    <3> TAKE p \in 1 .. m
    <3>1. at[p] \in A /\ pos[at[p]] <= m
      BY <1>2, <1>3, Zenon
    <3>. QED
      BY <1>3, <3>1, Zenon
  <2>. QED
    BY <2>1, <2>2, Zenon
<1>5. \A i, j \in 1 .. m : at[i] = at[j] => i = j
  BY <1>2, Zenon
<1>6. AllAt(Q, at, 1 .. m)
  BY <1>4, <1>5, Zenon DEF AllAt
<1>7. Cardinality(Q) = m
  <2>1. PICK D : D = 1 .. m
    OBVIOUS
  <2>2. IsFiniteSet(D) /\ Cardinality(D) = m
    BY <1>3, <2>1, Numbers
  <2>3. AllAt(Q, at, D)
    BY <1>6, <2>1, Zenon
  <2>4. Cardinality(Q) = Cardinality(D)
    BY <2>2, <2>3, AsMany, Zenon
  <2>. QED
    BY <2>2, <2>4, Zenon
<1>. QED
  BY <1>1, <1>7

\* A later part starts later.
LEMMA StartsGrow ==
  ASSUME NEW S, NEW ss \in Seq(Seq(S)), NEW L, Starts(L, ss),
         NEW i \in 1 .. Len(ss), NEW j \in 1 .. Len(ss), i < j
  PROVE  L[i] + Len(ss[i]) <= L[j]
<1>1. PICK n, Q : n = Len(ss) /\ Q = Seq(S)
  OBVIOUS
<1>2. n \in Nat /\ \A k \in 1 .. n : ss[k] \in Q
  <2>1. ss \in Seq(Q)
    BY <1>1
  <2>. QED
    BY <1>1, <2>1, LenProperties, ElementOfSeq
<1>3. \A k \in 1 .. n : Len(ss[k]) \in Nat
  BY <1>1, <1>2, LenProperties
<1>4. /\ L \in [1 .. n + 1 -> Nat]
      /\ \A k \in 1 .. n : L[k + 1] = L[k] + Len(ss[k])
  BY <1>1 DEF Starts
<1> DEFINE T == {k \in Nat : i + 1 + k <= n => L[i + 1] <= L[i + 1 + k]}
<1>5. Nat \subseteq T
  <2>1. 0 \in T
    <3>1. i + 1 \in 1 .. n + 1 /\ i + 1 + 0 = i + 1
      BY <1>1, <1>2
    <3>2. L[i + 1] \in Nat
      BY <1>4, <3>1
    <3>. QED
      BY <3>1, <3>2
  <2>2. ASSUME NEW k \in Nat, k \in T PROVE k + 1 \in T
    <3> SUFFICES ASSUME i + 1 + (k + 1) <= n PROVE L[i + 1] <= L[i + 1 + (k + 1)]
      OBVIOUS
    <3>1. PICK p : p = i + 1 + k
      OBVIOUS
    <3>2. p \in 1 .. n /\ i + 1 + (k + 1) = p + 1 /\ i + 1 \in 1 .. n + 1
      BY <1>1, <1>2, <3>1
    <3>3. L[i + 1] <= L[p]
      BY <1>2, <2>2, <3>1, <3>2
    <3>4. L[p + 1] = L[p] + Len(ss[p]) /\ Len(ss[p]) \in Nat
      BY <1>3, <1>4, <3>2
    <3>5. L[i + 1] \in Nat /\ L[p] \in Nat
      BY <1>2, <1>4, <3>2
    <3>6. L[i + 1] <= L[p + 1]
      <4>1. PICK u, v, w, l : u = L[i + 1] /\ v = L[p] /\ w = L[p + 1] /\ l = Len(ss[p])
        OBVIOUS
      <4>2. u \in Nat /\ v \in Nat /\ l \in Nat /\ u <= v /\ w = v + l
        BY <3>3, <3>4, <3>5, <4>1, Zenon
      <4>3. u <= w
        BY <4>2
      <4>. QED
        BY <4>1, <4>3, Zenon
    <3>. QED
      BY <3>2, <3>6, Zenon
  <2>. QED
    BY <2>1, <2>2, Counted0
<1>6. j - (i + 1) \in Nat /\ i + 1 + (j - (i + 1)) = j /\ j <= n
  BY <1>1, <1>2
<1>7. L[i + 1] <= L[j]
  BY <1>5, <1>6
<1>8. L[i + 1] = L[i] + Len(ss[i])
  BY <1>1, <1>4
<1>. QED
  BY <1>7, <1>8

\* The places of the elements of parts.
PlacesIn(ss) == UNION {{<<i, k>> : k \in DOMAIN ss[i]} : i \in DOMAIN ss}

\* They are pairs.
LEMMA PlacedIn ==
  ASSUME NEW S, NEW ss \in Seq(Seq(S)), NEW x
  PROVE  x \in PlacesIn(ss) <=> \E i \in 1 .. Len(ss) : \E k \in 1 .. Len(ss[i]) : x = <<i, k>>
<1>1. PICK Q : Q = Seq(S)
  OBVIOUS
<1>2. DOMAIN ss = 1 .. Len(ss) /\ \A i \in 1 .. Len(ss) : ss[i] \in Q
  <2>1. ss \in Seq(Q)
    BY <1>1
  <2>. QED
    BY <2>1, LenProperties, ElementOfSeq
<1>3. \A i \in 1 .. Len(ss) : DOMAIN ss[i] = 1 .. Len(ss[i])
  BY <1>1, <1>2, LenProperties
<1>4. x \in PlacesIn(ss) <=> \E i \in DOMAIN ss : \E k \in DOMAIN ss[i] : x = <<i, k>>
  <2>1. x \in PlacesIn(ss) <=> \E i \in DOMAIN ss : x \in {<<i, k>> : k \in DOMAIN ss[i]}
    BY DEF PlacesIn
  <2>. QED
    BY <2>1
<1>. QED
  BY <1>2, <1>3, <1>4, Zenon

\* q holds the elements of the parts in the order of their places.
InOrder(q, ss) ==
  LET at == PlacesIn(ss)
  IN /\ Len(q) = Cardinality(at)
     /\ \A y \in at : Ordinal(at, y) \in 1 .. Len(q) /\ q[Ordinal(at, y)] = ss[y[1]][y[2]]

\* FlattenSeq keeps the order.
LEMMA FlattenOrdered ==
  ASSUME NEW S, NEW ss \in Seq(Seq(S)), NEW q, q = FlattenSeq(ss)
  PROVE  q \in Seq(S) /\ InOrder(q, ss)
<1>1. PICK N, Q, A : N = Len(ss) /\ Q = Seq(S) /\ A = PlacesIn(ss)
  OBVIOUS
<1>2. N \in Nat /\ \A i \in 1 .. N : ss[i] \in Q
  <2>1. ss \in Seq(Q)
    BY <1>1
  <2>. QED
    BY <1>1, <2>1, LenProperties, ElementOfSeq
<1>3. PICK L : q \in Seq(S) /\ Starts(L, ss) /\ Placed(q, L, ss, N)
  BY <1>1, FlattenPlaced
<1>4. L \in [1 .. N + 1 -> Nat] /\ \A i \in 1 .. N : L[i] \in Nat /\ Len(ss[i]) \in Nat
  <2>1. \A i \in 1 .. N : Len(ss[i]) \in Nat
    BY <1>1, <1>2, LenProperties
  <2>2. L \in [1 .. N + 1 -> Nat]
    BY <1>1, <1>3 DEF Starts
  <2>. QED
    BY <1>2, <2>1, <2>2
<1>5. PICK n : n = Len(q)
  OBVIOUS
<1>6. n \in Nat /\ n = L[N + 1]
  BY <1>3, <1>5, LenProperties DEF Placed
<1>7. /\ \A i \in 1 .. N : \A j \in 1 .. Len(ss[i]) :
           L[i] + j \in 1 .. n /\ q[L[i] + j] = ss[i][j]
      /\ \A p \in 1 .. n : \E i \in 1 .. N : \E j \in 1 .. Len(ss[i]) : p = L[i] + j
  BY <1>3, <1>6, Zenon DEF Placed
<1>8. \A x : x \in A <=> \E i \in 1 .. N : \E k \in 1 .. Len(ss[i]) : x = <<i, k>>
  BY <1>1, PlacedIn
<1>9. \A x \in A : x[1] \in 1 .. N /\ x[2] \in 1 .. Len(ss[x[1]]) /\ x = <<x[1], x[2]>>
  <2> TAKE x \in A
  <2>1. PICK i \in 1 .. N : \E k \in 1 .. Len(ss[i]) : x = <<i, k>>
    BY <1>8, Zenon
  <2>2. PICK k \in 1 .. Len(ss[i]) : x = <<i, k>>
    BY <2>1, Zenon
  <2>3. x[1] = i /\ x[2] = k
    BY <2>2
  <2>. QED
    BY <2>2, <2>3
<1>10. PICK pos : pos = [x \in A |-> L[x[1]] + x[2]]
  OBVIOUS
<1>11. \A x \in A : pos[x] = L[x[1]] + x[2] /\ pos[x] \in 1 .. n /\ q[pos[x]] = ss[x[1]][x[2]]
  <2>1. \A x \in A : pos[x] = L[x[1]] + x[2]
    BY <1>10
  <2>2. ASSUME NEW x \in A PROVE pos[x] \in 1 .. n /\ q[pos[x]] = ss[x[1]][x[2]]
    <3>1. PICK i, k : i = x[1] /\ k = x[2]
      OBVIOUS
    <3>2. i \in 1 .. N /\ k \in 1 .. Len(ss[i])
      BY <1>9, <3>1, Zenon
    <3>3. L[i] + k \in 1 .. n /\ q[L[i] + k] = ss[i][k]
      BY <1>7, <3>2, Zenon
    <3>4. pos[x] = L[i] + k
      BY <2>1, <3>1, Zenon
    <3>. QED
      BY <3>1, <3>3, <3>4, Zenon
  <2>. QED
    BY <2>1, <2>2
<1>12. \A p \in 1 .. n : \E x \in A : pos[x] = p
  <2> TAKE p \in 1 .. n
  <2>1. PICK i \in 1 .. N : \E j \in 1 .. Len(ss[i]) : p = L[i] + j
    BY <1>7, Zenon
  <2>2. PICK j \in 1 .. Len(ss[i]) : p = L[i] + j
    BY <2>1, Zenon
  <2>3. PICK x : x = <<i, j>>
    OBVIOUS
  <2>4. x \in A
    BY <1>8, <2>3, Zenon
  <2>5. x[1] = i /\ x[2] = j
    BY <2>3
  <2>. QED
    BY <1>11, <2>2, <2>4, <2>5, Zenon
<1>13. \A x, y \in A : x[1] < y[1] => pos[x] < pos[y]
  <2> SUFFICES ASSUME NEW x \in A, NEW y \in A, x[1] < y[1] PROVE pos[x] < pos[y]
    OBVIOUS
  <2>1. PICK i, j, k, l : i = x[1] /\ k = x[2] /\ j = y[1] /\ l = y[2]
    OBVIOUS
  <2>2. i \in 1 .. N /\ j \in 1 .. N /\ i < j /\ k \in 1 .. Len(ss[i]) /\ l \in 1 .. Len(ss[j])
    BY <1>9, <2>1, Zenon
  <2>3. L[i] + Len(ss[i]) <= L[j]
    BY <1>1, <1>3, <2>2, StartsGrow
  <2>4. pos[x] = L[i] + k /\ pos[y] = L[j] + l
    BY <1>11, <2>1, Zenon
  <2>5. L[i] \in Nat /\ L[j] \in Nat /\ Len(ss[i]) \in Nat /\ Len(ss[j]) \in Nat
    BY <1>4, <2>2
  <2>6. PICK u, v, g, h : u = L[i] /\ v = L[j] /\ g = Len(ss[i]) /\ h = Len(ss[j])
    OBVIOUS
  <2>7. /\ u \in Nat /\ v \in Nat /\ g \in Nat /\ h \in Nat
        /\ k \in 1 .. g /\ l \in 1 .. h /\ u + g <= v
    BY <2>2, <2>3, <2>5, <2>6, Zenon
  <2>8. u + k < v + l
    BY <2>7
  <2>. QED
    BY <2>4, <2>6, <2>8, Zenon
<1>14. \A x, y \in A : x[1] = y[1] => (x[2] <= y[2] <=> pos[x] <= pos[y])
  <2> SUFFICES ASSUME NEW x \in A, NEW y \in A, x[1] = y[1]
               PROVE  x[2] <= y[2] <=> pos[x] <= pos[y]
    OBVIOUS
  <2>1. PICK i, k, l : i = x[1] /\ k = x[2] /\ l = y[2]
    OBVIOUS
  <2>2. i \in 1 .. N /\ k \in 1 .. Len(ss[i]) /\ l \in 1 .. Len(ss[i])
    BY <1>9, <2>1, Zenon
  <2>3. pos[x] = L[i] + k /\ pos[y] = L[i] + l /\ L[i] \in Nat /\ Len(ss[i]) \in Nat
    BY <1>4, <1>11, <2>1, <2>2
  <2>. QED
    BY <2>1, <2>2, <2>3
<1>15. \A x, y \in A : (x[1] < y[1] \/ (x[1] = y[1] /\ x[2] <= y[2])) <=> pos[x] <= pos[y]
  <2> SUFFICES ASSUME NEW x \in A, NEW y \in A
               PROVE  (x[1] < y[1] \/ (x[1] = y[1] /\ x[2] <= y[2])) <=> pos[x] <= pos[y]
    OBVIOUS
  <2>1. PICK i, j, k, l, u, v : /\ i = x[1] /\ k = x[2] /\ j = y[1] /\ l = y[2]
                                /\ u = pos[x] /\ v = pos[y]
    OBVIOUS
  <2>2. i \in 1 .. N /\ j \in 1 .. N /\ u \in 1 .. n /\ v \in 1 .. n
    BY <1>9, <1>11, <2>1, Zenon
  <2>3. /\ i < j => u < v
        /\ j < i => v < u
        /\ i = j => (k <= l <=> u <= v)
    BY <1>13, <1>14, <2>1, Zenon
  <2>4. (i < j \/ (i = j /\ k <= l)) <=> u <= v
    BY <1>2, <1>6, <2>2, <2>3
  <2>. QED
    BY <2>1, <2>4
<1>16. Tells(pos, A)
  <2>1. ASSUME NEW x \in A, NEW y \in A, pos[x] = pos[y] PROVE x = y
    <3>1. PICK i, j, k, l : /\ i = x[1] /\ k = x[2] /\ j = y[1] /\ l = y[2]
      OBVIOUS
    <3>2. i \in 1 .. N /\ j \in 1 .. N /\ x = <<i, k>> /\ y = <<j, l>>
          /\ k \in 1 .. Len(ss[i]) /\ l \in 1 .. Len(ss[j])
      BY <1>9, <3>1, Zenon
    <3>3. pos[x] \in Nat
      BY <1>6, <1>11
    <3>4. ~ (i < j) /\ ~ (j < i)
      <4>1. ~ (pos[x] < pos[y]) /\ ~ (pos[y] < pos[x])
        BY <2>1, <3>3
      <4>. QED
        BY <1>13, <3>1, <4>1, Zenon
    <3>5. i = j
      BY <1>2, <3>2, <3>4
    <3>6. pos[x] = L[i] + k /\ pos[y] = L[i] + l /\ L[i] \in Nat /\ Len(ss[i]) \in Nat
      BY <1>4, <1>11, <3>1, <3>2, <3>5
    <3>7. k = l
      BY <2>1, <3>2, <3>5, <3>6
    <3>. QED
      BY <3>2, <3>5, <3>7
  <2>. QED
    BY <2>1, Zenon DEF Tells
<1>17. \A m \in 0 .. n : Cardinality({x \in A : pos[x] <= m}) = m
  <2>1. \A x \in A : pos[x] \in 1 .. n
    BY <1>11, Zenon
  <2>2. Numbering(pos, A, n)
    BY <1>12, <1>16, <2>1, Zenon DEF Numbering
  <2> TAKE m \in 0 .. n
  <2>3. n \in Nat
    BY <1>6
  <2>. QED
    BY <2>2, <2>3, Numbered
<1>18. \A y \in A : Ordinal(A, y) = pos[y]
  <2> TAKE y \in A
  <2>1. pos[y] \in 0 .. n
    BY <1>6, <1>11
  <2>2. Cardinality({x \in A : pos[x] <= pos[y]}) = pos[y]
    BY <1>17, <2>1, Zenon
  <2>3. {x \in A : x[1] < y[1] \/ (x[1] = y[1] /\ x[2] <= y[2])} = {x \in A : pos[x] <= pos[y]}
    BY <1>15, Zenon
  <2>. QED
    BY <2>2, <2>3, Zenon DEF Ordinal
<1>19. Cardinality(A) = n
  <2>1. {x \in A : pos[x] <= n} = A
    <3>1. \A x \in A : pos[x] <= n
      BY <1>6, <1>11
    <3>. QED
      BY <3>1, Zenon
  <2>2. n \in 0 .. n
    BY <1>6
  <2>. QED
    BY <1>17, <2>1, <2>2, Zenon
<1>20. \A y \in A : Ordinal(A, y) \in 1 .. n /\ q[Ordinal(A, y)] = ss[y[1]][y[2]]
  <2> TAKE y \in A
  <2>1. pos[y] \in 1 .. n /\ q[pos[y]] = ss[y[1]][y[2]] /\ Ordinal(A, y) = pos[y]
    BY <1>11, <1>18, Zenon
  <2>. QED
    BY <2>1, Zenon
<1>. QED
  BY <1>1, <1>3, <1>5, <1>19, <1>20, Zenon DEF InOrder

\* The VALUEs of a property, in the order of their places.
LEMMA ValuesOrdered ==
  ASSUME NEW V, NEW E, NEW es \in Seq(E), \A e \in E : e.values \in Seq(V),
         NEW n, NEW q, q = EmbeddedValues(es, n), NEW at, at = ValuePlaces(es, n)
  PROVE  /\ q \in Seq(V) /\ Len(q) = Cardinality(at)
         /\ \A y \in at : Ordinal(at, y) \in 1 .. Len(q) /\ q[Ordinal(at, y)] = es[y[1]].values[y[2]]
<1>1. PICK ss, Q : /\ ss = [i \in DOMAIN es |-> IF es[i].name = n THEN es[i].values ELSE <<>>]
                   /\ Q = Seq(V)
  OBVIOUS
<1>2. ss \in Seq(Q) /\ DOMAIN ss = DOMAIN es
  <2>1. \A i \in DOMAIN es : es[i] \in E
    BY LenProperties, ElementOfSeq
  <2>2. \A i \in DOMAIN es : es[i].values \in Q
    BY <1>1, <2>1, Zenon
  <2>3. <<>> \in Q
    BY <1>1
  <2>4. \A i \in DOMAIN es : (IF es[i].name = n THEN es[i].values ELSE <<>>) \in Q
    BY <2>2, <2>3, Zenon
  <2>5. DOMAIN es = 1 .. Len(es) /\ Len(es) \in Nat
    BY LenProperties
  <2>. QED
    BY <1>1, <2>4, <2>5
<1>3. q \in Seq(V) /\ InOrder(q, ss)
  <2>1. q = FlattenSeq(ss)
    BY <1>1, Zenon DEF EmbeddedValues
  <2>. QED
    BY <1>1, <1>2, <2>1, FlattenOrdered
<1>4. \A i \in DOMAIN es : ss[i] = IF es[i].name = n THEN es[i].values ELSE <<>>
  BY <1>1
<1>5. \A x : x \in PlacesIn(ss) <=> x \in at
  <2> TAKE x
  <2>1. x \in PlacesIn(ss) <=> \E i \in DOMAIN ss : x \in {<<i, k>> : k \in DOMAIN ss[i]}
    BY DEF PlacesIn
  <2>2. x \in at <=> \E i \in DOMAIN es : es[i].name = n /\ x \in {<<i, k>> : k \in DOMAIN es[i].values}
    BY DEF ValuePlaces
  <2>3. \A i \in DOMAIN es : es[i].name = n => ss[i] = es[i].values
    BY <1>4, Zenon
  <2>4. \A i \in DOMAIN es : es[i].name # n => {<<i, k>> : k \in DOMAIN ss[i]} = {}
    <3> TAKE i \in DOMAIN es
    <3> HAVE es[i].name # n
    <3>1. ss[i] = <<>>
      BY <1>4, Zenon
    <3>2. DOMAIN ss[i] = {}
      BY <3>1
    <3>. QED
      BY <3>2
  <2>. QED
    BY <1>2, <2>1, <2>2, <2>3, <2>4, Zenon
<1>6. PlacesIn(ss) = at
  BY <1>5
<1>7. \A y \in at : ss[y[1]] = es[y[1]].values
  <2> TAKE y \in at
  <2>1. \E i \in DOMAIN es : es[i].name = n /\ \E k \in DOMAIN es[i].values : y = <<i, k>>
    BY DEF ValuePlaces
  <2>2. PICK i \in DOMAIN es : es[i].name = n /\ \E k \in DOMAIN es[i].values : y = <<i, k>>
    BY <2>1, Zenon
  <2>3. y[1] = i
    BY <2>2
  <2>. QED
    BY <1>4, <2>2, <2>3, Zenon
<1>8. /\ Len(q) = Cardinality(at)
      /\ \A y \in at : Ordinal(at, y) \in 1 .. Len(q) /\ q[Ordinal(at, y)] = ss[y[1]][y[2]]
  BY <1>3, <1>6, Zenon DEF InOrder
<1>. QED
  BY <1>3, <1>7, <1>8, Zenon

\* A property of which one VALUE is no NULL is there with every value in its place.
LEMMA EmbeddedRead ==
  ASSUME NEW V, NEW E, NEW es \in Seq(E), \A e \in E : e.values \in Seq(V),
         NEW n, NEW at, at = ValuePlaces(es, n), \E x \in at : es[x[1]].values[x[2]] # Null,
         NEW flat, n \in DOMAIN flat, flat[n] = EmbeddedValues(es, n),
         NEW props, ResolvedOf(props, flat)
  PROVE  /\ n \in DOMAIN props /\ Len(props[n]) = Cardinality(at)
         /\ \A y \in at : props[n][Ordinal(at, y)] =
              IF es[y[1]].values[y[2]] = Null THEN NoText ELSE es[y[1]].values[y[2]]
<1>1. PICK q : q = flat[n]
  OBVIOUS
<1>2. /\ q \in Seq(V) /\ Len(q) = Cardinality(at)
      /\ \A y \in at : Ordinal(at, y) \in 1 .. Len(q) /\ q[Ordinal(at, y)] = es[y[1]].values[y[2]]
  BY <1>1, ValuesOrdered
<1>3. DOMAIN q = 1 .. Len(q)
  BY <1>2, LenProperties
<1>4. n \in DOMAIN props
  <2>1. PICK x \in at : es[x[1]].values[x[2]] # Null
    OBVIOUS
  <2>2. Ordinal(at, x) \in DOMAIN q /\ q[Ordinal(at, x)] # Null
    BY <1>2, <1>3, <2>1, Zenon
  <2>. QED
    BY <1>1, <2>2, Zenon DEF ResolvedOf
<1>5. Len(props[n]) = Cardinality(at)
  BY <1>1, <1>2, <1>4, ResolvedLong
<1>6. ASSUME NEW y \in at
      PROVE  props[n][Ordinal(at, y)] =
               IF es[y[1]].values[y[2]] = Null THEN NoText ELSE es[y[1]].values[y[2]]
  <2>1. Ordinal(at, y) \in DOMAIN q /\ q[Ordinal(at, y)] = es[y[1]].values[y[2]]
    BY <1>2, <1>3, Zenon
  <2>2. props[n][Ordinal(at, y)] =
          IF q[Ordinal(at, y)] = Null THEN NoText ELSE q[Ordinal(at, y)]
    BY <1>1, <1>4, <2>1, Zenon DEF ResolvedOf
  <2>. QED
    BY <2>1, <2>2, Zenon
<1>. QED
  BY <1>4, <1>5, <1>6

\* An instance inside another is refused, and otherwise every property is read.
LEMMA ParsedRight ==
  ASSUME NEW V, NEW E, NEW es \in Seq(E), \A e \in E : e.values \in Seq(V),
         NEW a, a = ParseEmbeddedInstance(es)
  PROVE  Unjoined(es, a)
<1>1. PICK ns, flat, props : /\ ns = Names(es) \ {NoText}
                             /\ flat = [n \in ns |-> EmbeddedValues(es, n)]
                             /\ props = ResolveNullPlaceholders(flat)
  OBVIOUS
<1>2. CASE \E i \in DOMAIN es : es[i].nested
  <2>1. a = [err |-> "nested"]
    BY <1>2, Zenon DEF ParseEmbeddedInstance
  <2>2. a.err # "nil"
    BY <2>1
  <2>. QED
    BY <2>2, Zenon DEF Unjoined
<1>3. CASE ~(\E i \in DOMAIN es : es[i].nested) /\ DOMAIN props = {}
  <2>1. a = [err |-> "empty"]
    BY <1>1, <1>3, Zenon DEF ParseEmbeddedInstance, NoText
  <2>2. a.err # "nil"
    BY <2>1
  <2>. QED
    BY <2>2, Zenon DEF Unjoined
<1>4. CASE ~(\E i \in DOMAIN es : es[i].nested) /\ DOMAIN props # {}
  <2>1. a = [err |-> "nil", properties |-> props]
    BY <1>1, <1>4, Zenon DEF ParseEmbeddedInstance, NoText
  <2>2. a.properties = props
    BY <2>1
  <2>3. ResolvedOf(props, flat)
    BY <1>1, Resolves, Zenon
  <2>4. DOMAIN flat = ns /\ \A n \in ns : flat[n] = EmbeddedValues(es, n)
    BY <1>1
  <2>5. ASSUME NEW n \in ns, NEW at, at = ValuePlaces(es, n),
               \E x \in at : es[x[1]].values[x[2]] # Null
        PROVE  /\ n \in DOMAIN props /\ Len(props[n]) = Cardinality(at)
               /\ \A y \in at : props[n][Ordinal(at, y)] =
                    IF es[y[1]].values[y[2]] = Null THEN NoText ELSE es[y[1]].values[y[2]]
    BY <2>3, <2>4, <2>5, EmbeddedRead
  <2>6. \A n \in ns : (\E x \in ValuePlaces(es, n) : es[x[1]].values[x[2]] # Null) =>
          /\ n \in DOMAIN props /\ Len(props[n]) = Cardinality(ValuePlaces(es, n))
          /\ \A y \in ValuePlaces(es, n) : props[n][Ordinal(ValuePlaces(es, n), y)] =
               IF es[y[1]].values[y[2]] = Null THEN NoText ELSE es[y[1]].values[y[2]]
    BY <2>5, Zenon
  <2>. QED
    BY <1>1, <1>4, <2>2, <2>6, Zenon DEF Unjoined, NoText
<1>. QED
  BY <1>2, <1>3, <1>4

----------------------------------------------------------------------------
\* A struct.

\* The elements of a finite set in some order.
LEMMA InSomeOrder ==
  ASSUME NEW S, IsFiniteSet(S), NEW q, q = SetToSeq(S)
  PROVE  /\ q \in Seq(S) /\ \A x \in S : \E i \in DOMAIN q : q[i] = x
         /\ \A i, j \in DOMAIN q : q[i] = q[j] => i = j
<1>1. PICK n, D : n = Cardinality(S) /\ D = 1 .. n
  OBVIOUS
<1>2. n \in Nat /\ ExistsBijection(D, S)
  BY <1>1, FS_CardinalityType
<1>3. IsFiniteSet(D) /\ Cardinality(D) = n
  BY <1>1, <1>2, Numbers
<1>4. PICK b : b \in Bijection(D, S)
  BY <1>2 DEF ExistsBijection
<1>5. b \in [D -> S] /\ \A i, j \in D : b[i] = b[j] => i = j
  BY <1>4 DEF Bijection, Injection, IsInjective
<1>6. q \in [D -> S] /\ IsInjective(q)
  <2>1. DOMAIN b = D
    BY <1>5
  <2>2. IsInjective(b)
    BY <1>5, <2>1 DEF IsInjective
  <2>3. q = CHOOSE f \in [D -> S] : IsInjective(f)
    BY <1>1, Zenon DEF SetToSeq
  <2>. QED
    BY <1>5, <2>2, <2>3, Zenon
<1>7. DOMAIN q = D /\ \A i, j \in D : q[i] = q[j] => i = j
  <2>1. DOMAIN q = D
    BY <1>6
  <2>. QED
    BY <1>6, <2>1 DEF IsInjective
<1>8. q \in Seq(S)
  BY <1>1, <1>2, <1>6
<1>9. \A x \in S : \E i \in D : q[i] = x
  <2>1. Tells(q, D)
    BY <1>7 DEF Tells
  <2>2. q \in Injection(D, S)
    BY <1>6, <2>1, Injective
  <2>3. Cardinality(D) = Cardinality(S)
    BY <1>1, <1>3
  <2>4. q \in Surjection(D, S)
    BY <2>2, <2>3, FS_Injection
  <2>. QED
    BY <2>4 DEF Surjection
<1>. QED
  BY <1>7, <1>8, <1>9

\* A property with values and no NULL among them is left as it is.
LEMMA NothingNull ==
  ASSUME NEW V, Null \notin V, NEW flat, NEW n \in DOMAIN flat, flat[n] \in Seq(V),
         Len(flat[n]) > 0, NEW props, props = ResolveNullPlaceholders(flat)
  PROVE  n \in DOMAIN props /\ props[n] = flat[n]
<1>1. PICK q : q = flat[n]
  OBVIOUS
<1>2. q \in Seq(V) /\ Len(q) > 0
  BY <1>1
<1>3. \A i \in DOMAIN q : q[i] # Null
  BY <1>2, LenProperties, ElementOfSeq
<1>4. 1 \in DOMAIN q
  BY <1>2, LenProperties
<1>5. props = [m \in {k \in DOMAIN flat : \E i \in DOMAIN flat[k] : flat[k][i] # Null} |->
                [i \in DOMAIN flat[m] |-> IF flat[m][i] = Null THEN NoText ELSE flat[m][i]]]
  BY Zenon DEF ResolveNullPlaceholders, NoText
<1>6. n \in {k \in DOMAIN flat : \E i \in DOMAIN flat[k] : flat[k][i] # Null}
  BY <1>1, <1>3, <1>4, Zenon
<1>7. n \in DOMAIN props /\ props[n] = [i \in DOMAIN q |-> IF q[i] = Null THEN NoText ELSE q[i]]
  BY <1>1, <1>5, <1>6, Zenon
<1>8. q = [i \in DOMAIN q |-> q[i]]
  BY <1>2
<1>9. [i \in DOMAIN q |-> IF q[i] = Null THEN NoText ELSE q[i]] = [i \in DOMAIN q |-> q[i]]
  BY <1>3, Zenon
<1>. QED
  BY <1>1, <1>7, <1>8, <1>9, Zenon

\* The fields of a struct.
FieldNames == {"ElementName", "Count", "Enabled", "Notes"}

\* What they are when nothing is set.
ZeroIs(none) == [ElementName |-> none, Count |-> "0", Enabled |-> "unset", Notes |-> <<>>]

\* What a field that is sent holds.
SentValues(s, f) == IF f = "Notes" THEN s.Notes ELSE <<s[f]>>

\* A struct as the package writes it, texts of which are those of T.
StructsOf(T) ==
  [ElementName : T, Count : Numerals, Enabled : Booleans \cup {"unset"}, Notes : Seq(T)]

\* All that a struct holds.
HeldBy(T) == T \cup Numerals \cup Booleans \cup {"unset"}

\* A field that is sent holds something.
LEMMA SentHold ==
  ASSUME NEW T, NEW s \in StructsOf(T), NEW f \in SentFields(s)
  PROVE  /\ f \in FieldNames /\ SentValues(s, f) \in Seq(HeldBy(T)) /\ Len(SentValues(s, f)) > 0
<1>1. PICK none : none = NoText
  OBVIOUS
<1>2. Zero = ZeroIs(none)
  BY <1>1, Zenon DEF Zero, ZeroIs, NoText
<1>3. PICK F : F = SentFields(s)
  OBVIOUS
<1>4. f \in DOMAIN s /\ s[f] # Zero[f]
  BY Zenon DEF SentFields
<1>5. /\ DOMAIN s = FieldNames /\ s.Notes \in Seq(T) /\ s.ElementName \in T /\ s.Count \in Numerals
      /\ s.Enabled \in Booleans \cup {"unset"}
  BY DEF StructsOf, FieldNames
<1>6. f \in FieldNames
  BY <1>4, <1>5
<1>7. CASE f = "Notes"
  <2>1. s.Notes # <<>>
    BY <1>2, <1>4, <1>7 DEF ZeroIs
  <2>2. SentValues(s, f) = s.Notes
    BY <1>7 DEF SentValues
  <2>3. s.Notes \in Seq(HeldBy(T)) /\ Len(s.Notes) > 0
    BY <1>5, <2>1, LenProperties, EmptySeq DEF HeldBy
  <2>. QED
    BY <1>6, <2>2, <2>3
<1>8. CASE f # "Notes"
  <2>1. SentValues(s, f) = <<s[f]>>
    BY <1>8 DEF SentValues
  <2>2. s[f] \in HeldBy(T)
    BY <1>5, <1>6, <1>8 DEF FieldNames, HeldBy
  <2>. QED
    BY <1>6, <2>1, <2>2
<1>. QED
  BY <1>7, <1>8

\* What is written of a struct: every field that is sent, with its values.
LEMMA Marshalled ==
  ASSUME NEW T, NEW s \in StructsOf(T), NEW es, es = MarshalEmbeddedInstance(s)
  PROVE  /\ Names(es) = SentFields(s) /\ \A i \in DOMAIN es : ~es[i].nested
         /\ \A f \in SentFields(s) : EmbeddedValues(es, f) = SentValues(s, f)
<1>1. PICK F, q, V, Q : /\ F = SentFields(s) /\ q = SetToSeq(F) /\ V = HeldBy(T) /\ Q = Seq(V)
  OBVIOUS
<1>2. \A f \in F : f \in FieldNames /\ SentValues(s, f) \in Q
  BY <1>1, SentHold
<1>3. IsFiniteSet(F)
  <2>1. IsFiniteSet(FieldNames)
    <3>1. FieldNames = {"ElementName"} \cup {"Count"} \cup {"Enabled"} \cup {"Notes"}
      BY DEF FieldNames
    <3>. QED
      BY <3>1, FS_Singleton, FS_Union
  <2>2. F \in SUBSET FieldNames
    BY <1>2
  <2>. QED
    BY <2>1, <2>2, FS_Subset
<1>4. /\ q \in Seq(F) /\ \A x \in F : \E i \in DOMAIN q : q[i] = x
      /\ \A i, j \in DOMAIN q : q[i] = q[j] => i = j
  BY <1>1, <1>3, InSomeOrder
<1>5. es = [i \in DOMAIN q |-> [name |-> q[i], nested |-> FALSE, values |-> SentValues(s, q[i])]]
  BY <1>1, Zenon DEF MarshalEmbeddedInstance, SentValues
<1>6. DOMAIN es = DOMAIN q
  BY <1>5
<1>7. \A i \in DOMAIN q : es[i].name = q[i] /\ es[i].values = SentValues(s, q[i]) /\ ~es[i].nested
  <2> TAKE i \in DOMAIN q
  <2>1. es[i] = [name |-> q[i], nested |-> FALSE, values |-> SentValues(s, q[i])]
    BY <1>5, Zenon
  <2>. QED
    BY <2>1
<1>8. \A i \in DOMAIN q : q[i] \in F
  BY <1>4, LenProperties, ElementOfSeq
<1>9. \A x : x \in Names(es) <=> x \in F
  <2> TAKE x
  <2>1. x \in Names(es) <=> \E i \in DOMAIN es : x = es[i].name
    BY Zenon DEF Names
  <2>. QED
    <3>1. ASSUME NEW i \in DOMAIN es PROVE es[i].name \in F
      BY <1>6, <1>7, <1>8, Zenon
    <3>2. ASSUME x \in F PROVE \E i \in DOMAIN es : x = es[i].name
      <4>1. PICK i \in DOMAIN q : q[i] = x
        BY <1>4, <3>2, Zenon
      <4>2. i \in DOMAIN es /\ x = es[i].name
        BY <1>6, <1>7, <4>1, Zenon
      <4>. QED
        BY <4>2, Zenon
    <3>. QED
      BY <2>1, <3>1, <3>2, Zenon
<1>10. ASSUME NEW f \in F PROVE EmbeddedValues(es, f) = SentValues(s, f)
  <2>1. PICK ss : ss = [i \in DOMAIN es |-> IF es[i].name = f THEN es[i].values ELSE <<>>]
    OBVIOUS
  <2>2. DOMAIN ss = DOMAIN q
    BY <1>6, <2>1
  <2>3. \A i \in DOMAIN q : ss[i] = IF q[i] = f THEN SentValues(s, f) ELSE <<>>
    <3> TAKE i \in DOMAIN q
    <3>1. ss[i] = IF es[i].name = f THEN es[i].values ELSE <<>>
      BY <1>6, <2>1, Zenon
    <3>. QED
      BY <1>7, <3>1, Zenon
  <2>4. PICK n : n = Len(q)
    OBVIOUS
  <2>5. n \in Nat /\ DOMAIN q = 1 .. n
    BY <1>4, <2>4, LenProperties
  <2>6. ss \in Seq(Q) /\ Len(ss) = n
    <3>1. <<>> \in Q
      BY <1>1
    <3>2. \A i \in DOMAIN q : ss[i] \in Q
      BY <1>2, <2>3, <3>1, Zenon
    <3>3. ss = [i \in 1 .. n |-> ss[i]]
      BY <2>1, <2>2, <2>5
    <3>. QED
      BY <2>5, <3>2, <3>3
  <2>7. PICK p \in DOMAIN q : q[p] = f
    BY <1>4, Zenon
  <2>8. \A i \in 1 .. n : i # p => Len(ss[i]) = 0
    <3> TAKE i \in 1 .. n
    <3> HAVE i # p
    <3>1. q[i] # f
      BY <1>4, <2>5, <2>7, Zenon
    <3>2. ss[i] = <<>>
      BY <2>3, <2>5, <3>1, Zenon
    <3>. QED
      BY <3>2
  <2>9. FlattenSeq(ss) = ss[p]
    <3>1. ss \in Seq(Seq(V)) /\ p \in 1 .. Len(ss)
      BY <1>1, <2>5, <2>6, <2>7
    <3>2. \A i \in 1 .. Len(ss) : i # p => Len(ss[i]) = 0
      BY <2>6, <2>8, Zenon
    <3>. QED
      BY <3>1, <3>2, OnlyPart
  <2>10. ss[p] = SentValues(s, f)
    BY <2>3, <2>7, Zenon
  <2>. QED
    BY <2>1, <2>9, <2>10, Zenon DEF EmbeddedValues
<1>11. Names(es) = F
  BY <1>9
<1>. QED
  BY <1>1, <1>6, <1>7, <1>10, <1>11, Zenon

\* What is written of a struct is parsed into the fields that were sent.
LEMMA ParsedBack ==
  ASSUME NEW T, Null \notin HeldBy(T), NEW s \in StructsOf(T), NEW F, F = SentFields(s),
         NEW parsed, parsed = ParseEmbeddedInstance(MarshalEmbeddedInstance(s))
  PROVE  /\ F = {} => parsed.err = "empty"
         /\ F # {} => /\ parsed.err = "nil" /\ DOMAIN parsed.properties = F
                      /\ \A f \in F : parsed.properties[f] = SentValues(s, f)
<1>1. PICK es, flat, props, V : /\ es = MarshalEmbeddedInstance(s)
                                /\ flat = [n \in Names(es) \ {NoText} |-> EmbeddedValues(es, n)]
                                /\ props = ResolveNullPlaceholders(flat)
                                /\ V = HeldBy(T)
  OBVIOUS
<1>2. /\ Names(es) = F /\ \A i \in DOMAIN es : ~es[i].nested
      /\ \A f \in F : EmbeddedValues(es, f) = SentValues(s, f)
  BY <1>1, Marshalled
<1>3. \A f \in F : f \in FieldNames /\ SentValues(s, f) \in Seq(V) /\ Len(SentValues(s, f)) > 0
  BY <1>1, SentHold
<1>4. Names(es) \ {NoText} = F
  <2>1. NoText \notin FieldNames
    BY Zenon DEF NoText, FieldNames
  <2>. QED
    BY <1>2, <1>3, <2>1
<1>5. DOMAIN flat = F /\ \A f \in F : flat[f] = SentValues(s, f)
  <2>1. flat = [n \in F |-> EmbeddedValues(es, n)]
    BY <1>1, <1>4, Zenon
  <2>. QED
    BY <1>2, <2>1
<1>6. \A f \in F : f \in DOMAIN props /\ props[f] = SentValues(s, f)
  <2> TAKE f \in F
  <2>1. f \in DOMAIN flat /\ flat[f] \in Seq(V) /\ Len(flat[f]) > 0
    BY <1>3, <1>5, Zenon
  <2>2. f \in DOMAIN props /\ props[f] = flat[f]
    <3>1. Null \notin V /\ props = ResolveNullPlaceholders(flat)
      BY <1>1, Zenon
    <3>. QED
      BY <2>1, <3>1, NothingNull, Zenon
  <2>. QED
    BY <1>5, <2>2, Zenon
<1>7. DOMAIN props = F
  <2>1. ResolvedOf(props, flat)
    BY <1>1, Resolves, Zenon
  <2>2. \A f \in DOMAIN props : f \in F
    BY <1>5, <2>1, Zenon DEF ResolvedOf
  <2>. QED
    BY <1>6, <2>2
<1>8. parsed = IF DOMAIN props = {} THEN [err |-> "empty"] ELSE [err |-> "nil", properties |-> props]
  BY <1>1, <1>2, Zenon DEF ParseEmbeddedInstance, NoText
<1>9. CASE F = {}
  <2>1. parsed = [err |-> "empty"]
    BY <1>7, <1>8, <1>9, Zenon
  <2>2. parsed.err = "empty"
    BY <2>1
  <2>. QED
    BY <1>9, <2>2
<1>10. CASE F # {}
  <2>1. parsed = [err |-> "nil", properties |-> props]
    BY <1>7, <1>8, <1>10, Zenon
  <2>2. parsed.err = "nil" /\ parsed.properties = props
    BY <2>1
  <2>. QED
    BY <1>6, <1>7, <1>10, <2>2, Zenon
<1>. QED
  BY <1>9, <1>10

\* What is read of the fields that were sent is the struct.
LEMMA FieldsBack ==
  ASSUME NEW T, NEW s \in StructsOf(T), NEW props, DOMAIN props = SentFields(s),
         \A f \in SentFields(s) : props[f] = SentValues(s, f),
         NEW a, a = UnmarshalList(props)
  PROVE  a.err = "nil" /\ a.fields = s
<1>1. PICK none, F : none = NoText /\ F = SentFields(s)
  OBVIOUS
<1>2. Zero = ZeroIs(none)
  BY <1>1, Zenon DEF Zero, ZeroIs, NoText
<1>3. DOMAIN Zero = FieldNames /\ Zero.Enabled = "unset"
  BY <1>2 DEF ZeroIs, FieldNames
<1>4. /\ DOMAIN s = FieldNames /\ s.Count \in Numerals /\ s.Enabled \in Booleans \cup {"unset"}
      /\ s = [f \in FieldNames |-> s[f]]
  <2>1. s = [ElementName |-> s.ElementName, Count |-> s.Count, Enabled |-> s.Enabled,
             Notes |-> s.Notes]
    BY DEF StructsOf
  <2>2. DOMAIN s = FieldNames
    BY DEF StructsOf, FieldNames
  <2>. QED
    BY <2>1, <2>2 DEF StructsOf, FieldNames
<1>5. \A f \in FieldNames : f \in F <=> s[f] # Zero[f]
  BY <1>1, <1>4, Zenon DEF SentFields
<1>6. \A f \in F : f # "Notes" => Head(props[f]) = s[f]
  <2> TAKE f \in F
  <2> HAVE f # "Notes"
  <2>1. props[f] = <<s[f]>>
    BY <1>1, Zenon DEF SentValues
  <2>. QED
    BY <2>1
<1>7. ~Unreadable(props)
  <2>1. ASSUME "Count" \in F PROVE Head(props.Count) \in Numerals
    <3>1. Head(props["Count"]) = s["Count"]
      BY <1>6, <2>1
    <3>. QED
      BY <1>4, <3>1
  <2>2. ASSUME "Enabled" \in F PROVE Head(props.Enabled) \in Booleans
    <3>1. Head(props["Enabled"]) = s["Enabled"]
      BY <1>6, <2>2
    <3>2. "Enabled" \in FieldNames
      BY DEF FieldNames
    <3>3. s["Enabled"] # "unset"
      BY <1>3, <1>5, <2>2, <3>2
    <3>. QED
      BY <1>4, <3>1, <3>3
  <2>. QED
    BY <1>1, <2>1, <2>2, Zenon DEF Unreadable
<1>8. PICK fields : fields = [f \in DOMAIN Zero |->
                      IF f \notin DOMAIN props THEN Zero[f]
                      ELSE IF f = "Notes" THEN props[f] ELSE Head(props[f])]
  BY Zenon
<1>9. a = [err |-> "nil", fields |-> fields]
  BY <1>7, <1>8, Zenon DEF UnmarshalList
<1>10. \A f \in FieldNames :
         (IF f \notin DOMAIN props THEN Zero[f]
          ELSE IF f = "Notes" THEN props[f] ELSE Head(props[f])) = s[f]
  <2> TAKE f \in FieldNames
  <2>1. CASE f \notin F
    <3>1. Zero[f] = s[f]
      BY <1>5, <2>1, Zenon
    <3>. QED
      BY <1>1, <2>1, <3>1, Zenon
  <2>2. CASE f \in F /\ f = "Notes"
    <3>1. props[f] = s.Notes
      BY <1>1, <2>2, Zenon DEF SentValues
    <3>. QED
      BY <1>1, <2>2, <3>1
  <2>3. CASE f \in F /\ f # "Notes"
    BY <1>1, <1>6, <2>3, Zenon
  <2>. QED
    BY <2>1, <2>2, <2>3
<1>11. fields = s
  <2>1. fields = [f \in FieldNames |-> s[f]]
    BY <1>3, <1>8, <1>10, Zenon
  <2>. QED
    BY <1>4, <2>1, Zenon
<1>. QED
  BY <1>9, <1>11

\* A struct is read back.
LEMMA StructRight ==
  ASSUME NEW T, Null \notin HeldBy(T), NEW s \in StructsOf(T),
         NEW parsed, parsed = ParseEmbeddedInstance(MarshalEmbeddedInstance(s)),
         NEW a, a = IF parsed.err # "nil" THEN parsed ELSE UnmarshalList(parsed.properties)
  PROVE  ReadBack(s, a)
<1>1. PICK none, F : none = NoText /\ F = SentFields(s)
  OBVIOUS
<1>2. /\ F = {} => parsed.err = "empty"
      /\ F # {} => /\ parsed.err = "nil" /\ DOMAIN parsed.properties = F
                   /\ \A f \in F : parsed.properties[f] = SentValues(s, f)
  BY <1>1, ParsedBack, Zenon
<1>3. F = {} <=> s = Zero
  <2>1. Zero = ZeroIs(none)
    BY <1>1, Zenon DEF Zero, ZeroIs, NoText
  <2>2. DOMAIN s = FieldNames /\ DOMAIN ZeroIs(none) = FieldNames
    BY DEF StructsOf, ZeroIs, FieldNames
  <2>3. s = ZeroIs(none) => F = {}
    BY <1>1, <2>1, Zenon DEF SentFields
  <2>4. ASSUME F = {} PROVE s = ZeroIs(none)
    <3>1. \A f \in FieldNames : s[f] = ZeroIs(none)[f]
      BY <1>1, <2>1, <2>2, <2>4, Zenon DEF SentFields
    <3>2. s = [ElementName |-> s.ElementName, Count |-> s.Count, Enabled |-> s.Enabled,
               Notes |-> s.Notes]
      BY DEF StructsOf
    <3>. QED
      BY <3>1, <3>2 DEF ZeroIs, FieldNames
  <2>. QED
    BY <2>1, <2>3, <2>4, Zenon
<1>4. CASE F = {}
  <2>1. a.err = "empty"
    BY <1>2, <1>4
  <2>. QED
    BY <1>3, <1>4, <2>1, Zenon DEF ReadBack
<1>5. CASE F # {}
  <2>1. PICK props : props = parsed.properties
    OBVIOUS
  <2>2. /\ a = UnmarshalList(props) /\ DOMAIN props = SentFields(s)
        /\ \A f \in SentFields(s) : props[f] = SentValues(s, f)
    BY <1>1, <1>2, <1>5, <2>1, Zenon
  <2>3. a.err = "nil" /\ a.fields = s
    BY <2>2, FieldsBack, Zenon
  <2>. QED
    BY <1>3, <1>5, <2>3, Zenon DEF ReadBack
<1>. QED
  BY <1>4, <1>5

\* Whatever struct is written comes back as it was, and an embedded instance has its
\* values where they belong or is refused (embedded.go:35-40, 218).  The instances of
\* Spec are those of two elements; ParsedRight is about all.
THEOREM EmbeddedAlwaysSurvives == Spec => []EmbeddedSurvives
<1>1. Init => EmbeddedSurvives
  BY DEF Init, NoCall, EmbeddedSurvives, WrittenReadBack, EmbeddedKept
<1>2. EmbeddedSurvives /\ [Next]_vars => EmbeddedSurvives'
  <2> SUFFICES ASSUME EmbeddedSurvives, [Next]_vars PROVE EmbeddedSurvives'
    OBVIOUS
  <2>1. CASE UNCHANGED vars
    <3>1. call' = call /\ answer' = answer
      BY <2>1 DEF vars
    <3>. QED
      BY <3>1, Zenon DEF EmbeddedSurvives, WrittenReadBack, EmbeddedKept
  <2>2. CASE Next /\ call'.op \notin {"struct", "embedded"}
    BY <2>2 DEF EmbeddedSurvives, WrittenReadBack, EmbeddedKept
  <2>3. CASE Next /\ call'.op = "struct"
    <3>1. WriteAndRead
      BY <2>3, CallNamed DEF Next
    <3>2. PICK s \in Structs : \E parsed :
            /\ parsed = ParseEmbeddedInstance(MarshalEmbeddedInstance(s))
            /\ call' = [op |-> "struct", of |-> s]
            /\ answer' = IF parsed.err # "nil" THEN parsed ELSE UnmarshalList(parsed.properties)
      BY <3>1, Zenon DEF WriteAndRead, Calls
    <3>3. PICK parsed :
            /\ parsed = ParseEmbeddedInstance(MarshalEmbeddedInstance(s))
            /\ call' = [op |-> "struct", of |-> s]
            /\ answer' = IF parsed.err # "nil" THEN parsed ELSE UnmarshalList(parsed.properties)
      BY <3>2, Zenon
    <3>4. call'.op = "struct" /\ call'.of = s
      BY <3>3
    <3>5. s \in StructsOf(Texts)
      BY <3>2, StructsAssumption, Zenon DEF StructsOf
    <3>6. Null \notin HeldBy(Texts)
      BY DEF HeldBy, Texts, Null, Numerals, Booleans
    <3>7. ReadBack(s, answer')
      BY <3>3, <3>5, <3>6, StructRight, Zenon
    <3>. QED
      BY <3>4, <3>7 DEF EmbeddedSurvives, WrittenReadBack, EmbeddedKept
  <2>4. CASE Next /\ call'.op = "embedded"
    <3>1. ReadEmbedded
      BY <2>4, CallNamed DEF Next
    <3>2. PICK V, W, E : /\ V = {Null, NoText, "TRUE"} /\ W = Upto(V, 2)
                         /\ E = [name : {NoText, "Notes", "Enabled"}, nested : BOOLEAN, values : W]
      OBVIOUS
    <3>3. PICK es \in Upto(E, 2) : \E a :
            /\ a = ParseEmbeddedInstance(es)
            /\ call' = [op |-> "embedded", of |-> es] /\ answer' = a
      BY <3>1, <3>2, Zenon DEF ReadEmbedded, Calls, NoText
    <3>4. PICK a :
            /\ a = ParseEmbeddedInstance(es)
            /\ call' = [op |-> "embedded", of |-> es] /\ answer' = a
      BY <3>3, Zenon
    <3>5. call'.op = "embedded" /\ call'.of = es
      BY <3>4
    <3>6. es \in Seq(E)
      BY <3>3, UptoSeq
    <3>7. \A e \in E : e.values \in Seq(V)
      <4>1. \A w \in W : w \in Seq(V)
        BY <3>2, UptoSeq
      <4>. QED
        BY <3>2, <4>1
    <3>8. Unjoined(es, answer')
      BY <3>4, <3>6, <3>7, ParsedRight
    <3>. QED
      BY <3>5, <3>8 DEF EmbeddedSurvives, WrittenReadBack, EmbeddedKept
  <2>. QED
    BY <2>1, <2>2, <2>3, <2>4
<1>. QED
  BY <1>1, <1>2, PTL DEF Spec
=============================================================================
