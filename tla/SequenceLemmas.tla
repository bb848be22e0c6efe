--------------------------- MODULE SequenceLemmas ---------------------------
(***************************************************************************)
(* What the proofs need of recursive definitions on sequences.  Induction  *)
(* is had from the well-founded orders of the library, which need no       *)
(* operator as a parameter: a set of numbers that holds 0, and with every  *)
(* number the next one, holds them all.                                    *)
(***************************************************************************)
EXTENDS Totals, SequencesExt, FiniteSetTheorems, SequenceTheorems, TLAPS

(* Every set of numbers that has a member has a least one. *)
LEMMA Least ==
  ASSUME NEW T \in SUBSET Nat, T # {}
  PROVE  \E n \in T : \A m \in T : n <= m
<1> DEFINE U == {0..n : n \in T}
<1>1. U \subseteq FiniteSubsetsOf(Nat)
  <2>1. \A n \in T : IsFiniteSet(0..n) /\ 0..n \in SUBSET Nat
    BY FS_Interval
  <2>. QED  BY <2>1 DEF FiniteSubsetsOf
<1>2. PICK x \in U : \A y \in U : ~(<<y, x>> \in StrictSubsetOrdering(Nat))
  <2>1. U # {}
    OBVIOUS
  <2>. HIDE DEF U
  <2>. QED  BY <1>1, <2>1, FS_StrictSubsetOrderingWellFounded, WFMin
<1>3. PICK n \in T : x = 0..n
  BY <1>2
<1>4. ASSUME NEW m \in T, m < n PROVE FALSE
  <2>1. 0..m \in U /\ 0..m \in SUBSET Nat /\ 0..n \in SUBSET Nat
    OBVIOUS
  <2>2. 0..m \subseteq 0..n /\ 0..m # 0..n
    BY <1>4
  <2>3. ~(<<0..m, 0..n>> \in StrictSubsetOrdering(Nat))
    BY <1>2, <1>3, <2>1
  <2>. QED  BY <2>1, <2>2, <2>3 DEF StrictSubsetOrdering
<1>. QED  BY <1>3, <1>4

LEMMA Induction ==
  ASSUME NEW T, 0 \in T, \A n \in Nat : n \in T => n + 1 \in T
  PROVE  Nat \subseteq T
<1>1. SUFFICES ASSUME Nat \ T # {} PROVE FALSE
  OBVIOUS
<1>2. PICK n \in Nat \ T : \A m \in Nat \ T : n <= m
  BY <1>1, Least
<1>3. n # 0 /\ n - 1 \in Nat /\ n - 1 \notin Nat \ T
  BY <1>2
<1>. QED  BY <1>2, <1>3

(***************************************************************************)
(* A fold of a sequence s: from a first value, op takes in the elements of *)
(* s one after the other.  There is one such sequence of values, and the   *)
(* one of Append(s, x) goes on where that of s ends.                       *)
(***************************************************************************)
Folds(u, op, first, s) == u[0] = first /\ \A k \in 1..Len(s) : u[k] = op[<<u[k - 1], s[k]>>]

LEMMA FoldExists ==
  ASSUME NEW A, NEW E, NEW op \in [A \X E -> A], NEW first \in A, NEW s \in Seq(E)
  PROVE  \E u \in [0..Len(s) -> A] : Folds(u, op, first, s)
<1> DEFINE n == Len(s)
           Good(m, f) == f[0] = first /\ \A k \in 1..m : f[k] = op[<<f[k - 1], s[k]>>]
           T == {m \in Nat : m <= n => \E f \in [0..m -> A] : Good(m, f)}
<1>0. n \in Nat /\ \A k \in 1..n : s[k] \in E
  OBVIOUS
<1>1. 0 \in T
  <2>1. [k \in 0..0 |-> first] \in [0..0 -> A] /\ Good(0, [k \in 0..0 |-> first])
    OBVIOUS
  <2>. QED  BY <2>1
<1>2. ASSUME NEW m \in Nat, m \in T PROVE m + 1 \in T
  <2> SUFFICES ASSUME m + 1 <= n PROVE \E f \in [0..(m + 1) -> A] : Good(m + 1, f)
    OBVIOUS
  <2>1. PICK f \in [0..m -> A] : Good(m, f)
    BY <1>0, <1>2
  <2> DEFINE g == [k \in 0..(m + 1) |-> IF k <= m THEN f[k] ELSE op[<<f[m], s[m + 1]>>]]
  <2>2. g \in [0..(m + 1) -> A]
    BY <1>0
  <2>3. g[0] = first
    BY <2>1
  <2>4. ASSUME NEW k \in 1..(m + 1) PROVE g[k] = op[<<g[k - 1], s[k]>>]
    <3>1. g[k - 1] = f[k - 1]
      OBVIOUS
    <3>2. CASE k <= m
      BY <2>1, <3>1, <3>2
    <3>3. CASE k = m + 1
      <4>1. g[m + 1] = op[<<f[m], s[m + 1]>>]
        OBVIOUS
      <4>2. k - 1 = m
        BY <3>3
      <4> HIDE DEF g
      <4>. QED  BY <3>1, <3>3, <4>1, <4>2
    <3>. QED  BY <3>2, <3>3
  <2> HIDE DEF g
  <2>5. Good(m + 1, g)
    BY <2>3, <2>4
  <2>. QED  BY <2>2, <2>5
<1>3. n \in T
  <2> HIDE DEF T
  <2>. QED  BY <1>0, <1>1, <1>2, Induction
<1>. QED  BY <1>0, <1>3 DEF Folds

Longer(t, s) ==
  /\ Len(s) \in Nat /\ Len(t) = Len(s) + 1
  /\ \A k \in 1..Len(s) : t[k] = s[k]

GoesOn(v, t, op, u, s) == v[Len(t)] = op[<<u[Len(s)], t[Len(t)]>>]

LEMMA FoldLonger ==
  ASSUME NEW op, NEW first, NEW s, NEW t, Longer(t, s),
         NEW u, Folds(u, op, first, s),
         NEW v, Folds(v, op, first, t)
  PROVE  GoesOn(v, t, op, u, s)
<1> DEFINE n == Len(s)
<1>1. /\ Len(t) = n + 1 /\ n \in Nat
      /\ \A k \in 1..n : s[k] = t[k]
  BY DEF Longer
<1>2. Folds(v, op, first, t) /\ Folds(u, op, first, s)
  OBVIOUS
<1>3. u[n] = v[n]
  <2>1. n <= Len(s) /\ n <= Len(t) /\ Len(s) \in Nat /\ Len(t) \in Nat
    BY <1>1
  <2>2. /\ u[0] = first
        /\ \A k \in 1..n : u[k] = op[<<u[k - 1], s[k]>>]
    BY <1>2 DEF Folds
  <2>3. /\ v[0] = first
        /\ \A k \in 1..n : v[k] = op[<<v[k - 1], s[k]>>]
    BY <1>1, <1>2 DEF Folds
  <2> HIDE DEF n
  <2> DEFINE T == {k \in Nat : k <= n => u[k] = v[k]}
  <2>4. 0 \in T
    BY <2>2, <2>3
  <2>5. ASSUME NEW k \in Nat, k \in T PROVE k + 1 \in T
    <3>1. CASE k + 1 <= n
      <4>1. k + 1 \in 1..n /\ (k + 1) - 1 = k /\ k <= n
        BY <1>1, <3>1
      <4>2. u[k + 1] = op[<<u[k], s[k + 1]>>] /\ v[k + 1] = op[<<v[k], s[k + 1]>>]
        BY <2>2, <2>3, <4>1
      <4>3. u[k] = v[k]
        BY <2>5, <4>1
      <4>. QED  BY <4>2, <4>3
    <3>2. CASE k + 1 > n
      BY <1>1, <3>2
    <3>. QED  BY <1>1, <3>1, <3>2
  <2>6. Nat \subseteq T
    <3> HIDE DEF T
    <3>. QED  BY <2>4, <2>5, Induction
  <2>. QED  BY <1>1, <2>6
<1>4. n + 1 \in 1..Len(t) /\ (n + 1) - 1 = n
  BY <1>1
<1>5. v[n + 1] = op[<<v[n], t[n + 1]>>]
  <2> HIDE DEF n
  <2>. QED  BY <1>2, <1>4 DEF Folds
<1>. QED  BY <1>1, <1>3, <1>5 DEF GoesOn

-----------------------------------------------------------------------------
(* The sum of a sequence is the fold of an addition. *)
Plus == [p \in Nat \X Nat |-> p[1] + p[2]]

LEMMA TotalFolds ==
  ASSUME NEW s \in Seq(Nat)
  PROVE  \E u \in [0..Len(s) -> Nat] : Folds(u, Plus, 0, s) /\ Total(s) = u[Len(s)]
<1> DEFINE n == Len(s)
           F(u) == [k \in 0..n |-> IF k = 0 THEN 0 ELSE u[k - 1] + s[k]]
           upTo == CHOOSE u : u = F(u)
<1>1. n \in Nat /\ \A k \in 1..n : s[k] \in Nat
  OBVIOUS
<1>2. PICK u \in [0..n -> Nat] : Folds(u, Plus, 0, s)
  <2>1. 0 \in Nat /\ Plus \in [Nat \X Nat -> Nat]
    BY DEF Plus
  <2>. QED  BY <2>1, FoldExists
<1>3. u[0] = 0 /\ \A k \in 1..n : u[k] = u[k - 1] + s[k]
  <2>1. \A k \in 1..n : u[k - 1] \in Nat /\ s[k] \in Nat
    BY <1>1
  <2>2. \A a, b \in Nat : Plus[<<a, b>>] = a + b
    BY DEF Plus
  <2>. QED  BY <1>2, <2>1, <2>2 DEF Folds
<1>4. u = F(u)
  <2>1. \A k \in 0..n : u[k] = IF k = 0 THEN 0 ELSE u[k - 1] + s[k]
    BY <1>3
  <2>. QED  BY <2>1
<1>5. upTo = F(upTo)
  BY <1>4
<1>6. Total(s) = upTo[n]
  BY DEF Total
<1>7. /\ upTo[0] = 0
      /\ \A k \in 1..n : upTo[k] = upTo[k - 1] + s[k]
  <2> HIDE DEF upTo
  <2>. QED  BY <1>1, <1>5
<1>8. upTo[n] = u[n]
  <2> HIDE DEF upTo, F
  <2> DEFINE T == {k \in Nat : k <= n => upTo[k] = u[k]}
  <2>1. 0 \in T
    BY <1>3, <1>7
  <2>2. ASSUME NEW k \in Nat, k \in T PROVE k + 1 \in T
    <3>1. CASE k + 1 <= n
      <4>1. k + 1 \in 1..n /\ (k + 1) - 1 = k
        BY <3>1, <1>1
      <4>. QED  BY <1>3, <1>7, <2>2, <3>1, <4>1
    <3>2. CASE k + 1 > n
      BY <1>1, <3>2
    <3>. QED  BY <1>1, <3>1, <3>2
  <2>3. Nat \subseteq T
    <3> HIDE DEF T
    <3>. QED  BY <2>1, <2>2, Induction
  <2>. QED  BY <1>1, <2>3
<1>. QED  BY <1>2, <1>6, <1>8

LEMMA TotalEmpty == Total(<< >>) = 0
<1>1. << >> \in Seq(Nat) /\ Len(<< >>) = 0
  OBVIOUS
<1>. QED  BY <1>1, TotalFolds DEF Folds

LEMMA TotalAppend ==
  ASSUME NEW s \in Seq(Nat), NEW x \in Nat
  PROVE  Total(s) \in Nat /\ Total(Append(s, x)) = Total(s) + x
<1> DEFINE t == Append(s, x)
<1>1. PICK u \in [0..Len(s) -> Nat] : Folds(u, Plus, 0, s) /\ Total(s) = u[Len(s)]
  BY TotalFolds
<1>2. t \in Seq(Nat) /\ Len(t) = Len(s) + 1 /\ Len(s) \in Nat
  OBVIOUS
<1>3. PICK v \in [0..Len(t) -> Nat] : Folds(v, Plus, 0, t) /\ Total(t) = v[Len(t)]
  BY <1>2, TotalFolds
<1>4. v[Len(s) + 1] = Plus[<<u[Len(s)], x>>]
  <2>1. Longer(t, s) /\ t[Len(t)] = x
    BY <1>2 DEF Longer
  <2> HIDE DEF t
  <2>2. GoesOn(v, t, Plus, u, s)
    BY <1>1, <1>3, <2>1, FoldLonger
  <2>. QED  BY <1>2, <2>1, <2>2 DEF GoesOn
<1>5. u[Len(s)] \in Nat
  BY <1>2
<1> HIDE DEF t
<1>. QED  BY <1>1, <1>2, <1>3, <1>4, <1>5 DEF Plus, t

-----------------------------------------------------------------------------
(* FlattenSeq is the fold of a concatenation. *)
Join(S) == [p \in Seq(S) \X Seq(S) |-> p[1] \o p[2]]

LEMMA JoinType ==
  ASSUME NEW S
  PROVE  /\ Join(S) \in [Seq(S) \X Seq(S) -> Seq(S)]
         /\ \A s, t \in Seq(S) : s \o t = Join(S)[<<s, t>>]
         /\ \A s \in Seq(S) : Join(S)[<< << >>, s >>] = s
<1>1. \A s, t \in Seq(S) : s \o t \in Seq(S)
  OBVIOUS
<1>2. \A s \in Seq(S) : << >> \o s = s /\ << >> \in Seq(S)
  OBVIOUS
<1> DEFINE C(s, t) == s \o t
<1>3. Join(S) = [p \in Seq(S) \X Seq(S) |-> C(p[1], p[2])]
  BY DEF Join
<1>4. \A s, t \in Seq(S) : C(s, t) \in Seq(S)
  BY <1>1
<1>5. \A s \in Seq(S) : C(<< >>, s) = s
  BY <1>2
<1> HIDE DEF C
<1>6. Join(S) \in [Seq(S) \X Seq(S) -> Seq(S)]
  <2>1. \A p \in Seq(S) \X Seq(S) : C(p[1], p[2]) \in Seq(S)
    BY <1>4
  <2>. QED  BY <1>3, <2>1
<1>7. \A s, t \in Seq(S) : C(s, t) = Join(S)[<<s, t>>]
  <2> SUFFICES ASSUME NEW s \in Seq(S), NEW t \in Seq(S) PROVE C(s, t) = Join(S)[<<s, t>>]
    OBVIOUS
  <2>1. <<s, t>> \in Seq(S) \X Seq(S) /\ <<s, t>>[1] = s /\ <<s, t>>[2] = t
    OBVIOUS
  <2>. QED  BY <1>3, <2>1
<1>8. \A s \in Seq(S) : Join(S)[<< << >>, s >>] = s
  BY <1>2, <1>5, <1>7
<1>. QED  BY <1>6, <1>7, <1>8 DEF C

LEMMA FlattenFolds ==
  ASSUME NEW S, NEW ss \in Seq(Seq(S))
  PROVE  \E u \in [0..Len(ss) -> Seq(S)] :
           Folds(u, Join(S), << >>, ss) /\ FlattenSeq(ss) = u[Len(ss)]
<1> DEFINE n == Len(ss)
           J == Join(S)
           F(u) == [i \in 1..n |-> IF i = 1 THEN ss[i] ELSE u[i - 1] \o ss[i]]
           flatten == CHOOSE u : u = F(u)
<1>1. n \in Nat /\ \A k \in 1..n : ss[k] \in Seq(S)
  OBVIOUS
<1>2. PICK u \in [0..n -> Seq(S)] : Folds(u, J, << >>, ss)
  <2> DEFINE A == Seq(S)
             none == << >>
  <2>1. J \in [A \X A -> A]
    BY JoinType
  <2>2. none \in A /\ ss \in Seq(A)
    OBVIOUS
  <2> HIDE DEF A, none, J
  <2>3. \E u \in [0..Len(ss) -> A] : Folds(u, J, none, ss)
    BY <2>1, <2>2, FoldExists
  <2>. QED  BY <2>3 DEF A, none
<1>3. CASE n = 0
  <2>1. ss = << >>
    BY <1>3
  <2>2. FlattenSeq(ss) = ss
    BY <1>3 DEF FlattenSeq
  <2>3. u[0] = << >>
    BY <1>2 DEF Folds
  <2>. QED  BY <1>2, <1>3, <2>1, <2>2, <2>3
<1>4. CASE n # 0
  <2>1. u[0] = << >> /\ \A k \in 1..n : u[k] = J[<<u[k - 1], ss[k]>>]
    BY <1>2 DEF Folds
  <2>2. \A k \in 1..n : u[k - 1] \in Seq(S) /\ ss[k] \in Seq(S)
    <3>1. \A k \in 1..n : k - 1 \in 0..n
      BY <1>1
    <3> HIDE DEF n
    <3>. QED  BY <1>1, <3>1
  <2> DEFINE C(s, t) == s \o t
  <2>3. \A k \in 1..n : u[k] = C(u[k - 1], ss[k])
    <3>1. \A s, t \in Seq(S) : C(s, t) = J[<<s, t>>]
      BY JoinType
    <3> HIDE DEF C, J
    <3>. QED  BY <2>1, <2>2, <3>1
  <2>4. u[1] = ss[1]
    <3>1. \A s \in Seq(S) : J[<< << >>, s >>] = s
      BY JoinType
    <3> HIDE DEF J
    <3>2. 1 \in 1..n /\ 1 - 1 = 0
      BY <1>1, <1>4
    <3>3. ss[1] \in Seq(S)
      BY <1>1, <3>2
    <3>4. u[1] = J[<<u[0], ss[1]>>]
      <4> HIDE DEF n
      <4>. QED  BY <2>1, <3>2
    <3>5. J[<< << >>, ss[1] >>] = ss[1]
      BY <3>1, <3>3
    <3>. QED  BY <2>1, <3>4, <3>5
  <2> DEFINE w == [i \in 1..n |-> u[i]]
  <2>5. w = F(w)
    <3>1. \A i \in 1..n : w[i] = IF i = 1 THEN ss[i] ELSE C(w[i - 1], ss[i])
      <4> HIDE DEF C
      <4>1. \A i \in 1..n : i # 1 => i - 1 \in 1..n
        BY <1>1
      <4>. QED  BY <2>3, <2>4, <4>1
    <3>2. w = [i \in 1..n |-> w[i]]
      OBVIOUS
    <3> HIDE DEF w
    <3>. QED  BY <3>1, <3>2
  <2>6. flatten = F(flatten)
    <3> HIDE DEF w, F
    <3>. QED  BY <2>5
  <2>7. FlattenSeq(ss) = flatten[n]
    BY <1>4 DEF FlattenSeq
  <2>8. \A i \in 1..n : flatten[i] = IF i = 1 THEN ss[i] ELSE C(flatten[i - 1], ss[i])
    <3> HIDE DEF flatten
    <3>1. flatten = [i \in 1..n |-> IF i = 1 THEN ss[i] ELSE C(flatten[i - 1], ss[i])]
      BY <2>6
    <3> HIDE DEF C, F
    <3>. QED  BY <3>1
  <2>9. flatten[n] = u[n]
    <3> HIDE DEF flatten, F, C, J
    <3> DEFINE T == {k \in Nat : k \in 1..n => flatten[k] = u[k]}
    <3>1. 0 \in T
      OBVIOUS
    <3>2. ASSUME NEW k \in Nat, k \in T PROVE k + 1 \in T
      <4>1. CASE k = 0
        BY <1>1, <2>4, <2>8, <4>1
      <4>2. CASE k # 0 /\ k + 1 \in 1..n
        <5>1. k \in 1..n /\ (k + 1) - 1 = k /\ k + 1 # 1
          BY <1>1, <4>2
        <5>2. flatten[k + 1] = C(flatten[k], ss[k + 1]) /\ u[k + 1] = C(u[k], ss[k + 1])
          BY <2>3, <2>8, <4>2, <5>1
        <5>3. flatten[k] = u[k]
          BY <3>2, <5>1
        <5>4. flatten[k + 1] = u[k + 1]
          BY <5>2, <5>3
        <5>. QED  BY <5>4
      <4>3. CASE k + 1 \notin 1..n
        BY <4>3
      <4>. QED  BY <4>1, <4>2, <4>3
    <3>3. Nat \subseteq T
      <4> HIDE DEF T
      <4>. QED  BY <3>1, <3>2, Induction
    <3>4. n \in Nat /\ n \in 1..n
      BY <1>1, <1>4
    <3>. QED  BY <3>3, <3>4
  <2>. QED  BY <1>2, <2>7, <2>9
<1>. QED  BY <1>3, <1>4

LEMMA FlattenEmpty == FlattenSeq(<< >>) = << >>
  BY DEF FlattenSeq

LEMMA FlattenAppend ==
  ASSUME NEW S, NEW ss \in Seq(Seq(S)), NEW s \in Seq(S)
  PROVE  FlattenSeq(ss) \in Seq(S) /\ FlattenSeq(Append(ss, s)) = FlattenSeq(ss) \o s
<1> DEFINE t == Append(ss, s)
           J == Join(S)
           none == << >>
<1>1. PICK u \in [0..Len(ss) -> Seq(S)] : Folds(u, J, none, ss) /\ FlattenSeq(ss) = u[Len(ss)]
  BY FlattenFolds
<1>2. t \in Seq(Seq(S)) /\ Len(t) = Len(ss) + 1 /\ Len(ss) \in Nat
  OBVIOUS
<1>3. PICK v \in [0..Len(t) -> Seq(S)] : Folds(v, J, none, t) /\ FlattenSeq(t) = v[Len(t)]
  <2> HIDE DEF t
  <2>. QED  BY <1>2, FlattenFolds
<1>4. v[Len(t)] = J[<<u[Len(ss)], s>>]
  <2>1. Longer(t, ss) /\ t[Len(t)] = s
    BY <1>2 DEF Longer
  <2> HIDE DEF t, J, none
  <2>2. GoesOn(v, t, J, u, ss)
    BY <1>1, <1>3, <2>1, FoldLonger
  <2>. QED  BY <1>2, <2>1, <2>2 DEF GoesOn
<1>5. u[Len(ss)] \in Seq(S)
  BY <1>2
<1>6. J[<<u[Len(ss)], s>>] = u[Len(ss)] \o s
  BY <1>5, JoinType
<1> HIDE DEF t, J
<1>7. FlattenSeq(ss) \in Seq(S) /\ FlattenSeq(t) = FlattenSeq(ss) \o s
  BY <1>1, <1>3, <1>4, <1>5, <1>6
<1>. QED  BY <1>7 DEF t

(* The last of several sequences comes after all the others. *)
LEMMA FlattenLast ==
  ASSUME NEW S, NEW ss \in Seq(Seq(S)), ss # << >>
  PROVE  LET front == SubSeq(ss, 1, Len(ss) - 1) IN
         /\ front \in Seq(Seq(S))
         /\ FlattenSeq(front) \in Seq(S)
         /\ FlattenSeq(ss) = FlattenSeq(front) \o ss[Len(ss)]
<1> DEFINE front == SubSeq(ss, 1, Len(ss) - 1)
           last == ss[Len(ss)]
<1>1. front \in Seq(Seq(S)) /\ last \in Seq(S) /\ ss = Append(front, last)
  OBVIOUS
<1> HIDE DEF front, last
<1>2. FlattenSeq(front) \in Seq(S) /\ FlattenSeq(Append(front, last)) = FlattenSeq(front) \o last
  BY <1>1, FlattenAppend
<1>. QED  BY <1>1, <1>2 DEF front, last

(* Sequences that differ in their last element only. *)
SameFront(ss, tt) ==
  ss # << >> /\ Len(tt) = Len(ss) /\ \A i \in 1..(Len(ss) - 1) : tt[i] = ss[i]

LEMMA FlattenReplace ==
  ASSUME NEW S, NEW ss \in Seq(Seq(S)), NEW tt \in Seq(Seq(S)), SameFront(ss, tt)
  PROVE  \E p \in Seq(S) : /\ FlattenSeq(ss) = p \o ss[Len(ss)]
                           /\ FlattenSeq(tt) = p \o tt[Len(tt)]
<1> DEFINE n == Len(ss)
           f == SubSeq(ss, 1, n - 1)
           g == SubSeq(tt, 1, Len(tt) - 1)
<1>1. /\ n \in Nat /\ n > 0 /\ tt # << >> /\ ss # << >>
      /\ Len(tt) = Len(ss) /\ \A i \in 1..(n - 1) : tt[i] = ss[i]
  BY DEF SameFront
<1>2. f = g
  <2>1. f \in Seq(Seq(S)) /\ Len(f) = n - 1 /\ \A i \in 1..(n - 1) : f[i] = ss[i]
    BY <1>1
  <2>2. g \in Seq(Seq(S)) /\ Len(g) = n - 1 /\ \A i \in 1..(n - 1) : g[i] = tt[i]
    BY <1>1
  <2>3. Len(g) = Len(f) /\ \A i \in 1..Len(f) : g[i] = f[i]
    <3> HIDE DEF f, g, n
    <3>. QED  BY <1>1, <2>1, <2>2 DEF n
  <2> DEFINE T == Seq(S)
  <2>4. f \in Seq(T) /\ g \in Seq(T)
    BY <2>1, <2>2
  <2> HIDE DEF f, g, T
  <2>. QED  BY <2>3, <2>4, SeqEqual
<1>3. FlattenSeq(f) \in Seq(S) /\ FlattenSeq(ss) = FlattenSeq(f) \o ss[n]
  BY <1>1, FlattenLast
<1>4. FlattenSeq(tt) = FlattenSeq(g) \o tt[Len(tt)]
  BY <1>1, FlattenLast
<1>. QED  BY <1>2, <1>3, <1>4

-----------------------------------------------------------------------------
(* How many elements of a sequence are of a kind. *)
Positions(s, T) == {k \in DOMAIN s : s[k] \in T}

LEMMA CountAppend ==
  ASSUME NEW E, NEW T, NEW s \in Seq(E), NEW e \in E
  PROVE  /\ IsFiniteSet(Positions(s, T))
         /\ Cardinality(Positions(s, T)) \in Nat
         /\ Cardinality(Positions(Append(s, e), T)) =
              Cardinality(Positions(s, T)) + IF e \in T THEN 1 ELSE 0
<1> DEFINE n == Len(s)
           t == Append(s, e)
<1>1. /\ n \in Nat /\ DOMAIN s = 1..n /\ DOMAIN t = 1..(n + 1)
      /\ \A k \in 1..n : t[k] = s[k]
      /\ t[n + 1] = e
  OBVIOUS
<1>2. IsFiniteSet(Positions(s, T)) /\ Cardinality(Positions(s, T)) \in Nat
  <2>1. IsFiniteSet(1..n)
    <3>1. 1 \in Int /\ n \in Int
      BY <1>1
    <3> HIDE DEF n
    <3>. QED  BY <3>1, FS_Interval
  <2>2. Positions(s, T) \subseteq 1..n
    BY <1>1 DEF Positions
  <2>. QED  BY <2>1, <2>2, FS_Subset, FS_CardinalityType
<1> HIDE DEF n, t
<1>3. CASE e \in T
  <2>1. Positions(t, T) = Positions(s, T) \cup {n + 1}
    BY <1>1, <1>3 DEF Positions
  <2>2. n + 1 \notin Positions(s, T)
    BY <1>1 DEF Positions
  <2>. QED  BY <1>2, <1>3, <2>1, <2>2, FS_AddElement DEF t
<1>4. CASE e \notin T
  <2>1. Positions(t, T) = Positions(s, T)
    BY <1>1, <1>4 DEF Positions
  <2>2. Cardinality(Positions(t, T)) = Cardinality(Positions(s, T)) + 0
    BY <1>2, <2>1
  <2>. QED  BY <1>2, <1>4, <2>2 DEF t
<1>. QED  BY <1>3, <1>4

LEMMA CountEmpty == \A T : Cardinality(Positions(<< >>, T)) = 0
<1>1. \A T : Positions(<< >>, T) = {}
  BY DEF Positions
<1>. QED  BY <1>1, FS_EmptySet

-----------------------------------------------------------------------------
(* What is kept of every element of a sequence: m of it. *)
Maps(m, A, B) == m \in [A -> B]
Map(m, s) == [k \in DOMAIN s |-> m[s[k]]]

LEMMA MapType ==
  ASSUME NEW A, NEW B, NEW m, Maps(m, A, B), NEW s \in Seq(A)
  PROVE  /\ Map(m, s) \in Seq(B)
         /\ Len(Map(m, s)) = Len(s)
         /\ \A k \in 1..Len(s) : Map(m, s)[k] = m[s[k]]
<1> DEFINE n == Len(s)
<1>1. n \in Nat /\ DOMAIN s = 1..n /\ \A k \in 1..n : s[k] \in A
  OBVIOUS
<1> HIDE DEF n
<1>2. \A k \in 1..n : m[s[k]] \in B
  BY <1>1 DEF Maps
<1>3. /\ [k \in 1..n |-> m[s[k]]] \in Seq(B)
      /\ Len([k \in 1..n |-> m[s[k]]]) = n
  BY <1>1, <1>2
<1>4. Map(m, s) = [k \in 1..n |-> m[s[k]]]
  BY <1>1 DEF Map
<1>. QED  BY <1>3, <1>4 DEF n

LEMMA MapEmpty == \A m : Map(m, << >>) = << >>
  BY DEF Map

LEMMA MapAppend ==
  ASSUME NEW A, NEW B, NEW m, Maps(m, A, B), NEW s \in Seq(A), NEW e \in A
  PROVE  Map(m, Append(s, e)) = Append(Map(m, s), m[e])
<1> DEFINE n == Len(s)
           t == Append(s, e)
           u == Map(m, t)
           v == Append(Map(m, s), m[e])
<1>1. /\ n \in Nat /\ t \in Seq(A) /\ Len(t) = n + 1 /\ t[n + 1] = e
      /\ \A k \in 1..n : t[k] = s[k]
  OBVIOUS
<1>2. m[e] \in B
  BY DEF Maps
<1> HIDE DEF t
<1>3. u \in Seq(B) /\ Len(u) = n + 1 /\ \A k \in 1..(n + 1) : u[k] = m[t[k]]
  BY <1>1, MapType
<1> DEFINE q == Map(m, s)
<1>4. q \in Seq(B) /\ Len(q) = n /\ \A k \in 1..n : q[k] = m[s[k]]
  BY MapType
<1> HIDE DEF q, n, u
<1>5. v \in Seq(B) /\ Len(v) = n + 1 /\ v[n + 1] = m[e] /\ \A k \in 1..n : v[k] = q[k]
  BY <1>1, <1>2, <1>4 DEF q
<1> HIDE DEF v
<1>6. \A k \in 1..(n + 1) : u[k] = v[k]
  BY <1>1, <1>3, <1>4, <1>5
<1>7. u = v
  BY <1>3, <1>5, <1>6, SeqEqual
<1>. QED  BY <1>7 DEF u, v, t, q

LEMMA MapFront ==
  ASSUME NEW A, NEW B, NEW m, Maps(m, A, B), NEW s \in Seq(A), s # << >>
  PROVE  /\ Map(m, s) # << >>
         /\ Map(m, SubSeq(s, 1, Len(s) - 1)) = SubSeq(Map(m, s), 1, Len(Map(m, s)) - 1)
<1> DEFINE p == SubSeq(s, 1, Len(s) - 1)
           e == s[Len(s)]
           q == Map(m, p)
<1>1. p \in Seq(A) /\ e \in A /\ s = Append(p, e)
  OBVIOUS
<1> HIDE DEF p, e
<1>2. q \in Seq(B) /\ m[e] \in B /\ Map(m, s) = Append(q, m[e])
  <2>1. q \in Seq(B) /\ Map(m, Append(p, e)) = Append(q, m[e])
    BY <1>1, MapAppend, MapType
  <2>. QED  BY <1>1, <2>1 DEF Maps
<1> HIDE DEF q
<1>3. /\ Append(q, m[e]) # << >>
      /\ SubSeq(Append(q, m[e]), 1, Len(Append(q, m[e])) - 1) = q
  BY <1>2
<1>. QED  BY <1>2, <1>3 DEF p, q

LEMMA MapConcat ==
  ASSUME NEW A, NEW B, NEW m, Maps(m, A, B), NEW s \in Seq(A), NEW t \in Seq(A)
  PROVE  Map(m, s \o t) = Map(m, s) \o Map(m, t)
<1> DEFINE a == Len(s)
           b == Len(t)
           c == s \o t
           p == Map(m, s)
           q == Map(m, t)
           u == Map(m, c)
           v == p \o q
<1>1. /\ a \in Nat /\ b \in Nat /\ c \in Seq(A) /\ Len(c) = a + b
      /\ \A k \in 1..(a + b) : c[k] = IF k <= a THEN s[k] ELSE t[k - a]
  OBVIOUS
<1> HIDE DEF c
<1>2. u \in Seq(B) /\ Len(u) = a + b /\ \A k \in 1..(a + b) : u[k] = m[c[k]]
  <2>1. u \in Seq(B) /\ Len(u) = Len(c) /\ \A k \in 1..Len(c) : u[k] = m[c[k]]
    BY <1>1, MapType
  <2> HIDE DEF u, a, b
  <2>. QED  BY <1>1, <2>1
<1>3. p \in Seq(B) /\ Len(p) = a /\ \A k \in 1..a : p[k] = m[s[k]]
  BY MapType
<1>4. q \in Seq(B) /\ Len(q) = b /\ \A k \in 1..b : q[k] = m[t[k]]
  BY MapType
<1> HIDE DEF p, q, u, a, b
<1>5. v \in Seq(B) /\ Len(v) = a + b /\ \A k \in 1..(a + b) : v[k] = IF k <= a THEN p[k] ELSE q[k - a]
  <2>1. /\ v \in Seq(B) /\ Len(v) = Len(p) + Len(q)
        /\ \A k \in 1..(Len(p) + Len(q)) : v[k] = IF k <= Len(p) THEN p[k] ELSE q[k - Len(p)]
    BY <1>3, <1>4, ConcatProperties
  <2> HIDE DEF v
  <2>. QED  BY <1>3, <1>4, <2>1
<1> HIDE DEF v
<1>6. \A k \in 1..(a + b) : u[k] = v[k]
  <2> SUFFICES ASSUME NEW k \in 1..(a + b) PROVE u[k] = v[k]
    OBVIOUS
  <2>1. CASE k <= a
    <3>1. k \in 1..a
      BY <1>1, <2>1
    <3>2. c[k] = s[k] /\ v[k] = p[k]
      BY <1>1, <1>5, <2>1
    <3>. QED  BY <1>2, <1>3, <3>1, <3>2
  <2>2. CASE ~(k <= a)
    <3>1. k - a \in 1..b
      BY <1>1, <2>2
    <3>2. c[k] = t[k - a] /\ v[k] = q[k - a]
      BY <1>1, <1>5, <2>2
    <3>. QED  BY <1>2, <1>4, <3>1, <3>2
  <2>. QED  BY <2>1, <2>2
<1>7. u = v
  BY <1>2, <1>5, <1>6, SeqEqual
<1>. QED  BY <1>7 DEF u, v, p, q, c

(* The log of what is kept is what is kept of the log. *)
LEMMA FlattenMap ==
  ASSUME NEW A, NEW B, NEW m, Maps(m, A, B), NEW ss \in Seq(Seq(A))
  PROVE  FlattenSeq([i \in DOMAIN ss |-> Map(m, ss[i])]) = Map(m, FlattenSeq(ss))
<1> DEFINE Each(x) == [i \in DOMAIN x |-> Map(m, x[i])]
           R == Seq(A)
           Q == Seq(B)
           T == {n \in Nat : \A x \in Seq(R) : Len(x) = n => FlattenSeq(Each(x)) = Map(m, FlattenSeq(x))}
<1>1. 0 \in T
  <2> SUFFICES ASSUME NEW x \in Seq(R), Len(x) = 0
               PROVE  FlattenSeq(Each(x)) = Map(m, FlattenSeq(x))
    OBVIOUS
  <2>1. x = << >> /\ Each(<< >>) = << >>
    OBVIOUS
  <2>. QED  BY <2>1, FlattenEmpty, MapEmpty
<1>2. ASSUME NEW n \in Nat, n \in T PROVE n + 1 \in T
  <2> SUFFICES ASSUME NEW x \in Seq(R), Len(x) = n + 1
               PROVE  FlattenSeq(Each(x)) = Map(m, FlattenSeq(x))
    OBVIOUS
  <2> DEFINE y == SubSeq(x, 1, Len(x) - 1)
             s == x[Len(x)]
  <2>1. y \in Seq(R) /\ Len(y) = n /\ s \in R /\ x = Append(y, s)
    <3> HIDE DEF R
    <3>. QED  BY <1>2
  <2> HIDE DEF y, s
  <2>2. FlattenSeq(Each(y)) = Map(m, FlattenSeq(y))
    BY <1>2, <2>1
  <2>3. \A z \in R : Map(m, z) \in Q
    BY MapType
  <2>4. Each(y) \in Seq(Q) /\ Len(Each(y)) = n
    <3>1. DOMAIN y = 1..n /\ \A i \in 1..n : y[i] \in R
      <4> HIDE DEF R
      <4>. QED  BY <1>2, <2>1
    <3> HIDE DEF R, Q
    <3>. QED  BY <1>2, <2>3, <3>1
  <2>5. Each(x) = Append(Each(y), Map(m, s))
    <3> HIDE DEF R, Q
    <3> DEFINE e == Each(y)
               v == Append(e, Map(m, s))
               u == Each(x)
    <3>1. v \in Seq(Q) /\ Len(v) = n + 1 /\ v[n + 1] = Map(m, s) /\ \A i \in 1..n : v[i] = e[i]
      <4>1. e \in Seq(Q) /\ Len(e) = n /\ Map(m, s) \in Q
        BY <2>1, <2>3, <2>4
      <4> HIDE DEF e
      <4>. QED  BY <4>1
    <3>2. DOMAIN y = 1..n /\ DOMAIN x = 1..(n + 1) /\ x[n + 1] = s /\ \A i \in 1..n : x[i] = y[i]
      BY <2>1
    <3>3. \A i \in 1..n : e[i] = Map(m, y[i])
      BY <3>2
    <3>4. u = [i \in 1..(n + 1) |-> Map(m, x[i])]
      BY <3>2
    <3>5. v = [i \in 1..(n + 1) |-> v[i]]
      <4> HIDE DEF v
      <4>. QED  BY <3>1
    <3> HIDE DEF u, v, e
    <3>6. \A i \in 1..(n + 1) : Map(m, x[i]) = v[i]
      <4>1. \A i \in 1..(n + 1) : i = n + 1 \/ i \in 1..n
        OBVIOUS
      <4>. QED  BY <3>1, <3>2, <3>3, <4>1
    <3>7. u = v
      BY <3>4, <3>5, <3>6
    <3>. QED  BY <3>7 DEF u, v, e
  <2>6. FlattenSeq(Append(Each(y), Map(m, s))) = FlattenSeq(Each(y)) \o Map(m, s)
    <3> HIDE DEF Each
    <3>. QED  BY <2>1, <2>3, <2>4, FlattenAppend DEF Q
  <2>7. FlattenSeq(y) \in Seq(A) /\ FlattenSeq(x) = FlattenSeq(y) \o s
    BY <2>1, FlattenAppend
  <2>8. Map(m, FlattenSeq(y) \o s) = Map(m, FlattenSeq(y)) \o Map(m, s)
    BY <2>1, <2>7, MapConcat
  <2> HIDE DEF Each
  <2>. QED  BY <2>2, <2>5, <2>6, <2>7, <2>8
<1>3. Nat \subseteq T
  <2> HIDE DEF T
  <2>. QED  BY <1>1, <1>2, Induction
<1>4. ss \in Seq(R) /\ Len(ss) \in T
  <2>1. ss \in Seq(R) /\ Len(ss) \in Nat
    OBVIOUS
  <2> HIDE DEF T, R
  <2>. QED  BY <1>3, <2>1
<1> HIDE DEF Each
<1>5. FlattenSeq(Each(ss)) = Map(m, FlattenSeq(ss))
  BY <1>4
<1>. QED  BY <1>5 DEF Each

(* The elements of a sequence that are of a kind, in their order. *)
Single(x, T) == IF x \in T THEN <<x>> ELSE << >>
Kept(s, T) == FlattenSeq([k \in DOMAIN s |-> Single(s[k], T)])

LEMMA KeptEmpty == \A T : Kept(<< >>, T) = << >>
<1> SUFFICES ASSUME NEW T PROVE Kept(<< >>, T) = << >>
  OBVIOUS
<1>1. [k \in DOMAIN << >> |-> Single(<< >>[k], T)] = << >>
  OBVIOUS
<1>. QED  BY <1>1, FlattenEmpty DEF Kept

LEMMA KeptAppend ==
  ASSUME NEW S, NEW T, NEW s \in Seq(S), NEW e \in S
  PROVE  /\ Kept(s, T) \in Seq(S)
         /\ Kept(Append(s, e), T) = Kept(s, T) \o Single(e, T)
<1> DEFINE one(x) == Single(x, T)
           m == [x \in S |-> one(x)]
           t == Append(s, e)
<1>1. Maps(m, S, Seq(S))
  <2>1. \A x \in S : one(x) \in Seq(S)
    BY DEF Single
  <2> HIDE DEF one
  <2>. QED  BY <2>1 DEF Maps
<1>2. ASSUME NEW r \in Seq(S) PROVE Kept(r, T) = FlattenSeq(Map(m, r))
  <2>1. \A k \in DOMAIN r : m[r[k]] = one(r[k])
    <3>1. \A k \in DOMAIN r : r[k] \in S
      OBVIOUS
    <3> HIDE DEF one
    <3>. QED  BY <3>1
  <2>2. Map(m, r) = [k \in DOMAIN r |-> one(r[k])]
    <3> HIDE DEF m, one
    <3>. QED  BY <2>1 DEF Map
  <2>3. Kept(r, T) = FlattenSeq([k \in DOMAIN r |-> one(r[k])])
    BY DEF Kept
  <2>. QED  BY <2>2, <2>3
<1>3. t \in Seq(S)
  OBVIOUS
<1>4. m[e] = one(e)
  OBVIOUS
<1> HIDE DEF m, t
<1>5. Map(m, s) \in Seq(Seq(S)) /\ m[e] \in Seq(S)
  BY <1>1, MapType DEF Maps
<1>6. Map(m, t) = Append(Map(m, s), m[e])
  BY <1>1, MapAppend DEF t
<1>7. /\ FlattenSeq(Map(m, s)) \in Seq(S)
      /\ FlattenSeq(Append(Map(m, s), m[e])) = FlattenSeq(Map(m, s)) \o m[e]
  BY <1>5, FlattenAppend
<1>8. Kept(t, T) = Kept(s, T) \o one(e) /\ Kept(s, T) \in Seq(S)
  BY <1>2, <1>3, <1>4, <1>6, <1>7
<1>. QED  BY <1>8 DEF t

(* To prove something of every sequence, prove it of the empty one and of  *)
(* one that is longer by an element.                                       *)
LEMMA Grown ==
  ASSUME NEW S, NEW P, << >> \in P,
         \A s \in Seq(S), e \in S : s \in P => Append(s, e) \in P
  PROVE  Seq(S) \subseteq P
<1> DEFINE T == {n \in Nat : \A s \in Seq(S) : Len(s) = n => s \in P}
<1>1. 0 \in T
  <2>1. \A s \in Seq(S) : Len(s) = 0 => s = << >>
    OBVIOUS
  <2>. QED  BY <2>1
<1>2. ASSUME NEW n \in Nat, n \in T PROVE n + 1 \in T
  <2> SUFFICES ASSUME NEW s \in Seq(S), Len(s) = n + 1 PROVE s \in P
    OBVIOUS
  <2> DEFINE f == SubSeq(s, 1, n)
             e == s[n + 1]
  <2>1. f \in Seq(S) /\ Len(f) = n /\ e \in S /\ s = Append(f, e)
    OBVIOUS
  <2> HIDE DEF f, e
  <2>. QED  BY <1>2, <2>1
<1>3. Nat \subseteq T
  <2> HIDE DEF T
  <2>. QED  BY <1>1, <1>2, Induction
<1>. QED  BY <1>3

LEMMA KeptConcat ==
  ASSUME NEW S, NEW T, NEW s \in Seq(S), NEW t \in Seq(S)
  PROVE  Kept(s \o t, T) = Kept(s, T) \o Kept(t, T)
<1> DEFINE P == {r \in Seq(S) : Kept(s \o r, T) = Kept(s, T) \o Kept(r, T)}
           one(x) == Single(x, T)
<1>0. Kept(s, T) \in Seq(S)
  <2>1. CASE S = {}
    <3>1. s = << >>
      BY <2>1
    <3>. QED  BY <3>1, KeptEmpty
  <2>2. CASE S # {}
    BY <2>2, KeptAppend
  <2>. QED  BY <2>1, <2>2
<1>1. << >> \in P
  <2>1. s \o << >> = s /\ Kept(s, T) \o << >> = Kept(s, T)
    BY <1>0
  <2>2. << >> \in Seq(S) /\ Kept(<< >>, T) = << >>
    BY KeptEmpty
  <2>3. Kept(s \o << >>, T) = Kept(s, T) \o Kept(<< >>, T)
    BY <2>1, <2>2
  <2>. QED  BY <2>2, <2>3
<1>2. ASSUME NEW r \in Seq(S), NEW e \in S, r \in P PROVE Append(r, e) \in P
  <2>1. s \o r \in Seq(S) /\ s \o Append(r, e) = Append(s \o r, e) /\ Append(r, e) \in Seq(S)
    OBVIOUS
  <2>2. Kept(Append(s \o r, e), T) = Kept(s \o r, T) \o one(e)
    <3> DEFINE q == s \o r
    <3>1. q \in Seq(S)
      OBVIOUS
    <3> HIDE DEF q, P
    <3>2. Kept(Append(q, e), T) = Kept(q, T) \o one(e)
      BY <3>1, KeptAppend
    <3>. QED  BY <3>2 DEF q
  <2>3. Kept(Append(r, e), T) = Kept(r, T) \o one(e) /\ Kept(r, T) \in Seq(S)
    BY KeptAppend
  <2>4. one(e) \in Seq(S)
    BY DEF Single
  <2> HIDE DEF one
  <2>5. (Kept(s, T) \o Kept(r, T)) \o one(e) = Kept(s, T) \o (Kept(r, T) \o one(e))
    BY <1>0, <2>3, <2>4
  <2>. QED  BY <1>2, <2>1, <2>2, <2>3, <2>5
<1>3. Seq(S) \subseteq P
  <2> HIDE DEF P
  <2>. QED  BY <1>1, <1>2, Grown
<1>. QED  BY <1>3

LEMMA KeptType ==
  ASSUME NEW S, NEW T, NEW s \in Seq(S)
  PROVE  Kept(s, T) \in Seq(S)
<1>1. CASE S = {}
  <2>1. s = << >> /\ << >> \in Seq(S)
    BY <1>1
  <2>. QED  BY <2>1, KeptEmpty
<1>2. CASE S # {}
  BY <1>2, KeptAppend
<1>. QED  BY <1>1, <1>2

LEMMA KeptFlatten ==
  ASSUME NEW S, NEW T, NEW ss \in Seq(Seq(S))
  PROVE  /\ [i \in DOMAIN ss |-> Kept(ss[i], T)] \in Seq(Seq(S))
         /\ Kept(FlattenSeq(ss), T) = FlattenSeq([i \in DOMAIN ss |-> Kept(ss[i], T)])
<1> DEFINE R == Seq(S)
           m == [s \in R |-> Kept(s, T)]
           P == {r \in Seq(R) : Kept(FlattenSeq(r), T) = FlattenSeq(Map(m, r))}
<1>1. Maps(m, R, R)
  <2>1. \A s \in R : Kept(s, T) \in R
    BY KeptType
  <2> HIDE DEF R
  <2>. QED  BY <2>1 DEF Maps
<1>2. ASSUME NEW r \in Seq(R) PROVE Map(m, r) = [i \in DOMAIN r |-> Kept(r[i], T)]
  <2>1. \A i \in DOMAIN r : r[i] \in R
    <3> HIDE DEF R
    <3>. QED  OBVIOUS
  <2>2. \A i \in DOMAIN r : m[r[i]] = Kept(r[i], T)
    <3> HIDE DEF R
    <3>. QED  BY <2>1
  <2> HIDE DEF m, R
  <2>. QED  BY <2>2 DEF Map
<1> HIDE DEF m
<1>3. << >> \in P
  <2>1. << >> \in Seq(R)
    OBVIOUS
  <2>2. Kept(FlattenSeq(<< >>), T) = << >>
    BY FlattenEmpty, KeptEmpty
  <2>3. FlattenSeq(Map(m, << >>)) = << >>
    BY FlattenEmpty, MapEmpty
  <2>. QED  BY <2>1, <2>2, <2>3
<1>4. ASSUME NEW r \in Seq(R), NEW s \in R, r \in P PROVE Append(r, s) \in P
  <2>1. Append(r, s) \in Seq(R)
    <3> HIDE DEF R, P
    <3>. QED  OBVIOUS
  <2>2. FlattenSeq(r) \in Seq(S) /\ FlattenSeq(Append(r, s)) = FlattenSeq(r) \o s
    BY FlattenAppend
  <2>3. Kept(FlattenSeq(r) \o s, T) = Kept(FlattenSeq(r), T) \o Kept(s, T)
    BY <2>2, KeptConcat
  <2>4. Map(m, Append(r, s)) = Append(Map(m, r), m[s]) /\ m[s] = Kept(s, T) /\ m[s] \in R
    <3>1. Map(m, Append(r, s)) = Append(Map(m, r), m[s])
      <4> HIDE DEF P, R
      <4>. QED  BY <1>1, MapAppend
    <3>2. m[s] = Kept(s, T)
      BY DEF m
    <3>. QED  BY <3>1, <3>2, KeptType
  <2>5. Map(m, r) \in Seq(R)
    <3> HIDE DEF P, R
    <3>. QED  BY <1>1, MapType
  <2>6. FlattenSeq(Append(Map(m, r), m[s])) = FlattenSeq(Map(m, r)) \o m[s]
    BY <2>4, <2>5, FlattenAppend
  <2>. QED  BY <1>4, <2>1, <2>2, <2>3, <2>4, <2>6
<1>5. Seq(R) \subseteq P
  <2> HIDE DEF P, R
  <2>. QED  BY <1>3, <1>4, Grown
<1>6. Map(m, ss) \in Seq(R)
  BY <1>1, MapType
<1>. QED  BY <1>2, <1>5, <1>6

(* s is where t begins. *)
Begins(s, t) == Len(s) <= Len(t) /\ \A k \in 1..Len(s) : s[k] = t[k]

LEMMA BeginsSame == ASSUME NEW S, NEW s \in Seq(S) PROVE Begins(s, s) /\ Begins(<< >>, s)
BY DEF Begins

LEMMA BeginsConcat ==
  ASSUME NEW S, NEW s \in Seq(S), NEW t \in Seq(S)
  PROVE  Begins(s, s \o t)
BY DEF Begins

LEMMA BeginsLonger ==
  ASSUME NEW S, NEW r \in Seq(S), NEW s \in Seq(S), NEW t \in Seq(S), Begins(r, s)
  PROVE  Begins(s, t) => Begins(r, t)
BY DEF Begins

LEMMA BeginsWith ==
  ASSUME NEW S, NEW p \in Seq(S), NEW s \in Seq(S), NEW t \in Seq(S), Begins(s, t)
  PROVE  Begins(p \o s, p \o t)
<1>1. /\ Len(p \o s) = Len(p) + Len(s) /\ Len(p \o t) = Len(p) + Len(t)
      /\ Len(p) \in Nat /\ Len(s) \in Nat /\ Len(t) \in Nat
      /\ \A k \in 1..(Len(p) + Len(s)) : (p \o s)[k] = IF k <= Len(p) THEN p[k] ELSE s[k - Len(p)]
      /\ \A k \in 1..(Len(p) + Len(t)) : (p \o t)[k] = IF k <= Len(p) THEN p[k] ELSE t[k - Len(p)]
  OBVIOUS
<1>2. Len(s) <= Len(t) /\ \A k \in 1..Len(s) : s[k] = t[k]
  BY DEF Begins
<1> DEFINE u == p \o s
           v == p \o t
<1>3. ASSUME NEW k \in 1..Len(u) PROVE u[k] = v[k]
  <2>1. k \in 1..(Len(p) + Len(s)) /\ k \in 1..(Len(p) + Len(t))
    BY <1>1, <1>2
  <2>2. ~(k <= Len(p)) => k - Len(p) \in 1..Len(s)
    BY <1>1, <2>1
  <2> HIDE DEF u, v
  <2>. QED  BY <1>1, <1>2, <2>1, <2>2 DEF u, v
<1>. QED  BY <1>1, <1>2, <1>3 DEF Begins

LEMMA FrontBegins ==
  ASSUME NEW S, NEW s \in Seq(S), NEW n \in 0..Len(s)
  PROVE  LET f == SubSeq(s, 1, n)
             r == SubSeq(s, n + 1, Len(s))
         IN  f \in Seq(S) /\ r \in Seq(S) /\ s = f \o r
<1> DEFINE f == SubSeq(s, 1, n)
           r == SubSeq(s, n + 1, Len(s))
           l == Len(s)
           t == f \o r
<1>1. l \in Nat /\ n \in 0..l /\ \A k \in 1..l : s[k] \in S
  OBVIOUS
<1>2. /\ f \in Seq(S) /\ Len(f) = n /\ \A k \in 1..n : f[k] = s[k]
  OBVIOUS
<1>3. /\ r \in Seq(S) /\ Len(r) = l - n /\ \A k \in 1..(l - n) : r[k] = s[n + k]
  <2>1. \A k \in 1..(l - n) : n + k \in 1..l
    <3> HIDE DEF l
    <3>. QED  BY <1>1
  <2>. QED  BY <1>1, <2>1
<1> HIDE DEF f, r
<1>4. /\ t \in Seq(S) /\ Len(t) = n + (l - n)
      /\ \A k \in 1..(n + (l - n)) : t[k] = IF k <= n THEN f[k] ELSE r[k - n]
  <2> HIDE DEF l
  <2>. QED  BY <1>1, <1>2, <1>3
<1>5. Len(t) = l /\ \A k \in 1..l : t[k] = s[k]
  <2> HIDE DEF t, l
  <2>1. \A k \in 1..l : k <= n => k \in 1..n
    BY <1>1
  <2>2. \A k \in 1..l : ~(k <= n) => k - n \in 1..(l - n) /\ n + (k - n) = k
    BY <1>1
  <2>3. n + (l - n) = l
    BY <1>1
  <2>. QED  BY <1>2, <1>3, <1>4, <2>1, <2>2, <2>3
<1>6. s = t
  <2> HIDE DEF t
  <2>. QED  BY <1>4, <1>5, SeqEqual DEF l
<1>. QED  BY <1>2, <1>3, <1>6 DEF f, r, t

LEMMA KeptBegins ==
  ASSUME NEW S, NEW T, NEW s \in Seq(S), NEW n \in 0..Len(s)
  PROVE  Begins(Kept(SubSeq(s, 1, n), T), Kept(s, T))
<1> DEFINE f == SubSeq(s, 1, n)
           r == SubSeq(s, n + 1, Len(s))
<1>1. f \in Seq(S) /\ r \in Seq(S) /\ s = f \o r
  BY FrontBegins
<1> HIDE DEF f, r
<1>2. Kept(s, T) = Kept(f, T) \o Kept(r, T)
  BY <1>1, KeptConcat
<1>3. Kept(f, T) \in Seq(S) /\ Kept(r, T) \in Seq(S)
  BY <1>1, KeptType
<1>. QED  BY <1>2, <1>3, BeginsConcat DEF f

LEMMA ToSetAppend ==
  ASSUME NEW S, NEW s \in Seq(S), NEW x \in S
  PROVE  ToSet(Append(s, x)) = ToSet(s) \cup {x}
<1> DEFINE t == Append(s, x)
<1>1. /\ Len(s) \in Nat /\ DOMAIN s = 1..Len(s) /\ DOMAIN t = 1..(Len(s) + 1)
      /\ t[Len(s) + 1] = x /\ \A k \in 1..Len(s) : t[k] = s[k]
  OBVIOUS
<1> HIDE DEF t
<1>. QED  BY <1>1 DEF ToSet, t

LEMMA KeptIn ==
  ASSUME NEW S, NEW T, NEW s \in Seq(S), NEW e \in T
  PROVE  e \in ToSet(s) <=> e \in ToSet(Kept(s, T))
<1> DEFINE P == {r \in Seq(S) : e \in ToSet(r) <=> e \in ToSet(Kept(r, T))}
<1>1. << >> \in P
  <2>1. << >> \in Seq(S) /\ Kept(<< >>, T) = << >>
    BY KeptEmpty
  <2>. QED  BY <2>1
<1>2. ASSUME NEW r \in Seq(S), NEW x \in S, r \in P PROVE Append(r, x) \in P
  <2>1. Append(r, x) \in Seq(S) /\ ToSet(Append(r, x)) = ToSet(r) \cup {x}
    BY ToSetAppend
  <2>2. Kept(Append(r, x), T) = Kept(r, T) \o Single(x, T) /\ Kept(r, T) \in Seq(S)
    BY KeptAppend
  <2>3. CASE x \in T
    <3>1. Kept(Append(r, x), T) = Append(Kept(r, T), x)
      BY <2>2, <2>3 DEF Single
    <3>2. ToSet(Append(Kept(r, T), x)) = ToSet(Kept(r, T)) \cup {x}
      BY <2>2, ToSetAppend
    <3>. QED  BY <1>2, <2>1, <3>1, <3>2
  <2>4. CASE x \notin T
    <3>1. Kept(Append(r, x), T) = Kept(r, T)
      BY <2>2, <2>4 DEF Single
    <3>2. e # x
      BY <2>4
    <3>. QED  BY <1>2, <2>1, <3>1, <3>2
  <2>. QED  BY <2>3, <2>4
<1>3. Seq(S) \subseteq P
  <2> HIDE DEF P
  <2>. QED  BY <1>1, <1>2, Grown
<1>. QED  BY <1>3

(* A cut that goes on: what follows a piece that lost something is empty.  *)
CutOff(ss, tt) ==
  /\ Len(tt) = Len(ss)
  /\ \A i \in 1..Len(ss) : Begins(tt[i], ss[i])
  /\ \A i, j \in 1..Len(ss) : i < j /\ tt[i] # ss[i] => tt[j] = << >>

LEMMA FlattenCut ==
  ASSUME NEW S, NEW ss \in Seq(Seq(S)), NEW tt \in Seq(Seq(S)), CutOff(ss, tt)
  PROVE  Begins(FlattenSeq(tt), FlattenSeq(ss))
<1> DEFINE R == Seq(S)
           P == {s \in Seq(R) : \A t \in Seq(R) :
                   CutOff(s, t) => Begins(FlattenSeq(t), FlattenSeq(s))}
<1>0. ASSUME NEW s \in Seq(R) PROVE FlattenSeq(s) \in R
  <2>1. << >> \in R
    OBVIOUS
  <2>. QED  BY <2>1, FlattenAppend
<1>1. << >> \in P
  <2>1. << >> \in Seq(R) /\ \A t \in Seq(R) : Len(t) = Len(<< >>) => t = << >>
    OBVIOUS
  <2>2. Begins(FlattenSeq(<< >>), FlattenSeq(<< >>))
    BY FlattenEmpty DEF Begins
  <2> HIDE DEF R
  <2>. QED  BY <2>1, <2>2, Zenon DEF CutOff
<1>2. ASSUME NEW s \in Seq(R), NEW x \in R, s \in P PROVE Append(s, x) \in P
  <2> SUFFICES ASSUME NEW t \in Seq(R), CutOff(Append(s, x), t)
               PROVE  Begins(FlattenSeq(t), FlattenSeq(Append(s, x)))
    <3> HIDE DEF R
    <3>. QED  OBVIOUS
  <2> DEFINE n == Len(s)
             f == SubSeq(t, 1, n)
             y == t[n + 1]
             a == Append(s, x)
  <2>1. /\ n \in Nat /\ Len(a) = n + 1 /\ a[n + 1] = x /\ \A k \in 1..n : a[k] = s[k]
    <3> HIDE DEF R
    <3>. QED  OBVIOUS
  <2>2. /\ Len(t) = n + 1
        /\ \A i \in 1..(n + 1) : Begins(t[i], a[i])
        /\ \A i, j \in 1..(n + 1) : i < j /\ t[i] # a[i] => t[j] = << >>
    BY <2>1 DEF CutOff
  <2>3. /\ f \in Seq(R) /\ Len(f) = n /\ \A k \in 1..n : f[k] = t[k]
        /\ y \in R /\ t = Append(f, y)
    <3> HIDE DEF R, a
    <3>. QED  BY <2>1, <2>2
  <2> HIDE DEF a, f, y
  <2>4. CutOff(s, f)
    <3>1. \A k \in 1..n : k \in 1..(n + 1)
      BY <2>1
    <3> HIDE DEF R, n
    <3>. QED  BY <2>1, <2>2, <2>3, <3>1 DEF CutOff, n
  <2>5. Begins(FlattenSeq(f), FlattenSeq(s))
    BY <1>2, <2>3, <2>4
  <2>6. /\ FlattenSeq(a) = FlattenSeq(s) \o x /\ FlattenSeq(t) = FlattenSeq(f) \o y
        /\ FlattenSeq(s) \in R /\ FlattenSeq(f) \in R
    BY <1>0, <2>3, FlattenAppend DEF a
  <2>7. n + 1 \in 1..(n + 1) /\ \A k \in 1..n : k \in 1..(n + 1) /\ k < n + 1
    BY <2>1
  <2>8. Begins(y, x)
    BY <2>1, <2>2, <2>7 DEF y
  <2>9. CASE \A k \in 1..n : f[k] = s[k]
    <3>1. f = s
      <4> HIDE DEF R
      <4>. QED  BY <2>3, <2>9, SeqEqual
    <3> DEFINE p == FlattenSeq(s)
    <3>2. p \in Seq(S) /\ x \in Seq(S) /\ y \in Seq(S)
      BY <2>3, <2>6
    <3> HIDE DEF p
    <3>3. Begins(p \o y, p \o x)
      BY <2>8, <3>2, BeginsWith
    <3>. QED  BY <2>6, <3>1, <3>3 DEF p, a
  <2>10. CASE ~ \A k \in 1..n : f[k] = s[k]
    <3>1. PICK k \in 1..n : t[k] # a[k]
      BY <2>1, <2>3, <2>10
    <3>2. y = << >>
      BY <2>2, <2>7, <3>1 DEF y
    <3> DEFINE p == FlattenSeq(s)
               q == FlattenSeq(f)
    <3>3. p \in Seq(S) /\ q \in Seq(S) /\ x \in Seq(S) /\ Begins(q, p)
      BY <2>5, <2>6
    <3> HIDE DEF p, q
    <3>4. q \o << >> = q /\ p \o x \in Seq(S)
      BY <3>3
    <3>5. Begins(q, p \o x)
      BY <3>3, <3>4, BeginsConcat, BeginsLonger
    <3>. QED  BY <2>6, <3>2, <3>4, <3>5 DEF p, q, a
  <2>. QED  BY <2>9, <2>10
<1>3. Seq(R) \subseteq P
  <2> HIDE DEF P, R
  <2>. QED  BY <1>1, <1>2, Grown
<1>. QED  BY <1>3

(* An element at the end of the last sequence is one at the end of all. *)
LEMMA FlattenPush ==
  ASSUME NEW S, NEW ss \in Seq(Seq(S)), NEW tt \in Seq(Seq(S)), SameFront(ss, tt),
         NEW x \in S, tt[Len(ss)] = Append(ss[Len(ss)], x)
  PROVE  FlattenSeq(tt) = Append(FlattenSeq(ss), x)
<1>1. PICK p \in Seq(S) : FlattenSeq(ss) = p \o ss[Len(ss)] /\ FlattenSeq(tt) = p \o tt[Len(tt)]
  BY FlattenReplace
<1> DEFINE l == ss[Len(ss)]
<1>2. Len(tt) = Len(ss) /\ ss # << >>
  BY DEF SameFront
<1>3. l \in Seq(S)
  BY <1>2
<1>4. tt[Len(tt)] = Append(l, x) /\ FlattenSeq(ss) = p \o l
  BY <1>1, <1>2
<1> HIDE DEF l
<1>5. p \o Append(l, x) = Append(p \o l, x)
  BY <1>3
<1>. QED  BY <1>1, <1>4, <1>5

(* An empty sequence more changes nothing. *)
LEMMA FlattenMore ==
  ASSUME NEW S, NEW ss \in Seq(Seq(S)), NEW tt \in Seq(Seq(S)), Longer(tt, ss),
         tt[Len(ss) + 1] = << >>
  PROVE  FlattenSeq(tt) = FlattenSeq(ss)
<1> DEFINE R == Seq(S)
           none == << >>
           a == Append(ss, none)
           n == Len(ss)
<1>1. none \in R /\ ss \in Seq(R) /\ tt \in Seq(R)
  OBVIOUS
<1>2. n \in Nat /\ Len(tt) = n + 1 /\ \A k \in 1..n : tt[k] = ss[k]
  BY DEF Longer
<1>3. /\ a \in Seq(R) /\ Len(a) = n + 1 /\ a[n + 1] = none /\ \A k \in 1..n : a[k] = ss[k]
  <2> HIDE DEF R, none
  <2>. QED  BY <1>1
<1>4. tt = a
  <2>1. \A k \in 1..(n + 1) : k \in 1..n \/ k = n + 1
    BY <1>2
  <2> HIDE DEF a, R, n
  <2>2. \A k \in 1..Len(tt) : tt[k] = a[k]
    BY <1>2, <1>3, <2>1 DEF n
  <2>. QED  BY <1>1, <1>2, <1>3, <2>2, SeqEqual
<1>5. FlattenSeq(a) = FlattenSeq(ss) \o none /\ FlattenSeq(ss) \in R
  BY <1>1, FlattenAppend
<1>6. FlattenSeq(ss) \o none = FlattenSeq(ss)
  BY <1>5
<1>. QED  BY <1>4, <1>5, <1>6

(* What is kept is of the kind, and was there. *)
LEMMA KeptOf ==
  ASSUME NEW S, NEW T, NEW s \in Seq(S)
  PROVE  Kept(s, T) \in Seq(S \cap T)
<1> DEFINE R == S \cap T
           P == {r \in Seq(S) : Kept(r, T) \in Seq(R)}
<1>0. ASSUME NEW e \in S PROVE Single(e, T) \in Seq(R)
  <2>1. e \in T => e \in R
    OBVIOUS
  <2> HIDE DEF R
  <2>2. CASE e \in T
    BY <2>1, <2>2 DEF Single
  <2>3. CASE e \notin T
    BY <2>3 DEF Single
  <2>. QED  BY <2>2, <2>3
<1> HIDE DEF R
<1>1. << >> \in P
  <2>1. Kept(<< >>, T) = << >>
    BY KeptEmpty
  <2>2. << >> \in Seq(S) /\ << >> \in Seq(R)
    OBVIOUS
  <2>. QED  BY <2>1, <2>2
<1>2. ASSUME NEW r \in Seq(S), NEW e \in S, r \in P
      PROVE  Append(r, e) \in P
  <2>1. Kept(Append(r, e), T) = Kept(r, T) \o Single(e, T)
    BY KeptAppend
  <2>2. Single(e, T) \in Seq(R)
    BY <1>0
  <2>3. Kept(r, T) \in Seq(R)
    BY <1>2
  <2>4. Append(r, e) \in Seq(S)
    OBVIOUS
  <2>5. Kept(r, T) \o Single(e, T) \in Seq(R)
    <3> DEFINE a == Kept(r, T)
               b == Single(e, T)
    <3> HIDE DEF a, b
    <3>. QED  BY <2>2, <2>3 DEF a, b
  <2>. QED  BY <2>1, <2>4, <2>5
<1> HIDE DEF P
<1>3. Seq(S) \subseteq P
  BY <1>1, <1>2, Grown
<1>. QED  BY <1>3 DEF P, R

LEMMA KeptNone ==
  ASSUME NEW S, NEW T, NEW s \in Seq(S), \A p \in DOMAIN s : s[p] \notin T
  PROVE  Kept(s, T) = << >>
<1> DEFINE k == Kept(s, T)
<1>1. k \in Seq(S \cap T) /\ k \in Seq(S)
  BY KeptOf, KeptType
<1>2. ASSUME k # << >> PROVE FALSE
  <2> HIDE DEF k
  <2>1. 1 \in DOMAIN k /\ k[1] \in T
    BY <1>1, <1>2
  <2>2. k[1] \in ToSet(k)
    BY <2>1 DEF ToSet
  <2>3. k[1] \in ToSet(s)
    BY <2>1, <2>2, KeptIn DEF k
  <2>. QED  BY <2>1, <2>3 DEF ToSet
<1>. QED  BY <1>2

(* Of pieces that lost their ends, what is kept lost its end only, if no   *)
(* piece after one that lost something has more of what is kept.           *)
Has(s, T) == \E p \in DOMAIN s : s[p] \in T
Lost(us, vs, T) ==
  /\ Len(vs) = Len(us)
  /\ \A i \in 1..Len(us) : \E n \in 0..Len(us[i]) : vs[i] = SubSeq(us[i], 1, n)
  /\ \A i, j \in 1..Len(us) : i < j /\ vs[i] # us[i] => ~(Has(us[i], T) /\ Has(us[j], T))

LEMMA KeptLost ==
  ASSUME NEW S, NEW T, NEW us \in Seq(Seq(S)), NEW vs \in Seq(Seq(S)), Lost(us, vs, T)
  PROVE  Begins(Kept(FlattenSeq(vs), T), Kept(FlattenSeq(us), T))
<1> DEFINE ss == [i \in DOMAIN us |-> Kept(us[i], T)]
           tt == [i \in DOMAIN vs |-> Kept(vs[i], T)]
           R == Seq(S)
<1>1. /\ ss \in Seq(Seq(S)) /\ tt \in Seq(Seq(S))
      /\ Kept(FlattenSeq(us), T) = FlattenSeq(ss)
      /\ Kept(FlattenSeq(vs), T) = FlattenSeq(tt)
  BY KeptFlatten
<1>2. us \in Seq(R) /\ vs \in Seq(R)
  OBVIOUS
<1> HIDE DEF R
<1> DEFINE n == Len(us)
<1>3. n \in Nat /\ DOMAIN us = 1..n /\ DOMAIN vs = 1..n
  BY <1>2 DEF Lost
<1>4. ss \in Seq(R) /\ tt \in Seq(R)
  BY <1>1 DEF R
<1>5. DOMAIN ss = 1..n /\ DOMAIN tt = 1..n /\ \A i \in 1..n : ss[i] = Kept(us[i], T) /\ tt[i] = Kept(vs[i], T)
  BY <1>3
<1> HIDE DEF ss, tt
<1>6. Len(ss) = n /\ Len(tt) = n
  <2> HIDE DEF n
  <2>. QED  BY <1>3, <1>4, <1>5
<1>7. \A i \in 1..n : us[i] \in Seq(S) /\ vs[i] \in Seq(S)
  BY <1>2, <1>3 DEF R
<1>8. \A i \in 1..n : Begins(tt[i], ss[i])
  <2> TAKE i \in 1..n
  <2>1. PICK m \in 0..Len(us[i]) : vs[i] = SubSeq(us[i], 1, m)
    BY DEF Lost
  <2>2. us[i] \in Seq(S)
    BY <1>7
  <2>3. Begins(Kept(SubSeq(us[i], 1, m), T), Kept(us[i], T))
    BY <2>2, KeptBegins
  <2>. QED  BY <1>5, <2>1, <2>3
<1>9. ASSUME NEW i \in 1..n, NEW j \in 1..n, i < j, tt[i] # ss[i]
      PROVE  tt[j] = << >>
  <2>1. vs[i] # us[i]
    BY <1>5, <1>9
  <2>2. Has(us[i], T)
    <3>1. CASE ~Has(us[i], T)
      <4>1. ss[i] = << >>
        BY <1>5, <1>7, <3>1, KeptNone DEF Has
      <4>2. tt[i] \in Seq(S) /\ Len(tt[i]) <= 0
        BY <1>5, <1>7, <1>8, <4>1, KeptType DEF Begins
      <4>. QED  BY <1>9, <4>1, <4>2
    <3>. QED  BY <3>1
  <2>3. ~Has(us[j], T)
    BY <1>9, <2>1, <2>2 DEF Lost
  <2>4. ss[j] = << >>
    BY <1>5, <1>7, <2>3, KeptNone DEF Has
  <2>5. tt[j] \in Seq(S) /\ Len(tt[j]) <= 0
    BY <1>5, <1>7, <1>8, <2>4, KeptType DEF Begins
  <2>. QED  BY <2>5
<1>10. CutOff(ss, tt)
  BY <1>6, <1>8, <1>9 DEF CutOff
<1>11. Begins(FlattenSeq(tt), FlattenSeq(ss))
  BY <1>1, <1>10, FlattenCut DEF ss, tt
<1>. QED  BY <1>1, <1>11 DEF ss, tt

LEMMA OneAndOne ==
  ASSUME NEW S, NEW a \in Seq(S), NEW b \in Seq(S), NEW c \in Seq(S),
         Len(a) = 1, Len(b) = 1, Len(c) = 2, c[1] = a[1], c[2] = b[1]
  PROVE  a \o b = c
<1> DEFINE d == a \o b
<1>1. /\ d \in Seq(S) /\ Len(d) = Len(a) + Len(b)
      /\ \A i \in 1..(Len(a) + Len(b)) : d[i] = IF i <= Len(a) THEN a[i] ELSE b[i - Len(a)]
  BY ConcatProperties
<1> HIDE DEF d
<1>2. Len(d) = Len(c) /\ \A i \in 1..Len(d) : d[i] = c[i]
  BY <1>1
<1>3. d = c
  BY <1>1, <1>2, SeqEqual
<1>. QED  BY <1>3 DEF d

(* Short sequences. *)
LEMMA Pair ==
  ASSUME NEW p, NEW q
  PROVE  /\ << >> \o <<p>> = <<p>> /\ Append(<< >>, p) = <<p>>
         /\ <<p>> \o <<q>> = <<p, q>> /\ Append(<<p>>, q) = <<p, q>>
<1> DEFINE S == {p, q}
           a == <<p>>
           b == <<q>>
           c == <<p, q>>
<1>1. p \in S /\ q \in S
  OBVIOUS
<1> HIDE DEF S
<1>2. a \in Seq(S) /\ Len(a) = 1 /\ a[1] = p
  BY <1>1
<1>3. b \in Seq(S) /\ Len(b) = 1 /\ b[1] = q
  BY <1>1
<1>4. c \in Seq(S) /\ Len(c) = 2 /\ c[1] = p /\ c[2] = q
  BY <1>1
<1>5. << >> \o a = a /\ Append(<< >>, p) = a
  BY <1>1
<1> HIDE DEF a, b, c
<1>6. a \o b = c
  BY <1>2, <1>3, <1>4, OneAndOne
<1>7. Append(a, q) = a \o <<q>>
  BY <1>1, <1>2, AppendIsConcat
<1>. QED  BY <1>5, <1>6, <1>7 DEF a, b, c
=============================================================================
