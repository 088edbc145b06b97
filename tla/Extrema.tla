------------------------------- MODULE Extrema -------------------------------
(***************************************************************************)
(* Lemmas about sets of numbers, shared by the proofs: the least element,  *)
(* which is also how they reason by induction (the least counterexample),  *)
(* and what Min and Max of the community modules pick.                     *)
(***************************************************************************)
EXTENDS Naturals, SequencesExt, SequenceTheorems, WellFoundedInduction, TLAPS

\* A set of numbers has a least element.
LEMMA LeastNumber ==
    ASSUME NEW T \in SUBSET Nat, T # {}
    PROVE  \E x \in T : \A y \in T : x <= y
<1>1. PICK x \in T : \A y \in T : <<y, x>> \notin OpToRel(<, Nat)
  BY NatLessThanWellFounded, WFMin
<1>2. \A y \in T : ~(y < x)
  BY <1>1 DEF OpToRel
<1> QED BY <1>2

\* Min picks it.
LEMMA MinIsLeast ==
    ASSUME NEW T \in SUBSET Nat, T # {}
    PROVE  Min(T) \in T /\ \A y \in T : Min(T) <= y
BY LeastNumber DEF Min

\* A bound of all values but the last gives a bound of all.
LEMMA BoundStep ==
    ASSUME NEW m \in Nat, m # 0, NEW f \in [1..m -> Nat],
           NEW b \in Nat, \A i \in 1..(m - 1) : f[i] <= b
    PROVE  \E c \in Nat : \A i \in 1..m : f[i] <= c
<1>1. m \in 1..m /\ f[m] \in Nat
  OBVIOUS
<1>2. ASSUME NEW i \in 1..m PROVE f[i] <= b + f[m]
  <2>1. f[i] \in Nat
    OBVIOUS
  <2>2. CASE i = m
    BY <1>1, <2>2
  <2>3. CASE i # m
    <3>1. i \in 1..(m - 1)
      BY <2>3
    <3> QED BY <3>1, <2>1, <1>1
  <2> QED BY <2>2, <2>3
<1>3. b + f[m] \in Nat
  BY <1>1
<1> QED BY <1>2, <1>3

\* Finitely many numbers have an upper bound.
LEMMA FiniteBound ==
    ASSUME NEW n \in Nat, NEW s \in [1..n -> Nat]
    PROVE  \E b \in Nat : \A i \in 1..n : s[i] <= b
<1> DEFINE Bounded(k) ==
        \A f \in [1..k -> Nat] : \E b \in Nat : \A i \in 1..k : f[i] <= b
           T == {k \in Nat : ~Bounded(k)}
<1>1. ASSUME T # {} PROVE FALSE
  <2>1. T \in SUBSET Nat
    OBVIOUS
  <2>2. \E x \in T : \A k \in T : x <= k
    <3> HIDE DEF T
    <3> QED BY <1>1, <2>1, LeastNumber
  <2>3. PICK m \in Nat : ~Bounded(m) /\ \A k \in T : m <= k
    BY <2>2
  <2> HIDE DEF T
  <2>4. PICK f \in [1..m -> Nat] : ~\E b \in Nat : \A i \in 1..m : f[i] <= b
    BY <2>3
  <2>5. m # 0
    <3>1. ASSUME m = 0 PROVE \A i \in 1..m : f[i] <= 0
      BY <3>1
    <3> QED BY <2>4, <3>1
  <2>6. m - 1 \in Nat /\ ~(m <= m - 1)
    BY <2>5
  <2>7. Bounded(m - 1)
    <3> HIDE DEF Bounded
    <3>1. m - 1 \notin T
      BY <2>3, <2>6
    <3> QED BY <3>1, <2>6 DEF T
  <2>8. \A i \in 1..(m - 1) : i \in 1..m
    OBVIOUS
  <2>9. [i \in 1..(m - 1) |-> f[i]] \in [1..(m - 1) -> Nat]
    BY <2>8
  <2>10. PICK b \in Nat : \A i \in 1..(m - 1) : [j \in 1..(m - 1) |-> f[j]][i] <= b
    BY <2>7, <2>9
  <2>11. \A i \in 1..(m - 1) : f[i] <= b
    BY <2>10
  <2> QED BY <2>4, <2>5, <2>11, BoundStep
<1>2. Bounded(n)
  <2> HIDE DEF Bounded
  <2> QED BY <1>1
<1> QED BY <1>2

\* Max picks the greatest element of a bounded set.
LEMMA MaxIsGreatest ==
    ASSUME NEW T \in SUBSET Nat, T # {}, NEW b \in Nat, \A x \in T : x <= b
    PROVE  Max(T) \in T /\ \A y \in T : Max(T) >= y
<1> DEFINE U == {u \in Nat : \A x \in T : x <= u}
<1>1. PICK u \in U : \A v \in U : u <= v
  BY LeastNumber
<1>2. u \in T
  <2>1. SUFFICES ASSUME u \notin T PROVE FALSE
    OBVIOUS
  <2>2. \A x \in T : x < u
    BY <2>1, <1>1
  <2>3. u # 0 /\ u - 1 \in Nat
    <3>1. PICK x \in T : x \in Nat /\ x < u
      BY <2>2
    <3>2. u \in Nat
      BY <1>1
    <3> QED BY <3>1, <3>2
  <2>4. \A x \in T : x <= u - 1
    BY <2>2, <2>3, <1>1
  <2>5. u <= u - 1
    BY <2>3, <2>4, <1>1
  <2> QED BY <2>5, <1>1
<1>3. \A y \in T : u >= y
  BY <1>1
<1> QED BY <1>2, <1>3 DEF Max

=============================================================================
