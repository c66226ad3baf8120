---------------------------- MODULE NumberFacts -----------------------------
(***************************************************************************)
(* Facts about numbers that the proofs about several components need.      *)
(***************************************************************************)
EXTENDS Integers, WellFoundedInduction, TLAPS

(* Every non-empty set of natural numbers has a least one. *)
LEMMA LeastNatural ==
    ASSUME NEW T, T \subseteq Nat, T # {}
    PROVE  \E n \in T : \A m \in T : n <= m
<1>1. PICK n \in T : \A m \in T : ~(<<m, n>> \in OpToRel(<, Nat))
  BY NatLessThanWellFounded, WFMin
<1>2. \A m \in T : ~(m < n)
  BY <1>1 DEF OpToRel
<1> QED
  BY <1>2

(* A non-empty set of numbers up to L has a greatest one. *)
LEMMA Greatest ==
    ASSUME NEW L \in Nat, NEW T, T \subseteq 1 .. L, T # {}
    PROVE  \E n \in T : \A m \in T : n >= m
<1> DEFINE D == {d \in Nat : L - d \in T}
<1>1. D \subseteq Nat /\ D # {}
  <2>1. PICK t \in T : TRUE
    OBVIOUS
  <2>2. L - t \in D
    BY <2>1
  <2> QED
    BY <2>2
<1>2. PICK d \in D : \A m \in D : ~(<<m, d>> \in OpToRel(<, Nat))
  BY <1>1, NatLessThanWellFounded, WFMin
<1>3. \A m \in D : ~(m < d)
  BY <1>1, <1>2 DEF OpToRel
<1>4. \A m \in T : L - d >= m
  <2> TAKE m \in T
  <2>1. L - m \in D
    OBVIOUS
  <2> QED
    BY <1>3, <2>1, SMTT(30)
<1> QED
  BY <1>4

(* The quotient and the rest of a natural number. *)
LEMMA DivisionIs ==
    ASSUME NEW d \in Nat \ {0}, NEW x \in Nat
    PROVE  x \div d \in Nat /\ x % d \in 0 .. d - 1 /\ x = (x \div d) * d + (x % d)
<1>1. x \div d \in Int /\ x % d \in 0 .. d - 1
  OBVIOUS
<1>2. x = d * (x \div d) + (x % d)
  OBVIOUS
<1>3. ASSUME NEW e \in Int, e <= -1 PROVE d * e <= -d
  BY <1>3
<1> QED
  BY <1>1, <1>2, <1>3

(* A number is a multiple of d and a rest below d in one way only. *)
LEMMA DivisionUnique ==
    ASSUME NEW d \in Nat \ {0}, NEW q \in Int, NEW k \in 0 .. d - 1
    PROVE  (q * d + k) % d = k
<1> DEFINE x == q * d + k
           e == x \div d
           m == x % d
<1>1. x \in Int /\ e \in Int /\ m \in 0 .. d - 1 /\ x = d * e + m
  OBVIOUS
<1> HIDE DEF e, m
<1>2. ASSUME NEW y \in Int, y >= 1 PROVE y * d >= d
  BY <1>2
<1>3. CASE q - e >= 1
  BY <1>1, <1>3, <1>2
<1>4. CASE e - q >= 1
  BY <1>1, <1>4, <1>2
<1>5. CASE q = e
  BY <1>1, <1>5
<1> QED
  BY <1>1, <1>3, <1>4, <1>5 DEF m
=============================================================================
