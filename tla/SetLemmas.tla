----------------------------- MODULE SetLemmas -----------------------------
(* Facts about sets of numbers and finite sets that several proofs share. *)
EXTENDS Integers, FiniteSetTheorems, WellFoundedInduction, TLAPS

(* A non-empty set of natural numbers has a least element. *)
LEMMA MinNat ==
  ASSUME NEW S \in SUBSET Nat, S # {}
  PROVE  \E n \in S : \A k \in S : n <= k
<1>1. PICK n \in S : \A k \in S : ~(<<k, n>> \in OpToRel(<, Nat))
  BY NatLessThanWellFounded, WFMin
<1>2. ASSUME NEW k \in S, k < n
      PROVE  FALSE
  <2>1. <<k, n>> \in Nat \X Nat
    OBVIOUS
  <2>2. <<k, n>>[1] < <<k, n>>[2]
    BY <1>2
  <2>3. <<k, n>> \in OpToRel(<, Nat)
    BY <2>1, <2>2 DEF OpToRel
  <2>. QED
    BY <1>1, <2>3
<1>3. \A k \in S : n <= k
  BY <1>2
<1>. QED
  BY <1>3

(* A finite non-empty set of integers has a greatest element.  Induction   *)
(* on its cardinality, by way of a smallest counterexample.                *)
LEMMA GreatestExists ==
  ASSUME NEW S \in SUBSET Int, IsFiniteSet(S), S # {}
  PROVE  \E m \in S : \A k \in S : k <= m
<1>. DEFINE Topped(T) == \E m \in T : \A k \in T : k <= m
            Bad == {n \in Nat : \E T \in SUBSET S : /\ T # {} /\ ~Topped(T)
                                                    /\ Cardinality(T) = n}
<1>1. ASSUME Bad # {}
      PROVE  FALSE
  <2>1. PICK n \in Bad : \A k \in Bad : n <= k
    BY <1>1, MinNat
  <2>2. PICK T \in SUBSET S : T # {} /\ ~Topped(T) /\ Cardinality(T) = n
    BY <2>1
  <2>3. PICK x \in T : TRUE
    BY <2>2
  <2>. DEFINE U == T \ {x}
  <2>4. IsFiniteSet(T)
    BY FS_Subset
  <2>5. Cardinality(U) = n - 1 /\ Cardinality(U) \in Nat
    BY <2>1, <2>2, <2>3, <2>4, FS_RemoveElement, FS_CardinalityType
  <2>6. U # {}
    <3>1. x <= x
      BY <2>3
    <3>. QED
      BY <2>2, <2>3, <3>1
  <2>7. Topped(U)
    <3>1. ~(n - 1 \in Bad)
      BY <2>1
    <3>. QED
      BY <3>1, <2>5, <2>6
  <2>8. PICK m \in U : \A k \in U : k <= m
    BY <2>7
  <2>9. Topped(T)
    <3>1. m \in Int /\ x \in Int /\ \A k \in T : k \in U \/ k = x
      BY <2>8, <2>3
    <3>2. CASE x <= m
      BY <3>1, <3>2, <2>8
    <3>3. CASE ~(x <= m)
      <4>1. \A k \in T : k <= x
        BY <3>1, <3>3, <2>8
      <4>. QED
        BY <4>1, <2>3
    <3>. QED
      BY <3>2, <3>3
  <2>. QED
    BY <2>2, <2>9
<1>2. Topped(S)
  <2>1. Cardinality(S) \in Nat
    BY FS_CardinalityType
  <2>. QED
    BY <1>1, <2>1
<1>. QED
  BY <1>2

(* The image of a finite set is finite. *)
LEMMA FiniteImage ==
  ASSUME NEW S, IsFiniteSet(S), NEW f, DOMAIN f = S
  PROVE  IsFiniteSet({f[x] : x \in S})
<1>. DEFINE T == {f[x] : x \in S}
            g == [x \in S |-> f[x]]
<1>1. g \in Surjection(S, T)
  BY DEF Surjection
<1>. QED
  BY <1>1, FS_Surjection
=============================================================================
