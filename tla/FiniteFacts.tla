---------------------------- MODULE FiniteFacts ----------------------------
(* Facts about naturals and finite sets that the proofs of several modules use. *)
EXTENDS Integers, FiniteSetTheorems, FunctionTheorems, WellFoundedInduction, TLAPS

\* A nonempty set of naturals has a least element: the intervals 0..n with n in
\* the set are finite, and strict inclusion of finite sets is well founded.
LEMMA LeastNatural ==
    ASSUME NEW T \in SUBSET Nat, T # {}
    PROVE  \E m \in T : \A n \in T : m <= n
<1> DEFINE Below == {0 .. n : n \in T}
<1>1. Below \subseteq FiniteSubsetsOf(Nat) /\ Below # {}
  <2>1. ASSUME NEW n \in T PROVE 0 .. n \in FiniteSubsetsOf(Nat)
    <3>1. n \in Int /\ 0 .. n \subseteq Nat
      OBVIOUS
    <3>2. IsFiniteSet(0 .. n)
      BY <3>1, FS_Interval
    <3> QED
      BY <3>1, <3>2 DEF FiniteSubsetsOf
  <2> QED
    BY <2>1
<1>2. PICK B \in Below : \A C \in Below : <<C, B>> \notin StrictSubsetOrdering(Nat)
  BY <1>1, FS_StrictSubsetOrderingWellFounded, WFMin
<1>3. PICK m \in T : B = 0 .. m
  OBVIOUS
<1>4. ASSUME NEW n \in T, n < m PROVE FALSE
  <2>1. <<0 .. n, 0 .. m>> \in StrictSubsetOrdering(Nat)
    <3>1. 0 .. n \subseteq 0 .. m /\ 0 .. m \subseteq Nat
      BY <1>4
    <3>2. m \in 0 .. m /\ m \notin 0 .. n
      BY <1>4
    <3> QED
      BY <3>1, <3>2 DEF StrictSubsetOrdering
  <2> QED
    BY <2>1, <1>2, <1>3
<1> QED
  BY <1>4

\* The image of a finite set is finite and has at most as many elements, and as
\* many only if no two elements have the same image.
LEMMA ImageOfFinite ==
    ASSUME NEW f, IsFiniteSet(DOMAIN f), f = [x \in DOMAIN f |-> f[x]]
    PROVE  LET image == {f[x] : x \in DOMAIN f} IN
           /\ IsFiniteSet(image)
           /\ Cardinality(image) <= Cardinality(DOMAIN f)
           /\ Cardinality(image) = Cardinality(DOMAIN f) <=>
                 \A x, y \in DOMAIN f : f[x] = f[y] => x = y
<1> DEFINE image == {f[x] : x \in DOMAIN f}
<1>1. f \in Surjection(DOMAIN f, image)
  BY DEF Surjection
<1>2. f \in Injection(DOMAIN f, image) <=> \A x, y \in DOMAIN f : f[x] = f[y] => x = y
  BY DEF Injection, IsInjective
<1> QED
  BY <1>1, <1>2, FS_Surjection

\* A set with two different elements has more than one.
LEMMA AtMostOne ==
    ASSUME NEW S, IsFiniteSet(S), Cardinality(S) <= 1, NEW x \in S, NEW y \in S
    PROVE  x = y
<1>1. CASE Cardinality(S) = 1
  BY <1>1, FS_Singleton
<1>2. CASE Cardinality(S) # 1
  <2>1. Cardinality(S) = 0
    BY <1>2, FS_CardinalityType
  <2> QED
    BY <2>1, FS_EmptySet
<1> QED
  BY <1>1, <1>2

=============================================================================
