---------------------------- MODULE OrderTheorems ----------------------------
(***************************************************************************)
(* The places of a strict total order on a finite set.  Sorting is defined *)
(* by them wherever a result is sorted: the element at place n is the one  *)
(* with n - 1 elements before it (PollingWorker, EmailListing).            *)
(***************************************************************************)
EXTENDS Integers, Functions, FiniteSetTheorems, TLAPS

Below(S, R, x) == {k \in S : <<k, x>> \in R}

\* The further up, the more elements are below.
LEMMA PlacesAscend ==
  ASSUME NEW S, IsFiniteSet(S), NEW R,
         \A x \in S : <<x, x>> \notin R,
         \A x, y, z \in S : <<x, y>> \in R /\ <<y, z>> \in R => <<x, z>> \in R,
         NEW x \in S, NEW y \in S, <<x, y>> \in R
  PROVE  Cardinality(Below(S, R, x)) < Cardinality(Below(S, R, y))
<1>1. /\ IsFiniteSet(Below(S, R, x)) /\ Cardinality(Below(S, R, x)) \in Nat
      /\ IsFiniteSet(Below(S, R, y)) /\ Cardinality(Below(S, R, y)) \in Nat
  BY FS_Subset, FS_CardinalityType DEF Below
<1>2. Below(S, R, x) \in SUBSET Below(S, R, y) /\ x \in Below(S, R, y) /\ x \notin Below(S, R, x)
  BY DEF Below
<1>3. /\ Cardinality(Below(S, R, x)) <= Cardinality(Below(S, R, y))
      /\ Cardinality(Below(S, R, x)) # Cardinality(Below(S, R, y))
  BY <1>1, <1>2, FS_Subset
<1> QED BY <1>1, <1>3

\* The number of elements below an element numbers a finite set without gaps.
LEMMA Places ==
  ASSUME NEW S, IsFiniteSet(S), NEW R,
         \A x \in S : <<x, x>> \notin R,
         \A x, y, z \in S : <<x, y>> \in R /\ <<y, z>> \in R => <<x, z>> \in R,
         \A x, y \in S : x = y \/ <<x, y>> \in R \/ <<y, x>> \in R
  PROVE  /\ Cardinality(S) \in Nat
         /\ \A x \in S : Cardinality(Below(S, R, x)) + 1 \in 1..Cardinality(S)
         /\ \A x, y \in S :
              Cardinality(Below(S, R, x)) = Cardinality(Below(S, R, y)) => x = y
         /\ \A n \in 1..Cardinality(S) :
              \E x \in S : Cardinality(Below(S, R, x)) + 1 = n
<1> DEFINE place == [x \in S |-> Cardinality(Below(S, R, x)) + 1]
<1>1. Cardinality(S) \in Nat
  BY FS_CardinalityType
<1>2. \A x \in S : IsFiniteSet(Below(S, R, x)) /\ Cardinality(Below(S, R, x)) \in Nat
  BY FS_Subset, FS_CardinalityType DEF Below
<1>3. ASSUME NEW x \in S
      PROVE  Cardinality(Below(S, R, x)) < Cardinality(S)
  <2>1. x \notin Below(S, R, x) /\ Below(S, R, x) \in SUBSET S
    BY DEF Below
  <2>2. Cardinality(Below(S, R, x)) <= Cardinality(S) /\ Cardinality(Below(S, R, x)) # Cardinality(S)
    BY <2>1, FS_Subset
  <2> QED BY <1>1, <1>2, <2>2
<1>4. ASSUME NEW x \in S, NEW y \in S, <<x, y>> \in R
      PROVE  Cardinality(Below(S, R, x)) < Cardinality(Below(S, R, y))
  BY <1>4, PlacesAscend
<1>5. ASSUME NEW x \in S, NEW y \in S, Cardinality(Below(S, R, x)) = Cardinality(Below(S, R, y))
      PROVE  x = y
  <2>1. x = y \/ <<x, y>> \in R \/ <<y, x>> \in R
    OBVIOUS
  <2>2. ~(Cardinality(Below(S, R, x)) < Cardinality(Below(S, R, y))) /\ ~(Cardinality(Below(S, R, y)) < Cardinality(Below(S, R, x)))
    BY <1>2, <1>5
  <2> QED BY <1>4, <2>1, <2>2
<1>6. \A n \in 1..Cardinality(S) : \E x \in S : Cardinality(Below(S, R, x)) + 1 = n
  <2>1. \A x \in S : place[x] \in 1..Cardinality(S)
    BY <1>1, <1>2, <1>3
  <2>2. \A x, y \in S : place[x] = place[y] => x = y
    BY <1>2, <1>5
  <2>3. place \in Injection(S, 1..Cardinality(S))
    BY <2>1, <2>2 DEF Injection, IsInjective
  <2>4. IsFiniteSet(1..Cardinality(S)) /\ Cardinality(1..Cardinality(S)) = Cardinality(S)
    BY <1>1, FS_Interval
  <2>5. place \in Surjection(S, 1..Cardinality(S))
    BY <2>3, <2>4, FS_Injection
  <2>6. \A n \in 1..Cardinality(S) : \E x \in S : place[x] = n
    BY <2>5 DEF Surjection
  <2> QED BY <2>6
<1>7. \A x \in S : Cardinality(Below(S, R, x)) + 1 \in 1..Cardinality(S)
  BY <1>1, <1>2, <1>3
<1> QED BY <1>1, <1>5, <1>6, <1>7

\* The same with names for what is assumed and what follows.
StrictOrder(S, R) ==
  /\ \A x \in S : <<x, x>> \notin R
  /\ \A x, y, z \in S : <<x, y>> \in R /\ <<y, z>> \in R => <<x, z>> \in R
  /\ \A x, y \in S : x = y \/ <<x, y>> \in R \/ <<y, x>> \in R

Numbered(S, R) ==
  /\ Cardinality(S) \in Nat
  /\ \A x \in S : Cardinality(Below(S, R, x)) + 1 \in 1..Cardinality(S)
  /\ \A x, y \in S : Cardinality(Below(S, R, x)) = Cardinality(Below(S, R, y)) => x = y
  /\ \A n \in 1..Cardinality(S) : \E x \in S : Cardinality(Below(S, R, x)) + 1 = n

LEMMA OrderNumbers ==
  ASSUME NEW S, IsFiniteSet(S), NEW R, StrictOrder(S, R)
  PROVE  Numbered(S, R)
BY Places DEF StrictOrder, Numbered
=============================================================================
