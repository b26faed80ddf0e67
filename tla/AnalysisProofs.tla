--------------------------- MODULE AnalysisProofs ---------------------------
(***************************************************************************)
(* Theorems of MessageAnalysis, for every number of threads, chunks and    *)
(* attempts, every limit on a sample and every way to cut the groups.      *)
(*                                                                         *)
(* First what the operators do: rounding spreads the positions of a sample *)
(* evenly, a sample keeps to its limit, and the groups hold what they are  *)
(* made from, each digest once.  Then the client, whose permits count the  *)
(* requests under way, and the invariant: what is pending and what is made *)
(* are together the sample, each chunk once, and a part that is behind a   *)
(* thread has left its notice.                                             *)
(***************************************************************************)
EXTENDS MessageAnalysis, OrderTheorems, SequenceTheorems

-----------------------------------------------------------------------------
(* Even samples: arithmetic. *)

\* Division with remainder.
LEMMA Quotient ==
  ASSUME NEW n \in Nat, NEW d \in Nat \ {0}
  PROVE  /\ n \div d \in Nat /\ n % d \in 0..d - 1
         /\ n = d * (n \div d) + (n % d)
<1>1. n \div d \in Int /\ n % d \in Int /\ 0 <= n % d /\ n % d < d /\ n = d * (n \div d) + (n % d)
  OBVIOUS
<1>2. n \div d >= 0
  BY <1>1
<1> QED BY <1>1, <1>2

\* Twice the error of rounding is no more than the divisor, and none if it divides.
LEMMA Rounding ==
  ASSUME NEW n \in Nat, NEW d \in Nat \ {0}
  PROVE  /\ Round(n, d) \in Nat
         /\ 2 * (d * Round(n, d)) <= 2 * n + d /\ 2 * n <= 2 * (d * Round(n, d)) + d
         /\ \A q \in Nat : n = d * q => Round(n, d) = q
<1> DEFINE q == n \div d
           r == n % d
<1>1. q \in Nat /\ r \in Nat /\ r < d /\ n = d * q + r
  BY Quotient
<1>2. d * (q + 1) = d * q + d /\ d * q \in Nat
  BY <1>1
<1>3. \/ Round(n, d) = q /\ 2 * r <= d
      \/ Round(n, d) = q + 1 /\ 2 * r >= d
  BY <1>1 DEF Round
<1>4. ASSUME NEW k \in Nat, n = d * k
      PROVE  Round(n, d) = k
  <2>1. k = q /\ r = 0
    <3>1. d * (k - q) = r
      BY <1>1, <1>4
    <3>2. k - q < 1
      <4>1. SUFFICES ASSUME k - q >= 1 PROVE FALSE
        BY <1>1
      <4>2. d * (k - q) >= d
        BY <1>1, <4>1
      <4> QED BY <3>1, <4>2, <1>1
    <3>3. k - q > -1
      <4>1. SUFFICES ASSUME k - q <= -1 PROVE FALSE
        BY <1>1
      <4>2. d * (k - q) <= -d
        BY <1>1, <4>1
      <4> QED BY <3>1, <4>2, <1>1
    <3>4. k = q
      BY <1>1, <3>2, <3>3
    <3> QED BY <3>1, <3>4, <1>1
  <2> QED BY <1>1, <1>3, <2>1
<1> HIDE DEF q, r
<1>5. Round(n, d) \in Nat
  BY <1>1, <1>3
<1>6. /\ 2 * (d * Round(n, d)) <= 2 * n + d
      /\ 2 * n <= 2 * (d * Round(n, d)) + d
  <2>1. CASE Round(n, d) = q /\ 2 * r <= d
    BY <1>1, <1>2, <2>1
  <2>2. CASE Round(n, d) = q + 1 /\ 2 * r >= d
    BY <1>1, <1>2, <2>2
  <2> QED BY <1>3, <2>1, <2>2
<1> QED BY <1>4, <1>5, <1>6

\* The places a sample of more than one is taken from, in a text that is longer.
LEMMA PositionsSpread ==
  ASSUME NEW total \in Nat, NEW maximum \in Nat \ {0, 1}, total > maximum
  PROVE  /\ \A i \in 0..(maximum - 1) : Position(i, total, maximum) \in 0..(total - 1)
         /\ Position(0, total, maximum) = 0
         /\ Position(maximum - 1, total, maximum) = total - 1
         /\ \A i, j \in 0..(maximum - 1) : i < j =>
              Position(i, total, maximum) < Position(j, total, maximum)
         /\ \A i \in 0..(maximum - 2) :
              LET gap == Position(i + 1, total, maximum) - Position(i, total, maximum) IN
                (gap - 1) * (maximum - 1) < total - 1 /\ (gap + 1) * (maximum - 1) > total - 1
<1> DEFINE d == maximum - 1
           t == total - 1
           P(i) == Round(i * t, d)
<1>1. d \in Nat \ {0} /\ t \in Nat /\ t > d
  OBVIOUS
<1>2. \A i \in Nat : Position(i, total, maximum) = P(i)
  BY DEF Position
<1> HIDE DEF d, t
<1>3. \A i \in Nat : i * t \in Nat
  BY <1>1
<1>4. \A i \in Nat : /\ P(i) \in Nat
                     /\ 2 * (d * P(i)) <= 2 * (i * t) + d /\ 2 * (i * t) <= 2 * (d * P(i)) + d
                     /\ \A q \in Nat : i * t = d * q => P(i) = q
  BY <1>1, <1>3, Rounding
<1> HIDE DEF P
<1>5. P(0) = 0
  <2>1. 0 * t = d * 0
    BY <1>1
  <2> QED BY <2>1, <1>4
<1>6. P(d) = t
  <2>1. d * t = d * t /\ d \in Nat /\ t \in Nat
    BY <1>1
  <2> QED BY <2>1, <1>4
<1>7. ASSUME NEW i \in Nat, NEW j \in Nat, i < j
      PROVE  P(i) < P(j)
  <2>1. j * t >= i * t + t
    <3>1. (j - i) * t >= t
      BY <1>1, <1>7
    <3>2. (j - i) * t = j * t - i * t
      BY <1>1
    <3> QED BY <3>1, <3>2, <1>1, <1>3
  <2>2. /\ P(i) \in Nat /\ P(j) \in Nat
        /\ 2 * (d * P(i)) <= 2 * (i * t) + d /\ 2 * (j * t) <= 2 * (d * P(j)) + d
    BY <1>4
  <2> DEFINE k == P(i)
             l == P(j)
  <2> HIDE DEF k, l
  <2>3. k \in Nat /\ l \in Nat /\ d * k \in Nat /\ d * l \in Nat
    BY <1>1, <2>2 DEF k, l
  <2>4. 2 * (d * k) <= 2 * (i * t) + d /\ 2 * (j * t) <= 2 * (d * l) + d
    BY <2>2 DEF k, l
  <2>5. d * l > d * k
    BY <2>1, <2>3, <2>4, <1>1, <1>3
  <2>6. SUFFICES ASSUME l <= k PROVE FALSE
    BY <2>3 DEF k, l
  <2>7. d * (k - l) >= 0
    BY <2>3, <2>6, <1>1
  <2>8. d * (k - l) = d * k - d * l
    BY <2>3, <1>1
  <2> QED BY <2>3, <2>5, <2>7, <2>8
<1>8. ASSUME NEW i \in Nat, i <= d
      PROVE  P(i) <= t
  <2>1. CASE i = d
    BY <2>1, <1>1, <1>6
  <2>2. CASE i < d
    <3>1. P(i) < P(d)
      BY <2>2, <1>1, <1>7
    <3>2. P(i) \in Nat
      BY <1>4
    <3> QED BY <3>1, <3>2, <1>1, <1>6
  <2> QED BY <2>1, <2>2, <1>1, <1>8
<1>9. ASSUME NEW i \in Nat
      PROVE  /\ (P(i + 1) - P(i) - 1) * d < t
             /\ (P(i + 1) - P(i) + 1) * d > t
  <2> DEFINE g == P(i + 1) - P(i)
             a == d * P(i)
             b == d * P(i + 1)
             n == i * t
  <2>0. P(i) \in Nat /\ i + 1 \in Nat /\ P(i + 1) \in Nat
    BY <1>4
  <2>1. g \in Int /\ a \in Nat /\ b \in Nat /\ n \in Nat
    <3> DEFINE k == P(i)
               l == P(i + 1)
    <3> HIDE DEF k, l
    <3>1. k \in Nat /\ l \in Nat
      BY <2>0 DEF k, l
    <3>2. l - k \in Int /\ d * k \in Nat /\ d * l \in Nat
      BY <3>1, <1>1
    <3> QED BY <3>2, <1>3 DEF k, l
  <2>2. (i + 1) * t = n + t
    BY <1>1
  <2>3. d * g = b - a
    BY <1>1, <1>4
  <2>4. (g - 1) * d = d * g - d /\ (g + 1) * d = d * g + d
    BY <1>1, <2>1
  <2>5. /\ 2 * a <= 2 * n + d /\ 2 * n <= 2 * a + d
        /\ 2 * b <= 2 * (n + t) + d /\ 2 * (n + t) <= 2 * b + d
    BY <1>4, <2>2
  <2>6. \A k \in Nat : t = d * k => g = k
    <3> SUFFICES ASSUME NEW k \in Nat, t = d * k PROVE g = k
      OBVIOUS
    <3>1. n = d * (i * k) /\ i * k \in Nat
      BY <1>1
    <3>2. n + t = d * (i * k + k) /\ i * k + k \in Nat
      BY <3>1, <1>1
    <3>3. P(i) = i * k /\ P(i + 1) = i * k + k
      BY <1>4, <2>2, <3>1, <3>2
    <3> QED BY <3>1, <3>3
  <2> HIDE DEF g, a, b, n
  <2>7. d * g <= t + d /\ d * g >= t - d
    BY <1>1, <2>1, <2>3, <2>5
  <2>8. (g - 1) * d # t
    <3>1. SUFFICES ASSUME (g - 1) * d = t PROVE FALSE
      OBVIOUS
    <3>2. g - 1 > 0
      <4>1. SUFFICES ASSUME g - 1 <= 0 PROVE FALSE
        BY <2>1
      <4>2. (g - 1) * d <= 0
        BY <4>1, <1>1, <2>1
      <4> QED BY <4>2, <3>1, <1>1
    <3>3. g - 1 \in Nat /\ t = d * (g - 1)
      BY <3>1, <3>2, <1>1, <2>1
    <3> QED BY <3>3, <2>6, <2>1
  <2>9. (g + 1) * d # t
    <3>1. SUFFICES ASSUME (g + 1) * d = t PROVE FALSE
      OBVIOUS
    <3>2. g + 1 > 0
      <4>1. SUFFICES ASSUME g + 1 <= 0 PROVE FALSE
        BY <2>1
      <4>2. (g + 1) * d <= 0
        BY <4>1, <1>1, <2>1
      <4> QED BY <4>2, <3>1, <1>1
    <3>3. g + 1 \in Nat /\ t = d * (g + 1)
      BY <3>1, <3>2, <1>1, <2>1
    <3> QED BY <3>3, <2>6, <2>1
  <2>10. d * g \in Int /\ (g - 1) * d < t /\ (g + 1) * d > t
    BY <1>1, <2>1, <2>4, <2>7, <2>8, <2>9
  <2> QED BY <2>10 DEF g
<1>10. /\ \A i \in 0..d : Position(i, total, maximum) = P(i)
       /\ \A i \in 0..(maximum - 2) : i \in Nat /\ i \in 0..d /\ i + 1 \in 0..d
       /\ d = maximum - 1 /\ t = total - 1 /\ 0 \in 0..d /\ d \in 0..d
  BY <1>1, <1>2 DEF d, t
<1>11. \A i \in 0..d : P(i) \in 0..t
  BY <1>1, <1>4, <1>8
<1> QED BY <1>5, <1>6, <1>7, <1>9, <1>10, <1>11

\* What is not longer than the limit is read as a whole.
LEMMA WholeTextIsEven ==
  ASSUME NEW total \in Nat \ {0}, NEW maximum \in Nat \ {0, 1}, total <= maximum
  PROVE  IsEven(total, maximum)
<1> DEFINE S == Select(total, maximum)
<1>1. S = 0..(total - 1)
  BY DEF Select
<1>2. Cardinality(S) = total
  BY <1>1, FS_Interval
<1>3. ASSUME NEW i \in S \ {total - 1}
      PROVE  \E j \in S : /\ i < j /\ \A k \in S : ~(i < k /\ k < j)
                          /\ (j - i - 1) * (maximum - 1) < total - 1
                          /\ total > maximum => (j - i + 1) * (maximum - 1) > total - 1
  <2>1. i + 1 \in S /\ i \in Nat /\ total > 1
    BY <1>1, <1>3
  <2>2. ((i + 1) - i - 1) * (maximum - 1) = 0
    BY <2>1
  <2>3. \A k \in S : ~(i < k /\ k < i + 1)
    BY <1>1, <2>1
  <2> QED BY <2>1, <2>2, <2>3
<1>4. S \subseteq 0..(total - 1) /\ {0, total - 1} \subseteq S
  BY <1>1
<1>5. Cardinality(S) = IF total < maximum THEN total ELSE maximum
  BY <1>2
<1> QED BY <1>3, <1>4, <1>5 DEF IsEven

\* Of a longer one as much is read as the limit allows, evenly.
LEMMA SampledTextIsEven ==
  ASSUME NEW total \in Nat, NEW maximum \in Nat \ {0, 1}, total > maximum
  PROVE  IsEven(total, maximum)
<1> DEFINE S == Select(total, maximum)
           I == 0..(maximum - 1)
           P == [i \in I |-> Position(i, total, maximum)]
<1>1. S = {P[i] : i \in I}
  BY DEF Select
<1>2. /\ \A i \in I : P[i] \in 0..(total - 1)
      /\ P[0] = 0 /\ P[maximum - 1] = total - 1 /\ 0 \in I /\ maximum - 1 \in I
      /\ \A i, j \in I : i < j => P[i] < P[j]
  <2>1. 0 \in I /\ maximum - 1 \in I /\ \A i \in I : P[i] = Position(i, total, maximum)
    OBVIOUS
  <2> HIDE DEF P
  <2> QED BY <2>1, PositionsSpread
<1>3. \A i \in 0..(maximum - 2) :
        /\ i \in I /\ i + 1 \in I
        /\ (P[i + 1] - P[i] - 1) * (maximum - 1) < total - 1
        /\ (P[i + 1] - P[i] + 1) * (maximum - 1) > total - 1
  <2> SUFFICES ASSUME NEW i \in 0..(maximum - 2)
               PROVE  /\ i \in I /\ i + 1 \in I
                      /\ (P[i + 1] - P[i] - 1) * (maximum - 1) < total - 1
                      /\ (P[i + 1] - P[i] + 1) * (maximum - 1) > total - 1
    OBVIOUS
  <2>1. i \in I /\ i + 1 \in I
    OBVIOUS
  <2>2. P[i] = Position(i, total, maximum) /\ P[i + 1] = Position(i + 1, total, maximum)
    BY <2>1
  <2> HIDE DEF P
  <2> QED BY <2>1, <2>2, PositionsSpread
<1> HIDE DEF P
<1>4. Cardinality(S) = maximum
  <2>1. IsFiniteSet(I) /\ Cardinality(I) = maximum
    BY FS_Interval
  <2>2. P \in [I -> S] /\ \A j \in S : \E i \in I : P[i] = j
    BY <1>1 DEF P
  <2>3. \A i, j \in I : P[i] = P[j] => i = j
    BY <1>2
  <2>4. P \in Bijection(I, S)
    BY <2>2, <2>3 DEF Bijection, Injection, Surjection, IsInjective
  <2> QED BY <2>1, <2>4, FS_Bijection DEF ExistsBijection
<1>5. ASSUME NEW p \in S \ {total - 1}
      PROVE  \E q \in S : /\ p < q /\ \A k \in S : ~(p < k /\ k < q)
                          /\ (q - p - 1) * (maximum - 1) < total - 1
                          /\ (q - p + 1) * (maximum - 1) > total - 1
  <2>1. PICK i \in I : p = P[i]
    BY <1>1
  <2>2. i \in 0..(maximum - 2)
    BY <1>2, <1>5, <2>1
  <2>3. /\ P[i + 1] \in S /\ p < P[i + 1]
        /\ (P[i + 1] - p - 1) * (maximum - 1) < total - 1
        /\ (P[i + 1] - p + 1) * (maximum - 1) > total - 1
    BY <1>1, <1>2, <1>3, <2>1, <2>2
  <2>4. ASSUME NEW k \in S PROVE ~(p < k /\ k < P[i + 1])
    <3>1. PICK j \in I : k = P[j]
      BY <1>1
    <3>2. i + 1 \in I
      BY <2>2
    <3>3. j < i \/ j = i \/ j = i + 1 \/ j > i + 1
      BY <2>2
    <3>4. /\ P[i] \in Nat /\ P[j] \in Nat /\ P[i + 1] \in Nat
          /\ j < i => P[j] < P[i]
          /\ j > i + 1 => P[j] > P[i + 1]
      BY <1>2, <3>2
    <3> QED BY <2>1, <3>1, <3>3, <3>4
  <2> QED BY <2>3, <2>4
<1>6. S \subseteq 0..(total - 1) /\ {0, total - 1} \subseteq S
  BY <1>1, <1>2
<1>7. Cardinality(S) = IF total < maximum THEN total ELSE maximum
  BY <1>4
<1> HIDE DEF S
<1>8. \A p \in S \ {total - 1} : \E q \in S :
         /\ p < q /\ \A k \in S : ~(p < k /\ k < q)
         /\ (q - p - 1) * (maximum - 1) < total - 1
         /\ total > maximum => (q - p + 1) * (maximum - 1) > total - 1
  BY <1>5
<1> QED BY <1>6, <1>7, <1>8 DEF IsEven, S

\* Whatever the length of the text and the limit, the sample is as large as the limit
\* allows, has the first and the last chunk, and its gaps differ by at most one.
THEOREM SamplesAreEven ==
  \A total \in Nat \ {0}, maximum \in Nat \ {0, 1} : IsEven(total, maximum)
BY WholeTextIsEven, SampledTextIsEven

-----------------------------------------------------------------------------
(* Chunks, their order and samples of them. *)

\* What any text may be cut into: level and number.
AllChunks == Nat \X Nat

\* The order in which chunks are read, as a relation.
ReadsIn(S) == {pair \in S \X S : Reads(pair[1], pair[2])}

\* The index is the chunk's place among the chunks.
LEMMA IndexNumbers ==
  ASSUME NEW S \in SUBSET AllChunks, IsFiniteSet(S)
  PROVE  /\ Cardinality(S) \in Nat
         /\ \A c \in S : Index(S, c) \in 0..(Cardinality(S) - 1)
         /\ \A c, d \in S : Index(S, c) = Index(S, d) => c = d
         /\ \A n \in 0..(Cardinality(S) - 1) : \E c \in S : Index(S, c) = n
<1> DEFINE R == ReadsIn(S)
<1>1. \A c, d \in S : <<c, d>> \in R <=> Reads(c, d)
  BY DEF ReadsIn
<1> HIDE DEF R
<1>2. \A c \in S : c[1] \in Nat /\ c[2] \in Nat
  BY DEF AllChunks
<1>3. \A c, d \in S : c[1] = d[1] /\ c[2] = d[2] => c = d
  BY DEF AllChunks
<1>4. /\ \A c \in S : ~Reads(c, c)
      /\ \A b, c, d \in S : Reads(b, c) /\ Reads(c, d) => Reads(b, d)
      /\ \A c, d \in S : c = d \/ Reads(c, d) \/ Reads(d, c)
  BY <1>2, <1>3 DEF Reads
<1>5. StrictOrder(S, R)
  BY <1>1, <1>4 DEF StrictOrder
<1>6. Numbered(S, R)
  BY <1>5, OrderNumbers
<1>7. \A c \in S : Below(S, R, c) = {d \in S : Reads(d, c)}
  BY <1>1 DEF Below
<1>8. \A c \in S : Index(S, c) = Cardinality(Below(S, R, c))
  BY <1>7 DEF Index
<1>9. \A c \in S : Index(S, c) \in Nat
  <2>1. \A c \in S : Below(S, R, c) \in SUBSET S
    BY DEF Below
  <2> QED BY <1>8, <2>1, FS_Subset, FS_CardinalityType
<1>10. /\ Cardinality(S) \in Nat
       /\ \A c \in S : Index(S, c) + 1 \in 1..Cardinality(S)
       /\ \A c, d \in S : Index(S, c) = Index(S, d) => c = d
       /\ \A n \in 1..Cardinality(S) : \E c \in S : Index(S, c) + 1 = n
  BY <1>6, <1>8 DEF Numbered
<1>11. \A n \in 0..(Cardinality(S) - 1) : n + 1 \in 1..Cardinality(S)
  BY <1>10
<1>12. \A n \in 0..(Cardinality(S) - 1) : \E c \in S : Index(S, c) + 1 = n + 1
  BY <1>10, <1>11
<1>13. ASSUME NEW c \in S PROVE Index(S, c) \in 0..(Cardinality(S) - 1)
  <2>1. Index(S, c) \in Nat /\ Index(S, c) + 1 \in 1..Cardinality(S) /\ Cardinality(S) \in Nat
    BY <1>9, <1>10
  <2> QED BY <2>1
<1>14. ASSUME NEW n \in 0..(Cardinality(S) - 1) PROVE \E c \in S : Index(S, c) = n
  <2>1. PICK c \in S : Index(S, c) + 1 = n + 1
    BY <1>12
  <2>2. Index(S, c) \in Nat /\ n \in Nat
    BY <1>9
  <2> QED BY <2>1, <2>2
<1> QED BY <1>10, <1>13, <1>14

\* Whatever the part, its chunks are finitely many, each of a level and a number.
LEMMA ChunksAreFinite ==
  ASSUME NEW m \in Messages, NEW p \in {"attachment", "chain", "body"}
  PROVE  Chunks(m, p) \in SUBSET AllChunks /\ IsFiniteSet(Chunks(m, p))
<1>1. m.attachment \in Nat /\ m.levels \in Seq(Nat \ {0}) /\ m.body \in Nat
  BY MessagesAssumption
<1>2. \A n \in Nat : IsFiniteSet(1..n) /\ 1..n \subseteq Nat
  BY FS_Interval
<1>3. \A l, n \in Nat : IsFiniteSet({l} \X (1..n)) /\ {l} \X (1..n) \in SUBSET AllChunks
  BY <1>2, FS_Singleton, FS_Product DEF AllChunks
<1>4. CASE p = "chain"
  <2> DEFINE D == DOMAIN m.levels
             f == [l \in D |-> {l} \X (1..m.levels[l])]
             T == {f[l] : l \in D}
  <2>1. D = 1..Len(m.levels) /\ Len(m.levels) \in Nat /\ \A l \in D : m.levels[l] \in Nat
    BY <1>1, LenProperties, ElementOfSeq
  <2>2. \A l \in D : IsFiniteSet(f[l]) /\ f[l] \in SUBSET AllChunks
    <3>1. \A l \in D : f[l] = {l} \X (1..m.levels[l])
      OBVIOUS
    <3> HIDE DEF f
    <3>2. \A l \in D : l \in Nat /\ m.levels[l] \in Nat
      BY <2>1
    <3>3. ASSUME NEW l \in D
          PROVE  IsFiniteSet(f[l]) /\ f[l] \in SUBSET AllChunks
      <4>1. f[l] = {l} \X (1..m.levels[l]) /\ l \in Nat /\ m.levels[l] \in Nat
        BY <3>1, <3>2
      <4> QED BY <1>3, <4>1
    <3> QED BY <3>3
  <2>3. Chunks(m, p) = UNION T
    BY <1>4 DEF Chunks
  <2> HIDE DEF f
  <2>4. f \in Surjection(D, T)
    <3>1. f = [l \in D |-> f[l]]
      BY DEF f
    <3> QED BY <3>1 DEF Surjection
  <2>5. IsFiniteSet(T)
    BY <2>1, <2>4, <1>2, FS_Surjection
  <2>6. \A X \in T : IsFiniteSet(X) /\ X \in SUBSET AllChunks
    BY <2>2
  <2> QED BY <2>3, <2>5, <2>6, FS_UNION
<1>5. CASE p = "attachment"
  BY <1>1, <1>3, <1>5 DEF Chunks
<1>6. CASE p = "body"
  BY <1>1, <1>3, <1>6 DEF Chunks
<1> QED BY <1>4, <1>5, <1>6

\* The indices that are read are no more than the limit.
LEMMA SelectIsSmall ==
  ASSUME NEW total \in Nat \ {0}, NEW maximum \in Nat \ {0}
  PROVE  /\ IsFiniteSet(Select(total, maximum))
         /\ Cardinality(Select(total, maximum)) <= maximum
         /\ maximum > 1 => {0, total - 1} \subseteq Select(total, maximum)
<1>1. CASE maximum # 1
  <2>1. IsEven(total, maximum)
    BY <1>1, SamplesAreEven
  <2>2. /\ Select(total, maximum) \subseteq 0..(total - 1)
        /\ {0, total - 1} \subseteq Select(total, maximum)
        /\ Cardinality(Select(total, maximum)) = IF total < maximum THEN total ELSE maximum
    BY <2>1 DEF IsEven
  <2>3. IsFiniteSet(Select(total, maximum))
    <3>1. IsFiniteSet(0..(total - 1))
      BY FS_Interval
    <3> QED BY <2>2, <3>1, FS_Subset
  <2> QED BY <2>2, <2>3
<1>2. CASE maximum = 1
  <2>1. Select(total, maximum) = {0}
    BY <1>2 DEF Select
  <2> QED BY <1>2, <2>1, FS_Singleton
<1> QED BY <1>1, <1>2

\* A sample keeps to the limit and has the first and the last chunk.
LEMMA SampleIsSmall ==
  ASSUME NEW S \in SUBSET AllChunks, IsFiniteSet(S), S # {}
  PROVE  /\ Sample(S) \in SUBSET S /\ IsFiniteSet(Sample(S))
         /\ Cardinality(Sample(S)) \in Nat /\ Cardinality(Sample(S)) <= MaxChunks
         /\ MaxChunks > 1 =>
              \A c \in S : Index(S, c) \in {0, Cardinality(S) - 1} => c \in Sample(S)
<1> DEFINE T == Select(Cardinality(S), MaxChunks)
           f == [c \in Sample(S) |-> Index(S, c)]
<1>1. Cardinality(S) \in Nat \ {0}
  BY FS_EmptySet, FS_CardinalityType
<1>2. MaxChunks \in Nat \ {0}
  BY AttemptsAssumption
<1>3. /\ IsFiniteSet(T) /\ Cardinality(T) <= MaxChunks
      /\ MaxChunks > 1 => {0, Cardinality(S) - 1} \subseteq T
  BY <1>1, <1>2, SelectIsSmall
<1>4. Sample(S) = {c \in S : Index(S, c) \in T}
  BY DEF Sample
<1> HIDE DEF T
<1>5. \A c, d \in S : Index(S, c) = Index(S, d) => c = d
  BY IndexNumbers
<1>6. f \in Injection(Sample(S), T)
  BY <1>4, <1>5 DEF Injection, IsInjective
<1>7. Cardinality(Sample(S)) <= Cardinality(T) /\ IsFiniteSet(Sample(S))
  BY <1>3, <1>6, FS_Injection
<1>8. Cardinality(Sample(S)) \in Nat /\ Cardinality(T) \in Nat
  BY <1>3, <1>7, FS_CardinalityType
<1>9. Cardinality(Sample(S)) <= MaxChunks
  BY <1>2, <1>3, <1>7, <1>8
<1> QED BY <1>3, <1>4, <1>7, <1>8, <1>9

-----------------------------------------------------------------------------
(* Digests.  A sequence of them is apart if no chunk is in two of them. *)

\* A digest is a set of chunks.
Digests == Seq(SUBSET AllChunks)

Apart(s) == \A m, n \in 1..Len(s) : m # n => s[m] \cap s[n] = {}

\* What is pending and what is made are together the chunks that were chosen, each once.
Whole(p, m, C) ==
  /\ p \in Digests /\ m \in Digests
  /\ All(p) \cup All(m) = C /\ Apart(p) /\ Apart(m) /\ All(p) \cap All(m) = {}

\* What a sequence of digests has at a place, and in all.
LEMMA DigestFields ==
  ASSUME NEW s \in Digests
  PROVE  /\ Len(s) \in Nat /\ DOMAIN s = 1..Len(s)
         /\ \A n \in 1..Len(s) : s[n] \in SUBSET AllChunks /\ s[n] \subseteq All(s)
         /\ \A c \in All(s) : \E n \in 1..Len(s) : c \in s[n]
BY LenProperties, ElementOfSeq DEF Digests, All

\* Before anything is read nothing is chosen, pending or made.
LEMMA NothingMade ==
  /\ <<>> \in Digests /\ Len(<<>>) = 0 /\ All(<<>>) = {} /\ Apart(<<>>)
<1>1. <<>> \in Digests /\ Len(<<>>) = 0
  BY EmptySeq DEF Digests
<1>2. 1..Len(<<>>) = {}
  BY <1>1
<1> QED BY <1>1, <1>2 DEF All, Apart

\* A sample that is read chunk by chunk is read once.
LEMMA InTurnIsWhole ==
  ASSUME NEW S \in SUBSET AllChunks, IsFiniteSet(S)
  PROVE  Whole(InTurn(S), <<>>, S)
<1> DEFINE s == InTurn(S)
           N == Cardinality(S)
<1>1. /\ N \in Nat
      /\ \A c \in S : Index(S, c) \in 0..(N - 1)
      /\ \A n \in 0..(N - 1) : \E c \in S : Index(S, c) = n
  BY IndexNumbers
<1>2. s = [n \in 1..N |-> {c \in S : Index(S, c) = n - 1}]
  BY DEF InTurn
<1>3. s \in Digests /\ Len(s) = N
  <2>1. \A n \in 1..N : {c \in S : Index(S, c) = n - 1} \in SUBSET AllChunks
    OBVIOUS
  <2> QED BY <1>1, <1>2, <2>1, IsASeq DEF Digests
<1>4. \A n \in 1..N : s[n] = {c \in S : Index(S, c) = n - 1}
  BY <1>2
<1> HIDE DEF s, N
<1>5. All(s) = S
  <2>1. ASSUME NEW c \in S PROVE \E n \in 1..N : c \in s[n]
    <3>1. Index(S, c) + 1 \in 1..N /\ (Index(S, c) + 1) - 1 = Index(S, c)
      BY <1>1
    <3> QED BY <1>4, <3>1
  <2>2. \A n \in 1..N : s[n] \subseteq S
    BY <1>4
  <2> QED BY <1>3, <2>1, <2>2 DEF All
<1>6. Apart(s)
  <2>1. ASSUME NEW m \in 1..N, NEW n \in 1..N, m # n
        PROVE  s[m] \cap s[n] = {}
    <3>1. m - 1 # n - 1
      BY <1>1, <2>1
    <3> QED BY <1>4, <3>1
  <2> QED BY <1>3, <2>1 DEF Apart
<1>7. Whole(s, <<>>, S)
  BY <1>3, <1>5, <1>6, NothingMade DEF Whole
<1> QED BY <1>7 DEF s

\* A digest moves from what is pending to what is made.
LEMMA DigestKeepsWhole ==
  ASSUME NEW p, NEW m, NEW C, Whole(p, m, C), p # <<>>
  PROVE  Whole(Tail(p), Append(m, Head(p)), C)
<1> DEFINE t == Tail(p)
           h == Head(p)
           a == Append(m, h)
<1>1. p \in Digests /\ m \in Digests /\ Len(p) \in Nat \ {0} /\ Len(m) \in Nat
  BY EmptySeq, LenProperties DEF Whole, Digests
<1>2. /\ t \in Digests /\ Len(t) = Len(p) - 1
      /\ \A i \in 1..Len(p) - 1 : t[i] = p[i + 1]
  BY <1>1, HeadTailProperties DEF Whole, Digests
<1>3. h = p[1] /\ h \in SUBSET AllChunks
  BY <1>1, HeadTailProperties DEF Digests
<1>4. /\ a \in Digests /\ Len(a) = Len(m) + 1
      /\ \A i \in 1..Len(m) : a[i] = m[i]
      /\ a[Len(m) + 1] = h
  BY <1>1, <1>3, AppendProperties DEF Digests
<1> HIDE DEF t, h, a
<1>5. All(t) \cup h = All(p)
  <2>1. \A i \in 1..Len(p) : i = 1 \/ (i - 1 \in 1..Len(p) - 1 /\ (i - 1) + 1 = i)
    BY <1>1
  <2>2. \A i \in 1..Len(p) - 1 : i + 1 \in 1..Len(p)
    BY <1>1
  <2>3. 1 \in 1..Len(p)
    BY <1>1
  <2>4. ASSUME NEW c \in All(p) PROVE c \in All(t) \cup h
    <3>1. PICK i \in 1..Len(p) : c \in p[i]
      BY <2>4 DEF All
    <3>2. CASE i = 1
      BY <3>1, <3>2, <1>3
    <3>3. CASE i # 1
      <4>1. t[i - 1] = p[i] /\ i - 1 \in 1..Len(t)
        BY <3>3, <1>2, <2>1
      <4> QED BY <3>1, <4>1 DEF All
    <3> QED BY <3>2, <3>3
  <2>5. ASSUME NEW c \in All(t) PROVE c \in All(p)
    <3>1. PICK i \in 1..Len(p) - 1 : c \in t[i]
      BY <2>5, <1>2 DEF All
    <3> QED BY <3>1, <1>2, <2>2 DEF All
  <2>6. h \subseteq All(p)
    BY <1>3, <2>3 DEF All
  <2> QED BY <2>4, <2>5, <2>6
<1>6. All(a) = All(m) \cup h
  <2>1. 1..Len(a) = 1..Len(m) \cup {Len(m) + 1}
    BY <1>1, <1>4
  <2> QED BY <1>4, <2>1 DEF All
<1>7. All(t) \cap h = {}
  <2>1. SUFFICES ASSUME NEW i \in 1..Len(p) - 1 PROVE t[i] \cap h = {}
    BY <1>2 DEF All
  <2>2. i + 1 \in 1..Len(p) /\ 1 \in 1..Len(p) /\ i + 1 # 1
    BY <1>1
  <2>3. Apart(p)
    BY DEF Whole
  <2>4. p[i + 1] \cap p[1] = {}
    BY <2>2, <2>3 DEF Apart
  <2> QED BY <1>2, <1>3, <2>4
<1>8. Apart(t)
  <2>1. \A i, j \in 1..Len(p) - 1 : i # j =>
          i + 1 \in 1..Len(p) /\ j + 1 \in 1..Len(p) /\ i + 1 # j + 1
    BY <1>1
  <2>2. Apart(p)
    BY DEF Whole
  <2>3. \A i, j \in 1..Len(p) - 1 : i # j => p[i + 1] \cap p[j + 1] = {}
    BY <2>1, <2>2 DEF Apart
  <2> QED BY <1>2, <2>3 DEF Apart
<1>9. Apart(a)
  <2>1. All(m) \cap h = {}
    BY <1>5 DEF Whole
  <2>2. \A i \in 1..Len(m) : m[i] \cap h = {}
    BY <2>1 DEF All
  <2>3. \A i, j \in 1..Len(m) : i # j => m[i] \cap m[j] = {}
    BY DEF Whole, Apart
  <2>4. 1..Len(a) = 1..Len(m) \cup {Len(m) + 1}
    BY <1>1, <1>4
  <2> QED BY <1>4, <2>2, <2>3, <2>4 DEF Apart
<1>10. All(p) \cup All(m) = C /\ All(p) \cap All(m) = {}
  BY DEF Whole
<1>11. All(t) \cup All(a) = C /\ All(t) \cap All(a) = {}
  BY <1>5, <1>6, <1>7, <1>10
<1>12. Whole(t, a, C)
  BY <1>2, <1>4, <1>8, <1>9, <1>11 DEF Whole
<1> QED BY <1>12 DEF t, h, a

-----------------------------------------------------------------------------
(* Reducing: groups of what is in scope, and the rest. *)

\* Numbers in their order, as ReadsIn has chunks in theirs.
LesserIn(N) == {pair \in N \X N : pair[1] < pair[2]}

\* The number with n - 1 smaller ones.
Nth(N, n) == CHOOSE k \in N : Cardinality({l \in N : l < k}) = n - 1

\* Nth counts a set of numbers.
LEMMA NthCounts ==
  ASSUME NEW N \in SUBSET Nat, IsFiniteSet(N)
  PROVE  /\ Cardinality(N) \in Nat
         /\ \A n \in 1..Cardinality(N) : Nth(N, n) \in N
         /\ \A m, n \in 1..Cardinality(N) : m # n => Nth(N, m) # Nth(N, n)
         /\ \A k \in N : \E n \in 1..Cardinality(N) : Nth(N, n) = k
<1> DEFINE R == LesserIn(N)
           less(k) == Cardinality({l \in N : l < k})
<1>1. \A k, l \in N : <<k, l>> \in R <=> k < l
  BY DEF LesserIn
<1> HIDE DEF R
<1>2. StrictOrder(N, R)
  BY <1>1 DEF StrictOrder
<1>3. Numbered(N, R)
  BY <1>2, OrderNumbers
<1>4. \A k \in N : Below(N, R, k) = {l \in N : l < k}
  BY <1>1 DEF Below
<1>5. \A k \in N : less(k) = Cardinality(Below(N, R, k))
  BY <1>4
<1> HIDE DEF less
<1>6. /\ Cardinality(N) \in Nat
      /\ \A k \in N : less(k) + 1 \in 1..Cardinality(N)
      /\ \A k, l \in N : less(k) = less(l) => k = l
      /\ \A n \in 1..Cardinality(N) : \E k \in N : less(k) + 1 = n
  BY <1>3, <1>5 DEF Numbered
<1>7. \A k \in N : less(k) \in Nat
  <2>1. \A k \in N : {l \in N : l < k} \in SUBSET N
    OBVIOUS
  <2> QED BY <2>1, FS_Subset, FS_CardinalityType DEF less
<1>8. ASSUME NEW n \in 1..Cardinality(N)
      PROVE  Nth(N, n) \in N /\ less(Nth(N, n)) = n - 1
  <2>1. PICK k \in N : less(k) + 1 = n
    BY <1>6
  <2>2. less(k) = n - 1
    BY <2>1, <1>7
  <2>3. \E l \in N : Cardinality({j \in N : j < l}) = n - 1
    BY <2>2 DEF less
  <2>4. Nth(N, n) \in N /\ Cardinality({j \in N : j < Nth(N, n)}) = n - 1
    BY <2>3 DEF Nth
  <2> QED BY <2>4 DEF less
<1>9. ASSUME NEW m \in 1..Cardinality(N), NEW n \in 1..Cardinality(N), m # n
      PROVE  Nth(N, m) # Nth(N, n)
  <2>1. m - 1 # n - 1
    BY <1>6, <1>9
  <2> QED BY <2>1, <1>8
<1>10. ASSUME NEW k \in N
       PROVE  \E n \in 1..Cardinality(N) : Nth(N, n) = k
  <2> DEFINE n == less(k) + 1
  <2>1. n \in 1..Cardinality(N) /\ n - 1 = less(k)
    BY <1>6, <1>7
  <2> HIDE DEF n
  <2>2. Nth(N, n) \in N /\ less(Nth(N, n)) = less(k)
    BY <1>8, <2>1
  <2>3. Nth(N, n) = k
    BY <1>6, <2>2
  <2> QED BY <2>1, <2>3
<1> QED BY <1>6, <1>8, <1>9, <1>10

\* Digests apart stay so when some of them are picked out.
LEMMA OnlyIsApart ==
  ASSUME NEW m \in Digests, Apart(m), NEW N \in SUBSET (1..Len(m))
  PROVE  /\ Only(m, N) \in Digests /\ Apart(Only(m, N))
         /\ All(Only(m, N)) = UNION {m[k] : k \in N}
<1> DEFINE s == Only(m, N)
<1>1. N \in SUBSET Nat /\ IsFiniteSet(N)
  <2>1. Len(m) \in Nat
    BY DigestFields
  <2>2. IsFiniteSet(1..Len(m))
    BY <2>1, FS_Interval
  <2>3. N \in SUBSET Nat
    BY <2>1
  <2>4. IsFiniteSet(N)
    BY <2>2, FS_Subset
  <2> QED BY <2>3, <2>4
<1>2. /\ Cardinality(N) \in Nat
      /\ \A n \in 1..Cardinality(N) : Nth(N, n) \in N
      /\ \A i, n \in 1..Cardinality(N) : i # n => Nth(N, i) # Nth(N, n)
      /\ \A k \in N : \E n \in 1..Cardinality(N) : Nth(N, n) = k
  BY <1>1, NthCounts
<1>3. s = [n \in 1..Cardinality(N) |-> m[Nth(N, n)]]
  BY DEF Only, Nth
<1>4. \A k \in N : m[k] \in SUBSET AllChunks
  BY DigestFields
<1>5. s \in Digests /\ Len(s) = Cardinality(N)
  <2>1. \A n \in 1..Cardinality(N) : m[Nth(N, n)] \in SUBSET AllChunks
    BY <1>2, <1>4
  <2> QED BY <1>2, <1>3, <2>1, IsASeq DEF Digests
<1>6. \A n \in 1..Cardinality(N) : s[n] = m[Nth(N, n)]
  BY <1>3
<1> HIDE DEF s
<1>7. Apart(s)
  <2>1. ASSUME NEW i \in 1..Cardinality(N), NEW n \in 1..Cardinality(N), i # n
        PROVE  s[i] \cap s[n] = {}
    <3>1. /\ Nth(N, i) \in 1..Len(m) /\ Nth(N, n) \in 1..Len(m)
          /\ Nth(N, i) # Nth(N, n)
      BY <1>2, <2>1
    <3>2. m[Nth(N, i)] \cap m[Nth(N, n)] = {}
      BY <3>1 DEF Apart
    <3> QED BY <1>6, <3>2
  <2> QED BY <1>5, <2>1 DEF Apart
<1>8. All(s) = UNION {m[k] : k \in N}
  <2>1. ASSUME NEW k \in N PROVE \E n \in 1..Cardinality(N) : s[n] = m[k]
    BY <1>2, <1>6
  <2>2. ASSUME NEW n \in 1..Cardinality(N) PROVE \E k \in N : s[n] = m[k]
    BY <1>2, <1>6
  <2> QED BY <1>5, <2>1, <2>2 DEF All
<1> QED BY <1>5, <1>7, <1>8 DEF s

\* Whatever the cuts, the groups hold what is in scope, each in one group.
LEMMA GroupsAreApart ==
  ASSUME NEW m \in Digests, Apart(m), NEW N \in SUBSET (1..Len(m)), NEW cuts \in SUBSET N
  PROVE  /\ Groups(m, N, cuts) \in Digests /\ Apart(Groups(m, N, cuts))
         /\ All(Groups(m, N, cuts)) = UNION {m[k] : k \in N}
<1> DEFINE s == Groups(m, N, cuts)
           before(k) == Cardinality({c \in cuts : Earlier(m, c, k)})
           G == Cardinality(cuts)
<1>1. IsFiniteSet(cuts)
  <2>1. Len(m) \in Nat /\ cuts \in SUBSET (1..Len(m))
    BY DigestFields
  <2>2. IsFiniteSet(1..Len(m))
    BY <2>1, FS_Interval
  <2> QED BY <2>1, <2>2, FS_Subset
<1>2. G \in Nat /\ \A k \in N : before(k) \in 0..G
  <2>1. \A k \in N : {c \in cuts : Earlier(m, c, k)} \in SUBSET cuts
    OBVIOUS
  <2>2. \A k \in N : before(k) \in Nat /\ before(k) <= G
    BY <1>1, <2>1, FS_Subset, FS_CardinalityType
  <2>3. G \in Nat
    BY <1>1, FS_CardinalityType
  <2> HIDE DEF before, G
  <2> QED BY <2>2, <2>3
<1>3. s = [g \in 1..G + 1 |-> UNION {m[k] : k \in {l \in N : before(l) = g - 1}}]
  BY DEF Groups, Group
<1> HIDE DEF before, G
<1>4. \A k \in N : m[k] \in SUBSET AllChunks
  BY DigestFields
<1>5. s \in Digests /\ Len(s) = G + 1
  <2>1. \A g \in 1..G + 1 : UNION {m[k] : k \in {l \in N : before(l) = g - 1}} \in SUBSET AllChunks
    BY <1>4
  <2>2. G + 1 \in Nat
    BY <1>2
  <2> HIDE DEF s
  <2>3. s \in Seq(SUBSET AllChunks)
    BY <1>3, <2>1, <2>2, IsASeq
  <2>4. Len(s) = G + 1
    BY <1>3, <2>2
  <2> QED BY <2>3, <2>4 DEF Digests
<1> HIDE DEF s
<1>6. /\ \A g \in 1..G + 1 : s[g] = UNION {m[k] : k \in {l \in N : before(l) = g - 1}}
  BY <1>3
<1>7. \A g \in 1..G + 1 : \A c : c \in s[g] <=> \E k \in N : before(k) = g - 1 /\ c \in m[k]
  <2> SUFFICES ASSUME NEW g \in 1..G + 1
               PROVE  \A c : c \in s[g] <=> \E k \in N : before(k) = g - 1 /\ c \in m[k]
    OBVIOUS
  <2> DEFINE T == {l \in N : before(l) = g - 1}
  <2>1. s[g] = UNION {m[k] : k \in T}
    BY <1>6
  <2>2. \A k : k \in T <=> k \in N /\ before(k) = g - 1
    OBVIOUS
  <2> HIDE DEF T
  <2> QED BY <2>1, <2>2
<1>8. Apart(s)
  <2>1. ASSUME NEW g \in 1..G + 1, NEW h \in 1..G + 1, NEW c, c \in s[g], c \in s[h]
        PROVE  g = h
    <3>1. PICK k \in N : before(k) = g - 1 /\ c \in m[k]
      BY <1>7, <2>1
    <3>2. PICK l \in N : before(l) = h - 1 /\ c \in m[l]
      BY <1>7, <2>1
    <3>3. k = l
      BY <3>1, <3>2 DEF Apart
    <3>4. g - 1 = h - 1 /\ g \in Int /\ h \in Int
      BY <3>1, <3>2, <3>3
    <3> QED BY <3>4
  <2> QED BY <1>5, <2>1 DEF Apart
<1>9. All(s) = UNION {m[k] : k \in N}
  <2>1. ASSUME NEW k \in N PROVE \E g \in 1..G + 1 : before(k) = g - 1
    <3>1. before(k) \in 0..G
      BY <1>2
    <3>2. before(k) + 1 \in 1..G + 1 /\ before(k) = (before(k) + 1) - 1
      BY <3>1, <1>2
    <3> QED BY <3>2
  <2>2. ASSUME NEW k \in N PROVE m[k] \subseteq All(s)
    <3>1. PICK g \in 1..G + 1 : before(k) = g - 1
      BY <2>1
    <3>2. m[k] \subseteq s[g]
      BY <1>7, <3>1
    <3> QED BY <1>5, <3>2 DEF All
  <2>3. ASSUME NEW c \in All(s) PROVE \E k \in N : c \in m[k]
    <3>1. PICK g \in 1..G + 1 : c \in s[g]
      BY <1>5, <2>3 DEF All
    <3> QED BY <1>7, <3>1
  <2> QED BY <2>2, <2>3
<1> QED BY <1>5, <1>8, <1>9 DEF s

\* A round of reducing keeps every chunk, in the groups or in the digests out of scope.
LEMMA ReduceKeepsWhole ==
  ASSUME NEW m, NEW C, Whole(<<>>, m, C),
         NEW N \in SUBSET (DOMAIN m), NEW cuts \in SUBSET N
  PROVE  Whole(Groups(m, N, cuts), Only(m, DOMAIN m \ N), C)
<1> DEFINE O == DOMAIN m \ N
           p == Groups(m, N, cuts)
           q == Only(m, O)
<1>1. m \in Digests /\ Apart(m) /\ All(m) = C
  BY NothingMade DEF Whole
<1>2. DOMAIN m = 1..Len(m)
  BY <1>1, DigestFields
<1>3. p \in Digests /\ Apart(p) /\ All(p) = UNION {m[k] : k \in N}
  BY <1>1, <1>2, GroupsAreApart
<1>4. q \in Digests /\ Apart(q) /\ All(q) = UNION {m[k] : k \in O}
  <2>1. O \in SUBSET (1..Len(m))
    BY <1>2
  <2> HIDE DEF O
  <2> QED BY <1>1, <2>1, OnlyIsApart
<1> HIDE DEF p, q
<1>5. All(p) \cup All(q) = C
  <2>1. \A k \in DOMAIN m : k \in N \/ k \in O
    OBVIOUS
  <2> QED BY <1>1, <1>2, <1>3, <1>4, <2>1 DEF All
<1>6. All(p) \cap All(q) = {}
  <2>1. SUFFICES ASSUME NEW c, c \in All(p), c \in All(q) PROVE FALSE
    OBVIOUS
  <2>2. PICK k \in N : c \in m[k]
    BY <1>3, <2>1
  <2>3. PICK l \in O : c \in m[l]
    BY <1>4, <2>1
  <2>4. k # l /\ k \in 1..Len(m) /\ l \in 1..Len(m)
    BY <1>2
  <2> QED BY <1>1, <2>2, <2>3, <2>4 DEF Apart
<1>7. Whole(p, q, C)
  BY <1>3, <1>4, <1>5, <1>6 DEF Whole
<1> QED BY <1>7 DEF p, q

\* So the invariant EvidenceIsWhole follows.
LEMMA WholeTogether ==
  ASSUME NEW p, NEW m, NEW C, Whole(p, m, C)
  PROVE  /\ All(p \o m) = C
         /\ \A i, j \in DOMAIN (p \o m) : i # j => (p \o m)[i] \cap (p \o m)[j] = {}
<1> DEFINE s == p \o m
<1>1. p \in Digests /\ m \in Digests /\ Len(p) \in Nat /\ Len(m) \in Nat
  BY LenProperties DEF Whole, Digests
<1>2. /\ s \in Digests /\ Len(s) = Len(p) + Len(m)
      /\ \A i \in 1..Len(p) + Len(m) : s[i] = IF i <= Len(p) THEN p[i] ELSE m[i - Len(p)]
  BY <1>1, ConcatProperties DEF Digests
<1>3. DOMAIN s = 1..Len(s)
  BY <1>2, DigestFields
<1> HIDE DEF s
<1>4. \A i \in 1..Len(s) :
        \/ i \in 1..Len(p) /\ s[i] = p[i]
        \/ i - Len(p) \in 1..Len(m) /\ i > Len(p) /\ s[i] = m[i - Len(p)]
  BY <1>1, <1>2
<1>5. All(s) = C
  <2>1. \A i \in 1..Len(p) : i \in 1..Len(s) /\ s[i] = p[i]
    BY <1>1, <1>2
  <2>2. \A i \in 1..Len(m) : i + Len(p) \in 1..Len(s) /\ s[i + Len(p)] = m[i]
    BY <1>1, <1>2
  <2>3. All(p) \cup All(m) = C
    BY DEF Whole
  <2>4. ASSUME NEW c \in All(s) PROVE c \in All(p) \cup All(m)
    <3>1. PICK i \in 1..Len(s) : c \in s[i]
      BY <2>4 DEF All
    <3> QED BY <1>4, <3>1 DEF All
  <2>5. All(p) \subseteq All(s)
    BY <2>1 DEF All
  <2>6. All(m) \subseteq All(s)
    BY <2>2 DEF All
  <2> QED BY <2>3, <2>4, <2>5, <2>6
<1>6. ASSUME NEW i \in 1..Len(s), NEW j \in 1..Len(s), i # j
      PROVE  s[i] \cap s[j] = {}
  <2>1. /\ \A k, l \in 1..Len(p) : k # l => p[k] \cap p[l] = {}
        /\ \A k, l \in 1..Len(m) : k # l => m[k] \cap m[l] = {}
        /\ \A k \in 1..Len(p), l \in 1..Len(m) : p[k] \cap m[l] = {}
    BY DEF Whole, Apart, All
  <2>2. CASE i \in 1..Len(p) /\ s[i] = p[i]
    BY <1>4, <1>6, <2>1, <2>2
  <2>3. CASE i - Len(p) \in 1..Len(m) /\ i > Len(p) /\ s[i] = m[i - Len(p)]
    <3>1. CASE j \in 1..Len(p) /\ s[j] = p[j]
      BY <2>1, <2>3, <3>1
    <3>2. CASE j - Len(p) \in 1..Len(m) /\ s[j] = m[j - Len(p)]
      <4>1. i - Len(p) # j - Len(p)
        BY <1>1, <1>6
      <4> QED BY <2>1, <2>3, <3>2, <4>1
    <3> QED BY <1>4, <3>1, <3>2
  <2> QED BY <1>4, <2>2, <2>3
<1> QED BY <1>3, <1>5, <1>6 DEF s

-----------------------------------------------------------------------------
(* The client. *)

\* The threads with a request under way, and the permits that are left to the others.
Sent == {w \in Workers : call[w] = "sent"}

ClientTypes == LlmTypeOK /\ permits = MaxRequests - Cardinality(Sent)

\* The threads are finitely many, and so are those that have sent.
LEMMA CountSent ==
  /\ Cardinality(Sent) \in Nat
  /\ \A w \in Workers : /\ w \notin Sent => Cardinality(Sent \cup {w}) = Cardinality(Sent) + 1
                        /\ w \in Sent => Cardinality(Sent \ {w}) = Cardinality(Sent) - 1
<1>1. Sent \in SUBSET Workers
  BY DEF Sent
<1>2. IsFiniteSet(Sent)
  BY <1>1, WorkersAssumption, FS_Subset
<1> QED BY <1>2, FS_CardinalityType, FS_AddElement, FS_RemoveElement

\* A thread that neither takes a permit nor gives one back.
LEMMA CallMoves ==
  ASSUME ClientTypes, NEW w \in Workers, NEW state \in CallStates \ {"sent"},
         call[w] # "sent", call' = [call EXCEPT ![w] = state], permits' = permits
  PROVE  call' \in [Workers -> CallStates] /\ permits' \in 0..MaxRequests
         /\ permits' = MaxRequests - Cardinality(Sent')
<1>1. call \in [Workers -> CallStates] /\ permits \in 0..MaxRequests
  BY DEF ClientTypes, LlmTypeOK
<1>2. call' \in [Workers -> CallStates]
  BY <1>1
<1>3. Sent' = Sent
  BY <1>1 DEF Sent
<1> QED BY <1>1, <1>2, <1>3 DEF ClientTypes

\* Sending takes one permit.
LEMMA CallIsSent ==
  ASSUME ClientTypes, NEW w \in Workers, Send(w)
  PROVE  ClientTypes'
<1>1. call \in [Workers -> CallStates] /\ permits \in 0..MaxRequests /\ MaxRequests \in Nat
  BY LimitsAssumption DEF ClientTypes, LlmTypeOK
<1>2. call' = [call EXCEPT ![w] = "sent"] /\ permits' = permits - 1 /\ permits > 0 /\ call[w] = "wait"
  BY DEF Send
<1>3. call' \in [Workers -> CallStates]
  BY <1>1, <1>2 DEF CallStates
<1>4. Sent' = Sent \cup {w} /\ w \notin Sent
  BY <1>1, <1>2 DEF Sent
<1>5. Cardinality(Sent') = Cardinality(Sent) + 1 /\ Cardinality(Sent) \in Nat
  BY <1>4, CountSent
<1>6. permits' \in 0..MaxRequests
  BY <1>1, <1>2
<1>7. permits' = MaxRequests - Cardinality(Sent')
  BY <1>1, <1>2, <1>5 DEF ClientTypes
<1>8. UNCHANGED <<again, attempt, remaining, failures, open>>
  BY DEF Send
<1> QED BY <1>3, <1>6, <1>7, <1>8 DEF ClientTypes, LlmTypeOK

\* An answer, of whatever kind, gives one permit back.
LEMMA CallReturns ==
  ASSUME ClientTypes, NEW w \in Workers, NEW state \in CallStates \ {"sent"},
         call[w] = "sent", call' = [call EXCEPT ![w] = state], LeaveSemaphore
  PROVE  call' \in [Workers -> CallStates] /\ permits' \in 0..MaxRequests
         /\ permits' = MaxRequests - Cardinality(Sent')
<1>1. call \in [Workers -> CallStates] /\ permits \in 0..MaxRequests /\ MaxRequests \in Nat
  BY LimitsAssumption DEF ClientTypes, LlmTypeOK
<1>2. permits' = permits + 1
  BY DEF LeaveSemaphore
<1>3. call' \in [Workers -> CallStates]
  BY <1>1
<1>4. Sent' = Sent \ {w} /\ w \in Sent
  BY <1>1 DEF Sent
<1>5. Cardinality(Sent') = Cardinality(Sent) - 1 /\ Cardinality(Sent) \in Nat /\ Cardinality(Sent') \in Nat
  BY <1>4, CountSent, FS_CardinalityType, FS_Subset, WorkersAssumption DEF Sent
<1>6. permits = MaxRequests - Cardinality(Sent)
  BY DEF ClientTypes
<1>7. permits' = MaxRequests - Cardinality(Sent')
  BY <1>1, <1>2, <1>5, <1>6
<1>8. permits' \in 0..MaxRequests
  BY <1>1, <1>2, <1>5, <1>6
<1> QED BY <1>3, <1>7, <1>8

\* The count of failures stops at the threshold.
LEMMA FailureCounts ==
  ASSUME LlmTypeOK, CountFailure
  PROVE  failures' \in 0..Threshold /\ open' \in BOOLEAN
<1>1. failures \in 0..Threshold /\ Threshold \in Nat /\ open \in BOOLEAN
  BY LimitsAssumption DEF LlmTypeOK
<1>2. Up(failures) \in 0..Threshold
  BY <1>1 DEF Up
<1> QED BY <1>1, <1>2 DEF CountFailure

\* So every step of the client keeps the count of the permits.
LEMMA ClientStepTypes ==
  ASSUME ClientTypes, NEW w \in Workers,
         CallStep(w) \/ StartCall(w) \/ (TakeResult(w) /\ call[w] # "sent")
  PROVE  ClientTypes'
<1>0. /\ again \in [Workers -> BOOLEAN] /\ attempt \in [Workers -> 0..MaxRetries]
      /\ remaining \in [Workers -> 0..Budget] /\ permits \in 0..MaxRequests
      /\ failures \in 0..Threshold /\ open \in BOOLEAN /\ call \in [Workers -> CallStates]
      /\ MaxRetries \in Nat /\ Budget \in Nat /\ Threshold \in Nat /\ LlmTypeOK
  BY LimitsAssumption DEF ClientTypes, LlmTypeOK
<1>S. {"none", "check", "wait", "ok", "format", "permanent", "external"} = CallStates \ {"sent"}
  BY DEF CallStates, Results
<1>1. CASE Check(w)
  <2>1. PICK state \in {"external", "wait"} : call' = [call EXCEPT ![w] = state]
    BY <1>1 DEF Check
  <2>2. attempt' \in [Workers -> 0..MaxRetries] /\ call[w] # "sent" /\ permits' = permits
    BY <1>0, <1>1 DEF Check
  <2>3. UNCHANGED <<again, remaining, failures, open>>
    BY <1>1 DEF Check
  <2>4. state \in CallStates \ {"sent"}
    BY <1>S
  <2>5. call' \in [Workers -> CallStates] /\ permits' \in 0..MaxRequests
        /\ permits' = MaxRequests - Cardinality(Sent')
    BY <2>1, <2>2, <2>4, CallMoves
  <2> QED BY <1>0, <2>2, <2>3, <2>5 DEF ClientTypes, LlmTypeOK
<1>2. CASE Send(w)
  BY <1>2, CallIsSent
<1>3. CASE Answered(w)
  <2>1. call[w] = "sent" /\ call' = [call EXCEPT ![w] = "ok"] /\ LeaveSemaphore
        /\ "ok" \in CallStates \ {"sent"}
    BY <1>3, <1>S DEF Answered
  <2>2. failures' \in 0..Threshold /\ UNCHANGED <<again, attempt, remaining, open>>
    BY <1>0, <1>3 DEF Answered
  <2>3. call' \in [Workers -> CallStates] /\ permits' \in 0..MaxRequests
        /\ permits' = MaxRequests - Cardinality(Sent')
    BY <2>1, CallReturns
  <2> QED BY <1>0, <2>2, <2>3 DEF ClientTypes, LlmTypeOK
<1>4. CASE Invalid(w)
  <2>1. PICK state \in {"format", "check"} : call' = [call EXCEPT ![w] = state]
    BY <1>4 DEF Invalid
  <2>2. call[w] = "sent" /\ LeaveSemaphore /\ state \in CallStates \ {"sent"}
    BY <1>4, <1>S DEF Invalid
  <2>3. failures' \in 0..Threshold /\ again' \in [Workers -> BOOLEAN]
        /\ UNCHANGED <<attempt, remaining, open>>
    BY <1>0, <1>4 DEF Invalid
  <2>4. call' \in [Workers -> CallStates] /\ permits' \in 0..MaxRequests
        /\ permits' = MaxRequests - Cardinality(Sent')
    BY <2>1, <2>2, CallReturns
  <2> QED BY <1>0, <2>3, <2>4 DEF ClientTypes, LlmTypeOK
<1>5. CASE FailsForNow(w)
  <2>1. PICK state \in {"wait", "external"} : call' = [call EXCEPT ![w] = state]
    BY <1>5 DEF FailsForNow
  <2>2. call[w] = "sent" /\ LeaveSemaphore /\ state \in CallStates \ {"sent"} /\ CountFailure
    BY <1>5, <1>S DEF FailsForNow
  <2>3. attempt' \in [Workers -> 0..MaxRetries]
    <3>1. CASE UNCHANGED attempt
      BY <1>0, <3>1
    <3>2. CASE MayRetry(w) /\ attempt' = [attempt EXCEPT ![w] = @ + 1]
      <4>1. attempt[w] + 1 \in 0..MaxRetries
        BY <1>0, <3>2 DEF MayRetry
      <4> QED BY <1>0, <3>2, <4>1
    <3> QED BY <1>5, <3>1, <3>2 DEF FailsForNow
  <2>4. UNCHANGED <<again, remaining>>
    BY <1>5 DEF FailsForNow
  <2>5. call' \in [Workers -> CallStates] /\ permits' \in 0..MaxRequests
        /\ permits' = MaxRequests - Cardinality(Sent')
    BY <2>1, <2>2, CallReturns
  <2>6. failures' \in 0..Threshold /\ open' \in BOOLEAN
    BY <1>0, <2>2, FailureCounts
  <2> QED BY <1>0, <2>3, <2>4, <2>5, <2>6 DEF ClientTypes, LlmTypeOK
<1>6. CASE IsRejected(w)
  <2>1. call[w] = "sent" /\ call' = [call EXCEPT ![w] = "permanent"] /\ LeaveSemaphore
        /\ "permanent" \in CallStates \ {"sent"} /\ CountFailure
    BY <1>6, <1>S DEF IsRejected
  <2>2. UNCHANGED <<again, attempt, remaining>>
    BY <1>6 DEF IsRejected
  <2>3. call' \in [Workers -> CallStates] /\ permits' \in 0..MaxRequests
        /\ permits' = MaxRequests - Cardinality(Sent')
    BY <2>1, CallReturns
  <2>4. failures' \in 0..Threshold /\ open' \in BOOLEAN
    BY <1>0, <2>1, FailureCounts
  <2> QED BY <1>0, <2>2, <2>3, <2>4 DEF ClientTypes, LlmTypeOK
<1>7. CASE StartCall(w)
  <2>1. PICK state \in {"permanent", "check"} : call' = [call EXCEPT ![w] = state]
    BY <1>7 DEF StartCall
  <2>2. call[w] # "sent" /\ permits' = permits /\ state \in CallStates \ {"sent"}
    BY <1>7, <1>S DEF StartCall
  <2>3. remaining' \in [Workers -> 0..Budget]
    <3>1. CASE UNCHANGED remaining
      BY <1>0, <3>1
    <3>2. CASE remaining[w] > 0 /\ Consume(w)
      <4>1. remaining[w] - 1 \in 0..Budget
        BY <1>0, <3>2
      <4> QED BY <1>0, <3>2, <4>1 DEF Consume
    <3> QED BY <1>7, <3>1, <3>2 DEF StartCall
  <2>4. again' \in [Workers -> BOOLEAN] /\ UNCHANGED <<attempt, failures, open>>
    BY <1>0, <1>7 DEF StartCall
  <2>5. call' \in [Workers -> CallStates] /\ permits' \in 0..MaxRequests
        /\ permits' = MaxRequests - Cardinality(Sent')
    BY <2>1, <2>2, CallMoves
  <2> QED BY <1>0, <2>3, <2>4, <2>5 DEF ClientTypes, LlmTypeOK
<1>8. CASE TakeResult(w) /\ call[w] # "sent"
  <2>1. call' = [call EXCEPT ![w] = "none"] /\ permits' = permits /\ "none" \in CallStates \ {"sent"}
    BY <1>8, <1>S DEF TakeResult
  <2>2. again' \in [Workers -> BOOLEAN] /\ attempt' \in [Workers -> 0..MaxRetries]
        /\ UNCHANGED <<remaining, failures, open>>
    BY <1>0, <1>8 DEF TakeResult
  <2>3. call' \in [Workers -> CallStates] /\ permits' \in 0..MaxRequests
        /\ permits' = MaxRequests - Cardinality(Sent')
    BY <1>8, <2>1, CallMoves
  <2> QED BY <1>0, <2>2, <2>3 DEF ClientTypes, LlmTypeOK
<1> QED BY <1>1, <1>2, <1>3, <1>4, <1>5, <1>6, <1>7, <1>8 DEF CallStep

-----------------------------------------------------------------------------
(* The invariant. *)

ReadParts == {"attachment", "chain", "body"}

\* The chunks chosen are the sample of the text that is read.
ReadsSample(w) ==
  IF reading[w]
  THEN /\ part[w] \in ReadParts /\ Chunks(message[w], part[w]) # {}
       /\ chosen[w] = Sample(Chunks(message[w], part[w]))
  ELSE pending[w] = <<>> /\ made[w] = <<>> /\ chosen[w] = {}

\* Only a sample of the part can be read.
TooLong(w, p) == Cardinality(Chunks(message[w], p)) > MaxChunks

\* What is behind the chain, or behind the body, has the notice about it.
ChainNoticed(w) ==
  part[w] \in {"body", "final", "compact", "classify"} \/ outcome[w] = "done" =>
    (TooLong(w, "chain") => "chain" \in told[w])

BodyNoticed(w) ==
  part[w] \in {"final", "compact", "classify"} \/ outcome[w] = "done" =>
    (message[w].levels = <<>> /\ TooLong(w, "body") => "body" \in told[w])

\* The file that could not be read is named at the very end.
FileNoticed(w) == outcome[w] = "done" => Notices(w) \subseteq told[w]

AnalysisTypes ==
  /\ message \in [Workers -> Messages] /\ part \in [Workers -> Parts]
  /\ reading \in [Workers -> BOOLEAN] /\ sure \in [Workers -> BOOLEAN]
  /\ chain \in [Workers -> {"none", "sure", "unsure"}]
  /\ told \in [Workers -> SUBSET {"chain", "body", "skipped"}]
  /\ tries \in [Workers -> 0..FinalAttempts - 1]
  /\ outcome \in [Workers -> Outcomes]

\* What holds of a thread at any time.
ThreadHolds(w) ==
  /\ ReadsSample(w) /\ Whole(pending[w], made[w], chosen[w])
  /\ outcome[w] # "none" => part[w] = "ended"
  /\ ChainNoticed(w) /\ BodyNoticed(w) /\ FileNoticed(w)

AnalysisInvariant ==
  ClientTypes /\ AnalysisTypes
  /\ DOMAIN pending = Workers /\ DOMAIN made = Workers /\ DOMAIN chosen = Workers
  /\ \A w \in Workers : ThreadHolds(w)

-----------------------------------------------------------------------------
(* Steps of one thread.  The others keep what they have. *)

\* Every thread has its sequences and its set.
Domains == DOMAIN pending = Workers /\ DOMAIN made = Workers /\ DOMAIN chosen = Workers

\* A step of another thread has not touched this one.
SameThread(v) ==
  /\ message'[v] = message[v] /\ part'[v] = part[v] /\ reading'[v] = reading[v]
  /\ chosen'[v] = chosen[v] /\ pending'[v] = pending[v] /\ made'[v] = made[v]
  /\ told'[v] = told[v] /\ outcome'[v] = outcome[v]

\* What holds of a thread depends on its own variables alone.
LEMMA ThreadIsKept ==
  ASSUME NEW v \in Workers, ThreadHolds(v), SameThread(v)
  PROVE  ThreadHolds(v)'
<1>1. ReadsSample(v)'
  BY DEF ThreadHolds, ReadsSample, SameThread
<1>2. Whole(pending[v], made[v], chosen[v])'
  BY DEF ThreadHolds, SameThread
<1>3. ChainNoticed(v)' /\ BodyNoticed(v)' /\ FileNoticed(v)'
  BY DEF ThreadHolds, SameThread, ChainNoticed, BodyNoticed, FileNoticed, TooLong, Notices
<1>4. (outcome[v] # "none" => part[v] = "ended")'
  BY DEF ThreadHolds, SameThread
<1> QED BY <1>1, <1>2, <1>3, <1>4 DEF ThreadHolds

\* A step of one thread leaves the others' work alone.
LEMMA OthersKept ==
  ASSUME AnalysisInvariant, NEW w \in Workers,
         ClientTypes', AnalysisTypes', Domains',
         \A v \in Workers \ {w} : SameThread(v), ThreadHolds(w)'
  PROVE  AnalysisInvariant'
<1>1. ASSUME NEW v \in Workers PROVE ThreadHolds(v)'
  <2>1. CASE v = w
    BY <2>1
  <2>2. CASE v # w
    BY <2>2, ThreadIsKept DEF AnalysisInvariant
  <2> QED BY <2>1, <2>2
<1> QED BY <1>1 DEF AnalysisInvariant, Domains

\* A part begins with its sample pending, or is left when it has no chunks.
LEMMA PartBegins ==
  ASSUME AnalysisInvariant, NEW w \in Workers, BeginPart(w)
  PROVE  AnalysisInvariant'
<1> DEFINE chunks == Chunks(message[w], part[w])
<1>0. /\ AnalysisTypes /\ Domains /\ ClientTypes /\ ThreadHolds(w)
      /\ message[w] \in Messages /\ part[w] \in ReadParts /\ reading[w] = FALSE
      /\ UNCHANGED <<llm, message, made, sure, chain, told, tries, outcome>>
  BY DEF AnalysisInvariant, Domains, BeginPart, AnalysisTypes, ReadParts
<1>1. chunks \in SUBSET AllChunks /\ IsFiniteSet(chunks)
  BY <1>0, ChunksAreFinite DEF ReadParts
<1>2. ClientTypes'
  BY <1>0 DEF llm, ClientTypes, LlmTypeOK, Sent
<1>3. outcome[w] = "none" /\ made[w] = <<>>
  BY <1>0 DEF ThreadHolds, ReadsSample, ReadParts
<1>4. CASE chunks = {} /\ part' = [part EXCEPT ![w] = After(w)] /\ UNCHANGED <<reading, chosen, pending>>
  <2>1. After(w) \in {"chain", "body", "final"}
    BY DEF After
  <2>2. AnalysisTypes' /\ Domains'
    BY <1>0, <1>4, <2>1 DEF AnalysisTypes, Domains, Parts
  <2>3. \A v \in Workers \ {w} : SameThread(v)
    BY <1>0, <1>4 DEF SameThread, AnalysisTypes
  <2>4. part'[w] = After(w)
    BY <1>0, <1>4 DEF AnalysisTypes
  <2>5. ReadsSample(w)' /\ Whole(pending[w], made[w], chosen[w])'
    BY <1>0, <1>4 DEF ThreadHolds, ReadsSample
  <2>6. MaxChunks \in Nat /\ Cardinality({}) = 0
    BY AttemptsAssumption, FS_EmptySet
  <2>7. ~TooLong(w, part[w])
    BY <1>4, <2>6 DEF TooLong
  <2>8. ChainNoticed(w)'
    <3>1. CASE part[w] = "chain"
      <4>1. ~TooLong(w, "chain")'
        BY <2>7, <3>1, <1>0 DEF TooLong
      <4> QED BY <4>1 DEF ChainNoticed
    <3>2. CASE part[w] = "attachment"
      <4>1. part'[w] = "chain"
        BY <2>4, <3>2 DEF After
      <4> QED BY <4>1, <1>0, <1>3 DEF ChainNoticed
    <3>3. CASE part[w] = "body"
      <4>1. ChainNoticed(w)
        BY <1>0 DEF ThreadHolds
      <4> QED BY <4>1, <3>3, <1>0, <1>3 DEF ChainNoticed, TooLong
    <3> QED BY <1>0, <3>1, <3>2, <3>3 DEF ReadParts
  <2>9. BodyNoticed(w)'
    <3>1. CASE part[w] = "body"
      <4>1. ~TooLong(w, "body")'
        BY <2>7, <3>1, <1>0 DEF TooLong
      <4> QED BY <4>1 DEF BodyNoticed
    <3>2. CASE part[w] = "attachment"
      <4>1. part'[w] = "chain"
        BY <2>4, <3>2 DEF After
      <4> QED BY <4>1, <1>0, <1>3 DEF BodyNoticed
    <3>3. CASE part[w] = "chain"
      <4>1. CASE message[w].levels = <<>>
        <5>1. part'[w] = "body"
          BY <2>4, <3>3, <4>1 DEF After
        <5> QED BY <5>1, <1>0, <1>3 DEF BodyNoticed
      <4>2. CASE message[w].levels # <<>>
        BY <4>2, <1>0 DEF BodyNoticed
      <4> QED BY <4>1, <4>2
    <3> QED BY <1>0, <3>1, <3>2, <3>3 DEF ReadParts
  <2>10. FileNoticed(w)' /\ outcome'[w] = "none"
    BY <1>0, <1>3 DEF FileNoticed
  <2>11. ThreadHolds(w)'
    BY <2>5, <2>8, <2>9, <2>10 DEF ThreadHolds
  <2> QED BY <1>2, <2>2, <2>3, <2>11, OthersKept
<1>5. CASE /\ chunks # {}
           /\ reading' = [reading EXCEPT ![w] = TRUE]
           /\ pending' = [pending EXCEPT ![w] = InTurn(Sample(chunks))]
           /\ chosen' = [chosen EXCEPT ![w] = Sample(chunks)]
           /\ UNCHANGED part
  <2>1. Sample(chunks) \in SUBSET AllChunks /\ IsFiniteSet(Sample(chunks))
    BY <1>1, <1>5, SampleIsSmall
  <2>2. Whole(InTurn(Sample(chunks)), <<>>, Sample(chunks))
    BY <2>1, InTurnIsWhole
  <2> HIDE DEF chunks
  <2>3. AnalysisTypes' /\ Domains'
    BY <1>0, <1>5 DEF AnalysisTypes, Domains
  <2>4. \A v \in Workers \ {w} : SameThread(v)
    BY <1>0, <1>5 DEF SameThread, AnalysisTypes, Domains
  <2>5. /\ reading'[w] = TRUE /\ pending'[w] = InTurn(Sample(chunks))
        /\ chosen'[w] = Sample(chunks) /\ made'[w] = <<>>
    BY <1>0, <1>3, <1>5 DEF AnalysisTypes, Domains
  <2>6. Whole(pending[w], made[w], chosen[w])'
    BY <2>2, <2>5
  <2>7. ReadsSample(w)'
    BY <1>0, <1>5, <2>5 DEF ReadsSample, chunks
  <2>8. ChainNoticed(w)' /\ BodyNoticed(w)' /\ FileNoticed(w)' /\ outcome'[w] = "none"
    BY <1>0, <1>3, <1>5 DEF ThreadHolds, ChainNoticed, BodyNoticed, FileNoticed, TooLong, Notices
  <2>9. ThreadHolds(w)'
    BY <2>6, <2>7, <2>8 DEF ThreadHolds
  <2> QED BY <1>2, <2>3, <2>4, <2>9, OthersKept
<1> QED BY <1>4, <1>5 DEF BeginPart

\* Steps of the client alone.
LEMMA ClientSteps ==
  ASSUME AnalysisInvariant, UNCHANGED analysis, ClientTypes'
  PROVE  AnalysisInvariant'
<1>1. UNCHANGED <<message, part, reading, chosen, pending, made, sure, chain, told, tries, outcome>>
  BY DEF analysis
<1>2. AnalysisTypes' /\ Domains'
  BY <1>1 DEF AnalysisInvariant, AnalysisTypes, Domains
<1>3. \A v \in Workers : SameThread(v)
  BY <1>1 DEF SameThread
<1>4. \A v \in Workers : ThreadHolds(v)'
  BY <1>3, ThreadIsKept DEF AnalysisInvariant
<1> QED BY <1>2, <1>4 DEF AnalysisInvariant, Domains

\* A digest accounts for the chunks it was asked for, whether the model wrote it or not.
LEMMA DigestIsMade ==
  ASSUME AnalysisInvariant, NEW w \in Workers, Digest(w), pending[w] # <<>>
  PROVE  AnalysisInvariant'
<1>0. /\ AnalysisTypes /\ Domains /\ ClientTypes /\ ThreadHolds(w) /\ reading[w]
      /\ made' = [made EXCEPT ![w] = Append(made[w], Head(pending[w]))]
      /\ pending' = [pending EXCEPT ![w] = Tail(pending[w])]
      /\ sure' = [sure EXCEPT ![w] = call[w] = "ok"]
      /\ UNCHANGED <<message, part, reading, chosen, chain, told, tries, outcome>>
  BY DEF AnalysisInvariant, Domains, Digest
<1>1. ClientTypes'
  <2>1. TakeResult(w) /\ call[w] # "sent"
    BY DEF Digest
  <2> QED BY <2>1, <1>0, ClientStepTypes
<1>2. AnalysisTypes' /\ Domains'
  BY <1>0 DEF AnalysisTypes, Domains
<1>3. \A v \in Workers \ {w} : SameThread(v)
  BY <1>0 DEF SameThread, AnalysisTypes, Domains
<1>4. Whole(pending[w], made[w], chosen[w])'
  <2>1. pending'[w] = Tail(pending[w]) /\ made'[w] = Append(made[w], Head(pending[w]))
        /\ chosen'[w] = chosen[w]
    BY <1>0 DEF Domains
  <2>2. Whole(Tail(pending[w]), Append(made[w], Head(pending[w])), chosen[w])
    BY <1>0, DigestKeepsWhole DEF ThreadHolds
  <2> QED BY <2>1, <2>2
<1>5. ReadsSample(w)'
  BY <1>0 DEF ThreadHolds, ReadsSample
<1>6. ChainNoticed(w)' /\ BodyNoticed(w)' /\ FileNoticed(w)' /\ (outcome[w] # "none" => part[w] = "ended")'
  BY <1>0 DEF ThreadHolds, ChainNoticed, BodyNoticed, FileNoticed, TooLong, Notices
<1>7. ThreadHolds(w)'
  BY <1>4, <1>5, <1>6 DEF ThreadHolds
<1> QED BY <1>1, <1>2, <1>3, <1>7, OthersKept

\* Reducing changes neither the sample nor what it is a sample of.
LEMMA DigestsAreReduced ==
  ASSUME AnalysisInvariant, NEW w \in Workers, Reduce(w)
  PROVE  AnalysisInvariant'
<1> DEFINE scope == InScope(made[w])
<1>0. /\ AnalysisTypes /\ Domains /\ ClientTypes /\ ThreadHolds(w) /\ reading[w] /\ pending[w] = <<>>
      /\ made' = [made EXCEPT ![w] = Only(made[w], DOMAIN made[w] \ scope)]
      /\ UNCHANGED <<llm, message, part, reading, chosen, sure, chain, told, tries, outcome>>
  BY DEF AnalysisInvariant, Domains, Reduce
<1>1. PICK cuts \in SUBSET {k \in scope : \E l \in scope : Earlier(made[w], k, l)} :
        pending' = [pending EXCEPT ![w] = Groups(made[w], scope, cuts)]
  BY DEF Reduce
<1>2. scope \in SUBSET (DOMAIN made[w]) /\ cuts \in SUBSET scope
  BY DEF InScope
<1> HIDE DEF scope
<1>3. ClientTypes'
  BY <1>0 DEF llm, ClientTypes, LlmTypeOK, Sent
<1>4. AnalysisTypes' /\ Domains'
  BY <1>0, <1>1 DEF AnalysisTypes, Domains
<1>5. \A v \in Workers \ {w} : SameThread(v)
  BY <1>0, <1>1 DEF SameThread, AnalysisTypes, Domains
<1>6. Whole(pending[w], made[w], chosen[w])'
  <2>1. /\ pending'[w] = Groups(made[w], scope, cuts)
        /\ made'[w] = Only(made[w], DOMAIN made[w] \ scope) /\ chosen'[w] = chosen[w]
    BY <1>0, <1>1 DEF Domains
  <2>2. Whole(<<>>, made[w], chosen[w])
    BY <1>0 DEF ThreadHolds
  <2>3. Whole(Groups(made[w], scope, cuts), Only(made[w], DOMAIN made[w] \ scope), chosen[w])
    BY <1>2, <2>2, ReduceKeepsWhole
  <2> QED BY <2>1, <2>3
<1>7. ReadsSample(w)'
  BY <1>0 DEF ThreadHolds, ReadsSample
<1>8. ChainNoticed(w)' /\ BodyNoticed(w)' /\ FileNoticed(w)' /\ (outcome[w] # "none" => part[w] = "ended")'
  BY <1>0 DEF ThreadHolds, ChainNoticed, BodyNoticed, FileNoticed, TooLong, Notices
<1>9. ThreadHolds(w)'
  BY <1>6, <1>7, <1>8 DEF ThreadHolds
<1> QED BY <1>3, <1>4, <1>5, <1>9, OthersKept

\* A part that was only sampled is noticed: the notice is among the warnings kept.
LEMMA SampledIsNoticed ==
  ASSUME AnalysisInvariant, NEW w \in Workers, EndPart(w)
  PROVE  /\ part[w] \in ReadParts
         /\ told[w] \subseteq told'[w] /\ told'[w] \in SUBSET {"chain", "body", "skipped"}
         /\ part[w] \in {"chain", "body"} /\ TooLong(w, part[w]) => part[w] \in told'[w]
         /\ \A v \in Workers \ {w} : told'[v] = told[v]
         /\ told' \in [Workers -> SUBSET {"chain", "body", "skipped"}]
<1>1. /\ part[w] \in ReadParts /\ chosen[w] = Sample(Chunks(message[w], part[w]))
      /\ Chunks(message[w], part[w]) # {} /\ message[w] \in Messages
      /\ told \in [Workers -> SUBSET {"chain", "body", "skipped"}]
  BY DEF AnalysisInvariant, ThreadHolds, ReadsSample, EndPart, AnalysisTypes
<1>2. PICK own \in OwnWarnings :
        told' = [told EXCEPT ![w] = told[w] \cup
          (IF Sampled(w) /\ (part[w] = "body" \/ (part[w] = "chain" /\ NoticePlace(own) <= 4))
           THEN {part[w]} ELSE {})]
  BY DEF EndPart
<1>3. NoticePlace(own) <= 4
  BY WarningsAssumption DEF NoticePlace
<1>4. TooLong(w, part[w]) => Sampled(w)
  <2>1. Chunks(message[w], part[w]) \in SUBSET AllChunks /\ IsFiniteSet(Chunks(message[w], part[w]))
    BY <1>1, ChunksAreFinite DEF ReadParts
  <2>2. Cardinality(chosen[w]) \in Nat /\ Cardinality(chosen[w]) <= MaxChunks /\ MaxChunks \in Nat
        /\ Cardinality(Chunks(message[w], part[w])) \in Nat
    BY <1>1, <2>1, SampleIsSmall, AttemptsAssumption, FS_CardinalityType
  <2> QED BY <2>2 DEF TooLong, Sampled
<1> DEFINE notice == IF Sampled(w) /\ (part[w] = "body" \/ (part[w] = "chain" /\ NoticePlace(own) <= 4))
                     THEN {part[w]} ELSE {}
<1>5. /\ notice \subseteq {"chain", "body"}
      /\ part[w] \in {"chain", "body"} /\ TooLong(w, part[w]) => part[w] \in notice
  BY <1>1, <1>3, <1>4 DEF ReadParts
<1> HIDE DEF notice
<1>6. told' = [told EXCEPT ![w] = told[w] \cup notice]
  BY <1>2 DEF notice
<1>7. told[w] \cup notice \in SUBSET {"chain", "body", "skipped"}
  BY <1>1, <1>5
<1> QED BY <1>1, <1>5, <1>6, <1>7

\* The next part, or the summary, begins with the notice taken down.
LEMMA PartEnds ==
  ASSUME AnalysisInvariant, NEW w \in Workers, EndPart(w)
  PROVE  AnalysisInvariant'
<1>0. /\ AnalysisTypes /\ Domains /\ ClientTypes /\ ThreadHolds(w) /\ reading[w] /\ pending[w] = <<>>
      /\ part' = [part EXCEPT ![w] = After(w)]
      /\ reading' = [reading EXCEPT ![w] = FALSE]
      /\ chosen' = [chosen EXCEPT ![w] = {}]
      /\ made' = [made EXCEPT ![w] = <<>>]
      /\ sure' = [sure EXCEPT ![w] = FALSE]
      /\ UNCHANGED <<llm, message, pending, tries, outcome>>
  BY DEF AnalysisInvariant, Domains, EndPart
<1>1. chain' \in [Workers -> {"none", "sure", "unsure"}]
  BY <1>0 DEF EndPart, AnalysisTypes
<1>2. /\ part[w] \in ReadParts
      /\ told[w] \subseteq told'[w]
      /\ part[w] \in {"chain", "body"} /\ TooLong(w, part[w]) => part[w] \in told'[w]
      /\ \A v \in Workers \ {w} : told'[v] = told[v]
      /\ told' \in [Workers -> SUBSET {"chain", "body", "skipped"}]
  BY SampledIsNoticed
<1>3. ClientTypes'
  BY <1>0 DEF llm, ClientTypes, LlmTypeOK, Sent
<1>4. After(w) \in {"chain", "body", "final"}
  BY DEF After
<1>5. AnalysisTypes' /\ Domains'
  BY <1>0, <1>1, <1>2, <1>4 DEF AnalysisTypes, Domains, Parts
<1>6. \A v \in Workers \ {w} : SameThread(v)
  BY <1>0, <1>2 DEF SameThread, AnalysisTypes, Domains
<1>7. /\ part'[w] = After(w) /\ reading'[w] = FALSE /\ chosen'[w] = {} /\ made'[w] = <<>>
      /\ pending'[w] = <<>> /\ message'[w] = message[w] /\ outcome'[w] = outcome[w]
  BY <1>0 DEF AnalysisTypes, Domains
<1>8. outcome[w] = "none"
  BY <1>0, <1>2 DEF ThreadHolds, ReadParts
<1>9. ReadsSample(w)'
  BY <1>7 DEF ReadsSample
<1>10. Whole(pending[w], made[w], chosen[w])'
  <2>1. Whole(<<>>, <<>>, {})
    BY NothingMade DEF Whole
  <2> QED BY <1>7, <2>1
<1>11. ChainNoticed(w)'
  <2>1. CASE part[w] = "attachment"
    <3>1. After(w) = "chain"
      BY <2>1 DEF After
    <3> QED BY <1>7, <1>8, <3>1 DEF ChainNoticed
  <2>2. CASE part[w] = "chain"
    BY <1>2, <1>7, <2>2 DEF ChainNoticed, TooLong
  <2>3. CASE part[w] = "body"
    <3>1. ChainNoticed(w)
      BY <1>0 DEF ThreadHolds
    <3> QED BY <1>2, <1>7, <2>3, <3>1 DEF ChainNoticed, TooLong
  <2> QED BY <1>2, <2>1, <2>2, <2>3 DEF ReadParts
<1>12. BodyNoticed(w)'
  <2>1. CASE part[w] = "attachment"
    <3>1. After(w) = "chain"
      BY <2>1 DEF After
    <3> QED BY <1>7, <1>8, <3>1 DEF BodyNoticed
  <2>2. CASE part[w] = "chain"
    <3>1. CASE message[w].levels = <<>>
      <4>1. After(w) = "body"
        BY <2>2, <3>1 DEF After
      <4> QED BY <1>7, <1>8, <4>1 DEF BodyNoticed
    <3>2. CASE message[w].levels # <<>>
      BY <1>7, <3>2 DEF BodyNoticed
    <3> QED BY <3>1, <3>2
  <2>3. CASE part[w] = "body"
    BY <1>2, <1>7, <2>3 DEF BodyNoticed, TooLong
  <2> QED BY <1>2, <2>1, <2>2, <2>3 DEF ReadParts
<1>13. FileNoticed(w)' /\ (outcome[w] # "none" => part[w] = "ended")'
  BY <1>7, <1>8 DEF FileNoticed
<1>14. ThreadHolds(w)'
  BY <1>9, <1>10, <1>11, <1>12, <1>13 DEF ThreadHolds
<1> QED BY <1>3, <1>5, <1>6, <1>14, OthersKept

\* The steps of the summary itself.
FinalParts == {"final", "compact", "classify"}

\* A call is for a digest that is pending, or for the summary.
CallHasWork(w) ==
  call[w] # "none" => (reading[w] /\ pending[w] # <<>>) \/ part[w] \in FinalParts

CallsHaveWork == \A w \in Workers : CallHasWork(w)

\* In the final steps nothing is read any more.
LEMMA FinalIsAfterReading ==
  ASSUME AnalysisInvariant, NEW w \in Workers, part[w] \in FinalParts
  PROVE  reading[w] = FALSE /\ pending[w] = <<>> /\ made[w] = <<>> /\ chosen[w] = {} /\ outcome[w] = "none"
BY DEF AnalysisInvariant, ThreadHolds, ReadsSample, FinalParts, ReadParts, AnalysisTypes

\* What a step to another part, without the digests, must show.
LEMMA SummaryMoves ==
  ASSUME AnalysisInvariant, NEW w \in Workers, part[w] \in FinalParts,
         call[w] # "sent", TakeResult(w), UNCHANGED <<message, reading, chosen, pending, made, sure, chain>>,
         NEW to \in FinalParts \cup {"ended"}, part' = [part EXCEPT ![w] = to],
         tries' \in [Workers -> 0..FinalAttempts - 1],
         \/ UNCHANGED <<told, outcome>>
         \/ to = "ended" /\ UNCHANGED told /\ outcome' = [outcome EXCEPT ![w] = "permanent"]
         \/ /\ to = "ended" /\ outcome' = [outcome EXCEPT ![w] = "done"]
            /\ told' = [told EXCEPT ![w] = @ \cup Notices(w)]
  PROVE  AnalysisInvariant'
<1>0. /\ AnalysisTypes /\ Domains /\ ClientTypes /\ ThreadHolds(w)
      /\ reading[w] = FALSE /\ pending[w] = <<>> /\ made[w] = <<>> /\ chosen[w] = {} /\ outcome[w] = "none"
  BY FinalIsAfterReading DEF AnalysisInvariant, Domains
<1>1. ClientTypes'
  BY <1>0, ClientStepTypes
<1>2. outcome' \in [Workers -> Outcomes] /\ told' \in [Workers -> SUBSET {"chain", "body", "skipped"}]
  <2>1. Notices(w) \in SUBSET {"chain", "body", "skipped"}
    BY DEF Notices
  <2>2. told \in [Workers -> SUBSET {"chain", "body", "skipped"}] /\ outcome \in [Workers -> Outcomes]
    BY <1>0 DEF AnalysisTypes
  <2>3. told[w] \cup Notices(w) \in SUBSET {"chain", "body", "skipped"}
    BY <2>1, <2>2
  <2>4. told' \in [Workers -> SUBSET {"chain", "body", "skipped"}]
    BY <2>2, <2>3
  <2> QED BY <2>2, <2>4 DEF Outcomes
<1>3. part' \in [Workers -> Parts]
  BY <1>0 DEF AnalysisTypes, Parts, FinalParts
<1>4. AnalysisTypes' /\ Domains'
  BY <1>0, <1>2, <1>3 DEF AnalysisTypes, Domains
<1>5. \A v \in Workers \ {w} : SameThread(v)
  BY <1>0 DEF SameThread, AnalysisTypes
<1>6. /\ part'[w] = to /\ told[w] \subseteq told'[w]
      /\ outcome'[w] = "none" \/ to = "ended"
      /\ outcome'[w] = "done" => Notices(w) \subseteq told'[w]
      /\ UNCHANGED message
  BY <1>0 DEF AnalysisTypes
<1>7. ReadsSample(w)' /\ Whole(pending[w], made[w], chosen[w])'
  BY <1>0 DEF ThreadHolds, ReadsSample
<1>8. /\ TooLong(w, "chain") => "chain" \in told[w]
      /\ message[w].levels = <<>> /\ TooLong(w, "body") => "body" \in told[w]
  BY <1>0 DEF ThreadHolds, ChainNoticed, BodyNoticed, FinalParts
<1>9. ChainNoticed(w)' /\ BodyNoticed(w)' /\ FileNoticed(w)'
  BY <1>6, <1>8 DEF ChainNoticed, BodyNoticed, FileNoticed, TooLong, Notices
<1>10. (outcome[w] # "none" => part[w] = "ended")'
  BY <1>6
<1>11. ThreadHolds(w)'
  BY <1>7, <1>9, <1>10 DEF ThreadHolds
<1> QED BY <1>1, <1>4, <1>5, <1>11, OthersKept

\* However the summary is made, or not made, it is made after reading.
LEMMA SummarySteps ==
  ASSUME AnalysisInvariant, NEW w \in Workers,
         Summarised(w) \/ Unclassified(w) \/ Shortened(w) \/ NotSummarised(w)
  PROVE  AnalysisInvariant'
<1>0. AnalysisTypes
  BY DEF AnalysisInvariant
<1>1. tries \in [Workers -> 0..FinalAttempts - 1] /\ part \in [Workers -> Parts]
  BY <1>0 DEF AnalysisTypes
<1>2. CASE Summarised(w) \/ Unclassified(w)
  <2>1. /\ part[w] \in FinalParts /\ call[w] # "sent" /\ TakeResult(w)
        /\ UNCHANGED <<message, reading, chosen, pending, made, sure, chain>>
        /\ part' = [part EXCEPT ![w] = "ended"] /\ tries' \in [Workers -> 0..FinalAttempts - 1]
        /\ outcome' = [outcome EXCEPT ![w] = "done"]
        /\ told' = [told EXCEPT ![w] = @ \cup Notices(w)]
    BY <1>1, <1>2 DEF Summarised, Unclassified, Done, Ends, FinalParts
  <2> QED BY <2>1, SummaryMoves
<1>3. CASE Shortened(w)
  <2>1. /\ part[w] \in FinalParts /\ call[w] # "sent" /\ TakeResult(w)
        /\ UNCHANGED <<message, reading, chosen, pending, made, sure, chain>>
        /\ "classify" \in FinalParts
        /\ part' = [part EXCEPT ![w] = "classify"] /\ tries' \in [Workers -> 0..FinalAttempts - 1]
        /\ UNCHANGED <<told, outcome>>
    BY <1>1, <1>3 DEF Shortened, FinalParts
  <2> QED BY <2>1, SummaryMoves
<1>4. CASE NotSummarised(w)
  <2>1. /\ part[w] \in FinalParts /\ call[w] # "sent" /\ TakeResult(w)
        /\ UNCHANGED <<message, reading, chosen, pending, made, sure, chain, told>>
    BY <1>4 DEF NotSummarised, FinalParts
  <2>2. FinalAttempts \in Nat \ {0} /\ tries[w] \in 0..FinalAttempts - 1
    BY <1>1, AttemptsAssumption
  <2>3. CASE /\ tries[w] + 1 < FinalAttempts
             /\ tries' = [tries EXCEPT ![w] = tries[w] + 1]
             /\ UNCHANGED <<part, outcome>>
    <3>1. tries' \in [Workers -> 0..FinalAttempts - 1]
      BY <1>1, <2>2, <2>3
    <3>2. part' = [part EXCEPT ![w] = part[w]]
      BY <1>1, <2>3
    <3> QED BY <2>1, <2>3, <3>1, <3>2, SummaryMoves
  <2>4. CASE /\ tries[w] + 1 = FinalAttempts /\ part[w] = "final"
             /\ tries' = [tries EXCEPT ![w] = 0]
             /\ part' = [part EXCEPT ![w] = IF chain[w] = "sure" THEN "classify" ELSE "compact"]
             /\ UNCHANGED outcome
    <3>1. tries' \in [Workers -> 0..FinalAttempts - 1]
      BY <1>1, <2>2, <2>4
    <3>2. PICK to \in FinalParts : part' = [part EXCEPT ![w] = to]
      BY <2>4 DEF FinalParts
    <3> QED BY <2>1, <2>4, <3>1, <3>2, SummaryMoves
  <2>5. CASE tries[w] + 1 = FinalAttempts /\ part[w] = "compact" /\ Ends(w, "permanent") /\ UNCHANGED tries
    <3>1. part' = [part EXCEPT ![w] = "ended"] /\ outcome' = [outcome EXCEPT ![w] = "permanent"]
          /\ tries' \in [Workers -> 0..FinalAttempts - 1]
      BY <1>1, <2>5 DEF Ends
    <3> QED BY <2>1, <3>1, SummaryMoves
  <2> QED BY <1>4, <2>3, <2>4, <2>5 DEF NotSummarised
<1> QED BY <1>2, <1>3, <1>4

\* An error drops what was read and ends the thread without a summary.
LEMMA ErrorEnds ==
  ASSUME AnalysisInvariant, NEW w \in Workers, Raises(w)
  PROVE  AnalysisInvariant'
<1>0. /\ AnalysisTypes /\ Domains /\ ClientTypes /\ ThreadHolds(w)
      /\ reading' = [reading EXCEPT ![w] = FALSE]
      /\ pending' = [pending EXCEPT ![w] = <<>>]
      /\ made' = [made EXCEPT ![w] = <<>>]
      /\ chosen' = [chosen EXCEPT ![w] = {}]
      /\ part' = [part EXCEPT ![w] = "ended"]
      /\ TakeResult(w) /\ call[w] # "sent"
      /\ UNCHANGED <<message, sure, chain, told, tries>>
  BY DEF AnalysisInvariant, Domains, Raises, Ends
<1>1. PICK how \in {"external", "permanent"} : outcome' = [outcome EXCEPT ![w] = how]
  BY DEF Raises, Ends
<1>2. ClientTypes'
  BY <1>0, ClientStepTypes
<1>3. AnalysisTypes' /\ Domains'
  BY <1>0, <1>1 DEF AnalysisTypes, Domains, Parts, Outcomes
<1>4. \A v \in Workers \ {w} : SameThread(v)
  BY <1>0, <1>1 DEF SameThread, AnalysisTypes, Domains
<1>5. /\ reading'[w] = FALSE /\ pending'[w] = <<>> /\ made'[w] = <<>> /\ chosen'[w] = {}
      /\ part'[w] = "ended" /\ outcome'[w] = how
  BY <1>0, <1>1 DEF AnalysisTypes, Domains
<1>6. Whole(pending[w], made[w], chosen[w])'
  <2>1. Whole(<<>>, <<>>, {})
    BY NothingMade DEF Whole
  <2> QED BY <1>5, <2>1
<1>7. ReadsSample(w)' /\ ChainNoticed(w)' /\ BodyNoticed(w)' /\ FileNoticed(w)'
      /\ (outcome[w] # "none" => part[w] = "ended")'
  BY <1>5 DEF ReadsSample, ChainNoticed, BodyNoticed, FileNoticed
<1>8. ThreadHolds(w)'
  BY <1>6, <1>7 DEF ThreadHolds
<1> QED BY <1>2, <1>3, <1>4, <1>8, OthersKept

-----------------------------------------------------------------------------
(* The invariant holds. *)

\* It holds at the beginning.
LEMMA AnalysisInit == Init => AnalysisInvariant /\ CallsHaveWork
<1> SUFFICES ASSUME Init PROVE AnalysisInvariant /\ CallsHaveWork
  OBVIOUS
<1>1. ClientTypes
  <2>1. LlmTypeOK
    <3>1. /\ 0 \in 0..MaxRetries /\ 0 \in 0..Threshold
          /\ Budget \in 0..Budget /\ MaxRequests \in 0..MaxRequests
      BY LimitsAssumption
    <3>2. "none" \in CallStates
      BY DEF CallStates
    <3> QED BY <3>1, <3>2 DEF Init, LlmInit, LlmTypeOK
  <2>2. Sent = {} /\ permits = MaxRequests
    BY DEF Init, LlmInit, Sent
  <2>3. Cardinality({}) = 0 /\ MaxRequests \in Nat
    BY FS_EmptySet, LimitsAssumption
  <2> QED BY <2>1, <2>2, <2>3 DEF ClientTypes
<1>2. AnalysisTypes
  <2>1. message \in [Workers -> Messages]
    BY AssignmentsAssumption DEF Init
  <2>2. 0 \in 0..FinalAttempts - 1
    BY AttemptsAssumption
  <2> QED BY <2>1, <2>2 DEF Init, AnalysisTypes, Parts, Outcomes
<1>3. DOMAIN pending = Workers /\ DOMAIN made = Workers /\ DOMAIN chosen = Workers
  BY DEF Init
<1>4. ASSUME NEW w \in Workers PROVE ThreadHolds(w)
  <2>1. Whole(<<>>, <<>>, {})
    BY NothingMade DEF Whole
  <2> QED BY <2>1 DEF Init, ThreadHolds, ReadsSample, ChainNoticed, BodyNoticed, FileNoticed
<1>5. CallsHaveWork
  BY DEF Init, LlmInit, CallsHaveWork, CallHasWork
<1> QED BY <1>1, <1>2, <1>3, <1>4, <1>5 DEF AnalysisInvariant

\* A thread that begins no call, and leaves the calls of others alone, keeps it.
LEMMA CallsEnd ==
  ASSUME CallsHaveWork, NEW w \in Workers, call'[w] = "none",
         \A v \in Workers \ {w} : call'[v] = call[v] /\ reading'[v] = reading[v]
                                  /\ pending'[v] = pending[v] /\ part'[v] = part[v]
  PROVE  CallsHaveWork'
BY DEF CallsHaveWork, CallHasWork

\* A step within a call leaves the work it is for.
LEMMA CallStepKeepsWork ==
  ASSUME ClientTypes, CallsHaveWork, NEW w \in Workers, CallStep(w), UNCHANGED <<reading, pending, part>>
  PROVE  CallsHaveWork'
<1>1. call[w] # "none" /\ \A v \in Workers \ {w} : call'[v] = call[v]
  BY DEF ClientTypes, LlmTypeOK, CallStep, Check, Send, Answered, Invalid, FailsForNow, IsRejected
<1> QED BY <1>1 DEF CallsHaveWork, CallHasWork

\* So a call always has work: an answer finds its digest still pending.
LEMMA WorkStep ==
  ASSUME AnalysisInvariant, CallsHaveWork, [Next]_vars
  PROVE  CallsHaveWork'
<1>0. /\ AnalysisTypes /\ ClientTypes /\ Domains /\ call \in [Workers -> CallStates]
      /\ \A v \in Workers : ThreadHolds(v)
  BY DEF AnalysisInvariant, Domains, ClientTypes, LlmTypeOK
<1>1. CASE UNCHANGED vars \/ (Elapse /\ UNCHANGED analysis)
  BY <1>1 DEF vars, llm, analysis, Elapse, CallsHaveWork, CallHasWork
<1>2. ASSUME NEW w \in Workers, Step(w)
      PROVE  CallsHaveWork'
  <2>1. CASE CallStep(w) /\ UNCHANGED analysis
    BY <1>0, <2>1, CallStepKeepsWork DEF analysis
  <2>2. CASE BeginDigest(w) \/ BeginSummary(w)
    <3>1. /\ (reading[w] /\ pending[w] # <<>>) \/ part[w] \in FinalParts
          /\ UNCHANGED <<reading, pending, part>> /\ \A v \in Workers \ {w} : call'[v] = call[v]
      BY <1>0, <2>2 DEF BeginDigest, BeginSummary, analysis, StartCall, FinalParts
    <3> QED BY <3>1 DEF CallsHaveWork, CallHasWork
  <2>3. CASE BeginPart(w)
    <3>1. call[w] = "none"
      BY <2>3 DEF BeginPart, CallsHaveWork, CallHasWork, FinalParts
    <3>2. /\ call' = call
          /\ \A v \in Workers \ {w} : reading'[v] = reading[v] /\ pending'[v] = pending[v] /\ part'[v] = part[v]
      BY <1>0, <2>3 DEF BeginPart, llm, AnalysisTypes, Domains
    <3> QED BY <3>1, <3>2, CallsEnd
  <2>4. CASE Reduce(w) \/ EndPart(w)
    <3>1. call[w] = "none"
      <4>1. reading[w] /\ pending[w] = <<>>
        BY <2>4 DEF Reduce, EndPart
      <4>2. part[w] \notin FinalParts
        BY <1>0, <4>1 DEF ThreadHolds, ReadsSample, ReadParts, FinalParts
      <4> QED BY <4>1, <4>2 DEF CallsHaveWork, CallHasWork
    <3>2. call' = call
      BY <2>4 DEF Reduce, EndPart, llm
    <3>3. \A v \in Workers \ {w} : reading'[v] = reading[v] /\ pending'[v] = pending[v] /\ part'[v] = part[v]
      BY <1>0, <2>4 DEF Reduce, EndPart, AnalysisTypes, Domains
    <3> QED BY <3>1, <3>2, <3>3, CallsEnd
  <2>5. CASE Digest(w) \/ Raises(w) \/ Summarised(w) \/ Unclassified(w) \/ Shortened(w) \/ NotSummarised(w)
    <3>1. TakeResult(w)
      BY <2>5 DEF Digest, Raises, Summarised, Unclassified, Shortened, NotSummarised
    <3>2. call'[w] = "none" /\ \A v \in Workers \ {w} : call'[v] = call[v]
      BY <1>0, <3>1 DEF TakeResult
    <3>3. \A v \in Workers \ {w} : reading'[v] = reading[v] /\ pending'[v] = pending[v] /\ part'[v] = part[v]
      BY <1>0, <2>5 DEF Digest, Raises, Summarised, Unclassified, Shortened, NotSummarised, Ends, Done,
           AnalysisTypes, Domains
    <3> QED BY <3>2, <3>3, CallsEnd
  <2> QED BY <1>2, <2>1, <2>2, <2>3, <2>4, <2>5 DEF Step
<1> QED BY <1>1, <1>2 DEF Next

\* Every step keeps the invariant.
LEMMA AnalysisStep ==
  ASSUME AnalysisInvariant, CallsHaveWork, [Next]_vars
  PROVE  AnalysisInvariant'
<1>0. ClientTypes
  BY DEF AnalysisInvariant
<1>1. CASE UNCHANGED vars
  <2>1. ClientTypes' /\ UNCHANGED analysis
    BY <1>0, <1>1 DEF vars, llm, analysis, ClientTypes, LlmTypeOK, Sent
  <2> QED BY <2>1, ClientSteps
<1>2. CASE Elapse /\ UNCHANGED analysis
  <2>1. ClientTypes'
    BY <1>0, <1>2 DEF Elapse, ClientTypes, LlmTypeOK, Sent
  <2> QED BY <1>2, <2>1, ClientSteps
<1>3. ASSUME NEW w \in Workers, Step(w)
      PROVE  AnalysisInvariant'
  <2>1. CASE (CallStep(w) /\ UNCHANGED analysis) \/ BeginDigest(w) \/ BeginSummary(w)
    <3>1. (CallStep(w) \/ StartCall(w)) /\ UNCHANGED analysis
      BY <2>1 DEF BeginDigest, BeginSummary
    <3>2. ClientTypes'
      BY <1>0, <3>1, ClientStepTypes
    <3> QED BY <3>1, <3>2, ClientSteps
  <2>2. CASE Digest(w)
    <3>1. pending[w] # <<>>
      <4>1. reading[w] /\ call[w] # "none"
        BY <2>2 DEF Digest
      <4>2. part[w] \notin FinalParts
        BY <4>1 DEF AnalysisInvariant, ThreadHolds, ReadsSample, ReadParts, FinalParts
      <4> QED BY <4>1, <4>2 DEF CallsHaveWork, CallHasWork
    <3> QED BY <2>2, <3>1, DigestIsMade
  <2>3. CASE BeginPart(w)
    BY <2>3, PartBegins
  <2>4. CASE Reduce(w)
    BY <2>4, DigestsAreReduced
  <2>5. CASE EndPart(w)
    BY <2>5, PartEnds
  <2>6. CASE Summarised(w) \/ Unclassified(w) \/ Shortened(w) \/ NotSummarised(w)
    BY <2>6, SummarySteps
  <2>7. CASE Raises(w)
    BY <2>7, ErrorEnds
  <2> QED BY <1>3, <2>1, <2>2, <2>3, <2>4, <2>5, <2>6, <2>7 DEF Step
<1> QED BY <1>1, <1>2, <1>3 DEF Next

\* Both together are an invariant.
LEMMA AnalysisCorrect == Spec => [](AnalysisInvariant /\ CallsHaveWork)
<1>1. AnalysisInvariant /\ CallsHaveWork /\ [Next]_vars => (AnalysisInvariant /\ CallsHaveWork)'
  BY AnalysisStep, WorkStep
<1> QED BY <1>1, AnalysisInit, PTL DEF Spec

-----------------------------------------------------------------------------
(* The theorems. *)

\* Every variable has its type, and the client's permits count the requests that are
\* under way in all threads.
THEOREM AnalysisTypesHold == Spec => []TypeOK
<1>1. AnalysisInvariant => TypeOK
  BY DEF AnalysisInvariant, ClientTypes, AnalysisTypes, TypeOK, Sent
<1> QED BY <1>1, AnalysisCorrect, PTL

\* Whatever the cuts between the groups and however many rounds there are, no chunk
\* that was chosen is lost, and none is counted twice.
THEOREM NoChunkIsLost == Spec => []EvidenceIsWhole
<1>1. AnalysisInvariant => EvidenceIsWhole
  <2> SUFFICES ASSUME AnalysisInvariant, NEW w \in Workers
               PROVE  /\ All(pending[w] \o made[w]) = chosen[w]
                      /\ \A m, n \in DOMAIN (pending[w] \o made[w]) : m # n =>
                           (pending[w] \o made[w])[m] \cap (pending[w] \o made[w])[n] = {}
    BY DEF EvidenceIsWhole
  <2>1. Whole(pending[w], made[w], chosen[w])
    BY DEF AnalysisInvariant, ThreadHolds
  <2> QED BY <2>1, WholeTogether
<1> QED BY <1>1, AnalysisCorrect, PTL

\* Samples are even for every length and limit, and what is read is such a sample.
THEOREM SampleIsAlwaysEven == Spec => []SampleIsEven
<1>1. AnalysisInvariant => SampleIsEven
  <2>1. SmallSamplesAreEven
    <3>1. 1..40 \subseteq Nat \ {0} /\ 2..12 \subseteq Nat \ {0, 1}
      OBVIOUS
    <3> QED BY <3>1, SamplesAreEven DEF SmallSamplesAreEven
  <2>2. ASSUME AnalysisInvariant, NEW w \in Workers, reading[w]
        PROVE  LET chunks == Chunks(message[w], part[w]) IN
                 /\ Cardinality(chosen[w]) <= MaxChunks
                 /\ MaxChunks > 1 =>
                      \A c \in chunks : Index(chunks, c) \in {0, Cardinality(chunks) - 1} => c \in chosen[w]
    <3>1. /\ part[w] \in ReadParts /\ message[w] \in Messages
          /\ Chunks(message[w], part[w]) # {}
          /\ chosen[w] = Sample(Chunks(message[w], part[w]))
      BY <2>2 DEF AnalysisInvariant, AnalysisTypes, ThreadHolds, ReadsSample
    <3>2. Chunks(message[w], part[w]) \in SUBSET AllChunks /\ IsFiniteSet(Chunks(message[w], part[w]))
      BY <3>1, ChunksAreFinite DEF ReadParts
    <3> QED BY <3>1, <3>2, SampleIsSmall
  <2> QED BY <2>1, <2>2 DEF SampleIsEven
<1> QED BY <1>1, AnalysisCorrect, PTL

\* A finished summary says what was sampled or could not be read, whichever way it
\* was made in.
THEOREM NoticesAreNeverLost == Spec => []NoticesReachTheSummary
<1>1. AnalysisInvariant => NoticesReachTheSummary
  <2> SUFFICES ASSUME AnalysisInvariant, NEW w \in Workers, outcome[w] = "done"
               PROVE  Expected(message[w]) \subseteq told[w]
    BY DEF NoticesReachTheSummary
  <2>1. ChainNoticed(w) /\ BodyNoticed(w) /\ FileNoticed(w)
    BY DEF AnalysisInvariant, ThreadHolds
  <2>2. /\ TooLong(w, "chain") => "chain" \in told[w]
        /\ message[w].levels = <<>> /\ TooLong(w, "body") => "body" \in told[w]
        /\ Notices(w) \subseteq told[w]
    BY <2>1 DEF ChainNoticed, BodyNoticed, FileNoticed
  <2> QED BY <2>2 DEF Expected, Notices, TooLong
<1> QED BY <1>1, AnalysisCorrect, PTL

=============================================================================
