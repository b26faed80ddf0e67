---------------------------- MODULE ListingProofs ----------------------------
(***************************************************************************)
(* Theorems of EmailListing, for every set of messages, page size, horizon *)
(* and length of a month.                                                  *)
(*                                                                         *)
(* First months and the order of messages, then what one query returns and *)
(* what a round of the loop collects, then the invariant of a walk: what   *)
(* was there when it began has been listed, is in the answer being         *)
(* collected, or is older than the place where the loop is.  Last the      *)
(* statistics: their sums are numbers of pairs, and what has been counted  *)
(* up to a month lies between what was there, with one content throughout, *)
(* since the request began and what has been there at some time.           *)
(***************************************************************************)
EXTENDS EmailListing, OrderTheorems, SequenceTheorems

-----------------------------------------------------------------------------
(* Months, and the order of messages. *)

LEMMA MonthIsDivision ==
  \A i \in Int : /\ MonthOf(i) \in Int
                 /\ MonthLength * MonthOf(i) <= i /\ i < MonthLength * MonthOf(i) + MonthLength
<1>1. \A i \in Int : i \div MonthLength \in Int
  BY MonthAssumption
<1>2. \A i \in Int : /\ MonthLength * (i \div MonthLength) <= i
                     /\ i < MonthLength * (i \div MonthLength) + MonthLength
  BY MonthAssumption
<1> QED BY <1>1, <1>2 DEF MonthOf

LEMMA MonthType == \A i \in Int : MonthOf(i) \in Int
BY MonthIsDivision

LEMMA OtherMonth ==
  ASSUME NEW q \in Int, NEW r \in Int, q < r
  PROVE  q * MonthLength + MonthLength <= r * MonthLength
BY MonthAssumption

\* A later month is later.
LEMMA LaterMonth ==
  ASSUME NEW i \in Int, NEW j \in Int, MonthOf(j) < MonthOf(i)
  PROVE  j < i
<1>1. MonthOf(i) \in Int /\ MonthOf(j) \in Int
  BY MonthIsDivision
<1>2. MonthOf(j) * MonthLength + MonthLength <= MonthOf(i) * MonthLength
  BY <1>1, OtherMonth
<1> QED BY <1>1, <1>2, MonthIsDivision, MonthAssumption

LEMMA MonthBefore ==
  ASSUME NEW i \in Int
  PROVE  PreviousMonth(i) \in Int /\ MonthOf(PreviousMonth(i)) = MonthOf(i) - 1
<1>1. \A k \in Int : (k * MonthLength) \div MonthLength = k /\ k * MonthLength \in Int
  BY MonthAssumption
<1>2. MonthOf(i) - 1 \in Int
  BY MonthIsDivision
<1> QED BY <1>1, <1>2 DEF PreviousMonth, FirstOf, MonthOf

LEMMA MessageFields == \A m \in Messages : m[1] \in Nat /\ m[2] \in Nat /\ m # None
BY MessagesAssumption

LEMMA MessageMonth == \A m \in Messages : MonthOf(m[1]) \in Int
BY MessageFields, MonthType

LEMMA NewerOrder ==
  /\ \A m \in Messages : ~Newer(m, m)
  /\ \A a, b, c \in Messages : Newer(a, b) /\ Newer(b, c) => Newer(a, c)
  /\ \A a, b \in Messages : a = b \/ Newer(a, b) \/ Newer(b, a)
<1>1. \A a, b \in Messages : a[1] = b[1] /\ a[2] = b[2] => a = b
  BY MessagesAssumption
<1> QED BY <1>1, MessageFields DEF Newer

LEMMA NewerMonth ==
  ASSUME NEW m \in Messages, NEW n \in Messages
  PROVE  /\ MonthOf(m[1]) \in Int
         /\ MonthOf(n[1]) < MonthOf(m[1]) => Newer(m, n)
         /\ Newer(m, n) => MonthOf(n[1]) <= MonthOf(m[1])
<1>1. m[1] \in Int /\ n[1] \in Int
  BY MessageFields
<1>2. MonthOf(n[1]) < MonthOf(m[1]) => n[1] < m[1]
  BY <1>1, LaterMonth
<1>3. MonthOf(m[1]) < MonthOf(n[1]) => m[1] < n[1]
  BY <1>1, LaterMonth
<1>4. MonthOf(m[1]) \in Int /\ MonthOf(n[1]) \in Int
  BY <1>1, MonthIsDivision
<1> QED BY <1>1, <1>2, <1>3, <1>4 DEF Newer

-----------------------------------------------------------------------------
(* The order of an answer. *)

Descending(s) == \A i, j \in DOMAIN s : i < j => Newer(s[i], s[j])

NewerIn(S) == {pair \in S \X S : Newer(pair[1], pair[2])}

LEMMA NewerInPairs ==
  ASSUME NEW S
  PROVE  \A m, n \in S : <<m, n>> \in NewerIn(S) <=> Newer(m, n)
BY DEF NewerIn

\* NewestFirst lists a set without loss and from the newest on.
LEMMA NewestFirstSorts ==
  ASSUME NEW S, S \subseteq Messages
  PROVE  /\ NewestFirst(S) \in Seq(Messages) /\ Len(NewestFirst(S)) = Cardinality(S)
         /\ Cardinality(S) \in Nat
         /\ ToSet(NewestFirst(S)) = S
         /\ Descending(NewestFirst(S))
<1> DEFINE R == NewerIn(S)
           place(m) == Cardinality({k \in S : Newer(k, m)}) + 1
<1>1. IsFiniteSet(S)
  BY MessagesAssumption, FS_Subset
<1>2. \A k, m \in S : <<k, m>> \in R <=> Newer(k, m)
  BY NewerInPairs
<1> HIDE DEF R
<1>3. /\ \A x \in S : <<x, x>> \notin R
      /\ \A x, y, z \in S : <<x, y>> \in R /\ <<y, z>> \in R => <<x, z>> \in R
      /\ \A x, y \in S : x = y \/ <<x, y>> \in R \/ <<y, x>> \in R
  BY <1>2, NewerOrder
<1>4. \A m \in S : {k \in S : Newer(k, m)} = Below(S, R, m)
  BY <1>2 DEF Below
<1>5. \A m \in S : place(m) = Cardinality(Below(S, R, m)) + 1
  BY <1>4
<1>6. \A m \in S : Cardinality(Below(S, R, m)) \in Nat
  BY <1>1, FS_Subset, FS_CardinalityType DEF Below
<1>7. /\ Cardinality(S) \in Nat
      /\ \A x \in S : Cardinality(Below(S, R, x)) + 1 \in 1..Cardinality(S)
      /\ \A x, y \in S :
           Cardinality(Below(S, R, x)) = Cardinality(Below(S, R, y)) => x = y
      /\ \A n \in 1..Cardinality(S) :
           \E x \in S : Cardinality(Below(S, R, x)) + 1 = n
  BY <1>1, <1>3, Places
<1>8. \A x, y \in S : <<x, y>> \in R =>
        Cardinality(Below(S, R, x)) < Cardinality(Below(S, R, y))
  BY <1>1, <1>3, PlacesAscend
<1>9. NewestFirst(S) = [n \in 1..Cardinality(S) |-> CHOOSE m \in S : place(m) = n]
  BY DEF NewestFirst
<1>10. \A m \in S : place(m) \in 1..Cardinality(S)
  BY <1>5, <1>7
<1>11. \A x, y \in S : place(x) = place(y) => x = y
  BY <1>5, <1>6, <1>7
<1>12. \A n \in 1..Cardinality(S) : \E m \in S : place(m) = n
  BY <1>5, <1>7
<1> HIDE DEF place
<1>13. ASSUME NEW x \in S, NEW y \in S, Newer(x, y)
       PROVE  place(x) < place(y)
  <2>1. Cardinality(Below(S, R, x)) < Cardinality(Below(S, R, y))
    BY <1>2, <1>8, <1>13
  <2>2. /\ Cardinality(Below(S, R, x)) \in Nat /\ place(x) = Cardinality(Below(S, R, x)) + 1
        /\ Cardinality(Below(S, R, y)) \in Nat /\ place(y) = Cardinality(Below(S, R, y)) + 1
    BY <1>5, <1>6
  <2> QED BY <2>1, <2>2
<1>14. \A n \in 1..Cardinality(S) : NewestFirst(S)[n] \in S /\ place(NewestFirst(S)[n]) = n
  BY <1>9, <1>12
<1>15. NewestFirst(S) \in [1..Cardinality(S) -> Messages]
  BY <1>9, <1>14
<1>16. /\ NewestFirst(S) \in Seq(Messages) /\ Len(NewestFirst(S)) = Cardinality(S)
       /\ DOMAIN NewestFirst(S) = 1..Cardinality(S)
  BY <1>7, <1>15
<1>17. ToSet(NewestFirst(S)) = S
  <2>1. \A m \in S : place(m) \in 1..Cardinality(S) /\ NewestFirst(S)[place(m)] = m
    BY <1>10, <1>11, <1>14
  <2> QED BY <1>14, <1>16, <2>1 DEF ToSet
<1>18. ASSUME NEW i \in 1..Cardinality(S), NEW j \in 1..Cardinality(S), i < j
       PROVE  Newer(NewestFirst(S)[i], NewestFirst(S)[j])
  <2>1. /\ NewestFirst(S)[i] \in S /\ NewestFirst(S)[j] \in S
        /\ place(NewestFirst(S)[i]) = i /\ place(NewestFirst(S)[j]) = j
    BY <1>14
  <2>2. ~(place(NewestFirst(S)[j]) < place(NewestFirst(S)[i]))
    BY <1>18, <2>1
  <2>3. NewestFirst(S)[i] # NewestFirst(S)[j]
    BY <1>18, <2>1
  <2> QED BY <1>13, <2>1, <2>2, <2>3, NewerOrder
<1> QED BY <1>7, <1>16, <1>17, <1>18 DEF Descending

-----------------------------------------------------------------------------
(* One query. *)

\* The newest of a set, and all of them if there are fewer than needed.
NewestOf(S, needed, page) ==
  /\ page \in Seq(Messages) /\ Len(page) <= needed
  /\ Descending(page)
  /\ ToSet(page) \subseteq S
  /\ \A m \in S \ ToSet(page) : Len(page) = needed /\ \A n \in ToSet(page) : Newer(n, m)

LEMMA QueryReturns ==
  ASSUME rows \subseteq Messages, NEW moment, NEW cursor, NEW needed \in Nat \ {0}
  PROVE  NewestOf(OfMonth(moment, cursor), needed, ListMonth(moment, needed, cursor))
<1> DEFINE found == OfMonth(moment, cursor)
           sorted == NewestFirst(OfMonth(moment, cursor))
           size == IF needed < Len(sorted) THEN needed ELSE Len(sorted)
           page == SubSeq(sorted, 1, size)
<1>1. found \subseteq Messages
  BY DEF OfMonth
<1>2. /\ sorted \in Seq(Messages) /\ Len(sorted) \in Nat
      /\ ToSet(sorted) = found /\ Descending(sorted)
  BY <1>1, NewestFirstSorts
<1>3. ListMonth(moment, needed, cursor) = page
  BY DEF ListMonth
<1> HIDE DEF sorted, found
<1>4. size \in Nat /\ size <= Len(sorted) /\ size <= needed /\ (size < needed => size = Len(sorted))
  BY <1>2
<1> HIDE DEF size
<1>5. DOMAIN sorted = 1..Len(sorted) /\ \A n \in 1..Len(sorted) : sorted[n] \in Messages
  BY <1>2, LenProperties, ElementOfSeq
<1>6. /\ page \in Seq(Messages) /\ Len(page) = IF 1 <= size THEN size - 1 + 1 ELSE 0
      /\ \A i \in 1..size - 1 + 1 : page[i] = sorted[1 + i - 1]
  <2>0. \A i \in 1..size : i \in 1..Len(sorted)
    BY <1>2, <1>4
  <2>1. \A i \in 1..size : sorted[i] \in Messages
    BY <1>5, <2>0
  <2> QED BY <1>2, <1>4, <2>1, SubSeqProperties
<1> HIDE DEF page
<1>7. Len(page) = size /\ DOMAIN page = 1..size
  BY <1>4, <1>6, LenProperties
<1>8. \A i \in 1..size : page[i] = sorted[i] /\ i \in DOMAIN sorted
  <2> TAKE i \in 1..size
  <2>1. i \in 1..size - 1 + 1 /\ 1 + i - 1 = i /\ i \in 1..Len(sorted)
    BY <1>4
  <2> QED BY <1>5, <1>6, <2>1
<1>9. Descending(page)
  BY <1>2, <1>7, <1>8 DEF Descending
<1>10. ToSet(page) \subseteq found
  BY <1>2, <1>7, <1>8 DEF ToSet
<1>11. ASSUME NEW m \in found, m \notin ToSet(page)
       PROVE  Len(page) = needed /\ \A n \in ToSet(page) : Newer(n, m)
  <2>1. PICK j \in 1..Len(sorted) : sorted[j] = m
    BY <1>2, <1>5 DEF ToSet
  <2>2. ~(j <= size)
    BY <1>4, <1>7, <1>8, <1>11, <2>1 DEF ToSet
  <2>3. Len(page) = needed
    BY <1>4, <1>7, <2>1, <2>2
  <2>4. ASSUME NEW i \in 1..size PROVE Newer(page[i], m)
    BY <1>2, <1>4, <1>5, <1>8, <2>1, <2>2 DEF Descending
  <2> QED BY <1>7, <2>3, <2>4 DEF ToSet
<1> QED BY <1>3, <1>4, <1>6, <1>7, <1>9, <1>10, <1>11 DEF found, NewestOf

LEMMA Interval == \A n \in Nat : IsFiniteSet(1..n) /\ Cardinality(1..n) = n
BY FS_Interval

\* The filter keeps the order, and what it admits.
LEMMA FilterKeeps ==
  ASSUME NEW page \in Seq(Messages), Descending(page), NEW filter
  PROVE  /\ Admitted(filter, page) \in Seq(Messages)
         /\ Len(Admitted(filter, page)) <= Len(page)
         /\ ToSet(Admitted(filter, page)) = {m \in ToSet(page) : Admits(filter, m)}
         /\ Descending(Admitted(filter, page))
         /\ (\A m \in ToSet(page) : Admits(filter, m)) => Len(Admitted(filter, page)) = Len(page)
<1> DEFINE kept == {m \in ToSet(page) : Admits(filter, m)}
<1>1. Len(page) \in Nat /\ DOMAIN page = 1..Len(page) /\ \A n \in 1..Len(page) : page[n] \in Messages
  BY LenProperties, ElementOfSeq
<1>2. ToSet(page) \subseteq Messages /\ kept \subseteq ToSet(page) /\ kept \subseteq Messages
  BY <1>1 DEF ToSet
<1>3. IsFiniteSet(ToSet(page)) /\ Cardinality(ToSet(page)) = Len(page)
  <2>1. \A i, j \in 1..Len(page) : i # j => page[i] # page[j]
    <3> SUFFICES ASSUME NEW i \in 1..Len(page), NEW j \in 1..Len(page), i < j PROVE page[i] # page[j]
      BY <1>1
    <3>1. Newer(page[i], page[j])
      BY <1>1 DEF Descending
    <3> QED BY <1>1, <3>1, NewerOrder
  <2>2. page \in Bijection(1..Len(page), ToSet(page))
    <3>1. page \in [1..Len(page) -> ToSet(page)]
      BY <1>1 DEF ToSet
    <3>2. \A m \in ToSet(page) : \E n \in 1..Len(page) : page[n] = m
      BY <1>1 DEF ToSet
    <3> QED BY <2>1, <3>1, <3>2 DEF Bijection, Injection, Surjection, IsInjective
  <2>3. IsFiniteSet(1..Len(page)) /\ Cardinality(1..Len(page)) = Len(page)
    BY <1>1, Interval
  <2>4. ExistsBijection(1..Len(page), ToSet(page))
    BY <2>2 DEF ExistsBijection
  <2> QED BY <2>3, <2>4, FS_Bijection
<1>4. Cardinality(kept) <= Cardinality(ToSet(page)) /\ Cardinality(kept) \in Nat
  BY <1>2, <1>3, FS_Subset, FS_CardinalityType
<1>5. Admitted(filter, page) = NewestFirst(kept)
  BY DEF Admitted
<1>6. (\A m \in ToSet(page) : Admits(filter, m)) => kept = ToSet(page)
  OBVIOUS
<1>7. kept = {m \in ToSet(page) : Admits(filter, m)}
  OBVIOUS
<1> HIDE DEF kept
<1>8. /\ NewestFirst(kept) \in Seq(Messages) /\ Len(NewestFirst(kept)) = Cardinality(kept)
      /\ ToSet(NewestFirst(kept)) = kept /\ Descending(NewestFirst(kept))
  BY <1>2, NewestFirstSorts
<1> QED BY <1>3, <1>4, <1>5, <1>6, <1>7, <1>8

-----------------------------------------------------------------------------
(* The invariant. *)

Walks ==
  [at : {"idle", "query", "page", "done"}, filter : Filters \cup {NoWalk.filter},
   moment : Int, cursor : Messages \cup {None}, months : 0..Horizon, items : Seq(Messages),
   listed : SUBSET Messages, last : Messages \cup {None}, descends : BOOLEAN,
   present : SUBSET Messages]

Types ==
  /\ rows \subseteq Messages
  /\ walk \in Walks
  /\ Len(walk.items) <= Limit
  /\ walk.present \subseteq rows /\ walk.listed \subseteq rows
  /\ \A m \in walk.listed : Admits(walk.filter, m)

\* What the loop has yet to come to.
Ahead(m) ==
  \/ MonthOf(m[1]) < MonthOf(walk.moment)
  \/ /\ MonthOf(m[1]) = MonthOf(walk.moment)
     /\ walk.cursor # None => Newer(walk.cursor, m)

\* A cursor is the last item listed; it is in the month the loop begins with, which
\* otherwise is the present one.
CursorIsLast ==
  /\ walk.at = "query" /\ walk.cursor # None =>
       /\ walk.items = <<>>
       /\ walk.last = walk.cursor
       /\ walk.moment = walk.cursor[1]
       /\ Admits(walk.filter, walk.cursor)
  /\ walk.at = "query" /\ walk.months = 0 => walk.cursor # None \/ walk.moment = Now

\* The answer being collected is in order, goes on where the last one ended, and
\* is from months the loop has been in.
ItemsInOrder ==
  walk.at = "query" =>
    /\ Descending(walk.items)
    /\ \A m \in ToSet(walk.items) :
         /\ m \in rows /\ Admits(walk.filter, m)
         /\ MonthOf(walk.moment) < MonthOf(m[1]) /\ MonthOf(m[1]) <= MonthOf(Now)
         /\ walk.last # None => Newer(walk.last, m)
    /\ walk.cursor = None /\ walk.last # None => MonthOf(walk.moment) < MonthOf(walk.last[1])
    /\ MonthOf(walk.moment) <= MonthOf(Now) - walk.months

\* Between two requests.
PageEndsAtCursor ==
  walk.at = "page" =>
    /\ walk.cursor # None /\ walk.last = walk.cursor /\ walk.items = <<>> /\ walk.months = 0
    /\ MonthOf(walk.cursor[1]) <= MonthOf(Now) /\ Admits(walk.filter, walk.cursor)

\* The messages a walk with this filter is to get.
Wanted(filter, m) == Visible(m) /\ Admits(filter, m) /\ WithinBounds(filter, m)

\* No such message that was there when the walk began is lost.
NothingLost ==
  \A m \in walk.present : Wanted(walk.filter, m) =>
    \/ m \in walk.listed
    \/ walk.at = "query" /\ (m \in ToSet(walk.items) \/ Ahead(m))
    \/ walk.at = "page" /\ Newer(walk.cursor, m)

\* A walk that is at rest has nothing that was there when it began.
IdleIsEmpty == walk.at = "idle" => walk = NoWalk

WalkInvariant ==
  /\ Types /\ walk.descends
  /\ CursorIsLast /\ ItemsInOrder /\ PageEndsAtCursor /\ NothingLost /\ IdleIsEmpty

LEMMA Elements ==
  ASSUME NEW s \in Seq(Messages)
  PROVE  /\ Len(s) \in Nat /\ DOMAIN s = 1..Len(s)
         /\ \A n \in 1..Len(s) : s[n] \in Messages /\ s[n] \in ToSet(s)
         /\ ToSet(s) \subseteq Messages
         /\ \A m \in ToSet(s) : \E n \in 1..Len(s) : s[n] = m
<1>1. Len(s) \in Nat /\ DOMAIN s = 1..Len(s) /\ \A n \in 1..Len(s) : s[n] \in Messages
  BY LenProperties, ElementOfSeq
<1> QED BY <1>1 DEF ToSet

LEMMA NoWalkIsWalk == NoWalk \in Walks /\ NoWalk.items = <<>> /\ NoWalk.listed = {} /\ NoWalk.present = {}
<1>1. <<>> \in Seq(Messages) /\ 0 \in 0..Horizon /\ Now \in Int
  BY MonthAssumption
<1> QED BY <1>1 DEF NoWalk, Walks

\* What the client has after an answer.
LEMMA AnswerIs ==
  ASSUME walk \in Walks, walk.descends, NEW items \in Seq(Messages), NEW more \in BOOLEAN,
         more => items # <<>>,
         Descending(items), \A m \in ToSet(items) : walk.last # None => Newer(walk.last, m),
         Answer(items, more)
  PROVE  /\ walk' \in Walks /\ walk'.descends
         /\ walk'.at = IF more THEN "page" ELSE "done"
         /\ walk'.cursor = IF more THEN Last(items) ELSE None
         /\ walk'.last = IF items = <<>> THEN walk.last ELSE Last(items)
         /\ walk'.listed = walk.listed \cup ToSet(items)
         /\ walk'.items = <<>> /\ walk'.months = 0
         /\ walk'.filter = walk.filter /\ walk'.present = walk.present
<1>1. /\ Len(items) \in Nat /\ DOMAIN items = 1..Len(items) /\ ToSet(items) \subseteq Messages
      /\ \A n \in 1..Len(items) : items[n] \in Messages /\ items[n] \in ToSet(items)
  BY Elements
<1>2. Descends(items)
  <2> SUFFICES ASSUME NEW i \in DOMAIN items
               PROVE  IF i > 1 THEN Newer(items[i - 1], items[i])
                      ELSE walk.last # None => Newer(walk.last, items[i])
    BY DEF Descends
  <2>1. CASE i > 1
    <3>1. i - 1 \in DOMAIN items /\ i - 1 < i
      BY <1>1, <2>1
    <3> QED BY <2>1, <3>1 DEF Descending
  <2>2. CASE ~(i > 1)
    BY <1>1, <2>2
  <2> QED BY <2>1, <2>2
<1>3. items # <<>> => Last(items) \in Messages
  <2> SUFFICES ASSUME items # <<>> PROVE Last(items) \in Messages
    OBVIOUS
  <2>1. Len(items) # 0
    BY EmptySeq
  <2> QED BY <1>1, <2>1 DEF Last
<1>4. <<>> \in Seq(Messages) /\ 0 \in 0..Horizon
  BY MonthAssumption
<1>5. walk' = [walk EXCEPT !.at = IF more THEN "page" ELSE "done",
                           !.cursor = IF more THEN Last(items) ELSE None,
                           !.listed = walk.listed \cup ToSet(items), !.items = <<>>, !.months = 0,
                           !.last = IF items = <<>> THEN walk.last ELSE Last(items),
                           !.descends = walk.descends /\ Descends(items)]
  BY DEF Answer
<1>6. (walk.descends /\ Descends(items)) = TRUE
  BY <1>2
<1>7. walk' = [walk EXCEPT !.at = IF more THEN "page" ELSE "done",
                           !.cursor = IF more THEN Last(items) ELSE None,
                           !.listed = walk.listed \cup ToSet(items), !.items = <<>>, !.months = 0,
                           !.last = IF items = <<>> THEN walk.last ELSE Last(items),
                           !.descends = TRUE]
  BY <1>5, <1>6
<1>8. walk' \in Walks
  BY <1>1, <1>3, <1>4, <1>7 DEF Walks
<1> QED BY <1>7, <1>8 DEF Walks

-----------------------------------------------------------------------------
(* One round of the loop. *)

Round ==
  walk.items \o Admitted(walk.filter, ListMonth(walk.moment, Limit + 1 - Len(walk.items), walk.cursor))

LEMMA ConcatElements ==
  ASSUME NEW s \in Seq(Messages), NEW t \in Seq(Messages)
  PROVE  /\ s \o t \in Seq(Messages) /\ Len(s \o t) = Len(s) + Len(t)
         /\ ToSet(s \o t) = ToSet(s) \cup ToSet(t)
         /\ Descending(s) /\ Descending(t) /\ (\A m \in ToSet(s), n \in ToSet(t) : Newer(m, n))
              => Descending(s \o t)
<1> DEFINE all == s \o t
<1>1. /\ Len(s) \in Nat /\ DOMAIN s = 1..Len(s) /\ Len(t) \in Nat /\ DOMAIN t = 1..Len(t)
      /\ \A n \in 1..Len(s) : s[n] \in ToSet(s)
      /\ \A n \in 1..Len(t) : t[n] \in ToSet(t)
  BY Elements
<1>2. /\ all \in Seq(Messages) /\ Len(all) = Len(s) + Len(t)
      /\ \A n \in 1..Len(s) + Len(t) : all[n] = IF n <= Len(s) THEN s[n] ELSE t[n - Len(s)]
  BY ConcatProperties
<1>3. DOMAIN all = 1..Len(s) + Len(t)
  BY <1>2, LenProperties
<1> HIDE DEF all
<1>4. \A n \in DOMAIN s : n \in DOMAIN all /\ all[n] = s[n]
  BY <1>1, <1>2, <1>3
<1>5. \A n \in DOMAIN t : Len(s) + n \in DOMAIN all /\ all[Len(s) + n] = t[n]
  <2> TAKE n \in DOMAIN t
  <2>1. /\ Len(s) + n \in 1..Len(s) + Len(t)
        /\ ~(Len(s) + n <= Len(s)) /\ (Len(s) + n) - Len(s) = n
    BY <1>1
  <2> QED BY <1>2, <1>3, <2>1
<1>6. \A n \in DOMAIN all : \/ n \in DOMAIN s /\ all[n] = s[n]
                            \/ n - Len(s) \in DOMAIN t /\ ~(n <= Len(s)) /\ all[n] = t[n - Len(s)]
  BY <1>1, <1>2, <1>3
<1>7. ToSet(all) = ToSet(s) \cup ToSet(t)
  <2>1. ToSet(s) \subseteq ToSet(all)
    BY <1>4 DEF ToSet
  <2>2. ToSet(t) \subseteq ToSet(all)
    BY <1>5 DEF ToSet
  <2>3. \A n \in DOMAIN all : all[n] \in ToSet(s) \cup ToSet(t)
    BY <1>1, <1>6
  <2> QED BY <2>1, <2>2, <2>3 DEF ToSet
<1>8. ASSUME Descending(s), Descending(t), \A m \in ToSet(s), n \in ToSet(t) : Newer(m, n),
             NEW i \in DOMAIN all, NEW j \in DOMAIN all, i < j
      PROVE  Newer(all[i], all[j])
  <2>0. i \in Int /\ j \in Int /\ Len(s) \in Int
    BY <1>1, <1>3
  <2>1. CASE i \in DOMAIN s /\ j \in DOMAIN s
    BY <1>4, <1>8, <2>1 DEF Descending
  <2>2. CASE i \in DOMAIN s /\ j \notin DOMAIN s
    BY <1>1, <1>6, <1>8, <2>2
  <2>3. CASE i \notin DOMAIN s
    <3>1. /\ i - Len(s) \in DOMAIN t /\ ~(i <= Len(s)) /\ all[i] = t[i - Len(s)]
      BY <1>6, <2>3
    <3>2. ~(j <= Len(s))
      BY <1>8, <2>0, <3>1
    <3>3. j - Len(s) \in DOMAIN t /\ all[j] = t[j - Len(s)]
      BY <1>1, <1>6, <3>2
    <3>4. i - Len(s) < j - Len(s)
      BY <1>8, <2>0
    <3> QED BY <1>8, <3>1, <3>3, <3>4 DEF Descending
  <2> QED BY <2>1, <2>2, <2>3
<1>9. s \o t = all
  BY DEF all
<1>10. ASSUME Descending(s), Descending(t), \A m \in ToSet(s), n \in ToSet(t) : Newer(m, n)
       PROVE  Descending(all)
  BY <1>8, <1>10 DEF Descending
<1> QED BY <1>2, <1>7, <1>9, <1>10

LEMMA FilterFields ==
  ASSUME NEW f \in Filters \cup {NoWalk.filter}
  PROVE  (f.from # None => f.from \in Int) /\ (f.to # None => f.to \in Int)
BY FiltersAssumption DEF NoWalk

\* What is newer than a wanted message, but of its month, is admitted as well.
LEMMA SameMonthAdmits ==
  ASSUME NEW f \in Filters \cup {NoWalk.filter}, NEW m \in Messages, NEW n \in Messages,
         Admits(f, m), WithinBounds(f, m), Newer(n, m), MonthOf(n[1]) = MonthOf(m[1])
  PROVE  Admits(f, n)
<1>1. (f.from # None => f.from \in Int) /\ (f.to # None => f.to \in Int)
  BY FilterFields
<1>2. m[1] \in Int /\ n[1] \in Int /\ m[1] <= n[1]
  BY MessageFields DEF Newer
<1>3. f.from # None => n[1] >= f.from
  BY <1>1, <1>2 DEF Admits
<1>4. f.to # None => n[1] <= f.to
  <2> SUFFICES ASSUME f.to # None PROVE n[1] <= f.to
    OBVIOUS
  <2>1. MonthOf(n[1]) < MonthOf(f.to)
    BY DEF WithinBounds
  <2>2. n[1] < f.to
    BY <1>1, <1>2, <2>1, LaterMonth
  <2> QED BY <1>1, <1>2, <2>2
<1> QED BY <1>3, <1>4 DEF Admits

\* A loop that has passed the lower bound has passed every wanted message.
LEMMA PassedIsBehind ==
  ASSUME NEW f \in Filters \cup {NoWalk.filter}, NEW m \in Messages,
         Admits(f, m), WithinBounds(f, m), f.from # None,
         NEW moment \in Int, moment < f.from, MonthOf(moment) = MonthOf(Now) => f.from > Now
  PROVE  MonthOf(moment) < MonthOf(m[1])
<1>1. f.from \in Int /\ m[1] \in Int /\ Now \in Int
  BY FilterFields, MessageFields, MonthAssumption
<1>2. MonthOf(moment) \in Int /\ MonthOf(m[1]) \in Int /\ MonthOf(Now) \in Int
  BY <1>1, MonthType
<1>3. f.from <= m[1]
  BY <1>1 DEF Admits
<1>4. ~(MonthOf(m[1]) < MonthOf(moment))
  <2> SUFFICES ASSUME MonthOf(m[1]) < MonthOf(moment) PROVE FALSE
    OBVIOUS
  <2>1. m[1] < moment
    BY <1>1, LaterMonth
  <2> QED BY <1>1, <1>3, <2>1
<1>5. MonthOf(m[1]) # MonthOf(moment)
  <2> SUFFICES ASSUME MonthOf(m[1]) = MonthOf(moment) PROVE FALSE
    OBVIOUS
  <2>1. MonthLength * MonthOf(moment) <= moment
    BY MonthIsDivision
  <2>2. FirstOf(MonthOf(m[1])) <= moment /\ FirstOf(MonthOf(m[1])) \in Int
    BY <1>2, <2>1, MonthAssumption DEF FirstOf
  <2>3. ~(f.from <= FirstOf(MonthOf(m[1])))
    BY <1>1, <2>2
  <2>4. f.from <= Now /\ MonthOf(moment) = MonthOf(Now)
    BY <2>3 DEF WithinBounds
  <2> QED BY <1>1, <2>4
<1> QED BY <1>2, <1>4, <1>5

\* What a round collects is in order, goes on from the last answer, and misses
\* nothing the loop has come by, unless there is more than a page.
LEMMA RoundCollects ==
  ASSUME WalkInvariant, walk.at = "query"
  PROVE  /\ Round \in Seq(Messages) /\ Len(Round) <= Limit + 1 /\ Descending(Round)
         /\ ToSet(walk.items) \subseteq ToSet(Round)
         /\ \A m \in ToSet(Round) :
              /\ m \in rows /\ Admits(walk.filter, m)
              /\ MonthOf(walk.moment) <= MonthOf(m[1]) /\ MonthOf(m[1]) <= MonthOf(Now)
              /\ walk.last # None => Newer(walk.last, m)
         /\ \A m \in walk.present : Wanted(walk.filter, m) =>
              \/ m \in walk.listed
              \/ m \in ToSet(Round)
              \/ MonthOf(m[1]) < MonthOf(walk.moment)
              \/ Len(Round) = Limit + 1 /\ \A n \in ToSet(Round) : Newer(n, m)
<1> DEFINE needed == Limit + 1 - Len(walk.items)
           page == ListMonth(walk.moment, needed, walk.cursor)
           kept == Admitted(walk.filter, page)
           found == OfMonth(walk.moment, walk.cursor)
<1>1. /\ walk \in Walks /\ rows \subseteq Messages /\ Len(walk.items) <= Limit
      /\ walk.present \subseteq rows /\ walk.listed \subseteq rows
  BY DEF WalkInvariant, Types
<1>2. /\ walk.moment \in Int /\ walk.cursor \in Messages \cup {None} /\ walk.items \in Seq(Messages)
      /\ walk.last \in Messages \cup {None} /\ walk.months \in Nat
  BY <1>1 DEF Walks
<1>filter. walk.filter \in Filters \cup {NoWalk.filter}
  BY <1>1 DEF Walks
<1>3. Len(walk.items) \in Nat /\ ToSet(walk.items) \subseteq Messages
  BY <1>2, Elements
<1>4. needed \in Nat \ {0}
  BY <1>1, <1>3, MonthAssumption
<1>5. /\ Descending(walk.items)
      /\ \A m \in ToSet(walk.items) :
           /\ m \in rows /\ Admits(walk.filter, m)
           /\ MonthOf(walk.moment) < MonthOf(m[1]) /\ MonthOf(m[1]) <= MonthOf(Now)
           /\ walk.last # None => Newer(walk.last, m)
      /\ walk.cursor = None /\ walk.last # None => MonthOf(walk.moment) < MonthOf(walk.last[1])
      /\ MonthOf(walk.moment) <= MonthOf(Now) - walk.months
  BY DEF WalkInvariant, ItemsInOrder
<1>6. walk.cursor # None =>
        walk.items = <<>> /\ walk.last = walk.cursor /\ walk.moment = walk.cursor[1]
  BY DEF WalkInvariant, CursorIsLast
<1>7. Round = walk.items \o kept
  BY DEF Round
<1> HIDE DEF needed
<1>8. /\ page \in Seq(Messages) /\ Len(page) <= needed /\ Descending(page)
      /\ ToSet(page) \subseteq found
      /\ \A m \in found \ ToSet(page) : Len(page) = needed /\ \A n \in ToSet(page) : Newer(n, m)
  <2>1. NewestOf(found, needed, page)
    BY <1>1, <1>4, QueryReturns
  <2> HIDE DEF page, found
  <2> QED BY <2>1 DEF NewestOf
<1> HIDE DEF page
<1>9. /\ kept \in Seq(Messages) /\ Len(kept) <= Len(page) /\ Descending(kept)
      /\ ToSet(kept) = {m \in ToSet(page) : Admits(walk.filter, m)}
      /\ (\A m \in ToSet(page) : Admits(walk.filter, m)) => Len(kept) = Len(page)
  BY <1>8, FilterKeeps
<1> HIDE DEF kept
<1>10. Len(page) \in Nat /\ Len(kept) \in Nat
  BY <1>8, <1>9, LenProperties
<1>11. \A m \in found : /\ m \in rows /\ m \in Messages /\ MonthOf(m[1]) = MonthOf(walk.moment)
                        /\ walk.cursor # None => Newer(walk.cursor, m)
  BY <1>1, <1>6 DEF OfMonth, AfterCursor
<1> HIDE DEF found
<1>12. MonthOf(walk.moment) \in Int /\ MonthOf(Now) \in Int
  <2>1. walk.moment \in Int /\ Now \in Int
    BY <1>2, MonthAssumption
  <2> QED BY <2>1, MonthType
<1>13. MonthOf(walk.moment) <= MonthOf(Now)
  BY <1>2, <1>5, <1>12
<1>14. \A m \in found : walk.last # None => Newer(walk.last, m)
  <2> SUFFICES ASSUME NEW m \in found, walk.last # None PROVE Newer(walk.last, m)
    OBVIOUS
  <2>1. CASE walk.cursor # None
    BY <1>6, <1>11, <2>1
  <2>2. CASE walk.cursor = None
    <3>1. MonthOf(m[1]) < MonthOf(walk.last[1]) /\ walk.last \in Messages /\ m \in Messages
      BY <1>2, <1>5, <1>11, <2>2
    <3> QED BY <3>1, NewerMonth
  <2> QED BY <2>1, <2>2
<1>15. \A m \in ToSet(walk.items), n \in found : Newer(m, n)
  <2> SUFFICES ASSUME NEW m \in ToSet(walk.items), NEW n \in found PROVE Newer(m, n)
    OBVIOUS
  <2>1. m \in Messages /\ n \in Messages /\ MonthOf(n[1]) < MonthOf(m[1])
    BY <1>3, <1>5, <1>11
  <2> QED BY <2>1, NewerMonth
<1>16. /\ Round \in Seq(Messages) /\ Len(Round) = Len(walk.items) + Len(kept)
       /\ ToSet(Round) = ToSet(walk.items) \cup ToSet(kept)
       /\ Descending(Round)
  <2>1. \A m \in ToSet(walk.items), n \in ToSet(kept) : Newer(m, n)
    BY <1>8, <1>9, <1>15
  <2> QED BY <1>2, <1>5, <1>7, <1>9, <2>1, ConcatElements
<1>17. Len(Round) <= Limit + 1
  BY <1>3, <1>8, <1>9, <1>10, <1>16, MonthAssumption DEF needed
<1>18. \A m \in ToSet(Round) :
         /\ m \in rows /\ Admits(walk.filter, m)
         /\ MonthOf(walk.moment) <= MonthOf(m[1]) /\ MonthOf(m[1]) <= MonthOf(Now)
         /\ walk.last # None => Newer(walk.last, m)
  <2> SUFFICES ASSUME NEW m \in ToSet(Round)
               PROVE  /\ m \in rows /\ Admits(walk.filter, m)
                      /\ MonthOf(walk.moment) <= MonthOf(m[1]) /\ MonthOf(m[1]) <= MonthOf(Now)
                      /\ walk.last # None => Newer(walk.last, m)
    OBVIOUS
  <2>1. CASE m \in ToSet(walk.items)
    <3>1. m \in Messages
      BY <1>3, <2>1
    <3>2. MonthOf(m[1]) \in Int
      BY <3>1, MessageMonth
    <3> QED BY <1>5, <1>12, <2>1, <3>2
  <2>2. CASE m \in ToSet(kept)
    BY <1>8, <1>9, <1>11, <1>12, <1>13, <1>14, <2>2
  <2> QED BY <1>16, <2>1, <2>2
<1>19. ASSUME NEW m \in walk.present, Wanted(walk.filter, m)
       PROVE  \/ m \in walk.listed
              \/ m \in ToSet(Round)
              \/ MonthOf(m[1]) < MonthOf(walk.moment)
              \/ Len(Round) = Limit + 1 /\ \A n \in ToSet(Round) : Newer(n, m)
  <2>1. m \in walk.listed \/ m \in ToSet(walk.items) \/ Ahead(m)
    BY <1>19 DEF WalkInvariant, NothingLost
  <2>2. ASSUME Ahead(m), ~(MonthOf(m[1]) < MonthOf(walk.moment)), m \notin ToSet(Round)
        PROVE  Len(Round) = Limit + 1 /\ \A n \in ToSet(Round) : Newer(n, m)
    <3>1. m \in found
      BY <1>1, <2>2 DEF Ahead, OfMonth, AfterCursor, found
    <3>2. m \notin ToSet(page)
      BY <1>9, <1>16, <1>19, <2>2 DEF Wanted
    <3>3. Len(page) = needed /\ \A n \in ToSet(page) : Newer(n, m)
      BY <1>8, <3>1, <3>2
    <3>4. ASSUME NEW n \in ToSet(page)
          PROVE  Admits(walk.filter, n)
      <4>1. /\ m \in Messages /\ n \in Messages /\ Newer(n, m)
            /\ MonthOf(n[1]) = MonthOf(m[1])
        BY <1>8, <1>11, <3>1, <3>3, <3>4
      <4> QED BY <1>filter, <1>19, <4>1, SameMonthAdmits DEF Wanted
    <3>5. Len(kept) = needed
      BY <1>9, <3>3, <3>4
    <3>6. Len(Round) = Limit + 1
      BY <1>3, <1>16, <3>5, MonthAssumption DEF needed
    <3>7. \A n \in ToSet(Round) : Newer(n, m)
      BY <1>9, <1>15, <1>16, <3>1, <3>3
    <3> QED BY <3>6, <3>7
  <2> QED BY <1>16, <2>1, <2>2
<1> QED BY <1>16, <1>17, <1>18, <1>19

-----------------------------------------------------------------------------
(* The steps of a walk. *)

LEMMA PreservedByOpenList ==
  ASSUME WalkInvariant, OpenList
  PROVE  WalkInvariant'
<1>1. PICK f \in Filters : walk' = [NoWalk EXCEPT !.at = "query", !.filter = f, !.present = rows]
  BY DEF OpenList
<1>2. rows' = rows /\ rows \subseteq Messages
  BY DEF OpenList, WalkInvariant, Types
<1>3. /\ walk' \in Walks /\ walk'.at = "query" /\ walk'.items = <<>> /\ walk'.listed = {}
      /\ walk'.present = rows /\ walk'.moment = Now /\ walk'.cursor = None /\ walk'.last = None
      /\ walk'.months = 0 /\ walk'.descends
  BY <1>1, <1>2, NoWalkIsWalk DEF NoWalk, Walks
<1>4. Types'
  BY <1>2, <1>3, MonthAssumption DEF Types
<1>5. MonthOf(Now) \in Int
  BY MonthAssumption, MonthType
<1>6. CursorIsLast' /\ PageEndsAtCursor' /\ IdleIsEmpty'
  BY <1>3 DEF CursorIsLast, PageEndsAtCursor, IdleIsEmpty
<1>7. ItemsInOrder'
  BY <1>3, <1>5 DEF ItemsInOrder, Descending, ToSet
<1>8. \A m \in rows : Visible(m) => Ahead(m)'
  <2> SUFFICES ASSUME NEW m \in rows, Visible(m) PROVE Ahead(m)'
    OBVIOUS
  <2>1. MonthOf(m[1]) <= MonthOf(Now)
    BY DEF Visible
  <2>2. MonthOf(m[1]) \in Int
    BY <1>2, MessageFields, MonthType
  <2> QED BY <1>3, <1>5, <2>1, <2>2 DEF Ahead
<1>9. NothingLost'
  BY <1>3, <1>8 DEF NothingLost, Wanted
<1> QED BY <1>3, <1>4, <1>6, <1>7, <1>9 DEF WalkInvariant

LEMMA PreservedByStore ==
  ASSUME WalkInvariant, Insert \/ Replace
  PROVE  WalkInvariant'
<1>1. walk' = walk /\ rows \subseteq rows' /\ rows' \subseteq Messages
  BY DEF Insert, Replace, Store, WalkInvariant, Types
<1>2. Types'
  BY <1>1 DEF WalkInvariant, Types
<1>3. ItemsInOrder'
  BY <1>1 DEF WalkInvariant, ItemsInOrder
<1>4. \A m : Ahead(m)' = Ahead(m)
  BY <1>1 DEF Ahead
<1>5. CursorIsLast' /\ PageEndsAtCursor' /\ NothingLost' /\ IdleIsEmpty'
  BY <1>1, <1>4 DEF WalkInvariant, CursorIsLast, PageEndsAtCursor, NothingLost, IdleIsEmpty
<1> QED BY <1>1, <1>2, <1>3, <1>5 DEF WalkInvariant

LEMMA PreservedByStopAtBound ==
  ASSUME WalkInvariant, StopAtBound
  PROVE  WalkInvariant'
<1>1. /\ walk \in Walks /\ walk.descends /\ walk.at = "query" /\ walk.items \in Seq(Messages)
      /\ rows \subseteq Messages /\ walk.present \subseteq rows /\ walk.listed \subseteq rows
      /\ \A m \in walk.listed : Admits(walk.filter, m)
  BY DEF StopAtBound, WalkInvariant, Types, Walks
<1>2. /\ Descending(walk.items)
      /\ \A m \in ToSet(walk.items) : /\ m \in rows /\ Admits(walk.filter, m)
                                      /\ walk.last # None => Newer(walk.last, m)
      /\ MonthOf(walk.moment) <= MonthOf(Now) - walk.months
  BY <1>1 DEF WalkInvariant, ItemsInOrder
<1>3. Answer(walk.items, FALSE) /\ rows' = rows
  BY DEF StopAtBound
<1>4. /\ walk' \in Walks /\ walk'.descends
      /\ walk'.at = "done"
      /\ walk'.listed = walk.listed \cup ToSet(walk.items) /\ walk'.items = <<>>
      /\ walk'.filter = walk.filter /\ walk'.present = walk.present
  BY <1>1, <1>2, <1>3, AnswerIs
<1>5. Types'
  <2>1. Len(<<>>) <= Limit
    BY MonthAssumption
  <2> QED BY <1>1, <1>2, <1>3, <1>4, <2>1 DEF Types
<1>6. CursorIsLast' /\ ItemsInOrder' /\ PageEndsAtCursor' /\ IdleIsEmpty'
  BY <1>4 DEF CursorIsLast, ItemsInOrder, PageEndsAtCursor, IdleIsEmpty
<1>7. ASSUME NEW m \in walk.present, Wanted(walk.filter, m)
      PROVE  m \in walk.listed \cup ToSet(walk.items)
  <2>1. m \in walk.listed \/ m \in ToSet(walk.items) \/ Ahead(m)
    BY <1>1, <1>7 DEF WalkInvariant, NothingLost
  <2>2. walk.months = Horizon \/ (walk.filter.from # None /\ walk.moment < walk.filter.from)
    BY DEF StopAtBound, Exhausted
  <2>3. walk.moment \in Int /\ Now \in Int /\ m[1] \in Int
    BY <1>1, MonthAssumption, MessageFields DEF Walks
  <2>4. MonthOf(walk.moment) \in Int /\ MonthOf(Now) \in Int /\ MonthOf(m[1]) \in Int
    BY <2>3, MonthType
  <2>5. CASE walk.months = Horizon
    <3>1. ~Ahead(m)
      BY <1>2, <1>7, <2>4, <2>5, MonthAssumption DEF Ahead, Visible, Wanted
    <3> QED BY <2>1, <3>1
  <2>6. CASE walk.filter.from # None /\ walk.moment < walk.filter.from
    <3>1. walk.filter \in Filters \cup {NoWalk.filter} /\ m \in Messages /\ walk.months \in Nat
      BY <1>1 DEF Walks
    <3>2. walk.filter.from \in Int
      BY <2>6, <3>1, FilterFields
    <3>3. walk.cursor # None => walk.moment >= walk.filter.from
      BY <1>1, <2>6 DEF WalkInvariant, CursorIsLast, Admits
    <3>4. walk.cursor = None
      BY <2>3, <2>6, <3>2, <3>3
    <3>5. MonthOf(walk.moment) = MonthOf(Now) => walk.filter.from > Now
      <4> SUFFICES ASSUME MonthOf(walk.moment) = MonthOf(Now) PROVE walk.filter.from > Now
        OBVIOUS
      <4>1. walk.months = 0
        BY <1>2, <2>4, <3>1
      <4>2. walk.moment = Now
        BY <1>1, <3>4, <4>1 DEF WalkInvariant, CursorIsLast
      <4> QED BY <2>3, <2>6, <3>2, <4>2
    <3>6. MonthOf(walk.moment) < MonthOf(m[1])
      BY <1>7, <2>3, <2>6, <3>1, <3>5, PassedIsBehind DEF Wanted
    <3>7. ~Ahead(m)
      BY <2>4, <3>6 DEF Ahead
    <3> QED BY <2>1, <3>7
  <2> QED BY <2>2, <2>5, <2>6
<1>8. NothingLost'
  BY <1>4, <1>7 DEF NothingLost
<1> QED BY <1>4, <1>5, <1>6, <1>8 DEF WalkInvariant

LEMMA PreservedByNextPage ==
  ASSUME WalkInvariant, NextPage
  PROVE  WalkInvariant'
<1>1. /\ walk \in Walks /\ walk.descends /\ walk.at = "page"
      /\ rows \subseteq Messages /\ walk.present \subseteq rows /\ walk.listed \subseteq rows
      /\ \A m \in walk.listed : Admits(walk.filter, m)
  BY DEF NextPage, WalkInvariant, Types
<1>2. /\ walk.cursor # None /\ walk.last = walk.cursor /\ walk.items = <<>> /\ walk.months = 0
      /\ MonthOf(walk.cursor[1]) <= MonthOf(Now) /\ Admits(walk.filter, walk.cursor)
  BY <1>1 DEF WalkInvariant, PageEndsAtCursor
<1>3. walk.cursor \in Messages /\ walk.cursor[1] \in Int
  BY <1>1, <1>2, MessageFields DEF Walks
<1>4. walk' = [walk EXCEPT !.at = "query", !.moment = walk.cursor[1]] /\ rows' = rows
  BY DEF NextPage
<1>5. /\ walk' \in Walks /\ walk'.at = "query" /\ walk'.moment = walk.cursor[1]
      /\ walk'.cursor = walk.cursor /\ walk'.last = walk.last /\ walk'.items = <<>>
      /\ walk'.months = 0 /\ walk'.listed = walk.listed /\ walk'.present = walk.present
      /\ walk'.filter = walk.filter /\ walk'.descends = walk.descends
  BY <1>1, <1>2, <1>3, <1>4 DEF Walks
<1>6. Types'
  <2>1. Len(<<>>) <= Limit
    BY MonthAssumption
  <2> QED BY <1>1, <1>4, <1>5, <2>1 DEF Types
<1>7. CursorIsLast' /\ PageEndsAtCursor' /\ IdleIsEmpty'
  BY <1>2, <1>5 DEF CursorIsLast, PageEndsAtCursor, IdleIsEmpty
<1>8. MonthOf(Now) \in Int /\ MonthOf(walk.cursor[1]) \in Int
  BY <1>3, MonthAssumption, MonthType
<1>9. ItemsInOrder'
  BY <1>2, <1>5, <1>8 DEF ItemsInOrder, Descending, ToSet
<1>10. ASSUME NEW m \in walk.present, Newer(walk.cursor, m)
       PROVE  Ahead(m)'
  <2>1. m \in Messages
    BY <1>1
  <2>2. MonthOf(m[1]) <= MonthOf(walk.cursor[1]) /\ MonthOf(m[1]) \in Int
    BY <1>3, <1>10, <2>1, NewerMonth
  <2> QED BY <1>5, <1>8, <1>10, <2>2 DEF Ahead
<1>11. NothingLost'
  <2>1. \A m \in walk.present :
          Wanted(walk.filter, m) => m \in walk.listed \/ Newer(walk.cursor, m)
    BY <1>1 DEF WalkInvariant, NothingLost
  <2> QED BY <1>5, <1>10, <2>1 DEF NothingLost
<1> QED BY <1>1, <1>5, <1>6, <1>7, <1>9, <1>11 DEF WalkInvariant

LEMMA PreservedByCloseList ==
  ASSUME WalkInvariant, CloseList
  PROVE  WalkInvariant'
<1>1. walk' = NoWalk /\ rows' = rows /\ rows \subseteq Messages
  BY DEF CloseList, WalkInvariant, Types
<1>2. NoWalk.at = "idle" /\ NoWalk.descends
  BY DEF NoWalk
<1>3. Types'
  <2>1. Len(<<>>) <= Limit
    BY MonthAssumption
  <2> QED BY <1>1, <2>1, NoWalkIsWalk DEF Types
<1>4. CursorIsLast' /\ ItemsInOrder' /\ PageEndsAtCursor' /\ NothingLost' /\ IdleIsEmpty'
  BY <1>1, <1>2, NoWalkIsWalk
     DEF CursorIsLast, ItemsInOrder, PageEndsAtCursor, NothingLost, IdleIsEmpty
<1> QED BY <1>1, <1>2, <1>3, <1>4 DEF WalkInvariant

\* More than a page has been found: the page ends with its last item, and what was
\* found beyond it comes after the cursor.
LEMMA PreservedByFullPage ==
  ASSUME WalkInvariant, walk.at = "query", HasMore(Round),
         Answer(SubSeq(Round, 1, Limit), TRUE), rows' = rows
  PROVE  WalkInvariant'
<1> DEFINE page == SubSeq(Round, 1, Limit)
<1>1. /\ walk \in Walks /\ walk.descends
      /\ rows \subseteq Messages /\ walk.present \subseteq rows /\ walk.listed \subseteq rows
      /\ \A m \in walk.listed : Admits(walk.filter, m)
  BY DEF WalkInvariant, Types
<1>2. /\ Round \in Seq(Messages) /\ Len(Round) <= Limit + 1 /\ Descending(Round)
      /\ \A m \in ToSet(Round) :
           /\ m \in rows /\ Admits(walk.filter, m)
           /\ MonthOf(walk.moment) <= MonthOf(m[1]) /\ MonthOf(m[1]) <= MonthOf(Now)
           /\ walk.last # None => Newer(walk.last, m)
      /\ \A m \in walk.present : Wanted(walk.filter, m) =>
           \/ m \in walk.listed
           \/ m \in ToSet(Round)
           \/ MonthOf(m[1]) < MonthOf(walk.moment)
           \/ Len(Round) = Limit + 1 /\ \A n \in ToSet(Round) : Newer(n, m)
  BY RoundCollects
<1>3. /\ Len(Round) \in Nat /\ DOMAIN Round = 1..Len(Round)
      /\ \A n \in 1..Len(Round) : Round[n] \in Messages /\ Round[n] \in ToSet(Round)
      /\ \A m \in ToSet(Round) : \E n \in 1..Len(Round) : Round[n] = m
  BY <1>2, Elements
<1>4. Len(Round) = Limit + 1 /\ Limit \in Nat \ {0}
  BY <1>2, <1>3, MonthAssumption DEF HasMore
<1>5. /\ page \in Seq(Messages) /\ Len(page) = Limit
      /\ \A i \in 1..Limit : page[i] = Round[i]
  <2>1. \A i \in 1..Limit : Round[i] \in Messages
    BY <1>3, <1>4
  <2>2. /\ page \in Seq(Messages) /\ Len(page) = IF 1 <= Limit THEN Limit - 1 + 1 ELSE 0
        /\ \A i \in 1..Limit - 1 + 1 : page[i] = Round[1 + i - 1]
    BY <1>2, <1>4, <2>1, SubSeqProperties
  <2>3. ASSUME NEW i \in 1..Limit PROVE page[i] = Round[i]
    <3>1. i \in 1..Limit - 1 + 1 /\ 1 + i - 1 = i
      BY <1>4
    <3> QED BY <2>2, <3>1
  <2> QED BY <1>4, <2>2, <2>3
<1>6. Answer(page, TRUE)
  OBVIOUS
<1> HIDE DEF page
<1>7. DOMAIN page = 1..Limit /\ ToSet(page) \subseteq ToSet(Round) /\ Descending(page)
  <2>1. DOMAIN page = 1..Limit
    BY <1>5, LenProperties
  <2>2. \A i \in 1..Limit : i \in 1..Len(Round)
    BY <1>4
  <2>3. ToSet(page) \subseteq ToSet(Round)
    BY <1>3, <1>5, <2>1, <2>2 DEF ToSet
  <2>4. Descending(page)
    BY <1>2, <1>3, <1>5, <2>1, <2>2 DEF Descending
  <2> QED BY <2>1, <2>3, <2>4
<1>8. page # <<>> /\ Last(page) = Round[Limit]
  <2>1. Limit \in 1..Limit
    BY <1>4
  <2>2. page # <<>>
    BY <1>5, <1>7, <2>1
  <2> QED BY <1>5, <2>1, <2>2 DEF Last
<1>9. /\ walk' \in Walks /\ walk'.descends /\ walk'.at = "page"
      /\ walk'.cursor = Round[Limit] /\ walk'.last = Round[Limit]
      /\ walk'.listed = walk.listed \cup ToSet(page)
      /\ walk'.items = <<>> /\ walk'.months = 0
      /\ walk'.filter = walk.filter /\ walk'.present = walk.present
  <2>1. \A m \in ToSet(page) : walk.last # None => Newer(walk.last, m)
    BY <1>2, <1>7
  <2> QED BY <1>1, <1>5, <1>6, <1>7, <1>8, <2>1, AnswerIs
<1>10. Types'
  <2>1. Len(<<>>) <= Limit
    BY MonthAssumption
  <2>2. walk'.listed \subseteq rows /\ \A m \in walk'.listed : Admits(walk.filter, m)
    BY <1>1, <1>2, <1>7, <1>9
  <2> QED BY <1>1, <1>9, <2>1, <2>2 DEF Types
<1>11. CursorIsLast' /\ ItemsInOrder' /\ IdleIsEmpty'
  BY <1>9 DEF CursorIsLast, ItemsInOrder, IdleIsEmpty
<1>12. Limit \in 1..Len(Round) /\ Round[Limit] \in ToSet(Round) /\ Round[Limit] \in Messages
  <2>1. Limit \in 1..Len(Round)
    BY <1>4
  <2> QED BY <1>3, <2>1
<1>13. PageEndsAtCursor'
  <2>1. Round[Limit] # None
    BY <1>12, MessageFields
  <2> QED BY <1>2, <1>9, <1>12, <2>1 DEF PageEndsAtCursor
<1>14. ASSUME NEW m \in walk.present, Wanted(walk.filter, m)
       PROVE  m \in walk.listed \cup ToSet(page) \/ Newer(Round[Limit], m)
  <2>1. CASE m \in ToSet(Round)
    <3>1. PICK n \in 1..Len(Round) : Round[n] = m
      BY <1>3, <2>1
    <3>2. CASE n <= Limit
      BY <1>4, <1>5, <1>7, <3>1, <3>2 DEF ToSet
    <3>3. CASE Limit < n
      BY <1>2, <1>3, <1>12, <3>1, <3>3 DEF Descending
    <3> QED BY <1>4, <3>1, <3>2, <3>3
  <2>2. CASE MonthOf(m[1]) < MonthOf(walk.moment)
    <3>1. m \in Messages /\ MonthOf(walk.moment) <= MonthOf(Round[Limit][1])
      BY <1>1, <1>2, <1>12
    <3>2. walk.moment \in Int /\ m[1] \in Int /\ Round[Limit][1] \in Int
      BY <1>1, <1>12, <3>1, MessageFields DEF Walks
    <3>3. /\ MonthOf(walk.moment) \in Int /\ MonthOf(m[1]) \in Int
          /\ MonthOf(Round[Limit][1]) \in Int
      BY <3>2, MonthType
    <3>4. MonthOf(m[1]) < MonthOf(Round[Limit][1])
      BY <2>2, <3>1, <3>3
    <3> QED BY <1>12, <3>1, <3>4, NewerMonth
  <2> QED BY <1>2, <1>12, <1>14, <2>1, <2>2
<1>15. NothingLost'
  BY <1>9, <1>14 DEF NothingLost
<1> QED BY <1>9, <1>10, <1>11, <1>13, <1>15 DEF WalkInvariant

\* The loop goes on with the month before.
LEMMA PreservedByNextMonth ==
  ASSUME WalkInvariant, walk.at = "query", ~Exhausted, ~HasMore(Round), rows' = rows,
         walk' = [walk EXCEPT !.items = Round, !.moment = PreviousMonth(walk.moment),
                              !.cursor = None, !.months = walk.months + 1]
  PROVE  WalkInvariant'
<1>1. /\ walk \in Walks /\ walk.descends
      /\ rows \subseteq Messages /\ walk.present \subseteq rows /\ walk.listed \subseteq rows
      /\ \A m \in walk.listed : Admits(walk.filter, m)
  BY DEF WalkInvariant, Types
<1>2. /\ Round \in Seq(Messages) /\ Len(Round) <= Limit + 1 /\ Descending(Round)
      /\ \A m \in ToSet(Round) :
           /\ m \in rows /\ Admits(walk.filter, m)
           /\ MonthOf(walk.moment) <= MonthOf(m[1]) /\ MonthOf(m[1]) <= MonthOf(Now)
           /\ walk.last # None => Newer(walk.last, m)
      /\ \A m \in walk.present : Wanted(walk.filter, m) =>
           \/ m \in walk.listed
           \/ m \in ToSet(Round)
           \/ MonthOf(m[1]) < MonthOf(walk.moment)
           \/ Len(Round) = Limit + 1 /\ \A n \in ToSet(Round) : Newer(n, m)
  BY RoundCollects
<1>3. Len(Round) \in Nat /\ Len(Round) <= Limit /\ Limit \in Nat
  BY <1>2, LenProperties, MonthAssumption DEF HasMore
<1>4. walk.moment \in Int /\ walk.months \in 0..Horizon /\ walk.months # Horizon /\ Horizon \in Nat
  BY <1>1, MonthAssumption DEF Exhausted, Walks
<1>5. /\ MonthOf(walk.moment) \in Int /\ PreviousMonth(walk.moment) \in Int
      /\ MonthOf(PreviousMonth(walk.moment)) = MonthOf(walk.moment) - 1
  BY <1>4, MonthType, MonthBefore
<1>6. walk.months + 1 \in 0..Horizon /\ walk.months + 1 # 0
  BY <1>4
<1>7. /\ walk' \in Walks /\ walk'.at = "query" /\ walk'.descends = walk.descends
      /\ walk'.items = Round /\ walk'.moment = PreviousMonth(walk.moment) /\ walk'.cursor = None
      /\ walk'.months = walk.months + 1 /\ walk'.last = walk.last
      /\ walk'.listed = walk.listed /\ walk'.filter = walk.filter /\ walk'.present = walk.present
  BY <1>1, <1>2, <1>5, <1>6 DEF Walks
<1>8. Types'
  BY <1>1, <1>3, <1>7 DEF Types
<1>9. CursorIsLast' /\ PageEndsAtCursor' /\ IdleIsEmpty'
  BY <1>6, <1>7 DEF CursorIsLast, PageEndsAtCursor, IdleIsEmpty
<1>10. ItemsInOrder'
  <2>1. ASSUME NEW m \in ToSet(Round) PROVE MonthOf(walk.moment) - 1 < MonthOf(m[1])
    <3>1. m \in Messages /\ MonthOf(walk.moment) <= MonthOf(m[1])
      BY <1>1, <1>2
    <3>2. MonthOf(m[1]) \in Int
      BY <3>1, MessageFields, MonthType
    <3> QED BY <1>5, <3>1, <3>2
  <2>2. ASSUME walk.last # None PROVE MonthOf(walk.moment) - 1 < MonthOf(walk.last[1])
    <3>1. walk.last \in Messages
      BY <1>1, <2>2 DEF Walks
    <3>2. MonthOf(walk.last[1]) \in Int
      BY <3>1, MessageFields, MonthType
    <3>3. CASE walk.cursor # None
      <4>1. walk.last = walk.cursor /\ walk.moment = walk.cursor[1]
        BY <3>3 DEF WalkInvariant, CursorIsLast
      <4> QED BY <1>5, <4>1
    <3>4. CASE walk.cursor = None
      <4>1. MonthOf(walk.moment) < MonthOf(walk.last[1])
        BY <2>2, <3>4 DEF WalkInvariant, ItemsInOrder
      <4> QED BY <1>5, <3>2, <4>1
    <3> QED BY <3>3, <3>4
  <2>3. MonthOf(walk.moment) - 1 <= MonthOf(Now) - (walk.months + 1)
    <3>1. MonthOf(walk.moment) <= MonthOf(Now) - walk.months
      BY DEF WalkInvariant, ItemsInOrder
    <3>2. MonthOf(Now) \in Int
      BY MonthAssumption, MonthType
    <3> QED BY <1>4, <1>5, <3>1, <3>2
  <2> QED BY <1>2, <1>5, <1>7, <2>1, <2>2, <2>3 DEF ItemsInOrder
<1>11. ASSUME NEW m \in walk.present, Wanted(walk.filter, m)
       PROVE  m \in walk.listed \/ m \in ToSet(Round) \/ Ahead(m)'
  <2>1. Len(Round) # Limit + 1
    BY <1>3
  <2>2. m \in walk.listed \/ m \in ToSet(Round) \/ MonthOf(m[1]) < MonthOf(walk.moment)
    BY <1>2, <1>11, <2>1
  <2>3. m[1] \in Int
    BY <1>1, MessageFields
  <2>4. MonthOf(m[1]) \in Int
    BY <2>3, MonthType
  <2>5. MonthOf(m[1]) < MonthOf(walk.moment) => Ahead(m)'
    BY <1>5, <1>7, <2>4 DEF Ahead
  <2> QED BY <2>2, <2>5
<1>12. NothingLost'
  BY <1>7, <1>11 DEF NothingLost
<1> QED BY <1>1, <1>7, <1>8, <1>9, <1>10, <1>12 DEF WalkInvariant

LEMMA PreservedByQueryMonth ==
  ASSUME WalkInvariant, QueryMonth
  PROVE  WalkInvariant'
<1>1. /\ walk.at = "query" /\ ~Exhausted /\ rows' = rows
      /\ IF HasMore(Round) THEN Answer(SubSeq(Round, 1, Limit), TRUE)
         ELSE walk' = [walk EXCEPT !.items = Round, !.moment = PreviousMonth(walk.moment),
                                   !.cursor = None, !.months = walk.months + 1]
  BY DEF QueryMonth, Round
<1> QED BY <1>1, PreservedByFullPage, PreservedByNextMonth

-----------------------------------------------------------------------------
(* Sums. *)

LEMMA SetsAreFinite ==
  ASSUME NEW S, S \subseteq Messages
  PROVE  /\ IsFiniteSet(S) /\ Cardinality(S) \in Nat
         /\ \A T : T \subseteq S => Cardinality(T) <= Cardinality(S) /\ Cardinality(T) \in Nat
BY MessagesAssumption, FS_Subset, FS_CardinalityType

LEMMA DisjointCounts ==
  \A S, T : IsFiniteSet(S) /\ IsFiniteSet(T) /\ S \cap T = {} =>
    Cardinality(S \cup T) = Cardinality(S) + Cardinality(T)
<1> SUFFICES ASSUME NEW S, NEW T, IsFiniteSet(S), IsFiniteSet(T), S \cap T = {}
             PROVE  Cardinality(S \cup T) = Cardinality(S) + Cardinality(T)
  OBVIOUS
<1>1. Cardinality(S) \in Nat /\ Cardinality(T) \in Nat
  BY FS_CardinalityType
<1>2. Cardinality(S \cup T) = Cardinality(S) + Cardinality(T) - Cardinality(S \cap T)
  BY FS_Union
<1>3. Cardinality(S \cap T) = 0
  BY FS_EmptySet
<1> QED BY <1>1, <1>2, <1>3

LEMMA CountTogether ==
  ASSUME NEW S, NEW T, S \subseteq Messages, T \subseteq Messages, S \cap T = {}
  PROVE  Cardinality(S \cup T) = Cardinality(S) + Cardinality(T)
BY SetsAreFinite, DisjointCounts

\* What a sum has: pairs of an element and a number up to its count.
LEMMA EnumeratedPairs ==
  ASSUME NEW S, NEW count
  PROVE  /\ \A x \in S : \A i \in 1..count[x] : <<x, i>> \in Enumerated(S, count)
         /\ \A p \in Enumerated(S, count) :
              p = <<p[1], p[2]>> /\ p[1] \in S /\ p[2] \in 1..count[p[1]]
BY DEF Enumerated

LEMMA EnumeratedIsFinite ==
  ASSUME NEW S, IsFiniteSet(S), NEW count, \A x \in S : count[x] \in Nat
  PROVE  IsFiniteSet(Enumerated(S, count)) /\ Cardinality(Enumerated(S, count)) \in Nat
<1> DEFINE f == [x \in S |-> {x} \X (1..count[x])]
           T == {f[x] : x \in S}
<1>1. \A x \in S : IsFiniteSet({x} \X (1..count[x]))
  BY Interval, FS_Singleton, FS_Product
<1>2. \A x \in S : f[x] = {x} \X (1..count[x])
  OBVIOUS
<1>3. f = [x \in S |-> f[x]]
  OBVIOUS
<1>4. Enumerated(S, count) = UNION T
  BY <1>2 DEF Enumerated
<1> HIDE DEF f
<1>5. f \in Surjection(S, T)
  BY <1>3 DEF Surjection
<1>6. IsFiniteSet(T) /\ \A X \in T : IsFiniteSet(X)
  BY <1>1, <1>2, <1>5, FS_Surjection
<1>7. IsFiniteSet(Enumerated(S, count))
  BY <1>4, <1>6, FS_UNION
<1> QED BY <1>7, FS_CardinalityType

\* What is stored has a class and a number of files.
WellStored ==
  /\ rows \subseteq Messages
  /\ \A m \in rows : result[m].class \in Classes /\ result[m].files \in Nat

\* Adding to each class its messages of W adds W to the total.
LEMMA TotalGrows ==
  ASSUME NEW f \in [Classes -> Nat], NEW W, W \subseteq rows, WellStored,
         NEW g \in [Classes -> Nat],
         \A c \in Classes : g[c] = f[c] + Cardinality(OfClass(W, c))
  PROVE  Total(g) = Total(f) + Cardinality(W)
<1> DEFINE F == Enumerated(Classes, f)
           G == Enumerated(Classes, g)
           place(m) == Cardinality(Below(OfClass(W, result[m].class), NewerIn(W), m)) + 1
           h == [m \in W |-> <<result[m].class, f[result[m].class] + place(m)>>]
<1>1. Total(f) = Cardinality(F) /\ Total(g) = Cardinality(G)
  BY DEF Total
<1>2. IsFiniteSet(F) /\ IsFiniteSet(G) /\ Cardinality(F) \in Nat /\ Cardinality(G) \in Nat
  BY ResultsAssumption, EnumeratedIsFinite
<1>0. W \subseteq Messages
  BY DEF WellStored
<1>3. IsFiniteSet(W) /\ Cardinality(W) \in Nat
  BY <1>0, SetsAreFinite
<1>4. \A c \in Classes : OfClass(W, c) \subseteq Messages /\ OfClass(W, c) \subseteq W
  BY <1>0 DEF OfClass
<1>5. \A c \in Classes : IsFiniteSet(OfClass(W, c)) /\ Cardinality(OfClass(W, c)) \in Nat
  BY <1>4, SetsAreFinite
<1>6. \A c \in Classes : StrictOrder(OfClass(W, c), NewerIn(W))
  BY <1>4, NewerOrder DEF StrictOrder, NewerIn
<1>7. \A c \in Classes : Numbered(OfClass(W, c), NewerIn(W))
  BY <1>5, <1>6, OrderNumbers
<1>8. \A m \in W : result[m].class \in Classes /\ m \in OfClass(W, result[m].class)
  BY DEF OfClass, WellStored
<1>9. \A m \in W : place(m) \in 1..Cardinality(OfClass(W, result[m].class))
  BY <1>7, <1>8 DEF Numbered
<1>10. F \subseteq G
  <2>1. \A c \in Classes : 1..f[c] \subseteq 1..g[c]
    BY <1>5
  <2> QED BY <2>1 DEF Enumerated
<1>11. ASSUME NEW m \in W
       PROVE  h[m] \in G \ F
  <2> DEFINE c == result[m].class
             i == f[c] + place(m)
  <2>1. c \in Classes /\ f[c] \in Nat /\ g[c] = f[c] + Cardinality(OfClass(W, c))
    BY <1>8
  <2>2. place(m) \in 1..Cardinality(OfClass(W, c)) /\ Cardinality(OfClass(W, c)) \in Nat
    BY <1>5, <1>8, <1>9
  <2> HIDE DEF place
  <2>3. i \in 1..g[c] /\ i \notin 1..f[c]
    BY <2>1, <2>2
  <2>4. h[m] = <<c, i>>
    OBVIOUS
  <2> HIDE DEF h, c, i
  <2>5. <<c, i>> \in G
    BY <2>1, <2>3, EnumeratedPairs
  <2>6. <<c, i>> \notin F
    BY <2>3, EnumeratedPairs
  <2> QED BY <2>4, <2>5, <2>6
<1>12. ASSUME NEW m \in W, NEW n \in W, h[m] = h[n]
       PROVE  m = n
  <2>1. result[m].class = result[n].class /\ f[result[m].class] + place(m) = f[result[n].class] + place(n)
    BY <1>12
  <2>2. place(m) \in Int /\ place(n) \in Int /\ f[result[m].class] \in Nat
    BY <1>8, <1>9
  <2>3. place(m) = place(n)
    BY <2>1, <2>2
  <2> DEFINE O == OfClass(W, result[m].class)
  <2>4. m \in O /\ n \in O /\ Numbered(O, NewerIn(W))
    BY <1>7, <1>8, <2>1
  <2>5. Cardinality(Below(O, NewerIn(W), m)) \in Int /\ Cardinality(Below(O, NewerIn(W), n)) \in Int
    <3>1. Cardinality(Below(O, NewerIn(W), m)) + 1 \in 1..Cardinality(O)
      BY <2>4 DEF Numbered
    <3>2. \A x \in O : Below(O, NewerIn(W), x) \subseteq O
      BY DEF Below
    <3>3. O \subseteq Messages
      BY <1>0 DEF OfClass
    <3> QED BY <2>4, <3>2, <3>3, SetsAreFinite
  <2>6. Cardinality(Below(O, NewerIn(W), m)) = Cardinality(Below(O, NewerIn(W), n))
    BY <2>1, <2>3, <2>5
  <2> HIDE DEF O
  <2> QED BY <2>4, <2>6 DEF Numbered
<1>13. ASSUME NEW p \in G \ F
       PROVE  \E m \in W : h[m] = p
  <2> DEFINE c == p[1]
             i == p[2]
  <2>1. p = <<c, i>> /\ c \in Classes /\ i \in 1..g[c]
    BY EnumeratedPairs
  <2>2. i \notin 1..f[c]
    BY <2>1, EnumeratedPairs
  <2>3. f[c] \in Nat /\ g[c] = f[c] + Cardinality(OfClass(W, c)) /\ Cardinality(OfClass(W, c)) \in Nat
    BY <1>5, <2>1
  <2> HIDE DEF c, i
  <2>4. i \in Int /\ i - f[c] \in 1..Cardinality(OfClass(W, c))
    BY <2>1, <2>2, <2>3
  <2>5. PICK m \in OfClass(W, c) : Cardinality(Below(OfClass(W, c), NewerIn(W), m)) + 1 = i - f[c]
    BY <1>7, <2>1, <2>4 DEF Numbered
  <2>6. m \in W /\ result[m].class = c
    BY DEF OfClass
  <2>7. place(m) = i - f[c]
    BY <2>5, <2>6
  <2> HIDE DEF place
  <2>8. h[m] = <<c, f[c] + (i - f[c])>>
    BY <2>6, <2>7
  <2> QED BY <2>1, <2>3, <2>4, <2>6, <2>8
<1>14. h = [m \in W |-> h[m]]
  OBVIOUS
<1> HIDE DEF h, F, G, place
<1>15. h \in Bijection(W, G \ F)
  <2>1. h \in [W -> G \ F]
    BY <1>11, <1>14
  <2>2. h \in Injection(W, G \ F)
    BY <1>12, <2>1 DEF Injection, IsInjective
  <2>3. h \in Surjection(W, G \ F)
    BY <1>13, <2>1 DEF Surjection
  <2> QED BY <2>2, <2>3 DEF Bijection
<1>16. Cardinality(G \ F) = Cardinality(W)
  BY <1>3, <1>15, FS_Bijection DEF ExistsBijection
<1>17. Cardinality(G \ F) = Cardinality(G) - Cardinality(G \cap F)
  BY <1>2, FS_Difference
<1>18. G \cap F = F
  BY <1>10
<1>19. Cardinality(W) = Cardinality(G) - Cardinality(F)
  BY <1>16, <1>17, <1>18
<1> QED BY <1>1, <1>2, <1>3, <1>19

-----------------------------------------------------------------------------
(* The statistics, month by month. *)

\* Those of S in the period that come before the month k, and those in that month.
Before(p, k, S) == {m \in InPeriod(p, S) : MonthOf(m[1]) < k}

During(p, k, S) == {m \in InPeriod(p, S) : MonthOf(m[1]) = k}

\* What has been counted up to a month is between what Low and High have there.
EmailsBetween(Low, High, p, k, n) ==
  Cardinality(Before(p, k, Low)) <= n /\ n <= Cardinality(Before(p, k, High))

FilesBetween(V, Low, High, p, k, n) ==
  /\ Cardinality(AlwaysFiles(V, Before(p, k, Low))) <= n
  /\ n <= Cardinality(EverFiles(V, Before(p, k, High)))

ClassesBetween(V, Low, High, p, k, counts) ==
  /\ Total(counts) <= Cardinality(Before(p, k, High))
  /\ \A c \in Classes : /\ Cardinality(AlwaysOfClass(V, Before(p, k, Low), c)) <= counts[c]
                        /\ counts[c] <= Cardinality(EverOfClass(V, Before(p, k, High), c))

\* Finitely many contents, each with a number of files.
Contents(V) == IsFiniteSet(V) /\ \A v \in V : v[2].files \in Nat

\* A history V of contents that has the present ones.
History(V) ==
  /\ Contents(V)
  /\ \A m \in rows : <<m, result[m]>> \in V

LEMMA MonthAdds ==
  ASSUME NEW S, S \subseteq Messages, NEW p, NEW k \in Int
  PROVE  /\ Before(p, k + 1, S) = Before(p, k, S) \cup During(p, k, S)
         /\ Before(p, k, S) \cap During(p, k, S) = {}
         /\ Before(p, k, S) \subseteq S /\ During(p, k, S) \subseteq S
<1>1. \A m \in S : MonthOf(m[1]) \in Int
  BY MessageMonth
<1>2. \A m \in S : /\ MonthOf(m[1]) < k + 1 <=> MonthOf(m[1]) < k \/ MonthOf(m[1]) = k
                   /\ ~(MonthOf(m[1]) < k /\ MonthOf(m[1]) = k)
  BY <1>1
<1> QED BY <1>2 DEF Before, During, InPeriod

LEMMA MoreRows ==
  ASSUME NEW S, NEW T, S \subseteq T, T \subseteq Messages, NEW p, NEW k
  PROVE  /\ Before(p, k, S) \subseteq Before(p, k, T) /\ Before(p, k, T) \subseteq Messages
         /\ During(p, k, S) \subseteq During(p, k, T) /\ During(p, k, T) \subseteq Messages
BY DEF Before, During, InPeriod

\* One more month, counted with what is there then.
LEMMA EmailsGrow ==
  ASSUME NEW Low, NEW High, Low \subseteq High, High \subseteq Messages, NEW p, NEW k \in Int,
         NEW n \in Nat, EmailsBetween(Low, High, p, k, n)
  PROVE  /\ EmailsBetween(Low, High, p, k + 1, n + Cardinality(During(p, k, High)))
         /\ Cardinality(During(p, k, High)) \in Nat
<1> DEFINE b == Before(p, k, Low)   d == During(p, k, Low)
           B == Before(p, k, High)  D == During(p, k, High)
<1>1. /\ b \subseteq Messages /\ d \subseteq Messages /\ B \subseteq Messages /\ D \subseteq Messages
      /\ d \subseteq D
  BY MoreRows
<1>2. /\ Before(p, k + 1, Low) = b \cup d /\ b \cap d = {}
      /\ Before(p, k + 1, High) = B \cup D /\ B \cap D = {}
  BY MonthAdds
<1> HIDE DEF b, d, B, D
<1>3. /\ Cardinality(b \cup d) = Cardinality(b) + Cardinality(d)
      /\ Cardinality(B \cup D) = Cardinality(B) + Cardinality(D)
  BY <1>1, <1>2, CountTogether
<1>4. /\ Cardinality(b) \in Nat /\ Cardinality(d) \in Nat /\ Cardinality(B) \in Nat
      /\ Cardinality(D) \in Nat /\ Cardinality(d) <= Cardinality(D)
  BY <1>1, SetsAreFinite
<1>5. Cardinality(b) <= n /\ n <= Cardinality(B)
  BY DEF EmailsBetween, b, B
<1>6. /\ Cardinality(Before(p, k + 1, Low)) <= n + Cardinality(D)
      /\ n + Cardinality(D) <= Cardinality(Before(p, k + 1, High))
  BY <1>2, <1>3, <1>4, <1>5
<1> QED BY <1>4, <1>6 DEF EmailsBetween, D

LEMMA FilesAreFinite ==
  ASSUME WellStored, NEW S, NEW T, S \subseteq T, T \subseteq rows
  PROVE  /\ IsFiniteSet(FilesOf(T)) /\ Cardinality(FilesOf(T)) \in Nat
         /\ FilesOf(S) \subseteq FilesOf(T)
<1> DEFINE count == [m \in rows |-> result[m].files]
<1>1. IsFiniteSet(T) /\ \A m \in T : count[m] \in Nat
  BY SetsAreFinite DEF WellStored
<1>2. FilesOf(S) = Enumerated(S, count) /\ FilesOf(T) = Enumerated(T, count)
  BY DEF FilesOf
<1> HIDE DEF count
<1>3. Enumerated(S, count) \subseteq Enumerated(T, count)
  BY DEF Enumerated
<1> QED BY <1>1, <1>2, <1>3, EnumeratedIsFinite

\* The files that messages have had at some time.
LEMMA EverFilesPairs ==
  ASSUME NEW V, NEW S
  PROVE  /\ \A v \in V : v[1] \in S => \A i \in 1..v[2].files : <<v[1], i>> \in EverFiles(V, S)
         /\ \A f \in EverFiles(V, S) :
              /\ f = <<f[1], f[2]>> /\ f[1] \in S
              /\ \E v \in V : v[1] = f[1] /\ f[2] \in 1..v[2].files
BY DEF EverFiles

LEMMA EverFilesAreFinite ==
  ASSUME NEW V, Contents(V), NEW S
  PROVE  /\ IsFiniteSet(EverFiles(V, S)) /\ Cardinality(EverFiles(V, S)) \in Nat
         /\ IsFiniteSet(AlwaysFiles(V, S)) /\ Cardinality(AlwaysFiles(V, S)) \in Nat
<1> DEFINE U == {w \in V : w[1] \in S}
           f == [v \in U |-> {v[1]} \X (1..v[2].files)]
           T == {f[v] : v \in U}
<1>1. IsFiniteSet(U)
  BY FS_Subset DEF Contents
<1>2. \A v \in U : IsFiniteSet({v[1]} \X (1..v[2].files))
  BY Interval, FS_Singleton, FS_Product DEF Contents
<1>3. \A v \in U : f[v] = {v[1]} \X (1..v[2].files)
  OBVIOUS
<1>4. f = [v \in U |-> f[v]]
  OBVIOUS
<1>5. EverFiles(V, S) = UNION T
  BY <1>3 DEF EverFiles
<1> HIDE DEF f, U
<1>6. f \in Surjection(U, T)
  BY <1>4 DEF Surjection
<1>7. IsFiniteSet(T) /\ \A X \in T : IsFiniteSet(X)
  BY <1>1, <1>2, <1>3, <1>6, FS_Surjection
<1>8. IsFiniteSet(EverFiles(V, S))
  BY <1>5, <1>7, FS_UNION
<1>9. AlwaysFiles(V, S) \subseteq EverFiles(V, S)
  BY DEF AlwaysFiles
<1> QED BY <1>8, <1>9, FS_Subset, FS_CardinalityType

\* Sets of messages that are apart: their files are apart, too.
LEMMA FilesTogether ==
  ASSUME NEW V, Contents(V), NEW S, NEW T, S \cap T = {}
  PROVE  /\ Cardinality(EverFiles(V, S \cup T)) =
              Cardinality(EverFiles(V, S)) + Cardinality(EverFiles(V, T))
         /\ Cardinality(AlwaysFiles(V, S \cup T)) =
              Cardinality(AlwaysFiles(V, S)) + Cardinality(AlwaysFiles(V, T))
<1>1. EverFiles(V, S \cup T) = EverFiles(V, S) \cup EverFiles(V, T)
  BY DEF EverFiles
<1>2. EverFiles(V, S) \cap EverFiles(V, T) = {}
  BY EverFilesPairs
<1>3. AlwaysFiles(V, S \cup T) = AlwaysFiles(V, S) \cup AlwaysFiles(V, T)
  BY <1>1 DEF AlwaysFiles
<1>4. AlwaysFiles(V, S) \cap AlwaysFiles(V, T) = {}
  BY <1>2 DEF AlwaysFiles
<1> QED BY <1>1, <1>2, <1>3, <1>4, EverFilesAreFinite, DisjointCounts

\* What is counted now has been there at some time, and has in it what was there throughout.
LEMMA FilesAreBetween ==
  ASSUME WellStored, NEW V, History(V), NEW S, S \subseteq rows
  PROVE  AlwaysFiles(V, S) \subseteq FilesOf(S) /\ FilesOf(S) \subseteq EverFiles(V, S)
<1> DEFINE count == [m \in rows |-> result[m].files]
<1>1. FilesOf(S) = Enumerated(S, count) /\ \A m \in S : count[m] = result[m].files
  BY DEF FilesOf
<1> HIDE DEF count
<1>2. \A m \in S : <<m, result[m]>> \in V /\ result[m].files \in Nat
  BY DEF History, WellStored
<1>3. ASSUME NEW f \in AlwaysFiles(V, S)
      PROVE  f \in FilesOf(S)
  <2>1. f \in EverFiles(V, S) /\ \A v \in V : v[1] = f[1] => f[2] <= v[2].files
    BY DEF AlwaysFiles
  <2>2. f = <<f[1], f[2]>> /\ f[1] \in S
    BY <2>1, EverFilesPairs
  <2>3. PICK v \in V : v[1] = f[1] /\ f[2] \in 1..v[2].files
    BY <2>1, EverFilesPairs
  <2>4. f[2] \in Int /\ 1 <= f[2]
    BY <2>3
  <2>5. f[2] <= result[f[1]].files
    <3> DEFINE w == <<f[1], result[f[1]]>>
    <3>1. w \in V /\ w[1] = f[1] /\ w[2] = result[f[1]]
      BY <1>2, <2>2
    <3> HIDE DEF w
    <3> QED BY <2>1, <3>1
  <2>6. f[2] \in 1..count[f[1]]
    BY <1>1, <1>2, <2>2, <2>4, <2>5
  <2> QED BY <1>1, <2>2, <2>6, EnumeratedPairs
<1>4. ASSUME NEW f \in FilesOf(S)
      PROVE  f \in EverFiles(V, S)
  <2>1. f = <<f[1], f[2]>> /\ f[1] \in S /\ f[2] \in 1..result[f[1]].files
    BY <1>1, EnumeratedPairs
  <2> DEFINE w == <<f[1], result[f[1]]>>
  <2>2. w \in V /\ w[1] = f[1] /\ w[2] = result[f[1]]
    BY <1>2, <2>1
  <2> HIDE DEF w
  <2> QED BY <2>1, <2>2, EverFilesPairs
<1> QED BY <1>3, <1>4

LEMMA FilesGrow ==
  ASSUME WellStored, NEW V, History(V),
         NEW Low, Low \subseteq rows, NEW p, NEW k \in Int,
         NEW n \in Nat, FilesBetween(V, Low, rows, p, k, n)
  PROVE  /\ FilesBetween(V, Low, rows, p, k + 1, n + Cardinality(FilesOf(During(p, k, rows))))
         /\ Cardinality(FilesOf(During(p, k, rows))) \in Nat
<1> DEFINE b == Before(p, k, Low)   d == During(p, k, Low)
           B == Before(p, k, rows)  D == During(p, k, rows)
<1>0. rows \subseteq Messages /\ Contents(V)
  BY DEF WellStored, History
<1>1. d \subseteq D /\ D \subseteq rows
  BY <1>0, MoreRows, MonthAdds
<1>2. /\ Before(p, k + 1, Low) = b \cup d /\ b \cap d = {}
      /\ Before(p, k + 1, rows) = B \cup D /\ B \cap D = {}
  BY <1>0, MonthAdds
<1>3. Cardinality(AlwaysFiles(V, b)) <= n /\ n <= Cardinality(EverFiles(V, B))
  BY DEF FilesBetween
<1> HIDE DEF b, d, B, D
<1> DEFINE least == Cardinality(AlwaysFiles(V, b))  more == Cardinality(AlwaysFiles(V, d))
           most == Cardinality(EverFiles(V, B))     last == Cardinality(EverFiles(V, D))
           now == Cardinality(FilesOf(D))
<1>4. /\ Cardinality(AlwaysFiles(V, b \cup d)) = least + more
      /\ Cardinality(EverFiles(V, B \cup D)) = most + last
  <2>1. b \cap d = {} /\ B \cap D = {}
    BY <1>2
  <2>2. Cardinality(AlwaysFiles(V, b \cup d)) = least + more
    BY <1>0, <2>1, FilesTogether
  <2>3. Cardinality(EverFiles(V, B \cup D)) = most + last
    BY <1>0, <2>1, FilesTogether
  <2> QED BY <2>2, <2>3
<1>5. least \in Nat /\ more \in Nat /\ most \in Nat /\ last \in Nat
  BY <1>0, EverFilesAreFinite
<1>6. now \in Nat /\ more <= now /\ now <= last
  <2>1. IsFiniteSet(FilesOf(D)) /\ now \in Nat /\ FilesOf(d) \subseteq FilesOf(D)
    BY <1>1, FilesAreFinite
  <2>2. AlwaysFiles(V, d) \subseteq FilesOf(d) /\ FilesOf(D) \subseteq EverFiles(V, D)
    BY <1>1, FilesAreBetween
  <2>3. AlwaysFiles(V, d) \subseteq FilesOf(D)
    BY <2>1, <2>2
  <2>4. IsFiniteSet(EverFiles(V, D))
    BY <1>0, EverFilesAreFinite
  <2> QED BY <2>1, <2>2, <2>3, <2>4, FS_Subset
<1>7. least <= n /\ n <= most
  BY <1>3
<1>8. /\ Cardinality(AlwaysFiles(V, Before(p, k + 1, Low))) = least + more
      /\ Cardinality(EverFiles(V, Before(p, k + 1, rows))) = most + last
  BY <1>2, <1>4
<1> HIDE DEF least, more, most, last, now
<1>9. least + more <= n + now /\ n + now <= most + last
  BY <1>5, <1>6, <1>7
<1> QED BY <1>6, <1>8, <1>9 DEF FilesBetween, now, D

\* The messages that have a class now, had it at some time and had it throughout.
LEMMA ClassParts ==
  ASSUME NEW c, NEW V, NEW S, NEW T, S \subseteq Messages, T \subseteq Messages
  PROVE  /\ Cardinality(OfClass(S, c)) \in Nat
         /\ Cardinality(EverOfClass(V, S, c)) \in Nat
         /\ Cardinality(AlwaysOfClass(V, S, c)) \in Nat
         /\ S \cap T = {} =>
              /\ Cardinality(EverOfClass(V, S \cup T, c)) =
                   Cardinality(EverOfClass(V, S, c)) + Cardinality(EverOfClass(V, T, c))
              /\ Cardinality(AlwaysOfClass(V, S \cup T, c)) =
                   Cardinality(AlwaysOfClass(V, S, c)) + Cardinality(AlwaysOfClass(V, T, c))
<1>1. /\ OfClass(S, c) \subseteq Messages
      /\ EverOfClass(V, S, c) \subseteq Messages /\ EverOfClass(V, T, c) \subseteq Messages
      /\ AlwaysOfClass(V, S, c) \subseteq Messages /\ AlwaysOfClass(V, T, c) \subseteq Messages
  BY DEF OfClass, EverOfClass, AlwaysOfClass
<1>2. /\ EverOfClass(V, S \cup T, c) = EverOfClass(V, S, c) \cup EverOfClass(V, T, c)
      /\ S \cap T = {} => EverOfClass(V, S, c) \cap EverOfClass(V, T, c) = {}
  BY DEF EverOfClass
<1>3. /\ AlwaysOfClass(V, S \cup T, c) = AlwaysOfClass(V, S, c) \cup AlwaysOfClass(V, T, c)
      /\ S \cap T = {} => AlwaysOfClass(V, S, c) \cap AlwaysOfClass(V, T, c) = {}
  BY DEF AlwaysOfClass
<1>4. /\ Cardinality(OfClass(S, c)) \in Nat /\ Cardinality(EverOfClass(V, S, c)) \in Nat
      /\ Cardinality(AlwaysOfClass(V, S, c)) \in Nat
  BY <1>1, SetsAreFinite
<1>5. S \cap T = {} => Cardinality(EverOfClass(V, S \cup T, c)) =
        Cardinality(EverOfClass(V, S, c)) + Cardinality(EverOfClass(V, T, c))
  BY <1>1, <1>2, CountTogether
<1>6. S \cap T = {} => Cardinality(AlwaysOfClass(V, S \cup T, c)) =
        Cardinality(AlwaysOfClass(V, S, c)) + Cardinality(AlwaysOfClass(V, T, c))
  BY <1>1, <1>3, CountTogether
<1> QED BY <1>4, <1>5, <1>6

LEMMA ClassesAreBetween ==
  ASSUME WellStored, NEW V, History(V), NEW c, NEW S, NEW T, S \subseteq T, T \subseteq rows
  PROVE  /\ Cardinality(AlwaysOfClass(V, S, c)) <= Cardinality(OfClass(T, c))
         /\ Cardinality(OfClass(T, c)) <= Cardinality(EverOfClass(V, T, c))
<1>1. \A m \in T : <<m, result[m]>> \in V
  BY DEF History
<1>2. ASSUME NEW m \in AlwaysOfClass(V, S, c)
      PROVE  m \in OfClass(T, c)
  <2> DEFINE w == <<m, result[m]>>
  <2>1. m \in T /\ \A v \in V : v[1] = m => v[2].class = c
    BY DEF AlwaysOfClass
  <2>2. w \in V /\ w[1] = m /\ w[2] = result[m]
    BY <1>1, <2>1
  <2> HIDE DEF w
  <2> QED BY <2>1, <2>2 DEF OfClass
<1>3. ASSUME NEW m \in OfClass(T, c)
      PROVE  m \in EverOfClass(V, T, c)
  <2> DEFINE w == <<m, result[m]>>
  <2>1. m \in T /\ result[m].class = c
    BY DEF OfClass
  <2>2. w \in V /\ w[1] = m /\ w[2] = result[m]
    BY <1>1, <2>1
  <2> HIDE DEF w
  <2> QED BY <2>1, <2>2 DEF EverOfClass
<1>4. AlwaysOfClass(V, S, c) \subseteq OfClass(T, c) /\ OfClass(T, c) \subseteq EverOfClass(V, T, c)
  BY <1>2, <1>3
<1>5. OfClass(T, c) \subseteq Messages /\ EverOfClass(V, T, c) \subseteq Messages
  BY DEF OfClass, EverOfClass, WellStored
<1> QED BY <1>4, <1>5, SetsAreFinite

\* The counts with those of one more month.
Added(counts, S) == [c \in Classes |-> counts[c] + Cardinality(OfClass(S, c))]

LEMMA ClassesGrow ==
  ASSUME WellStored, NEW V, History(V),
         NEW Low, Low \subseteq rows, NEW p, NEW k \in Int,
         NEW counts \in [Classes -> Nat], ClassesBetween(V, Low, rows, p, k, counts)
  PROVE  /\ ClassesBetween(V, Low, rows, p, k + 1, Added(counts, During(p, k, rows)))
         /\ Added(counts, During(p, k, rows)) \in [Classes -> Nat]
         /\ Total(Added(counts, During(p, k, rows))) =
              Total(counts) + Cardinality(During(p, k, rows))
<1> DEFINE b == Before(p, k, Low)   d == During(p, k, Low)
           B == Before(p, k, rows)  D == During(p, k, rows)
           more == Added(counts, D)
<1>0. rows \subseteq Messages
  BY DEF WellStored
<1>1. /\ b \subseteq Messages /\ d \subseteq Messages /\ B \subseteq Messages /\ D \subseteq Messages
      /\ d \subseteq D /\ D \subseteq rows
  BY <1>0, MoreRows, MonthAdds
<1>2. /\ Before(p, k + 1, Low) = b \cup d /\ b \cap d = {}
      /\ Before(p, k + 1, rows) = B \cup D /\ B \cap D = {}
  BY <1>0, MonthAdds
<1> HIDE DEF b, d, B, D
<1>3. \A c \in Classes : more[c] = counts[c] + Cardinality(OfClass(D, c))
  BY DEF Added
<1>4. \A c \in Classes : Cardinality(OfClass(D, c)) \in Nat
  BY <1>1, ClassParts
<1>5. more \in [Classes -> Nat]
  BY <1>4 DEF Added
<1> HIDE DEF more
<1>6. Total(more) = Total(counts) + Cardinality(D)
  BY <1>1, <1>3, <1>5, TotalGrows
<1>7. ASSUME NEW c \in Classes
      PROVE  /\ Cardinality(AlwaysOfClass(V, Before(p, k + 1, Low), c)) <= more[c]
             /\ more[c] <= Cardinality(EverOfClass(V, Before(p, k + 1, rows), c))
  <2> DEFINE always(S) == Cardinality(AlwaysOfClass(V, S, c))
             ever(S) == Cardinality(EverOfClass(V, S, c))
             now == Cardinality(OfClass(D, c))
  <2>1. always(b \cup d) = always(b) + always(d) /\ ever(B \cup D) = ever(B) + ever(D)
    BY <1>1, <1>2, ClassParts
  <2>2. /\ always(b) \in Nat /\ always(d) \in Nat /\ ever(B) \in Nat /\ ever(D) \in Nat
        /\ now \in Nat
    BY <1>1, ClassParts
  <2>3. always(d) <= now /\ now <= ever(D)
    BY <1>1, ClassesAreBetween
  <2>4. always(b) <= counts[c] /\ counts[c] <= ever(B)
    BY DEF ClassesBetween, b, B
  <2>5. more[c] = counts[c] + now /\ counts[c] \in Nat
    BY <1>3
  <2>6. always(Before(p, k + 1, Low)) = always(b) + always(d)
    BY <1>2, <2>1
  <2>7. ever(Before(p, k + 1, rows)) = ever(B) + ever(D)
    BY <1>2, <2>1
  <2>8. always(b) + always(d) <= more[c] /\ more[c] <= ever(B) + ever(D)
    <3> HIDE DEF always, ever, now
    <3> QED BY <2>2, <2>3, <2>4, <2>5
  <2> QED BY <2>6, <2>7, <2>8
<1>8. Total(more) <= Cardinality(Before(p, k + 1, rows))
  <2>1. Cardinality(B \cup D) = Cardinality(B) + Cardinality(D)
    BY <1>1, <1>2, CountTogether
  <2>2. Cardinality(B) \in Nat /\ Cardinality(D) \in Nat /\ Total(counts) \in Nat
    BY <1>1, SetsAreFinite, ResultsAssumption, EnumeratedIsFinite DEF Total
  <2>3. Total(counts) <= Cardinality(B)
    BY DEF ClassesBetween, B
  <2>4. Cardinality(Before(p, k + 1, rows)) = Cardinality(B) + Cardinality(D)
    BY <1>2, <2>1
  <2> QED BY <1>6, <2>2, <2>3, <2>4
<1> QED BY <1>5, <1>6, <1>7, <1>8 DEF ClassesBetween, more, D

\* Rows and contents that are stored meanwhile raise only what is allowed and lower
\* only what is asked for.
LEMMA BracketsWiden ==
  ASSUME NEW Low, NEW High, NEW New, High \subseteq New, New \subseteq Messages,
         Low \subseteq Messages, NEW p, NEW k,
         NEW V, NEW W, V \subseteq W, Contents(W),
         \A m \in Low : \E v \in V : v[1] = m
  PROVE  /\ \A n \in Nat : EmailsBetween(Low, High, p, k, n) => EmailsBetween(Low, New, p, k, n)
         /\ \A n \in Nat : FilesBetween(V, Low, High, p, k, n) => FilesBetween(W, Low, New, p, k, n)
         /\ \A counts \in [Classes -> Nat] :
              ClassesBetween(V, Low, High, p, k, counts) => ClassesBetween(W, Low, New, p, k, counts)
<1> DEFINE b == Before(p, k, Low)  B == Before(p, k, High)  N == Before(p, k, New)
<1>1. B \subseteq N /\ N \subseteq Messages /\ B \subseteq Messages /\ b \subseteq Messages
  BY MoreRows
<1>2. \A m \in b : \E v \in V : v[1] = m
  BY DEF Before, InPeriod
<1> HIDE DEF b, B, N
<1>3. Cardinality(B) <= Cardinality(N) /\ Cardinality(B) \in Nat /\ Cardinality(N) \in Nat
  BY <1>1, SetsAreFinite
<1>4. \A n \in Nat : n <= Cardinality(B) => n <= Cardinality(N)
  BY <1>3
<1>5. /\ Cardinality(EverFiles(V, B)) <= Cardinality(EverFiles(W, N))
      /\ Cardinality(EverFiles(V, B)) \in Nat /\ Cardinality(EverFiles(W, N)) \in Nat
      /\ Cardinality(AlwaysFiles(W, b)) <= Cardinality(AlwaysFiles(V, b))
      /\ Cardinality(AlwaysFiles(W, b)) \in Nat /\ Cardinality(AlwaysFiles(V, b)) \in Nat
  <2>1. Contents(V)
    BY FS_Subset DEF Contents
  <2>2. EverFiles(V, B) \subseteq EverFiles(W, N)
    BY <1>1 DEF EverFiles
  <2>3. ASSUME NEW f \in AlwaysFiles(W, b)
        PROVE  f \in AlwaysFiles(V, b)
    <3>1. f \in EverFiles(W, b) /\ \A w \in W : w[1] = f[1] => f[2] <= w[2].files
      BY DEF AlwaysFiles
    <3>2. f = <<f[1], f[2]>> /\ f[1] \in b
      BY <3>1, EverFilesPairs
    <3>3. PICK w \in W : w[1] = f[1] /\ f[2] \in 1..w[2].files
      BY <3>1, EverFilesPairs
    <3>4. PICK v \in V : v[1] = f[1]
      BY <1>2, <3>2
    <3>5. f[2] <= v[2].files /\ v[2].files \in Nat /\ f[2] \in Int /\ 1 <= f[2]
      BY <2>1, <3>1, <3>3, <3>4 DEF Contents
    <3>6. <<v[1], f[2]>> \in EverFiles(V, b)
      BY <3>2, <3>4, <3>5, EverFilesPairs
    <3>7. f \in EverFiles(V, b)
      BY <3>2, <3>4, <3>6
    <3> QED BY <3>1, <3>7 DEF AlwaysFiles
  <2>4. AlwaysFiles(W, b) \subseteq AlwaysFiles(V, b)
    BY <2>3
  <2>5. /\ IsFiniteSet(EverFiles(W, N)) /\ IsFiniteSet(AlwaysFiles(V, b))
        /\ Cardinality(EverFiles(V, B)) \in Nat /\ Cardinality(EverFiles(W, N)) \in Nat
        /\ Cardinality(AlwaysFiles(W, b)) \in Nat /\ Cardinality(AlwaysFiles(V, b)) \in Nat
    BY <2>1, EverFilesAreFinite
  <2> QED BY <2>2, <2>4, <2>5, FS_Subset
<1>6. ASSUME NEW c
      PROVE  /\ Cardinality(EverOfClass(V, B, c)) <= Cardinality(EverOfClass(W, N, c))
             /\ Cardinality(EverOfClass(V, B, c)) \in Nat /\ Cardinality(EverOfClass(W, N, c)) \in Nat
             /\ Cardinality(AlwaysOfClass(W, b, c)) <= Cardinality(AlwaysOfClass(V, b, c))
             /\ Cardinality(AlwaysOfClass(W, b, c)) \in Nat
             /\ Cardinality(AlwaysOfClass(V, b, c)) \in Nat
  <2>1. EverOfClass(V, B, c) \subseteq EverOfClass(W, N, c) /\ EverOfClass(W, N, c) \subseteq Messages
    BY <1>1 DEF EverOfClass
  <2>2. /\ AlwaysOfClass(W, b, c) \subseteq AlwaysOfClass(V, b, c)
        /\ AlwaysOfClass(V, b, c) \subseteq Messages
    BY <1>1 DEF AlwaysOfClass
  <2> QED BY <2>1, <2>2, SetsAreFinite
<1>7. ASSUME NEW n \in Nat, FilesBetween(V, Low, High, p, k, n)
      PROVE  FilesBetween(W, Low, New, p, k, n)
  <2>1. Cardinality(AlwaysFiles(V, b)) <= n /\ n <= Cardinality(EverFiles(V, B))
    BY <1>7 DEF FilesBetween, b, B
  <2>2. Cardinality(AlwaysFiles(W, b)) <= n /\ n <= Cardinality(EverFiles(W, N))
    BY <1>5, <2>1
  <2> QED BY <2>2 DEF FilesBetween, b, N
<1>8. ASSUME NEW counts \in [Classes -> Nat], ClassesBetween(V, Low, High, p, k, counts)
      PROVE  ClassesBetween(W, Low, New, p, k, counts)
  <2>1. Total(counts) \in Nat
    BY ResultsAssumption, EnumeratedIsFinite DEF Total
  <2>2. Total(counts) <= Cardinality(N)
    BY <1>4, <1>8, <2>1 DEF ClassesBetween, B
  <2>3. ASSUME NEW c \in Classes
        PROVE  /\ Cardinality(AlwaysOfClass(W, b, c)) <= counts[c]
               /\ counts[c] <= Cardinality(EverOfClass(W, N, c))
    <3>1. /\ counts[c] \in Nat /\ counts[c] <= Cardinality(EverOfClass(V, B, c))
          /\ Cardinality(AlwaysOfClass(V, b, c)) <= counts[c]
      BY <1>8 DEF ClassesBetween, b, B
    <3> QED BY <1>6, <3>1
  <2> QED BY <2>2, <2>3 DEF ClassesBetween, b, N
<1> QED BY <1>4, <1>7, <1>8 DEF EmailsBetween, b, B, N

-----------------------------------------------------------------------------
(* The invariant of the statistics. *)

\* The month that the total and the files have come to; the classes have come to stats.month.
EmailsTo == IF stats.at \in {"files", "classes"} THEN stats.month + 1 ELSE stats.month

FilesTo == IF stats.at = "classes" THEN stats.month + 1 ELSE stats.month

\* What the total has counted and the classes have not.
Pending ==
  IF stats.at \in {"files", "classes"} THEN Cardinality(During(stats.period, stats.month, rows)) ELSE 0

StatsTypes ==
  /\ rows \subseteq Messages
  /\ stats = [at |-> stats.at, period |-> stats.period, month |-> stats.month,
              emails |-> stats.emails, files |-> stats.files, classes |-> stats.classes,
              present |-> stats.present]
  /\ stats.at \in {"idle", "emails", "files", "classes", "done"}
  /\ stats.present \subseteq rows
  /\ stats.month \in Int /\ stats.period.start \in Int /\ stats.period.end \in Int
  /\ stats.emails \in Nat /\ stats.files \in Nat /\ stats.classes \in [Classes -> Nat]

Brackets ==
  stats.at # "idle" =>
    /\ EmailsBetween(stats.present, rows, stats.period, EmailsTo, stats.emails)
    /\ FilesBetween(versions, stats.present, rows, stats.period, FilesTo, stats.files)
    /\ ClassesBetween(versions, stats.present, rows, stats.period, stats.month, stats.classes)
    /\ stats.emails <= Total(stats.classes) + Pending

\* The history has what has been stored since the statistics began.
HistoryIsKept ==
  /\ WellStored /\ \A m \in rows : result[m] \in Results[m]
  /\ IsFiniteSet(versions) /\ \A v \in versions : v[1] \in rows /\ v[2] \in Results[v[1]]
  /\ stats.at # "idle" => \A m \in rows : <<m, result[m]>> \in versions

StatsInvariant ==
  /\ StatsTypes /\ HistoryIsKept /\ Brackets
  /\ stats.at = "done" => stats.period.end <= FirstOf(stats.month)

-----------------------------------------------------------------------------
(* The steps of the statistics. *)

\* A period that has just begun: nothing has been counted, and nothing was to be.
LEMMA NothingYet ==
  ASSUME NEW S, S \subseteq Messages, NEW p, p.start \in Int
  PROVE  Before(p, MonthOf(p.start), S) = {}
<1>1. ASSUME NEW m \in S, m[1] >= p.start
      PROVE  ~(MonthOf(m[1]) < MonthOf(p.start))
  <2>1. m[1] \in Int
    BY MessageFields
  <2>2. MonthOf(m[1]) < MonthOf(p.start) => m[1] < p.start
    BY <2>1, LaterMonth
  <2> QED BY <1>1, <2>1, <2>2
<1> QED BY <1>1 DEF Before, InPeriod

LEMMA NothingCounts ==
  /\ Cardinality({}) = 0 /\ \A V : AlwaysFiles(V, {}) = {} /\ EverFiles(V, {}) = {}
  /\ \A V, c : AlwaysOfClass(V, {}, c) = {} /\ EverOfClass(V, {}, c) = {}
  /\ NoStats.classes \in [Classes -> Nat] /\ Total(NoStats.classes) = 0
<1>1. Cardinality({}) = 0
  BY FS_EmptySet
<1>2. /\ \A V : AlwaysFiles(V, {}) = {} /\ EverFiles(V, {}) = {}
      /\ \A V, c : AlwaysOfClass(V, {}, c) = {} /\ EverOfClass(V, {}, c) = {}
  BY DEF AlwaysFiles, EverFiles, AlwaysOfClass, EverOfClass
<1>3. NoStats.classes = [c \in Classes |-> 0]
  BY DEF NoStats
<1>4. Enumerated(Classes, NoStats.classes) = {}
  <2>1. \A c \in Classes : 1..NoStats.classes[c] = {}
    BY <1>3
  <2> QED BY <2>1 DEF Enumerated
<1>5. Total(NoStats.classes) = 0
  BY <1>1, <1>3, <1>4 DEF Total
<1> QED BY <1>1, <1>2, <1>3, <1>5

\* What the queries of a month read.
LEMMA WindowIsMonth ==
  ASSUME StatsTypes
  PROVE  Window(stats.period, stats.month) = During(stats.period, stats.month, rows)
BY DEF Window, During, InPeriod

LEMMA HistoryHolds ==
  ASSUME StatsTypes, HistoryIsKept
  PROVE  /\ WellStored /\ Contents(versions)
         /\ stats.at # "idle" => History(versions)
<1>1. Contents(versions)
  BY ResultsAssumption DEF StatsTypes, HistoryIsKept, Contents
<1> QED BY <1>1 DEF HistoryIsKept, History

\* Steps of the statistics leave what is stored alone.
LEMMA HistoryStays ==
  ASSUME HistoryIsKept, rows' = rows, result' = result, versions' = versions,
         stats'.at # "idle" => stats.at # "idle"
  PROVE  HistoryIsKept'
BY DEF HistoryIsKept, WellStored

LEMMA PendingType ==
  ASSUME StatsTypes
  PROVE  /\ Pending \in Nat /\ Total(stats.classes) \in Nat
         /\ Cardinality(During(stats.period, stats.month, rows)) \in Nat
<1>1. During(stats.period, stats.month, rows) \subseteq Messages
  BY DEF During, InPeriod, StatsTypes
<1>2. Cardinality(During(stats.period, stats.month, rows)) \in Nat
  BY <1>1, SetsAreFinite
<1>3. Total(stats.classes) \in Nat
  BY ResultsAssumption, EnumeratedIsFinite DEF Total, StatsTypes
<1> QED BY <1>2, <1>3 DEF Pending

LEMMA StatsByOpen ==
  ASSUME StatsInvariant, OpenStatistics
  PROVE  StatsInvariant'
<1>1. PICK p \in Periods :
        stats' = [NoStats EXCEPT !.at = "emails", !.period = p, !.present = rows, !.month = MonthOf(p.start)]
  BY DEF OpenStatistics
<1>2. rows' = rows /\ rows \subseteq Messages
  BY DEF OpenStatistics, StatsInvariant, StatsTypes
<1>3. p.start \in Int /\ p.end \in Int
  BY PeriodsAssumption
<1>4. /\ stats'.at = "emails" /\ stats'.period = p /\ stats'.present = rows
      /\ stats'.month = MonthOf(p.start) /\ stats'.emails = 0 /\ stats'.files = 0
      /\ stats'.classes = NoStats.classes
      /\ stats' = [at |-> stats'.at, period |-> stats'.period, month |-> stats'.month,
                   emails |-> stats'.emails, files |-> stats'.files, classes |-> stats'.classes,
                   present |-> stats'.present]
  BY <1>1 DEF NoStats
<1>5. MonthOf(p.start) \in Int
  BY <1>3, MonthType
<1>6. StatsTypes'
  BY <1>2, <1>3, <1>4, <1>5, NothingCounts DEF StatsTypes
<1>11. HistoryIsKept'
  <2>1. /\ WellStored /\ result' = result /\ versions' = {<<m, result[m]>> : m \in rows}
        /\ \A m \in rows : result[m] \in Results[m]
    BY DEF OpenStatistics, StatsInvariant, HistoryIsKept
  <2> DEFINE f == [m \in rows |-> <<m, result[m]>>]
  <2>2. f \in Surjection(rows, versions')
    BY <2>1 DEF Surjection
  <2>3. IsFiniteSet(versions')
    BY <1>2, <2>2, SetsAreFinite, FS_Surjection
  <2>4. WellStored'
    BY <1>2, <2>1 DEF WellStored
  <2>5. \A v \in versions' : v[1] \in rows /\ v[2] \in Results[v[1]]
    BY <2>1
  <2> QED BY <1>2, <2>1, <2>3, <2>4, <2>5 DEF HistoryIsKept
<1>7. Before(p, MonthOf(p.start), rows) = {}
  BY <1>2, <1>3, NothingYet
<1>8. EmailsTo' = MonthOf(p.start) /\ FilesTo' = MonthOf(p.start) /\ Pending' = 0
  BY <1>4 DEF EmailsTo, FilesTo, Pending
<1>9. /\ EmailsBetween(rows, rows, p, MonthOf(p.start), 0)
      /\ FilesBetween(versions', rows, rows, p, MonthOf(p.start), 0)
      /\ ClassesBetween(versions', rows, rows, p, MonthOf(p.start), NoStats.classes)
  <2>1. \A c \in Classes : NoStats.classes[c] = 0
    BY DEF NoStats
  <2>2. Cardinality({}) = 0 /\ Total(NoStats.classes) = 0 /\ 0 <= 0
    BY NothingCounts
  <2> QED BY <1>7, <2>1, <2>2, NothingCounts DEF EmailsBetween, FilesBetween, ClassesBetween
<1>10. Brackets'
  <2>1. /\ EmailsBetween(stats'.present, rows', stats'.period, EmailsTo', stats'.emails)
        /\ FilesBetween(versions', stats'.present, rows', stats'.period, FilesTo', stats'.files)
        /\ ClassesBetween(versions', stats'.present, rows', stats'.period, stats'.month, stats'.classes)
    BY <1>2, <1>4, <1>8, <1>9
  <2>2. stats'.emails <= Total(stats'.classes) + Pending'
    BY <1>4, <1>8, NothingCounts
  <2> QED BY <2>1, <2>2 DEF Brackets, EmailsBetween, FilesBetween, ClassesBetween
<1> QED BY <1>4, <1>6, <1>10, <1>11 DEF StatsInvariant

LEMMA StatsByCountEmails ==
  ASSUME StatsInvariant, CountEmails
  PROVE  StatsInvariant'
<1> DEFINE more == Cardinality(During(stats.period, stats.month, rows))
<1>1. /\ stats.at = "emails" /\ rows' = rows
      /\ stats' = [stats EXCEPT !.at = "files", !.emails = stats.emails + more]
  BY WindowIsMonth DEF CountEmails, StatsInvariant
<1>2. /\ StatsTypes /\ Brackets /\ HistoryIsKept
      /\ WellStored /\ History(versions) /\ versions' = versions /\ result' = result
  BY HistoryHolds DEF StatsInvariant, CountEmails
<1>3. more \in Nat /\ Total(stats.classes) \in Nat
  BY <1>2, PendingType
<1>4. /\ EmailsBetween(stats.present, rows, stats.period, stats.month, stats.emails)
      /\ FilesBetween(versions, stats.present, rows, stats.period, stats.month, stats.files)
      /\ ClassesBetween(versions, stats.present, rows, stats.period, stats.month, stats.classes)
      /\ stats.emails <= Total(stats.classes) + 0
  BY <1>1, <1>2 DEF Brackets, EmailsTo, FilesTo, Pending
<1>5. EmailsBetween(stats.present, rows, stats.period, stats.month + 1, stats.emails + more)
  BY <1>2, <1>4, EmailsGrow DEF StatsTypes
<1> HIDE DEF more
<1>6. /\ stats'.at = "files" /\ stats'.emails = stats.emails + more /\ stats'.files = stats.files
      /\ stats'.period = stats.period /\ stats'.month = stats.month
      /\ stats'.present = stats.present /\ stats'.classes = stats.classes
      /\ stats' = [at |-> stats'.at, period |-> stats'.period, month |-> stats'.month,
                   emails |-> stats'.emails, files |-> stats'.files, classes |-> stats'.classes,
                   present |-> stats'.present]
  <2>1. stats = [at |-> stats.at, period |-> stats.period, month |-> stats.month,
                 emails |-> stats.emails, files |-> stats.files, classes |-> stats.classes,
                 present |-> stats.present]
    BY <1>2 DEF StatsTypes
  <2> QED BY <1>1, <2>1
<1>7. stats.emails + more \in Nat
  BY <1>2, <1>3 DEF StatsTypes
<1>8. StatsTypes'
  BY <1>1, <1>2, <1>6, <1>7 DEF StatsTypes
<1>9. EmailsTo' = stats.month + 1 /\ FilesTo' = stats.month /\ Pending' = more
  BY <1>1, <1>6 DEF EmailsTo, FilesTo, Pending, more
<1>10. stats.emails + more <= Total(stats.classes) + more
  BY <1>2, <1>3, <1>4 DEF StatsTypes
<1>11. Brackets'
  <2>1. /\ EmailsBetween(stats'.present, rows', stats'.period, EmailsTo', stats'.emails)
        /\ FilesBetween(versions', stats'.present, rows', stats'.period, FilesTo', stats'.files)
        /\ ClassesBetween(versions', stats'.present, rows', stats'.period, stats'.month, stats'.classes)
    BY <1>1, <1>2, <1>4, <1>5, <1>6, <1>9
  <2>2. stats'.emails <= Total(stats'.classes) + Pending'
    BY <1>6, <1>9, <1>10
  <2> QED BY <2>1, <2>2 DEF Brackets, EmailsBetween, FilesBetween, ClassesBetween
<1>20. HistoryIsKept'
  BY <1>1, <1>2, <1>6, HistoryStays
<1> QED BY <1>6, <1>8, <1>11, <1>20 DEF StatsInvariant

LEMMA StatsByCountAttachments ==
  ASSUME StatsInvariant, CountAttachments
  PROVE  StatsInvariant'
<1> DEFINE more == Cardinality(FilesOf(During(stats.period, stats.month, rows)))
<1>1. /\ stats.at = "files" /\ rows' = rows
      /\ stats' = [stats EXCEPT !.at = "classes", !.files = stats.files + more]
  BY WindowIsMonth DEF CountAttachments, StatsInvariant
<1>2. /\ StatsTypes /\ Brackets /\ HistoryIsKept
      /\ WellStored /\ History(versions) /\ versions' = versions /\ result' = result
  BY HistoryHolds DEF StatsInvariant, CountAttachments
<1>3. /\ EmailsBetween(stats.present, rows, stats.period, stats.month + 1, stats.emails)
      /\ FilesBetween(versions, stats.present, rows, stats.period, stats.month, stats.files)
      /\ ClassesBetween(versions, stats.present, rows, stats.period, stats.month, stats.classes)
      /\ stats.emails <= Total(stats.classes) + Pending
  BY <1>1, <1>2 DEF Brackets, EmailsTo, FilesTo
<1>4. /\ FilesBetween(versions, stats.present, rows, stats.period, stats.month + 1, stats.files + more)
      /\ more \in Nat
  BY <1>2, <1>3, FilesGrow DEF StatsTypes
<1> HIDE DEF more
<1>5. /\ stats'.at = "classes" /\ stats'.emails = stats.emails /\ stats'.files = stats.files + more
      /\ stats'.period = stats.period /\ stats'.month = stats.month
      /\ stats'.present = stats.present /\ stats'.classes = stats.classes
      /\ stats' = [at |-> stats'.at, period |-> stats'.period, month |-> stats'.month,
                   emails |-> stats'.emails, files |-> stats'.files, classes |-> stats'.classes,
                   present |-> stats'.present]
  <2>1. stats = [at |-> stats.at, period |-> stats.period, month |-> stats.month,
                 emails |-> stats.emails, files |-> stats.files, classes |-> stats.classes,
                 present |-> stats.present]
    BY <1>2 DEF StatsTypes
  <2> QED BY <1>1, <2>1
<1>6. stats.files + more \in Nat
  BY <1>2, <1>4 DEF StatsTypes
<1>7. StatsTypes'
  BY <1>1, <1>2, <1>5, <1>6 DEF StatsTypes
<1>8. EmailsTo' = stats.month + 1 /\ FilesTo' = stats.month + 1 /\ Pending' = Pending
  BY <1>1, <1>5 DEF EmailsTo, FilesTo, Pending
<1>9. Brackets'
  <2>1. /\ EmailsBetween(stats'.present, rows', stats'.period, EmailsTo', stats'.emails)
        /\ FilesBetween(versions', stats'.present, rows', stats'.period, FilesTo', stats'.files)
        /\ ClassesBetween(versions', stats'.present, rows', stats'.period, stats'.month, stats'.classes)
    BY <1>1, <1>2, <1>3, <1>4, <1>5, <1>8
  <2>2. stats'.emails <= Total(stats'.classes) + Pending'
    BY <1>3, <1>5, <1>8
  <2> QED BY <2>1, <2>2 DEF Brackets, EmailsBetween, FilesBetween, ClassesBetween
<1>20. HistoryIsKept'
  BY <1>1, <1>2, <1>5, HistoryStays
<1> QED BY <1>5, <1>7, <1>9, <1>20 DEF StatsInvariant

LEMMA StatsByCountClasses ==
  ASSUME StatsInvariant, CountClasses
  PROVE  StatsInvariant'
<1> DEFINE D == During(stats.period, stats.month, rows)
           more == Added(stats.classes, D)
<1>1. /\ stats.at = "classes" /\ rows' = rows
      /\ stats' = [stats EXCEPT !.at = "emails", !.month = stats.month + 1, !.classes = more]
  BY WindowIsMonth DEF CountClasses, StatsInvariant, Added
<1>2. /\ StatsTypes /\ Brackets /\ HistoryIsKept
      /\ WellStored /\ History(versions) /\ versions' = versions /\ result' = result
  BY HistoryHolds DEF StatsInvariant, CountClasses
<1>3. /\ EmailsBetween(stats.present, rows, stats.period, stats.month + 1, stats.emails)
      /\ FilesBetween(versions, stats.present, rows, stats.period, stats.month + 1, stats.files)
      /\ ClassesBetween(versions, stats.present, rows, stats.period, stats.month, stats.classes)
      /\ stats.emails <= Total(stats.classes) + Cardinality(D)
  BY <1>1, <1>2 DEF Brackets, EmailsTo, FilesTo, Pending
<1>4. /\ ClassesBetween(versions, stats.present, rows, stats.period, stats.month + 1, more)
      /\ more \in [Classes -> Nat] /\ Total(more) = Total(stats.classes) + Cardinality(D)
  BY <1>2, <1>3, ClassesGrow DEF StatsTypes
<1> HIDE DEF more, D
<1>5. /\ stats'.at = "emails" /\ stats'.emails = stats.emails /\ stats'.files = stats.files
      /\ stats'.period = stats.period /\ stats'.month = stats.month + 1
      /\ stats'.present = stats.present /\ stats'.classes = more
      /\ stats' = [at |-> stats'.at, period |-> stats'.period, month |-> stats'.month,
                   emails |-> stats'.emails, files |-> stats'.files, classes |-> stats'.classes,
                   present |-> stats'.present]
  <2>1. stats = [at |-> stats.at, period |-> stats.period, month |-> stats.month,
                 emails |-> stats.emails, files |-> stats.files, classes |-> stats.classes,
                 present |-> stats.present]
    BY <1>2 DEF StatsTypes
  <2> QED BY <1>1, <2>1
<1>6. stats.month + 1 \in Int
  BY <1>2 DEF StatsTypes
<1>7. StatsTypes'
  BY <1>1, <1>2, <1>4, <1>5, <1>6 DEF StatsTypes
<1>8. EmailsTo' = stats.month + 1 /\ FilesTo' = stats.month + 1 /\ Pending' = 0
  BY <1>5 DEF EmailsTo, FilesTo, Pending
<1>9. stats.emails <= Total(more) + 0
  <2>1. Total(stats.classes) \in Nat /\ Cardinality(D) \in Nat
    BY <1>2, PendingType DEF D
  <2> QED BY <1>3, <1>4, <2>1
<1>10. Brackets'
  <2>1. /\ EmailsBetween(stats'.present, rows', stats'.period, EmailsTo', stats'.emails)
        /\ FilesBetween(versions', stats'.present, rows', stats'.period, FilesTo', stats'.files)
        /\ ClassesBetween(versions', stats'.present, rows', stats'.period, stats'.month, stats'.classes)
    BY <1>1, <1>2, <1>3, <1>4, <1>5, <1>8
  <2>2. stats'.emails <= Total(stats'.classes) + Pending'
    BY <1>5, <1>8, <1>9
  <2> QED BY <2>1, <2>2 DEF Brackets, EmailsBetween, FilesBetween, ClassesBetween
<1>20. HistoryIsKept'
  BY <1>1, <1>2, <1>5, HistoryStays
<1> QED BY <1>5, <1>7, <1>10, <1>20 DEF StatsInvariant

LEMMA StatsByAnswer ==
  ASSUME StatsInvariant, AnswerStatistics
  PROVE  StatsInvariant'
<1>1. /\ stats.at = "emails" /\ FirstOf(stats.month) >= stats.period.end /\ rows' = rows
      /\ stats' = [stats EXCEPT !.at = "done"]
  BY DEF AnswerStatistics
<1>2. /\ StatsTypes /\ Brackets /\ HistoryIsKept
      /\ WellStored /\ History(versions) /\ versions' = versions /\ result' = result
  BY HistoryHolds DEF StatsInvariant, AnswerStatistics
<1>3. /\ stats'.at = "done" /\ stats'.emails = stats.emails /\ stats'.files = stats.files
      /\ stats'.period = stats.period /\ stats'.month = stats.month
      /\ stats'.present = stats.present /\ stats'.classes = stats.classes
      /\ stats' = [at |-> stats'.at, period |-> stats'.period, month |-> stats'.month,
                   emails |-> stats'.emails, files |-> stats'.files, classes |-> stats'.classes,
                   present |-> stats'.present]
  <2>1. stats = [at |-> stats.at, period |-> stats.period, month |-> stats.month,
                 emails |-> stats.emails, files |-> stats.files, classes |-> stats.classes,
                 present |-> stats.present]
    BY <1>2 DEF StatsTypes
  <2> QED BY <1>1, <2>1
<1>4. StatsTypes'
  BY <1>1, <1>2, <1>3 DEF StatsTypes
<1>5. EmailsTo' = EmailsTo /\ FilesTo' = FilesTo /\ Pending' = Pending
  BY <1>1, <1>3 DEF EmailsTo, FilesTo, Pending
<1>6. Brackets'
  <2>1. /\ EmailsBetween(stats'.present, rows', stats'.period, EmailsTo', stats'.emails)
        /\ FilesBetween(versions', stats'.present, rows', stats'.period, FilesTo', stats'.files)
        /\ ClassesBetween(versions', stats'.present, rows', stats'.period, stats'.month, stats'.classes)
        /\ stats'.emails <= Total(stats'.classes) + Pending'
    BY <1>1, <1>2, <1>3, <1>5 DEF Brackets
  <2> QED BY <2>1 DEF Brackets, EmailsBetween, FilesBetween, ClassesBetween
<1>7. stats'.period.end <= FirstOf(stats'.month)
  <2>1. stats.period.end \in Int /\ stats.month \in Int
    BY <1>2 DEF StatsTypes
  <2>2. FirstOf(stats.month) \in Int
    BY <2>1, MonthAssumption DEF FirstOf
  <2> QED BY <1>1, <1>3, <2>1, <2>2
<1>20. HistoryIsKept'
  BY <1>1, <1>2, <1>3, HistoryStays
<1> QED BY <1>4, <1>6, <1>7, <1>20 DEF StatsInvariant

LEMMA RestFields ==
  /\ NoStats.at = "idle" /\ NoStats.present = {} /\ NoStats.month = 0
  /\ NoStats.period.start = 0 /\ NoStats.period.end = 1 /\ NoStats.emails = 0 /\ NoStats.files = 0
  /\ NoStats = [at |-> NoStats.at, period |-> NoStats.period, month |-> NoStats.month,
                emails |-> NoStats.emails, files |-> NoStats.files, classes |-> NoStats.classes,
                present |-> NoStats.present]
BY DEF NoStats

LEMMA RestIsStats ==
  ASSUME stats = NoStats, rows = {}, versions = {}
  PROVE  StatsInvariant
<1>1. HistoryIsKept
  BY FS_EmptySet, RestFields DEF HistoryIsKept, WellStored
<1> QED BY <1>1, RestFields, NothingCounts DEF StatsInvariant, StatsTypes, Brackets

LEMMA StatsAtRest ==
  ASSUME StatsInvariant, stats' = NoStats, rows' = rows, result' = result, versions' = {}
  PROVE  StatsInvariant'
<1>1. HistoryIsKept'
  BY FS_EmptySet, RestFields DEF StatsInvariant, HistoryIsKept, WellStored
<1>2. StatsTypes'
  BY RestFields, NothingCounts DEF StatsInvariant, StatsTypes
<1>3. Brackets'
  BY RestFields DEF Brackets
<1> QED BY <1>1, <1>2, <1>3, RestFields DEF StatsInvariant

\* Messages that are inserted meanwhile, and steps of the list.
LEMMA StatsStay ==
  ASSUME StatsInvariant, stats' = stats, rows \subseteq rows', rows' \subseteq Messages,
         HistoryIsKept', stats.at # "idle" => versions \subseteq versions'
  PROVE  StatsInvariant'
<1>1. StatsTypes /\ Brackets /\ StatsTypes'
  BY DEF StatsInvariant, StatsTypes
<1>2. ASSUME stats.at # "idle"
      PROVE  Brackets'
  <2>1. /\ EmailsTo' = EmailsTo /\ FilesTo' = FilesTo
        /\ EmailsTo \in Int /\ FilesTo \in Int
    BY <1>1 DEF EmailsTo, FilesTo, StatsTypes
  <2>2. Pending \in Nat /\ Pending' \in Nat /\ Pending <= Pending' /\ Total(stats.classes) \in Nat
    <3>1. /\ During(stats.period, stats.month, rows) \subseteq During(stats.period, stats.month, rows')
          /\ During(stats.period, stats.month, rows') \subseteq Messages
      BY MoreRows
    <3>2. /\ Cardinality(During(stats.period, stats.month, rows)) \in Nat
          /\ Cardinality(During(stats.period, stats.month, rows')) \in Nat
          /\ Cardinality(During(stats.period, stats.month, rows))
               <= Cardinality(During(stats.period, stats.month, rows'))
      BY <3>1, SetsAreFinite
    <3>3. Pending' = IF stats.at \in {"files", "classes"}
                     THEN Cardinality(During(stats.period, stats.month, rows')) ELSE 0
      BY DEF Pending, During, InPeriod
    <3>4. Total(stats.classes) \in Nat
      BY <1>1, PendingType
    <3> QED BY <3>2, <3>3, <3>4 DEF Pending
  <2>3. /\ EmailsBetween(stats.present, rows', stats.period, EmailsTo, stats.emails)
        /\ FilesBetween(versions', stats.present, rows', stats.period, FilesTo, stats.files)
        /\ ClassesBetween(versions', stats.present, rows', stats.period, stats.month, stats.classes)
    <3>1. /\ Contents(versions')
          /\ versions \subseteq versions' /\ stats.present \subseteq rows
      BY <1>1, <1>2, ResultsAssumption DEF HistoryIsKept, StatsTypes, Contents
    <3>2. ASSUME NEW m \in stats.present
          PROVE  \E v \in versions : v[1] = m
      <4>1. <<m, result[m]>> \in versions /\ <<m, result[m]>>[1] = m
        BY <1>2, <3>1 DEF StatsInvariant, HistoryIsKept
      <4> QED BY <4>1
    <3>3. stats.present \subseteq Messages
      BY <1>1, <3>1 DEF StatsTypes
    <3> QED BY <1>1, <1>2, <3>1, <3>2, <3>3, BracketsWiden DEF Brackets, StatsTypes
  <2>4. stats.emails \in Nat /\ stats.emails <= Total(stats.classes) + Pending
    BY <1>1, <1>2 DEF Brackets, StatsTypes
  <2>5. stats.emails <= Total(stats.classes) + Pending'
    BY <2>2, <2>4
  <2> QED BY <2>1, <2>3, <2>5 DEF Brackets, EmailsBetween, FilesBetween, ClassesBetween
<1>3. Brackets'
  BY <1>2 DEF Brackets
<1> QED BY <1>1, <1>3 DEF StatsInvariant

\* Steps that leave what is stored alone.
LEMMA StatsUntouched ==
  ASSUME StatsInvariant, stats' = stats, rows' = rows, result' = result, versions' = versions
  PROVE  StatsInvariant'
<1>1. HistoryIsKept'
  BY HistoryStays DEF StatsInvariant
<1>2. rows' \subseteq Messages
  BY DEF StatsInvariant, StatsTypes
<1> QED BY <1>1, <1>2, StatsStay

LEMMA StatsByStore ==
  ASSUME StatsInvariant, NEW m \in Messages, NEW content \in Results[m], Store(m, content)
  PROVE  StatsInvariant'
<1>1. /\ rows' = rows \cup {m} /\ stats' = stats
      /\ result' = [k \in rows \cup {m} |-> IF k = m THEN content ELSE result[k]]
      /\ versions' = IF stats.at = "idle" THEN versions ELSE versions \cup {<<m, content>>}
  BY DEF Store
<1>2. rows' \subseteq Messages /\ HistoryIsKept
  BY <1>1 DEF StatsInvariant, StatsTypes
<1>3. \A k \in rows' : result'[k] \in Results[k] /\ (k # m => k \in rows /\ result'[k] = result[k])
  BY <1>1, <1>2 DEF HistoryIsKept
<1>4. WellStored'
  BY <1>2, <1>3, ResultsAssumption DEF WellStored
<1>5. IsFiniteSet(versions')
  BY <1>1, <1>2, FS_AddElement DEF HistoryIsKept
<1>6. \A v \in versions' : v[1] \in rows' /\ v[2] \in Results[v[1]]
  BY <1>1, <1>2 DEF HistoryIsKept
<1>7. ASSUME stats.at # "idle", NEW k \in rows'
      PROVE  <<k, result'[k]>> \in versions'
  <2>1. versions' = versions \cup {<<m, content>>} /\ result'[m] = content
    BY <1>1, <1>7
  <2>2. k # m => <<k, result'[k]>> \in versions
    BY <1>2, <1>3, <1>7 DEF HistoryIsKept
  <2> QED BY <2>1, <2>2
<1>8. HistoryIsKept'
  BY <1>1, <1>3, <1>4, <1>5, <1>6, <1>7 DEF HistoryIsKept
<1> QED BY <1>1, <1>2, <1>8, StatsStay

LEMMA BeforeMonth ==
  ASSUME NEW i \in Int, NEW k \in Int, i < FirstOf(k)
  PROVE  MonthOf(i) < k
<1>1. MonthOf(i) \in Int /\ MonthLength * MonthOf(i) <= i
  BY MonthIsDivision
<1>2. k <= MonthOf(i) => k * MonthLength <= MonthOf(i) * MonthLength
  <2>1. k < MonthOf(i) => k * MonthLength + MonthLength <= MonthOf(i) * MonthLength
    BY <1>1, OtherMonth
  <2>2. k * MonthLength \in Int /\ MonthOf(i) * MonthLength \in Int /\ MonthLength \in Nat
    BY <1>1, MonthAssumption
  <2> QED BY <1>1, <2>1, <2>2
<1> QED BY <1>1, <1>2, MonthAssumption DEF FirstOf

\* At the end of the period everything in it has been counted.
LEMMA AllIsCounted ==
  ASSUME StatsInvariant, stats.at = "done", NEW S, S \subseteq rows
  PROVE  Before(stats.period, stats.month, S) = InPeriod(stats.period, S)
<1>1. /\ rows \subseteq Messages /\ stats.month \in Int /\ stats.period.end \in Int
      /\ stats.period.end <= FirstOf(stats.month) /\ FirstOf(stats.month) \in Int
  BY MonthAssumption DEF StatsInvariant, StatsTypes, FirstOf
<1>2. ASSUME NEW m \in S, m[1] < stats.period.end
      PROVE  MonthOf(m[1]) < stats.month
  <2>1. m[1] \in Int
    BY <1>1, MessageFields
  <2>2. m[1] < FirstOf(stats.month)
    BY <1>1, <1>2, <2>1
  <2> QED BY <1>1, <2>1, <2>2, BeforeMonth
<1> QED BY <1>2 DEF Before, InPeriod

LEMMA StatsAreBracketed == StatsInvariant => StatisticsAreBracketed
<1> SUFFICES ASSUME StatsInvariant, stats.at = "done"
             PROVE  StatisticsAreBracketed
  BY DEF StatisticsAreBracketed
<1> DEFINE least == InPeriod(stats.period, stats.present)
           most == InPeriod(stats.period, rows)
<1>1. /\ Before(stats.period, stats.month, rows) = most
      /\ Before(stats.period, stats.month, stats.present) = least
  BY AllIsCounted DEF StatsInvariant, StatsTypes
<1>2. /\ EmailsBetween(stats.present, rows, stats.period, stats.month, stats.emails)
      /\ FilesBetween(versions, stats.present, rows, stats.period, stats.month, stats.files)
      /\ ClassesBetween(versions, stats.present, rows, stats.period, stats.month, stats.classes)
      /\ stats.emails <= Total(stats.classes) + 0
  BY DEF StatsInvariant, Brackets, EmailsTo, FilesTo, Pending
<1>3. stats.emails <= Total(stats.classes)
  BY <1>2, PendingType DEF StatsInvariant, StatsTypes
<1> QED BY <1>1, <1>2, <1>3
        DEF StatisticsAreBracketed, EmailsBetween, FilesBetween, ClassesBetween

-----------------------------------------------------------------------------
(* Theorems. *)

LEMMA ListingInit == Init => WalkInvariant /\ StatsInvariant
<1> SUFFICES ASSUME Init PROVE WalkInvariant /\ StatsInvariant
  OBVIOUS
<1>1. rows = {} /\ walk = NoWalk /\ stats = NoStats /\ versions = {}
  BY DEF Init
<1>2. Types
  <2>1. Len(<<>>) <= Limit
    BY MonthAssumption
  <2> QED BY <1>1, <2>1, NoWalkIsWalk DEF Types
<1>3. NoWalk.at = "idle" /\ NoWalk.descends
  BY DEF NoWalk
<1>4. CursorIsLast /\ ItemsInOrder /\ PageEndsAtCursor /\ NothingLost /\ IdleIsEmpty
  BY <1>1, <1>3, NoWalkIsWalk
     DEF CursorIsLast, ItemsInOrder, PageEndsAtCursor, NothingLost, IdleIsEmpty
<1>5. StatsInvariant
  BY <1>1, RestIsStats
<1> QED BY <1>1, <1>2, <1>3, <1>4, <1>5 DEF WalkInvariant

LEMMA WalkStays ==
  ASSUME WalkInvariant, walk' = walk, rows' = rows
  PROVE  WalkInvariant'
<1>1. \A m : Ahead(m)' = Ahead(m)
  BY DEF Ahead
<1> QED BY <1>1 DEF WalkInvariant, Types, CursorIsLast, ItemsInOrder, PageEndsAtCursor, NothingLost,
                    IdleIsEmpty

LEMMA ListingStep ==
  WalkInvariant /\ StatsInvariant /\ [Next]_vars => WalkInvariant' /\ StatsInvariant'
<1> SUFFICES ASSUME WalkInvariant, StatsInvariant, [Next]_vars
             PROVE  WalkInvariant' /\ StatsInvariant'
  OBVIOUS
<1>0. rows \subseteq Messages
  BY DEF StatsInvariant, StatsTypes
<1>1. CASE Insert
  BY <1>0, <1>1, PreservedByStore, StatsByStore DEF Insert
<1>14. CASE Replace
  BY <1>0, <1>14, PreservedByStore, StatsByStore DEF Replace
<1>2. CASE OpenList
  BY <1>0, <1>2, PreservedByOpenList, StatsUntouched DEF OpenList
<1>3. CASE StopAtBound
  BY <1>0, <1>3, PreservedByStopAtBound, StatsUntouched DEF StopAtBound
<1>4. CASE QueryMonth
  BY <1>0, <1>4, PreservedByQueryMonth, StatsUntouched DEF QueryMonth
<1>5. CASE NextPage
  BY <1>0, <1>5, PreservedByNextPage, StatsUntouched DEF NextPage
<1>6. CASE CloseList
  BY <1>0, <1>6, PreservedByCloseList, StatsUntouched DEF CloseList
<1>7. CASE OpenStatistics
  BY <1>7, StatsByOpen, WalkStays DEF OpenStatistics
<1>8. CASE CountEmails
  BY <1>8, StatsByCountEmails, WalkStays DEF CountEmails
<1>9. CASE CountAttachments
  BY <1>9, StatsByCountAttachments, WalkStays DEF CountAttachments
<1>10. CASE CountClasses
  BY <1>10, StatsByCountClasses, WalkStays DEF CountClasses
<1>11. CASE AnswerStatistics
  BY <1>11, StatsByAnswer, WalkStays DEF AnswerStatistics
<1>12. CASE CloseStatistics
  <2>1. stats' = NoStats /\ rows' = rows /\ result' = result /\ versions' = {} /\ walk' = walk
    BY <1>12 DEF CloseStatistics
  <2> QED BY <1>0, <2>1, StatsAtRest, WalkStays
<1>13. CASE UNCHANGED vars
  BY <1>0, <1>13, WalkStays, StatsUntouched DEF vars
<1> QED BY <1>1, <1>2, <1>3, <1>4, <1>5, <1>6, <1>7, <1>8, <1>9, <1>10, <1>11, <1>12,
          <1>13, <1>14
        DEF Next, List, Statistics

LEMMA ListingHolds == Spec => [](WalkInvariant /\ StatsInvariant)
<1> QED BY ListingInit, ListingStep, PTL DEF Spec

\* Every variable has its type, rows are not deleted while a request reads, and
\* an answer of list_emails never collects more than its limit.
THEOREM ListingTypes == Spec => []TypeOK
<1>1. WalkInvariant /\ StatsInvariant => TypeOK
  BY DEF WalkInvariant, Types, Walks, StatsInvariant, StatsTypes, HistoryIsKept, TypeOK
<1> QED BY ListingHolds, <1>1, PTL

\* list_emails' cursor and its loop over months: a client gets each message at
\* most once, newest first and inside its bounds, and every admitted message of the
\* months within its bounds that was there when it began, whatever is inserted
\* meanwhile.
THEOREM WalkMissesNothing == Spec => []WalkIsComplete
<1>1. WalkInvariant => WalkIsComplete
  BY DEF WalkInvariant, Types, NothingLost, Wanted, WalkIsComplete
<1> QED BY ListingHolds, <1>1, PTL

\* statistics(): messages, files and classes are each counted once over the
\* half-open period, though each month takes three statements and messages arrive
\* and are given new results between them: at least what was stored throughout, at
\* most what was stored at some time while the request ran; the classes add up to no
\* less than the total.
THEOREM StatisticsCountOnce == Spec => []StatisticsAreBracketed
<1> QED BY ListingHolds, StatsAreBracketed, PTL
=============================================================================
