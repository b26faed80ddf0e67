---------------------------- MODULE PollingProofs ----------------------------
(***************************************************************************)
(* Theorems of PollingWorker, for every mailbox, page size, number of      *)
(* threads and number of changes by others.                                *)
(*                                                                         *)
(* First what the search, a page of it and the worker's sort hold; then    *)
(* the invariant of the listing, which says where the messages are that    *)
(* were there when it began, and where those are that it has already.      *)
(***************************************************************************)
EXTENDS PollingWorker, OrderTheorems, FiniteSetTheorems, SequenceTheorems, TLAPS

-----------------------------------------------------------------------------
(* The search.                                                             *)

\* BySdk orders the messages: their UIDs differ.
LEMMA SdkOrder ==
  /\ \A m \in Messages : ~BySdk(m, m)
  /\ \A a, b, c \in Messages : BySdk(a, b) /\ BySdk(b, c) => BySdk(a, c)
  /\ \A a, b \in Messages : a = b \/ BySdk(a, b) \/ BySdk(b, a)
<1>1. \A m \in Messages : m.uid \in Nat /\ m.date \in Nat
  BY MailboxAssumption
<1>2. \A a, b \in Messages : a.uid = b.uid => a = b
  BY MailboxAssumption
<1> QED BY <1>1, <1>2 DEF BySdk

LEMMA WorkerOrder ==
  /\ \A m \in Messages : ~ByWorker(m, m)
  /\ \A a, b, c \in Messages : ByWorker(a, b) /\ ByWorker(b, c) => ByWorker(a, c)
  /\ \A a, b \in Messages : a = b \/ ByWorker(a, b) \/ ByWorker(b, a)
BY SdkOrder DEF ByWorker

\* The search has every message that is found, each at its place.
LEMMA SearchIsSorted ==
  /\ Cardinality(Found) \in Nat /\ Cardinality(Found) <= Cardinality(Messages)
  /\ Search \in Seq(Messages) /\ Len(Search) = Cardinality(Found)
  /\ \A m \in Found : Place(m) \in 1..Len(Search) /\ Search[Place(m)] = m
  /\ \A n \in 1..Len(Search) : Search[n] \in Found /\ Place(Search[n]) = n
<1> DEFINE R == {p \in Found \X Found : BySdk(p[1], p[2])}
<1>1. Found \in SUBSET Messages /\ IsFiniteSet(Found) /\ Cardinality(Found) <= Cardinality(Messages)
  BY MailboxAssumption, FS_Subset DEF Found
<1>2. \A k, m \in Found : <<k, m>> \in R <=> BySdk(k, m)
  OBVIOUS
<1>3. /\ \A x \in Found : <<x, x>> \notin R
      /\ \A x, y, z \in Found : <<x, y>> \in R /\ <<y, z>> \in R => <<x, z>> \in R
      /\ \A x, y \in Found : x = y \/ <<x, y>> \in R \/ <<y, x>> \in R
  BY <1>1, <1>2, SdkOrder
<1>4. \A m \in Found : Place(m) = Cardinality(Below(Found, R, m)) + 1
  <2>1. \A m \in Found : {k \in Found : BySdk(k, m)} = Below(Found, R, m)
    BY <1>2 DEF Below
  <2> QED BY <2>1 DEF Place
<1> HIDE DEF R
<1>5. /\ Cardinality(Found) \in Nat
      /\ \A x \in Found : Cardinality(Below(Found, R, x)) + 1 \in 1..Cardinality(Found)
      /\ \A x, y \in Found :
           Cardinality(Below(Found, R, x)) = Cardinality(Below(Found, R, y)) => x = y
      /\ \A n \in 1..Cardinality(Found) :
           \E x \in Found : Cardinality(Below(Found, R, x)) + 1 = n
  BY <1>1, <1>3, Places
<1>6. \A m \in Found : Place(m) \in 1..Cardinality(Found)
  BY <1>4, <1>5
<1>7. \A m, k \in Found : Place(m) = Place(k) => m = k
  <2>1. \A m \in Found : Cardinality(Below(Found, R, m)) \in Nat
    BY <1>1, FS_Subset, FS_CardinalityType DEF Below
  <2> QED BY <1>4, <1>5, <2>1
<1>8. \A n \in 1..Cardinality(Found) : \E m \in Found : Place(m) = n
  BY <1>4, <1>5
<1>9. \A n \in 1..Cardinality(Found) : Search[n] \in Found /\ Place(Search[n]) = n
  BY <1>8 DEF Search
<1>10. Search \in Seq(Messages) /\ Len(Search) = Cardinality(Found)
  <2>1. Search \in [1..Cardinality(Found) -> Messages]
    BY <1>1, <1>9 DEF Search
  <2> QED BY <1>5, <2>1
<1>11. \A m \in Found : Search[Place(m)] = m
  BY <1>6, <1>7, <1>9
<1> QED BY <1>1, <1>5, <1>6, <1>9, <1>10, <1>11

\* A page has the messages whose places follow the offset.
LEMMA PageHolds ==
  ASSUME offset \in Nat
  PROVE  /\ Page \in Seq(Messages) /\ Len(Page) \in Nat
         /\ Len(Page) # 0 => offset + Len(Page) <= Len(Search)
         /\ \A j \in 1..Len(Page) : Page[j] \in Found /\ Place(Page[j]) = offset + j
         /\ \A m \in Found : offset < Place(m) /\ Place(m) <= offset + Len(Page) =>
              \E j \in 1..Len(Page) : Page[j] = m
<1> DEFINE stop_at == IF offset + PageSize < Len(Search) THEN offset + PageSize ELSE Len(Search)
<1>0. Search \in Seq(Messages) /\ Len(Search) \in Nat /\ PageSize \in Nat
  BY SearchIsSorted, MailboxAssumption
<1>1. stop_at \in Int /\ stop_at <= Len(Search) /\ offset + 1 \in Int /\ offset + 1 >= 1
  BY <1>0
<1>2. Page = SubSeq(Search, offset + 1, stop_at)
  BY DEF Page
<1> HIDE DEF stop_at
<1>3. \A n \in offset + 1..stop_at : Search[n] \in Messages
  BY <1>0, <1>1, ElementOfSeq
<1>4. /\ Page \in Seq(Messages)
      /\ Len(Page) = IF offset + 1 <= stop_at THEN stop_at - (offset + 1) + 1 ELSE 0
      /\ \A j \in 1..stop_at - (offset + 1) + 1 : Page[j] = Search[(offset + 1) + j - 1]
  BY <1>0, <1>1, <1>2, <1>3, SubSeqProperties
<1>5. \A j \in 1..Len(Page) : Page[j] = Search[offset + j] /\ offset + j \in 1..Len(Search)
  <2> TAKE j \in 1..Len(Page)
  <2>1. /\ j \in 1..stop_at - (offset + 1) + 1 /\ (offset + 1) + j - 1 = offset + j
        /\ offset + j \in 1..Len(Search)
    BY <1>0, <1>1, <1>4
  <2>2. Page[j] = Search[(offset + 1) + j - 1]
    BY <1>4, <2>1
  <2> QED BY <2>1, <2>2
<1>6. Len(Page) \in Nat /\ (Len(Page) # 0 => offset + Len(Page) <= Len(Search))
  BY <1>0, <1>1, <1>4
<1>7. ASSUME NEW m \in Found, offset < Place(m), Place(m) <= offset + Len(Page)
      PROVE  \E j \in 1..Len(Page) : Page[j] = m
  <2>1. Place(m) \in Nat /\ Search[Place(m)] = m
    BY SearchIsSorted
  <2>2. Place(m) - offset \in 1..Len(Page) /\ offset + (Place(m) - offset) = Place(m)
    BY <1>6, <1>7, <2>1
  <2>3. Page[Place(m) - offset] = m
    BY <1>5, <2>1, <2>2
  <2> QED BY <2>2, <2>3
<1> QED BY <1>4, <1>5, <1>6, <1>7, SearchIsSorted

-----------------------------------------------------------------------------
(* The worker's sort.                                                      *)

Earlier(s, p, q) == ByWorker(s[p], s[q]) \/ (s[p] = s[q] /\ p < q)

EarlierIn(S, s) == {pair \in S \X S : Earlier(s, pair[1], pair[2])}

EarlierPairs(s) == EarlierIn(DOMAIN s, s)

LEMMA EarlierInPairs ==
  ASSUME NEW S, NEW s
  PROVE  \A p, q \in S : <<p, q>> \in EarlierIn(S, s) <=> Earlier(s, p, q)
BY DEF EarlierIn

\* Sorting a list neither adds to it nor loses anything.
LEMMA SortKeeps ==
  ASSUME NEW s \in Seq(Messages)
  PROVE  /\ OldestFirst(s) \in Seq(Messages) /\ Len(OldestFirst(s)) = Len(s)
         /\ Range(OldestFirst(s)) = Range(s)
<1> DEFINE position(n) ==
             CHOOSE p \in DOMAIN s : Cardinality({q \in DOMAIN s : Earlier(s, q, p)}) + 1 = n
<1>1. Len(s) \in Nat /\ DOMAIN s = 1..Len(s) /\ \A p \in DOMAIN s : s[p] \in Messages
  BY LenProperties, ElementOfSeq
<1>2. IsFiniteSet(DOMAIN s) /\ Cardinality(DOMAIN s) = Len(s)
  BY <1>1, FS_Interval
<1>3. \A p, q \in DOMAIN s : <<p, q>> \in EarlierPairs(s) <=> Earlier(s, p, q)
  BY EarlierInPairs DEF EarlierPairs
<1>4. \A p \in DOMAIN s : ~Earlier(s, p, p)
  BY <1>1, WorkerOrder DEF Earlier
<1>5. \A p, q, r \in DOMAIN s : Earlier(s, p, q) /\ Earlier(s, q, r) => Earlier(s, p, r)
  BY <1>1, WorkerOrder DEF Earlier
<1>6. \A p, q \in DOMAIN s : p = q \/ Earlier(s, p, q) \/ Earlier(s, q, p)
  BY <1>1, WorkerOrder DEF Earlier
<1>7. \A p \in DOMAIN s : {q \in DOMAIN s : Earlier(s, q, p)} = Below(DOMAIN s, EarlierPairs(s), p)
  BY <1>3 DEF Below
<1>8. /\ \A p \in DOMAIN s : Cardinality(Below(DOMAIN s, EarlierPairs(s), p)) + 1 \in 1..Len(s)
      /\ \A p, q \in DOMAIN s : Cardinality(Below(DOMAIN s, EarlierPairs(s), p))
                                  = Cardinality(Below(DOMAIN s, EarlierPairs(s), q)) => p = q
      /\ \A n \in 1..Len(s) :
           \E p \in DOMAIN s : Cardinality(Below(DOMAIN s, EarlierPairs(s), p)) + 1 = n
  <2>1. \A p \in DOMAIN s : <<p, p>> \notin EarlierPairs(s)
    BY <1>3, <1>4
  <2>2. \A p, q, r \in DOMAIN s :
          <<p, q>> \in EarlierPairs(s) /\ <<q, r>> \in EarlierPairs(s) => <<p, r>> \in EarlierPairs(s)
    BY <1>3, <1>5
  <2>3. \A p, q \in DOMAIN s :
          p = q \/ <<p, q>> \in EarlierPairs(s) \/ <<q, p>> \in EarlierPairs(s)
    BY <1>3, <1>6
  <2>4. StrictOrder(DOMAIN s, EarlierPairs(s))
    BY <2>1, <2>2, <2>3 DEF StrictOrder
  <2>5. Numbered(DOMAIN s, EarlierPairs(s))
    BY <1>2, <2>4, OrderNumbers
  <2> QED BY <1>2, <2>5 DEF Numbered
<1>9. OldestFirst(s) = [n \in DOMAIN s |-> s[position(n)]]
  BY DEF OldestFirst, Earlier
<1>10. \A n \in DOMAIN s : position(n) \in DOMAIN s
  <2> TAKE n \in DOMAIN s
  <2>1. PICK p \in DOMAIN s : Cardinality(Below(DOMAIN s, EarlierPairs(s), p)) + 1 = n
    BY <1>1, <1>8
  <2>2. Cardinality({q \in DOMAIN s : Earlier(s, q, p)}) + 1 = n
    BY <1>7, <2>1
  <2> QED BY <2>2
<1>11. \A p \in DOMAIN s : \E n \in DOMAIN s : position(n) = p
  <2> TAKE p \in DOMAIN s
  <2> DEFINE n == Cardinality(Below(DOMAIN s, EarlierPairs(s), p)) + 1
  <2>1. n \in DOMAIN s
    BY <1>1, <1>8
  <2>2. \A q \in DOMAIN s : Cardinality(Below(DOMAIN s, EarlierPairs(s), q)) \in Nat
    BY <1>2, FS_Subset, FS_CardinalityType DEF Below
  <2>3. \A q \in DOMAIN s : Cardinality({r \in DOMAIN s : Earlier(s, r, q)}) + 1 = n => q = p
    <3>1. \A q \in DOMAIN s : Cardinality(Below(DOMAIN s, EarlierPairs(s), q)) + 1 = n => q = p
      BY <1>8, <2>2
    <3> HIDE DEF n
    <3> QED BY <1>7, <3>1
  <2>4. Cardinality({r \in DOMAIN s : Earlier(s, r, p)}) + 1 = n
    BY <1>7
  <2>5. position(n) = p
    BY <2>3, <2>4
  <2> QED BY <2>1, <2>5
<1> HIDE DEF position
<1>12. OldestFirst(s) \in [1..Len(s) -> Messages]
  BY <1>1, <1>9, <1>10
<1>13. OldestFirst(s) \in Seq(Messages) /\ Len(OldestFirst(s)) = Len(s) /\ DOMAIN OldestFirst(s) = DOMAIN s
  BY <1>1, <1>12
<1>14. Range(OldestFirst(s)) = Range(s)
  BY <1>1, <1>9, <1>10, <1>11, <1>13 DEF Range
<1> QED BY <1>13, <1>14

-----------------------------------------------------------------------------
(* The invariant.                                                          *)

LEMMA RowOperators ==
  ASSUME NEW r \in Records({"stage"}), NEW permanent \in BOOLEAN
  PROVE  /\ Ensure(r, 1) \in Records({"stage"})
         /\ StartAttempt(r) \in Records({"stage"})
         /\ Completed(r) \in Records({"stage"})
         /\ Error(r, "stage", permanent) \in Records({"stage"})
<1>0. r.attempts + 1 \in Nat /\ r.gen + 1 \in Nat
  BY DEF Records
<1>1. Ensure(r, 1) \in Records({"stage"})
  BY <1>0 DEF Ensure, NewGeneration, NoRecord, Records, Statuses
<1>2. StartAttempt(r) \in Records({"stage"})
  BY <1>0 DEF StartAttempt, Records, Statuses
<1>3. Completed(r) \in Records({"stage"})
  BY DEF Completed, Records, Statuses
<1>4. Error(r, "stage", permanent) \in Records({"stage"})
  BY DEF Error, Records, Statuses
<1> QED BY <1>1, <1>2, <1>3, <1>4

LEMMA NoneIsNoMessage == None \notin Messages
BY MailboxAssumption DEF None

MailboxType ==
  /\ box \in [Messages -> {"absent", "unread", "read"}]
  /\ row \in [Messages -> Records({"stage"})]
  /\ waits \subseteq Messages /\ stuck \subseteq Messages

LoopType ==
  /\ limit \in Nat \ {0}
  /\ pc \in {"down", "check", "listing", "messages", "waiting"}
  /\ stop \in BOOLEAN /\ counted \in BOOLEAN
  /\ offset \in 0..Cardinality(Messages)
  /\ listed \in Seq(Messages) /\ queue \in Seq(Messages)

ThreadsType ==
  /\ running \in [Threads -> Messages \cup {None}]
  /\ stage \in [Threads -> {"idle", "accepted", "working", "refused"}]
  /\ \A t \in Threads : (stage[t] = "idle") <=> (running[t] = None)

HistoryType == before \subseteq Messages /\ changes \subseteq {"came", "gone"}

\* Nothing is in work but while the loop works through a list, nothing is listed
\* but while it lists or works, and the next page is the first one of a poll.
AtRest ==
  /\ pc # "messages" => queue = <<>> /\ \A t \in Threads : stage[t] = "idle"
  /\ pc \notin {"listing", "messages"} => listed = <<>>
  /\ pc # "listing" => offset = 0

\* If nothing has gone, what was there is listed already or comes on a later page.
KeepsPresent ==
  pc = "listing" /\ "gone" \notin changes =>
    \A m \in before : m \in Found /\ (m \in Range(listed) \/ offset < Place(m))

\* If nothing has come, what is listed is listed once and comes on no later page.
KeepsDistinct ==
  pc = "listing" /\ "came" \notin changes =>
    /\ \A i, j \in DOMAIN listed : listed[i] = listed[j] => i = j
    /\ \A m \in Range(listed) : m \notin Found \/ Place(m) <= offset

PollingInvariant ==
  /\ MailboxType /\ LoopType /\ ThreadsType /\ HistoryType
  /\ AtRest /\ KeepsPresent /\ KeepsDistinct

\* Found messages are in places that depend only on who is found.
LEMMA PlacesMove ==
  ASSUME NEW m \in Messages
  PROVE  /\ Place(m) \in Nat \ {0} /\ Place(m)' \in Nat \ {0}
         /\ Found \subseteq Found' => Place(m) <= Place(m)'
         /\ Found' \subseteq Found => Place(m)' <= Place(m)
<1> DEFINE Ahead == {k \in Found : BySdk(k, m)}
           AheadNext == {k \in Found' : BySdk(k, m)}
<1>1. IsFiniteSet(Found) /\ IsFiniteSet(Found')
  BY MailboxAssumption, FS_Subset DEF Found
<1>2. Ahead \subseteq Found /\ AheadNext \subseteq Found'
  OBVIOUS
<1>3. IsFiniteSet(Ahead) /\ IsFiniteSet(AheadNext)
  BY <1>1, <1>2, FS_Subset
<1>4. Found \subseteq Found' => Ahead \subseteq AheadNext
  OBVIOUS
<1>5. Found' \subseteq Found => AheadNext \subseteq Ahead
  OBVIOUS
<1>6. Place(m) = Cardinality(Ahead) + 1 /\ Place(m)' = Cardinality(AheadNext) + 1
  BY DEF Place
<1> HIDE DEF Ahead, AheadNext
<1>7. Cardinality(Ahead) \in Nat /\ Cardinality(AheadNext) \in Nat
  BY <1>3, FS_CardinalityType
<1>8. Ahead \subseteq AheadNext => Cardinality(Ahead) <= Cardinality(AheadNext)
  BY <1>3, FS_Subset
<1>9. AheadNext \subseteq Ahead => Cardinality(AheadNext) <= Cardinality(Ahead)
  BY <1>3, FS_Subset
<1> QED BY <1>4, <1>5, <1>6, <1>7, <1>8, <1>9

\* The listing depends on these variables only.
LEMMA ListingStays ==
  ASSUME KeepsPresent, KeepsDistinct, UNCHANGED <<box, offset, listed, pc, before, changes>>
  PROVE  KeepsPresent' /\ KeepsDistinct'
<1>1. Found' = Found
  BY DEF Found
<1>2. \A m : Place(m)' = Place(m)
  BY <1>1 DEF Place
<1> QED BY <1>1, <1>2 DEF KeepsPresent, KeepsDistinct

LEMMA NoListing ==
  ASSUME pc' # "listing"
  PROVE  KeepsPresent' /\ KeepsDistinct'
BY DEF KeepsPresent, KeepsDistinct

LEMMA InvariantInit == Init => PollingInvariant
<1> SUFFICES ASSUME Init PROVE PollingInvariant
  OBVIOUS
<1>1. NoRecord \in Records({"stage"})
  BY DEF NoRecord, Records, Statuses
<1>2. Cardinality(Messages) \in Nat
  BY MailboxAssumption, FS_CardinalityType
<1>3. MailboxType
  BY <1>1 DEF Init, MailboxType
<1>4. LoopType
  <2>1. <<>> \in Seq(Messages)
    OBVIOUS
  <2>2. limit \in Nat \ {0} /\ 0 \in 0..Cardinality(Messages)
    BY <1>2, MailboxAssumption DEF Init
  <2> QED BY <2>1, <2>2 DEF Init, LoopType
<1>5. ThreadsType
  BY DEF Init, ThreadsType, Threads
<1>6. HistoryType
  BY DEF Init, HistoryType
<1>7. AtRest /\ KeepsPresent /\ KeepsDistinct
  BY DEF Init, AtRest, KeepsPresent, KeepsDistinct, Threads
<1> QED BY <1>3, <1>4, <1>5, <1>6, <1>7 DEF PollingInvariant

-----------------------------------------------------------------------------
(* Listing. *)

LEMMA PreservedByBeginPoll ==
  ASSUME PollingInvariant, BeginPoll
  PROVE  PollingInvariant'
<1> USE DEF PollingInvariant
<1>1. MailboxType' /\ ThreadsType'
  BY DEF MailboxType, ThreadsType, Threads, BeginPoll, mailbox, threads
<1>2. LoopType'
  BY DEF LoopType, BeginPoll
<1>3. HistoryType'
  BY DEF HistoryType, BeginPoll, Found
<1>4. AtRest'
  BY DEF AtRest, BeginPoll, threads, Threads
<1>5. listed' = <<>> /\ offset' = 0 /\ Found' = Found /\ before' = Found
  BY DEF AtRest, BeginPoll, mailbox, Found
<1>6. KeepsPresent'
  <2>1. \A m \in Found : Place(m)' \in Nat \ {0}
    BY PlacesMove DEF Found
  <2>2. \A m \in Found : 0 < Place(m)'
    BY <2>1
  <2> QED BY <1>5, <2>2 DEF KeepsPresent
<1>7. KeepsDistinct'
  BY <1>5 DEF KeepsDistinct, Range
<1> QED BY <1>1, <1>2, <1>3, <1>4, <1>6, <1>7

\* What the list has when a page is added to it.
LEMMA ListAndPage ==
  ASSUME listed \in Seq(Messages), offset \in Nat
  PROVE  /\ listed \o Page \in Seq(Messages)
         /\ Range(listed \o Page) = Range(listed) \cup Range(Page)
         /\ KeepsDistinct /\ pc = "listing" /\ "came" \notin changes =>
              \A i, j \in DOMAIN (listed \o Page) :
                (listed \o Page)[i] = (listed \o Page)[j] => i = j
<1> DEFINE all == listed \o Page
<1>1. /\ Page \in Seq(Messages) /\ Len(Page) \in Nat
      /\ \A j \in 1..Len(Page) : Page[j] \in Found /\ Place(Page[j]) = offset + j
  BY PageHolds
<1>2. Len(listed) \in Nat /\ DOMAIN listed = 1..Len(listed) /\ DOMAIN Page = 1..Len(Page)
  BY <1>1, LenProperties
<1>3. /\ all \in Seq(Messages) /\ Len(all) = Len(listed) + Len(Page)
      /\ \A n \in 1..Len(listed) + Len(Page) :
           all[n] = IF n <= Len(listed) THEN listed[n] ELSE Page[n - Len(listed)]
  BY <1>1, ConcatProperties
<1>4. DOMAIN all = 1..Len(listed) + Len(Page)
  BY <1>3, LenProperties
<1> HIDE DEF all
<1>5. \A n \in DOMAIN listed : n \in DOMAIN all /\ all[n] = listed[n]
  BY <1>1, <1>2, <1>3, <1>4
<1>6. \A n \in DOMAIN Page : Len(listed) + n \in DOMAIN all /\ all[Len(listed) + n] = Page[n]
  <2> TAKE n \in DOMAIN Page
  <2>1. /\ Len(listed) + n \in 1..Len(listed) + Len(Page)
        /\ ~(Len(listed) + n <= Len(listed)) /\ (Len(listed) + n) - Len(listed) = n
    BY <1>1, <1>2
  <2> QED BY <1>3, <1>4, <2>1
<1>7. \A n \in DOMAIN all : \/ n \in DOMAIN listed
                            \/ n - Len(listed) \in DOMAIN Page /\ ~(n <= Len(listed))
  BY <1>1, <1>2, <1>4
<1>8. \A n \in DOMAIN all : ~(n <= Len(listed)) => all[n] = Page[n - Len(listed)]
  BY <1>3, <1>4
<1>9. Range(all) = Range(listed) \cup Range(Page)
  <2>1. ASSUME NEW n \in DOMAIN all PROVE all[n] \in Range(listed) \cup Range(Page)
    BY <1>5, <1>7, <1>8 DEF Range
  <2>2. Range(listed) \subseteq Range(all)
    BY <1>5 DEF Range
  <2>3. Range(Page) \subseteq Range(all)
    BY <1>6 DEF Range
  <2> QED BY <2>1, <2>2, <2>3 DEF Range
<1>10. ASSUME KeepsDistinct, pc = "listing", "came" \notin changes,
              NEW i \in DOMAIN all, NEW j \in DOMAIN all, all[i] = all[j]
       PROVE  i = j
  <2>1. /\ \A k, n \in DOMAIN listed : listed[k] = listed[n] => k = n
        /\ \A m \in Range(listed) : m \notin Found \/ Place(m) <= offset
    BY <1>10 DEF KeepsDistinct
  <2>2. ASSUME NEW k \in DOMAIN listed, NEW n \in DOMAIN Page PROVE listed[k] # Page[n]
    <3>1. listed[k] \notin Found \/ Place(listed[k]) <= offset
      BY <2>1 DEF Range
    <3>2. Page[n] \in Found /\ Place(Page[n]) = offset + n /\ ~(offset + n <= offset)
      BY <1>1, <1>2
    <3> QED BY <3>1, <3>2
  <2>3. ASSUME NEW k \in DOMAIN Page, NEW n \in DOMAIN Page, Page[k] = Page[n] PROVE k = n
    <3>1. offset + k = offset + n
      BY <1>1, <1>2, <2>3
    <3> QED BY <1>2, <3>1
  <2>4. i \in Int /\ j \in Int /\ Len(listed) \in Int
    BY <1>1, <1>2, <1>4
  <2>5. CASE i \in DOMAIN listed /\ j \in DOMAIN listed
    BY <1>5, <1>10, <2>1, <2>5
  <2>6. CASE i \in DOMAIN listed /\ ~(j \in DOMAIN listed)
    BY <1>5, <1>7, <1>8, <1>10, <2>2, <2>6
  <2>7. CASE ~(i \in DOMAIN listed) /\ j \in DOMAIN listed
    BY <1>5, <1>7, <1>8, <1>10, <2>2, <2>7
  <2>8. CASE ~(i \in DOMAIN listed) /\ ~(j \in DOMAIN listed)
    <3>1. i - Len(listed) \in DOMAIN Page /\ j - Len(listed) \in DOMAIN Page
      BY <1>7, <2>8
    <3>2. Page[i - Len(listed)] = Page[j - Len(listed)]
      BY <1>7, <1>8, <1>10, <2>8
    <3>3. i - Len(listed) = j - Len(listed)
      BY <2>3, <3>1, <3>2
    <3> QED BY <2>4, <3>3
  <2> QED BY <2>5, <2>6, <2>7, <2>8
<1>11. listed \o Page = all
  BY DEF all
<1> QED BY <1>3, <1>9, <1>10, <1>11

LEMMA PreservedByNextPage ==
  ASSUME PollingInvariant, NextPage
  PROVE  PollingInvariant'
<1> USE DEF PollingInvariant
<1>0. listed \in Seq(Messages) /\ offset \in Nat /\ Cardinality(Messages) \in Nat
  BY MailboxAssumption, FS_CardinalityType DEF LoopType
<1>1. MailboxType' /\ ThreadsType' /\ HistoryType'
  BY DEF MailboxType, ThreadsType, HistoryType, Threads, NextPage, mailbox, threads, history
<1>2. Len(Page) \in Nat /\ (Len(Page) # 0 => offset + Len(Page) <= Len(Search))
  BY <1>0, PageHolds
<1>3. offset' \in 0..Cardinality(Messages) /\ offset' = offset + Len(Page)
  BY <1>0, <1>2, SearchIsSorted DEF NextPage, LoopType
<1>4. LoopType'
  BY <1>0, <1>3, ListAndPage DEF LoopType, NextPage
<1>5. AtRest'
  BY DEF AtRest, NextPage, threads, Threads
<1>6. Found' = Found /\ \A m : Place(m)' = Place(m)
  <2>1. Found' = Found
    BY DEF NextPage, mailbox, Found
  <2> QED BY <2>1 DEF Place
<1>7. pc = "listing" /\ pc' = pc /\ before' = before /\ changes' = changes /\ listed' = listed \o Page
  BY DEF NextPage, history
<1>8. \A m \in Messages : Place(m) \in Nat
  BY PlacesMove
<1>9. KeepsPresent'
  <2> SUFFICES ASSUME "gone" \notin changes, NEW m \in before
               PROVE  m \in Found /\ (m \in Range(listed \o Page) \/ offset + Len(Page) < Place(m))
    BY <1>3, <1>6, <1>7 DEF KeepsPresent
  <2>1. m \in Found /\ (m \in Range(listed) \/ offset < Place(m)) /\ Place(m) \in Nat
    BY <1>7, <1>8 DEF KeepsPresent, Found
  <2>2. CASE m \in Range(listed)
    BY <1>0, <2>1, <2>2, ListAndPage
  <2>3. CASE offset < Place(m) /\ Place(m) <= offset + Len(Page)
    <3>1. \E j \in 1..Len(Page) : Page[j] = m
      BY <1>0, <2>1, <2>3, PageHolds
    <3>2. m \in Range(Page)
      BY <1>0, <3>1, PageHolds DEF Range
    <3> QED BY <1>0, <2>1, <3>2, ListAndPage
  <2>4. CASE offset + Len(Page) < Place(m)
    BY <2>1, <2>4
  <2> QED BY <1>0, <1>2, <2>1, <2>2, <2>3, <2>4
<1>10. KeepsDistinct'
  <2> SUFFICES ASSUME "came" \notin changes
               PROVE  /\ \A i, j \in DOMAIN (listed \o Page) :
                           (listed \o Page)[i] = (listed \o Page)[j] => i = j
                      /\ \A m \in Range(listed \o Page) :
                           m \notin Found \/ Place(m) <= offset + Len(Page)
    BY <1>3, <1>6, <1>7 DEF KeepsDistinct
  <2>1. ASSUME NEW m \in Range(listed \o Page) PROVE m \notin Found \/ Place(m) <= offset + Len(Page)
    <3>1. m \in Range(listed) \/ m \in Range(Page)
      BY <1>0, <2>1, ListAndPage
    <3>2. CASE m \in Range(listed)
      <4>1. m \notin Found \/ Place(m) <= offset
        BY <1>7, <3>2 DEF KeepsDistinct
      <4>2. m \in Found => Place(m) \in Nat
        BY <1>8 DEF Found
      <4> QED BY <1>0, <1>2, <4>1, <4>2
    <3>3. CASE m \in Range(Page)
      <4>1. PICK j \in 1..Len(Page) : Page[j] = m
        BY <1>0, <3>3, PageHolds DEF Range
      <4>2. Place(m) = offset + j
        BY <1>0, <4>1, PageHolds
      <4> QED BY <1>0, <1>2, <4>1, <4>2
    <3> QED BY <3>1, <3>2, <3>3
  <2>2. \A i, j \in DOMAIN (listed \o Page) : (listed \o Page)[i] = (listed \o Page)[j] => i = j
    BY <1>0, <1>7, ListAndPage
  <2> QED BY <2>1, <2>2
<1> QED BY <1>1, <1>4, <1>5, <1>9, <1>10

LEMMA PreservedByLastPage ==
  ASSUME PollingInvariant, LastPage
  PROVE  PollingInvariant'
<1> USE DEF PollingInvariant
<1> DEFINE all == listed \o Page
<1>0. listed \in Seq(Messages) /\ offset \in Nat /\ Cardinality(Messages) \in Nat
  BY MailboxAssumption, FS_CardinalityType DEF LoopType
<1>1. MailboxType' /\ ThreadsType'
  BY DEF MailboxType, ThreadsType, Threads, LastPage, mailbox, threads
<1>2. HistoryType'
  BY DEF HistoryType, LastPage
<1>3. all \in Seq(Messages) /\ OldestFirst(all) \in Seq(Messages) /\ Len(OldestFirst(all)) = Len(all)
  BY <1>0, ListAndPage, SortKeeps
<1>4. /\ pc' = IF all = <<>> THEN "waiting"
               ELSE IF Comparable(Range(all)) THEN "messages" ELSE "down"
      /\ listed' = IF Comparable(Range(all)) THEN OldestFirst(all) ELSE <<>>
      /\ UNCHANGED <<limit, stop, queue, counted, stage>> /\ offset' = 0 /\ pc = "listing"
  BY DEF LastPage, threads
<1> HIDE DEF all
<1>5. all = <<>> => OldestFirst(all) = <<>>
  BY <1>3
<1>6. <<>> \in Seq(Messages) /\ 0 \in 0..Cardinality(Messages)
  BY <1>0
<1>7. LoopType'
  BY <1>3, <1>4, <1>6 DEF LoopType
<1>8. AtRest'
  BY <1>4, <1>5 DEF AtRest, Threads
<1>9. KeepsPresent' /\ KeepsDistinct'
  BY <1>4, NoListing
<1> QED BY <1>1, <1>2, <1>7, <1>8, <1>9

\* A message appears or goes: who stays comes no earlier, or no later, than before.
LEMMA PreservedByOthers ==
  ASSUME PollingInvariant, NEW m \in Messages, Others(m)
  PROVE  PollingInvariant'
<1> USE DEF PollingInvariant
<1>1. MailboxType'
  BY DEF MailboxType, Others
<1>2. ThreadsType' /\ AtRest'
  BY DEF ThreadsType, AtRest, Threads, Others, loop, threads
<1>3. LoopType'
  BY DEF LoopType, Others, loop
<1>4. HistoryType'
  BY DEF HistoryType, Others
<1>5. CASE pc # "listing"
  BY <1>5, NoListing, <1>1, <1>2, <1>3, <1>4 DEF Others, loop
<1>6. CASE pc = "listing"
  <2>1. /\ box \in [Messages -> {"absent", "unread", "read"}]
        /\ box' = [box EXCEPT ![m] = IF @ = "unread" THEN "read" ELSE "unread"]
        /\ UNCHANGED <<pc, listed, offset, before>>
        /\ changes' = changes \cup {IF m \in Found THEN "gone" ELSE "came"}
    BY <1>6 DEF MailboxType, Others, loop
  <2>2. m \in Found => Found' \subseteq Found
    BY <2>1 DEF Found
  <2>3. m \notin Found => Found \subseteq Found'
    BY <2>1 DEF Found
  <2>4. offset \in Nat /\ \A k \in Messages : Place(k) \in Nat /\ Place(k)' \in Nat
    BY PlacesMove DEF LoopType
  <2>5. Found' \subseteq Found => \A k \in Messages : Place(k)' <= Place(k)
    BY PlacesMove
  <2>6. Found \subseteq Found' => \A k \in Messages : Place(k) <= Place(k)'
    BY PlacesMove
  <2>7. KeepsPresent'
    <3> SUFFICES ASSUME "gone" \notin changes', NEW k \in before
                 PROVE  k \in Found' /\ (k \in Range(listed) \/ offset < Place(k)')
      BY <2>1 DEF KeepsPresent
    <3>1. "gone" \notin changes /\ m \notin Found
      BY <2>1
    <3>2. k \in Found /\ (k \in Range(listed) \/ offset < Place(k)) /\ k \in Messages
      BY <1>6, <3>1 DEF KeepsPresent, Found
    <3> QED BY <2>3, <2>4, <2>6, <3>1, <3>2
  <2>8. KeepsDistinct'
    <3>1. ASSUME "came" \notin changes'
          PROVE  /\ \A i, j \in DOMAIN listed : listed[i] = listed[j] => i = j
                 /\ \A k \in Range(listed) : k \notin Found' \/ Place(k)' <= offset
      <4>1. "came" \notin changes /\ m \in Found
        BY <2>1, <3>1
      <4>2. /\ \A i, j \in DOMAIN listed : listed[i] = listed[j] => i = j
            /\ \A k \in Range(listed) : k \notin Found \/ Place(k) <= offset
        BY <1>6, <4>1 DEF KeepsDistinct
      <4>3. Found \subseteq Messages
        BY DEF Found
      <4> QED BY <2>2, <2>4, <2>5, <4>1, <4>2, <4>3
    <3> QED BY <2>1, <3>1 DEF KeepsDistinct
  <2> QED BY <1>1, <1>2, <1>3, <1>4, <2>7, <2>8
<1> QED BY <1>5, <1>6

-----------------------------------------------------------------------------
(* The rest of the loop. *)

LEMMA PreservedByLoop ==
  ASSUME PollingInvariant,
         Submit \/ Leave \/ EndPoll \/ Wake \/ Stopped \/ Start \/ ListFails \/ RequestStop \/ Die
  PROVE  PollingInvariant'
<1> USE DEF PollingInvariant
<1>0. <<>> \in Seq(Messages) /\ 0 \in 0..Cardinality(Messages)
  BY MailboxAssumption, FS_CardinalityType
<1>1. MailboxType'
  BY DEF MailboxType, Submit, Leave, EndPoll, Wake, Stopped, Start, ListFails, RequestStop, Die, mailbox
<1>2. HistoryType'
  BY DEF HistoryType, Submit, Leave, EndPoll, Wake, Stopped, Start, ListFails, RequestStop, Die, history
<1>3. ThreadsType'
  <2>1. CASE Die
    BY <2>1 DEF ThreadsType, Threads, Die
  <2>2. CASE ~Die
    BY <2>2 DEF ThreadsType, Threads, Submit, Leave, EndPoll, Wake, Stopped, Start, ListFails, RequestStop, threads
  <2> QED BY <2>1, <2>2
<1>4. CASE Submit
  <2>1. Tail(listed) \in Seq(Messages) /\ Head(listed) \in Messages
    BY <1>4, HeadTailProperties DEF Submit, LoopType
  <2>2. Append(queue, Head(listed)) \in Seq(Messages)
    BY <2>1, AppendProperties DEF LoopType
  <2>3. LoopType'
    BY <1>4, <2>1, <2>2 DEF LoopType, Submit
  <2>4. AtRest' /\ KeepsPresent' /\ KeepsDistinct'
    BY <1>4, NoListing DEF AtRest, Submit
  <2> QED BY <1>1, <1>2, <1>3, <2>3, <2>4
<1>5. CASE Leave
  <2>1. LoopType'
    BY <1>0, <1>5 DEF LoopType, Leave
  <2>2. AtRest' /\ KeepsPresent' /\ KeepsDistinct'
    BY <1>5, NoListing DEF AtRest, Leave
  <2> QED BY <1>1, <1>2, <1>3, <2>1, <2>2
<1>6. CASE EndPoll
  <2>1. LoopType'
    BY <1>6 DEF LoopType, EndPoll, AfterPoll
  <2>2. AtRest' /\ KeepsPresent' /\ KeepsDistinct'
    BY <1>6, NoListing DEF AtRest, EndPoll, AfterPoll, Threads, threads
  <2> QED BY <1>1, <1>2, <1>3, <2>1, <2>2
<1>7. CASE Wake \/ Stopped \/ Start
  <2>1. LoopType'
    BY <1>7 DEF LoopType, Wake, Stopped, Start
  <2>2. AtRest' /\ KeepsPresent' /\ KeepsDistinct'
    BY <1>7, NoListing DEF AtRest, Wake, Stopped, Start, Threads, threads
  <2> QED BY <1>1, <1>2, <1>3, <2>1, <2>2
<1>8. CASE ListFails
  <2>1. LoopType'
    BY <1>0, <1>8 DEF LoopType, ListFails
  <2>2. AtRest' /\ KeepsPresent' /\ KeepsDistinct'
    BY <1>8, NoListing DEF AtRest, ListFails, Threads, threads
  <2> QED BY <1>1, <1>2, <1>3, <2>1, <2>2
<1>9. CASE RequestStop
  <2>1. LoopType' /\ AtRest'
    BY <1>9 DEF LoopType, AtRest, RequestStop, Threads, threads
  <2>2. UNCHANGED <<box, offset, listed, pc, before, changes>>
    BY <1>9 DEF RequestStop, mailbox, history
  <2> QED BY <1>1, <1>2, <1>3, <2>1, <2>2, ListingStays
<1>10. CASE Die
  <2>1. LoopType'
    BY <1>0, <1>10 DEF LoopType, Die
  <2>2. AtRest' /\ KeepsPresent' /\ KeepsDistinct'
    BY <1>10, NoListing DEF AtRest, Die, Threads
  <2> QED BY <1>1, <1>2, <1>3, <2>1, <2>2
<1> QED BY <1>4, <1>5, <1>6, <1>7, <1>8, <1>9, <1>10

LEMMA PreservedByRetryTime ==
  ASSUME PollingInvariant, NEW m \in Messages, RetryTimeComes(m)
  PROVE  PollingInvariant'
<1> USE DEF PollingInvariant
<1>1. MailboxType' /\ ThreadsType' /\ LoopType' /\ HistoryType' /\ AtRest'
  BY DEF MailboxType, ThreadsType, LoopType, HistoryType, AtRest, Threads,
         RetryTimeComes, loop, threads, history
<1>2. UNCHANGED <<box, offset, listed, pc, before, changes>>
  BY DEF RetryTimeComes, loop, history
<1> QED BY <1>1, <1>2, ListingStays

-----------------------------------------------------------------------------
(* The threads. *)

\* A thread that is not idle works on a message, and only while a list is worked on.
LEMMA BusyThread ==
  ASSUME PollingInvariant, NEW t \in Threads, stage[t] # "idle"
  PROVE  running[t] \in Messages /\ pc = "messages"
BY DEF PollingInvariant, ThreadsType, AtRest

\* A thread's steps leave the loop where it is, and put it into a state of its own.
LEMMA ThreadMoves ==
  ASSUME PollingInvariant, NEW t \in Threads, pc = "messages",
         UNCHANGED <<limit, pc, stop, offset, listed, history>>,
         queue' \in Seq(Messages), counted' \in BOOLEAN, MailboxType', ThreadsType'
  PROVE  PollingInvariant'
<1>1. LoopType' /\ HistoryType' /\ AtRest'
  BY DEF PollingInvariant, LoopType, HistoryType, AtRest, history
<1>2. KeepsPresent' /\ KeepsDistinct'
  BY NoListing
<1> QED BY <1>1, <1>2 DEF PollingInvariant

LEMMA ReturnMoves ==
  ASSUME ThreadsType, LoopType, NEW t \in Threads, Return(t)
  PROVE  /\ ThreadsType' /\ queue' \in Seq(Messages) /\ counted' \in BOOLEAN
         /\ UNCHANGED <<limit, pc, stop, offset, listed, history>>
<1>1. ThreadsType'
  BY DEF ThreadsType, Threads, Return
<1> QED BY <1>1 DEF LoopType, Return, history

LEMMA RecordErrorTypes ==
  ASSUME MailboxType, NEW m \in Messages, NEW permanent \in BOOLEAN, RecordError(m, permanent)
  PROVE  row' \in [Messages -> Records({"stage"})] /\ waits' \subseteq Messages
<1>1. row[m] \in Records({"stage"})
  BY DEF MailboxType
<1>2. Error(row[m], "stage", permanent) \in Records({"stage"})
  BY <1>1, RowOperators
<1> QED BY <1>2 DEF MailboxType, RecordError, Pause

LEMMA PreservedByThread ==
  ASSUME PollingInvariant, NEW t \in Threads, Thread(t) \/ Raise(t)
  PROVE  PollingInvariant'
<1>0. MailboxType /\ LoopType /\ ThreadsType
  BY DEF PollingInvariant
<1>1. CASE Take(t)
  <2>1. queue # <<>> /\ pc = "messages"
    BY <1>1 DEF Take, PollingInvariant, AtRest
  <2>2. Head(queue) \in Messages /\ Tail(queue) \in Seq(Messages)
    BY <1>0, <2>1, HeadTailProperties DEF LoopType
  <2>3. row[Head(queue)] \in Records({"stage"}) /\ Ensure(row[Head(queue)], 1) \in Records({"stage"})
    BY <1>0, <2>2, RowOperators DEF MailboxType
  <2>4. MailboxType'
    BY <1>0, <1>1, <2>3 DEF MailboxType, Take
  <2>5. ThreadsType'
    BY <1>0, <1>1, <2>2, NoneIsNoMessage DEF ThreadsType, Threads, Take, threads
  <2>6. counted' \in BOOLEAN /\ queue' = Tail(queue)
        /\ UNCHANGED <<limit, pc, stop, offset, listed, history>>
    BY <1>0, <1>1 DEF Take, DeferredIsNotCounted, LoopType
  <2> QED BY <2>1, <2>2, <2>4, <2>5, <2>6, ThreadMoves
<1>2. CASE Work(t) \/ FindBusy(t)
  <2>1. stage[t] = "accepted" /\ running[t] \in Messages /\ pc = "messages"
    BY <1>2, BusyThread DEF Work, FindBusy
  <2>2. row[running[t]] \in Records({"stage"}) /\ StartAttempt(row[running[t]]) \in Records({"stage"})
    BY <1>0, <2>1, RowOperators DEF MailboxType
  <2>3. MailboxType'
    BY <1>0, <1>2, <2>2 DEF MailboxType, Work, FindBusy
  <2>4. ThreadsType'
    BY <1>0, <1>2, <2>1 DEF ThreadsType, Threads, Work, FindBusy
  <2>5. UNCHANGED <<limit, pc, stop, offset, listed, queue, counted, history>>
    BY <1>2 DEF Work, FindBusy, loop
  <2>6. queue' \in Seq(Messages) /\ counted' \in BOOLEAN
    BY <1>0, <2>5 DEF LoopType
  <2> QED BY <2>1, <2>3, <2>4, <2>5, <2>6, ThreadMoves
<1>3. CASE FindCompleted(t)
  <2>1. pc = "messages" /\ Return(t)
    BY <1>3, BusyThread DEF FindCompleted
  <2>2. MailboxType'
    BY <1>0, <1>3 DEF MailboxType, FindCompleted, mailbox
  <2> QED BY <1>0, <2>1, <2>2, ReturnMoves, ThreadMoves
<1>4. CASE Deliver(t)
  <2>1. running[t] \in Messages /\ pc = "messages" /\ Return(t)
    BY <1>4, BusyThread DEF Deliver
  <2>2. row[running[t]] \in Records({"stage"}) /\ Completed(row[running[t]]) \in Records({"stage"})
    BY <1>0, <2>1, RowOperators DEF MailboxType
  <2>3. MailboxType'
    BY <1>0, <1>4, <2>2 DEF MailboxType, Deliver
  <2> QED BY <1>0, <2>1, <2>3, ReturnMoves, ThreadMoves
<1>5. ASSUME NEW permanent \in BOOLEAN, Fail(t, permanent)
      PROVE  PollingInvariant'
  <2>1. running[t] \in Messages /\ pc = "messages" /\ Return(t)
    BY <1>5, BusyThread DEF Fail
  <2>2. row' \in [Messages -> Records({"stage"})] /\ waits' \subseteq Messages
    BY <1>0, <1>5, <2>1, RecordErrorTypes DEF Fail
  <2>3. MailboxType'
    BY <1>0, <1>5, <2>2 DEF MailboxType, Fail
  <2> QED BY <1>0, <2>1, <2>3, ReturnMoves, ThreadMoves
<1>6. CASE Raise(t)
  <2>1. running[t] \in Messages /\ pc = "messages" /\ Return(t)
    BY <1>6, BusyThread DEF Raise
  <2>2. row' \in [Messages -> Records({"stage"})] /\ waits' \subseteq Messages
    <3>1. CASE \E permanent \in BOOLEAN : RecordError(running[t], permanent)
      BY <1>0, <2>1, <3>1, RecordErrorTypes
    <3>2. CASE UNCHANGED <<row, waits>>
      BY <1>0, <3>2 DEF MailboxType
    <3> QED BY <1>6, <3>1, <3>2 DEF Raise
  <2>3. MailboxType'
    BY <1>0, <1>6, <2>1, <2>2 DEF MailboxType, Raise
  <2> QED BY <1>0, <2>1, <2>3, ReturnMoves, ThreadMoves
<1> QED BY <1>1, <1>2, <1>3, <1>4, <1>5, <1>6 DEF Thread

-----------------------------------------------------------------------------
(* Theorems. *)

LEMMA InvariantStep == PollingInvariant /\ [Next]_vars => PollingInvariant'
<1> SUFFICES ASSUME PollingInvariant, [Next]_vars
             PROVE  PollingInvariant'
  OBVIOUS
<1>1. CASE Poll
  BY <1>1, PreservedByBeginPoll, PreservedByNextPage, PreservedByLastPage, PreservedByLoop DEF Poll
<1>2. CASE Start \/ ListFails \/ RequestStop \/ Die
  BY <1>2, PreservedByLoop
<1>3. CASE \E t \in Threads : Thread(t) \/ Raise(t)
  BY <1>3, PreservedByThread
<1>4. CASE \E m \in Messages : RetryTimeComes(m) \/ Others(m)
  BY <1>4, PreservedByRetryTime, PreservedByOthers
<1>5. CASE UNCHANGED vars
  <2>1. UNCHANGED <<box, offset, listed, pc, before, changes>>
    BY <1>5 DEF vars, mailbox, loop, history
  <2>2. KeepsPresent' /\ KeepsDistinct'
    BY <2>1, ListingStays DEF PollingInvariant
  <2>3. MailboxType' /\ LoopType' /\ ThreadsType' /\ HistoryType' /\ AtRest'
    BY <1>5 DEF PollingInvariant, MailboxType, LoopType, ThreadsType, HistoryType, AtRest,
                Threads, vars, mailbox, loop, threads, history
  <2> QED BY <2>2, <2>3 DEF PollingInvariant
<1> QED BY <1>1, <1>2, <1>3, <1>4, <1>5 DEF Next

LEMMA TypesFollow == PollingInvariant => TypeOK
<1> SUFFICES ASSUME PollingInvariant PROVE TypeOK
  OBVIOUS
<1>1. MailboxType /\ LoopType /\ ThreadsType /\ HistoryType
  BY DEF PollingInvariant
<1>2. \A n \in DOMAIN listed : listed[n] \in Messages
  BY <1>1, ElementOfSeq, LenProperties DEF LoopType
<1>3. \A n \in DOMAIN queue : queue[n] \in Messages
  BY <1>1, ElementOfSeq, LenProperties DEF LoopType
<1>4. Range(listed) \cup Range(queue) \subseteq Messages
  BY <1>2, <1>3 DEF Range
<1>5. \A t \in Threads :
        /\ running[t] \in Messages \cup {None}
        /\ stage[t] \in {"idle", "accepted", "working", "refused"}
        /\ (stage[t] = "idle") <=> (running[t] = None)
  BY <1>1 DEF ThreadsType
<1> QED BY <1>1, <1>4, <1>5 DEF TypeOK, MailboxType, LoopType, HistoryType

\* In a list without repetitions, what occurs in it occurs once.
LEMMA OneCopy ==
  ASSUME NEW s \in Seq(Messages), \A i, j \in DOMAIN s : s[i] = s[j] => i = j,
         NEW m \in Range(s)
  PROVE  Copies(m, s) = 1
<1>1. PICK n \in DOMAIN s : s[n] = m
  BY DEF Range
<1>2. {i \in DOMAIN s : s[i] = m} = {n}
  BY <1>1
<1>3. Cardinality({n}) = 1
  BY FS_Singleton
<1> QED BY <1>2, <1>3 DEF Copies

LEMMA ListingFollows == PollingInvariant => ListingIsWhole
<1> SUFFICES ASSUME PollingInvariant, pc = "listing", ~HasMore
             PROVE  LET all == listed \o Page IN
                      /\ "gone" \notin changes => before \subseteq Range(all)
                      /\ "came" \notin changes => \A m \in Range(all) : Copies(m, all) = 1
  BY DEF ListingIsWhole
<1>0. listed \in Seq(Messages) /\ offset \in Nat
  BY MailboxAssumption, FS_CardinalityType DEF PollingInvariant, LoopType
<1>1. ASSUME "gone" \notin changes, NEW m \in before
      PROVE  m \in Range(listed \o Page)
  <2>1. m \in Found /\ (m \in Range(listed) \/ offset < Place(m))
    BY <1>1 DEF PollingInvariant, KeepsPresent
  <2>2. Place(m) \in 1..Len(Search)
    BY <2>1, SearchIsSorted
  <2>3. Len(Search) \in Nat /\ Len(Page) \in Nat /\ ~(offset + Len(Page) < Len(Search))
    BY <1>0, SearchIsSorted, PageHolds DEF HasMore
  <2>4. CASE m \in Range(listed)
    BY <1>0, <2>4, ListAndPage
  <2>5. CASE offset < Place(m)
    <3>1. Place(m) <= offset + Len(Page)
      BY <1>0, <2>2, <2>3
    <3>2. \E j \in 1..Len(Page) : Page[j] = m
      BY <1>0, <2>1, <2>5, <3>1, PageHolds
    <3>3. m \in Range(Page)
      BY <1>0, <3>2, PageHolds DEF Range
    <3> QED BY <1>0, <3>3, ListAndPage
  <2> QED BY <2>1, <2>4, <2>5
<1>2. ASSUME "came" \notin changes, NEW m \in Range(listed \o Page)
      PROVE  Copies(m, listed \o Page) = 1
  <2>1. \A i, j \in DOMAIN (listed \o Page) :
          (listed \o Page)[i] = (listed \o Page)[j] => i = j
    BY <1>0, <1>2, ListAndPage DEF PollingInvariant
  <2>2. listed \o Page \in Seq(Messages)
    BY <1>0, ListAndPage
  <2> QED BY <1>2, <2>1, <2>2, OneCopy
<1> QED BY <1>1, <1>2

LEMMA InvariantHolds == Spec => []PollingInvariant
<1> QED BY InvariantInit, InvariantStep, PTL DEF Spec

\* Every variable has its type: threads, queue and list hold messages of the
\* mailbox, and a thread is idle exactly when it has no message (PollingWorker).
THEOREM PollingTypes == Spec => []TypeOK
<1> QED BY InvariantHolds, TypesFollow, PTL

\* However a listing is cut into pages and whatever others do to the mailbox
\* between two pages, list_messages' offset misses a message only if one has
\* gone, and returns one twice only if one has come.
THEOREM ListingMissesNothing == Spec => []ListingIsWhole
<1> QED BY InvariantHolds, ListingFollows, PTL

\* Nothing is in work but while the loop works through a list: a poll does not
\* begin, and the worker does not end, while a thread of the pool has a message.
THEOREM PollsDoNotOverlap == Spec => []AtRest
<1>1. PollingInvariant => AtRest
  BY DEF PollingInvariant
<1> QED BY InvariantHolds, <1>1, PTL
=============================================================================
