---------------------------- MODULE EmailListing ----------------------------
(***************************************************************************)
(* How the Results API reads many messages: the list that a client walks   *)
(* page by page with an opaque cursor, and the statistics of a period.     *)
(* Each is a loop over calendar months whose every query is a session of   *)
(* its own, while ingestion inserts messages and replaces the results of   *)
(* those stored (main.py, db.py).                                          *)
(*                                                                         *)
(* A message is <<received_at, record_id>>.  Instants are numbers, a month *)
(* has MonthLength of them.  Neither request changes anything, so one at a *)
(* time is in progress.                                                    *)
(***************************************************************************)
EXTENDS Integers, FiniteSets, SequencesExt

CONSTANTS
  Messages,       \* those that may be stored, in the order of tuples
  Classes,        \* the classifications
  Results,        \* for each message, the contents that its generations may have
  MonthLength,
  Now,
  Limit,          \* the page size
  Horizon,        \* the months one list request visits
  Filters,        \* the from and to a client may send
  Periods,        \* the start and end of statistics
  None

ASSUME MonthAssumption ==
  /\ MonthLength \in Nat \ {0} /\ Now \in Nat
  /\ Limit \in Nat \ {0} /\ Horizon \in Nat
ASSUME MessagesAssumption ==
  /\ Messages \subseteq Nat \X Nat /\ IsFiniteSet(Messages) /\ None \notin Messages
  /\ \A m, n \in Messages : m[2] = n[2] => m = n
ASSUME ResultsAssumption ==
  /\ IsFiniteSet(Classes)
  /\ \A m \in Messages : Results[m] \subseteq [class : Classes, files : Nat]
ASSUME PeriodsAssumption ==
  \A p \in Periods : p.start \in Nat /\ p.end \in Nat /\ p.start < p.end
ASSUME FiltersAssumption ==
  /\ Filters \subseteq [from : Nat \cup {None}, to : Nat \cup {None}]
  /\ \A f \in Filters : f.from # None /\ f.to # None => f.from <= f.to

VARIABLES
  rows,           \* the e-mails stored
  result,         \* for each of them, what its last generation stored: class and files
  walk,           \* a client that lists
  stats,          \* a client that asks for statistics
  versions        \* history: the contents stored at some time since the statistics began

vars == <<rows, result, walk, stats, versions>>

MonthOf(moment) == moment \div MonthLength
FirstOf(month) == month * MonthLength

\* Where the loop goes after a month: the first instant of the one before.
PreviousMonth(moment) == FirstOf(MonthOf(moment) - 1)

Newer(m, n) == m[1] > n[1] \/ (m[1] = n[1] /\ m[2] > n[2])

\* Mutant: the keyset compares received_at only.
AfterCursorByTime(m, cursor) == m[1] < cursor[1]

\* Mutant: the keyset compares received_at only and includes the instant of the cursor.
AfterCursorInclusive(m, cursor) == m[1] <= cursor[1]

\* The keyset condition of a page that is not the first.
AfterCursor(m, cursor) == Newer(cursor, m)

\* order_by(received_at.desc(), record_id.desc()): the n-th message is the one with
\* n - 1 newer ones.
NewestFirst(S) ==
  LET place(m) == Cardinality({k \in S : Newer(k, m)}) + 1
  IN  [n \in 1..Cardinality(S) |-> CHOOSE m \in S : place(m) = n]

OfMonth(moment, cursor) ==
  {m \in rows :
     /\ MonthOf(m[1]) = MonthOf(moment)
     /\ (cursor # None /\ MonthOf(cursor[1]) = MonthOf(moment)) => AfterCursor(m, cursor)}

\* One query: the newest messages of the month of `moment', at most `needed'.
ListMonth(moment, needed, cursor) ==
  LET sorted == NewestFirst(OfMonth(moment, cursor))
  IN  SubSeq(sorted, 1, IF needed < Len(sorted) THEN needed ELSE Len(sorted))

Admits(filter, m) ==
  /\ filter.from # None => m[1] >= filter.from
  /\ filter.to # None => m[1] <= filter.to

\* Those of a page that the filter admits, in the order of the page.
Admitted(filter, page) == NewestFirst({m \in ToSet(page) : Admits(filter, m)})

\* listed, last, descends: what the client got so far, and whether ever in order.
NoWalk == [at |-> "idle", filter |-> [from |-> None, to |-> None], moment |-> Now, cursor |-> None,
           months |-> 0, items |-> <<>>, listed |-> {}, last |-> None, descends |-> TRUE, present |-> {}]
\* The keys of the classes; one that has not been met counts for nothing.
NoStats == [at |-> "idle", period |-> [start |-> 0, end |-> 1], month |-> 0,
            emails |-> 0, files |-> 0, classes |-> [c \in Classes |-> 0], present |-> {}]

Init ==
  /\ rows = {} /\ result = <<>>
  /\ walk = NoWalk
  /\ stats = NoStats /\ versions = {}

-----------------------------------------------------------------------------
(* Ingestion *)

\* One transaction: the e-mail with its result, the attachments of before deleted
\* and its own added.
Store(m, content) ==
  /\ rows' = rows \cup {m}
  /\ result' = [k \in rows \cup {m} |-> IF k = m THEN content ELSE result[k]]
  /\ versions' = IF stats.at = "idle" THEN versions ELSE versions \cup {<<m, content>>}
  /\ UNCHANGED <<walk, stats>>

\* A first result is committed.
Insert == \E m \in Messages \ rows : \E content \in Results[m] : Store(m, content)

\* A newer generation is committed: received_at and record_id stay.
Replace == \E m \in rows : \E content \in Results[m] : Store(m, content)

-----------------------------------------------------------------------------
(* GET /emails *)

OpenList ==
  /\ walk.at = "idle" /\ stats.at = "idle"
  /\ \E f \in Filters : walk' = [NoWalk EXCEPT !.at = "query", !.filter = f, !.present = rows]
  /\ UNCHANGED <<rows, result, stats, versions>>

\* Each item is older than the one before it, the first than the last of the page before.
Descends(items) ==
  \A i \in DOMAIN items :
    IF i > 1 THEN Newer(items[i - 1], items[i]) ELSE walk.last # None => Newer(walk.last, items[i])

\* The client keeps the items of the answer and asks for the next page while there is one.
Answer(items, more) ==
  walk' = [walk EXCEPT !.at = IF more THEN "page" ELSE "done",
                       !.cursor = IF more THEN Last(items) ELSE None,
                       !.listed = @ \cup ToSet(items), !.items = <<>>, !.months = 0,
                       !.last = IF items = <<>> THEN @ ELSE Last(items),
                       !.descends = @ /\ Descends(items)]

\* The loop has passed the lower bound or visited all its months.
Exhausted ==
  \/ walk.months = Horizon
  \/ walk.filter.from # None /\ walk.moment < walk.filter.from

StopAtBound ==
  /\ walk.at = "query" /\ Exhausted
  /\ Answer(walk.items, FALSE)
  /\ UNCHANGED <<rows, result, stats, versions>>

\* Mutant: one message more is taken for a page.
HasMoreLate(items) == Len(items) > Limit + 1

\* One message beyond the page has been found.
HasMore(items) == Len(items) > Limit

\* One round: from and to are applied to what the limited query returned.
QueryMonth ==
  /\ walk.at = "query" /\ ~Exhausted
  /\ LET page == ListMonth(walk.moment, Limit + 1 - Len(walk.items), walk.cursor)
         items == walk.items \o Admitted(walk.filter, page)
     IN  IF HasMore(items) THEN Answer(SubSeq(items, 1, Limit), TRUE)
         ELSE walk' = [walk EXCEPT !.items = items, !.moment = PreviousMonth(@),
                                   !.cursor = None, !.months = @ + 1]
  /\ UNCHANGED <<rows, result, stats, versions>>

NextPage ==
  /\ walk.at = "page"
  /\ walk' = [walk EXCEPT !.at = "query", !.moment = walk.cursor[1]]
  /\ UNCHANGED <<rows, result, stats, versions>>

CloseList ==
  /\ walk.at = "done"
  /\ walk' = NoWalk
  /\ UNCHANGED <<rows, result, stats, versions>>

-----------------------------------------------------------------------------
(* GET /statistics *)

OpenStatistics ==
  /\ walk.at = "idle" /\ stats.at = "idle"
  /\ \E p \in Periods :
       stats' = [NoStats EXCEPT !.at = "emails", !.period = p, !.present = rows, !.month = MonthOf(p.start)]
  /\ versions' = {<<m, result[m]>> : m \in rows}
  /\ UNCHANGED <<rows, result, walk>>

\* Mutant: the last month is counted to its end.
WindowToMonthEnd(p, month) ==
  {m \in rows : MonthOf(m[1]) = month /\ m[1] >= p.start}

\* The part of the month inside the period: start included, end not.
Window(p, month) ==
  {m \in rows : MonthOf(m[1]) = month /\ m[1] >= p.start /\ m[1] < p.end}

\* Three statements per month, each sees what is committed when it runs.
CountEmails ==
  /\ stats.at = "emails" /\ FirstOf(stats.month) < stats.period.end
  /\ stats' = [stats EXCEPT !.at = "files", !.emails = @ + Cardinality(Window(stats.period, stats.month))]
  /\ UNCHANGED <<rows, result, walk, versions>>

\* Every x of S with the numbers up to its count: their number is the sum of the counts.
Enumerated(S, count) == UNION {{x} \X (1..count[x]) : x \in S}

\* The rows of attachments, by their message and position.
FilesOf(messages) == Enumerated(messages, [m \in rows |-> result[m].files])

CountAttachments ==
  /\ stats.at = "files"
  /\ stats' = [stats EXCEPT !.at = "classes", !.files = @ + Cardinality(FilesOf(Window(stats.period, stats.month)))]
  /\ UNCHANGED <<rows, result, walk, versions>>

OfClass(messages, c) == {m \in messages : result[m].class = c}

\* GROUP BY over the classification; the groups are merged by their key.
CountClasses ==
  /\ stats.at = "classes"
  /\ stats' = [stats EXCEPT !.at = "emails", !.month = @ + 1,
                            !.classes = [c \in Classes |->
                              @[c] + Cardinality(OfClass(Window(stats.period, stats.month), c))]]
  /\ UNCHANGED <<rows, result, walk, versions>>

AnswerStatistics ==
  /\ stats.at = "emails" /\ FirstOf(stats.month) >= stats.period.end
  /\ stats' = [stats EXCEPT !.at = "done"]
  /\ UNCHANGED <<rows, result, walk, versions>>

CloseStatistics ==
  /\ stats.at = "done"
  /\ stats' = NoStats /\ versions' = {}
  /\ UNCHANGED <<rows, result, walk>>

-----------------------------------------------------------------------------
List == StopAtBound \/ QueryMonth \/ NextPage \/ CloseList
Statistics == CountEmails \/ CountAttachments \/ CountClasses \/ AnswerStatistics \/ CloseStatistics

Next == Insert \/ Replace \/ OpenList \/ List \/ OpenStatistics \/ Statistics

Spec == Init /\ [][Next]_vars

\* A request that has begun goes on; nobody has to send one.
FairSpec == Spec /\ WF_vars(List) /\ WF_vars(Statistics)

-----------------------------------------------------------------------------
(* Properties *)

\* Every variable has its type; rows are never deleted while a request reads, and
\* a page never collects more than its limit.
TypeOK ==
  /\ rows \subseteq Messages
  /\ \A m \in rows : result[m] \in Results[m]
  /\ walk.at \in {"idle", "query", "page", "done"}
  /\ walk.present \subseteq rows /\ walk.listed \subseteq rows
  /\ Len(walk.items) <= Limit /\ walk.months \in 0 .. Horizon
  /\ stats.at \in {"idle", "emails", "files", "classes", "done"}
  /\ stats.present \subseteq rows
  /\ \A v \in versions : v[1] \in rows /\ v[2] \in Results[v[1]]

Visible(m) == MonthOf(m[1]) <= MonthOf(Now) /\ MonthOf(m[1]) > MonthOf(Now) - Horizon

\* Months that lie within the bounds as a whole; the loop also comes to the present
\* month when `from' is in it.
WithinBounds(filter, m) ==
  /\ filter.from # None =>
       \/ filter.from <= FirstOf(MonthOf(m[1]))
       \/ filter.from <= Now /\ MonthOf(m[1]) = MonthOf(Now)
  /\ filter.to # None => MonthOf(m[1]) < MonthOf(filter.to)

\* Over all its pages a walk gets every message at most once, newest first, and
\* none outside the bounds it asked for; it ends with every admitted message of
\* the months within its bounds (of all months if it has none) that was there
\* when it began, also those that share received_at, whatever is inserted
\* between its queries.
WalkIsComplete ==
  /\ walk.descends
  /\ \A m \in walk.listed : Admits(walk.filter, m)
  /\ walk.at = "done" =>
       \A m \in walk.present :
         Visible(m) /\ Admits(walk.filter, m) /\ WithinBounds(walk.filter, m) => m \in walk.listed

\* What the parameters from and to are documented to mean: bounds of received_at.
BoundedWalkIsComplete ==
  walk.at = "done" =>
    \A m \in walk.present : Visible(m) /\ Admits(walk.filter, m) => m \in walk.listed

InPeriod(p, messages) == {m \in messages : m[1] >= p.start /\ m[1] < p.end}

Total(counts) == Cardinality(Enumerated(DOMAIN counts, counts))

\* Of a set of messages: those that V has with the class c, and those it has with no other.
EverOfClass(V, messages, c) == {m \in messages : \E v \in V : v[1] = m /\ v[2].class = c}
AlwaysOfClass(V, messages, c) == {m \in messages : \A v \in V : v[1] = m => v[2].class = c}

\* Of their attachments: those that some content of the message in V has, and those
\* that each has.
EverFiles(V, messages) ==
  UNION {{v[1]} \X (1..v[2].files) : v \in {w \in V : w[1] \in messages}}
AlwaysFiles(V, messages) ==
  {f \in EverFiles(V, messages) : \A v \in V : v[1] = f[1] => f[2] <= v[2].files}

\* The statistics count every message of the half-open period once: at least those
\* stored when the request began, at most those stored when it ends; the classes,
\* counted after the total, add up to no less and to no more than there are
\* messages.  Files and classes may change under the request when a newer
\* generation is committed: a class counts at least the messages that had it
\* throughout and at most those that had it at some time, and so for the files.
StatisticsAreBracketed ==
  stats.at = "done" =>
    LET least == InPeriod(stats.period, stats.present)
        most == InPeriod(stats.period, rows)
    IN  /\ Cardinality(least) <= stats.emails
        /\ stats.emails <= Total(stats.classes)
        /\ Total(stats.classes) <= Cardinality(most)
        /\ \A c \in Classes :
             /\ Cardinality(AlwaysOfClass(versions, least, c)) <= stats.classes[c]
             /\ stats.classes[c] <= Cardinality(EverOfClass(versions, most, c))
        /\ Cardinality(AlwaysFiles(versions, least)) <= stats.files
        /\ stats.files <= Cardinality(EverFiles(versions, most))

\* A client that follows the cursors comes to an end, even while messages arrive.
WalkEnds == walk.at # "idle" ~> walk.at = "idle"

=============================================================================
