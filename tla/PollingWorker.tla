---------------------------- MODULE PollingWorker ----------------------------
(***************************************************************************)
(* PollingWorker.run_forever over a mailbox of several messages.  A poll   *)
(* lists the mailbox page by page, every page being a search of its own,   *)
(* sorts what it got and works through it, in this thread or in a pool.    *)
(*                                                                         *)
(* What the pipeline does with one message is module MailGraph; here it is *)
(* one step that starts an attempt and one that ends it.  runtime_status   *)
(* and runtime_active_records, which only the dashboard reads, are left    *)
(* out.  The mailbox is external.                                          *)
(***************************************************************************)
EXTENDS ProcessingRecord, FiniteSets, SequencesExt

CONSTANTS
  Messages,    \* [uid, date, zone]; zone is "none" when there is no date
  PageSize,    \* mail.batch_size
  Limits,      \* the values of max_concurrent_messages that are tried
  UnreadOnly,  \* mail.unread_only
  MarkRead,    \* mail.mark_read_after_success
  Mailboxes,   \* which messages may be unread at first
  MaxEvents    \* bound: changes by others, failed searches, escaped exceptions, stops, deaths

ASSUME MailboxAssumption ==
  /\ Messages \subseteq [uid : Nat \ {0}, date : Nat, zone : {"none", "aware", "naive"}]
  /\ IsFiniteSet(Messages)
  /\ \A m, n \in Messages : m.uid = n.uid => m = n
  /\ PageSize \in Nat \ {0} /\ Limits \subseteq Nat \ {0}
  /\ Mailboxes \subseteq SUBSET Messages
  /\ UnreadOnly \in BOOLEAN /\ MarkRead \in BOOLEAN

None == [uid |-> 0, date |-> 0, zone |-> "none"]

VARIABLES
  box,      \* per message: absent, unread or read
  row,      \* per message: its row of processing_records
  waits,    \* messages whose next_retry_at has not come
  stuck,    \* messages with a journal row that an escaped exception left running
  limit,    \* max_concurrent_messages
  pc,       \* run_forever: down, check, listing, messages, waiting
  stop,     \* stop_event
  offset,   \* where the next page begins
  listed,   \* what was listed, and is not yet given to a thread or the pool
  queue,    \* what the pool has been given and not begun
  running,  \* per thread: the message it works on
  stage,    \* per thread: idle, accepted, working or refused
  counted,  \* processed_count > 0
  spent,
  before,   \* history: what was in the mailbox when this listing began,
  changes   \* and what has happened to it since: "came", "gone"

mailbox == <<box, row, waits, stuck>>
loop == <<pc, stop, offset, listed, queue, counted>>
threads == <<running, stage>>
history == <<before, changes>>
vars == <<mailbox, limit, loop, threads, spent, history>>

Threads == 1..limit

Spend == spent < MaxEvents /\ spent' = spent + 1

Init ==
  /\ \E S \in Mailboxes : box = [m \in Messages |-> IF m \in S THEN "unread" ELSE "absent"]
  /\ row = [m \in Messages |-> NoRecord]
  /\ waits = {} /\ stuck = {}
  /\ limit \in Limits
  /\ pc = "down" /\ stop = FALSE
  /\ offset = 0 /\ listed = <<>> /\ queue = <<>> /\ counted = FALSE
  /\ running = [t \in 1..limit |-> None]
  /\ stage = [t \in 1..limit |-> "idle"]
  /\ spent = 0 /\ before = {} /\ changes = {}

-----------------------------------------------------------------------------
(* Listing *)

\* _sort_summaries with sort_by="date": without a date first, else by date; the
\* sort is stable and the search returns ascending UIDs.
BySdk(a, b) == a.date < b.date \/ (a.date = b.date /\ a.uid < b.uid)

\* _oldest_first: without a date last.
ByWorker(a, b) ==
  LET Late(m) == m.zone = "none"
  IN  IF Late(a) = Late(b) THEN BySdk(a, b) ELSE Late(b)

\* Dates with and without an offset cannot be compared: sorted() raises TypeError.
Comparable(S) == ~({"aware", "naive"} \subseteq {m.zone : m \in S})

Found == {m \in Messages : box[m] = "unread" \/ (box[m] = "read" /\ ~UnreadOnly)}

\* A message's place in the search: behind those that come before it.
Place(m) == Cardinality({k \in Found : BySdk(k, m)}) + 1

Search == [n \in 1..Cardinality(Found) |-> CHOOSE m \in Found : Place(m) = n]

Page ==
  SubSeq(Search, offset + 1,
         IF offset + PageSize < Len(Search) THEN offset + PageSize ELSE Len(Search))

\* Mutant: a last page of one message is taken for no page.
HasMoreThanOne == offset + Len(Page) + 1 < Len(Search)

HasMore == offset + Len(Page) < Len(Search)

Copies(m, s) == Cardinality({n \in DOMAIN s : s[n] = m})

\* Sorting keeps what was listed twice, next to each other, in its order.
OldestFirst(s) ==
  LET Earlier(p, q) == ByWorker(s[p], s[q]) \/ (s[p] = s[q] /\ p < q)
      PlaceOf(p) == Cardinality({q \in DOMAIN s : Earlier(q, p)}) + 1
  IN  [n \in DOMAIN s |-> s[CHOOSE p \in DOMAIN s : PlaceOf(p) = n]]

\* while not stop_event.is_set(): once()
BeginPoll ==
  /\ pc = "check" /\ ~stop
  /\ pc' = "listing" /\ counted' = FALSE
  /\ before' = Found /\ changes' = {}
  /\ UNCHANGED <<mailbox, limit, stop, offset, listed, queue, threads, spent>>

NextPage ==
  /\ pc = "listing" /\ HasMore
  /\ listed' = listed \o Page
  /\ offset' = offset + Len(Page)
  /\ UNCHANGED <<mailbox, limit, pc, stop, queue, counted, threads, spent, history>>

\* With nothing to do the poll is over; a sort that raises ends run_forever.
LastPage ==
  /\ pc = "listing" /\ ~HasMore
  /\ LET all == listed \o Page IN
       /\ pc' = IF all = <<>> THEN "waiting"
                ELSE IF Comparable(Range(all)) THEN "messages" ELSE "down"
       /\ listed' = IF Comparable(Range(all)) THEN OldestFirst(all) ELSE <<>>
  /\ offset' = 0
  /\ before' = {} /\ changes' = {}
  /\ UNCHANGED <<mailbox, limit, stop, queue, counted, threads, spent>>

\* A search that fails is not caught either.
ListFails ==
  /\ pc = "listing" /\ Spend
  /\ pc' = "down" /\ listed' = <<>> /\ offset' = 0
  /\ UNCHANGED <<mailbox, limit, stop, queue, counted, threads, history>>

-----------------------------------------------------------------------------
(* Working through the list *)

\* A message is given to the pool, or, one at a time, worked on; not after a stop.
Submit ==
  /\ pc = "messages" /\ listed # <<>> /\ ~stop
  /\ limit = 1 => queue = <<>> /\ stage[1] = "idle"
  /\ queue' = Append(queue, Head(listed))
  /\ listed' = Tail(listed)
  /\ UNCHANGED <<mailbox, limit, pc, stop, offset, counted, threads, spent, history>>

\* The others are not processed; what the pool already has, is.
Leave ==
  /\ pc = "messages" /\ listed # <<>> /\ stop
  /\ limit = 1 => queue = <<>> /\ stage[1] = "idle"
  /\ listed' = <<>>
  /\ UNCHANGED <<mailbox, limit, pc, stop, offset, queue, counted, threads, spent, history>>

\* Mutant: an attempt that a dead process had begun is taken to be under way.
AllowedUnlessProcessing(m) ==
  /\ MayAttempt(Ensure(row[m], 1)) /\ row[m].status # "processing"
  /\ row[m].status = "retryable_error" => m \notin waits

Allowed(m) ==
  /\ MayAttempt(Ensure(row[m], 1))
  /\ row[m].status = "retryable_error" => m \notin waits

\* Mutant: a deferred message counts as processed.
DeferredCounts == counted' = TRUE

DeferredIsNotCounted == UNCHANGED counted

\* _process up to graph.run.
Take(t) ==
  /\ stage[t] = "idle" /\ queue # <<>>
  /\ LET m == Head(queue) IN
       /\ row' = [row EXCEPT ![m] = Ensure(@, 1)]
       /\ \/ /\ Allowed(m)
             /\ running' = [running EXCEPT ![t] = m]
             /\ stage' = [stage EXCEPT ![t] = "accepted"]
             /\ UNCHANGED counted
          \/ /\ ~Allowed(m)
             /\ DeferredIsNotCounted
             /\ UNCHANGED threads
  /\ queue' = Tail(queue)
  /\ UNCHANGED <<box, waits, stuck, limit, pc, stop, offset, listed, spent, history>>

\* A claimed row of the message: another thread's, or nobody's any more.
MayBeBusy(m, t) ==
  m \in stuck \/ \E u \in Threads \ {t} : running[u] = m /\ stage[u] = "working"

\* check_idempotency looks at the record once more and starts an attempt.
Work(t) ==
  LET m == running[t] IN
  /\ stage[t] = "accepted" /\ m \notin stuck
  /\ row[m].status # "completed"
  /\ row' = [row EXCEPT ![m] = StartAttempt(@)]
  /\ stage' = [stage EXCEPT ![t] = "working"]
  /\ UNCHANGED <<box, waits, stuck, limit, loop, running, spent, history>>

\* A running row is met, at check_idempotency or when an attempt has begun.
FindBusy(t) ==
  LET m == running[t] IN
  /\ stage[t] = "accepted" /\ MayBeBusy(m, t)
  /\ \/ row' = [row EXCEPT ![m] = StartAttempt(@)]
     \/ UNCHANGED row
  /\ stage' = [stage EXCEPT ![t] = "refused"]
  /\ UNCHANGED <<box, waits, stuck, limit, loop, running, spent, history>>

\* Mutant: the thread is free, but still has its message.
ReturnHolding(t) ==
  /\ stage' = [stage EXCEPT ![t] = "idle"]
  /\ counted' = TRUE
  /\ UNCHANGED <<limit, pc, stop, offset, listed, queue, running, history>>

\* The thread is done with its message.
Return(t) ==
  /\ running' = [running EXCEPT ![t] = None]
  /\ stage' = [stage EXCEPT ![t] = "idle"]
  /\ counted' = TRUE
  /\ UNCHANGED <<limit, pc, stop, offset, listed, queue, history>>

FindCompleted(t) ==
  /\ stage[t] = "accepted" /\ row[running[t]].status = "completed"
  /\ Return(t)
  /\ UNCHANGED <<mailbox, spent>>

Deliver(t) ==
  LET m == running[t] IN
  /\ stage[t] = "working"
  /\ row' = [row EXCEPT ![m] = Completed(@)]
  /\ box' = IF MarkRead THEN [box EXCEPT ![m] = "read"] ELSE box
  /\ Return(t)
  /\ UNCHANGED <<waits, stuck, spent>>

\* next_retry_at is set for a retryable error only.
Pause(m, r) == waits' = IF r.status = "retryable_error" THEN waits \cup {m} ELSE waits \ {m}

RecordError(m, permanent) ==
  /\ row' = [row EXCEPT ![m] = Error(@, "stage", permanent)]
  /\ Pause(m, row'[m])

\* The failure node: after a failure of a node, and after a running row was met.
Fail(t, permanent) ==
  /\ \/ stage[t] = "working"
     \/ stage[t] = "refused" /\ ~permanent
  /\ RecordError(running[t], permanent)
  /\ Return(t)
  /\ UNCHANGED <<box, stuck, spent>>

\* An exception escapes _process: before anything was claimed, or from a node whose
\* row it leaves running.  Only the sequential loop records it, by its kind.
Raise(t) ==
  LET m == running[t] IN
  /\ stage[t] # "idle" /\ Spend
  /\ stuck' \in {stuck, stuck \cup {m}}
  /\ \/ limit = 1 /\ \E permanent \in BOOLEAN : RecordError(m, permanent)
     \/ limit > 1 /\ UNCHANGED <<row, waits>>
  /\ Return(t)
  /\ UNCHANGED box

AfterPoll == IF counted THEN "check" ELSE "waiting"

EndPoll ==
  /\ pc = "messages" /\ listed = <<>> /\ queue = <<>>
  /\ \A t \in Threads : stage[t] = "idle"
  /\ pc' = AfterPoll
  /\ UNCHANGED <<mailbox, limit, stop, offset, listed, queue, counted, threads, spent, history>>

\* stop_event.wait(poll_interval_seconds): the interval is over, or a stop asked for.
Wake ==
  /\ pc = "waiting"
  /\ pc' = "check"
  /\ UNCHANGED <<mailbox, limit, stop, offset, listed, queue, counted, threads, spent, history>>

-----------------------------------------------------------------------------
(* Processes, time and the mailbox *)

\* Taking the lock and releasing the journal rows of a process that is gone.
Start ==
  /\ pc = "down"
  /\ pc' = "check" /\ stop' = FALSE /\ stuck' = {}
  /\ UNCHANGED <<box, row, waits, limit, offset, listed, queue, counted, threads, spent, history>>

\* SIGINT or SIGTERM
RequestStop ==
  /\ pc # "down" /\ ~stop /\ Spend
  /\ stop' = TRUE
  /\ UNCHANGED <<mailbox, limit, pc, offset, listed, queue, counted, threads, history>>

Stopped ==
  /\ pc = "check" /\ stop
  /\ pc' = "down"
  /\ UNCHANGED <<mailbox, limit, stop, offset, listed, queue, counted, threads, spent, history>>

Die ==
  /\ pc # "down" /\ Spend
  /\ pc' = "down" /\ offset' = 0 /\ listed' = <<>> /\ queue' = <<>>
  /\ counted' = FALSE
  /\ running' = [t \in Threads |-> None]
  /\ stage' = [t \in Threads |-> "idle"]
  /\ UNCHANGED <<mailbox, limit, stop, history>>

RetryTimeComes(m) ==
  /\ m \in waits
  /\ waits' = waits \ {m}
  /\ UNCHANGED <<box, row, stuck, limit, loop, threads, spent, history>>

\* A message arrives, or somebody reads it, or marks it as unread.
Others(m) ==
  /\ Spend
  /\ box' = [box EXCEPT ![m] = IF @ = "unread" THEN "read" ELSE "unread"]
  /\ changes' = IF pc # "listing" THEN changes
                ELSE changes \cup {IF m \in Found THEN "gone" ELSE "came"}
  /\ UNCHANGED <<row, waits, stuck, limit, loop, threads, before>>

Thread(t) ==
  \/ Take(t) \/ Work(t) \/ FindBusy(t) \/ FindCompleted(t) \/ Deliver(t)
  \/ \E permanent \in BOOLEAN : Fail(t, permanent)

Poll == BeginPoll \/ NextPage \/ LastPage \/ Submit \/ Leave \/ EndPoll \/ Wake \/ Stopped

Next ==
  \/ Poll \/ Start \/ ListFails \/ RequestStop \/ Die
  \/ \E t \in Threads : Thread(t) \/ Raise(t)
  \/ \E m \in Messages : RetryTimeComes(m) \/ Others(m)

Spec == Init /\ [][Next]_vars

\* The main loop and the threads go on, the time of a retry comes, and a worker
\* that has ended is started again.
Fairness ==
  /\ WF_vars(Poll) /\ WF_vars(Start)
  /\ WF_vars(\E t \in Threads : Thread(t))
  /\ \A m \in Messages : WF_vars(RetryTimeComes(m))

FairSpec == Spec /\ Fairness

-----------------------------------------------------------------------------
(* Properties *)

\* Every variable has its type; a thread is idle exactly when it has no message.
TypeOK ==
  /\ box \in [Messages -> {"absent", "unread", "read"}]
  /\ row \in [Messages -> Records({"stage"})]
  /\ waits \subseteq Messages /\ stuck \subseteq Messages /\ before \subseteq Messages
  /\ changes \subseteq {"came", "gone"}
  /\ pc \in {"down", "check", "listing", "messages", "waiting"}
  /\ stop \in BOOLEAN /\ counted \in BOOLEAN /\ offset \in 0..Cardinality(Messages)
  /\ Range(listed) \cup Range(queue) \subseteq Messages
  /\ \A t \in Threads :
       /\ running[t] \in Messages \cup {None}
       /\ stage[t] \in {"idle", "accepted", "working", "refused"}
       /\ (stage[t] = "idle") <=> (running[t] = None)

Settled(m) == row[m].status \in {"completed", "permanent_error"}

\* A message that stays to be listed is completed or given up in the end, though
\* pages overlap or miss messages, others fail or raise, and the worker may die.
\* Not so one whose own row an exception left running: nothing releases it.
EveryMessageIsHandled ==
  \A m \in Messages : <>[](m \in Found /\ m \notin stuck) => <>[]Settled(m)

\* The immediate repetition of a poll always ends: the worker comes to wait, or
\* to an end and again; unless an exception left a message busy, which
\* then fails, uncounted, as often as its retry time comes.
GoesQuiet == []<>(pc \in {"waiting", "down"} \/ stuck # {})

\* However it is cut into pages, a listing misses a message that was there when
\* it began only if one has gone meanwhile, and has a message twice only if one
\* has come.
ListingIsWhole ==
  pc = "listing" /\ ~HasMore =>
    LET all == listed \o Page IN
      /\ "gone" \notin changes => before \subseteq Range(all)
      /\ "came" \notin changes => \A m \in Range(all) : Copies(m, all) = 1

=============================================================================
