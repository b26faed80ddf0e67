----------------------------- MODULE OcrService -----------------------------
(***************************************************************************)
(* The OCR service: ProcessingService takes a request through the cache of *)
(* loaded pipelines (ModelManager) and the limiter of inferences           *)
(* (InferenceLimiter).  Requests are coroutines of one event loop; loading,*)
(* prediction and closing run in threads.  The sections under _cache_lock  *)
(* contain no await, so each of them is one step.                          *)
(*                                                                         *)
(* A pipeline is named after the request that loaded it.                   *)
(***************************************************************************)
EXTENDS Naturals, FiniteSets, SequencesExt

CONSTANTS
  Requests,
  Pdfs,            \* the requests whose document is a PDF, kept in a private file
  Keys,            \* the combinations of task, model and language in the registry
  Unknown,         \* any other combination
  NoModel, Nobody,
  CacheSize,       \* model_cache_size
  MaxInferences    \* max_concurrent_inferences

ASSUME PdfsAssumption == Pdfs \subseteq Requests
ASSUME NamesAssumption == NoModel \notin Requests /\ Nobody \notin Requests
ASSUME KeysAssumption == Keys # {} /\ Unknown \notin Keys
ASSUME SizesAssumption == CacheSize \in Nat \ {0} /\ MaxInferences \in Nat \ {0}
ASSUME FiniteAssumption == IsFiniteSet(Requests)

Stages == {"idle", "arrived", "waiting", "loading", "evicting", "leased",
           "slot", "running", "answered", "unlink", "done"}

VARIABLES
  stage, key, file, status,   \* per request; file: its private PDF exists
  lease,         \* per request: the pipeline it leases
  used,          \* per request: the pipeline its thread predicts with
  cache,         \* the cached pipelines, the least recently used first
  loadLock,      \* per key: who loads it
  pipeline,      \* per pipeline: none, open, or closed (its close has been called)
  leases,        \* per pipeline: active_leases
  evicted,
  modelLock,     \* per pipeline: inference_lock
  slots,         \* the value of the limiter's semaphore
  accepting,     \* the process has not begun to stop
  closer         \* the pipelines that ModelManager.close has to look at

manager == <<cache, loadLock, pipeline, leases, evicted, accepting, closer>>
guards == <<modelLock, slots, used>>
service == <<stage, key, file, status, lease, manager, guards>>

Open == Requests \cup {NoModel}
Asked == Keys \cup {Unknown}

Init ==
  /\ stage = [r \in Requests |-> "idle"]
  /\ key = [r \in Requests |-> Unknown]
  /\ file = [r \in Requests |-> FALSE]
  /\ status = [r \in Requests |-> "none"]
  /\ lease = [r \in Requests |-> NoModel]
  /\ used = [r \in Requests |-> NoModel]
  /\ cache = <<>>
  /\ loadLock = [k \in Keys |-> Nobody]
  /\ pipeline = [i \in Requests |-> "none"]
  /\ leases = [i \in Requests |-> 0]
  /\ evicted = [i \in Requests |-> FALSE]
  /\ modelLock = [i \in Requests |-> Nobody]
  /\ slots = MaxInferences
  /\ accepting = TRUE
  /\ closer = <<>>

Goes(r, s) == stage' = [stage EXCEPT ![r] = s]
Fails(r) == status' = [status EXCEPT ![r] = "failed"]

Cached == {cache[n] : n \in 1..Len(cache)}

\* Where a pipeline of the key is in the cache.
Hits(k) == {n \in 1..Len(cache) : key[cache[n]] = k}

-----------------------------------------------------------------------------
(* Validation and the document *)

Arrive(r, k) ==
  /\ accepting /\ stage[r] = "idle"
  /\ key' = [key EXCEPT ![r] = k]
  /\ Goes(r, "arrived")
  /\ UNCHANGED <<file, status, lease, manager, guards>>

Answers(r) ==
  /\ Goes(r, "done") /\ Fails(r)
  /\ UNCHANGED <<key, file, lease, manager, guards>>

\* CapabilitiesRegistry.resolve
Unresolved(r) == stage[r] = "arrived" /\ key[r] = Unknown /\ Answers(r)

\* FileProcessor.prepare: the format, the size, the content, the number of pages.
BadDocument(r) == stage[r] = "arrived" /\ key[r] \in Keys /\ Answers(r)

\* A private file for a PDF; an image stays in memory.
WritePrivatePdf(r) == file' = [file EXCEPT ![r] = r \in Pdfs]

-----------------------------------------------------------------------------
(* ModelManager.acquire *)

\* OrderedDict.move_to_end
MoveToEnd(s, n) == Append(RemoveAt(s, n), s[n])

\* The cached pipeline becomes the most recently used, with one more lease.
Hit(r, n) ==
  /\ cache' = MoveToEnd(cache, n)
  /\ leases' = [leases EXCEPT ![cache[n]] = @ + 1]
  /\ lease' = [lease EXCEPT ![r] = cache[n]]
  /\ Goes(r, "leased")
  /\ UNCHANGED <<loadLock, pipeline, evicted, accepting, closer>>

\* The document is accepted, a PDF written to its file, and the cache looked at.
Acquire(r) ==
  /\ stage[r] = "arrived" /\ key[r] \in Keys
  /\ WritePrivatePdf(r)
  /\ \/ \E n \in Hits(key[r]) : Hit(r, n)
     \/ Hits(key[r]) = {} /\ Goes(r, "waiting") /\ UNCHANGED <<lease, manager>>
  /\ UNCHANGED <<key, status, guards>>

\* Another request may have loaded it while this one waited for the lock.
Again(r) == Hits(key[r])

LoadOrFind(r) ==
  /\ stage[r] = "waiting" /\ loadLock[key[r]] = Nobody
  /\ \/ \E n \in Again(r) : Hit(r, n)
     \/ /\ Again(r) = {}
        /\ loadLock' = [loadLock EXCEPT ![key[r]] = r]
        /\ Goes(r, "loading")
        /\ UNCHANGED <<lease, cache, pipeline, leases, evicted, accepting, closer>>
  /\ UNCHANGED <<key, file, status, guards>>

LoadFails(r) ==
  /\ stage[r] = "loading"
  /\ loadLock' = [loadLock EXCEPT ![key[r]] = Nobody]
  /\ Goes(r, "unlink") /\ Fails(r)
  /\ UNCHANGED <<key, file, lease, cache, pipeline, leases, evicted, accepting, closer, guards>>

\* Mutant: whatever leaves the cache is closed.
ReleasableAlways(i) == TRUE

\* An evicted pipeline is closed at once only when no request leases it.
Releasable(i) == leases[i] = 0

\* _insert_and_evict: one came in, so at most one goes, whether leased or not.
Loaded(r) ==
  /\ stage[r] = "loading"
  /\ leases' = [leases EXCEPT ![r] = 1]
  /\ lease' = [lease EXCEPT ![r] = r]
  /\ LET over == Len(cache) = CacheSize
         old == Head(cache)
     IN  /\ cache' = Append(IF over THEN Tail(cache) ELSE cache, r)
         /\ evicted' = IF over THEN [evicted EXCEPT ![old] = TRUE] ELSE evicted
         /\ IF over /\ Releasable(old)
            THEN /\ pipeline' = [pipeline EXCEPT ![r] = "open", ![old] = "closed"]
                 /\ Goes(r, "evicting") /\ UNCHANGED loadLock
            ELSE /\ pipeline' = [pipeline EXCEPT ![r] = "open"]
                 /\ Goes(r, "leased") /\ loadLock' = [loadLock EXCEPT ![key[r]] = Nobody]
  /\ UNCHANGED <<key, file, status, accepting, closer, guards>>

\* The thread that closed the evicted pipeline is back; only now is the load lock free.
EvictedClosed(r) ==
  /\ stage[r] = "evicting"
  /\ loadLock' = [loadLock EXCEPT ![key[r]] = Nobody]
  /\ Goes(r, "leased")
  /\ UNCHANGED <<key, file, status, lease, cache, pipeline, leases, evicted, accepting, closer, guards>>

-----------------------------------------------------------------------------
(* InferenceLimiter.run *)

TakeSlot(r) ==
  /\ stage[r] = "leased" /\ slots > 0
  /\ slots' = slots - 1
  /\ Goes(r, "slot")
  /\ UNCHANGED <<key, file, status, lease, manager, modelLock, used>>

TakeModel(r) ==
  /\ stage[r] = "slot" /\ modelLock[lease[r]] = Nobody
  /\ modelLock' = [modelLock EXCEPT ![lease[r]] = r]
  /\ used' = [used EXCEPT ![r] = lease[r]]
  /\ Goes(r, "running")
  /\ UNCHANGED <<key, file, status, lease, manager, slots>>

ReleaseGuards(r) ==
  /\ modelLock' = [modelLock EXCEPT ![used[r]] = Nobody]
  /\ slots' = slots + 1
  /\ used' = [used EXCEPT ![r] = NoModel]

Predicted(r) ==
  /\ stage[r] = "running"
  /\ \/ status' = [status EXCEPT ![r] = "ok"]
     \/ Fails(r)
  /\ ReleaseGuards(r)
  /\ Goes(r, "answered")
  /\ UNCHANGED <<key, file, lease, manager>>

\* Mutant: the guards are released at the timeout, while the thread goes on.
ReleasedAtTimeout(r) ==
  /\ modelLock' = [modelLock EXCEPT ![used[r]] = Nobody]
  /\ slots' = slots + 1
  /\ UNCHANGED used

\* The thread cannot be cancelled: it keeps both guards.
Deferred(r) == UNCHANGED guards

TimesOut(r) ==
  /\ stage[r] = "running"
  /\ Deferred(r)
  /\ Fails(r)
  /\ Goes(r, "answered")
  /\ UNCHANGED <<key, file, lease, manager>>

\* Mutant: the callback of the late thread gives back the lock, not the slot.
SlotLost(r) ==
  /\ modelLock' = [modelLock EXCEPT ![used[r]] = Nobody]
  /\ used' = [used EXCEPT ![r] = NoModel]
  /\ UNCHANGED slots

LateRelease(r) == ReleaseGuards(r)

\* _complete_timed_out_task
LateEnd(r) ==
  /\ used[r] # NoModel /\ stage[r] # "running"
  /\ LateRelease(r)
  /\ UNCHANGED <<stage, key, file, status, lease, manager>>

-----------------------------------------------------------------------------
(* The end of a request: its lease, then its file *)

\* Mutant: release forgets that the pipeline left the cache.
NeverLast(i) == FALSE

\* The last lease of an evicted pipeline closes it.
LastOfEvicted(i) == evicted[i] /\ leases[i] = 1

Release(r) ==
  /\ stage[r] = "answered"
  /\ LET i == lease[r] IN
       /\ leases' = [leases EXCEPT ![i] = @ - 1]
       /\ lease' = [lease EXCEPT ![r] = NoModel]
       /\ pipeline' = IF LastOfEvicted(i) THEN [pipeline EXCEPT ![i] = "closed"] ELSE pipeline
  /\ Goes(r, "unlink")
  /\ UNCHANGED <<key, file, status, cache, loadLock, evicted, accepting, closer, guards>>

\* inference_input removes the private file, whatever happened.
Finish(r) ==
  /\ stage[r] = "unlink"
  /\ file' = [file EXCEPT ![r] = FALSE]
  /\ Goes(r, "done")
  /\ UNCHANGED <<key, status, lease, manager, guards>>

-----------------------------------------------------------------------------
(* Shutdown: no request is at work, a thread that timed out may be *)

Quiet == \A r \in Requests : stage[r] \in {"idle", "done"}

Shutdown ==
  /\ Quiet /\ accepting
  /\ accepting' = FALSE
  /\ closer' = cache
  /\ cache' = <<>>
  /\ evicted' = [i \in Requests |-> evicted[i] \/ i \in Cached]
  /\ UNCHANGED <<stage, key, file, status, lease, loadLock, pipeline, leases, guards>>

CloseNext ==
  /\ closer # <<>>
  /\ closer' = Tail(closer)
  /\ pipeline' = IF leases[Head(closer)] = 0
                 THEN [pipeline EXCEPT ![Head(closer)] = "closed"] ELSE pipeline
  /\ UNCHANGED <<stage, key, file, status, lease, cache, loadLock, leases, evicted, accepting, guards>>

Works(r) ==
  \/ Unresolved(r) \/ BadDocument(r) \/ Acquire(r) \/ LoadOrFind(r) \/ LoadFails(r) \/ Loaded(r)
  \/ EvictedClosed(r) \/ TakeSlot(r) \/ TakeModel(r) \/ Predicted(r) \/ TimesOut(r)
  \/ Release(r) \/ Finish(r)

Next ==
  \/ Shutdown \/ CloseNext
  \/ \E r \in Requests : \/ \E k \in Asked : Arrive(r, k)
                         \/ Works(r) \/ LateEnd(r)

Spec == Init /\ [][Next]_service

-----------------------------------------------------------------------------
(* Properties *)

\* Every variable of the service has its type.
TypeOK ==
  /\ stage \in [Requests -> Stages]
  /\ key \in [Requests -> Asked]
  /\ file \in [Requests -> BOOLEAN]
  /\ status \in [Requests -> {"none", "ok", "failed"}]
  /\ lease \in [Requests -> Open] /\ used \in [Requests -> Open]
  /\ cache \in Seq(Requests) /\ closer \in Seq(Requests)
  /\ loadLock \in [Keys -> Requests \cup {Nobody}]
  /\ pipeline \in [Requests -> {"none", "open", "closed"}]
  /\ leases \in [Requests -> Nat]
  /\ evicted \in [Requests -> BOOLEAN]
  /\ modelLock \in [Requests -> Requests \cup {Nobody}]
  /\ slots \in 0..MaxInferences
  /\ accepting \in BOOLEAN

\* The counter active_leases counts the requests that lease the pipeline; while
\* there are any the pipeline is open, in the cache or evicted from it, and a
\* pipeline that can be leased again is open.
LeasedIsOpen ==
  /\ \A r \in Requests : lease[r] # NoModel => pipeline[lease[r]] = "open"
  /\ \A i \in Cached : pipeline[i] = "open" /\ ~evicted[i]
  /\ \A i \in Requests : leases[i] = Cardinality({r \in Requests : lease[r] = i})

\* One pipeline of a key is loaded or cached at a time, one thread predicts with
\* a pipeline at a time, and no more threads predict than the limit, those that
\* timed out included.
GuardsHold ==
  /\ \A i, j \in Cached : key[i] = key[j] => i = j
  /\ \A r \in Requests : stage[r] = "loading" => Hits(key[r]) = {}
  /\ \A r, q \in Requests : r # q /\ used[r] # NoModel => used[r] # used[q]
  /\ Cardinality({r \in Requests : used[r] # NoModel}) <= MaxInferences

\* When no request is at work and no thread predicts, every slot and lock is
\* free, no private file is left, and the open pipelines are the cached ones.
NothingLeftBehind ==
  (Quiet /\ closer = <<>> /\ \A r \in Requests : used[r] = NoModel) =>
    /\ slots = MaxInferences
    /\ \A i \in Requests : modelLock[i] = Nobody /\ ~file[i]
    /\ \A k \in Keys : loadLock[k] = Nobody
    /\ \A i \in Requests : pipeline[i] = "open" <=> i \in Cached

\* What the comment of the limiter promises of a request that timed out: no one
\* touches its pipeline, to predict or to close it, while its thread goes on.
NeverUsedConcurrently ==
  \A r \in Requests : used[r] # NoModel => pipeline[used[r]] = "open"

=============================================================================
