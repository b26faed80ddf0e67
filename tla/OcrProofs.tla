------------------------------ MODULE OcrProofs ------------------------------
(***************************************************************************)
(* Theorems of OcrService and OcrCalls, for every value of their constants.*)
(*                                                                         *)
(* First what moving a pipeline to the end of the cache does to it, and    *)
(* how the two counters (active_leases, the limiter's semaphore) follow    *)
(* the sets they count.  Then the inductive invariant in six parts, each   *)
(* with a lemma that goes through the handlers, and the theorems.          *)
(***************************************************************************)
EXTENDS OcrCalls, FiniteSetTheorems, SequenceTheorems, TLAPS

-----------------------------------------------------------------------------
(* Sequences and counts.                                                   *)

Elements(s) == {s[n] : n \in 1..Len(s)}

Distinct(s) == \A m, n \in 1..Len(s) : s[m] = s[n] => m = n

LEMMA MovedToEnd ==
  ASSUME NEW S, NEW s \in Seq(S), NEW n \in 1..Len(s)
  PROVE  /\ MoveToEnd(s, n) \in Seq(S) /\ Len(MoveToEnd(s, n)) = Len(s)
         /\ Elements(MoveToEnd(s, n)) = Elements(s)
         /\ Distinct(s) => Distinct(MoveToEnd(s, n))
<1> DEFINE t == MoveToEnd(s, n)
           front == SubSeq(s, 1, n - 1)
           back == SubSeq(s, n + 1, Len(s))
<1>0. Len(s) \in Nat /\ n \in Int /\ \A m \in 1..Len(s) : s[m] \in S
  BY LenProperties, ElementOfSeq
<1>1. /\ front \in Seq(S) /\ Len(front) = n - 1
      /\ \A m \in 1..n - 1 : front[m] = s[m]
  BY <1>0, SubSeqProperties
<1>2. /\ back \in Seq(S) /\ Len(back) = Len(s) - n
      /\ \A m \in 1..Len(s) - n : back[m] = s[n + m]
  BY <1>0, SubSeqProperties
<1> HIDE DEF front, back
<1>3. /\ front \o back \in Seq(S) /\ Len(front \o back) = Len(s) - 1
      /\ \A m \in 1..Len(s) - 1 : (front \o back)[m] = IF m < n THEN s[m] ELSE s[m + 1]
  <2>1. /\ front \o back \in Seq(S) /\ Len(front \o back) = Len(front) + Len(back)
        /\ \A m \in 1..Len(front) + Len(back) :
             (front \o back)[m] = IF m <= Len(front) THEN front[m] ELSE back[m - Len(front)]
    BY <1>1, <1>2, ConcatProperties
  <2>2. ASSUME NEW m \in 1..Len(s) - 1
        PROVE  (front \o back)[m] = IF m < n THEN s[m] ELSE s[m + 1]
    <3>1. (front \o back)[m] = IF m <= n - 1 THEN front[m] ELSE back[m - (n - 1)]
      BY <1>0, <1>1, <1>2, <2>1
    <3>2. CASE m < n
      BY <1>0, <1>1, <3>1, <3>2
    <3>3. CASE ~(m < n)
      <4>1. m - (n - 1) \in 1..Len(s) - n /\ n + (m - (n - 1)) = m + 1
        BY <1>0, <3>3
      <4> QED BY <1>0, <1>2, <3>1, <3>3, <4>1
    <3> QED BY <3>2, <3>3
  <2> QED BY <1>0, <1>1, <1>2, <2>1, <2>2
<1>4. t = Append(front \o back, s[n])
  BY DEF MoveToEnd, RemoveAt, front, back
<1> HIDE DEF t
<1>5. /\ t \in Seq(S) /\ Len(t) = Len(s)
      /\ \A m \in 1..Len(s) :
           t[m] = IF m < n THEN s[m] ELSE IF m < Len(s) THEN s[m + 1] ELSE s[n]
  <2>1. /\ t \in Seq(S) /\ Len(t) = (Len(s) - 1) + 1
        /\ \A m \in 1..Len(s) - 1 : t[m] = (front \o back)[m]
        /\ t[(Len(s) - 1) + 1] = s[n]
    BY <1>0, <1>3, <1>4, AppendProperties
  <2>2. ASSUME NEW m \in 1..Len(s)
        PROVE  t[m] = IF m < n THEN s[m] ELSE IF m < Len(s) THEN s[m + 1] ELSE s[n]
    <3>1. CASE m < Len(s)
      <4>1. m \in 1..Len(s) - 1
        BY <1>0, <3>1
      <4>2. t[m] = IF m < n THEN s[m] ELSE s[m + 1]
        BY <1>3, <2>1, <4>1
      <4> QED BY <3>1, <4>2
    <3>2. CASE ~(m < Len(s))
      <4>1. m = (Len(s) - 1) + 1
        BY <1>0, <3>2
      <4> QED BY <1>0, <2>1, <3>2, <4>1
    <3> QED BY <3>1, <3>2
  <2> QED BY <1>0, <2>1, <2>2
<1>6. Elements(t) = Elements(s)
  <2>1. ASSUME NEW m \in 1..Len(s) PROVE t[m] \in Elements(s)
    <3>1. m < Len(s) => m + 1 \in 1..Len(s)
      BY <1>0
    <3> QED BY <1>5, <3>1 DEF Elements
  <2>2. ASSUME NEW m \in 1..Len(s) PROVE s[m] \in Elements(t)
    <3>1. CASE m < n
      BY <1>5, <3>1 DEF Elements
    <3>2. CASE m = n
      <4>1. Len(s) \in 1..Len(s) /\ t[Len(s)] = s[m]
        BY <1>0, <1>5, <3>2
      <4> QED BY <1>5, <4>1 DEF Elements
    <3>3. CASE m > n
      <4>1. m - 1 \in 1..Len(s) /\ ~(m - 1 < n) /\ m - 1 < Len(s) /\ (m - 1) + 1 = m
        BY <1>0, <3>3
      <4>2. t[m - 1] = s[m]
        BY <1>5, <4>1
      <4> QED BY <1>5, <4>1, <4>2 DEF Elements
    <3> QED BY <3>1, <3>2, <3>3
  <2> QED BY <1>5, <2>1, <2>2 DEF Elements
<1>7. Distinct(s) => Distinct(t)
  <2> SUFFICES ASSUME Distinct(s), NEW i \in 1..Len(t), NEW j \in 1..Len(t), t[i] = t[j]
               PROVE  i = j
    BY DEF Distinct
  <2> DEFINE from(m) == IF m < n THEN m ELSE IF m < Len(s) THEN m + 1 ELSE n
  <2>1. /\ from(i) \in 1..Len(s) /\ from(j) \in 1..Len(s)
        /\ t[i] = s[from(i)] /\ t[j] = s[from(j)]
    BY <1>0, <1>5
  <2>2. from(i) = from(j)
    BY <2>1 DEF Distinct
  <2> QED BY <1>0, <1>5, <2>2
<1> QED BY <1>5, <1>6, <1>7 DEF t

\* A new element at the end, after the first one has or has not left.
LEMMA AppendNew ==
  ASSUME NEW S, NEW s \in Seq(S), NEW e \in S
  PROVE  /\ Append(s, e) \in Seq(S) /\ Len(Append(s, e)) = Len(s) + 1
         /\ Elements(Append(s, e)) = Elements(s) \cup {e}
         /\ Distinct(s) /\ e \notin Elements(s) => Distinct(Append(s, e))
<1>1. /\ Append(s, e) \in Seq(S) /\ Len(Append(s, e)) = Len(s) + 1
      /\ \A m \in 1..Len(s) + 1 : Append(s, e)[m] = IF m = Len(s) + 1 THEN e ELSE s[m]
  BY LenProperties, AppendProperties
<1>2. Elements(Append(s, e)) = Elements(s) \cup {e}
  BY <1>1 DEF Elements
<1>3. Distinct(s) /\ e \notin Elements(s) => Distinct(Append(s, e))
  BY <1>1 DEF Distinct, Elements
<1> QED BY <1>1, <1>2, <1>3

LEMMA TailLosesHead ==
  ASSUME NEW S, NEW s \in Seq(S), s # <<>>
  PROVE  /\ Tail(s) \in Seq(S) /\ Len(Tail(s)) = Len(s) - 1 /\ Head(s) \in Elements(s)
         /\ Elements(s) = Elements(Tail(s)) \cup {Head(s)}
         /\ Distinct(s) => Distinct(Tail(s)) /\ Head(s) \notin Elements(Tail(s))
<1>1. /\ Tail(s) \in Seq(S) /\ Len(Tail(s)) = Len(s) - 1 /\ Head(s) = s[1] /\ Len(s) >= 1
      /\ \A m \in 1..Len(s) - 1 : Tail(s)[m] = s[m + 1]
  OBVIOUS
<1>2. Elements(s) = Elements(Tail(s)) \cup {Head(s)}
  <2>1. ASSUME NEW m \in 1..Len(s) PROVE s[m] \in Elements(Tail(s)) \cup {Head(s)}
    <3>1. CASE m = 1
      BY <1>1, <3>1
    <3>2. CASE m # 1
      <4>1. m - 1 \in 1..Len(s) - 1 /\ Tail(s)[m - 1] = s[m]
        BY <1>1, <3>2
      <4> QED BY <1>1, <4>1 DEF Elements
    <3> QED BY <3>1, <3>2
  <2>2. ASSUME NEW m \in 1..Len(s) - 1 PROVE Tail(s)[m] \in Elements(s)
    BY <1>1, m + 1 \in 1..Len(s) DEF Elements
  <2>3. Head(s) \in Elements(s)
    BY <1>1, 1 \in 1..Len(s) DEF Elements
  <2> QED BY <1>1, <2>1, <2>2, <2>3 DEF Elements
<1>3. Distinct(s) => Distinct(Tail(s)) /\ Head(s) \notin Elements(Tail(s))
  BY <1>1 DEF Distinct, Elements
<1> QED BY <1>1, <1>2, <1>3

\* A set of requests grows or shrinks by one.
LEMMA CountOne ==
  ASSUME NEW A \in SUBSET Requests, NEW r \in Requests
  PROVE  /\ IsFiniteSet(A) /\ Cardinality(A) \in Nat
         /\ r \notin A => Cardinality(A \cup {r}) = Cardinality(A) + 1
         /\ r \in A => Cardinality(A \ {r}) = Cardinality(A) - 1 /\ Cardinality(A) >= 1
         /\ Cardinality(A) = 0 <=> A = {}
<1>1. IsFiniteSet(A) /\ Cardinality(A) \in Nat
  BY FiniteAssumption, FS_Subset, FS_CardinalityType
<1>2. r \notin A => Cardinality(A \cup {r}) = Cardinality(A) + 1
  BY <1>1, FS_AddElement
<1>3. r \in A => Cardinality(A \ {r}) = Cardinality(A) - 1
  BY <1>1, FS_RemoveElement
<1>4. Cardinality(A) = 0 <=> A = {}
  BY <1>1, FS_EmptySet
<1>5. r \in A => Cardinality(A) >= 1
  BY <1>1, <1>4
<1> QED BY <1>1, <1>2, <1>3, <1>4, <1>5

-----------------------------------------------------------------------------
(* The inductive invariant.                                                *)

\* What a request holds, by the stage it is at.
StageOrder ==
  \A r \in Requests :
    /\ lease[r] # NoModel <=> stage[r] \in {"evicting", "leased", "slot", "running", "answered"}
    /\ used[r] # NoModel => stage[r] \in {"running", "answered", "unlink", "done"}
    /\ stage[r] = "running" => used[r] = lease[r]
    /\ pipeline[r] # "none" => stage[r] \notin {"idle", "arrived", "waiting", "loading"}
    /\ stage[r] \notin {"idle", "arrived", "unlink", "done"} => key[r] \in Keys
    /\ file[r] => stage[r] \notin {"idle", "arrived", "done"}

\* active_leases counts, and what is leased or can be is open.
LeaseOrder ==
  /\ \A r \in Requests : lease[r] # NoModel => pipeline[lease[r]] = "open"
  /\ \A i \in Cached : pipeline[i] = "open" /\ ~evicted[i]
  /\ \A i \in Requests : leases[i] = Cardinality({r \in Requests : lease[r] = i})

\* The cache keeps to its size, and a pipeline that left it open will be closed:
\* by its last request, or by the shutdown.
CacheOrder ==
  /\ Len(cache) <= CacheSize
  /\ Distinct(cache)
  /\ \A i \in Requests : evicted[i] => pipeline[i] # "none"
  /\ \A i \in Requests : pipeline[i] = "open" /\ i \notin Cached =>
       evicted[i] /\ (leases[i] > 0 \/ i \in Elements(closer))
  /\ ~accepting => Quiet /\ cache = <<>>
  /\ accepting => closer = <<>>
  /\ \A i \in Elements(closer) : pipeline[i] # "none"

\* A key is loaded, or in the cache, once.
KeyOrder ==
  /\ \A i, j \in Cached : key[i] = key[j] => i = j
  /\ \A r \in Requests : stage[r] = "loading" => \A i \in Cached : key[i] # key[r]
  /\ \A r \in Requests : stage[r] \in {"loading", "evicting"} => loadLock[key[r]] = r
  /\ \A k \in Keys : loadLock[k] # Nobody =>
       key[loadLock[k]] = k /\ stage[loadLock[k]] \in {"loading", "evicting"}

\* The lock of a pipeline is held by the request whose thread predicts with it.
LockOrder ==
  /\ \A r \in Requests : used[r] # NoModel => modelLock[used[r]] = r
  /\ \A i \in Requests : modelLock[i] # Nobody => used[modelLock[i]] = i

\* Who has taken a slot and not given it back, a thread that timed out included.
Holding == {r \in Requests : stage[r] = "slot" \/ used[r] # NoModel}

SlotOrder == slots = MaxInferences - Cardinality(Holding)

ServiceInvariant ==
  TypeOK /\ StageOrder /\ LeaseOrder /\ CacheOrder /\ KeyOrder /\ LockOrder /\ SlotOrder

LEMMA Sizes ==
  /\ CacheSize \in Nat /\ CacheSize >= 1 /\ MaxInferences \in Nat /\ MaxInferences >= 1
  /\ NoModel \notin Requests /\ Nobody \notin Requests /\ Unknown \notin Keys
BY SizesAssumption, NamesAssumption, KeysAssumption

\* What a hit does to the cache: its pipelines are the same.
LEMMA HitCache ==
  ASSUME TypeOK, NEW r \in Requests, NEW n \in 1..Len(cache), Hit(r, n)
  PROVE  /\ cache' \in Seq(Requests) /\ Len(cache') = Len(cache) /\ cache[n] \in Requests
         /\ cache[n] \in Cached /\ Cached' = Cached
         /\ Distinct(cache) => Distinct(cache')
<1>1. /\ cache' \in Seq(Requests) /\ Len(cache') = Len(cache)
      /\ Elements(cache') = Elements(cache)
      /\ Distinct(cache) => Distinct(cache')
  BY MovedToEnd DEF Hit, TypeOK
<1>2. cache[n] \in Requests
  BY ElementOfSeq DEF TypeOK
<1> QED BY <1>1, <1>2 DEF Cached, Elements

\* What a loaded pipeline does to it: one comes in, and the oldest may go.
LEMMA LoadedCache ==
  ASSUME ServiceInvariant, NEW r \in Requests, Loaded(r)
  PROVE  /\ cache' \in Seq(Requests) /\ Len(cache') <= CacheSize /\ Distinct(cache')
         /\ r \notin Cached
         /\ \/ Len(cache) # CacheSize /\ Cached' = Cached \cup {r}
            \/ /\ Len(cache) = CacheSize /\ Head(cache) \in Cached /\ Head(cache) \in Requests
               /\ Head(cache) # r
               /\ Cached' = (Cached \ {Head(cache)}) \cup {r}
<1>1. /\ cache \in Seq(Requests) /\ Distinct(cache) /\ Len(cache) <= CacheSize /\ Len(cache) \in Nat
      /\ Cached = Elements(cache) /\ Cached' = Elements(cache')
  BY LenProperties DEF ServiceInvariant, TypeOK, CacheOrder, Cached, Elements
<1>2. r \notin Cached
  BY DEF Loaded, ServiceInvariant, LeaseOrder, StageOrder
<1>3. CASE Len(cache) # CacheSize
  <2>1. cache' = Append(cache, r)
    BY <1>3 DEF Loaded
  <2> QED BY <1>1, <1>2, <1>3, <2>1, AppendNew, Sizes
<1>4. CASE Len(cache) = CacheSize
  <2>1. cache # <<>>
    BY <1>4, Sizes, EmptySeq
  <2>2. cache' = Append(Tail(cache), r)
    BY <1>4 DEF Loaded
  <2>3. /\ Tail(cache) \in Seq(Requests) /\ Len(Tail(cache)) = Len(cache) - 1
        /\ Head(cache) \in Elements(cache)
        /\ Elements(cache) = Elements(Tail(cache)) \cup {Head(cache)}
        /\ Distinct(Tail(cache)) /\ Head(cache) \notin Elements(Tail(cache))
    BY <1>1, <2>1, TailLosesHead
  <2>4. Head(cache) \in Requests
    BY <1>1, <2>1, HeadTailProperties
  <2>5. r \notin Elements(Tail(cache)) /\ Head(cache) # r
    BY <1>1, <1>2, <2>3
  <2>6. /\ cache' \in Seq(Requests) /\ Len(cache') = Len(Tail(cache)) + 1
        /\ Elements(cache') = Elements(Tail(cache)) \cup {r} /\ Distinct(cache')
    <3> DEFINE rest == Tail(cache)
    <3>0. rest \in Seq(Requests) /\ Distinct(rest) /\ r \notin Elements(rest)
      BY <2>3, <2>5
    <3> HIDE DEF rest
    <3>1. /\ Append(rest, r) \in Seq(Requests) /\ Len(Append(rest, r)) = Len(rest) + 1
          /\ Elements(Append(rest, r)) = Elements(rest) \cup {r} /\ Distinct(Append(rest, r))
      BY <3>0, AppendNew
    <3> QED BY <2>2, <3>1 DEF rest
  <2> QED BY <1>1, <1>2, <1>4, <2>3, <2>4, <2>5, <2>6
<1> QED BY <1>3, <1>4

-----------------------------------------------------------------------------
(* Types.                                                                  *)

LEMMA TypeStep ==
  ASSUME ServiceInvariant, Next
  PROVE  TypeOK'
<1> USE Sizes DEF TypeOK, Goes, Fails, manager, guards, Open, Asked, Stages
<1>0. TypeOK
  BY DEF ServiceInvariant
<1>1. CASE \E r \in Requests, k \in Asked : Arrive(r, k)
  BY <1>0, <1>1 DEF Arrive
<1>2. CASE \E r \in Requests : Unresolved(r) \/ BadDocument(r)
  BY <1>0, <1>2 DEF Unresolved, BadDocument, Answers
<1>3. ASSUME NEW r \in Requests, NEW n \in 1..Len(cache), Hit(r, n), key' = key, status' = status,
             file' \in [Requests -> BOOLEAN], UNCHANGED guards
      PROVE  TypeOK'
  <2>1. cache' \in Seq(Requests) /\ cache[n] \in Requests
    BY <1>0, <1>3, HitCache
  <2> QED BY <1>0, <1>3, <2>1, SMTT(20) DEF Hit
<1>4. CASE \E r \in Requests : Acquire(r)
  <2>1. PICK r \in Requests : Acquire(r)
    BY <1>4
  <2>2. file' \in [Requests -> BOOLEAN]
    BY <1>0, <2>1 DEF Acquire, WritePrivatePdf
  <2>3. CASE \E n \in Hits(key[r]) : Hit(r, n)
    BY <1>3, <2>1, <2>2, <2>3 DEF Acquire, Hits
  <2>4. CASE Hits(key[r]) = {} /\ Goes(r, "waiting") /\ UNCHANGED <<lease, manager>>
    BY <1>0, <2>1, <2>2, <2>4 DEF Acquire
  <2> QED BY <2>1, <2>3, <2>4 DEF Acquire
<1>5. CASE \E r \in Requests : LoadOrFind(r)
  <2>1. PICK r \in Requests : LoadOrFind(r)
    BY <1>5
  <2>2. CASE \E n \in Again(r) : Hit(r, n)
    BY <1>0, <1>3, <2>1, <2>2 DEF LoadOrFind, Again, Hits
  <2>3. CASE ~ \E n \in Again(r) : Hit(r, n)
    <3>1. key[r] \in Keys
      BY <1>0, <2>1 DEF LoadOrFind, ServiceInvariant, StageOrder
    <3>2. /\ loadLock' = [loadLock EXCEPT ![key[r]] = r] /\ stage' = [stage EXCEPT ![r] = "loading"]
          /\ UNCHANGED <<key, file, status, lease, cache, pipeline, leases, evicted, accepting,
                         closer, used, modelLock, slots>>
      BY <2>1, <2>3 DEF LoadOrFind
    <3> QED BY <1>0, <3>1, <3>2
  <2> QED BY <2>2, <2>3
<1>6. CASE \E r \in Requests : LoadFails(r) \/ EvictedClosed(r)
  <2>1. PICK r \in Requests : LoadFails(r) \/ EvictedClosed(r)
    BY <1>6
  <2>2. key[r] \in Keys
    BY <1>0, <2>1 DEF LoadFails, EvictedClosed, ServiceInvariant, StageOrder
  <2> QED BY <1>0, <2>1, <2>2 DEF LoadFails, EvictedClosed
<1>7. CASE \E r \in Requests : Loaded(r)
  <2>1. PICK r \in Requests : Loaded(r)
    BY <1>7
  <2>2. cache' \in Seq(Requests) /\ (Len(cache) = CacheSize => Head(cache) \in Requests)
    BY <2>1, LoadedCache
  <2> QED BY <1>0, <2>1, <2>2 DEF Loaded
<1>8. CASE \E r \in Requests : TakeSlot(r)
  BY <1>0, <1>8 DEF TakeSlot
<1>9. CASE \E r \in Requests : TakeModel(r)
  <2>1. PICK r \in Requests : TakeModel(r)
    BY <1>9
  <2>2. lease[r] \in Requests
    BY <1>0, <2>1 DEF TakeModel, ServiceInvariant, StageOrder
  <2>3. /\ modelLock' = [modelLock EXCEPT ![lease[r]] = r] /\ used' = [used EXCEPT ![r] = lease[r]]
        /\ stage' = [stage EXCEPT ![r] = "running"]
        /\ UNCHANGED <<key, file, status, lease, cache, loadLock, pipeline, leases, evicted,
                       accepting, closer, slots>>
    BY <2>1 DEF TakeModel
  <2> QED BY <1>0, <2>2, <2>3
<1>15. CASE \E r \in Requests : TimesOut(r)
  BY <1>0, <1>15 DEF TimesOut, Deferred
<1>10. CASE \E r \in Requests : Predicted(r) \/ LateEnd(r)
  <2>1. PICK r \in Requests : Predicted(r) \/ LateEnd(r)
    BY <1>10
  <2>2. r \in Holding
    BY <2>1, <1>0 DEF Predicted, LateEnd, Holding, ServiceInvariant, StageOrder
  <2>3. Cardinality(Holding) >= 1 /\ Cardinality(Holding) \in Nat
    BY <2>2, CountOne DEF Holding
  <2>4. slots + 1 \in 0..MaxInferences
    BY <1>0, <2>3 DEF ServiceInvariant, SlotOrder
  <2>5. used[r] \in Requests
    BY <2>1, <1>0 DEF Predicted, LateEnd, ServiceInvariant, StageOrder
  <2> QED BY <1>0, <2>1, <2>4, <2>5 DEF Predicted, LateEnd, LateRelease, ReleaseGuards
<1>11. CASE \E r \in Requests : Release(r)
  <2>1. PICK r \in Requests : Release(r)
    BY <1>11
  <2>2. lease[r] \in Requests
    BY <1>0, <2>1 DEF Release, ServiceInvariant, StageOrder
  <2>3. leases[lease[r]] >= 1
    <3>1. r \in {q \in Requests : lease[q] = lease[r]}
      OBVIOUS
    <3>2. Cardinality({q \in Requests : lease[q] = lease[r]}) >= 1
      BY <3>1, CountOne
    <3> QED BY <2>2, <3>2 DEF ServiceInvariant, LeaseOrder
  <2> QED BY <1>0, <2>1, <2>2, <2>3 DEF Release
<1>12. CASE \E r \in Requests : Finish(r)
  BY <1>0, <1>12 DEF Finish
<1>13. CASE Shutdown
  <2>1. <<>> \in Seq(Requests)
    BY EmptySeq
  <2> QED BY <1>0, <1>13, <2>1 DEF Shutdown
<1>14. CASE CloseNext
  <2>1. Head(closer) \in Requests /\ Tail(closer) \in Seq(Requests)
    BY <1>0, <1>14, HeadTailProperties DEF CloseNext
  <2> QED BY <1>0, <1>14, <2>1 DEF CloseNext
<1> QED BY <1>1, <1>2, <1>4, <1>5, <1>6, <1>7, <1>8, <1>9, <1>15, <1>10, <1>11, <1>12, <1>13, <1>14
        DEF Next, Works

-----------------------------------------------------------------------------
(* What a request holds at its stage.                                      *)

LEMMA StageStep ==
  ASSUME ServiceInvariant, Next
  PROVE  StageOrder'
<1> USE Sizes DEF StageOrder, Goes, Fails, manager, guards
<1>0. /\ TypeOK /\ StageOrder
      /\ stage \in [Requests -> Stages] /\ key \in [Requests -> Asked]
      /\ file \in [Requests -> BOOLEAN]
      /\ lease \in [Requests -> Open] /\ used \in [Requests -> Open]
      /\ pipeline \in [Requests -> {"none", "open", "closed"}]
  BY DEF ServiceInvariant, TypeOK
<1>1. CASE \E r \in Requests, k \in Asked : Arrive(r, k)
  BY <1>0, <1>1 DEF Arrive
<1>2. CASE \E r \in Requests : Unresolved(r) \/ BadDocument(r)
  BY <1>0, <1>2 DEF Unresolved, BadDocument, Answers
<1>3. ASSUME NEW r \in Requests, NEW n \in 1..Len(cache), Hit(r, n), key' = key, used' = used,
             stage[r] \in {"arrived", "waiting"}, key[r] \in Keys,
             \A q \in Requests \ {r} : file'[q] = file[q]
      PROVE  StageOrder'
  <2>1. cache[n] \in Requests /\ cache[n] # NoModel
    BY <1>0, <1>3, HitCache
  <2> QED BY <1>0, <1>3, <2>1 DEF Hit
<1>4. CASE \E r \in Requests : Acquire(r)
  <2>1. PICK r \in Requests : Acquire(r)
    BY <1>4
  <2>2. CASE \E n \in Hits(key[r]) : Hit(r, n)
    BY <1>0, <1>3, <2>1, <2>2 DEF Acquire, Hits, WritePrivatePdf
  <2>3. CASE Hits(key[r]) = {} /\ Goes(r, "waiting") /\ UNCHANGED <<lease, manager>>
    BY <1>0, <2>1, <2>3 DEF Acquire, WritePrivatePdf
  <2> QED BY <2>1, <2>2, <2>3 DEF Acquire
<1>5. CASE \E r \in Requests : LoadOrFind(r)
  <2>1. PICK r \in Requests : LoadOrFind(r)
    BY <1>5
  <2>2. CASE \E n \in Again(r) : Hit(r, n)
    BY <1>0, <1>3, <2>1, <2>2 DEF LoadOrFind, Again, Hits
  <2>3. CASE ~ \E n \in Again(r) : Hit(r, n)
    BY <1>0, <2>1, <2>3 DEF LoadOrFind
  <2> QED BY <2>2, <2>3
<1>6. CASE \E r \in Requests : LoadFails(r) \/ EvictedClosed(r)
  BY <1>0, <1>6 DEF LoadFails, EvictedClosed
<1>7. CASE \E r \in Requests : Loaded(r)
  <2>1. PICK r \in Requests : Loaded(r)
    BY <1>7
  <2>2. /\ stage[r] = "loading" /\ key' = key /\ file' = file /\ used' = used
        /\ lease' = [lease EXCEPT ![r] = r]
        /\ \/ stage' = [stage EXCEPT ![r] = "evicting"]
           \/ stage' = [stage EXCEPT ![r] = "leased"]
    BY <2>1 DEF Loaded
  <2>3. \A i \in Requests \ {r} : pipeline'[i] # "none" => pipeline[i] # "none"
    <3>1. Len(cache) = CacheSize => pipeline[Head(cache)] = "open"
      BY <2>1, LoadedCache DEF ServiceInvariant, LeaseOrder
    <3> QED BY <1>0, <2>1, <3>1 DEF Loaded
  <2> QED BY <1>0, <2>2, <2>3
<1>8. CASE \E r \in Requests : TakeSlot(r)
  BY <1>0, <1>8 DEF TakeSlot
<1>9. CASE \E r \in Requests : TakeModel(r)
  BY <1>0, <1>9 DEF TakeModel
<1>10. CASE \E r \in Requests : TimesOut(r)
  BY <1>0, <1>10 DEF TimesOut, Deferred
<1>11. CASE \E r \in Requests : Predicted(r) \/ LateEnd(r)
  BY <1>0, <1>11 DEF Predicted, LateEnd, LateRelease, ReleaseGuards
<1>12. CASE \E r \in Requests : Release(r)
  <2>1. PICK r \in Requests : Release(r)
    BY <1>12
  <2>2. lease[r] \in Requests /\ pipeline[lease[r]] = "open"
    BY <1>0, <2>1 DEF Release, ServiceInvariant, LeaseOrder, Open
  <2> QED BY <1>0, <2>1, <2>2 DEF Release
<1>13. CASE \E r \in Requests : Finish(r)
  BY <1>0, <1>13 DEF Finish
<1>14. CASE Shutdown
  BY <1>0, <1>14 DEF Shutdown
<1>15. CASE CloseNext
  <2>1. Head(closer) \in Requests /\ pipeline[Head(closer)] # "none"
    BY <1>15, HeadTailProperties, TailLosesHead DEF CloseNext, ServiceInvariant, TypeOK, CacheOrder
  <2> QED BY <1>0, <1>15, <2>1 DEF CloseNext
<1> QED BY <1>1, <1>2, <1>4, <1>5, <1>6, <1>7, <1>8, <1>9, <1>10, <1>11, <1>12, <1>13, <1>14, <1>15
        DEF Next, Works

-----------------------------------------------------------------------------
(* The leases and the cache.                                               *)

\* The steps that touch a pipeline, its leases or the cache.
LEMMA ManagerSteps ==
  ASSUME Next
  PROVE  \/ UNCHANGED <<lease, cache, pipeline, leases, evicted, closer>>
         \/ \E r \in Requests : /\ stage[r] \in {"arrived", "waiting"}
                                /\ \E n \in 1..Len(cache) : Hit(r, n)
         \/ \E r \in Requests : Loaded(r)
         \/ \E r \in Requests : Release(r)
         \/ Shutdown
         \/ CloseNext
<1> USE DEF manager
<1>1. ASSUME NEW r \in Requests, Acquire(r) \/ LoadOrFind(r)
      PROVE  \/ UNCHANGED <<lease, cache, pipeline, leases, evicted, closer>>
             \/ /\ stage[r] \in {"arrived", "waiting"}
                /\ \E n \in 1..Len(cache) : Hit(r, n)
  BY <1>1 DEF Acquire, LoadOrFind, Again, Hits
<1> QED BY <1>1 DEF Next, Works, Arrive, Unresolved, BadDocument, Answers, LoadFails, EvictedClosed,
                    TakeSlot, TakeModel, Predicted, TimesOut, LateEnd, Finish

\* After the shutdown no request is at work and nothing comes into the cache.
LEMMA StaysQuiet ==
  ASSUME ServiceInvariant, Next, ~accepting'
  PROVE  Quiet' /\ cache' = <<>>
<1>1. CASE accepting
  <2>1. Shutdown
    BY <1>1 DEF Next, Works, Arrive, Unresolved, BadDocument, Answers, Acquire, LoadOrFind, Hit,
                LoadFails, Loaded, EvictedClosed, TakeSlot, TakeModel, Predicted, TimesOut, LateEnd,
                Release, Finish, CloseNext, manager
  <2> QED BY <2>1 DEF Shutdown, Quiet
<1>2. CASE ~accepting
  <2>1. Quiet /\ cache = <<>>
    BY <1>2 DEF ServiceInvariant, CacheOrder
  <2>2. ASSUME NEW r \in Requests, Works(r)
        PROVE  FALSE
    BY <2>1, <2>2 DEF Quiet, Works, Unresolved, BadDocument, Acquire, LoadOrFind, LoadFails,
                      Loaded, EvictedClosed, TakeSlot, TakeModel, Predicted, TimesOut, Release, Finish
  <2>3. stage' = stage /\ cache' = cache
    BY <1>2, <2>2 DEF Next, Arrive, Shutdown, CloseNext, LateEnd, manager
  <2> QED BY <2>1, <2>3 DEF Quiet
<1> QED BY <1>1, <1>2

LEMMA LeaseStep ==
  ASSUME ServiceInvariant, Next
  PROVE  LeaseOrder'
<1> DEFINE lessees(i) == {r \in Requests : lease[r] = i}
<1>0. /\ TypeOK /\ LeaseOrder
      /\ lease \in [Requests -> Open] /\ leases \in [Requests -> Nat]
      /\ pipeline \in [Requests -> {"none", "open", "closed"}]
      /\ evicted \in [Requests -> BOOLEAN]
      /\ \A i \in Requests : leases[i] = Cardinality(lessees(i)) /\ lessees(i) \in SUBSET Requests
      /\ \A i \in Cached : i \in Requests
  BY ElementOfSeq DEF ServiceInvariant, TypeOK, LeaseOrder, Cached
<1>1. CASE UNCHANGED <<lease, cache, pipeline, leases, evicted, closer>>
  BY <1>0, <1>1 DEF LeaseOrder, Cached
<1>2. CASE \E r \in Requests : /\ stage[r] \in {"arrived", "waiting"}
                               /\ \E n \in 1..Len(cache) : Hit(r, n)
  <2>1. PICK r \in Requests, n \in 1..Len(cache) : stage[r] \in {"arrived", "waiting"} /\ Hit(r, n)
    BY <1>2
  <2> DEFINE i == cache[n]
  <2>2. i \in Cached /\ i \in Requests /\ Cached' = Cached
    BY <1>0, <2>1, HitCache
  <2>3. lease[r] = NoModel
    BY <2>1 DEF ServiceInvariant, StageOrder
  <2>4. /\ leases' = [leases EXCEPT ![i] = @ + 1] /\ lease' = [lease EXCEPT ![r] = i]
        /\ UNCHANGED <<pipeline, evicted>>
    BY <2>1 DEF Hit
  <2> HIDE DEF i
  <2>5. ASSUME NEW j \in Requests
        PROVE  leases'[j] = Cardinality({q \in Requests : lease'[q] = j})
    <3>1. CASE j = i
      <4>1. {q \in Requests : lease'[q] = i} = lessees(i) \cup {r} /\ r \notin lessees(i)
        BY <1>0, <2>2, <2>3, <2>4, Sizes
      <4>2. Cardinality(lessees(i) \cup {r}) = Cardinality(lessees(i)) + 1
        BY <1>0, <2>2, <4>1, CountOne
      <4> QED BY <1>0, <2>2, <2>4, <3>1, <4>1, <4>2
    <3>2. CASE j # i
      <4>1. {q \in Requests : lease'[q] = j} = lessees(j)
        BY <1>0, <2>3, <2>4, <3>2, Sizes
      <4> QED BY <1>0, <2>2, <2>4, <3>2, <4>1
    <3> QED BY <3>1, <3>2
  <2> QED BY <1>0, <2>2, <2>4, <2>5 DEF LeaseOrder
<1>3. CASE \E r \in Requests : Loaded(r)
  <2>1. PICK r \in Requests : Loaded(r)
    BY <1>3
  <2> DEFINE old == Head(cache)
  <2>2. lease[r] = NoModel /\ pipeline[r] = "none" /\ ~evicted[r]
    BY <1>0, <2>1 DEF Loaded, ServiceInvariant, StageOrder, CacheOrder
  <2>3. /\ leases' = [leases EXCEPT ![r] = 1] /\ lease' = [lease EXCEPT ![r] = r]
        /\ \/ /\ pipeline' = [pipeline EXCEPT ![r] = "open"] /\ evicted' = evicted
              /\ Cached' = Cached \cup {r}
           \/ /\ old \in Requests /\ old # r
              /\ pipeline' = [pipeline EXCEPT ![r] = "open", ![old] = "closed"]
              /\ leases[old] = 0
              /\ evicted' = [evicted EXCEPT ![old] = TRUE]
              /\ Cached' = (Cached \ {old}) \cup {r}
           \/ /\ old \in Requests /\ old # r
              /\ pipeline' = [pipeline EXCEPT ![r] = "open"]
              /\ evicted' = [evicted EXCEPT ![old] = TRUE]
              /\ Cached' = (Cached \ {old}) \cup {r}
    <3>1. \/ Len(cache) # CacheSize /\ Cached' = Cached \cup {r}
          \/ /\ Len(cache) = CacheSize /\ old \in Requests /\ old # r
             /\ Cached' = (Cached \ {old}) \cup {r}
      BY <2>1, LoadedCache
    <3> QED BY <2>1, <3>1 DEF Loaded, Releasable
  <2> HIDE DEF old
  <2>4. lessees(r) = {}
    BY <1>0, <2>2, Sizes DEF LeaseOrder
  <2>5. ASSUME NEW j \in Requests
        PROVE  leases'[j] = Cardinality({q \in Requests : lease'[q] = j})
    <3>1. CASE j = r
      <4>1. {q \in Requests : lease'[q] = r} = lessees(r) \cup {r} /\ r \notin lessees(r)
        BY <1>0, <2>2, <2>3, Sizes
      <4>2. Cardinality(lessees(r) \cup {r}) = 0 + 1
        BY <1>0, <2>4, <4>1, CountOne
      <4> QED BY <1>0, <2>3, <3>1, <4>1, <4>2
    <3>2. CASE j # r
      <4>1. {q \in Requests : lease'[q] = j} = lessees(j)
        BY <1>0, <2>2, <2>3, <3>2, Sizes
      <4> QED BY <1>0, <2>3, <3>2, <4>1
    <3> QED BY <3>1, <3>2
  <2>6. ASSUME NEW q \in Requests, lease'[q] # NoModel
        PROVE  pipeline'[lease'[q]] = "open"
    <3>1. CASE q = r
      BY <1>0, <2>3, <3>1
    <3>2. CASE q # r
      <4>1. lease'[q] = lease[q] /\ lease[q] \in Requests /\ pipeline[lease[q]] = "open"
        BY <1>0, <2>3, <2>6, <3>2 DEF LeaseOrder, Open
      <4>2. leases[lease[q]] # 0
        <5>1. q \in lessees(lease[q])
          OBVIOUS
        <5> QED BY <1>0, <4>1, <5>1, CountOne
      <4> QED BY <1>0, <2>2, <2>3, <4>1, <4>2
    <3> QED BY <3>1, <3>2
  <2>7. \A j \in Cached' : pipeline'[j] = "open" /\ ~evicted'[j]
    BY <1>0, <2>2, <2>3 DEF LeaseOrder
  <2> QED BY <2>5, <2>6, <2>7 DEF LeaseOrder
<1>4. CASE \E r \in Requests : Release(r)
  <2>1. PICK r \in Requests : Release(r)
    BY <1>4
  <2> DEFINE i == lease[r]
  <2>2. i \in Requests /\ i # NoModel
    BY <1>0, <2>1, Sizes DEF Release, ServiceInvariant, StageOrder, Open
  <2>3. /\ leases' = [leases EXCEPT ![i] = @ - 1] /\ lease' = [lease EXCEPT ![r] = NoModel]
        /\ \/ pipeline' = pipeline
           \/ evicted[i] /\ leases[i] = 1 /\ pipeline' = [pipeline EXCEPT ![i] = "closed"]
        /\ evicted' = evicted /\ Cached' = Cached
    BY <2>1 DEF Release, LastOfEvicted, Cached
  <2>4. r \in lessees(i) /\ lease[r] = i
    OBVIOUS
  <2> HIDE DEF i
  <2>5. ASSUME NEW j \in Requests
        PROVE  leases'[j] = Cardinality({q \in Requests : lease'[q] = j})
    <3>1. CASE j = i
      <4>1. {q \in Requests : lease'[q] = i} = lessees(i) \ {r}
        BY <1>0, <2>2, <2>3, <2>4
      <4>2. Cardinality(lessees(i) \ {r}) = Cardinality(lessees(i)) - 1
        BY <1>0, <2>2, <2>4, CountOne
      <4> QED BY <1>0, <2>2, <2>3, <3>1, <4>1, <4>2
    <3>2. CASE j # i
      <4>1. {q \in Requests : lease'[q] = j} = lessees(j)
        BY <1>0, <2>3, <2>4, <3>2, Sizes
      <4> QED BY <1>0, <2>2, <2>3, <3>2, <4>1
    <3> QED BY <3>1, <3>2
  <2>6. ASSUME NEW q \in Requests, lease'[q] # NoModel
        PROVE  pipeline'[lease'[q]] = "open"
    <3>1. q # r /\ lease'[q] = lease[q] /\ lease[q] \in Requests /\ pipeline[lease[q]] = "open"
      BY <1>0, <2>3, <2>6 DEF LeaseOrder, Open
    <3>2. leases[i] = 1 => lease[q] # i
      <4> SUFFICES ASSUME leases[i] = 1, lease[q] = i PROVE FALSE
        OBVIOUS
      <4>1. q \in lessees(i) \ {r}
        BY <3>1
      <4>2. Cardinality(lessees(i) \ {r}) = 0
        <5>1. Cardinality(lessees(i)) = 1 /\ lessees(i) \in SUBSET Requests
          BY <1>0, <2>2
        <5>2. Cardinality(lessees(i) \ {r}) = Cardinality(lessees(i)) - 1
          BY <2>4, <5>1, CountOne
        <5> QED BY <5>1, <5>2
      <4>3. lessees(i) \ {r} = {}
        BY <1>0, <2>2, <4>2, CountOne
      <4> QED BY <4>1, <4>3
    <3> QED BY <1>0, <2>2, <2>3, <3>1, <3>2
  <2>7. \A j \in Cached' : pipeline'[j] = "open" /\ ~evicted'[j]
    BY <1>0, <2>2, <2>3 DEF LeaseOrder
  <2> QED BY <2>5, <2>6, <2>7 DEF LeaseOrder
<1>5. CASE Shutdown
  <2>1. Cached' = {}
    BY <1>5 DEF Shutdown, Cached
  <2> QED BY <1>0, <1>5, <2>1 DEF Shutdown, LeaseOrder
<1>6. CASE CloseNext
  <2> DEFINE i == Head(closer)
  <2>1. i \in Requests
    BY <1>6, HeadTailProperties DEF CloseNext, ServiceInvariant, TypeOK
  <2>2. /\ UNCHANGED <<lease, leases, evicted, cache>>
        /\ \/ pipeline' = pipeline
           \/ leases[i] = 0 /\ pipeline' = [pipeline EXCEPT ![i] = "closed"]
    BY <1>6 DEF CloseNext
  <2>3. Cached = {} /\ Cached' = {}
    BY <1>6, <2>2 DEF CloseNext, ServiceInvariant, CacheOrder, Cached
  <2> HIDE DEF i
  <2>4. ASSUME NEW q \in Requests, lease[q] # NoModel
        PROVE  pipeline'[lease[q]] = "open"
    <3>1. lease[q] \in Requests /\ pipeline[lease[q]] = "open"
      BY <1>0, <2>4 DEF LeaseOrder, Open
    <3>2. leases[lease[q]] # 0
      <4>1. q \in lessees(lease[q])
        OBVIOUS
      <4> QED BY <1>0, <3>1, <4>1, CountOne
    <3> QED BY <1>0, <2>1, <2>2, <3>1, <3>2
  <2> QED BY <1>0, <2>2, <2>3, <2>4 DEF LeaseOrder
<1> QED BY <1>1, <1>2, <1>3, <1>4, <1>5, <1>6, ManagerSteps

LEMMA CacheStep ==
  ASSUME ServiceInvariant, Next
  PROVE  CacheOrder'
<1>0. /\ TypeOK /\ CacheOrder /\ LeaseOrder
      /\ leases \in [Requests -> Nat]
      /\ pipeline \in [Requests -> {"none", "open", "closed"}]
      /\ evicted \in [Requests -> BOOLEAN]
      /\ cache \in Seq(Requests) /\ closer \in Seq(Requests)
      /\ Cached = Elements(cache)
      /\ \A i \in Cached : i \in Requests
  BY ElementOfSeq DEF ServiceInvariant, TypeOK, Cached, Elements
<1>1. ~accepting' => Quiet' /\ cache' = <<>>
  BY StaysQuiet
<1>2. CASE UNCHANGED <<lease, cache, pipeline, leases, evicted, closer>>
  <2>1. accepting' => accepting
    BY DEF Next, Works, Arrive, Unresolved, BadDocument, Answers, Acquire, LoadOrFind, Hit,
           LoadFails, Loaded, EvictedClosed, TakeSlot, TakeModel, Predicted, TimesOut, LateEnd,
           Release, Finish, CloseNext, Shutdown, manager
  <2> QED BY <1>0, <1>1, <1>2, <2>1 DEF CacheOrder, Cached, Elements, Distinct
<1>3. CASE \E r \in Requests : /\ stage[r] \in {"arrived", "waiting"}
                               /\ \E n \in 1..Len(cache) : Hit(r, n)
  <2>1. PICK r \in Requests, n \in 1..Len(cache) : Hit(r, n)
    BY <1>3
  <2>2. /\ Len(cache') = Len(cache) /\ Cached' = Cached /\ cache[n] \in Requests
        /\ Distinct(cache')
    BY <1>0, <2>1, HitCache DEF CacheOrder
  <2>3. /\ leases' = [leases EXCEPT ![cache[n]] = @ + 1]
        /\ UNCHANGED <<pipeline, evicted, closer, accepting>>
    BY <2>1 DEF Hit
  <2>4. \A i \in Requests : leases[i] > 0 => leases'[i] > 0
    BY <1>0, <2>2, <2>3
  <2> QED BY <1>0, <1>1, <2>2, <2>3, <2>4 DEF CacheOrder
<1>4. CASE \E r \in Requests : Loaded(r)
  <2>1. PICK r \in Requests : Loaded(r)
    BY <1>4
  <2> DEFINE old == Head(cache)
  <2>2. /\ Len(cache') <= CacheSize /\ Distinct(cache')
        /\ leases' = [leases EXCEPT ![r] = 1] /\ UNCHANGED <<closer, accepting>>
        /\ \/ /\ pipeline' = [pipeline EXCEPT ![r] = "open"] /\ evicted' = evicted
              /\ Cached' = Cached \cup {r}
           \/ /\ old \in Requests /\ old # r /\ pipeline[old] # "none"
              /\ pipeline' = [pipeline EXCEPT ![r] = "open", ![old] = "closed"]
              /\ evicted' = [evicted EXCEPT ![old] = TRUE]
              /\ Cached' = (Cached \ {old}) \cup {r}
           \/ /\ old \in Requests /\ old # r /\ pipeline[old] # "none" /\ leases[old] # 0
              /\ pipeline' = [pipeline EXCEPT ![r] = "open"]
              /\ evicted' = [evicted EXCEPT ![old] = TRUE]
              /\ Cached' = (Cached \ {old}) \cup {r}
    <3>1. \/ Len(cache) # CacheSize /\ Cached' = Cached \cup {r}
          \/ /\ Len(cache) = CacheSize /\ old \in Requests /\ old # r /\ old \in Cached
             /\ Cached' = (Cached \ {old}) \cup {r}
      BY <2>1, LoadedCache
    <3>2. old \in Cached => pipeline[old] # "none"
      BY <1>0 DEF LeaseOrder
    <3>3. Len(cache') <= CacheSize /\ Distinct(cache')
      BY <2>1, LoadedCache
    <3> QED BY <2>1, <3>1, <3>2, <3>3 DEF Loaded, Releasable
  <2> HIDE DEF old
  <2>3. \A i \in Requests : evicted'[i] => pipeline'[i] # "none"
    BY <1>0, <2>2 DEF CacheOrder
  <2>4. ASSUME NEW i \in Requests, pipeline'[i] = "open", i \notin Cached'
        PROVE  evicted'[i] /\ (leases'[i] > 0 \/ i \in Elements(closer))
    BY <1>0, <2>2, <2>4 DEF CacheOrder
  <2>5. \A i \in Elements(closer) : i \in Requests
    BY <1>0, ElementOfSeq DEF Elements
  <2>6. \A i \in Elements(closer) : pipeline'[i] # "none"
    BY <1>0, <2>2, <2>5 DEF CacheOrder
  <2> QED BY <1>0, <1>1, <2>2, <2>3, <2>4, <2>6 DEF CacheOrder
<1>5. CASE \E r \in Requests : Release(r)
  <2>1. PICK r \in Requests : Release(r)
    BY <1>5
  <2> DEFINE i == lease[r]
  <2>2. i \in Requests /\ pipeline[i] = "open"
    BY <2>1 DEF Release, ServiceInvariant, StageOrder, LeaseOrder, TypeOK, Open
  <2>3. /\ leases' = [leases EXCEPT ![i] = @ - 1] /\ UNCHANGED <<cache, evicted, closer, accepting>>
        /\ pipeline' = IF evicted[i] /\ leases[i] = 1 THEN [pipeline EXCEPT ![i] = "closed"] ELSE pipeline
        /\ Cached' = Cached
    BY <2>1 DEF Release, LastOfEvicted, Cached
  <2>4. leases[i] >= 1
    <3>1. r \in {q \in Requests : lease[q] = i}
      OBVIOUS
    <3>2. Cardinality({q \in Requests : lease[q] = i}) >= 1
      BY <3>1, CountOne
    <3> QED BY <1>0, <2>2, <3>2 DEF LeaseOrder
  <2> HIDE DEF i
  <2>5. ASSUME NEW j \in Requests, pipeline'[j] = "open", j \notin Cached
        PROVE  evicted[j] /\ (leases'[j] > 0 \/ j \in Elements(closer))
    BY <1>0, <2>2, <2>3, <2>4, <2>5 DEF CacheOrder
  <2>6. \A j \in Requests : pipeline[j] # "none" => pipeline'[j] # "none"
    BY <1>0, <2>2, <2>3
  <2>7. \A j \in Elements(closer) : j \in Requests
    BY <1>0, ElementOfSeq DEF Elements
  <2> QED BY <1>0, <1>1, <2>3, <2>5, <2>6, <2>7 DEF CacheOrder, Distinct
<1>6. CASE Shutdown
  <2>1. /\ cache' = <<>> /\ Cached' = {} /\ closer' = cache /\ closer = <<>>
        /\ evicted' = [i \in Requests |-> evicted[i] \/ i \in Cached]
        /\ UNCHANGED <<pipeline, leases>> /\ ~accepting'
    BY <1>0, <1>6 DEF Shutdown, Cached, CacheOrder
  <2>2. Elements(closer') = Cached /\ Elements(closer) = {}
    BY <1>0, <2>1 DEF Elements
  <2>3. Len(cache') <= CacheSize /\ Distinct(cache')
    BY <2>1, Sizes DEF Distinct
  <2> QED BY <1>0, <1>1, <2>1, <2>2, <2>3 DEF CacheOrder, LeaseOrder
<1>7. CASE CloseNext
  <2> DEFINE i == Head(closer)
             rest == Tail(closer)
  <2>1. /\ i \in Requests /\ rest \in Seq(Requests) /\ i \in Elements(closer)
        /\ Elements(closer) = Elements(rest) \cup {i}
    BY <1>0, <1>7, HeadTailProperties, TailLosesHead DEF CloseNext
  <2>2. /\ UNCHANGED <<leases, evicted, cache, accepting>> /\ Cached' = Cached
        /\ closer' = rest /\ ~accepting
        /\ pipeline' = IF leases[i] = 0 THEN [pipeline EXCEPT ![i] = "closed"] ELSE pipeline
    BY <1>0, <1>7 DEF CloseNext, CacheOrder, Cached
  <2> HIDE DEF i, rest
  <2>3. \A j \in Requests : pipeline[j] # "none" => pipeline'[j] # "none"
    BY <1>0, <2>1, <2>2
  <2>4. \A j \in Elements(closer) : j \in Requests
    BY <1>0, ElementOfSeq DEF Elements
  <2>5. ASSUME NEW j \in Requests, pipeline'[j] = "open", j \notin Cached
        PROVE  evicted[j] /\ (leases[j] > 0 \/ j \in Elements(rest))
    BY <1>0, <2>1, <2>2, <2>5 DEF CacheOrder
  <2> QED BY <1>0, <1>1, <2>1, <2>2, <2>3, <2>4, <2>5 DEF CacheOrder, Distinct
<1> QED BY <1>2, <1>3, <1>4, <1>5, <1>6, <1>7, ManagerSteps

-----------------------------------------------------------------------------
(* The keys and their locks.                                               *)

\* The requests that hold the lock of their key.
AtTheKey(r) == stage[r] \in {"loading", "evicting"}

LEMMA KeyStep ==
  ASSUME ServiceInvariant, Next
  PROVE  KeyOrder'
<1> USE DEF Goes, manager, guards
<1>0. /\ TypeOK /\ KeyOrder
      /\ stage \in [Requests -> Stages] /\ key \in [Requests -> Asked]
      /\ loadLock \in [Keys -> Requests \cup {Nobody}]
      /\ \A i \in Cached : i \in Requests /\ pipeline[i] # "none"
      /\ \A r \in Requests : AtTheKey(r) => key[r] \in Keys
  <2>1. /\ TypeOK /\ KeyOrder /\ stage \in [Requests -> Stages] /\ key \in [Requests -> Asked]
        /\ loadLock \in [Keys -> Requests \cup {Nobody}]
    BY DEF ServiceInvariant, TypeOK
  <2>2. \A i \in Cached : i \in Requests
    BY ElementOfSeq DEF ServiceInvariant, TypeOK, Cached
  <2>3. \A i \in Cached : pipeline[i] # "none"
    BY DEF ServiceInvariant, LeaseOrder
  <2>4. \A r \in Requests : AtTheKey(r) => key[r] \in Keys
    BY DEF ServiceInvariant, StageOrder, AtTheKey
  <2> QED BY <2>1, <2>2, <2>3, <2>4
<1>1. ASSUME NEW r \in Requests, stage' = [stage EXCEPT ![r] = stage'[r]],
             ~AtTheKey(r), ~AtTheKey(r)',
             UNCHANGED <<key, loadLock>>, Cached' = Cached
      PROVE  KeyOrder'
  BY <1>0, <1>1 DEF KeyOrder, AtTheKey
<1>2. CASE \E r \in Requests, k \in Asked : Arrive(r, k)
  <2>1. PICK r \in Requests, k \in Asked : Arrive(r, k)
    BY <1>2
  <2>2. /\ key' = [key EXCEPT ![r] = k] /\ stage' = [stage EXCEPT ![r] = "arrived"]
        /\ stage[r] = "idle" /\ loadLock' = loadLock /\ Cached' = Cached
    BY <2>1 DEF Arrive, Cached
  <2>3. r \notin Cached
    BY <1>0, <2>2 DEF ServiceInvariant, StageOrder
  <2> QED BY <1>0, <2>2, <2>3, Sizes DEF KeyOrder
<1>3. ASSUME NEW r \in Requests, NEW n \in 1..Len(cache), Hit(r, n), key' = key,
             stage[r] \in {"arrived", "waiting"}
      PROVE  KeyOrder'
  <2>1. Cached' = Cached
    BY <1>0, <1>3, HitCache
  <2> QED BY <1>0, <1>1, <1>3, <2>1 DEF Hit, AtTheKey
<1>4. CASE \E r \in Requests : Acquire(r)
  <2>1. PICK r \in Requests : Acquire(r)
    BY <1>4
  <2>2. CASE \E n \in Hits(key[r]) : Hit(r, n)
    BY <1>3, <2>1, <2>2 DEF Acquire, Hits
  <2>3. CASE Hits(key[r]) = {} /\ Goes(r, "waiting") /\ UNCHANGED <<lease, manager>>
    <3>1. /\ ~AtTheKey(r) /\ ~AtTheKey(r)' /\ UNCHANGED <<key, loadLock>> /\ Cached' = Cached
          /\ stage' = [stage EXCEPT ![r] = stage'[r]]
      BY <1>0, <2>1, <2>3 DEF Acquire, AtTheKey, Cached
    <3> QED BY <1>1, <3>1
  <2> QED BY <2>1, <2>2, <2>3 DEF Acquire
<1>5. CASE \E r \in Requests : LoadOrFind(r)
  <2>1. PICK r \in Requests : LoadOrFind(r)
    BY <1>5
  <2>2. CASE \E n \in Again(r) : Hit(r, n)
    BY <1>3, <2>1, <2>2 DEF LoadOrFind, Again, Hits
  <2>3. CASE ~ \E n \in Again(r) : Hit(r, n)
    <3>1. /\ stage[r] = "waiting" /\ loadLock[key[r]] = Nobody /\ Hits(key[r]) = {}
          /\ loadLock' = [loadLock EXCEPT ![key[r]] = r] /\ stage' = [stage EXCEPT ![r] = "loading"]
          /\ key' = key /\ Cached' = Cached
      BY <2>1, <2>3 DEF LoadOrFind, Again, Cached
    <3>2. \A i \in Cached : key[i] # key[r]
      BY <3>1 DEF Hits, Cached
    <3>3. key[r] \in Keys
      BY <3>1 DEF ServiceInvariant, StageOrder
    <3>4. \A q \in Requests : AtTheKey(q) => key[q] # key[r]
      BY <3>1, Sizes DEF KeyOrder, AtTheKey, ServiceInvariant
    <3> QED BY <1>0, <3>1, <3>2, <3>3, <3>4, Sizes DEF KeyOrder, AtTheKey
  <2> QED BY <2>2, <2>3
<1>6. ASSUME NEW r \in Requests, AtTheKey(r), ~AtTheKey(r)',
             stage' = [stage EXCEPT ![r] = stage'[r]], key' = key,
             loadLock' = [loadLock EXCEPT ![key[r]] = Nobody],
             \A i \in Cached' : i = r \/ i \in Cached,
             \A i, j \in Cached' : key[i] = key[j] => i = j
      PROVE  KeyOrder'
  <2>1. key[r] \in Keys /\ loadLock[key[r]] = r
    BY <1>0, <1>6 DEF KeyOrder, AtTheKey
  <2>2. \A q \in Requests : AtTheKey(q)' => q # r /\ AtTheKey(q) /\ key[q] # key[r]
    BY <1>0, <1>6, <2>1 DEF KeyOrder, AtTheKey
  <2>3. \A i, j \in Cached' : key'[i] = key'[j] => i = j
    BY <1>6
  <2>4. \A q \in Requests : stage'[q] = "loading" => \A i \in Cached' : key'[i] # key'[q]
    BY <1>0, <1>6, <2>2 DEF KeyOrder, AtTheKey
  <2>5. \A q \in Requests : stage'[q] \in {"loading", "evicting"} => loadLock'[key'[q]] = q
    BY <1>0, <1>6, <2>1, <2>2 DEF KeyOrder, AtTheKey
  <2>6. \A k \in Keys : loadLock'[k] # Nobody =>
          key'[loadLock'[k]] = k /\ stage'[loadLock'[k]] \in {"loading", "evicting"}
    BY <1>0, <1>6, <2>1 DEF KeyOrder, AtTheKey
  <2> QED BY <2>3, <2>4, <2>5, <2>6 DEF KeyOrder
<1>7. CASE \E r \in Requests : LoadFails(r) \/ EvictedClosed(r)
  <2>1. PICK r \in Requests : LoadFails(r) \/ EvictedClosed(r)
    BY <1>7
  <2>2. /\ AtTheKey(r) /\ key' = key /\ Cached' = Cached
        /\ loadLock' = [loadLock EXCEPT ![key[r]] = Nobody]
        /\ stage' = [stage EXCEPT ![r] = stage'[r]] /\ ~AtTheKey(r)'
    BY <1>0, <2>1 DEF LoadFails, EvictedClosed, AtTheKey, Cached
  <2>3. \A i, j \in Cached' : key[i] = key[j] => i = j
    BY <1>0, <2>2 DEF KeyOrder
  <2> QED BY <1>6, <2>2, <2>3
<1>8. CASE \E r \in Requests : Loaded(r)
  <2>1. PICK r \in Requests : Loaded(r)
    BY <1>8
  <2>2. /\ stage[r] = "loading" /\ key' = key
        /\ \/ stage' = [stage EXCEPT ![r] = "evicting"] /\ loadLock' = loadLock
           \/ /\ stage' = [stage EXCEPT ![r] = "leased"]
              /\ loadLock' = [loadLock EXCEPT ![key[r]] = Nobody]
    BY <2>1 DEF Loaded
  <2>3. \A i \in Cached' : i = r \/ i \in Cached
    BY <2>1, LoadedCache
  <2>4. \A i \in Cached : key[i] # key[r]
    BY <1>0, <2>2 DEF KeyOrder
  <2>5. CASE stage' = [stage EXCEPT ![r] = "leased"] /\ loadLock' = [loadLock EXCEPT ![key[r]] = Nobody]
    <3>1. AtTheKey(r) /\ ~AtTheKey(r)' /\ stage' = [stage EXCEPT ![r] = stage'[r]]
      BY <1>0, <2>2, <2>5 DEF AtTheKey
    <3>2. \A i, j \in Cached' : key[i] = key[j] => i = j
      BY <1>0, <2>3, <2>4 DEF KeyOrder
    <3> QED BY <1>6, <2>2, <2>3, <2>5, <3>1, <3>2
  <2>6. CASE stage' = [stage EXCEPT ![r] = "evicting"] /\ loadLock' = loadLock
    <3>1. \A q \in Requests : AtTheKey(q)' <=> AtTheKey(q)
      BY <1>0, <2>2, <2>6 DEF AtTheKey
    <3>2. \A q \in Requests : q # r /\ AtTheKey(q) => key[q] # key[r]
      BY <1>0, <2>2 DEF KeyOrder, AtTheKey
    <3>3. \A i, j \in Cached' : key[i] = key[j] => i = j
      BY <1>0, <2>3, <2>4 DEF KeyOrder
    <3>4. \A q \in Requests : stage'[q] = "loading" => \A i \in Cached' : key[i] # key[q]
      BY <1>0, <2>2, <2>3, <2>6, <3>2 DEF KeyOrder, AtTheKey
    <3>5. \A q \in Requests : AtTheKey(q)' => loadLock[key[q]] = q
      BY <1>0, <3>1 DEF KeyOrder, AtTheKey
    <3>6. \A k \in Keys : loadLock[k] # Nobody =>
            key[loadLock[k]] = k /\ stage'[loadLock[k]] \in {"loading", "evicting"}
      BY <1>0, <2>6 DEF KeyOrder
    <3> QED BY <2>2, <2>6, <3>3, <3>4, <3>5, <3>6 DEF KeyOrder, AtTheKey
  <2> QED BY <2>2, <2>5, <2>6
<1>9. ASSUME NEW r \in Requests,
             \/ Unresolved(r) \/ BadDocument(r) \/ TakeSlot(r) \/ TakeModel(r)
             \/ Predicted(r) \/ TimesOut(r) \/ Release(r) \/ Finish(r)
      PROVE  KeyOrder'
  <2>1. /\ ~AtTheKey(r) /\ ~AtTheKey(r)' /\ UNCHANGED <<key, loadLock>> /\ Cached' = Cached
        /\ stage' = [stage EXCEPT ![r] = stage'[r]]
    BY <1>0, <1>9 DEF Unresolved, BadDocument, Answers, TakeSlot, TakeModel, Predicted, TimesOut,
                      Release, Finish, AtTheKey, Cached
  <2> QED BY <1>1, <2>1
<1>10. CASE CloseNext \/ \E r \in Requests : LateEnd(r)
  <2>1. UNCHANGED <<stage, key, loadLock>> /\ Cached' = Cached
    BY <1>10 DEF CloseNext, LateEnd, Cached
  <2> QED BY <1>0, <2>1 DEF KeyOrder
<1>11. CASE Shutdown
  <2>1. UNCHANGED <<stage, key, loadLock>> /\ Cached' = {}
    BY <1>11 DEF Shutdown, Cached
  <2> QED BY <1>0, <2>1 DEF KeyOrder
<1> QED BY <1>2, <1>4, <1>5, <1>7, <1>8, <1>9, <1>10, <1>11 DEF Next, Works

-----------------------------------------------------------------------------
(* The locks of the pipelines and the slots of the limiter.                *)

\* The steps that touch them.
LEMMA GuardSteps ==
  ASSUME ServiceInvariant, Next
  PROVE  \/ /\ UNCHANGED guards
            /\ \A r \in Requests : stage'[r] = "slot" <=> stage[r] = "slot"
         \/ \E r \in Requests : TakeSlot(r)
         \/ \E r \in Requests : TakeModel(r)
         \/ \E r \in Requests : ReleaseGuards(r) /\ used[r] # NoModel /\ stage[r] # "slot"
                                /\ \A q \in Requests : stage'[q] = "slot" <=> stage[q] = "slot"
<1> USE DEF Goes, TypeOK, Stages, guards
<1>0. /\ stage \in [Requests -> Stages]
      /\ \A r \in Requests : stage[r] = "running" => used[r] # NoModel
      /\ \A r \in Requests : used[r] # NoModel => stage[r] # "slot"
  BY DEF ServiceInvariant, StageOrder
<1>1. ASSUME NEW r \in Requests, Acquire(r) \/ LoadOrFind(r)
      PROVE  UNCHANGED guards /\ \A q \in Requests : stage'[q] = "slot" <=> stage[q] = "slot"
  BY <1>0, <1>1 DEF Acquire, LoadOrFind, Hit
<1>2. ASSUME NEW r \in Requests, Loaded(r)
      PROVE  UNCHANGED guards /\ \A q \in Requests : stage'[q] = "slot" <=> stage[q] = "slot"
  BY <1>0, <1>2 DEF Loaded
<1>3. ASSUME NEW r \in Requests,
             \/ Unresolved(r) \/ BadDocument(r) \/ LoadFails(r) \/ EvictedClosed(r)
             \/ Release(r) \/ Finish(r) \/ TimesOut(r) \/ \E k \in Asked : Arrive(r, k)
      PROVE  UNCHANGED guards /\ \A q \in Requests : stage'[q] = "slot" <=> stage[q] = "slot"
  BY <1>0, <1>3 DEF Unresolved, BadDocument, Answers, LoadFails, EvictedClosed, Release, Finish,
                    TimesOut, Deferred, Arrive
<1>4. ASSUME NEW r \in Requests, Predicted(r) \/ LateEnd(r)
      PROVE  ReleaseGuards(r) /\ used[r] # NoModel /\ stage[r] # "slot"
             /\ \A q \in Requests : stage'[q] = "slot" <=> stage[q] = "slot"
  BY <1>0, <1>4 DEF Predicted, LateEnd, LateRelease
<1>5. CASE Shutdown \/ CloseNext
  BY <1>5 DEF Shutdown, CloseNext
<1> QED BY <1>1, <1>2, <1>3, <1>4, <1>5 DEF Next, Works

LEMMA GuardStep ==
  ASSUME ServiceInvariant, Next
  PROVE  LockOrder' /\ SlotOrder'
<1>0. /\ LockOrder /\ SlotOrder
      /\ stage \in [Requests -> Stages] /\ lease \in [Requests -> Open]
      /\ used \in [Requests -> Open] /\ modelLock \in [Requests -> Requests \cup {Nobody}]
      /\ Cardinality(Holding) \in Nat /\ Holding \in SUBSET Requests
      /\ slots \in Nat
  <2>1. Holding \in SUBSET Requests
    BY DEF Holding
  <2>2. IsFiniteSet(Holding) /\ Cardinality(Holding) \in Nat
    BY <2>1, FiniteAssumption, FS_Subset, FS_CardinalityType
  <2> QED BY <2>1, <2>2, Sizes DEF ServiceInvariant, TypeOK
<1>1. CASE /\ UNCHANGED guards
           /\ \A r \in Requests : stage'[r] = "slot" <=> stage[r] = "slot"
  <2>1. Holding' = Holding
    BY <1>1 DEF Holding, guards
  <2> QED BY <1>0, <1>1, <2>1 DEF LockOrder, SlotOrder, guards
<1>2. CASE \E r \in Requests : TakeSlot(r)
  <2>1. PICK r \in Requests : TakeSlot(r)
    BY <1>2
  <2>2. /\ stage[r] = "leased" /\ stage' = [stage EXCEPT ![r] = "slot"]
        /\ slots' = slots - 1 /\ UNCHANGED <<used, modelLock>>
    BY <2>1 DEF TakeSlot, Goes
  <2>3. Holding' = Holding \cup {r} /\ r \notin Holding
    BY <1>0, <2>2 DEF Holding, ServiceInvariant, StageOrder
  <2>4. Cardinality(Holding \cup {r}) = Cardinality(Holding) + 1
    BY <1>0, <2>3, CountOne
  <2>5. SlotOrder'
    BY <1>0, <2>2, <2>3, <2>4, Sizes DEF SlotOrder
  <2> QED BY <1>0, <2>2, <2>5 DEF LockOrder
<1>3. CASE \E r \in Requests : TakeModel(r)
  <2>1. PICK r \in Requests : TakeModel(r)
    BY <1>3
  <2>2. /\ stage[r] = "slot" /\ stage' = [stage EXCEPT ![r] = "running"]
        /\ modelLock[lease[r]] = Nobody /\ modelLock' = [modelLock EXCEPT ![lease[r]] = r]
        /\ used' = [used EXCEPT ![r] = lease[r]] /\ slots' = slots
    BY <2>1 DEF TakeModel, Goes
  <2>3. lease[r] \in Requests /\ lease[r] # NoModel /\ used[r] = NoModel
    BY <1>0, <2>2 DEF ServiceInvariant, StageOrder, Open
  <2>4. Holding' = Holding
    BY <1>0, <2>2, <2>3 DEF Holding
  <2>5. LockOrder'
    BY <1>0, <2>2, <2>3, Sizes DEF LockOrder, Open
  <2> QED BY <1>0, <2>2, <2>4, <2>5 DEF SlotOrder
<1>4. CASE \E r \in Requests : ReleaseGuards(r) /\ used[r] # NoModel /\ stage[r] # "slot"
                               /\ \A q \in Requests : stage'[q] = "slot" <=> stage[q] = "slot"
  <2>1. PICK r \in Requests :
          /\ ReleaseGuards(r) /\ used[r] # NoModel /\ stage[r] # "slot"
          /\ \A q \in Requests : stage'[q] = "slot" <=> stage[q] = "slot"
    BY <1>4
  <2>2. /\ modelLock' = [modelLock EXCEPT ![used[r]] = Nobody] /\ slots' = slots + 1
        /\ used' = [used EXCEPT ![r] = NoModel] /\ used[r] \in Requests
        /\ modelLock[used[r]] = r
    BY <1>0, <2>1 DEF ReleaseGuards, LockOrder, Open
  <2>3. Holding' = Holding \ {r} /\ r \in Holding
    BY <1>0, <2>1, <2>2 DEF Holding
  <2>4. Cardinality(Holding \ {r}) = Cardinality(Holding) - 1
    BY <1>0, <2>3, CountOne
  <2>5. SlotOrder'
    BY <1>0, <2>2, <2>3, <2>4, Sizes DEF SlotOrder
  <2>6. LockOrder'
    BY <1>0, <2>2, Sizes DEF LockOrder, Open
  <2> QED BY <2>5, <2>6
<1> QED BY <1>1, <1>2, <1>3, <1>4, GuardSteps

-----------------------------------------------------------------------------
(* The service.                                                            *)

LEMMA ServiceInit ==
  ASSUME Init
  PROVE  ServiceInvariant
<1> USE Sizes DEF Init
<1>1. /\ Cached = {} /\ Elements(closer) = {} /\ cache \in Seq(Requests) /\ closer \in Seq(Requests)
      /\ Len(cache) = 0
  BY EmptySeq DEF Cached, Elements
<1>2. \A i \in Requests : {r \in Requests : lease[r] = i} = {}
  OBVIOUS
<1>3. Holding = {} /\ Cardinality({}) = 0
  BY FS_EmptySet DEF Holding
<1>4. TypeOK
  BY <1>1 DEF TypeOK, Open, Asked, Stages
<1>5. StageOrder
  BY DEF StageOrder
<1>6. LeaseOrder
  BY <1>1, <1>2, <1>3 DEF LeaseOrder
<1>7. CacheOrder
  BY <1>1 DEF CacheOrder, Distinct
<1>8. KeyOrder /\ LockOrder
  BY <1>1 DEF KeyOrder, LockOrder
<1>9. SlotOrder
  BY <1>3 DEF SlotOrder
<1> QED BY <1>4, <1>5, <1>6, <1>7, <1>8, <1>9 DEF ServiceInvariant

LEMMA ServiceStep ==
  ASSUME ServiceInvariant, [Next]_service
  PROVE  ServiceInvariant'
<1>1. CASE Next
  BY <1>1, TypeStep, StageStep, LeaseStep, CacheStep, KeyStep, GuardStep DEF ServiceInvariant
<1>2. CASE UNCHANGED service
  <2> USE <1>2 DEF service, manager, guards
  <2>1. Cached' = Cached /\ Holding' = Holding
    BY DEF Cached, Holding
  <2>2. TypeOK'
    BY DEF ServiceInvariant, TypeOK
  <2>3. StageOrder' /\ LeaseOrder'
    BY <2>1 DEF ServiceInvariant, StageOrder, LeaseOrder
  <2>4. CacheOrder'
    BY <2>1 DEF ServiceInvariant, CacheOrder, Distinct, Elements, Quiet
  <2>5. KeyOrder' /\ LockOrder' /\ SlotOrder'
    BY <2>1 DEF ServiceInvariant, KeyOrder, LockOrder, SlotOrder
  <2> QED BY <2>2, <2>3, <2>4, <2>5 DEF ServiceInvariant
<1> QED BY <1>1, <1>2

LEMMA ServiceCorrect == Spec => []ServiceInvariant
<1>1. Init => ServiceInvariant
  BY ServiceInit
<1>2. ServiceInvariant /\ [Next]_service => ServiceInvariant'
  BY ServiceStep
<1> QED BY <1>1, <1>2, PTL DEF Spec

\* One predicts with a pipeline at a time, and one holds each slot.
LEMMA GuardsFollow ==
  ASSUME ServiceInvariant
  PROVE  GuardsHold
<1>1. \A r \in Requests : stage[r] = "loading" => Hits(key[r]) = {}
  BY DEF ServiceInvariant, KeyOrder, Hits, Cached
<1>2. \A r, q \in Requests : r # q /\ used[r] # NoModel => used[r] # used[q]
  BY DEF ServiceInvariant, LockOrder
<1>3. Cardinality({r \in Requests : used[r] # NoModel}) <= MaxInferences
  <2> DEFINE predicting == {r \in Requests : used[r] # NoModel}
  <2>1. predicting \subseteq Holding /\ Holding \in SUBSET Requests
    BY DEF Holding
  <2>2. IsFiniteSet(Holding)
    BY <2>1, FiniteAssumption, FS_Subset
  <2>3. /\ Cardinality(predicting) <= Cardinality(Holding) /\ Cardinality(Holding) \in Nat
        /\ Cardinality(predicting) \in Nat
    BY <2>1, <2>2, FS_Subset, FS_CardinalityType
  <2>4. slots = MaxInferences - Cardinality(Holding) /\ slots \in 0..MaxInferences
    BY DEF ServiceInvariant, SlotOrder, TypeOK
  <2> QED BY <2>3, <2>4, Sizes
<1> QED BY <1>1, <1>2, <1>3 DEF GuardsHold, ServiceInvariant, KeyOrder

\* When all are quiet no lease is left, so what left the cache is closed.
LEMMA NothingLeftFollows ==
  ASSUME ServiceInvariant
  PROVE  NothingLeftBehind
<1> SUFFICES ASSUME Quiet, closer = <<>>, \A r \in Requests : used[r] = NoModel
             PROVE  /\ slots = MaxInferences
                    /\ \A i \in Requests : modelLock[i] = Nobody /\ ~file[i]
                    /\ \A k \in Keys : loadLock[k] = Nobody
                    /\ \A i \in Requests : pipeline[i] = "open" <=> i \in Cached
  BY DEF NothingLeftBehind
<1>1. \A r \in Requests : stage[r] \in {"idle", "done"}
  BY DEF Quiet
<1>2. slots = MaxInferences
  <2>1. Holding = {}
    BY <1>1 DEF Holding
  <2> QED BY <2>1, FS_EmptySet, Sizes DEF ServiceInvariant, SlotOrder
<1>3. \A i \in Requests : modelLock[i] = Nobody
  BY Sizes DEF ServiceInvariant, LockOrder, TypeOK
<1>4. \A i \in Requests : ~file[i]
  BY <1>1 DEF ServiceInvariant, StageOrder
<1>5. \A k \in Keys : loadLock[k] = Nobody
  <2> SUFFICES ASSUME NEW k \in Keys, loadLock[k] # Nobody PROVE FALSE
    OBVIOUS
  <2>1. loadLock[k] \in Requests
    BY DEF ServiceInvariant, TypeOK
  <2>2. stage[loadLock[k]] \in {"loading", "evicting"}
    BY DEF ServiceInvariant, KeyOrder
  <2> QED BY <1>1, <2>1, <2>2
<1>6. ASSUME NEW i \in Requests, pipeline[i] = "open"
      PROVE  i \in Cached
  <2>1. {r \in Requests : lease[r] = i} = {}
    BY <1>1, Sizes DEF ServiceInvariant, StageOrder
  <2>2. leases[i] = 0
    BY <2>1, FS_EmptySet DEF ServiceInvariant, LeaseOrder
  <2>3. Elements(closer) = {}
    BY DEF Elements
  <2> QED BY <1>6, <2>2, <2>3 DEF ServiceInvariant, CacheOrder
<1>7. \A i \in Requests : i \in Cached => pipeline[i] = "open"
  BY DEF ServiceInvariant, LeaseOrder
<1> QED BY <1>2, <1>3, <1>4, <1>5, <1>6, <1>7

\* active_leases counts the requests that lease a pipeline, and whatever is
\* leased or can be leased again is open: ModelManager closes a pipeline only
\* when its last lease is gone.
THEOREM LeasedPipelineIsOpen == Spec => []LeasedIsOpen
<1>1. ServiceInvariant => LeasedIsOpen
  BY DEF ServiceInvariant, LeaseOrder, LeasedIsOpen
<1> QED BY <1>1, ServiceCorrect, PTL

\* The locks of the keys and of the pipelines and the slots of InferenceLimiter
\* exclude what they are there to exclude, threads that timed out included.
THEOREM GuardsExclude == Spec => []GuardsHold
BY ServiceCorrect, GuardsFollow, PTL

\* Whatever failed, timed out or was evicted, the service comes back to where
\* every slot and lock is free, no private PDF is left, and the open pipelines
\* are the cached ones.
THEOREM ServiceComesToRest == Spec => []NothingLeftBehind
BY ServiceCorrect, NothingLeftFollows, PTL

\* _insert_and_evict keeps model_cache_size: the cache never outgrows it, and no
\* pipeline is in it twice.
CacheKeepsItsSize == Len(cache) <= CacheSize /\ Distinct(cache)

\* The cache never outgrows model_cache_size, also while pipelines are loading.
THEOREM CacheIsBounded == Spec => []CacheKeepsItsSize
<1>1. ServiceInvariant => CacheKeepsItsSize
  BY DEF ServiceInvariant, CacheOrder, CacheKeepsItsSize
<1> QED BY <1>1, ServiceCorrect, PTL

-----------------------------------------------------------------------------
(* The calls of the agent.                                                 *)

Sent == {c \in Callers : call[c] = "sent"}

CallTypes ==
  /\ call \in [Callers -> {"idle", "queued", "sent", "answered", "failed"}]
  /\ wanted \in [Callers -> Asked]
  /\ attempt \in [Callers -> 1..MaxRetries + 1]
  /\ permits = MaxRequests - Cardinality(Sent)

LEMMA CallersAreFinite == IsFiniteSet(Callers)
<1> DEFINE f == [r \in Requests |-> r[1]]
<1>1. \A c \in Callers : <<c, 1>> \in Requests /\ f[<<c, 1>>] = c
  BY CallsAssumption, PermitsAssumption
<1>2. \A r \in Requests : f[r] \in Callers
  BY CallsAssumption
<1>3. f \in Surjection(Requests, Callers)
  BY <1>1, <1>2 DEF Surjection
<1> QED BY <1>3, FiniteAssumption, FS_Surjection

\* A caller sends, or is no longer waited for.
LEMMA CountCallers ==
  ASSUME NEW A \in SUBSET Callers, NEW c \in Callers
  PROVE  /\ Cardinality(A) \in Nat
         /\ c \notin A => Cardinality(A \cup {c}) = Cardinality(A) + 1
         /\ c \in A => Cardinality(A \ {c}) = Cardinality(A) - 1
<1>1. IsFiniteSet(A)
  BY CallersAreFinite, FS_Subset
<1> QED BY <1>1, FS_CardinalityType, FS_AddElement, FS_RemoveElement

LEMMA MineIsARequest ==
  ASSUME CallTypes, NEW c \in Callers
  PROVE  Mine(c) \in Requests /\ wanted[c] \in Asked
BY CallsAssumption DEF CallTypes, Mine

LEMMA CallStep ==
  ASSUME CallTypes, [CallNext]_all
  PROVE  CallTypes'
<1>0. /\ call \in [Callers -> {"idle", "queued", "sent", "answered", "failed"}]
      /\ wanted \in [Callers -> Asked] /\ attempt \in [Callers -> 1..MaxRetries + 1]
      /\ permits = MaxRequests - Cardinality(Sent)
      /\ MaxRetries \in Nat /\ MaxRequests \in Nat /\ Sent \in SUBSET Callers
  BY PermitsAssumption DEF CallTypes, Sent
<1>1. CASE UNCHANGED client
  BY <1>1 DEF CallTypes, client, Sent
<1>2. ASSUME NEW c \in Callers, Failed(c)
      PROVE  /\ attempt' \in [Callers -> 1..MaxRetries + 1]
             /\ \/ call' = [call EXCEPT ![c] = "queued"]
                \/ call' = [call EXCEPT ![c] = "failed"]
  BY <1>0, <1>2 DEF Failed, MayRetry
<1>3. ASSUME NEW c \in Callers, call[c] # "sent", call'[c] # "sent",
             call' = [call EXCEPT ![c] = call'[c]], permits' = permits
      PROVE  permits' = MaxRequests - Cardinality(Sent')
  <2>1. Sent' = Sent
    BY <1>0, <1>3 DEF Sent
  <2> QED BY <1>0, <1>3, <2>1
<1>4. ASSUME NEW c \in Callers, BeginCall(c)
      PROVE  CallTypes'
  <2>1. /\ call' = [call EXCEPT ![c] = "queued"] /\ call[c] = "idle"
        /\ UNCHANGED <<wanted, attempt, permits>>
    BY <1>4 DEF BeginCall
  <2>2. permits' = MaxRequests - Cardinality(Sent')
    <3>1. call'[c] # "sent" /\ call' = [call EXCEPT ![c] = call'[c]]
      BY <1>0, <2>1
    <3> QED BY <1>3, <2>1, <3>1
  <2> QED BY <1>0, <2>1, <2>2 DEF CallTypes
<1>5. ASSUME NEW c \in Callers, Send(c)
      PROVE  CallTypes'
  <2>1. /\ call[c] = "queued" /\ call' = [call EXCEPT ![c] = "sent"]
        /\ permits' = permits - 1 /\ UNCHANGED <<wanted, attempt>>
    BY <1>5 DEF Send
  <2>2. Sent' = Sent \cup {c} /\ c \notin Sent
    BY <1>0, <2>1 DEF Sent
  <2>3. Cardinality(Sent \cup {c}) = Cardinality(Sent) + 1 /\ Cardinality(Sent) \in Nat
    BY <1>0, <2>2, CountCallers
  <2>4. permits' = MaxRequests - Cardinality(Sent')
    BY <1>0, <2>1, <2>2, <2>3
  <2> QED BY <1>0, <2>1, <2>4 DEF CallTypes
<1>6. ASSUME NEW c \in Callers, NotSent(c)
      PROVE  CallTypes'
  <2>1. call[c] = "queued" /\ Failed(c) /\ UNCHANGED <<wanted, permits>>
    BY <1>6 DEF NotSent
  <2>2. call'[c] # "sent" /\ call' = [call EXCEPT ![c] = call'[c]]
    BY <1>0, <1>2, <2>1
  <2>3. permits' = MaxRequests - Cardinality(Sent')
    BY <1>3, <2>1, <2>2
  <2> QED BY <1>0, <1>2, <2>1, <2>3 DEF CallTypes
<1>7. ASSUME NEW c \in Callers, Receive(c) \/ GiveUp(c)
      PROVE  CallTypes'
  <2>1. /\ call[c] = "sent" /\ permits' = permits + 1 /\ wanted' = wanted
        /\ attempt' \in [Callers -> 1..MaxRetries + 1]
        /\ \/ call' = [call EXCEPT ![c] = "queued"]
           \/ call' = [call EXCEPT ![c] = "failed"]
           \/ call' = [call EXCEPT ![c] = "answered"]
    BY <1>0, <1>2, <1>7 DEF Receive, GiveUp
  <2>2. Sent' = Sent \ {c} /\ c \in Sent
    BY <1>0, <2>1 DEF Sent
  <2>3. Cardinality(Sent \ {c}) = Cardinality(Sent) - 1 /\ Cardinality(Sent) \in Nat
    BY <1>0, <2>2, CountCallers
  <2>4. permits' = MaxRequests - Cardinality(Sent')
    BY <1>0, <2>1, <2>2, <2>3
  <2> QED BY <1>0, <2>1, <2>4 DEF CallTypes
<1> QED BY <1>1, <1>4, <1>5, <1>6, <1>7 DEF CallNext, Calls, all

LEMMA CallInitTypes ==
  ASSUME CallInit
  PROVE  CallTypes
<1>1. Sent = {} /\ Cardinality({}) = 0
  BY FS_EmptySet DEF CallInit, Sent
<1>2. /\ call \in [Callers -> {"idle", "queued", "sent", "answered", "failed"}]
      /\ wanted \in [Callers -> Asked] /\ attempt \in [Callers -> 1..MaxRetries + 1]
  BY WantedAssumption, PermitsAssumption DEF CallInit
<1> QED BY <1>1, <1>2, PermitsAssumption DEF CallInit, CallTypes

\* Whatever the agents' clients do is one step of the service or none: all of
\* the service's properties hold under them.
THEOREM CallsUseTheService == CallSpec => Spec
<1>1. CallTypes /\ [CallNext]_all => [Next]_service
  <2> SUFFICES ASSUME CallTypes, [CallNext]_all PROVE [Next]_service
    OBVIOUS
  <2>1. ASSUME NEW c \in Callers, Send(c)
        PROVE  Next
    <3>1. Arrive(Mine(c), wanted[c])
      BY <2>1 DEF Send
    <3> QED BY <3>1, MineIsARequest DEF Next
  <2>2. ASSUME NEW c \in Callers, BeginCall(c) \/ NotSent(c) \/ Receive(c) \/ GiveUp(c)
        PROVE  UNCHANGED service
    BY <2>2 DEF BeginCall, NotSent, Receive, GiveUp
  <2>3. CASE UNCHANGED all
    BY <2>3 DEF all
  <2>4. CASE CallNext
    BY <2>1, <2>2, <2>4 DEF CallNext, Next, Calls
  <2> QED BY <2>3, <2>4
<1>2. CallInit => CallTypes /\ Init
  BY CallInitTypes DEF CallInit
<1>3. CallTypes /\ [CallNext]_all => CallTypes'
  BY CallStep
<1> QED BY <1>1, <1>2, <1>3, PTL DEF CallSpec, Spec

\* The types, and the client's semaphore: it counts the requests that are sent
\* and not answered, so that no attempt that failed or timed out keeps a permit.
THEOREM CallTypesHold == CallSpec => []CallTypeOK
<1>1. CallSpec => []CallTypes
  BY CallInitTypes, CallStep, PTL DEF CallSpec
<1>2. CallTypes /\ ServiceInvariant => CallTypeOK
  BY DEF CallTypes, CallTypeOK, ServiceInvariant, Sent
<1> QED BY <1>1, <1>2, CallsUseTheService, ServiceCorrect, PTL

\* The service keeps its promises to the agent's clients, whatever they give up,
\* repeat or never read.
THEOREM ServiceUnderCalls == CallSpec => [](LeasedIsOpen /\ GuardsHold /\ NothingLeftBehind)
BY CallsUseTheService, LeasedPipelineIsOpen, GuardsExclude, ServiceComesToRest, PTL
=============================================================================
