------------------------ MODULE RequestCacheProofs ------------------------
(***************************************************************************)
(* What the cache answers, for any ids, event types, bound and TTL and for *)
(* connections of any length.                                              *)
(***************************************************************************)
EXTENDS RequestCacheProperties, SumProofs

(* What a list is left with when what goes is at its head.                 *)
LEMMA FilteredIsSuffix ==
    ASSUME NEW S, NEW s \in Seq(S), NEW kept, NEW e \in 0 .. Len(s),
           \A k \in 1 .. e : s[k] \notin kept,
           \A k \in e + 1 .. Len(s) : s[k] \in kept
    PROVE  Filtered(s, kept) = SubSeq(s, e + 1, Len(s))
<1> DEFINE N == Len(s)
           Good(f) == f = [k \in 0 .. N |->
                              IF k = 0 THEN <<>>
                              ELSE IF s[k] \in kept THEN Append(f[k - 1], s[k])
                              ELSE f[k - 1]]
           part == [k \in 0 .. N |-> IF k <= e THEN <<>> ELSE SubSeq(s, e + 1, k)]
           f == CHOOSE g : Good(g)
<1>1. N \in Nat /\ e \in Nat
  OBVIOUS
<1>2. ASSUME NEW k \in 1 .. N
      PROVE  part[k] = IF s[k] \in kept THEN Append(part[k - 1], s[k]) ELSE part[k - 1]
  <2>1. CASE k <= e
    BY <2>1, <1>1
  <2>2. CASE k > e
    <3>1. SubSeq(s, e + 1, k) = Append(SubSeq(s, e + 1, k - 1), s[k])
      BY <2>2, <1>1
    <3>2. part[k] = SubSeq(s, e + 1, k) /\ s[k] \in kept
      BY <2>2, <1>1
    <3>3. part[k - 1] = SubSeq(s, e + 1, k - 1)
      BY <2>2, <1>1
    <3> QED BY <3>1, <3>2, <3>3
  <2> QED BY <2>1, <2>2, <1>1
<1>3. Good(part)
  <2>1. part = [k \in 0 .. N |-> part[k]]
    OBVIOUS
  <2>2. part[0] = <<>>
    BY <1>1
  <2> HIDE DEF part
  <2>3. \A k \in 0 .. N : part[k] = IF k = 0 THEN <<>>
                              ELSE IF s[k] \in kept THEN Append(part[k - 1], s[k])
                              ELSE part[k - 1]
    BY <2>2, <1>1, <1>2
  <2> QED BY <2>1, <2>3
<1>4. Good(f)
  BY <1>3
<1>5. Filtered(s, kept) = f[N]
  BY DEF Filtered
<1> HIDE DEF f
<1>6. \A k \in 0 .. N : f[k] = IF k = 0 THEN <<>>
                              ELSE IF s[k] \in kept THEN Append(f[k - 1], s[k])
                              ELSE f[k - 1]
  BY <1>4
<1> HIDE DEF Good
<1> DEFINE T == {k \in 0 .. N : f[k] # part[k]}
<1>7. T = {}
  <2> SUFFICES ASSUME T # {} PROVE FALSE
    OBVIOUS
  <2>1. PICK k \in T : \A j \in T : k <= j
    <3>1. T \subseteq Nat
      BY <1>1
    <3> HIDE DEF T
    <3> QED BY <3>1, SmallestNat
  <2>2. k \in 1 .. N
    <3>1. f[0] = <<>> /\ part[0] = <<>>
      BY <1>6, <1>1
    <3> QED BY <3>1, <1>1
  <2>3. k - 1 \in 0 .. N /\ k - 1 \notin T
    BY <2>1, <2>2, <1>1
  <2>4. f[k - 1] = part[k - 1]
    BY <2>3
  <2> HIDE DEF part
  <2>5. f[k] = part[k]
    BY <2>2, <2>4, <1>2, <1>6
  <2> QED BY <2>5
<1>8. f[N] = part[N]
  <2>1. \A k \in 0 .. N : f[k] = part[k]
    BY <1>7
  <2> HIDE DEF part, T
  <2> QED BY <2>1, <1>1
<1>9. part[N] = SubSeq(s, e + 1, N)
  <2>1. CASE e = N
    BY <2>1, <1>1
  <2>2. CASE e # N
    BY <2>2, <1>1
  <2> QED BY <2>1, <2>2
<1> QED BY <1>5, <1>8, <1>9

\* A list and a map that are one queue: the same ids, in the order of the
\* answers and of the time.
Queue(order, cache) ==
    /\ order \in Seq(RequestIds \ {NoId})
    /\ cache \in [Range(order) -> CachedResponse]
    /\ \A j, k \in 1 .. Len(order) : j < k =>
            /\ cache[order[j]].answer < cache[order[k]].answer
            /\ cache[order[j]].at <= cache[order[k]].at

(* A queue names no id twice.                                              *)
LEMMA QueueIsDistinct ==
    ASSUME NEW order, NEW cache, Queue(order, cache),
           NEW j \in 1 .. Len(order), NEW k \in 1 .. Len(order), order[j] = order[k]
    PROVE  j = k
<1>1. order[j] \in Range(order)
  BY DEF Range, Queue
<1>2. cache[order[j]].answer \in Nat
  BY <1>1 DEF Queue, CachedResponse
<1>3. ~ (cache[order[j]].answer < cache[order[j]].answer)
  BY <1>2
<1>4. Len(order) \in Nat
  BY DEF Queue
<1> QED BY <1>3, <1>4 DEF Queue

(* The ids of a queue after place k are as many as its places.             *)
LEMMA QueueCounts ==
    ASSUME NEW order, NEW cache, Queue(order, cache), NEW k \in 0 .. Len(order),
           NEW S, S = {order[j] : j \in k + 1 .. Len(order)}
    PROVE  IsFiniteSet(S) /\ Cardinality(S) = Len(order) - k
<1> DEFINE I == k + 1 .. Len(order)
           f == [j \in I |-> order[j]]
<1>1. Len(order) \in Nat /\ k \in Nat /\ k <= Len(order)
  BY DEF Queue
<1>2. IsFiniteSet(I) /\ Cardinality(I) = Len(order) - k
  <2>1. k + 1 \in Int /\ Len(order) \in Int
    BY <1>1
  <2>2. /\ IsFiniteSet(I)
        /\ Cardinality(I) = IF k + 1 > Len(order) THEN 0 ELSE Len(order) - (k + 1) + 1
    BY <2>1, FS_Interval
  <2> HIDE DEF I
  <2> QED BY <2>2, <1>1
<1>3. \A i, j \in I : f[i] = f[j] => i = j
  <2>1. \A j \in I : j \in 1 .. Len(order)
    BY <1>1
  <2> QED BY <2>1, QueueIsDistinct
<1>4. f \in [I -> S] /\ \A y \in S : \E j \in I : f[j] = y
  OBVIOUS
<1> HIDE DEF I, f
<1>5. f \in Surjection(I, S) /\ f \in Injection(I, S)
  BY <1>3, <1>4 DEF Surjection, Injection, IsInjective
<1> QED BY <1>2, <1>5, FS_Surjection

\* What is left of a queue when its first e ids are taken away.
IsRest(rest, order, cache, e) ==
    /\ Len(rest) = Len(order) - e
    /\ \A k \in 1 .. Len(rest) : e + k \in 1 .. Len(order) /\ rest[k] = order[e + k]
    /\ Range(rest) = {order[k] : k \in e + 1 .. Len(order)}
    /\ Range(rest) = Range(order) \ {order[k] : k \in 1 .. e}
    /\ Range(rest) \subseteq Range(order)
    /\ Queue(rest, [id \in Range(rest) |-> cache[id]])

(* A queue without its head is a queue.                                    *)
LEMMA SuffixIsQueue ==
    ASSUME NEW order, NEW cache, Queue(order, cache), NEW e \in 0 .. Len(order),
           NEW rest, rest = SubSeq(order, e + 1, Len(order))
    PROVE  IsRest(rest, order, cache, e)
<1>1. order \in Seq(RequestIds \ {NoId}) /\ Len(order) \in Nat /\ e \in Nat
  BY DEF Queue
<1>2. /\ rest \in Seq(RequestIds \ {NoId})
      /\ Len(rest) = Len(order) - e
  BY <1>1
<1>3. \A k \in 1 .. Len(rest) : e + k \in 1 .. Len(order) /\ rest[k] = order[e + k]
  BY <1>1, <1>2
<1>4. DOMAIN rest = 1 .. Len(rest) /\ DOMAIN order = 1 .. Len(order)
  BY <1>1, <1>2
<1>5. Range(rest) = {order[k] : k \in e + 1 .. Len(order)}
  <2>1. \A k \in 1 .. Len(rest) : e + k \in e + 1 .. Len(order)
    BY <1>1, <1>2
  <2>2. ASSUME NEW k \in e + 1 .. Len(order)
        PROVE  k - e \in 1 .. Len(rest) /\ order[k] = rest[k - e]
    <3>1. k - e \in 1 .. Len(rest) /\ e + (k - e) = k
      BY <1>1, <1>2
    <3> QED BY <3>1, <1>3
  <2>3. Range(rest) = {rest[k] : k \in 1 .. Len(rest)}
    BY <1>4 DEF Range
  <2>4. \A k \in 1 .. Len(rest) : rest[k] \in {order[j] : j \in e + 1 .. Len(order)}
    BY <2>1, <1>3
  <2> QED BY <2>2, <2>3, <2>4
<1>6. Range(rest) = Range(order) \ {order[k] : k \in 1 .. e}
  <2>1. Range(order) = {order[k] : k \in 1 .. Len(order)}
    BY <1>4 DEF Range
  <2>2. \A j \in 1 .. e, k \in e + 1 .. Len(order) : order[j] # order[k]
    <3>1. \A j \in 1 .. e, k \in e + 1 .. Len(order) :
              j \in 1 .. Len(order) /\ k \in 1 .. Len(order) /\ j # k
      BY <1>1
    <3> QED BY <3>1, QueueIsDistinct
  <2>3. \A k \in 1 .. Len(order) : k \in 1 .. e \/ k \in e + 1 .. Len(order)
    BY <1>1
  <2>4. \A k \in e + 1 .. Len(order) : k \in 1 .. Len(order)
    BY <1>1
  <2> QED BY <2>1, <2>2, <2>3, <2>4, <1>5
<1>7. \A k \in 1 .. Len(rest) : rest[k] \in Range(rest)
  BY <1>4 DEF Range
<1>8. Queue(rest, [id \in Range(rest) |-> cache[id]])
  <2> DEFINE c == [id \in Range(rest) |-> cache[id]]
  <2>1. c \in [Range(rest) -> CachedResponse]
    BY <1>6 DEF Queue
  <2>2. \A k \in 1 .. Len(rest) : c[rest[k]] = cache[order[e + k]]
    BY <1>3, <1>7
  <2> HIDE DEF c
  <2>3. ASSUME NEW j \in 1 .. Len(rest), NEW k \in 1 .. Len(rest), j < k
        PROVE  /\ c[rest[j]].answer < c[rest[k]].answer
               /\ c[rest[j]].at <= c[rest[k]].at
    <3>1. e + j \in 1 .. Len(order) /\ e + k \in 1 .. Len(order) /\ e + j < e + k
      BY <2>3, <1>1, <1>3
    <3> QED BY <3>1, <2>2 DEF Queue
  <2> QED BY <2>1, <2>3, <1>2 DEF Queue, c
<1> QED BY <1>2, <1>3, <1>5, <1>6, <1>8 DEF IsRest

(* A queue with a younger entry at its end is a queue.                     *)
LEMMA LongerIsQueue ==
    ASSUME NEW order, NEW cache, Queue(order, cache),
           NEW id \in RequestIds \ {NoId}, id \notin Range(order),
           NEW entry \in CachedResponse,
           \A i \in Range(order) : cache[i].answer < entry.answer /\ cache[i].at <= entry.at
    PROVE  /\ Range(Append(order, id)) = Range(order) \cup {id}
           /\ Len(Append(order, id)) = Len(order) + 1
           /\ Queue(Append(order, id),
                    [i \in Range(order) \cup {id} |-> IF i = id THEN entry ELSE cache[i]])
<1> DEFINE longer == Append(order, id)
           c == [i \in Range(order) \cup {id} |-> IF i = id THEN entry ELSE cache[i]]
<1>1. order \in Seq(RequestIds \ {NoId}) /\ Len(order) \in Nat
  BY DEF Queue
<1>2. /\ longer \in Seq(RequestIds \ {NoId}) /\ Len(longer) = Len(order) + 1
      /\ longer[Len(order) + 1] = id
      /\ \A k \in 1 .. Len(order) : longer[k] = order[k]
  BY <1>1
<1>3. DOMAIN order = 1 .. Len(order) /\ DOMAIN longer = 1 .. Len(order) + 1
  BY <1>1, <1>2
<1> HIDE DEF longer
<1>4. \A k \in 1 .. Len(order) + 1 : k \in 1 .. Len(order) \/ k = Len(order) + 1
  BY <1>1
<1>5. \A k \in 1 .. Len(order) : k \in 1 .. Len(order) + 1
  BY <1>1
<1>6. Range(longer) = Range(order) \cup {id}
  <2>1. Len(order) + 1 \in 1 .. Len(order) + 1
    BY <1>1
  <2> QED BY <2>1, <1>2, <1>3, <1>4, <1>5 DEF Range
<1>7. \A k \in 1 .. Len(order) : order[k] \in Range(order)
  BY <1>3 DEF Range
<1>8. c \in [Range(longer) -> CachedResponse]
  BY <1>6 DEF Queue
<1>9. /\ \A k \in 1 .. Len(order) : c[longer[k]] = cache[order[k]]
      /\ c[longer[Len(order) + 1]] = entry
  BY <1>2, <1>7
<1> HIDE DEF c
<1>10. ASSUME NEW j \in 1 .. Len(longer), NEW k \in 1 .. Len(longer), j < k
       PROVE  /\ c[longer[j]].answer < c[longer[k]].answer
              /\ c[longer[j]].at <= c[longer[k]].at
  <2>1. j \in 1 .. Len(order)
    BY <1>10, <1>1, <1>2
  <2>2. CASE k = Len(order) + 1
    BY <2>1, <2>2, <1>7, <1>9
  <2>3. CASE k \in 1 .. Len(order)
    BY <2>1, <2>3, <1>9, <1>10 DEF Queue
  <2> QED BY <2>2, <2>3, <1>2, <1>4
<1>11. Queue(longer, c)
  BY <1>2, <1>8, <1>10 DEF Queue
<1> QED BY <1>2, <1>6, <1>11 DEF longer, c

-----------------------------------------------------------------------------

(***************************************************************************)
(* The inductive invariant.  CachedAnswerIsLatest alone does not say that  *)
(* a request that is being handled is not in the cache under its type; if  *)
(* it were, StoreIdempotent would keep an entry that its answer outdates.  *)
(* That list and map agree needs the order of the times: what expires is   *)
(* at the head.  And an answer that is in neither was forgotten for one of *)
(* the reasons NotExecutedAgain names.                                     *)
(***************************************************************************)
MissedWhileDispatching ==
    \A r \in dispatching : Cached(r.id) => requestCache[r.id].type # r.type

\* What is stored is stamped with the time of its answer.
Stamped ==
    \A id \in DOMAIN requestCache :
        /\ requestCache[id].at <= now
        /\ requestCache[id].at = answered[requestCache[id].answer].at

\* The list and the map are one queue, within its bound.
QInv ==
    /\ Queue(requestOrder, requestCache)
    /\ Len(requestOrder) <= MaxEntries
    /\ Stamped

\* An answer is forgotten for a reason, or in the cache.
InCacheOrForgotten ==
    \A k \in 1 .. Len(answered) : answered[k].id # NoId =>
        \/ Forgotten(k)
        \/ /\ Cached(answered[k].id)
           /\ requestCache[answered[k].id].answer = k

IInv ==
    /\ TypeOK
    /\ CachedAnswerIsLatest
    /\ MissedWhileDispatching
    /\ QInv
    /\ InCacheOrForgotten

\* What CachedAnswerIsLatest says of an entry under id, in the log of a
\* connection.
Latest(entry, id, log) ==
    /\ entry.answer \in 1 .. Len(log)
    /\ log[entry.answer].id = id /\ log[entry.answer].type = entry.type
    /\ \A k \in entry.answer + 1 .. Len(log) :
            ~ (log[k].id = id /\ log[k].type = entry.type)

Logged == [id : RequestIds, type : EventTypes, at : Nat]

LEMMA LatestEntries ==
    CachedAnswerIsLatest
        <=> \A id \in DOMAIN requestCache : Latest(requestCache[id], id, answered)
BY DEF CachedAnswerIsLatest, IsAnswerTo, Latest

(* Expiry only takes entries away.                                         *)
LEMMA LiveIsCached ==
    /\ DOMAIN LiveCache \subseteq DOMAIN requestCache
    /\ LiveCache = [id \in DOMAIN LiveCache |-> requestCache[id]]
    /\ \A id \in DOMAIN LiveCache : LiveCache[id] = requestCache[id]
BY DEF LiveCache, Restrict

(* Expiry takes the oldest: what is left is the end of the list, and those *)
(* entries of the map.                                                     *)
LEMMA LiveIsSuffix ==
    ASSUME IInv
    PROVE  /\ \E e \in 0 .. Len(requestOrder) :
                /\ LiveOrder = SubSeq(requestOrder, e + 1, Len(requestOrder))
                /\ \A k \in 1 .. e : IsExpired(requestOrder[k])
           /\ Range(LiveOrder) = {id \in DOMAIN requestCache : ~ IsExpired(id)}
           /\ LiveCache = [id \in Range(LiveOrder) |-> requestCache[id]]
           /\ Queue(LiveOrder, LiveCache)
           /\ Len(LiveOrder) <= MaxEntries
<1> DEFINE N == Len(requestOrder)
           live == {id \in RequestIds : Cached(id) /\ ~ IsExpired(id)}
           T == {k \in 1 .. N : ~ IsExpired(requestOrder[k])}
<1>1. /\ requestOrder \in Seq(RequestIds \ {NoId}) /\ N \in Nat
      /\ DOMAIN requestCache = Range(requestOrder) /\ now \in Nat /\ TTL \in Nat
      /\ Queue(requestOrder, requestCache)
  BY TTLAssumption DEF IInv, QInv, Queue, TypeOK
<1>2. /\ Range(requestOrder) = {requestOrder[k] : k \in 1 .. N}
      /\ \A k \in 1 .. N : requestOrder[k] \in Range(requestOrder)
  BY <1>1 DEF Range
<1>3. \A id \in DOMAIN requestCache : requestCache[id].at \in Nat
  BY DEF IInv, TypeOK, CachedResponse
<1>4. ASSUME NEW j \in 1 .. N, NEW k \in 1 .. N, j < k, IsExpired(requestOrder[k])
      PROVE  IsExpired(requestOrder[j])
  <2>1. requestCache[requestOrder[j]].at <= requestCache[requestOrder[k]].at
    BY <1>1, <1>4 DEF Queue
  <2> QED BY <2>1, <1>1, <1>2, <1>3, <1>4 DEF IsExpired
<1>5. PICK e \in 0 .. N : /\ \A k \in 1 .. e : IsExpired(requestOrder[k])
                          /\ \A k \in e + 1 .. N : ~ IsExpired(requestOrder[k])
  <2>1. CASE T = {}
    <3>1. \A k \in 1 .. N : IsExpired(requestOrder[k])
      BY <2>1
    <3> QED BY <3>1, <1>1
  <2>2. CASE T # {}
    <3>1. PICK k \in T : \A j \in T : k <= j
      <4>1. T \subseteq Nat
        OBVIOUS
      <4> HIDE DEF T
      <4> QED BY <4>1, <2>2, SmallestNat
    <3>2. k \in 1 .. N /\ ~ IsExpired(requestOrder[k])
      OBVIOUS
    <3>3. \A j \in 1 .. (k - 1) : j \in 1 .. N /\ j < k
      BY <3>2, <1>1
    <3>4. \A j \in 1 .. (k - 1) : IsExpired(requestOrder[j])
      BY <3>1, <3>2, <3>3
    <3>5. \A j \in k .. N : ~ IsExpired(requestOrder[j])
      <4>1. \A j \in k .. N : j \in 1 .. N /\ (j = k \/ k < j)
        BY <3>2, <1>1
      <4> QED BY <4>1, <3>2, <1>4
    <3>6. k - 1 \in 0 .. N /\ (k - 1) + 1 = k
      BY <3>2, <1>1
    <3> QED BY <3>4, <3>5, <3>6
  <2> QED BY <2>1, <2>2
<1>6. LiveOrder = SubSeq(requestOrder, e + 1, N)
  <2>1. \A k \in 1 .. e : requestOrder[k] \notin live
    BY <1>5
  <2>2. \A k \in e + 1 .. N : requestOrder[k] \in live
    <3>1. \A k \in e + 1 .. N : k \in 1 .. N
      BY <1>1
    <3>2. \A k \in 1 .. N : requestOrder[k] \in RequestIds
      BY <1>1
    <3> QED BY <3>1, <3>2, <1>1, <1>2, <1>5 DEF Cached
  <2>3. Filtered(requestOrder, live) = SubSeq(requestOrder, e + 1, N)
    <3> HIDE DEF live
    <3> QED BY <1>1, <2>1, <2>2, FilteredIsSuffix
  <2> QED BY <2>3 DEF LiveOrder
<1>7. /\ Range(LiveOrder) = {requestOrder[k] : k \in e + 1 .. N}
      /\ Range(LiveOrder) = Range(requestOrder) \ {requestOrder[k] : k \in 1 .. e}
      /\ Queue(LiveOrder, [id \in Range(LiveOrder) |-> requestCache[id]])
      /\ Len(LiveOrder) = N - e
  <2> HIDE DEF T, live
  <2>1. /\ Queue(requestOrder, requestCache) /\ e \in 0 .. Len(requestOrder)
        /\ LiveOrder = SubSeq(requestOrder, e + 1, Len(requestOrder))
    BY <1>1, <1>6
  <2>2. IsRest(LiveOrder, requestOrder, requestCache, e)
    BY ONLY <2>1, SuffixIsQueue
  <2> QED BY <2>2 DEF IsRest
<1>8. Range(LiveOrder) = {id \in DOMAIN requestCache : ~ IsExpired(id)}
  BY <1>1, <1>5, <1>7
<1>9. LiveCache = [id \in Range(LiveOrder) |-> requestCache[id]]
  <2>1. DOMAIN LiveCache = {id \in DOMAIN requestCache : ~ IsExpired(id)}
    BY <1>1 DEF LiveCache, Restrict
  <2> QED BY <2>1, <1>8, LiveIsCached
<1>10. Len(LiveOrder) <= MaxEntries
  BY <1>1, <1>7, MaxEntriesAssumption DEF IInv, QInv
<1> QED BY <1>5, <1>6, <1>7, <1>8, <1>9, <1>10

(* Ids are answered after an answer in finite number.                      *)
LEMMA AnsweredAfterIsFinite ==
    ASSUME NEW log \in Seq(Logged), NEW k \in Nat, NEW S,
           S \subseteq {log[m].id : m \in k + 1 .. Len(log)}
    PROVE  IsFiniteSet(S) /\ Cardinality(S) \in Nat
<1> DEFINE I == k + 1 .. Len(log)
           T == {log[m].id : m \in I}
           f == [m \in I |-> log[m].id]
<1>1. IsFiniteSet(I)
  BY FS_Interval
<1>2. f \in Surjection(I, T)
  BY DEF Surjection
<1>3. IsFiniteSet(T)
  <2> HIDE DEF I, T, f
  <2> QED BY <1>1, <1>2, FS_Surjection
<1>4. S \in SUBSET T
  OBVIOUS
<1> HIDE DEF T
<1> QED BY <1>3, <1>4, FS_Subset, FS_CardinalityType

(* A lookup and the passing of time: the cache loses what has expired, and *)
(* nothing else.                                                           *)
LEMMA FewerEntries ==
    ASSUME IInv, answered' = answered, now' \in Nat, now <= now', told' \subseteq Reply,
           dispatching' \subseteq Request,
           EvictExpired \/ UNCHANGED <<requestOrder, requestCache>>
    PROVE  /\ DOMAIN requestCache' \subseteq DOMAIN requestCache
           /\ \A id \in DOMAIN requestCache' : requestCache'[id] = requestCache[id]
           /\ TypeOK' /\ CachedAnswerIsLatest' /\ QInv' /\ InCacheOrForgotten'
<1>1. /\ DOMAIN requestCache' \subseteq DOMAIN requestCache
      /\ \A id \in DOMAIN requestCache' : requestCache'[id] = requestCache[id]
      /\ \A id \in DOMAIN requestCache : id \in DOMAIN requestCache' \/ IsExpired(id)
      /\ Queue(requestOrder', requestCache') /\ Len(requestOrder') <= MaxEntries
  <2>1. CASE EvictExpired
    <3>1. /\ DOMAIN requestCache' = {id \in DOMAIN requestCache : ~ IsExpired(id)}
          /\ Queue(requestOrder', requestCache') /\ Len(requestOrder') <= MaxEntries
      BY <2>1, LiveIsSuffix DEF EvictExpired
    <3>2. \A id \in DOMAIN requestCache' : requestCache'[id] = requestCache[id]
      BY <2>1, LiveIsCached DEF EvictExpired
    <3> QED BY <3>1, <3>2
  <2>2. CASE UNCHANGED <<requestOrder, requestCache>>
    BY <2>2 DEF IInv, QInv
  <2> QED BY <2>1, <2>2
<1>2. \A id \in DOMAIN requestCache : requestCache[id] \in CachedResponse
  BY DEF IInv, TypeOK
<1>3. requestCache' \in [DOMAIN requestCache' -> CachedResponse]
  BY <1>1 DEF Queue
<1>4. requestOrder' \in Seq(RequestIds \ {NoId})
  BY <1>1 DEF Queue
<1>5. TypeOK'
  BY <1>1, <1>3, <1>4 DEF IInv, TypeOK
<1>6. CachedAnswerIsLatest'
  BY <1>1 DEF IInv, CachedAnswerIsLatest, IsAnswerTo
<1>7. now \in Nat /\ TTL \in Nat /\ answered \in Seq(Logged)
  BY TTLAssumption DEF IInv, TypeOK, Logged
<1>8. QInv'
  <2>1. ASSUME NEW id \in DOMAIN requestCache'
        PROVE  /\ requestCache'[id].at <= now'
               /\ requestCache'[id].at = answered'[requestCache'[id].answer].at
    <3>1. /\ requestCache[id].at <= now /\ requestCache[id].at \in Nat
          /\ requestCache[id].at = answered[requestCache[id].answer].at
      BY <1>1, <1>2 DEF IInv, QInv, Stamped, CachedResponse
    <3> QED BY <3>1, <1>1, <1>7
  <2> QED BY <1>1, <2>1 DEF QInv, Stamped
<1>9. ASSUME NEW k \in 1 .. Len(answered'), answered'[k].id # NoId
      PROVE  \/ Forgotten(k)'
             \/ /\ Cached(answered[k].id)'
                /\ requestCache'[answered'[k].id].answer = k
  <2>1. answered[k].at \in Nat
    <3>1. k \in 1 .. Len(answered)
      OBVIOUS
    <3>2. answered[k] \in Logged
      BY <1>7, <3>1
    <3> QED BY <3>2 DEF Logged
  <2>2. CASE Forgotten(k)
    <3>1. AnsweredAfter(k)' = AnsweredAfter(k)
      BY DEF AnsweredAfter
    <3>2. now - answered[k].at > TTL => now' - answered[k].at > TTL
      BY <1>7, <2>1
    <3> QED BY <2>2, <3>1, <3>2 DEF Forgotten
  <2>3. CASE Cached(answered[k].id) /\ requestCache[answered[k].id].answer = k
    <3> DEFINE id == answered[k].id
    <3>1. CASE id \in DOMAIN requestCache'
      BY <2>3, <3>1, <1>1 DEF Cached
    <3>2. CASE IsExpired(id)
      <4>1. requestCache[id].at = answered[k].at
        BY <2>3 DEF IInv, QInv, Stamped, Cached
      <4>2. now' - answered'[k].at > TTL
        BY <3>2, <4>1, <2>1, <1>7 DEF IsExpired
      <4> QED BY <4>2 DEF Forgotten
    <3> QED BY <2>3, <3>1, <3>2, <1>1 DEF Cached
  <2> QED BY <1>9, <2>2, <2>3 DEF IInv, InCacheOrForgotten
<1>10. InCacheOrForgotten'
  BY <1>9 DEF InCacheOrForgotten
<1> QED BY <1>1, <1>5, <1>6, <1>8, <1>10

(* What was the latest answer stays it when another request is answered.   *)
LEMMA OthersStayLatest ==
    ASSUME NEW log \in Seq(Logged), NEW x \in Logged, NEW id,
           NEW entry \in CachedResponse, Latest(entry, id, log),
           ~ (x.id = id /\ x.type = entry.type)
    PROVE  Latest(entry, id, Append(log, x))
<1> DEFINE longer == Append(log, x)
<1>1. /\ Len(log) \in Nat /\ Len(longer) = Len(log) + 1
      /\ longer[Len(log) + 1] = x
      /\ \A k \in 1 .. Len(log) : longer[k] = log[k]
  OBVIOUS
<1>2. entry.answer \in Nat /\ entry.answer \in 1 .. Len(log)
  BY DEF Latest, CachedResponse
<1>3. ASSUME NEW k \in entry.answer + 1 .. Len(longer)
      PROVE  ~ (longer[k].id = id /\ longer[k].type = entry.type)
  <2>1. CASE k = Len(log) + 1
    BY <2>1, <1>1
  <2>2. CASE k # Len(log) + 1
    <3>1. k \in entry.answer + 1 .. Len(log) /\ k \in 1 .. Len(log)
      BY <2>2, <1>1, <1>2
    <3> QED BY <3>1, <1>1 DEF Latest
  <2> QED BY <2>1, <2>2
<1> HIDE DEF longer
<1>4. entry.answer \in 1 .. Len(longer) /\ longer[entry.answer] = log[entry.answer]
  BY <1>1, <1>2
<1>5. Latest(entry, id, longer)
  BY <1>3, <1>4 DEF Latest
<1> QED BY <1>5 DEF longer

(* The newest answer is the latest to its own request.                     *)
LEMMA NewestIsLatest ==
    ASSUME NEW log \in Seq(Logged), NEW x \in Logged, NEW entry \in CachedResponse,
           entry.answer = Len(log) + 1, entry.type = x.type
    PROVE  Latest(entry, x.id, Append(log, x))
<1>1. /\ Len(log) \in Nat /\ Len(Append(log, x)) = Len(log) + 1
      /\ Append(log, x)[Len(log) + 1] = x
  OBVIOUS
<1> QED BY <1>1 DEF Latest

(* The memory of a connection starts empty.                                *)
LEMMA EmptyIInv ==
    TypeOK /\ requestOrder = <<>> /\ requestCache = <<>> /\ dispatching = {}
        /\ answered = <<>>
    => IInv
<1> SUFFICES ASSUME TypeOK, requestOrder = <<>>, requestCache = <<>>, dispatching = {},
                    answered = <<>>
             PROVE  IInv
  OBVIOUS
<1>1. DOMAIN requestCache = {} /\ Range(requestOrder) = {}
  BY DEF Range
<1>2. Queue(requestOrder, requestCache)
  BY <1>1 DEF Queue
<1>3. Len(requestOrder) <= MaxEntries /\ Len(answered) = 0
  BY MaxEntriesAssumption
<1> QED BY <1>1, <1>2, <1>3 DEF IInv, CachedAnswerIsLatest, MissedWhileDispatching,
           QInv, Stamped, InCacheOrForgotten

LEMMA InitIInv == Init => IInv
<1> SUFFICES ASSUME Init PROVE IInv
  OBVIOUS
<1>1. TypeOK
  BY DEF Init, TypeOK
<1> QED BY <1>1, EmptyIInv DEF Init

(* A lookup, whether it finds the request or not.                          *)
LEMMA LookupIInv ==
    ASSUME IInv, NEW r \in Request, Replay(r) \/ Dispatch(r)
    PROVE  IInv'
<1>1. /\ r.id \in RequestIds /\ r.type \in EventTypes /\ r = [id |-> r.id, type |-> r.type]
      /\ now \in Nat
  BY DEF Request, IInv, TypeOK
<1>2. CASE Replay(r)
  <2>1. r.id \in DOMAIN LiveCache /\ LiveCache[r.id] \in CachedResponse
    BY <1>2, LiveIsCached DEF Replay, Hit, IInv, TypeOK
  <2>2. told' \subseteq Reply
    BY <1>1, <1>2, <2>1 DEF Replay, Tell, Reply, CachedResponse
  <2>3. /\ EvictExpired
        /\ answered' = answered /\ now' = now /\ dispatching' = {}
    BY <1>2 DEF Replay
  <2>4. TypeOK' /\ CachedAnswerIsLatest' /\ QInv' /\ InCacheOrForgotten'
    BY <2>2, <2>3, <1>1, FewerEntries
  <2>5. MissedWhileDispatching'
    BY <2>3 DEF MissedWhileDispatching
  <2> QED BY <2>4, <2>5 DEF IInv
<1>3. CASE Dispatch(r)
  <2>1. /\ answered' = answered /\ now' = now /\ told' = {}
        /\ dispatching' = {r}
        /\ EvictExpired \/ UNCHANGED <<requestOrder, requestCache>>
    BY <1>3 DEF Dispatch
  <2>2. /\ DOMAIN requestCache' \subseteq DOMAIN requestCache
        /\ TypeOK' /\ CachedAnswerIsLatest' /\ QInv' /\ InCacheOrForgotten'
    BY <2>1, <1>1, FewerEntries
  <2>3. r.id \in DOMAIN requestCache' => requestCache'[r.id].type # r.type
    <3>1. CASE r.id = NoId
      BY <2>2, <3>1 DEF IInv, TypeOK
    <3>2. CASE ~ Hit(r) /\ requestCache' = LiveCache
      BY <3>2 DEF Hit
    <3> QED BY <1>3, <3>1, <3>2 DEF Dispatch, EvictExpired
  <2>4. MissedWhileDispatching'
    BY <2>1, <2>3 DEF MissedWhileDispatching, Cached
  <2> QED BY <2>2, <2>4 DEF IInv
<1> QED BY <1>2, <1>3

(* Time and the loss of the connection.                                    *)
LEMMA ElseIInv ==
    ASSUME IInv, Tick \/ Reconnect \/ UNCHANGED vars
    PROVE  IInv'
<1>1. now \in Nat /\ dispatching \subseteq Request /\ told \subseteq Reply
  BY DEF IInv, TypeOK
<1>2. CASE Tick \/ UNCHANGED vars
  <2>1. /\ answered' = answered /\ now' \in Nat /\ now <= now' /\ told' \subseteq Reply
        /\ dispatching' = dispatching
        /\ UNCHANGED <<requestOrder, requestCache>>
    BY <1>1, <1>2 DEF Tick, vars
  <2>2. TypeOK' /\ CachedAnswerIsLatest' /\ QInv' /\ InCacheOrForgotten'
    BY <1>1, <2>1, FewerEntries
  <2>3. MissedWhileDispatching'
    BY <2>1 DEF IInv, MissedWhileDispatching, Cached
  <2> QED BY <2>2, <2>3 DEF IInv
<1>3. CASE Reconnect
  <2>1. TypeOK'
    BY <1>3 DEF Reconnect, IInv, TypeOK
  <2>2. (TypeOK /\ requestOrder = <<>> /\ requestCache = <<>> /\ dispatching = {}
            /\ answered = <<>>)'
    BY <1>3, <2>1 DEF Reconnect
  <2> QED BY <2>2, EmptyIInv, PTL
<1> QED BY <1>2, <1>3

(* After an answer each entry is one that was there, and stays the latest, *)
(* or is the new one.                                                      *)
LEMMA AnswerEntries ==
    ASSUME IInv, NEW r \in Request, Answer(r), NEW id \in DOMAIN requestCache'
    PROVE  \/ /\ id \in DOMAIN requestCache
              /\ requestCache'[id] = requestCache[id]
              /\ ~ (r.id = id /\ r.type = requestCache[id].type)
           \/ /\ id = r.id /\ id # NoId
              /\ requestCache'[id] = [type |-> r.type, answer |-> Len(answered) + 1,
                                      at |-> now]
<1>1. r \in dispatching
  BY DEF Answer
<1>2. r.id \in DOMAIN requestCache => requestCache[r.id].type # r.type
  BY <1>1 DEF IInv, MissedWhileDispatching, Cached
<1>3. CASE requestCache' = requestCache
  BY <1>2, <1>3
<1>4. CASE requestCache' = LiveCache
  BY <1>2, <1>4, LiveIsCached
<1>5. CASE r.id # NoId /\ r.id \notin DOMAIN LiveCache /\ Stored(r)
  <2>1. PICK dropped : requestCache' =
              [i \in ((DOMAIN LiveCache) \cup {r.id}) \ dropped |->
                 IF i = r.id THEN [type |-> r.type, answer |-> Len(answered) + 1,
                                   at |-> now]
                 ELSE LiveCache[i]]
    BY <1>5 DEF Stored
  <2>2. CASE id = r.id
    BY <2>1, <2>2, <1>5
  <2>3. CASE id # r.id
    BY <2>1, <2>3, LiveIsCached
  <2> QED BY <2>2, <2>3
<1> QED BY <1>3, <1>4, <1>5 DEF Answer, StoreIdempotent, EvictExpired

\* The queue with the new answer, before the oldest is dropped.
NewEntry(r) == [type |-> r.type, answer |-> Len(answered) + 1, at |-> now]

LongerOrder(r) == Append(LiveOrder, r.id)

LongerCache(r) ==
    [id \in Range(LiveOrder) \cup {r.id} |->
        IF id = r.id THEN NewEntry(r) ELSE LiveCache[id]]

(* A store puts the new answer at the end of the queue and takes the       *)
(* oldest from its head.                                                   *)
LEMMA StoredQueue ==
    ASSUME IInv, NEW r \in Request, r.id # NoId, r.id \notin DOMAIN LiveCache, Stored(r)
    PROVE  /\ Queue(LongerOrder(r), LongerCache(r))
           /\ Range(LongerOrder(r)) = Range(LiveOrder) \cup {r.id}
           /\ Len(LongerOrder(r)) \in Nat \ {0}
           /\ LongerOrder(r)[Len(LongerOrder(r))] = r.id
           /\ Excess(LongerOrder(r)) \in 0 .. Len(LongerOrder(r))
           /\ IsRest(requestOrder', LongerOrder(r), LongerCache(r), Excess(LongerOrder(r)))
           /\ requestCache' = [id \in Range(requestOrder') |-> LongerCache(r)[id]]
           /\ Queue(requestOrder', requestCache')
           /\ Len(requestOrder') \in 1 .. MaxEntries
<1> DEFINE order == LongerOrder(r)
           longer == LongerCache(r)
           e == Excess(order)
<1>1. /\ r.id \in RequestIds \ {NoId} /\ r.type \in EventTypes
      /\ now \in Nat /\ answered \in Seq(Logged) /\ Len(answered) \in Nat
      /\ MaxEntries \in Nat \ {0}
  BY MaxEntriesAssumption DEF Request, IInv, TypeOK, Logged
<1>2. /\ Queue(LiveOrder, LiveCache) /\ Len(LiveOrder) <= MaxEntries
      /\ DOMAIN LiveCache = Range(LiveOrder)
  BY LiveIsSuffix
<1>3. NewEntry(r) \in CachedResponse
  BY <1>1 DEF NewEntry, CachedResponse
<1>4. \A i \in Range(LiveOrder) :
          LiveCache[i].answer < NewEntry(r).answer /\ LiveCache[i].at <= NewEntry(r).at
  <2>1. \A i \in DOMAIN LiveCache : i \in DOMAIN requestCache /\ LiveCache[i] = requestCache[i]
    BY LiveIsCached
  <2>2. \A i \in DOMAIN requestCache :
            requestCache[i].answer \in 1 .. Len(answered) /\ requestCache[i].at <= now
    BY DEF IInv, QInv, Stamped, CachedAnswerIsLatest
  <2> QED BY <2>1, <2>2, <1>1, <1>2 DEF NewEntry
<1>5. /\ Range(order) = Range(LiveOrder) \cup {r.id}
      /\ Len(order) = Len(LiveOrder) + 1
      /\ Queue(order, longer)
  <2>1. r.id \notin Range(LiveOrder)
    BY <1>2
  <2> HIDE DEF order, longer
  <2>2. /\ Range(Append(LiveOrder, r.id)) = Range(LiveOrder) \cup {r.id}
        /\ Len(Append(LiveOrder, r.id)) = Len(LiveOrder) + 1
        /\ Queue(Append(LiveOrder, r.id),
                 [i \in Range(LiveOrder) \cup {r.id} |->
                     IF i = r.id THEN NewEntry(r) ELSE LiveCache[i]])
    BY <1>1, <1>2, <1>3, <1>4, <2>1, LongerIsQueue
  <2> QED BY <2>2 DEF order, longer, LongerOrder, LongerCache
<1>6. LiveOrder \in Seq(RequestIds \ {NoId}) /\ Len(LiveOrder) \in Nat
  BY <1>2 DEF Queue
<1>7. order[Len(order)] = r.id
  BY <1>1, <1>6 DEF LongerOrder
<1>8. /\ e \in 0 .. Len(order)
      /\ Len(order) - e \in 1 .. MaxEntries
  BY <1>1, <1>2, <1>5, <1>6 DEF Excess
<1> HIDE DEF order, longer, e
<1>9. requestOrder' = SubSeq(order, e + 1, Len(order))
  BY DEF Stored, order, e, LongerOrder
<1>10. IsRest(requestOrder', order, longer, e)
  BY <1>5, <1>8, <1>9, SuffixIsQueue
<1>11. requestCache' = [id \in Range(requestOrder') |-> longer[id]]
  <2>1. requestCache' =
            [id \in ((DOMAIN LiveCache) \cup {r.id}) \ {order[k] : k \in 1 .. e} |->
                IF id = r.id THEN NewEntry(r) ELSE LiveCache[id]]
    BY DEF Stored, order, e, LongerOrder, NewEntry
  <2>2. ((DOMAIN LiveCache) \cup {r.id}) \ {order[k] : k \in 1 .. e} = Range(requestOrder')
    BY <1>2, <1>5, <1>10 DEF IsRest
  <2>3. Range(requestOrder') \subseteq Range(LiveOrder) \cup {r.id}
    BY <1>5, <1>10 DEF IsRest
  <2> QED BY <2>1, <2>2, <2>3 DEF longer, LongerCache
<1>12. Queue(requestOrder', requestCache') /\ Len(requestOrder') \in 1 .. MaxEntries
  BY <1>8, <1>10, <1>11 DEF IsRest
<1> QED BY <1>5, <1>6, <1>7, <1>8, <1>10, <1>11, <1>12 DEF order, longer, e

(* After an answer the list and the map are one queue.                     *)
LEMMA AnswerQueue ==
    ASSUME IInv, NEW r \in Request, Answer(r)
    PROVE  Queue(requestOrder', requestCache') /\ Len(requestOrder') <= MaxEntries
<1>1. CASE UNCHANGED <<requestOrder, requestCache>>
  BY <1>1 DEF IInv, QInv
<1>2. CASE EvictExpired
  BY <1>2, LiveIsSuffix DEF EvictExpired
<1>3. CASE r.id # NoId /\ r.id \notin DOMAIN LiveCache /\ Stored(r)
  BY <1>3, StoredQueue
<1> QED BY <1>1, <1>2, <1>3 DEF Answer, StoreIdempotent

(* What was dropped from the cache has a full cache of younger answers     *)
(* after it.                                                               *)
LEMMA DroppedIsForgotten ==
    ASSUME IInv, NEW r \in Request, Answer(r), CachedAnswerIsLatest',
           answered' \in Seq(Logged),
           r.id # NoId, r.id \notin DOMAIN LiveCache, Stored(r),
           NEW id \in DOMAIN LiveCache, id \notin DOMAIN requestCache',
           NEW k \in Nat, k = LiveCache[id].answer, answered'[k].id = id
    PROVE  Forgotten(k)'
<1> DEFINE order == LongerOrder(r)
           longer == LongerCache(r)
           e == Excess(order)
           S == Range(requestOrder')
<1>1. /\ Queue(order, longer) /\ Range(order) = Range(LiveOrder) \cup {r.id}
      /\ IsRest(requestOrder', order, longer, e)
      /\ requestCache' = [i \in S |-> longer[i]]
      /\ Queue(requestOrder', requestCache')
      /\ e \in 0 .. Len(order) /\ Len(order) \in Nat
  BY StoredQueue
<1>2. id \in Range(LiveOrder) /\ id # r.id
  BY LiveIsSuffix
<1>3. longer[id] = LiveCache[id]
  BY <1>2 DEF LongerCache
<1> HIDE DEF order, longer, e
<1>4. id \notin S /\ id \in Range(order)
  BY <1>1, <1>2
<1>5. PICK j \in 1 .. e : id = order[j]
  BY <1>1, <1>4 DEF IsRest
<1>6. e >= 1 /\ Len(requestOrder') = MaxEntries
  <2>1. e >= 1
    BY <1>1, <1>5
  <2>2. Len(requestOrder') = Len(order) - e
    BY <1>1 DEF IsRest
  <2> QED BY <2>1, <2>2, <1>1, MaxEntriesAssumption DEF e, Excess
<1>7. \A i \in S : longer[i].answer > k
  <2> SUFFICES ASSUME NEW i \in S PROVE longer[i].answer > k
    OBVIOUS
  <2>1. PICK m \in e + 1 .. Len(order) : i = order[m]
    BY <1>1 DEF IsRest
  <2>2. j \in 1 .. Len(order) /\ m \in 1 .. Len(order) /\ j < m
    BY <1>1, <1>5, <2>1
  <2>3. longer[order[j]].answer < longer[order[m]].answer
    BY <1>1, <2>2 DEF Queue
  <2>4. longer[i].answer \in Nat
    BY <1>1 DEF IsRest, Queue, CachedResponse
  <2> QED BY <2>1, <2>3, <2>4, <1>3, <1>5
<1>8. S \subseteq AnsweredAfter(k)' \ {id}
  <2> SUFFICES ASSUME NEW i \in S PROVE i \in AnsweredAfter(k)' /\ i # id
    OBVIOUS
  <2> DEFINE m == requestCache'[i].answer
  <2>1. i \in DOMAIN requestCache' /\ i # NoId
    <3>1. requestOrder' \in Seq(RequestIds \ {NoId})
      BY <1>1 DEF Queue
    <3>2. \A y \in DOMAIN requestOrder' : requestOrder'[y] # NoId
      BY <3>1
    <3> QED BY <1>1, <3>2 DEF Range
  <2>2. m \in 1 .. Len(answered') /\ answered'[m].id = i
    BY <2>1 DEF CachedAnswerIsLatest, IsAnswerTo
  <2>3. m > k
    BY <1>1, <1>7
  <2> HIDE DEF m
  <2>4. Len(answered') \in Nat
    OBVIOUS
  <2>5. m \in k + 1 .. Len(answered')
    BY <2>2, <2>3, <2>4
  <2>6. i \in AnsweredAfter(k)'
    BY <2>1, <2>2, <2>5 DEF AnsweredAfter
  <2> QED BY <2>6, <1>4
<1>9. IsFiniteSet(S) /\ Cardinality(S) = MaxEntries
  <2>1. S = {requestOrder'[m] : m \in 0 + 1 .. Len(requestOrder')}
    BY <1>1 DEF Queue, Range
  <2>2. Len(requestOrder') \in Nat /\ 0 \in 0 .. Len(requestOrder')
    BY <1>6, MaxEntriesAssumption
  <2>3. IsFiniteSet(S) /\ Cardinality(S) = Len(requestOrder') - 0
    <3> HIDE DEF S
    <3> QED BY <2>1, <2>2, <1>1, QueueCounts
  <2> QED BY <2>3, <1>6, MaxEntriesAssumption
<1>10. Cardinality(AnsweredAfter(k)' \ {id}) >= MaxEntries
  <2> DEFINE A == AnsweredAfter(k)' \ {id}
  <2>1. A \subseteq {answered'[m].id : m \in k + 1 .. Len(answered')}
    BY DEF AnsweredAfter
  <2>2. IsFiniteSet(A) /\ Cardinality(A) \in Nat
    <3> HIDE DEF A
    <3> QED BY <2>1, AnsweredAfterIsFinite
  <2>3. S \in SUBSET A
    BY <1>8
  <2> HIDE DEF A, S
  <2>4. Cardinality(S) <= Cardinality(A)
    BY <2>2, <2>3, FS_Subset
  <2> QED BY <2>2, <2>4, <1>9, MaxEntriesAssumption DEF A
<1> QED BY <1>10 DEF Forgotten

(* After an answer each of those before it is in the cache or forgotten,   *)
(* and so is the new one.                                                  *)
LEMMA AnswerForgets ==
    ASSUME IInv, NEW r \in Request, Answer(r), CachedAnswerIsLatest',
           answered' \in Seq(Logged), QInv'
    PROVE  InCacheOrForgotten'
<1> PICK n : n = Len(answered)
  OBVIOUS
<1> DEFINE x == [id |-> r.id, type |-> r.type, at |-> now]
<1>1. /\ answered \in Seq(Logged) /\ n \in Nat /\ now \in Nat /\ TTL \in Nat
      /\ answered' = Append(answered, x) /\ now' = now
  BY TTLAssumption DEF IInv, TypeOK, Logged, Answer
<1>2. /\ Len(answered') = n + 1
      /\ answered'[n + 1].id = r.id /\ answered'[n + 1].type = r.type
      /\ \A k \in 1 .. n : answered'[k] = answered[k] /\ k \in 1 .. n + 1
  <2>1. Len(answered') = n + 1 /\ answered'[n + 1] = x
    BY <1>1
  <2>2. \A k \in 1 .. n : answered'[k] = answered[k] /\ k \in 1 .. n + 1
    BY <1>1
  <2> QED BY <2>1, <2>2
<1> HIDE DEF x
<1>3. /\ \A i \in DOMAIN LiveCache : i \in DOMAIN requestCache /\ LiveCache[i] = requestCache[i]
      /\ DOMAIN LiveCache = {i \in DOMAIN requestCache : ~ IsExpired(i)}
  BY LiveIsCached, LiveIsSuffix
<1>4. \/ r.id = NoId /\ requestCache' = requestCache
      \/ r.id # NoId /\ r.id \in DOMAIN LiveCache /\ requestCache' = LiveCache
      \/ r.id # NoId /\ r.id \notin DOMAIN LiveCache /\ Stored(r)
  BY DEF Answer, StoreIdempotent, EvictExpired
<1>5. ASSUME NEW k \in 1 .. n, Forgotten(k)
      PROVE  Forgotten(k)'
  <2>0. k \in Nat
    BY <1>1
  <2>1. CASE now - answered[k].at > TTL
    BY <2>1, <1>1, <1>2 DEF Forgotten
  <2>2. CASE Cardinality(AnsweredAfter(k) \ {answered[k].id}) >= MaxEntries
    <3> DEFINE A == AnsweredAfter(k) \ {answered[k].id}
               B == AnsweredAfter(k)' \ {answered[k].id}
    <3>1. A \in SUBSET B
      <4>1. \A m \in k + 1 .. n : m \in 1 .. n /\ m \in k + 1 .. n + 1
        BY <1>1
      <4>2. AnsweredAfter(k) = {answered[m].id : m \in k + 1 .. n} \ {NoId}
        BY DEF AnsweredAfter
      <4>3. AnsweredAfter(k)' = {answered'[m].id : m \in k + 1 .. n + 1} \ {NoId}
        BY <1>2 DEF AnsweredAfter
      <4> QED BY <4>1, <4>2, <4>3, <1>2
    <3>2. /\ IsFiniteSet(A) /\ Cardinality(A) \in Nat
          /\ IsFiniteSet(B) /\ Cardinality(B) \in Nat
      <4>1. /\ A \subseteq {answered[m].id : m \in k + 1 .. Len(answered)}
            /\ B \subseteq {answered'[m].id : m \in k + 1 .. Len(answered')}
        BY DEF AnsweredAfter
      <4> HIDE DEF A, B
      <4> QED BY <4>1, <2>0, <1>1, AnsweredAfterIsFinite
    <3>3. Cardinality(A) <= Cardinality(B)
      <4> HIDE DEF A, B
      <4> QED BY <3>1, <3>2, FS_Subset
    <3>4. Cardinality(B) >= MaxEntries
      <4>1. Cardinality(A) >= MaxEntries
        BY <2>2
      <4> HIDE DEF A, B
      <4> QED BY <4>1, <3>2, <3>3, MaxEntriesAssumption
    <3> QED BY <3>4, <1>2 DEF Forgotten
  <2>3. CASE \E m \in 1 .. Len(answered) :
                answered[m].id = answered[k].id /\ answered[m].type # answered[k].type
    BY <2>3, <1>2 DEF Forgotten
  <2> QED BY <1>5, <2>1, <2>2, <2>3 DEF Forgotten
<1>6. ASSUME NEW k \in 1 .. n, answered[k].id # NoId,
             Cached(answered[k].id), requestCache[answered[k].id].answer = k
      PROVE  \/ Forgotten(k)'
             \/ answered[k].id \in DOMAIN requestCache' /\ requestCache'[answered[k].id].answer = k
  <2> DEFINE id == answered[k].id
  <2>1. /\ id \in DOMAIN requestCache /\ requestCache[id].at = answered[k].at
        /\ k \in Nat
    BY <1>1, <1>6 DEF IInv, QInv, Stamped, Cached
  <2>2. CASE IsExpired(id)
    <3>1. now' - answered'[k].at > TTL
      BY <2>1, <2>2, <1>1, <1>2 DEF IsExpired
    <3> QED BY <3>1 DEF Forgotten
  <2>3. CASE ~ IsExpired(id)
    <3>1. id \in DOMAIN LiveCache /\ LiveCache[id].answer = k
      BY <2>1, <2>3, <1>3, <1>6
    <3>2. CASE requestCache' = requestCache \/ requestCache' = LiveCache
      BY <3>1, <3>2, <2>1, <1>6 DEF Cached
    <3>3. CASE r.id # NoId /\ r.id \notin DOMAIN LiveCache /\ Stored(r)
      <4>1. CASE id \in DOMAIN requestCache'
        <5>1. requestCache'[id] = LiveCache[id]
          <6>1. /\ requestCache' = [i \in Range(requestOrder') |-> LongerCache(r)[i]]
                /\ DOMAIN LiveCache = Range(LiveOrder)
            BY <3>3, StoredQueue, LiveIsSuffix
          <6> QED BY <6>1, <3>1, <3>3, <4>1 DEF LongerCache
        <5> QED BY <5>1, <3>1, <4>1 DEF Cached
      <4>2. CASE id \notin DOMAIN requestCache'
        <5>1. answered'[k].id = id
          BY <1>2
        <5> HIDE DEF id
        <5> QED BY <5>1, <2>1, <3>1, <3>3, <4>2, DroppedIsForgotten
      <4> QED BY <4>1, <4>2
    <3> QED BY <3>2, <3>3, <1>4
  <2> QED BY <2>2, <2>3
<1>7. ASSUME r.id # NoId
      PROVE  \/ Forgotten(n + 1)'
             \/ r.id \in DOMAIN requestCache' /\ requestCache'[r.id].answer = n + 1
  <2>1. CASE r.id \in DOMAIN LiveCache
    <3> DEFINE a == requestCache[r.id].answer
    <3>1. r.id \in DOMAIN requestCache /\ requestCache[r.id].type # r.type
      BY <2>1, <1>3 DEF IInv, MissedWhileDispatching, Cached, Answer
    <3>2. /\ a \in 1 .. n
          /\ answered[a].id = r.id /\ answered[a].type # r.type
      BY <3>1 DEF IInv, CachedAnswerIsLatest, IsAnswerTo
    <3> HIDE DEF a
    <3> QED BY <3>2, <1>2 DEF Forgotten
  <2>2. CASE r.id \notin DOMAIN LiveCache /\ Stored(r)
    <3> DEFINE last == Len(requestOrder')
    <3>1. /\ IsRest(requestOrder', LongerOrder(r), LongerCache(r), Excess(LongerOrder(r)))
          /\ LongerOrder(r)[Len(LongerOrder(r))] = r.id
          /\ Len(LongerOrder(r)) \in Nat /\ Excess(LongerOrder(r)) \in Int
          /\ last \in 1 .. MaxEntries
          /\ requestCache' = [i \in Range(requestOrder') |-> LongerCache(r)[i]]
          /\ Queue(requestOrder', requestCache')
      BY <2>2, <1>7, StoredQueue
    <3>2. last \in 1 .. last /\ last = Len(LongerOrder(r)) - Excess(LongerOrder(r))
      BY <3>1, MaxEntriesAssumption DEF IsRest
    <3>3. requestOrder'[last] = r.id
      <4>1. Excess(LongerOrder(r)) + last = Len(LongerOrder(r))
        BY <3>1, <3>2
      <4>2. requestOrder'[last] = LongerOrder(r)[Excess(LongerOrder(r)) + last]
        BY <3>1, <3>2 DEF IsRest
      <4> QED BY <3>1, <4>1, <4>2
    <3>4. r.id \in Range(requestOrder')
      BY <3>1, <3>2, <3>3 DEF Range, Queue
    <3>5. requestCache'[r.id].answer = n + 1
      BY <3>1, <3>4 DEF LongerCache, NewEntry
    <3> QED BY <3>1, <3>4, <3>5 DEF Cached
  <2> QED BY <2>1, <2>2, <1>4, <1>7
<1>8. ASSUME NEW k \in 1 .. Len(answered'), answered'[k].id # NoId
      PROVE  \/ Forgotten(k)'
             \/ /\ answered'[k].id \in DOMAIN requestCache'
                /\ requestCache'[answered'[k].id].answer = k
  <2>1. CASE k = n + 1
    BY <2>1, <1>2, <1>7, <1>8 DEF Cached
  <2>2. CASE k \in 1 .. n
    <3>1. answered'[k].id = answered[k].id
      BY <2>2, <1>2
    <3>2. answered[k].id # NoId
      BY <3>1, <1>8
    <3>3. \/ Forgotten(k)
          \/ Cached(answered[k].id) /\ requestCache[answered[k].id].answer = k
      BY <2>2, <3>2 DEF IInv, InCacheOrForgotten
    <3> QED BY <3>1, <3>2, <3>3, <2>2, <1>5, <1>6
  <2>3. k = n + 1 \/ k \in 1 .. n
    BY <1>1, <1>2
  <2> QED BY <2>1, <2>2, <2>3
<1> QED BY <1>8 DEF InCacheOrForgotten, Cached

(* The new answer is the latest to its request, and no other entry was an  *)
(* answer to that request.                                                 *)
LEMMA AnswerIInv ==
    ASSUME IInv, NEW r \in Request, Answer(r)
    PROVE  IInv'
<1> DEFINE x == [id |-> r.id, type |-> r.type, at |-> now]
           new == [type |-> r.type, answer |-> Len(answered) + 1, at |-> now]
<1>1. /\ answered' = Append(answered, x) /\ now' = now /\ dispatching' = {}
      /\ told' = {[id |-> r.id, type |-> r.type, answer |-> Len(answered) + 1]}
  BY DEF Answer, Tell
<1>2. /\ r.id \in RequestIds /\ r.type \in EventTypes /\ now \in Nat
      /\ answered \in Seq(Logged) /\ Len(answered) \in Nat
  BY DEF Request, IInv, TypeOK, Logged
<1>3. x \in Logged /\ new \in CachedResponse
  BY <1>2 DEF Logged, CachedResponse
<1>4. x.id = r.id /\ x.type = r.type /\ new.answer = Len(answered) + 1 /\ new.type = x.type
  OBVIOUS
<1> HIDE DEF x, new
<1>5. ASSUME NEW id \in DOMAIN requestCache'
      PROVE  /\ id \in RequestIds \ {NoId}
             /\ requestCache'[id] \in CachedResponse
             /\ Latest(requestCache'[id], id, answered')
  <2>1. CASE /\ id \in DOMAIN requestCache
             /\ requestCache'[id] = requestCache[id]
             /\ ~ (r.id = id /\ r.type = requestCache[id].type)
    <3>1. id \in RequestIds \ {NoId} /\ requestCache[id] \in CachedResponse
      BY <2>1 DEF IInv, TypeOK
    <3>2. Latest(requestCache[id], id, answered)
      BY <2>1, LatestEntries DEF IInv
    <3>3. Latest(requestCache[id], id, Append(answered, x))
      BY <2>1, <3>1, <3>2, <1>2, <1>3, <1>4, OthersStayLatest
    <3> QED BY <2>1, <3>1, <3>3, <1>1
  <2>2. CASE id = r.id /\ id # NoId /\ requestCache'[id] = new
    <3>1. Latest(new, x.id, Append(answered, x))
      BY <1>2, <1>3, <1>4, NewestIsLatest
    <3> QED BY <2>2, <3>1, <1>1, <1>2, <1>3, <1>4
  <2> QED BY <2>1, <2>2, AnswerEntries DEF new
<1>6. TypeOK'
  <2>1. requestCache' \in [DOMAIN requestCache' -> CachedResponse]
    BY AnswerQueue DEF Queue
  <2>4. requestOrder' \in Seq(RequestIds \ {NoId})
    BY AnswerQueue DEF Queue
  <2>2. answered' \in Seq(Logged)
    BY <1>1, <1>2, <1>3
  <2>3. told' \subseteq Reply
    BY <1>1, <1>2 DEF Reply
  <2> QED BY <1>1, <1>2, <1>5, <2>1, <2>2, <2>3, <2>4 DEF TypeOK, Logged
<1>7. CachedAnswerIsLatest'
  BY <1>5 DEF CachedAnswerIsLatest, IsAnswerTo, Latest
<1>8. MissedWhileDispatching'
  BY <1>1 DEF MissedWhileDispatching
<1>9. QInv'
  <2>1. ASSUME NEW id \in DOMAIN requestCache'
        PROVE  /\ requestCache'[id].at <= now'
               /\ requestCache'[id].at = answered'[requestCache'[id].answer].at
    <3>1. CASE id \in DOMAIN requestCache /\ requestCache'[id] = requestCache[id]
      <4> DEFINE a == requestCache[id].answer
      <4>1. /\ a \in 1 .. Len(answered) /\ requestCache[id].at <= now
            /\ requestCache[id].at = answered[a].at
        BY <3>1 DEF IInv, QInv, Stamped, CachedAnswerIsLatest
      <4> HIDE DEF a
      <4>2. Append(answered, x)[a] = answered[a]
        BY <4>1, <1>2, <1>3
      <4> QED BY <3>1, <4>1, <4>2, <1>1 DEF a
    <3>2. CASE requestCache'[id] = new
      <4>1. Append(answered, x)[Len(answered) + 1] = x /\ x.at = now
        BY <1>2, <1>3 DEF x
      <4>2. new.at = now
        BY DEF new
      <4> QED BY <3>2, <4>1, <4>2, <1>1, <1>2, <1>4
    <3> QED BY <3>1, <3>2, AnswerEntries DEF new
  <2> QED BY <2>1, AnswerQueue DEF QInv, Stamped
<1>10. InCacheOrForgotten'
  <2>1. answered' \in Seq(Logged)
    BY <1>1, <1>2, <1>3
  <2> QED BY <2>1, <1>7, <1>9, AnswerForgets
<1> QED BY <1>6, <1>7, <1>8, <1>9, <1>10 DEF IInv

LEMMA NextIInv == IInv /\ [Next]_vars => IInv'
BY LookupIInv, AnswerIInv, ElseIInv DEF Next

(* The cache, the request under way and the log keep their shape, whatever *)
(* the ids, the types and the bounds (ws_hub.go 95-168).                   *)
THEOREM TypeCorrect == Spec => []TypeOK
<1>1. IInv => TypeOK
  BY DEF IInv
<1> QED BY <1>1, InitIInv, NextIInv, PTL DEF Spec

(* A repeated request gets the answer to the latest execution of that very *)
(* request, for any bound, any TTL and a connection of any length: never   *)
(* that of an older one, nor that of another event under its id            *)
(* (ws_hub.go 97-120).                                                     *)
THEOREM RepeatsGetLatestAnswer == Spec => []CachedAnswerIsLatest
<1>1. IInv => CachedAnswerIsLatest
  BY DEF IInv
<1> QED BY <1>1, InitIInv, NextIInv, PTL DEF Spec

(* The list and the map are one queue, whatever the ids, the bound and the *)
(* TTL: the same ids, each once, no more than the bound, the oldest at the *)
(* head (ws_hub.go 122-168).                                               *)
THEOREM CacheAlwaysOneQueue == Spec => []OrderMatchesCache
<1>1. IInv => OrderMatchesCache
  <2> SUFFICES ASSUME IInv PROVE OrderMatchesCache
    OBVIOUS
  <2>1. /\ Queue(requestOrder, requestCache) /\ Len(requestOrder) <= MaxEntries
        /\ DOMAIN requestOrder = 1 .. Len(requestOrder)
    BY DEF IInv, QInv, Queue
  <2>2. Range(requestOrder) = DOMAIN requestCache
    BY <2>1 DEF Queue
  <2> QED BY <2>1, <2>2 DEF OrderMatchesCache, Queue
<1> QED BY <1>1, InitIInv, NextIInv, PTL DEF Spec

(* A request that is dispatched although it was answered has been          *)
(* forgotten for one of the reasons.                                       *)
LEMMA DispatchedIsForgotten ==
    ASSUME IInv, Next, NEW r \in Request, dispatching = {}, dispatching' = {r},
           r.id # NoId, NEW k \in 1 .. Len(answered), IsAnswerTo(k, r.id, r.type)
    PROVE  Forgotten(k)
<1>1. Dispatch(r)
  <2>1. PICK q \in Request : Replay(q) \/ Dispatch(q) \/ Answer(q)
    BY DEF Next, Tick, Reconnect
  <2>2. ~ Answer(q) /\ ~ Replay(q)
    BY DEF Answer, Replay
  <2>3. Dispatch(q) /\ {q} = {r}
    BY <2>1, <2>2 DEF Dispatch
  <2> QED BY <2>3
<1>2. ~ Hit(r)
  BY <1>1 DEF Dispatch
<1> SUFFICES ASSUME ~ Forgotten(k) PROVE FALSE
  OBVIOUS
<1>3. answered[k].id = r.id /\ answered[k].type = r.type
  BY DEF IsAnswerTo
<1>4. Cached(r.id) /\ requestCache[r.id].answer = k
  BY <1>3 DEF IInv, InCacheOrForgotten
<1>5. requestCache[r.id].type = r.type /\ requestCache[r.id].at = answered[k].at
  BY <1>3, <1>4 DEF IInv, CachedAnswerIsLatest, IsAnswerTo, QInv, Stamped, Cached
<1>6. ~ IsExpired(r.id)
  BY <1>5 DEF Forgotten, IsExpired
<1>7. r.id \in DOMAIN LiveCache /\ LiveCache[r.id] = requestCache[r.id]
  BY <1>4, <1>6, LiveIsCached, LiveIsSuffix DEF Cached
<1> QED BY <1>2, <1>5, <1>7 DEF Hit

(* A request received again changes no state a second time, unless its     *)
(* answer is older than the TTL, MaxEntries others came after it, or its   *)
(* id also named an event of another type: for any bound, any TTL and a    *)
(* connection of any length (handleWebSocket; the promise of               *)
(* docs/commits/commit-20260307-0453-feat-idempotent-ws-and-redis-table-snapshot.md:8). *)
THEOREM NeverExecutedAgain == Spec => NotExecutedAgain
<1>1. IInv /\ [Next]_vars =>
        [\A r \in Request :
            dispatching = {} /\ dispatching' = {r} /\ r.id # NoId =>
                \A k \in 1 .. Len(answered) :
                    IsAnswerTo(k, r.id, r.type) => Forgotten(k)]_vars
  BY DispatchedIsForgotten
<1> QED BY <1>1, InitIInv, NextIInv, PTL DEF Spec, NotExecutedAgain

-----------------------------------------------------------------------------
(* The refinement of RequestMemory.                                        *)

(* What has not expired is what the memory calls fresh.                    *)
LEMMA FreshIsLive ==
    ASSUME IInv
    PROVE  Memory!Fresh = Answers(LiveCache)
<1>1. /\ DOMAIN LiveCache = {id \in DOMAIN requestCache : ~ IsExpired(id)}
      /\ \A id \in DOMAIN LiveCache : LiveCache[id] = requestCache[id]
  BY LiveIsCached, LiveIsSuffix
<1>2. now \in Nat /\ TTL \in Nat /\ \A id \in DOMAIN requestCache : requestCache[id].at \in Nat
  BY TTLAssumption DEF IInv, TypeOK, CachedResponse
<1>3. \A id \in DOMAIN requestCache : (now - requestCache[id].at <= TTL) <=> ~ IsExpired(id)
  BY <1>2 DEF IsExpired
<1> QED BY <1>1, <1>3 DEF Answers, Memory!Fresh

(* The memory counts as this module does.                                  *)
LEMMA SameCardinality == \A S : Memory!Cardinality(S) = Cardinality(S)
BY DEF Memory!Cardinality, Cardinality

(* The youngest answers of a queue are those its end keeps.                *)
LEMMA YoungestIsSuffix ==
    ASSUME NEW order, NEW cache, Queue(order, cache), NEW rest,
           Excess(order) \in 0 .. Len(order), IsRest(rest, order, cache, Excess(order))
    PROVE  Memory!Youngest(Answers(cache)) = Answers([id \in Range(rest) |-> cache[id]])
<1> DEFINE E == Answers(cache)
           n == Len(order)
           answer(k) == [id |-> order[k], type |-> cache[order[k]].type,
                         answer |-> cache[order[k]].answer, at |-> cache[order[k]].at]
           younger(k) == {f \in E : f.answer > cache[order[k]].answer}
<1>1. /\ n \in Nat /\ MaxEntries \in Nat
      /\ Range(order) = {order[k] : k \in 1 .. n} /\ DOMAIN cache = Range(order)
      /\ \A k \in 1 .. n : order[k] \in Range(order)
  BY MaxEntriesAssumption DEF Queue, Range
<1>2. E = {answer(k) : k \in 1 .. n}
  BY <1>1 DEF Answers
<1>3. \A k \in 1 .. n : cache[order[k]].answer \in Nat
  BY <1>1 DEF Queue, CachedResponse
<1>4. ASSUME NEW k \in 1 .. n
      PROVE  Cardinality(younger(k)) = n - k
  <2>1. ASSUME NEW j \in 1 .. n
        PROVE  cache[order[j]].answer > cache[order[k]].answer <=> j > k
    <3>1. CASE j > k
      BY <3>1 DEF Queue
    <3>2. CASE j = k
      BY <3>2, <1>3
    <3>3. CASE k > j
      <4>1. cache[order[j]].answer < cache[order[k]].answer
        BY <3>3 DEF Queue
      <4> QED BY <4>1, <3>3, <1>3
    <3> QED BY <3>1, <3>2, <3>3
  <2> DEFINE S == {order[j] : j \in k + 1 .. n}
             f == [id \in S |-> [id |-> id, type |-> cache[id].type,
                                 answer |-> cache[id].answer, at |-> cache[id].at]]
  <2>2. IsFiniteSet(S) /\ Cardinality(S) = n - k
    <3>1. k \in 0 .. n
      OBVIOUS
    <3> QED BY <3>1, QueueCounts
  <2>3. \A j \in 1 .. n : j > k <=> j \in k + 1 .. n
    BY <1>1
  <2>4. younger(k) = {answer(j) : j \in k + 1 .. n}
    <3>1. \A j \in k + 1 .. n : j \in 1 .. n
      BY <1>1
    <3>2. \A j \in 1 .. n : answer(j).answer = cache[order[j]].answer
      OBVIOUS
    <3>3. younger(k) = {y \in {answer(j) : j \in 1 .. n} : y.answer > cache[order[k]].answer}
      BY <1>2
    <3> HIDE DEF E, younger, answer
    <3> QED BY <3>1, <3>2, <3>3, <2>1, <2>3
  <2>5. f \in [S -> younger(k)] /\ \A y \in younger(k) : \E id \in S : f[id] = y
    <3>1. \A j \in k + 1 .. n : order[j] \in S /\ f[order[j]] = answer(j)
      OBVIOUS
    <3>2. \A id \in S : \E j \in k + 1 .. n : id = order[j]
      OBVIOUS
    <3>3. f = [id \in S |-> f[id]]
      OBVIOUS
    <3> HIDE DEF f, S, answer, younger
    <3> QED BY <3>1, <3>2, <3>3, <2>4
  <2>6. \A i, j \in S : f[i] = f[j] => i = j
    <3>1. \A i \in S : f[i].id = i
      OBVIOUS
    <3> HIDE DEF f, S
    <3> QED BY <3>1
  <2> HIDE DEF f, S, younger
  <2>7. f \in Surjection(S, younger(k)) /\ f \in Injection(S, younger(k))
    BY <2>5, <2>6 DEF Surjection, Injection, IsInjective
  <2> QED BY <2>2, <2>7, FS_Surjection
<1>5. \A k \in 1 .. n : Cardinality(younger(k)) < MaxEntries <=> k \in Excess(order) + 1 .. n
  <2> HIDE DEF younger
  <2> QED BY <1>1, <1>4 DEF Excess
<1>6. Memory!Youngest(E) = {answer(k) : k \in Excess(order) + 1 .. n}
  <2>1. Memory!Youngest(E) =
            {e \in E : Cardinality({f \in E : f.answer > e.answer}) < MaxEntries}
    <3> HIDE DEF E
    <3> QED BY SameCardinality DEF Memory!Youngest
  <2>2. \A k \in 1 .. n : {f \in E : f.answer > answer(k).answer} = younger(k)
    OBVIOUS
  <2>3. \A k \in Excess(order) + 1 .. n : k \in 1 .. n
    BY <1>1
  <2> HIDE DEF E, younger, answer
  <2> QED BY <2>1, <2>2, <2>3, <1>2, <1>5
<1>7. Answers([id \in Range(rest) |-> cache[id]]) = {answer(k) : k \in Excess(order) + 1 .. n}
  <2>1. Range(rest) = {order[k] : k \in Excess(order) + 1 .. n}
    BY DEF IsRest
  <2> DEFINE c == [id \in Range(rest) |-> cache[id]]
  <2>2. /\ DOMAIN c = Range(rest)
        /\ \A id \in Range(rest) : c[id] = cache[id]
    OBVIOUS
  <2> HIDE DEF c
  <2>3. Answers(c) = {[id |-> id, type |-> cache[id].type, answer |-> cache[id].answer,
                       at |-> cache[id].at] : id \in Range(rest)}
    BY <2>2 DEF Answers
  <2>4. Answers(c) = {answer(k) : k \in Excess(order) + 1 .. n}
    BY <2>1, <2>3
  <2> QED BY <2>4 DEF c
<1> QED BY <1>6, <1>7

(* A repeated request is answered from the memory.                         *)
LEMMA ReplayRepeats ==
    ASSUME IInv, NEW r \in Request, Replay(r)
    PROVE  Memory!Repeat(r)
<1> DEFINE e == [id |-> r.id, type |-> LiveCache[r.id].type,
                 answer |-> LiveCache[r.id].answer, at |-> LiveCache[r.id].at]
<1>1. r.id \in DOMAIN LiveCache /\ LiveCache[r.id].type = r.type
  BY DEF Replay, Hit
<1>2. e \in Memory!Fresh
  BY <1>1, FreshIsLive DEF Answers
<1>3. Answers(requestCache') = Memory!Fresh
  BY FreshIsLive DEF Replay, EvictExpired
<1>4. told' = {Memory!Reply(r, e.answer)}
  BY DEF Replay, Tell, Memory!Reply
<1>5. e.id = r.id /\ e.type = r.type
  BY <1>1
<1> HIDE DEF e
<1>6. dispatching = {} /\ dispatching' = dispatching /\ now' = now /\ answered' = answered
  BY DEF Replay
<1> QED BY <1>2, <1>3, <1>4, <1>5, <1>6 DEF Memory!Repeat

(* A request that is dispatched is not in the memory under its type.       *)
LEMMA DispatchExecutes ==
    ASSUME IInv, NEW r \in Request, Dispatch(r)
    PROVE  Memory!Execute(r)
<1>1. r = [id |-> r.id, type |-> r.type]
  BY DEF Request
<1>2. \A e \in Memory!Fresh : [id |-> e.id, type |-> e.type] # r
  <2> SUFFICES ASSUME NEW e \in Memory!Fresh, [id |-> e.id, type |-> e.type] = r
               PROVE  FALSE
    OBVIOUS
  <2>1. e.id = r.id /\ e.type = r.type
    BY <1>1
  <2>2. PICK id \in DOMAIN LiveCache :
            e = [id |-> id, type |-> LiveCache[id].type, answer |-> LiveCache[id].answer,
                 at |-> LiveCache[id].at]
    BY FreshIsLive DEF Answers
  <2>3. r.id \in DOMAIN LiveCache /\ LiveCache[r.id].type = r.type
    BY <2>1, <2>2
  <2>4. r.id # NoId
    BY <2>3, LiveIsCached DEF IInv, TypeOK
  <2> QED BY <2>3, <2>4 DEF Dispatch, Hit
<1>3. Answers(requestCache') =
          IF r.id = NoId THEN Answers(requestCache) ELSE Memory!Fresh
  BY FreshIsLive DEF Dispatch, EvictExpired
<1> QED BY <1>2, <1>3 DEF Dispatch, Memory!Execute

(* An answer enters the memory and drives out the oldest, unless its id is *)
(* remembered.                                                             *)
LEMMA AnswerFinishes ==
    ASSUME IInv, NEW r \in Request, Answer(r)
    PROVE  Memory!Finish
<1>1. /\ r \in dispatching /\ dispatching' = {} /\ now' = now
      /\ told' = {Memory!Reply(r, Len(answered) + 1)}
      /\ Len(answered') = Len(answered) + 1
  <2>1. /\ answered \in Seq(Logged) /\ now \in Nat
        /\ r.id \in RequestIds /\ r.type \in EventTypes
    BY DEF IInv, TypeOK, Logged, Request
  <2>2. [id |-> r.id, type |-> r.type, at |-> now] \in Logged
    BY <2>1 DEF Logged
  <2>3. Len(answered') = Len(answered) + 1
    BY <2>1, <2>2 DEF Answer
  <2> QED BY <2>3 DEF Answer, Tell, Memory!Reply
<1>2. Memory!Remembered(r.id) <=> r.id \in DOMAIN LiveCache
  <2>1. Memory!Remembered(r.id) <=> \E e \in Answers(LiveCache) : e.id = r.id
    BY FreshIsLive DEF Memory!Remembered
  <2>2. \A e \in Answers(LiveCache) : e.id \in DOMAIN LiveCache
    BY DEF Answers
  <2>3. \A id \in DOMAIN LiveCache : \E e \in Answers(LiveCache) : e.id = id
    <3> SUFFICES ASSUME NEW id \in DOMAIN LiveCache
                 PROVE  \E e \in Answers(LiveCache) : e.id = id
      OBVIOUS
    <3> DEFINE e == [id |-> id, type |-> LiveCache[id].type,
                     answer |-> LiveCache[id].answer, at |-> LiveCache[id].at]
    <3>1. e \in Answers(LiveCache) /\ e.id = id
      BY DEF Answers
    <3> QED BY <3>1
  <2> QED BY <2>1, <2>2, <2>3
<1>3. Answers(requestCache') =
        IF r.id = NoId THEN Answers(requestCache)
        ELSE IF Memory!Remembered(r.id) THEN Memory!Fresh
        ELSE Memory!Youngest(Memory!Fresh \cup
                {[id |-> r.id, type |-> r.type, answer |-> Len(answered'), at |-> now]})
  <2>1. CASE r.id = NoId
    BY <2>1 DEF Answer, StoreIdempotent
  <2>2. CASE r.id # NoId /\ r.id \in DOMAIN LiveCache
    BY <2>2, <1>2, FreshIsLive DEF Answer, StoreIdempotent, EvictExpired
  <2>3. CASE r.id # NoId /\ r.id \notin DOMAIN LiveCache
    <3> DEFINE order == LongerOrder(r)
               longer == LongerCache(r)
    <3>1. Stored(r)
      BY <2>3 DEF Answer, StoreIdempotent
    <3>2. /\ Queue(order, longer)
          /\ Excess(order) \in 0 .. Len(order)
          /\ IsRest(requestOrder', order, longer, Excess(order))
          /\ requestCache' = [id \in Range(requestOrder') |-> longer[id]]
      BY <2>3, <3>1, StoredQueue
    <3>3. Answers(longer) = Memory!Fresh \cup
              {[id |-> r.id, type |-> r.type, answer |-> Len(answered'), at |-> now]}
      <4>1. /\ DOMAIN longer = DOMAIN LiveCache \cup {r.id}
            /\ longer[r.id] = NewEntry(r)
            /\ \A id \in DOMAIN LiveCache : longer[id] = LiveCache[id]
        <5>1. DOMAIN LiveCache = Range(LiveOrder)
          BY LiveIsSuffix
        <5> QED BY <5>1, <2>3 DEF LongerCache
      <4> HIDE DEF longer
      <4> QED BY <4>1, <1>1, FreshIsLive DEF Answers, NewEntry
    <3> HIDE DEF order, longer
    <3>4. Memory!Youngest(Answers(longer)) = Answers(requestCache')
      BY <3>2, YoungestIsSuffix
    <3> QED BY <2>3, <1>2, <3>3, <3>4
  <2> QED BY <2>1, <2>2, <2>3
<1> QED BY <1>1, <1>3 DEF Memory!Finish

(* Every step of the cache is a step of the memory or leaves it alone.     *)
LEMMA StepsAreMemorySteps ==
    ASSUME IInv, [Next]_vars
    PROVE  [Memory!MemoryNext]_(Memory!memoryVars)
<1>1. CASE \E r \in Request : Replay(r) \/ Dispatch(r) \/ Answer(r)
  <2>1. \A r \in Request : r \in Memory!Request
    BY DEF Request, Memory!Request
  <2> QED BY <1>1, <2>1, ReplayRepeats, DispatchExecutes, AnswerFinishes DEF Memory!MemoryNext
<1>2. CASE Tick
  <2>1. Memory!Pass
    BY <1>2 DEF Tick, Memory!Pass
  <2> QED BY <2>1 DEF Memory!MemoryNext
<1>3. CASE Reconnect
  <2>1. Memory!Lose
    BY <1>3 DEF Reconnect, Memory!Lose, Answers
  <2> QED BY <2>1 DEF Memory!MemoryNext
<1>4. CASE UNCHANGED vars
  BY <1>4 DEF vars, Memory!memoryVars
<1> QED BY <1>1, <1>2, <1>3, <1>4 DEF Next

(* The cache implements the memory of answers it is for, for any ids,      *)
(* types, bound and TTL and a connection of any length: what is looked up, *)
(* kept and dropped is what an abstract set of the youngest answers        *)
(* prescribes (ws_hub.go 95-168).                                          *)
THEOREM CacheImplementsMemory == Spec => ImplementsMemory
<1>1. Init => Memory!MemoryInit
  BY DEF Init, Memory!MemoryInit, Answers
<1>2. IInv /\ [Next]_vars => [Memory!MemoryNext]_(Memory!memoryVars)
  BY StepsAreMemorySteps
<1> QED BY <1>1, <1>2, InitIInv, NextIInv, PTL
        DEF Spec, ImplementsMemory, Memory!MemorySpec
=============================================================================
