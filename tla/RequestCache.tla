---------------------------- MODULE RequestCache ----------------------------
(***************************************************************************)
(* The idempotency cache of a WebSocket connection (ws_hub.go: wsClient)   *)
(* and the loop of handleWebSocket around it: a request whose id is cached *)
(* under its type is answered from the cache, any other is dispatched and  *)
(* its answer stored.  The cache is a map from ids to answers and a list   *)
(* of the same ids in the order they were stored.                          *)
(*                                                                         *)
(* One goroutine reads the requests of a connection one after the other,   *)
(* so nothing but time comes between the lookup and the store.  A client   *)
(* that has lost its connection opens another, whose cache is empty.       *)
(***************************************************************************)
EXTENDS Integers, Sequences, FiniteSets, Functions

CONSTANTS RequestIds, NoId, EventTypes, MaxEntries, TTL

CONSTANTS
    MaxRequests,    \* bound: requests dispatched on a connection
    MaxNow          \* bound: the clock

ASSUME NoIdAssumption == NoId \in RequestIds
ASSUME MaxEntriesAssumption == MaxEntries \in Nat \ {0}
ASSUME TTLAssumption == TTL \in Nat
ASSUME BoundsAssumption == MaxRequests \in Nat /\ MaxNow \in Nat

Request == [id : RequestIds, type : EventTypes]

\* cachedResponse; the envelopes are known by the number of their answer.
CachedResponse == [type : EventTypes, answer : Nat, at : Nat]

VARIABLES
    requestOrder,    \* the ids in the order they were stored
    requestCache,    \* the cachedResponse of each id in the cache
    dispatching,     \* the request being handled, in a set of at most one
    now,
    told,            \* the answer just written, in a set of at most one
    answered         \* history: the requests dispatched on this connection

vars == <<requestOrder, requestCache, dispatching, now, told, answered>>

Reply == [id : RequestIds, type : EventTypes, answer : Nat]

TypeOK ==
    /\ requestOrder \in Seq(RequestIds \ {NoId})
    /\ DOMAIN requestCache \subseteq RequestIds \ {NoId}
    /\ requestCache \in [DOMAIN requestCache -> CachedResponse]
    /\ dispatching \subseteq Request
    /\ now \in Nat
    /\ told \subseteq Reply
    /\ answered \in Seq([id : RequestIds, type : EventTypes, at : Nat])

Init ==
    /\ requestOrder = <<>>
    /\ requestCache = <<>>
    /\ dispatching = {}
    /\ now = 0
    /\ told = {}
    /\ answered = <<>>

-----------------------------------------------------------------------------

Cached(id) == id \in DOMAIN requestCache

\* An expiry one tick early.
IsExpiredEarly(id) == now - requestCache[id].at >= TTL

IsExpired(id) == now - requestCache[id].at > TTL

\* What a pass over a list leaves of it (written as a function over the places
\* of the list, so that it can be reasoned about).
Filtered(order, kept) ==
    LET filtered[k \in 0 .. Len(order)] ==
            IF k = 0 THEN <<>>
            ELSE IF order[k] \in kept THEN Append(filtered[k - 1], order[k])
            ELSE filtered[k - 1]
    IN  filtered[Len(order)]

\* evictExpiredLocked: what is left of the list, and of the map.
LiveOrder == Filtered(requestOrder, {id \in RequestIds : Cached(id) /\ ~ IsExpired(id)})

LiveCache ==
    Restrict(requestCache,
             {id \in DOMAIN requestCache :
                ~ (id \in Range(requestOrder) /\ IsExpired(id))})

EvictExpired ==
    /\ requestOrder' = LiveOrder
    /\ requestCache' = LiveCache

\* A lookup by id alone.
HitAnyType(r) == r.id \in DOMAIN LiveCache

\* A lookup with an expiry of its own, which differs at the last moment.
HitEarly(r) ==
    /\ r.id \in DOMAIN LiveCache
    /\ LiveCache[r.id].type = r.type
    /\ now - LiveCache[r.id].at < TTL

Hit(r) == r.id \in DOMAIN LiveCache /\ LiveCache[r.id].type = r.type

Tell(r, answer) == told' = {[id |-> r.id, type |-> r.type, answer |-> answer]}

\* ReplayIdempotent that finds the request: the answer is written again.
Replay(r) ==
    /\ dispatching = {}
    /\ r.id # NoId
    /\ Hit(r)
    /\ Tell(r, LiveCache[r.id].answer)
    /\ EvictExpired
    /\ UNCHANGED <<dispatching, now, answered>>

\* ReplayIdempotent that does not, and dispatchClientEvent.
Dispatch(r) ==
    /\ dispatching = {}
    /\ Len(answered) < MaxRequests
    /\ \/ r.id = NoId /\ UNCHANGED <<requestOrder, requestCache>>
       \/ r.id # NoId /\ ~ Hit(r) /\ EvictExpired
    /\ dispatching' = {r}
    /\ told' = {}
    /\ UNCHANGED <<now, answered>>

\* A bound that is checked before the new id is in the list.
ExcessBefore(order) == IF Len(order) - 1 > MaxEntries THEN 1 ELSE 0

\* How many of a list of ids have to go.
Excess(order) ==
    IF Len(order) > MaxEntries THEN Len(order) - MaxEntries ELSE 0

\* One more answer, and the oldest dropped from the list and the map until the
\* bound is kept.
Stored(r) ==
    LET order == Append(LiveOrder, r.id)
        dropped == {order[k] : k \in 1 .. Excess(order)}
        stored == [type |-> r.type, answer |-> Len(answered) + 1, at |-> now]
    IN  /\ requestOrder' = SubSeq(order, Excess(order) + 1, Len(order))
        /\ requestCache' =
             [id \in ((DOMAIN LiveCache) \cup {r.id}) \ dropped |->
                IF id = r.id THEN stored ELSE LiveCache[id]]

\* A store that takes a missing id for one that is empty.
StoreAnyId(r) ==
    \/ r.id \in DOMAIN LiveCache /\ EvictExpired
    \/ r.id \notin DOMAIN LiveCache /\ Stored(r)

\* StoreIdempotent; a handler that returns no error has at least one response.
StoreIdempotent(r) ==
    \/ r.id = NoId /\ UNCHANGED <<requestOrder, requestCache>>
    \/ r.id # NoId /\ r.id \in DOMAIN LiveCache /\ EvictExpired
    \/ r.id # NoId /\ r.id \notin DOMAIN LiveCache /\ Stored(r)

\* The handler answers, and the answer is stored.
Answer(r) ==
    /\ r \in dispatching
    /\ Tell(r, Len(answered) + 1)
    /\ StoreIdempotent(r)
    /\ dispatching' = {}
    /\ answered' = Append(answered, [id |-> r.id, type |-> r.type, at |-> now])
    /\ UNCHANGED now

-----------------------------------------------------------------------------

Tick ==
    /\ now < MaxNow
    /\ now' = now + 1
    /\ told' = {}
    /\ UNCHANGED <<requestOrder, requestCache, dispatching, answered>>

\* The connection ends, by an error of a handler, of a write or of the peer,
\* and the client opens another.
Reconnect ==
    /\ requestOrder' = <<>>
    /\ requestCache' = <<>>
    /\ dispatching' = {}
    /\ answered' = <<>>
    /\ told' = {}
    /\ UNCHANGED now

Next ==
    \/ \E r \in Request : Replay(r) \/ Dispatch(r) \/ Answer(r)
    \/ Tick
    \/ Reconnect

Spec == Init /\ [][Next]_vars
=============================================================================
