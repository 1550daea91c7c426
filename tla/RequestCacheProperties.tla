----------------------- MODULE RequestCacheProperties -----------------------
(* What a client that repeats a request may count on.                      *)
EXTENDS RequestCache

\* The list and the map are one queue: they hold the same ids, each once, no
\* more than the bound, and the list is in the order of the answers, so that
\* its head is the oldest (ws_hub.go 122-168).
OrderMatchesCache ==
    /\ Range(requestOrder) = DOMAIN requestCache
    /\ Len(requestOrder) <= MaxEntries
    /\ \A j, k \in DOMAIN requestOrder : j < k =>
            requestCache[requestOrder[j]].answer
                < requestCache[requestOrder[k]].answer

IsAnswerTo(k, id, type) == answered[k].id = id /\ answered[k].type = type

\* A repeated request gets the answer to the latest execution of that very
\* request on this connection, never that of an older one or of another event
\* with its id (ws_hub.go 97-120).
CachedAnswerIsLatest ==
    \A id \in DOMAIN requestCache :
        LET entry == requestCache[id]
        IN  /\ entry.answer \in 1 .. Len(answered)
            /\ IsAnswerTo(entry.answer, id, entry.type)
            /\ \A k \in entry.answer + 1 .. Len(answered) :
                    ~ IsAnswerTo(k, id, entry.type)

\* The ids answered after answer k.
AnsweredAfter(k) == {answered[m].id : m \in k + 1 .. Len(answered)} \ {NoId}

\* What excuses that a request answered as k is executed again.
Forgotten(k) ==
    \/ now - answered[k].at > TTL
    \/ Cardinality(AnsweredAfter(k) \ {answered[k].id}) >= MaxEntries
    \/ \E m \in 1 .. Len(answered) :
            answered[m].id = answered[k].id /\ answered[m].type # answered[k].type

\* docs/commits/commit-20260307-0453-feat-idempotent-ws-and-redis-table-snapshot.md:8:
\* a request received again changes no state a second time.  A request with an
\* id is executed again on its connection only if its answer is older than the
\* TTL, MaxEntries others came after it, or its id also named an event of
\* another type (handleWebSocket).
NotExecutedAgain ==
    [][\A r \in Request :
        dispatching = {} /\ dispatching' = {r} /\ r.id # NoId =>
            \A k \in 1 .. Len(answered) :
                IsAnswerTo(k, r.id, r.type) => Forgotten(k)]_vars

\* The answers in a map, each with its id.
Answers(cache) ==
    {[id |-> id, type |-> cache[id].type, answer |-> cache[id].answer,
      at |-> cache[id].at] : id \in DOMAIN cache}

\* The memory this cache is for: the refinement maps the list and the map to
\* one set of answers.
Memory == INSTANCE RequestMemory WITH
    memory <- Answers(requestCache),
    executing <- dispatching,
    count <- Len(answered)

ImplementsMemory == Memory!MemorySpec
=============================================================================
