---------------------------- MODULE RequestMemory ----------------------------
(***************************************************************************)
(* What a WebSocket connection promises about repeated requests: an        *)
(* abstract memory of the answers it gave.  A request that is remembered   *)
(* under its id and its event type is answered from the memory, any other  *)
(* is executed.  An answer is remembered for TTL at most, and only the     *)
(* MaxEntries youngest are; an id that is remembered is not taken in a     *)
(* second time.                                                            *)
(***************************************************************************)
EXTENDS Integers, FiniteSets

CONSTANTS
    RequestIds,    \* the request ids a client may send
    NoId,          \* the empty request id
    EventTypes,    \* the types of requests
    MaxEntries,    \* maxIdempotencyEntries (128 in the code)
    TTL            \* idempotencyCacheTTL (10 minutes in the code)

Request == [id : RequestIds, type : EventTypes]

VARIABLES
    memory,       \* the answers that are remembered, known by their numbers
    executing,    \* the request being executed, in a set of at most one
    count,        \* how many requests were executed on this connection
    now,          \* the clock
    told          \* what was just written back, in a set of at most one

memoryVars == <<memory, executing, count, now, told>>

Fresh == {e \in memory : now - e.at <= TTL}

Remembered(id) == \E e \in Fresh : e.id = id

Youngest(answers) ==
    {e \in answers :
        Cardinality({f \in answers : f.answer > e.answer}) < MaxEntries}

MemoryInit ==
    /\ memory = {}
    /\ executing = {}
    /\ count = 0
    /\ now = 0
    /\ told = {}

Reply(r, answer) == [id |-> r.id, type |-> r.type, answer |-> answer]

\* A request that is remembered gets its own answer, again.
Repeat(r) ==
    /\ executing = {}
    /\ \E e \in Fresh : /\ e.id = r.id
                       /\ e.type = r.type
                       /\ told' = {Reply(r, e.answer)}
    /\ memory' = Fresh
    /\ UNCHANGED <<executing, count, now>>

\* A request that is not remembered under its type.
Execute(r) ==
    /\ executing = {}
    /\ \A e \in Fresh : [id |-> e.id, type |-> e.type] # r
    /\ memory' = IF r.id = NoId THEN memory ELSE Fresh
    /\ executing' = {r}
    /\ told' = {}
    /\ UNCHANGED <<count, now>>

Finish ==
    \E r \in executing :
        /\ count' = count + 1
        /\ memory' = IF r.id = NoId THEN memory
                     ELSE IF Remembered(r.id) THEN Fresh
                     ELSE Youngest(Fresh \cup {[id |-> r.id, type |-> r.type,
                                                answer |-> count', at |-> now]})
        /\ executing' = {}
        /\ told' = {Reply(r, count')}
        /\ UNCHANGED now

\* Time passes.
Pass ==
    /\ now' = now + 1
    /\ told' = {}
    /\ UNCHANGED <<memory, executing, count>>

\* The connection is lost, and what it remembers with it.
Lose ==
    /\ memory' = {}
    /\ executing' = {}
    /\ count' = 0
    /\ told' = {}
    /\ UNCHANGED now

MemoryNext ==
    \/ Finish \/ Pass \/ Lose
    \/ \E r \in Request : Repeat(r) \/ Execute(r)

MemorySpec == MemoryInit /\ [][MemoryNext]_memoryVars
=============================================================================
