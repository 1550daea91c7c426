---------------------------- MODULE TableService ----------------------------
(***************************************************************************)
(* The application: WebSocket connections that join and leave tables, the  *)
(* HTTP requests that buy in and that revoke a session, the tables and the *)
(* buy-in store they share (backend/internal/app: ws_handlers.go,          *)
(* ws_hub.go, state_helpers.go, session_helpers.go, http_handlers.go).     *)
(*                                                                         *)
(* A thread is a goroutine: one for each connection, which runs            *)
(* handleWebSocket, and one for each HTTP request that revokes a session,  *)
(* which runs closeClient on the player's connections.  A step is what a   *)
(* thread does under one lock, or in one call of the store; between two    *)
(* steps any other thread may run.                                         *)
(*                                                                         *)
(* A stack is a buy-in number (see BuyInStore): a seated player's stack    *)
(* never changes, so it is the buy-in that paid for it.  Replies to the    *)
(* client are left out, and with them the requests that only get a reply   *)
(* (a refused join, a join of the table one sits at, a leave of a table    *)
(* one is not at after its Leave): they change no state.  A reply that     *)
(* cannot be written ends the connection, which is a Hangup.               *)
(***************************************************************************)
EXTENDS Table, BuyInStore

CONSTANTS
    Conns,           \* the WebSocket connections, each used once
    Revokers,        \* the HTTP requests that revoke a session
    Owner,           \* Owner[c]: the player of the session c was opened with
    DefaultTable,    \* cfg.DefaultTableID
    StoreMayFail     \* whether a call of the store may end in an error

ASSUME ThreadsAssumption == Conns \cap Revokers = {} /\ Conns # {}
ASSUME OwnerAssumption == Owner \in [Conns -> PlayerIds]
ASSUME DefaultTableAssumption == DefaultTable \in TableIds
ASSUME StoreMayFailAssumption == StoreMayFail \in BOOLEAN

Threads == Conns \cup Revokers

VARIABLES
    tables,     \* the tables of the manager
    client,     \* client[c]: tableID and seated of the wsClient of c
    open,       \* the connections that can still be read
    hub,        \* the connections in the hub
    pc,         \* where each thread is
    reg,        \* the local variables of each thread
    victim,     \* the connection a closeClient is about
    todo,       \* todo[r]: the connections a revoker has still to close
    refunds,    \* history: how often each buy-in was credited to a wallet
    lost,       \* history: the buy-ins an error of the store lost: consumed
                \* by a call that reported an error, or not credited back
    shared      \* history: the players two threads were ever at work for

connVars == <<client, open, hub>>
threadVars == <<victim, todo>>
ledger == <<refunds, lost>>
vars == <<balances, pending, buyIns, tables, client, open, hub, pc, reg,
          victim, todo, refunds, lost, shared>>

-----------------------------------------------------------------------------
(* Threads and their local variables.                                      *)

JoinPcs == {"consume", "switchRead", "switchLeave", "switchMark",
            "switchMarkAbsent", "switchRefund", "switchTell",
            "seat", "seatRefund", "seatMark", "seatTell"}
LeavePcs == {"leave", "leaveRefund", "leaveMark", "leaveTell"}
ClosePcs == {"close", "closeTable", "closeRead", "closeLeave",
             "closeRefund", "closeTell", "closeEnd"}

\* table, seat: what a join asks for; buyIn: what it consumed; from: the table
\* being left; stack: what currentPlayerStack found there.
Registers ==
    [table : TableIds, seat : Seat \cup {AnySeat}, buyIn : Nat,
     from : TableIds, stack : Nat]

Blank == [table |-> DefaultTable, seat |-> AnySeat, buyIn |-> NoBuyIn,
          from |-> DefaultTable, stack |-> NoStack]

\* The player a thread works for.
Actor(th) == Owner[victim[th]]

Active(th) == pc[th] \notin {"new", "done"}

Busy(p) == \E th \in Threads : Active(th) /\ Actor(th) = p

At(th, label) == pc[th] = label
Goto(th, label) == pc' = [pc EXCEPT ![th] = label]

\* Back to ReadJSON, the handler's variables gone.
Return(c) ==
    /\ Goto(c, "idle")
    /\ reg' = [reg EXCEPT ![c] = Blank]

SetReg(th, r) == reg' = [reg EXCEPT ![th] = r]

SetTableState(c, t, seated) ==
    client' = [client EXCEPT ![c] = [table |-> t, seated |-> seated]]

\* refundStackToWallet of buy-in b; an error of the store is only logged, so
\* that a credit made and reported as an error is the same step as a heard one.
Refund(p, b) ==
    \/ /\ CreditWallet(p, b)
       /\ refunds' = [refunds EXCEPT ![b] = refunds[b] + 1]
       /\ UNCHANGED lost
    \/ /\ StoreMayFail
       /\ lost' = lost \cup {b}
       /\ UNCHANGED <<balances, pending, buyIns, refunds>>

-----------------------------------------------------------------------------

Init ==
    /\ StoreInit
    /\ tables = [t \in TableIds |-> EmptyTable]
    /\ client = [c \in Conns |-> [table |-> DefaultTable, seated |-> FALSE]]
    /\ open = {}
    /\ hub = {}
    /\ pc = [th \in Threads |-> "new"]
    /\ reg = [th \in Threads |-> Blank]
    /\ victim = [th \in Threads |->
                    IF th \in Conns THEN th ELSE CHOOSE c \in Conns : TRUE]
    /\ todo = [r \in Revokers |-> {}]
    /\ refunds = [b \in 1 .. MaxBuyIns |-> 0]
    /\ lost = {}
    /\ shared = {}

-----------------------------------------------------------------------------
(* HTTP requests.                                                          *)

\* A session is issued: ensureWallet.
OpenSession(p) ==
    /\ EnsureWallet(p)
    /\ UNCHANGED <<tables, connVars, pc, reg, threadVars, ledger, shared>>

\* handleTableBuyIn.
TableBuyIn(p, t, amount) ==
    /\ CreateBuyIn(p, t, amount)
    /\ UNCHANGED <<tables, connVars, pc, reg, threadVars, ledger, shared>>

\* revokeSessionFromCookie, from the session it ends to the connections of
\* that player the hub lists now; nothing happens if it lists none.
Revoke(r, p) ==
    LET listed == {c \in hub : Owner[c] = p}
    IN  /\ At(r, "new")
        /\ \E c \in listed : victim' = [victim EXCEPT ![r] = c]
        /\ todo' = [todo EXCEPT ![r] = listed]
        /\ Goto(r, "close")
        /\ shared' = IF Busy(p) THEN shared \cup {p} ELSE shared
        /\ UNCHANGED <<storeVars, tables, connVars, reg, ledger>>

-----------------------------------------------------------------------------
(* The connection.                                                         *)

\* handleWebSocket up to its read loop.
Connect(c) ==
    /\ At(c, "new")
    /\ HasWallet(Owner[c])
    /\ open' = open \cup {c}
    /\ hub' = hub \cup {c}
    /\ Goto(c, "idle")
    /\ shared' = IF Busy(Owner[c]) THEN shared \cup {Owner[c]} ELSE shared
    /\ UNCHANGED <<storeVars, tables, client, reg, threadVars, ledger>>

\* The peer closes the connection, or the network does.
Hangup(c) ==
    /\ c \in open
    /\ open' = open \ {c}
    /\ UNCHANGED <<storeVars, tables, client, hub, pc, reg, threadVars, ledger,
                   shared>>

\* ReadJSON fails: the read loop ends and the deferred closeClient starts.
ReadError(c) ==
    /\ At(c, "idle")
    /\ c \notin open
    /\ Goto(c, "close")
    /\ UNCHANGED <<storeVars, tables, connVars, reg, threadVars, ledger, shared>>

-----------------------------------------------------------------------------
(* handleJoinTableEvent.                                                   *)

\* prevalidateJoinSeat.
SeatLooksFree(T, preferred) ==
    \/ preferred = AnySeat
    \/ preferred \in Seat /\ IsFree(T, preferred)

\* A join_table that does not find the connection seated at that table, and
\* whose seat passes the check.
ReceiveJoin(c, t, preferred) ==
    /\ At(c, "idle")
    /\ c \in open
    /\ client[c] # [table |-> t, seated |-> TRUE]
    /\ SeatLooksFree(tables[t], preferred)
    /\ SetReg(c, [Blank EXCEPT !.table = t, !.seat = preferred])
    /\ Goto(c, "consume")
    /\ UNCHANGED <<storeVars, tables, connVars, threadVars, ledger, shared>>

\* consumePendingBuyIn.  The handler gets the buy-in; or the store has none for
\* it, or fails and leaves it pending; or the store consumes it and reports an
\* error (a COMMIT whose answer is lost), and the handler returns without it.
Consume(c) ==
    /\ At(c, "consume")
    /\ LET p == Owner[c]
           t == reg[c].table
       IN  \/ /\ ConsumePendingBuyIn(p, t)
              /\ SetReg(c, [reg[c] EXCEPT !.buyIn = pending[p][t],
                                          !.from = client[c].table])
              /\ Goto(c, IF client[c].seated THEN "switchRead" ELSE "seat")
              /\ UNCHANGED lost
           \/ /\ ~ HasPending(p, t) \/ StoreMayFail
              /\ Return(c)
              /\ UNCHANGED <<storeVars, lost>>
           \/ /\ StoreMayFail
              /\ ConsumePendingBuyIn(p, t)
              /\ lost' = lost \cup {pending[p][t]}
              /\ Return(c)
    /\ UNCHANGED <<tables, connVars, threadVars, refunds, shared>>

\* The player sits at another table: what is his stack there?
SwitchRead(c) ==
    /\ At(c, "switchRead")
    /\ SetReg(c, [reg[c] EXCEPT !.stack = StackOf(tables[reg[c].from], Owner[c])])
    /\ Goto(c, "switchLeave")
    /\ UNCHANGED <<storeVars, tables, connVars, threadVars, ledger, shared>>

\* tables.Leave of the other table; ErrPlayerNotFound is its only error.
SwitchLeave(c) ==
    /\ At(c, "switchLeave")
    /\ LET from == reg[c].from
       IN  \/ /\ IsSeated(tables[from], Owner[c])
              /\ tables' = [tables EXCEPT ![from] = Leave(tables[from], Owner[c])]
              /\ Goto(c, "switchMark")
           \/ /\ ~ IsSeated(tables[from], Owner[c])
              /\ Goto(c, "switchMarkAbsent")
              /\ UNCHANGED tables
    /\ UNCHANGED <<storeVars, connVars, reg, threadVars, ledger, shared>>

\* SetTableState(currentTableID, false).
SwitchMark(c) ==
    /\ pc[c] \in {"switchMark", "switchMarkAbsent"}
    /\ SetTableState(c, reg[c].from, FALSE)
    /\ Goto(c, IF At(c, "switchMarkAbsent") THEN "seat"
               ELSE IF reg[c].stack = NoStack THEN "switchTell"
               ELSE "switchRefund")
    /\ UNCHANGED <<storeVars, tables, open, hub, reg, threadVars, ledger, shared>>

SwitchRefund(c) ==
    /\ At(c, "switchRefund")
    /\ Refund(Owner[c], reg[c].stack)
    /\ Goto(c, "switchTell")
    /\ UNCHANGED <<tables, connVars, reg, threadVars, shared>>

\* A join that forgets the buy-in it consumed when the table refuses the seat.
SeatOrForget(c) ==
    /\ At(c, "seat")
    /\ LET t == reg[c].table
           seats == AllocateSeat(tables[t], reg[c].seat)
       IN  \/ /\ ~ IsSeated(tables[t], Owner[c])
              /\ \E i \in seats : tables' = [tables EXCEPT ![t] =
                                Join(tables[t], Owner[c], reg[c].buyIn, i)]
              /\ Goto(c, "seatMark")
              /\ SetReg(c, [reg[c] EXCEPT !.buyIn = NoBuyIn])
           \/ /\ ~ IsSeated(tables[t], Owner[c])
              /\ seats = {}
              /\ Return(c)
              /\ UNCHANGED tables
    /\ UNCHANGED <<storeVars, connVars, threadVars, ledger, shared>>

\* tables.Join: the player has a seat there already and gets no other, he gets
\* a seat, or the table refuses.
TakeSeat(c) ==
    /\ At(c, "seat")
    /\ LET t == reg[c].table
           seats == AllocateSeat(tables[t], reg[c].seat)
       IN  \/ /\ IsSeated(tables[t], Owner[c])
              /\ Goto(c, "seatMark")
              /\ SetReg(c, [reg[c] EXCEPT !.buyIn = NoBuyIn])
              /\ UNCHANGED tables
           \/ /\ ~ IsSeated(tables[t], Owner[c])
              /\ \E i \in seats : tables' = [tables EXCEPT ![t] =
                                Join(tables[t], Owner[c], reg[c].buyIn, i)]
              /\ Goto(c, "seatMark")
              /\ SetReg(c, [reg[c] EXCEPT !.buyIn = NoBuyIn])
           \/ /\ ~ IsSeated(tables[t], Owner[c])
              /\ seats = {}
              /\ Goto(c, "seatRefund")
              /\ UNCHANGED <<tables, reg>>
    /\ UNCHANGED <<storeVars, connVars, threadVars, ledger, shared>>

SeatRefund(c) ==
    /\ At(c, "seatRefund")
    /\ Refund(Owner[c], reg[c].buyIn)
    /\ Return(c)
    /\ UNCHANGED <<tables, connVars, threadVars, shared>>

\* SetTableState(tableID, true).
SeatMark(c) ==
    /\ At(c, "seatMark")
    /\ SetTableState(c, reg[c].table, TRUE)
    /\ Goto(c, "seatTell")
    /\ UNCHANGED <<storeVars, tables, open, hub, reg, threadVars, ledger, shared>>

-----------------------------------------------------------------------------
(* handleLeaveTableEvent, for the connection's table or the one it names.  *)

ReceiveLeave(c, t) ==
    /\ At(c, "idle")
    /\ c \in open
    /\ SetReg(c, [Blank EXCEPT !.from = t, !.stack = StackOf(tables[t], Owner[c])])
    /\ Goto(c, "leave")
    /\ UNCHANGED <<storeVars, tables, connVars, threadVars, ledger, shared>>

LeaveTable(c) ==
    /\ At(c, "leave")
    /\ LET from == reg[c].from
       IN  \/ /\ IsSeated(tables[from], Owner[c])
              /\ tables' = [tables EXCEPT ![from] = Leave(tables[from], Owner[c])]
              /\ Goto(c, IF reg[c].stack = NoStack THEN "leaveMark"
                         ELSE "leaveRefund")
              /\ UNCHANGED reg
           \/ /\ ~ IsSeated(tables[from], Owner[c])
              /\ Return(c)
              /\ UNCHANGED tables
    /\ UNCHANGED <<storeVars, connVars, threadVars, ledger, shared>>

LeaveRefund(c) ==
    /\ At(c, "leaveRefund")
    /\ Refund(Owner[c], reg[c].stack)
    /\ Goto(c, "leaveMark")
    /\ UNCHANGED <<tables, connVars, reg, threadVars, shared>>

\* A leave that does not tell the connection it has no seat any more.
LeaveMarkNothing(c) ==
    /\ At(c, "leaveMark")
    /\ Goto(c, "leaveTell")
    /\ UNCHANGED <<storeVars, tables, connVars, reg, threadVars, ledger, shared>>

\* SetTableState(tableID, false).
LeaveMark(c) ==
    /\ At(c, "leaveMark")
    /\ SetTableState(c, reg[c].from, FALSE)
    /\ Goto(c, "leaveTell")
    /\ UNCHANGED <<storeVars, tables, open, hub, reg, threadVars, ledger, shared>>

-----------------------------------------------------------------------------
(* closeClient, by the connection's own thread or by a revoker.            *)

\* A closeClient that takes every connection for an observer.
CloseIgnoresSeat(th) ==
    /\ At(th, "close")
    /\ Goto(th, "closeEnd")
    /\ UNCHANGED <<storeVars, tables, connVars, reg, threadVars, ledger, shared>>

\* IsSeated.
Close(th) ==
    /\ At(th, "close")
    /\ Goto(th, IF client[victim[th]].seated THEN "closeTable" ELSE "closeEnd")
    /\ UNCHANGED <<storeVars, tables, connVars, reg, threadVars, ledger, shared>>

\* CurrentTableID.
CloseTable(th) ==
    /\ At(th, "closeTable")
    /\ SetReg(th, [Blank EXCEPT !.from = client[victim[th]].table])
    /\ Goto(th, "closeRead")
    /\ UNCHANGED <<storeVars, tables, connVars, threadVars, ledger, shared>>

\* currentPlayerStack.
CloseRead(th) ==
    /\ At(th, "closeRead")
    /\ SetReg(th, [reg[th] EXCEPT !.stack = StackOf(tables[reg[th].from], Actor(th))])
    /\ Goto(th, "closeLeave")
    /\ UNCHANGED <<storeVars, tables, connVars, threadVars, ledger, shared>>

\* A closeClient that takes the seat back and forgets the stack.
CloseLeaveForgetsStack(th) ==
    /\ At(th, "closeLeave")
    /\ LET from == reg[th].from
       IN  tables' = IF IsSeated(tables[from], Actor(th))
                     THEN [tables EXCEPT ![from] = Leave(tables[from], Actor(th))]
                     ELSE tables
    /\ Goto(th, "closeTell")
    /\ UNCHANGED <<storeVars, connVars, reg, threadVars, ledger, shared>>

\* tables.Leave; nothing more for the table if the player is not there.
CloseLeave(th) ==
    /\ At(th, "closeLeave")
    /\ LET from == reg[th].from
       IN  \/ /\ IsSeated(tables[from], Actor(th))
              /\ tables' = [tables EXCEPT ![from] = Leave(tables[from], Actor(th))]
              /\ Goto(th, IF reg[th].stack = NoStack THEN "closeTell"
                          ELSE "closeRefund")
           \/ /\ ~ IsSeated(tables[from], Actor(th))
              /\ Goto(th, "closeEnd")
              /\ UNCHANGED tables
    /\ UNCHANGED <<storeVars, connVars, reg, threadVars, ledger, shared>>

CloseRefund(th) ==
    /\ At(th, "closeRefund")
    /\ Refund(Actor(th), reg[th].stack)
    /\ Goto(th, "closeTell")
    /\ UNCHANGED <<tables, connVars, reg, threadVars, shared>>

\* A revoker that comes back to the connections it closed already.
CloseEndAgain(th) ==
    /\ At(th, "closeEnd")
    /\ hub' = hub \ {victim[th]}
    /\ open' = open \ {victim[th]}
    /\ SetReg(th, Blank)
    /\ IF th \in Conns
       THEN Goto(th, "done") /\ UNCHANGED threadVars
       ELSE /\ \E c \in todo[th] : victim' = [victim EXCEPT ![th] = c]
            /\ Goto(th, "close")
            /\ UNCHANGED todo
    /\ UNCHANGED <<storeVars, tables, client, ledger, shared>>

\* hub.remove and Close; a revoker goes on to the next connection it listed.
CloseEnd(th) ==
    /\ At(th, "closeEnd")
    /\ hub' = hub \ {victim[th]}
    /\ open' = open \ {victim[th]}
    /\ SetReg(th, Blank)
    /\ IF th \in Conns
       THEN Goto(th, "done") /\ UNCHANGED threadVars
       ELSE LET rest == todo[th] \ {victim[th]}
            IN  /\ todo' = [todo EXCEPT ![th] = rest]
                /\ \/ /\ rest = {}
                      /\ Goto(th, "done")
                      /\ UNCHANGED victim
                   \/ /\ \E c \in rest : victim' = [victim EXCEPT ![th] = c]
                      /\ Goto(th, "close")
    /\ UNCHANGED <<storeVars, tables, client, ledger, shared>>

-----------------------------------------------------------------------------

\* broadcastSnapshot and the saving that follows: a connection at that table
\* that cannot be written to leaves the hub and is closed; its own thread
\* finds out by itself.
Tell(th) ==
    /\ pc[th] \in {"switchTell", "seatTell", "leaveTell", "closeTell"}
    /\ LET t == IF At(th, "seatTell") THEN reg[th].table ELSE reg[th].from
       IN  \E failed \in SUBSET {c \in hub : client[c].table = t} :
                /\ hub' = hub \ failed
                /\ open' = open \ failed
    /\ CASE At(th, "switchTell") -> Goto(th, "seat") /\ UNCHANGED reg
         [] At(th, "closeTell") -> Goto(th, "closeEnd") /\ UNCHANGED reg
         [] OTHER -> Return(th)
    /\ UNCHANGED <<storeVars, tables, client, threadVars, ledger, shared>>

-----------------------------------------------------------------------------

\* What a connection's thread does without waiting for its peer.
ConnStep(c) ==
    \/ ReadError(c)
    \/ Consume(c) \/ TakeSeat(c) \/ SeatRefund(c) \/ SeatMark(c)
    \/ SwitchRead(c) \/ SwitchLeave(c) \/ SwitchMark(c) \/ SwitchRefund(c)
    \/ LeaveTable(c) \/ LeaveRefund(c) \/ LeaveMark(c)

CloseStep(th) ==
    \/ Close(th) \/ CloseTable(th) \/ CloseRead(th) \/ CloseLeave(th)
    \/ CloseRefund(th) \/ CloseEnd(th)

Step(th) ==
    \/ th \in Conns /\ ConnStep(th)
    \/ CloseStep(th)
    \/ Tell(th)

Environment ==
    \/ \E p \in PlayerIds : OpenSession(p)
    \/ \E p \in PlayerIds, t \in TableIds, amount \in Amounts :
            TableBuyIn(p, t, amount)
    \/ \E r \in Revokers, p \in PlayerIds : Revoke(r, p)
    \/ \E c \in Conns :
            \/ Connect(c)
            \/ Hangup(c)
            \/ \E t \in TableIds :
                    \/ \E s \in {AnySeat} \cup Seat : ReceiveJoin(c, t, s)
                    \/ ReceiveLeave(c, t)

Next ==
    \/ Environment
    \/ \E th \in Threads : Step(th)

Spec == Init /\ [][Next]_vars

\* A goroutine that can run is run; nobody has to connect, ask or hang up.
FairSpec == Spec /\ \A th \in Threads : WF_vars(Step(th))
=============================================================================
