---------------------------- MODULE Publication ----------------------------
(***************************************************************************)
(* What becomes of a table's new state once its mutex is free again: it is *)
(* sent to the connections at that table, saved in Redis and logged in     *)
(* PostgreSQL, step by step, among other handlers that do the same; and    *)
(* what a restart of the server finds (backend/internal/app: ws_handlers.  *)
(* go, state_helpers.go, app.go; backend/internal/store/                   *)
(* table_snapshot_store.go).                                               *)
(*                                                                         *)
(* Here a player has one connection at a time and asks for no seat, and a  *)
(* buy-in is one chip; TableService has the rest.  currentPlayerStack, the *)
(* Leave and the refund are one step: nobody else touches this seat or     *)
(* wallet in between, and a crash between them leaves what a crash before  *)
(* or after them leaves.  A connection that is not open shows nothing to   *)
(* anybody, so it makes no difference when the hub drops it.  A shutdown   *)
(* does not close the WebSockets (net/http leaves hijacked connections     *)
(* alone), so that the orderly end of main is a crash too.                 *)
(***************************************************************************)
EXTENDS Table

CONSTANTS DefaultTable,    \* cfg.DefaultTableID
          InitialChips,    \* a player's chips at the start
          MaxJoins,        \* bound: join requests that consume a buy-in
          MaxErrors,       \* bound: errors of Redis and of the event table
          MaxRestarts      \* bound: restarts of the server

ASSUME DefaultTableAssumption == DefaultTable \in TableIds
ASSUME InitialChipsAssumption == InitialChips \in Nat
ASSUME PublicationBounds ==
    MaxJoins \in Nat /\ MaxErrors \in Nat /\ MaxRestarts \in Nat

VARIABLES
    tables,      \* the tables of the manager
    client,      \* client[p]: tableID and seated of p's wsClient
    open,        \* the players whose connection can be written to
    pc,          \* where the thread of p's connection is
    reg,         \* the local variables of that thread
    screen,      \* screen[p]: the snapshot p's connection brought last
    saved,       \* saved[t]: the key of t in Redis
    events,      \* events[t]: the numbers of t with a row in table_events
    bank,        \* bank[p]: p's chips in PostgreSQL, wallet and pending buy-ins
    boot,        \* how this run of the server came up
    joins,       \* the joins made so far
    restarts,    \* the restarts so far
    errors,      \* the errors so far
    overlapped,  \* history: tables two handlers had snapshots of at once
    unsaved,     \* history: tables not saved since the last failure or boot
    unlogged,    \* history: tables a change of which an error or a crash may
                 \*   have kept out of table_events
    doubted      \* history: a boot ever restored a snapshot that may be old

counters == <<joins, restarts, errors>>
serverVars == <<tables, client, open, pc, reg>>
storeVars == <<saved, events, bank, boot>>
history == <<overlapped, unsaved, unlogged, doubted>>
vars == <<serverVars, screen, storeVars, counters, history>>

-----------------------------------------------------------------------------

\* A snapshot with its table and number: a table_snapshot event, and what is
\* saved.  Where nothing was saved, this is the message of a new table, which
\* is what the manager has when nothing is restored.
Message == [table : TableIds, seq : Nat,
            players : SUBSET [player : PlayerIds, seat : Seat, stack : Nat]]

MessageOf(t) == [table |-> t, seq |-> tables[t].seq, players |-> Snapshot(tables[t])]

NewTable(t) == [table |-> t, seq |-> 0, players |-> {}]

Offline == [table |-> DefaultTable, seated |-> FALSE]

\* to: the table a join asks for; msg: the snapshot in hand; seated: what
\* SetTableState will say; todo: who has still to be written to; next: where
\* the thread goes at the end.
Blank == [to |-> DefaultTable, msg |-> NewTable(DefaultTable), seated |-> FALSE,
          todo |-> {}, next |-> "idle"]

PublishPcs == {"mark", "list", "write", "log"}
Pcs == {"off", "greet", "answer", "idle", "switch", "seat"} \cup PublishPcs

At(p, label) == pc[p] = label
Goto(p, label) == pc' = [pc EXCEPT ![p] = label]
SetReg(p, r) == reg' = [reg EXCEPT ![p] = r]

Holds(p, t) == pc[p] \in {"answer"} \cup PublishPcs /\ reg[p].msg.table = t

\* A handler has changed t and is not through with it.
Unfinished(t) == \E p \in PlayerIds : pc[p] \in PublishPcs /\ reg[p].msg.table = t

\* The tables two handlers have a snapshot of at once, or one that can reach
\* the other's connection, when p takes a snapshot of t.
Overlap(p, t) ==
    LET others == {q \in PlayerIds \ {p} : \E u \in TableIds :
                        Holds(q, u) /\ \/ u \in {t, client[p].table}
                                       \/ client[q].table = t
                                       \/ p \in reg[q].todo}
    IN  IF others = {} THEN {} ELSE {t} \cup {reg[q].msg.table : q \in others}

TypeOK ==
    /\ tables \in [TableIds -> TableRecord]
    /\ client \in [PlayerIds -> [table : TableIds, seated : BOOLEAN]]
    /\ open \subseteq PlayerIds
    /\ pc \in [PlayerIds -> Pcs]
    /\ reg \in [PlayerIds -> [to : TableIds, msg : Message, seated : BOOLEAN,
                              todo : SUBSET PlayerIds, next : {"idle", "seat", "off"}]]
    /\ screen \in [PlayerIds -> Message]
    /\ saved \in [TableIds -> Message]
    /\ events \in [TableIds -> SUBSET Nat]
    /\ bank \in [PlayerIds -> Nat]
    /\ boot \in {"restored", "loadFailed", "noStore"}
    /\ joins \in 0 .. MaxJoins
    /\ restarts \in 0 .. MaxRestarts
    /\ errors \in 0 .. MaxErrors
    /\ overlapped \subseteq TableIds
    /\ unsaved \subseteq TableIds
    /\ unlogged \subseteq TableIds
    /\ doubted \in BOOLEAN

Init ==
    /\ tables = [t \in TableIds |-> EmptyTable]
    /\ client = [p \in PlayerIds |-> Offline]
    /\ open = {}
    /\ pc = [p \in PlayerIds |-> "off"]
    /\ reg = [p \in PlayerIds |-> Blank]
    /\ screen = [p \in PlayerIds |-> NewTable(DefaultTable)]
    /\ saved = [t \in TableIds |-> NewTable(t)]
    /\ events = [t \in TableIds |-> {}]
    /\ bank = [p \in PlayerIds |-> InitialChips]
    /\ boot = "restored"
    /\ joins = 0 /\ restarts = 0 /\ errors = 0
    /\ overlapped = {} /\ unsaved = {} /\ unlogged = {}
    /\ doubted = FALSE

-----------------------------------------------------------------------------
(* The connection and its requests.                                        *)

\* The web client shows any table_snapshot it is sent.
Shown(d, m) == [screen EXCEPT ![d] = m]

\* handleWebSocket up to hub.add.
Connect(p) ==
    /\ At(p, "off")
    /\ client' = [client EXCEPT ![p] = Offline]
    /\ open' = open \cup {p}
    /\ Goto(p, "greet")
    /\ UNCHANGED <<tables, reg, screen, storeVars, counters, history>>

\* The snapshot of the greeting, or of a join of the table one sits at.
ReadSnapshot(p) ==
    /\ \/ At(p, "greet")
       \/ At(p, "idle") /\ p \in open /\ client[p].seated
    /\ SetReg(p, [Blank EXCEPT !.msg = MessageOf(client[p].table)])
    /\ overlapped' = overlapped \cup Overlap(p, client[p].table)
    /\ Goto(p, "answer")
    /\ UNCHANGED <<tables, client, open, screen, storeVars, counters, unsaved,
                   unlogged, doubted>>

\* writeEnvelope to the own connection.
Answer(p) ==
    /\ At(p, "answer")
    /\ screen' = IF p \in open THEN Shown(p, reg[p].msg) ELSE screen
    /\ SetReg(p, Blank)
    /\ Goto(p, "idle")
    /\ UNCHANGED <<tables, client, open, storeVars, counters, history>>

\* handleJoinTableEvent up to the buy-in it consumes.
JoinRequest(p, t) ==
    /\ At(p, "idle") /\ p \in open
    /\ client[p] # [table |-> t, seated |-> TRUE]
    /\ bank[p] > 0
    /\ joins < MaxJoins
    /\ joins' = joins + 1
    /\ bank' = [bank EXCEPT ![p] = bank[p] - 1]
    /\ SetReg(p, [Blank EXCEPT !.to = t])
    /\ Goto(p, IF client[p].seated THEN "switch" ELSE "seat")
    /\ UNCHANGED <<tables, client, open, screen, saved, events, boot, restarts,
                   errors, history>>

\* p's handler has the state T of table t in hand, from now on.
Take(p, t, T, r) ==
    /\ tables' = [tables EXCEPT ![t] = T]
    /\ overlapped' = overlapped \cup Overlap(p, t)
    /\ SetReg(p, [r EXCEPT !.msg = [table |-> t, seq |-> T.seq,
                                    players |-> Snapshot(T)]])

\* A Leave and its refund.
LeaveAndRefund(p, t, r) ==
    /\ Take(p, t, Leave(tables[t], p), r)
    /\ bank' = [bank EXCEPT ![p] = bank[p] + StackOf(tables[t], p)]
    /\ UNCHANGED <<client, open, screen, saved, events, boot, counters, unsaved,
                   unlogged, doubted>>

\* The player sits at another table, and leaves it first; with one connection
\* to a player it is never gone (SeatBelongsToConnection of TableService).
SwitchLeave(p) ==
    /\ At(p, "switch")
    /\ LeaveAndRefund(p, client[p].table, [reg[p] EXCEPT !.next = "seat"])
    /\ Goto(p, "mark")

\* handleLeaveTableEvent, of any table the player has a seat at.
LeaveRequest(p, t) ==
    /\ At(p, "idle") /\ p \in open
    /\ IsSeated(tables[t], p)
    /\ LeaveAndRefund(p, t, Blank)
    /\ Goto(p, "mark")

\* tables.Join: the seat he has, the first free one, or none and a refund.
TakeSeat(p) ==
    /\ At(p, "seat")
    /\ LET t == reg[p].to
           T == tables[t]
           seats == AllocateSeat(T, AnySeat)
           Taken(U) == /\ Take(p, t, U, [Blank EXCEPT !.seated = TRUE])
                       /\ Goto(p, "mark")
                       /\ UNCHANGED bank
       IN  \/ IsSeated(T, p) /\ Taken(T)
           \/ ~ IsSeated(T, p) /\ \E i \in seats : Taken(Join(T, p, 1, i))
           \/ /\ ~ IsSeated(T, p) /\ seats = {}
              /\ bank' = [bank EXCEPT ![p] = bank[p] + 1]
              /\ SetReg(p, Blank)
              /\ Goto(p, "idle")
              /\ UNCHANGED <<tables, overlapped>>
    /\ UNCHANGED <<client, open, screen, saved, events, boot, counters, unsaved,
                   unlogged, doubted>>

\* The connection is lost, and with it what it brought; whoever still means to
\* write to it will fail.
Drop(p) ==
    /\ p \in open
    /\ open' = open \ {p}
    /\ reg' = [q \in PlayerIds |-> [reg[q] EXCEPT !.todo = reg[q].todo \ {p}]]
    /\ screen' = Shown(p, NewTable(DefaultTable))
    /\ UNCHANGED <<tables, client, pc, storeVars, counters, history>>

\* A closeClient that publishes nothing.
CloseQuietly(p) ==
    /\ At(p, "idle") /\ p \notin open
    /\ IF client[p].seated THEN LeaveAndRefund(p, client[p].table, Blank)
       ELSE UNCHANGED <<tables, client, open, reg, screen, storeVars, counters,
                        history>>
    /\ Goto(p, "off")

\* closeClient, once ReadJSON has failed; here too the seat is still there.
Close(p) ==
    /\ At(p, "idle") /\ p \notin open
    /\ \/ /\ client[p].seated
          /\ LeaveAndRefund(p, client[p].table, [Blank EXCEPT !.next = "off"])
          /\ Goto(p, "list")
       \/ /\ ~ client[p].seated
          /\ Goto(p, "off")
          /\ UNCHANGED <<tables, client, open, reg, screen, storeVars, counters,
                         history>>

-----------------------------------------------------------------------------
(* Publication: SetTableState, broadcastSnapshot, persistSnapshot,         *)
(* persistTableEvent.                                                      *)

\* SetTableState of the table in hand.
Mark(p) ==
    /\ At(p, "mark")
    /\ client' = [client EXCEPT ![p] = [table |-> reg[p].msg.table,
                                        seated |-> reg[p].seated]]
    /\ Goto(p, "list")
    /\ UNCHANGED <<tables, open, reg, screen, storeVars, counters, history>>

\* A broadcast to the others, as if the sender knew already.
ListOthers(p) ==
    /\ At(p, "list")
    /\ SetReg(p, [reg[p] EXCEPT !.todo =
                    {d \in open \ {p} : client[d].table = reg[p].msg.table}])
    /\ Goto(p, "write")
    /\ UNCHANGED <<tables, client, open, screen, storeVars, counters, history>>

\* clientsForTable.
List(p) ==
    /\ At(p, "list")
    /\ SetReg(p, [reg[p] EXCEPT !.todo =
                    {d \in open : client[d].table = reg[p].msg.table}])
    /\ Goto(p, "write")
    /\ UNCHANGED <<tables, client, open, screen, storeVars, counters, history>>

\* The connections of the list are written to one by one, in any order.
Write(p) ==
    /\ At(p, "write")
    /\ \E d \in reg[p].todo :
            /\ screen' = Shown(d, reg[p].msg)
            /\ SetReg(p, [reg[p] EXCEPT !.todo = reg[p].todo \ {d}])
    /\ UNCHANGED <<tables, client, open, pc, storeVars, counters, history>>

\* A save that keeps what is there.
WrittenOnce(t, m) == IF saved[t].seq = 0 THEN [saved EXCEPT ![t] = m] ELSE saved

\* The keys once m is saved under that of t; nothing is compared.
Overwritten(t, m) == [saved EXCEPT ![t] = m]

\* persistSnapshot, once all are written to; without a store nothing is done,
\* and an error is only logged, whether Redis took the snapshot or not.
Save(p) ==
    /\ At(p, "write") /\ reg[p].todo = {}
    /\ LET t == reg[p].msg.table
       IN  \/ /\ boot # "noStore"
              /\ saved' = Overwritten(t, reg[p].msg)
              /\ unsaved' = unsaved \ {t}
              /\ UNCHANGED errors
           \/ /\ boot = "noStore"
              /\ unsaved' = unsaved \cup {t}
              /\ UNCHANGED <<saved, errors>>
           \/ /\ boot # "noStore" /\ errors < MaxErrors
              /\ errors' = errors + 1
              /\ unsaved' = unsaved \cup {t}
              /\ saved' \in {saved, Overwritten(t, reg[p].msg)}
    /\ Goto(p, "log")
    /\ UNCHANGED <<tables, client, open, reg, screen, events, bank, boot, joins,
                   restarts, overlapped, unlogged, doubted>>

\* A handler that does not log its event.
LogNothing(p) ==
    /\ At(p, "log")
    /\ SetReg(p, [Blank EXCEPT !.to = reg[p].to])
    /\ Goto(p, reg[p].next)
    /\ UNCHANGED <<tables, client, open, screen, storeVars, counters, history>>

\* persistTableEvent; an error is only logged, whether PostgreSQL has the row
\* or not.
Log(p) ==
    /\ At(p, "log")
    /\ LET t == reg[p].msg.table
           logged == [events EXCEPT ![t] = events[t] \cup {reg[p].msg.seq}]
       IN  \/ /\ events' = logged
              /\ UNCHANGED <<unlogged, errors>>
           \/ /\ errors < MaxErrors
              /\ errors' = errors + 1
              /\ unlogged' = unlogged \cup {t}
              /\ events' \in {events, logged}
    /\ SetReg(p, [Blank EXCEPT !.to = reg[p].to])
    /\ Goto(p, reg[p].next)
    /\ UNCHANGED <<tables, client, open, screen, saved, bank, boot, joins, restarts,
                   overlapped, unsaved, doubted>>

-----------------------------------------------------------------------------
(* The end of the process, and the next one's newWithStores.               *)

\* What Load makes of the key of t.
Loaded(t) == [x \in saved[t].players |-> x]

\* A boot that numbers the restored table anew.
BootTableRenumbered(t, how) ==
    IF t = DefaultTable /\ how = "restored" THEN Restore(Loaded(t), 0) ELSE EmptyTable

\* restoreSnapshot of the default table; the others start empty.
BootTable(t, how) ==
    IF t = DefaultTable /\ how = "restored" /\ CheckedList(Loaded(t))
    THEN Restore(Loaded(t), saved[t].seq)
    ELSE EmptyTable

\* How a boot may go: Redis answers and the key is loaded, Redis answers and
\* the key is not, or Redis does not answer and nothing is stored.
Boots ==
    {"restored"} \cup IF errors < MaxErrors THEN {"loadFailed", "noStore"} ELSE {}

\* The process ends at any moment, and another starts.
Restart ==
    /\ restarts < MaxRestarts
    /\ restarts' = restarts + 1
    /\ boot' \in Boots
    /\ errors' = IF boot' = "restored" THEN errors ELSE errors + 1
    /\ tables' = [t \in TableIds |-> BootTable(t, boot')]
    /\ client' = [p \in PlayerIds |-> Offline]
    /\ open' = {}
    /\ pc' = [p \in PlayerIds |-> "off"]
    /\ reg' = [p \in PlayerIds |-> Blank]
    /\ overlapped' = {}
    /\ unsaved' = TableIds \ {t \in {DefaultTable} : boot' = "restored"}
    /\ unlogged' = unlogged \cup {t \in TableIds : Unfinished(t)}
    /\ doubted' = \/ doubted
                  \/ /\ boot' = "restored"
                     /\ \/ DefaultTable \in overlapped \cup unsaved
                        \/ Unfinished(DefaultTable)
    /\ screen' = [p \in PlayerIds |-> NewTable(DefaultTable)]
    /\ UNCHANGED <<saved, events, bank, joins>>

-----------------------------------------------------------------------------

Next ==
    \/ \E p \in PlayerIds :
            \/ Connect(p) \/ ReadSnapshot(p) \/ Answer(p) \/ SwitchLeave(p)
            \/ TakeSeat(p) \/ Mark(p) \/ List(p) \/ Write(p) \/ Save(p) \/ Log(p)
            \/ Drop(p) \/ Close(p)
            \/ \E t \in TableIds : JoinRequest(p, t) \/ LeaveRequest(p, t)
    \/ Restart

Spec == Init /\ [][Next]_vars
=============================================================================
