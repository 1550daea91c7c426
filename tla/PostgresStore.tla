--------------------------- MODULE PostgresStore ----------------------------
(***************************************************************************)
(* The wallets and buy-ins of backend/internal/store/                      *)
(* postgres_event_store.go, statement by statement.                        *)
(*                                                                         *)
(* A call is one call of the store by a handler: it takes a connection of  *)
(* the pool, runs its statements, and returns.  PostgreSQL                 *)
(* runs a transaction at READ COMMITTED, its default: a statement sees     *)
(* what was committed when it began; a statement that locks a row waits    *)
(* for the transaction that holds it and then sees the newest committed    *)
(* row.  What a transaction has written but not committed is kept in the   *)
(* call until Commit, since nobody else can see it; a locked row is all    *)
(* that is visible of it.                                                  *)
(*                                                                         *)
(* A call may end in an error at any statement (the handler's timeout, the *)
(* connection), and a commit may succeed without its caller ever hearing,  *)
(* or long after its caller has stopped waiting for it.                    *)
(* The ids of users, rooms and tables are taken to exist and amounts to be *)
(* within the room's limits: the statements that check them write nothing. *)
(***************************************************************************)
EXTENDS WalletLedger, FiniteSets

CONSTANTS
    MaxCalls,    \* bound: the number of calls of the store
    PoolSize     \* poolConfig.MaxConns

ASSUME MaxCallsAssumption == MaxCalls \in Nat
ASSUME RoomsAssumption == PlayerIds # {} /\ TableIds # {} /\ Amounts # {}
ASSUME PoolSizeAssumption == PoolSize \in Nat \ {0}

\* Calls are numbered in the order they begin.
Calls == 1 .. MaxCalls

NoCall == 0

VARIABLES
    walletLock,  \* the call that holds the row lock of a player's wallet
    rowLock,     \* the call that holds the row lock of a buy-in
    lastId,      \* the sequence buy_ins.id draws from
    call,        \* the state of each call
    paidIn,      \* history: what was ever put into each player's wallet
    handed,      \* history: how often each buy-in was handed to a caller
    overlapped   \* history: <<p, t>> for which two CreateBuyIn ever ran at
                 \*   once, callers that stopped waiting included

lockVars == <<walletLock, rowLock>>
history == <<paidIn, handed, overlapped>>
vars == <<wallets, buyIns, walletLock, rowLock, lastId, call, paidIn, handed,
          overlapped>>

Ops == {"EnsureWallet", "CreditWallet", "CreateBuyIn", "ConsumePendingBuyIn"}

\* balance, id: what CreateBuyIn read and drew, and the row ConsumePendingBuyIn
\* locked; seen: the rows its SELECT found; waiting: its caller still waits.
CallRecord ==
    [op : Ops, player : PlayerIds, table : TableIds, amount : Amounts,
     at : {"new", "insert", "update", "look", "lock", "commit", "scan",
           "take", "mark", "done"},
     balance : Nat, id : BuyInIds \cup {0}, seen : SUBSET BuyInIds,
     waiting : BOOLEAN]

TypeOK ==
    /\ LedgerTypeOK
    /\ walletLock \in [PlayerIds -> Calls \cup {NoCall}]
    /\ rowLock \in [BuyInIds -> Calls \cup {NoCall}]
    /\ lastId \in 0 .. MaxBuyIns
    /\ call \in [Calls -> CallRecord]
    /\ paidIn \in [PlayerIds -> Nat]
    /\ handed \in [BuyInIds -> Nat]
    /\ overlapped \subseteq PlayerIds \X TableIds

Unused == [op |-> "EnsureWallet", player |-> CHOOSE p \in PlayerIds : TRUE,
           table |-> CHOOSE t \in TableIds : TRUE,
           amount |-> CHOOSE a \in Amounts : TRUE,
           at |-> "new", balance |-> 0, id |-> 0, seen |-> {}, waiting |-> TRUE]

Init ==
    /\ LedgerInit
    /\ walletLock = [p \in PlayerIds |-> NoCall]
    /\ rowLock = [b \in BuyInIds |-> NoCall]
    /\ lastId = 0
    /\ call = [c \in Calls |-> Unused]
    /\ paidIn = [p \in PlayerIds |-> 0]
    /\ handed = [b \in BuyInIds |-> 0]
    /\ overlapped = {}

-----------------------------------------------------------------------------

At(c, label) == call[c].at = label

Running(c) == call[c].at \notin {"new", "done"}

Goto(c, label) == call' = [call EXCEPT ![c].at = label]

\* The call returns: its local variables are gone.
End(c) == call' = [call EXCEPT ![c] = [Unused EXCEPT !.at = "done"]]

\* The locks a transaction holds go with its end.
Unlock(c) ==
    /\ walletLock' = [p \in PlayerIds |->
                        IF walletLock[p] = c THEN NoCall ELSE walletLock[p]]
    /\ rowLock' = [b \in BuyInIds |->
                        IF rowLock[b] = c THEN NoCall ELSE rowLock[b]]

FirstStatement(op) ==
    CASE op = "EnsureWallet" -> "insert"
      [] op = "CreditWallet" -> "insert"
      [] op = "CreateBuyIn" -> "look"
      [] op = "ConsumePendingBuyIn" -> "scan"

\* pool.Begin, or the first pool.Exec: a connection of the pool is free (that
\* of a caller that stopped waiting is closed, and another opened for it).  An
\* operation without a table or an amount has those of Unused.
Begin(c, op, p, t, amount) ==
    /\ At(c, "new")
    /\ \A d \in 1 .. c - 1 : ~ At(d, "new")
    /\ Cardinality({d \in Calls : Running(d) /\ call[d].waiting}) < PoolSize
    /\ op \in {"CreateBuyIn", "ConsumePendingBuyIn"} \/ t = Unused.table
    /\ op \in {"CreateBuyIn", "CreditWallet"} \/ amount = Unused.amount
    /\ call' = [call EXCEPT ![c] = [Unused EXCEPT
                    !.op = op, !.player = p, !.table = t, !.amount = amount,
                    !.at = FirstStatement(op)]]
    /\ overlapped' =
            IF /\ op = "CreateBuyIn"
               /\ \E d \in Calls : /\ Running(d)
                                   /\ call[d].op = op
                                   /\ call[d].player = p
                                   /\ call[d].table = t
            THEN overlapped \cup {<<p, t>>}
            ELSE overlapped
    /\ UNCHANGED <<ledgerVars, lockVars, lastId, paidIn, handed>>

\* A failing call that leaves its locks behind.
FailKeepsLocks(c) ==
    /\ Running(c)
    /\ End(c)
    /\ UNCHANGED <<ledgerVars, lockVars, lastId, history>>

\* The context's deadline, or the connection: the transaction is rolled back.
Fail(c) ==
    /\ Running(c)
    /\ End(c)
    /\ Unlock(c)
    /\ UNCHANGED <<ledgerVars, lastId, history>>

\* The context's deadline while a COMMIT is on its way: the caller has its
\* error, and the transaction its locks, until PostgreSQL commits it or not.
\* (A late INSERT or UPDATE that commits by itself is a call that still runs:
\* nothing tells a caller that waits for it from one that does not.)
GiveUp(c) ==
    /\ call[c].at \in {"commit", "mark"}
    /\ call[c].waiting
    /\ call' = [call EXCEPT ![c].waiting = FALSE]
    /\ UNCHANGED <<ledgerVars, lockVars, lastId, history>>

-----------------------------------------------------------------------------
(* EnsureWallet and CreditWallet: statements that commit by themselves.    *)

\* INSERT INTO wallets ... ON CONFLICT DO NOTHING.
InsertWallet(c) ==
    LET p == call[c].player
        balance == IF call[c].op = "EnsureWallet" THEN InitialBalance ELSE 0
    IN  /\ At(c, "insert")
        /\ \/ /\ Open(p, balance)
              /\ paidIn' = [paidIn EXCEPT ![p] = paidIn[p] + balance]
           \/ /\ HasWallet(p)
              /\ UNCHANGED <<ledgerVars, paidIn>>
        /\ IF call[c].op = "EnsureWallet"
           THEN End(c)
           ELSE Goto(c, "update")
        /\ UNCHANGED <<lockVars, lastId, handed, overlapped>>

\* UPDATE wallets SET balance = balance + $2: on the newest committed row.
AddToWallet(c) ==
    LET p == call[c].player
    IN  /\ At(c, "update")
        /\ walletLock[p] = NoCall
        /\ Credit(p, call[c].amount)
        /\ paidIn' = [paidIn EXCEPT ![p] = paidIn[p] + call[c].amount]
        /\ End(c)
        /\ UNCHANGED <<lockVars, lastId, handed, overlapped>>

-----------------------------------------------------------------------------
(* CreateBuyIn.                                                            *)

\* A CreateBuyIn that does not look for a pending buy-in.
LookForNothing(c) ==
    /\ At(c, "look")
    /\ Goto(c, "lock")
    /\ UNCHANGED <<ledgerVars, lockVars, lastId, history>>

\* A pending buy-in of the player at this table is returned as it is.
LookForPending(c) ==
    LET found == PendingOf(call[c].player, call[c].table)
    IN  /\ At(c, "look")
        /\ \/ found = {} /\ Goto(c, "lock")
           \/ found # {} /\ End(c)
        /\ UNCHANGED <<ledgerVars, lockVars, lastId, history>>

\* A CreateBuyIn that reads the wallet without FOR UPDATE.
ReadWallet(c) ==
    LET p == call[c].player
    IN  /\ At(c, "lock")
        /\ HasWallet(p) /\ wallets[p] >= call[c].amount
        /\ lastId < MaxBuyIns
        /\ lastId' = lastId + 1
        /\ call' = [call EXCEPT ![c].at = "commit", ![c].id = lastId + 1,
                                ![c].balance = wallets[p]]
        /\ UNCHANGED <<ledgerVars, lockVars, history>>

\* A CreateBuyIn that does not compare the balance with the amount.
LockWalletUnchecked(c) ==
    LET p == call[c].player
    IN  /\ At(c, "lock")
        /\ HasWallet(p)
        /\ walletLock[p] = NoCall
        /\ lastId < MaxBuyIns
        /\ walletLock' = [walletLock EXCEPT ![p] = c]
        /\ lastId' = lastId + 1
        /\ call' = [call EXCEPT ![c].at = "commit", ![c].id = lastId + 1,
                                ![c].balance = wallets[p]]
        /\ UNCHANGED <<ledgerVars, rowLock, history>>

\* SELECT balance ... FOR UPDATE, the check of the balance, and the UPDATE and
\* the INSERT, which nobody sees before the commit but for the id they draw.
\* A wallet that had to be inserted first is empty and covers nothing.
LockWallet(c) ==
    LET p == call[c].player
        amount == call[c].amount
        covered == HasWallet(p) /\ wallets[p] >= amount
    IN  /\ At(c, "lock")
        /\ walletLock[p] = NoCall
        /\ \/ /\ covered
              /\ lastId < MaxBuyIns
              /\ walletLock' = [walletLock EXCEPT ![p] = c]
              /\ lastId' = lastId + 1
              /\ call' = [call EXCEPT ![c].at = "commit", ![c].id = lastId + 1,
                                      ![c].balance = wallets[p]]
           \/ /\ ~ covered
              /\ End(c)
              /\ UNCHANGED <<walletLock, lastId>>
        /\ UNCHANGED <<ledgerVars, rowLock, history>>

\* The balance that was read, less the amount, replaces the balance.
CommitBuyIn(c) ==
    LET p == call[c].player
        amount == call[c].amount
    IN  /\ At(c, "commit")
        /\ wallets' = [wallets EXCEPT ![p] = call[c].balance - amount]
        /\ buyIns' = [buyIns EXCEPT ![call[c].id] =
                            [player |-> p, table |-> call[c].table,
                             amount |-> amount, status |-> "pending"]]
        /\ End(c)
        /\ Unlock(c)
        /\ UNCHANGED <<lastId, history>>

-----------------------------------------------------------------------------
(* ConsumePendingBuyIn.                                                    *)

\* SELECT ... ORDER BY id DESC LIMIT 1 FOR UPDATE finds its rows.
ScanPending(c) ==
    /\ At(c, "scan")
    /\ call' = [call EXCEPT
                    ![c].at = "take",
                    ![c].seen = PendingOf(call[c].player, call[c].table)]
    /\ UNCHANGED <<ledgerVars, lockVars, lastId, history>>

IsNewest(b, ids) == \A d \in ids : d <= b

\* A ConsumePendingBuyIn that trusts the rows it found.
TakeSeenRow(c) ==
    /\ At(c, "take")
    /\ \/ call[c].seen = {} /\ End(c) /\ UNCHANGED rowLock
       \/ \E b \in call[c].seen :
            /\ IsNewest(b, call[c].seen)
            /\ rowLock[b] = NoCall
            /\ rowLock' = [rowLock EXCEPT ![b] = c]
            /\ call' = [call EXCEPT ![c].at = "mark", ![c].id = b]
    /\ UNCHANGED <<ledgerVars, walletLock, lastId, history>>

\* ... and locks the newest one that, once its lock is free, is still pending.
TakePending(c) ==
    LET seen == call[c].seen
    IN  /\ At(c, "take")
        /\ \/ seen = {} /\ End(c) /\ UNCHANGED rowLock
           \/ \E b \in seen :
                /\ IsNewest(b, seen)
                /\ rowLock[b] = NoCall
                /\ \/ /\ IsPending(b)
                      /\ rowLock' = [rowLock EXCEPT ![b] = c]
                      /\ call' = [call EXCEPT ![c].at = "mark", ![c].id = b]
                   \/ /\ ~ IsPending(b)
                      /\ call' = [call EXCEPT ![c].seen = seen \ {b}]
                      /\ UNCHANGED rowLock
        /\ UNCHANGED <<ledgerVars, walletLock, lastId, history>>

\* UPDATE buy_ins SET status = 'consumed', and the commit, which the caller may
\* never hear of.
CommitConsume(c) ==
    /\ At(c, "mark")
    /\ buyIns' = [buyIns EXCEPT ![call[c].id].status = "consumed"]
    /\ \/ /\ call[c].waiting
          /\ handed' = [handed EXCEPT ![call[c].id] = handed[call[c].id] + 1]
       \/ UNCHANGED handed
    /\ End(c)
    /\ Unlock(c)
    /\ UNCHANGED <<wallets, lastId, paidIn, overlapped>>

-----------------------------------------------------------------------------

Step(c) ==
    \/ InsertWallet(c) \/ AddToWallet(c)
    \/ LookForPending(c) \/ LockWallet(c) \/ CommitBuyIn(c)
    \/ ScanPending(c) \/ TakePending(c) \/ CommitConsume(c)

Next ==
    \E c \in Calls :
        \/ \E op \in Ops, p \in PlayerIds, t \in TableIds, amount \in Amounts :
                Begin(c, op, p, t, amount)
        \/ Fail(c) \/ GiveUp(c)
        \/ Step(c)

Spec == Init /\ [][Next]_vars

\* The server runs a statement that can run; nothing is assumed of the callers.
FairSpec == Spec /\ \A c \in Calls : WF_vars(Step(c))
=============================================================================
