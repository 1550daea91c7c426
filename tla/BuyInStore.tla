----------------------------- MODULE BuyInStore -----------------------------
(***************************************************************************)
(* What the application asks of its event store: the wallets and the       *)
(* buy-ins, with each call one atomic step, as the in-memory store         *)
(* (backend/internal/store/event_store.go, noopEventStore) runs it under   *)
(* its mutex and as EventStore promises it of any other.                   *)
(*                                                                         *)
(* Buy-in number b is the b-th element of buyIns; pending holds numbers.   *)
(* The code hands the receipt's amount on and forgets its number; the      *)
(* model keeps the number, from which the amount follows, so that a        *)
(* property can say which chips are where.                                 *)
(***************************************************************************)
EXTENDS Identities, Sequences

CONSTANTS
    Amounts,         \* the amounts a buy-in request may ask for
    InitialBalance,  \* the wallet of a new player
    MaxBuyIns        \* bound: no new buy-in once there are this many

ASSUME AmountsAssumption == Amounts \subseteq Nat \ {0}
ASSUME InitialBalanceAssumption == InitialBalance \in Nat
ASSUME MaxBuyInsAssumption == MaxBuyIns \in Nat

VARIABLES
    balances,        \* the wallet of each player, NoWallet before EnsureWallet
    pending,         \* pending[p][t]: the buy-in p has not used at t yet
    buyIns           \* every buy-in created, its number being its place

storeVars == <<balances, pending, buyIns>>

NoWallet == -1
NoBuyIn == 0

BuyInId == 1 .. Len(buyIns)

BuyIn == [player : PlayerIds, table : TableIds, amount : Amounts]

StoreTypeOK ==
    /\ balances \in [PlayerIds -> Nat \cup {NoWallet}]
    /\ pending \in [PlayerIds -> [TableIds -> Nat]]
    /\ buyIns \in Seq(BuyIn)

StoreInit ==
    /\ balances = [p \in PlayerIds |-> NoWallet]
    /\ pending = [p \in PlayerIds |-> [t \in TableIds |-> NoBuyIn]]
    /\ buyIns = <<>>

HasWallet(p) == balances[p] # NoWallet

\* GetWalletBalance.
Balance(p) == IF HasWallet(p) THEN balances[p] ELSE 0

\* EnsureWallet of a player without a wallet; any other call changes nothing.
EnsureWallet(p) ==
    /\ ~ HasWallet(p)
    /\ balances' = [balances EXCEPT ![p] = InitialBalance]
    /\ UNCHANGED <<pending, buyIns>>

\* A CreateBuyIn that does not look for a pending one.
CreateBuyInAgain(p, t, amount) ==
    /\ HasWallet(p)
    /\ Len(buyIns) < MaxBuyIns
    /\ balances[p] >= amount
    /\ balances' = [balances EXCEPT ![p] = balances[p] - amount]
    /\ buyIns' = Append(buyIns, [player |-> p, table |-> t, amount |-> amount])
    /\ pending' = [pending EXCEPT ![p][t] = Len(buyIns) + 1]

\* CreateBuyIn that creates one: none is pending for this table (the pending
\* one is returned otherwise) and the wallet covers it (ErrInsufficientBalance
\* otherwise).  A player who asks for one has a session, hence a wallet.
CreateBuyIn(p, t, amount) ==
    /\ HasWallet(p)
    /\ Len(buyIns) < MaxBuyIns
    /\ pending[p][t] = NoBuyIn
    /\ balances[p] >= amount
    /\ balances' = [balances EXCEPT ![p] = balances[p] - amount]
    /\ buyIns' = Append(buyIns, [player |-> p, table |-> t, amount |-> amount])
    /\ pending' = [pending EXCEPT ![p][t] = Len(buyIns) + 1]

HasPending(p, t) == pending[p][t] # NoBuyIn

\* A ConsumePendingBuyIn that leaves the buy-in pending.
ConsumeKeepsPending(p, t) ==
    /\ HasPending(p, t)
    /\ UNCHANGED storeVars

\* ConsumePendingBuyIn; the caller gets pending[p][t].
ConsumePendingBuyIn(p, t) ==
    /\ HasPending(p, t)
    /\ pending' = [pending EXCEPT ![p][t] = NoBuyIn]
    /\ UNCHANGED <<balances, buyIns>>

\* CreditWallet of the amount of buy-in b.
CreditWallet(p, b) ==
    /\ balances' = [balances EXCEPT ![p] = Balance(p) + buyIns[b].amount]
    /\ UNCHANGED <<pending, buyIns>>
=============================================================================
