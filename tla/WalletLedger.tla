---------------------------- MODULE WalletLedger ----------------------------
(***************************************************************************)
(* What the callers of an event store rely on, whatever the store does     *)
(* inside: wallets and buy-ins that change by whole transfers.  A wallet   *)
(* is opened once; a buy-in is paid for, in full, at the moment it         *)
(* appears; it is consumed once and never comes back; a credit adds what   *)
(* it names to what is there (the EventStore interface of                  *)
(* backend/internal/store/event_store.go and the comments on its           *)
(* implementations).                                                       *)
(***************************************************************************)
EXTENDS Identities

CONSTANTS
    Amounts,         \* the amounts of buy-ins and credits
    InitialBalance,  \* what a new player is given
    MaxBuyIns        \* bound: the number of buy-ins

ASSUME AmountsAssumption == Amounts \subseteq Nat \ {0}
ASSUME InitialBalanceAssumption == InitialBalance \in Nat
ASSUME MaxBuyInsAssumption == MaxBuyIns \in Nat

VARIABLES
    wallets,   \* the balance of each player, NoWallet before there is one
    buyIns     \* the row of each buy-in, NoRow before there is one

ledgerVars == <<wallets, buyIns>>

NoWallet == -1

BuyInIds == 1 .. MaxBuyIns

Row == [player : PlayerIds, table : TableIds, amount : Amounts,
        status : {"pending", "consumed"}]

NoRow == [status |-> "none"]

LedgerTypeOK ==
    /\ wallets \in [PlayerIds -> Nat \cup {NoWallet}]
    /\ buyIns \in [BuyInIds -> Row \cup {NoRow}]

HasWallet(p) == wallets[p] # NoWallet

IsPending(b) == buyIns[b].status = "pending"

PendingOf(p, t) ==
    {b \in BuyInIds :
        IsPending(b) /\ buyIns[b].player = p /\ buyIns[b].table = t}

LedgerInit ==
    /\ wallets = [p \in PlayerIds |-> NoWallet]
    /\ buyIns = [b \in BuyInIds |-> NoRow]

Open(p, balance) ==
    /\ ~ HasWallet(p)
    /\ wallets' = [wallets EXCEPT ![p] = balance]
    /\ UNCHANGED buyIns

Charge(p, t, amount, b) ==
    /\ HasWallet(p)
    /\ wallets[p] >= amount
    /\ buyIns[b] = NoRow
    /\ wallets' = [wallets EXCEPT ![p] = wallets[p] - amount]
    /\ buyIns' = [buyIns EXCEPT ![b] = [player |-> p, table |-> t,
                                amount |-> amount, status |-> "pending"]]

Consume(b) ==
    /\ IsPending(b)
    /\ buyIns' = [buyIns EXCEPT ![b].status = "consumed"]
    /\ UNCHANGED wallets

Credit(p, amount) ==
    /\ HasWallet(p)
    /\ wallets' = [wallets EXCEPT ![p] = wallets[p] + amount]
    /\ UNCHANGED buyIns

LedgerNext ==
    \/ \E p \in PlayerIds, balance \in {0, InitialBalance} : Open(p, balance)
    \/ \E p \in PlayerIds, t \in TableIds, amount \in Amounts, b \in BuyInIds :
            Charge(p, t, amount, b)
    \/ \E b \in BuyInIds : Consume(b)
    \/ \E p \in PlayerIds, amount \in Amounts : Credit(p, amount)

LedgerSpec == LedgerInit /\ [][LedgerNext]_ledgerVars
=============================================================================
