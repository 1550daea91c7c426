---------------------- MODULE PostgresStoreProperties -----------------------
(* What the PostgreSQL store promises its callers.                         *)
EXTENDS PostgresStore, Functions

\* What a player paid for each buy-in.
Charged(p) ==
    [b \in BuyInIds |-> IF buyIns[b] # NoRow /\ buyIns[b].player = p
                        THEN buyIns[b].amount ELSE 0]

\* Every chip that was put into a player's wallet is in it or in a buy-in of
\* his: no commit overwrites the balance another commit left (CreateBuyIn
\* writes back a balance it read, postgres_event_store.go 276-297).
ChipsConserved ==
    \A p \in PlayerIds : HasWallet(p) =>
        wallets[p] + SumFunction(Charged(p)) = paidIn[p]

\* A buy-in is handed to one caller of ConsumePendingBuyIn only, and only once
\* it is consumed, however many joins find it pending
\* (postgres_event_store.go 332-357).
HandedOnce ==
    \A b \in BuyInIds :
        handed[b] > 0 => handed[b] = 1 /\ buyIns[b].status = "consumed"

\* A buy-in request that is sent again after the first one has ended, also when
\* that ended in an error after its commit, is not charged again: as long as
\* two of them never ran at once, one buy-in at most is pending for a player
\* and a table (postgres_event_store.go 238-266).  Two at once may charge
\* twice, a retry while the first COMMIT is still on its way included: neither
\* sees what the other has not committed.
RetriesChargeOnce ==
    \A p \in PlayerIds, t \in TableIds :
        <<p, t>> \notin overlapped => \A b, d \in PendingOf(p, t) : b = d

\* The store, with its transactions, locks, failures and lost answers, moves
\* wallets and buy-ins by the whole transfers of WalletLedger only.
ImplementsLedger == LedgerSpec

\* A call that got a connection of the pool ends: no two calls wait for each
\* other's rows, and a call that failed holds none.
CallsEnd == \A c \in Calls : Running(c) ~> ~ Running(c)
=============================================================================
