----------------------- MODULE TableServiceProperties -----------------------
(***************************************************************************)
(* What the application owes its players: their chips and their seats.     *)
(*                                                                         *)
(* Most of it is owed to a player who is alone: no two threads were ever   *)
(* at work for him at a time (he never had two connections open, and no    *)
(* request revoked his session while one was open).  It must hold for him  *)
(* whatever the other players do.  What the code does not keep for a       *)
(* player who is not alone is the subject of the runs that end in a        *)
(* violation.                                                              *)
(***************************************************************************)
EXTENDS TableService, Functions

Alone(p) == p \notin shared

-----------------------------------------------------------------------------

TypeOK ==
    /\ StoreTypeOK
    /\ tables \in [TableIds -> TableRecord]
    /\ client \in [Conns -> [table : TableIds, seated : BOOLEAN]]
    /\ open \subseteq Conns
    /\ hub \subseteq Conns
    /\ pc \in [Threads -> {"new", "idle", "done"}
                            \cup JoinPcs \cup LeavePcs \cup ClosePcs]
    /\ reg \in [Threads -> Registers]
    /\ victim \in [Threads -> Conns]
    /\ todo \in [Revokers -> SUBSET Conns]
    /\ refunds \in [1 .. MaxBuyIns -> Nat]
    /\ lost \subseteq Nat
    /\ shared \subseteq PlayerIds

-----------------------------------------------------------------------------
(* Where the chips of a buy-in are.                                        *)

Buyer(b) == buyIns[b].player

PendingPlaces(b) ==
    {pt \in PlayerIds \X TableIds : pending[pt[1]][pt[2]] = b}

SeatPlaces(b) ==
    {ti \in TableIds \X Seat : /\ ~ IsFree(tables[ti[1]], ti[2])
                               /\ tables[ti[1]].seats[ti[2]].stack = b}

\* Consumed, and not yet on a seat or refunded.
HandPlaces(b) == {th \in Threads : reg[th].buyIn = b}

\* Taken off a seat by a Leave, and not yet refunded.
OffSeatPcs == {"switchMark", "switchRefund", "leaveRefund", "closeRefund"}
OffSeatPlaces(b) ==
    {th \in Threads : pc[th] \in OffSeatPcs /\ reg[th].stack = b}

Places(b) ==
    {<<"pending", x>> : x \in PendingPlaces(b)}
        \cup {<<"seat", x>> : x \in SeatPlaces(b)}
        \cup {<<"hand", x>> : x \in HandPlaces(b)}
        \cup {<<"off seat", x>> : x \in OffSeatPlaces(b)}
        \cup {<<"refunded", n>> : n \in 1 .. refunds[b]}
        \cup {<<"lost", x>> : x \in {b} \cap lost}

(* The buy-in of a player who is alone is in exactly one place: still      *)
(* pending, in the hands of the handler that consumed it, on a seat, in    *)
(* the hands of the handler that took it off the seat, back in the wallet  *)
(* (once), or lost in one of the two places where the store can lose it: a *)
(* credit that failed and is only logged, a consume that committed and     *)
(* reported an error (run unheard_consume).  Nothing else drops it or      *)
(* doubles it: no interleaving, refused seat, table switch or disconnect   *)
(* (ws_handlers.go: every early return between Consume and SetTableState). *)
BuyInInOnePlace ==
    \A b \in BuyInId :
        Alone(Buyer(b)) => \E x \in Places(b) : Places(b) = {x}

(* For anybody: a pending buy-in was never spent, and a buy-in is on one   *)
(* seat or in one hand at most.  Two joins never get the same buy-in out   *)
(* of the store (state_helpers.go consumePendingBuyIn).                    *)
InPlay(b) ==
    {<<"seat", x>> : x \in SeatPlaces(b)} \cup {<<"hand", x>> : x \in HandPlaces(b)}

BuyInSpentOnce ==
    \A b \in BuyInId :
        /\ PendingPlaces(b) # {} => \E x \in Places(b) : Places(b) = {x}
        /\ \A x, y \in InPlay(b) : x = y

(* The chips of a player that are somewhere: his wallet, and every buy-in  *)
(* of his counted in each place it is in.                                  *)
Copies(b) ==
    Cardinality(PendingPlaces(b)) + Cardinality(SeatPlaces(b))
        + Cardinality(HandPlaces(b)) + Cardinality(OffSeatPlaces(b))

ChipsOutside(p) ==
    SumFunction([b \in 1 .. MaxBuyIns |->
        IF b \in BuyInId /\ Buyer(b) = p THEN buyIns[b].amount * Copies(b) ELSE 0])

LostChips(p) ==
    SumFunction([b \in 1 .. MaxBuyIns |->
        IF b \in BuyInId \cap lost /\ Buyer(b) = p THEN buyIns[b].amount ELSE 0])

Chips(p) == balances[p] + ChipsOutside(p)

(* The wallet of a player who is alone and his chips outside it add up to  *)
(* what he started with, less the buy-ins an unheard consume or a failed   *)
(* credit lost: a credit is of the amount that was paid, and no other step *)
(* costs him a chip (state_helpers.go refundStackToWallet).                *)
AloneChipsConserved ==
    \A p \in PlayerIds :
        (Alone(p) /\ HasWallet(p)) => Chips(p) + LostChips(p) = InitialBalance

(* The row of a buy-in, if the store kept one for each, as PostgreSQL does. *)
RowOf(b) ==
    IF b \in BuyInId
    THEN [player |-> buyIns[b].player, table |-> buyIns[b].table,
          amount |-> buyIns[b].amount,
          status |-> IF PendingPlaces(b) = {} THEN "consumed" ELSE "pending"]
    ELSE [status |-> "none"]

Ledger == INSTANCE WalletLedger
            WITH wallets <- balances, buyIns <- [b \in 1 .. MaxBuyIns |-> RowOf(b)]

(* Over the in-memory store too, the application moves chips by the whole  *)
(* transfers of WalletLedger only, which PostgresStore implements: a       *)
(* wallet is opened once and never by a credit, no call touches a pending  *)
(* buy-in of another, and a consumed one never comes back                  *)
(* (event_store.go noopEventStore; ws_handlers.go, state_helpers.go).      *)
ImplementsLedger == Ledger!LedgerSpec

(* A buy-in a join consumed stays in the hands of its handler until it is  *)
(* on a seat or credited back (or the credit ends in an error): no path    *)
(* through handleJoinTableEvent loses it.                                  *)
JoinLosesNoChips ==
    [][\A c \in Conns : \A b \in BuyInId : reg[c].buyIn = b =>
            \/ reg'[c].buyIn = b
            \/ SeatPlaces(b)' # {}
            \/ refunds'[b] > refunds[b]
            \/ b \in lost']_vars

(* A seat belongs to a connection.  When the only connection of a player   *)
(* waits for its next message, he sits where its wsClient says and nowhere *)
(* else, so that a join, a leave and a disconnect act on the right seat;   *)
(* when he has no connection he has no seat.                               *)
SeatBelongsToConnection ==
    \A p \in PlayerIds : Alone(p) =>
        /\ \A c \in Conns : (Owner[c] = p /\ At(c, "idle")) =>
                \A t \in TableIds :
                    IsSeated(tables[t], p) <=>
                        client[c] = [table |-> t, seated |-> TRUE]
        /\ ~ Busy(p) => \A t \in TableIds : ~ IsSeated(tables[t], p)

(* Once the connection of a player is gone the chips he sat with come back *)
(* to his wallet, unless a failed credit or an unheard consume lost them   *)
(* or he stops being alone (ws_handlers.go closeClient).                   *)
Stranded(b) ==
    /\ b \in BuyInId
    /\ PendingPlaces(b) = {}
    /\ \A c \in open : Owner[c] # Buyer(b)

Returned(b) == refunds[b] = 1 \/ b \in lost

DisconnectReturnsChips ==
    \A b \in 1 .. MaxBuyIns :
        Stranded(b) ~> (Returned(b) \/ (b \in BuyInId /\ ~ Alone(Buyer(b))))

(* Every closeClient comes to its end: a connection that was closed, by    *)
(* its peer, by a failed write or by a revoker, is eventually done, and so *)
(* is every revoker (session_helpers.go 39-41).                            *)
ClosedConnectionsFinish ==
    /\ \A c \in Conns : (c \notin open /\ Active(c)) ~> At(c, "done")
    /\ \A r \in Revokers : Active(r) ~> At(r, "done")
=============================================================================
