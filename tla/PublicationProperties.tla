----------------------- MODULE PublicationProperties -----------------------
(***************************************************************************)
(* What the players see of a table, what Redis has of it, and what a       *)
(* restart brings back.                                                    *)
(***************************************************************************)
EXTENDS Publication, Functions

\* The chips of all players are a sum over them and over all seats.
ASSUME FiniteAssumption == IsFiniteSet(PlayerIds) /\ IsFiniteSet(TableIds)

\* A snapshot of t is on its way to some screen.
InHand(t) == \E p \in PlayerIds : Holds(p, t)

(* While the handlers of a table follow one another, a connection that     *)
(* waits for its next message shows that table as it is now, whoever       *)
(* changed it and whatever the connection did before: joined it, left it,  *)
(* switched to it or was only greeted with it (ws_handlers.go 40, 165-166, *)
(* 195-196, 208).  Two handlers at once write to a connection in any       *)
(* order, and the older snapshot may come last and stay (ScreensFollowSeq).*)
AloneScreenCurrent ==
    \A p \in open : LET t == client[p].table IN
        (At(p, "idle") /\ t \notin overlapped /\ ~ InHand(t))
            => screen[p] = MessageOf(t)

(* "An event is given a seq, which keeps the order"                        *)
(* (docs/plans/phase-0-architecture.md:51), and "the client applies events *)
(* by seq" (phase-0-event-schema-draft.md:194): on one connection the      *)
(* table on the screen never goes back to a lower number.                  *)
ScreensFollowSeq ==
    [][\A p \in PlayerIds :
            (p \in open /\ p \in open' /\ screen'[p].table = screen[p].table)
                => screen'[p].seq >= screen[p].seq]_vars

(* What Redis has of a table is the table, once every handler is through,  *)
(* if they came one after the other and the last save succeeded: no        *)
(* handler changes a table without saving it, whichever way it ends        *)
(* (ws_handlers.go 98, 153, 167, 197; state_helpers.go 41).                *)
AloneSavedCurrent ==
    \A t \in TableIds :
        (t \notin overlapped \cup unsaved /\ ~ Unfinished(t))
            => saved[t] = MessageOf(t)

(* Every change of a table, by its number, is in the event log once its    *)
(* handler is through, however the handlers interleaved, except where an   *)
(* error of PostgreSQL or the end of the process kept it out (ws_handlers. *)
(* go 99, 154, 168, 198; state_helpers.go 135).  The rows of a table that  *)
(* starts from zero after a restart repeat earlier numbers.                *)
ChangesLogged ==
    \A t \in TableIds \ unlogged :
        \A n \in 1 .. tables[t].seq :
            n \in events[t] \/ \E p \in PlayerIds : Holds(p, t) /\ reg[p].msg.seq = n

(* A restart while the default table is at rest and saved brings it back   *)
(* as it was: the seats, their stacks, the index and the number (app.go    *)
(* 79, table_snapshot_store.go 96 and 116, table.go Restore).              *)
QuietRestartKeepsTable ==
    [][(/\ restarts' # restarts
        /\ boot' = "restored"
        /\ DefaultTable \notin overlapped \cup unsaved
        /\ ~ Unfinished(DefaultTable))
            => tables'[DefaultTable] = tables[DefaultTable]]_vars

\* The stacks on all seats.
Cells == TableIds \X Seat

StackOn == [c \in Cells |-> tables[c[1]].seats[c[2]].stack]

Chips == SumFunction(bank) + SumFunction(StackOn)

(* The chips of all players never grow, across any number of restarts,     *)
(* unless a boot restored a snapshot of a table that was not at rest, or   *)
(* not saved: the refund is in PostgreSQL before the freed seat is in      *)
(* Redis (ws_handlers.go 95 and 98, 193 and 197), so such a boot brings    *)
(* back a seat whose chips its player has already.                         *)
TrustedNoChipsCreated ==
    doubted \/ Chips <= InitialChips * Cardinality(PlayerIds)
=============================================================================
