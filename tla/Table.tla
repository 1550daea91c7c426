------------------------------- MODULE Table -------------------------------
(***************************************************************************)
(* One poker table: the seats, the index from player to seat, and the      *)
(* sequence number every change of the seats is published under            *)
(* (backend/internal/table/table.go).  The operations are operators on a   *)
(* table record, because the code runs each of them whole under the        *)
(* table's mutex; TableManager and TableService make steps of them.        *)
(*                                                                         *)
(* A nickname is only carried along, and is left out.  A stack is a        *)
(* natural number that no operation of this module changes once its player *)
(* is seated.                                                              *)
(***************************************************************************)
EXTENDS Identities, FiniteSets

CONSTANT MaxPlayers    \* the number of seats of a table (9 in the code)

ASSUME MaxPlayersAssumption == MaxPlayers \in Nat \ {0}

Seat == 0 .. MaxPlayers - 1

\* "not seated" in playerSeat, and "no preferred seat" in a join request.
NoSeat == -1
AnySeat == -1

\* The nil pointer of a free seat.
FreeSeat == [player |-> NoPlayer, stack |-> 0]

Player == [player : PlayerIds, stack : Nat]

TableRecord ==
    [seats : [Seat -> Player \cup {FreeSeat}],
     playerSeat : [PlayerIds -> Seat \cup {NoSeat}],
     seq : Nat]

\* New: what the manager creates on the first use of a table id.
EmptyTable ==
    [seats |-> [i \in Seat |-> FreeSeat],
     playerSeat |-> [p \in PlayerIds |-> NoSeat],
     seq |-> 0]

IsSeated(T, p) == T.playerSeat[p] # NoSeat

IsFree(T, i) == T.seats[i] = FreeSeat

\* The seats and the index are two views of one assignment.
SeatsAgree(T) ==
    \A p \in PlayerIds, i \in Seat :
        T.seats[i].player = p <=> T.playerSeat[p] = i

\* snapshotLocked: the occupied seats; their order is that of the seats.
Snapshot(T) ==
    {[player |-> T.seats[i].player, seat |-> i, stack |-> T.seats[i].stack] :
        i \in {j \in Seat : ~ IsFree(T, j)}}

\* An allocation that takes the number of seated players for a free seat.
AllocateSeatByCount(T, preferred) ==
    IF preferred = AnySeat
    THEN {Cardinality({j \in Seat : ~ IsFree(T, j)})}
    ELSE {i \in Seat : i = preferred /\ IsFree(T, i)}

\* The seat a join gets: the preferred one if it is free, else the lowest free
\* one.  Empty where the code returns ErrSeatInvalid, ErrSeatTaken or
\* ErrTableFull.
AllocateSeat(T, preferred) ==
    IF preferred = AnySeat
    THEN {i \in Seat : IsFree(T, i) /\ \A j \in Seat : IsFree(T, j) => i <= j}
    ELSE {i \in Seat : i = preferred /\ IsFree(T, i)}

\* Join of a player who is not seated, once seat i is allocated.
Join(T, p, stack, i) ==
    [seats |-> [T.seats EXCEPT ![i] = [player |-> p, stack |-> stack]],
     playerSeat |-> [T.playerSeat EXCEPT ![p] = i],
     seq |-> T.seq + 1]

\* A Leave that forgets to advance the sequence number.
LeaveKeepsSeq(T, p) ==
    [T EXCEPT !.seats = [T.seats EXCEPT ![T.playerSeat[p]] = FreeSeat],
              !.playerSeat = [T.playerSeat EXCEPT ![p] = NoSeat]]

\* A Leave that forgets to delete the player from the index.
LeaveKeepsIndex(T, p) ==
    [T EXCEPT !.seats = [T.seats EXCEPT ![T.playerSeat[p]] = FreeSeat],
              !.seq = T.seq + 1]

\* Leave of a seated player.
Leave(T, p) ==
    [seats |-> [T.seats EXCEPT ![T.playerSeat[p]] = FreeSeat],
     playerSeat |-> [T.playerSeat EXCEPT ![p] = NoSeat],
     seq |-> T.seq + 1]

\* The stack currentPlayerStack finds in a snapshot, or NoStack if the player
\* has no seat in it.
NoStack == 0

StackOf(T, p) ==
    LET occupied == {i \in Seat : T.seats[i].player = p}
    IN  IF occupied = {} THEN NoStack
        ELSE T.seats[CHOOSE i \in occupied : TRUE].stack

\* What Restore accepts of a saved list of [player, seat, stack].
CheckedList(list) ==
    \A k \in DOMAIN list :
        /\ list[k].player # NoPlayer
        /\ list[k].seat \in Seat
        /\ \A j \in DOMAIN list : j # k => /\ list[j].player # list[k].player
                                           /\ list[j].seat # list[k].seat

\* Restore of an accepted list: everything the table held is replaced.
Restore(list, seq) ==
    LET At(i) == {k \in DOMAIN list : list[k].seat = i}
        Of(p) == {k \in DOMAIN list : list[k].player = p}
    IN  [seats |-> [i \in Seat |->
            IF At(i) = {} THEN FreeSeat
            ELSE LET k == CHOOSE k \in At(i) : TRUE
                 IN  [player |-> list[k].player, stack |-> list[k].stack]],
         playerSeat |-> [p \in PlayerIds |->
            IF Of(p) = {} THEN NoSeat ELSE list[CHOOSE k \in Of(p) : TRUE].seat],
         seq |-> seq]
=============================================================================
