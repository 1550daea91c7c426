----------------------------- MODULE TableProofs -----------------------------
(***************************************************************************)
(* Lemmas about the operations of a table: each of them keeps the record   *)
(* well formed and its two views of the seating in agreement.              *)
(***************************************************************************)
EXTENDS Table, TLAPS

TableOK(T) == T \in TableRecord /\ SeatsAgree(T)

(* Seat numbers are integers, and none of them stands for "no seat".       *)
LEMMA SeatFacts == NoSeat \notin Seat /\ Seat \subseteq Nat
BY MaxPlayersAssumption DEF NoSeat, Seat

(* The empty table of getOrCreateTable is well formed.                     *)
LEMMA EmptyTableOK == TableOK(EmptyTable)
BY SeatFacts, NoPlayerAssumption
   DEF TableOK, EmptyTable, TableRecord, SeatsAgree, FreeSeat, Player

(* A seat that allocateSeatLocked returns is one of the table's and free.  *)
LEMMA AllocatedSeatIsFree ==
    ASSUME NEW T, NEW preferred, NEW i \in AllocateSeat(T, preferred)
    PROVE  i \in Seat /\ IsFree(T, i)
BY DEF AllocateSeat

(* Join of a player who is not seated, on a free seat.                     *)
LEMMA JoinOK ==
    ASSUME NEW T, TableOK(T),
           NEW p \in PlayerIds, ~ IsSeated(T, p),
           NEW i \in Seat, IsFree(T, i),
           NEW stack \in Nat
    PROVE  TableOK(Join(T, p, stack, i))
<1> DEFINE J == Join(T, p, stack, i)
<1>1. J \in TableRecord
  BY DEF TableOK, TableRecord, Join, Player
<1>2. SeatsAgree(J)
  <2> SUFFICES ASSUME NEW q \in PlayerIds, NEW j \in Seat
               PROVE  J.seats[j].player = q <=> J.playerSeat[q] = j
    BY DEF SeatsAgree
  <2>1. T.seats[j].player = q <=> T.playerSeat[q] = j
    BY DEF TableOK, SeatsAgree
  <2>2. T.seats[i].player = NoPlayer
    BY DEF IsFree, FreeSeat
  <2>3. T.playerSeat[p] = NoSeat
    BY DEF IsSeated
  <2>4. CASE j = i
    BY <2>1, <2>2, <2>3, <2>4, NoPlayerAssumption DEF Join, TableOK, TableRecord
  <2>5. CASE j # i
    BY <2>1, <2>2, <2>3, <2>5, SeatFacts DEF Join, TableOK, TableRecord
  <2> QED BY <2>4, <2>5
<1> QED BY <1>1, <1>2 DEF TableOK

(* Leave of a seated player.                                               *)
LEMMA LeaveOK ==
    ASSUME NEW T, TableOK(T), NEW p \in PlayerIds, IsSeated(T, p)
    PROVE  TableOK(Leave(T, p))
<1> DEFINE L == Leave(T, p)
<1>1. T.playerSeat[p] \in Seat
  BY DEF TableOK, TableRecord, IsSeated
<1>2. L \in TableRecord
  BY <1>1 DEF TableOK, TableRecord, Leave
<1>3. SeatsAgree(L)
  <2> SUFFICES ASSUME NEW q \in PlayerIds, NEW j \in Seat
               PROVE  L.seats[j].player = q <=> L.playerSeat[q] = j
    BY DEF SeatsAgree
  <2>1. T.seats[j].player = q <=> T.playerSeat[q] = j
    BY DEF TableOK, SeatsAgree
  <2>2. T.seats[j].player = p <=> T.playerSeat[p] = j
    BY DEF TableOK, SeatsAgree
  <2>3. CASE j = T.playerSeat[p]
    BY <2>1, <2>2, <2>3, NoPlayerAssumption, SeatFacts
       DEF Leave, TableOK, TableRecord, FreeSeat
  <2>4. CASE j # T.playerSeat[p]
    BY <2>1, <2>2, <2>4, SeatFacts DEF Leave, TableOK, TableRecord
  <2> QED BY <2>3, <2>4
<1> QED BY <1>2, <1>3 DEF TableOK

(* A saved list that passes the checks of Restore.                         *)
LEMMA RestoreOK ==
    ASSUME NEW list, CheckedList(list),
           \A k \in DOMAIN list : /\ list[k].player \in PlayerIds \cup {NoPlayer}
                                  /\ list[k].stack \in Nat,
           NEW seq \in Nat
    PROVE  TableOK(Restore(list, seq))
<1> DEFINE R == Restore(list, seq)
           At(i) == {k \in DOMAIN list : list[k].seat = i}
           Of(p) == {k \in DOMAIN list : list[k].player = p}
<1>1. ASSUME NEW k \in DOMAIN list
      PROVE  /\ list[k].player \in PlayerIds
             /\ list[k].seat \in Seat
             /\ list[k].stack \in Nat
             /\ At(list[k].seat) = {k}
             /\ Of(list[k].player) = {k}
  BY DEF CheckedList
<1>2. ASSUME NEW k \in DOMAIN list
      PROVE  /\ R.seats[list[k].seat] =
                    [player |-> list[k].player, stack |-> list[k].stack]
             /\ R.playerSeat[list[k].player] = list[k].seat
  BY <1>1 DEF Restore
<1>3. ASSUME NEW i \in Seat, At(i) = {}
      PROVE  R.seats[i] = FreeSeat
  BY <1>3 DEF Restore
<1>4. ASSUME NEW p \in PlayerIds, Of(p) = {}
      PROVE  R.playerSeat[p] = NoSeat
  BY <1>4 DEF Restore
<1>5. R \in TableRecord
  <2>1. ASSUME NEW i \in Seat
        PROVE  R.seats[i] \in Player \cup {FreeSeat}
    <3>1. CASE At(i) = {}
      BY <3>1, <1>3
    <3>2. CASE At(i) # {}
      <4>1. PICK k \in DOMAIN list : list[k].seat = i
        BY <3>2
      <4>2. R.seats[i] = [player |-> list[k].player, stack |-> list[k].stack]
        BY <4>1, <1>2
      <4> QED BY <4>2, <1>1 DEF Player
    <3> QED BY <3>1, <3>2
  <2>2. ASSUME NEW p \in PlayerIds
        PROVE  R.playerSeat[p] \in Seat \cup {NoSeat}
    <3>1. CASE Of(p) = {}
      BY <3>1, <1>4
    <3>2. CASE Of(p) # {}
      <4>1. PICK k \in DOMAIN list : list[k].player = p
        BY <3>2
      <4>2. R.playerSeat[p] = list[k].seat
        BY <4>1, <1>2
      <4> QED BY <4>2, <1>1
    <3> QED BY <3>1, <3>2
  <2>3. R = [seats |-> R.seats, playerSeat |-> R.playerSeat, seq |-> seq]
    BY DEF Restore
  <2>4. /\ R.seats = [i \in Seat |-> R.seats[i]]
        /\ R.playerSeat = [p \in PlayerIds |-> R.playerSeat[p]]
    BY DEF Restore
  <2>5. R.seats \in [Seat -> Player \cup {FreeSeat}]
    <3> HIDE DEF R
    <3> QED BY <2>1, <2>4
  <2>6. R.playerSeat \in [PlayerIds -> Seat \cup {NoSeat}]
    <3> HIDE DEF R
    <3> QED BY <2>2, <2>4
  <2> HIDE DEF R
  <2> QED BY <2>3, <2>5, <2>6 DEF TableRecord
<1>6. SeatsAgree(R)
  <2> SUFFICES ASSUME NEW p \in PlayerIds, NEW i \in Seat
               PROVE  R.seats[i].player = p <=> R.playerSeat[p] = i
    BY DEF SeatsAgree
  <2>1. CASE At(i) = {} /\ Of(p) = {}
    BY <2>1, <1>3, <1>4, NoPlayerAssumption, SeatFacts DEF FreeSeat
  <2>2. CASE At(i) = {} /\ Of(p) # {}
    <3>1. PICK k \in DOMAIN list : list[k].player = p
      BY <2>2
    <3>2. R.playerSeat[p] = list[k].seat /\ list[k].seat # i
      BY <3>1, <2>2, <1>2
    <3>3. R.seats[i].player = NoPlayer
      BY <2>2, <1>3 DEF FreeSeat
    <3> QED BY <3>2, <3>3, NoPlayerAssumption
  <2>3. CASE At(i) # {}
    <3>1. PICK k \in DOMAIN list : list[k].seat = i
      BY <2>3
    <3>2. R.seats[i].player = list[k].player
      <4>1. R.seats[i] = [player |-> list[k].player, stack |-> list[k].stack]
        BY <3>1, <1>2
      <4> HIDE DEF R
      <4> QED BY <4>1
    <3>3. CASE Of(p) = {}
      BY <3>1, <3>2, <3>3, <1>4, SeatFacts
    <3>4. CASE Of(p) # {}
      <4>1. PICK m \in DOMAIN list : list[m].player = p
        BY <3>4
      <4>2. R.playerSeat[p] = list[m].seat
        BY <4>1, <1>2
      <4>3. list[m].seat = i => m = k
        BY <3>1, <4>1 DEF CheckedList
      <4>4. list[k].player = p => m = k
        BY <3>1, <4>1 DEF CheckedList
      <4> HIDE DEF R
      <4> QED BY <3>1, <3>2, <4>1, <4>2, <4>3, <4>4
    <3> QED BY <3>3, <3>4
  <2> QED BY <2>1, <2>2, <2>3
<1> QED BY <1>5, <1>6 DEF TableOK

(* A snapshot holds players, their seats and their stacks, one for each    *)
(* seat that is taken.                                                     *)
LEMMA SnapshotEntries ==
    ASSUME NEW T, TableOK(T)
    PROVE  /\ Snapshot(T) \subseteq [player : PlayerIds, seat : Seat, stack : Nat]
           /\ \A x \in Snapshot(T) :
                /\ T.seats[x.seat] = [player |-> x.player, stack |-> x.stack]
                /\ T.playerSeat[x.player] = x.seat
           /\ \A i \in Seat : ~ IsFree(T, i) =>
                [player |-> T.seats[i].player, seat |-> i, stack |-> T.seats[i].stack]
                    \in Snapshot(T)
<1>1. ASSUME NEW i \in Seat, ~ IsFree(T, i)
      PROVE  /\ T.seats[i].player \in PlayerIds /\ T.seats[i].stack \in Nat
             /\ T.seats[i] = [player |-> T.seats[i].player, stack |-> T.seats[i].stack]
             /\ T.playerSeat[T.seats[i].player] = i
  <2>1. T.seats[i] \in Player
    BY <1>1 DEF TableOK, TableRecord, IsFree
  <2> QED BY <2>1 DEF TableOK, SeatsAgree, Player
<1>2. ASSUME NEW i \in Seat, ~ IsFree(T, i)
      PROVE  [player |-> T.seats[i].player, seat |-> i, stack |-> T.seats[i].stack]
                \in Snapshot(T)
  BY <1>2 DEF Snapshot
<1>3. ASSUME NEW x \in Snapshot(T)
      PROVE  /\ x \in [player : PlayerIds, seat : Seat, stack : Nat]
             /\ T.seats[x.seat] = [player |-> x.player, stack |-> x.stack]
             /\ T.playerSeat[x.player] = x.seat
  <2>1. PICK i \in Seat : /\ ~ IsFree(T, i)
                          /\ x = [player |-> T.seats[i].player, seat |-> i,
                                  stack |-> T.seats[i].stack]
    BY DEF Snapshot
  <2>2. x.player = T.seats[i].player /\ x.seat = i /\ x.stack = T.seats[i].stack
    BY <2>1
  <2> QED BY <2>1, <2>2, <1>1
<1> QED BY <1>2, <1>3

(* Restore of a snapshot is the table it was taken of: the seats, the      *)
(* index and the number.                                                   *)
LEMMA RestoreSnapshot ==
    ASSUME NEW T, TableOK(T), NEW list, list = [x \in Snapshot(T) |-> x]
    PROVE  CheckedList(list) /\ Restore(list, T.seq) = T
<1> DEFINE R == Restore(list, T.seq)
           At(i) == {k \in DOMAIN list : list[k].seat = i}
           Of(p) == {k \in DOMAIN list : list[k].player = p}
<1>1. DOMAIN list = Snapshot(T) /\ \A x \in Snapshot(T) : list[x] = x
  OBVIOUS
<1>2. ASSUME NEW x \in Snapshot(T)
      PROVE  /\ x.player \in PlayerIds /\ x.seat \in Seat /\ x.stack \in Nat
             /\ x = [player |-> x.player, seat |-> x.seat, stack |-> x.stack]
             /\ T.seats[x.seat] = [player |-> x.player, stack |-> x.stack]
             /\ T.playerSeat[x.player] = x.seat
  <2>1. x \in [player : PlayerIds, seat : Seat, stack : Nat]
    BY SnapshotEntries
  <2> QED BY <2>1, SnapshotEntries
<1>3. ASSUME NEW x \in Snapshot(T), NEW y \in Snapshot(T),
             x.seat = y.seat \/ x.player = y.player
      PROVE  x = y
  <2>1. x.seat = y.seat
    BY <1>2, <1>3
  <2>2. [player |-> x.player, stack |-> x.stack] = [player |-> y.player, stack |-> y.stack]
    BY <1>2, <2>1
  <2>3. x.player = y.player /\ x.stack = y.stack
    BY <2>2
  <2> QED BY <1>2, <2>1, <2>3
<1>4. CheckedList(list)
  BY <1>1, <1>2, <1>3, NoPlayerAssumption DEF CheckedList
<1>5. ASSUME NEW i \in Seat
      PROVE  R.seats[i] = T.seats[i]
  <2>1. CASE IsFree(T, i)
    <3>1. At(i) = {}
      <4> SUFFICES ASSUME NEW x \in Snapshot(T), x.seat = i
                   PROVE  FALSE
        BY <1>1
      <4>1. x.player \in PlayerIds /\ T.seats[i] = [player |-> x.player, stack |-> x.stack]
        BY <1>2
      <4> QED BY <4>1, <2>1, NoPlayerAssumption DEF IsFree, FreeSeat
    <3> QED BY <2>1, <3>1 DEF Restore, IsFree
  <2>2. CASE ~ IsFree(T, i)
    <3> DEFINE x == [player |-> T.seats[i].player, seat |-> i, stack |-> T.seats[i].stack]
    <3>1. x \in Snapshot(T)
      BY <2>2, SnapshotEntries
    <3>2. At(i) = {x}
      BY <1>1, <1>3, <3>1
    <3>3. R.seats[i] = [player |-> list[x].player, stack |-> list[x].stack]
      BY <3>2 DEF Restore
    <3>4. T.seats[i] = [player |-> x.player, stack |-> x.stack]
      BY <3>1, <1>2
    <3> QED BY <1>1, <3>1, <3>3, <3>4
  <2> QED BY <2>1, <2>2
<1>6. ASSUME NEW p \in PlayerIds
      PROVE  R.playerSeat[p] = T.playerSeat[p]
  <2>1. CASE IsSeated(T, p)
    <3> DEFINE i == T.playerSeat[p]
               x == [player |-> T.seats[i].player, seat |-> i, stack |-> T.seats[i].stack]
    <3>1. i \in Seat /\ T.seats[i].player = p
      BY <2>1 DEF IsSeated, TableOK, TableRecord, SeatsAgree
    <3>2. ~ IsFree(T, i)
      BY <3>1, NoPlayerAssumption DEF IsFree, FreeSeat
    <3>3. x \in Snapshot(T) /\ x.player = p
      BY <3>1, <3>2, SnapshotEntries
    <3>4. Of(p) = {x}
      BY <1>1, <1>3, <3>3
    <3>5. R.playerSeat[p] = list[x].seat
      BY <3>4 DEF Restore
    <3> QED BY <1>1, <3>3, <3>5
  <2>2. CASE ~ IsSeated(T, p)
    <3>1. Of(p) = {}
      <4> SUFFICES ASSUME NEW x \in Snapshot(T), x.player = p
                   PROVE  FALSE
        BY <1>1
      <4> QED BY <1>2, <2>2, SeatFacts DEF IsSeated
    <3> QED BY <2>2, <3>1 DEF Restore, IsSeated
  <2> QED BY <2>1, <2>2
<1>7. /\ R = [seats |-> R.seats, playerSeat |-> R.playerSeat, seq |-> T.seq]
      /\ R.seats = [i \in Seat |-> R.seats[i]]
      /\ R.playerSeat = [p \in PlayerIds |-> R.playerSeat[p]]
  BY DEF Restore
<1>8. /\ T = [seats |-> T.seats, playerSeat |-> T.playerSeat, seq |-> T.seq]
      /\ T.seats = [i \in Seat |-> T.seats[i]]
      /\ T.playerSeat = [p \in PlayerIds |-> T.playerSeat[p]]
  BY DEF TableOK, TableRecord
<1> HIDE DEF R
<1>9. R.seats = T.seats /\ R.playerSeat = T.playerSeat
  BY <1>5, <1>6, <1>7, <1>8
<1>10. R = T
  BY <1>7, <1>8, <1>9
<1> QED BY <1>4, <1>10 DEF R

(* A Join or a Leave seats or unseats nobody else.                         *)
LEMMA OthersKeepTheirSeats ==
    ASSUME NEW T, T \in TableRecord, NEW p \in PlayerIds, NEW q \in PlayerIds \ {p}
    PROVE  /\ IsSeated(Leave(T, p), q) <=> IsSeated(T, q)
           /\ \A stack \in Nat, i \in Seat : IsSeated(Join(T, p, stack, i), q) <=> IsSeated(T, q)
BY DEF TableRecord, IsSeated, Leave, Join

(* A Join seats its player.                                                *)
LEMMA JoinSeats ==
    ASSUME NEW T, T \in TableRecord, NEW p \in PlayerIds, NEW stack \in Nat, NEW i \in Seat
    PROVE  IsSeated(Join(T, p, stack, i), p)
BY SeatFacts DEF TableRecord, IsSeated, Join

(* currentPlayerStack finds a number of chips, of a seat or none.          *)
LEMMA StackOfIsNat ==
    ASSUME NEW T, T \in TableRecord, NEW p
    PROVE  StackOf(T, p) \in Nat
<1> DEFINE occupied == {i \in Seat : T.seats[i].player = p}
<1>1. CASE occupied = {}
  BY <1>1 DEF StackOf, NoStack
<1>2. CASE occupied # {}
  <2>1. (CHOOSE i \in occupied : TRUE) \in Seat
    BY <1>2
  <2>2. \A i \in Seat : T.seats[i].stack \in Nat
    BY DEF TableRecord, Player, FreeSeat
  <2> QED BY <1>2, <2>1, <2>2 DEF StackOf
<1> QED BY <1>1, <1>2

(* In a well-formed table, currentPlayerStack finds the stack on the seat  *)
(* the index gives the player, and nothing for a player it gives none.     *)
LEMMA StackOfSeat ==
    ASSUME NEW T, TableOK(T), NEW p \in PlayerIds
    PROVE  /\ IsSeated(T, p) => /\ T.playerSeat[p] \in Seat
                                /\ T.seats[T.playerSeat[p]].player = p
                                /\ ~ IsFree(T, T.playerSeat[p])
                                /\ StackOf(T, p) = T.seats[T.playerSeat[p]].stack
           /\ ~ IsSeated(T, p) => StackOf(T, p) = NoStack
<1> DEFINE occupied == {i \in Seat : T.seats[i].player = p}
<1>1. T.playerSeat[p] \in Seat \cup {NoSeat}
  BY DEF TableOK, TableRecord
<1>2. \A i \in Seat : T.seats[i].player = p <=> T.playerSeat[p] = i
  BY DEF TableOK, SeatsAgree
<1>3. CASE IsSeated(T, p)
  <2> DEFINE i == T.playerSeat[p]
  <2>1. i \in Seat /\ T.seats[i].player = p
    BY <1>1, <1>2, <1>3 DEF IsSeated
  <2>2. occupied = {i}
    BY <1>2, <2>1
  <2>3. StackOf(T, p) = T.seats[i].stack
    BY <2>2 DEF StackOf
  <2>4. ~ IsFree(T, i)
    BY <2>1, NoPlayerAssumption DEF IsFree, FreeSeat
  <2> QED BY <1>3, <2>1, <2>3, <2>4
<1>4. CASE ~ IsSeated(T, p)
  <2>1. occupied = {}
    BY <1>2, <1>4, SeatFacts DEF IsSeated
  <2> QED BY <1>4, <2>1 DEF StackOf
<1> QED BY <1>3, <1>4

(* The stack of a player is not touched when another one leaves or joins.  *)
LEMMA OthersKeepTheirStacks ==
    ASSUME NEW T, TableOK(T), NEW p \in PlayerIds, NEW q \in PlayerIds \ {p}
    PROVE  /\ IsSeated(T, p) => StackOf(Leave(T, p), q) = StackOf(T, q)
           /\ \A stack \in Nat, i \in Seat :
                (IsFree(T, i) /\ ~ IsSeated(T, p))
                    => StackOf(Join(T, p, stack, i), q) = StackOf(T, q)
<1>0. T \in TableRecord
  BY DEF TableOK
<1>1. ASSUME NEW U, TableOK(U),
             U.playerSeat[q] = T.playerSeat[q],
             IsSeated(T, q) => U.seats[T.playerSeat[q]] = T.seats[T.playerSeat[q]]
      PROVE  StackOf(U, q) = StackOf(T, q)
  <2>1. IsSeated(U, q) <=> IsSeated(T, q)
    BY <1>1 DEF IsSeated
  <2> QED BY <1>1, <2>1, StackOfSeat
<1>2. ASSUME IsSeated(T, p)
      PROVE  StackOf(Leave(T, p), q) = StackOf(T, q)
  <2> DEFINE U == Leave(T, p)
  <2>1. TableOK(U)
    BY <1>2, LeaveOK
  <2>2. U.playerSeat[q] = T.playerSeat[q]
    BY <1>0 DEF Leave, TableRecord
  <2>3. ASSUME IsSeated(T, q)
        PROVE  U.seats[T.playerSeat[q]] = T.seats[T.playerSeat[q]]
    <3>1. T.playerSeat[q] \in Seat /\ T.playerSeat[q] # T.playerSeat[p]
      BY <1>2, <2>3, StackOfSeat
    <3> QED BY <3>1, <1>0 DEF Leave, TableRecord
  <2> HIDE DEF U
  <2> QED BY <1>1, <2>1, <2>2, <2>3 DEF U
<1>3. ASSUME NEW stack \in Nat, NEW i \in Seat, IsFree(T, i), ~ IsSeated(T, p)
      PROVE  StackOf(Join(T, p, stack, i), q) = StackOf(T, q)
  <2> DEFINE U == Join(T, p, stack, i)
  <2>1. TableOK(U)
    BY <1>3, JoinOK
  <2>2. U.playerSeat[q] = T.playerSeat[q]
    BY <1>0 DEF Join, TableRecord
  <2>3. ASSUME IsSeated(T, q)
        PROVE  U.seats[T.playerSeat[q]] = T.seats[T.playerSeat[q]]
    <3>1. T.playerSeat[q] \in Seat /\ T.playerSeat[q] # i
      BY <1>3, <2>3, StackOfSeat
    <3> QED BY <3>1, <1>0 DEF Join, TableRecord
  <2> HIDE DEF U
  <2> QED BY <1>1, <2>1, <2>2, <2>3 DEF U
<1> QED BY <1>2, <1>3
=============================================================================
