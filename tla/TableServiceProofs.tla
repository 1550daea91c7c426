------------------------- MODULE TableServiceProofs -------------------------
(***************************************************************************)
(* What holds of the application for any number of players, connections,   *)
(* revoking requests, tables, seats and errors of the store, and any       *)
(* interleaving: the types, that no buy-in is spent twice, and, for a      *)
(* player who is alone, that his seat and his chips are where they belong. *)
(***************************************************************************)
EXTENDS TableServiceProperties, TableProofs, SumProofs

(***************************************************************************)
(* The inductive invariant.  The types do not say enough: a refund adds    *)
(* the amount of the buy-in in a register to a wallet, so that number must *)
(* be one that was given out, and not the number that means none.          *)
(***************************************************************************)

\* Zero, or the number of a buy-in that was created.
Known == 0 .. Len(buyIns)

IdsKnown ==
    /\ Len(buyIns) <= MaxBuyIns
    /\ \A p \in PlayerIds, t \in TableIds : pending[p][t] \in Known
    /\ \A t \in TableIds, i \in Seat : tables[t].seats[i].stack \in Known
    /\ \A th \in Threads : reg[th].buyIn \in Known /\ reg[th].stack \in Known
    /\ \A b \in 1 .. MaxBuyIns : refunds[b] # 0 => b \in Known
    /\ lost \subseteq Known

\* Where a join holds the buy-in it consumed, and where a stack that was taken
\* off a seat is about to be credited.
HandPcs == {"switchRead", "switchLeave", "switchMark", "switchMarkAbsent",
            "switchRefund", "switchTell", "seat", "seatRefund"}
RefundPcs == {"switchRefund", "leaveRefund", "closeRefund"}

HandsFull ==
    \A th \in Threads :
        /\ pc[th] \in HandPcs => reg[th].buyIn # NoBuyIn
        /\ pc[th] \in RefundPcs => reg[th].stack # NoStack

TablesAgree == \A t \in TableIds : SeatsAgree(tables[t])

\* A taken seat, and the buy-in on it.
Taken(t, i) == ~ IsFree(tables[t], i)
OnSeat(t, i) == tables[t].seats[i].stack

SeatsPaid ==
    /\ \A t \in TableIds, i \in Seat : Taken(t, i) => OnSeat(t, i) # NoBuyIn
    /\ \A t, u \in TableIds : \A i, j \in Seat :
            (Taken(t, i) /\ Taken(u, j) /\ OnSeat(t, i) = OnSeat(u, j))
                => t = u /\ i = j

HandsDiffer ==
    \A th \in Threads : reg[th].buyIn # NoBuyIn =>
        /\ \A o \in Threads : reg[o].buyIn = reg[th].buyIn => o = th
        /\ \A t \in TableIds, i \in Seat : Taken(t, i) => OnSeat(t, i) # reg[th].buyIn

\* A pending buy-in has not been anywhere else, registers included.
PendingUnspent ==
    \A p \in PlayerIds, t \in TableIds : HasPending(p, t) =>
        /\ \A q \in PlayerIds, u \in TableIds :
                pending[q][u] = pending[p][t] => q = p /\ u = t
        /\ \A u \in TableIds, i \in Seat : Taken(u, i) => OnSeat(u, i) # pending[p][t]
        /\ \A th \in Threads : reg[th].buyIn # pending[p][t] /\ reg[th].stack # pending[p][t]
        /\ refunds[pending[p][t]] = 0
        /\ pending[p][t] \notin lost

Spent == SeatsPaid /\ HandsDiffer /\ PendingUnspent

IInv == TypeOK /\ IdsKnown /\ HandsFull /\ TablesAgree /\ Spent

-----------------------------------------------------------------------------
(* Facts about single states.                                              *)

(* What currentPlayerStack returns is nothing, or the stack on a seat.     *)
LEMMA StackIsOnSeat ==
    ASSUME NEW t \in TableIds, NEW p \in PlayerIds
    PROVE  \/ StackOf(tables[t], p) = NoStack
           \/ \E i \in Seat : Taken(t, i) /\ StackOf(tables[t], p) = OnSeat(t, i)
<1> DEFINE occupied == {i \in Seat : tables[t].seats[i].player = p}
<1>1. CASE occupied = {}
  BY <1>1 DEF StackOf
<1>2. CASE occupied # {}
  <2> DEFINE i == CHOOSE i \in occupied : TRUE
  <2>1. i \in occupied
    BY <1>2
  <2>2. StackOf(tables[t], p) = tables[t].seats[i].stack
    BY <1>2 DEF StackOf
  <2>3. Taken(t, i)
    BY <2>1, NoPlayerAssumption DEF Taken, IsFree, FreeSeat
  <2> QED BY <2>1, <2>2, <2>3 DEF OnSeat
<1> QED BY <1>1, <1>2

(* The numbers of buy-ins are natural numbers.                             *)
LEMMA NumbersAreNaturals ==
    ASSUME TypeOK
    PROVE  Known \subseteq Nat /\ BuyInId \subseteq Known /\ Len(buyIns) \in Nat
BY DEF TypeOK, StoreTypeOK, Known, BuyInId

(***************************************************************************)
(* Most steps only give up what they hold: seats become free, registers    *)
(* are cleared or read from a seat, and what a register holds is credited. *)
(***************************************************************************)
LEMMA NothingGained ==
    ASSUME TypeOK, IdsKnown, Spent,
           buyIns' = buyIns, pending' = pending,
           \A t \in TableIds, i \in Seat :
                tables'[t].seats[i] \in {tables[t].seats[i], FreeSeat},
           \A th \in Threads :
                /\ reg'[th].buyIn \in {reg[th].buyIn, NoBuyIn}
                /\ \/ reg'[th].stack \in {reg[th].stack, NoStack}
                   \/ \E t \in TableIds, i \in Seat :
                            Taken(t, i) /\ reg'[th].stack = OnSeat(t, i),
           \A b \in 1 .. MaxBuyIns : refunds'[b] # refunds[b] =>
                \E th \in Threads : b \in {reg[th].buyIn, reg[th].stack},
           \A b \in lost' \ lost :
                \E th \in Threads : b \in {reg[th].buyIn, reg[th].stack}
    PROVE  IdsKnown' /\ Spent'
<1>1. /\ Known' = Known
      /\ NoBuyIn \in Known /\ NoStack \in Known /\ NoBuyIn = 0 /\ NoStack = 0
      /\ FreeSeat.stack = 0
  BY NumbersAreNaturals DEF Known, NoBuyIn, NoStack, FreeSeat
<1>2. ASSUME NEW t \in TableIds, NEW i \in Seat, Taken(t, i)'
      PROVE  Taken(t, i) /\ OnSeat(t, i)' = OnSeat(t, i)
  BY <1>2 DEF Taken, IsFree, OnSeat
<1>3. IdsKnown'
  <2>1. (Len(buyIns) <= MaxBuyIns)'
    BY DEF IdsKnown
  <2>2. (\A p \in PlayerIds, t \in TableIds : pending[p][t] \in Known)'
    BY <1>1 DEF IdsKnown
  <2>3. (\A t \in TableIds, i \in Seat : tables[t].seats[i].stack \in Known)'
    BY <1>1 DEF IdsKnown
  <2>4. (\A th \in Threads : reg[th].buyIn \in Known /\ reg[th].stack \in Known)'
    BY <1>1 DEF IdsKnown, OnSeat
  <2>5. (\A b \in 1 .. MaxBuyIns : refunds[b] # 0 => b \in Known)'
    BY <1>1 DEF IdsKnown
  <2>6. (lost \subseteq Known)'
    <3> SUFFICES ASSUME NEW b \in lost'
                 PROVE  b \in Known
      BY <1>1
    <3>1. CASE b \in lost
      BY <3>1 DEF IdsKnown
    <3>2. CASE b \notin lost
      <4>1. PICK th \in Threads : b \in {reg[th].buyIn, reg[th].stack}
        BY <3>2
      <4> QED BY <4>1 DEF IdsKnown
    <3> QED BY <3>1, <3>2
  <2> QED BY <2>1, <2>2, <2>3, <2>4, <2>5, <2>6 DEF IdsKnown
<1>4. SeatsPaid'
  BY <1>2 DEF Spent, SeatsPaid
<1>5. HandsDiffer'
  <2> SUFFICES ASSUME NEW th \in Threads, reg'[th].buyIn # NoBuyIn
               PROVE  /\ \A o \in Threads : reg'[o].buyIn = reg'[th].buyIn => o = th
                      /\ \A t \in TableIds, i \in Seat :
                            Taken(t, i)' => OnSeat(t, i)' # reg'[th].buyIn
    BY DEF HandsDiffer
  <2>1. reg'[th].buyIn = reg[th].buyIn
    OBVIOUS
  <2> QED BY <2>1, <1>2 DEF Spent, HandsDiffer
<1>6. PendingUnspent'
  <2> SUFFICES ASSUME NEW p \in PlayerIds, NEW t \in TableIds, HasPending(p, t)'
               PROVE  /\ \A q \in PlayerIds, u \in TableIds :
                            pending'[q][u] = pending'[p][t] => q = p /\ u = t
                      /\ \A u \in TableIds, i \in Seat :
                            Taken(u, i)' => OnSeat(u, i)' # pending'[p][t]
                      /\ \A th \in Threads : /\ reg'[th].buyIn # pending'[p][t]
                                             /\ reg'[th].stack # pending'[p][t]
                      /\ refunds'[pending'[p][t]] = 0
                      /\ pending'[p][t] \notin lost'
    BY DEF PendingUnspent
  <2> DEFINE b == pending[p][t]
  <2>1. HasPending(p, t) /\ b # NoBuyIn /\ pending'[p][t] = b
    BY DEF HasPending
  <2>2. b \in 1 .. MaxBuyIns
    BY <2>1, <1>1, NumbersAreNaturals, MaxBuyInsAssumption DEF IdsKnown, Known
  <2>3. \A q \in PlayerIds, u \in TableIds :
            pending'[q][u] = b => q = p /\ u = t
    BY <2>1 DEF Spent, PendingUnspent
  <2>4. \A u \in TableIds, i \in Seat : Taken(u, i)' => OnSeat(u, i)' # b
    BY <2>1, <1>2 DEF Spent, PendingUnspent
  <2>5. \A th \in Threads : reg[th].buyIn # b /\ reg[th].stack # b
    BY <2>1 DEF Spent, PendingUnspent
  <2>6. \A th \in Threads : reg'[th].buyIn # b /\ reg'[th].stack # b
    BY <2>1, <2>5, <1>1 DEF Spent, PendingUnspent
  <2>7. refunds'[b] = 0
    BY <2>1, <2>2, <2>5 DEF Spent, PendingUnspent
  <2>8. b \notin lost'
    BY <2>1, <2>5 DEF Spent, PendingUnspent
  <2> QED BY <2>1, <2>3, <2>4, <2>6, <2>7, <2>8
<1> QED BY <1>3, <1>4, <1>5, <1>6 DEF Spent

(* The blank registers hold no buy-in, and every register is typed.        *)
LEMMA BlankIsEmpty ==
    Blank \in Registers /\ Blank.buyIn = NoBuyIn /\ Blank.stack = NoStack
BY DefaultTableAssumption DEF Blank, Registers, NoBuyIn, NoStack

(* A thread works for a player.                                            *)
LEMMA ActorIsPlayer ==
    ASSUME TypeOK
    PROVE  /\ \A th \in Threads : Actor(th) \in PlayerIds
           /\ \A c \in Conns : Owner[c] \in PlayerIds /\ c \in Threads
BY OwnerAssumption DEF TypeOK, Actor, Threads

(***************************************************************************)
(* The rules the actions are proved by.  ReadsOrDrops(r, th) is what a     *)
(* step may put in the registers of a thread without getting a buy-in.     *)
(***************************************************************************)
ReadsOrDrops(r, th) ==
    /\ r \in Registers
    /\ r.buyIn \in {reg[th].buyIn, NoBuyIn}
    /\ \/ r.stack \in {reg[th].stack, NoStack}
       \/ \E t \in TableIds, i \in Seat : Taken(t, i) /\ r.stack = OnSeat(t, i)

Rest == IdsKnown /\ TablesAgree /\ Spent

(* A step that touches neither the store, nor the tables, nor a register.  *)
LEMMA QuietStep ==
    ASSUME IInv, UNCHANGED <<buyIns, pending, tables, reg, ledger>>
    PROVE  Rest'
<1>1. TablesAgree'
  BY DEF IInv, TablesAgree, SeatsAgree
<1>2. IdsKnown' /\ Spent'
  BY NothingGained DEF IInv, ledger
<1> QED BY <1>1, <1>2 DEF Rest

(* A step that changes the registers of one thread.                        *)
LEMMA RegisterStep ==
    ASSUME IInv, NEW th \in Threads, NEW r, ReadsOrDrops(r, th), SetReg(th, r),
           UNCHANGED <<buyIns, pending, tables, ledger>>
    PROVE  Rest' /\ reg' \in [Threads -> Registers]
<1>1. reg' \in [Threads -> Registers] /\ reg'[th] = r
      /\ \A o \in Threads : o # th => reg'[o] = reg[o]
  BY DEF IInv, TypeOK, SetReg, ReadsOrDrops
<1>2. TablesAgree'
  BY DEF IInv, TablesAgree, SeatsAgree
<1>3. \A o \in Threads :
            /\ reg'[o].buyIn \in {reg[o].buyIn, NoBuyIn}
            /\ \/ reg'[o].stack \in {reg[o].stack, NoStack}
               \/ \E t \in TableIds, i \in Seat :
                        Taken(t, i) /\ reg'[o].stack = OnSeat(t, i)
  BY <1>1 DEF ReadsOrDrops
<1>4. IdsKnown' /\ Spent'
  BY <1>3, NothingGained DEF IInv, ledger
<1> QED BY <1>1, <1>2, <1>4 DEF Rest

(* A step that takes a seated player off his seat and at most clears the   *)
(* registers of the thread.                                                *)
LEMMA LeaveStep ==
    ASSUME IInv, NEW t \in TableIds, NEW p \in PlayerIds,
           IsSeated(tables[t], p),
           tables' = [tables EXCEPT ![t] = Leave(tables[t], p)],
           UNCHANGED <<buyIns, pending, reg, ledger>>
    PROVE  Rest' /\ tables' \in [TableIds -> TableRecord]
<1>1. TableOK(tables[t])
  BY DEF IInv, TypeOK, TablesAgree, TableOK
<1>2. TableOK(Leave(tables[t], p))
  BY <1>1, LeaveOK
<1>3. /\ tables' \in [TableIds -> TableRecord]
      /\ tables'[t] = Leave(tables[t], p)
      /\ \A u \in TableIds : u # t => tables'[u] = tables[u]
  BY <1>2 DEF IInv, TypeOK, TableOK
<1>4. TablesAgree'
  <2> SUFFICES ASSUME NEW u \in TableIds
               PROVE  SeatsAgree(tables'[u])
    BY DEF TablesAgree
  <2> QED BY <1>2, <1>3 DEF IInv, TablesAgree, TableOK
<1>5. ASSUME NEW u \in TableIds, NEW i \in Seat
      PROVE  tables'[u].seats[i] \in {tables[u].seats[i], FreeSeat}
  BY <1>1, <1>3 DEF Leave, TableOK, TableRecord
<1>6. IdsKnown' /\ Spent'
  BY <1>5, NothingGained DEF IInv, ledger
<1> QED BY <1>3, <1>4, <1>6 DEF Rest

(* A step that credits the buy-in a register of the thread holds, or fails *)
(* to, and at most clears the registers.                                   *)
LEMMA RefundStep ==
    ASSUME IInv, NEW th \in Threads, NEW b \in {reg[th].buyIn, reg[th].stack},
           b # NoBuyIn, NEW p \in PlayerIds, Refund(p, b),
           \/ UNCHANGED reg
           \/ SetReg(th, Blank),
           UNCHANGED tables
    PROVE  /\ Rest' /\ StoreTypeOK'
           /\ reg' \in [Threads -> Registers]
           /\ refunds' \in [1 .. MaxBuyIns -> Nat] /\ lost' \subseteq Nat
<1>1. b \in BuyInId /\ b \in Nat /\ b \in 1 .. MaxBuyIns
  <2>1. b \in Known /\ Len(buyIns) <= MaxBuyIns
    BY DEF IInv, IdsKnown
  <2> QED BY <2>1, NumbersAreNaturals, MaxBuyInsAssumption
          DEF IInv, Known, BuyInId, NoBuyIn
<1>2. buyIns[b].amount \in Nat
  <2>1. buyIns \in Seq(BuyIn)
    BY DEF IInv, TypeOK, StoreTypeOK
  <2>2. buyIns[b] \in BuyIn
    BY <2>1, <1>1 DEF BuyInId
  <2> QED BY <2>2, AmountsAssumption DEF BuyIn
<1>3. StoreTypeOK' /\ buyIns' = buyIns /\ pending' = pending
  <2>1. CASE CreditWallet(p, b)
    <3>1. Balance(p) \in Nat
      BY DEF IInv, TypeOK, StoreTypeOK, Balance, HasWallet, NoWallet
    <3>2. balances' \in [PlayerIds -> Nat \cup {NoWallet}]
      BY <2>1, <3>1, <1>2 DEF IInv, TypeOK, StoreTypeOK, CreditWallet
    <3> QED BY <2>1, <3>2 DEF IInv, TypeOK, StoreTypeOK, CreditWallet
  <2>2. CASE UNCHANGED <<balances, pending, buyIns>>
    BY <2>2 DEF IInv, TypeOK, StoreTypeOK
  <2> QED BY <2>1, <2>2 DEF Refund
<1>4. refunds' \in [1 .. MaxBuyIns -> Nat] /\ lost' \subseteq Nat
  <2>1. refunds \in [1 .. MaxBuyIns -> Nat] /\ refunds[b] + 1 \in Nat
    BY <1>1 DEF IInv, TypeOK
  <2>2. lost' \subseteq Nat
    BY <1>1 DEF IInv, TypeOK, Refund
  <2>3. refunds' \in [1 .. MaxBuyIns -> Nat]
    BY <2>1 DEF Refund
  <2> QED BY <2>2, <2>3
<1>5. reg' \in [Threads -> Registers]
  BY BlankIsEmpty DEF IInv, TypeOK, SetReg
<1>6. \A o \in Threads : /\ reg'[o].buyIn \in {reg[o].buyIn, NoBuyIn}
                         /\ reg'[o].stack \in {reg[o].stack, NoStack}
  BY BlankIsEmpty DEF IInv, TypeOK, SetReg
<1>7. \A n \in 1 .. MaxBuyIns : refunds'[n] # refunds[n] => n = b
  BY DEF IInv, TypeOK, Refund
<1>8. \A n \in lost' \ lost : n = b
  BY DEF Refund
<1>9. IdsKnown' /\ Spent'
  BY <1>3, <1>6, <1>7, <1>8, NothingGained DEF IInv
<1>10. TablesAgree'
  BY DEF IInv, TablesAgree, SeatsAgree
<1> QED BY <1>3, <1>4, <1>5, <1>9, <1>10 DEF Rest

-----------------------------------------------------------------------------
(* The three steps that move a buy-in forward.                             *)

(* A new buy-in has a number nothing had before.                           *)
LEMMA TableBuyInKeepsIInv ==
    ASSUME IInv, NEW p \in PlayerIds, NEW t \in TableIds,
           NEW amount \in Amounts, TableBuyIn(p, t, amount)
    PROVE  IInv'
<1> DEFINE n == Len(buyIns) + 1
           bought == [player |-> p, table |-> t, amount |-> amount]
<1>1. /\ balances' = [balances EXCEPT ![p] = balances[p] - amount]
      /\ buyIns' = Append(buyIns, bought)
      /\ pending' = [pending EXCEPT ![p][t] = n]
      /\ balances[p] >= amount /\ Len(buyIns) < MaxBuyIns
      /\ UNCHANGED <<tables, client, open, hub, pc, reg, victim, todo,
                     refunds, lost, shared>>
  BY DEF TableBuyIn, CreateBuyIn, connVars, threadVars, ledger
<1>2. /\ StoreTypeOK /\ amount \in Nat /\ n \in Nat
      /\ Known = 0 .. Len(buyIns) /\ Len(buyIns) \in Nat
  BY AmountsAssumption, NumbersAreNaturals DEF IInv, TypeOK, Known
<1>3. /\ Len(buyIns') = n /\ Known' = 0 .. n /\ Known \subseteq Known'
      /\ n \in Known' /\ n \notin Known /\ n # NoBuyIn /\ n \in 1 .. MaxBuyIns
      /\ buyIns' \in Seq(BuyIn)
  <2>1. buyIns \in Seq(BuyIn) /\ bought \in BuyIn
    BY <1>2 DEF StoreTypeOK, BuyIn
  <2>2. buyIns' \in Seq(BuyIn) /\ Len(buyIns') = n
    BY <2>1, <1>1
  <2> QED BY <2>2, <1>1, <1>2, MaxBuyInsAssumption DEF Known, NoBuyIn
<1>4. /\ pending'[p][t] = n
      /\ \A q \in PlayerIds, u \in TableIds :
            ~ (q = p /\ u = t) => pending'[q][u] = pending[q][u]
  BY <1>1, <1>2 DEF StoreTypeOK
<1>5. StoreTypeOK'
  <2>1. balances' \in [PlayerIds -> Nat \cup {NoWallet}]
    <3>1. balances[p] \in Nat /\ balances[p] - amount \in Nat
      BY <1>1, <1>2 DEF StoreTypeOK, NoWallet
    <3> QED BY <3>1, <1>1, <1>2 DEF StoreTypeOK
  <2>2. pending' \in [PlayerIds -> [TableIds -> Nat]]
    BY <1>1, <1>2 DEF StoreTypeOK
  <2> QED BY <2>1, <2>2, <1>3 DEF StoreTypeOK
<1>6. TypeOK'
  BY <1>1, <1>5 DEF IInv, TypeOK
<1>7. HandsFull' /\ TablesAgree' /\ SeatsPaid' /\ HandsDiffer'
  BY <1>1 DEF IInv, HandsFull, TablesAgree, SeatsAgree, Spent, SeatsPaid,
              HandsDiffer, Taken, IsFree, OnSeat
<1>8. IdsKnown'
  <2>1. (\A q \in PlayerIds, u \in TableIds : pending[q][u] \in Known)'
    BY <1>3, <1>4 DEF IInv, IdsKnown
  <2>2. (\A u \in TableIds, i \in Seat : tables[u].seats[i].stack \in Known)'
    BY <1>1, <1>3 DEF IInv, IdsKnown
  <2>3. (\A th \in Threads : reg[th].buyIn \in Known /\ reg[th].stack \in Known)'
    BY <1>1, <1>3 DEF IInv, IdsKnown
  <2>4. (\A b \in 1 .. MaxBuyIns : refunds[b] # 0 => b \in Known)'
    BY <1>1, <1>3 DEF IInv, IdsKnown
  <2>5. (lost \subseteq Known)'
    BY <1>1, <1>3 DEF IInv, IdsKnown
  <2> QED BY <2>1, <2>2, <2>3, <2>4, <2>5, <1>3, MaxBuyInsAssumption DEF IdsKnown
<1>9. PendingUnspent'
  <2> SUFFICES ASSUME NEW q \in PlayerIds, NEW u \in TableIds, HasPending(q, u)'
               PROVE  /\ \A v \in PlayerIds, w \in TableIds :
                            pending'[v][w] = pending'[q][u] => v = q /\ w = u
                      /\ \A w \in TableIds, i \in Seat :
                            Taken(w, i)' => OnSeat(w, i)' # pending'[q][u]
                      /\ \A th \in Threads : /\ reg'[th].buyIn # pending'[q][u]
                                             /\ reg'[th].stack # pending'[q][u]
                      /\ refunds'[pending'[q][u]] = 0
                      /\ pending'[q][u] \notin lost'
    BY DEF PendingUnspent
  <2>1. \A v \in PlayerIds, w \in TableIds : pending[v][w] # n
    BY <1>3 DEF IInv, IdsKnown
  <2>2. CASE q = p /\ u = t
    <3>1. \A v \in PlayerIds, w \in TableIds :
                pending'[v][w] = n => v = q /\ w = u
      BY <2>1, <2>2, <1>4
    <3>2. \A w \in TableIds, i \in Seat : OnSeat(w, i)' # n
      BY <1>1, <1>3 DEF IInv, IdsKnown, OnSeat
    <3>3. \A th \in Threads : reg'[th].buyIn # n /\ reg'[th].stack # n
      BY <1>1, <1>3 DEF IInv, IdsKnown
    <3>4. refunds'[n] = 0 /\ n \notin lost'
      BY <1>1, <1>3 DEF IInv, IdsKnown
    <3> QED BY <2>2, <1>4, <3>1, <3>2, <3>3, <3>4
  <2>3. CASE ~ (q = p /\ u = t)
    <3>1. pending'[q][u] = pending[q][u] /\ HasPending(q, u)
      BY <2>3, <1>4 DEF HasPending
    <3>2. pending[q][u] # n
      BY <2>1
    <3>3. \A v \in PlayerIds, w \in TableIds :
                pending'[v][w] = pending'[q][u] => v = q /\ w = u
      BY <3>1, <3>2, <1>4 DEF IInv, Spent, PendingUnspent
    <3> QED BY <3>1, <3>3, <1>1 DEF IInv, Spent, PendingUnspent, Taken, IsFree, OnSeat
  <2> QED BY <2>2, <2>3
<1> QED BY <1>6, <1>7, <1>8, <1>9 DEF IInv, Spent

(* consumePendingBuyIn takes the buy-in from where it is pending into the  *)
(* hand of the thread, or loses it.                                        *)
LEMMA ConsumeKeepsIInv ==
    ASSUME IInv, NEW c \in Conns, Consume(c)
    PROVE  IInv'
<1> DEFINE p == Owner[c]
           t == reg[c].table
           b == pending[p][t]
           next == [reg[c] EXCEPT !.buyIn = b, !.from = client[c].table]
<1>1. /\ c \in Threads /\ p \in PlayerIds /\ t \in TableIds /\ reg[c] \in Registers
      /\ client[c].table \in TableIds
  BY ActorIsPlayer DEF IInv, TypeOK, Registers
<1>2. UNCHANGED <<tables, client, open, hub, victim, todo, refunds, shared>>
  BY DEF Consume, connVars, threadVars
<1>3. CASE /\ ConsumePendingBuyIn(p, t) /\ UNCHANGED lost
           /\ SetReg(c, next)
           /\ Goto(c, IF client[c].seated THEN "switchRead" ELSE "seat")
  <2>1. /\ b # NoBuyIn /\ HasPending(p, t)
        /\ pending' = [pending EXCEPT ![p][t] = NoBuyIn]
        /\ UNCHANGED <<balances, buyIns>>
    BY <1>3 DEF ConsumePendingBuyIn, HasPending
  <2>2. /\ pending'[p][t] = NoBuyIn
        /\ \A q \in PlayerIds, u \in TableIds :
                ~ (q = p /\ u = t) => pending'[q][u] = pending[q][u]
        /\ b \in Nat /\ pending' \in [PlayerIds -> [TableIds -> Nat]]
    BY <2>1, <1>1 DEF IInv, TypeOK, StoreTypeOK, NoBuyIn
  <2>3. next \in Registers /\ next.buyIn = b /\ next.stack = reg[c].stack
    BY <1>1, <2>2 DEF Registers
  <2>4. /\ reg' \in [Threads -> Registers] /\ reg'[c] = next
        /\ \A th \in Threads : th # c => reg'[th] = reg[th]
    BY <1>1, <1>3, <2>3 DEF IInv, TypeOK, SetReg
  <2>5. TypeOK'
    <3>1. StoreTypeOK'
      BY <2>1, <2>2 DEF IInv, TypeOK, StoreTypeOK
    <3>2. pc' \in [Threads -> {"new", "idle", "done"}
                                \cup JoinPcs \cup LeavePcs \cup ClosePcs]
      BY <1>1, <1>3 DEF IInv, TypeOK, Goto, JoinPcs
    <3> QED BY <3>1, <3>2, <2>4, <1>2, <1>3 DEF IInv, TypeOK
  <2>6. HandsFull'
    BY <1>1, <1>3, <2>1, <2>3, <2>4
       DEF IInv, HandsFull, TypeOK, Goto, RefundPcs
  <2>7. TablesAgree'
    BY <1>2 DEF IInv, TablesAgree, SeatsAgree
  <2>8. IdsKnown'
    <3>1. Known' = Known /\ NoBuyIn \in Known /\ b \in Known
      BY <2>1, <1>1, NumbersAreNaturals DEF IInv, IdsKnown, Known, NoBuyIn
    <3>2. (\A q \in PlayerIds, u \in TableIds : pending[q][u] \in Known)'
      BY <3>1, <2>2 DEF IInv, IdsKnown
    <3>3. (\A u \in TableIds, i \in Seat : tables[u].seats[i].stack \in Known)'
      BY <3>1, <1>2 DEF IInv, IdsKnown
    <3>4. (\A th \in Threads : reg[th].buyIn \in Known /\ reg[th].stack \in Known)'
      BY <3>1, <2>3, <2>4, <1>1 DEF IInv, IdsKnown
    <3>5. (/\ Len(buyIns) <= MaxBuyIns /\ lost \subseteq Known
           /\ \A n \in 1 .. MaxBuyIns : refunds[n] # 0 => n \in Known)'
      BY <3>1, <2>1, <1>2, <1>3 DEF IInv, IdsKnown
    <3> QED BY <3>2, <3>3, <3>4, <3>5 DEF IdsKnown
  <2>9. SeatsPaid'
    BY <1>2 DEF IInv, Spent, SeatsPaid, Taken, IsFree, OnSeat
  <2>10. HandsDiffer'
    <3>1. \A th \in Threads : reg[th].buyIn # b
      BY <1>1, <2>1 DEF IInv, Spent, PendingUnspent
    <3>2. \A u \in TableIds, i \in Seat : Taken(u, i) => OnSeat(u, i) # b
      BY <1>1, <2>1 DEF IInv, Spent, PendingUnspent
    <3>3. \A u \in TableIds, i \in Seat :
                Taken(u, i)' = Taken(u, i) /\ OnSeat(u, i)' = OnSeat(u, i)
      BY <1>2 DEF Taken, IsFree, OnSeat
    <3>4. ASSUME NEW th \in Threads, reg'[th].buyIn # NoBuyIn
          PROVE  /\ \A o \in Threads : reg'[o].buyIn = reg'[th].buyIn => o = th
                 /\ \A u \in TableIds, i \in Seat :
                        Taken(u, i) => OnSeat(u, i) # reg'[th].buyIn
      <4>1. CASE th = c
        BY <4>1, <3>1, <3>2, <2>3, <2>4
      <4>2. CASE th # c
        <5>1. reg'[th] = reg[th] /\ reg[th].buyIn # NoBuyIn
          BY <4>2, <3>4, <2>4
        <5>2. /\ \A o \in Threads : reg[o].buyIn = reg[th].buyIn => o = th
              /\ \A u \in TableIds, i \in Seat :
                        Taken(u, i) => OnSeat(u, i) # reg[th].buyIn
          BY <5>1 DEF IInv, Spent, HandsDiffer
        <5>3. ASSUME NEW o \in Threads, reg'[o].buyIn = reg'[th].buyIn
              PROVE  o = th
          <6>1. o # c
            BY <5>1, <5>3, <3>1, <2>3, <2>4
          <6> QED BY <6>1, <5>1, <5>2, <5>3, <2>4
        <5> QED BY <5>1, <5>2, <5>3
      <4> QED BY <4>1, <4>2
    <3> QED BY <3>3, <3>4 DEF HandsDiffer
  <2>11. PendingUnspent'
    <3> SUFFICES ASSUME NEW q \in PlayerIds, NEW u \in TableIds, HasPending(q, u)'
                 PROVE  /\ \A v \in PlayerIds, w \in TableIds :
                              pending'[v][w] = pending'[q][u] => v = q /\ w = u
                        /\ \A w \in TableIds, i \in Seat :
                              Taken(w, i)' => OnSeat(w, i)' # pending'[q][u]
                        /\ \A th \in Threads : /\ reg'[th].buyIn # pending'[q][u]
                                               /\ reg'[th].stack # pending'[q][u]
                        /\ refunds'[pending'[q][u]] = 0
                        /\ pending'[q][u] \notin lost'
      BY DEF PendingUnspent
    <3>1. /\ pending'[q][u] = pending[q][u] /\ HasPending(q, u)
          /\ pending[q][u] # NoBuyIn
      BY <2>2 DEF HasPending
    <3>2. \A v \in PlayerIds, w \in TableIds :
                pending[v][w] = pending[q][u] => v = q /\ w = u
      BY <3>1 DEF IInv, Spent, PendingUnspent
    <3>3. pending[q][u] # b
      BY <3>2, <1>1, <2>2, <3>1
    <3>4. \A v \in PlayerIds, w \in TableIds :
                pending'[v][w] = pending'[q][u] => v = q /\ w = u
      BY <3>1, <3>2, <2>2
    <3>5. \A th \in Threads : reg[th].buyIn # pending[q][u]
                              /\ reg[th].stack # pending[q][u]
      BY <3>1 DEF IInv, Spent, PendingUnspent
    <3>6. \A th \in Threads : reg'[th].buyIn # pending'[q][u]
                              /\ reg'[th].stack # pending'[q][u]
      BY <3>1, <3>3, <3>5, <2>3, <2>4
    <3>7. /\ \A w \in TableIds, i \in Seat :
                    Taken(w, i)' => OnSeat(w, i)' # pending'[q][u]
          /\ refunds'[pending'[q][u]] = 0
          /\ pending'[q][u] \notin lost'
      BY <3>1, <1>2, <1>3 DEF IInv, Spent, PendingUnspent, Taken, IsFree, OnSeat
    <3> QED BY <3>4, <3>6, <3>7
  <2> QED BY <2>5, <2>6, <2>7, <2>8, <2>9, <2>10, <2>11 DEF IInv, Spent
<1>4. CASE Return(c) /\ UNCHANGED <<storeVars, lost>>
  <2>1. ReadsOrDrops(Blank, c) /\ SetReg(c, Blank)
    BY <1>4, BlankIsEmpty DEF ReadsOrDrops, Return, SetReg
  <2>2. Rest' /\ reg' \in [Threads -> Registers]
    BY <2>1, <1>1, <1>2, <1>4, RegisterStep DEF storeVars, ledger
  <2>3. TypeOK'
    BY <2>2, <1>1, <1>2, <1>4
       DEF IInv, TypeOK, StoreTypeOK, storeVars, Return, Goto
  <2>4. HandsFull'
    BY <1>1, <1>4 DEF IInv, TypeOK, HandsFull, Return, Goto, HandPcs, RefundPcs
  <2> QED BY <2>2, <2>3, <2>4 DEF IInv, Rest
<1>5. CASE /\ ConsumePendingBuyIn(p, t) /\ Return(c)
           /\ lost' = lost \cup {b}
  <2>1. /\ b # NoBuyIn /\ HasPending(p, t)
        /\ pending' = [pending EXCEPT ![p][t] = NoBuyIn]
        /\ UNCHANGED <<balances, buyIns>>
    BY <1>5 DEF ConsumePendingBuyIn, HasPending
  <2>2. /\ pending'[p][t] = NoBuyIn
        /\ \A q \in PlayerIds, u \in TableIds :
                ~ (q = p /\ u = t) => pending'[q][u] = pending[q][u]
        /\ b \in Nat /\ pending' \in [PlayerIds -> [TableIds -> Nat]]
    BY <2>1, <1>1 DEF IInv, TypeOK, StoreTypeOK, NoBuyIn
  <2>3. /\ reg' \in [Threads -> Registers] /\ SetReg(c, Blank)
        /\ \A th \in Threads : /\ reg'[th].buyIn \in {reg[th].buyIn, NoBuyIn}
                               /\ reg'[th].stack \in {reg[th].stack, NoStack}
        /\ pc' = [pc EXCEPT ![c] = "idle"]
    BY <1>1, <1>5, BlankIsEmpty DEF IInv, TypeOK, Return, Goto, SetReg
  <2>4. TypeOK'
    BY <1>2, <1>5, <2>1, <2>2, <2>3 DEF IInv, TypeOK, StoreTypeOK
  <2>5. HandsFull'
    BY <1>1, <2>3 DEF IInv, TypeOK, HandsFull, SetReg, HandPcs, RefundPcs
  <2>6. TablesAgree'
    BY <1>2 DEF IInv, TablesAgree, SeatsAgree
  <2>7. /\ Known' = Known /\ NoBuyIn \in Known /\ NoStack \in Known /\ b \in Known
    BY <2>1, <1>1, NumbersAreNaturals DEF IInv, IdsKnown, Known, NoBuyIn, NoStack
  <2>8. IdsKnown'
    <3>1. (\A q \in PlayerIds, u \in TableIds : pending[q][u] \in Known)'
      BY <2>2, <2>7 DEF IInv, IdsKnown
    <3>2. (\A u \in TableIds, i \in Seat : tables[u].seats[i].stack \in Known)'
      BY <2>7, <1>2 DEF IInv, IdsKnown
    <3>3. (\A th \in Threads : reg[th].buyIn \in Known /\ reg[th].stack \in Known)'
      BY <2>3, <2>7 DEF IInv, IdsKnown
    <3>4. (lost \subseteq Known)'
      BY <1>5, <2>7 DEF IInv, IdsKnown
    <3>5. (/\ Len(buyIns) <= MaxBuyIns
           /\ \A n \in 1 .. MaxBuyIns : refunds[n] # 0 => n \in Known)'
      BY <1>2, <2>1, <2>7 DEF IInv, IdsKnown
    <3> QED BY <3>1, <3>2, <3>3, <3>4, <3>5 DEF IdsKnown
  <2>9. SeatsPaid'
    BY <1>2 DEF IInv, Spent, SeatsPaid, Taken, IsFree, OnSeat
  <2>10. HandsDiffer'
    <3>1. ASSUME NEW th \in Threads, reg'[th].buyIn # NoBuyIn
          PROVE  /\ \A o \in Threads : reg'[o].buyIn = reg'[th].buyIn => o = th
                 /\ \A u \in TableIds, i \in Seat :
                        Taken(u, i)' => OnSeat(u, i)' # reg'[th].buyIn
      BY <1>2, <2>3, <3>1
         DEF IInv, Spent, HandsDiffer, Taken, IsFree, OnSeat
    <3> QED BY <3>1 DEF HandsDiffer
  <2>11. PendingUnspent'
    <3> SUFFICES ASSUME NEW q \in PlayerIds, NEW u \in TableIds, HasPending(q, u)'
                 PROVE  /\ \A v \in PlayerIds, w \in TableIds :
                              pending'[v][w] = pending'[q][u] => v = q /\ w = u
                        /\ \A w \in TableIds, i \in Seat :
                              Taken(w, i)' => OnSeat(w, i)' # pending'[q][u]
                        /\ \A th \in Threads : /\ reg'[th].buyIn # pending'[q][u]
                                               /\ reg'[th].stack # pending'[q][u]
                        /\ refunds'[pending'[q][u]] = 0
                        /\ pending'[q][u] \notin lost'
      BY DEF PendingUnspent
    <3>1. /\ pending'[q][u] = pending[q][u] /\ HasPending(q, u)
          /\ pending[q][u] # NoBuyIn /\ NoStack = NoBuyIn
      BY <2>2 DEF HasPending, NoBuyIn, NoStack
    <3>2. \A v \in PlayerIds, w \in TableIds :
                pending[v][w] = pending[q][u] => v = q /\ w = u
      BY <3>1 DEF IInv, Spent, PendingUnspent
    <3>3. pending[q][u] # b
      BY <3>2, <1>1, <2>2, <3>1
    <3>4. \A v \in PlayerIds, w \in TableIds :
                pending'[v][w] = pending'[q][u] => v = q /\ w = u
      BY <3>1, <3>2, <2>2
    <3>5. \A th \in Threads : reg[th].buyIn # pending[q][u]
                              /\ reg[th].stack # pending[q][u]
      BY <3>1 DEF IInv, Spent, PendingUnspent
    <3>6. \A th \in Threads : reg'[th].buyIn # pending'[q][u]
                              /\ reg'[th].stack # pending'[q][u]
      BY <3>1, <3>5, <2>3
    <3>7. /\ \A w \in TableIds, i \in Seat :
                    Taken(w, i)' => OnSeat(w, i)' # pending'[q][u]
          /\ refunds'[pending'[q][u]] = 0
      BY <3>1, <1>2 DEF IInv, Spent, PendingUnspent, Taken, IsFree, OnSeat
    <3>8. pending'[q][u] \notin lost'
      BY <3>1, <3>3, <1>5 DEF IInv, Spent, PendingUnspent
    <3> QED BY <3>4, <3>6, <3>7, <3>8
  <2> QED BY <2>4, <2>5, <2>6, <2>8, <2>9, <2>10, <2>11 DEF IInv, Spent
<1> QED BY <1>3, <1>4, <1>5 DEF Consume

(* tables.Join moves the buy-in from the hand of the thread to the seat.   *)
LEMMA SeatingKeepsRest ==
    ASSUME IInv, NEW c \in Conns, NEW t \in TableIds, NEW i \in Seat,
           NEW p \in PlayerIds,
           IsFree(tables[t], i), ~ IsSeated(tables[t], p),
           reg[c].buyIn # NoBuyIn,
           tables' = [tables EXCEPT ![t] = Join(tables[t], p, reg[c].buyIn, i)],
           SetReg(c, [reg[c] EXCEPT !.buyIn = NoBuyIn]),
           UNCHANGED <<buyIns, pending, ledger>>
    PROVE  /\ Rest'
           /\ tables' \in [TableIds -> TableRecord]
           /\ reg' \in [Threads -> Registers]
<1> DEFINE b == reg[c].buyIn
           J == Join(tables[t], p, b, i)
<1>1. /\ TableOK(tables[t]) /\ reg[c] \in Registers /\ b \in Nat /\ c \in Threads
  BY ActorIsPlayer DEF IInv, TypeOK, TablesAgree, TableOK, Registers
<1>2. TableOK(J)
  BY <1>1, JoinOK
<1>3. /\ tables' \in [TableIds -> TableRecord]
      /\ tables'[t] = J
      /\ \A u \in TableIds : u # t => tables'[u] = tables[u]
  BY <1>2 DEF IInv, TypeOK, TableOK
<1>4. /\ reg' \in [Threads -> Registers]
      /\ reg'[c].buyIn = NoBuyIn /\ reg'[c].stack = reg[c].stack
      /\ \A th \in Threads : th # c => reg'[th] = reg[th]
  BY <1>1 DEF IInv, TypeOK, SetReg, Registers, NoBuyIn
<1>5. Taken(t, i)' /\ OnSeat(t, i)' = b
  <2>1. tables'[t].seats[i] = [player |-> p, stack |-> b]
    BY <1>1, <1>3 DEF Join, TableOK, TableRecord
  <2> QED BY <2>1, NoPlayerAssumption DEF Taken, IsFree, OnSeat, FreeSeat
<1>6. ASSUME NEW u \in TableIds, NEW j \in Seat, ~ (u = t /\ j = i)
      PROVE  tables'[u].seats[j] = tables[u].seats[j]
  BY <1>1, <1>3, <1>6 DEF Join, TableOK, TableRecord
<1>7. ASSUME NEW u \in TableIds, NEW j \in Seat, ~ (u = t /\ j = i)
      PROVE  Taken(u, j)' = Taken(u, j) /\ OnSeat(u, j)' = OnSeat(u, j)
  BY <1>6, <1>7 DEF Taken, IsFree, OnSeat
<1>8. TablesAgree'
  <2> SUFFICES ASSUME NEW u \in TableIds
               PROVE  SeatsAgree(tables'[u])
    BY DEF TablesAgree
  <2> QED BY <1>2, <1>3 DEF IInv, TablesAgree, TableOK
<1>9. IdsKnown'
  <2>1. Known' = Known /\ NoBuyIn \in Known /\ b \in Known
    BY <1>1, NumbersAreNaturals DEF IInv, IdsKnown, Known, NoBuyIn
  <2>2. (\A u \in TableIds, j \in Seat : tables[u].seats[j].stack \in Known)'
    BY <2>1, <1>5, <1>6 DEF IInv, IdsKnown, OnSeat
  <2>3. (\A th \in Threads : reg[th].buyIn \in Known /\ reg[th].stack \in Known)'
    BY <2>1, <1>4 DEF IInv, IdsKnown
  <2>4. (/\ Len(buyIns) <= MaxBuyIns /\ lost \subseteq Known
         /\ \A q \in PlayerIds, u \in TableIds : pending[q][u] \in Known
         /\ \A n \in 1 .. MaxBuyIns : refunds[n] # 0 => n \in Known)'
    BY <2>1 DEF IInv, IdsKnown, ledger
  <2> QED BY <2>2, <2>3, <2>4 DEF IdsKnown
<1>10. \A u \in TableIds, j \in Seat : Taken(u, j) => OnSeat(u, j) # b
  BY <1>1 DEF IInv, Spent, HandsDiffer
<1>11. SeatsPaid'
  <2>1. ASSUME NEW u \in TableIds, NEW j \in Seat, Taken(u, j)'
        PROVE  OnSeat(u, j)' # NoBuyIn
    BY <2>1, <1>5, <1>7 DEF IInv, Spent, SeatsPaid
  <2>2. ASSUME NEW u \in TableIds, NEW j \in Seat, Taken(u, j)',
               NEW v \in TableIds, NEW k \in Seat, Taken(v, k)',
               OnSeat(u, j)' = OnSeat(v, k)'
        PROVE  u = v /\ j = k
    <3>1. CASE u = t /\ j = i
      BY <3>1, <2>2, <1>5, <1>7, <1>10
    <3>2. CASE v = t /\ k = i
      BY <3>2, <2>2, <1>5, <1>7, <1>10
    <3>3. CASE ~ (u = t /\ j = i) /\ ~ (v = t /\ k = i)
      BY <3>3, <2>2, <1>7 DEF IInv, Spent, SeatsPaid
    <3> QED BY <3>1, <3>2, <3>3
  <2> QED BY <2>1, <2>2 DEF SeatsPaid
<1>12. HandsDiffer'
  <2> SUFFICES ASSUME NEW th \in Threads, reg'[th].buyIn # NoBuyIn
               PROVE  /\ \A o \in Threads : reg'[o].buyIn = reg'[th].buyIn => o = th
                      /\ \A u \in TableIds, j \in Seat :
                            Taken(u, j)' => OnSeat(u, j)' # reg'[th].buyIn
    BY DEF HandsDiffer
  <2>1. th # c /\ reg'[th] = reg[th] /\ reg[th].buyIn # b
    BY <1>1, <1>4 DEF IInv, Spent, HandsDiffer
  <2>2. /\ \A o \in Threads : reg[o].buyIn = reg[th].buyIn => o = th
        /\ \A u \in TableIds, j \in Seat : Taken(u, j) => OnSeat(u, j) # reg[th].buyIn
    BY <2>1 DEF IInv, Spent, HandsDiffer
  <2>3. ASSUME NEW o \in Threads, reg'[o].buyIn = reg'[th].buyIn
        PROVE  o = th
    <3>1. o # c
      BY <2>3, <1>4
    <3> QED BY <3>1, <2>1, <2>2, <2>3, <1>4
  <2>4. ASSUME NEW u \in TableIds, NEW j \in Seat, Taken(u, j)'
        PROVE  OnSeat(u, j)' # reg'[th].buyIn
    <3>1. CASE u = t /\ j = i
      BY <3>1, <2>1, <1>5
    <3>2. CASE ~ (u = t /\ j = i)
      BY <3>2, <2>1, <2>2, <2>4, <1>7
    <3> QED BY <3>1, <3>2
  <2> QED BY <2>3, <2>4
<1>13. PendingUnspent'
  <2> SUFFICES ASSUME NEW q \in PlayerIds, NEW u \in TableIds, HasPending(q, u)'
               PROVE  /\ \A v \in PlayerIds, w \in TableIds :
                            pending'[v][w] = pending'[q][u] => v = q /\ w = u
                      /\ \A w \in TableIds, j \in Seat :
                            Taken(w, j)' => OnSeat(w, j)' # pending'[q][u]
                      /\ \A th \in Threads : /\ reg'[th].buyIn # pending'[q][u]
                                             /\ reg'[th].stack # pending'[q][u]
                      /\ refunds'[pending'[q][u]] = 0
                      /\ pending'[q][u] \notin lost'
    BY DEF PendingUnspent
  <2>1. /\ HasPending(q, u) /\ pending[q][u] # NoBuyIn
        /\ pending' = pending /\ refunds' = refunds /\ lost' = lost
    BY DEF HasPending, ledger
  <2>2. /\ \A v \in PlayerIds, w \in TableIds :
                pending[v][w] = pending[q][u] => v = q /\ w = u
        /\ \A w \in TableIds, j \in Seat : Taken(w, j) => OnSeat(w, j) # pending[q][u]
        /\ \A th \in Threads : reg[th].buyIn # pending[q][u] /\ reg[th].stack # pending[q][u]
        /\ refunds[pending[q][u]] = 0
        /\ pending[q][u] \notin lost
    BY <2>1 DEF IInv, Spent, PendingUnspent
  <2>3. b # pending[q][u]
    BY <2>2, <1>1
  <2>4. \A w \in TableIds, j \in Seat : Taken(w, j)' => OnSeat(w, j)' # pending[q][u]
    BY <2>2, <2>3, <1>5, <1>7
  <2>5. \A th \in Threads : reg'[th].buyIn # pending[q][u] /\ reg'[th].stack # pending[q][u]
    BY <2>1, <2>2, <1>1, <1>4
  <2> QED BY <2>1, <2>2, <2>4, <2>5
<1> QED BY <1>3, <1>4, <1>8, <1>9, <1>11, <1>12, <1>13 DEF Rest, Spent

-----------------------------------------------------------------------------
(* The other steps, one lemma for each part of the application.            *)

(* What is left to show of a step that keeps the rest.                     *)
LEMMA Assemble ==
    ASSUME Rest', TypeOK', HandsFull'
    PROVE  IInv'
BY DEF IInv, Rest

(* The HTTP requests, and what the peer of a connection does.              *)
LEMMA EnvironmentKeepsIInv ==
    ASSUME IInv, Environment
    PROVE  IInv'
<1>1. ASSUME NEW p \in PlayerIds, OpenSession(p)
      PROVE  IInv'
  <2>1. Rest'
    BY <1>1, QuietStep DEF OpenSession, EnsureWallet, connVars, threadVars, ledger
  <2>2. StoreTypeOK'
    BY <1>1, InitialBalanceAssumption
       DEF IInv, TypeOK, StoreTypeOK, OpenSession, EnsureWallet
  <2>3. TypeOK' /\ HandsFull'
    BY <1>1, <2>2 DEF IInv, TypeOK, HandsFull, OpenSession, connVars, threadVars, ledger
  <2> QED BY <2>1, <2>3, Assemble
<1>2. ASSUME NEW p \in PlayerIds, NEW t \in TableIds, NEW amount \in Amounts,
             TableBuyIn(p, t, amount)
      PROVE  IInv'
  BY <1>2, TableBuyInKeepsIInv
<1>3. ASSUME NEW r \in Revokers, NEW p \in PlayerIds, Revoke(r, p)
      PROVE  IInv'
  <2>1. Rest'
    BY <1>3, QuietStep DEF Revoke, storeVars, connVars, ledger
  <2>2. r \in Threads /\ hub \subseteq Conns
    BY DEF Threads, IInv, TypeOK
  <2>3. pc' = [pc EXCEPT ![r] = "close"] /\ reg' = reg
    BY <1>3 DEF Revoke, Goto
  <2>4. /\ victim' \in [Threads -> Conns]
        /\ todo' \in [Revokers -> SUBSET Conns]
        /\ shared' \subseteq PlayerIds
    BY <1>3, <2>2 DEF Revoke, IInv, TypeOK
  <2>5. TypeOK'
    BY <1>3, <2>2, <2>3, <2>4
       DEF Revoke, IInv, TypeOK, StoreTypeOK, storeVars, connVars, ledger, ClosePcs
  <2>6. HandsFull'
    BY <2>2, <2>3 DEF IInv, TypeOK, HandsFull, HandPcs, RefundPcs
  <2> QED BY <2>1, <2>5, <2>6, Assemble
<1>4. ASSUME NEW c \in Conns, Connect(c)
      PROVE  IInv'
  <2>1. Rest'
    BY <1>4, QuietStep DEF Connect, storeVars, ledger
  <2>2. c \in Threads /\ Owner[c] \in PlayerIds
    BY ActorIsPlayer DEF IInv
  <2>3. TypeOK'
    BY <1>4, <2>2 DEF Connect, IInv, TypeOK, StoreTypeOK, storeVars, threadVars,
                      ledger, Goto
  <2>4. HandsFull'
    BY <1>4, <2>2 DEF Connect, IInv, TypeOK, HandsFull, Goto, HandPcs, RefundPcs
  <2> QED BY <2>1, <2>3, <2>4, Assemble
<1>5. ASSUME NEW c \in Conns, Hangup(c)
      PROVE  IInv'
  <2>1. Rest'
    BY <1>5, QuietStep DEF Hangup, storeVars, ledger
  <2>2. TypeOK' /\ HandsFull'
    BY <1>5 DEF Hangup, IInv, TypeOK, StoreTypeOK, HandsFull, storeVars,
                threadVars, ledger
  <2> QED BY <2>1, <2>2, Assemble
<1>6. ASSUME NEW c \in Conns, NEW t \in TableIds, NEW s \in {AnySeat} \cup Seat,
             ReceiveJoin(c, t, s)
      PROVE  IInv'
  <2> DEFINE next == [Blank EXCEPT !.table = t, !.seat = s]
  <2>1. c \in Threads
    BY DEF Threads
  <2>2. ReadsOrDrops(next, c)
    BY BlankIsEmpty DEF ReadsOrDrops, Registers, Blank
  <2>3. Rest' /\ reg' \in [Threads -> Registers]
    BY <1>6, <2>1, <2>2, RegisterStep DEF ReceiveJoin, storeVars, ledger
  <2>4. TypeOK'
    BY <1>6, <2>1, <2>3 DEF ReceiveJoin, IInv, TypeOK, StoreTypeOK, storeVars,
       connVars, threadVars, ledger, Goto, JoinPcs
  <2>5. HandsFull'
    BY <1>6, <2>1 DEF ReceiveJoin, IInv, TypeOK, HandsFull, SetReg, Goto,
                      HandPcs, RefundPcs
  <2> QED BY <2>3, <2>4, <2>5, Assemble
<1>7. ASSUME NEW c \in Conns, NEW t \in TableIds, ReceiveLeave(c, t)
      PROVE  IInv'
  <2> DEFINE stack == StackOf(tables[t], Owner[c])
             next == [Blank EXCEPT !.from = t, !.stack = stack]
  <2>1. c \in Threads /\ Owner[c] \in PlayerIds
    BY ActorIsPlayer DEF IInv
  <2>2. stack \in Nat
    BY <2>1, StackIsOnSeat, NumbersAreNaturals
       DEF IInv, IdsKnown, OnSeat, NoStack
  <2>3. ReadsOrDrops(next, c)
    <3>1. next \in Registers /\ next.buyIn = NoBuyIn /\ next.stack = stack
      BY <2>2, BlankIsEmpty DEF Registers, Blank
    <3> QED BY <3>1, <2>1, StackIsOnSeat DEF ReadsOrDrops
  <2>4. Rest' /\ reg' \in [Threads -> Registers]
    BY <1>7, <2>1, <2>3, RegisterStep DEF ReceiveLeave, storeVars, ledger
  <2>5. TypeOK'
    BY <1>7, <2>1, <2>4 DEF ReceiveLeave, IInv, TypeOK, StoreTypeOK, storeVars,
       connVars, threadVars, ledger, Goto, LeavePcs
  <2>6. HandsFull'
    BY <1>7, <2>1 DEF ReceiveLeave, IInv, TypeOK, HandsFull, SetReg, Goto,
                      HandPcs, RefundPcs
  <2> QED BY <2>4, <2>5, <2>6, Assemble
<1> QED BY <1>1, <1>2, <1>3, <1>4, <1>5, <1>6, <1>7 DEF Environment

(* The handlers of a connection's thread, up to the broadcasts.            *)
LEMMA ConnStepKeepsIInv ==
    ASSUME IInv, NEW c \in Conns, ConnStep(c)
    PROVE  IInv'
<1>0. c \in Threads /\ Owner[c] \in PlayerIds /\ reg[c] \in Registers
  BY ActorIsPlayer DEF IInv, TypeOK
<1>1. CASE ReadError(c)
  <2>1. Rest'
    BY <1>1, QuietStep DEF ReadError, storeVars, ledger
  <2>2. TypeOK'
    BY <1>0, <1>1 DEF ReadError, IInv, TypeOK, StoreTypeOK, storeVars, connVars,
       threadVars, ledger, Goto, ClosePcs
  <2>3. HandsFull'
    BY <1>0, <1>1 DEF ReadError, IInv, TypeOK, HandsFull, Goto, HandPcs, RefundPcs
  <2> QED BY <2>1, <2>2, <2>3, Assemble
<1>2. CASE Consume(c)
  BY <1>2, ConsumeKeepsIInv
<1>3. CASE TakeSeat(c)
  <2> DEFINE t == reg[c].table
             next == [reg[c] EXCEPT !.buyIn = NoBuyIn]
  <2>1. /\ reg[c].buyIn # NoBuyIn /\ t \in TableIds
        /\ UNCHANGED <<balances, pending, buyIns, client, open, hub, victim,
                       todo, refunds, lost, shared>>
    BY <1>0, <1>3 DEF TakeSeat, At, IInv, HandsFull, HandPcs, Registers,
                      storeVars, connVars, threadVars, ledger
  <2>2. ReadsOrDrops(next, c) /\ next.stack = reg[c].stack
    BY <1>0 DEF ReadsOrDrops, Registers, NoBuyIn
  <2>3. CASE /\ Goto(c, "seatMark") /\ SetReg(c, next) /\ UNCHANGED tables
    <3>1. Rest' /\ reg' \in [Threads -> Registers]
      BY <2>1, <2>2, <2>3, <1>0, RegisterStep DEF ledger
    <3>2. TypeOK'
      BY <2>1, <2>3, <3>1, <1>0 DEF IInv, TypeOK, StoreTypeOK, Goto, JoinPcs
    <3>3. HandsFull'
      BY <2>3, <1>0 DEF IInv, TypeOK, HandsFull, SetReg, Goto, HandPcs, RefundPcs
    <3> QED BY <3>1, <3>2, <3>3, Assemble
  <2>4. CASE /\ ~ IsSeated(tables[t], Owner[c])
             /\ \E i \in AllocateSeat(tables[t], reg[c].seat) :
                    tables' = [tables EXCEPT ![t] =
                                    Join(tables[t], Owner[c], reg[c].buyIn, i)]
             /\ Goto(c, "seatMark")
             /\ SetReg(c, next)
    <3>1. PICK i \in AllocateSeat(tables[t], reg[c].seat) :
                tables' = [tables EXCEPT ![t] =
                                Join(tables[t], Owner[c], reg[c].buyIn, i)]
      BY <2>4
    <3>2. i \in Seat /\ IsFree(tables[t], i)
      BY AllocatedSeatIsFree
    <3>3. /\ Rest' /\ reg' \in [Threads -> Registers]
          /\ tables' \in [TableIds -> TableRecord]
      BY <2>1, <2>4, <3>1, <3>2, <1>0, SeatingKeepsRest DEF ledger
    <3>4. TypeOK'
      BY <2>1, <2>4, <3>3, <1>0 DEF IInv, TypeOK, StoreTypeOK, Goto, JoinPcs
    <3>5. HandsFull'
      BY <2>4, <1>0 DEF IInv, TypeOK, HandsFull, SetReg, Goto, HandPcs, RefundPcs
    <3> QED BY <3>3, <3>4, <3>5, Assemble
  <2>5. CASE Goto(c, "seatRefund") /\ UNCHANGED <<tables, reg>>
    <3>1. Rest'
      BY <2>1, <2>5, QuietStep DEF ledger
    <3>2. TypeOK'
      BY <2>1, <2>5, <1>0 DEF IInv, TypeOK, StoreTypeOK, Goto, JoinPcs
    <3>3. HandsFull'
      BY <2>1, <2>5, <1>0 DEF IInv, TypeOK, HandsFull, Goto, RefundPcs
    <3> QED BY <3>1, <3>2, <3>3, Assemble
  <2> QED BY <1>3, <2>3, <2>4, <2>5 DEF TakeSeat
<1>4. CASE SeatRefund(c)
  <2>1. reg[c].buyIn # NoBuyIn
    BY <1>0, <1>4 DEF SeatRefund, At, IInv, HandsFull, HandPcs
  <2>2. /\ Rest' /\ StoreTypeOK' /\ reg' \in [Threads -> Registers]
        /\ refunds' \in [1 .. MaxBuyIns -> Nat] /\ lost' \subseteq Nat
    BY <1>0, <1>4, <2>1, RefundStep DEF SeatRefund, Return, SetReg
  <2>3. TypeOK'
    BY <1>0, <1>4, <2>2 DEF SeatRefund, Return, Goto, IInv, TypeOK, connVars, threadVars
  <2>4. HandsFull'
    BY <1>0, <1>4 DEF SeatRefund, Return, Goto, IInv, TypeOK, HandsFull, HandPcs,
                      RefundPcs
  <2> QED BY <2>2, <2>3, <2>4, Assemble
<1>5. CASE SeatMark(c)
  <2>1. Rest'
    BY <1>5, QuietStep DEF SeatMark, storeVars, ledger
  <2>2. client' \in [Conns -> [table : TableIds, seated : BOOLEAN]]
    BY <1>0, <1>5 DEF SeatMark, SetTableState, Registers, IInv, TypeOK
  <2>3. TypeOK'
    BY <1>0, <1>5, <2>2 DEF SeatMark, IInv, TypeOK, StoreTypeOK, storeVars,
       threadVars, ledger, Goto, At, JoinPcs, LeavePcs
  <2>4. HandsFull'
    BY <1>0, <1>5 DEF SeatMark, IInv, TypeOK, HandsFull, Goto, At, HandPcs, RefundPcs,
                        NoStack
  <2> QED BY <2>1, <2>3, <2>4, Assemble
<1>6. CASE SwitchRead(c)
  <2> DEFINE t == reg[c].from
             stack == StackOf(tables[t], Owner[c])
             next == [reg[c] EXCEPT !.stack = stack]
  <2>1. t \in TableIds
    BY <1>0 DEF Registers
  <2>2. stack \in Nat
    BY <1>0, <2>1, StackIsOnSeat, NumbersAreNaturals
       DEF IInv, IdsKnown, OnSeat, NoStack
  <2>3. next \in Registers /\ next.buyIn = reg[c].buyIn /\ next.stack = stack
    BY <1>0, <2>2 DEF Registers
  <2>4. ReadsOrDrops(next, c)
    BY <1>0, <2>1, <2>3, StackIsOnSeat DEF ReadsOrDrops
  <2>5. Rest' /\ reg' \in [Threads -> Registers]
    BY <1>0, <1>6, <2>4, RegisterStep DEF SwitchRead, storeVars, ledger
  <2>6. TypeOK'
    BY <1>0, <1>6, <2>5 DEF SwitchRead, IInv, TypeOK, StoreTypeOK, storeVars,
       connVars, threadVars, ledger, Goto, JoinPcs
  <2>7. HandsFull'
    BY <1>0, <1>6, <2>3 DEF SwitchRead, At, IInv, TypeOK, HandsFull, SetReg, Goto,
                            HandPcs, RefundPcs
  <2> QED BY <2>5, <2>6, <2>7, Assemble
<1>7. CASE SwitchLeave(c)
  <2> DEFINE t == reg[c].from
  <2>1. t \in TableIds
    BY <1>0 DEF Registers
  <2>2. Rest' /\ tables' \in [TableIds -> TableRecord]
    <3>1. CASE UNCHANGED tables
      <4>1. Rest'
        BY <3>1, <1>7, QuietStep DEF SwitchLeave, storeVars, ledger
      <4> QED BY <3>1, <4>1 DEF IInv, TypeOK
    <3>2. CASE /\ IsSeated(tables[t], Owner[c])
               /\ tables' = [tables EXCEPT ![t] = Leave(tables[t], Owner[c])]
      BY <3>2, <1>0, <1>7, <2>1, LeaveStep DEF SwitchLeave, storeVars, ledger
    <3> QED BY <3>1, <3>2, <1>7 DEF SwitchLeave
  <2>3. TypeOK'
    BY <1>0, <1>7, <2>2 DEF SwitchLeave, IInv, TypeOK, StoreTypeOK, storeVars,
       connVars, threadVars, ledger, Goto, JoinPcs
  <2>4. HandsFull'
    BY <1>0, <1>7 DEF SwitchLeave, At, IInv, TypeOK, HandsFull, Goto, HandPcs, RefundPcs
  <2> QED BY <2>2, <2>3, <2>4, Assemble
<1>8. CASE SwitchMark(c)
  <2>1. Rest'
    BY <1>8, QuietStep DEF SwitchMark, storeVars, ledger
  <2>2. client' \in [Conns -> [table : TableIds, seated : BOOLEAN]]
    BY <1>0, <1>8 DEF SwitchMark, SetTableState, Registers, IInv, TypeOK
  <2>3. TypeOK'
    BY <1>0, <1>8, <2>2 DEF SwitchMark, IInv, TypeOK, StoreTypeOK, storeVars,
       threadVars, ledger, Goto, At, JoinPcs, LeavePcs
  <2>4. HandsFull'
    BY <1>0, <1>8 DEF SwitchMark, IInv, TypeOK, HandsFull, Goto, At, HandPcs, RefundPcs,
                        NoStack
  <2> QED BY <2>1, <2>3, <2>4, Assemble
<1>9. CASE SwitchRefund(c)
  <2>1. reg[c].stack # NoBuyIn /\ reg' = reg
    BY <1>0, <1>9 DEF SwitchRefund, At, IInv, HandsFull, RefundPcs, NoBuyIn, NoStack
  <2>2. /\ Rest' /\ StoreTypeOK'
        /\ refunds' \in [1 .. MaxBuyIns -> Nat] /\ lost' \subseteq Nat
    BY <1>0, <1>9, <2>1, RefundStep DEF SwitchRefund
  <2>3. TypeOK'
    BY <1>0, <1>9, <2>2 DEF SwitchRefund, Goto, IInv, TypeOK, connVars, threadVars,
                            JoinPcs
  <2>4. HandsFull'
    BY <1>0, <1>9 DEF SwitchRefund, At, Goto, IInv, TypeOK, HandsFull, HandPcs,
                      RefundPcs
  <2> QED BY <2>2, <2>3, <2>4, Assemble
<1>10. CASE LeaveTable(c)
  <2> DEFINE t == reg[c].from
  <2>1. t \in TableIds
    BY <1>0 DEF Registers
  <2>2. CASE /\ IsSeated(tables[t], Owner[c])
             /\ tables' = [tables EXCEPT ![t] = Leave(tables[t], Owner[c])]
             /\ Goto(c, IF reg[c].stack = NoStack THEN "leaveMark"
                        ELSE "leaveRefund")
             /\ UNCHANGED reg
    <3>1. Rest' /\ tables' \in [TableIds -> TableRecord]
      BY <2>1, <2>2, <1>0, <1>10, LeaveStep DEF LeaveTable, storeVars, ledger
    <3>2. TypeOK'
      BY <1>0, <1>10, <2>2, <3>1 DEF LeaveTable, IInv, TypeOK, StoreTypeOK,
         storeVars, connVars, threadVars, ledger, Goto, LeavePcs
    <3>3. HandsFull'
      BY <1>0, <2>2 DEF IInv, TypeOK, HandsFull, Goto, HandPcs, RefundPcs
    <3> QED BY <3>1, <3>2, <3>3, Assemble
  <2>3. CASE Return(c) /\ UNCHANGED tables
    <3>1. ReadsOrDrops(Blank, c) /\ SetReg(c, Blank)
      BY <2>3, BlankIsEmpty DEF ReadsOrDrops, Return, SetReg
    <3>2. Rest' /\ reg' \in [Threads -> Registers]
      BY <3>1, <2>3, <1>0, <1>10, RegisterStep DEF LeaveTable, storeVars, ledger
    <3>3. TypeOK'
      BY <1>0, <1>10, <2>3, <3>2 DEF LeaveTable, IInv, TypeOK, StoreTypeOK,
         storeVars, connVars, threadVars, ledger, Return, Goto
    <3>4. HandsFull'
      BY <1>0, <2>3 DEF IInv, TypeOK, HandsFull, Return, Goto, HandPcs, RefundPcs
    <3> QED BY <3>2, <3>3, <3>4, Assemble
  <2> QED BY <1>10, <2>2, <2>3 DEF LeaveTable
<1>11. CASE LeaveRefund(c)
  <2>1. reg[c].stack # NoBuyIn /\ reg' = reg
    BY <1>0, <1>11 DEF LeaveRefund, At, IInv, HandsFull, RefundPcs, NoBuyIn, NoStack
  <2>2. /\ Rest' /\ StoreTypeOK'
        /\ refunds' \in [1 .. MaxBuyIns -> Nat] /\ lost' \subseteq Nat
    BY <1>0, <1>11, <2>1, RefundStep DEF LeaveRefund
  <2>3. TypeOK'
    BY <1>0, <1>11, <2>2 DEF LeaveRefund, Goto, IInv, TypeOK, connVars, threadVars,
                            LeavePcs
  <2>4. HandsFull'
    BY <1>0, <1>11 DEF LeaveRefund, Goto, IInv, TypeOK, HandsFull, HandPcs, RefundPcs
  <2> QED BY <2>2, <2>3, <2>4, Assemble
<1>12. CASE LeaveMark(c)
  <2>1. Rest'
    BY <1>12, QuietStep DEF LeaveMark, storeVars, ledger
  <2>2. client' \in [Conns -> [table : TableIds, seated : BOOLEAN]]
    BY <1>0, <1>12 DEF LeaveMark, SetTableState, Registers, IInv, TypeOK
  <2>3. TypeOK'
    BY <1>0, <1>12, <2>2 DEF LeaveMark, IInv, TypeOK, StoreTypeOK, storeVars,
       threadVars, ledger, Goto, At, JoinPcs, LeavePcs
  <2>4. HandsFull'
    BY <1>0, <1>12 DEF LeaveMark, IInv, TypeOK, HandsFull, Goto, At, HandPcs, RefundPcs,
                        NoStack
  <2> QED BY <2>1, <2>3, <2>4, Assemble
<1> QED BY <1>1, <1>2, <1>3, <1>4, <1>5, <1>6, <1>7, <1>8, <1>9, <1>10, <1>11,
           <1>12 DEF ConnStep

(* closeClient, whoever runs it.                                           *)
LEMMA CloseStepKeepsIInv ==
    ASSUME IInv, NEW th \in Threads, CloseStep(th)
    PROVE  IInv'
<1>0. /\ Actor(th) \in PlayerIds /\ reg[th] \in Registers /\ victim[th] \in Conns
      /\ client[victim[th]].table \in TableIds
  BY ActorIsPlayer DEF IInv, TypeOK
<1>1. CASE Close(th)
  <2>1. Rest'
    BY <1>1, QuietStep DEF Close, storeVars, ledger
  <2>2. TypeOK'
    BY <1>1 DEF Close, IInv, TypeOK, StoreTypeOK, storeVars, connVars, threadVars,
       ledger, Goto, ClosePcs
  <2>3. HandsFull'
    BY <1>1 DEF Close, IInv, TypeOK, HandsFull, Goto, HandPcs, RefundPcs
  <2> QED BY <2>1, <2>2, <2>3, Assemble
<1>2. CASE CloseTable(th)
  <2> DEFINE next == [Blank EXCEPT !.from = client[victim[th]].table]
  <2>1. ReadsOrDrops(next, th)
    BY <1>0, BlankIsEmpty DEF ReadsOrDrops, Registers, Blank
  <2>2. Rest' /\ reg' \in [Threads -> Registers]
    BY <1>2, <2>1, RegisterStep DEF CloseTable, storeVars, ledger
  <2>3. TypeOK'
    BY <1>2, <2>2 DEF CloseTable, IInv, TypeOK, StoreTypeOK, storeVars, connVars,
       threadVars, ledger, Goto, ClosePcs
  <2>4. HandsFull'
    BY <1>2 DEF CloseTable, IInv, TypeOK, HandsFull, SetReg, Goto, HandPcs, RefundPcs
  <2> QED BY <2>2, <2>3, <2>4, Assemble
<1>3. CASE CloseRead(th)
  <2> DEFINE t == reg[th].from
             stack == StackOf(tables[t], Actor(th))
             next == [reg[th] EXCEPT !.stack = stack]
  <2>1. t \in TableIds
    BY <1>0 DEF Registers
  <2>2. stack \in Nat
    BY <1>0, <2>1, StackIsOnSeat, NumbersAreNaturals
       DEF IInv, IdsKnown, OnSeat, NoStack
  <2>3. next \in Registers /\ next.buyIn = reg[th].buyIn /\ next.stack = stack
    BY <1>0, <2>2 DEF Registers
  <2>4. ReadsOrDrops(next, th)
    BY <1>0, <2>1, <2>3, StackIsOnSeat DEF ReadsOrDrops
  <2>5. Rest' /\ reg' \in [Threads -> Registers]
    BY <1>3, <2>4, RegisterStep DEF CloseRead, storeVars, ledger
  <2>6. TypeOK'
    BY <1>3, <2>5 DEF CloseRead, IInv, TypeOK, StoreTypeOK, storeVars, connVars,
       threadVars, ledger, Goto, ClosePcs
  <2>7. HandsFull'
    BY <1>3 DEF CloseRead, IInv, TypeOK, HandsFull, SetReg, Goto, HandPcs, RefundPcs
  <2> QED BY <2>5, <2>6, <2>7, Assemble
<1>4. CASE CloseLeave(th)
  <2> DEFINE t == reg[th].from
  <2>1. t \in TableIds
    BY <1>0 DEF Registers
  <2>2. CASE UNCHANGED tables /\ Goto(th, "closeEnd")
    <3>1. Rest' /\ tables' \in [TableIds -> TableRecord]
      BY <2>2, <1>4, QuietStep DEF CloseLeave, storeVars, ledger, IInv, TypeOK
    <3>2. TypeOK'
      BY <1>4, <2>2, <3>1 DEF CloseLeave, IInv, TypeOK, StoreTypeOK, storeVars,
         connVars, threadVars, ledger, Goto, ClosePcs
    <3>3. HandsFull'
      BY <1>4, <2>2 DEF CloseLeave, IInv, TypeOK, HandsFull, Goto, HandPcs, RefundPcs
    <3> QED BY <3>1, <3>2, <3>3, Assemble
  <2>3. CASE /\ IsSeated(tables[t], Actor(th))
             /\ tables' = [tables EXCEPT ![t] = Leave(tables[t], Actor(th))]
             /\ Goto(th, IF reg[th].stack = NoStack THEN "closeTell"
                         ELSE "closeRefund")
    <3>1. Rest' /\ tables' \in [TableIds -> TableRecord]
      BY <2>1, <2>3, <1>0, <1>4, LeaveStep DEF CloseLeave, storeVars, ledger
    <3>2. TypeOK'
      BY <1>4, <2>3, <3>1 DEF CloseLeave, IInv, TypeOK, StoreTypeOK, storeVars,
         connVars, threadVars, ledger, Goto, ClosePcs
    <3>3. HandsFull'
      BY <1>4, <2>3 DEF CloseLeave, IInv, TypeOK, HandsFull, Goto, HandPcs, RefundPcs
    <3> QED BY <3>1, <3>2, <3>3, Assemble
  <2> QED BY <1>4, <2>2, <2>3 DEF CloseLeave
<1>5. CASE CloseRefund(th)
  <2>1. reg[th].stack # NoBuyIn /\ reg' = reg
    BY <1>5 DEF CloseRefund, At, IInv, HandsFull, RefundPcs, NoBuyIn, NoStack
  <2>2. /\ Rest' /\ StoreTypeOK'
        /\ refunds' \in [1 .. MaxBuyIns -> Nat] /\ lost' \subseteq Nat
    BY <1>0, <1>5, <2>1, RefundStep DEF CloseRefund
  <2>3. TypeOK'
    BY <1>5, <2>2 DEF CloseRefund, Goto, IInv, TypeOK, connVars, threadVars, ClosePcs
  <2>4. HandsFull'
    BY <1>5 DEF CloseRefund, Goto, IInv, TypeOK, HandsFull, HandPcs, RefundPcs
  <2> QED BY <2>2, <2>3, <2>4, Assemble
<1>6. CASE CloseEnd(th)
  <2>1. ReadsOrDrops(Blank, th)
    BY BlankIsEmpty DEF ReadsOrDrops
  <2>2. Rest' /\ reg' \in [Threads -> Registers]
    BY <1>6, <2>1, RegisterStep DEF CloseEnd, storeVars, ledger
  <2>3. /\ victim' \in [Threads -> Conns] /\ todo' \in [Revokers -> SUBSET Conns]
        /\ \E label \in {"done", "close"} : Goto(th, label)
    <3>1. CASE th \in Conns
      BY <3>1, <1>6 DEF CloseEnd, threadVars, IInv, TypeOK
    <3>2. CASE th \notin Conns
      <4>1. th \in Revokers
        BY <3>2 DEF Threads
      <4> DEFINE rest == todo[th] \ {victim[th]}
      <4>2. rest \subseteq Conns /\ todo' = [todo EXCEPT ![th] = rest]
        BY <4>1, <3>2, <1>6 DEF CloseEnd, IInv, TypeOK
      <4>3. \/ /\ rest = {} /\ Goto(th, "done") /\ UNCHANGED victim
            \/ /\ \E c \in rest : victim' = [victim EXCEPT ![th] = c]
               /\ Goto(th, "close")
        BY <3>2, <1>6 DEF CloseEnd
      <4> QED BY <4>1, <4>2, <4>3 DEF IInv, TypeOK
    <3> QED BY <3>1, <3>2
  <2>4. TypeOK'
    BY <1>6, <2>2, <2>3 DEF CloseEnd, IInv, TypeOK, StoreTypeOK, storeVars, ledger,
       Goto, ClosePcs
  <2>5. HandsFull'
    BY <1>6, <2>3 DEF CloseEnd, IInv, TypeOK, HandsFull, SetReg, Goto, HandPcs, RefundPcs
  <2> QED BY <2>2, <2>4, <2>5, Assemble
<1> QED BY <1>1, <1>2, <1>3, <1>4, <1>5, <1>6 DEF CloseStep

(* A broadcast.                                                            *)
LEMMA TellKeepsIInv ==
    ASSUME IInv, NEW th \in Threads, Tell(th)
    PROVE  IInv'
<1>1. /\ UNCHANGED <<balances, pending, buyIns, tables, client, victim, todo,
                     refunds, lost, shared>>
      /\ hub' \subseteq hub /\ open' \subseteq open
  BY DEF Tell, storeVars, threadVars, ledger
<1>2. CASE Return(th)
  <2>1. ReadsOrDrops(Blank, th) /\ SetReg(th, Blank)
    BY <1>2, BlankIsEmpty DEF ReadsOrDrops, Return, SetReg
  <2>2. Rest' /\ reg' \in [Threads -> Registers]
    BY <1>1, <2>1, RegisterStep DEF ledger
  <2>3. TypeOK'
    BY <1>1, <1>2, <2>2 DEF IInv, TypeOK, StoreTypeOK, Return, Goto
  <2>4. HandsFull'
    BY <1>2 DEF IInv, TypeOK, HandsFull, Return, Goto, HandPcs, RefundPcs
  <2> QED BY <2>2, <2>3, <2>4, Assemble
<1>3. CASE /\ UNCHANGED reg
           /\ \/ At(th, "switchTell") /\ Goto(th, "seat")
              \/ At(th, "closeTell") /\ Goto(th, "closeEnd")
  <2>1. Rest'
    BY <1>1, <1>3, QuietStep DEF ledger
  <2>2. TypeOK'
    BY <1>1, <1>3 DEF IInv, TypeOK, StoreTypeOK, Goto, JoinPcs, ClosePcs
  <2>3. HandsFull'
    BY <1>3 DEF At, IInv, TypeOK, HandsFull, Goto, HandPcs, RefundPcs
  <2> QED BY <2>1, <2>2, <2>3, Assemble
<1> QED BY <1>2, <1>3 DEF Tell, At

-----------------------------------------------------------------------------

LEMMA InitIInv == Init => IInv
<1> SUFFICES ASSUME Init
             PROVE  IInv
  OBVIOUS
<1>1. /\ balances = [p \in PlayerIds |-> NoWallet]
      /\ pending = [p \in PlayerIds |-> [t \in TableIds |-> NoBuyIn]]
      /\ buyIns = <<>>
  BY DEF Init, StoreInit
<1>2. StoreTypeOK /\ Len(buyIns) = 0 /\ Known = {0}
  BY <1>1 DEF StoreTypeOK, NoBuyIn, Known
<1>3. \A t \in TableIds : tables[t] = EmptyTable /\ TableOK(tables[t])
  BY EmptyTableOK DEF Init
<1>4. \A th \in Threads :
            reg[th] = Blank /\ reg[th].buyIn = 0 /\ reg[th].stack = 0
  BY BlankIsEmpty DEF Init, NoBuyIn, NoStack
<1>5. TypeOK
  <2>1. tables \in [TableIds -> TableRecord]
    BY <1>3 DEF Init, TableOK
  <2>2. victim \in [Threads -> Conns]
    <3>1. (CHOOSE c \in Conns : TRUE) \in Conns
      BY ThreadsAssumption
    <3> QED BY <3>1 DEF Init
  <2>3. reg \in [Threads -> Registers]
    BY BlankIsEmpty DEF Init
  <2>4. client \in [Conns -> [table : TableIds, seated : BOOLEAN]]
    BY DefaultTableAssumption DEF Init
  <2> QED BY <1>2, <2>1, <2>2, <2>3, <2>4 DEF Init, TypeOK
<1>6. IdsKnown
  <2>1. \A t \in TableIds, i \in Seat : tables[t].seats[i].stack = 0
    BY <1>3 DEF EmptyTable, FreeSeat
  <2>2. \A p \in PlayerIds, t \in TableIds : pending[p][t] = 0
    BY <1>1 DEF NoBuyIn
  <2> QED BY <1>2, <1>4, <2>1, <2>2, MaxBuyInsAssumption DEF IdsKnown, Init
<1>7. HandsFull
  BY DEF HandsFull, Init, HandPcs, RefundPcs
<1>8. TablesAgree
  BY <1>3 DEF TablesAgree, TableOK
<1>9. Spent
  <2>1. \A t \in TableIds, i \in Seat : ~ Taken(t, i)
    BY <1>3 DEF Taken, IsFree, EmptyTable
  <2>2. \A p \in PlayerIds, t \in TableIds : ~ HasPending(p, t)
    BY <1>1 DEF HasPending
  <2>3. \A th \in Threads : reg[th].buyIn = NoBuyIn
    BY <1>4 DEF NoBuyIn
  <2> QED BY <2>1, <2>2, <2>3 DEF Spent, SeatsPaid, HandsDiffer, PendingUnspent
<1> QED BY <1>5, <1>6, <1>7, <1>8, <1>9 DEF IInv

LEMMA NextIInv == IInv /\ [Next]_vars => IInv'
<1> SUFFICES ASSUME IInv, [Next]_vars
             PROVE  IInv'
  OBVIOUS
<1>1. CASE Environment
  BY <1>1, EnvironmentKeepsIInv
<1>2. ASSUME NEW th \in Threads, Step(th)
      PROVE  IInv'
  BY <1>2, ConnStepKeepsIInv, CloseStepKeepsIInv, TellKeepsIInv DEF Step
<1>3. CASE UNCHANGED vars
  <2>1. Rest'
    BY <1>3, QuietStep DEF vars, ledger
  <2>2. TypeOK' /\ HandsFull'
    BY <1>3 DEF vars, IInv, TypeOK, StoreTypeOK, HandsFull
  <2> QED BY <2>1, <2>2, Assemble
<1> QED BY <1>1, <1>2, <1>3 DEF Next

(* In the terms of the property: the places of a buy-in.                   *)
LEMMA SpentOnceFollows == IInv => BuyInSpentOnce
<1> SUFFICES ASSUME IInv, NEW b \in BuyInId
             PROVE  /\ PendingPlaces(b) # {} => \E x \in Places(b) : Places(b) = {x}
                    /\ \A x, y \in InPlay(b) : x = y
  BY DEF BuyInSpentOnce
<1>0. b # NoBuyIn /\ b # 0
  BY NumbersAreNaturals DEF IInv, BuyInId, NoBuyIn
<1>1. ASSUME PendingPlaces(b) # {}
      PROVE  \E x \in Places(b) : Places(b) = {x}
  <2>1. PICK p \in PlayerIds, t \in TableIds : pending[p][t] = b
    BY <1>1 DEF PendingPlaces
  <2>2. HasPending(p, t)
    BY <1>0, <2>1 DEF HasPending
  <2>3. /\ \A q \in PlayerIds, u \in TableIds : pending[q][u] = b => q = p /\ u = t
        /\ \A u \in TableIds, i \in Seat : Taken(u, i) => OnSeat(u, i) # b
        /\ \A th \in Threads : reg[th].buyIn # b /\ reg[th].stack # b
        /\ refunds[b] = 0 /\ b \notin lost
    BY <2>1, <2>2 DEF IInv, Spent, PendingUnspent
  <2>4. PendingPlaces(b) = {<<p, t>>}
    BY <2>1, <2>3 DEF PendingPlaces
  <2>5. SeatPlaces(b) = {}
    BY <2>3 DEF SeatPlaces, Taken, OnSeat
  <2>6. HandPlaces(b) = {} /\ OffSeatPlaces(b) = {}
    BY <2>3 DEF HandPlaces, OffSeatPlaces
  <2>7. 1 .. refunds[b] = {} /\ {b} \cap lost = {}
    BY <2>3
  <2>8. Places(b) = {<<"pending", <<p, t>> >>}
    BY <2>4, <2>5, <2>6, <2>7 DEF Places
  <2> QED BY <2>8
<1>2. ASSUME NEW x \in InPlay(b), NEW y \in InPlay(b)
      PROVE  x = y
  <2>1. ASSUME NEW e \in SeatPlaces(b)
        PROVE  /\ \A f \in SeatPlaces(b) : f = e
               /\ HandPlaces(b) = {}
    <3>1. PICK t \in TableIds, i \in Seat :
                e = <<t, i>> /\ Taken(t, i) /\ OnSeat(t, i) = b
      BY <2>1 DEF SeatPlaces, Taken, OnSeat
    <3>2. ASSUME NEW f \in SeatPlaces(b)
          PROVE  f = e
      <4>1. PICK u \in TableIds, j \in Seat :
                f = <<u, j>> /\ Taken(u, j) /\ OnSeat(u, j) = b
        BY <3>2 DEF SeatPlaces, Taken, OnSeat
      <4> QED BY <3>1, <4>1 DEF IInv, Spent, SeatsPaid
    <3>3. ASSUME NEW th \in Threads
          PROVE  reg[th].buyIn # b
      BY <1>0, <3>1 DEF IInv, Spent, HandsDiffer
    <3> QED BY <3>2, <3>3 DEF HandPlaces
  <2>2. ASSUME NEW e \in HandPlaces(b), NEW f \in HandPlaces(b)
        PROVE  f = e
    BY <1>0, <2>2 DEF HandPlaces, IInv, Spent, HandsDiffer
  <2>3. CASE SeatPlaces(b) # {}
    BY <2>1, <2>3 DEF InPlay
  <2>4. CASE SeatPlaces(b) = {}
    BY <2>2, <2>4 DEF InPlay
  <2> QED BY <2>3, <2>4
<1> QED BY <1>1, <1>2

(* The application keeps its types.                                        *)
THEOREM TypeCorrect == Spec => []TypeOK
<1>1. IInv => TypeOK
  BY DEF IInv
<1> QED BY <1>1, InitIInv, NextIInv, PTL DEF Spec

(* However the threads interleave, and whether or not a player is alone, a *)
(* pending buy-in was never spent, and no buy-in is on two seats, in two   *)
(* hands, or in a hand and on a seat.                                      *)
THEOREM NoBuyInSpentTwice == Spec => []BuyInSpentOnce
<1> QED BY SpentOnceFollows, InitIInv, NextIInv, PTL DEF Spec

(* The seats and the index of every table agree, whatever the connections  *)
(* do to them.                                                             *)
THEOREM TablesAlwaysAgree == Spec => []TablesAgree
<1>1. IInv => TablesAgree
  BY DEF IInv
<1> QED BY <1>1, InitIInv, NextIInv, PTL DEF Spec

(***************************************************************************)
(* What the application owes a player who is alone, whatever the threads   *)
(* of the other players do: his seat is where his connection says, and     *)
(* every buy-in of his is in exactly one place.  The inductive invariant   *)
(* adds to IInv what every thread still means to do for its player.        *)
(***************************************************************************)

\* Two threads at work for one player have made him shared; a revoker always
\* has, since the connections it lists are at work.
ThreadsInv ==
    /\ \A c \in Conns : victim[c] = c
    /\ \A r \in Revokers :
            /\ pc[r] \in {"new", "done"} \cup ClosePcs
            /\ \A c \in todo[r] : Owner[c] = Actor(r)
            /\ Active(r) => Actor(r) \in shared
    /\ \A c \in hub : Active(c)
    /\ \A c, d \in Conns :
            (Active(c) /\ Active(d) /\ Owner[c] = Owner[d] /\ c # d)
                => Owner[c] \in shared
    /\ \A th \in Threads : ~ Active(th) => reg[th] = Blank
    /\ \A c \in Conns : At(c, "new") => ~ client[c].seated

\* Whoever holds a buy-in, it is its buyer's, or that of who works for him.
Owned ==
    /\ \A p \in PlayerIds, t \in TableIds :
            HasPending(p, t) => Buyer(pending[p][t]) = p
    /\ \A t \in TableIds, i \in Seat :
            Taken(t, i) => Buyer(OnSeat(t, i)) = tables[t].seats[i].player
    /\ \A th \in Threads : reg[th].buyIn # NoBuyIn =>
            th \in Conns /\ pc[th] \in HandPcs /\ Buyer(reg[th].buyIn) = Actor(th)
    /\ \A th \in Threads : reg[th].stack # NoStack =>
            Buyer(reg[th].stack) = Actor(th)

\* The tables a player sits at, as his connection knows it.  Between a Leave
\* and the SetTableState or the end of the connection that follows, the
\* wsClient still says otherwise.
StalePcs == {"switchMark", "leaveRefund", "leaveMark",
             "closeRefund", "closeTell", "closeEnd"}

Sits(c) ==
    IF pc[c] \in StalePcs THEN {}
    ELSE IF At(c, "seatMark") THEN {reg[c].table}
    ELSE IF client[c].seated THEN {client[c].table} ELSE {}

SitsRight(c) ==
    /\ \A t \in TableIds : IsSeated(tables[t], Owner[c]) <=> t \in Sits(c)
    /\ ~ At(c, "switchMarkAbsent")
    /\ pc[c] \in {"switchRead", "switchLeave", "closeTable", "closeRead", "closeLeave"}
            => client[c].seated
    /\ pc[c] \in {"switchRead", "switchLeave", "closeRead", "closeLeave"}
            => reg[c].from = client[c].table
    /\ pc[c] \in {"switchRefund", "switchTell", "seat", "seatRefund"}
            => ~ client[c].seated
    /\ pc[c] \in {"switchLeave", "leave", "closeLeave"}
            => reg[c].stack = StackOf(tables[reg[c].from], Owner[c])

AtConn(p) ==
    /\ \A c \in Conns : (Owner[c] = p /\ Active(c)) => SitsRight(c)
    /\ ~ Busy(p) => \A t \in TableIds : ~ IsSeated(tables[t], p)

\* Where the chips of buy-in b are.
Pend(b) == \E p \in PlayerIds, t \in TableIds : pending[p][t] = b
OnSome(b) == \E t \in TableIds, i \in Seat : Taken(t, i) /\ OnSeat(t, i) = b
InHand(b) == \E th \in Threads : reg[th].buyIn = b
OffSeat(b) == \E th \in Threads : pc[th] \in OffSeatPcs /\ reg[th].stack = b
Settled(b) == refunds[b] # 0 \/ b \in lost

\* They are somewhere, and not in two places but for those IInv excludes.
Kept(b) ==
    /\ Pend(b) \/ OnSome(b) \/ InHand(b) \/ OffSeat(b) \/ Settled(b)
    /\ OffSeat(b) => ~ OnSome(b) /\ ~ InHand(b) /\ ~ Settled(b)
    /\ OnSome(b) \/ InHand(b) => ~ Settled(b)
    /\ refunds[b] <= 1 /\ (refunds[b] = 0 \/ b \notin lost)

JInv ==
    /\ ThreadsInv
    /\ Owned
    /\ \A p \in PlayerIds : Alone(p) => AtConn(p)
    /\ \A b \in BuyInId : Alone(Buyer(b)) => Kept(b)

-----------------------------------------------------------------------------
(* Facts about single states.                                              *)

(* A thread at work for a player who is alone is that of his connection,   *)
(* and the only one.                                                       *)
LEMMA AloneThread ==
    ASSUME IInv, JInv, NEW th \in Threads, Active(th), Alone(Actor(th))
    PROVE  /\ th \in Conns /\ victim[th] = th /\ Actor(th) = Owner[th]
           /\ \A o \in Threads : (Active(o) /\ Actor(o) = Actor(th)) => o = th
           /\ SitsRight(th)
<1>1. ASSUME NEW o \in Threads, Active(o), Actor(o) = Actor(th)
      PROVE  o \in Conns /\ victim[o] = o /\ Actor(o) = Owner[o]
  BY <1>1 DEF JInv, ThreadsInv, Threads, Alone, Actor
<1>2. \A o \in Threads : (Active(o) /\ Actor(o) = Actor(th)) => o = th
  BY <1>1 DEF JInv, ThreadsInv, Alone
<1>3. Actor(th) \in PlayerIds
  BY ActorIsPlayer DEF IInv
<1> QED BY <1>1, <1>2, <1>3 DEF JInv, AtConn

(* A number other than that for none is the number of a buy-in.            *)
LEMMA HeldIsBuyIn ==
    ASSUME IInv
    PROVE  /\ \A th \in Threads :
                /\ reg[th].buyIn # NoBuyIn => reg[th].buyIn \in BuyInId
                /\ reg[th].stack # NoStack => reg[th].stack \in BuyInId
           /\ \A t \in TableIds, i \in Seat : Taken(t, i) => OnSeat(t, i) \in BuyInId
           /\ \A p \in PlayerIds, t \in TableIds :
                HasPending(p, t) => pending[p][t] \in BuyInId
           /\ NoBuyIn \notin BuyInId /\ NoStack \notin BuyInId /\ NoBuyIn = NoStack
           /\ BuyInId \subseteq 1 .. MaxBuyIns
<1>1. \A b \in Known : b # 0 => b \in BuyInId
  BY NumbersAreNaturals DEF IInv, Known, BuyInId
<1>2. NoBuyIn = 0 /\ NoStack = 0 /\ 0 \notin BuyInId
  BY DEF NoBuyIn, NoStack, BuyInId
<1>3. BuyInId \subseteq 1 .. MaxBuyIns
  BY NumbersAreNaturals, MaxBuyInsAssumption DEF IInv, IdsKnown, BuyInId
<1>4. \A t \in TableIds, i \in Seat : Taken(t, i) => OnSeat(t, i) \in BuyInId
  BY <1>1, <1>2 DEF IInv, IdsKnown, Spent, SeatsPaid, OnSeat
<1> QED BY <1>1, <1>2, <1>3, <1>4 DEF IInv, IdsKnown, HasPending

(* What currentPlayerStack finds was bought by that player.                *)
LEMMA StackIsOwn ==
    ASSUME IInv, Owned, NEW t \in TableIds, NEW p \in PlayerIds
    PROVE  /\ StackOf(tables[t], p) # NoStack => Buyer(StackOf(tables[t], p)) = p
           /\ IsSeated(tables[t], p) =>
                LET i == tables[t].playerSeat[p]
                IN  /\ i \in Seat /\ Taken(t, i) /\ OnSeat(t, i) = StackOf(tables[t], p)
                    /\ OnSeat(t, i) \in BuyInId /\ Buyer(OnSeat(t, i)) = p
<1>1. TableOK(tables[t])
  BY DEF IInv, TypeOK, TablesAgree, TableOK
<1>2. CASE IsSeated(tables[t], p)
  <2> DEFINE i == tables[t].playerSeat[p]
  <2>1. /\ i \in Seat /\ Taken(t, i) /\ OnSeat(t, i) = StackOf(tables[t], p)
        /\ tables[t].seats[i].player = p
    BY <1>1, <1>2, StackOfSeat DEF Taken, OnSeat
  <2>2. Buyer(OnSeat(t, i)) = p /\ OnSeat(t, i) \in BuyInId
    BY <2>1, HeldIsBuyIn DEF Owned
  <2> QED BY <2>1, <2>2
<1>3. CASE ~ IsSeated(tables[t], p)
  BY <1>1, <1>3, StackOfSeat
<1> QED BY <1>2, <1>3

-----------------------------------------------------------------------------
(* The shape of a step of a thread.                                        *)

\* The handlers of a connection that wait for its peer, and those that do not.
Works(th) ==
    \/ Step(th)
    \/ /\ th \in Conns
       /\ \E t \in TableIds : \/ \E s \in {AnySeat} \cup Seat : ReceiveJoin(th, t, s)
                              \/ ReceiveLeave(th, t)

Shape(th) ==
    /\ Active(th) /\ shared' = shared /\ hub' \subseteq hub
    /\ \A o \in Threads \ {th} : /\ pc'[o] = pc[o] /\ reg'[o] = reg[o]
                                 /\ victim'[o] = victim[o]
    /\ \A r \in Revokers \ {th} : todo'[r] = todo[r]
    /\ \A c \in Conns \ {th} : client'[c] = client[c]
    /\ pc'[th] # "new"
    /\ th \in Conns => victim'[th] = victim[th]
    /\ th \in Revokers => /\ pc'[th] \in {"done"} \cup ClosePcs
                          /\ todo'[th] \subseteq todo[th]
                          /\ victim'[th] \in {victim[th]} \cup todo[th]
    /\ pc'[th] = "done" => reg'[th] = Blank /\ victim[th] \notin hub'

\* A thread changes no seat but that of the player it works for.
TablesShape(th) ==
    LET p == Actor(th)
    IN  \/ UNCHANGED tables
        \/ \E t \in TableIds :
                /\ IsSeated(tables[t], p)
                /\ tables' = [tables EXCEPT ![t] = Leave(tables[t], p)]
        \/ \E t \in TableIds, i \in Seat :
                /\ IsFree(tables[t], i) /\ ~ IsSeated(tables[t], p)
                /\ reg[th].buyIn # NoBuyIn
                /\ tables' = [tables EXCEPT ![t] = Join(tables[t], p, reg[th].buyIn, i)]

\* It takes only the pending buy-ins of that player, holds them in its join
\* only, and reads only his seats.
RegShape(th) ==
    /\ reg'[th] \in Registers
    /\ reg'[th].buyIn # NoBuyIn =>
            /\ th \in Conns /\ pc'[th] \in HandPcs
            /\ \/ reg'[th].buyIn = reg[th].buyIn
               \/ \E t \in TableIds : /\ HasPending(Actor(th), t)
                                      /\ reg'[th].buyIn = pending[Actor(th)][t]
    /\ \/ reg'[th].stack \in {reg[th].stack, NoStack}
       \/ \E t \in TableIds : reg'[th].stack = StackOf(tables[t], Actor(th))

\* And it settles only what it holds, or a pending buy-in of that player.
StoreShape(th) ==
    /\ buyIns' = buyIns
    /\ \A p \in PlayerIds, t \in TableIds :
            /\ pending'[p][t] \in {pending[p][t], NoBuyIn}
            /\ p # Actor(th) => pending'[p][t] = pending[p][t]
    /\ \A b \in BuyInId : b \notin {reg[th].buyIn, reg[th].stack} =>
            /\ refunds'[b] = refunds[b]
            /\ \/ b \in lost' <=> b \in lost
               \/ \E t \in TableIds : b = pending[Actor(th)][t]

(* Every step of a thread has that shape.                                  *)
LEMMA WorkHasShape ==
    ASSUME IInv, JInv, NEW th \in Threads, Works(th)
    PROVE  Shape(th)
<1> USE DEF Shape, Active, At, Goto, SetReg, Return, threadVars, connVars, IInv, TypeOK
<1>0. /\ (th \in Conns => th \notin Revokers) /\ (th \in Conns \/ th \in Revokers)
      /\ th \in Revokers => pc[th] \in {"new", "done"} \cup ClosePcs
  BY ThreadsAssumption DEF Threads, JInv, ThreadsInv
<1>1. ASSUME NEW t \in TableIds, NEW s, th \in Conns, ReceiveJoin(th, t, s)
      PROVE  Shape(th)
  BY <1>0, <1>1 DEF ReceiveJoin
<1>2. ASSUME NEW t \in TableIds, th \in Conns, ReceiveLeave(th, t)
      PROVE  Shape(th)
  BY <1>0, <1>2 DEF ReceiveLeave
<1>3. ASSUME th \in Conns, \/ ReadError(th) \/ Consume(th) \/ TakeSeat(th)
                           \/ SeatRefund(th)
      PROVE  Shape(th)
  BY <1>0, <1>3 DEF ReadError, Consume, TakeSeat, SeatRefund
<1>4. ASSUME th \in Conns, \/ SwitchRead(th) \/ SwitchLeave(th) \/ SwitchRefund(th)
                           \/ LeaveTable(th) \/ LeaveRefund(th)
      PROVE  Shape(th)
  BY <1>0, <1>4 DEF SwitchRead, SwitchLeave, SwitchRefund, LeaveTable, LeaveRefund
<1>5. ASSUME th \in Conns, SeatMark(th) \/ SwitchMark(th) \/ LeaveMark(th)
      PROVE  Shape(th)
  BY <1>0, <1>5 DEF SeatMark, SwitchMark, LeaveMark, SetTableState
<1>6. ASSUME \/ Close(th) \/ CloseTable(th) \/ CloseRead(th) \/ CloseLeave(th)
             \/ CloseRefund(th)
      PROVE  Shape(th)
  BY <1>0, <1>6 DEF Close, CloseTable, CloseRead, CloseLeave, CloseRefund, ClosePcs
<1>7. ASSUME CloseEnd(th)
      PROVE  Shape(th)
  BY <1>0, <1>7 DEF CloseEnd, ClosePcs
<1>8. ASSUME Tell(th)
      PROVE  Shape(th)
  BY <1>0, <1>8 DEF Tell, ClosePcs
<1> QED BY <1>1, <1>2, <1>3, <1>4, <1>5, <1>6, <1>7, <1>8
        DEF Works, Step, ConnStep, CloseStep

(* A connection's own thread works for the player of its session.          *)
LEMMA ConnActor ==
    ASSUME JInv, NEW c \in Conns
    PROVE  c \in Threads /\ Actor(c) = Owner[c]
BY DEF JInv, ThreadsInv, Actor, Threads

(* Every step of a thread changes the tables that way.                     *)
LEMMA WorkHasTablesShape ==
    ASSUME IInv, JInv, NEW th \in Threads, Works(th)
    PROVE  TablesShape(th)
<1>0. reg[th].from \in TableIds /\ reg[th].table \in TableIds
  BY DEF IInv, TypeOK, Registers
<1>1. ASSUME NEW t \in TableIds, NEW s, ReceiveJoin(th, t, s) \/ ReceiveLeave(th, t)
      PROVE  UNCHANGED tables
  BY <1>1 DEF ReceiveJoin, ReceiveLeave
<1>2. ASSUME \/ ReadError(th) \/ Consume(th) \/ SeatRefund(th) \/ SeatMark(th)
             \/ SwitchRead(th) \/ SwitchMark(th) \/ SwitchRefund(th)
             \/ LeaveRefund(th) \/ LeaveMark(th)
      PROVE  UNCHANGED tables
  BY <1>2 DEF ReadError, Consume, SeatRefund, SeatMark, SwitchRead, SwitchMark,
     SwitchRefund, LeaveRefund, LeaveMark
<1>3. ASSUME \/ Close(th) \/ CloseTable(th) \/ CloseRead(th) \/ CloseRefund(th)
             \/ CloseEnd(th) \/ Tell(th)
      PROVE  UNCHANGED tables
  BY <1>3 DEF Close, CloseTable, CloseRead, CloseRefund, CloseEnd, Tell
<1>4. ASSUME th \in Conns, SwitchLeave(th) \/ LeaveTable(th)
      PROVE  TablesShape(th)
  BY <1>0, <1>4, ConnActor DEF SwitchLeave, LeaveTable, TablesShape
<1>5. ASSUME CloseLeave(th)
      PROVE  TablesShape(th)
  BY <1>0, <1>5 DEF CloseLeave, TablesShape
<1>6. ASSUME th \in Conns, TakeSeat(th)
      PROVE  TablesShape(th)
  <2> DEFINE t == reg[th].table
             p == Actor(th)
  <2>1. reg[th].buyIn # NoBuyIn /\ p = Owner[th]
    BY <1>6, ConnActor DEF IInv, HandsFull, HandPcs, TakeSeat, At
  <2>2. CASE UNCHANGED tables
    BY <2>2 DEF TablesShape
  <2>3. CASE /\ ~ IsSeated(tables[t], p)
             /\ \E i \in AllocateSeat(tables[t], reg[th].seat) :
                    tables' = [tables EXCEPT ![t] = Join(tables[t], p, reg[th].buyIn, i)]
    BY <1>0, <2>1, <2>3, AllocatedSeatIsFree DEF TablesShape
  <2> QED BY <1>6, <2>1, <2>2, <2>3 DEF TakeSeat
<1>7. UNCHANGED tables => TablesShape(th)
  BY DEF TablesShape
<1> QED BY <1>1, <1>2, <1>3, <1>4, <1>5, <1>6, <1>7
        DEF Works, Step, ConnStep, CloseStep

(* Refund touches the wallet, and what it says of its buy-in.              *)
LEMMA RefundShape ==
    ASSUME IInv, NEW p, NEW b \in BuyInId, Refund(p, b)
    PROVE  /\ buyIns' = buyIns /\ pending' = pending
           /\ \A o \in BuyInId \ {b} :
                refunds'[o] = refunds[o] /\ (o \in lost' <=> o \in lost)
           /\ \/ refunds'[b] = refunds[b] + 1 /\ (b \in lost' <=> b \in lost)
              \/ refunds'[b] = refunds[b] /\ b \in lost'
<1>1. BuyInId \subseteq 1 .. MaxBuyIns /\ refunds \in [1 .. MaxBuyIns -> Nat]
  BY HeldIsBuyIn DEF IInv, TypeOK
<1> QED BY <1>1 DEF Refund, CreditWallet

(* Every step of a thread treats the store and the ledger that way.        *)
LEMMA WorkHasStoreShape ==
    ASSUME IInv, JInv, NEW th \in Threads, Works(th)
    PROVE  StoreShape(th)
<1>0. pending \in [PlayerIds -> [TableIds -> Nat]] /\ reg[th].table \in TableIds
  BY DEF IInv, TypeOK, StoreTypeOK, Registers
<1>1. ASSUME UNCHANGED storeVars \/ UNCHANGED <<pending, buyIns>>,
             UNCHANGED ledger
      PROVE  StoreShape(th)
  BY <1>1 DEF StoreShape, storeVars, ledger
<1>2. ASSUME NEW t, NEW s, ReceiveJoin(th, t, s) \/ ReceiveLeave(th, t)
      PROVE  UNCHANGED storeVars /\ UNCHANGED ledger
  BY <1>2 DEF ReceiveJoin, ReceiveLeave
<1>3. ASSUME \/ ReadError(th) \/ SeatMark(th) \/ SwitchRead(th) \/ SwitchMark(th)
             \/ LeaveMark(th) \/ TakeSeat(th)
      PROVE  UNCHANGED storeVars /\ UNCHANGED ledger
  BY <1>3 DEF ReadError, SeatMark, SwitchRead, SwitchMark, LeaveMark, TakeSeat
<1>4. ASSUME \/ SwitchLeave(th) \/ LeaveTable(th) \/ CloseLeave(th)
      PROVE  UNCHANGED storeVars /\ UNCHANGED ledger
  BY <1>4 DEF SwitchLeave, LeaveTable, CloseLeave
<1>5. ASSUME Close(th) \/ CloseTable(th) \/ CloseRead(th) \/ CloseEnd(th) \/ Tell(th)
      PROVE  UNCHANGED storeVars /\ UNCHANGED ledger
  BY <1>5 DEF Close, CloseTable, CloseRead, CloseEnd, Tell
<1>6. ASSUME NEW p, NEW b \in {reg[th].buyIn, reg[th].stack}, b # NoBuyIn, Refund(p, b)
      PROVE  StoreShape(th)
  <2>1. b \in BuyInId
    BY <1>6, HeldIsBuyIn
  <2> QED BY <1>6, <2>1, RefundShape DEF StoreShape
<1>7. ASSUME \/ SeatRefund(th) \/ SwitchRefund(th) \/ LeaveRefund(th) \/ CloseRefund(th)
      PROVE  \E p : \E b \in {reg[th].buyIn, reg[th].stack} :
                b # NoBuyIn /\ Refund(p, b)
  <2>1. /\ At(th, "seatRefund") => reg[th].buyIn # NoBuyIn
        /\ pc[th] \in RefundPcs => reg[th].stack # NoBuyIn
    BY HeldIsBuyIn DEF IInv, HandsFull, At, HandPcs
  <2> QED BY <1>7, <2>1 DEF SeatRefund, SwitchRefund, LeaveRefund, CloseRefund, At, RefundPcs
<1>8. ASSUME th \in Conns, Consume(th)
      PROVE  StoreShape(th)
  <2>1. Owner[th] = Actor(th) /\ Owner[th] \in PlayerIds
    BY <1>8, ConnActor, ActorIsPlayer DEF IInv
  <2>2. UNCHANGED refunds
    BY <1>8 DEF Consume
  <2>3. CASE ConsumePendingBuyIn(Owner[th], reg[th].table) /\ UNCHANGED lost
    BY <1>0, <2>1, <2>2, <2>3 DEF ConsumePendingBuyIn, StoreShape
  <2>4. CASE /\ ConsumePendingBuyIn(Owner[th], reg[th].table)
             /\ lost' = lost \cup {pending[Owner[th]][reg[th].table]}
    BY <1>0, <2>1, <2>2, <2>4 DEF ConsumePendingBuyIn, StoreShape
  <2>5. CASE UNCHANGED <<storeVars, lost>>
    BY <1>1, <2>2, <2>5 DEF ledger
  <2> QED BY <1>8, <2>3, <2>4, <2>5 DEF Consume
<1> QED BY <1>1, <1>2, <1>3, <1>4, <1>5, <1>6, <1>7, <1>8
        DEF Works, Step, ConnStep, CloseStep

(* Every step of a thread treats its registers that way.                   *)
LEMMA WorkHasRegShape ==
    ASSUME IInv, JInv, NEW th \in Threads, Works(th)
    PROVE  RegShape(th)
<1>0. /\ reg[th] \in Registers /\ reg \in [Threads -> Registers]
      /\ pc \in [Threads -> {"new", "idle", "done"} \cup JoinPcs \cup LeavePcs \cup ClosePcs]
      /\ Blank \in Registers /\ Blank.buyIn = NoBuyIn /\ Blank.stack = NoStack
      /\ reg[th].buyIn # NoBuyIn => th \in Conns /\ pc[th] \in HandPcs
  BY BlankIsEmpty DEF IInv, TypeOK, JInv, Owned
<1>1. /\ \A c \in Conns : Actor(c) = Owner[c]
      /\ Actor(th) \in PlayerIds
      /\ \A t \in TableIds : StackOf(tables[t], Actor(th)) \in Nat
      /\ client[victim[th]].table \in TableIds
      /\ \A t \in TableIds : pending[Actor(th)][t] \in Nat
  BY ConnActor, ActorIsPlayer, StackOfIsNat DEF IInv, TypeOK, StoreTypeOK
<1>2. ASSUME reg' = reg, pc[th] \in HandPcs => pc'[th] \in HandPcs
      PROVE  RegShape(th)
  BY <1>0, <1>2 DEF RegShape
<1>3. ASSUME SetReg(th, Blank)
      PROVE  RegShape(th)
  BY <1>0, <1>3 DEF RegShape, SetReg
<1>4. ASSUME NEW t \in TableIds, NEW s \in {AnySeat} \cup Seat, th \in Conns,
             ReceiveJoin(th, t, s) \/ ReceiveLeave(th, t)
      PROVE  RegShape(th)
  <2>1. CASE ReceiveJoin(th, t, s)
    <3> DEFINE r == [Blank EXCEPT !.table = t, !.seat = s]
    <3>1. r \in Registers /\ r.buyIn = NoBuyIn /\ r.stack = NoStack
      BY <1>0 DEF Registers
    <3>2. reg' = [reg EXCEPT ![th] = r]
      BY <2>1 DEF ReceiveJoin, SetReg
    <3> HIDE DEF r
    <3> QED BY <1>0, <3>1, <3>2 DEF RegShape
  <2>2. CASE ReceiveLeave(th, t)
    <3> DEFINE r == [Blank EXCEPT !.from = t, !.stack = StackOf(tables[t], Owner[th])]
    <3>1. r \in Registers /\ r.buyIn = NoBuyIn /\ r.stack = StackOf(tables[t], Actor(th))
      BY <1>0, <1>1, <1>4 DEF Registers
    <3>2. reg' = [reg EXCEPT ![th] = r]
      BY <2>2 DEF ReceiveLeave, SetReg
    <3> HIDE DEF r
    <3> QED BY <1>0, <3>1, <3>2 DEF RegShape
  <2> QED BY <1>4, <2>1, <2>2
<1>5. ASSUME th \in Conns, Consume(th)
      PROVE  RegShape(th)
  <2>1. CASE Return(th)
    BY <1>3, <2>1 DEF Return, SetReg
  <2>2. CASE /\ HasPending(Owner[th], reg[th].table)
             /\ SetReg(th, [reg[th] EXCEPT !.buyIn = pending[Owner[th]][reg[th].table],
                                           !.from = client[th].table])
             /\ Goto(th, IF client[th].seated THEN "switchRead" ELSE "seat")
    <3> DEFINE t == reg[th].table
               r == [reg[th] EXCEPT !.buyIn = pending[Owner[th]][t],
                                    !.from = client[th].table]
    <3>1. /\ r \in Registers /\ r.buyIn = pending[Actor(th)][t] /\ r.stack = reg[th].stack
          /\ t \in TableIds /\ HasPending(Actor(th), t)
      BY <1>0, <1>1, <1>5, <2>2 DEF Registers, IInv, TypeOK
    <3>2. reg' = [reg EXCEPT ![th] = r]
      BY <2>2 DEF SetReg
    <3>3. pc'[th] \in HandPcs
      BY <1>0, <2>2 DEF Goto, HandPcs
    <3> HIDE DEF r
    <3> QED BY <1>0, <1>5, <3>1, <3>2, <3>3 DEF RegShape
  <2> QED BY <1>5, <2>1, <2>2 DEF Consume, ConsumePendingBuyIn
<1>6. ASSUME th \in Conns, SwitchRead(th)
      PROVE  RegShape(th)
  <2> DEFINE r == [reg[th] EXCEPT !.stack = StackOf(tables[reg[th].from], Owner[th])]
  <2>1. /\ r \in Registers /\ r.buyIn = reg[th].buyIn
        /\ \E t \in TableIds : r.stack = StackOf(tables[t], Actor(th))
    BY <1>0, <1>1, <1>6 DEF Registers
  <2>2. reg' = [reg EXCEPT ![th] = r]
    BY <1>6 DEF SwitchRead, SetReg
  <2>3. pc'[th] \in HandPcs
    BY <1>0, <1>6 DEF SwitchRead, Goto, HandPcs
  <2> HIDE DEF r
  <2> QED BY <1>0, <1>6, <2>1, <2>2, <2>3 DEF RegShape
<1>7. ASSUME th \in Conns, TakeSeat(th)
      PROVE  RegShape(th)
  <2> DEFINE r == [reg[th] EXCEPT !.buyIn = NoBuyIn]
  <2>1. r \in Registers /\ r.buyIn = NoBuyIn /\ r.stack = reg[th].stack
    BY <1>0 DEF Registers, NoBuyIn
  <2>2. CASE reg' = [reg EXCEPT ![th] = r]
    <3> HIDE DEF r
    <3> QED BY <1>0, <2>1, <2>2 DEF RegShape
  <2>3. CASE reg' = reg /\ Goto(th, "seatRefund")
    BY <1>0, <1>2, <2>3 DEF Goto, HandPcs
  <2> QED BY <1>7, <2>2, <2>3 DEF TakeSeat, SetReg
<1>8. ASSUME SeatRefund(th) \/ CloseEnd(th)
      PROVE  RegShape(th)
  BY <1>3, <1>8 DEF SeatRefund, CloseEnd, Return, SetReg
<1>9. ASSUME \/ ReadError(th) \/ SeatMark(th) \/ SwitchLeave(th) \/ SwitchMark(th)
             \/ SwitchRefund(th) \/ LeaveRefund(th) \/ LeaveMark(th)
      PROVE  RegShape(th)
  <2>1. reg' = reg
    BY <1>9 DEF ReadError, SeatMark, SwitchLeave, SwitchMark, SwitchRefund,
       LeaveRefund, LeaveMark
  <2>2. pc[th] \in HandPcs => pc'[th] \in HandPcs
    BY <1>0, <1>9 DEF ReadError, SeatMark, SwitchLeave, SwitchMark, SwitchRefund,
       LeaveRefund, LeaveMark, At, Goto, HandPcs
  <2> QED BY <1>2, <2>1, <2>2
<1>10. ASSUME LeaveTable(th)
       PROVE  RegShape(th)
  <2>1. pc[th] \notin HandPcs
    BY <1>10 DEF LeaveTable, At, HandPcs
  <2>2. reg' = reg \/ SetReg(th, Blank)
    BY <1>10 DEF LeaveTable, Return, SetReg
  <2> QED BY <1>2, <1>3, <2>1, <2>2
<1>11. ASSUME CloseTable(th)
       PROVE  RegShape(th)
  <2> DEFINE r == [Blank EXCEPT !.from = client[victim[th]].table]
  <2>1. r \in Registers /\ r.buyIn = NoBuyIn /\ r.stack = NoStack
    BY <1>0, <1>1 DEF Registers
  <2>2. reg' = [reg EXCEPT ![th] = r]
    BY <1>11 DEF CloseTable, SetReg
  <2> HIDE DEF r
  <2> QED BY <1>0, <2>1, <2>2 DEF RegShape
<1>12. ASSUME CloseRead(th)
       PROVE  RegShape(th)
  <2> DEFINE r == [reg[th] EXCEPT !.stack = StackOf(tables[reg[th].from], Actor(th))]
  <2>1. /\ r \in Registers /\ r.buyIn = reg[th].buyIn
        /\ \E t \in TableIds : r.stack = StackOf(tables[t], Actor(th))
    BY <1>0, <1>1 DEF Registers
  <2>2. reg' = [reg EXCEPT ![th] = r]
    BY <1>12 DEF CloseRead, SetReg
  <2>3. pc[th] \notin HandPcs
    BY <1>12 DEF CloseRead, At, HandPcs
  <2> HIDE DEF r
  <2> QED BY <1>0, <2>1, <2>2, <2>3 DEF RegShape
<1>13. ASSUME Close(th) \/ CloseLeave(th) \/ CloseRefund(th)
       PROVE  RegShape(th)
  <2>1. reg' = reg /\ pc[th] \notin HandPcs
    BY <1>13 DEF Close, CloseLeave, CloseRefund, At, HandPcs
  <2> QED BY <1>2, <2>1
<1>14. ASSUME Tell(th)
       PROVE  RegShape(th)
  <2>1. CASE SetReg(th, Blank)
    BY <1>3, <2>1
  <2>2. CASE reg' = reg
    <3>1. pc[th] \in HandPcs => pc'[th] \in HandPcs
      BY <1>0, <1>14 DEF Tell, At, Goto, Return, HandPcs
    <3> QED BY <1>2, <2>2, <3>1
  <2> QED BY <1>14, <2>1, <2>2 DEF Tell, At, Return, SetReg
<1> QED BY <1>4, <1>5, <1>6, <1>7, <1>8, <1>9, <1>10, <1>11, <1>12, <1>13, <1>14
        DEF Works, Step, ConnStep, CloseStep

(* Together.                                                               *)
Shaped(th) == Shape(th) /\ TablesShape(th) /\ RegShape(th) /\ StoreShape(th)

LEMMA WorkIsShaped ==
    ASSUME IInv, JInv, NEW th \in Threads, Works(th)
    PROVE  Shaped(th)
BY WorkHasShape, WorkHasTablesShape, WorkHasRegShape, WorkHasStoreShape DEF Shaped

-----------------------------------------------------------------------------
(* What follows from the shape: the threads stay whose they are, and so do *)
(* the buy-ins; nobody else's seats, connections and buy-ins are touched.  *)

(* A revoker goes on to the connections of the same player.                *)
LEMMA ShapeKeepsThreads ==
    ASSUME IInv, IInv', JInv, NEW th \in Threads, Shape(th)
    PROVE  /\ ThreadsInv'
           /\ \A o \in Threads : Actor(o)' = Actor(o)
           /\ \A o \in Threads : Active(o)' => Active(o)
<1>0. ThreadsInv
  BY DEF JInv
<1>1. \A o \in Threads : Actor(o)' = Actor(o)
  BY <1>0, ThreadsAssumption DEF Shape, ThreadsInv, Actor, Threads
<1>2. \A o \in Threads : /\ Active(o)' => Active(o)
                         /\ (o # th => (Active(o)' <=> Active(o)))
  BY DEF Shape, Active
<1>3. \A c \in Conns : victim'[c] = c
  BY <1>0 DEF Shape, ThreadsInv, Threads
<1>4. ASSUME NEW r \in Revokers
      PROVE  /\ pc'[r] \in {"new", "done"} \cup ClosePcs
             /\ \A c \in todo'[r] : Owner[c] = Actor(r)'
             /\ Active(r)' => Actor(r)' \in shared'
  BY <1>0, <1>1, <1>2, <1>4 DEF Shape, ThreadsInv, Threads
<1>5. \A c \in hub' : Active(c)'
  <2> SUFFICES ASSUME NEW c \in hub'
               PROVE  Active(c)'
    OBVIOUS
  <2>1. c \in hub /\ c \in Conns /\ Active(c)
    BY <1>0 DEF Shape, ThreadsInv, IInv, TypeOK
  <2>2. c # th => Active(c)'
    BY <1>2, <2>1 DEF Threads
  <2>3. c = th => Active(c)'
    BY <1>0, <2>1 DEF Shape, ThreadsInv, Active
  <2> QED BY <2>2, <2>3
<1>6. \A c, d \in Conns :
            (Active(c)' /\ Active(d)' /\ Owner[c] = Owner[d] /\ c # d)
                => Owner[c] \in shared'
  BY <1>0, <1>2 DEF Shape, ThreadsInv, Threads
<1>7. \A o \in Threads : ~ Active(o)' => reg'[o] = Blank
  BY <1>0, <1>2 DEF Shape, ThreadsInv, Active
<1>8. \A c \in Conns : pc'[c] = "new" => ~ client'[c].seated
  BY <1>0 DEF Shape, ThreadsInv, At, Threads
<1> QED BY <1>1, <1>2, <1>3, <1>4, <1>5, <1>6, <1>7, <1>8 DEF ThreadsInv, At

(* A seat the step does not empty or fill is as it was.                    *)
LEMMA SeatsAfter ==
    ASSUME IInv, JInv, NEW th \in Threads, TablesShape(th),
           NEW t \in TableIds, NEW i \in Seat
    PROVE  \/ tables'[t].seats[i] = tables[t].seats[i]
           \/ Taken(t, i) /\ tables[t].seats[i].player = Actor(th)
              /\ tables'[t].seats[i] = FreeSeat
           \/ ~ Taken(t, i) /\ reg[th].buyIn # NoBuyIn
              /\ tables'[t].seats[i] = [player |-> Actor(th), stack |-> reg[th].buyIn]
<1> DEFINE p == Actor(th)
<1>0. /\ p \in PlayerIds /\ tables \in [TableIds -> TableRecord]
      /\ \A u \in TableIds : TableOK(tables[u])
  BY ActorIsPlayer DEF IInv, TypeOK, TablesAgree, TableOK
<1>1. ASSUME NEW u \in TableIds, IsSeated(tables[u], p),
             tables' = [tables EXCEPT ![u] = Leave(tables[u], p)]
      PROVE  \/ tables'[t].seats[i] = tables[t].seats[i]
             \/ /\ Taken(t, i) /\ tables[t].seats[i].player = p
                /\ tables'[t].seats[i] = FreeSeat
  <2>1. CASE t = u
    <3>1. tables'[t].seats = [tables[t].seats EXCEPT ![tables[t].playerSeat[p]] = FreeSeat]
      BY <1>0, <1>1, <2>1 DEF Leave
    <3>2. /\ tables[t].playerSeat[p] \in Seat /\ tables[t].seats \in [Seat -> Player \cup {FreeSeat}]
          /\ tables[t].seats[tables[t].playerSeat[p]].player = p
          /\ ~ IsFree(tables[t], tables[t].playerSeat[p])
      BY <1>0, <1>1, <2>1, StackOfSeat DEF TableRecord
    <3> QED BY <3>1, <3>2 DEF Taken
  <2>2. CASE t # u
    BY <1>0, <1>1, <2>2
  <2> QED BY <2>1, <2>2
<1>2. ASSUME NEW u \in TableIds, NEW j \in Seat, IsFree(tables[u], j),
             tables' = [tables EXCEPT ![u] = Join(tables[u], p, reg[th].buyIn, j)]
      PROVE  \/ tables'[t].seats[i] = tables[t].seats[i]
             \/ /\ ~ Taken(t, i)
                /\ tables'[t].seats[i] = [player |-> p, stack |-> reg[th].buyIn]
  <2>1. CASE t = u
    <3>1. tables'[t].seats =
            [tables[t].seats EXCEPT ![j] = [player |-> p, stack |-> reg[th].buyIn]]
      BY <1>0, <1>2, <2>1 DEF Join
    <3>2. tables[t].seats \in [Seat -> Player \cup {FreeSeat}]
      BY <1>0 DEF TableRecord
    <3> QED BY <1>2, <2>1, <3>1, <3>2 DEF Taken
  <2>2. CASE t # u
    BY <1>0, <1>2, <2>2
  <2> QED BY <2>1, <2>2
<1> QED BY <1>1, <1>2 DEF TablesShape

(* Every buy-in is still with its buyer.                                   *)
LEMMA ShapeKeepsOwned ==
    ASSUME IInv, IInv', JInv, NEW th \in Threads, Shaped(th)
    PROVE  Owned'
<1>0. /\ Owned /\ buyIns' = buyIns
      /\ \A o \in Threads : Actor(o)' = Actor(o)
      /\ Actor(th) \in PlayerIds
  BY ShapeKeepsThreads, ActorIsPlayer DEF JInv, IInv, Shaped, StoreShape
<1>1. \A b : Buyer(b)' = Buyer(b)
  BY <1>0 DEF Buyer
<1>2. reg[th].buyIn # NoBuyIn => Buyer(reg[th].buyIn) = Actor(th)
  BY <1>0 DEF Owned
<1>3. ASSUME NEW p \in PlayerIds, NEW t \in TableIds, pending'[p][t] # NoBuyIn
      PROVE  Buyer(pending'[p][t]) = p
  BY <1>0, <1>3 DEF Shaped, StoreShape, Owned, HasPending
<1>4. ASSUME NEW t \in TableIds, NEW i \in Seat, Taken(t, i)'
      PROVE  Buyer(OnSeat(t, i)') = tables'[t].seats[i].player
  <2>1. CASE tables'[t].seats[i] = tables[t].seats[i]
    BY <1>0, <1>4, <2>1 DEF Owned, OnSeat, Taken, IsFree
  <2>2. CASE tables'[t].seats[i] = FreeSeat
    BY <1>4, <2>2 DEF Taken, IsFree
  <2>3. CASE /\ reg[th].buyIn # NoBuyIn
             /\ tables'[t].seats[i] = [player |-> Actor(th), stack |-> reg[th].buyIn]
    BY <1>2, <2>3 DEF OnSeat
  <2> QED BY <2>1, <2>2, <2>3, SeatsAfter DEF Shaped
<1>5. ASSUME NEW o \in Threads, reg'[o].buyIn # NoBuyIn
      PROVE  o \in Conns /\ pc'[o] \in HandPcs /\ Buyer(reg'[o].buyIn) = Actor(o)
  <2>1. CASE o # th
    BY <1>0, <1>5, <2>1 DEF Shaped, Shape, Owned
  <2>2. CASE o = th
    <3>1. CASE reg'[th].buyIn = reg[th].buyIn
      BY <1>2, <1>5, <2>2, <3>1 DEF Shaped, RegShape
    <3>2. ASSUME NEW t \in TableIds, HasPending(Actor(th), t),
                 reg'[th].buyIn = pending[Actor(th)][t]
          PROVE  Buyer(reg'[th].buyIn) = Actor(th)
      BY <1>0, <3>2 DEF Owned
    <3> QED BY <1>5, <2>2, <3>1, <3>2 DEF Shaped, RegShape
  <2> QED BY <2>1, <2>2
<1>6. ASSUME NEW o \in Threads, reg'[o].stack # NoStack
      PROVE  Buyer(reg'[o].stack) = Actor(o)
  <2>1. CASE reg'[o].stack = reg[o].stack
    BY <1>0, <1>6, <2>1 DEF Owned
  <2>2. CASE o # th
    BY <2>1, <2>2 DEF Shaped, Shape
  <2>3. ASSUME NEW t \in TableIds, o = th, reg'[th].stack = StackOf(tables[t], Actor(th))
        PROVE  Buyer(reg'[th].stack) = Actor(th)
    BY <1>0, <1>6, <2>3, StackIsOwn
  <2> QED BY <1>6, <2>1, <2>2, <2>3 DEF Shaped, RegShape
<1> QED BY <1>0, <1>1, <1>3, <1>4, <1>5, <1>6 DEF Owned, HasPending

(* The seats of the other players, and what is on them, stay.              *)
LEMMA OthersStaySeated ==
    ASSUME IInv, NEW th \in Threads, TablesShape(th),
           NEW p \in PlayerIds, p # Actor(th), NEW t \in TableIds
    PROVE  /\ IsSeated(tables'[t], p) <=> IsSeated(tables[t], p)
           /\ StackOf(tables'[t], p) = StackOf(tables[t], p)
<1> DEFINE a == Actor(th)
<1>0. /\ a \in PlayerIds /\ p \in PlayerIds \ {a} /\ reg[th].buyIn \in Nat
      /\ tables \in [TableIds -> TableRecord] /\ TableOK(tables[t])
      /\ tables[t] \in TableRecord
  BY ActorIsPlayer DEF IInv, TypeOK, TablesAgree, TableOK, Registers
<1>1. ASSUME NEW u \in TableIds, IsSeated(tables[u], a),
             tables' = [tables EXCEPT ![u] = Leave(tables[u], a)]
      PROVE  /\ IsSeated(tables'[t], p) <=> IsSeated(tables[t], p)
             /\ StackOf(tables'[t], p) = StackOf(tables[t], p)
  <2>1. CASE t = u
    <3>1. tables'[t] = Leave(tables[t], a) /\ IsSeated(tables[t], a)
      BY <1>0, <1>1, <2>1
    <3> QED BY <1>0, <3>1, OthersKeepTheirSeats, OthersKeepTheirStacks
  <2>2. CASE t # u
    BY <1>0, <1>1, <2>2
  <2> QED BY <2>1, <2>2
<1>2. ASSUME NEW u \in TableIds, NEW j \in Seat, IsFree(tables[u], j),
             ~ IsSeated(tables[u], a),
             tables' = [tables EXCEPT ![u] = Join(tables[u], a, reg[th].buyIn, j)]
      PROVE  /\ IsSeated(tables'[t], p) <=> IsSeated(tables[t], p)
             /\ StackOf(tables'[t], p) = StackOf(tables[t], p)
  <2>1. CASE t = u
    <3>1. /\ tables'[t] = Join(tables[t], a, reg[th].buyIn, j)
          /\ IsFree(tables[t], j) /\ ~ IsSeated(tables[t], a)
      BY <1>0, <1>2, <2>1
    <3> QED BY <1>0, <3>1, OthersKeepTheirSeats, OthersKeepTheirStacks
  <2>2. CASE t # u
    BY <1>0, <1>2, <2>2
  <2> QED BY <2>1, <2>2
<1>3. CASE UNCHANGED tables
  BY <1>3
<1> QED BY <1>1, <1>2, <1>3 DEF TablesShape

(* A step for one player leaves the connection of another at his seat.     *)
LEMMA OthersAtConn ==
    ASSUME IInv, IInv', JInv, NEW th \in Threads, Shaped(th),
           NEW p \in PlayerIds, p # Actor(th), AtConn(p)
    PROVE  AtConn(p)'
<1>1. /\ \A o \in Threads : Actor(o)' = Actor(o)
      /\ \A t \in TableIds :
            /\ IsSeated(tables'[t], p) <=> IsSeated(tables[t], p)
            /\ StackOf(tables'[t], p) = StackOf(tables[t], p)
  BY ShapeKeepsThreads, OthersStaySeated DEF Shaped
<1>2. ASSUME NEW c \in Conns, Owner[c] = p
      PROVE  /\ pc'[c] = pc[c] /\ reg'[c] = reg[c] /\ client'[c] = client[c]
             /\ reg[c].from \in TableIds
  <2>1. c # th /\ c \in Threads
    BY <1>2, ConnActor
  <2> QED BY <2>1 DEF Shaped, Shape, IInv, TypeOK, Registers
<1>3. ASSUME NEW c \in Conns, Owner[c] = p, Active(c)'
      PROVE  SitsRight(c)'
  <2>1. SitsRight(c)
    BY <1>2, <1>3 DEF AtConn, Active
  <2> QED BY <1>1, <1>2, <1>3, <2>1 DEF SitsRight, Sits, At
<1>4. Busy(p) => Busy(p)'
  <2> SUFFICES ASSUME Busy(p)
               PROVE  Busy(p)'
    OBVIOUS
  <2>1. PICK o \in Threads : Active(o) /\ Actor(o) = p
    BY DEF Busy
  <2>2. Active(o)' /\ Actor(o)' = p
    BY <1>1, <2>1 DEF Shaped, Shape, Active
  <2> QED BY <2>2 DEF Busy
<1> QED BY <1>1, <1>3, <1>4 DEF AtConn

(* A step of the only thread at work for a player leaves his connection at *)
(* his seat if it does so where the thread is.                             *)
LEMMA OwnAtConn ==
    ASSUME IInv, IInv', JInv, NEW th \in Threads, Shaped(th), Alone(Actor(th)),
           pc'[th] # "done" => SitsRight(th)',
           pc'[th] = "done" => \A t \in TableIds : ~ IsSeated(tables'[t], Actor(th))
    PROVE  AtConn(Actor(th))'
<1>1. /\ \A o \in Threads : Actor(o)' = Actor(o) /\ (Active(o)' => Active(o))
      /\ Active(th) /\ pc'[th] # "new"
  BY ShapeKeepsThreads DEF Shaped, Shape
<1>2. /\ th \in Conns /\ Actor(th) = Owner[th]
      /\ \A o \in Threads : (Active(o) /\ Actor(o) = Actor(th)) => o = th
  BY <1>1, AloneThread
<1>3. ASSUME NEW c \in Conns, Owner[c] = Owner[th], Active(c)'
      PROVE  SitsRight(c)'
  <2>1. c = th
    BY <1>1, <1>2, <1>3, ConnActor
  <2> QED BY <1>3, <2>1 DEF Active
<1>4. ASSUME ~ Busy(Actor(th))'
      PROVE  pc'[th] = "done"
  BY <1>1, <1>4 DEF Busy, Active
<1> SUFFICES AtConn(Owner[th])'
  BY <1>1, <1>2
<1> QED BY <1>1, <1>2, <1>3, <1>4 DEF AtConn

(* The buy-ins of the other players stay where they are.                   *)
LEMMA OthersKept ==
    ASSUME IInv, IInv', JInv, NEW th \in Threads, Shaped(th),
           NEW b \in BuyInId, Buyer(b) # Actor(th), Kept(b)
    PROVE  Kept(b)'
<1>0. /\ Owned /\ Owned' /\ buyIns' = buyIns /\ Buyer(b)' = Buyer(b)
      /\ \A o \in Threads : Actor(o)' = Actor(o)
      /\ b # NoBuyIn /\ b # NoStack
  BY ShapeKeepsOwned, ShapeKeepsThreads, HeldIsBuyIn DEF JInv, Shaped, StoreShape, Buyer
<1>1. /\ reg[th].buyIn # b /\ reg[th].stack # b
      /\ reg'[th].buyIn # b /\ reg'[th].stack # b
  BY <1>0 DEF Owned
<1>2. ASSUME NEW p \in PlayerIds, NEW t \in TableIds
      PROVE  pending'[p][t] = b <=> pending[p][t] = b
  BY <1>0 DEF Shaped, StoreShape, Owned, HasPending
<1>3. Pend(b)' <=> Pend(b)
  BY <1>2 DEF Pend
<1>4. InHand(b)' <=> InHand(b)
  BY <1>1 DEF InHand, Shaped, Shape
<1>5. OffSeat(b)' <=> OffSeat(b)
  BY <1>1 DEF OffSeat, Shaped, Shape
<1>6. ASSUME NEW t \in TableIds, NEW i \in Seat
      PROVE  (Taken(t, i)' /\ OnSeat(t, i)' = b) <=> (Taken(t, i) /\ OnSeat(t, i) = b)
  <2>1. CASE tables'[t].seats[i] = tables[t].seats[i]
    BY <2>1 DEF Taken, IsFree, OnSeat
  <2>2. CASE Taken(t, i) /\ tables[t].seats[i].player = Actor(th)
             /\ tables'[t].seats[i] = FreeSeat
    BY <1>0, <2>2 DEF Owned, Taken, IsFree
  <2>3. CASE ~ Taken(t, i) /\ tables'[t].seats[i] = [player |-> Actor(th), stack |-> reg[th].buyIn]
    BY <1>1, <2>3 DEF OnSeat
  <2> QED BY <2>1, <2>2, <2>3, SeatsAfter DEF Shaped
<1>7. OnSome(b)' <=> OnSome(b)
  BY <1>6 DEF OnSome
<1>8. refunds'[b] = refunds[b] /\ (b \in lost' <=> b \in lost)
  <2>1. \A t \in TableIds : pending[Actor(th)][t] # b
    BY <1>0, ActorIsPlayer DEF IInv, Owned, HasPending
  <2> QED BY <1>1, <2>1 DEF Shaped, StoreShape
<1> QED BY <1>3, <1>4, <1>5, <1>7, <1>8 DEF Kept, Settled

-----------------------------------------------------------------------------
(* The buy-ins of the player a thread works for, when he is alone.         *)

(* They are in no other thread's registers.                                *)
LEMMA OwnPlaces ==
    ASSUME IInv, IInv', JInv, NEW th \in Threads, Shaped(th), Alone(Actor(th)),
           NEW b \in BuyInId, Buyer(b) = Actor(th)
    PROVE  /\ InHand(b) <=> reg[th].buyIn = b
           /\ InHand(b)' <=> reg'[th].buyIn = b
           /\ OffSeat(b) <=> pc[th] \in OffSeatPcs /\ reg[th].stack = b
           /\ OffSeat(b)' <=> pc'[th] \in OffSeatPcs /\ reg'[th].stack = b
           /\ Kept(b) /\ b # NoBuyIn /\ b # NoStack
<1>0. Owned /\ Active(th) /\ b # NoBuyIn /\ b # NoStack
  BY HeldIsBuyIn DEF JInv, Shaped, Shape
<1>1. \A o \in Threads : (Active(o) /\ Actor(o) = Actor(th)) => o = th
  BY <1>0, AloneThread
<1>2. ASSUME NEW o \in Threads, o # th
      PROVE  reg[o].buyIn # b /\ ~ (pc[o] \in OffSeatPcs /\ reg[o].stack = b)
  <2>1. ~ Active(o) => reg[o] = Blank
    BY DEF JInv, ThreadsInv
  <2>2. ~ Active(o) => reg[o].buyIn # b /\ reg[o].stack # b
    BY <1>0, <2>1, BlankIsEmpty
  <2> QED BY <1>0, <1>1, <1>2, <2>2 DEF Owned
<1>3. ASSUME NEW o \in Threads, o # th
      PROVE  reg'[o].buyIn # b /\ ~ (pc'[o] \in OffSeatPcs /\ reg'[o].stack = b)
  BY <1>2, <1>3 DEF Shaped, Shape
<1>4. Kept(b)
  BY DEF JInv
<1> QED BY <1>0, <1>2, <1>3, <1>4 DEF InHand, OffSeat

\* The buy-ins of the player th works for are kept by its step.
OwnKept(th) == \A b \in BuyInId : Buyer(b) = Actor(th) => Kept(b)'

(* A step that moves no chips.                                             *)
LEMMA QuietKeeps ==
    ASSUME IInv, IInv', JInv, NEW th \in Threads, Shaped(th), Alone(Actor(th)),
           UNCHANGED <<tables, pending, ledger>>,
           reg'[th].buyIn = reg[th].buyIn,
           \A b \in BuyInId : (pc'[th] \in OffSeatPcs /\ reg'[th].stack = b)
                                <=> (pc[th] \in OffSeatPcs /\ reg[th].stack = b)
    PROVE  OwnKept(th)
<1> SUFFICES ASSUME NEW b \in BuyInId, Buyer(b) = Actor(th)
             PROVE  Kept(b)'
  BY DEF OwnKept
<1>1. (OnSome(b)' <=> OnSome(b)) /\ (Pend(b)' <=> Pend(b)) /\ (Settled(b)' <=> Settled(b))
  BY DEF OnSome, Taken, IsFree, OnSeat, Pend, Settled, ledger
<1>2. (InHand(b)' <=> InHand(b)) /\ (OffSeat(b)' <=> OffSeat(b))
  BY OwnPlaces
<1> QED BY <1>1, <1>2, OwnPlaces DEF Kept, ledger

(* A Leave takes exactly the buy-in currentPlayerStack found off its seat. *)
LEMMA LeaveKeeps ==
    ASSUME IInv, IInv', JInv, NEW th \in Threads, Shaped(th), Alone(Actor(th)),
           NEW t \in TableIds, IsSeated(tables[t], Actor(th)),
           tables' = [tables EXCEPT ![t] = Leave(tables[t], Actor(th))],
           UNCHANGED <<pending, reg, ledger>>,
           reg[th].stack = StackOf(tables[t], Actor(th)),
           pc[th] \notin OffSeatPcs, pc'[th] \in OffSeatPcs
    PROVE  OwnKept(th)
<1> DEFINE a == Actor(th)
           s == tables[t].playerSeat[a]
<1>0. /\ a \in PlayerIds /\ tables \in [TableIds -> TableRecord]
      /\ tables[t].seats \in [Seat -> Player \cup {FreeSeat}]
      /\ s \in Seat /\ Taken(t, s) /\ OnSeat(t, s) = reg[th].stack
  BY ActorIsPlayer, StackIsOwn DEF JInv, IInv, TypeOK, TableRecord
<1>1. /\ \A u \in TableIds : u # t => tables'[u] = tables[u]
      /\ tables'[t].seats = [tables[t].seats EXCEPT ![s] = FreeSeat]
  BY <1>0 DEF Leave
<1>2. ASSUME NEW u \in TableIds, NEW i \in Seat
      PROVE  /\ (u = t /\ i = s) => ~ Taken(u, i)'
             /\ ~ (u = t /\ i = s) => /\ Taken(u, i)' <=> Taken(u, i)
                                      /\ OnSeat(u, i)' = OnSeat(u, i)
  BY <1>0, <1>1 DEF Taken, IsFree, OnSeat
<1> SUFFICES ASSUME NEW b \in BuyInId, Buyer(b) = Actor(th)
             PROVE  Kept(b)'
  BY DEF OwnKept
<1>3. OnSome(b)' <=> (OnSome(b) /\ b # reg[th].stack)
  BY <1>0, <1>2 DEF OnSome, IInv, Spent, SeatsPaid
<1>4. b = reg[th].stack => OnSome(b) /\ ~ InHand(b)
  BY <1>0, OwnPlaces DEF OnSome, IInv, Spent, HandsDiffer
<1>5. (Pend(b)' <=> Pend(b)) /\ (Settled(b)' <=> Settled(b))
  BY DEF Pend, Settled, ledger
<1>6. (InHand(b)' <=> InHand(b)) /\ (OffSeat(b)' <=> b = reg[th].stack) /\ ~ OffSeat(b)
  BY OwnPlaces
<1> QED BY <1>3, <1>4, <1>5, <1>6, OwnPlaces DEF Kept, ledger

(* A Join puts exactly the buy-in in hand on its seat.                     *)
LEMMA SeatKeeps ==
    ASSUME IInv, IInv', JInv, NEW th \in Threads, Shaped(th), Alone(Actor(th)),
           NEW t \in TableIds, NEW i \in Seat, IsFree(tables[t], i),
           tables' = [tables EXCEPT ![t] = Join(tables[t], Actor(th), reg[th].buyIn, i)],
           UNCHANGED <<pending, ledger>>, reg'[th].buyIn = NoBuyIn,
           pc[th] \notin OffSeatPcs, pc'[th] \notin OffSeatPcs
    PROVE  OwnKept(th)
<1> DEFINE a == Actor(th)
<1>0. /\ a \in PlayerIds /\ tables \in [TableIds -> TableRecord] /\ a # NoPlayer
      /\ tables[t].seats \in [Seat -> Player \cup {FreeSeat}]
  BY ActorIsPlayer, NoPlayerAssumption DEF IInv, TypeOK, TableRecord
<1>1. /\ \A u \in TableIds : u # t => tables'[u] = tables[u]
      /\ tables'[t].seats =
            [tables[t].seats EXCEPT ![i] = [player |-> a, stack |-> reg[th].buyIn]]
  BY <1>0 DEF Join
<1>2. ASSUME NEW u \in TableIds, NEW j \in Seat
      PROVE  /\ (u = t /\ j = i) => /\ ~ Taken(u, j) /\ Taken(u, j)'
                                    /\ OnSeat(u, j)' = reg[th].buyIn
             /\ ~ (u = t /\ j = i) => /\ Taken(u, j)' <=> Taken(u, j)
                                      /\ OnSeat(u, j)' = OnSeat(u, j)
  BY <1>0, <1>1 DEF Taken, IsFree, OnSeat, FreeSeat
<1> SUFFICES ASSUME NEW b \in BuyInId, Buyer(b) = Actor(th)
             PROVE  Kept(b)'
  BY DEF OwnKept
<1>3. OnSome(b)' <=> (OnSome(b) \/ b = reg[th].buyIn)
  BY <1>0, <1>2 DEF OnSome
<1>4. (Pend(b)' <=> Pend(b)) /\ (Settled(b)' <=> Settled(b))
  BY DEF Pend, Settled, ledger
<1>5. ~ InHand(b)' /\ (InHand(b) <=> b = reg[th].buyIn) /\ ~ OffSeat(b) /\ ~ OffSeat(b)'
  BY OwnPlaces
<1> QED BY <1>3, <1>4, <1>5, OwnPlaces DEF Kept, ledger

(* A refund settles exactly the buy-in that was in hand or off its seat.   *)
LEMMA RefundKeeps ==
    ASSUME IInv, IInv', JInv, NEW th \in Threads, Shaped(th), Alone(Actor(th)),
           NEW r \in BuyInId, NEW p, Refund(p, r), UNCHANGED tables,
           pc'[th] \notin OffSeatPcs,
           \/ pc[th] \notin OffSeatPcs /\ reg[th].buyIn = r /\ reg'[th].buyIn = NoBuyIn
           \/ /\ pc[th] \in OffSeatPcs /\ reg[th].stack = r
              /\ reg'[th].buyIn = reg[th].buyIn
    PROVE  OwnKept(th)
<1> SUFFICES ASSUME NEW b \in BuyInId, Buyer(b) = Actor(th)
             PROVE  Kept(b)'
  BY DEF OwnKept
<1>1. (OnSome(b)' <=> OnSome(b)) /\ (Pend(b)' <=> Pend(b))
  BY RefundShape DEF OnSome, Taken, IsFree, OnSeat, Pend
<1>2. /\ b # r => refunds'[b] = refunds[b] /\ (b \in lost' <=> b \in lost)
      /\ b = r => \/ refunds'[b] = refunds[b] + 1 /\ (b \in lost' <=> b \in lost)
                  \/ refunds'[b] = refunds[b] /\ b \in lost'
      /\ refunds[b] \in Nat
  BY RefundShape, HeldIsBuyIn DEF IInv, TypeOK
<1>3. ~ OffSeat(b)' /\ Kept(b) /\ b # NoBuyIn
  BY OwnPlaces
<1>4. CASE b # r
  <2>1. (InHand(b)' <=> InHand(b)) /\ ~ OffSeat(b)
    BY <1>4, OwnPlaces
  <2> QED BY <1>1, <1>2, <1>3, <1>4, <2>1 DEF Kept, Settled
<1>5. CASE b = r /\ pc[th] \in OffSeatPcs /\ reg[th].stack = r
                 /\ reg'[th].buyIn = reg[th].buyIn
  <2>1. (InHand(b)' <=> InHand(b)) /\ OffSeat(b)
    BY <1>5, OwnPlaces
  <2> QED BY <1>1, <1>2, <1>3, <1>5, <2>1 DEF Kept, Settled
<1>6. CASE b = r /\ reg[th].buyIn = r /\ reg'[th].buyIn = NoBuyIn
  <2>1. ~ InHand(b)' /\ InHand(b)
    BY <1>3, <1>6, OwnPlaces
  <2>2. ~ OnSome(b)
    BY <1>3, <1>6 DEF OnSome, IInv, Spent, HandsDiffer
  <2> QED BY <1>1, <1>2, <1>3, <1>6, <2>1, <2>2 DEF Kept, Settled
<1> QED BY <1>4, <1>5, <1>6

(* A Consume takes exactly the pending buy-in into the hand.               *)
LEMMA ConsumeKeeps ==
    ASSUME IInv, IInv', JInv, NEW th \in Threads, Shaped(th), Alone(Actor(th)),
           NEW t \in TableIds, ConsumePendingBuyIn(Actor(th), t),
           UNCHANGED <<tables, ledger>>,
           reg[th].buyIn = NoBuyIn, reg'[th].buyIn = pending[Actor(th)][t],
           pc[th] \notin OffSeatPcs, pc'[th] \notin OffSeatPcs
    PROVE  OwnKept(th)
<1> DEFINE a == Actor(th)
           n == pending[a][t]
<1>0. a \in PlayerIds /\ pending \in [PlayerIds -> [TableIds -> Nat]] /\ HasPending(a, t)
  BY ActorIsPlayer DEF IInv, TypeOK, StoreTypeOK, ConsumePendingBuyIn
<1>1. \A p \in PlayerIds, u \in TableIds :
            pending'[p][u] = IF p = a /\ u = t THEN NoBuyIn ELSE pending[p][u]
  BY <1>0 DEF ConsumePendingBuyIn
<1>2. /\ \A q \in PlayerIds, u \in TableIds : pending[q][u] = n => q = a /\ u = t
      /\ \A u \in TableIds, i \in Seat : Taken(u, i) => OnSeat(u, i) # n
      /\ refunds[n] = 0 /\ n \notin lost
  BY <1>0 DEF IInv, Spent, PendingUnspent
<1> SUFFICES ASSUME NEW b \in BuyInId, Buyer(b) = Actor(th)
             PROVE  Kept(b)'
  BY DEF OwnKept
<1>3. b # NoBuyIn /\ Kept(b)
  BY OwnPlaces
<1>4. b # n => (Pend(b)' <=> Pend(b))
  BY <1>0, <1>1, <1>3 DEF Pend
<1>5. (OnSome(b)' <=> OnSome(b)) /\ (Settled(b)' <=> Settled(b))
  BY DEF OnSome, Taken, IsFree, OnSeat, Settled, ledger
<1>6. (InHand(b)' <=> b = n) /\ ~ InHand(b) /\ ~ OffSeat(b) /\ ~ OffSeat(b)'
  BY <1>3, OwnPlaces
<1>7. b = n => ~ OnSome(b) /\ ~ Settled(b)
  BY <1>2 DEF OnSome, Settled
<1> QED BY <1>3, <1>4, <1>5, <1>6, <1>7 DEF Kept, ledger

(* A consume whose answer is lost loses exactly the pending buy-in.        *)
LEMMA LostConsumeKeeps ==
    ASSUME IInv, IInv', JInv, NEW th \in Threads, Shaped(th), Alone(Actor(th)),
           NEW t \in TableIds, ConsumePendingBuyIn(Actor(th), t),
           UNCHANGED <<tables, refunds>>,
           lost' = lost \cup {pending[Actor(th)][t]},
           reg[th].buyIn = NoBuyIn, reg'[th].buyIn = NoBuyIn,
           pc[th] \notin OffSeatPcs, pc'[th] \notin OffSeatPcs
    PROVE  OwnKept(th)
<1> DEFINE a == Actor(th)
           n == pending[a][t]
<1>0. a \in PlayerIds /\ pending \in [PlayerIds -> [TableIds -> Nat]] /\ HasPending(a, t)
  BY ActorIsPlayer DEF IInv, TypeOK, StoreTypeOK, ConsumePendingBuyIn
<1>1. \A p \in PlayerIds, u \in TableIds :
            pending'[p][u] = IF p = a /\ u = t THEN NoBuyIn ELSE pending[p][u]
  BY <1>0 DEF ConsumePendingBuyIn
<1>2. /\ \A q \in PlayerIds, u \in TableIds : pending[q][u] = n => q = a /\ u = t
      /\ \A u \in TableIds, i \in Seat : Taken(u, i) => OnSeat(u, i) # n
      /\ refunds[n] = 0 /\ n \notin lost
  BY <1>0 DEF IInv, Spent, PendingUnspent
<1> SUFFICES ASSUME NEW b \in BuyInId, Buyer(b) = Actor(th)
             PROVE  Kept(b)'
  BY DEF OwnKept
<1>3. b # NoBuyIn /\ Kept(b)
  BY OwnPlaces
<1>4. b # n => (Pend(b)' <=> Pend(b)) /\ (Settled(b)' <=> Settled(b))
  BY <1>0, <1>1, <1>3 DEF Pend, Settled
<1>5. b = n => Settled(b)' /\ b \in lost' /\ refunds'[b] = 0
  BY <1>2 DEF Settled
<1>6. OnSome(b)' <=> OnSome(b)
  BY DEF OnSome, Taken, IsFree, OnSeat
<1>7. ~ InHand(b)' /\ ~ InHand(b) /\ ~ OffSeat(b) /\ ~ OffSeat(b)'
  BY <1>3, OwnPlaces
<1>8. b = n => ~ OnSome(b)
  BY <1>2 DEF OnSome
<1>9. refunds'[b] = refunds[b] /\ (b # n => (b \in lost' <=> b \in lost))
  OBVIOUS
<1>10. CASE b = n
  BY <1>5, <1>6, <1>7, <1>8, <1>10 DEF Kept
<1>11. CASE b # n
  BY <1>3, <1>4, <1>6, <1>7, <1>9, <1>11 DEF Kept
<1> QED BY <1>10, <1>11

-----------------------------------------------------------------------------
(* Each step of the only thread at work for a player.                      *)

Good(th) ==
    /\ pc'[th] # "done" => SitsRight(th)'
    /\ pc'[th] = "done" => \A t \in TableIds : ~ IsSeated(tables'[t], Actor(th))
    /\ OwnKept(th)

\* What each of these lemmas starts from.
AloneAt(th) ==
    /\ th \in Conns /\ victim[th] = th /\ Actor(th) = Owner[th]
    /\ SitsRight(th)
    /\ reg[th] \in Registers /\ Blank \in Registers
    /\ Blank.buyIn = NoBuyIn /\ Blank.stack = NoStack
    /\ reg[th].buyIn # NoBuyIn => pc[th] \in HandPcs
    /\ pc[th] \in HandPcs => reg[th].buyIn # NoBuyIn
    /\ pc[th] \in RefundPcs => reg[th].stack # NoStack
    /\ client[th] \in [table : TableIds, seated : BOOLEAN]
    /\ pc \in [Threads -> {"new", "idle", "done"}
                            \cup JoinPcs \cup LeavePcs \cup ClosePcs]
    /\ reg \in [Threads -> Registers]
    /\ client \in [Conns -> [table : TableIds, seated : BOOLEAN]]
    /\ tables \in [TableIds -> TableRecord]

LEMMA StartAlone ==
    ASSUME IInv, JInv, NEW th \in Threads, Active(th), Alone(Actor(th))
    PROVE  AloneAt(th)
<1>1. th \in Conns /\ victim[th] = th /\ Actor(th) = Owner[th] /\ SitsRight(th)
  BY AloneThread
<1> QED BY <1>1, BlankIsEmpty
        DEF AloneAt, IInv, TypeOK, HandsFull, JInv, Owned, NoBuyIn, NoStack

(* A join_table or a leave_table is received.                              *)
LEMMA ReceiveIsGood ==
    ASSUME IInv, IInv', JInv, NEW th \in Conns, th \in Threads, Shaped(th),
           Alone(Actor(th)), AloneAt(th),
           NEW t \in TableIds, NEW s \in {AnySeat} \cup Seat,
           ReceiveJoin(th, t, s) \/ ReceiveLeave(th, t)
    PROVE  Good(th)
<1>1. /\ pc[th] = "idle" /\ UNCHANGED <<tables, pending, ledger, client>>
      /\ reg[th].buyIn = NoBuyIn
  BY DEF AloneAt, ReceiveJoin, ReceiveLeave, At, HandPcs, connVars, storeVars
<1>2. /\ pc'[th] \in {"consume", "leave"}
      /\ pc'[th] = "leave" => /\ reg'[th].stack = StackOf(tables[reg'[th].from], Owner[th])
      /\ reg'[th].buyIn = NoBuyIn
  <2>1. CASE ReceiveJoin(th, t, s)
    <3> DEFINE r == [Blank EXCEPT !.table = t, !.seat = s]
    <3>1. r.buyIn = NoBuyIn
      BY DEF AloneAt, Registers
    <3>2. reg'[th] = r /\ pc'[th] = "consume"
      BY <2>1 DEF ReceiveJoin, SetReg, Goto, AloneAt
    <3> HIDE DEF r
    <3> QED BY <3>1, <3>2
  <2>2. CASE ReceiveLeave(th, t)
    <3> DEFINE r == [Blank EXCEPT !.from = t, !.stack = StackOf(tables[t], Owner[th])]
    <3>1. r.buyIn = NoBuyIn /\ r.from = t /\ r.stack = StackOf(tables[t], Owner[th])
      BY DEF AloneAt, Registers
    <3>2. reg'[th] = r /\ pc'[th] = "leave"
      BY <2>2 DEF ReceiveLeave, SetReg, Goto, AloneAt
    <3> HIDE DEF r
    <3> QED BY <3>1, <3>2
  <2> QED BY <2>1, <2>2
<1>3. SitsRight(th)'
  BY <1>1, <1>2 DEF SitsRight, Sits, AloneAt, At, StalePcs
<1>4. OwnKept(th)
  BY <1>1, <1>2, QuietKeeps DEF OffSeatPcs
<1> QED BY <1>2, <1>3, <1>4 DEF Good

(* consumePendingBuyIn.                                                    *)
LEMMA ConsumeIsGood ==
    ASSUME IInv, IInv', JInv, NEW th \in Conns, th \in Threads, Shaped(th),
           Alone(Actor(th)), AloneAt(th), Consume(th)
    PROVE  Good(th)
<1>1. /\ pc[th] = "consume" /\ UNCHANGED <<tables, refunds, client>>
      /\ reg[th].buyIn = NoBuyIn /\ reg[th].table \in TableIds
  BY DEF AloneAt, Consume, At, HandPcs, connVars, Registers
<1>2. CASE Return(th) /\ UNCHANGED <<storeVars, lost>>
  <2>1. pc'[th] = "idle" /\ reg'[th].buyIn = NoBuyIn /\ UNCHANGED pending
    BY <1>2 DEF Return, Goto, AloneAt, storeVars
  <2>2. SitsRight(th)'
    BY <1>1, <2>1 DEF SitsRight, Sits, AloneAt, At, StalePcs
  <2>3. OwnKept(th)
    BY <1>1, <1>2, <2>1, QuietKeeps DEF OffSeatPcs, ledger
  <2> QED BY <2>1, <2>2, <2>3 DEF Good
<1>3. CASE /\ ConsumePendingBuyIn(Owner[th], reg[th].table) /\ UNCHANGED lost
           /\ SetReg(th, [reg[th] EXCEPT !.buyIn = pending[Owner[th]][reg[th].table],
                                         !.from = client[th].table])
           /\ Goto(th, IF client[th].seated THEN "switchRead" ELSE "seat")
  <2> DEFINE r == [reg[th] EXCEPT !.buyIn = pending[Owner[th]][reg[th].table],
                                  !.from = client[th].table]
  <2>1. r.buyIn = pending[Actor(th)][reg[th].table] /\ r.from = client[th].table
    BY DEF AloneAt, Registers
  <2>2. reg'[th] = r /\ pc'[th] = IF client[th].seated THEN "switchRead" ELSE "seat"
    BY <1>3 DEF SetReg, Goto, AloneAt
  <2>3. /\ ConsumePendingBuyIn(Actor(th), reg[th].table)
    BY <1>3 DEF AloneAt
  <2> HIDE DEF r
  <2>4. SitsRight(th)'
    BY <1>1, <2>1, <2>2 DEF SitsRight, Sits, AloneAt, At, StalePcs
  <2>5. OwnKept(th)
    BY <1>1, <1>3, <2>1, <2>2, <2>3, ConsumeKeeps DEF OffSeatPcs, ledger
  <2> QED BY <2>2, <2>4, <2>5 DEF Good
<1>4. CASE /\ ConsumePendingBuyIn(Owner[th], reg[th].table) /\ Return(th)
           /\ lost' = lost \cup {pending[Owner[th]][reg[th].table]}
  <2>1. pc'[th] = "idle" /\ reg'[th].buyIn = NoBuyIn
    BY <1>4 DEF Return, Goto, AloneAt
  <2>2. SitsRight(th)'
    BY <1>1, <2>1 DEF SitsRight, Sits, AloneAt, At, StalePcs
  <2>3. /\ ConsumePendingBuyIn(Actor(th), reg[th].table)
        /\ lost' = lost \cup {pending[Actor(th)][reg[th].table]}
    BY <1>4 DEF AloneAt
  <2>4. OwnKept(th)
    BY <1>1, <2>1, <2>3, LostConsumeKeeps DEF OffSeatPcs
  <2> QED BY <2>1, <2>2, <2>4 DEF Good
<1> QED BY <1>2, <1>3, <1>4 DEF Consume

(* A read of a seat, or of the wsClient, and what only changes the place   *)
(* the thread is at.                                                       *)
LEMMA ReadIsGood ==
    ASSUME IInv, IInv', JInv, NEW th \in Conns, th \in Threads, Shaped(th),
           Alone(Actor(th)), AloneAt(th),
           \/ ReadError(th) \/ SwitchRead(th) \/ Close(th) \/ CloseTable(th)
           \/ CloseRead(th)
    PROVE  Good(th)
<1>1. UNCHANGED <<tables, pending, ledger, client>>
  BY DEF ReadError, SwitchRead, Close, CloseTable, CloseRead, connVars, storeVars
<1>2. CASE ReadError(th) \/ Close(th)
  <2>1. /\ reg' = reg /\ pc[th] \in {"idle", "close"}
        /\ pc'[th] \in {"close", "closeTable", "closeEnd"}
        /\ pc'[th] = "closeTable" => client[th].seated
        /\ pc'[th] = "closeEnd" => ~ client[th].seated
    BY <1>2 DEF ReadError, Close, At, Goto, AloneAt
  <2>2. SitsRight(th)'
    BY <1>1, <2>1 DEF SitsRight, Sits, AloneAt, At, StalePcs
  <2>3. OwnKept(th)
    BY <1>1, <2>1, QuietKeeps DEF OffSeatPcs
  <2> QED BY <2>1, <2>2, <2>3 DEF Good
<1>3. CASE SwitchRead(th)
  <2> DEFINE r == [reg[th] EXCEPT !.stack = StackOf(tables[reg[th].from], Owner[th])]
  <2>1. /\ r.buyIn = reg[th].buyIn /\ r.from = reg[th].from
        /\ r.stack = StackOf(tables[r.from], Owner[th])
    BY DEF AloneAt, Registers
  <2>2. pc[th] = "switchRead" /\ pc'[th] = "switchLeave" /\ reg'[th] = r
    BY <1>3 DEF SwitchRead, SetReg, Goto, At, AloneAt
  <2> HIDE DEF r
  <2>3. SitsRight(th)'
    BY <1>1, <2>1, <2>2 DEF SitsRight, Sits, AloneAt, At, StalePcs
  <2>4. OwnKept(th)
    BY <1>1, <2>1, <2>2, QuietKeeps DEF OffSeatPcs
  <2> QED BY <2>2, <2>3, <2>4 DEF Good
<1>4. CASE CloseTable(th)
  <2> DEFINE r == [Blank EXCEPT !.from = client[victim[th]].table]
  <2>1. r.buyIn = reg[th].buyIn /\ r.from = client[th].table
    BY <1>4 DEF AloneAt, Registers, CloseTable, At, HandPcs
  <2>2. pc[th] = "closeTable" /\ pc'[th] = "closeRead" /\ reg'[th] = r
    BY <1>4 DEF CloseTable, SetReg, Goto, At, AloneAt
  <2> HIDE DEF r
  <2>3. SitsRight(th)'
    BY <1>1, <2>1, <2>2 DEF SitsRight, Sits, AloneAt, At, StalePcs
  <2>4. OwnKept(th)
    BY <1>1, <2>1, <2>2, QuietKeeps DEF OffSeatPcs
  <2> QED BY <2>2, <2>3, <2>4 DEF Good
<1>5. CASE CloseRead(th)
  <2> DEFINE r == [reg[th] EXCEPT !.stack = StackOf(tables[reg[th].from], Actor(th))]
  <2>1. /\ r.buyIn = reg[th].buyIn /\ r.from = reg[th].from
        /\ r.stack = StackOf(tables[r.from], Owner[th])
    BY DEF AloneAt, Registers
  <2>2. pc[th] = "closeRead" /\ pc'[th] = "closeLeave" /\ reg'[th] = r
    BY <1>5 DEF CloseRead, SetReg, Goto, At, AloneAt
  <2> HIDE DEF r
  <2>3. SitsRight(th)'
    BY <1>1, <2>1, <2>2 DEF SitsRight, Sits, AloneAt, At, StalePcs
  <2>4. OwnKept(th)
    BY <1>1, <2>1, <2>2, QuietKeeps DEF OffSeatPcs
  <2> QED BY <2>2, <2>3, <2>4 DEF Good
<1> QED BY <1>2, <1>3, <1>4, <1>5

(* SetTableState.                                                          *)
LEMMA MarkIsGood ==
    ASSUME IInv, IInv', JInv, NEW th \in Conns, th \in Threads, Shaped(th),
           Alone(Actor(th)), AloneAt(th),
           SeatMark(th) \/ SwitchMark(th) \/ LeaveMark(th)
    PROVE  Good(th)
<1>1. UNCHANGED <<tables, pending, ledger, reg>>
  BY DEF SeatMark, SwitchMark, LeaveMark, storeVars
<1>2. NoStack \notin BuyInId
  BY HeldIsBuyIn
<1>3. CASE SeatMark(th)
  <2>1. /\ pc[th] = "seatMark" /\ pc'[th] = "seatTell"
        /\ client'[th].table = reg[th].table /\ client'[th].seated
    BY <1>3 DEF SeatMark, SetTableState, Goto, At, AloneAt
  <2>2. SitsRight(th)'
    BY <1>1, <2>1 DEF SitsRight, Sits, AloneAt, At, StalePcs
  <2>3. OwnKept(th)
    BY <1>1, <2>1, QuietKeeps DEF OffSeatPcs
  <2> QED BY <2>1, <2>2, <2>3 DEF Good
<1>4. CASE SwitchMark(th)
  <2>1. /\ pc[th] = "switchMark" /\ ~ client'[th].seated
        /\ pc'[th] = IF reg[th].stack = NoStack THEN "switchTell" ELSE "switchRefund"
    BY <1>4 DEF SwitchMark, SetTableState, Goto, At, AloneAt, SitsRight
  <2>2. SitsRight(th)'
    BY <1>1, <2>1 DEF SitsRight, Sits, AloneAt, At, StalePcs
  <2>3. OwnKept(th)
    BY <1>1, <1>2, <2>1, QuietKeeps DEF OffSeatPcs
  <2> QED BY <2>1, <2>2, <2>3 DEF Good
<1>5. CASE LeaveMark(th)
  <2>1. pc[th] = "leaveMark" /\ pc'[th] = "leaveTell" /\ ~ client'[th].seated
    BY <1>5 DEF LeaveMark, SetTableState, Goto, At, AloneAt
  <2>2. SitsRight(th)'
    BY <1>1, <2>1 DEF SitsRight, Sits, AloneAt, At, StalePcs
  <2>3. OwnKept(th)
    BY <1>1, <2>1, QuietKeeps DEF OffSeatPcs
  <2> QED BY <2>1, <2>2, <2>3 DEF Good
<1> QED BY <1>3, <1>4, <1>5

(* After a Leave the player sits at that table no more.                    *)
LEMMA LeaveUnseats ==
    ASSUME IInv, NEW p \in PlayerIds, NEW t \in TableIds,
           tables' = [tables EXCEPT ![t] = Leave(tables[t], p)]
    PROVE  /\ ~ IsSeated(tables'[t], p)
           /\ \A u \in TableIds : u # t => tables'[u] = tables[u]
<1>1. tables \in [TableIds -> TableRecord] /\ tables[t] \in TableRecord
  BY DEF IInv, TypeOK
<1> QED BY <1>1 DEF Leave, IsSeated, TableRecord

(* tables.Leave, in a join of another table, in a leave_table and in       *)
(* closeClient.                                                            *)
LEMMA LeaveIsGood ==
    ASSUME IInv, IInv', JInv, NEW th \in Conns, th \in Threads, Shaped(th),
           Alone(Actor(th)), AloneAt(th),
           SwitchLeave(th) \/ LeaveTable(th) \/ CloseLeave(th)
    PROVE  Good(th)
<1> DEFINE from == reg[th].from
           p == Owner[th]
<1>0. /\ from \in TableIds /\ p \in PlayerIds /\ p = Actor(th)
      /\ UNCHANGED <<client, pending, ledger>>
      /\ pc[th] \in {"switchLeave", "leave", "closeLeave"}
      /\ reg[th].stack = StackOf(tables[from], p)
      /\ pc[th] # "leave" => IsSeated(tables[from], p)
  <2>1. /\ UNCHANGED <<client, pending, ledger>>
        /\ pc[th] \in {"switchLeave", "leave", "closeLeave"}
    BY DEF SwitchLeave, LeaveTable, CloseLeave, connVars, storeVars, At
  <2>2. from \in TableIds /\ p \in PlayerIds /\ p = Actor(th)
    BY ActorIsPlayer DEF AloneAt, Registers, IInv
  <2> QED BY <2>1, <2>2 DEF AloneAt, SitsRight, Sits, At, StalePcs
<1>1. CASE IsSeated(tables[from], p)
  <2>1. /\ tables' = [tables EXCEPT ![from] = Leave(tables[from], p)]
        /\ reg' = reg
        /\ pc' = [pc EXCEPT ![th] =
                    CASE pc[th] = "switchLeave" -> "switchMark"
                      [] pc[th] = "leave" ->
                            (IF reg[th].stack = NoStack THEN "leaveMark" ELSE "leaveRefund")
                      [] pc[th] = "closeLeave" ->
                            (IF reg[th].stack = NoStack THEN "closeTell" ELSE "closeRefund")]
    BY <1>0, <1>1 DEF SwitchLeave, LeaveTable, CloseLeave, At, Goto
  <2>2. reg[th].stack # NoStack
    BY <1>0, <1>1, StackIsOwn, HeldIsBuyIn DEF JInv
  <2>3. pc'[th] \in {"switchMark", "leaveRefund", "closeRefund"}
    BY <1>0, <2>1, <2>2 DEF AloneAt
  <2>4. /\ ~ IsSeated(tables'[from], p)
        /\ \A u \in TableIds : u # from => tables'[u] = tables[u]
    BY <1>0, <2>1, LeaveUnseats
  <2>5. Sits(th) = {from}
    BY <1>0, <1>1 DEF AloneAt, SitsRight, Sits, At, StalePcs
  <2>6. \A t \in TableIds : ~ IsSeated(tables'[t], p)
    BY <2>4, <2>5 DEF AloneAt, SitsRight
  <2>7. SitsRight(th)'
    BY <2>3, <2>6 DEF SitsRight, Sits, At, StalePcs
  <2>8. OwnKept(th)
    BY <1>0, <1>1, <2>1, <2>3, LeaveKeeps DEF OffSeatPcs
  <2> QED BY <2>3, <2>7, <2>8 DEF Good
<1>2. CASE ~ IsSeated(tables[from], p)
  <2>1. LeaveTable(th) /\ pc[th] = "leave" /\ UNCHANGED tables /\ Return(th)
    BY <1>0, <1>2 DEF SwitchLeave, LeaveTable, CloseLeave, At
  <2>2. pc'[th] = "idle" /\ reg'[th].buyIn = reg[th].buyIn
    BY <2>1 DEF Return, Goto, AloneAt, HandPcs
  <2>3. SitsRight(th)'
    BY <1>0, <2>1, <2>2 DEF SitsRight, Sits, AloneAt, At, StalePcs
  <2>4. OwnKept(th)
    BY <1>0, <2>1, <2>2, QuietKeeps DEF OffSeatPcs
  <2> QED BY <2>2, <2>3, <2>4 DEF Good
<1> QED BY <1>1, <1>2

(* tables.Join.                                                            *)
LEMMA TakeSeatIsGood ==
    ASSUME IInv, IInv', JInv, NEW th \in Conns, th \in Threads, Shaped(th),
           Alone(Actor(th)), AloneAt(th), TakeSeat(th)
    PROVE  Good(th)
<1> DEFINE t == reg[th].table
           p == Owner[th]
<1>0. /\ t \in TableIds /\ p \in PlayerIds /\ p = Actor(th) /\ tables[t] \in TableRecord
      /\ reg[th].buyIn \in Nat
      /\ UNCHANGED <<client, pending, ledger>> /\ pc[th] = "seat"
  BY ActorIsPlayer DEF AloneAt, Registers, IInv, TakeSeat, connVars, storeVars, At
<1>1. ~ client[th].seated /\ \A u \in TableIds : ~ IsSeated(tables[u], p)
  BY <1>0 DEF AloneAt, SitsRight, Sits, At, StalePcs
<1>2. CASE /\ Goto(th, "seatRefund") /\ UNCHANGED <<tables, reg>>
  <2>1. pc'[th] = "seatRefund"
    BY <1>2 DEF Goto, AloneAt
  <2>2. SitsRight(th)'
    BY <1>0, <1>1, <1>2, <2>1 DEF SitsRight, Sits, At, StalePcs
  <2>3. OwnKept(th)
    BY <1>0, <1>2, <2>1, QuietKeeps DEF OffSeatPcs
  <2> QED BY <2>1, <2>2, <2>3 DEF Good
<1>3. ASSUME NEW i \in AllocateSeat(tables[t], reg[th].seat),
             tables' = [tables EXCEPT ![t] = Join(tables[t], p, reg[th].buyIn, i)],
             Goto(th, "seatMark"), SetReg(th, [reg[th] EXCEPT !.buyIn = NoBuyIn])
      PROVE  Good(th)
  <2> DEFINE r == [reg[th] EXCEPT !.buyIn = NoBuyIn]
  <2>1. r.buyIn = NoBuyIn /\ r.table = t
    BY DEF AloneAt, Registers
  <2>2. reg'[th] = r /\ pc'[th] = "seatMark"
    BY <1>3 DEF SetReg, Goto, AloneAt
  <2> HIDE DEF r
  <2>3. i \in Seat /\ IsFree(tables[t], i)
    BY <1>3, AllocatedSeatIsFree
  <2>4. /\ IsSeated(tables'[t], p)
        /\ \A u \in TableIds : u # t => tables'[u] = tables[u]
    <3>1. tables'[t] = Join(tables[t], p, reg[th].buyIn, i)
      BY <1>0, <1>3 DEF AloneAt
    <3>2. IsSeated(tables'[t], p)
      BY <1>0, <2>3, <3>1, JoinSeats
    <3> QED BY <1>3, <3>2 DEF AloneAt
  <2>5. SitsRight(th)'
    BY <1>1, <2>1, <2>2, <2>4 DEF SitsRight, Sits, At, StalePcs
  <2>6. OwnKept(th)
    BY <1>0, <1>3, <2>1, <2>2, <2>3, SeatKeeps DEF OffSeatPcs
  <2> QED BY <2>2, <2>5, <2>6 DEF Good
<1> QED BY <1>0, <1>1, <1>2, <1>3 DEF TakeSeat

(* refundStackToWallet, in each of the four places that call it.           *)
LEMMA RefundIsGood ==
    ASSUME IInv, IInv', JInv, NEW th \in Conns, th \in Threads, Shaped(th),
           Alone(Actor(th)), AloneAt(th),
           SeatRefund(th) \/ SwitchRefund(th) \/ LeaveRefund(th) \/ CloseRefund(th)
    PROVE  Good(th)
<1>1. UNCHANGED <<tables, client>>
  BY DEF SeatRefund, SwitchRefund, LeaveRefund, CloseRefund, connVars
<1>2. CASE SeatRefund(th)
  <2>1. /\ pc[th] = "seatRefund" /\ pc'[th] = "idle" /\ reg'[th].buyIn = NoBuyIn
        /\ Refund(Owner[th], reg[th].buyIn)
    BY <1>2 DEF SeatRefund, Return, Goto, At, AloneAt
  <2>2. reg[th].buyIn \in BuyInId
    BY <2>1, HeldIsBuyIn DEF AloneAt, HandPcs
  <2>3. SitsRight(th)'
    BY <1>1, <2>1 DEF SitsRight, Sits, AloneAt, At, StalePcs
  <2>4. OwnKept(th)
    BY <1>1, <2>1, <2>2, RefundKeeps DEF OffSeatPcs
  <2> QED BY <2>1, <2>3, <2>4 DEF Good
<1>3. CASE SwitchRefund(th) \/ LeaveRefund(th) \/ CloseRefund(th)
  <2>1. /\ pc[th] \in RefundPcs /\ reg' = reg
        /\ pc[th] = "switchRefund" => pc'[th] = "switchTell"
        /\ pc[th] = "leaveRefund" => pc'[th] = "leaveMark"
        /\ pc[th] = "closeRefund" => pc'[th] = "closeTell"
        /\ Refund(Owner[th], reg[th].stack)
    BY <1>3 DEF SwitchRefund, LeaveRefund, CloseRefund, Goto, At, AloneAt, RefundPcs
  <2>2. reg[th].stack \in BuyInId
    BY <2>1, HeldIsBuyIn DEF AloneAt
  <2>3. SitsRight(th)'
    BY <1>1, <2>1 DEF SitsRight, Sits, AloneAt, At, StalePcs, RefundPcs
  <2>4. OwnKept(th)
    BY <1>1, <2>1, <2>2, RefundKeeps DEF OffSeatPcs, RefundPcs
  <2> QED BY <2>1, <2>3, <2>4 DEF Good, RefundPcs
<1> QED BY <1>2, <1>3

(* broadcastSnapshot, and the end of closeClient.                          *)
LEMMA EndIsGood ==
    ASSUME IInv, IInv', JInv, NEW th \in Conns, th \in Threads, Shaped(th),
           Alone(Actor(th)), AloneAt(th), Tell(th) \/ CloseEnd(th)
    PROVE  Good(th)
<1>1. UNCHANGED <<tables, client, pending, ledger>>
  BY DEF Tell, CloseEnd, storeVars
<1>2. CASE CloseEnd(th)
  <2>1. pc[th] = "closeEnd" /\ pc'[th] = "done" /\ reg'[th].buyIn = reg[th].buyIn
    BY <1>2 DEF CloseEnd, SetReg, Goto, At, AloneAt, HandPcs
  <2>2. \A t \in TableIds : ~ IsSeated(tables'[t], Actor(th))
    BY <1>1, <2>1 DEF AloneAt, SitsRight, Sits, StalePcs
  <2>3. OwnKept(th)
    BY <1>1, <2>1, QuietKeeps DEF OffSeatPcs
  <2> QED BY <2>1, <2>2, <2>3 DEF Good
<1>3. CASE Tell(th)
  <2>1. /\ pc[th] \in {"switchTell", "seatTell", "leaveTell", "closeTell"}
        /\ pc'[th] = CASE pc[th] = "switchTell" -> "seat"
                       [] pc[th] = "closeTell" -> "closeEnd"
                       [] OTHER -> "idle"
    BY <1>3 DEF Tell, Return, Goto, At, AloneAt
  <2>2. reg'[th].buyIn = reg[th].buyIn
    BY <1>3 DEF Tell, Return, At, AloneAt, HandPcs
  <2>3. SitsRight(th)'
    BY <1>1, <2>1 DEF SitsRight, Sits, AloneAt, At, StalePcs
  <2>4. OwnKept(th)
    BY <1>1, <2>1, <2>2, QuietKeeps DEF OffSeatPcs
  <2> QED BY <2>1, <2>3, <2>4 DEF Good
<1> QED BY <1>2, <1>3

(* Together: a step of a thread keeps the invariant.                       *)
LEMMA WorkKeepsJInv ==
    ASSUME IInv, IInv', JInv, NEW th \in Threads, Works(th)
    PROVE  JInv'
<1>1. /\ Shaped(th) /\ Active(th) /\ shared' = shared /\ buyIns' = buyIns
      /\ \A b : Buyer(b)' = Buyer(b)
      /\ BuyInId' = BuyInId
  BY WorkIsShaped DEF Shaped, Shape, StoreShape, Buyer, BuyInId
<1>2. ASSUME Alone(Actor(th))
      PROVE  Good(th)
  <2>1. AloneAt(th)
    BY <1>1, <1>2, StartAlone
  <2>2. th \in Conns
    BY <2>1 DEF AloneAt
  <2> QED BY <1>1, <1>2, <2>1, <2>2, ReceiveIsGood, ConsumeIsGood, ReadIsGood,
             MarkIsGood, LeaveIsGood, TakeSeatIsGood, RefundIsGood, EndIsGood
          DEF Works, Step, ConnStep, CloseStep
<1>3. ASSUME NEW p \in PlayerIds, Alone(p)'
      PROVE  AtConn(p)'
  <2>1. Alone(p) /\ AtConn(p)
    BY <1>1, <1>3 DEF Alone, JInv
  <2>2. CASE p = Actor(th)
    <3>1. Good(th) /\ Alone(Actor(th))
      BY <1>2, <2>1, <2>2
    <3>2. AtConn(Actor(th))'
      BY <1>1, <3>1, OwnAtConn DEF Good
    <3>3. Actor(th)' = p
      BY <1>1, <2>2, ShapeKeepsThreads DEF Shaped
    <3> QED BY <3>2, <3>3 DEF AtConn
  <2>3. CASE p # Actor(th)
    BY <1>1, <2>1, <2>3, OthersAtConn
  <2> QED BY <2>2, <2>3
<1>4. ASSUME NEW b \in BuyInId, Alone(Buyer(b))'
      PROVE  Kept(b)'
  <2>1. Alone(Buyer(b)) /\ Kept(b)
    BY <1>1, <1>4 DEF Alone, JInv
  <2>2. CASE Buyer(b) = Actor(th)
    BY <1>2, <2>1, <2>2 DEF Good, OwnKept
  <2>3. CASE Buyer(b) # Actor(th)
    BY <1>1, <2>1, <2>3, OthersKept
  <2> QED BY <2>2, <2>3
<1>5. ThreadsInv' /\ Owned'
  BY <1>1, ShapeKeepsThreads, ShapeKeepsOwned DEF Shaped
<1> QED BY <1>1, <1>3, <1>4, <1>5 DEF JInv

-----------------------------------------------------------------------------
(* The other steps.                                                        *)

(* Nobody works and nothing moves.                                         *)
LEMMA StillKeepsJInv ==
    ASSUME IInv, JInv,
           UNCHANGED <<pending, buyIns, tables, client, pc, reg, victim, todo,
                       refunds, lost, shared>>,
           hub' \subseteq hub
    PROVE  JInv'
<1>1. \A o \in Threads : (Actor(o)' = Actor(o)) /\ (Active(o)' <=> Active(o))
  BY DEF Actor, Active
<1>2. ThreadsInv'
  BY <1>1 DEF JInv, ThreadsInv, Active, Actor, At
<1>3. Owned'
  BY <1>1 DEF JInv, Owned, HasPending, Buyer, Taken, IsFree, OnSeat
<1>4. ASSUME NEW p \in PlayerIds, Alone(p)'
      PROVE  AtConn(p)'
  BY <1>1, <1>4 DEF JInv, Alone, AtConn, Active, SitsRight, Sits, At, Busy
<1>5. ASSUME NEW b \in BuyInId, Alone(Buyer(b))'
      PROVE  Kept(b)'
  <2>1. Kept(b)
    BY <1>5 DEF JInv, Alone, Buyer
  <2> QED BY <2>1 DEF Kept, Pend, OnSome, InHand, OffSeat, Settled, Taken, IsFree, OnSeat
<1> QED BY <1>2, <1>3, <1>4, <1>5 DEF JInv, BuyInId

(* handleTableBuyIn: a new buy-in is pending, and nowhere else.            *)
LEMMA BuyInKeepsJInv ==
    ASSUME IInv, JInv, NEW p \in PlayerIds, NEW t \in TableIds,
           NEW amount \in Amounts, TableBuyIn(p, t, amount)
    PROVE  JInv'
<1> DEFINE bought == [player |-> p, table |-> t, amount |-> amount]
<1>0. PICK n : n = Len(buyIns) + 1
  OBVIOUS
<1>1. /\ buyIns' = Append(buyIns, bought) /\ Len(buyIns) < MaxBuyIns
      /\ pending' = [pending EXCEPT ![p][t] = n] /\ pending[p][t] = NoBuyIn
      /\ UNCHANGED <<tables, client, open, hub, pc, reg, victim, todo,
                     refunds, lost, shared>>
  BY <1>0 DEF TableBuyIn, CreateBuyIn, connVars, threadVars, ledger
<1>2. /\ buyIns \in Seq(BuyIn) /\ bought \in BuyIn
      /\ pending \in [PlayerIds -> [TableIds -> Nat]] /\ Len(buyIns) \in Nat
  BY DEF IInv, TypeOK, StoreTypeOK, BuyIn
<1>3. /\ BuyInId' = BuyInId \cup {n} /\ n \notin BuyInId /\ n # NoBuyIn
      /\ n \notin Known /\ n \in 1 .. MaxBuyIns
      /\ \A b \in BuyInId : Buyer(b)' = Buyer(b)
      /\ Buyer(n)' = p
  <2>1. /\ Len(buyIns') = n /\ buyIns'[n] = bought
        /\ \A b \in 1 .. Len(buyIns) : buyIns'[b] = buyIns[b]
    BY <1>0, <1>1, <1>2
  <2>2. /\ BuyInId' = BuyInId \cup {n} /\ n \notin BuyInId /\ n # NoBuyIn
        /\ n \notin Known /\ n \in 1 .. MaxBuyIns
    BY <1>0, <1>1, <1>2, <2>1, MaxBuyInsAssumption DEF BuyInId, NoBuyIn, Known
  <2>3. /\ \A b \in BuyInId : Buyer(b)' = Buyer(b)
        /\ Buyer(n)' = p
    BY <2>1 DEF BuyInId, Buyer
  <2> QED BY <2>2, <2>3
<1>4. \A q \in PlayerIds, u \in TableIds :
            pending'[q][u] = IF q = p /\ u = t THEN n ELSE pending[q][u]
  BY <1>1, <1>2
<1>5. \A o \in Threads : (Actor(o)' = Actor(o)) /\ (Active(o)' <=> Active(o))
  BY <1>1 DEF Actor, Active
<1>6. ThreadsInv'
  BY <1>1, <1>5 DEF JInv, ThreadsInv, Active, Actor, At
<1>7. Owned'
  <2>1. \A b \in BuyInId : buyIns'[b].player = Buyer(b)
    BY <1>3 DEF Buyer
  <2>2. ASSUME NEW q \in PlayerIds, NEW u \in TableIds, pending'[q][u] # NoBuyIn
        PROVE  buyIns'[pending'[q][u]].player = q
    <3>1. CASE q = p /\ u = t
      BY <1>3, <1>4, <3>1 DEF Buyer
    <3>2. CASE ~ (q = p /\ u = t)
      BY <1>4, <2>1, <2>2, <3>2, HeldIsBuyIn DEF JInv, Owned, HasPending
    <3> QED BY <3>1, <3>2
  <2>3. ASSUME NEW u \in TableIds, NEW i \in Seat, Taken(u, i)
        PROVE  buyIns'[OnSeat(u, i)].player = tables[u].seats[i].player
    BY <2>1, <2>3, HeldIsBuyIn DEF JInv, Owned
  <2>4. \A o \in Threads :
            /\ reg[o].buyIn # NoBuyIn => /\ o \in Conns /\ pc[o] \in HandPcs
                                         /\ buyIns'[reg[o].buyIn].player = Actor(o)
            /\ reg[o].stack # NoStack => buyIns'[reg[o].stack].player = Actor(o)
    BY <2>1, HeldIsBuyIn DEF JInv, Owned
  <2> QED BY <1>1, <1>5, <2>2, <2>3, <2>4
          DEF Owned, HasPending, Buyer, Taken, IsFree, OnSeat
<1>8. ASSUME NEW q \in PlayerIds, Alone(q)'
      PROVE  AtConn(q)'
  BY <1>1, <1>5, <1>8 DEF JInv, Alone, AtConn, Active, SitsRight, Sits, At, Busy
<1>9. ASSUME NEW b \in BuyInId, Alone(Buyer(b))'
      PROVE  Kept(b)'
  <2>1. Alone(Buyer(b)) /\ Kept(b) /\ b # n /\ b # NoBuyIn
    BY <1>1, <1>3, <1>9, HeldIsBuyIn DEF JInv, Alone
  <2>2. \A q \in PlayerIds, u \in TableIds : pending'[q][u] = b <=> pending[q][u] = b
    BY <1>1, <1>4, <2>1
  <2>3. Pend(b)' <=> Pend(b)
    BY <2>2 DEF Pend
  <2> QED BY <1>1, <2>1, <2>3
          DEF Kept, OnSome, InHand, OffSeat, Settled, Taken, IsFree, OnSeat
<1>10. Kept(n)'
  <2>1. Pend(n)'
    BY <1>4 DEF Pend
  <2>2. \A o \in Threads : reg[o].stack # n
    BY <1>3 DEF IInv, IdsKnown
  <2>3. ~ OffSeat(n)'
    BY <1>1, <2>2 DEF OffSeat
  <2>4. refunds'[n] = 0 /\ n \notin lost'
    BY <1>1, <1>3 DEF IInv, IdsKnown
  <2> QED BY <2>1, <2>3, <2>4 DEF Kept, Settled
<1> QED BY <1>3, <1>6, <1>7, <1>8, <1>9, <1>10 DEF JInv

(* revokeSessionFromCookie: the player whose connections it lists is not   *)
(* alone any more.                                                         *)
LEMMA RevokeKeepsJInv ==
    ASSUME IInv, JInv, NEW r \in Revokers, NEW p \in PlayerIds, Revoke(r, p)
    PROVE  JInv'
<1>1. PICK c \in hub : /\ Owner[c] = p /\ victim' = [victim EXCEPT ![r] = c]
  BY DEF Revoke
<1>2. /\ pc[r] = "new" /\ pc' = [pc EXCEPT ![r] = "close"]
      /\ todo' = [todo EXCEPT ![r] = {d \in hub : Owner[d] = p}]
      /\ shared' = IF Busy(p) THEN shared \cup {p} ELSE shared
      /\ UNCHANGED <<pending, buyIns, tables, client, open, hub, reg, refunds, lost>>
  BY DEF Revoke, At, Goto, storeVars, connVars, ledger
<1>3. /\ r \in Threads /\ r \notin Conns /\ c \in Conns /\ c \in Threads
      /\ pc \in [Threads -> {"new", "idle", "done"}
                               \cup JoinPcs \cup LeavePcs \cup ClosePcs]
      /\ victim \in [Threads -> Conns] /\ todo \in [Revokers -> SUBSET Conns]
  BY <1>1, ThreadsAssumption DEF Threads, IInv, TypeOK
<1>4. Actor(c) = p /\ Active(c)
  BY <1>1, <1>3, ConnActor DEF JInv, ThreadsInv
<1>5. Busy(p) /\ shared' = shared \cup {p}
  BY <1>2, <1>3, <1>4 DEF Busy
<1>6. /\ \A o \in Threads : o # r => /\ pc'[o] = pc[o] /\ victim'[o] = victim[o]
                                     /\ (Actor(o)' = Actor(o))
                                     /\ (Active(o)' <=> Active(o))
      /\ pc'[r] = "close" /\ Actor(r)' = p /\ ~ Active(r)
      /\ \A d \in Conns : d # r /\ d \in Threads
  BY <1>1, <1>2, <1>3 DEF Actor, Active, Threads
<1>7. ThreadsInv'
  <2>1. ASSUME NEW s \in Revokers
        PROVE  /\ pc'[s] \in {"new", "done"} \cup ClosePcs
               /\ \A d \in todo'[s] : Owner[d] = Actor(s)'
               /\ Active(s)' => Actor(s)' \in shared'
    <3>1. CASE s = r
      BY <1>2, <1>3, <1>5, <1>6, <3>1 DEF ClosePcs
    <3>2. CASE s # r
      BY <1>2, <1>3, <1>5, <1>6, <3>2 DEF JInv, ThreadsInv, Threads
    <3> QED BY <3>1, <3>2
  <2>2. \A d \in Conns : victim'[d] = d
    BY <1>6 DEF JInv, ThreadsInv
  <2>3. \A d \in hub' : Active(d)'
    BY <1>2, <1>6 DEF JInv, ThreadsInv, IInv, TypeOK
  <2>4. \A d, e \in Conns :
            (Active(d)' /\ Active(e)' /\ Owner[d] = Owner[e] /\ d # e)
                => Owner[d] \in shared'
    BY <1>5, <1>6 DEF JInv, ThreadsInv
  <2>5. \A o \in Threads : ~ Active(o)' => reg'[o] = Blank
    BY <1>2, <1>6 DEF JInv, ThreadsInv
  <2>6. \A d \in Conns : pc'[d] = "new" => ~ client'[d].seated
    BY <1>2, <1>6 DEF JInv, ThreadsInv, At
  <2> QED BY <2>1, <2>2, <2>3, <2>4, <2>5, <2>6 DEF ThreadsInv, At
<1>8. Owned'
  <2>1. reg[r].buyIn = NoBuyIn /\ reg[r].stack = NoStack
    BY <1>3, <1>6, BlankIsEmpty DEF JInv, ThreadsInv
  <2>2. \A o \in Threads :
            /\ reg'[o].buyIn # NoBuyIn => /\ o \in Conns /\ pc'[o] \in HandPcs
                                          /\ Buyer(reg'[o].buyIn) = Actor(o)'
            /\ reg'[o].stack # NoStack => Buyer(reg'[o].stack) = Actor(o)'
    BY <1>2, <1>6, <2>1 DEF JInv, Owned
  <2> QED BY <1>2, <2>2 DEF JInv, Owned, HasPending, Buyer, Taken, IsFree, OnSeat
<1>9. ASSUME NEW q \in PlayerIds, Alone(q)'
      PROVE  AtConn(q)'
  <2>1. q # p /\ AtConn(q)
    BY <1>5, <1>9 DEF Alone, JInv
  <2>2. Busy(q)' <=> Busy(q)
    <3>1. \A o \in Threads : (Active(o)' /\ Actor(o)' = q) <=> (Active(o) /\ Actor(o) = q)
      BY <1>6, <2>1
    <3> QED BY <3>1 DEF Busy
  <2>3. ASSUME NEW d \in Conns, Owner[d] = q, Active(d)'
        PROVE  SitsRight(d)'
    <3>1. SitsRight(d) /\ pc'[d] = pc[d]
      BY <1>6, <2>1, <2>3 DEF AtConn
    <3> QED BY <1>2, <3>1 DEF SitsRight, Sits, At
  <2> QED BY <1>2, <2>1, <2>2, <2>3 DEF AtConn
<1>10. ASSUME NEW b \in BuyInId, Alone(Buyer(b))'
       PROVE  Kept(b)'
  <2>1. Kept(b) /\ b # NoStack
    BY <1>2, <1>5, <1>10, HeldIsBuyIn DEF JInv, Alone, Buyer
  <2>2. reg[r].stack = NoStack
    BY <1>3, <1>6, BlankIsEmpty DEF JInv, ThreadsInv
  <2>3. OffSeat(b)' <=> OffSeat(b)
    BY <1>2, <1>6, <2>1, <2>2 DEF OffSeat
  <2> QED BY <1>2, <2>1, <2>3
          DEF Kept, Pend, OnSome, InHand, Settled, Taken, IsFree, OnSeat
<1>11. BuyInId' = BuyInId
  BY <1>2 DEF BuyInId
<1> QED BY <1>7, <1>8, <1>9, <1>10, <1>11 DEF JInv

(* A connection that opens finds its player without a seat, or not alone.  *)
LEMMA ConnectKeepsJInv ==
    ASSUME IInv, JInv, NEW c \in Conns, Connect(c)
    PROVE  JInv'
<1> DEFINE p == Owner[c]
<1>1. /\ pc[c] = "new" /\ pc' = [pc EXCEPT ![c] = "idle"] /\ hub' = hub \cup {c}
      /\ shared' = IF Busy(p) THEN shared \cup {p} ELSE shared
      /\ UNCHANGED <<pending, buyIns, tables, client, reg, victim, todo, refunds, lost>>
  BY DEF Connect, At, Goto, storeVars, threadVars, ledger
<1>2. /\ c \in Threads /\ c \notin Revokers /\ p \in PlayerIds /\ Actor(c) = p
      /\ pc \in [Threads -> {"new", "idle", "done"}
                               \cup JoinPcs \cup LeavePcs \cup ClosePcs]
  BY ConnActor, ActorIsPlayer, ThreadsAssumption DEF IInv, TypeOK
<1>3. /\ \A o \in Threads : Actor(o)' = Actor(o)
      /\ \A o \in Threads : o # c => pc'[o] = pc[o] /\ (Active(o)' <=> Active(o))
      /\ pc'[c] = "idle" /\ Active(c)' /\ ~ Active(c)
  BY <1>1, <1>2 DEF Actor, Active
<1>4. reg[c].buyIn = NoBuyIn /\ reg[c].stack = NoStack /\ ~ client[c].seated
  BY <1>1, <1>2, <1>3, BlankIsEmpty DEF JInv, ThreadsInv, At
<1>5. Busy(p) => p \in shared'
  BY <1>1
<1>6. \A d \in Conns : (Active(d) /\ Owner[d] = p) => Busy(p)
  BY ConnActor DEF Busy
<1>7. ThreadsInv'
  <2>1. \A d, e \in Conns :
            (Active(d)' /\ Active(e)' /\ Owner[d] = Owner[e] /\ d # e)
                => Owner[d] \in shared'
    <3> SUFFICES ASSUME NEW d \in Conns, NEW e \in Conns, Active(d)', Active(e)',
                        Owner[d] = Owner[e], d # e
                 PROVE  Owner[d] \in shared'
      OBVIOUS
    <3>1. CASE d # c /\ e # c
      BY <1>1, <1>3, <3>1, ConnActor DEF JInv, ThreadsInv
    <3>2. CASE d = c
      BY <1>3, <1>5, <1>6, <3>2, ConnActor
    <3>3. CASE e = c
      BY <1>3, <1>5, <1>6, <3>3, ConnActor
    <3> QED BY <3>1, <3>2, <3>3
  <2>2. ASSUME NEW r \in Revokers
        PROVE  /\ pc'[r] \in {"new", "done"} \cup ClosePcs
               /\ \A d \in todo'[r] : Owner[d] = Actor(r)'
               /\ Active(r)' => Actor(r)' \in shared'
    BY <1>1, <1>2, <1>3, <2>2 DEF JInv, ThreadsInv, Threads
  <2>3. \A d \in hub' : Active(d)'
    BY <1>1, <1>3 DEF JInv, ThreadsInv, IInv, TypeOK, Threads
  <2>4. \A o \in Threads : ~ Active(o)' => reg'[o] = Blank
    BY <1>1, <1>3 DEF JInv, ThreadsInv
  <2>5. \A d \in Conns : pc'[d] = "new" => ~ client'[d].seated
    BY <1>1, <1>3, ConnActor DEF JInv, ThreadsInv, At
  <2> QED BY <1>1, <2>1, <2>2, <2>3, <2>4, <2>5 DEF ThreadsInv, JInv, At
<1>8. Owned'
  <2>1. \A o \in Threads :
            /\ reg'[o].buyIn # NoBuyIn => /\ o \in Conns /\ pc'[o] \in HandPcs
                                          /\ Buyer(reg'[o].buyIn) = Actor(o)'
            /\ reg'[o].stack # NoStack => Buyer(reg'[o].stack) = Actor(o)'
    BY <1>1, <1>3, <1>4 DEF JInv, Owned
  <2> QED BY <1>1, <2>1 DEF JInv, Owned, HasPending, Buyer, Taken, IsFree, OnSeat
<1>9. ASSUME NEW q \in PlayerIds, Alone(q)'
      PROVE  AtConn(q)'
  <2>1. AtConn(q) /\ (q = p => ~ Busy(p))
    BY <1>1, <1>5, <1>9 DEF Alone, JInv
  <2>2. ASSUME NEW d \in Conns, d # c, Owner[d] = q, Active(d)'
        PROVE  SitsRight(d)'
    <3>1. SitsRight(d) /\ pc'[d] = pc[d]
      BY <1>3, <2>1, <2>2, ConnActor DEF AtConn
    <3> QED BY <1>1, <3>1 DEF SitsRight, Sits, At
  <2>3. ASSUME q = p
        PROVE  SitsRight(c)'
    <3>1. \A t \in TableIds : ~ IsSeated(tables[t], p)
      BY <2>1, <2>3 DEF AtConn
    <3> QED BY <1>1, <1>3, <1>4, <3>1 DEF SitsRight, Sits, At, StalePcs
  <2>4. Busy(q) => Busy(q)'
    BY <1>3 DEF Busy
  <2> QED BY <1>1, <2>1, <2>2, <2>3, <2>4 DEF AtConn
<1>10. ASSUME NEW b \in BuyInId, Alone(Buyer(b))'
       PROVE  Kept(b)'
  <2>1. Kept(b)
    BY <1>1, <1>10 DEF JInv, Alone, Buyer
  <2>2. OffSeat(b)' <=> OffSeat(b)
    BY <1>1, <1>3 DEF OffSeat, OffSeatPcs
  <2> QED BY <1>1, <2>1, <2>2
          DEF Kept, Pend, OnSome, InHand, Settled, Taken, IsFree, OnSeat
<1>11. BuyInId' = BuyInId
  BY <1>1 DEF BuyInId
<1> QED BY <1>7, <1>8, <1>9, <1>10, <1>11 DEF JInv

(* The first state.                                                        *)
LEMMA InitJInv == Init => JInv
<1> SUFFICES ASSUME Init
             PROVE  JInv
  OBVIOUS
<1>1. /\ pc = [th \in Threads |-> "new"] /\ reg = [th \in Threads |-> Blank]
      /\ \A c \in Conns : victim[c] = c /\ ~ client[c].seated
      /\ todo = [r \in Revokers |-> {}] /\ hub = {} /\ shared = {}
      /\ tables = [t \in TableIds |-> EmptyTable]
      /\ pending = [p \in PlayerIds |-> [t \in TableIds |-> NoBuyIn]]
      /\ BuyInId = {}
  BY DEF Init, StoreInit, Threads, BuyInId
<1>2. \A th \in Threads : ~ Active(th) /\ reg[th].buyIn = NoBuyIn /\ reg[th].stack = NoStack
  BY <1>1, BlankIsEmpty DEF Active
<1>3. ThreadsInv
  BY <1>1, <1>2 DEF ThreadsInv, Threads
<1>4. \A t \in TableIds : /\ \A p \in PlayerIds : ~ IsSeated(tables[t], p)
                          /\ \A i \in Seat : ~ Taken(t, i)
  BY <1>1 DEF EmptyTable, IsSeated, Taken, IsFree
<1>5. Owned
  BY <1>1, <1>2, <1>4 DEF Owned, HasPending
<1>6. ASSUME NEW p \in PlayerIds
      PROVE  AtConn(p)
  BY <1>2, <1>4 DEF AtConn, Threads
<1> QED BY <1>1, <1>3, <1>5, <1>6 DEF JInv

(* Every step.                                                             *)
LEMMA NextJInv == IInv /\ JInv /\ [Next]_vars => JInv'
<1> SUFFICES ASSUME IInv, JInv, [Next]_vars
             PROVE  JInv'
  OBVIOUS
<1>0. IInv'
  BY NextIInv
<1>1. ASSUME NEW p \in PlayerIds, OpenSession(p)
      PROVE  JInv'
  BY <1>1, StillKeepsJInv DEF OpenSession, EnsureWallet, connVars, threadVars, ledger
<1>2. ASSUME NEW p \in PlayerIds, NEW t \in TableIds, NEW amount \in Amounts,
             TableBuyIn(p, t, amount)
      PROVE  JInv'
  BY <1>2, BuyInKeepsJInv
<1>3. ASSUME NEW r \in Revokers, NEW p \in PlayerIds, Revoke(r, p)
      PROVE  JInv'
  BY <1>3, RevokeKeepsJInv
<1>4. ASSUME NEW c \in Conns, Connect(c)
      PROVE  JInv'
  BY <1>4, ConnectKeepsJInv
<1>5. ASSUME NEW c \in Conns, Hangup(c)
      PROVE  JInv'
  BY <1>5, StillKeepsJInv DEF Hangup, storeVars, threadVars, ledger
<1>6. ASSUME NEW th \in Threads, Works(th)
      PROVE  JInv'
  BY <1>0, <1>6, WorkKeepsJInv
<1>7. ASSUME NEW c \in Conns, NEW t \in TableIds,
             \/ \E s \in {AnySeat} \cup Seat : ReceiveJoin(c, t, s)
             \/ ReceiveLeave(c, t)
      PROVE  JInv'
  BY <1>6, <1>7 DEF Works, Threads
<1>8. CASE UNCHANGED vars
  BY <1>8, StillKeepsJInv DEF vars
<1>9. ASSUME NEW th \in Threads, Step(th)
      PROVE  JInv'
  BY <1>6, <1>9 DEF Works
<1> QED BY <1>1, <1>2, <1>3, <1>4, <1>5, <1>7, <1>8, <1>9 DEF Next, Environment

-----------------------------------------------------------------------------
(* What it says of the properties.                                         *)

(* The buy-in of a player who is alone is in one place, and no two.        *)
LEMMA OnePlaceFollows == IInv /\ JInv => BuyInInOnePlace
<1> SUFFICES ASSUME IInv, JInv, NEW b \in BuyInId, Alone(Buyer(b))
             PROVE  \E x \in Places(b) : Places(b) = {x}
  BY DEF BuyInInOnePlace
<1>0. /\ Kept(b) /\ b # NoBuyIn /\ b # NoStack /\ b \in 1 .. MaxBuyIns
      /\ refunds[b] \in Nat
  BY HeldIsBuyIn DEF JInv, IInv, TypeOK
<1>1. CASE Pend(b)
  <2>1. PendingPlaces(b) # {}
    <3>1. PICK p \in PlayerIds, t \in TableIds : pending[p][t] = b
      BY <1>1 DEF Pend
    <3>2. <<p, t>> \in PendingPlaces(b)
      BY <3>1 DEF PendingPlaces
    <3> QED BY <3>2
  <2> QED BY <2>1, SpentOnceFollows DEF BuyInSpentOnce
<1>2. CASE ~ Pend(b)
  <2>1. PendingPlaces(b) = {}
    BY <1>2 DEF PendingPlaces, Pend
  <2>2. SeatPlaces(b) # {} <=> OnSome(b)
    <3>1. ASSUME OnSome(b)
          PROVE  SeatPlaces(b) # {}
      <4>1. PICK t \in TableIds, i \in Seat : Taken(t, i) /\ OnSeat(t, i) = b
        BY <3>1 DEF OnSome
      <4>2. <<t, i>> \in SeatPlaces(b)
        BY <4>1 DEF SeatPlaces, Taken, OnSeat
      <4> QED BY <4>2
    <3>2. ASSUME SeatPlaces(b) # {}
          PROVE  OnSome(b)
      BY <3>2 DEF SeatPlaces, OnSome, Taken, OnSeat
    <3> QED BY <3>1, <3>2
  <2>3. HandPlaces(b) # {} <=> InHand(b)
    BY DEF HandPlaces, InHand
  <2>4. OffSeatPlaces(b) # {} <=> OffSeat(b)
    BY DEF OffSeatPlaces, OffSeat
  <2>5. CASE OnSome(b) \/ InHand(b)
    <3>1. ~ OffSeat(b) /\ refunds[b] = 0 /\ b \notin lost
      BY <1>0, <2>5 DEF Kept, Settled
    <3>2. 1 .. refunds[b] = {} /\ {b} \cap lost = {} /\ OffSeatPlaces(b) = {}
      BY <2>4, <3>1
    <3>3. Places(b) = InPlay(b)
      BY <2>1, <3>2 DEF Places, InPlay
    <3>4. InPlay(b) # {}
      BY <2>2, <2>3, <2>5 DEF InPlay
    <3>5. \A x, y \in InPlay(b) : x = y
      BY SpentOnceFollows DEF BuyInSpentOnce
    <3>6. PICK x : x \in InPlay(b)
      BY <3>4
    <3>7. InPlay(b) = {x}
      BY <3>5, <3>6
    <3> QED BY <3>3, <3>6, <3>7
  <2>6. CASE OffSeat(b)
    <3>1. ~ OnSome(b) /\ ~ InHand(b) /\ refunds[b] = 0 /\ b \notin lost
      BY <1>0, <2>6 DEF Kept, Settled
    <3>2. /\ 1 .. refunds[b] = {} /\ {b} \cap lost = {}
          /\ SeatPlaces(b) = {} /\ HandPlaces(b) = {}
      BY <2>2, <2>3, <3>1
    <3>3. PICK th \in Threads : pc[th] \in OffSeatPcs /\ reg[th].stack = b
      BY <2>6 DEF OffSeat
    <3>4. ASSUME NEW o \in Threads, pc[o] \in OffSeatPcs, reg[o].stack = b
          PROVE  Active(o) /\ Actor(o) = Buyer(b)
      BY <1>0, <3>4 DEF JInv, Owned, Active, OffSeatPcs
    <3>5. \A o \in Threads : (pc[o] \in OffSeatPcs /\ reg[o].stack = b) => o = th
      <4>1. Active(th) /\ Actor(th) = Buyer(b)
        BY <3>3, <3>4
      <4>2. \A o \in Threads : (Active(o) /\ Actor(o) = Actor(th)) => o = th
        BY <4>1, AloneThread
      <4> QED BY <3>4, <4>1, <4>2
    <3>6. OffSeatPlaces(b) = {th}
      BY <3>3, <3>5 DEF OffSeatPlaces
    <3>7. Places(b) = {<<"off seat", th>>}
      BY <2>1, <3>2, <3>6 DEF Places
    <3> QED BY <3>7
  <2>7. CASE Settled(b)
    <3>1. ~ OnSome(b) /\ ~ InHand(b) /\ ~ OffSeat(b)
      BY <1>0, <2>7 DEF Kept
    <3>2. SeatPlaces(b) = {} /\ HandPlaces(b) = {} /\ OffSeatPlaces(b) = {}
      BY <2>2, <2>3, <2>4, <3>1
    <3>3. Places(b) = {<<"refunded", n>> : n \in 1 .. refunds[b]}
                        \cup {<<"lost", x>> : x \in {b} \cap lost}
      BY <2>1, <3>2 DEF Places
    <3>4. CASE refunds[b] = 0
      <4>1. 1 .. refunds[b] = {} /\ {b} \cap lost = {b}
        BY <2>7, <3>4 DEF Settled
      <4>2. Places(b) = {<<"lost", b>>}
        BY <3>3, <4>1
      <4> QED BY <4>2
    <3>5. CASE refunds[b] # 0
      <4>0. refunds[b] = 1 /\ b \notin lost
        BY <1>0, <3>5 DEF Kept
      <4>1. 1 .. refunds[b] = {1} /\ {b} \cap lost = {}
        BY <4>0
      <4>2. Places(b) = {<<"refunded", 1>>}
        BY <3>3, <4>1
      <4> QED BY <4>2
    <3> QED BY <3>4, <3>5
  <2> QED BY <1>0, <1>2, <2>5, <2>6, <2>7 DEF Kept
<1> QED BY <1>1, <1>2

(* His connection knows his seat whenever it waits for a message.          *)
LEMMA SeatFollows == IInv /\ JInv => SeatBelongsToConnection
<1> SUFFICES ASSUME IInv, JInv, NEW p \in PlayerIds, Alone(p)
             PROVE  /\ \A c \in Conns : (Owner[c] = p /\ At(c, "idle")) =>
                            \A t \in TableIds :
                                IsSeated(tables[t], p) <=>
                                    client[c] = [table |-> t, seated |-> TRUE]
                    /\ ~ Busy(p) => \A t \in TableIds : ~ IsSeated(tables[t], p)
  BY DEF SeatBelongsToConnection
<1>1. AtConn(p)
  BY DEF JInv
<1>2. ASSUME NEW c \in Conns, Owner[c] = p, At(c, "idle"), NEW t \in TableIds
      PROVE  IsSeated(tables[t], p) <=> client[c] = [table |-> t, seated |-> TRUE]
  <2>1. SitsRight(c) /\ pc[c] = "idle"
    BY <1>1, <1>2 DEF AtConn, Active, At
  <2>2. client[c] \in [table : TableIds, seated : BOOLEAN]
    BY DEF IInv, TypeOK
  <2>3. IsSeated(tables[t], p) <=> (client[c].seated /\ client[c].table = t)
    BY <1>2, <2>1 DEF SitsRight, Sits, StalePcs, At
  <2>4. client[c] = [table |-> client[c].table, seated |-> client[c].seated]
    BY <2>2
  <2>5. CASE client[c].seated = TRUE
    <3> DEFINE at == client[c].table
    <3>1. client[c] = [table |-> at, seated |-> TRUE]
      BY <2>4, <2>5
    <3>2. IsSeated(tables[t], p) <=> at = t
      BY <2>3, <2>5
    <3>3. [table |-> at, seated |-> TRUE] = [table |-> t, seated |-> TRUE] <=> at = t
      OBVIOUS
    <3> HIDE DEF at
    <3> QED BY <3>1, <3>2, <3>3
  <2>6. CASE client[c].seated = FALSE
    BY <2>3, <2>4, <2>6
  <2> QED BY <2>2, <2>5, <2>6
<1> QED BY <1>1, <1>2 DEF AtConn

-----------------------------------------------------------------------------

(* For a player no two threads were ever at work for: each of his buy-ins  *)
(* is pending, in one hand, on one seat, on its way back, credited once,   *)
(* or lost where the store can lose it (a failed credit, a consume that    *)
(* committed and reported an error), and never two of these, however his   *)
(* joins, table switches, leaves and disconnects interleave with what the  *)
(* other players do (ws_handlers.go, session_helpers.go closeClient).      *)
THEOREM BuyInAlwaysInOnePlace == Spec => []BuyInInOnePlace
<1> QED BY OnePlaceFollows, InitIInv, NextIInv, InitJInv, NextJInv, PTL DEF Spec

(* And he sits where the wsClient of his connection says, and nowhere when *)
(* he has no connection.                                                   *)
THEOREM SeatAlwaysBelongsToConnection == Spec => []SeatBelongsToConnection
<1> QED BY SeatFollows, InitIInv, NextIInv, InitJInv, NextJInv, PTL DEF Spec

-----------------------------------------------------------------------------
(***************************************************************************)
(* Chips as numbers.                                                       *)
(***************************************************************************)

\* What a player's buy-ins that were not credited back have cost him.
Owed(p) ==
    [b \in 1 .. MaxBuyIns |->
        IF b \in BuyInId /\ Buyer(b) = p /\ refunds[b] = 0 THEN buyIns[b].amount ELSE 0]

\* For a player who is alone the wallet is short of just that.
WalletInv ==
    \A p \in PlayerIds :
        /\ ~ HasWallet(p) => \A b \in BuyInId : Buyer(b) # p
        /\ HasWallet(p) /\ Alone(p) =>
                balances[p] + SumFunction(Owed(p)) = InitialBalance

(* What the types say of a buy-in and of what is owed for it.              *)
LEMMA BuyInsTyped ==
    ASSUME IInv
    PROVE  /\ BuyInId \subseteq 1 .. MaxBuyIns /\ IsFiniteSet(1 .. MaxBuyIns)
           /\ \A b \in BuyInId : buyIns[b].amount \in Nat /\ Buyer(b) \in PlayerIds
           /\ \A p : \A b \in 1 .. MaxBuyIns : Owed(p)[b] \in Nat
           /\ \A p : DOMAIN Owed(p) = 1 .. MaxBuyIns
           /\ \A b \in 1 .. MaxBuyIns : refunds[b] \in Nat
           /\ \A p \in PlayerIds : balances[p] \in Nat \cup {NoWallet}
<1>1. BuyInId \subseteq 1 .. MaxBuyIns
  BY HeldIsBuyIn
<1>2. IsFiniteSet(1 .. MaxBuyIns)
  BY MaxBuyInsAssumption, FS_Interval
<1>3. ASSUME NEW b \in BuyInId
      PROVE  buyIns[b].amount \in Nat /\ Buyer(b) \in PlayerIds
  <2>1. buyIns \in Seq(BuyIn)
    BY DEF IInv, TypeOK, StoreTypeOK
  <2>2. buyIns[b] \in BuyIn
    BY <2>1 DEF BuyInId
  <2> QED BY <2>2, AmountsAssumption DEF BuyIn, Buyer
<1>4. \A p : \A b \in 1 .. MaxBuyIns : Owed(p)[b] \in Nat
  BY <1>3 DEF Owed
<1>5. \A p : DOMAIN Owed(p) = 1 .. MaxBuyIns
  BY DEF Owed
<1> QED BY <1>1, <1>2, <1>3, <1>4, <1>5 DEF IInv, TypeOK, StoreTypeOK

(* A sum of what is owed is a number.                                      *)
LEMMA OwedIsSum ==
    ASSUME IInv, NEW p
    PROVE  /\ SumFunction(Owed(p)) = SumFunctionOnSet(Owed(p), 1 .. MaxBuyIns)
           /\ SumFunction(Owed(p)) \in Int
<1>1. SumFunction(Owed(p)) = SumFunctionOnSet(Owed(p), 1 .. MaxBuyIns)
  BY BuyInsTyped DEF SumFunction
<1>2. SumFunctionOnSet(Owed(p), 1 .. MaxBuyIns) \in Int
  <2> DEFINE S == 1 .. MaxBuyIns
  <2>1. IsFiniteSet(S) /\ S \in SUBSET S /\ \A b \in S : Owed(p)[b] \in Int
    BY BuyInsTyped
  <2> HIDE DEF S
  <2>2. SumFunctionOnSet(Owed(p), S) \in Int
    BY <2>1, SumFacts
  <2> QED BY <2>2 DEF S
<1> QED BY <1>1, <1>2

(* How the wallets, the buy-ins and the credits change, together.          *)
LEMMA StoreMoves ==
    ASSUME IInv, JInv, [Next]_vars
    PROVE  /\ shared \subseteq shared'
           /\ \/ UNCHANGED <<balances, buyIns, refunds>>
              \/ \E p \in PlayerIds : OpenSession(p)
              \/ \E p \in PlayerIds, t \in TableIds, amount \in Amounts :
                    TableBuyIn(p, t, amount)
              \/ \E th \in Threads : \E b \in {reg[th].buyIn, reg[th].stack} :
                    b # NoBuyIn /\ Refund(Actor(th), b)
<1>1. CASE UNCHANGED vars
  BY <1>1 DEF vars
<1>2. ASSUME NEW th \in Threads, Works(th)
      PROVE  shared' = shared
  BY <1>2, WorkHasShape DEF Shape
<1>3. ASSUME NEW th \in Threads,
             \/ th \in Conns /\ (SeatRefund(th) \/ SwitchRefund(th) \/ LeaveRefund(th))
             \/ CloseRefund(th)
      PROVE  \E b \in {reg[th].buyIn, reg[th].stack} : b # NoBuyIn /\ Refund(Actor(th), b)
  <2>1. /\ At(th, "seatRefund") => reg[th].buyIn # NoBuyIn
        /\ pc[th] \in RefundPcs => reg[th].stack # NoBuyIn
    BY HeldIsBuyIn DEF IInv, HandsFull, At, HandPcs
  <2>2. th \in Conns => Owner[th] = Actor(th)
    BY ConnActor
  <2> QED BY <1>3, <2>1, <2>2
          DEF SeatRefund, SwitchRefund, LeaveRefund, CloseRefund, At, RefundPcs
<1>4. ASSUME NEW th \in Threads,
             \/ th \in Conns /\ \/ ReadError(th) \/ Consume(th) \/ TakeSeat(th)
                                \/ SeatMark(th) \/ SwitchRead(th) \/ SwitchLeave(th)
                                \/ SwitchMark(th) \/ LeaveTable(th) \/ LeaveMark(th)
             \/ Close(th) \/ CloseTable(th) \/ CloseRead(th) \/ CloseLeave(th)
             \/ CloseEnd(th) \/ Tell(th)
      PROVE  UNCHANGED <<balances, buyIns, refunds>>
  BY <1>4 DEF ReadError, Consume, ConsumePendingBuyIn, TakeSeat, SeatMark, SwitchRead,
     SwitchLeave, SwitchMark, LeaveTable, LeaveMark, Close, CloseTable, CloseRead,
     CloseLeave, CloseEnd, Tell, storeVars, ledger
<1>5. ASSUME Environment
      PROVE  shared \subseteq shared'
  BY <1>5 DEF Environment, OpenSession, TableBuyIn, Revoke, Connect, Hangup,
     ReceiveJoin, ReceiveLeave
<1>6. ASSUME Environment
      PROVE  \/ UNCHANGED <<balances, buyIns, refunds>>
             \/ \E p \in PlayerIds : OpenSession(p)
             \/ \E p \in PlayerIds, t \in TableIds, amount \in Amounts :
                    TableBuyIn(p, t, amount)
  BY <1>6 DEF Environment, Revoke, Connect, Hangup, ReceiveJoin, ReceiveLeave,
     storeVars, ledger
<1>7. ASSUME NEW th \in Threads, Step(th)
      PROVE  /\ shared' = shared
             /\ \/ UNCHANGED <<balances, buyIns, refunds>>
                \/ \E b \in {reg[th].buyIn, reg[th].stack} :
                        b # NoBuyIn /\ Refund(Actor(th), b)
  <2>1. shared' = shared
    BY <1>2, <1>7 DEF Works
  <2> QED BY <1>3, <1>4, <1>7, <2>1 DEF Step, ConnStep, CloseStep
<1> QED BY <1>1, <1>5, <1>6, <1>7 DEF Next

(* A wallet that is opened.                                                *)
LEMMA OpenKeepsWallets ==
    ASSUME IInv, WalletInv, NEW p \in PlayerIds, OpenSession(p)
    PROVE  WalletInv'
<1>1. /\ balances[p] = NoWallet /\ balances' = [balances EXCEPT ![p] = InitialBalance]
      /\ UNCHANGED <<buyIns, refunds, shared>>
  BY DEF OpenSession, EnsureWallet, HasWallet, ledger
<1>2. InitialBalance \in Nat /\ balances \in [PlayerIds -> Nat \cup {NoWallet}]
  BY InitialBalanceAssumption DEF IInv, TypeOK, StoreTypeOK
<1>3. \A q : Owed(q)' = Owed(q)
  BY <1>1 DEF Owed, BuyInId, Buyer
<1>4. SumFunction(Owed(p)) = 0
  <2>1. \A b \in 1 .. MaxBuyIns : Owed(p)[b] = 0
    BY <1>1 DEF WalletInv, HasWallet, Owed
  <2>2. SumFunctionOnSet(Owed(p), 1 .. MaxBuyIns) = 0
    BY <2>1, BuyInsTyped, SumOfZeros
  <2> QED BY <2>2, OwedIsSum
<1> SUFFICES ASSUME NEW q \in PlayerIds
             PROVE  /\ ~ HasWallet(q)' => \A b \in BuyInId' : Buyer(b)' # q
                    /\ HasWallet(q)' /\ Alone(q)' =>
                            balances'[q] + SumFunction(Owed(q)') = InitialBalance
  BY DEF WalletInv
<1>5. BuyInId' = BuyInId /\ \A b : Buyer(b)' = Buyer(b)
  BY <1>1 DEF BuyInId, Buyer
<1>6. CASE q = p
  <2>1. balances'[q] = InitialBalance /\ HasWallet(q)'
    BY <1>1, <1>2, <1>6 DEF HasWallet, NoWallet
  <2>2. SumFunction(Owed(q)') = 0
    BY <1>3, <1>4, <1>6
  <2>3. InitialBalance + 0 = InitialBalance
    BY <1>2
  <2> QED BY <2>1, <2>2, <2>3
<1>7. CASE q # p
  <2>1. balances'[q] = balances[q]
    BY <1>1, <1>2, <1>7
  <2>2. (HasWallet(q)' <=> HasWallet(q)) /\ (Alone(q)' <=> Alone(q))
    BY <1>1, <2>1 DEF HasWallet, Alone
  <2> QED BY <1>3, <1>5, <2>1, <2>2 DEF WalletInv
<1> QED BY <1>6, <1>7

(* A buy-in that is paid for.                                              *)
LEMMA BuyInKeepsWallets ==
    ASSUME IInv, IInv', WalletInv, NEW p \in PlayerIds, NEW t \in TableIds,
           NEW amount \in Amounts, TableBuyIn(p, t, amount),
           refunds[Len(buyIns) + 1] = 0
    PROVE  WalletInv'
<1> DEFINE row == [player |-> p, table |-> t, amount |-> amount]
<1>0. PICK n : n = Len(buyIns) + 1
  OBVIOUS
<1>1. /\ HasWallet(p) /\ Len(buyIns) < MaxBuyIns
      /\ balances' = [balances EXCEPT ![p] = balances[p] - amount]
      /\ buyIns' = Append(buyIns, row) /\ UNCHANGED <<refunds, shared>>
  BY DEF TableBuyIn, CreateBuyIn, ledger
<1>2. /\ balances \in [PlayerIds -> Nat \cup {NoWallet}] /\ buyIns \in Seq(BuyIn)
      /\ amount \in Nat /\ n \in 1 .. MaxBuyIns
  BY <1>0, <1>1, AmountsAssumption, MaxBuyInsAssumption DEF IInv, TypeOK, StoreTypeOK
<1>3. /\ BuyInId' = BuyInId \cup {n} /\ n \notin BuyInId
      /\ \A b \in BuyInId : buyIns'[b] = buyIns[b]
      /\ buyIns'[n] = row
  BY <1>0, <1>1, <1>2 DEF BuyInId
<1>4. /\ \A b \in BuyInId : Buyer(b)' = Buyer(b)
      /\ Buyer(n)' = p
  BY <1>3 DEF Buyer
<1>5. ASSUME NEW q, NEW b \in 1 .. MaxBuyIns, b # n
      PROVE  Owed(q)'[b] = Owed(q)[b]
  BY <1>1, <1>3, <1>4, <1>5 DEF Owed
<1>6. ASSUME NEW q
      PROVE  Owed(q)[n] = 0 /\ Owed(q)'[n] = IF q = p THEN amount ELSE 0
  BY <1>0, <1>1, <1>2, <1>3, <1>4 DEF Owed
<1>7. ASSUME NEW q
      PROVE  /\ SumFunction(Owed(q)) \in Int
             /\ SumFunction(Owed(q)') = SumFunction(Owed(q)) + IF q = p THEN amount ELSE 0
  <2> DEFINE S == 1 .. MaxBuyIns
  <2>1. DOMAIN Owed(q) = S /\ DOMAIN Owed(q)' = S /\ IsFiniteSet(S) /\ n \in S
    BY <1>2, BuyInsTyped DEF Owed
  <2>2. \A b \in S : Owed(q)[b] \in Int
    BY BuyInsTyped
  <2>3. \A b \in S : Owed(q)'[b] \in Int
    BY <1>2, <1>5, <1>6, <2>2
  <2>4. \A b \in S : b # n => Owed(q)'[b] = Owed(q)[b]
    BY <1>5
  <2> HIDE DEF S
  <2>5. /\ SumFunction(Owed(q)) \in Int
        /\ SumFunction(Owed(q)') = SumFunction(Owed(q)) - Owed(q)[n] + Owed(q)'[n]
    BY <2>1, <2>2, <2>3, <2>4, SumFunctionChangesAt
  <2> QED BY <1>2, <1>6, <2>5
<1> SUFFICES ASSUME NEW q \in PlayerIds
             PROVE  /\ ~ HasWallet(q)' => \A b \in BuyInId' : Buyer(b)' # q
                    /\ HasWallet(q)' /\ Alone(q)' =>
                            balances'[q] + SumFunction(Owed(q)') = InitialBalance
  BY DEF WalletInv
<1>8. Alone(q)' <=> Alone(q)
  BY <1>1 DEF Alone
<1>9. CASE q = p
  <2>1. balances'[q] = balances[q] - amount /\ HasWallet(q) /\ balances[q] \in Nat
    BY <1>1, <1>2, <1>9 DEF HasWallet
  <2>2. HasWallet(q)'
    <3>1. balances'[q] \in Nat
      BY <2>1, <1>2, <1>9 DEF TableBuyIn, CreateBuyIn
    <3> QED BY <3>1 DEF HasWallet, NoWallet
  <2>3. SumFunction(Owed(q)) \in Int
        /\ SumFunction(Owed(q)') = SumFunction(Owed(q)) + amount
    BY <1>7, <1>9
  <2>4. Alone(q) => balances[q] + SumFunction(Owed(q)) = InitialBalance
    BY <2>1 DEF WalletInv
  <2>5. Alone(q) => balances'[q] + SumFunction(Owed(q)') = InitialBalance
    BY <1>2, <2>1, <2>3, <2>4
  <2> QED BY <1>8, <2>2, <2>5
<1>10. CASE q # p
  <2>1. balances'[q] = balances[q]
    BY <1>1, <1>2, <1>10
  <2>2. HasWallet(q)' <=> HasWallet(q)
    BY <2>1 DEF HasWallet
  <2>3. SumFunction(Owed(q)') = SumFunction(Owed(q))
    BY <1>7, <1>10
  <2>4. \A b \in BuyInId' : Buyer(b)' = q => b \in BuyInId /\ Buyer(b) = q
    BY <1>3, <1>4, <1>10
  <2> QED BY <1>8, <2>1, <2>2, <2>3, <2>4 DEF WalletInv
<1> QED BY <1>9, <1>10

(* A buy-in that is credited back.                                         *)
LEMMA CreditKeepsWallets ==
    ASSUME IInv, IInv', JInv, JInv', WalletInv, shared \subseteq shared',
           NEW th \in Threads, NEW b \in {reg[th].buyIn, reg[th].stack}, b # NoBuyIn,
           NEW p \in PlayerIds, p = Actor(th), CreditWallet(p, b),
           refunds' = [refunds EXCEPT ![b] = refunds[b] + 1]
    PROVE  WalletInv'
<1>1. /\ b \in BuyInId /\ b \in 1 .. MaxBuyIns /\ Buyer(b) = p
      /\ buyIns[b].amount \in Nat
  <2>1. Buyer(b) = p
    BY HeldIsBuyIn DEF JInv, Owned
  <2> QED BY <2>1, HeldIsBuyIn, BuyInsTyped
<1>2. HasWallet(p)
  BY <1>1 DEF WalletInv
<1>3. /\ balances' = [balances EXCEPT ![p] = balances[p] + buyIns[b].amount]
      /\ buyIns' = buyIns
      /\ balances[p] \in Nat
  BY <1>2, BuyInsTyped DEF CreditWallet, Balance, HasWallet
<1>4. /\ BuyInId' = BuyInId /\ \A d : Buyer(d)' = Buyer(d)
      /\ balances \in [PlayerIds -> Nat \cup {NoWallet}]
      /\ refunds \in [1 .. MaxBuyIns -> Nat]
  BY <1>3 DEF BuyInId, Buyer, IInv, TypeOK, StoreTypeOK
<1>5. refunds'[b] = refunds[b] + 1 /\ \A d \in 1 .. MaxBuyIns : d # b => refunds'[d] = refunds[d]
  BY <1>1, <1>4
<1> SUFFICES ASSUME NEW q \in PlayerIds
             PROVE  /\ ~ HasWallet(q)' => \A d \in BuyInId' : Buyer(d)' # q
                    /\ HasWallet(q)' /\ Alone(q)' =>
                            balances'[q] + SumFunction(Owed(q)') = InitialBalance
  BY DEF WalletInv
<1>6. Alone(q)' => Alone(q)
  BY DEF Alone
<1>7. CASE q = p
  <2>1. balances'[q] = balances[q] + buyIns[b].amount /\ HasWallet(q)'
    BY <1>1, <1>3, <1>4, <1>7 DEF HasWallet, NoWallet
  <2>2. SUFFICES ASSUME Alone(q)'
                 PROVE  balances'[q] + SumFunction(Owed(q)') = InitialBalance
    BY <2>1
  <2>3. refunds[b] = 0
    <3>1. Kept(b)'
      BY <1>1, <1>4, <1>7, <2>2 DEF JInv
    <3>2. refunds'[b] <= 1
      BY <3>1 DEF Kept
    <3> QED BY <1>1, <1>4, <1>5, <3>2
  <2>4. Owed(q)[b] = buyIns[b].amount /\ Owed(q)'[b] = 0
    BY <1>1, <1>4, <1>5, <1>7, <2>3 DEF Owed
  <2> DEFINE S == 1 .. MaxBuyIns
  <2>5. DOMAIN Owed(q) = S /\ DOMAIN Owed(q)' = S /\ IsFiniteSet(S) /\ b \in S
    BY <1>1, BuyInsTyped DEF Owed
  <2>6. \A d \in S : Owed(q)[d] \in Int
    BY BuyInsTyped
  <2>7. \A d \in S : d # b => Owed(q)'[d] = Owed(q)[d]
    BY <1>3, <1>4, <1>5 DEF Owed
  <2>8. \A d \in S : Owed(q)'[d] \in Int
    BY <2>4, <2>6, <2>7
  <2> HIDE DEF S
  <2>9. /\ SumFunction(Owed(q)) \in Int
        /\ SumFunction(Owed(q)') = SumFunction(Owed(q)) - Owed(q)[b] + Owed(q)'[b]
    BY <2>5, <2>6, <2>7, <2>8, SumFunctionChangesAt
  <2>10. balances[q] + SumFunction(Owed(q)) = InitialBalance
    BY <1>2, <1>6, <1>7, <2>2 DEF WalletInv
  <2> QED BY <1>1, <1>3, <1>7, <2>1, <2>4, <2>9, <2>10
<1>8. CASE q # p
  <2>1. balances'[q] = balances[q] /\ (HasWallet(q)' <=> HasWallet(q))
    BY <1>3, <1>4, <1>8 DEF HasWallet
  <2>2. Owed(q)' = Owed(q)
    BY <1>1, <1>3, <1>4, <1>5, <1>8 DEF Owed
  <2> QED BY <1>4, <1>6, <2>1, <2>2 DEF WalletInv
<1> QED BY <1>7, <1>8

(* Where nothing moves.                                                    *)
LEMMA StillKeepsWallets ==
    ASSUME IInv, WalletInv, shared \subseteq shared',
           UNCHANGED <<balances, buyIns, refunds>>
    PROVE  WalletInv'
<1>1. BuyInId' = BuyInId /\ (\A d : Buyer(d)' = Buyer(d)) /\ (\A q : Owed(q)' = Owed(q))
  BY DEF BuyInId, Buyer, Owed
<1>2. \A q : (HasWallet(q)' <=> HasWallet(q)) /\ (Alone(q)' => Alone(q))
  BY DEF HasWallet, Alone
<1> QED BY <1>1, <1>2 DEF WalletInv

(* At the start nobody has a wallet or a buy-in.                           *)
LEMMA InitWallets == Init => WalletInv
<1> SUFFICES ASSUME Init PROVE WalletInv
  OBVIOUS
<1>1. BuyInId = {}
  BY DEF Init, StoreInit, BuyInId
<1>2. \A p \in PlayerIds : ~ HasWallet(p)
  BY DEF Init, StoreInit, HasWallet
<1> QED BY <1>1, <1>2 DEF WalletInv

(* And with every step.                                                    *)
LEMMA NextWallets ==
    ASSUME IInv, IInv', JInv, JInv', WalletInv, [Next]_vars
    PROVE  WalletInv'
<1>1. shared \subseteq shared'
  BY StoreMoves
<1>2. CASE UNCHANGED <<balances, buyIns, refunds>>
  BY <1>1, <1>2, StillKeepsWallets
<1>3. ASSUME NEW p \in PlayerIds, OpenSession(p)
      PROVE  WalletInv'
  BY <1>3, OpenKeepsWallets
<1>4. ASSUME NEW p \in PlayerIds, NEW t \in TableIds, NEW amount \in Amounts,
             TableBuyIn(p, t, amount)
      PROVE  WalletInv'
  <2>1. refunds[Len(buyIns) + 1] = 0
    <3>1. Len(buyIns) + 1 \in 1 .. MaxBuyIns /\ Len(buyIns) + 1 \notin Known
      BY <1>4, NumbersAreNaturals, MaxBuyInsAssumption
         DEF TableBuyIn, CreateBuyIn, Known, IInv
    <3> QED BY <3>1 DEF IInv, IdsKnown
  <2> QED BY <1>4, <2>1, BuyInKeepsWallets
<1>5. ASSUME NEW th \in Threads, NEW b \in {reg[th].buyIn, reg[th].stack},
             b # NoBuyIn, Refund(Actor(th), b)
      PROVE  WalletInv'
  <2>1. Actor(th) \in PlayerIds
    BY ActorIsPlayer DEF IInv
  <2>2. CASE UNCHANGED <<balances, pending, buyIns, refunds>>
    BY <1>1, <2>2, StillKeepsWallets
  <2>3. CASE /\ CreditWallet(Actor(th), b)
             /\ refunds' = [refunds EXCEPT ![b] = refunds[b] + 1]
    BY <1>1, <1>5, <2>1, <2>3, CreditKeepsWallets
  <2> QED BY <1>5, <2>2, <2>3 DEF Refund
<1> QED BY <1>2, <1>3, <1>4, <1>5, StoreMoves

(* A buy-in that is in one place is counted once, where that is not the    *)
(* wallet or nowhere.                                                      *)
LEMMA OnePlaceCounts ==
    ASSUME IInv, NEW b \in BuyInId, NEW x, Places(b) = {x}
    PROVE  \/ Copies(b) = 1 /\ refunds[b] = 0 /\ b \notin lost
           \/ Copies(b) = 0 /\ refunds[b] = 0 /\ b \in lost
           \/ Copies(b) = 0 /\ refunds[b] # 0 /\ b \notin lost
<1> DEFINE P == PendingPlaces(b)
           S == SeatPlaces(b)
           H == HandPlaces(b)
           O == OffSeatPlaces(b)
<1>1. /\ \A y \in P : <<"pending", y>> = x
      /\ \A y \in S : <<"seat", y>> = x
      /\ \A y \in H : <<"hand", y>> = x
      /\ \A y \in O : <<"off seat", y>> = x
      /\ \A n \in 1 .. refunds[b] : <<"refunded", n>> = x
      /\ b \in lost => <<"lost", b>> = x
  BY DEF Places
<1>2. \/ \E y \in P : x = <<"pending", y>>
      \/ \E y \in S : x = <<"seat", y>>
      \/ \E y \in H : x = <<"hand", y>>
      \/ \E y \in O : x = <<"off seat", y>>
      \/ \E n \in 1 .. refunds[b] : x = <<"refunded", n>>
      \/ b \in lost /\ x = <<"lost", b>>
  BY DEF Places
<1>3. refunds[b] \in Nat /\ (refunds[b] # 0 => <<"refunded", 1>> = x)
  <2>1. refunds[b] \in Nat
    BY BuyInsTyped
  <2>2. refunds[b] # 0 => 1 \in 1 .. refunds[b]
    BY <2>1
  <2> QED BY <1>1, <2>1, <2>2
<1>4. /\ P # {} => x[1] = "pending"
      /\ S # {} => x[1] = "seat"
      /\ H # {} => x[1] = "hand"
      /\ O # {} => x[1] = "off seat"
      /\ refunds[b] # 0 => x[1] = "refunded"
      /\ b \in lost => x[1] = "lost"
  <2>1. \A tag, y : <<tag, y>>[1] = tag
    OBVIOUS
  <2> HIDE DEF P, S, H, O
  <2> QED BY <1>1, <1>3, <2>1
<1>5. /\ Cardinality({}) = 0
      /\ \A y : Cardinality({y}) = 1
  BY FS_EmptySet, FS_Singleton
<1>6. Copies(b) = Cardinality(P) + Cardinality(S) + Cardinality(H) + Cardinality(O)
  BY DEF Copies
<1> HIDE DEF P, S, H, O
<1>7. CASE \E y \in P : x = <<"pending", y>>
  <2>1. PICK y \in P : x = <<"pending", y>>
    BY <1>7
  <2>2. \A z \in P : z = y
    BY <1>1, <2>1
  <2>3. P = {y}
    BY <2>1, <2>2
  <2>4. x[1] = "pending"
    BY <2>1
  <2>5. S = {} /\ H = {} /\ O = {} /\ refunds[b] = 0 /\ b \notin lost
    BY <1>4, <2>4
  <2>6. /\ Cardinality(P) = 1
        /\ Cardinality(S) = 0 /\ Cardinality(H) = 0 /\ Cardinality(O) = 0
    BY <1>5, <2>3, <2>5
  <2> QED BY <1>6, <2>5, <2>6
<1>8. CASE \E y \in S : x = <<"seat", y>>
  <2>1. PICK y \in S : x = <<"seat", y>>
    BY <1>8
  <2>2. \A z \in S : z = y
    BY <1>1, <2>1
  <2>3. S = {y}
    BY <2>1, <2>2
  <2>4. x[1] = "seat"
    BY <2>1
  <2>5. P = {} /\ H = {} /\ O = {} /\ refunds[b] = 0 /\ b \notin lost
    BY <1>4, <2>4
  <2>6. /\ Cardinality(S) = 1
        /\ Cardinality(P) = 0 /\ Cardinality(H) = 0 /\ Cardinality(O) = 0
    BY <1>5, <2>3, <2>5
  <2> QED BY <1>6, <2>5, <2>6
<1>9. CASE \E y \in H : x = <<"hand", y>>
  <2>1. PICK y \in H : x = <<"hand", y>>
    BY <1>9
  <2>2. \A z \in H : z = y
    BY <1>1, <2>1
  <2>3. H = {y}
    BY <2>1, <2>2
  <2>4. x[1] = "hand"
    BY <2>1
  <2>5. P = {} /\ S = {} /\ O = {} /\ refunds[b] = 0 /\ b \notin lost
    BY <1>4, <2>4
  <2>6. /\ Cardinality(H) = 1
        /\ Cardinality(P) = 0 /\ Cardinality(S) = 0 /\ Cardinality(O) = 0
    BY <1>5, <2>3, <2>5
  <2> QED BY <1>6, <2>5, <2>6
<1>10. CASE \E y \in O : x = <<"off seat", y>>
  <2>1. PICK y \in O : x = <<"off seat", y>>
    BY <1>10
  <2>2. \A z \in O : z = y
    BY <1>1, <2>1
  <2>3. O = {y}
    BY <2>1, <2>2
  <2>4. x[1] = "off seat"
    BY <2>1
  <2>5. P = {} /\ S = {} /\ H = {} /\ refunds[b] = 0 /\ b \notin lost
    BY <1>4, <2>4
  <2>6. /\ Cardinality(O) = 1
        /\ Cardinality(P) = 0 /\ Cardinality(S) = 0 /\ Cardinality(H) = 0
    BY <1>5, <2>3, <2>5
  <2> QED BY <1>6, <2>5, <2>6
<1>11. CASE \E n \in 1 .. refunds[b] : x = <<"refunded", n>>
  <2>1. PICK n \in 1 .. refunds[b] : x = <<"refunded", n>>
    BY <1>11
  <2>2. P = {} /\ S = {} /\ H = {} /\ O = {} /\ refunds[b] # 0 /\ b \notin lost
    BY <1>1, <1>3, <2>1
  <2> QED BY <1>5, <1>6, <2>2
<1>12. CASE b \in lost /\ x = <<"lost", b>>
  <2>2. P = {} /\ S = {} /\ H = {} /\ O = {} /\ refunds[b] = 0 /\ b \in lost
    BY <1>1, <1>3, <1>12
  <2> QED BY <1>5, <1>6, <2>2
<1> QED BY <1>2, <1>7, <1>8, <1>9, <1>10, <1>11, <1>12

(* What is owed for the buy-ins of a player who is alone is what they are  *)
(* worth where they are, and what was lost of them.                        *)
LEMMA WalletFollows == IInv /\ JInv /\ WalletInv => AloneChipsConserved
<1> SUFFICES ASSUME IInv, JInv, WalletInv, NEW p \in PlayerIds, Alone(p), HasWallet(p)
             PROVE  Chips(p) + LostChips(p) = InitialBalance
  BY DEF AloneChipsConserved
<1> DEFINE f == [b \in 1 .. MaxBuyIns |->
                    IF b \in BuyInId /\ Buyer(b) = p
                    THEN buyIns[b].amount * Copies(b) ELSE 0]
           g == [b \in 1 .. MaxBuyIns |->
                    IF b \in BuyInId \cap lost /\ Buyer(b) = p
                    THEN buyIns[b].amount ELSE 0]
           S == 1 .. MaxBuyIns
<1>1. ASSUME NEW b \in S
      PROVE  f[b] \in Int /\ g[b] \in Int /\ Owed(p)[b] = f[b] + g[b]
  <2>1. CASE b \in BuyInId /\ Buyer(b) = p
    <3>1. PICK x : Places(b) = {x}
      BY <2>1, OnePlaceFollows DEF BuyInInOnePlace
    <3>2. buyIns[b].amount \in Nat
      BY <2>1, BuyInsTyped
    <3>3. /\ f[b] = buyIns[b].amount * Copies(b)
          /\ g[b] = IF b \in lost THEN buyIns[b].amount ELSE 0
          /\ Owed(p)[b] = IF refunds[b] = 0 THEN buyIns[b].amount ELSE 0
      BY <2>1 DEF Owed
    <3>4. \A n \in Nat : n * 1 = n /\ n * 0 = 0
      OBVIOUS
    <3> DEFINE n == buyIns[b].amount
    <3>5. \/ f[b] = n * 1 /\ g[b] = 0 /\ Owed(p)[b] = n
          \/ f[b] = n * 0 /\ g[b] = n /\ Owed(p)[b] = n
          \/ f[b] = n * 0 /\ g[b] = 0 /\ Owed(p)[b] = 0
      <4> HIDE DEF f, g
      <4> QED BY <2>1, <3>1, <3>3, OnePlaceCounts
    <3>6. n \in Nat
      BY <3>2
    <3> HIDE DEF f, g, n
    <3> QED BY <3>4, <3>5, <3>6
  <2>2. CASE ~ (b \in BuyInId /\ Buyer(b) = p)
    BY <2>2 DEF Owed
  <2> QED BY <2>1, <2>2
<1>2. /\ ChipsOutside(p) = SumFunctionOnSet(f, S)
      /\ LostChips(p) = SumFunctionOnSet(g, S)
  BY DEF ChipsOutside, LostChips, SumFunction
<1>3. IsFiniteSet(S)
  BY BuyInsTyped
<1>4. SumFunction(Owed(p)) = SumFunctionOnSet(Owed(p), S)
  BY OwedIsSum
<1>5. balances[p] \in Nat /\ balances[p] + SumFunction(Owed(p)) = InitialBalance
  BY BuyInsTyped DEF WalletInv, HasWallet
<1> HIDE DEF f, g, S
<1>6. /\ SumFunctionOnSet(f, S) \in Int /\ SumFunctionOnSet(g, S) \in Int
      /\ SumFunctionOnSet(Owed(p), S) = SumFunctionOnSet(f, S) + SumFunctionOnSet(g, S)
  BY <1>1, <1>3, SumOfBoth
<1> QED BY <1>2, <1>4, <1>5, <1>6 DEF Chips

(* The chips of a player no two threads were ever at work for are what he  *)
(* was given: in his wallet, in his buy-ins wherever they are, or in a     *)
(* buy-in that a failed credit or a consume that committed unheard lost,   *)
(* for any number of players, threads and buy-ins (state_helpers.go        *)
(* refundStackToWallet and consumePendingBuyIn, event_store.go             *)
(* CreditWallet).                                                          *)
THEOREM AloneChipsAlwaysConserved == Spec => []AloneChipsConserved
<1>1. IInv /\ JInv /\ WalletInv => AloneChipsConserved
  BY WalletFollows
<1>2. IInv /\ IInv' /\ JInv /\ JInv' /\ WalletInv /\ [Next]_vars => WalletInv'
  BY NextWallets
<1> QED BY <1>1, <1>2, InitWallets, InitIInv, NextIInv, InitJInv, NextJInv, PTL DEF Spec

-----------------------------------------------------------------------------
(***************************************************************************)
(* The application moves chips by the transfers of WalletLedger.           *)
(***************************************************************************)

Rows == [b \in 1 .. MaxBuyIns |-> RowOf(b)]

(* What a step may ask of the store.                                       *)
LEMMA StoreCalls ==
    ASSUME IInv, JInv, [Next]_vars
    PROVE  \/ UNCHANGED storeVars
           \/ \E p \in PlayerIds : EnsureWallet(p)
           \/ \E p \in PlayerIds, t \in TableIds, amount \in Amounts :
                    CreateBuyIn(p, t, amount)
           \/ \E p \in PlayerIds, t \in TableIds : ConsumePendingBuyIn(p, t)
           \/ \E th \in Threads : \E b \in {reg[th].buyIn, reg[th].stack} :
                    b # NoBuyIn /\ CreditWallet(Actor(th), b)
<1>1. CASE UNCHANGED vars
  BY <1>1 DEF vars, storeVars
<1>2. ASSUME NEW c \in Conns, Consume(c)
      PROVE  \/ UNCHANGED storeVars
             \/ \E p \in PlayerIds, t \in TableIds : ConsumePendingBuyIn(p, t)
  <2>1. Owner[c] \in PlayerIds /\ reg[c].table \in TableIds
    BY OwnerAssumption DEF IInv, TypeOK, Registers, Threads
  <2> QED BY <1>2, <2>1 DEF Consume
<1>3. ASSUME NEW th \in Threads,
             \/ th \in Conns /\ (SeatRefund(th) \/ SwitchRefund(th) \/ LeaveRefund(th))
             \/ CloseRefund(th)
      PROVE  \/ UNCHANGED storeVars
             \/ \E b \in {reg[th].buyIn, reg[th].stack} :
                    b # NoBuyIn /\ CreditWallet(Actor(th), b)
  <2>1. /\ At(th, "seatRefund") => reg[th].buyIn # NoBuyIn
        /\ pc[th] \in RefundPcs => reg[th].stack # NoBuyIn
    BY HeldIsBuyIn DEF IInv, HandsFull, At, HandPcs
  <2>2. th \in Conns => Owner[th] = Actor(th)
    BY ConnActor
  <2> QED BY <1>3, <2>1, <2>2 DEF SeatRefund, SwitchRefund, LeaveRefund, CloseRefund,
          Refund, At, RefundPcs, storeVars
<1>4. ASSUME NEW th \in Threads,
             \/ th \in Conns /\ \/ ReadError(th) \/ TakeSeat(th) \/ SeatMark(th)
                                \/ SwitchRead(th) \/ SwitchLeave(th) \/ SwitchMark(th)
                                \/ LeaveTable(th) \/ LeaveMark(th)
             \/ Close(th) \/ CloseTable(th) \/ CloseRead(th) \/ CloseLeave(th)
             \/ CloseEnd(th) \/ Tell(th)
      PROVE  UNCHANGED storeVars
  BY <1>4 DEF ReadError, TakeSeat, SeatMark, SwitchRead, SwitchLeave, SwitchMark,
     LeaveTable, LeaveMark, Close, CloseTable, CloseRead, CloseLeave, CloseEnd, Tell
<1>5. ASSUME Environment
      PROVE  \/ UNCHANGED storeVars
             \/ \E p \in PlayerIds : EnsureWallet(p)
             \/ \E p \in PlayerIds, t \in TableIds, amount \in Amounts :
                    CreateBuyIn(p, t, amount)
  BY <1>5 DEF Environment, OpenSession, TableBuyIn, Revoke, Connect, Hangup,
     ReceiveJoin, ReceiveLeave
<1>6. ASSUME NEW th \in Threads, Step(th)
      PROVE  \/ UNCHANGED storeVars
             \/ \E p \in PlayerIds, t \in TableIds : ConsumePendingBuyIn(p, t)
             \/ \E b \in {reg[th].buyIn, reg[th].stack} :
                    b # NoBuyIn /\ CreditWallet(Actor(th), b)
  BY <1>2, <1>3, <1>4, <1>6 DEF Step, ConnStep, CloseStep
<1> QED BY <1>1, <1>5, <1>6 DEF Next

(* The rows of the buy-ins do not change while neither the buy-ins nor     *)
(* what is pending does.                                                   *)
LEMMA RowsStay ==
    ASSUME UNCHANGED <<pending, buyIns>>
    PROVE  Rows' = Rows
<1>1. ASSUME NEW b
      PROVE  RowOf(b)' = RowOf(b)
  BY DEF RowOf, BuyInId, PendingPlaces
<1> QED BY <1>1 DEF Rows

(* What the types say of the store.                                        *)
LEMMA StoreTyped ==
    ASSUME IInv
    PROVE  /\ balances \in [PlayerIds -> Nat \cup {NoWallet}]
           /\ pending \in [PlayerIds -> [TableIds -> Nat]]
           /\ buyIns \in Seq(BuyIn) /\ Len(buyIns) \in Nat
           /\ BuyInId \subseteq 1 .. MaxBuyIns
           /\ \A b \in BuyInId : buyIns[b] \in BuyIn
<1>1. buyIns \in Seq(BuyIn)
  BY DEF IInv, TypeOK, StoreTypeOK
<1> QED BY <1>1, HeldIsBuyIn DEF IInv, TypeOK, StoreTypeOK, BuyInId

(* A new session opens a wallet.                                           *)
LEMMA EnsureWalletIsOpen ==
    ASSUME IInv, NEW p \in PlayerIds, EnsureWallet(p)
    PROVE  Ledger!Open(p, InitialBalance)
<1>1. Rows' = Rows
  BY RowsStay DEF EnsureWallet
<1> QED BY <1>1 DEF EnsureWallet, HasWallet, NoWallet, Rows, Ledger!Open,
        Ledger!HasWallet, Ledger!NoWallet

(* A buy-in that is created is a charge, for a row that was not there.     *)
LEMMA CreateIsCharge ==
    ASSUME IInv, NEW p \in PlayerIds, NEW t \in TableIds, NEW amount \in Amounts,
           CreateBuyIn(p, t, amount)
    PROVE  \E b \in 1 .. MaxBuyIns : Ledger!Charge(p, t, amount, b)
<1> DEFINE row == [player |-> p, table |-> t, amount |-> amount]
<1>0. PICK n : n = Len(buyIns) + 1
  OBVIOUS
<1>1. /\ Len(buyIns) \in Nat /\ buyIns \in Seq(BuyIn)
      /\ pending \in [PlayerIds -> [TableIds -> Nat]]
      /\ BuyInId \subseteq 1 .. MaxBuyIns
  BY StoreTyped
<1>2. n \in 1 .. MaxBuyIns /\ n \notin BuyInId /\ BuyInId = 1 .. Len(buyIns)
  BY <1>0, <1>1, MaxBuyInsAssumption DEF CreateBuyIn, BuyInId
<1>3. /\ buyIns' = Append(buyIns, row)
      /\ pending[p][t] = NoBuyIn /\ pending' = [pending EXCEPT ![p][t] = n]
  BY <1>0 DEF CreateBuyIn
<1>4. /\ BuyInId' = BuyInId \cup {n} /\ buyIns'[n] = row
      /\ \A b \in BuyInId : buyIns'[b] = buyIns[b]
  <2>1. row \in BuyIn
    BY DEF BuyIn
  <2>2. Len(buyIns') = n /\ buyIns'[n] = row
        /\ \A b \in 1 .. Len(buyIns) : buyIns'[b] = buyIns[b]
    <3> HIDE DEF row
    <3> QED BY <1>0, <1>1, <1>3, <2>1
  <2>3. 1 .. n = (1 .. Len(buyIns)) \cup {n}
    BY <1>0, <1>1
  <2> HIDE DEF row
  <2> QED BY <1>2, <2>2, <2>3 DEF BuyInId
<1> HIDE DEF row
<1>5. \A q \in PlayerIds, u \in TableIds :
        pending'[q][u] = IF q = p /\ u = t THEN n ELSE pending[q][u]
  BY <1>1, <1>3
<1>6. PendingPlaces(n)' # {}
  <2>1. <<p, t>> \in PlayerIds \X TableIds /\ pending'[p][t] = n
    BY <1>5
  <2> QED BY <2>1 DEF PendingPlaces
<1>7. ASSUME NEW b \in BuyInId
      PROVE  PendingPlaces(b)' = PendingPlaces(b)
  <2>1. b # n /\ b # NoBuyIn
    BY <1>2, HeldIsBuyIn
  <2>2. \A x \in PlayerIds \X TableIds :
            pending'[x[1]][x[2]] = b <=> pending[x[1]][x[2]] = b
    <3>1. \A x \in PlayerIds \X TableIds : x[1] \in PlayerIds /\ x[2] \in TableIds
      OBVIOUS
    <3> QED BY <1>3, <1>5, <2>1, <3>1
  <2> QED BY <2>2 DEF PendingPlaces
<1>8. RowOf(n)' = [player |-> p, table |-> t, amount |-> amount, status |-> "pending"]
  BY <1>4, <1>6 DEF RowOf, row
<1>9. RowOf(n) = [status |-> "none"]
  BY <1>2 DEF RowOf
<1>10. ASSUME NEW b \in 1 .. MaxBuyIns, b # n
       PROVE  RowOf(b)' = RowOf(b)
  BY <1>4, <1>7, <1>10 DEF RowOf
<1>11. /\ Rows[n] = [status |-> "none"]
       /\ Rows' = [Rows EXCEPT ![n] = [player |-> p, table |-> t, amount |-> amount,
                                        status |-> "pending"]]
  BY <1>2, <1>8, <1>9, <1>10 DEF Rows
<1>12. Ledger!Charge(p, t, amount, n)
  BY <1>11 DEF CreateBuyIn, HasWallet, NoWallet, Rows, Ledger!Charge, Ledger!HasWallet,
     Ledger!NoWallet, Ledger!NoRow
<1> QED BY <1>2, <1>12

(* What is handed to a join was pending, and is not any more.              *)
LEMMA ConsumeIsConsume ==
    ASSUME IInv, NEW p \in PlayerIds, NEW t \in TableIds, ConsumePendingBuyIn(p, t)
    PROVE  \E b \in 1 .. MaxBuyIns : Ledger!Consume(b)
<1>0. PICK b : b = pending[p][t]
  OBVIOUS
<1>1. /\ pending \in [PlayerIds -> [TableIds -> Nat]]
      /\ BuyInId \subseteq 1 .. MaxBuyIns
  BY StoreTyped
<1>2. b # NoBuyIn /\ b \in BuyInId /\ NoBuyIn \notin BuyInId
  BY <1>0, HeldIsBuyIn DEF ConsumePendingBuyIn, HasPending
<1>3. /\ pending' = [pending EXCEPT ![p][t] = NoBuyIn] /\ UNCHANGED <<balances, buyIns>>
  BY DEF ConsumePendingBuyIn
<1>4. \A q \in PlayerIds, u \in TableIds :
        pending'[q][u] = IF q = p /\ u = t THEN NoBuyIn ELSE pending[q][u]
  BY <1>1, <1>3
<1>5. \A x \in PlayerIds \X TableIds : x[1] \in PlayerIds /\ x[2] \in TableIds
  OBVIOUS
<1>6. PendingPlaces(b) # {} /\ PendingPlaces(b)' = {}
  <2>1. <<p, t>> \in PendingPlaces(b)
    BY <1>0 DEF PendingPlaces
  <2>2. \A q \in PlayerIds, u \in TableIds : pending[q][u] = b => q = p /\ u = t
    BY <1>0, <1>2 DEF IInv, Spent, PendingUnspent, HasPending
  <2>3. \A x \in PlayerIds \X TableIds : pending'[x[1]][x[2]] # b
    BY <1>2, <1>4, <1>5, <2>2
  <2> QED BY <2>1, <2>3 DEF PendingPlaces
<1>7. ASSUME NEW d \in BuyInId, d # b
      PROVE  PendingPlaces(d)' = PendingPlaces(d)
  <2>1. d # NoBuyIn
    BY <1>2
  <2>2. \A x \in PlayerIds \X TableIds :
            pending'[x[1]][x[2]] = d <=> pending[x[1]][x[2]] = d
    BY <1>0, <1>4, <1>5, <1>7, <2>1
  <2> QED BY <2>2 DEF PendingPlaces
<1>8. BuyInId' = BuyInId /\ buyIns' = buyIns
  BY <1>3 DEF BuyInId
<1>9. RowOf(b).status = "pending" /\ RowOf(b)' = [RowOf(b) EXCEPT !.status = "consumed"]
  <2> DEFINE row(s) == [player |-> buyIns[b].player, table |-> buyIns[b].table,
                        amount |-> buyIns[b].amount, status |-> s]
  <2>1. RowOf(b) = row("pending")
    BY <1>2, <1>6 DEF RowOf
  <2>2. RowOf(b)' = row("consumed")
    BY <1>2, <1>6, <1>8 DEF RowOf
  <2>3. \A s, r : [row(s) EXCEPT !.status = r] = row(r) /\ row(s).status = s
    OBVIOUS
  <2> HIDE DEF row
  <2> QED BY <2>1, <2>2, <2>3
<1>10. ASSUME NEW d \in 1 .. MaxBuyIns, d # b
       PROVE  RowOf(d)' = RowOf(d)
  BY <1>7, <1>8, <1>10 DEF RowOf
<1>11. /\ b \in 1 .. MaxBuyIns /\ Rows[b] = RowOf(b)
       /\ Rows' = [Rows EXCEPT ![b] = [RowOf(b) EXCEPT !.status = "consumed"]]
  BY <1>1, <1>2, <1>9, <1>10 DEF Rows
<1>12. Ledger!Consume(b)
  <2>1. /\ Rows[b].status = "pending"
        /\ Rows' = [Rows EXCEPT ![b] = [Rows[b] EXCEPT !.status = "consumed"]]
    BY <1>9, <1>11
  <2> QED BY <1>3, <2>1 DEF Rows, Ledger!Consume, Ledger!IsPending
<1> QED BY <1>11, <1>12

(* A refund adds to a wallet that is there: whoever bought in has one.     *)
LEMMA CreditIsCredit ==
    ASSUME IInv, JInv, WalletInv, NEW th \in Threads,
           NEW b \in {reg[th].buyIn, reg[th].stack}, b # NoBuyIn,
           CreditWallet(Actor(th), b)
    PROVE  \E p \in PlayerIds, amount \in Amounts : Ledger!Credit(p, amount)
<1>1. b \in BuyInId /\ Buyer(b) = Actor(th) /\ Actor(th) \in PlayerIds
  BY HeldIsBuyIn, ActorIsPlayer DEF JInv, Owned, IInv
<1>2. PICK p \in PlayerIds : p = Actor(th)
  BY <1>1
<1>3. PICK amount \in Amounts : amount = buyIns[b].amount
  BY <1>1, StoreTyped DEF BuyIn
<1>4. HasWallet(p)
  BY <1>1, <1>2 DEF WalletInv
<1>5. balances' = [balances EXCEPT ![p] = balances[p] + amount]
  BY <1>2, <1>3, <1>4 DEF CreditWallet, Balance
<1>6. Rows' = Rows
  BY RowsStay DEF CreditWallet
<1>7. Ledger!Credit(p, amount)
  BY <1>4, <1>5, <1>6 DEF Rows, HasWallet, NoWallet, Ledger!Credit, Ledger!HasWallet,
     Ledger!NoWallet
<1> QED BY <1>7

(* Every step is a transfer, or none.                                      *)
LEMMA LedgerStep ==
    ASSUME IInv, JInv, WalletInv, [Next]_vars
    PROVE  Ledger!LedgerNext \/ UNCHANGED <<balances, Rows>>
<1>1. CASE UNCHANGED storeVars
  BY <1>1, RowsStay DEF storeVars
<1>2. ASSUME NEW p \in PlayerIds, EnsureWallet(p)
      PROVE  Ledger!LedgerNext
  BY <1>2, EnsureWalletIsOpen DEF Ledger!LedgerNext
<1>3. ASSUME NEW p \in PlayerIds, NEW t \in TableIds, NEW amount \in Amounts,
             CreateBuyIn(p, t, amount)
      PROVE  Ledger!LedgerNext
  BY <1>3, CreateIsCharge DEF Ledger!LedgerNext, Ledger!BuyInIds
<1>4. ASSUME NEW p \in PlayerIds, NEW t \in TableIds, ConsumePendingBuyIn(p, t)
      PROVE  Ledger!LedgerNext
  BY <1>4, ConsumeIsConsume DEF Ledger!LedgerNext, Ledger!BuyInIds
<1>5. ASSUME NEW th \in Threads, NEW b \in {reg[th].buyIn, reg[th].stack},
             b # NoBuyIn, CreditWallet(Actor(th), b)
      PROVE  Ledger!LedgerNext
  BY <1>5, CreditIsCredit DEF Ledger!LedgerNext
<1> QED BY <1>1, <1>2, <1>3, <1>4, <1>5, StoreCalls

(* And the start is an empty ledger.                                       *)
LEMMA LedgerStart == Init => Ledger!LedgerInit
<1> SUFFICES ASSUME Init PROVE Ledger!LedgerInit
  OBVIOUS
<1>1. BuyInId = {}
  BY DEF Init, StoreInit, BuyInId
<1>2. \A b : RowOf(b) = [status |-> "none"]
  BY <1>1 DEF RowOf
<1> QED BY <1>2 DEF Init, StoreInit, NoWallet, Ledger!LedgerInit, Ledger!NoWallet,
        Ledger!NoRow, Ledger!BuyInIds

(* The application over the in-memory store implements the ledger, for any *)
(* number of players, threads and buy-ins and any failures of its calls:   *)
(* what PostgresStore promises by the same ledger is all it relies on      *)
(* (event_store.go noopEventStore; state_helpers.go).                      *)
THEOREM ServiceImplementsLedger == Spec => ImplementsLedger
<1>1. IInv /\ IInv' /\ JInv /\ JInv' /\ WalletInv /\ [Next]_vars => WalletInv'
  BY NextWallets
<1>2. IInv /\ JInv /\ WalletInv /\ [Next]_vars => [Ledger!LedgerNext]_(Ledger!ledgerVars)
  BY LedgerStep DEF Ledger!ledgerVars, Rows
<1> QED BY <1>1, <1>2, LedgerStart, InitWallets, InitIInv, NextIInv, InitJInv, NextJInv,
        PTL DEF Spec, ImplementsLedger, Ledger!LedgerSpec
=============================================================================
