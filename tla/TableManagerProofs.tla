------------------------- MODULE TableManagerProofs -------------------------
(***************************************************************************)
(* The properties of the table manager, for every number of seats, players *)
(* and tables and whatever a saved snapshot holds.                         *)
(***************************************************************************)
EXTENDS TableManager, TableProofs

(***************************************************************************)
(* The inductive invariant.  SeqNamesSnapshot does not say that what was   *)
(* published of a table is about one of the tables and has a number, which *)
(* the comparison with a growing sequence number needs.                    *)
(***************************************************************************)
PublishedOK ==
    \A r \in published : r.table \in TableIds /\ r.seq \in Nat

IInv ==
    /\ TypeOK
    /\ SeatsMatchIndex
    /\ PublishedOK
    /\ SeqNamesSnapshot

(* What the invariant says of one table, and back.                         *)
LEMMA TablesOK ==
    ASSUME TypeOK, SeatsMatchIndex, NEW t \in TableIds
    PROVE  TableOK(tables[t])
BY DEF TypeOK, SeatsMatchIndex, TableOK

(* A step that puts a well-formed record at one table keeps the other      *)
(* tables, and so the typing and the agreement of all.                     *)
LEMMA HandKeepsTables ==
    ASSUME TypeOK, SeatsMatchIndex, NEW t \in TableIds, NEW T, TableOK(T),
           tables' = [tables EXCEPT ![t] = T],
           booted' \in BOOLEAN
    PROVE  TypeOK' /\ SeatsMatchIndex'
<1>1. tables' \in [TableIds -> TableRecord]
  BY DEF TypeOK, TableOK
<1>2. ASSUME NEW u \in TableIds
      PROVE  SeatsAgree(tables'[u])
  BY TablesOK DEF TypeOK, TableOK
<1> QED BY <1>1, <1>2 DEF TypeOK, SeatsMatchIndex

(* A Join or a Leave publishes the new state of its table under the next   *)
(* number, which nothing was published under before.                       *)
LEMMA HandNamesSnapshot ==
    ASSUME IInv, NEW t \in TableIds, NEW T,
           T.seq = tables[t].seq + 1,
           Hand(t, T)
    PROVE  PublishedOK' /\ SeqNamesSnapshot'
<1> DEFINE new == Published(t, T)
<1>1. /\ tables[t].seq \in Nat
      /\ tables' = [tables EXCEPT ![t] = T]
      /\ tables \in [TableIds -> TableRecord]
      /\ published' = published \cup {new}
  BY DEF IInv, TypeOK, TableRecord, Hand
<1>2. new.table = t /\ new.seq = T.seq /\ new.snapshot = Snapshot(T)
  BY DEF Published
<1>3. PublishedOK'
  BY <1>1, <1>2 DEF IInv, PublishedOK
<1>4. ASSUME NEW r \in published
      PROVE  /\ r.seq \in Nat /\ r.table \in TableIds
             /\ r.seq <= tables[r.table].seq
             /\ r.seq = tables[r.table].seq => r.snapshot = Snapshot(tables[r.table])
             /\ r.table = t => r.seq < T.seq
  BY <1>1 DEF IInv, PublishedOK, SeqNamesSnapshot
<1>5. tables'[t] = T /\ \A u \in TableIds : u # t => tables'[u] = tables[u]
  BY <1>1
<1>6. ASSUME NEW r \in published'
      PROVE  /\ r.seq <= tables'[r.table].seq
             /\ r.seq = tables'[r.table].seq =>
                    r.snapshot = Snapshot(tables'[r.table])
  <2>1. CASE r = new
    BY <2>1, <1>1, <1>2, <1>5
  <2>2. CASE r \in published /\ r.table = t
    BY <2>2, <1>1, <1>4, <1>5
  <2>3. CASE r \in published /\ r.table # t
    BY <2>3, <1>4, <1>5
  <2> QED BY <2>1, <2>2, <2>3, <1>1
<1>7. ASSUME NEW r \in published', NEW q \in published',
             q.table = r.table, q.seq = r.seq
      PROVE  q.snapshot = r.snapshot
  <2>1. CASE r \in published /\ q \in published
    BY <2>1, <1>7 DEF IInv, SeqNamesSnapshot
  <2>2. CASE r = new \/ q = new
    BY <2>2, <1>1, <1>2, <1>4, <1>7
  <2> QED BY <2>1, <2>2, <1>1
<1> QED BY <1>3, <1>6, <1>7 DEF SeqNamesSnapshot

(* Before the application has booted nothing was published; at boot the    *)
(* first state of every table is.                                          *)
LEMMA BootNamesSnapshot ==
    ASSUME NEW tabs \in [TableIds -> TableRecord],
           tables' = tabs,
           published' = {Published(u, tabs[u]) : u \in TableIds}
    PROVE  PublishedOK' /\ SeqNamesSnapshot'
<1>1. ASSUME NEW r \in published'
      PROVE  /\ r.table \in TableIds
             /\ r.seq = tabs[r.table].seq
             /\ r.snapshot = Snapshot(tabs[r.table])
             /\ r.seq \in Nat
  BY DEF Published, TableRecord
<1> QED BY <1>1 DEF PublishedOK, SeqNamesSnapshot

LEMMA InitIInv == Init => IInv
<1> SUFFICES ASSUME Init PROVE IInv
  OBVIOUS
<1>1. TypeOK /\ SeatsMatchIndex
  BY EmptyTableOK DEF Init, TypeOK, SeatsMatchIndex, TableOK
<1>2. PublishedOK /\ SeqNamesSnapshot
  BY DEF Init, PublishedOK, SeqNamesSnapshot
<1> QED BY <1>1, <1>2 DEF IInv

LEMMA NextIInv == IInv /\ [Next]_vars => IInv'
<1> SUFFICES ASSUME IInv, [Next]_vars PROVE IInv'
  OBVIOUS
<1> USE DEF IInv
<1>1. CASE BootEmpty
  <2>1. TypeOK' /\ SeatsMatchIndex'
    BY <1>1 DEF BootEmpty, TypeOK, SeatsMatchIndex
  <2>2. PublishedOK' /\ SeqNamesSnapshot'
    BY <1>1, BootNamesSnapshot DEF BootEmpty, TypeOK
  <2> QED BY <2>1, <2>2
<1>2. ASSUME NEW t \in TableIds, NEW list \in SavedLists, NEW seq \in SavedSeqs,
             BootRestore(t, list, seq)
      PROVE  IInv'
  <2>1. TableOK(Restore(list, seq))
    BY <1>2, RestoreOK, SavedAssumption DEF BootRestore
  <2>2. TypeOK' /\ SeatsMatchIndex'
    BY <1>2, <2>1, HandKeepsTables DEF BootRestore
  <2>3. PublishedOK' /\ SeqNamesSnapshot'
    BY <1>2, <2>2, BootNamesSnapshot DEF BootRestore, TypeOK
  <2> QED BY <2>2, <2>3
<1>3. ASSUME NEW t \in TableIds, NEW p \in PlayerIds, NEW stack \in Stacks,
             NEW preferred \in -1 .. MaxPlayers,
             JoinTable(t, p, stack, preferred)
      PROVE  IInv'
  <2>1. PICK i \in AllocateSeat(tables[t], preferred) :
                Hand(t, Join(tables[t], p, stack, i))
    BY <1>3 DEF JoinTable
  <2> DEFINE J == Join(tables[t], p, stack, i)
  <2>2. TableOK(J)
    BY <1>3, TablesOK, AllocatedSeatIsFree, JoinOK, StacksAssumption
       DEF JoinTable
  <2>3. TypeOK' /\ SeatsMatchIndex'
    BY <1>3, <2>1, <2>2, HandKeepsTables DEF JoinTable, Hand, TypeOK
  <2>4. J.seq = tables[t].seq + 1
    BY DEF Join
  <2>5. PublishedOK' /\ SeqNamesSnapshot'
    BY <2>1, <2>4, HandNamesSnapshot
  <2> QED BY <2>3, <2>5
<1>4. ASSUME NEW t \in TableIds, NEW p \in PlayerIds, LeaveTable(t, p)
      PROVE  IInv'
  <2> DEFINE L == Leave(tables[t], p)
  <2>1. TableOK(L)
    BY <1>4, TablesOK, LeaveOK DEF LeaveTable
  <2>2. TypeOK' /\ SeatsMatchIndex'
    BY <1>4, <2>1, HandKeepsTables DEF LeaveTable, Hand, TypeOK
  <2>3. L.seq = tables[t].seq + 1
    BY DEF Leave
  <2>4. PublishedOK' /\ SeqNamesSnapshot'
    BY <1>4, <2>3, HandNamesSnapshot DEF LeaveTable
  <2> QED BY <2>2, <2>4
<1>5. ASSUME NEW t \in TableIds, ReadTable(t)
      PROVE  IInv'
  <2>1. tables' = tables /\ booted' = booted
    BY <1>5 DEF ReadTable, Hand, TypeOK
  <2>2. TypeOK' /\ SeatsMatchIndex'
    BY <2>1 DEF TypeOK, SeatsMatchIndex
  <2> DEFINE new == Published(t, tables[t])
  <2>3. published' = published \cup {new}
    BY <1>5 DEF ReadTable, Hand
  <2>4. /\ new.table = t /\ new.seq = tables[t].seq
        /\ new.snapshot = Snapshot(tables[t])
        /\ tables[t].seq \in Nat
    BY DEF Published, TypeOK, TableRecord
  <2>5. PublishedOK'
    BY <2>3, <2>4 DEF PublishedOK
  <2>6. SeqNamesSnapshot'
    BY <2>1, <2>3, <2>4 DEF SeqNamesSnapshot
  <2> QED BY <2>2, <2>5, <2>6
<1>6. CASE UNCHANGED vars
  BY <1>6 DEF vars, TypeOK, SeatsMatchIndex, PublishedOK, SeqNamesSnapshot
<1> QED BY <1>1, <1>2, <1>3, <1>4, <1>5, <1>6 DEF Next

(* The tables are well formed.                                             *)
THEOREM TypeCorrect == Spec => []TypeOK
<1>1. IInv => TypeOK
  BY DEF IInv
<1> QED BY <1>1, InitIInv, NextIInv, PTL DEF Spec

(* In every table the seats and the player index agree: nobody sits twice, *)
(* and everybody who sits can be removed.                                  *)
THEOREM SeatsAlwaysMatchIndex == Spec => []SeatsMatchIndex
<1>1. IInv => SeatsMatchIndex
  BY DEF IInv
<1> QED BY <1>1, InitIInv, NextIInv, PTL DEF Spec

(* One sequence number of a table is one snapshot.                         *)
THEOREM SeqAlwaysNamesSnapshot == Spec => []SeqNamesSnapshot
<1>1. IInv => SeqNamesSnapshot
  BY DEF IInv
<1> QED BY <1>1, InitIInv, NextIInv, PTL DEF Spec
=============================================================================
