------------------------- MODULE PublicationProofs -------------------------
(***************************************************************************)
(* What holds of screens, Redis and the event log for any number of        *)
(* players, tables, seats, errors and restarts, and any interleaving.      *)
(***************************************************************************)
EXTENDS PublicationProperties, TableProofs, SumProofs

(***************************************************************************)
(* The inductive invariant.                                                *)
(***************************************************************************)

TablesAgree == \A t \in TableIds : SeatsAgree(tables[t])

\* A message is the snapshot of some well-formed table.
Sound(m) == \E T : TableOK(T) /\ m.seq = T.seq /\ m.players = Snapshot(T)

MessagesSound ==
    /\ \A t \in TableIds : saved[t].table = t /\ Sound(saved[t])
    /\ \A p \in PlayerIds : Sound(reg[p].msg)

\* A connection that is off, or about to be, cannot be written to, and nobody
\* means to; the table in the hand of a handler is that of its connection, once
\* this one knows of it.
Wired ==
    /\ \A p \in open : ~ At(p, "off")
    /\ \A p \in PlayerIds : reg[p].todo \subseteq open
    /\ \A p \in PlayerIds :
            pc[p] \in {"answer", "list", "write", "log"}
                => reg[p].msg.table = client[p].table
    /\ \A p \in PlayerIds :
            /\ ~ At(p, "write") => reg[p].todo = {}
            /\ (pc[p] \in PublishPcs /\ reg[p].next = "off") => p \notin open

\* A player sits where his wsClient says.
SitsThere(p) ==
    /\ (pc[p] \in {"idle", "answer", "switch"} /\ client[p].seated)
            => IsSeated(tables[client[p].table], p)
    /\ (At(p, "mark") /\ reg[p].seated)
            => /\ IsSeated(tables[reg[p].msg.table], p)
               /\ reg[p].next = "idle"
    /\ (pc[p] \in {"list", "write", "log"} /\ client[p].seated)
            => \/ reg[p].next = "off"
               \/ reg[p].next = "idle" /\ IsSeated(tables[client[p].table], p)
    /\ pc[p] \in {"greet", "seat"} => ~ client[p].seated
    /\ At(p, "switch") => client[p].seated /\ ~ reg[p].seated

SeatHeld == \A p \in PlayerIds : SitsThere(p)

\* Who has a snapshot of a table that is not in overlapped is the only one, and
\* it is the table as it is.
OneHolder ==
    \A t \in TableIds \ overlapped : \A p \in PlayerIds :
        Holds(p, t) => /\ reg[p].msg = MessageOf(t)
                       /\ \A q \in PlayerIds : Holds(q, t) => q = p

\* Redis has the table from the save on, until the next handler takes it.
SavedInv ==
    \A t \in TableIds \ (overlapped \cup unsaved) :
        \/ saved[t] = MessageOf(t)
        \/ \E p \in PlayerIds : /\ pc[p] \in {"mark", "list", "write"}
                                /\ reg[p].msg.table = t

\* The events that the number n of table t stands for are logged, or will be.
Covered(t, n) ==
    \/ n \in events[t]
    \/ \E p \in PlayerIds : /\ pc[p] \in PublishPcs
                            /\ reg[p].msg.table = t /\ reg[p].msg.seq = n

LoggedInv ==
    /\ \A p \in PlayerIds :
            pc[p] \in {"answer"} \cup PublishPcs
                => reg[p].msg.seq <= tables[reg[p].msg.table].seq
    /\ \A t \in TableIds \ unlogged :
            /\ \A n \in 1 .. tables[t].seq : Covered(t, n)
            /\ \A n \in 1 .. saved[t].seq : Covered(t, n)

\* The table the connection of d is at, as its handler sees it.
Where(d) == IF At(d, "mark") THEN reg[d].msg.table ELSE client[d].table

\* The handler of q writes, or will write, to the connection of d.
Reaches(q, d) ==
    \/ pc[q] \in {"mark", "list"} /\ client[d].table = reg[q].msg.table
    \/ At(q, "write") /\ d \in reg[q].todo

\* Where a message of another table may arrive two handlers overlapped.
StraysKnown ==
    \A q, d \in PlayerIds :
        Reaches(q, d) => Where(d) \in {reg[q].msg.table} \cup overlapped

\* A screen is current, or a handler of its table has still to write to it.
Awaits(d) ==
    \E q \in PlayerIds :
        /\ reg[q].msg.table = client[d].table
        /\ pc[q] \in {"mark", "list"} \/ (At(q, "write") /\ d \in reg[q].todo)

ScreensInv ==
    \A d \in open :
        (pc[d] \notin {"greet", "answer", "mark"} /\ client[d].table \notin overlapped)
            => screen[d] = MessageOf(client[d].table) \/ Awaits(d)

IInv ==
    /\ TypeOK /\ TablesAgree /\ MessagesSound /\ Wired /\ SeatHeld /\ OneHolder
    /\ SavedInv /\ LoggedInv /\ StraysKnown /\ ScreensInv

-----------------------------------------------------------------------------
(* Facts about single states.                                              *)

Registers ==
    [to : TableIds, msg : Message, seated : BOOLEAN, todo : SUBSET PlayerIds,
     next : {"idle", "seat", "off"}]

(* What the types say of the records, field by field.                      *)
LEMMA Typed ==
    ASSUME IInv
    PROVE  /\ \A t \in TableIds : TableOK(tables[t]) /\ tables[t].seq \in Nat
           /\ reg \in [PlayerIds -> Registers]
           /\ pc \in [PlayerIds -> Pcs]
           /\ \A p \in PlayerIds : /\ reg[p].msg.table \in TableIds
                                   /\ reg[p].msg.seq \in Nat
                                   /\ client[p].table \in TableIds
<1>1. TypeOK /\ TablesAgree
  BY DEF IInv
<1>2. reg \in [PlayerIds -> Registers] /\ pc \in [PlayerIds -> Pcs]
  BY <1>1 DEF TypeOK, Registers
<1>3. \A t \in TableIds : TableOK(tables[t]) /\ tables[t].seq \in Nat
  BY <1>1 DEF TypeOK, TablesAgree, TableOK, TableRecord
<1>4. ASSUME NEW p \in PlayerIds
      PROVE  /\ reg[p].msg.table \in TableIds /\ reg[p].msg.seq \in Nat
             /\ client[p].table \in TableIds
  BY <1>1, <1>2, <1>4 DEF TypeOK, Registers, Message
<1> QED BY <1>2, <1>3, <1>4

(* What is sent of a well-formed table is sound.                           *)
LEMMA SnapshotIsSound ==
    ASSUME NEW t \in TableIds, NEW T, TableOK(T), NEW m,
           m = [table |-> t, seq |-> T.seq, players |-> Snapshot(T)]
    PROVE  m \in Message /\ Sound(m) /\ m.table = t /\ m.seq = T.seq
<1>1. Snapshot(T) \subseteq [player : PlayerIds, seat : Seat, stack : Nat]
  BY SnapshotEntries
<1>2. T.seq \in Nat
  BY DEF TableOK, TableRecord
<1> QED BY <1>1, <1>2 DEF Message, Sound

(* What is sent of a table as it is now is sound.                          *)
LEMMA MessageOfIsSound ==
    ASSUME IInv, NEW t \in TableIds
    PROVE  /\ MessageOf(t) \in Message /\ Sound(MessageOf(t))
           /\ MessageOf(t).table = t /\ MessageOf(t).seq = tables[t].seq
BY Typed, SnapshotIsSound DEF MessageOf

(* The message of a new table is that of the empty table.                  *)
LEMMA NewTableIsSound ==
    ASSUME NEW t \in TableIds
    PROVE  /\ NewTable(t) \in Message /\ Sound(NewTable(t)) /\ NewTable(t).table = t
           /\ NewTable(t).seq = 0
           /\ NewTable(t) = [table |-> t, seq |-> EmptyTable.seq,
                             players |-> Snapshot(EmptyTable)]
<1>1. Snapshot(EmptyTable) = {} /\ EmptyTable.seq = 0
  BY DEF Snapshot, IsFree, EmptyTable
<1>2. NewTable(t) = [table |-> t, seq |-> EmptyTable.seq, players |-> Snapshot(EmptyTable)]
  BY <1>1 DEF NewTable
<1> QED BY <1>1, <1>2, EmptyTableOK, SnapshotIsSound

(* The registers of a handler that has nothing in hand.                    *)
LEMMA BlankIsTyped ==
    /\ Blank \in Registers /\ Blank.todo = {} /\ Blank.next = "idle"
    /\ Blank.seated = FALSE /\ Sound(Blank.msg)
BY DefaultTableAssumption, NewTableIsSound DEF Blank, Registers

-----------------------------------------------------------------------------
(***************************************************************************)
(* A handler takes a new snapshot of a table: it changed the table, or was *)
(* told that it need not.  Every message under way that could now arrive   *)
(* at the wrong time is of a table that enters overlapped.                 *)
(***************************************************************************)
LEMMA TakeStep ==
    ASSUME IInv, NEW p \in PlayerIds, NEW t \in TableIds, NEW T, TableOK(T),
           NEW r \in Registers, r.todo = {}, Take(p, t, T, r),
           pc[p] \in {"switch", "idle", "seat"},
           NEW label \in {"mark", "list"}, Goto(p, label),
           label = "list" => client[p].table = t /\ r.next = "off",
           r.next = "off" => p \notin open,
           (label = "mark" /\ r.seated) => IsSeated(T, p) /\ r.next = "idle",
           T = tables[t] \/ T.seq = tables[t].seq + 1,
           \A q \in PlayerIds \ {p} : IsSeated(T, q) <=> IsSeated(tables[t], q),
           bank' \in [PlayerIds -> Nat],
           UNCHANGED <<client, open, screen, saved, events, boot, joins, restarts,
                       errors, unsaved, unlogged, doubted>>
    PROVE  IInv'
<1> USE Typed
<1>1. /\ tables' = [tables EXCEPT ![t] = T]
      /\ tables'[t] = T /\ \A u \in TableIds \ {t} : tables'[u] = tables[u]
  BY DEF Take, IInv, TypeOK
<1>2. /\ pc' \in [PlayerIds -> Pcs] /\ pc'[p] = label
      /\ \A q \in PlayerIds \ {p} : pc'[q] = pc[q]
  BY DEF Goto, Pcs, PublishPcs
<1>3. MessageOf(t)' = [table |-> t, seq |-> T.seq, players |-> Snapshot(T)]
  BY <1>1 DEF MessageOf
<1>4. /\ MessageOf(t)' \in Message /\ Sound(MessageOf(t)')
      /\ MessageOf(t)'.table = t /\ MessageOf(t)'.seq = T.seq
  BY <1>3, SnapshotIsSound
<1>5. \A u \in TableIds \ {t} : MessageOf(u)' = MessageOf(u)
  BY <1>1 DEF MessageOf
<1>6. reg' = [reg EXCEPT ![p] = [r EXCEPT !.msg = MessageOf(t)']]
  BY <1>3 DEF Take, SetReg
<1>7. /\ reg' \in [PlayerIds -> Registers]
      /\ reg'[p].msg = MessageOf(t)' /\ reg'[p].todo = {}
      /\ reg'[p].next = r.next /\ reg'[p].seated = r.seated
      /\ \A q \in PlayerIds \ {p} : reg'[q] = reg[q]
  <2> DEFINE s == [r EXCEPT !.msg = MessageOf(t)']
  <2>1. s \in Registers /\ s.msg = MessageOf(t)' /\ s.todo = {} /\ s.next = r.next
        /\ s.seated = r.seated
    BY <1>4 DEF Registers
  <2> HIDE DEF s
  <2>2. reg' = [reg EXCEPT ![p] = s]
    BY <1>6 DEF s
  <2> QED BY <2>1, <2>2
<1>8. /\ \A u \in TableIds : ~ Holds(p, u)
      /\ Holds(p, t)' /\ \A u \in TableIds : Holds(p, u)' => u = t
      /\ \A q \in PlayerIds \ {p}, u \in TableIds : Holds(q, u)' <=> Holds(q, u)
  BY <1>2, <1>4, <1>7 DEF Holds, PublishPcs
<1>9. overlapped \subseteq overlapped' /\ overlapped' \subseteq TableIds
  BY DEF Take, Overlap, IInv, TypeOK
<1>10. ASSUME NEW q \in PlayerIds \ {p}, NEW u \in TableIds, Holds(q, u),
              \/ u = t \/ u = client[p].table \/ client[q].table = t
              \/ p \in reg[q].todo
       PROVE  t \in overlapped' /\ u \in overlapped'
  BY <1>10 DEF Take, Overlap, Holds
<1>11. TypeOK'
  <2>1. tables' \in [TableIds -> TableRecord]
    BY <1>1 DEF TableOK, IInv, TypeOK
  <2> QED BY <2>1, <1>2, <1>7, <1>9 DEF IInv, TypeOK, Registers
<1>12. TablesAgree'
  BY <1>1 DEF TableOK, TablesAgree
<1>13. MessagesSound'
  BY <1>4, <1>7 DEF IInv, MessagesSound
<1>14. Wired'
  <2>1. \A q \in open : pc'[q] # "off"
    BY <1>2 DEF IInv, TypeOK, Wired, At
  <2>2. \A q \in PlayerIds : reg'[q].todo \subseteq open
    BY <1>7 DEF IInv, Wired
  <2>3. ASSUME NEW q \in PlayerIds, pc'[q] \in {"answer", "list", "write", "log"}
        PROVE  reg'[q].msg.table = client[q].table
    BY <2>3, <1>2, <1>4, <1>7 DEF IInv, Wired
  <2>4. ASSUME NEW q \in PlayerIds
        PROVE  /\ pc'[q] # "write" => reg'[q].todo = {}
               /\ (pc'[q] \in PublishPcs /\ reg'[q].next = "off") => q \notin open
    <3>1. CASE q = p
      BY <3>1, <1>2, <1>7
    <3>2. CASE q # p
      BY <3>2, <1>2, <1>7 DEF IInv, Wired, At
    <3> QED BY <3>1, <3>2
  <2> QED BY <2>1, <2>2, <2>3, <2>4 DEF Wired, At
<1>15. SeatHeld'
  <2> SUFFICES ASSUME NEW q \in PlayerIds
               PROVE  SitsThere(q)'
    BY DEF SeatHeld
  <2>1. CASE q = p
    BY <2>1, <1>1, <1>2, <1>4, <1>7 DEF SitsThere, At
  <2>2. CASE q # p
    <3>1. \A u \in TableIds : IsSeated(tables'[u], q) <=> IsSeated(tables[u], q)
      BY <1>1, <2>2
    <3> QED BY <2>2, <3>1, <1>2, <1>7 DEF IInv, SeatHeld, SitsThere, At
  <2> QED BY <2>1, <2>2
<1>16. OneHolder'
  <2> SUFFICES ASSUME NEW u \in TableIds, u \notin overlapped',
                      NEW q \in PlayerIds, Holds(q, u)'
               PROVE  /\ reg'[q].msg = MessageOf(u)'
                      /\ \A o \in PlayerIds : Holds(o, u)' => o = q
    BY DEF OneHolder
  <2>1. CASE u = t
    BY <2>1, <1>7, <1>8, <1>10
  <2>2. CASE u # t
    <3>1. q # p /\ Holds(q, u)
      BY <2>2, <1>8
    <3> QED BY <2>2, <3>1, <1>5, <1>7, <1>8, <1>9 DEF IInv, OneHolder
  <2> QED BY <2>1, <2>2
<1>17. SavedInv'
  <2> SUFFICES ASSUME NEW u \in TableIds, u \notin overlapped', u \notin unsaved
               PROVE  \/ saved[u] = MessageOf(u)'
                      \/ \E q \in PlayerIds : /\ pc'[q] \in {"mark", "list", "write"}
                                              /\ reg'[q].msg.table = u
    BY DEF SavedInv
  <2>1. CASE u = t
    BY <2>1, <1>2, <1>4, <1>7
  <2>2. CASE u # t
    <3>1. \/ saved[u] = MessageOf(u)
          \/ \E q \in PlayerIds : /\ pc[q] \in {"mark", "list", "write"}
                                  /\ reg[q].msg.table = u
      BY <1>9 DEF IInv, SavedInv
    <3> QED BY <2>2, <3>1, <1>2, <1>5, <1>7
  <2> QED BY <2>1, <2>2
<1>18. LoggedInv'
  <2>1. \A u \in TableIds : tables[u].seq <= tables'[u].seq /\ tables'[u].seq \in Nat
    BY <1>1 DEF TableOK, TableRecord
  <2>2. ASSUME NEW u \in TableIds, NEW n, Covered(u, n)
        PROVE  Covered(u, n)'
    BY <2>2, <1>2, <1>7 DEF Covered, PublishPcs
  <2>3. Covered(t, T.seq)'
    BY <1>2, <1>4, <1>7 DEF Covered, PublishPcs
  <2>4. ASSUME NEW q \in PlayerIds, pc'[q] \in {"answer"} \cup PublishPcs
        PROVE  reg'[q].msg.seq <= tables'[reg'[q].msg.table].seq
    <3>1. CASE q = p
      BY <3>1, <1>1, <1>4, <1>7, <2>1
    <3>2. CASE q # p
      <4>1. reg[q].msg.seq <= tables[reg[q].msg.table].seq
        BY <2>4, <3>2, <1>2 DEF IInv, LoggedInv
      <4> QED BY <3>2, <4>1, <1>7, <2>1
    <3> QED BY <3>1, <3>2
  <2>5. ASSUME NEW u \in TableIds, u \notin unlogged, NEW n \in 1 .. tables'[u].seq
        PROVE  Covered(u, n)'
    <3>1. CASE n \in 1 .. tables[u].seq
      BY <2>2, <2>5, <3>1 DEF IInv, LoggedInv
    <3>2. CASE n \notin 1 .. tables[u].seq
      <4>1. tables'[u].seq # tables[u].seq
        BY <2>5, <3>2
      <4>2. u = t /\ T.seq = tables[t].seq + 1 /\ tables'[t].seq = T.seq
        BY <1>1, <4>1
      <4>3. tables[t].seq \in Nat
        OBVIOUS
      <4>4. n \in 1 .. T.seq /\ n \notin 1 .. tables[t].seq
        BY <3>2, <4>2
      <4>5. ASSUME NEW k \in Nat, T.seq = k + 1, n \in 1 .. T.seq, n \notin 1 .. k
            PROVE  n = T.seq
        BY <4>5
      <4>6. n = T.seq
        BY <4>2, <4>3, <4>4, <4>5
      <4> QED BY <4>2, <4>6, <2>3
    <3> QED BY <3>1, <3>2
  <2>6. ASSUME NEW u \in TableIds, u \notin unlogged, NEW n \in 1 .. saved[u].seq
        PROVE  Covered(u, n)'
    BY <2>2, <2>6 DEF IInv, LoggedInv
  <2> QED BY <2>4, <2>5, <2>6 DEF LoggedInv
<1>19. StraysKnown'
  <2> SUFFICES ASSUME NEW q \in PlayerIds, NEW d \in PlayerIds, Reaches(q, d)',
                      Where(d)' # reg'[q].msg.table
               PROVE  Where(d)' \in overlapped'
    BY DEF StraysKnown
  <2>1. CASE q = p
    <3>1. client[d].table = t /\ reg'[q].msg.table = t
      BY <2>1, <1>2, <1>4, <1>7 DEF Reaches, At
    <3>2. d # p /\ At(d, "mark") /\ Where(d)' = reg[d].msg.table
      BY <3>1, <1>2, <1>4, <1>7 DEF Where, At
    <3>3. Holds(d, reg[d].msg.table)
      BY <3>2 DEF Holds, PublishPcs, At
    <3> QED BY <3>1, <3>2, <3>3, <1>10
  <2>2. CASE q # p
    <3>1. Reaches(q, d) /\ reg'[q] = reg[q] /\ Holds(q, reg[q].msg.table)
      BY <2>2, <1>2, <1>7 DEF Reaches, At, Holds, PublishPcs
    <3>2. CASE d # p
      <4>1. Where(d)' = Where(d)
        BY <3>2, <1>2, <1>7 DEF Where, At
      <4> QED BY <3>1, <4>1, <1>9 DEF IInv, StraysKnown
    <3>3. CASE d = p /\ label = "list"
      <4>1. Where(d)' = Where(d)
        BY <3>3, <1>2 DEF Where, At
      <4> QED BY <3>1, <4>1, <1>9 DEF IInv, StraysKnown
    <3>4. CASE d = p /\ label = "mark"
      <4>1. Where(d)' = t
        BY <3>4, <1>2, <1>4, <1>7 DEF Where, At
      <4>2. reg[q].msg.table = client[p].table \/ p \in reg[q].todo
        BY <3>1, <3>4 DEF Reaches
      <4> QED BY <4>1, <4>2, <3>1, <2>2, <1>10
    <3> QED BY <3>2, <3>3, <3>4
  <2> QED BY <2>1, <2>2
<1>20. ScreensInv'
  <2> SUFFICES ASSUME NEW d \in open, pc'[d] \notin {"greet", "answer", "mark"},
                      client[d].table \notin overlapped'
               PROVE  screen[d] = MessageOf(client[d].table)' \/ Awaits(d)'
    BY DEF ScreensInv
  <2>0. d \in PlayerIds
    BY DEF IInv, TypeOK
  <2>1. CASE client[d].table = t
    BY <2>1, <1>2, <1>4, <1>7 DEF Awaits
  <2>2. CASE client[d].table # t
    <3>1. d # p \/ pc[p] \notin {"greet", "answer", "mark"}
      OBVIOUS
    <3>2. screen[d] = MessageOf(client[d].table) \/ Awaits(d)
      BY <2>0, <3>1, <1>2, <1>9 DEF IInv, ScreensInv
    <3>3. Awaits(d) => Awaits(d)'
      BY <1>2, <1>7 DEF Awaits, At
    <3> QED BY <2>0, <2>2, <3>2, <3>3, <1>5
  <2> QED BY <2>1, <2>2
<1> QED BY <1>11, <1>12, <1>13, <1>14, <1>15, <1>16, <1>17, <1>18, <1>19, <1>20 DEF IInv

-----------------------------------------------------------------------------
(* The steps that take no table out of the manager, one lemma to each.     *)

(* A new connection: at the default table, with nothing on its screen yet. *)
LEMMA ConnectStep ==
    ASSUME IInv, NEW p \in PlayerIds, Connect(p)
    PROVE  IInv'
<1> USE Typed
<1>1. /\ At(p, "off") /\ p \notin open /\ open' = open \cup {p}
      /\ client' \in [PlayerIds -> [table : TableIds, seated : BOOLEAN]]
      /\ client'[p] = Offline /\ Offline.table = DefaultTable /\ ~ Offline.seated
      /\ \A q \in PlayerIds \ {p} : client'[q] = client[q]
      /\ pc' \in [PlayerIds -> Pcs] /\ pc'[p] = "greet"
      /\ \A q \in PlayerIds \ {p} : pc'[q] = pc[q]
  BY DefaultTableAssumption
     DEF Connect, Goto, At, Pcs, Offline, IInv, TypeOK, Wired
<1>2. UNCHANGED <<tables, reg, screen, storeVars, counters, history>>
  BY DEF Connect
<1>3. \A q \in PlayerIds, u \in TableIds : Holds(q, u)' <=> Holds(q, u)
  BY <1>1, <1>2 DEF Holds, At, PublishPcs
<1>4. \A u \in TableIds : MessageOf(u)' = MessageOf(u)
  BY <1>2 DEF MessageOf
<1>5. TypeOK'
  BY <1>1, <1>2 DEF IInv, TypeOK, storeVars, counters, history
<1>6. TablesAgree' /\ MessagesSound'
  BY <1>2 DEF IInv, TablesAgree, MessagesSound, storeVars
<1>7. Wired'
  <2>1. \A q \in open' : pc'[q] # "off"
    BY <1>1 DEF IInv, TypeOK, Wired, At
  <2>2. \A q \in PlayerIds : reg'[q].todo \subseteq open'
    BY <1>1, <1>2 DEF IInv, Wired
  <2>3. ASSUME NEW q \in PlayerIds, pc'[q] \in {"answer", "list", "write", "log"}
        PROVE  reg'[q].msg.table = client'[q].table
    BY <2>3, <1>1, <1>2 DEF IInv, Wired
  <2>4. ASSUME NEW q \in PlayerIds
        PROVE  /\ pc'[q] # "write" => reg'[q].todo = {}
               /\ (pc'[q] \in PublishPcs /\ reg'[q].next = "off") => q \notin open'
    BY <1>1, <1>2 DEF IInv, Wired, At, PublishPcs
  <2> QED BY <2>1, <2>2, <2>3, <2>4 DEF Wired, At
<1>8. SeatHeld'
  BY <1>1, <1>2 DEF IInv, SeatHeld, SitsThere, At
<1>9. OneHolder'
  BY <1>2, <1>3, <1>4 DEF IInv, OneHolder, history
<1>3a. \A q \in PlayerIds : (pc'[q] \in PublishPcs \/ pc[q] \in PublishPcs)
        => q # p /\ pc'[q] = pc[q]
  BY <1>1 DEF PublishPcs, At
<1>10. SavedInv'
  BY <1>2, <1>4, <1>3a DEF IInv, SavedInv, storeVars, history, PublishPcs
<1>11. LoggedInv'
  <2>1. \A u \in TableIds : \A n : Covered(u, n) => Covered(u, n)'
    BY <1>2, <1>3a DEF Covered, storeVars
  <2>2. ASSUME NEW q \in PlayerIds, pc'[q] \in {"answer"} \cup PublishPcs
        PROVE  reg'[q].msg.seq <= tables[reg'[q].msg.table].seq
    <3>1. pc[q] \in {"answer"} \cup PublishPcs /\ reg'[q] = reg[q]
      BY <2>2, <1>1, <1>2 DEF PublishPcs
    <3> QED BY <3>1 DEF IInv, LoggedInv
  <2> QED BY <2>1, <2>2, <1>2 DEF IInv, LoggedInv, storeVars, history
<1>12. StraysKnown'
  <2> SUFFICES ASSUME NEW q \in PlayerIds, NEW d \in PlayerIds, Reaches(q, d)'
               PROVE  Where(d)' \in {reg'[q].msg.table} \cup overlapped'
    BY DEF StraysKnown
  <2>1. q # p /\ pc'[q] = pc[q]
    BY <1>1 DEF Reaches, At
  <2>2. CASE d # p
    BY <2>1, <2>2, <1>1, <1>2 DEF IInv, StraysKnown, Reaches, Where, At, history
  <2>3. CASE d = p
    <3>1. p \notin reg[q].todo
      BY <1>1 DEF IInv, Wired
    <3> QED BY <2>1, <2>3, <3>1, <1>1, <1>2 DEF Reaches, Where, At
  <2> QED BY <2>2, <2>3
<1>13. ScreensInv'
  <2> SUFFICES ASSUME NEW d \in open',
                      pc'[d] \notin {"greet", "answer", "mark"},
                      client'[d].table \notin overlapped
               PROVE  screen[d] = MessageOf(client'[d].table) \/ Awaits(d)'
    BY <1>2 DEF ScreensInv, history, MessageOf
  <2>1. d \in open \ {p} /\ d \in PlayerIds /\ client'[d] = client[d] /\ pc'[d] = pc[d]
    BY <1>1 DEF IInv, TypeOK
  <2>2. Awaits(d) => Awaits(d)'
    BY <2>1, <1>1, <1>2 DEF Awaits, At
  <2> QED BY <2>1, <2>2 DEF IInv, ScreensInv
<1> QED BY <1>5, <1>6, <1>7, <1>8, <1>9, <1>10, <1>11, <1>12, <1>13 DEF IInv

(* The snapshot of a greeting is read: others that have one of the same    *)
(* table, or of one on its way to this connection, now overlap with it.    *)
LEMMA ReadSnapshotStep ==
    ASSUME IInv, NEW p \in PlayerIds, ReadSnapshot(p)
    PROVE  IInv'
<1> USE Typed
<1> DEFINE t == client[p].table
<1>1. /\ pc[p] \in {"greet", "idle"} /\ pc' \in [PlayerIds -> Pcs] /\ pc'[p] = "answer"
      /\ \A q \in PlayerIds \ {p} : pc'[q] = pc[q]
  BY DEF ReadSnapshot, Goto, At, Pcs
<1>2. UNCHANGED <<tables, client, open, screen, storeVars, counters, unsaved,
                  unlogged, doubted>>
  BY DEF ReadSnapshot
<1>3. /\ reg' \in [PlayerIds -> Registers]
      /\ reg'[p].msg = MessageOf(t) /\ reg'[p].todo = {}
      /\ \A q \in PlayerIds \ {p} : reg'[q] = reg[q]
  <2> DEFINE s == [Blank EXCEPT !.msg = MessageOf(t)]
  <2>1. s \in Registers /\ s.msg = MessageOf(t) /\ s.todo = {}
    BY MessageOfIsSound, BlankIsTyped DEF Registers
  <2> HIDE DEF s
  <2>2. reg' = [reg EXCEPT ![p] = s]
    BY DEF ReadSnapshot, SetReg, s
  <2> QED BY <2>1, <2>2
<1>4. MessageOf(t).table = t /\ MessageOf(t).seq = tables[t].seq /\ Sound(MessageOf(t))
  BY MessageOfIsSound
<1>5. \A u \in TableIds : MessageOf(u)' = MessageOf(u)
  BY <1>2 DEF MessageOf
<1>6. overlapped \subseteq overlapped' /\ overlapped' \subseteq TableIds
  BY DEF ReadSnapshot, Overlap, IInv, TypeOK
<1>7. ASSUME NEW q \in PlayerIds \ {p}, Holds(q, t)
      PROVE  t \in overlapped'
  BY <1>7 DEF ReadSnapshot, Overlap
<1>8. \A q \in PlayerIds : (pc'[q] \in PublishPcs \/ pc[q] \in PublishPcs)
        => q # p /\ pc'[q] = pc[q] /\ reg'[q] = reg[q]
  BY <1>1, <1>3 DEF PublishPcs
<1>9. TypeOK'
  BY <1>1, <1>2, <1>3, <1>6 DEF IInv, TypeOK, Registers, storeVars, counters
<1>10. TablesAgree' /\ MessagesSound'
  BY <1>2, <1>3, <1>4 DEF IInv, TablesAgree, MessagesSound, storeVars
<1>11. Wired'
  <2>1. \A q \in open : pc'[q] # "off"
    BY <1>1 DEF IInv, TypeOK, Wired, At
  <2>2. \A q \in PlayerIds : reg'[q].todo \subseteq open
    BY <1>3 DEF IInv, Wired
  <2>3. ASSUME NEW q \in PlayerIds, pc'[q] \in {"answer", "list", "write", "log"}
        PROVE  reg'[q].msg.table = client[q].table
    BY <2>3, <1>1, <1>3, <1>4 DEF IInv, Wired
  <2>4. ASSUME NEW q \in PlayerIds
        PROVE  /\ pc'[q] # "write" => reg'[q].todo = {}
               /\ (pc'[q] \in PublishPcs /\ reg'[q].next = "off") => q \notin open
    BY <1>1, <1>3, <1>8 DEF IInv, Wired, At
  <2> QED BY <2>1, <2>2, <2>3, <2>4, <1>2 DEF Wired, At
<1>12. SeatHeld'
  BY <1>1, <1>2, <1>3 DEF IInv, SeatHeld, SitsThere, At
<1>13. OneHolder'
  <2> SUFFICES ASSUME NEW u \in TableIds, u \notin overlapped',
                      NEW q \in PlayerIds, Holds(q, u)'
               PROVE  /\ reg'[q].msg = MessageOf(u)
                      /\ \A o \in PlayerIds : Holds(o, u)' => o = q
    BY <1>5 DEF OneHolder
  <2>1. \A o \in PlayerIds \ {p} : Holds(o, u)' <=> Holds(o, u)
    BY <1>1, <1>3 DEF Holds
  <2>2. Holds(p, u)' => u = t
    BY <1>3, <1>4 DEF Holds
  <2>3. ASSUME NEW o \in PlayerIds \ {p}, Holds(o, u)
        PROVE  u # t
    BY <1>7, <2>3
  <2> QED BY <2>1, <2>2, <2>3, <1>3, <1>6 DEF IInv, OneHolder
<1>14. SavedInv'
  BY <1>2, <1>5, <1>6, <1>8 DEF IInv, SavedInv, storeVars, PublishPcs
<1>15. LoggedInv'
  <2>1. \A u \in TableIds : \A n : Covered(u, n) => Covered(u, n)'
    BY <1>2, <1>8 DEF Covered, storeVars
  <2>2. ASSUME NEW q \in PlayerIds, pc'[q] \in {"answer"} \cup PublishPcs
        PROVE  reg'[q].msg.seq <= tables[reg'[q].msg.table].seq
    BY <2>2, <1>1, <1>3, <1>4 DEF IInv, LoggedInv
  <2> QED BY <2>1, <2>2, <1>2 DEF IInv, LoggedInv, storeVars
<1>16. StraysKnown'
  <2> SUFFICES ASSUME NEW q \in PlayerIds, NEW d \in PlayerIds, Reaches(q, d)'
               PROVE  Where(d)' \in {reg'[q].msg.table} \cup overlapped'
    BY DEF StraysKnown
  <2>1. q # p /\ Reaches(q, d) /\ reg'[q] = reg[q]
    BY <1>1, <1>2, <1>3 DEF Reaches, At
  <2>2. Where(d)' = Where(d)
    BY <1>1, <1>2, <1>3 DEF Where, At
  <2> QED BY <2>1, <2>2, <1>6 DEF IInv, StraysKnown
<1>17. ScreensInv'
  <2> SUFFICES ASSUME NEW d \in open, pc'[d] \notin {"greet", "answer", "mark"},
                      client[d].table \notin overlapped'
               PROVE  screen[d] = MessageOf(client[d].table) \/ Awaits(d)'
    BY <1>2 DEF ScreensInv, MessageOf
  <2>1. d # p /\ d \in PlayerIds /\ pc'[d] = pc[d]
    BY <1>1 DEF IInv, TypeOK
  <2>2. Awaits(d) => Awaits(d)'
    BY <1>2, <1>8 DEF Awaits, At, PublishPcs
  <2> QED BY <2>1, <2>2, <1>6 DEF IInv, ScreensInv
<1> QED BY <1>9, <1>10, <1>11, <1>12, <1>13, <1>14, <1>15, <1>16, <1>17 DEF IInv

(* The greeting arrives: who was alone with its table shows it as it is.   *)
LEMMA AnswerStep ==
    ASSUME IInv, NEW p \in PlayerIds, Answer(p)
    PROVE  IInv'
<1> USE Typed
<1>1. /\ pc[p] = "answer" /\ pc' \in [PlayerIds -> Pcs] /\ pc'[p] = "idle"
      /\ \A q \in PlayerIds \ {p} : pc'[q] = pc[q]
  BY DEF Answer, Goto, At, Pcs
<1>2. UNCHANGED <<tables, client, open, storeVars, counters, history>>
  BY DEF Answer
<1>3. /\ reg' \in [PlayerIds -> Registers] /\ reg'[p] = Blank
      /\ \A q \in PlayerIds \ {p} : reg'[q] = reg[q]
  BY BlankIsTyped DEF Answer, SetReg
<1>4. /\ screen' \in [PlayerIds -> Message]
      /\ p \in open => screen'[p] = reg[p].msg
      /\ \A q \in PlayerIds \ {p} : screen'[q] = screen[q]
  BY DEF Answer, Shown, IInv, TypeOK, Registers
<1>5. \A u \in TableIds : MessageOf(u)' = MessageOf(u)
  BY <1>2 DEF MessageOf
<1>6. \A q \in PlayerIds : (pc'[q] \in PublishPcs \/ pc[q] \in PublishPcs)
        => q # p /\ pc'[q] = pc[q] /\ reg'[q] = reg[q]
  BY <1>1, <1>3 DEF PublishPcs
<1>7. TypeOK'
  BY <1>1, <1>2, <1>3, <1>4 DEF IInv, TypeOK, Registers, storeVars, counters, history
<1>8. TablesAgree' /\ MessagesSound'
  BY <1>2, <1>3, BlankIsTyped DEF IInv, TablesAgree, MessagesSound, storeVars
<1>9. Wired'
  <2>1. \A q \in open : pc'[q] # "off"
    BY <1>1 DEF IInv, TypeOK, Wired, At
  <2>2. \A q \in PlayerIds : reg'[q].todo \subseteq open
    BY <1>3, BlankIsTyped DEF IInv, Wired
  <2>3. ASSUME NEW q \in PlayerIds, pc'[q] \in {"answer", "list", "write", "log"}
        PROVE  reg'[q].msg.table = client[q].table
    BY <2>3, <1>1, <1>3 DEF IInv, Wired
  <2>4. ASSUME NEW q \in PlayerIds
        PROVE  /\ pc'[q] # "write" => reg'[q].todo = {}
               /\ (pc'[q] \in PublishPcs /\ reg'[q].next = "off") => q \notin open
    BY <1>1, <1>3, <1>6, BlankIsTyped DEF IInv, Wired, At
  <2> QED BY <2>1, <2>2, <2>3, <2>4, <1>2 DEF Wired, At
<1>10. SeatHeld'
  BY <1>1, <1>2, <1>3 DEF IInv, SeatHeld, SitsThere, At
<1>11. OneHolder'
  <2>1. \A o \in PlayerIds, u \in TableIds : Holds(o, u)' => o # p /\ Holds(o, u)
    BY <1>1, <1>3 DEF Holds, PublishPcs
  <2> QED BY <2>1, <1>2, <1>3, <1>5 DEF IInv, OneHolder, history
<1>12. SavedInv'
  BY <1>2, <1>5, <1>6 DEF IInv, SavedInv, storeVars, history, PublishPcs
<1>13. LoggedInv'
  <2>1. \A u \in TableIds : \A n : Covered(u, n) => Covered(u, n)'
    BY <1>2, <1>6 DEF Covered, storeVars
  <2>2. ASSUME NEW q \in PlayerIds, pc'[q] \in {"answer"} \cup PublishPcs
        PROVE  reg'[q].msg.seq <= tables[reg'[q].msg.table].seq
    <3>1. q # p /\ pc[q] \in {"answer"} \cup PublishPcs /\ reg'[q] = reg[q]
      BY <2>2, <1>1, <1>3 DEF PublishPcs
    <3> QED BY <3>1 DEF IInv, LoggedInv
  <2> QED BY <2>1, <2>2, <1>2 DEF IInv, LoggedInv, storeVars, history
<1>14. StraysKnown'
  <2> SUFFICES ASSUME NEW q \in PlayerIds, NEW d \in PlayerIds, Reaches(q, d)'
               PROVE  Where(d)' \in {reg'[q].msg.table} \cup overlapped'
    BY DEF StraysKnown
  <2>1. q # p /\ Reaches(q, d) /\ reg'[q] = reg[q]
    BY <1>1, <1>2, <1>3 DEF Reaches, At
  <2>2. Where(d)' = Where(d)
    BY <1>1, <1>2, <1>3 DEF Where, At
  <2> QED BY <2>1, <2>2, <1>2 DEF IInv, StraysKnown, history
<1>15. ScreensInv'
  <2> SUFFICES ASSUME NEW d \in open, pc'[d] \notin {"greet", "answer", "mark"},
                      client[d].table \notin overlapped
               PROVE  screen'[d] = MessageOf(client[d].table) \/ Awaits(d)'
    BY <1>2 DEF ScreensInv, MessageOf, history
  <2>0. d \in PlayerIds
    BY DEF IInv, TypeOK
  <2>1. CASE d = p
    <3>1. Holds(p, client[p].table)
      BY <1>1 DEF Holds, IInv, Wired
    <3> QED BY <2>1, <3>1, <1>4 DEF IInv, OneHolder
  <2>2. CASE d # p
    <3>1. Awaits(d) => Awaits(d)'
      BY <1>2, <1>6 DEF Awaits, At, PublishPcs
    <3> QED BY <2>0, <2>2, <3>1, <1>1, <1>4 DEF IInv, ScreensInv
  <2> QED BY <2>1, <2>2
<1> QED BY <1>7, <1>8, <1>9, <1>10, <1>11, <1>12, <1>13, <1>14, <1>15 DEF IInv


(* A join request sends the thread to its seat, or to leave the old one.   *)
LEMMA JoinRequestStep ==
    ASSUME IInv, NEW p \in PlayerIds, NEW t \in TableIds, JoinRequest(p, t)
    PROVE  IInv'
<1> USE Typed
<1>1. /\ pc[p] = "idle" /\ pc' \in [PlayerIds -> Pcs]
      /\ pc'[p] = IF client[p].seated THEN "switch" ELSE "seat"
      /\ \A q \in PlayerIds \ {p} : pc'[q] = pc[q]
  BY DEF JoinRequest, Goto, At, Pcs
<1>2. UNCHANGED <<tables, client, open, screen, saved, events, boot, restarts,
                  errors, history>>
  BY DEF JoinRequest
<1>3. /\ reg' \in [PlayerIds -> Registers]
      /\ reg'[p].todo = {} /\ reg'[p].seated = FALSE /\ reg'[p].msg = Blank.msg
      /\ \A q \in PlayerIds \ {p} : reg'[q] = reg[q]
  <2> DEFINE s == [Blank EXCEPT !.to = t]
  <2>1. s \in Registers /\ s.todo = {} /\ s.seated = FALSE /\ s.msg = Blank.msg
    BY BlankIsTyped DEF Registers
  <2> HIDE DEF s
  <2>2. reg' = [reg EXCEPT ![p] = s]
    BY DEF JoinRequest, SetReg, s
  <2> QED BY <2>1, <2>2
<1>4. \A u \in TableIds : MessageOf(u)' = MessageOf(u)
  BY <1>2 DEF MessageOf
<1>5. \A q \in PlayerIds : (pc'[q] \in PublishPcs \/ pc[q] \in PublishPcs)
        => q # p /\ pc'[q] = pc[q] /\ reg'[q] = reg[q]
  BY <1>1, <1>3 DEF PublishPcs
<1>6. TypeOK'
  <2>1. bank' \in [PlayerIds -> Nat]
    <3>1. bank \in [PlayerIds -> Nat] /\ bank[p] > 0
      BY DEF JoinRequest, IInv, TypeOK
    <3>2. bank[p] - 1 \in Nat
      BY <3>1
    <3> QED BY <3>1, <3>2 DEF JoinRequest
  <2>2. joins' \in 0 .. MaxJoins
    BY PublicationBounds DEF JoinRequest, IInv, TypeOK
  <2> QED BY <2>1, <2>2, <1>1, <1>2, <1>3 DEF IInv, TypeOK, Registers, history
<1>7. TablesAgree' /\ MessagesSound'
  BY <1>2, <1>3, BlankIsTyped DEF IInv, TablesAgree, MessagesSound
<1>8. Wired'
  <2>1. \A q \in open : pc'[q] # "off"
    BY <1>1 DEF IInv, TypeOK, Wired, At
  <2>2. \A q \in PlayerIds : reg'[q].todo \subseteq open
    BY <1>3 DEF IInv, Wired
  <2>3. ASSUME NEW q \in PlayerIds, pc'[q] \in {"answer", "list", "write", "log"}
        PROVE  reg'[q].msg.table = client[q].table
    BY <2>3, <1>1, <1>3 DEF IInv, Wired
  <2>4. ASSUME NEW q \in PlayerIds
        PROVE  /\ pc'[q] # "write" => reg'[q].todo = {}
               /\ (pc'[q] \in PublishPcs /\ reg'[q].next = "off") => q \notin open
    BY <1>1, <1>3, <1>5 DEF IInv, Wired, At
  <2> QED BY <2>1, <2>2, <2>3, <2>4, <1>2 DEF Wired, At
<1>9. SeatHeld'
  BY <1>1, <1>2, <1>3 DEF IInv, SeatHeld, SitsThere, At
<1>10. OneHolder'
  <2>1. \A o \in PlayerIds, u \in TableIds : Holds(o, u)' => o # p /\ Holds(o, u)
    BY <1>1, <1>3 DEF Holds, PublishPcs
  <2> QED BY <2>1, <1>2, <1>3, <1>4 DEF IInv, OneHolder, history
<1>11. SavedInv'
  BY <1>2, <1>4, <1>5 DEF IInv, SavedInv, history, PublishPcs
<1>12. LoggedInv'
  <2>1. \A u \in TableIds : \A n : Covered(u, n) => Covered(u, n)'
    BY <1>2, <1>5 DEF Covered
  <2>2. ASSUME NEW q \in PlayerIds, pc'[q] \in {"answer"} \cup PublishPcs
        PROVE  reg'[q].msg.seq <= tables[reg'[q].msg.table].seq
    <3>1. q # p /\ pc[q] \in {"answer"} \cup PublishPcs /\ reg'[q] = reg[q]
      BY <2>2, <1>1, <1>3 DEF PublishPcs
    <3> QED BY <3>1 DEF IInv, LoggedInv
  <2> QED BY <2>1, <2>2, <1>2 DEF IInv, LoggedInv, history
<1>13. StraysKnown'
  <2> SUFFICES ASSUME NEW q \in PlayerIds, NEW d \in PlayerIds, Reaches(q, d)'
               PROVE  Where(d)' \in {reg'[q].msg.table} \cup overlapped'
    BY DEF StraysKnown
  <2>1. q # p /\ Reaches(q, d) /\ reg'[q] = reg[q]
    BY <1>1, <1>2, <1>3 DEF Reaches, At
  <2>2. Where(d)' = Where(d)
    BY <1>1, <1>2, <1>3 DEF Where, At
  <2> QED BY <2>1, <2>2, <1>2 DEF IInv, StraysKnown, history
<1>14. ScreensInv'
  <2> SUFFICES ASSUME NEW d \in open, pc'[d] \notin {"greet", "answer", "mark"},
                      client[d].table \notin overlapped
               PROVE  screen[d] = MessageOf(client[d].table) \/ Awaits(d)'
    BY <1>2 DEF ScreensInv, MessageOf, history
  <2>1. d \in PlayerIds /\ pc[d] \notin {"greet", "answer", "mark"}
    BY <1>1 DEF IInv, TypeOK
  <2>2. Awaits(d) => Awaits(d)'
    BY <1>2, <1>5 DEF Awaits, At, PublishPcs
  <2> QED BY <2>1, <2>2 DEF IInv, ScreensInv
<1> QED BY <1>6, <1>7, <1>8, <1>9, <1>10, <1>11, <1>12, <1>13, <1>14 DEF IInv

(* SetTableState: the connection follows its handler to the table in hand. *)
LEMMA MarkStep ==
    ASSUME IInv, NEW p \in PlayerIds, Mark(p)
    PROVE  IInv'
<1> USE Typed
<1>1. /\ pc[p] = "mark" /\ pc' \in [PlayerIds -> Pcs] /\ pc'[p] = "list"
      /\ \A q \in PlayerIds \ {p} : pc'[q] = pc[q]
  BY DEF Mark, Goto, At, Pcs, PublishPcs
<1>2. UNCHANGED <<tables, open, reg, screen, storeVars, counters, history>>
  BY DEF Mark
<1>3. /\ client' \in [PlayerIds -> [table : TableIds, seated : BOOLEAN]]
      /\ client'[p].table = reg[p].msg.table /\ client'[p].seated = reg[p].seated
      /\ \A q \in PlayerIds \ {p} : client'[q] = client[q]
  BY DEF Mark, IInv, TypeOK, Registers
<1>4. \A u \in TableIds : MessageOf(u)' = MessageOf(u)
  BY <1>2 DEF MessageOf
<1>5. \A q \in PlayerIds : /\ (pc'[q] \in PublishPcs <=> pc[q] \in PublishPcs)
                           /\ pc'[q] \in {"mark", "list"} <=> pc[q] \in {"mark", "list"}
                           /\ pc'[q] = "write" <=> pc[q] = "write"
                           /\ pc'[q] = "answer" <=> pc[q] = "answer"
  BY <1>1 DEF PublishPcs
<1>6. TypeOK'
  BY <1>1, <1>2, <1>3 DEF IInv, TypeOK, storeVars, counters, history
<1>7. TablesAgree' /\ MessagesSound'
  BY <1>2 DEF IInv, TablesAgree, MessagesSound, storeVars
<1>8. Wired'
  <2>1. \A q \in open : pc'[q] # "off"
    BY <1>1 DEF IInv, TypeOK, Wired, At
  <2>2. \A q \in PlayerIds : reg[q].todo \subseteq open
    BY DEF IInv, Wired
  <2>3. ASSUME NEW q \in PlayerIds, pc'[q] \in {"answer", "list", "write", "log"}
        PROVE  reg[q].msg.table = client'[q].table
    BY <2>3, <1>1, <1>3 DEF IInv, Wired
  <2>4. ASSUME NEW q \in PlayerIds
        PROVE  /\ pc'[q] # "write" => reg[q].todo = {}
               /\ (pc'[q] \in PublishPcs /\ reg[q].next = "off") => q \notin open
    BY <1>5 DEF IInv, Wired, At
  <2> QED BY <2>1, <2>2, <2>3, <2>4, <1>2 DEF Wired, At
<1>9. SeatHeld'
  BY <1>1, <1>2, <1>3 DEF IInv, SeatHeld, SitsThere, At
<1>10. OneHolder'
  <2>1. \A o \in PlayerIds, u \in TableIds : Holds(o, u)' <=> Holds(o, u)
    BY <1>2, <1>5 DEF Holds
  <2> QED BY <2>1, <1>2, <1>4 DEF IInv, OneHolder, history
<1>11. SavedInv'
  BY <1>2, <1>4, <1>5 DEF IInv, SavedInv, storeVars, history
<1>12. LoggedInv'
  BY <1>2, <1>5 DEF IInv, LoggedInv, Covered, storeVars, history
<1>13. StraysKnown'
  <2> SUFFICES ASSUME NEW q \in PlayerIds, NEW d \in PlayerIds, Reaches(q, d)'
               PROVE  Where(d)' \in {reg[q].msg.table} \cup overlapped
    BY <1>2 DEF StraysKnown, history
  <2>1. Where(d)' = Where(d)
    BY <1>1, <1>2, <1>3 DEF Where, At
  <2>2. CASE d # p
    <3>1. Reaches(q, d)
      BY <2>2, <1>2, <1>3, <1>5 DEF Reaches, At
    <3> QED BY <2>1, <3>1 DEF IInv, StraysKnown
  <2>3. CASE d = p
    <3>1. Where(p) = reg[p].msg.table /\ client'[p].table = reg[p].msg.table
      BY <1>1, <1>3 DEF Where, At
    <3>2. CASE pc[q] \in {"mark", "list"}
      BY <2>1, <2>3, <3>1, <3>2, <1>2, <1>5 DEF Reaches, At
    <3>3. CASE pc[q] \notin {"mark", "list"}
      <4>1. Reaches(q, p)
        BY <2>3, <3>3, <1>2, <1>5 DEF Reaches, At
      <4> QED BY <2>1, <2>3, <4>1 DEF IInv, StraysKnown
    <3> QED BY <3>2, <3>3
  <2> QED BY <2>2, <2>3
<1>14. ScreensInv'
  <2> SUFFICES ASSUME NEW d \in open, pc'[d] \notin {"greet", "answer", "mark"},
                      client'[d].table \notin overlapped
               PROVE  screen[d] = MessageOf(client'[d].table) \/ Awaits(d)'
    BY <1>2 DEF ScreensInv, MessageOf, history
  <2>0. d \in PlayerIds
    BY DEF IInv, TypeOK
  <2>1. CASE d = p
    BY <2>1, <1>1, <1>2, <1>3 DEF Awaits, At
  <2>2. CASE d # p
    <3>1. Awaits(d) => Awaits(d)'
      BY <2>0, <2>2, <1>2, <1>3, <1>5 DEF Awaits, At
    <3> QED BY <2>0, <2>2, <3>1, <1>1, <1>3 DEF IInv, ScreensInv
  <2> QED BY <2>1, <2>2
<1> QED BY <1>6, <1>7, <1>8, <1>9, <1>10, <1>11, <1>12, <1>13, <1>14 DEF IInv

(* clientsForTable: every open connection at the table is on the list.     *)
LEMMA ListStep ==
    ASSUME IInv, NEW p \in PlayerIds, List(p)
    PROVE  IInv'
<1> USE Typed
<1>1. /\ pc[p] = "list" /\ pc' \in [PlayerIds -> Pcs] /\ pc'[p] = "write"
      /\ \A q \in PlayerIds \ {p} : pc'[q] = pc[q]
  BY DEF List, Goto, At, Pcs, PublishPcs
<1>2. UNCHANGED <<tables, client, open, screen, storeVars, counters, history>>
  BY DEF List
<1> DEFINE all == {d \in open : client[d].table = reg[p].msg.table}
<1>3. /\ reg' \in [PlayerIds -> Registers]
      /\ reg'[p].todo = all
      /\ reg'[p].msg = reg[p].msg /\ reg'[p].next = reg[p].next
      /\ reg'[p].seated = reg[p].seated
      /\ \A q \in PlayerIds \ {p} : reg'[q] = reg[q]
  <2> DEFINE s == [reg[p] EXCEPT !.todo = all]
  <2>0. all \in SUBSET PlayerIds /\ reg[p] \in Registers
    BY DEF IInv, TypeOK
  <2>1. s \in Registers /\ s.todo = all /\ s.msg = reg[p].msg /\ s.next = reg[p].next
        /\ s.seated = reg[p].seated
    BY <2>0 DEF Registers
  <2> HIDE DEF s
  <2>2. reg' = [reg EXCEPT ![p] = s]
    BY DEF List, SetReg, s
  <2> QED BY <2>1, <2>2
<1> HIDE DEF all
<1>4. \A u \in TableIds : MessageOf(u)' = MessageOf(u)
  BY <1>2 DEF MessageOf
<1>5. \A q \in PlayerIds :
        /\ reg'[q].msg = reg[q].msg /\ reg'[q].next = reg[q].next
        /\ pc'[q] \in PublishPcs <=> pc[q] \in PublishPcs
        /\ pc'[q] \in {"mark", "list", "write"} <=> pc[q] \in {"mark", "list", "write"}
        /\ pc'[q] \in {"answer"} \cup PublishPcs <=> pc[q] \in {"answer"} \cup PublishPcs
        /\ pc'[q] = "mark" <=> pc[q] = "mark"
  BY <1>1, <1>3 DEF PublishPcs
<1>6. TypeOK'
  BY <1>1, <1>2, <1>3 DEF IInv, TypeOK, Registers, storeVars, counters, history
<1>7. TablesAgree' /\ MessagesSound'
  BY <1>2, <1>5 DEF IInv, TablesAgree, MessagesSound, storeVars
<1>8. Wired'
  <2>1. \A q \in open : pc'[q] # "off"
    BY <1>1 DEF IInv, TypeOK, Wired, At
  <2>2. \A q \in PlayerIds : reg'[q].todo \subseteq open
    BY <1>3 DEF IInv, Wired, all
  <2>3. ASSUME NEW q \in PlayerIds, pc'[q] \in {"answer", "list", "write", "log"}
        PROVE  reg'[q].msg.table = client[q].table
    BY <2>3, <1>1, <1>5 DEF IInv, Wired
  <2>4. ASSUME NEW q \in PlayerIds
        PROVE  /\ pc'[q] # "write" => reg'[q].todo = {}
               /\ (pc'[q] \in PublishPcs /\ reg'[q].next = "off") => q \notin open
    BY <1>1, <1>3, <1>5 DEF IInv, Wired, At
  <2> QED BY <2>1, <2>2, <2>3, <2>4, <1>2 DEF Wired, At
<1>9. SeatHeld'
  BY <1>1, <1>2, <1>3 DEF IInv, SeatHeld, SitsThere, At
<1>10. OneHolder'
  <2>1. \A o \in PlayerIds, u \in TableIds : Holds(o, u)' <=> Holds(o, u)
    BY <1>5 DEF Holds
  <2> QED BY <2>1, <1>2, <1>4, <1>5 DEF IInv, OneHolder, history
<1>11. SavedInv'
  BY <1>2, <1>4, <1>5 DEF IInv, SavedInv, storeVars, history
<1>12. LoggedInv'
  BY <1>2, <1>5 DEF IInv, LoggedInv, Covered, storeVars, history
<1>13. StraysKnown'
  <2> SUFFICES ASSUME NEW q \in PlayerIds, NEW d \in PlayerIds, Reaches(q, d)'
               PROVE  Where(d)' \in {reg[q].msg.table} \cup overlapped
    BY <1>2, <1>5 DEF StraysKnown, history
  <2>1. Where(d)' = Where(d)
    BY <1>2, <1>5 DEF Where, At
  <2>2. Reaches(q, d)
    <3>1. CASE q = p
      BY <3>1, <1>1, <1>3 DEF Reaches, At, all
    <3>2. CASE q # p
      BY <3>2, <1>1, <1>2, <1>3 DEF Reaches, At
    <3> QED BY <3>1, <3>2
  <2> QED BY <2>1, <2>2 DEF IInv, StraysKnown
<1>14. ScreensInv'
  <2> SUFFICES ASSUME NEW d \in open, pc'[d] \notin {"greet", "answer", "mark"},
                      client[d].table \notin overlapped
               PROVE  screen[d] = MessageOf(client[d].table) \/ Awaits(d)'
    BY <1>2 DEF ScreensInv, MessageOf, history
  <2>1. d \in PlayerIds /\ pc[d] \notin {"greet", "answer", "mark"}
    BY <1>1 DEF IInv, TypeOK
  <2>2. ASSUME Awaits(d) PROVE Awaits(d)'
    <3>1. PICK q \in PlayerIds :
                /\ reg[q].msg.table = client[d].table
                /\ pc[q] \in {"mark", "list"} \/ (At(q, "write") /\ d \in reg[q].todo)
      BY <2>2 DEF Awaits
    <3>2. CASE q = p
      BY <3>1, <3>2, <1>1, <1>2, <1>3 DEF Awaits, At, all
    <3>3. CASE q # p
      BY <3>1, <3>3, <1>1, <1>2, <1>3 DEF Awaits, At
    <3> QED BY <3>2, <3>3
  <2> QED BY <2>1, <2>2 DEF IInv, ScreensInv
<1> QED BY <1>6, <1>7, <1>8, <1>9, <1>10, <1>11, <1>12, <1>13, <1>14 DEF IInv


(* A connection is written to: with the table as it is, or with one that   *)
(* entered overlapped.                                                     *)
LEMMA WriteStep ==
    ASSUME IInv, NEW p \in PlayerIds, Write(p)
    PROVE  IInv'
<1> USE Typed
<1>0. PICK d \in reg[p].todo : /\ screen' = Shown(d, reg[p].msg)
                               /\ SetReg(p, [reg[p] EXCEPT !.todo = reg[p].todo \ {d}])
  BY DEF Write
<1>1. pc[p] = "write" /\ d \in PlayerIds
  BY DEF Write, At, IInv, TypeOK
<1>2. UNCHANGED <<tables, client, open, pc, storeVars, counters, history>>
  BY DEF Write
<1>3. /\ reg' \in [PlayerIds -> Registers]
      /\ reg'[p].todo = reg[p].todo \ {d}
      /\ reg'[p].msg = reg[p].msg /\ reg'[p].next = reg[p].next
      /\ reg'[p].seated = reg[p].seated
      /\ \A q \in PlayerIds \ {p} : reg'[q] = reg[q]
  <2> DEFINE rest == reg[p].todo \ {d}
             s == [reg[p] EXCEPT !.todo = rest]
  <2>0. rest \in SUBSET PlayerIds /\ reg[p] \in Registers
    BY DEF IInv, TypeOK
  <2> HIDE DEF rest
  <2>1. s \in Registers /\ s.todo = rest /\ s.msg = reg[p].msg /\ s.next = reg[p].next
        /\ s.seated = reg[p].seated
    BY <2>0 DEF Registers
  <2>2. reg' = [reg EXCEPT ![p] = s]
    BY <1>0 DEF SetReg, rest
  <2> HIDE DEF s
  <2> QED BY <2>1, <2>2 DEF rest
<1>4. /\ screen' \in [PlayerIds -> Message] /\ screen'[d] = reg[p].msg
      /\ \A q \in PlayerIds \ {d} : screen'[q] = screen[q]
  BY <1>0, <1>1 DEF Shown, IInv, TypeOK, Registers
<1>5. \A u \in TableIds : MessageOf(u)' = MessageOf(u)
  BY <1>2 DEF MessageOf
<1>6. \A q \in PlayerIds : /\ reg'[q].msg = reg[q].msg /\ reg'[q].next = reg[q].next
                           /\ reg'[q].seated = reg[q].seated
                           /\ reg'[q].todo \subseteq reg[q].todo
  BY <1>3
<1>7. TypeOK'
  BY <1>2, <1>3, <1>4 DEF IInv, TypeOK, Registers, storeVars, counters, history
<1>8. TablesAgree' /\ MessagesSound'
  BY <1>2, <1>6 DEF IInv, TablesAgree, MessagesSound, storeVars
<1>9. Wired'
  <2>1. \A q \in PlayerIds : ~ At(q, "write") => reg'[q].todo = {}
    BY <1>6 DEF IInv, Wired
  <2>2. \A q \in PlayerIds : reg'[q].todo \subseteq open
    BY <1>6 DEF IInv, Wired
  <2> QED BY <2>1, <2>2, <1>2, <1>6 DEF IInv, Wired, At
<1>10. SeatHeld'
  BY <1>2, <1>6 DEF IInv, SeatHeld, SitsThere, At
<1>11. OneHolder'
  <2>1. \A o \in PlayerIds, u \in TableIds : Holds(o, u)' <=> Holds(o, u)
    BY <1>2, <1>6 DEF Holds
  <2> QED BY <2>1, <1>2, <1>5, <1>6 DEF IInv, OneHolder, history
<1>12. SavedInv'
  BY <1>2, <1>5, <1>6 DEF IInv, SavedInv, storeVars, history
<1>13. LoggedInv'
  BY <1>2, <1>6 DEF IInv, LoggedInv, Covered, storeVars, history
<1>14. StraysKnown'
  <2>1. \A q \in PlayerIds : Where(q)' = Where(q)
    BY <1>2, <1>6 DEF Where, At
  <2>2. \A q, e \in PlayerIds : Reaches(q, e)' => Reaches(q, e)
    BY <1>2, <1>6 DEF Reaches, At
  <2> QED BY <2>1, <2>2, <1>2, <1>6 DEF IInv, StraysKnown, history
<1>15. ScreensInv'
  <2> SUFFICES ASSUME NEW e \in open, pc[e] \notin {"greet", "answer", "mark"},
                      client[e].table \notin overlapped
               PROVE  screen'[e] = MessageOf(client[e].table) \/ Awaits(e)'
    BY <1>2 DEF ScreensInv, MessageOf, history
  <2>0. e \in PlayerIds
    BY DEF IInv, TypeOK
  <2>1. CASE e = d
    <3>1. Reaches(p, e) /\ Where(e) = client[e].table
      BY <2>1, <1>1 DEF Reaches, Where, At
    <3>2. reg[p].msg.table = client[e].table
      BY <2>0, <3>1 DEF IInv, StraysKnown
    <3>3. Holds(p, client[e].table)
      BY <1>1, <3>2 DEF Holds, PublishPcs
    <3> QED BY <2>0, <2>1, <3>3, <1>4 DEF IInv, OneHolder
  <2>2. CASE e # d
    <3>1. Awaits(e) => Awaits(e)'
      BY <2>2, <1>2, <1>3 DEF Awaits, At
    <3> QED BY <2>0, <2>2, <3>1, <1>4 DEF IInv, ScreensInv
  <2> QED BY <2>1, <2>2
<1> QED BY <1>7, <1>8, <1>9, <1>10, <1>11, <1>12, <1>13, <1>14, <1>15 DEF IInv

(* persistSnapshot: the table in hand is in Redis, or its save is missed.  *)
LEMMA SaveStep ==
    ASSUME IInv, NEW p \in PlayerIds, Save(p)
    PROVE  IInv'
<1> USE Typed
<1> DEFINE t == reg[p].msg.table
<1>1. /\ pc[p] = "write" /\ reg[p].todo = {} /\ pc' \in [PlayerIds -> Pcs]
      /\ pc'[p] = "log" /\ \A q \in PlayerIds \ {p} : pc'[q] = pc[q]
  BY DEF Save, Goto, At, Pcs, PublishPcs
<1>2. UNCHANGED <<tables, client, open, reg, screen, events, bank, boot, joins,
                  restarts, overlapped, unlogged, doubted>>
  BY DEF Save
<1>3. /\ errors' \in 0 .. MaxErrors
      /\ \/ saved' = [saved EXCEPT ![t] = reg[p].msg] /\ unsaved' = unsaved \ {t}
         \/ /\ saved' \in {saved, [saved EXCEPT ![t] = reg[p].msg]}
            /\ unsaved' = unsaved \cup {t}
  BY PublicationBounds DEF Save, Overwritten, IInv, TypeOK
<1>4. \A u \in TableIds : MessageOf(u)' = MessageOf(u)
  BY <1>2 DEF MessageOf
<1>5. \A q \in PlayerIds :
        /\ pc'[q] \in PublishPcs <=> pc[q] \in PublishPcs
        /\ pc'[q] \in {"mark", "list"} <=> pc[q] \in {"mark", "list"}
        /\ pc'[q] \in {"answer"} \cup PublishPcs <=> pc[q] \in {"answer"} \cup PublishPcs
        /\ pc'[q] = "mark" <=> pc[q] = "mark"
  BY <1>1 DEF PublishPcs
<1>6. saved' \in [TableIds -> Message] /\ \A u \in TableIds \ {t} : saved'[u] = saved[u]
  BY <1>3 DEF IInv, TypeOK, Registers
<1>7. TypeOK'
  BY <1>1, <1>2, <1>3, <1>6 DEF IInv, TypeOK
<1>8. TablesAgree' /\ MessagesSound'
  BY <1>2, <1>3, <1>6 DEF IInv, TypeOK, TablesAgree, MessagesSound
<1>9. Wired'
  <2>1. \A q \in open : pc'[q] # "off"
    BY <1>1 DEF IInv, TypeOK, Wired, At
  <2>2. \A q \in PlayerIds : reg[q].todo \subseteq open
    BY DEF IInv, Wired
  <2>3. ASSUME NEW q \in PlayerIds, pc'[q] \in {"answer", "list", "write", "log"}
        PROVE  reg[q].msg.table = client[q].table
    BY <2>3, <1>1 DEF IInv, Wired
  <2>4. ASSUME NEW q \in PlayerIds
        PROVE  /\ pc'[q] # "write" => reg[q].todo = {}
               /\ (pc'[q] \in PublishPcs /\ reg[q].next = "off") => q \notin open
    BY <1>1, <1>5 DEF IInv, Wired, At
  <2> QED BY <2>1, <2>2, <2>3, <2>4, <1>2 DEF Wired, At
<1>10. SeatHeld'
  BY <1>1, <1>2 DEF IInv, SeatHeld, SitsThere, At
<1>11. OneHolder'
  <2>1. \A o \in PlayerIds, u \in TableIds : Holds(o, u)' <=> Holds(o, u)
    BY <1>2, <1>5 DEF Holds
  <2> QED BY <2>1, <1>2, <1>4 DEF IInv, OneHolder
<1>12. SavedInv'
  <2> SUFFICES ASSUME NEW u \in TableIds, u \notin overlapped, u \notin unsaved'
               PROVE  \/ saved'[u] = MessageOf(u)
                      \/ \E q \in PlayerIds : /\ pc'[q] \in {"mark", "list", "write"}
                                              /\ reg[q].msg.table = u
    BY <1>2, <1>4 DEF SavedInv
  <2>1. CASE u = t
    <3>1. Holds(p, t)
      BY <1>1 DEF Holds, PublishPcs
    <3>2. saved'[t] = reg[p].msg
      BY <2>1, <1>3 DEF IInv, TypeOK
    <3> QED BY <2>1, <3>1, <3>2 DEF IInv, OneHolder
  <2>2. CASE u # t
    <3>1. u \notin unsaved
      BY <2>2, <1>3
    <3> QED BY <2>2, <3>1, <1>1, <1>6 DEF IInv, SavedInv
  <2> QED BY <2>1, <2>2
<1>13. LoggedInv'
  <2>1. \A u \in TableIds : \A n : Covered(u, n)' <=> Covered(u, n)
    BY <1>2, <1>5 DEF Covered
  <2>2. reg[p].msg.seq <= tables[t].seq /\ tables[t].seq \in Nat /\ reg[p].msg.seq \in Nat
    BY <1>1 DEF IInv, LoggedInv, PublishPcs
  <2>3. ASSUME NEW u \in TableIds, u \notin unlogged, NEW n \in 1 .. saved'[u].seq
        PROVE  Covered(u, n)
    <3>1. CASE n \in 1 .. saved[u].seq
      BY <2>3, <3>1 DEF IInv, LoggedInv
    <3>2. CASE n \notin 1 .. saved[u].seq
      <4>1. u = t /\ saved'[t] = reg[p].msg
        BY <2>3, <3>2, <1>3, <1>6 DEF IInv, TypeOK
      <4>2. n \in 1 .. tables[u].seq
        BY <2>2, <2>3, <4>1
      <4> QED BY <2>3, <4>2 DEF IInv, LoggedInv
    <3> QED BY <3>1, <3>2
  <2> QED BY <2>1, <2>3, <1>2, <1>5 DEF IInv, LoggedInv
<1>14. StraysKnown'
  <2>1. \A q \in PlayerIds : Where(q)' = Where(q)
    BY <1>2, <1>5 DEF Where, At
  <2>2. \A q, e \in PlayerIds : Reaches(q, e)' => Reaches(q, e)
    BY <1>1, <1>2, <1>5 DEF Reaches, At
  <2> QED BY <2>1, <2>2, <1>2 DEF IInv, StraysKnown
<1>15. ScreensInv'
  <2>1. \A d \in open : Awaits(d) => Awaits(d)'
    BY <1>1, <1>2, <1>5 DEF Awaits, At
  <2>2. \A d \in open : d \in PlayerIds
                        /\ (pc'[d] \notin {"greet", "answer", "mark"}
                                => pc[d] \notin {"greet", "answer", "mark"})
    BY <1>1 DEF IInv, TypeOK
  <2> QED BY <2>1, <2>2, <1>2, <1>4 DEF IInv, ScreensInv, MessageOf
<1> QED BY <1>7, <1>8, <1>9, <1>10, <1>11, <1>12, <1>13, <1>14, <1>15 DEF IInv


(* persistTableEvent: the number in hand is logged, or the log misses it;  *)
(* the handler is through.                                                 *)
LEMMA LogStep ==
    ASSUME IInv, NEW p \in PlayerIds, Log(p)
    PROVE  IInv'
<1> USE Typed
<1> DEFINE t == reg[p].msg.table
<1>1. /\ pc[p] = "log" /\ reg[p].next \in {"idle", "seat", "off"}
      /\ pc' \in [PlayerIds -> Pcs] /\ pc'[p] = reg[p].next
      /\ \A q \in PlayerIds \ {p} : pc'[q] = pc[q]
  BY DEF Log, Goto, At, Pcs, PublishPcs, Registers
<1>2. UNCHANGED <<tables, client, open, screen, saved, bank, boot, joins, restarts,
                  overlapped, unsaved, doubted>>
  BY DEF Log
<1>3. /\ reg' \in [PlayerIds -> Registers]
      /\ reg'[p].todo = {} /\ reg'[p].msg = Blank.msg
      /\ \A q \in PlayerIds \ {p} : reg'[q] = reg[q]
  <2> DEFINE s == [Blank EXCEPT !.to = reg[p].to]
  <2>1. s \in Registers /\ s.todo = {} /\ s.msg = Blank.msg
    BY BlankIsTyped DEF Registers
  <2> HIDE DEF s
  <2>2. reg' = [reg EXCEPT ![p] = s]
    BY DEF Log, SetReg, s
  <2> QED BY <2>1, <2>2
<1>4. /\ errors' \in 0 .. MaxErrors
      /\ unlogged \subseteq unlogged' /\ unlogged' \subseteq TableIds
      /\ events' \in [TableIds -> SUBSET Nat]
      /\ \A u \in TableIds : events[u] \subseteq events'[u]
      /\ reg[p].msg.seq \in events'[t] \/ t \in unlogged'
  <2> DEFINE logged == [events EXCEPT ![t] = events[t] \cup {reg[p].msg.seq}]
  <2>1. /\ events \in [TableIds -> SUBSET Nat] /\ t \in TableIds
        /\ reg[p].msg.seq \in Nat /\ unlogged \subseteq TableIds
        /\ errors \in 0 .. MaxErrors
    BY DEF IInv, TypeOK
  <2>2. /\ logged \in [TableIds -> SUBSET Nat] /\ reg[p].msg.seq \in logged[t]
        /\ \A u \in TableIds : events[u] \subseteq logged[u]
    BY <2>1
  <2> HIDE DEF logged
  <2>3. CASE events' = logged /\ UNCHANGED <<unlogged, errors>>
    BY <2>1, <2>2, <2>3
  <2>4. CASE /\ errors < MaxErrors /\ errors' = errors + 1
             /\ unlogged' = unlogged \cup {t} /\ events' \in {events, logged}
    <3>1. errors' \in 0 .. MaxErrors
      BY <2>1, <2>4, PublicationBounds
    <3>2. events' = events \/ events' = logged
      BY <2>4
    <3> QED BY <2>1, <2>2, <2>4, <3>1, <3>2
  <2> QED BY <2>3, <2>4 DEF Log, logged
<1>5. \A u \in TableIds : MessageOf(u)' = MessageOf(u)
  BY <1>2 DEF MessageOf
<1>6. \A q \in PlayerIds : pc'[q] \in {"answer"} \cup PublishPcs
        => q # p /\ pc'[q] = pc[q] /\ reg'[q] = reg[q]
  BY <1>1, <1>3 DEF PublishPcs
<1>7. \A q \in PlayerIds : pc[q] \in {"mark", "list", "write"}
        => q # p /\ pc'[q] = pc[q] /\ reg'[q] = reg[q]
  BY <1>1, <1>3
<1>8. TypeOK'
  BY <1>1, <1>2, <1>3, <1>4 DEF IInv, TypeOK, Registers
<1>9. TablesAgree' /\ MessagesSound'
  BY <1>2, <1>3, BlankIsTyped DEF IInv, TablesAgree, MessagesSound
<1>10. Wired'
  <2>1. ASSUME NEW q \in open
        PROVE  pc'[q] # "off"
    <3>1. q \in PlayerIds /\ pc[q] # "off"
      BY DEF IInv, TypeOK, Wired, At
    <3>2. CASE q = p
      BY <3>2, <1>1 DEF IInv, Wired, PublishPcs
    <3> QED BY <3>1, <3>2, <1>1
  <2>2. \A q \in PlayerIds : reg'[q].todo \subseteq open
    BY <1>3 DEF IInv, Wired
  <2>3. ASSUME NEW q \in PlayerIds, pc'[q] \in {"answer", "list", "write", "log"}
        PROVE  reg'[q].msg.table = client[q].table
    BY <2>3, <1>1, <1>3 DEF IInv, Wired
  <2>4. ASSUME NEW q \in PlayerIds
        PROVE  /\ pc'[q] # "write" => reg'[q].todo = {}
               /\ (pc'[q] \in PublishPcs /\ reg'[q].next = "off") => q \notin open
    BY <1>1, <1>3, <1>6 DEF IInv, Wired, At
  <2> QED BY <2>1, <2>2, <2>3, <2>4, <1>2 DEF Wired, At
<1>11. SeatHeld'
  <2> SUFFICES ASSUME NEW q \in PlayerIds
               PROVE  SitsThere(q)'
    BY DEF SeatHeld
  <2>1. SitsThere(q)
    BY DEF IInv, SeatHeld
  <2>2. CASE q = p
    BY <2>1, <2>2, <1>1, <1>2 DEF SitsThere, At
  <2>3. CASE q # p
    BY <2>1, <2>3, <1>1, <1>2, <1>3 DEF SitsThere, At
  <2> QED BY <2>2, <2>3
<1>12. OneHolder'
  <2>1. \A o \in PlayerIds, u \in TableIds : Holds(o, u)' => o # p /\ Holds(o, u)
    BY <1>6 DEF Holds
  <2> QED BY <2>1, <1>2, <1>3, <1>5 DEF IInv, OneHolder
<1>13. SavedInv'
  BY <1>2, <1>5, <1>7 DEF IInv, SavedInv
<1>14. LoggedInv'
  <2>1. ASSUME NEW u \in TableIds, u \notin unlogged', NEW n, Covered(u, n)
        PROVE  Covered(u, n)'
    <3>1. CASE n \in events[u]
      BY <3>1, <1>4 DEF Covered
    <3>2. CASE u = t /\ n = reg[p].msg.seq
      BY <2>1, <3>2, <1>4 DEF Covered
    <3>3. CASE \E q \in PlayerIds \ {p} : /\ pc[q] \in PublishPcs
                                          /\ reg[q].msg.table = u /\ reg[q].msg.seq = n
      BY <3>3, <1>1, <1>3 DEF Covered
    <3> QED BY <2>1, <3>1, <3>2, <3>3 DEF Covered
  <2>2. ASSUME NEW q \in PlayerIds, pc'[q] \in {"answer"} \cup PublishPcs
        PROVE  reg'[q].msg.seq <= tables[reg'[q].msg.table].seq
    <3>1. pc[q] \in {"answer"} \cup PublishPcs /\ reg'[q] = reg[q]
      BY <2>2, <1>6
    <3> QED BY <3>1 DEF IInv, LoggedInv
  <2>3. \A u \in TableIds \ unlogged' :
            /\ \A n \in 1 .. tables[u].seq : Covered(u, n)'
            /\ \A n \in 1 .. saved[u].seq : Covered(u, n)'
    BY <2>1, <1>4 DEF IInv, LoggedInv
  <2> QED BY <2>2, <2>3, <1>2 DEF LoggedInv
<1>15. StraysKnown'
  <2>1. ASSUME NEW q \in PlayerIds
        PROVE  Where(q)' = Where(q)
    BY <1>1, <1>2, <1>3 DEF Where, At
  <2>2. ASSUME NEW q \in PlayerIds, NEW e \in PlayerIds, Reaches(q, e)'
        PROVE  Reaches(q, e) /\ reg'[q] = reg[q]
    <3>1. pc'[q] = pc[q] /\ reg'[q] = reg[q]
      BY <2>2, <1>6 DEF Reaches, At, PublishPcs
    <3> QED BY <2>2, <3>1, <1>2 DEF Reaches, At
  <2> QED BY <2>1, <2>2, <1>2 DEF IInv, StraysKnown
<1>16. ScreensInv'
  <2>1. \A d \in open : Awaits(d) => Awaits(d)'
    BY <1>2, <1>7 DEF Awaits, At
  <2>2. \A d \in open : d \in PlayerIds
                        /\ (pc'[d] \notin {"greet", "answer", "mark"}
                                => pc[d] \notin {"greet", "answer", "mark"})
    BY <1>1 DEF IInv, TypeOK
  <2> QED BY <2>1, <2>2, <1>2, <1>5 DEF IInv, ScreensInv, MessageOf
<1> QED BY <1>8, <1>9, <1>10, <1>11, <1>12, <1>13, <1>14, <1>15, <1>16 DEF IInv

(* A connection is lost: nobody can write to it any more.                  *)
LEMMA DropStep ==
    ASSUME IInv, NEW p \in PlayerIds, Drop(p)
    PROVE  IInv'
<1> USE Typed
<1>1. p \in open /\ open' = open \ {p}
  BY DEF Drop
<1>2. UNCHANGED <<tables, client, pc, storeVars, counters, history>>
  BY DEF Drop
<1>3. /\ reg' \in [PlayerIds -> Registers]
      /\ \A q \in PlayerIds : /\ reg'[q].todo = reg[q].todo \ {p}
                              /\ reg'[q].msg = reg[q].msg /\ reg'[q].next = reg[q].next
                              /\ reg'[q].seated = reg[q].seated
  <2> DEFINE rest(q) == reg[q].todo \ {p}
             s(q) == [reg[q] EXCEPT !.todo = rest(q)]
  <2>1. ASSUME NEW q \in PlayerIds
        PROVE  /\ s(q) \in Registers /\ s(q).todo = rest(q) /\ s(q).msg = reg[q].msg
               /\ s(q).next = reg[q].next /\ s(q).seated = reg[q].seated
    <3>1. rest(q) \in SUBSET PlayerIds /\ reg[q] \in Registers
      BY DEF Registers
    <3> HIDE DEF rest
    <3> QED BY <3>1 DEF Registers
  <2>2. reg' = [q \in PlayerIds |-> s(q)]
    BY DEF Drop
  <2> HIDE DEF s
  <2> QED BY <2>1, <2>2
<1>4. /\ screen' \in [PlayerIds -> Message]
      /\ \A q \in PlayerIds \ {p} : screen'[q] = screen[q]
  BY NewTableIsSound, DefaultTableAssumption DEF Drop, Shown, IInv, TypeOK
<1>5. \A u \in TableIds : MessageOf(u)' = MessageOf(u)
  BY <1>2 DEF MessageOf
<1>6. TypeOK'
  BY <1>1, <1>2, <1>3, <1>4 DEF IInv, TypeOK, Registers, storeVars, counters, history
<1>7. TablesAgree' /\ MessagesSound'
  BY <1>2, <1>3 DEF IInv, TablesAgree, MessagesSound, storeVars
<1>8. Wired'
  <2>1. \A q \in PlayerIds : /\ reg'[q].todo \subseteq open'
                             /\ ~ At(q, "write") => reg'[q].todo = {}
    BY <1>1, <1>3 DEF IInv, Wired
  <2> QED BY <2>1, <1>1, <1>2, <1>3 DEF IInv, Wired, At
<1>9. SeatHeld'
  BY <1>2, <1>3 DEF IInv, SeatHeld, SitsThere, At
<1>10. OneHolder'
  <2>1. \A o \in PlayerIds, u \in TableIds : Holds(o, u)' <=> Holds(o, u)
    BY <1>2, <1>3 DEF Holds
  <2> QED BY <2>1, <1>2, <1>3, <1>5 DEF IInv, OneHolder, history
<1>11. SavedInv'
  BY <1>2, <1>3, <1>5 DEF IInv, SavedInv, storeVars, history
<1>12. LoggedInv'
  BY <1>2, <1>3 DEF IInv, LoggedInv, Covered, storeVars, history
<1>13. StraysKnown'
  <2>1. \A q \in PlayerIds : Where(q)' = Where(q)
    BY <1>2, <1>3 DEF Where, At
  <2>2. \A q, e \in PlayerIds : Reaches(q, e)' => Reaches(q, e)
    BY <1>2, <1>3 DEF Reaches, At
  <2> QED BY <2>1, <2>2, <1>2, <1>3 DEF IInv, StraysKnown, history
<1>14. ScreensInv'
  <2>1. \A d \in open \ {p} : d \in PlayerIds /\ (Awaits(d) => Awaits(d)')
    BY <1>2, <1>3 DEF Awaits, At, IInv, TypeOK
  <2> QED BY <2>1, <1>1, <1>2, <1>4, <1>5 DEF IInv, ScreensInv, MessageOf, history
<1> QED BY <1>6, <1>7, <1>8, <1>9, <1>10, <1>11, <1>12, <1>13, <1>14 DEF IInv

(* The thread of p goes to a place where it has nothing in hand: a closed  *)
(* connection whose player has no seat, or a join that found none.         *)
LEMMA IdleStep ==
    ASSUME IInv, NEW p \in PlayerIds,
           \/ At(p, "idle") /\ p \notin open /\ Goto(p, "off") /\ reg' = reg
           \/ At(p, "seat") /\ Goto(p, "idle") /\ SetReg(p, Blank),
           bank' \in [PlayerIds -> Nat],
           UNCHANGED <<tables, client, open, screen, saved, events, boot, counters,
                       history>>
    PROVE  IInv'
<1> USE Typed
<1>1. /\ pc[p] \in {"idle", "seat"} /\ pc' \in [PlayerIds -> Pcs]
      /\ \/ pc'[p] = "off" /\ p \notin open
         \/ pc'[p] = "idle" /\ pc[p] = "seat"
      /\ \A q \in PlayerIds \ {p} : pc'[q] = pc[q]
  BY DEF Goto, At, Pcs
<1>2. UNCHANGED <<tables, client, open, screen, saved, events, boot, counters, history>>
  OBVIOUS
<1>3. /\ reg' \in [PlayerIds -> Registers] /\ reg'[p].todo = {} /\ Sound(reg'[p].msg)
      /\ \A q \in PlayerIds \ {p} : reg'[q] = reg[q]
  BY BlankIsTyped DEF SetReg, At, IInv, Wired, MessagesSound
<1>4. \A u \in TableIds : MessageOf(u)' = MessageOf(u)
  BY <1>2 DEF MessageOf
<1>5. \A q \in PlayerIds :
        (pc'[q] \in {"answer"} \cup PublishPcs \/ pc[q] \in {"answer"} \cup PublishPcs)
            => q # p /\ pc'[q] = pc[q] /\ reg'[q] = reg[q]
  BY <1>1, <1>3 DEF PublishPcs
<1>6. TypeOK'
  BY <1>1, <1>2, <1>3 DEF IInv, TypeOK, Registers, counters, history
<1>7. TablesAgree' /\ MessagesSound'
  BY <1>2, <1>3 DEF IInv, TablesAgree, MessagesSound
<1>8. Wired'
  <2>1. \A q \in open : pc'[q] # "off"
    BY <1>1 DEF IInv, TypeOK, Wired, At
  <2>2. \A q \in PlayerIds : reg'[q].todo \subseteq open
    BY <1>3 DEF IInv, Wired
  <2>3. ASSUME NEW q \in PlayerIds, pc'[q] \in {"answer", "list", "write", "log"}
        PROVE  reg'[q].msg.table = client[q].table
    BY <2>3, <1>1, <1>3 DEF IInv, Wired
  <2>4. ASSUME NEW q \in PlayerIds
        PROVE  /\ pc'[q] # "write" => reg'[q].todo = {}
               /\ (pc'[q] \in PublishPcs /\ reg'[q].next = "off") => q \notin open
    BY <1>1, <1>3, <1>5 DEF IInv, Wired, At
  <2> QED BY <2>1, <2>2, <2>3, <2>4, <1>2 DEF Wired, At
<1>9. SeatHeld'
  BY <1>1, <1>2, <1>3 DEF IInv, SeatHeld, SitsThere, At
<1>10. OneHolder'
  <2>1. \A o \in PlayerIds, u \in TableIds : Holds(o, u)' => o # p /\ Holds(o, u)
    BY <1>5 DEF Holds
  <2> QED BY <2>1, <1>2, <1>3, <1>4 DEF IInv, OneHolder, history
<1>11. SavedInv'
  BY <1>2, <1>4, <1>5 DEF IInv, SavedInv, history, PublishPcs
<1>12. LoggedInv'
  <2>1. \A u \in TableIds : \A n : Covered(u, n) => Covered(u, n)'
    BY <1>2, <1>5 DEF Covered
  <2>2. ASSUME NEW q \in PlayerIds, pc'[q] \in {"answer"} \cup PublishPcs
        PROVE  reg'[q].msg.seq <= tables[reg'[q].msg.table].seq
    <3>1. pc[q] \in {"answer"} \cup PublishPcs /\ reg'[q] = reg[q]
      BY <2>2, <1>5
    <3> QED BY <3>1 DEF IInv, LoggedInv
  <2> QED BY <2>1, <2>2, <1>2 DEF IInv, LoggedInv, history
<1>13. StraysKnown'
  <2>1. ASSUME NEW q \in PlayerIds
        PROVE  Where(q)' = Where(q)
    BY <1>1, <1>2, <1>3 DEF Where, At
  <2>2. ASSUME NEW q \in PlayerIds, NEW e \in PlayerIds, Reaches(q, e)'
        PROVE  Reaches(q, e) /\ reg'[q] = reg[q]
    <3>1. pc'[q] = pc[q] /\ reg'[q] = reg[q]
      BY <2>2, <1>5 DEF Reaches, At, PublishPcs
    <3> QED BY <2>2, <3>1, <1>2 DEF Reaches, At
  <2> QED BY <2>1, <2>2, <1>2 DEF IInv, StraysKnown, history
<1>14. ScreensInv'
  <2>1. \A d \in open : Awaits(d) => Awaits(d)'
    BY <1>2, <1>5 DEF Awaits, At, PublishPcs
  <2>2. \A d \in open : d \in PlayerIds
                        /\ (pc'[d] \notin {"greet", "answer", "mark"}
                                => pc[d] \notin {"greet", "answer", "mark"})
    BY <1>1 DEF IInv, TypeOK
  <2> QED BY <2>1, <2>2, <1>2, <1>4 DEF IInv, ScreensInv, MessageOf, history
<1> QED BY <1>6, <1>7, <1>8, <1>9, <1>10, <1>11, <1>12, <1>13, <1>14 DEF IInv


-----------------------------------------------------------------------------
(* The steps that change a table: a handler leaves it, or takes a seat.    *)

(* A Leave with its refund, of a player who is seated there.               *)
LEMMA LeaveStep ==
    ASSUME IInv, NEW p \in PlayerIds, NEW t \in TableIds, NEW r \in Registers,
           r.todo = {}, ~ r.seated, LeaveAndRefund(p, t, r),
           IsSeated(tables[t], p),
           pc[p] \in {"switch", "idle"},
           NEW label \in {"mark", "list"}, Goto(p, label),
           label = "list" => client[p].table = t /\ r.next = "off",
           r.next = "off" => p \notin open
    PROVE  IInv'
<1> DEFINE T == Leave(tables[t], p)
<1>1. TableOK(tables[t]) /\ tables[t] \in TableRecord
  BY Typed DEF TableOK
<1>2. TableOK(T)
  BY <1>1, LeaveOK
<1>3. T.seq = tables[t].seq + 1
  BY DEF Leave
<1>4. \A q \in PlayerIds \ {p} : IsSeated(T, q) <=> IsSeated(tables[t], q)
  BY <1>1, OthersKeepTheirSeats
<1>5. bank' \in [PlayerIds -> Nat]
  <2>1. StackOf(tables[t], p) \in Nat
    BY <1>1, StackOfIsNat
  <2>2. bank \in [PlayerIds -> Nat]
    BY DEF IInv, TypeOK
  <2> QED BY <2>1, <2>2 DEF LeaveAndRefund
<1>6. /\ Take(p, t, T, r)
      /\ UNCHANGED <<client, open, screen, saved, events, boot, joins, restarts,
                     errors, unsaved, unlogged, doubted>>
  BY DEF LeaveAndRefund, counters
<1> HIDE DEF T
<1> QED BY <1>2, <1>3, <1>4, <1>5, <1>6, TakeStep

(* A switch leaves the table the connection is at.                         *)
LEMMA SwitchLeaveStep ==
    ASSUME IInv, NEW p \in PlayerIds, SwitchLeave(p)
    PROVE  IInv'
<1> DEFINE r == [reg[p] EXCEPT !.next = "seat"]
<1>1. At(p, "switch") /\ Goto(p, "mark") /\ LeaveAndRefund(p, client[p].table, r)
  BY DEF SwitchLeave
<1>2. /\ client[p].table \in TableIds /\ IsSeated(tables[client[p].table], p)
      /\ ~ reg[p].seated /\ reg[p].todo = {} /\ reg[p] \in Registers
  BY <1>1, Typed DEF IInv, SeatHeld, SitsThere, Wired, At
<1>3. r \in Registers /\ r.todo = {} /\ ~ r.seated /\ r.next = "seat"
  BY <1>2 DEF Registers
<1> HIDE DEF r
<1>4. pc[p] \in {"switch", "idle"}
  BY <1>1 DEF At
<1> QED BY <1>1, <1>2, <1>3, <1>4, LeaveStep

(* A leave request, of a table the player has a seat at.                   *)
LEMMA LeaveRequestStep ==
    ASSUME IInv, NEW p \in PlayerIds, NEW t \in TableIds, LeaveRequest(p, t)
    PROVE  IInv'
<1>1. /\ pc[p] \in {"switch", "idle"} /\ IsSeated(tables[t], p)
      /\ LeaveAndRefund(p, t, Blank) /\ Goto(p, "mark")
  BY DEF LeaveRequest, At
<1>2. Blank.next # "off" /\ ~ Blank.seated /\ Blank.todo = {} /\ Blank \in Registers
  BY BlankIsTyped
<1> QED BY <1>1, <1>2, LeaveStep

(* The end of a connection, which leaves the table its player sits at.     *)
LEMMA CloseStep ==
    ASSUME IInv, NEW p \in PlayerIds, Close(p)
    PROVE  IInv'
<1>1. At(p, "idle") /\ p \notin open
  BY DEF Close
<1>2. CASE /\ client[p].seated
           /\ LeaveAndRefund(p, client[p].table, [Blank EXCEPT !.next = "off"])
           /\ Goto(p, "list")
  <2> DEFINE r == [Blank EXCEPT !.next = "off"]
  <2>1. r \in Registers /\ r.todo = {} /\ ~ r.seated /\ r.next = "off"
    BY BlankIsTyped DEF Registers
  <2>2. client[p].table \in TableIds /\ IsSeated(tables[client[p].table], p)
    BY <1>1, <1>2, Typed DEF IInv, SeatHeld, SitsThere, At
  <2>3. LeaveAndRefund(p, client[p].table, r)
    BY <1>2
  <2> HIDE DEF r
  <2>4. pc[p] \in {"switch", "idle"}
    BY <1>1 DEF At
  <2> QED BY <1>1, <1>2, <2>1, <2>2, <2>3, <2>4, LeaveStep
<1>3. CASE /\ ~ client[p].seated /\ Goto(p, "off")
           /\ UNCHANGED <<tables, client, open, reg, screen, storeVars, counters, history>>
  <2>1. bank' \in [PlayerIds -> Nat]
    BY <1>3 DEF IInv, TypeOK, storeVars
  <2> QED BY <1>1, <1>3, <2>1, IdleStep DEF storeVars
<1> QED BY <1>2, <1>3 DEF Close

(* tables.Join: the seat the player has, the one he gets, or none.         *)
LEMMA TakeSeatStep ==
    ASSUME IInv, NEW p \in PlayerIds, TakeSeat(p)
    PROVE  IInv'
<1> DEFINE t == reg[p].to
           T == tables[t]
           r == [Blank EXCEPT !.seated = TRUE]
           seats == AllocateSeat(T, AnySeat)
<1>1. /\ At(p, "seat") /\ t \in TableIds /\ TableOK(T) /\ T \in TableRecord
      /\ bank \in [PlayerIds -> Nat]
  BY Typed DEF TakeSeat, Registers, TableOK, IInv, TypeOK
<1>2. r \in Registers /\ r.todo = {} /\ r.seated /\ r.next = "idle"
  BY BlankIsTyped DEF Registers
<1>3. /\ UNCHANGED <<client, open, screen, saved, events, boot, joins, restarts,
                     errors, unsaved, unlogged, doubted>>
      /\ pc[p] \in {"switch", "idle", "seat"}
  BY <1>1 DEF TakeSeat, counters, At
<1> HIDE DEF r
<1>4. CASE IsSeated(T, p) /\ Take(p, t, T, r) /\ Goto(p, "mark") /\ UNCHANGED bank
  BY <1>1, <1>2, <1>3, <1>4, TakeStep
<1>5. ASSUME ~ IsSeated(T, p), NEW i \in seats,
             Take(p, t, Join(T, p, 1, i), r), Goto(p, "mark"), UNCHANGED bank
      PROVE  IInv'
  <2> DEFINE J == Join(T, p, 1, i)
  <2>1. i \in Seat /\ IsFree(T, i)
    BY AllocatedSeatIsFree
  <2>2. TableOK(J)
    BY <1>1, <1>5, <2>1, JoinOK
  <2>3. IsSeated(J, p)
    BY <1>1, <2>1, JoinSeats
  <2>4. J.seq = T.seq + 1
    BY DEF Join
  <2>5. \A q \in PlayerIds \ {p} : IsSeated(J, q) <=> IsSeated(T, q)
    BY <1>1, <2>1, OthersKeepTheirSeats
  <2>6. Take(p, t, J, r)
    BY <1>5
  <2> HIDE DEF J
  <2> QED BY <1>1, <1>2, <1>3, <1>5, <2>2, <2>3, <2>4, <2>5, <2>6, TakeStep
<1>6. CASE /\ ~ IsSeated(T, p) /\ seats = {}
           /\ bank' = [bank EXCEPT ![p] = bank[p] + 1]
           /\ SetReg(p, Blank) /\ Goto(p, "idle") /\ UNCHANGED <<tables, overlapped>>
  <2>1. bank' \in [PlayerIds -> Nat]
    BY <1>1, <1>6
  <2> QED BY <1>1, <1>3, <1>6, <2>1, IdleStep DEF counters, history
<1> QED BY <1>4, <1>5, <1>6 DEF TakeSeat, r

-----------------------------------------------------------------------------
(* The end of the process, and what the next one finds.                    *)

(* A saved table comes back as the table it is a snapshot of.              *)
LEMMA SavedComesBack ==
    ASSUME NEW t \in TableIds, NEW T, TableOK(T),
           saved[t].seq = T.seq, saved[t].players = Snapshot(T)
    PROVE  CheckedList(Loaded(t)) /\ Restore(Loaded(t), saved[t].seq) = T
BY RestoreSnapshot DEF Loaded

(* A new process has empty tables, and the default table as it was saved.  *)
LEMMA RestartStep ==
    ASSUME IInv, Restart
    PROVE  IInv'
<1> USE Typed
<1>1. /\ open' = {} /\ overlapped' = {} /\ UNCHANGED <<saved, events, bank, joins>>
      /\ \A p \in PlayerIds : /\ client'[p] = Offline /\ pc'[p] = "off"
                              /\ reg'[p] = Blank
      /\ client' \in [PlayerIds -> [table : TableIds, seated : BOOLEAN]]
      /\ pc' \in [PlayerIds -> Pcs] /\ reg' \in [PlayerIds -> Registers]
  BY BlankIsTyped, DefaultTableAssumption DEF Restart, Offline, Pcs
<1>2. ASSUME NEW t \in TableIds
      PROVE  /\ TableOK(tables'[t])
             /\ tables'[t].seq \in {0, saved[t].seq}
             /\ t \notin unsaved' => saved[t] = MessageOf(t)'
  <2>1. tables'[t] = BootTable(t, boot')
    BY DEF Restart
  <2>2. CASE t = DefaultTable /\ boot' = "restored"
    <3>1. PICK T : TableOK(T) /\ saved[t].seq = T.seq /\ saved[t].players = Snapshot(T)
      BY DEF IInv, MessagesSound, Sound
    <3>2. tables'[t] = T
      BY <2>1, <2>2, <3>1, SavedComesBack DEF BootTable
    <3>3. MessageOf(t)' = [table |-> t, seq |-> T.seq, players |-> Snapshot(T)]
      BY <3>2 DEF MessageOf
    <3>4. saved[t] \in Message /\ saved[t].table = t
      BY DEF IInv, TypeOK, MessagesSound
    <3>5. saved[t] = [table |-> t, seq |-> T.seq, players |-> Snapshot(T)]
      BY <3>1, <3>4 DEF Message
    <3> QED BY <3>1, <3>2, <3>3, <3>5
  <2>3. CASE ~ (t = DefaultTable /\ boot' = "restored")
    <3>1. tables'[t] = EmptyTable /\ t \in unsaved'
      BY <2>1, <2>3 DEF BootTable, Restart
    <3> QED BY <3>1, EmptyTableOK DEF EmptyTable
  <2> QED BY <2>2, <2>3
<1>3. /\ errors' \in 0 .. MaxErrors /\ restarts' \in 0 .. MaxRestarts
      /\ boot' \in {"restored", "loadFailed", "noStore"}
      /\ unsaved' \subseteq TableIds /\ doubted' \in BOOLEAN
      /\ unlogged' = unlogged \cup {t \in TableIds : Unfinished(t)}
      /\ screen' \in [PlayerIds -> Message]
  <2>1. boot' \in Boots
    BY DEF Restart
  <2>2. boot' \in {"restored", "loadFailed", "noStore"} /\ errors' \in 0 .. MaxErrors
    BY <2>1, PublicationBounds DEF Boots, Restart, IInv, TypeOK
  <2>3. restarts' \in 0 .. MaxRestarts
    BY PublicationBounds DEF Restart, IInv, TypeOK
  <2>4. screen' \in [PlayerIds -> Message]
    BY NewTableIsSound, DefaultTableAssumption DEF Restart
  <2>5. doubted' \in BOOLEAN
    BY DEF Restart, IInv, TypeOK
  <2> QED BY <2>2, <2>3, <2>4, <2>5 DEF Restart
<1>4. TypeOK'
  <2>1. tables' \in [TableIds -> TableRecord]
    <3>1. tables' = [t \in TableIds |-> tables'[t]]
      BY DEF Restart
    <3> QED BY <3>1, <1>2 DEF TableOK
  <2> QED BY <2>1, <1>1, <1>3 DEF IInv, TypeOK, Registers
<1>5. TablesAgree'
  BY <1>2 DEF TablesAgree, TableOK
<1>6. MessagesSound'
  BY <1>1, BlankIsTyped DEF IInv, MessagesSound
<1>7. Wired'
  BY <1>1, BlankIsTyped DEF Wired, At, PublishPcs
<1>8. SeatHeld'
  BY <1>1 DEF SeatHeld, SitsThere, At
<1>9. OneHolder'
  BY <1>1 DEF OneHolder, Holds, PublishPcs
<1>10. SavedInv'
  BY <1>1, <1>2 DEF SavedInv
<1>11. LoggedInv'
  <2>1. ASSUME NEW t \in TableIds, t \notin unlogged', NEW n \in 1 .. saved[t].seq
        PROVE  Covered(t, n)'
    <3>1. Covered(t, n)
      BY <2>1, <1>3 DEF IInv, LoggedInv
    <3>2. ~ Unfinished(t)
      BY <2>1, <1>3
    <3>3. n \in events[t]
      BY <3>1, <3>2 DEF Covered, Unfinished
    <3> QED BY <3>3, <1>1 DEF Covered
  <2>2. ASSUME NEW t \in TableIds, t \notin unlogged', NEW n \in 1 .. tables'[t].seq
        PROVE  Covered(t, n)'
    <3>1. tables'[t].seq \in {0, saved[t].seq}
      BY <1>2
    <3>2. n \in 1 .. saved[t].seq
      BY <2>2, <3>1
    <3> QED BY <2>1, <2>2, <3>2
  <2>3. \A p \in PlayerIds : pc'[p] \notin {"answer"} \cup PublishPcs
    BY <1>1 DEF PublishPcs
  <2> QED BY <2>1, <2>2, <2>3, <1>1 DEF LoggedInv
<1>12. StraysKnown'
  BY <1>1 DEF StraysKnown, Reaches, At
<1>13. ScreensInv'
  BY <1>1 DEF ScreensInv
<1> QED BY <1>4, <1>5, <1>6, <1>7, <1>8, <1>9, <1>10, <1>11, <1>12, <1>13 DEF IInv

(* While the default table is at rest and saved, a boot that loads it      *)
(* brings it back as it was.                                               *)
LEMMA QuietBoot ==
    ASSUME IInv, Restart, boot' = "restored",
           DefaultTable \notin overlapped \cup unsaved, ~ Unfinished(DefaultTable)
    PROVE  tables'[DefaultTable] = tables[DefaultTable]
<1>1. TableOK(tables[DefaultTable])
  BY Typed, DefaultTableAssumption
<1>2. saved[DefaultTable] = MessageOf(DefaultTable)
  BY DefaultTableAssumption DEF IInv, SavedInv, Unfinished, PublishPcs
<1>3. /\ saved[DefaultTable].seq = tables[DefaultTable].seq
      /\ saved[DefaultTable].players = Snapshot(tables[DefaultTable])
  BY <1>2 DEF MessageOf
<1>4. /\ CheckedList(Loaded(DefaultTable))
      /\ Restore(Loaded(DefaultTable), saved[DefaultTable].seq) = tables[DefaultTable]
  BY <1>1, <1>3, SavedComesBack, DefaultTableAssumption
<1> QED BY <1>4, DefaultTableAssumption DEF Restart, BootTable

-----------------------------------------------------------------------------
(* The invariant is one.                                                   *)

(* A first process, with nothing saved and everything empty.               *)
LEMMA InitIInv == Init => IInv
<1> SUFFICES ASSUME Init PROVE IInv
  OBVIOUS
<1> USE NewTableIsSound, BlankIsTyped, DefaultTableAssumption, EmptyTableOK
<1>1. TypeOK
  <2>1. /\ tables \in [TableIds -> TableRecord]
        /\ client \in [PlayerIds -> [table : TableIds, seated : BOOLEAN]]
    BY DEF Init, TableOK, Offline
  <2>2. /\ pc \in [PlayerIds -> Pcs] /\ reg \in [PlayerIds -> Registers]
        /\ screen \in [PlayerIds -> Message] /\ saved \in [TableIds -> Message]
    BY DEF Init, Pcs
  <2>3. /\ joins \in 0 .. MaxJoins /\ restarts \in 0 .. MaxRestarts
        /\ errors \in 0 .. MaxErrors
    BY PublicationBounds DEF Init
  <2> QED BY <2>1, <2>2, <2>3, InitialChipsAssumption DEF Init, TypeOK, Registers
<1>2. TablesAgree
  BY DEF Init, TablesAgree, TableOK
<1>3. MessagesSound
  BY DEF Init, MessagesSound
<1>4. Wired /\ SeatHeld
  BY DEF Init, Wired, SeatHeld, SitsThere, At, PublishPcs
<1>5. OneHolder
  BY DEF Init, OneHolder, Holds, PublishPcs
<1>6. SavedInv
  BY DEF Init, SavedInv, MessageOf
<1>7. LoggedInv
  <2>1. \A t \in TableIds : tables[t].seq = 0 /\ saved[t].seq = 0
    BY DEF Init, EmptyTable
  <2>2. \A n : n \notin 1 .. 0
    OBVIOUS
  <2> QED BY <2>1, <2>2 DEF Init, LoggedInv, PublishPcs
<1>8. StraysKnown /\ ScreensInv
  BY DEF Init, StraysKnown, ScreensInv, Reaches, At
<1> QED BY <1>1, <1>2, <1>3, <1>4, <1>5, <1>6, <1>7, <1>8 DEF IInv

(* A stutter changes none of it.                                           *)
LEMMA StutterKeepsIInv ==
    ASSUME IInv, UNCHANGED vars
    PROVE  IInv'
<1>1. TypeOK' /\ TablesAgree' /\ MessagesSound'
  BY DEF IInv, TypeOK, TablesAgree, MessagesSound, vars, serverVars, storeVars,
         counters, history
<1>2. Wired' /\ SeatHeld' /\ LoggedInv'
  BY DEF IInv, Wired, SeatHeld, SitsThere, LoggedInv, Covered, At, vars, serverVars,
         storeVars, counters, history
<1>3. OneHolder' /\ SavedInv'
  BY DEF IInv, OneHolder, SavedInv, Holds, MessageOf, vars, serverVars, storeVars,
         counters, history
<1>4. StraysKnown' /\ ScreensInv'
  BY DEF IInv, StraysKnown, ScreensInv, Reaches, Where, Awaits, MessageOf, At, vars,
         serverVars, storeVars, counters, history
<1> QED BY <1>1, <1>2, <1>3, <1>4 DEF IInv

(* Every step keeps it, one case to an action.                             *)
LEMMA NextIInv == IInv /\ [Next]_vars => IInv'
<1> SUFFICES ASSUME IInv, [Next]_vars PROVE IInv'
  OBVIOUS
<1>1. ASSUME NEW p \in PlayerIds,
             \/ Connect(p) \/ ReadSnapshot(p) \/ Answer(p) \/ SwitchLeave(p)
             \/ TakeSeat(p) \/ Mark(p) \/ List(p) \/ Write(p) \/ Save(p) \/ Log(p)
             \/ Drop(p) \/ Close(p)
      PROVE  IInv'
  BY <1>1, ConnectStep, ReadSnapshotStep, AnswerStep, SwitchLeaveStep, TakeSeatStep,
     MarkStep, ListStep, WriteStep, SaveStep, LogStep, DropStep, CloseStep
<1>2. ASSUME NEW p \in PlayerIds, NEW t \in TableIds,
             JoinRequest(p, t) \/ LeaveRequest(p, t)
      PROVE  IInv'
  BY <1>2, JoinRequestStep, LeaveRequestStep
<1>3. CASE Restart
  BY <1>3, RestartStep
<1>4. CASE UNCHANGED vars
  BY <1>4, StutterKeepsIInv
<1> QED BY <1>1, <1>2, <1>3, <1>4 DEF Next

(* Redis, the screens and the log agree with the tables in every state of  *)
(* every run as the inductive invariant says.                              *)
LEMMA AlwaysIInv == Spec => []IInv
BY InitIInv, NextIInv, PTL DEF Spec

-----------------------------------------------------------------------------
(* The theorems.                                                           *)

(* Every variable keeps its type (ws_handlers.go, state_helpers.go,        *)
(* app.go), for any number of errors and restarts.                         *)
THEOREM TypeCorrect == Spec => []TypeOK
<1>1. IInv => TypeOK
  BY DEF IInv
<1> QED BY <1>1, AlwaysIInv, PTL

(* While the handlers of a table follow one another, a connection that     *)
(* waits shows the table as it is (ws_handlers.go 40, 165-166, 195-196).   *)
THEOREM AloneScreensAlwaysCurrent == Spec => []AloneScreenCurrent
<1>1. ASSUME IInv PROVE AloneScreenCurrent
  <2> SUFFICES ASSUME NEW p \in open, At(p, "idle"),
                      client[p].table \notin overlapped, ~ InHand(client[p].table)
               PROVE  screen[p] = MessageOf(client[p].table)
    BY DEF AloneScreenCurrent
  <2>1. screen[p] = MessageOf(client[p].table) \/ Awaits(p)
    BY <1>1 DEF IInv, ScreensInv, At
  <2>2. ~ Awaits(p)
    BY DEF Awaits, InHand, Holds, PublishPcs, At
  <2> QED BY <2>1, <2>2
<1> QED BY <1>1, AlwaysIInv, PTL

(* Once the handlers of a table are through, one after the other and with  *)
(* the last save done, Redis has the table (ws_handlers.go 98, 153, 167,   *)
(* 197; state_helpers.go 41).                                              *)
THEOREM AloneSavedAlwaysCurrent == Spec => []AloneSavedCurrent
<1>1. IInv => AloneSavedCurrent
  BY DEF IInv, SavedInv, AloneSavedCurrent, Unfinished, PublishPcs
<1> QED BY <1>1, AlwaysIInv, PTL

(* Every change of a table is in the event log once its handler is         *)
(* through, whatever the interleaving, except where an error or the end of *)
(* the process kept it out (ws_handlers.go 99, 154, 168, 198;              *)
(* state_helpers.go 135).                                                  *)
THEOREM ChangesAlwaysLogged == Spec => []ChangesLogged
<1>1. IInv => ChangesLogged
  BY DEF IInv, LoggedInv, Covered, ChangesLogged, Holds, PublishPcs
<1> QED BY <1>1, AlwaysIInv, PTL

(* A restart while the default table is at rest and saved brings it back   *)
(* as it was (app.go 79, table_snapshot_store.go 96 and 116, table.go      *)
(* Restore).                                                               *)
THEOREM QuietRestartAlwaysKeepsTable == Spec => QuietRestartKeepsTable
<1> DEFINE Quiet == (/\ restarts' # restarts
                     /\ boot' = "restored"
                     /\ DefaultTable \notin overlapped \cup unsaved
                     /\ ~ Unfinished(DefaultTable))
                        => tables'[DefaultTable] = tables[DefaultTable]
<1>1. ASSUME IInv, [Next]_vars PROVE [Quiet]_vars
  <2> SUFFICES ASSUME restarts' # restarts, boot' = "restored",
                      DefaultTable \notin overlapped \cup unsaved,
                      ~ Unfinished(DefaultTable)
               PROVE  tables'[DefaultTable] = tables[DefaultTable]
    OBVIOUS
  <2>1. Restart
    <3>1. ASSUME NEW p \in PlayerIds,
                 \/ Connect(p) \/ ReadSnapshot(p) \/ Answer(p) \/ Mark(p) \/ List(p)
                 \/ Write(p) \/ Drop(p)
          PROVE  restarts' = restarts
      BY <3>1 DEF Connect, ReadSnapshot, Answer, Mark, List, Write, Drop, counters
    <3>2. ASSUME NEW p \in PlayerIds,
                 SwitchLeave(p) \/ TakeSeat(p) \/ Save(p) \/ Log(p) \/ Close(p)
          PROVE  restarts' = restarts
      BY <3>2 DEF SwitchLeave, TakeSeat, Save, Log, Close, LeaveAndRefund, counters
    <3>3. ASSUME NEW p \in PlayerIds, NEW t \in TableIds,
                 JoinRequest(p, t) \/ LeaveRequest(p, t)
          PROVE  restarts' = restarts
      BY <3>3 DEF JoinRequest, LeaveRequest, LeaveAndRefund, counters
    <3> QED BY <1>1, <3>1, <3>2, <3>3 DEF Next, vars, counters
  <2> QED BY <1>1, <2>1, QuietBoot
<1> QED BY <1>1, AlwaysIInv, PTL DEF Spec, QuietRestartKeepsTable

-----------------------------------------------------------------------------
(***************************************************************************)
(* The chips of all players.  A handler that has consumed a buy-in, and    *)
(* has not yet put it on a seat or given it back, has one chip in hand; it *)
(* counts as its player's, and dies with the process.                      *)
(***************************************************************************)

HasChip(p) ==
    \/ pc[p] \in {"switch", "seat"}
    \/ pc[p] \in PublishPcs /\ reg[p].next = "seat"

Held(p) == IF HasChip(p) THEN 1 ELSE 0

\* What a player has outside the seats.
Purse == [p \in PlayerIds |-> bank[p] + Held(p)]

Total == SumFunction(Purse) + SumFunction(StackOn)

NoneCreated == doubted \/ Total <= InitialChips * Cardinality(PlayerIds)

\* The terms of the sums are numbers.
SumsTyped ==
    /\ DOMAIN Purse = PlayerIds /\ \A p \in PlayerIds : Purse[p] \in Nat
    /\ DOMAIN bank = PlayerIds /\ \A p \in PlayerIds : bank[p] \in Nat
    /\ DOMAIN StackOn = Cells /\ \A c \in Cells : StackOn[c] \in Nat

(* There are as many terms as players and seats.                           *)
LEMMA CellsFinite == IsFiniteSet(Cells) /\ IsFiniteSet(PlayerIds)
<1>1. IsFiniteSet(Seat)
  <2>1. MaxPlayers - 1 \in Int
    BY MaxPlayersAssumption
  <2> QED BY <2>1, FS_Interval DEF Seat
<1> QED BY <1>1, FiniteAssumption, FS_Product DEF Cells

LEMMA NumbersAdded == TypeOK => SumsTyped
<1> SUFFICES ASSUME TypeOK PROVE SumsTyped
  OBVIOUS
<1>1. \A p \in PlayerIds : Held(p) \in {0, 1} /\ bank[p] \in Nat
  BY DEF TypeOK, Held
<1>2. \A p \in PlayerIds : bank[p] + Held(p) \in Nat
  <2> HIDE DEF Held
  <2>1. ASSUME NEW n \in Nat, NEW k \in {0, 1} PROVE n + k \in Nat
    OBVIOUS
  <2> QED BY <1>1, <2>1
<1>3. \A t \in TableIds, i \in Seat : tables[t].seats[i].stack \in Nat
  BY DEF TypeOK, TableRecord, Player, FreeSeat
<1>4. \A c \in Cells : c[1] \in TableIds /\ c[2] \in Seat
  BY DEF Cells
<1>5. \A c \in Cells : StackOn[c] \in Nat
  BY <1>3, <1>4 DEF StackOn
<1> QED BY <1>2, <1>5 DEF SumsTyped, Purse, StackOn, TypeOK

(* The same in the next state.                                             *)
LEMMA NumbersAddedNext == TypeOK' => SumsTyped'
BY NumbersAdded, PTL

(* Chips that move between a purse and a seat, or get lost on the way.     *)
LEMMA ChipsMove ==
    ASSUME SumsTyped, SumsTyped', NEW p \in PlayerIds, NEW c \in Cells,
           \A q \in PlayerIds : q # p => Purse'[q] = Purse[q],
           \A d \in Cells : d # c => StackOn'[d] = StackOn[d],
           Purse'[p] + StackOn'[c] <= Purse[p] + StackOn[c]
    PROVE  Total' <= Total /\ Total \in Int /\ Total' \in Int
<1> DEFINE P == Purse
           P1 == Purse'
           S == StackOn
           S1 == StackOn'
<1>1. /\ DOMAIN P = PlayerIds /\ \A q \in PlayerIds : P[q] \in Int
      /\ DOMAIN P1 = PlayerIds /\ \A q \in PlayerIds : P1[q] \in Int
      /\ DOMAIN S = Cells /\ \A d \in Cells : S[d] \in Int
      /\ DOMAIN S1 = Cells /\ \A d \in Cells : S1[d] \in Int
  BY DEF SumsTyped
<1>2. /\ \A q \in PlayerIds : q # p => P1[q] = P[q]
      /\ \A d \in Cells : d # c => S1[d] = S[d]
      /\ P1[p] + S1[c] <= P[p] + S[c]
  OBVIOUS
<1>3. Total = SumFunction(P) + SumFunction(S) /\ Total' = SumFunction(P1) + SumFunction(S1)
  BY DEF Total
<1> HIDE DEF P, P1, S, S1
<1>4. SumFunction(P) \in Int /\ SumFunction(P1) = SumFunction(P) - P[p] + P1[p]
  BY <1>1, <1>2, CellsFinite, SumFunctionChangesAt
<1>5. SumFunction(S) \in Int /\ SumFunction(S1) = SumFunction(S) - S[c] + S1[c]
  BY <1>1, <1>2, CellsFinite, SumFunctionChangesAt
<1>6. P[p] \in Int /\ P1[p] \in Int /\ S[c] \in Int /\ S1[c] \in Int
  BY <1>1
<1> QED BY <1>2, <1>3, <1>4, <1>5, <1>6

(* The sum is a number, before and after a step.                           *)
LEMMA TotalIsNumber ==
    ASSUME SumsTyped, SumsTyped'
    PROVE  Total \in Int /\ Total' \in Int
<1> DEFINE Sum(f) == SumFunction(f)
<1>1. ASSUME NEW S, IsFiniteSet(S), NEW f, DOMAIN f = S, \A x \in S : f[x] \in Int
      PROVE  Sum(f) \in Int
  <2>1. \A x \in S : f[x] <= f[x]
    BY <1>1
  <2> QED BY <1>1, <2>1, SumOfSmaller
<1>2. Sum(Purse) \in Int /\ Sum(StackOn) \in Int
  BY <1>1, CellsFinite DEF SumsTyped
<1>3. Sum(Purse') \in Int /\ Sum(StackOn') \in Int
  BY <1>1, CellsFinite DEF SumsTyped
<1> QED BY <1>2, <1>3 DEF Total

(* A step that touches neither wallets, tables nor the chips in hand.      *)
LEMMA NothingMoves ==
    ASSUME UNCHANGED <<tables, bank>>, \A p \in PlayerIds : HasChip(p)' <=> HasChip(p)
    PROVE  Total' = Total
<1>1. \A p \in PlayerIds : Held(p)' = Held(p)
  BY DEF Held
<1>2. Purse' = Purse
  <2> HIDE DEF Held
  <2> QED BY <1>1 DEF Purse
<1>3. StackOn' = StackOn
  BY DEF StackOn
<1> QED BY <1>2, <1>3 DEF Total

(* A Leave: the stack of the seat goes to the wallet, as StackOf found it. *)
LEMMA LeaveMovesStack ==
    ASSUME IInv, SumsTyped, SumsTyped', NEW p \in PlayerIds, NEW t \in TableIds,
           NEW r, LeaveAndRefund(p, t, r), IsSeated(tables[t], p),
           \A q \in PlayerIds : HasChip(q)' <=> HasChip(q)
    PROVE  Total' <= Total /\ Total \in Int /\ Total' \in Int
<1> DEFINE T == tables[t]
           i == T.playerSeat[p]
           c == <<t, i>>
<1>1. /\ TableOK(T) /\ T \in TableRecord /\ tables \in [TableIds -> TableRecord]
      /\ bank \in [PlayerIds -> Nat]
  BY Typed DEF TableOK, IInv, TypeOK
<1>2. i \in Seat /\ StackOf(T, p) = T.seats[i].stack /\ c \in Cells
  BY <1>1, StackOfSeat DEF Cells
<1>3. /\ tables' = [tables EXCEPT ![t] = Leave(T, p)]
      /\ bank' = [bank EXCEPT ![p] = bank[p] + StackOf(T, p)]
  BY DEF LeaveAndRefund, Take
<1>4. \A q \in PlayerIds : Held(q)' = Held(q) /\ Held(q) \in {0, 1}
  BY DEF Held
<1>5. \A q \in PlayerIds : q # p => Purse'[q] = Purse[q]
  <2> HIDE DEF Held
  <2> QED BY <1>1, <1>3, <1>4 DEF Purse
<1>6. StackOn[c] = T.seats[i].stack
  BY <1>2 DEF StackOn
<1>7. StackOn'[c] = 0
  <2>1. Leave(T, p).seats[i].stack = 0
    BY <1>1, <1>2 DEF Leave, FreeSeat, TableRecord
  <2>2. tables'[t] = Leave(T, p)
    BY <1>1, <1>3
  <2>3. StackOn'[c] = tables'[t].seats[i].stack
    BY <1>2 DEF StackOn
  <2> QED BY <2>1, <2>2, <2>3
<1>8. ASSUME NEW d \in Cells, d # c
      PROVE  StackOn'[d] = StackOn[d]
  <2>1. PICK u \in TableIds, j \in Seat : d = <<u, j>>
    BY DEF Cells
  <2>2. tables'[u].seats[j] = tables[u].seats[j]
    <3>1. CASE u = t
      <4>1. j # i /\ tables'[u] = Leave(T, p)
        BY <1>1, <1>3, <1>8, <2>1, <3>1
      <4> QED BY <1>1, <3>1, <4>1 DEF Leave, TableRecord
    <3>2. CASE u # t
      BY <1>1, <1>3, <3>2
    <3> QED BY <3>1, <3>2
  <2> QED BY <2>1, <2>2 DEF StackOn
<1>9. Purse[p] = bank[p] + Held(p) /\ Purse'[p] = bank[p] + StackOf(T, p) + Held(p)
  <2> HIDE DEF Held
  <2>1. Purse'[p] = bank'[p] + Held(p)
    BY <1>4 DEF Purse
  <2>2. bank'[p] = bank[p] + StackOf(T, p)
    BY <1>1, <1>3
  <2> QED BY <2>1, <2>2 DEF Purse
<1>10. bank[p] \in Nat /\ T.seats[i].stack \in Nat
  BY <1>1, <1>2 DEF TableRecord, Player, FreeSeat
<1>11. Purse'[p] + StackOn'[c] <= Purse[p] + StackOn[c]
  <2> HIDE DEF Held, T, i, c
  <2>1. ASSUME NEW b \in Nat, NEW s \in Nat, NEW h \in {0, 1}
        PROVE  (b + s + h) + 0 <= (b + h) + s
    OBVIOUS
  <2> QED BY <2>1, <1>2, <1>4, <1>6, <1>7, <1>9, <1>10
<1> HIDE DEF c
<1> QED BY <1>2, <1>5, <1>8, <1>11, ChipsMove

(* tables.Join: the chip in hand goes on the seat, is dropped at a seat    *)
(* the player has already, or goes back to the wallet.                     *)
LEMMA TakeSeatMovesChip ==
    ASSUME IInv, SumsTyped, SumsTyped', NEW p \in PlayerIds, TakeSeat(p)
    PROVE  Total' <= Total /\ Total \in Int /\ Total' \in Int
<1> DEFINE t == reg[p].to
           T == tables[t]
           seats == AllocateSeat(T, AnySeat)
<1>1. /\ At(p, "seat") /\ t \in TableIds /\ TableOK(T) /\ T \in TableRecord
      /\ tables \in [TableIds -> TableRecord] /\ bank \in [PlayerIds -> Nat]
      /\ pc \in [PlayerIds -> Pcs] /\ reg \in [PlayerIds -> Registers]
  BY Typed DEF TakeSeat, Registers, TableOK, IInv, TypeOK
<1>2. HasChip(p) /\ Held(p) = 1
  BY <1>1 DEF HasChip, Held, At
<1>3. ASSUME NEW q \in PlayerIds, q # p, pc'[q] = pc[q], reg'[q] = reg[q]
      PROVE  Held(q)' = Held(q)
  BY <1>3 DEF Held, HasChip
<1>4. ASSUME NEW U, NEW r, Take(p, t, U, r), r \in Registers, r.next = "idle",
             Goto(p, "mark"), UNCHANGED bank
      PROVE  /\ tables' = [tables EXCEPT ![t] = U]
             /\ Purse[p] = bank[p] + 1 /\ Purse'[p] = bank[p]
             /\ \A q \in PlayerIds : q # p => Purse'[q] = Purse[q]
  <2>1. reg' = [reg EXCEPT ![p] = [r EXCEPT !.msg = [table |-> t, seq |-> U.seq,
                                                     players |-> Snapshot(U)]]]
    BY <1>4 DEF Take, SetReg
  <2>2. reg'[p].next = "idle" /\ \A q \in PlayerIds : q # p => reg'[q] = reg[q]
    BY <1>1, <1>4, <2>1 DEF Registers
  <2>3. pc'[p] = "mark" /\ \A q \in PlayerIds : q # p => pc'[q] = pc[q]
    BY <1>1, <1>4 DEF Goto
  <2>4. Held(p)' = 0
    BY <2>2, <2>3 DEF Held, HasChip
  <2>5. \A q \in PlayerIds : q # p => Held(q)' = Held(q)
    BY <1>3, <2>2, <2>3
  <2> HIDE DEF Held
  <2>6. Purse'[p] = bank'[p] + Held(p)' /\ Purse[p] = bank[p] + Held(p)
    BY DEF Purse
  <2>7. bank'[p] + 0 = bank[p]
    BY <1>1, <1>4
  <2>8. \A q \in PlayerIds : q # p => Purse'[q] = Purse[q]
    BY <1>4, <2>5 DEF Purse
  <2> QED BY <1>2, <1>4, <2>4, <2>6, <2>7, <2>8 DEF Take
<1>5. [Blank EXCEPT !.seated = TRUE] \in Registers
      /\ [Blank EXCEPT !.seated = TRUE].next = "idle"
  BY BlankIsTyped DEF Registers
<1>6. bank[p] \in Nat
  BY <1>1
<1>7. CASE /\ IsSeated(T, p) /\ Take(p, t, T, [Blank EXCEPT !.seated = TRUE])
           /\ Goto(p, "mark") /\ UNCHANGED bank
  <2>1. PICK i \in Seat : TRUE
    BY MaxPlayersAssumption DEF Seat
  <2> DEFINE c == <<t, i>>
  <2>2. c \in Cells
    BY <1>1 DEF Cells
  <2>3. tables' = tables
    <3>1. Take(p, t, T, [Blank EXCEPT !.seated = TRUE])
      BY <1>7
    <3>2. tables' = [tables EXCEPT ![t] = tables[t]]
      BY <3>1 DEF Take
    <3> QED BY <1>1, <3>2
  <2>4. StackOn' = StackOn
    BY <2>3 DEF StackOn
  <2>5. StackOn[c] \in Nat
    BY <2>2 DEF SumsTyped
  <2>6. /\ \A q \in PlayerIds : q # p => Purse'[q] = Purse[q]
        /\ Purse[p] = bank[p] + 1 /\ Purse'[p] = bank[p]
    BY <1>4, <1>5, <1>7
  <2> HIDE DEF c
  <2>7. Purse'[p] + StackOn'[c] <= Purse[p] + StackOn[c]
    BY <1>6, <2>4, <2>5, <2>6
  <2> QED BY <2>2, <2>4, <2>6, <2>7, ChipsMove
<1>8. ASSUME ~ IsSeated(T, p), NEW i \in seats,
             Take(p, t, Join(T, p, 1, i), [Blank EXCEPT !.seated = TRUE]),
             Goto(p, "mark"), UNCHANGED bank
      PROVE  Total' <= Total /\ Total \in Int /\ Total' \in Int
  <2> DEFINE c == <<t, i>>
  <2>1. i \in Seat /\ IsFree(T, i) /\ c \in Cells
    BY <1>1, AllocatedSeatIsFree DEF Cells
  <2>2. /\ tables' = [tables EXCEPT ![t] = Join(T, p, 1, i)]
        /\ \A q \in PlayerIds : q # p => Purse'[q] = Purse[q]
        /\ Purse[p] = bank[p] + 1 /\ Purse'[p] = bank[p]
    BY <1>4, <1>5, <1>8
  <2>3. StackOn[c] = 0
    BY <2>1 DEF StackOn, IsFree, FreeSeat
  <2>4. StackOn'[c] = 1
    <3>1. Join(T, p, 1, i).seats[i].stack = 1
      BY <1>1, <2>1 DEF Join, TableRecord
    <3>2. tables'[t] = Join(T, p, 1, i)
      BY <1>1, <2>2
    <3>3. StackOn'[c] = tables'[t].seats[i].stack
      BY <2>1 DEF StackOn
    <3> QED BY <3>1, <3>2, <3>3
  <2>5. ASSUME NEW d \in Cells, d # c
        PROVE  StackOn'[d] = StackOn[d]
    <3>1. PICK u \in TableIds, j \in Seat : d = <<u, j>>
      BY DEF Cells
    <3>2. tables'[u].seats[j] = tables[u].seats[j]
      <4>1. CASE u = t
        <5>1. j # i /\ tables'[u] = Join(T, p, 1, i)
          BY <1>1, <2>2, <2>5, <3>1, <4>1
        <5> QED BY <1>1, <4>1, <5>1 DEF Join, TableRecord
      <4>2. CASE u # t
        BY <1>1, <2>2, <4>2
      <4> QED BY <4>1, <4>2
    <3> QED BY <3>1, <3>2 DEF StackOn
  <2> HIDE DEF c
  <2>6. Purse'[p] + StackOn'[c] <= Purse[p] + StackOn[c]
    BY <1>6, <2>2, <2>3, <2>4
  <2> QED BY <2>1, <2>2, <2>5, <2>6, ChipsMove
<1>9. CASE /\ bank' = [bank EXCEPT ![p] = bank[p] + 1]
           /\ SetReg(p, Blank) /\ Goto(p, "idle") /\ UNCHANGED <<tables, overlapped>>
  <2>1. /\ pc'[p] = "idle" /\ bank'[p] = bank[p] + 1
        /\ \A q \in PlayerIds : q # p => /\ pc'[q] = pc[q] /\ reg'[q] = reg[q]
                                         /\ bank'[q] = bank[q]
    BY <1>1, <1>9 DEF Goto, SetReg
  <2>2. Held(p)' = 0 /\ \A q \in PlayerIds : q # p => Held(q)' = Held(q)
    BY <1>3, <2>1 DEF Held, HasChip, PublishPcs
  <2>3. Purse' = Purse
    <3> HIDE DEF Held
    <3>1. bank'[p] + Held(p)' = bank[p] + Held(p)
      BY <1>2, <1>6, <2>1, <2>2
    <3>2. \A q \in PlayerIds : bank'[q] + Held(q)' = bank[q] + Held(q)
      BY <2>1, <2>2, <3>1
    <3> QED BY <3>2 DEF Purse
  <2>4. StackOn' = StackOn
    BY <1>9 DEF StackOn
  <2>5. Total \in Int
    BY TotalIsNumber
  <2> QED BY <2>3, <2>4, <2>5 DEF Total
<1> QED BY <1>1, <1>7, <1>8, <1>9 DEF TakeSeat

(* A chip leaves the wallet into the hand of the handler.                  *)
LEMMA JoinTakesChip ==
    ASSUME IInv, NEW p \in PlayerIds, NEW t \in TableIds, JoinRequest(p, t)
    PROVE  Total' = Total
<1>1. /\ pc \in [PlayerIds -> Pcs] /\ reg \in [PlayerIds -> Registers]
      /\ bank \in [PlayerIds -> Nat]
  BY Typed DEF IInv, TypeOK
<1>2. /\ pc[p] = "idle" /\ pc'[p] \in {"switch", "seat"}
      /\ bank'[p] = bank[p] - 1 /\ bank[p] \in Nat
      /\ \A q \in PlayerIds : q # p => /\ pc'[q] = pc[q] /\ reg'[q] = reg[q]
                                       /\ bank'[q] = bank[q]
  BY <1>1 DEF JoinRequest, Goto, SetReg, At
<1>3. Held(p) = 0 /\ Held(p)' = 1
  BY <1>2 DEF Held, HasChip, PublishPcs
<1>4. \A q \in PlayerIds : q # p => Held(q)' = Held(q)
  BY <1>2 DEF Held, HasChip
<1>5. Purse' = Purse
  <2> HIDE DEF Held
  <2>1. bank'[p] + Held(p)' = bank[p] + Held(p)
    BY <1>2, <1>3
  <2>2. \A q \in PlayerIds : bank'[q] + Held(q)' = bank[q] + Held(q)
    BY <1>2, <1>4, <2>1
  <2> QED BY <2>2 DEF Purse
<1>6. StackOn' = StackOn
  BY DEF JoinRequest, StackOn
<1> QED BY <1>5, <1>6 DEF Total

(* What a new process finds is no more than what the old one left, unless  *)
(* the boot restored a snapshot that may be old.                           *)
LEMMA RestartAddsNothing ==
    ASSUME IInv, SumsTyped, SumsTyped', Restart, ~ doubted'
    PROVE  Total' <= Total /\ Total \in Int /\ Total' \in Int
<1>1. ASSUME NEW c \in Cells
      PROVE  StackOn'[c] <= StackOn[c]
  <2>1. PICK t \in TableIds, i \in Seat : c = <<t, i>>
    BY DEF Cells
  <2>2. StackOn[c] = tables[t].seats[i].stack /\ StackOn'[c] = tables'[t].seats[i].stack
    BY <2>1 DEF StackOn
  <2>3. StackOn[c] \in Nat
    BY DEF SumsTyped
  <2>4. CASE t = DefaultTable /\ boot' = "restored"
    <3>1. DefaultTable \notin overlapped \cup unsaved /\ ~ Unfinished(DefaultTable)
      BY <2>4 DEF Restart
    <3>2. tables'[DefaultTable] = tables[DefaultTable]
      BY <2>4, <3>1, QuietBoot
    <3> QED BY <2>2, <2>3, <2>4, <3>2
  <2>5. CASE ~ (t = DefaultTable /\ boot' = "restored")
    <3>1. tables'[t] = EmptyTable
      BY <2>5 DEF Restart, BootTable
    <3>2. StackOn'[c] = 0
      BY <2>2, <3>1 DEF EmptyTable, FreeSeat
    <3> QED BY <2>3, <3>2
  <2> QED BY <2>4, <2>5
<1>2. ASSUME NEW p \in PlayerIds
      PROVE  Purse'[p] <= Purse[p]
  <2>1. bank[p] \in Nat /\ bank'[p] = bank[p]
    BY DEF Restart, SumsTyped
  <2>2. Held(p)' = 0
    BY DEF Restart, Held, HasChip, PublishPcs
  <2>3. Held(p) \in {0, 1}
    BY DEF Held
  <2> HIDE DEF Held
  <2>4. Purse[p] = bank[p] + Held(p) /\ Purse'[p] = bank'[p] + Held(p)'
    BY DEF Purse
  <2> QED BY <2>1, <2>2, <2>3, <2>4
<1>3. /\ SumFunction(Purse) \in Int /\ SumFunction(Purse)' \in Int
      /\ SumFunction(Purse)' <= SumFunction(Purse)
  <2> DEFINE P == Purse
             P1 == Purse'
  <2>1. /\ DOMAIN P = PlayerIds /\ \A q \in PlayerIds : P[q] \in Int
        /\ DOMAIN P1 = PlayerIds /\ \A q \in PlayerIds : P1[q] \in Int
        /\ \A q \in PlayerIds : P1[q] <= P[q]
    BY <1>2 DEF SumsTyped
  <2> HIDE DEF P, P1
  <2>2. /\ SumFunction(P) \in Int /\ SumFunction(P1) \in Int
        /\ SumFunction(P1) <= SumFunction(P)
    BY <2>1, CellsFinite, SumOfSmaller
  <2> QED BY <2>2 DEF P, P1
<1>4. /\ SumFunction(StackOn) \in Int /\ SumFunction(StackOn)' \in Int
      /\ SumFunction(StackOn)' <= SumFunction(StackOn)
  <2> DEFINE S == StackOn
             S1 == StackOn'
  <2>1. /\ DOMAIN S = Cells /\ \A c \in Cells : S[c] \in Int
        /\ DOMAIN S1 = Cells /\ \A c \in Cells : S1[c] \in Int
        /\ \A c \in Cells : S1[c] <= S[c]
    BY <1>1 DEF SumsTyped
  <2> HIDE DEF S, S1
  <2>2. /\ SumFunction(S) \in Int /\ SumFunction(S1) \in Int
        /\ SumFunction(S1) <= SumFunction(S)
    BY <2>1, CellsFinite, SumOfSmaller
  <2> QED BY <2>2 DEF S, S1
<1>5. Total = SumFunction(Purse) + SumFunction(StackOn)
      /\ Total' = SumFunction(Purse)' + SumFunction(StackOn)'
  BY DEF Total
<1> QED BY <1>3, <1>4, <1>5

(* No step makes chips.                                                    *)
LEMMA StepCreatesNone ==
    ASSUME IInv, SumsTyped, SumsTyped', [Next]_vars, ~ doubted'
    PROVE  ~ doubted /\ Total' <= Total /\ Total \in Int /\ Total' \in Int
<1>0. Total \in Int /\ Total' \in Int
  BY TotalIsNumber
<1>t. pc \in [PlayerIds -> Pcs] /\ reg \in [PlayerIds -> Registers]
  BY Typed
<1>1. ASSUME NEW p \in PlayerIds, Connect(p) \/ ReadSnapshot(p) \/ Answer(p)
      PROVE  ~ doubted /\ Total' = Total
  <2>1. UNCHANGED <<tables, bank, doubted>>
    BY <1>1 DEF Connect, ReadSnapshot, Answer, storeVars, history
  <2>2. /\ pc[p] \in {"off", "greet", "idle", "answer"}
        /\ pc'[p] \in {"greet", "answer", "idle"}
        /\ \A q \in PlayerIds : q # p => pc'[q] = pc[q] /\ reg'[q] = reg[q]
    BY <1>1, <1>t DEF Connect, ReadSnapshot, Answer, Goto, SetReg, At
  <2>3. \A q \in PlayerIds : HasChip(q)' <=> HasChip(q)
    BY <2>2 DEF HasChip, PublishPcs
  <2> QED BY <2>1, <2>3, NothingMoves
<1>2. ASSUME NEW p \in PlayerIds, Mark(p) \/ List(p) \/ Write(p) \/ Save(p) \/ Drop(p)
      PROVE  ~ doubted /\ Total' = Total
  <2>1. UNCHANGED <<tables, bank, doubted>>
    BY <1>2 DEF Mark, List, Write, Save, Drop, storeVars, history
  <2>2. /\ \/ pc[p] \in PublishPcs /\ pc'[p] \in PublishPcs
           \/ pc'[p] = pc[p]
        /\ \A q \in PlayerIds : q # p => pc'[q] = pc[q]
    BY <1>2, <1>t DEF Mark, List, Write, Save, Drop, Goto, At, PublishPcs
  <2>3. \A q \in PlayerIds : reg'[q].next = reg[q].next
    BY <1>2, <1>t DEF Mark, List, Write, Save, Drop, SetReg, Registers
  <2>4. \A q \in PlayerIds : HasChip(q)' <=> HasChip(q)
    BY <2>2, <2>3 DEF HasChip, PublishPcs
  <2> QED BY <2>1, <2>4, NothingMoves
<1>3. ASSUME NEW p \in PlayerIds, Log(p)
      PROVE  ~ doubted /\ Total' = Total
  <2>1. UNCHANGED <<tables, bank, doubted>>
    BY <1>3 DEF Log
  <2>2. /\ pc[p] = "log" /\ pc'[p] = reg[p].next
        /\ \A q \in PlayerIds : q # p => pc'[q] = pc[q] /\ reg'[q] = reg[q]
    BY <1>3, <1>t DEF Log, Goto, SetReg, At
  <2>3. reg[p].next \in {"idle", "seat", "off"}
    BY <1>t DEF Registers
  <2>4. \A q \in PlayerIds : HasChip(q)' <=> HasChip(q)
    BY <2>2, <2>3 DEF HasChip, PublishPcs
  <2> QED BY <2>1, <2>4, NothingMoves
<1>4. ASSUME NEW p \in PlayerIds, NEW t \in TableIds, NEW r, NEW label \in {"mark", "list"},
             LeaveAndRefund(p, t, r), IsSeated(tables[t], p), Goto(p, label),
             r \in Registers,
             \/ pc[p] = "switch" /\ r.next = "seat"
             \/ pc[p] = "idle" /\ r.next # "seat"
      PROVE  ~ doubted /\ Total' <= Total
  <2>1. /\ pc'[p] \in {"mark", "list"} /\ reg'[p].next = r.next
        /\ \A q \in PlayerIds : q # p => pc'[q] = pc[q] /\ reg'[q] = reg[q]
    BY <1>4, <1>t DEF LeaveAndRefund, Take, Goto, SetReg, Registers
  <2>2. \A q \in PlayerIds : HasChip(q)' <=> HasChip(q)
    BY <1>4, <2>1 DEF HasChip, PublishPcs
  <2>3. UNCHANGED doubted
    BY <1>4 DEF LeaveAndRefund
  <2> QED BY <1>4, <2>2, <2>3, LeaveMovesStack
<1>5. ASSUME NEW p \in PlayerIds, SwitchLeave(p)
      PROVE  ~ doubted /\ Total' <= Total
  <2> DEFINE r == [reg[p] EXCEPT !.next = "seat"]
             t == client[p].table
  <2>1. /\ pc[p] = "switch" /\ LeaveAndRefund(p, t, r) /\ Goto(p, "mark")
    BY <1>5 DEF SwitchLeave, At
  <2>2. t \in TableIds /\ IsSeated(tables[t], p)
    BY <2>1, Typed DEF IInv, SeatHeld, SitsThere, At
  <2>3. r \in Registers /\ r.next = "seat"
    BY <1>t DEF Registers
  <2> HIDE DEF r, t
  <2> QED BY <1>4, <2>1, <2>2, <2>3
<1>6. ASSUME NEW p \in PlayerIds, NEW t \in TableIds, LeaveRequest(p, t)
      PROVE  ~ doubted /\ Total' <= Total
  <2>1. /\ pc[p] = "idle" /\ LeaveAndRefund(p, t, Blank) /\ Goto(p, "mark")
        /\ IsSeated(tables[t], p)
    BY <1>6 DEF LeaveRequest, At
  <2>2. Blank \in Registers /\ Blank.next # "seat"
    BY BlankIsTyped
  <2> QED BY <1>4, <2>1, <2>2
<1>7. ASSUME NEW p \in PlayerIds, Close(p)
      PROVE  ~ doubted /\ Total' <= Total
  <2>1. pc[p] = "idle"
    BY <1>7 DEF Close, At
  <2>2. CASE /\ client[p].seated
             /\ LeaveAndRefund(p, client[p].table, [Blank EXCEPT !.next = "off"])
             /\ Goto(p, "list")
    <3> DEFINE r == [Blank EXCEPT !.next = "off"]
               t == client[p].table
    <3>1. t \in TableIds /\ IsSeated(tables[t], p)
      BY <2>1, <2>2, Typed DEF IInv, SeatHeld, SitsThere, At
    <3>2. r \in Registers /\ r.next = "off"
      BY BlankIsTyped DEF Registers
    <3>3. LeaveAndRefund(p, t, r) /\ Goto(p, "list")
      BY <2>2
    <3> HIDE DEF r, t
    <3> QED BY <1>4, <2>1, <3>1, <3>2, <3>3
  <2>3. CASE /\ Goto(p, "off")
             /\ UNCHANGED <<tables, client, open, reg, screen, storeVars, counters, history>>
    <3>1. UNCHANGED <<tables, bank, doubted>>
      BY <2>3 DEF storeVars, history
    <3>2. pc'[p] = "off" /\ \A q \in PlayerIds : q # p => pc'[q] = pc[q]
      BY <1>t, <2>3 DEF Goto
    <3>3. \A q \in PlayerIds : HasChip(q)' <=> HasChip(q)
      BY <2>1, <2>3, <3>2 DEF HasChip, PublishPcs
    <3>4. Total' = Total
      BY <3>1, <3>3, NothingMoves
    <3> QED BY <1>0, <3>1, <3>4
  <2> QED BY <1>7, <2>2, <2>3 DEF Close
<1>8. ASSUME NEW p \in PlayerIds, TakeSeat(p)
      PROVE  ~ doubted /\ Total' <= Total
  <2>1. UNCHANGED doubted
    BY <1>8 DEF TakeSeat
  <2> QED BY <1>8, <2>1, TakeSeatMovesChip
<1>9. ASSUME NEW p \in PlayerIds, NEW t \in TableIds, JoinRequest(p, t)
      PROVE  ~ doubted /\ Total' = Total
  <2>1. UNCHANGED doubted
    BY <1>9 DEF JoinRequest, history
  <2> QED BY <1>9, <2>1, JoinTakesChip
<1>10. CASE Restart
  <2>1. ~ doubted
    BY <1>10 DEF Restart
  <2> QED BY <1>10, <2>1, RestartAddsNothing
<1>11. CASE UNCHANGED vars
  <2>1. UNCHANGED <<tables, bank, pc, reg, doubted>>
    BY <1>11 DEF vars, serverVars, storeVars, history
  <2>2. \A q \in PlayerIds : HasChip(q)' <=> HasChip(q)
    BY <2>1 DEF HasChip
  <2>3. Total' = Total
    BY <2>1, <2>2, NothingMoves
  <2> QED BY <1>0, <2>1, <2>3
<1>12. Total' = Total => Total' <= Total
  BY <1>0
<1> QED BY <1>0, <1>1, <1>2, <1>3, <1>5, <1>6, <1>7, <1>8, <1>9, <1>10, <1>11, <1>12 DEF Next

(* At the start the wallets hold everything.                               *)
LEMMA InitialTotal ==
    ASSUME Init, SumsTyped
    PROVE  Total <= InitialChips * Cardinality(PlayerIds)
<1>1. \A p \in PlayerIds : Purse[p] = InitialChips
  <2>1. \A p \in PlayerIds : Held(p) = 0 /\ bank[p] = InitialChips
    BY DEF Init, Held, HasChip, PublishPcs
  <2> HIDE DEF Held
  <2>2. InitialChips + 0 = InitialChips
    BY InitialChipsAssumption
  <2> QED BY <2>1, <2>2 DEF Purse
<1>2. DOMAIN Purse = PlayerIds /\ DOMAIN StackOn = Cells
  BY DEF SumsTyped
<1>3. SumFunction(Purse) = InitialChips * Cardinality(PlayerIds)
  BY <1>1, <1>2, CellsFinite, InitialChipsAssumption, SumOfConstant
<1>4. \A c \in Cells : StackOn[c] = 0
  <2>1. \A c \in Cells : c[1] \in TableIds /\ c[2] \in Seat
    BY DEF Cells
  <2> QED BY <2>1 DEF Init, StackOn, EmptyTable, FreeSeat
<1>5. SumFunctionOnSet(StackOn, Cells) = 0
  BY <1>4, CellsFinite, SumOfZeros
<1>6. SumFunction(StackOn) = 0
  BY <1>2, <1>5 DEF SumFunction
<1>7. InitialChips * Cardinality(PlayerIds) \in Int
  BY CellsFinite, FS_CardinalityType, InitialChipsAssumption
<1>8. ASSUME NEW n \in Int PROVE n + 0 <= n
  OBVIOUS
<1> QED BY <1>3, <1>6, <1>7, <1>8 DEF Total

(* The chips of all players never grow, across any number of restarts,     *)
(* unless a boot restored a snapshot of a table that was not at rest, or   *)
(* not saved (ws_handlers.go 95 and 98, 193 and 197; app.go 79).           *)
THEOREM TrustedNeverCreatesChips == Spec => []TrustedNoChipsCreated
<1>1. IInv => SumsTyped
  BY NumbersAdded DEF IInv
<1>2. InitialChips * Cardinality(PlayerIds) \in Int
  BY CellsFinite, FS_CardinalityType, InitialChipsAssumption
<1>3. Init => NoneCreated
  BY <1>1, InitIInv, InitialTotal DEF NoneCreated
<1>4. ASSUME IInv, IInv', NoneCreated, [Next]_vars
      PROVE  NoneCreated'
  <2>1. SumsTyped'
    BY <1>4, NumbersAddedNext DEF IInv
  <2>2. CASE doubted'
    BY <2>2 DEF NoneCreated
  <2>3. CASE ~ doubted'
    <3>1. ~ doubted /\ Total' <= Total /\ Total \in Int /\ Total' \in Int
      BY <1>1, <1>4, <2>1, <2>3, StepCreatesNone
    <3>2. Total <= InitialChips * Cardinality(PlayerIds)
      BY <1>4, <3>1 DEF NoneCreated
    <3> QED BY <1>2, <3>1, <3>2 DEF NoneCreated
  <2> QED BY <2>2, <2>3
<1>5. ASSUME IInv, NoneCreated
      PROVE  TrustedNoChipsCreated
  <2>1. SumsTyped
    BY <1>1, <1>5
  <2>2. /\ DOMAIN Purse = PlayerIds /\ DOMAIN bank = PlayerIds
        /\ \A p \in PlayerIds : Purse[p] \in Int /\ bank[p] \in Int
    BY <2>1 DEF SumsTyped
  <2>3. \A p \in PlayerIds : bank[p] <= Purse[p]
    <3>1. \A p \in PlayerIds : Held(p) \in {0, 1} /\ bank[p] \in Int
      BY <2>2 DEF Held
    <3> HIDE DEF Held
    <3>2. ASSUME NEW b \in Int, NEW h \in {0, 1} PROVE b <= b + h
      OBVIOUS
    <3> QED BY <3>1, <3>2 DEF Purse
  <2>4. /\ SumFunction(bank) \in Int /\ SumFunction(Purse) \in Int
        /\ SumFunction(bank) <= SumFunction(Purse)
    BY <2>2, <2>3, CellsFinite, SumOfSmaller
  <2>5. SumFunction(StackOn) \in Int
    <3>1. /\ DOMAIN StackOn = Cells /\ \A c \in Cells : StackOn[c] \in Int
          /\ \A c \in Cells : StackOn[c] <= StackOn[c]
      BY <2>1 DEF SumsTyped
    <3> QED BY <3>1, CellsFinite, SumOfSmaller
  <2>6. Chips <= Total
    BY <2>4, <2>5 DEF Chips, Total
  <2>7. Chips \in Int /\ Total \in Int
    BY <2>4, <2>5 DEF Chips, Total
  <2>8. doubted \/ Total <= InitialChips * Cardinality(PlayerIds)
    BY <1>5 DEF NoneCreated
  <2> QED BY <1>2, <2>6, <2>7, <2>8 DEF TrustedNoChipsCreated
<1> QED BY <1>3, <1>4, <1>5, AlwaysIInv, PTL DEF Spec
=============================================================================
