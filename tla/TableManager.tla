---------------------------- MODULE TableManager ----------------------------
(***************************************************************************)
(* The table manager (backend/internal/table/manager.go) with its tables:  *)
(* Join, Leave and Restore of one table at a time, each under that table's *)
(* mutex.  A table that was never used is created empty by                 *)
(* getOrCreateTable on first use, which is the table it is here from the   *)
(* start.                                                                  *)
(*                                                                         *)
(* Restore runs while the application boots (app.go newWithStores), before *)
(* any request, on whatever the snapshot store holds.                      *)
(***************************************************************************)
EXTENDS Table

CONSTANTS
    Stacks,        \* the stacks players sit down with
    SavedLists,    \* the player lists a saved snapshot may hold, bad ones too
    SavedSeqs,     \* the sequence numbers it may hold
    MaxSeq         \* bound: no Join or Leave once a table is at this number

ASSUME StacksAssumption == Stacks \subseteq Nat
ASSUME SavedAssumption ==
    /\ SavedSeqs \subseteq Nat
    /\ \A list \in SavedLists : \A k \in DOMAIN list :
            /\ list[k].player \in PlayerIds \cup {NoPlayer}
            /\ list[k].seat \in Int
            /\ list[k].stack \in Nat
ASSUME MaxSeqAssumption == MaxSeq \in Nat

VARIABLES
    tables,
    booted,
    published      \* history: every (table, seq, snapshot) handed to a caller

vars == <<tables, booted, published>>

Init ==
    /\ tables = [t \in TableIds |-> EmptyTable]
    /\ booted = FALSE
    /\ published = {}

Published(t, T) == [table |-> t, seq |-> T.seq, snapshot |-> Snapshot(T)]

Hand(t, T) ==
    /\ tables' = [tables EXCEPT ![t] = T]
    /\ published' = published \cup {Published(t, T)}

\* The application starts without a saved snapshot, or with one Restore
\* refuses: the table stays empty.
BootEmpty ==
    /\ ~ booted
    /\ booted' = TRUE
    /\ published' = {Published(t, tables[t]) : t \in TableIds}
    /\ UNCHANGED tables

BootRestore(t, list, seq) ==
    /\ ~ booted
    /\ CheckedList(list)
    /\ booted' = TRUE
    /\ tables' = [tables EXCEPT ![t] = Restore(list, seq)]
    /\ published' = {Published(u, tables'[u]) : u \in TableIds}

\* A Join that changes the table; a refused one changes nothing.
JoinTable(t, p, stack, preferred) ==
    /\ booted
    /\ tables[t].seq < MaxSeq
    /\ ~ IsSeated(tables[t], p)
    /\ \E i \in AllocateSeat(tables[t], preferred) :
            Hand(t, Join(tables[t], p, stack, i))
    /\ UNCHANGED booted

LeaveTable(t, p) ==
    /\ booted
    /\ tables[t].seq < MaxSeq
    /\ IsSeated(tables[t], p)
    /\ Hand(t, Leave(tables[t], p))
    /\ UNCHANGED booted

\* Snapshot, and a Join of a player who is seated: the table as it is.
ReadTable(t) ==
    /\ booted
    /\ Hand(t, tables[t])
    /\ UNCHANGED booted

Next ==
    \/ BootEmpty
    \/ \E t \in TableIds, list \in SavedLists, seq \in SavedSeqs :
            BootRestore(t, list, seq)
    \/ \E t \in TableIds : ReadTable(t)
    \/ \E t \in TableIds, p \in PlayerIds :
            \/ \E stack \in Stacks, preferred \in -1 .. MaxPlayers :
                    JoinTable(t, p, stack, preferred)
            \/ LeaveTable(t, p)

Spec == Init /\ [][Next]_vars

-----------------------------------------------------------------------------

TypeOK ==
    /\ tables \in [TableIds -> TableRecord]
    /\ booted \in BOOLEAN

(* The seats and the player index say the same: the                        *)
(* index sends a player to the seat that holds him, and no seat holds a    *)
(* player the index does not know (a ghost nobody could remove).  Join,    *)
(* Leave and Restore write both by hand (table.go 86-87, 103-104,          *)
(* 141-147).                                                               *)
SeatsMatchIndex == \A t \in TableIds : SeatsAgree(tables[t])

(* Within one process a sequence number names one state of the seats:      *)
(* whatever is published for a table under one number is the same          *)
(* snapshot, and it is the current one if the number is current.  A client *)
(* that has seen seq n may drop everything up to n until the server is     *)
(* started again (snapshots carry seq, table.go 88, 105).                  *)
SeqNamesSnapshot ==
    \A r \in published :
        /\ r.seq <= tables[r.table].seq
        /\ r.seq = tables[r.table].seq => r.snapshot = Snapshot(tables[r.table])
        /\ \A q \in published :
                (q.table = r.table /\ q.seq = r.seq) => q.snapshot = r.snapshot
=============================================================================
