--------------------------- MODULE MCTableService ---------------------------
(* Owners of the connections for the runs, and what runs that end in a     *)
(* violation check.                                                        *)
EXTENDS TableServiceProperties

CONSTANTS p1, p2, c1, c2, c3

TwoForOne == [c \in Conns |-> IF c = c3 THEN p2 ELSE p1]

(* Nobody ever has more chips than he was given.                           *)
NoChipsCreated ==
    \A p \in PlayerIds : HasWallet(p) => Chips(p) <= InitialBalance

(* A player whose connections are all gone has no seat left.               *)
NoSeatWithoutConnection ==
    \A p \in PlayerIds :
        ~ Busy(p) => \A t \in TableIds : ~ IsSeated(tables[t], p)
=============================================================================
