-------------------------- MODULE MCSessionService --------------------------
(* Three spellings of two nicknames, and the symmetry of the run.          *)
EXTENDS SessionServiceProperties, TLC

Spellings == {"ann", "ANN", "bob"}

CanonicalSpelling == [x \in Spellings |-> IF x = "ANN" THEN "ann" ELSE x]

Symmetric == Permutations(Requests) \cup Permutations(Guests)
=============================================================================
