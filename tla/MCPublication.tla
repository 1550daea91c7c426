--------------------------- MODULE MCPublication ---------------------------
(* The symmetry of the run.                                                *)
EXTENDS PublicationProperties, TLC

Symmetric == Permutations(PlayerIds)
=============================================================================
