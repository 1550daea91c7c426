--------------------------- MODULE MCRequestCache ---------------------------
(* The symmetry of the run.                                                *)
EXTENDS RequestCacheProperties, TLC

Symmetric == Permutations(RequestIds \ {NoId})
=============================================================================
