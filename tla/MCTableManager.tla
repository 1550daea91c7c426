--------------------------- MODULE MCTableManager ---------------------------
(* Three players and one table of two seats; players may come back from a  *)
(* saved list that is sound, out of range, anonymous or has duplicates.    *)
EXTENDS TableManager, Sequences

CONSTANTS p1, p2, p3

Saved(p, i, s) == [player |-> p, seat |-> i, stack |-> s]

MCSavedLists ==
    { <<>>,
      <<Saved(p1, 1, 1)>>,
      <<Saved(p1, 0, 2), Saved(p2, 1, 1)>>,
      <<Saved(p1, 2, 1)>>, <<Saved(p1, -1, 1)>>, <<Saved(NoPlayer, 0, 1)>>,
      <<Saved(p1, 0, 1), Saved(p1, 1, 1)>>,
      <<Saved(p1, 0, 1), Saved(p2, 0, 2)>> }
=============================================================================
