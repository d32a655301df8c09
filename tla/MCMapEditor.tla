----------------------------- MODULE MCMapEditor -----------------------------
(***************************************************************************)
(* MapEditor for TLC: a world of two cells by one, with the floor of one   *)
(* of them as the map's own block.                                         *)
(***************************************************************************)
EXTENDS MapEditor

MCOriginal ==
  <<[x |-> 0, y |-> 0, width |-> 2, height |-> 2, type |-> "solid", extra |-> "none"]>>
MCPoints   == {<<1, 0>>, <<3, 2>>}
MCNumbers  == {0, 1, 9}
=============================================================================
