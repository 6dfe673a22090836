------------------------------ MODULE MC_Touch ------------------------------
(***************************************************************************)
(* A small instance of Touch: a window of 3 by 2 points and two corners of *)
(* a panel that reports beyond it.  Coordinates are never negative, so one *)
(* corner lies inside the window and the other is clamped at the upper end *)
(* of both axes.                                                           *)
(***************************************************************************)
EXTENDS Touch

MCRawPoints == {[x |-> 0, y |-> 1], [x |-> 4, y |-> 5]}
=============================================================================
