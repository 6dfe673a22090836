------------------------------ MODULE MC_Board ------------------------------
(***************************************************************************)
(* A small instance of Board: one point and one reading of each kind, since *)
(* the order of the steps matters here and their data does not.            *)
(***************************************************************************)
EXTENDS Board

MCRawPoints == {[x |-> 1, y |-> 1]}
=============================================================================
