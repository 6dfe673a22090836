------------------------------ MODULE MC_Power ------------------------------
(***************************************************************************)
(* Power with the whole charger status and battery readings on both sides  *)
(* of each threshold: 0, 2984 and 3004, 3184 and 3204, 3784 and 3804, 3984 *)
(* and 4004 and 4844 mV.                                                   *)
(***************************************************************************)
EXTENDS Power

MCVoltageCodes == {0, 34, 35, 44, 45, 74, 75, 84, 85, 127}
=============================================================================
