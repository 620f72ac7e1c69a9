----------------------------- MODULE MCSstpRecv -----------------------------
(* Model-checking instances of SstpRecv: the constants are in the cfg      *)
(* file.                                                                   *)
EXTENDS SstpRecv
=============================================================================
