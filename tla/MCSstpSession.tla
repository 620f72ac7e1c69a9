--------------------------- MODULE MCSstpSession ---------------------------
(* Model-checking instances of SstpSession: the constants are in the cfg   *)
(* files.                                                                  *)
EXTENDS SstpSession
=============================================================================
