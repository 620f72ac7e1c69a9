---------------------------- MODULE MCVpnManager ----------------------------
(* Model-checking instances of VpnManager: the constants are in the cfg    *)
(* files.                                                                  *)
EXTENDS VpnManager
=============================================================================
