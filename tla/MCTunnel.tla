------------------------------ MODULE MCTunnel ------------------------------
(* Model-checking instances of Tunnel: the constants are in the cfg files. *)
EXTENDS Tunnel
=============================================================================
