------------------------------ MODULE MCInject ------------------------------
(* Model-checking instances of Inject: the constants are in the cfg files. *)
EXTENDS Inject
=============================================================================
