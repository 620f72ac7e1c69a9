----------------------------- MODULE MCIosPppd -----------------------------
(* The PPP client against every server policy.                             *)
EXTENDS IosPppd
=============================================================================
