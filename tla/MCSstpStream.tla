---------------------------- MODULE MCSstpStream ----------------------------
(* Model-checking instances of SstpStream: the constants are in the cfg    *)
(* files.                                                                  *)
EXTENDS SstpStream
=============================================================================
