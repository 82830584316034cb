-------------------------------- MODULE MCLog -------------------------------
(* Log on blocks of seven bytes with headers of three.                     *)
EXTENDS Log
=============================================================================
