------------------------------ MODULE MCServer ------------------------------
(***************************************************************************)
(* Two requests of any kind, one device, and each of MongoDB and Redis     *)
(* failing, for the process to boot and to run without either.             *)
(***************************************************************************)
EXTENDS Server

CONSTANTS d1, r1, r2

MCDevices == {d1}
=============================================================================
