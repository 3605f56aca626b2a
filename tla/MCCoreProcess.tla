--------------------------- MODULE MCCoreProcess ---------------------------
(***************************************************************************)
(* Two processes; two connections at a time, each with one request on the  *)
(* wire.                                                                   *)
(***************************************************************************)
EXTENDS CoreProcess
=============================================================================
