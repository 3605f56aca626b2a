----------------------------- MODULE MCAutoPoll -----------------------------
(***************************************************************************)
(* Two registers to poll, one write function, two or three polls under way.*)
(***************************************************************************)
EXTENDS AutoPoll
=============================================================================
