------------------------------ MODULE MCWebRtu ------------------------------
(***************************************************************************)
(* Two registers to poll, two polls under way and a request by hand; one   *)
(* request on the line, whose answer is a piece or two.                    *)
(***************************************************************************)
EXTENDS WebRtu
=============================================================================
