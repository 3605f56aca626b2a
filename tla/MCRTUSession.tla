---------------------------- MODULE MCRTUSession ----------------------------
(***************************************************************************)
(* Two serial ports.  Handles and loops are interchangeable, so the safety *)
(* runs identify states that differ in their names.                        *)
(***************************************************************************)
EXTENDS RTUSession, TLC

Symmetry == Permutations(Handle) \cup Permutations(Loop) \cup
            Permutations(Operator) \cup Permutations(Port)
=============================================================================
