----------------------------- MODULE MCRTULine -----------------------------
(***************************************************************************)
(* One unit with two registers that hold different values.                 *)
(***************************************************************************)
EXTENDS RTULine

Q(fc, s, a, n, v, vs) ==
  [fc |-> fc, slave |-> s, addr |-> a, qty |-> n, value |-> v, values |-> vs]

LabRangesDef == << [table |-> "holding", slave |-> 8, addr |-> 0, values |-> <<258, 7>>] >>

\* Two reads that differ in the address; a write of each length; a read that
\* the store refuses and a request that the master refuses.
Reads == { Q(3, 8, 0, 1, 0, << >>), Q(3, 8, 1, 1, 0, << >>) }
Short == Q(6, 8, 1, 0, 258, << >>)
Long == Q(16, 8, 1, 0, 0, <<258>>)
Bad == { Q(4, 8, 0, 1, 0, << >>), Q(3, 8, 0, 0, 0, << >>) }

\* Noise on a line that is in time; late and cut answers on one that is not;
\* and both together.
LinesDef ==
  { [patient |-> TRUE, asks |-> Reads \cup Bad \cup {Long}, noises |-> 1, unread |-> 7],
    [patient |-> FALSE, asks |-> Reads \cup {Short}, noises |-> 0, unread |-> 7],
    [patient |-> FALSE, asks |-> Reads, noises |-> 1, unread |-> 0] }

NoRequests == {}

\* The vector of rtu_test.go:11.
ASSUME KnownVector == CRC16(<<1, 3, 0, 0, 0, 10>>) = 52677
=============================================================================
