----------------------------- MODULE MCExchange -----------------------------
(***************************************************************************)
(* A relay (unit 5) and a sensor (unit 8).  The values tell high bytes     *)
(* from low ones and the first bit of a byte from the last.                *)
(***************************************************************************)
EXTENDS Exchange

CONSTANT First

Q(fc, s, a, n, v, vs) ==
  [fc |-> fc, slave |-> s, addr |-> a, qty |-> n, value |-> v, values |-> vs]

LabRangesDef == << [table |-> "input", slave |-> 8, addr |-> 1, values |-> <<285, 720>>] >>

Bits(n) == [i \in 1 .. n |-> IF i % 5 \in {1, 4} \/ i = n THEN 1 ELSE 0]
Words(n) == [i \in 1 .. n |-> IF i % 2 = 1 THEN 258 ELSE 65280]

\* One request of each kind, good and bad, to units 5 and 8.
OurAsks ==
  { Q(1, 8, 0, 9, 0, << >>), Q(2, 8, 0, 1, 0, << >>), Q(3, 5, 1, 2, 0, << >>),
    Q(4, 8, 1, 2, 0, << >>), Q(5, 5, 0, 0, 1, << >>), Q(5, 5, 0, 0, 0, << >>),
    Q(6, 5, 2, 0, 256, << >>), Q(6, 5, 2, 0, 7, << >>), Q(15, 8, 0, 0, 0, Bits(9)),
    Q(16, 8, 2, 0, 0, Words(2)), Q(3, 8, 2, 2, 0, << >>),
    Q(4, 8, 9, 2, 0, << >>), Q(7, 8, 0, 1, 0, << >>), Q(15, 8, 0, 0, 0, <<2>>) }

\* The same codes for unit 9, which is elsewhere.
OtherAsks ==
  { Q(1, 9, 0, 9, 0, << >>), Q(2, 9, 0, 1, 0, << >>), Q(3, 9, 2, 2, 0, << >>),
    Q(5, 9, 0, 0, 1, << >>), Q(6, 9, 2, 0, 7, << >>), Q(15, 9, 0, 0, 0, Bits(9)),
    Q(16, 9, 2, 0, 0, Words(2)) }

NoAsks == [c \in Client |-> {}]

\* Two masters on the same registers.
SharedAsks == { Q(3, 8, 2, 2, 0, << >>), Q(16, 8, 2, 0, 0, Words(2)) }

\* One master asks everything, or two ask the same.
AsksDef ==
  {[NoAsks EXCEPT ![First] = OurAsks \cup OtherAsks], [c \in Client |-> SharedAsks]}

OtherAsksDef == {[c \in Client |-> OtherAsks]}

ForeignDef ==
  { << >>, <<1>>, <<129, 2>>, <<1, 0>>, <<1, 1, 255>>, <<1, 2, 13, 255>>, <<2, 1, 7, 9>>,
    <<3, 4, 1, 2, 3, 4>>, <<3, 2, 1, 2>>, <<3, 4, 1, 2, 3>>, <<5, 0, 0, 255, 0>>,
    <<5, 0, 0, 1, 0>>, <<6, 0, 2, 9, 9>>, <<6, 0, 1, 1, 0>>, <<15, 0, 0, 0, 9>>,
    <<16, 0, 2, 0, 2>>, <<16, 0, 2, 0>> }

NoRanges == << >>
NoRequests == {}
=============================================================================
