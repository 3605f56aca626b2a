--------------------------- MODULE MCControlPlane ---------------------------
(***************************************************************************)
(* A relay of two channels (unit 5), a sensor (unit 8) and the unit id 0   *)
(* that only Write accepts.  One handler, and one goroutine that is a      *)
(* slave's or a second handler with a reset.                               *)
(***************************************************************************)
EXTENDS ControlPlane

CONSTANTS Handler, SlaveLoop

LabRangesDef == << [table |-> "input", slave |-> 8, addr |-> 0, values |-> <<1, 256>>] >>

Body(t, s, a, q, v) ==
  [op |-> "read", table |-> t, slave |-> s, addr |-> a, qty |-> q, values |-> v]

Good == [origin |-> "allowed", options |-> FALSE, token |-> TRUE, json |-> TRUE]

HTTP(kind, body) == [kind |-> kind, head |-> Good, body |-> body]
Served(op, body) == [kind |-> "slave", head |-> Good, body |-> [body EXCEPT !.op = op]]

Pairs(V) == {<<x, y>> : x, y \in V}

AnyBody == Body("coil", 5, 0, 1, <<0>>)

Handled ==
  {HTTP("patch", Body("coil", 5, a, 0, v)) : a \in 0 .. 1, v \in {<<0>>, <<0, 256>>}} \cup
  {HTTP("patch", Body("holding", 5, 1, 0, v)) : v \in Pairs({256, 1})} \cup
  {HTTP("patch", Body("coil", 8, 1, 0, v)) : v \in {<<1, 512>>, <<0, 1, 1>>}} \cup
  {HTTP("simulate", Body("input", 8, 1, 0, <<512, 1>>)),
   HTTP("simulate", Body("discrete", 5, 2, 0, <<256>>)),
   HTTP("simulate", Body("holding", 5, 2, 0, <<256>>)),
   HTTP("patch", Body("input", 8, 0, 0, <<1>>)),
   HTTP("get", Body("input", 8, 0, 2, << >>)), HTTP("get", Body("coil", 0, 0, 1, << >>)),
   HTTP("reset", AnyBody)} \cup
  {[HTTP("reset", AnyBody) EXCEPT !.head = h] : h \in
     {[Good EXCEPT !.origin = "other"], [Good EXCEPT !.options = TRUE],
      [Good EXCEPT !.token = FALSE]}}

ServedBySlave ==
  {Served("write", Body("coil", 5, a, 0, v)) : a \in 0 .. 1, v \in Pairs({0, 1}) \cup {<<256, 0>>}} \cup
  {Served("write", Body("holding", 5, a, 0, <<512>>)) : a \in {0, 2}} \cup
  {Served("write", Body("coil", 8, 1, 0, <<0, 1>>)), Served("read", Body("holding", 5, 2, 2, << >>)),
   Served("read", Body("holding", 5, 1, 2, << >>))}

JobsDef == [c \in Client |-> IF c = Handler THEN Handled ELSE ServedBySlave \cup {HTTP("reset", AnyBody)}]

RequestsDef ==
  UNION {{Plan(j)[i] : i \in DOMAIN Plan(j)} : j \in {k \in Handled \cup ServedBySlave : Gate(k) = OK}}
=============================================================================
