---------------------------- MODULE MCLockedStore ----------------------------
(***************************************************************************)
(* Three goroutines on the two-channel relay of a store with two           *)
(* addresses: two writes that overlap in different tables, one with a bad  *)
(* value in second place, a read across both channels, an EnableRelay.     *)
(***************************************************************************)
EXTENDS LockedStore

NoRanges == << >>

Call(op, t, a, q, v) ==
  [op |-> op, table |-> t, slave |-> 5, addr |-> a, qty |-> q, values |-> v]

RequestsDef ==
  { Call("write", "coil", 0, 0, <<0, 0>>),
    Call("write", "holding", 0, 0, <<256, 1>>),
    Call("read", "coil", 0, 2, << >>),
    Call("read", "coil", 1, 2, << >>),
    EnableRelay }
=============================================================================
