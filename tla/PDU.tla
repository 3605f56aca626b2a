-------------------------------- MODULE PDU --------------------------------
(***************************************************************************)
(* The protocol data unit, byte for byte: how a master builds a request    *)
(* and reads the response (core/internal/modbus/types.go, client.go), how  *)
(* a slave decodes the request into a call on its store and encodes the    *)
(* outcome (server.go).  TCP and RTU frame the same PDUs.                  *)
(*                                                                         *)
(* A PDU is a sequence of bytes; the code's index i is i + 1 here.         *)
(***************************************************************************)
EXTENDS StoreOps

MaxUint16 == 65535
UInt8 == 0 .. 255
UInt16 == 0 .. MaxUint16

ASSUME PDUAssumption == LastAddr <= MaxUint16

ReadCodes == 1 .. 4
MultiCodes == {15, 16}
FunctionCodes == 1 .. 6 \cup MultiCodes

\* A request as a user states it to a master.
MasterRequest == [fc : UInt8, slave : UInt8, addr : Addr, qty : UInt16,
                  value : UInt16, values : Seq(UInt16)]

Quantity(q) == CASE q.fc \in {5, 6} -> 1
                 [] q.fc \in MultiCodes -> Len(q.values)
                 [] OTHER -> q.qty

\* The most that one request may ask for, says the master.
AskLimit(fc) == CASE fc \in {1, 2} -> 2000
                  [] fc \in {3, 4} -> 125
                  [] fc = 15 -> 1968
                  [] fc = 16 -> 123

ValidateProtocol(q) ==
  /\ q.slave \in ValidSlave
  /\ q.fc \in FunctionCodes
  /\ q.fc \in ReadCodes \cup MultiCodes => Quantity(q) \in 1 .. AskLimit(q.fc)
  /\ q.fc = 5 => q.value <= 1
  /\ q.fc = 15 => \A i \in DOMAIN q.values : q.values[i] <= 1
  /\ q.addr + Quantity(q) <= LastAddr + 1

-----------------------------------------------------------------------------
(***************************************************************************)
(* Words are sent high byte first, bits from the low end of each byte.     *)
(***************************************************************************)
Byte(n) == n % 256
\* Mutant: the low byte is not cut off.
U16Uncut(n) == <<Byte(n \div 256), n>>

U16(n) == <<Byte(n \div 256), Byte(n)>>
WordAt(p, i) == 256 * p[i] + p[i + 1]

ByteCount(n) == (n + 7) \div 8

Weight == <<1, 2, 4, 8, 16, 32, 64, 128>>

\* Bit i of a sequence of values, 0 past its end.
BitOf(v, i) == IF i \in DOMAIN v THEN IF v[i] # 0 THEN 1 ELSE 0 ELSE 0

\* Eight bits in a byte.
ByteOf(b) == Weight[1] * b[1] + Weight[2] * b[2] + Weight[3] * b[3] + Weight[4] * b[4]
             + Weight[5] * b[5] + Weight[6] * b[6] + Weight[7] * b[7] + Weight[8] * b[8]

PackBits(v) ==
  [j \in 1 .. ByteCount(Len(v)) |-> ByteOf([k \in 1 .. 8 |-> BitOf(v, 8 * (j - 1) + k)])]

\* Mutant: bits from the high end.
UnpackBitsHighFirst(p, at, n) ==
  [i \in 1 .. n |-> (p[at + (i - 1) \div 8] \div Weight[8 - ((i - 1) % 8)]) % 2]

UnpackBits(p, at, n) ==
  [i \in 1 .. n |-> (p[at + (i - 1) \div 8] \div Weight[((i - 1) % 8) + 1]) % 2]

PackWords(v) == [j \in 1 .. 2 * Len(v) |-> U16(v[(j + 1) \div 2])[IF j % 2 = 1 THEN 1 ELSE 2]]

UnpackWords(p, at, n) == [i \in 1 .. n |-> WordAt(p, at + 2 * (i - 1))]

-----------------------------------------------------------------------------
(***************************************************************************)
(* The master's request.                                                   *)
(***************************************************************************)
FF00 == 65280

BuildPDU(q) ==
  <<q.fc>> \o U16(q.addr) \o
  CASE q.fc \in ReadCodes -> U16(q.qty)
    [] q.fc = 5  -> U16(IF q.value # 0 THEN FF00 ELSE 0)
    [] q.fc = 6  -> U16(q.value)
    [] q.fc = 15 -> U16(Len(q.values)) \o <<Byte(ByteCount(Len(q.values)))>> \o PackBits(q.values)
    [] q.fc = 16 -> U16(Len(q.values)) \o <<Byte(2 * Len(q.values))>> \o PackWords(q.values)

-----------------------------------------------------------------------------
(***************************************************************************)
(* The slave: which PDUs become a call on the store, which call, and what  *)
(* it answers to its outcome.                                              *)
(***************************************************************************)
Code(p) == IF p = << >> THEN 0 ELSE p[1]

\* The most that one request may ask for, says the slave.
ServeLimit(fc) == CASE fc \in {1, 2} -> 2000
                    [] fc \in {3, 4} -> 125
                    [] fc = 15 -> 1968
                    [] fc = 16 -> 123

WellFormed(p) ==
  \/ /\ Code(p) \in ReadCodes /\ Len(p) >= 5
     /\ WordAt(p, 4) \in 1 .. ServeLimit(Code(p))
  \/ Code(p) = 5 /\ Len(p) >= 5 /\ WordAt(p, 4) \in {0, FF00}
  \/ Code(p) = 6 /\ Len(p) >= 5
  \/ /\ Code(p) \in MultiCodes /\ Len(p) >= 6
     /\ WordAt(p, 4) \in 1 .. ServeLimit(Code(p))
     /\ p[6] = IF Code(p) = 15 THEN ByteCount(WordAt(p, 4)) ELSE 2 * WordAt(p, 4)
     /\ Len(p) >= 6 + p[6]

StoreCall(unit, p) ==
  [op |-> IF Code(p) \in ReadCodes THEN "read" ELSE "write",
   table |-> CASE Code(p) \in {1, 5, 15} -> "coil"
               [] Code(p) = 2 -> "discrete"
               [] Code(p) \in {3, 6, 16} -> "holding"
               [] Code(p) = 4 -> "input",
   slave |-> unit,
   addr |-> WordAt(p, 2),
   qty |-> IF Code(p) \in ReadCodes THEN WordAt(p, 4) ELSE 0,
   values |-> CASE Code(p) \in ReadCodes -> << >>
                [] Code(p) = 5  -> <<IF WordAt(p, 4) = FF00 THEN 1 ELSE 0>>
                [] Code(p) = 6  -> <<WordAt(p, 4)>>
                [] Code(p) = 15 -> UnpackBits(p, 7, WordAt(p, 4))
                [] Code(p) = 16 -> UnpackWords(p, 7, WordAt(p, 4))]

(***************************************************************************)
(* The reference: the call a user means by a request, without encoding.    *)
(***************************************************************************)
Meant(q) ==
  [op |-> IF q.fc \in ReadCodes THEN "read" ELSE "write",
   table |-> CASE q.fc \in {1, 5, 15} -> "coil" [] q.fc = 2 -> "discrete"
               [] q.fc \in {3, 6, 16} -> "holding" [] q.fc = 4 -> "input",
   slave |-> q.slave, addr |-> q.addr,
   qty |-> IF q.fc \in ReadCodes THEN q.qty ELSE 0,
   values |-> CASE q.fc \in ReadCodes -> << >> [] q.fc \in {5, 6} -> <<q.value>>
                [] q.fc \in MultiCodes -> q.values]

IllegalFunction == 1
IllegalAddress == 2
IllegalValue == 3

ExceptionPDU(p, code) == <<IF Code(p) < 128 THEN Code(p) + 128 ELSE Code(p), code>>

Refusal(p) ==
  ExceptionPDU(p, IF p = << >> \/ Code(p) \in FunctionCodes THEN IllegalValue ELSE IllegalFunction)

Response(p, outcome) ==
  CASE ~outcome.ok -> ExceptionPDU(p, IllegalAddress)
    [] outcome.ok /\ Code(p) \in {1, 2} ->
         <<Code(p), Byte(ByteCount(WordAt(p, 4)))>> \o PackBits(outcome.values)
    [] outcome.ok /\ Code(p) \in {3, 4} ->
         <<Code(p), Byte(2 * Len(outcome.values))>> \o PackWords(outcome.values)
    [] outcome.ok /\ Code(p) \notin ReadCodes -> SubSeq(p, 1, 5)

-----------------------------------------------------------------------------
(***************************************************************************)
(* What the master makes of a response: values, an exception, an error of  *)
(* its own, or the run-time panic of an index out of range.                *)
(***************************************************************************)
ResultType == [kind : {"values", "exception", "error", "panic"}, code : UInt8,
               values : Seq(UInt16)]
Result(kind, code, values) == [kind |-> kind, code |-> code, values |-> values]
Error == Result("error", 0, << >>)

\* The checks of a response that is no exception.
Accepted(q, p) ==
  /\ p[1] = q.fc
  /\ CASE q.fc \in {1, 2} -> Len(p) >= 2 + p[2]
       [] q.fc \in {3, 4} -> p[2] = 2 * q.qty /\ Len(p) >= 2 + p[2]
       [] q.fc = 5 -> Len(p) >= 5 /\ WordAt(p, 2) = q.addr /\ WordAt(p, 4) \in {0, FF00}
       [] q.fc = 6 -> Len(p) >= 5 /\ WordAt(p, 2) = q.addr
       [] q.fc \in MultiCodes ->
            Len(p) >= 5 /\ WordAt(p, 2) = q.addr /\ WordAt(p, 4) = Len(q.values)

IndexOutOfRange(q, p) == q.fc \in {1, 2} /\ Len(p) < 2 + ByteCount(q.qty)

\* Mutant: the padding of the last byte is returned too.
ValuesPadded(q, p) ==
  CASE q.fc \in {1, 2} -> UnpackBits(p, 3, 8 * ByteCount(q.qty))
    [] q.fc \in {3, 4} -> UnpackWords(p, 3, q.qty)
    [] q.fc \in FunctionCodes \ ReadCodes -> IF q.fc \in {5, 6} THEN <<q.value>> ELSE q.values

Values(q, p) ==
  CASE q.fc \in {1, 2} -> UnpackBits(p, 3, q.qty)
    [] q.fc \in {3, 4} -> UnpackWords(p, 3, q.qty)
    [] q.fc = 5 -> <<IF WordAt(p, 4) = FF00 THEN 1 ELSE 0>>
    [] q.fc = 6 -> <<WordAt(p, 4)>>
    [] q.fc \in MultiCodes -> q.values

Parse(q, p) ==
  CASE Len(p) < 2 -> Error
    [] Len(p) >= 2 /\ p[1] >= 128 -> Result("exception", p[2], << >>)
    [] Len(p) >= 2 /\ p[1] < 128 ->
         CASE ~Accepted(q, p) -> Error
           [] Accepted(q, p) /\ IndexOutOfRange(q, p) -> Result("panic", 0, << >>)
           [] OTHER -> Result("values", 0, Values(q, p))
=============================================================================
