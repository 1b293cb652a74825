-------------------------------- MODULE Cbor --------------------------------
(***************************************************************************)
(* The CBOR subset that gossip frames and plan blobs are written in, byte  *)
(* by byte: heads (a major type and an unsigned value in the shortest of   *)
(* five forms), texts, and numbers.  Every *Size operator is the first     *)
(* pass of an encoder, which allocates what the second pass fills.         *)
(*                                                                         *)
(* A buffer is a sequence of bytes, a position the number of bytes already *)
(* read.  Numbers are counted in halves: an odd or a negative one is a     *)
(* double that has no unsigned form.                                       *)
(***************************************************************************)
EXTENDS Integers, Sequences

Uint == 0
Text == 3
Array == 4
Float == 7

\* Bytes that follow the initial one when the value is v.
Width(v) ==
  CASE v < 24 -> 0
    [] v \in 24..255 -> 1
    [] v \in 256..65535 -> 2
    [] v > 65535 /\ v \div 65536 < 65536 -> 4
    [] OTHER -> 8

\* fleece_cbor_uint_size
UintSize(v) == 1 + Width(v)

TextSize(t) == UintSize(Len(t)) + Len(t)

\* The n low bytes of v, the highest first.
BigEndian(v, n) ==
  LET shifted[i \in 0..n] == IF i = 0 THEN v ELSE shifted[i - 1] \div 256
  IN  [i \in 1..n |-> shifted[n - i] % 256]

ValueOf(bytes) ==
  LET upTo[i \in 0..Len(bytes)] ==
        IF i = 0 THEN 0 ELSE 256 * upTo[i - 1] + bytes[i]
  IN  upTo[Len(bytes)]

\* The low five bits of the initial byte, for a value of n bytes.
InfoOf(n) == CASE n = 1 -> 24 [] n = 2 -> 25 [] n = 4 -> 26 [] n = 8 -> 27

WriteHead(major, v) ==
  LET n == Width(v) IN
  IF n = 0 THEN <<32 * major + v>>
  ELSE <<32 * major + InfoOf(n)>> \o BigEndian(v, n)

WriteText(t) == WriteHead(Text, Len(t)) \o t

Failed == [ok |-> FALSE]

\* Fails at the end of the buffer and on a reserved or indefinite length.
ReadHead(b, pos) ==
  IF pos >= Len(b) THEN Failed
  ELSE LET info == b[pos + 1] % 32
           n == CASE info < 24 -> 0 [] info = 24 -> 1 [] info = 25 -> 2
                  [] info = 26 -> 4 [] OTHER -> 8
           end == pos + 1 + n
       IN  IF info > 27 \/ end > Len(b) THEN Failed
           ELSE [ok |-> TRUE, pos |-> end, major |-> b[pos + 1] \div 32,
                 initial |-> b[pos + 1],
                 value |-> IF n = 0 THEN info ELSE ValueOf(SubSeq(b, pos + 2, end))]

BoundsOk(pos, len, size) == len <= size /\ pos <= size - len

\* read_text_dyn
ReadText(b, pos) ==
  LET h == ReadHead(b, pos) IN
  IF ~h.ok THEN Failed
  ELSE IF h.major # Text \/ ~BoundsOk(h.pos, h.value, Len(b)) THEN Failed
  ELSE [ok |-> TRUE, pos |-> h.pos + h.value,
        val |-> SubSeq(b, h.pos + 1, h.pos + h.value)]

\* Any one-to-one map from doubles to bit patterns will do.
Bits(v) == v + 65536
Double(bits) == bits - 65536

HasUintForm(v) == v >= 0 /\ v % 2 = 0

\* Mutant: a negative integer is measured as if it had the unsigned form.
NumSizeOfAbs(v) ==
  IF v % 2 = 0 THEN UintSize((IF v < 0 THEN -v ELSE v) \div 2) ELSE 9

NumSize(v) == IF HasUintForm(v) THEN UintSize(v \div 2) ELSE 9

WriteNum(v) ==
  IF HasUintForm(v) THEN WriteHead(Uint, v \div 2)
  ELSE <<32 * Float + 27>> \o BigEndian(Bits(v), 8)

ReadNum(b, pos) ==
  LET h == ReadHead(b, pos) IN
  IF ~h.ok THEN Failed
  ELSE IF h.major = Uint THEN [ok |-> TRUE, pos |-> h.pos, val |-> 2 * h.value]
  ELSE IF h.initial = 32 * Float + 27
  THEN [ok |-> TRUE, pos |-> h.pos, val |-> Double(h.value)]
  ELSE Failed
=============================================================================
