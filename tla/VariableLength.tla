--------------------------- MODULE VariableLength ---------------------------
(***************************************************************************)
(* The variable-size length prefixes of the wire format, and the data they *)
(* precede (codec/variableLength.ts).  A buffer has a length and the bytes *)
(* the properties tell apart, by offset; the bytes it does not name are 0. *)
(* Of a payload the length and its two end bytes are kept.  A result is a  *)
(* set: empty where the code throws.                                       *)
(***************************************************************************)
EXTENDS Integers, Sequences

MaxLength == 1073741824  \* 2^30, the first length that is refused

Byte(b, i) == IF i \in DOMAIN b.bytes THEN b.bytes[i] ELSE 0

Shift8(n) == n \div 256  \* n >> 8

FourBytes(len) ==
  <<128 + Shift8(Shift8(Shift8(len))), Shift8(Shift8(len)) % 256, Shift8(len) % 256, len % 256>>

LengthEncoderSplitAt16383(len) ==  \* mutant: 16384 still goes into two bytes
  IF len < 64 THEN <<len>> ELSE IF len <= 16384 THEN <<64 + (Shift8(len) % 64), len % 256>> ELSE FourBytes(len)

\* The two high bits of the first byte say how many bytes the length has.
LengthEncoder(len) ==
  IF len < 64 THEN <<len>> ELSE IF len < 16384 THEN <<64 + Shift8(len), len % 256>> ELSE FourBytes(len)

\* The length that starts at offset of the first end bytes of b.
DetermineLength(b, offset, end) ==
  LET first == Byte(b, offset)
      prefix == first \div 64
      size == IF prefix = 0 THEN 1 ELSE IF prefix = 1 THEN 2 ELSE 4
      high == first % 64
      length == IF prefix = 0 THEN high
                ELSE IF prefix = 1 THEN 256 * high + Byte(b, offset + 1)
                ELSE 256 * (256 * (256 * high + Byte(b, offset + 1)) + Byte(b, offset + 2)) + Byte(b, offset + 3)
  IN  IF offset < end /\ prefix # 3 /\ offset + size <= end
        THEN {[length |-> length, lengthFieldSize |-> size]} ELSE {}

Payload(b, from, length) ==
  [length |-> length, first |-> IF length = 0 THEN 0 ELSE Byte(b, from),
   last |-> IF length = 0 THEN 0 ELSE Byte(b, from + length - 1)]

\* The payload must lie before end, and is returned with all the bytes it took.
VarLenDataDecoder(b, offset, end) ==
  {[value |-> Payload(b, offset + l.lengthFieldSize, l.length),
    from |-> offset + l.lengthFieldSize, length |-> l.lengthFieldSize + l.length] :
     l \in {d \in DetermineLength(b, offset, end) : offset + d.lengthFieldSize + d.length <= end}}
=============================================================================
