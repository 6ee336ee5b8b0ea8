------------------------------- MODULE Codec -------------------------------
(***************************************************************************)
(* Encoding a record of fields and decoding a prefix of the bytes, perhaps *)
(* with one byte changed on the way (codec/*.ts).  The decoder goes field  *)
(* by field, and item by item through a vector.  A field has a kind:       *)
(*   number    width bytes, of which the last is kept                      *)
(*   data      bytes behind their length                                   *)
(*   optional  a presence octet, and the data if there are any             *)
(*   vector    data after data, behind the length of all of them           *)
(***************************************************************************)
EXTENDS VariableLength, SequencesExt

CONSTANT MaxChanged  \* bound: a byte changes only in at most so many (a changed length makes many items)

VARIABLES
  fields,   \* the record: a sequence of fields
  buffer,   \* the bytes the decoder is given
  whole,    \* these are all the bytes, unchanged
  changed,  \* a byte is another one
  cursor,   \* the offset of the next field or item
  inside,   \* the end of the vector being decoded, or 0
  decoded,  \* the fields decoded so far
  outcome   \* "encoding", "decoding", and then "decoded", "undefined" or "throws"

codecVars == <<fields, buffer, whole, changed, cursor, inside, decoded, outcome>>

Number(width, low) == [kind |-> "number", width |-> width, value |-> low]
Data(n, b) == LET end == IF n = 0 THEN 0 ELSE b IN [length |-> n, first |-> end, last |-> end]
Bytes(d) == [kind |-> "data", value |-> d]
Optional(ds) == [kind |-> "optional", value |-> ds]
Vector(ds) == [kind |-> "vector", value |-> ds]

Nothing == [length |-> 0, bytes |-> <<>>]
Octet(b) == [length |-> 1, bytes |-> 0 :> b]

\* One encoder writes behind the other.
Compose(es) ==
  FoldLeft(LAMBDA a, e : [length |-> a.length + e.length,
                          bytes |-> a.bytes @@ [i \in {a.length + k : k \in DOMAIN e.bytes} |-> e.bytes[i - a.length]]],
           Nothing, es)

Header(n) ==
  LET h == LengthEncoder(n) IN [length |-> Len(h), bytes |-> [i \in 0 .. Len(h) - 1 |-> h[i + 1]]]

VarLenDataEncoder(d) ==
  Compose(<<Header(d.length),
            [length |-> d.length,
             bytes |-> [i \in IF d.length = 0 THEN {} ELSE {0, d.length - 1} |-> IF i = 0 THEN d.first ELSE d.last]]>>)

VarLenTypeEncoder(ds) ==
  LET items == Compose([i \in DOMAIN ds |-> VarLenDataEncoder(ds[i])])
  IN  Compose(<<Header(items.length), items>>)

EncoderOf(f) ==
  CASE f.kind = "number" -> [length |-> f.width, bytes |-> (f.width - 1) :> f.value]
    [] f.kind = "data" -> VarLenDataEncoder(f.value)
    [] f.kind = "optional" ->
         IF f.value = <<>> THEN Octet(0) ELSE Compose(<<Octet(1), VarLenDataEncoder(f.value[1])>>)
    [] f.kind = "vector" -> VarLenTypeEncoder(f.value)

Total(ds) == FoldLeft(LAMBDA n, d : n + Len(LengthEncoder(d.length)) + d.length, 0, ds)

\* lengthEncoder throws at 2^30 and beyond.
CanEncode(f) ==
  CASE f.kind = "number" -> TRUE
    [] f.kind = "data" -> f.value.length < MaxLength
    [] f.kind = "optional" -> \A i \in DOMAIN f.value : f.value[i].length < MaxLength
    [] f.kind = "vector" -> Total(f.value) < MaxLength

Encoding == Compose([i \in DOMAIN fields |-> EncoderOf(fields[i])])

MaxInputSize == 64000000  \* the default of decode

-----------------------------------------------------------------------------
CodecInit(records) ==
  /\ fields \in records
  /\ buffer = Nothing /\ whole = TRUE /\ changed = FALSE /\ cursor = 0 /\ inside = 0 /\ decoded = <<>>
  /\ outcome = "encoding"

\* What the network may make of the bytes: the prefixes that end at a byte that
\* matters, and a first byte of a length or an octet that is another one.
Deliveries(b) ==
  LET marked == DOMAIN b.bytes
      prefix(n) == [length |-> n, bytes |-> [i \in {k \in marked : k < n} |-> b.bytes[i]]]
  IN  {b} \union {prefix(n) : n \in marked \union {i + 1 : i \in marked}}
          \union {[b EXCEPT !.bytes[i] = x] : i \in IF b.length <= MaxChanged THEN marked ELSE {},
                                               x \in {0, 1, 64, 128, 192}}

Encode ==
  /\ outcome = "encoding"
  /\ \A i \in DOMAIN fields : CanEncode(fields[i])
  /\ \E e \in {Encoding} : \E b \in Deliveries(e) :
       /\ buffer' = b
       /\ whole' = (b = e)
       /\ changed' = (b # e /\ b.length = e.length)
       /\ outcome' = IF b.length > MaxInputSize THEN "throws" ELSE "decoding"
  /\ UNCHANGED <<fields, cursor, inside, decoded>>

RefuseToEncode ==
  /\ outcome = "encoding"
  /\ \E i \in DOMAIN fields : ~CanEncode(fields[i])
  /\ outcome' = "throws"
  /\ UNCHANGED <<fields, buffer, whole, changed, cursor, inside, decoded>>

\* The field the decoder of the record has come to.
At(kind) ==
  /\ outcome = "decoding" /\ inside = 0
  /\ Len(decoded) < Len(fields)
  /\ fields[Len(decoded) + 1].kind = kind

Take(f, n) ==
  /\ decoded' = Append(decoded, f)
  /\ cursor' = cursor + n
  /\ UNCHANGED <<fields, buffer, whole, changed, inside, outcome>>

Stop(how) == outcome' = how /\ UNCHANGED <<fields, buffer, whole, changed, cursor, inside, decoded>>

\* The number decoders answer undefined at the end of the buffer, they do not throw.
DecodeNumber ==
  /\ At("number")
  /\ LET width == fields[Len(decoded) + 1].width
     IN  IF cursor + width <= buffer.length
           THEN Take(Number(width, Byte(buffer, cursor + width - 1)), width) ELSE Stop("undefined")

DataAt(offset) == VarLenDataDecoder(buffer, offset, buffer.length)

Present == cursor < buffer.length /\ Byte(buffer, cursor) = 1

DecodeData == At("data") /\ \E r \in DataAt(cursor) : Take(Bytes(r.value), r.length)

\* Any octet but 1 says absent, and so does the end of the buffer.
DecodeOptional ==
  /\ At("optional")
  /\ \/ ~Present /\ Take(Optional(<<>>), 1)
     \/ Present /\ \E r \in DataAt(cursor + 1) : Take(Optional(<<r.value>>), r.length + 1)

DecodeVector ==
  /\ At("vector")
  /\ \E r \in DataAt(cursor) :
       /\ decoded' = Append(decoded, Vector(<<>>))
       /\ cursor' = r.from
       /\ inside' = IF r.value.length = 0 THEN 0 ELSE r.from + r.value.length
  /\ UNCHANGED <<fields, buffer, whole, changed, outcome>>

\* The items are decoded from the bytes of the vector alone.
DecodeItem ==
  /\ outcome = "decoding" /\ inside > 0
  /\ \E r \in VarLenDataDecoder(buffer, cursor, inside) :
       /\ decoded' = [decoded EXCEPT ![Len(decoded)].value = Append(@, r.value)]
       /\ cursor' = cursor + r.length
       /\ inside' = IF cursor + r.length < inside THEN inside ELSE 0
  /\ UNCHANGED <<fields, buffer, whole, changed, outcome>>

\* The decoder of data throws: a length that cannot be read, or a payload that ends too late.
DecodeRefused ==
  /\ \/ At("data") /\ DataAt(cursor) = {}
     \/ At("optional") /\ Present /\ DataAt(cursor + 1) = {}
     \/ At("vector") /\ DataAt(cursor) = {}
     \/ outcome = "decoding" /\ inside > 0 /\ VarLenDataDecoder(buffer, cursor, inside) = {}
  /\ Stop("throws")

\* decode looks no further: bytes that are left over are ignored.
DecodeEnd == outcome = "decoding" /\ inside = 0 /\ Len(decoded) = Len(fields) /\ Stop("decoded")

CodecNext ==
  \/ Encode \/ RefuseToEncode
  \/ DecodeNumber \/ DecodeData \/ DecodeOptional \/ DecodeVector \/ DecodeItem
  \/ DecodeRefused \/ DecodeEnd

-----------------------------------------------------------------------------
(***************************************************************************)
(* Whatever the lengths of its parts, a record whose bytes arrive whole is *)
(* decoded to itself, unless there are more than decode admits.  A record  *)
(* that is cut off is not decoded, with one exception: where the last      *)
(* field is optional and just that field is missing, it decodes as absent. *)
(* No decoder returns bytes from beyond the end of the buffer or of the    *)
(* vector (variableLength.ts:85-100, optional.ts:29-39, tlsDecoder.ts:7).  *)
(***************************************************************************)
DecodesWhatWasEncoded ==
  /\ whole /\ outcome \in {"decoded", "undefined", "throws"} /\ buffer.length \in 1 .. MaxInputSize =>
       outcome = "decoded" /\ decoded = fields /\ cursor = buffer.length
  /\ outcome = "decoded" /\ cursor > buffer.length =>
       /\ Last(decoded) = Optional(<<>>)
       /\ cursor = buffer.length + 1
       /\ changed \/ Front(decoded) = Front(fields)
  /\ outcome = "decoded" /\ ~whole /\ ~changed => cursor > buffer.length
  /\ inside # 0 => cursor < inside /\ inside <= buffer.length
=============================================================================
