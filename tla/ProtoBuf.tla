------------------------------ MODULE ProtoBuf ------------------------------
(***************************************************************************)
(* nanopb: pb_encode.c and pb_decode.c, without PB_ENABLE_MALLOC, as the   *)
(* Podfile builds it.  A message type is a sequence of field descriptors   *)
(*   [tag, htype, ltype, size, max, default, sub]                          *)
(* (pb_field_t): its number, repetition rule, data type, data_size, entries*)
(* of the array, default value, and type of a submessage.  A structure is  *)
(*   [cells |-> the fields' values, which |-> the tag of the oneof's field]*)
(*                                                                         *)
(* Words are scaled: a C type of n bytes has n * Bits bits, and a byte of a*)
(* varint carries Payload of them.                                         *)
(***************************************************************************)
EXTENDS Integers, FiniteSets, SequencesExt

CONSTANTS Bits, Payload,
          WordBits,         \* bits of a word of fields_seen
          Types,            \* by name, [fields, messages, readers: <<[fields, start]>>]
          MaxMessages       \* bound: messages that are written one after the other

VARIABLES type,     \* the type that is written
          sent,     \* the messages that were
          stream,   \* their bytes
          encoded,  \* what the last pb_encode reported
          received  \* what the reader made of them

Width(size) == size * Bits
Signed(u, w) == LET r == u % 2^w IN IF r < 2^(w - 1) THEN r ELSE r - 2^w
More == 2^Payload                                    \* the 0x80 of a byte
Packable == {"varint", "uvarint", "svarint", "fixed32", "fixed64"}

WireType(ltype) == CASE ltype \in {"varint", "uvarint", "svarint"} -> 0
                     [] ltype = "fixed64" -> 1
                     [] ltype = "fixed32" -> 5
                     [] OTHER -> 2
Fail(s) == [s EXCEPT !.ok = FALSE]
-----------------------------------------------------------------------------
(* Output streams.  A sizing stream only counts.                           *)

Sizing == [sizing |-> TRUE, max |-> 0, written |-> 0, out |-> <<>>, ok |-> TRUE]
OStream(bufsize) == [Sizing EXCEPT !.sizing = FALSE, !.max = bufsize]

Count(s, n) == [s EXCEPT !.written = @ + n]

Write(s, bytes) ==
  IF ~s.ok \/ s.sizing THEN Count(s, Len(bytes))
  ELSE IF s.written + Len(bytes) > s.max THEN Fail(s)
  ELSE [Count(s, Len(bytes)) EXCEPT !.out = @ \o bytes]

VarintBytes(u) ==
  LET Fits(k) == u < 2^(Payload * k)
      n == CHOOSE k \in 1 .. Width(8) : Fits(k) /\ (k = 1 \/ ~Fits(k - 1))
  IN  [i \in 1 .. n |-> ((u \div 2^(Payload * (i - 1))) % More) + (IF i < n THEN More ELSE 0)]

FixedBytes(size, v) == [i \in 1 .. size |-> (v \div 2^(Bits * (i - 1))) % 2^Bits]
EncodeVarint(s, u) == Write(s, VarintBytes(u))
EncodeTag(s, wire, tag) == EncodeVarint(s, 8 * tag + wire)
EncodeString(s, bytes) == Write(EncodeVarint(s, Len(bytes)), bytes)

Zigzag(v) == IF v < 0 THEN -2 * v - 1 ELSE 2 * v
(* Mutant: odd numbers are negated, not complemented.                      *)
UnzigzagNegated(u) == IF u % 2 = 1 THEN -(u \div 2) ELSE u \div 2
Unzigzag(u) == IF u % 2 = 1 THEN -(u \div 2) - 1 ELSE u \div 2

(* pb_enc_varint, _uvarint, _svarint, _fixed32, _fixed64, and of bytes and *)
(* strings, whose size is checked.                                         *)
Number(f, v) == CASE f.ltype = "varint" -> v % 2^Width(8)
                  [] f.ltype = "svarint" -> Zigzag(v)
                  [] OTHER -> v
EncodeScalar(s, f, v) ==
  CASE f.ltype \in {"varint", "uvarint", "svarint"} -> EncodeVarint(s, Number(f, v))
    [] f.ltype \in {"fixed32", "fixed64"} -> Write(s, FixedBytes(IF f.ltype = "fixed32" THEN 4 ELSE 8, v))
    [] f.ltype = "bytes" /\ Len(v) > f.size -> Fail(s)
    [] OTHER -> EncodeString(s, IF f.ltype = "string" THEN SubSeq(v, 1, Min({Len(v), f.size})) ELSE v)

EncodeAll(s, f, values) == FoldLeft(LAMBDA t, v : EncodeScalar(t, f, v), s, values)

RECURSIVE EncodeMessage(_, _, _), EncodeField(_, _, _, _), Proto3Default(_, _)

(* A submessage is encoded twice, to know its size and to write it.        *)
SubmessageOfSize(s, size, sub) ==
  IF s.written + size > s.max \/ ~sub.ok \/ sub.written # size THEN Fail(s) ELSE Write(s, sub.out)
EncodeSized(s, sizing, fields, m) ==
  IF ~s.ok \/ ~sizing.ok THEN Fail(s)
  ELSE IF s.sizing THEN Count(s, sizing.written)
  ELSE SubmessageOfSize(s, sizing.written, EncodeMessage(OStream(sizing.written), fields, m))
SizedFirst(s, sizing, fields, m) == EncodeSized(EncodeVarint(s, sizing.written), sizing, fields, m)
EncodeSubmessage(s, fields, m) == SizedFirst(s, EncodeMessage(Sizing, fields, m), fields, m)

EncodeValue(s, f, v) ==
  IF f.ltype = "message" THEN EncodeSubmessage(s, f.sub, v) ELSE EncodeScalar(s, f, v)

Tagged(s, f, values) ==
  FoldLeft(LAMBDA t, v : EncodeValue(EncodeTag(t, WireType(f.ltype), f.tag), f, v), s, values)

(* encode_array, of a packed array: its size is known before it is written.*)
PackedSize(f, values) ==
  CASE f.ltype = "fixed32" -> 4 * Len(values)
    [] f.ltype = "fixed64" -> 8 * Len(values)
    [] OTHER -> EncodeAll(Sizing, f, values).written
PackedOfSize(s, f, values, size) ==
  IF s.sizing THEN Count(EncodeVarint(s, size), size) ELSE EncodeAll(EncodeVarint(s, size), f, values)
EncodePacked(s, f, values) == PackedOfSize(EncodeTag(s, 2, f.tag), f, values, PackedSize(f, values))

(* Whether a proto3 field is left out: of an array in a submessage only the*)
(* first entry is looked at, and of a oneof only the value.                *)
Proto3Default(f, v) ==
  IF f.htype = "repeated" THEN v = <<>> \/ Proto3Default([f EXCEPT !.htype = "required"], v[1])
  ELSE IF f.htype = "optional" THEN Proto3Default([f EXCEPT !.htype = "required"], v.value)
  ELSE CASE f.ltype \in {"bytes", "string"} -> v = <<>>
         [] f.ltype = "message" -> \A i \in DOMAIN f.sub : Proto3Default(f.sub[i], v.cells[i])
         [] f.ltype = "fixedbytes" -> f.size = 0
         [] OTHER -> v = 0

(* The values of a field that are written with a tag each.  A callback     *)
(* writes its strings, not always the same ones when sizes are computed and*)
(* when they are written.                                                  *)
Present(f, cell, which, sizing) ==
  CASE f.htype = "required" -> <<cell>>
    [] f.htype = "optional" -> IF cell.has THEN <<cell.value>> ELSE <<>>
    [] f.htype = "singular" -> IF Proto3Default(f, cell) THEN <<>> ELSE <<cell>>
    [] f.htype = "oneof"    -> IF which = f.tag THEN <<cell>> ELSE <<>>
    [] f.htype = "repeated" -> cell
    [] f.htype = "callback" -> IF sizing THEN cell.sized ELSE cell.written

(* encode_field *)
EncodeField(s, f, cell, which) ==
  IF ~s.ok THEN s
  ELSE IF f.htype = "extension"
  THEN FoldLeft(LAMBDA t, e : EncodeField(t, e.field, e.dest, 0), s, cell)
  ELSE IF f.htype = "repeated" /\ Len(cell) > f.max THEN Fail(s)
  ELSE IF f.htype = "repeated" /\ f.ltype \in Packable
  THEN IF cell = <<>> THEN s ELSE EncodePacked(s, f, cell)
  ELSE Tagged(s, IF f.htype = "callback" THEN [f EXCEPT !.ltype = "fixedbytes"] ELSE f,
              Present(f, cell, which, s.sizing))

(* pb_field_iter_next: each field once, in the order of the structure.     *)
Iterated(fields) == [i \in DOMAIN fields |-> i]

EncodeMessage(s, fields, m) ==
  FoldLeft(LAMBDA t, i : EncodeField(t, fields[i], m.cells[i], m.which), s, Iterated(fields))
-----------------------------------------------------------------------------
(* Input streams: the bytes that follow, and how many of them are the      *)
(* message's (bytes_left).  A decoder returns the stream and a value.      *)

IStream(bytes) == [in |-> bytes, left |-> Len(bytes), ok |-> TRUE]
Advance(s, n) == [s EXCEPT !.in = SubSeq(@, n + 1, Len(@)), !.left = @ - n]
Skip(s, n) == IF s.left < n THEN Fail(s) ELSE Advance(s, n)
Got(s, v) == [s |-> s, v |-> v]
Read(s, n) == Got(Skip(s, n), SubSeq(s.in, 1, Min({n, s.left})))

(* The bits that do not fit in the last byte are dropped; one more byte is *)
(* an overflow.                                                            *)
VarintOf(s, n, w) ==
  Got(Advance(s, n),
      FoldLeft(LAMBDA u, i : u + (s.in[i] % More) * 2^(Payload * (i - 1)), 0, [i \in 1 .. n |-> i]) % 2^w)
Ends(s, limit) == {i \in 1 .. limit : s.in[i] < More}
DecodeVarint(s, w) ==
  LET limit == Min({s.left, (w + Payload - 1) \div Payload})
      ends == Ends(s, limit)
  IN  IF ends = {} THEN Got(Fail(Advance(s, limit)), 0) ELSE VarintOf(s, Min(ends), w)

(* A tag that ends too early at the end of the message ends the message.   *)
TagOf(d) ==
  [s |-> d.s, eof |-> IF d.s.ok THEN d.v = 0 ELSE d.s.left = 0, tag |-> d.v \div 8, wire |-> d.v % 8]
DecodeTag(s) == TagOf(DecodeVarint(s, Width(4)))

SkipVarint(s) == LET ends == Ends(s, s.left) IN IF ends = {} THEN Fail(s) ELSE Advance(s, Min(ends))
SkipString(d) == IF d.s.ok THEN Skip(d.s, d.v) ELSE d.s
SkipField(s, wire) ==
  CASE wire = 0 -> SkipVarint(s)
    [] wire = 1 -> Skip(s, 8)
    [] wire = 2 -> SkipString(DecodeVarint(s, Width(4)))
    [] wire = 5 -> Skip(s, 4)
    [] OTHER -> Fail(s)

(* A substream of the length that the stream gives.  The parent has its    *)
(* bytes_left reduced at once, and moves on when the substream is closed.  *)
SubstreamOf(d) ==
  IF ~d.s.ok \/ d.s.left < d.v THEN [parent |-> Fail(d.s), sub |-> Fail(d.s)]
  ELSE [parent |-> [d.s EXCEPT !.left = @ - d.v], sub |-> [d.s EXCEPT !.left = d.v]]
MakeSubstream(s) == SubstreamOf(DecodeVarint(s, Width(4)))
CloseSubstream(parent, sub) ==
  [parent EXCEPT !.in = SubSeq(sub.in, sub.left + 1, Len(sub.in)), !.ok = @ /\ sub.ok]
Closing(w, d) == Got(CloseSubstream(w.parent, d.s), d.v)

Zero(f) == CASE f.ltype \in {"bytes", "string"} -> <<>>
             [] f.ltype = "fixedbytes" -> [i \in 1 .. f.size |-> 0]
             [] OTHER -> 0

(* pb_dec_varint, _uvarint, _svarint: the value must fit in the field.     *)
Value(f, u) == CASE f.ltype = "uvarint" -> u
                 [] f.ltype = "svarint" -> Unzigzag(u)
                 [] f.ltype = "varint" -> Signed(u, IF f.size = 8 THEN Width(8) ELSE Width(4))
Clamped(f, v) == IF f.ltype = "uvarint" THEN v % 2^Width(f.size) ELSE Signed(v, Width(f.size))
Fitting(s, value, clamped) == Got(IF clamped = value THEN s ELSE Fail(s), clamped)

(* pb_dec_bytes, _string, _fixed_length_bytes, with the length that was    *)
(* read.                                                                   *)
Characters(d, f, old) ==
  IF f.ltype = "fixedbytes" /\ d.v = 0 THEN Got(d.s, Zero(f))
  ELSE IF (f.ltype = "fixedbytes" /\ d.v # f.size) \/ d.v > (IF f.ltype = "string" THEN f.size - 1 ELSE f.size)
  THEN Got(Fail(d.s), old)
  ELSE Read(d.s, d.v)

DecodeCoded(d, f, old) ==
  IF ~d.s.ok THEN Got(d.s, old)
  ELSE IF f.ltype \in {"bytes", "string", "fixedbytes"} THEN Characters(d, f, old)
  ELSE Fitting(d.s, Value(f, d.v), Clamped(f, Value(f, d.v)))

DecodeFixed(s, size, old) ==
  IF s.left < size THEN Got(Fail(s), old)
  ELSE Got(Skip(s, size), FoldLeft(LAMBDA v, i : v + s.in[i] * 2^(Bits * (i - 1)), 0, [i \in 1 .. size |-> i]))

DecodeScalar(s, f, old) ==
  IF f.ltype \in {"fixed32", "fixed64"} THEN DecodeFixed(s, IF f.ltype = "fixed32" THEN 4 ELSE 8, old)
  ELSE DecodeCoded(DecodeVarint(s, Width(IF f.ltype \in Packable THEN 8 ELSE 4)), f, old)

RECURSIVE DecodeMessage(_, _, _, _), DecodeLoop(_, _, _, _, _), Defaults(_, _)

(* pb_message_set_to_defaults.  Callbacks stay.                            *)
DefaultValue(f, old) == IF f.ltype = "message" THEN Defaults(f.sub, old) ELSE f.default
DefaultCell(f, cell) ==
  CASE f.htype \in {"required", "singular"} -> DefaultValue(f, cell)
    [] f.htype = "optional" -> [has |-> FALSE, value |-> DefaultValue(f, cell.value)]
    [] f.htype = "repeated" -> <<>>
    [] f.htype = "extension" -> [i \in DOMAIN cell |-> [cell[i] EXCEPT !.found = FALSE,
                                                                       !.dest = DefaultValue(cell[i].field, @)]]
    [] OTHER -> cell
Defaults(fields, m) == [cells |-> [i \in DOMAIN fields |-> DefaultCell(fields[i], m.cells[i])], which |-> 0]

(* pb_decode_noinit of the submessage; of a new array entry, pb_decode.    *)
InSubstream(w, f, m, undef) ==
  IF w.parent.ok THEN Closing(w, DecodeMessage(f.sub, w.sub, m, undef)) ELSE Got(w.parent, m)
DecodeSubmessage(s, f, old, undef) ==
  InSubstream(MakeSubstream(s), f, IF f.htype = "repeated" THEN Defaults(f.sub, old) ELSE old, undef)

DecodeValue(s, f, old, undef) ==
  IF f.ltype = "message" THEN DecodeSubmessage(s, f, old, undef) ELSE DecodeScalar(s, f, old)

(* A packed array: entries while there are bytes and room.                 *)
AppendEntry(p, d) == Got(d.s, IF d.s.ok THEN Append(p.v, d.v) ELSE p.v)
Entries(w, f, cell) ==
  FoldLeft(LAMBDA p, i : IF ~p.s.ok \/ p.s.left = 0 \/ Len(p.v) >= f.max THEN p
                         ELSE AppendEntry(p, DecodeScalar(p.s, f, 0)),
           Got(w.sub, cell), [i \in 1 .. f.max |-> i])
PackedEnd(w, d) == IF d.s.left # 0 THEN Got(Fail(w.parent), d.v) ELSE Closing(w, d)
DecodePacked(w, f, cell) == IF w.parent.ok THEN PackedEnd(w, Entries(w, f, cell)) ELSE Got(w.parent, cell)

(* The application's callback takes what its stream holds.                 *)
Take(cell, bytes) == [cell EXCEPT !.got = Append(@, bytes)]
CallWith(w, cell) ==
  IF w.parent.ok
  THEN Closing(w, Got(Advance(w.sub, w.sub.left), Take(cell, SubSeq(w.sub.in, 1, w.sub.left))))
  ELSE Got(w.parent, cell)
CallSkipped(s, t, cell) ==
  Got(t, IF cell.set /\ t.ok THEN Take(cell, SubSeq(s.in, 1, s.left - t.left)) ELSE cell)
DecodeCallback(s, wire, cell) ==
  IF cell.set /\ wire = 2 THEN CallWith(MakeSubstream(s), cell) ELSE CallSkipped(s, SkipField(s, wire), cell)

(* decode_field, giving the field's new value.  Fields of a oneof share    *)
(* their memory: a submessage starts from zeros, with no callbacks, and    *)
(* defaults.                                                               *)
Before(f, cell) == CASE f.htype \in {"required", "singular"} -> cell
                     [] f.htype = "optional" -> cell.value
                     [] OTHER -> f.default
Stored(f, cell, d) ==
  Got(d.s, CASE f.htype = "optional" -> [has |-> TRUE, value |-> d.v]
             [] f.htype = "repeated" -> Append(cell, d.v)
             [] OTHER -> d.v)
DecodeField(s, wire, f, cell, undef) ==
  CASE f.htype = "callback" -> DecodeCallback(s, wire, cell)
    [] f.htype = "repeated" /\ wire = 2 /\ f.ltype \in Packable -> DecodePacked(MakeSubstream(s), f, cell)
    [] f.htype = "repeated" /\ Len(cell) >= f.max /\ ~(wire = 2 /\ f.ltype \in Packable) -> Got(Fail(s), cell)
    [] OTHER -> Stored(f, cell, DecodeValue(s, f, Before(f, cell), undef))

(* The field a tag is for, as [f, cell, i, ext]: one of the message, or an *)
(* extension (decode_extension) that its extension field i has.            *)
Targets(fields, m, tag) ==
  LET own == {i \in DOMAIN fields : fields[i].tag = tag /\ fields[i].htype # "extension"}
      places == {i \in DOMAIN fields : fields[i].htype = "extension" /\ tag >= fields[i].tag}
      Exts(i) == {e \in DOMAIN m.cells[i] : m.cells[i][e].field.tag = tag}
  IN  IF own # {} THEN {[f |-> fields[i], cell |-> m.cells[i], i |-> i, ext |-> 0] : i \in own}
      ELSE UNION {{[f |-> m.cells[i][e].field, cell |-> m.cells[i][e].dest, i |-> i, ext |-> e] :
                      e \in Exts(i)} : i \in places}
Put(m, target, cell) ==
  IF target.ext = 0 THEN [m EXCEPT !.cells[target.i] = cell,
                                   !.which = IF target.f.htype = "oneof" THEN target.f.tag ELSE @]
  ELSE [m EXCEPT !.cells[target.i][target.ext] = [@ EXCEPT !.found = TRUE, !.dest = cell]]

(* The check of the required fields compares whole words of fields_seen,   *)
(* then the bits of the last: with none in the last, its mask is a shift by*)
(* the word's width, which is undefined ("undef" is what the build does).  *)
Required(fields) == {i \in DOMAIN fields : fields[i].htype = "required"}
WholeWords(fields) == Required(fields) # {} /\ Cardinality(Required(fields)) % WordBits = 0
RequiredSeen(fields, seen, undef) ==
  (undef \/ ~WholeWords(fields)) /\ Required(fields) \subseteq seen

EndMessage(fields, s, m, seen, undef) ==
  Got(IF RequiredSeen(fields, seen, undef) THEN [s EXCEPT !.ok = TRUE] ELSE Fail(s), m)
Onward(fields, m, target, d, seen, undef) ==
  DecodeLoop(fields, d.s, Put(m, target, d.v), IF target.ext = 0 THEN seen \cup {target.i} ELSE seen, undef)
DecodeTagged(fields, t, m, seen, undef, targets) ==
  IF t.eof THEN EndMessage(fields, t.s, m, seen, undef)
  ELSE IF ~t.s.ok THEN Got(t.s, m)
  ELSE IF targets = {} THEN DecodeLoop(fields, SkipField(t.s, t.wire), m, seen, undef)
  ELSE LET target == CHOOSE x \in targets : TRUE
       IN  Onward(fields, m, target, DecodeField(t.s, t.wire, target.f, target.cell, undef), seen, undef)
DecodeNext(fields, t, m, seen, undef) == DecodeTagged(fields, t, m, seen, undef, Targets(fields, m, t.tag))
DecodeLoop(fields, s, m, seen, undef) ==
  IF ~s.ok THEN Got(s, m)
  ELSE IF s.left = 0 THEN EndMessage(fields, s, m, seen, undef)
  ELSE DecodeNext(fields, DecodeTag(s), m, seen, undef)

(* pb_decode_noinit.                                                       *)
DecodeMessage(fields, s, m, undef) == DecodeLoop(fields, s, m, {}, undef)
-----------------------------------------------------------------------------
(* A program writes messages into buffers of the size that                 *)
(* pb_get_encoded_size told it, or a byte less.  They arrive as one stream,*)
(* whole or cut off, at a reader with its own idea of the type's fields.   *)
vars == <<type, sent, stream, encoded, received>>

Type == Types[type]
Reader == Type.readers[received.reader]
NotEncoded == [ok |-> TRUE, size |-> 0, room |-> 0, out |-> <<>>, m |-> <<>>, delimited |-> FALSE]
NotRead == [reader |-> 0, cut |-> 0, end |-> IStream(<<>>), m |-> <<>>]
Init == /\ type \in DOMAIN Types
        /\ sent = <<>> /\ stream = <<>> /\ encoded = NotEncoded
        /\ received = NotRead

(* pb_encode, or pb_encode_delimited with the message's size before it.    *)
EncodeAs(delimited, s, m) ==
  IF delimited THEN EncodeSubmessage(s, Type.fields, m) ELSE EncodeMessage(s, Type.fields, m)
EncodedSize(delimited, m) == EncodeAs(delimited, Sizing, m).written

Encoded(s, size, m, delimited) ==
  /\ encoded' = [ok |-> s.ok, size |-> size, room |-> s.max, out |-> s.out, m |-> m, delimited |-> delimited]
  /\ stream' = IF s.ok THEN stream \o s.out ELSE stream
  /\ sent' = IF s.ok THEN Append(sent, m) ELSE sent

Encode(delimited, m, short) ==
  /\ received = NotRead /\ encoded.ok /\ ~encoded.delimited /\ Len(sent) < MaxMessages
  /\ delimited => sent = <<>>
  /\ \E size \in {EncodedSize(delimited, m)} :
       /\ size >= short
       /\ Encoded(EncodeAs(delimited, OStream(size - short), m), size, m, delimited)
  /\ UNCHANGED <<type, received>>

(* pb_decode and pb_decode_delimited.                                      *)
DecodeAs(delimited, fields, s, m, undef) ==
  IF delimited THEN DecodeSubmessage(s, [htype |-> "repeated", sub |-> fields], m, undef)
  ELSE DecodeMessage(fields, s, Defaults(fields, m), undef)

Result(reader, cut, d) == [reader |-> reader, cut |-> cut, end |-> d.s, m |-> d.v]
Receive(reader, cut, undef) ==
  /\ received = NotRead /\ sent # <<>>
  /\ cut = Len(stream) \/ Len(sent) = 1          \* bound: a cut stream is of one message
  /\ LET to == Type.readers[reader]
     IN  received' = Result(reader, cut, DecodeAs(encoded.delimited, to.fields,
                                                  IStream(SubSeq(stream, 1, cut)), to.start, undef))
  /\ UNCHANGED <<type, sent, stream, encoded>>

Next ==
  \/ \E m \in Type.messages, short \in {0, 1}, delimited \in BOOLEAN :
       Encode(delimited, m, short)
  \/ \E reader \in DOMAIN Type.readers, cut \in 1 .. Len(stream) :
       \E undef \in BOOLEAN :
       Receive(reader, cut, undef)

Spec == Init /\ [][Next]_vars
-----------------------------------------------------------------------------
(* What a structure says, field by field: the values of a field, by tag.   *)
RECURSIVE View(_, _), Merged(_, _, _)

ViewOf(f, v) == IF f.ltype = "message" THEN View(f.sub, v) ELSE v
CellView(f, cell, which) ==
  CASE f.htype \in {"required", "singular"} -> <<ViewOf(f, cell)>>
    [] f.htype = "optional" -> IF cell.has THEN <<ViewOf(f, cell.value)>> ELSE <<>>
    [] f.htype = "repeated" -> [i \in DOMAIN cell |-> ViewOf(f, cell[i])]
    [] f.htype = "oneof" -> IF which = f.tag THEN <<ViewOf(f, cell)>> ELSE <<>>
    [] f.htype = "callback" -> cell.got \o cell.written
    [] f.htype = "extension" -> [i \in DOMAIN cell |-> IF cell[i].found THEN <<cell[i].dest>> ELSE <<>>]
View(fields, m) ==
  [tag \in {f.tag : f \in ToSet(fields)} |->
     LET i == CHOOSE j \in DOMAIN fields : fields[j].tag = tag IN CellView(fields[i], m.cells[i], m.which)]

(* One message after another: later values replace earlier ones, arrays are*)
(* appended to, and submessages merged.                                    *)
Latest(a, b) == IF b = <<>> THEN a ELSE b
OneofTags(fields) == {f.tag : f \in {g \in ToSet(fields) : g.htype = "oneof"}}

MergedValues(fields, f, a, b) ==
  CASE f.htype \in {"repeated", "callback"} -> a \o b[f.tag]
    [] f.htype = "oneof" -> IF \E tag \in OneofTags(fields) : b[tag] # <<>> THEN b[f.tag] ELSE a
    [] f.htype = "extension" -> [i \in DOMAIN a |-> Latest(a[i], b[f.tag][i])]
    [] f.ltype = "message" /\ a # <<>> /\ b[f.tag] # <<>> -> <<Merged(f.sub, a[1], b[f.tag][1])>>
    [] f.htype = "singular" /\ b[f.tag] = <<Zero(f)>> -> a
    [] OTHER -> Latest(a, b[f.tag])
Merged(fields, a, b) ==
  [tag \in DOMAIN a |->
     LET f == CHOOSE g \in ToSet(fields) : g.tag = tag IN MergedValues(fields, f, a[tag], b)]

(* What the encoder loses: a submessage without a has_ field, of zeros,    *)
(* whose arrays are empty or begin with zero.  Of an array only the first  *)
(* entry is compared with zero, not the count, so that the whole field is  *)
(* left out (pb_check_proto3_default_value, pb_encode.c:225-267).          *)
Overlooked(f, v) ==
  /\ f.htype = "singular" /\ f.ltype = "message"
  /\ \A i \in DOMAIN f.sub :
       LET g == f.sub[i]
           entries == IF g.htype = "repeated" THEN v.cells[i] ELSE <<v.cells[i]>>
       IN  entries # <<>> => entries[1] = Zero(g)
AsSent(fields, m) ==
  [m EXCEPT !.cells = [i \in DOMAIN fields |-> IF Overlooked(fields[i], @[i]) THEN fields[i].default ELSE @[i]]]

(* What a reader has to get.  A callback that is not set gets nothing.     *)
Expected ==
  FoldLeft(LAMBDA a, m : Merged(Reader.fields, a, View(Type.fields, AsSent(Type.fields, m))),
           View(Reader.fields, Defaults(Reader.fields, Reader.start)), sent)
Fits ==
  \A f \in ToSet(Reader.fields), m \in ToSet(sent) :
    LET v == View(Type.fields, AsSent(Type.fields, m))[f.tag]
    IN  /\ f.htype = "repeated" => Len(Expected[f.tag]) <= f.max
        /\ f.ltype = "string" => \A i \in DOMAIN v : Len(v[i]) < f.size

(* The fields of a stream: where the tag and the data of each begin, and   *)
(* where it ends.                                                          *)
RECURSIVE FieldsOf(_)
At(r) == Len(stream) - Len(r.in)
FieldThen(s, t, next) ==
  {[tag |-> t.tag, begin |-> At(s), data |-> At(t.s), end |-> At(next)]} \cup FieldsOf(next)
FieldsFrom(s, t) == FieldThen(s, t, SkipField(t.s, t.wire))
FieldsOf(s) ==
  IF s.left = 0 THEN {} ELSE FieldsFrom(s, DecodeTag(s))

(* A callback that writes as much as it said it would.                     *)
RECURSIVE Steady(_, _)
Steady(fields, m) ==
  \A i \in DOMAIN fields :
    LET f == fields[i]  cell == m.cells[i]
    IN  /\ f.htype = "callback" => Len(FlattenSeq(cell.sized)) = Len(FlattenSeq(cell.written))
        /\ f.ltype = "message" =>
             CASE f.htype = "optional" -> cell.has => Steady(f.sub, cell.value)
               [] f.htype = "repeated" -> \A v \in ToSet(cell) : Steady(f.sub, v)
               [] OTHER -> Steady(f.sub, cell)
-----------------------------------------------------------------------------
(* What is decoded was advanced over, within the stream's bytes.           *)
TypeOK ==
  /\ type \in DOMAIN Types /\ ToSet(sent) \subseteq Type.messages
  /\ received.end.left \in 0 .. Len(received.end.in)

(* pb_get_encoded_size is exact (pb_encode.c): the message is written if   *)
(* the buffer has that many bytes, unless a callback writes something else *)
(* the second time, and then just those.                                   *)
SizeExact ==
  encoded # NotEncoded =>
    /\ encoded.ok <=> encoded.room >= encoded.size /\ Steady(Type.fields, encoded.m)
    /\ encoded.ok => Len(encoded.out) = encoded.size

(* A reader gets exactly what was written in the fields that it knows,     *)
(* whatever else was written, but for what the encoder loses (Overlooked), *)
(* and refuses what does not fit: pb_decode undoes pb_encode, merges       *)
(* messages that follow one another, and skips the fields of a newer       *)
(* program (pb_decode.h).  A reader whose required fields fill whole words *)
(* of fields_seen may also refuse what fits (pb_decode.c:947).             *)
Whole == received # NotRead /\ received.cut = Len(stream)
Received ==
  Whole => /\ received.end.ok => Fits /\ View(Reader.fields, received.m) = Expected
           /\ Fits /\ ~WholeWords(Reader.fields) => received.end.ok

(* A stream that was cut off is accepted just if the cut leaves the        *)
(* required fields whole and is not in the data of a field.  One between   *)
(* fields is not to be told from the message's end, and one within a       *)
(* field's tag is taken for it (pb_decode_tag, pb_decode.c:258): optional  *)
(* fields that followed are lost without an error.  With its size before   *)
(* it a message that was cut off is always refused.                        *)
CutNoticed ==
  (received # NotRead /\ Fits) =>
    LET fields == FieldsOf(IStream(stream))
        cut == received.cut
        required == {f.tag : f \in {g \in ToSet(Reader.fields) : g.htype = "required"}}
        complete == IF encoded.delimited THEN cut = Len(stream) ELSE
                    /\ \A f \in fields : cut \notin f.data .. f.end - 1
                    /\ required \subseteq {f.tag : f \in {g \in fields : g.end <= cut}}
    IN  /\ received.end.ok => complete
        /\ complete /\ ~WholeWords(Reader.fields) => received.end.ok
=============================================================================
