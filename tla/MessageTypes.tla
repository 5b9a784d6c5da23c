----------------------------- MODULE MessageTypes ----------------------------
(***************************************************************************)
(* Message types for ProtoBuf, with their messages and readers: one of     *)
(* every repetition rule and data type.                                    *)
(***************************************************************************)
EXTENDS Integers, Sequences

Plain(tag, htype, ltype, size) ==
  [tag |-> tag, htype |-> htype, ltype |-> ltype, size |-> size, max |-> 2, default |-> 0, sub |-> <<>>]
Chars(tag, htype, ltype, size) == [Plain(tag, htype, ltype, size) EXCEPT !.default = <<>>]
Message(tag, htype, fields, blank) ==
  [Plain(tag, htype, "message", 0) EXCEPT !.sub = fields, !.default = blank]

Structure(cells) == [cells |-> cells, which |-> 0]
Has(v) == [has |-> TRUE, value |-> v]
Hasnt(v) == [has |-> FALSE, value |-> v]

(* Numbers of each kind, one of them with a tag of two bytes.              *)
Numbers == <<Plain(1, "required", "varint", 1), [Plain(2, "optional", "svarint", 2) EXCEPT !.default = 3],
             Plain(3, "singular", "uvarint", 4), Plain(4, "required", "fixed32", 4),
             Plain(9, "optional", "fixed64", 8)>>
NumbersOf(a, b, c, d, e) == Structure(<<a, b, c, d, e>>)
NumberMessages ==
  {NumbersOf(a, b, c, d, e) : a \in {-2}, b \in {Hasnt(3), Has(-8), Has(7)}, c \in {0, 255}, d \in {0, 200},
                              e \in {Hasnt(0), Has(65535)}}
NumberType ==
  LET start == NumbersOf(0, Hasnt(3), 0, 0, Hasnt(0))
  IN  [fields |-> Numbers, messages |-> NumberMessages,
       readers |-> <<[fields |-> Numbers, start |-> start],
                    [fields |-> SubSeq(Numbers, 2, 3), start |-> Structure(SubSeq(start.cells, 2, 3))]>>]

(* Arrays, strings and bytes.                                              *)
Arrays == <<Plain(1, "repeated", "uvarint", 2), Chars(2, "optional", "string", 3),
            Chars(3, "repeated", "bytes", 2), Plain(4, "repeated", "fixed32", 4),
            [Chars(5, "required", "fixedbytes", 2) EXCEPT !.default = <<0, 0>>]>>
ArrayMessages ==
  {Structure(<<a, b, c, d, <<1, 2>>>>) :
     a \in {<<>>, <<0>>, <<9, 15>>}, b \in {Hasnt(<<>>), Has(<<1, 2>>), Has(<<1, 2, 3>>)},
     c \in {<<>>, <<<<>>, <<4, 5>>>>}, d \in {<<>>, <<7>>}}
ArrayType ==
  LET start == Structure(<<<<>>, Hasnt(<<>>), <<>>, <<>>, <<0, 0>>>>)
  IN  [fields |-> Arrays, messages |-> ArrayMessages,
       readers |-> <<[fields |-> Arrays, start |-> start],
                    [fields |-> <<Arrays[1], Arrays[5]>>, start |-> Structure(<<<<>>, <<0, 0>>>>)]>>]

(* Submessages, alone, in an array and in a oneof, and a callback in one.  *)
Inner == <<Plain(1, "optional", "varint", 2), [Chars(2, "callback", "string", 0) EXCEPT !.max = 0]>>
Callback(sized, written) == [set |-> TRUE, sized |-> sized, written |-> written, got |-> <<>>]
InnerOf(v, sized, written) == Structure(<<v, Callback(sized, written)>>)
Empty == InnerOf(Hasnt(0), <<>>, <<>>)
Nested == <<Message(1, "optional", Inner, Empty), Message(2, "repeated", Inner, Empty),
            Plain(3, "oneof", "svarint", 2),
            Message(4, "oneof", SubSeq(Inner, 1, 1), Structure(<<Hasnt(0)>>))>>
NestedOf(a, b, which, c, v) == [cells |-> <<a, b, c, Structure(<<v>>)>>, which |-> which]
Inners == {InnerOf(Hasnt(0), <<>>, <<>>), InnerOf(Has(-3), <<<<1>>>>, <<<<1>>>>),
           InnerOf(Has(2), <<<<1>>>>, <<<<1, 2>>>>)}
NestedMessages ==
  {NestedOf(a, b, u[1], u[2], u[3]) :
     a \in {Hasnt(Empty)} \cup {Has(i) : i \in Inners}, b \in {<<>>} \cup {<<i>> : i \in Inners \ {InnerOf(Hasnt(0), <<>>, <<>>)}},
     u \in {<<0, 0, Hasnt(0)>>, <<3, -1, Hasnt(0)>>, <<4, 0, Hasnt(0)>>, <<4, 0, Has(1)>>}}
NestedType ==
  LET start == NestedOf(Hasnt(Empty), <<>>, 0, 0, Hasnt(0))
  IN  [fields |-> Nested, messages |-> NestedMessages,
       readers |-> <<[fields |-> Nested, start |-> start],
                    [fields |-> <<Nested[3], Nested[4]>>,
                     start |-> [cells |-> <<0, Structure(<<Hasnt(0)>>)>>, which |-> 0]]>>]

(* Proto3 submessages, and an extension.                                   *)
Extension(v, found) == [field |-> Plain(12, "required", "varint", 4), dest |-> v, found |-> found]
Proto3 == <<Message(1, "singular", <<Plain(1, "singular", "varint", 4), [Plain(2, "repeated", "varint", 4) EXCEPT !.max = 4]>>,
                    Structure(<<0, <<>>>>)),
            Chars(2, "singular", "string", 3),
            [Plain(10, "extension", "extension", 0) EXCEPT !.max = 0]>>
Proto3Of(v, array, chars, ext) == Structure(<<Structure(<<v, array>>), chars, <<ext>>>>)
Proto3Messages ==
  {Proto3Of(v, a, c, Extension(e, TRUE)) : v \in {0, -1}, a \in {<<>>, <<5, 0>>, <<0, 5>>}, c \in {<<>>, <<6>>}, e \in {0, 9}}
Proto3Type ==
  LET start == Proto3Of(0, <<>>, <<>>, Extension(0, FALSE))
  IN  [fields |-> Proto3, messages |-> Proto3Messages,
       readers |-> <<[fields |-> Proto3, start |-> start],
                    [fields |-> <<Proto3[2]>>, start |-> Structure(<<<<>>>>)]>>]

(* As many required fields as a word of fields_seen has bits, for a reader *)
(* that has one less and one that has them all.                            *)
Flags == [i \in 1 .. 5 |-> Plain(i, "required", "uvarint", 1)]
FlagMessages == {Structure(<<a, 1, 1, 1, b>>) : a, b \in {0, 3}}
FlagType ==
  LET start == Structure(<<0, 0, 0, 0, 0>>)
  IN  [fields |-> Flags, messages |-> FlagMessages,
       readers |-> <<[fields |-> Flags, start |-> start],
                    [fields |-> SubSeq(Flags, 1, 4), start |-> Structure(SubSeq(start.cells, 1, 4))]>>]

MCTypes == [numbers |-> NumberType, arrays |-> ArrayType, nested |-> NestedType, proto3 |-> Proto3Type,
            flags |-> FlagType]
=============================================================================
