----------------------------- MODULE XimFrames -----------------------------
(***************************************************************************)
(* The frames of i18nIMProto.c that hold lists, strings or paddings and    *)
(* that the server writes or reads, and what the XIM protocol says their   *)
(* messages look like: fields, counts and strings one after the other, and *)
(* padding up to the next multiple of four bytes of the message.           *)
(***************************************************************************)
EXTENDS FrameInst, SequencesExt

BIT8  == Bit("BIT8")
BIT16 == Bit("BIT16")
BIT32 == Bit("BIT32")
PAD4(n) == PAD(4, n)

\* A list of frames.
List(frame) == <<ITER, POINTER, PTR(frame)>>

ximattr_fr         == <<BIT16, BIT16, BIT16, BARRAY, PAD4(2), EOL>>
xicattr_fr         == <<BIT16, BIT16, BIT16, BARRAY, PAD4(2), EOL>>
ximattribute_fr    == <<BIT16, BIT16, BARRAY, PAD4(1), EOL>>
xicattribute_fr    == <<BIT16, BIT16, BARRAY, PAD4(1), EOL>>
ximtriggerkey_fr   == <<BIT32, BIT32, BIT32, EOL>>
encodinginfo_fr    == <<BIT16, BARRAY, PAD4(2), EOL>>
str_fr             == <<BIT8, BARRAY, EOL>>
ext_fr             == <<BIT8, BIT8, BIT16, BARRAY, PAD4(1), EOL>>
inputstyle_fr      == <<BIT32, EOL>>

input_styles_fr    == <<BIT16, PAD4(1)>> \o List(inputstyle_fr) \o <<EOL>>
open_fr            == <<POINTER, PTR(str_fr), PAD4(1), EOL>>
open_reply_fr      == <<BIT16, COUNTER("BIT16", 1)>> \o List(ximattr_fr)
                        \o <<COUNTER("BIT16", 2), PAD4(1)>> \o List(xicattr_fr) \o <<EOL>>
close_reply_fr     == <<BIT16, PAD4(1), EOL>>
register_triggerkeys_fr ==
  <<BIT16, PAD4(1), COUNTER("BIT32", 1)>> \o List(ximtriggerkey_fr)
    \o <<COUNTER("BIT32", 1)>> \o List(ximtriggerkey_fr) \o <<EOL>>
encoding_negotiation_fr ==
  <<BIT16, COUNTER("BIT16", 1)>> \o List(str_fr)
    \o <<PAD4(1), COUNTER("BIT16", 2), PAD4(1)>> \o List(encodinginfo_fr) \o <<EOL>>
query_extension_fr == <<BIT16, COUNTER("BIT16", 1)>> \o List(str_fr) \o <<PAD4(1), EOL>>
query_extension_reply_fr == <<BIT16, COUNTER("BIT16", 1)>> \o List(ext_fr) \o <<EOL>>
get_im_values_fr   == <<BIT16, COUNTER("BIT16", 1), ITER, BIT16, PAD4(1), EOL>>
get_im_values_reply_fr == <<BIT16, COUNTER("BIT16", 1)>> \o List(ximattribute_fr) \o <<EOL>>
create_ic_fr       == <<BIT16, COUNTER("BIT16", 1)>> \o List(xicattribute_fr) \o <<EOL>>
set_ic_values_fr   == <<BIT16, BIT16, COUNTER("BIT16", 2), PAD4(1)>>
                        \o List(xicattribute_fr) \o <<EOL>>
get_ic_values_fr   == <<BIT16, BIT16, COUNTER("BIT16", 1), ITER, BIT16, PAD4(2), EOL>>
get_ic_values_reply_fr == <<BIT16, BIT16, COUNTER("BIT16", 2), PAD4(1)>>
                        \o List(xicattribute_fr) \o <<EOL>>
commit_chars_fr    == <<BIT16, BIT16, BIT16, BIT16, BARRAY, PAD4(1), EOL>>
reset_ic_reply_fr  == <<BIT16, BIT16, BIT16, BARRAY, PAD4(2), EOL>>
preedit_draw_fr    == <<BIT16, BIT16, BIT32, BIT32, BIT32, BIT32, BIT16, BARRAY, PAD4(2),
                        COUNTER("BIT16", 2), PAD4(1), ITER, BIT32, EOL>>

-----------------------------------------------------------------------------
(* Contents.  What varies in a message is sizes[i]: the sizes of the items *)
(* of the list at slot i, 0 for an item without array, or the one size of  *)
(* the array there or in the frame behind the pointer there.               *)

HasArray(frame) == \E i \in DOMAIN frame : frame[i].type = "BARRAY"

\* The sizes of the items of the list, or of what else varies, at slot i.
SizesAt(frame, i, items, bytes) ==
  IF frame[i].type # "ITER" THEN [1..1 -> bytes]
  ELSE UNION {[1..n -> IF frame[i + 1].type = "POINTER" /\ HasArray(frame[i + 2].frame)
                       THEN bytes ELSE {0}] : n \in items}

Varying(frame) == {i \in ItemSlots(frame) : frame[i].type \in {"BARRAY", "POINTER", "ITER"}}

\* The contents of a message with as many items in each list, of such sizes.
Contents(frame, items, bytes) ==
  LET all == UNION {SizesAt(frame, i, items, bytes) : i \in Varying(frame)}
  IN  {c \in [Varying(frame) -> all] :
         \A i \in Varying(frame) : c[i] \in SizesAt(frame, i, items, bytes)}

-----------------------------------------------------------------------------
(* What a message is made of, in order.                                    *)

Field(bits, v)   == [kind |-> "field", bits |-> bits, value |-> v, length |-> FALSE]
Length(bits, v)  == [kind |-> "field", bits |-> bits, value |-> v, length |-> TRUE]
String(bytes)    == [kind |-> "string", bytes |-> bytes]
Gap(unit)        == [kind |-> "gap", unit |-> unit]
Count(bits, of)  == [kind |-> "count", bits |-> bits, of |-> of]

\* Values are told apart by item and slot, and the two low bytes of one too.
Value(t, k, i) == IF t = "BIT8" THEN 16 * k + i ELSE 16 * k + i + 256 * (16 * k + i + 100)

Text(k, size) == [j \in 1..size |-> 200 + 10 * k + j]

\* The field before an array is its length.
IsLength(frame, i) == frame[i + 1].type = "BARRAY"

\* A frame without lists, as item number k.
PartsOfItem(frame, k, size) ==
  LET part(i) == CASE frame[i].type = "BARRAY" -> String(Text(k, size))
                   [] frame[i].type = "PADDING" -> Gap(frame[i].unit)
                   [] IsLength(frame, i) -> Length(frame[i].type, size)
                   [] OTHER -> Field(frame[i].type, Value(frame[i].type, k, i))
  IN  [i \in 1..(Len(frame) - 1) |-> part(i)]

PartsOfList(frame, i, sizes) ==
  FlattenSeq([k \in DOMAIN sizes |->
    IF frame[i + 1].type = "POINTER"
    THEN PartsOfItem(frame[i + 2].frame, k, sizes[k])
    ELSE <<Field(frame[i + 1].type, Value(frame[i + 1].type, k, 0))>>])

\* The parts of a message, and those of its item at slot i.
PartsAt(frame, i, sizes) ==
  CASE i \notin ItemSlots(frame) -> <<>>
    [] frame[i].type = "ITER" -> PartsOfList(frame, i, sizes[i])
    [] frame[i].type = "POINTER" -> PartsOfItem(frame[i + 1].frame, 0, sizes[i][1])
    [] frame[i].type = "BARRAY" -> <<String(Text(0, sizes[i][1]))>>
    [] frame[i].type = "PADDING" -> <<Gap(frame[i].unit)>>
    [] frame[i].type = "COUNTER" ->
         LET list == i + frame[i].offset
         IN  <<Count(frame[i].bits, PartsOfList(frame, list, sizes[list]))>>
    [] IsLength(frame, i) -> <<Length(frame[i].type, sizes[i + 1][1])>>
    [] OTHER -> <<Field(frame[i].type, Value(frame[i].type, 0, i))>>

Parts(frame, sizes) == FlattenSeq([i \in DOMAIN frame |-> PartsAt(frame, i, sizes)])

-----------------------------------------------------------------------------
(* The bytes.                                                              *)

\* Least significant byte first, or last when the bytes are swapped.
Bytes(t, v, swap) ==
  LET byte == [j \in 1..Width(t) |-> (v \div 256 ^ (j - 1)) % 256]
  IN  IF swap THEN Reverse(byte) ELSE byte

\* The number of bytes of the parts, and the bytes, from the beginning of a
\* message or from a place in it that is a multiple of the unit.
AddLength(n, part) ==
  n + CASE part.kind = "field" -> Width(part.bits)
        [] part.kind = "count" -> Width(part.bits)
        [] part.kind = "string" -> Len(part.bytes)
        [] part.kind = "gap" -> (part.unit - (n % part.unit)) % part.unit

LengthOf(parts) == FoldLeft(AddLength, 0, parts)

Layout(parts, swap) ==
  LET AddBytes(bytes, part) ==
        bytes \o CASE part.kind = "field" -> Bytes(part.bits, part.value, swap)
                   [] part.kind = "count" -> Bytes(part.bits, LengthOf(part.of), swap)
                   [] part.kind = "string" -> part.bytes
                   [] part.kind = "gap" ->
                        [j \in 1..(AddLength(Len(bytes), part) - Len(bytes)) |-> 0]
  IN  FoldLeft(AddBytes, <<>>, parts)

\* What the caller gives to be written: fields and strings.
Given(parts) == SelectSeq(parts, LAMBDA part : part.kind \in {"field", "string"})

\* What the caller is given when the message is read: the counts as well.
Read(parts) ==
  LET visible == SelectSeq(parts, LAMBDA part : part.kind # "gap")
  IN  [j \in DOMAIN visible |-> IF visible[j].kind = "count" THEN LengthOf(visible[j].of)
                                ELSE IF visible[j].kind = "field" THEN visible[j].value
                                ELSE visible[j].bytes]
=============================================================================
