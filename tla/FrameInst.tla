----------------------------- MODULE FrameInst -----------------------------
(***************************************************************************)
(* The frame instances and iterations of FrameMgr.c: a cursor that walks a *)
(* template of fields, lists and paddings while a message is written or    *)
(* read.  A template is a sequence of slots, as in i18nIMProto.c; slots    *)
(* are numbered from 1, so that 0 is the -1 of the code.                   *)
(*                                                                         *)
(* Instances are values here: an operator that changes one in the code     *)
(* returns the changed instance.  What is created in a chain on demand     *)
(* (ChainMgrGetExtraData, ChainMgrSetData) is a partial function.          *)
(***************************************************************************)
EXTENDS Integers, Sequences, FiniteSetsExt

NO_VALUE == -1

\* The lists of slots.
Bit(t)             == [type |-> t]
BARRAY             == [type |-> "BARRAY"]
ITER               == [type |-> "ITER"]
POINTER            == [type |-> "POINTER"]
PTR(frame)         == [type |-> "PTR_ITEM", frame |-> frame]
PAD(unit, number)  == [type |-> "PADDING", unit |-> unit, number |-> number]
COUNTER(t, offset) == [type |-> "COUNTER", bits |-> t, offset |-> offset]
EOL                == [type |-> "EOL"]

Bits == {"BIT8", "BIT16", "BIT32"}

Width(t) == CASE t = "BIT8" -> 1 [] t = "BIT16" -> 2 [] t = "BIT32" -> 4

-----------------------------------------------------------------------------
(* Walking a template.                                                     *)

\* Fault: the item of a list is taken for the next item of the frame.
ItemWidthOfLists(frame, i) == IF frame[i].type = "POINTER" THEN 2 ELSE 1

\* The item that begins at slot i may be a list or a pointer to a frame.
ItemWidth(frame, i) ==
  CASE frame[i].type = "ITER" -> IF frame[i + 1].type = "POINTER" THEN 3 ELSE 2
    [] frame[i].type = "POINTER" -> 2
    [] OTHER -> 1

FrameInstIncrement(frame, i) ==
  IF frame[i].type = "EOL" THEN 0 ELSE i + ItemWidth(frame, i)

FrameInstDecrement(frame, i) ==
  CASE i = 1 -> 0
    [] i = 2 -> 1
    [] i > 2 /\ frame[i - 2].type \in {"POINTER", "ITER"} ->
         1 + Max({0} \cup {j \in 1..(i - 3) : frame[j].type # "ITER"})
    [] OTHER -> i - 1

\* The slots at which items begin, in the order FrameInstIncrement gives.
ItemSlots(frame) ==
  {i \in DOMAIN frame :
     /\ frame[i].type \notin {"PTR_ITEM", "EOL"}
     /\ i > 1 => frame[i - 1].type # "ITER"}

-----------------------------------------------------------------------------
(* Instances.  A frame has sizes (of arrays), iterations (of lists) and    *)
(* instances (of the frames behind pointers) in "extra".                   *)

FrameInstInit(frame) == [frame |-> frame, cur |-> 1, extra |-> [i \in {} |-> 0]]

\* "item" is the template of the item: the slots behind ITER.
IterInit(item, count) ==
  [item |-> item, max |-> IF count = NO_VALUE THEN 0 ELSE count,
   expand |-> count = NO_VALUE, cur |-> 0, starter |-> FALSE,
   extra |-> [i \in {} |-> 0]]

Created(frame, i) ==
  CASE frame[i].type = "BARRAY" -> NO_VALUE
    [] frame[i].type = "ITER" -> IterInit(SubSeq(frame, i + 1, i + 2), NO_VALUE)
    [] frame[i].type = "POINTER" -> FrameInstInit(frame[i + 1].frame)

Extra(fi, i) == IF i \in DOMAIN fi.extra THEN fi.extra[i] ELSE Created(fi.frame, i)

SetExtra(inst, i, d) ==
  [inst EXCEPT !.extra = [j \in DOMAIN @ \cup {i} |-> IF j = i THEN d ELSE @[j]]]

\* Item number i of an iteration over frames.
Item(it, i) == IF i \in DOMAIN it.extra THEN it.extra[i] ELSE FrameInstInit(it.item[2].frame)

OverFrames(it) == it.item[1].type = "POINTER"

-----------------------------------------------------------------------------
(* Sizes.                                                                  *)

RECURSIVE ItemSize(_, _), SizeBefore(_, _, _), IterGetTotalSize(_), FrameInstGetTotalSize(_)

\* The sum of the sizes of some items before slot i.
SizeBefore(fi, i, number) ==
  IF number = 0 THEN 0
  ELSE LET j == FrameInstDecrement(fi.frame, i)
       IN  ItemSize(fi, j) + SizeBefore(fi, j, number - 1)

\* Fault: a full unit of padding where none is needed.
PaddingOfAligned(fi, i) ==
  fi.frame[i].unit - (SizeBefore(fi, i, fi.frame[i].number) % fi.frame[i].unit)

Padding(fi, i) ==
  LET unit == fi.frame[i].unit
  IN  (unit - (SizeBefore(fi, i, fi.frame[i].number) % unit)) % unit

ItemSize(fi, i) ==
  LET slot == fi.frame[i]
  IN  CASE slot.type \in Bits -> Width(slot.type)
        [] slot.type = "COUNTER" -> Width(slot.bits)
        [] slot.type = "BARRAY" -> Extra(fi, i)
        [] slot.type = "PADDING" -> Padding(fi, i)
        [] slot.type = "ITER" -> IterGetTotalSize(Extra(fi, i))
        [] slot.type = "POINTER" ->
             IF i \in DOMAIN fi.extra THEN FrameInstGetTotalSize(fi.extra[i]) ELSE NO_VALUE

IterGetTotalSize(it) ==
  IF it.expand THEN NO_VALUE
  ELSE IF ~OverFrames(it) THEN it.max * Width(it.item[1].type)
  ELSE LET size(i) == FrameInstGetTotalSize(Item(it, i))
           items == 0..(it.max - 1)
       IN  IF \E i \in items : size(i) = NO_VALUE THEN NO_VALUE ELSE MapThenSumSet(size, items)

FrameInstGetTotalSize(fi) ==
  LET size(i) == ItemSize(fi, i) IN MapThenSumSet(size, ItemSlots(fi.frame))

-----------------------------------------------------------------------------
(* What stands next.  Next returns its type, the size of an array or of a  *)
(* padding or the slot of the list a counter counts, and the instance      *)
(* with its cursor behind it.  The end of a list or of a frame is stepped  *)
(* over by looking again.                                                  *)

RECURSIVE FrameInstGetNextType(_), IterGetNextType(_)

IterGetNextType(it0) ==
  LET it == [it0 EXCEPT !.starter = FALSE,
                        !.max = IF it0.cur >= @ /\ it0.expand THEN it0.cur + 1 ELSE @]
      next == FrameInstGetNextType(Item(it, it.cur))
      passed == SetExtra(it, it.cur, next.inst)
  IN  IF it.cur >= it.max THEN [type |-> "EOL", num |-> 0, inst |-> it]
      ELSE IF ~OverFrames(it)
      THEN [type |-> it.item[1].type, num |-> 0, inst |-> [it EXCEPT !.cur = @ + 1]]
      ELSE IF next.type = "EOL" THEN IterGetNextType([passed EXCEPT !.cur = @ + 1])
      ELSE [type |-> next.type, num |-> next.num, inst |-> passed]

FrameInstGetNextType(fi) ==
  LET i == fi.cur
      slot == fi.frame[i]
      inside == IF slot.type = "ITER" THEN IterGetNextType(Extra(fi, i))
                                      ELSE FrameInstGetNextType(Extra(fi, i))
      passed == SetExtra(fi, i, inside.inst)
      Simple(num) == [type |-> slot.type, num |-> num,
                      inst |-> [fi EXCEPT !.cur = FrameInstIncrement(fi.frame, i)]]
  IN  CASE slot.type \in Bits \cup {"EOL"} -> Simple(0)
        [] slot.type = "COUNTER" -> Simple(i + slot.offset)
        [] slot.type = "BARRAY" -> Simple(Extra(fi, i))
        [] slot.type = "PADDING" -> Simple(Padding(fi, i))
        [] OTHER ->
             IF inside.type = "EOL"
             THEN FrameInstGetNextType([passed EXCEPT !.cur = FrameInstIncrement(fi.frame, i)])
             ELSE [type |-> inside.type, num |-> inside.num, inst |-> passed]

RECURSIVE FrameInstPeekNextType(_), IterPeekNextType(_)

\* Looking without moving.  At the end of a list or of a frame the code looks
\* again at the very same place, and so without end: "again".
IterPeekNextType(it) ==
  LET next == FrameInstPeekNextType(Item(it, it.cur))
  IN  IF ~it.expand /\ it.cur >= it.max THEN "EOL"
      ELSE IF ~OverFrames(it) THEN it.item[1].type
      ELSE IF next = "EOL" THEN "again" ELSE next

FrameInstPeekNextType(fi) ==
  LET slot == fi.frame[fi.cur]
      inside == IF slot.type = "ITER" THEN IterPeekNextType(Extra(fi, fi.cur))
                                      ELSE FrameInstPeekNextType(Extra(fi, fi.cur))
  IN  IF slot.type \notin {"ITER", "POINTER"} THEN slot.type
      ELSE IF inside = "EOL" THEN "again" ELSE inside

-----------------------------------------------------------------------------
(* The end of the loop over a list.                                        *)

FrameInstIsEnd(fi) == fi.frame[fi.cur].type = "EOL"

\* A frame of a list holds no list of its own, so only its end matters.
IterIsLoopEnd(it) ==
  LET AtMax(x) == ~x.expand /\ x.cur = x.max
      moved == IF ~AtMax(it) /\ OverFrames(it) /\ FrameInstIsEnd(Item(it, it.cur))
               THEN [it EXCEPT !.cur = @ + 1] ELSE it
  IN  [end |-> AtMax(moved), inst |-> moved]

FrameInstIsIterLoopEnd(fi) ==
  IF fi.frame[fi.cur].type # "ITER" \/ fi.cur \notin DOMAIN fi.extra
  THEN [end |-> FALSE, inst |-> fi]
  ELSE LET r == IterIsLoopEnd(fi.extra[fi.cur])
           kept == SetExtra(fi, fi.cur, r.inst)
       IN  [end |-> r.end,
            inst |-> IF r.end THEN [kept EXCEPT !.cur = FrameInstIncrement(fi.frame, @)] ELSE kept]

-----------------------------------------------------------------------------
(* Sizes and counts that the caller gives: to the first array that has no  *)
(* size, to the first list that has no count.                              *)

RECURSIVE FrameInstSetSize(_, _), IterSetSize(_, _)

Refused(inst) == [ok |-> FALSE, inst |-> inst]

\* The first of some places that takes what is offered to each.
FirstToTake(inst, offers) ==
  LET takers == {i \in DOMAIN offers : offers[i].ok}
  IN  IF takers = {} THEN Refused(inst)
      ELSE [ok |-> TRUE, inst |-> SetExtra(inst, Min(takers), offers[Min(takers)].inst)]

\* Only lists of frames come with sizes; a list without a count grows.
IterSetSize(it, num) ==
  IF ~OverFrames(it) THEN Refused(it)
  ELSE LET grown == IF it.expand THEN [it EXCEPT !.max = @ + 1] ELSE it
           Offers(n) == [i \in 0..(n - 1) |-> FrameInstSetSize(Item(it, i), num)]
           now == FirstToTake(it, Offers(it.max))
       IN  IF now.ok THEN now ELSE FirstToTake(grown, Offers(grown.max))

FrameInstSetSize(fi, num) ==
  FirstToTake(fi, [i \in ItemSlots(fi.frame) |->
    CASE fi.frame[i].type = "BARRAY" -> [ok |-> Extra(fi, i) = NO_VALUE, inst |-> num]
      [] fi.frame[i].type = "ITER" -> IterSetSize(Extra(fi, i), num)
      [] fi.frame[i].type = "POINTER" -> FrameInstSetSize(Extra(fi, i), num)
      [] OTHER -> Refused(fi)])

\* Frames within a list or behind a pointer hold no list.
IterSetIterCount(it, num) ==
  IF it.expand THEN [ok |-> TRUE, inst |-> [it EXCEPT !.max = num, !.expand = FALSE]]
  ELSE Refused(it)

FrameInstSetIterCount(fi, num) ==
  FirstToTake(fi, [i \in ItemSlots(fi.frame) |->
    IF fi.frame[i].type = "ITER" THEN IterSetIterCount(Extra(fi, i), num) ELSE Refused(fi)])

\* The size of the next array from the cursor on, NO_VALUE if there is none.
RECURSIVE FrameInstGetSize(_), SizeIn(_, _)

SizeIn(fi, i) ==
  CASE fi.frame[i].type = "BARRAY" -> {Extra(fi, i)}
    [] fi.frame[i].type = "POINTER" -> FrameInstGetSize(Extra(fi, i))
    [] fi.frame[i].type = "ITER" ->
         LET it == Extra(fi, i)
             sized == {j \in it.cur..(it.max - 1) :
                         OverFrames(it) /\ FrameInstGetSize(Item(it, j)) # {}}
         IN  IF sized = {} THEN {} ELSE FrameInstGetSize(Item(it, Min(sized)))
    [] OTHER -> {}

\* At most one element: the size that is found.
FrameInstGetSize(fi) ==
  LET found == {i \in ItemSlots(fi.frame) : i >= fi.cur /\ SizeIn(fi, i) # {}}
  IN  IF found = {} THEN {} ELSE SizeIn(fi, Min(found))
=============================================================================
