------------------------------ MODULE FrameMgr ------------------------------
(***************************************************************************)
(* Writing and reading of XIM messages with the frame manager: the calls   *)
(* of FrameMgr.c, token by token, in the order in which the handlers of    *)
(* i18nPtHdr.c, i18nIc.c, i18nUtil.c, i18nMethod.c and i18nClbk.c make     *)
(* them.  A behaviour is one message: written by the server, or written by *)
(* a client as the protocol says and read by the server.                   *)
(***************************************************************************)
EXTENDS XimFrames

CONSTANTS
  MaxItems,     \* items of a list, at most
  ByteSizes,    \* how many bytes a string or a value may have
  EmptyLists    \* whether clients send lists without items

ASSUME FrameMgrAssumption ==
  MaxItems \in 1..3 /\ ByteSizes \subseteq 0..9 /\ EmptyLists \in BOOLEAN

VARIABLES
  name,     \* the message: its name, its contents (see XimFrames), and
  sizes,
  swap,     \* fm->byte_swap: the client has the other byte order
  fi,       \* fm->fi
  iters,    \* fm->iters: the lists whose bytes are counted
  idx,      \* fm->idx
  area,     \* fm->area, up to the end of the message
  todo,     \* the calls the handler has still to make
  last,     \* the number the handler has got from its last call
  got       \* what FrameMgrGetToken has given to the handler, in order

vars == <<name, sizes, swap, fi, iters, idx, area, todo, last, got>>
message == <<name, sizes, swap>>

-----------------------------------------------------------------------------
(* The handlers: what they call.                                           *)

Call(op)   == [op |-> op]
Put(part)  == [op |-> "put", part |-> part]
While(body) == [op |-> "while", body |-> body]

Get == Call("get")
SizedGet == <<Get, Call("size"), Get>>

Written ==
  [open_reply |-> open_reply_fr, close_reply |-> close_reply_fr,
   register_triggerkeys |-> register_triggerkeys_fr,
   query_extension_reply |-> query_extension_reply_fr,
   get_im_values_reply |-> get_im_values_reply_fr, input_styles |-> input_styles_fr,
   get_ic_values_reply |-> get_ic_values_reply_fr, reset_ic_reply |-> reset_ic_reply_fr,
   commit_chars |-> commit_chars_fr, preedit_draw |-> preedit_draw_fr]

\* The length that is put is asked from the frame manager, item by item.
AsksSize == {"open_reply", "query_extension_reply", "commit_chars"}

OpenCalls          == SizedGet
QueryExtensionCalls == <<Get, Get, While(SizedGet)>>
GetIMValuesCalls   == <<Get, Get, While(<<Get>>)>>
CreateICCalls      == <<Get, Get, While(<<Get>> \o SizedGet)>>
SetICValuesCalls   == <<Get, Get, Get, While(<<Get>> \o SizedGet)>>
GetICValuesCalls   == <<Get, Get, Get, While(<<Get>>)>>
EncodingNegotiationCalls ==
  <<Get, Get, Call("if"), While(SizedGet), Get, Call("if"), While(SizedGet)>>

Reading ==
  LET R(fr, calls) == [frame |-> fr, calls |-> calls]
  IN  [open |-> R(open_fr, OpenCalls),
       query_extension |-> R(query_extension_fr, QueryExtensionCalls),
       get_im_values |-> R(get_im_values_fr, GetIMValuesCalls),
       create_ic |-> R(create_ic_fr, CreateICCalls),
       set_ic_values |-> R(set_ic_values_fr, SetICValuesCalls),
       get_ic_values |-> R(get_ic_values_fr, GetICValuesCalls),
       encoding_negotiation |-> R(encoding_negotiation_fr, EncodingNegotiationCalls)]

IsWritten == name \in DOMAIN Written

FrameOf(n) == IF n \in DOMAIN Written THEN Written[n] ELSE Reading[n].frame

\* Sizes and counts are set first, list by list and item by item.
Setting(frame, c) ==
  LET Sizes(s) == [k \in DOMAIN s |-> [op |-> "setsize", num |-> s[k]]]
      At(i) == CASE i \notin Varying(frame) -> <<>>
                 [] frame[i].type = "ITER" ->
                      <<[op |-> "setcount", num |-> Len(c[i])]>>
                        \o IF frame[i + 1].type = "POINTER" /\ HasArray(frame[i + 2].frame)
                           THEN Sizes(c[i]) ELSE <<>>
                 [] OTHER -> Sizes(c[i])
  IN  FlattenSeq([i \in DOMAIN frame |-> At(i)])

\* Then the tokens are put.
Putting(n, c) ==
  LET frame == Written[n]
      Puts(parts) == LET given == Given(parts) IN [j \in DOMAIN given |-> Put(given[j])]
      asked == IF n \in AsksSize THEN <<Call("getsize")>> ELSE <<>>
      At(i) == IF frame[i].type = "ITER" /\ frame[i + 1].type = "POINTER"
               THEN FlattenSeq([k \in DOMAIN c[i] |->
                      asked \o Puts(PartsOfItem(frame[i + 2].frame, k, c[i][k]))])
               ELSE Puts(PartsAt(frame, i, c))
  IN  (IF n = "commit_chars" THEN asked ELSE <<>>)
        \o FlattenSeq([i \in DOMAIN frame |-> At(i)])

\* Encodings by detail are left empty by Xlib, and may be.
Sendable(n, c) ==
  \A i \in DOMAIN c : \/ EmptyLists \/ n \in DOMAIN Written
                      \/ FrameOf(n)[i].type # "ITER" \/ c[i] # <<>>
                      \/ n = "encoding_negotiation" /\ i = Max(DOMAIN c)

Init ==
  /\ name \in DOMAIN Written \cup DOMAIN Reading
  /\ sizes \in {c \in Contents(FrameOf(name), 0..MaxItems, ByteSizes) : Sendable(name, c)}
  /\ swap \in BOOLEAN
  /\ fi = FrameInstInit(FrameOf(name))
  /\ iters = <<>> /\ idx = 0 /\ last = 0 /\ got = <<>>
  /\ area = IF IsWritten THEN <<>> ELSE Layout(Parts(FrameOf(name), sizes), swap)
  /\ todo = IF IsWritten
            THEN Setting(Written[name], sizes) \o <<Call("alloc")>> \o Putting(name, sizes)
            ELSE Reading[name].calls

-----------------------------------------------------------------------------
(* Preparing a message that is written.                                    *)

Calls(op) == todo # <<>> /\ Head(todo).op = op
Done == todo' = Tail(todo)

FrameMgrSetIterCount ==
  /\ Calls("setcount")
  /\ fi' = FrameInstSetIterCount(fi, Head(todo).num).inst
  /\ Done /\ UNCHANGED <<message, iters, idx, area, last, got>>

FrameMgrSetSize ==
  /\ \/ Calls("setsize") /\ fi' = FrameInstSetSize(fi, Head(todo).num).inst
     \/ Calls("size") /\ fi' = FrameInstSetSize(fi, last).inst
  /\ Done /\ UNCHANGED <<message, iters, idx, area, last, got>>

\* FrameMgrGetTotalSize, and a buffer of that size with zeros.
FrameMgrSetBuffer ==
  /\ Calls("alloc")
  /\ area' = [j \in 1..FrameInstGetTotalSize(fi) |-> 0]
  /\ Done /\ UNCHANGED <<message, fi, iters, idx, last, got>>

FrameMgrGetSize ==
  /\ Calls("getsize")
  /\ last' = CHOOSE n \in FrameInstGetSize(fi) : TRUE
  /\ Done /\ UNCHANGED <<message, fi, iters, idx, area, got>>

-----------------------------------------------------------------------------
(* FrameMgrPutToken: counters and paddings on the way to the token are put *)
(* by the same call, each in a step of its own here.                       *)

\* The counter whose slot was passed.
CounterBits(next) == next.inst.frame[next.inst.cur - 1].bits

Store(bytes) ==
  /\ area' = [j \in DOMAIN area |->
                IF j - idx \in DOMAIN bytes THEN bytes[j - idx] ELSE area[j]]
  /\ idx' = idx + Len(bytes)

\* Fault: a counter is put as the number of items.
PutCounterAsNumber(next) ==
  /\ next.type = "COUNTER"
  /\ Store(Bytes(CounterBits(next), Extra(next.inst, next.num).max, swap))
  /\ fi' = next.inst
  /\ UNCHANGED <<message, iters, todo, last, got>>

PutCounter(next) ==
  /\ next.type = "COUNTER"
  /\ LET length == IterGetTotalSize(Extra(next.inst, next.num))
     IN  length # NO_VALUE /\ Store(Bytes(CounterBits(next), length, swap))
  /\ fi' = next.inst
  /\ UNCHANGED <<message, iters, todo, last, got>>

PutPadding(next) ==
  /\ next.type = "PADDING"
  /\ idx' = idx + next.num /\ fi' = next.inst
  /\ UNCHANGED <<message, iters, area, todo, last, got>>

\* A length is put as the frame manager gave it, where the handler asked.
PutBits(next) ==
  /\ next.type \in Bits
  /\ LET part == Head(todo).part
         value == IF part.length /\ name \in AsksSize THEN last ELSE part.value
     IN  Store(Bytes(next.type, value, swap))
  /\ fi' = next.inst
  /\ Done /\ UNCHANGED <<message, iters, last, got>>

PutArray(next) ==
  /\ next.type = "BARRAY" /\ next.num # NO_VALUE
  /\ Store(SubSeq(Head(todo).part.bytes, 1, next.num))
  /\ fi' = next.inst
  /\ Done /\ UNCHANGED <<message, iters, last, got>>

PutToken ==
  /\ Calls("put")
  /\ \E next \in {FrameInstGetNextType(fi)} :
       PutCounter(next) \/ PutPadding(next) \/ PutBits(next) \/ PutArray(next)

-----------------------------------------------------------------------------
(* FrameMgrGetToken, in the same way.  A counter that is read starts the   *)
(* counting of the bytes of its list, from the first item on; when all of  *)
(* them are read the list has as many items as were read.                  *)

Fetch(n) == [j \in 1..n |-> IF idx + j \in DOMAIN area THEN area[idx + j] ELSE 0]

\* Bytes of the message as a number.
RECURSIVE NumberOf(_)
NumberOf(bytes) == IF bytes = <<>> THEN 0 ELSE Head(bytes) + 256 * NumberOf(Tail(bytes))

Number(bits) == LET bytes == Fetch(Width(bits))
                IN  NumberOf(IF swap THEN Reverse(bytes) ELSE bytes)

\* _IterStartWatch has been called for this list.
Counting(inst, w) == ~inst.extra[w.iter].starter

\* The watches after n bytes: those up to the first list that is full, which
\* is seen when so many bytes more than its own are read.
Watched(inst, watches, n, more) ==
  LET counted == [k \in DOMAIN watches |->
                    IF Counting(inst, watches[k]) THEN [watches[k] EXCEPT !.counter = @ + n]
                    ELSE watches[k]]
      full == {k \in DOMAIN watches : /\ Counting(inst, watches[k])
                                      /\ counted[k].counter >= counted[k].end + more}
  IN  [full |-> full, watches |-> [k \in DOMAIN watches |->
         IF \E j \in full : j < k THEN watches[k] ELSE counted[k]]]

CountBy(inst, watches, n, more) ==
  LET r == Watched(inst, watches, n, more)
  IN  IF r.full = {} THEN iters' = r.watches /\ fi' = inst
      ELSE /\ iters' = RemoveAt(r.watches, Min(r.full))
           /\ fi' = [inst EXCEPT !.extra[watches[Min(r.full)].iter].expand = FALSE]

\* Fault: a list ends when more than its bytes were read.
CountedTooLong(inst, watches, n) == CountBy(inst, watches, n, 1)

\* _FrameIterCounterIncr fixes the number of items of the first list that is
\* full (IterFixIteration), and _FrameMgrRemoveIter takes it from the watches.
Counted(inst, watches, n) == CountBy(inst, watches, n, 0)

Passed(inst, n) == idx' = idx + n /\ Counted(inst, iters, n)

\* The list is made if it is not there, with the watch set.
GetCounter(next) ==
  /\ next.type = "COUNTER"
  /\ LET end == Number(CounterBits(next))
         watched == [Extra(next.inst, next.num) EXCEPT !.starter = TRUE]
         watches == Append(iters, [iter |-> next.num, counter |-> 0, end |-> end])
     IN  /\ Counted(SetExtra(next.inst, next.num, watched), watches, Width(CounterBits(next)))
         /\ idx' = idx + Width(CounterBits(next))
         /\ last' = end /\ got' = Append(got, end)
  /\ Done /\ UNCHANGED <<message, area>>

GetPadding(next) ==
  /\ next.type = "PADDING"
  /\ Passed(next.inst, next.num)
  /\ UNCHANGED <<message, area, todo, last, got>>

GetBits(next) ==
  /\ next.type \in Bits
  /\ last' = Number(next.type) /\ got' = Append(got, last')
  /\ Passed(next.inst, Width(next.type))
  /\ Done /\ UNCHANGED <<message, area>>

GetArray(next) ==
  /\ next.type = "BARRAY" /\ next.num # NO_VALUE
  /\ got' = Append(got, Fetch(next.num))
  /\ Passed(next.inst, next.num)
  /\ Done /\ UNCHANGED <<message, area, last>>

GetToken ==
  /\ Calls("get")
  /\ \E next \in {FrameInstGetNextType(fi)} :
       GetCounter(next) \/ GetPadding(next) \/ GetBits(next) \/ GetArray(next)

-----------------------------------------------------------------------------
(* The loop over a list: FrameMgrIsIterLoopEnd, and the body.              *)

\* The handler enters the loop only when the list has bytes.
IfBytes ==
  /\ Calls("if")
  /\ todo' = IF last > 0 THEN Tail(todo) ELSE Tail(Tail(todo))
  /\ UNCHANGED <<message, fi, iters, idx, area, last, got>>

LeaveLoop(loop) ==
  /\ loop.end
  /\ fi' = loop.inst
  /\ Done /\ UNCHANGED <<message, iters, idx, area, last, got>>

\* _FrameMgrProcessPadding, after which the end is looked for again.
PassPadding(loop) ==
  /\ ~loop.end
  /\ FrameInstPeekNextType(loop.inst) = "PADDING"
  /\ LET padding == FrameInstGetNextType(loop.inst)
     IN  Passed(padding.inst, padding.num)
  /\ UNCHANGED <<message, area, todo, last, got>>

EnterBody(loop) ==
  /\ ~loop.end
  /\ FrameInstPeekNextType(loop.inst) \notin {"PADDING", "again"}
  /\ fi' = loop.inst
  /\ todo' = Head(todo).body \o todo
  /\ UNCHANGED <<message, iters, idx, area, last, got>>

IsIterLoopEnd ==
  /\ Calls("while")
  /\ \E loop \in {FrameInstIsIterLoopEnd(fi)} :
       LeaveLoop(loop) \/ PassPadding(loop) \/ EnterBody(loop)

Next == \/ FrameMgrSetIterCount \/ FrameMgrSetSize \/ FrameMgrSetBuffer \/ FrameMgrGetSize
        \/ PutToken \/ GetToken \/ IfBytes \/ IsIterLoopEnd
        \/ todo = <<>> /\ UNCHANGED vars

\* The one state without another step is the last one: a call that cannot be
\* answered, or is looked for without end, is a deadlock.
Spec == Init /\ [][Next]_vars

-----------------------------------------------------------------------------
(* Properties.                                                             *)

parts == Parts(FrameOf(name), sizes)

\* Type invariant.
TypeOK ==
  /\ fi.frame = FrameOf(name) /\ fi.cur \in ItemSlots(fi.frame) \cup {Len(fi.frame)}
  /\ DOMAIN fi.extra \subseteq Varying(fi.frame)
  /\ \A k \in DOMAIN iters :
       /\ fi.frame[iters[k].iter].type = "ITER" /\ iters[k].iter \in DOMAIN fi.extra
       /\ iters[k].counter \in Nat /\ iters[k].end \in Nat
  /\ idx \in Nat /\ area \in Seq(0..255) /\ last \in Nat

(***************************************************************************)
(* The size computed before anything is written (FrameMgrGetTotalSize) and *)
(* the place reached in writing, and the lengths a message declares and    *)
(* the place reached in reading, agree: no token is put or taken behind    *)
(* the end.                                                                *)
(***************************************************************************)
InsideTheMessage == (Calls("put") \/ ~IsWritten \/ todo = <<>>) => idx <= Len(area)

(***************************************************************************)
(* A message the server has written has the bytes the protocol asks for:   *)
(* counts are those of the bytes in the list, each string stands behind    *)
(* its own length, and paddings, which the frames describe by the sizes of *)
(* the items before, end at multiples of four, so that the length divided  *)
(* by four in the header (_Xi18nSendMessage) loses nothing.                *)
(***************************************************************************)
WrittenAsSpecified ==
  IsWritten /\ todo = <<>> => area = Layout(parts, swap) /\ Len(area) % 4 = 0

(***************************************************************************)
(* The handler gets what the client wrote: every field, count and string,  *)
(* in order, the items of each list, no more and no fewer.                 *)
(***************************************************************************)
ReadAsSent ==
  ~IsWritten => /\ IsPrefix(got, Read(parts))
                /\ todo = <<>> => got = Read(parts)

(***************************************************************************)
(* The loop over a list takes no item of a list that has none: what        *)
(* MakeExtensionList relies on, whose "query all extensions" is for a list *)
(* of no extension.                                                        *)
(***************************************************************************)
EmptyListHasNoItem ==
  ~IsWritten /\ (\A i \in DOMAIN sizes : sizes[i] = <<>>) => Len(got) <= Len(Read(parts))
=============================================================================
