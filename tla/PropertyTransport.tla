------------------------- MODULE PropertyTransport --------------------------
(***************************************************************************)
(* How the messages of one client reach the dispatcher: ReadXIMMessage of  *)
(* i18nX.c with the cache of offsets of i18nOffsetCache.c.                 *)
(*                                                                         *)
(* A short message travels in the X event itself.  A long one is appended  *)
(* by the client to a property of the window the server made for it, and   *)
(* the event only says which property and how many bytes.  The client goes *)
(* through a few properties in turn, so that several messages may stand in *)
(* one; the server remembers how far it has read each.  The X server and   *)
(* Xlib in the client are external.                                        *)
(***************************************************************************)
EXTENDS Integers, Sequences

CONSTANTS
  Properties,   \* how many properties the client uses in turn, 21 in Xlib
  DataLimit,    \* XCM_DATA_LIMIT, 20: the bytes an event has room for
  Lengths,      \* lengths of messages in bytes
  MaxSent       \* messages sent over a behaviour

\* The length in the header of an XIM message counts words of four bytes.
ASSUME TransportAssumption ==
  /\ Properties \in Nat \ {0} /\ DataLimit \in Nat /\ MaxSent \in Nat
  /\ Lengths \subseteq Nat \ {0} /\ \A l \in Lengths : l % 4 = 0

VARIABLES
  sent,       \* the client: how many messages it has sent
  next,       \* the client: the property for its next long message
  events,     \* X: client messages on their way to the server
  property,   \* X: the bytes that stand in each property of the window
  asked,      \* the server has asked for a property, and
  answer,     \* X: what XGetWindowProperty answers it
  byteOrder,  \* client->byte_order: known once XIM_CONNECT was read
  cache,      \* client->offset_cache: offset by property, for those once used
  handled     \* what _Xi18nMessageHandler was called with, in order

vars == <<sent, next, events, property, asked, answer, byteOrder, cache, handled>>

Atoms == 0..(Properties - 1)

\* A byte is named by its message and its place there; Junk is any other.
Junk == <<0, 0>>

Whole(n, length) == [k \in 1..length |-> <<n, k>>]

NoAnswer == [data |-> <<>>, after |-> 0]

Init ==
  /\ sent = 0 /\ next = 0 /\ events = <<>>
  /\ property = [a \in Atoms |-> <<>>]
  /\ asked = FALSE /\ answer = NoAnswer
  /\ byteOrder = "?"
  /\ cache = [a \in {} |-> 0]
  /\ handled = <<>>

-----------------------------------------------------------------------------
(* The client.  Its first message is XIM_CONNECT, which is short.  The     *)
(* place "at" of a message in its property is for the properties below: no *)
(* event tells the server.                                                 *)

Short(n, length) ==
  [format |-> 8, n |-> n, length |-> length, atom |-> 0, at |-> 0]
Long(n, length, atom, at) ==
  [format |-> 32, n |-> n, length |-> length, atom |-> atom, at |-> at]

WriteShort(length) ==
  /\ sent < MaxSent /\ length <= DataLimit
  /\ sent' = sent + 1
  /\ events' = Append(events, Short(sent + 1, length))
  /\ UNCHANGED <<next, property, asked, answer, byteOrder, cache, handled>>

WriteLong(length) ==
  /\ 0 < sent /\ sent < MaxSent /\ length > DataLimit
  /\ sent' = sent + 1
  /\ next' = (next + 1) % Properties
  /\ property' = [property EXCEPT ![next] = @ \o Whole(sent + 1, length)]
  /\ events' = Append(events, Long(sent + 1, length, next, Len(property[next])))
  /\ UNCHANGED <<asked, answer, byteOrder, cache, handled>>

-----------------------------------------------------------------------------
(* The cache of offsets.                                                   *)

LookupPropertyOffset(a) == IF a \in DOMAIN cache THEN cache[a] ELSE 0

\* Fault: a property the cache knows keeps its offset.
SetPropertyOffsetOnce(a, offset) ==
  cache' = [b \in DOMAIN cache \cup {a} |->
              IF b \in DOMAIN cache THEN cache[b] ELSE offset]

SetPropertyOffset(a, offset) ==
  cache' = [b \in DOMAIN cache \cup {a} |-> IF b = a THEN offset ELSE cache[b]]

-----------------------------------------------------------------------------
(* The server.                                                             *)

\* An event without property; an unknown client can only begin with CONNECT.
ReadEvent ==
  /\ ~asked /\ events # <<>> /\ Head(events).format = 8
  /\ LET e == Head(events)
         known == byteOrder # "?" \/ e.n = 1
     IN  /\ byteOrder' = IF known THEN "known" ELSE "?"
         /\ handled' = IF known THEN Append(handled, Whole(e.n, e.length)) ELSE handled
  /\ events' = Tail(events)
  /\ UNCHANGED <<sent, next, property, asked, answer, cache>>

\* XGetWindowProperty: some words of the bytes, and how many stand behind.
Words(bytes, begin, count) ==
  LET end == 4 * (begin + count)
      last == IF end < Len(bytes) THEN end ELSE Len(bytes)
  IN  [data |-> SubSeq(bytes, 4 * begin + 1, last), after |-> Len(bytes) - last]

\* Fault: what is asked for ends a word early when the offset is not zero.
AskedForFewer(a, length) ==
  LET offset == LookupPropertyOffset(a)
      begin == offset \div 4
      end == (length + 3) \div 4
  IN  Words(property[a], begin, end - begin)

\* The part of a property that is asked for, in words of four bytes.
AskedFor(a, length) ==
  LET offset == LookupPropertyOffset(a)
      begin == offset \div 4
      end == (offset + length + 3) \div 4
  IN  Words(property[a], begin, end - begin)

\* Fault: an event of format 8 is taken for the announcement of a property.
AskPropertyAnyFormat ==
  /\ ~asked /\ events # <<>>
  /\ LET a == Head(events).atom
     IN  /\ answer' = AskedFor(a, Head(events).length)
         /\ property' = [property EXCEPT ![a] = IF answer'.after = 0 THEN <<>> ELSE @]
  /\ asked' = TRUE
  /\ UNCHANGED <<sent, next, events, byteOrder, cache, handled>>

\* The request.  The property is deleted when nothing is left behind what was
\* asked for; the client may write again before the answer is made use of.
AskProperty ==
  /\ ~asked /\ events # <<>> /\ Head(events).format = 32
  /\ LET a == Head(events).atom
     IN  /\ answer' = AskedFor(a, Head(events).length)
         /\ property' = [property EXCEPT ![a] = IF answer'.after = 0 THEN <<>> ELSE @]
  /\ asked' = TRUE
  /\ UNCHANGED <<sent, next, events, byteOrder, cache, handled>>

Copied(offset, length) ==
  [k \in 1..length |-> IF k + (offset % 4) \in DOMAIN answer.data
                       THEN answer.data[k + (offset % 4)] ELSE Junk]

\* Fault: the offset is remembered also when the property was deleted.
ReadPropertyKeepsOffset ==
  /\ asked
  /\ LET e == Head(events)
         offset == LookupPropertyOffset(e.atom)
     IN  IF answer.data = <<>>
         THEN SetPropertyOffset(e.atom, 0) /\ UNCHANGED handled
         ELSE /\ SetPropertyOffset(e.atom, offset + e.length)
              /\ handled' = Append(handled, Copied(offset, e.length))
  /\ asked' = FALSE /\ answer' = NoAnswer
  /\ events' = Tail(events)
  /\ UNCHANGED <<sent, next, property, byteOrder>>

\* The answer; one without data gives the message up.
ReadProperty ==
  /\ asked
  /\ LET e == Head(events)
         offset == LookupPropertyOffset(e.atom)
     IN  IF answer.data = <<>>
         THEN SetPropertyOffset(e.atom, 0) /\ UNCHANGED handled
         ELSE /\ SetPropertyOffset(e.atom, IF answer.after > 0 THEN offset + e.length ELSE 0)
              /\ handled' = Append(handled, Copied(offset, e.length))
  /\ asked' = FALSE /\ answer' = NoAnswer
  /\ events' = Tail(events)
  /\ UNCHANGED <<sent, next, property, byteOrder>>

ReadXIMMessage == ReadEvent \/ AskProperty \/ ReadProperty

Next == (\E l \in Lengths : WriteShort(l) \/ WriteLong(l)) \/ ReadXIMMessage

\* The event loop of the server; nothing makes a client write.
Spec == Init /\ [][Next]_vars /\ WF_vars(ReadXIMMessage)

-----------------------------------------------------------------------------

EventsOf(n) ==
  [format : {8}, n : n, length : Lengths, atom : {0}, at : {0}]
    \cup [format : {32}, n : n, length : Lengths, atom : Atoms, at : Nat]

\* Type invariant; what was asked for is for the event at the head.
TypeOK ==
  /\ sent \in Nat /\ next \in Atoms
  /\ events \in Seq(EventsOf(Nat \ {0}))
  /\ property \in [Atoms -> Seq(Nat \X Nat)]
  /\ asked \in BOOLEAN
  /\ asked => events # <<>> /\ Head(events).format = 32
  /\ answer \in [data : Seq(Nat \X Nat), after : Nat]
  /\ byteOrder \in {"?", "known"}
  /\ DOMAIN cache \subseteq Atoms /\ \A a \in DOMAIN cache : cache[a] \in Nat
  /\ handled \in Seq(Seq(Nat \X Nat))

\* The events that are still to be read, those of property a among them, and
\* the offset at which the next of these will be read.
Rest == IF asked THEN Tail(events) ELSE events

Announced(a) == {Rest[j] : j \in {j \in DOMAIN Rest :
                                    Rest[j].format = 32 /\ Rest[j].atom = a}}

Offset(a) ==
  IF asked /\ Head(events).atom = a
  THEN IF answer.after > 0 THEN LookupPropertyOffset(a) + Head(events).length ELSE 0
  ELSE LookupPropertyOffset(a)

Stands(e) ==
  \A k \in 1..e.length : /\ e.at + k <= Len(property[e.atom])
                         /\ property[e.atom][e.at + k] = <<e.n, k>>

IsFirst(e) == \A f \in Announced(e.atom) : e.n <= f.n

(***************************************************************************)
(* The cached offset and the property agree.  The messages announced still *)
(* stand in their properties, the next one of each at the offset the cache *)
(* has for it; and a property nobody has an event for is deleted, with its *)
(* offset zero, for the next message will stand at its beginning.          *)
(***************************************************************************)
OffsetInStep ==
  \A a \in Atoms :
    /\ \A e \in Announced(a) : Stands(e) /\ (IsFirst(e) => e.at = Offset(a))
    /\ Announced(a) = {} => property[a] = <<>> /\ Offset(a) = 0

(***************************************************************************)
(* The transport is a channel: messages arrive whole, once and in order,   *)
(* whatever is appended to a property between and during two reads.        *)
(***************************************************************************)
Fifo == INSTANCE Channel WITH
  Message   <- {Whole(n, l) : n \in 1..MaxSent, l \in Lengths},
  inTransit <- [j \in DOMAIN events |-> Whole(events[j].n, events[j].length)],
  received  <- handled

TransportIsFifo == Fifo!Spec

\* Every message the client sends is handled in the end.
EveryMessageArrives == \A n \in 1..MaxSent : sent >= n ~> Len(handled) >= n
=============================================================================
