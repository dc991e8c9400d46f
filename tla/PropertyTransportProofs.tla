----------------------- MODULE PropertyTransportProofs -----------------------
(***************************************************************************)
(* Theorems about PropertyTransport for any number of properties, any      *)
(* lengths of messages in words, and any number of messages: the offsets   *)
(* of the cache and the properties stay in step, and the transport         *)
(* implements Channel.  The inductive invariant, Inv, has these parts:     *)
(*   TypeOK     what the state is made of;                                 *)
(*   Numbered   events are the last messages sent, one after the other;    *)
(*   InWords    offsets and properties are whole words of four bytes;      *)
(*   Chained    the messages announced stand in their property one behind  *)
(*              the other, from the offset to the end;                     *)
(*   Answered   what was asked for is the message at the head.             *)
(***************************************************************************)
EXTENDS PropertyTransport, SequenceTheorems, TLAPS

\* Events are numbered up to the last message that was sent, and the first of
\* all is short; it was read when it is missing: then the byte order is known.
Numbered ==
  /\ Len(events) <= sent /\ sent <= MaxSent
  /\ \A j \in DOMAIN events : /\ events[j].n = sent - Len(events) + j
                              /\ events[j].format = 32 => 1 < events[j].n
  /\ byteOrder = "?" => Len(events) = sent

\* Property a and the offset of it that is cached are made of whole words.
InWords == \A a \in Atoms : Len(property[a]) % 4 = 0 /\ LookupPropertyOffset(a) % 4 = 0

\* No message is announced between e and f.
Adjacent(a, e, f) ==
  e.n < f.n /\ \A g \in Announced(a) : g.n <= e.n \/ f.n <= g.n

IsLast(a, e) == \A f \in Announced(a) : f.n <= e.n

\* The messages of a property fill it from the offset on.
ChainOf(a) ==
  /\ \A e \in Announced(a) : Stands(e)
  /\ \A e \in Announced(a) : IsFirst(e) => e.at = Offset(a)
  /\ \A e, f \in Announced(a) : e.n < f.n => e.at + e.length <= f.at
  /\ \A e, f \in Announced(a) : Adjacent(a, e, f) => f.at = e.at + e.length
  /\ \A e \in Announced(a) : IsLast(a, e) => e.at + e.length = Len(property[a])
  /\ Announced(a) = {} => property[a] = <<>> /\ Offset(a) = 0

Chained == \A a \in Atoms : ChainOf(a)

Answered ==
  asked => answer.data = Whole(Head(events).n, Head(events).length)

Inv == TypeOK /\ Numbered /\ InWords /\ Chained /\ Answered

-----------------------------------------------------------------------------
(* Messages and events.                                                    *)

Bytes == Nat \X Nat
Events == EventsOf(Nat \ {0})

LEMMA LengthFacts ==
  ASSUME NEW l \in Lengths PROVE l \in Nat \ {0} /\ l % 4 = 0
BY TransportAssumption

\* Messages one behind the other make whole words.
LEMMA WordsAdd ==
  ASSUME NEW i \in Nat, NEW j \in Nat, i % 4 = 0, j % 4 = 0
  PROVE  (i + j) % 4 = 0 /\ 4 * (i \div 4) = i
OBVIOUS

\* What an event says of its message.
LEMMA EventFacts ==
  ASSUME NEW e \in Events
  PROVE  /\ e.n \in Nat \ {0} /\ e.length \in Lengths /\ e.format \in {8, 32}
         /\ e.atom \in Atoms /\ e.at \in Nat
<1>1. 0 \in Atoms BY TransportAssumption DEF Atoms
<1> QED BY <1>1 DEF Events, EventsOf

\* The events the client writes.
LEMMA WrittenEvents ==
  ASSUME NEW n \in Nat \ {0}, NEW l \in Lengths, NEW a \in Atoms, NEW at \in Nat
  PROVE  /\ Short(n, l) \in Events /\ Short(n, l).n = n /\ Short(n, l).format = 8
         /\ Long(n, l, a, at) \in Events /\ Long(n, l, a, at).n = n
         /\ Long(n, l, a, at).format = 32 /\ Long(n, l, a, at).atom = a
         /\ Long(n, l, a, at).length = l /\ Long(n, l, a, at).at = at
<1>1. Short(n, l) \in [format : {8}, n : Nat \ {0}, length : Lengths, atom : {0}, at : {0}]
  BY DEF Short
<1>2. Long(n, l, a, at) \in
        [format : {32}, n : Nat \ {0}, length : Lengths, atom : Atoms, at : Nat]
  BY DEF Long
<1>3. Short(n, l) \in Events /\ Long(n, l, a, at) \in Events
  BY <1>1, <1>2 DEF Events, EventsOf
<1> QED BY <1>3 DEF Short, Long

LEMMA WholeType ==
  ASSUME NEW n \in Nat, NEW l \in Nat
  PROVE  /\ Whole(n, l) \in Seq(Bytes) /\ Len(Whole(n, l)) = l
         /\ \A k \in 1..l : Whole(n, l)[k] = <<n, k>>
<1>1. Whole(n, l) \in [1..l -> Bytes] BY DEF Whole, Bytes
<1>2. Whole(n, l) \in Seq(Bytes) BY <1>1
<1>3. DOMAIN Whole(n, l) = 1..l BY DEF Whole
<1>4. Len(Whole(n, l)) = l BY <1>2, <1>3, LenProperties
<1> QED BY <1>2, <1>4 DEF Whole

AnnouncedIn(s, a) == {s[j] : j \in {j \in DOMAIN s : s[j].format = 32 /\ s[j].atom = a}}

LEMMA AnnouncedAppend ==
  ASSUME NEW s \in Seq(Events), NEW e \in Events, NEW a
  PROVE  AnnouncedIn(Append(s, e), a) =
           AnnouncedIn(s, a) \cup (IF e.format = 32 /\ e.atom = a THEN {e} ELSE {})
<1>1. /\ DOMAIN s = 1..Len(s) /\ Len(s) \in Nat
      /\ DOMAIN Append(s, e) = 1..(Len(s) + 1)
      /\ \A j \in 1..Len(s) : Append(s, e)[j] = s[j]
      /\ Append(s, e)[Len(s) + 1] = e
  BY AppendProperties, LenProperties
<1> QED BY <1>1 DEF AnnouncedIn

LEMMA AnnouncedTail ==
  ASSUME NEW s \in Seq(Events), s # <<>>, NEW a
  PROVE  AnnouncedIn(s, a) =
           AnnouncedIn(Tail(s), a)
             \cup (IF Head(s).format = 32 /\ Head(s).atom = a THEN {Head(s)} ELSE {})
<1>1. /\ DOMAIN s = 1..Len(s) /\ Len(s) \in Nat \ {0} /\ Head(s) = s[1]
      /\ DOMAIN Tail(s) = 1..(Len(s) - 1)
      /\ \A j \in 1..(Len(s) - 1) : Tail(s)[j] = s[j + 1]
  BY HeadTailProperties, LenProperties, EmptySeq
<1> DEFINE h == IF Head(s).format = 32 /\ Head(s).atom = a THEN {Head(s)} ELSE {}
<1>2. ASSUME NEW e \in AnnouncedIn(s, a) PROVE e \in AnnouncedIn(Tail(s), a) \cup h
  <2>1. PICK j \in 1..Len(s) : e = s[j] /\ s[j].format = 32 /\ s[j].atom = a
    BY <1>1, <1>2 DEF AnnouncedIn
  <2>2. CASE j = 1 BY <1>1, <2>1, <2>2
  <2>3. CASE j # 1
    <3>1. j - 1 \in 1..(Len(s) - 1) /\ Tail(s)[j - 1] = s[j] BY <1>1, <2>1, <2>3
    <3>2. \E i \in DOMAIN Tail(s) : /\ e = Tail(s)[i]
                                    /\ Tail(s)[i].format = 32 /\ Tail(s)[i].atom = a
      BY <1>1, <2>1, <3>1
    <3> QED BY <3>2 DEF AnnouncedIn
  <2> QED BY <2>2, <2>3
<1>3. ASSUME NEW e \in AnnouncedIn(Tail(s), a) PROVE e \in AnnouncedIn(s, a)
  <2>1. PICK j \in 1..(Len(s) - 1) :
          e = Tail(s)[j] /\ Tail(s)[j].format = 32 /\ Tail(s)[j].atom = a
    BY <1>1, <1>3 DEF AnnouncedIn
  <2>2. j + 1 \in 1..Len(s) /\ e = s[j + 1] BY <1>1, <2>1
  <2> QED BY <1>1, <2>1, <2>2 DEF AnnouncedIn
<1>4. ASSUME NEW e \in h PROVE e \in AnnouncedIn(s, a) BY <1>1 DEF AnnouncedIn
<1> QED BY <1>2, <1>3, <1>4

\* What is still to be read has been sent, and is in the hands of one event.
LEMMA RestFacts ==
  ASSUME TypeOK, Numbered
  PROVE  /\ Rest \in Seq(Events)
         /\ \A a : Announced(a) = AnnouncedIn(Rest, a)
         /\ \A a : \A e \in Announced(a) :
              e \in Events /\ e.format = 32 /\ e.atom = a /\ e.n <= sent
         /\ \A a : \A e, f \in Announced(a) : e.n = f.n => e = f
<1>1. events \in Seq(Events) /\ DOMAIN events = 1..Len(events) /\ Len(events) \in Nat
  BY LenProperties DEF TypeOK, Events
<1>2. asked => events # <<>> BY DEF TypeOK
<1>3. Rest \in Seq(Events) BY <1>1, <1>2, HeadTailProperties DEF Rest
<1>4. \A a : Announced(a) = AnnouncedIn(Rest, a) BY DEF Announced, AnnouncedIn
<1>5. PICK d \in {0, 1} : \A j \in DOMAIN Rest : j + d \in DOMAIN events /\ Rest[j] = events[j + d]
  <2>1. CASE asked
    <3>1. DOMAIN Rest = 1..(Len(events) - 1) /\ \A j \in DOMAIN Rest : Rest[j] = events[j + 1]
      BY <1>1, <1>2, <2>1, HeadTailProperties, LenProperties DEF Rest
    <3> QED BY <1>1, <3>1
  <2>2. CASE ~asked BY <1>1, <2>2 DEF Rest
  <2> QED BY <2>1, <2>2
<1>6. ASSUME NEW a, NEW e \in Announced(a)
      PROVE  \E j \in DOMAIN Rest : /\ e = Rest[j] /\ e \in Events /\ e.format = 32 /\ e.atom = a
                                    /\ e.n = sent - Len(events) + j + d /\ e.n <= sent
  <2>1. PICK j \in DOMAIN Rest : e = Rest[j] /\ e.format = 32 /\ e.atom = a
    BY <1>6 DEF Announced
  <2>2. j + d \in DOMAIN events /\ e = events[j + d] BY <1>5, <2>1
  <2>3. j \in Int /\ sent \in Nat BY <1>3, <2>1, LenProperties DEF TypeOK
  <2>4. e.n = sent - Len(events) + (j + d) BY <2>2 DEF Numbered
  <2>5. e \in Events BY <1>1, <2>2
  <2>6. /\ e.n = sent - Len(events) + j + d /\ e.n <= sent
    BY <1>1, <2>2, <2>3, <2>4
  <2> QED BY <2>1, <2>5, <2>6
<1>7. ASSUME NEW a, NEW e \in Announced(a), NEW f \in Announced(a), e.n = f.n PROVE e = f
  <2>1. PICK j \in DOMAIN Rest : e = Rest[j] /\ e.n = sent - Len(events) + j + d BY <1>6
  <2>2. PICK k \in DOMAIN Rest : f = Rest[k] /\ f.n = sent - Len(events) + k + d BY <1>6
  <2>3. j \in Int /\ k \in Int /\ sent \in Nat BY <1>3, LenProperties DEF TypeOK
  <2>4. j = k BY <1>1, <1>7, <2>1, <2>2, <2>3
  <2> QED BY <2>1, <2>2, <2>4
<1> QED BY <1>3, <1>4, <1>6, <1>7

\* A property nothing happens to stays as it is.
LEMMA ChainKept ==
  ASSUME NEW a \in Atoms, TypeOK, Numbered, ChainOf(a),
         Announced(a)' = Announced(a), property'[a] = property[a], Offset(a)' = Offset(a)
  PROVE  ChainOf(a)'
<1>1. \A e \in Announced(a) : e.atom = a BY RestFacts
<1>2. \A e \in Announced(a) : Stands(e) => Stands(e)' BY <1>1 DEF Stands
<1>3. \A e \in Announced(a) : IsFirst(e)' => IsFirst(e) BY <1>1 DEF IsFirst
<1> QED BY <1>2, <1>3 DEF ChainOf, Adjacent, IsLast

-----------------------------------------------------------------------------
(* The client writes.                                                      *)

\* A message behind the others changes nothing for those before it.
LEMMA WriteKeeps ==
  ASSUME Inv, NEW e \in Events, e.n = sent + 1, e.format = 32 => 0 < sent,
         sent < MaxSent, sent' = sent + 1,
         events' = Append(events, e),
         UNCHANGED <<asked, answer, byteOrder, cache, handled>>
  PROVE  /\ Numbered' /\ Answered'
         /\ events' \in Seq(Events) /\ Rest' = Append(Rest, e)
         /\ asked' => events' # <<>> /\ Head(events').format = 32
         /\ \A a : Offset(a)' = Offset(a)
         /\ \A a : Announced(a)' =
              Announced(a) \cup (IF e.format = 32 /\ e.atom = a THEN {e} ELSE {})
<1>1. TypeOK /\ Numbered /\ Answered BY DEF Inv
<1>2. /\ events \in Seq(Events) /\ Len(events) \in Nat /\ DOMAIN events = 1..Len(events)
      /\ sent \in Nat /\ MaxSent \in Nat
  BY <1>1, LenProperties, TransportAssumption DEF TypeOK, Events
<1>3. /\ events' \in Seq(Events) /\ events' # <<>> /\ Len(events') = Len(events) + 1
      /\ \A j \in 1..Len(events) : events'[j] = events[j]
      /\ events'[Len(events) + 1] = e
      /\ DOMAIN events' = 1..(Len(events) + 1)
  BY <1>2, AppendProperties, LenProperties
<1>4. asked => events # <<>> /\ Head(events).format = 32 /\ Head(events') = Head(events)
               /\ Tail(events') = Append(Tail(events), e)
  <2>1. asked => events # <<>> /\ Head(events).format = 32 BY <1>1 DEF TypeOK
  <2> QED BY <1>2, <2>1, HeadTailAppend
<1>5. Rest' = Append(Rest, e) BY <1>4 DEF Rest
<1>6. Numbered'
  <2>0. Len(events) <= sent BY <1>1 DEF Numbered
  <2>1. Len(events') <= sent' /\ sent' <= MaxSent BY <1>2, <1>3, <2>0
  <2>2. ASSUME NEW j \in DOMAIN events'
        PROVE  /\ events'[j].n = sent' - Len(events') + j
               /\ events'[j].format = 32 => 1 < events'[j].n
    <3>1. CASE j \in 1..Len(events)
      <4>1. /\ events'[j].n = sent - Len(events) + j
            /\ events'[j].format = 32 => 1 < events'[j].n
        BY <1>1, <1>2, <1>3, <3>1 DEF Numbered
      <4> QED BY <1>2, <1>3, <3>1, <4>1
    <3>2. CASE j = Len(events) + 1 BY <1>2, <1>3, <3>2
    <3> QED BY <1>2, <1>3, <3>1, <3>2
  <2>3. byteOrder' = "?" => Len(events') = sent' BY <1>1, <1>2, <1>3 DEF Numbered
  <2> QED BY <2>1, <2>2, <2>3 DEF Numbered
<1>7. \A a : Offset(a)' = Offset(a) BY <1>4 DEF Offset, LookupPropertyOffset
<1>8. Answered' BY <1>1, <1>4 DEF Answered
<1>9. ASSUME NEW a
      PROVE  Announced(a)' =
               Announced(a) \cup (IF e.format = 32 /\ e.atom = a THEN {e} ELSE {})
  <2>1. Rest \in Seq(Events) /\ Announced(a) = AnnouncedIn(Rest, a) BY <1>1, RestFacts
  <2>2. Announced(a)' = AnnouncedIn(Rest', a) BY DEF Announced, AnnouncedIn
  <2> QED BY <1>5, <2>1, <2>2, AnnouncedAppend
<1> QED BY <1>3, <1>4, <1>5, <1>6, <1>7, <1>8, <1>9

LEMMA WriteShortInv ==
  ASSUME Inv, NEW l \in Lengths, WriteShort(l) PROVE Inv'
<1>1. TypeOK /\ Numbered /\ InWords /\ Chained BY DEF Inv
<1>2. PICK e \in Events : e = Short(sent + 1, l) /\ e.n = sent + 1 /\ e.format = 8
  <2>1. sent + 1 \in Nat \ {0} /\ 0 \in Atoms
    BY <1>1, TransportAssumption DEF TypeOK, Atoms
  <2> QED BY <2>1, WrittenEvents
<1>3. /\ sent < MaxSent /\ sent' = sent + 1 /\ events' = Append(events, e)
      /\ UNCHANGED <<next, property, asked, answer, byteOrder, cache, handled>>
  BY <1>2 DEF WriteShort
<1>4. /\ Numbered' /\ Answered' /\ events' \in Seq(Events)
      /\ asked' => events' # <<>> /\ Head(events').format = 32
      /\ \A a : Offset(a)' = Offset(a) /\ Announced(a)' = Announced(a)
  <2>1. UNCHANGED <<asked, answer, byteOrder, cache, handled>> BY <1>3
  <2>2. /\ Numbered' /\ Answered' /\ events' \in Seq(Events)
        /\ asked' => events' # <<>> /\ Head(events').format = 32
        /\ \A a : Offset(a)' = Offset(a)
        /\ \A a : Announced(a)' =
             Announced(a) \cup (IF e.format = 32 /\ e.atom = a THEN {e} ELSE {})
    BY <1>2, <1>3, <2>1, WriteKeeps
  <2>3. ~(e.format = 32) BY <1>2
  <2> QED BY <2>2, <2>3
<1>5. TypeOK' BY <1>1, <1>3, <1>4 DEF TypeOK, Events
<1>6. InWords' BY <1>1, <1>3 DEF InWords, LookupPropertyOffset
<1>7. Chained' BY <1>1, <1>3, <1>4, ChainKept DEF Chained
<1> QED BY <1>4, <1>5, <1>6, <1>7 DEF Inv

\* The message stands behind the last one announced, or at the beginning.
LEMMA WriteLongInv ==
  ASSUME Inv, NEW l \in Lengths, WriteLong(l) PROVE Inv'
<1>1. TypeOK /\ Numbered /\ InWords /\ Chained BY DEF Inv
<1>2. PICK p \in Atoms, at \in Nat, n \in Nat \ {0} :
        /\ p = next /\ property \in [Atoms -> Seq(Bytes)] /\ property[p] \in Seq(Bytes)
        /\ at = Len(property[p]) /\ sent \in Nat /\ n = sent + 1
  BY <1>1, LenProperties DEF TypeOK, Bytes
<1>3. PICK e \in Events : /\ e = Long(n, l, p, at) /\ e.n = n /\ e.format = 32
                          /\ e.atom = p /\ e.length = l /\ e.at = at
  BY <1>2, WrittenEvents
<1> DEFINE w == Whole(n, l)
<1>4. /\ 0 < sent /\ sent < MaxSent /\ sent' = sent + 1 /\ events' = Append(events, e)
      /\ next' = (next + 1) % Properties
      /\ property' = [property EXCEPT ![p] = @ \o w]
      /\ UNCHANGED <<asked, answer, byteOrder, cache, handled>>
  BY <1>2, <1>3 DEF WriteLong
<1>5. l \in Nat \ {0} /\ l % 4 = 0 BY LengthFacts
<1>6. w \in Seq(Bytes) /\ Len(w) = l /\ \A k \in 1..l : w[k] = <<n, k>>
  BY <1>2, <1>5, WholeType
<1> HIDE DEF w
<1>7. /\ Numbered' /\ Answered' /\ events' \in Seq(Events)
      /\ asked' => events' # <<>> /\ Head(events').format = 32
      /\ \A a : Offset(a)' = Offset(a)
      /\ \A a : Announced(a)' = Announced(a) \cup (IF a = p THEN {e} ELSE {})
  <2>1. \A a : Announced(a)' =
          Announced(a) \cup (IF e.format = 32 /\ e.atom = a THEN {e} ELSE {})
    BY <1>2, <1>3, <1>4, WriteKeeps
  <2>2. \A a : (e.format = 32 /\ e.atom = a) <=> a = p BY <1>3
  <2> QED BY <1>2, <1>3, <1>4, <2>1, <2>2, WriteKeeps
<1>8. /\ property' \in [Atoms -> Seq(Bytes)] /\ Len(property'[p]) = at + l
      /\ \A k \in 1..at : property'[p][k] = property[p][k]
      /\ \A k \in 1..l : property'[p][at + k] = <<n, k>>
      /\ \A a \in Atoms : a # p => property'[a] = property[a]
  <2>1. /\ property[p] \o w \in Seq(Bytes)
        /\ Len(property[p] \o w) = at + l
        /\ \A k \in 1..(at + l) :
             (property[p] \o w)[k] = IF k <= at THEN property[p][k] ELSE w[k - at]
    <3>1. PICK v \in Seq(Bytes) : v = property[p] /\ at = Len(v) BY <1>2
    <3>2. /\ v \o w \in Seq(Bytes) /\ Len(v \o w) = Len(v) + Len(w)
          /\ \A k \in 1..(Len(v) + Len(w)) :
               (v \o w)[k] = IF k <= Len(v) THEN v[k] ELSE w[k - Len(v)]
      BY ONLY <1>6, ConcatProperties, v \in Seq(Bytes)
    <3> QED BY <1>6, <3>1, <3>2
  <2>2. \A k \in 1..l : (property[p] \o w)[at + k] = <<n, k>>
    <3> TAKE k \in 1..l
    <3>1. at + k \in 1..(at + l) /\ ~(at + k <= at) /\ (at + k) - at = k BY <1>2, <1>5
    <3>2. (property[p] \o w)[at + k] = w[k] BY <2>1, <3>1
    <3> QED BY <1>6, <3>2
  <2>3. property'[p] = property[p] \o w BY <1>2, <1>4
  <2>4. \A k \in 1..at : property'[p][k] = property[p][k]
    BY <1>2, <1>5, <2>1, <2>3
  <2>5. property' \in [Atoms -> Seq(Bytes)] BY <1>2, <1>4, <2>1
  <2> QED BY <1>2, <1>4, <2>1, <2>2, <2>3, <2>4, <2>5
<1>9. next' \in Atoms BY <1>2, <1>4, TransportAssumption DEF Atoms
<1>10. TypeOK' BY <1>1, <1>2, <1>4, <1>7, <1>8, <1>9 DEF TypeOK, Events, Bytes
<1>11. InWords'
  <2>1. (at + l) % 4 = 0
    <3>1. at % 4 = 0 BY <1>1, <1>2 DEF InWords
    <3> QED BY <1>2, <1>5, <3>1, WordsAdd
  <2>2. \A a \in Atoms : LookupPropertyOffset(a)' % 4 = 0
    BY <1>1, <1>4 DEF InWords, LookupPropertyOffset
  <2>3. \A a \in Atoms : Len(property'[a]) % 4 = 0
    <3>1. ASSUME NEW a \in Atoms, a = p PROVE Len(property'[a]) % 4 = 0
      BY <1>8, <2>1, <3>1
    <3>2. ASSUME NEW a \in Atoms, a # p PROVE Len(property'[a]) % 4 = 0
      BY <1>1, <1>8, <3>2 DEF InWords
    <3> QED BY <3>1, <3>2
  <2> QED BY <2>2, <2>3 DEF InWords
<1>12. ASSUME NEW a \in Atoms, a # p PROVE ChainOf(a)'
  BY <1>1, <1>7, <1>8, <1>12, ChainKept DEF Chained
<1>13. ChainOf(p)'
  <2>1. ChainOf(p) BY <1>1, <1>2 DEF Chained
  <2>2. Announced(p)' = Announced(p) \cup {e} BY <1>7
  <2>3. \A f \in Announced(p) : /\ f \in Events /\ f.atom = p /\ f.n <= sent
                                   /\ f.at \in Nat /\ f.length \in Nat \ {0} /\ f.n \in Nat
    BY <1>1, RestFacts, EventFacts, LengthFacts
  <2>4. \A f \in Announced(p) : f.n < e.n BY <1>2, <1>3, <2>3
  <2>5. \A f \in Announced(p) : Stands(f) /\ f.at + f.length <= at
    <3> TAKE f \in Announced(p)
    <3>1. Stands(f) BY <2>1 DEF ChainOf
    <3>2. /\ f.length \in 1..f.length /\ f.at \in Nat /\ f.length \in Nat
          /\ property[f.atom] = property[p]
      BY <2>3
    <3>3. f.at + f.length <= Len(property[f.atom]) BY <3>1, <3>2 DEF Stands
    <3> QED BY <1>2, <3>1, <3>2, <3>3
  <2>6. \A f \in Announced(p)' : Stands(f)'
    <3>1. Stands(e)'
      <4>1. ASSUME NEW k \in 1..l
            PROVE  at + k <= Len(property'[p]) /\ property'[p][at + k] = <<n, k>>
        <5>1. at + k <= at + l BY <1>2, <1>5
        <5> QED BY <1>8, <5>1
      <4> QED BY <1>3, <4>1 DEF Stands
    <3>2. ASSUME NEW f \in Announced(p) PROVE Stands(f)'
      <4>1. \A k \in 1..f.length : f.at + k \in 1..at BY <1>2, <2>3, <2>5
      <4>2. \A k \in 1..f.length : property[p][f.at + k] = <<f.n, k>>
        BY <2>3, <2>5 DEF Stands
      <4>3. ASSUME NEW k \in 1..f.length
            PROVE  /\ f.at + k <= Len(property'[p])
                   /\ property'[p][f.at + k] = <<f.n, k>>
        <5>1. f.at + k \in 1..at BY <4>1
        <5>2. f.at + k <= Len(property'[p]) BY <1>2, <1>5, <1>8, <5>1
        <5> QED BY <1>8, <4>2, <5>1, <5>2
      <4>4. f.atom = p BY <2>3
      <4> QED BY <4>3, <4>4 DEF Stands
    <3> QED BY <2>2, <3>1, <3>2
  <2>7. \A f \in Announced(p)' : IsFirst(f)' => f.at = Offset(p)'
    <3>1. ASSUME NEW f \in Announced(p), IsFirst(f)' PROVE f.at = Offset(p)'
      <4>1. IsFirst(f) BY <2>2, <2>3, <3>1 DEF IsFirst
      <4> QED BY <1>7, <2>1, <4>1 DEF ChainOf
    <3>2. ASSUME IsFirst(e)' PROVE e.at = Offset(p)'
      <4>1. Announced(p) = {}
        <5>1. \A f \in Announced(p) : e.n <= f.n BY <1>3, <2>2, <3>2 DEF IsFirst
        <5> QED BY <1>2, <1>3, <2>3, <2>4, <5>1
      <4>2. property[p] = <<>> /\ Offset(p) = 0 BY <2>1, <4>1 DEF ChainOf
      <4>3. at = 0 BY <1>2, <4>2, EmptySeq
      <4> QED BY <1>3, <1>7, <4>2, <4>3
    <3> QED BY <2>2, <3>1, <3>2
  <2>8. \A f, g \in Announced(p)' : f.n < g.n => f.at + f.length <= g.at
    <3>1. ASSUME NEW f \in Announced(p) PROVE f.at + f.length <= e.at BY <1>3, <2>5
    <3>2. ASSUME NEW f \in Announced(p) PROVE ~(e.n < f.n) BY <1>2, <1>3, <2>3, <2>4
    <3>3. ~(e.n < e.n) BY <1>2, <1>3
    <3>4. \A f, g \in Announced(p) : f.n < g.n => f.at + f.length <= g.at
      BY <2>1 DEF ChainOf
    <3> QED BY <2>2, <3>1, <3>2, <3>3, <3>4
  <2>9. ASSUME NEW f \in Announced(p)', NEW g \in Announced(p)', Adjacent(p, f, g)'
        PROVE  g.at = f.at + f.length
    <3>1. f \in Announced(p)
      BY <1>2, <1>3, <2>2, <2>3, <2>4, <2>9 DEF Adjacent
    <3>2. CASE g \in Announced(p)
      <4>1. Adjacent(p, f, g) BY <2>2, <2>9 DEF Adjacent
      <4> QED BY <2>1, <3>1, <3>2, <4>1 DEF ChainOf
    <3>3. CASE g = e
      <4>1. \A h \in Announced(p) : h.n <= f.n
        BY <1>2, <1>3, <2>2, <2>3, <2>4, <2>9, <3>3 DEF Adjacent
      <4>2. f.at + f.length = at BY <1>2, <2>1, <3>1, <4>1 DEF ChainOf, IsLast
      <4> QED BY <1>3, <3>3, <4>2
    <3> QED BY <2>2, <3>2, <3>3
  <2>10. \A f \in Announced(p)' : IsLast(p, f)' => f.at + f.length = Len(property'[p])
    <3>1. ASSUME NEW f \in Announced(p) PROVE ~IsLast(p, f)'
      <4>1. f.n < e.n /\ f.n \in Nat /\ e.n \in Nat BY <1>2, <1>3, <2>3, <2>4
      <4> QED BY <2>2, <4>1 DEF IsLast
    <3> QED BY <1>3, <1>8, <2>2, <3>1
  <2> QED BY <2>2, <2>6, <2>7, <2>8, <2>9, <2>10 DEF ChainOf
<1> QED BY <1>7, <1>10, <1>11, <1>12, <1>13 DEF Inv, Chained

-----------------------------------------------------------------------------
(* The server reads.                                                       *)

\* The event at the head is that of the first message that was not handled.
LEMMA HeadFacts ==
  ASSUME TypeOK, Numbered, events # <<>>
  PROVE  /\ events \in Seq(Events) /\ Head(events) \in Events
         /\ Head(events).n = sent - Len(events) + 1 /\ Len(events) \in Nat \ {0}
         /\ Head(events).format = 32 => byteOrder = "known"
         /\ \A j \in DOMAIN events : Head(events).n <= events[j].n
         /\ \A j \in DOMAIN Tail(events) : Head(events).n < Tail(events)[j].n
<1>1. /\ events \in Seq(Events) /\ DOMAIN events = 1..Len(events)
      /\ Len(events) \in Nat \ {0} /\ sent \in Nat
  BY LenProperties, EmptySeq DEF TypeOK, Events
<1>2. /\ Head(events) \in Events /\ Head(events) = events[1]
      /\ DOMAIN Tail(events) = 1..(Len(events) - 1)
      /\ \A j \in 1..(Len(events) - 1) : Tail(events)[j] = events[j + 1]
  BY <1>1, HeadTailProperties, LenProperties
<1>3. \A j \in 1..Len(events) : /\ events[j].n = sent - Len(events) + j
                                /\ events[j].format = 32 => 1 < events[j].n
  BY <1>1 DEF Numbered
<1>4. Head(events).n = sent - Len(events) + 1 BY <1>1, <1>2, <1>3
<1>5. ASSUME Head(events).format = 32 PROVE byteOrder = "known"
  <2>1. 1 < sent - Len(events) + 1 BY <1>1, <1>2, <1>3, <1>4, <1>5
  <2>2. ASSUME Len(events) = sent PROVE FALSE
    <3>1. sent \in Int /\ 1 < sent - sent + 1 BY <1>1, <2>1, <2>2
    <3> QED BY <3>1
  <2> QED BY <2>2 DEF Numbered, TypeOK
<1>6. \A j \in DOMAIN events : Head(events).n <= events[j].n BY <1>1, <1>3, <1>4
<1>7. ASSUME NEW j \in DOMAIN Tail(events) PROVE Head(events).n < Tail(events)[j].n
  <2>1. j \in 1..(Len(events) - 1) /\ j + 1 \in 1..Len(events) BY <1>1, <1>2
  <2>2. Tail(events)[j].n = sent - Len(events) + (j + 1) BY <1>2, <1>3, <2>1
  <2> QED BY <1>1, <1>4, <2>1, <2>2
<1> QED BY <1>1, <1>2, <1>4, <1>5, <1>6, <1>7

\* An event is taken off the head, and the byte order is known now.
LEMMA TakenOff ==
  ASSUME TypeOK, Numbered, events # <<>>, events' = Tail(events), sent' = sent,
         byteOrder' = "known"
  PROVE  Numbered' /\ events' \in Seq(Events)
<1>1. /\ events \in Seq(Events) /\ DOMAIN events = 1..Len(events)
      /\ Len(events) \in Nat \ {0} /\ sent \in Nat /\ MaxSent \in Nat
  BY LenProperties, EmptySeq, TransportAssumption DEF TypeOK, Events
<1>2. /\ events' \in Seq(Events) /\ Len(events') = Len(events) - 1
      /\ DOMAIN events' = 1..(Len(events) - 1)
      /\ \A j \in 1..(Len(events) - 1) : events'[j] = events[j + 1]
  BY <1>1, HeadTailProperties, LenProperties
<1>3. \A j \in 1..Len(events) : /\ events[j].n = sent - Len(events) + j
                                /\ events[j].format = 32 => 1 < events[j].n
  BY <1>1 DEF Numbered
<1>4. Len(events) <= sent /\ sent <= MaxSent BY DEF Numbered
<1>5. Len(events') <= sent' /\ sent' <= MaxSent BY <1>1, <1>2, <1>4
<1>6. ASSUME NEW j \in DOMAIN events'
      PROVE  /\ events'[j].n = sent' - Len(events') + j
             /\ events'[j].format = 32 => 1 < events'[j].n
  <2>1. j \in 1..(Len(events) - 1) /\ j + 1 \in 1..Len(events) BY <1>1, <1>2
  <2>2. /\ events'[j].n = sent - Len(events) + (j + 1)
        /\ events'[j].format = 32 => 1 < events'[j].n
    BY <1>2, <1>3, <2>1
  <2> QED BY <1>1, <1>2, <2>1, <2>2
<1> QED BY <1>2, <1>5, <1>6 DEF Numbered

\* A message without property is handed over, and the byte order is known.
LEMMA ReadEventHandles ==
  ASSUME Inv, ReadEvent
  PROVE  /\ events # <<>> /\ events' = Tail(events) /\ byteOrder' = "known"
         /\ Head(events) \in Events /\ events \in Seq(Events)
         /\ handled' = Append(handled, Whole(Head(events).n, Head(events).length))
<1>1. TypeOK /\ Numbered BY DEF Inv
<1>2. events # <<>> /\ events' = Tail(events) BY DEF ReadEvent
<1>3. PICK h \in Events : /\ h = Head(events) /\ h.n = sent - Len(events) + 1
                          /\ events \in Seq(Events) /\ sent \in Nat /\ Len(events) \in Nat
  <2>1. sent \in Nat BY <1>1 DEF TypeOK
  <2> QED BY <1>1, <1>2, <2>1, HeadFacts
<1>4. byteOrder # "?" \/ h.n = 1
  <2>1. byteOrder = "?" => Len(events) = sent BY <1>1 DEF Numbered
  <2> QED BY <1>3, <2>1
<1>5. byteOrder' = "known" /\ handled' = Append(handled, Whole(h.n, h.length))
  BY <1>3, <1>4 DEF ReadEvent
<1> QED BY <1>2, <1>3, <1>5

LEMMA ReadEventInv == ASSUME Inv, ReadEvent PROVE Inv'
<1>1. TypeOK /\ Numbered /\ InWords /\ Chained BY DEF Inv
<1>2. /\ asked = FALSE /\ events # <<>> /\ Head(events).format = 8 /\ events' = Tail(events)
      /\ UNCHANGED <<sent, next, property, asked, answer, cache>>
  BY <1>1 DEF ReadEvent, TypeOK
<1>3. PICK h \in Events : /\ h = Head(events) /\ h.n \in Nat /\ h.length \in Nat
                          /\ events \in Seq(Events)
  BY ReadEventHandles, EventFacts, LengthFacts
<1>5. byteOrder' = "known" /\ handled' = Append(handled, Whole(h.n, h.length))
  BY <1>3, ReadEventHandles
<1>6. Numbered' /\ events' \in Seq(Events) BY <1>1, <1>2, <1>5, TakenOff
<1>7. TypeOK'
  <2>1. Whole(h.n, h.length) \in Seq(Bytes) BY <1>3, WholeType
  <2>2. handled' \in Seq(Seq(Bytes))
    <3>1. handled \in Seq(Seq(Bytes)) BY <1>1 DEF TypeOK, Bytes
    <3> QED BY <1>5, <2>1, <3>1, AppendProperties
  <2> QED BY <1>1, <1>2, <1>5, <1>6, <2>2 DEF TypeOK, Events, Bytes
<1>8. InWords' BY <1>1, <1>2 DEF InWords, LookupPropertyOffset
<1>9. Answered' BY <1>2 DEF Answered
<1>10. ASSUME NEW a \in Atoms PROVE Announced(a)' = Announced(a)
  <2>1. Announced(a) = AnnouncedIn(events, a) BY <1>2 DEF Announced, AnnouncedIn, Rest
  <2>2. Announced(a)' = AnnouncedIn(Tail(events), a)
    BY <1>2 DEF Announced, AnnouncedIn, Rest
  <2>3. ~(Head(events).format = 32) BY <1>2
  <2>4. AnnouncedIn(events, a) =
          AnnouncedIn(Tail(events), a)
            \cup (IF Head(events).format = 32 /\ Head(events).atom = a
                  THEN {Head(events)} ELSE {})
    BY <1>2, <1>3, AnnouncedTail
  <2> QED BY <2>1, <2>2, <2>3, <2>4
<1>11. \A a \in Atoms : Offset(a)' = Offset(a) BY <1>2 DEF Offset, LookupPropertyOffset
<1>12. Chained' BY <1>1, <1>2, <1>10, <1>11, ChainKept DEF Chained
<1> QED BY <1>6, <1>7, <1>8, <1>9, <1>12 DEF Inv

\* The words that are asked for, when the bytes wanted are whole words.
LEMMA WordsFacts ==
  ASSUME NEW bytes \in Seq(Bytes), NEW o \in Nat, NEW l \in Nat, o % 4 = 0, l % 4 = 0,
         o + l <= Len(bytes)
  PROVE  Words(bytes, o \div 4, ((o + l + 3) \div 4) - (o \div 4)) =
           [data |-> SubSeq(bytes, o + 1, o + l), after |-> Len(bytes) - (o + l)]
<1>1. Len(bytes) \in Nat BY LenProperties
<1>2. PICK b \in Nat : b = o \div 4 /\ 4 * b = o
  <2>1. o \div 4 \in Nat /\ 4 * (o \div 4) = o OBVIOUS
  <2> QED BY <2>1
<1>3. PICK c \in Nat : c = (o + l + 3) \div 4 /\ 4 * c = o + l
  <2>1. (o + l) % 4 = 0 BY WordsAdd
  <2>2. (o + l + 3) \div 4 \in Nat /\ 4 * ((o + l + 3) \div 4) = o + l BY <2>1
  <2> QED BY <2>2
<1>4. 4 * (b + (c - b)) = o + l BY <1>2, <1>3
<1>5. (IF o + l < Len(bytes) THEN o + l ELSE Len(bytes)) = o + l BY <1>1
<1> QED BY <1>2, <1>3, <1>4, <1>5 DEF Words

LEMMA AskPropertyInv == ASSUME Inv, AskProperty PROVE Inv'
<1>1. TypeOK /\ Numbered /\ InWords /\ Chained BY DEF Inv
<1>2. /\ ~asked /\ events # <<>> /\ Head(events).format = 32 /\ asked'
      /\ UNCHANGED <<sent, next, events, byteOrder, cache, handled>>
  BY DEF AskProperty
<1>3. PICK h \in Events, p \in Atoms, l \in Lengths, n \in Nat, o \in Nat :
        /\ h = Head(events) /\ h.atom = p /\ h.length = l /\ h.n = n
        /\ o = LookupPropertyOffset(p) /\ h.format = 32
  <2>1. Head(events) \in Events BY <1>1, <1>2, HeadFacts
  <2>2. /\ Head(events).atom \in Atoms /\ Head(events).length \in Lengths
        /\ Head(events).n \in Nat
    BY <2>1, EventFacts
  <2>3. LookupPropertyOffset(Head(events).atom) \in Nat
    BY <1>1 DEF TypeOK, LookupPropertyOffset
  <2> QED BY <1>2, <2>1, <2>2, <2>3
<1>4. l \in Nat \ {0} /\ l % 4 = 0 BY LengthFacts
<1>5. PICK bytes \in Seq(Bytes) : bytes = property[p] /\ Len(bytes) \in Nat
  BY <1>1, LenProperties DEF TypeOK, Bytes
<1>6. o % 4 = 0 /\ Len(bytes) % 4 = 0 BY <1>1, <1>3, <1>5 DEF InWords
<1>7. events \in Seq(Events) /\ Rest = events BY <1>1, <1>2, HeadFacts DEF Rest
<1>8. h \in Announced(p) /\ \A e \in Announced(p) : n <= e.n
  <2>1. Head(events) = events[1] /\ 1 \in DOMAIN events
    BY <1>2, <1>7, EmptySeq, LenProperties
  <2>2. \A j \in DOMAIN events : n <= events[j].n BY <1>1, <1>2, <1>3, HeadFacts
  <2> QED BY <1>3, <1>7, <2>1, <2>2 DEF Announced
<1>9. ChainOf(p) /\ IsFirst(h) BY <1>1, <1>3, <1>8 DEF Chained, IsFirst
<1>10. h.at = o /\ Offset(p) = o BY <1>2, <1>3, <1>8, <1>9 DEF ChainOf, Offset
<1>11. Stands(h) BY <1>8, <1>9 DEF ChainOf
<1>12. /\ \A k \in 1..l : bytes[o + k] = <<n, k>>
       /\ o + l <= Len(bytes)
  <2>1. \A k \in 1..l : o + k <= Len(bytes) /\ bytes[o + k] = <<n, k>>
    BY <1>3, <1>5, <1>10, <1>11 DEF Stands
  <2>2. l \in 1..l BY <1>4
  <2> QED BY <2>1, <2>2
<1>13. SubSeq(bytes, o + 1, o + l) \in Seq(Bytes)
       /\ SubSeq(bytes, o + 1, o + l) = Whole(n, l)
  <2> DEFINE d == SubSeq(bytes, o + 1, o + l)
  <2>1. \A i \in (o + 1)..(o + l) : bytes[i] \in Bytes
    <3> TAKE i \in (o + 1)..(o + l)
    <3>1. i \in 1..Len(bytes) BY <1>4, <1>5, <1>12
    <3> QED BY <3>1, ElementOfSeq
  <2>2. o + 1 \in Int /\ o + l \in Int /\ o + 1 <= o + l /\ (o + l) - (o + 1) + 1 = l
    BY <1>4
  <2>3. /\ d \in Seq(Bytes) /\ Len(d) = l
        /\ \A i \in 1..l : d[i] = bytes[(o + 1) + i - 1]
    BY <2>1, <2>2, SubSeqProperties
  <2>4. \A i \in 1..l : d[i] = <<n, i>>
    <3> TAKE i \in 1..l
    <3>1. (o + 1) + i - 1 = o + i BY <1>4
    <3> QED BY <1>12, <2>3, <3>1
  <2>5. /\ Whole(n, l) \in Seq(Bytes) /\ Len(Whole(n, l)) = l
        /\ \A i \in 1..l : Whole(n, l)[i] = <<n, i>>
    BY <1>4, WholeType
  <2> HIDE DEF d
  <2>6. d = Whole(n, l) BY <2>3, <2>4, <2>5, SeqEqual
  <2> QED BY <2>3, <2>6 DEF d
<1>14. PICK after \in Nat :
         /\ after = Len(bytes) - (o + l)
         /\ answer' = [data |-> Whole(n, l), after |-> after]
         /\ property' = [property EXCEPT ![p] = IF after = 0 THEN <<>> ELSE @]
  <2>1. answer' = Words(property[p], o \div 4, ((o + l + 3) \div 4) - (o \div 4))
    BY <1>3 DEF AskProperty, AskedFor
  <2>2. answer' = [data |-> Whole(n, l), after |-> Len(bytes) - (o + l)]
    <3>1. o + l <= Len(bytes) /\ l \in Nat BY <1>4, <1>12
    <3>2. Words(bytes, o \div 4, ((o + l + 3) \div 4) - (o \div 4)) =
            [data |-> SubSeq(bytes, o + 1, o + l), after |-> Len(bytes) - (o + l)]
      BY <1>4, <1>6, <3>1, WordsFacts
    <3> QED BY <1>5, <1>13, <2>1, <3>2
  <2>3. property' = [property EXCEPT ![p] = IF answer'.after = 0 THEN <<>> ELSE @]
    BY <1>3 DEF AskProperty
  <2>4. Len(bytes) - (o + l) \in Nat BY <1>4, <1>5, <1>12
  <2> QED BY <2>2, <2>3, <2>4
<1>15. Numbered' BY <1>1, <1>2 DEF Numbered
<1>16. /\ property' \in [Atoms -> Seq(Bytes)]
       /\ property'[p] = IF after = 0 THEN <<>> ELSE property[p]
       /\ \A a \in Atoms : a # p => property'[a] = property[a]
  <2>1. property \in [Atoms -> Seq(Bytes)] BY <1>1 DEF TypeOK, Bytes
  <2>2. <<>> \in Seq(Bytes) OBVIOUS
  <2> QED BY <1>14, <2>1, <2>2
<1>17. TypeOK'
  <2>1. answer' \in [data : Seq(Bytes), after : Nat] BY <1>13, <1>14
  <2> QED BY <1>1, <1>2, <1>16, <2>1 DEF TypeOK, Bytes
<1>18. InWords'
  <2>1. Len(property'[p]) % 4 = 0
    <3>1. Len(<<>>) = 0 BY EmptySeq
    <3>2. CASE after = 0
      <4>1. Len(property'[p]) = 0 BY <1>16, <3>1, <3>2
      <4> QED BY <4>1
    <3>3. CASE after # 0
      <4>1. Len(property'[p]) = Len(bytes) BY <1>5, <1>16, <3>3
      <4> QED BY <1>6, <4>1
    <3> QED BY <3>2, <3>3
  <2>2. ASSUME NEW a \in Atoms PROVE Len(property'[a]) % 4 = 0
    <3>1. CASE a = p BY <2>1, <3>1
    <3>2. CASE a # p BY <1>1, <1>16, <3>2 DEF InWords
    <3> QED BY <3>1, <3>2
  <2> QED BY <1>1, <1>2, <2>2 DEF InWords, LookupPropertyOffset
<1>19. Answered' BY <1>2, <1>3, <1>14 DEF Answered
<1>20. \A a : /\ Announced(a) = AnnouncedIn(events, a)
              /\ Announced(a)' = AnnouncedIn(Tail(events), a)
  BY <1>2 DEF Announced, AnnouncedIn, Rest
<1>21. ASSUME NEW a PROVE Announced(a) = Announced(a)' \cup (IF a = p THEN {h} ELSE {})
  <2>1. AnnouncedIn(events, a) =
          AnnouncedIn(Tail(events), a)
            \cup (IF Head(events).format = 32 /\ Head(events).atom = a
                  THEN {Head(events)} ELSE {})
    BY <1>2, <1>7, AnnouncedTail
  <2>2. (Head(events).format = 32 /\ Head(events).atom = a) <=> a = p BY <1>3
  <2> QED BY <1>3, <1>20, <2>1, <2>2
<1>22. ASSUME NEW a \in Atoms, a # p PROVE ChainOf(a)'
  <2>1. Announced(a)' = Announced(a) BY <1>21, <1>22
  <2>2. Offset(a)' = Offset(a) BY <1>2, <1>3, <1>22 DEF Offset, LookupPropertyOffset
  <2> QED BY <1>1, <1>16, <1>22, <2>1, <2>2, ChainKept DEF Chained
<1>23. /\ Announced(p) = Announced(p)' \cup {h}
       /\ \A e \in Announced(p)' : n < e.n /\ h.at + l <= e.at
  <2>1. Announced(p) = Announced(p)' \cup {h} BY <1>21
  <2>2. \A e \in Announced(p)' : n < e.n
    <3>1. \A j \in DOMAIN Tail(events) : n < Tail(events)[j].n BY <1>1, <1>2, <1>3, HeadFacts
    <3> QED BY <1>20, <3>1 DEF AnnouncedIn
  <2>3. \A e \in Announced(p)' : h.at + l <= e.at BY <1>3, <1>9, <2>1, <2>2 DEF ChainOf
  <2> QED BY <2>1, <2>2, <2>3
<1>24. \A e \in Announced(p) : /\ e \in Events /\ e.atom = p /\ e.at \in Nat /\ e.n \in Nat
                               /\ e.length \in Nat \ {0}
  BY <1>1, RestFacts, EventFacts, LengthFacts
<1>25. CASE after = 0
  <2>1. o + l = Len(bytes) BY <1>4, <1>5, <1>14, <1>25
  <2>2. Announced(p)' = {}
    <3>1. SUFFICES ASSUME NEW e \in Announced(p)' PROVE FALSE OBVIOUS
    <3>2. e \in Announced(p) /\ Stands(e) BY <1>9, <1>23 DEF ChainOf
    <3>3. 1 \in 1..e.length /\ e.at \in Nat /\ e.atom = p BY <1>24, <3>2
    <3>4. e.at + 1 <= Len(bytes) BY <1>5, <3>2, <3>3 DEF Stands
    <3> QED BY <1>4, <1>5, <1>10, <1>23, <2>1, <3>3, <3>4
  <2>3. property'[p] = <<>> BY <1>16, <1>25
  <2>4. Offset(p)' = 0
    <3>1. answer'.after = 0 BY <1>14, <1>25
    <3> QED BY <1>2, <1>3, <1>25, <3>1 DEF Offset
  <2>5. ChainOf(p)' BY <2>2, <2>3, <2>4 DEF ChainOf
  <2> QED BY <1>15, <1>17, <1>18, <1>19, <1>22, <2>5 DEF Inv, Chained
<1>26. CASE after # 0
  <2>1. property'[p] = property[p] BY <1>16, <1>26
  <2>2. Offset(p)' = o + l
    <3>1. answer'.after > 0 BY <1>14, <1>26
    <3> QED BY <1>2, <1>3, <3>1 DEF Offset, LookupPropertyOffset
  <2>3. Announced(p)' # {}
    <3>1. SUFFICES ASSUME Announced(p)' = {} PROVE FALSE OBVIOUS
    <3>2. IsLast(p, h)
      <4>1. n <= n OBVIOUS
      <4> QED BY <1>3, <1>23, <3>1, <4>1 DEF IsLast
    <3>3. o + l = Len(bytes) BY <1>3, <1>5, <1>8, <1>9, <1>10, <3>2 DEF ChainOf
    <3> QED BY <1>4, <1>5, <1>14, <1>26, <3>3
  <2>4. \A e \in Announced(p)' : Stands(e)'
    <3> TAKE e \in Announced(p)'
    <3>1. Stands(e) /\ e.atom = p BY <1>9, <1>23, <1>24 DEF ChainOf
    <3> QED BY <2>1, <3>1 DEF Stands
  <2>5. ASSUME NEW e \in Announced(p)', IsFirst(e)' PROVE e.at = Offset(p)'
    <3>1. e \in Announced(p) /\ e.atom = p /\ n < e.n BY <1>23, <1>24
    <3>2. \A g \in Announced(p)' : e.n <= g.n BY <2>5, <3>1 DEF IsFirst
    <3>3. Adjacent(p, h, e)
      <4>1. n <= n OBVIOUS
      <4> QED BY <1>3, <1>23, <3>1, <3>2, <4>1 DEF Adjacent
    <3> QED BY <1>3, <1>8, <1>9, <1>10, <2>2, <3>1, <3>3 DEF ChainOf
  <2>6. \A e, f \in Announced(p)' : e.n < f.n => e.at + e.length <= f.at
    BY <1>9, <1>23 DEF ChainOf
  <2>7. ASSUME NEW e \in Announced(p)', NEW f \in Announced(p)', Adjacent(p, e, f)'
        PROVE  f.at = e.at + e.length
    <3>1. n <= e.n BY <1>8, <1>23
    <3>2. Adjacent(p, e, f) BY <1>3, <1>23, <2>7, <3>1 DEF Adjacent
    <3> QED BY <1>9, <1>23, <3>2 DEF ChainOf
  <2>8. ASSUME NEW e \in Announced(p)', IsLast(p, e)'
        PROVE  e.at + e.length = Len(property'[p])
    <3>1. n <= e.n BY <1>8, <1>23
    <3>2. IsLast(p, e) BY <1>3, <1>23, <2>8, <3>1 DEF IsLast
    <3> QED BY <1>9, <1>23, <2>1, <3>2 DEF ChainOf
  <2>9. ChainOf(p)' BY <2>3, <2>4, <2>5, <2>6, <2>7, <2>8 DEF ChainOf
  <2> QED BY <1>15, <1>17, <1>18, <1>19, <1>22, <2>9 DEF Inv, Chained
<1> QED BY <1>25, <1>26

\* The message at the head is handed over whole.
LEMMA ReadPropertyHandles ==
  ASSUME Inv, ReadProperty
  PROVE  /\ answer.data # <<>> /\ Head(events) \in Events /\ events # <<>>
         /\ handled' = Append(handled, Whole(Head(events).n, Head(events).length))
<1>1. TypeOK /\ Numbered /\ InWords /\ Answered BY DEF Inv
<1>2. asked /\ events # <<>> /\ Head(events).format = 32 BY <1>1 DEF ReadProperty, TypeOK
<1>3. PICK h \in Events, p \in Atoms, l \in Nat \ {0}, n \in Nat, o \in Nat :
        /\ h = Head(events) /\ h.atom = p /\ h.length = l /\ h.n = n
        /\ o = LookupPropertyOffset(p) /\ o % 4 = 0
  <2>1. Head(events) \in Events BY <1>1, <1>2, HeadFacts
  <2>2. /\ Head(events).atom \in Atoms /\ Head(events).length \in Nat \ {0}
        /\ Head(events).n \in Nat
    BY <2>1, EventFacts, LengthFacts
  <2>3. /\ LookupPropertyOffset(Head(events).atom) \in Nat
        /\ LookupPropertyOffset(Head(events).atom) % 4 = 0
    BY <1>1, <2>2 DEF TypeOK, LookupPropertyOffset, InWords
  <2> QED BY <2>1, <2>2, <2>3
<1>4. /\ answer.data = Whole(n, l) /\ Whole(n, l) \in Seq(Bytes)
      /\ Len(Whole(n, l)) = l
      /\ DOMAIN Whole(n, l) = 1..l
  BY <1>1, <1>2, <1>3, WholeType DEF Answered, Whole
<1>5. answer.data # <<>> BY <1>3, <1>4, EmptySeq
<1>6. Copied(o, l) = Whole(n, l)
  <2>1. \A k \in 1..l : k + (o % 4) = k BY <1>3
  <2>2. Copied(o, l) = [k \in 1..l |-> Whole(n, l)[k]] BY <1>4, <2>1 DEF Copied
  <2> QED BY <2>2 DEF Whole
<1>7. handled' = Append(handled, Copied(o, l)) BY <1>3, <1>5 DEF ReadProperty
<1> QED BY <1>2, <1>3, <1>5, <1>6, <1>7

LEMMA ReadPropertyInv == ASSUME Inv, ReadProperty PROVE Inv'
<1>1. TypeOK /\ Numbered /\ InWords /\ Chained BY DEF Inv
<1>2. /\ answer.data # <<>> /\ Head(events) \in Events /\ events # <<>>
      /\ handled' = Append(handled, Whole(Head(events).n, Head(events).length))
  BY ReadPropertyHandles
<1>3. /\ asked /\ asked' = FALSE /\ answer' = NoAnswer /\ events' = Tail(events)
      /\ UNCHANGED <<sent, next, property, byteOrder>> /\ Head(events).format = 32
  BY <1>1 DEF ReadProperty, TypeOK
<1>4. PICK h \in Events, p \in Atoms, l \in Nat \ {0}, n \in Nat, o \in Nat, c \in Nat :
        /\ h = Head(events) /\ h.atom = p /\ h.length = l /\ h.n = n
        /\ o = LookupPropertyOffset(p) /\ c = Offset(p) /\ c % 4 = 0
        /\ SetPropertyOffset(p, c)
  <2>1. /\ Head(events).atom \in Atoms /\ Head(events).length \in Nat \ {0}
        /\ Head(events).length % 4 = 0 /\ Head(events).n \in Nat
    BY <1>2, EventFacts, LengthFacts
  <2>2. PICK p \in Atoms, l \in Nat \ {0}, o \in Nat, after \in Nat :
          /\ p = Head(events).atom /\ l = Head(events).length
          /\ o = LookupPropertyOffset(p) /\ after = answer.after
    BY <1>1, <2>1 DEF TypeOK, LookupPropertyOffset
  <2>3. Offset(p) = IF after > 0 THEN o + l ELSE 0 BY <1>3, <2>2 DEF Offset
  <2>4. o % 4 = 0 /\ l % 4 = 0 BY <1>1, <2>1, <2>2 DEF InWords
  <2>5. (o + l) % 4 = 0 BY <2>4, WordsAdd
  <2>6. Offset(p) \in Nat /\ Offset(p) % 4 = 0 BY <2>3, <2>5
  <2>7. SetPropertyOffset(p, Offset(p)) BY <1>2, <2>2, <2>3 DEF ReadProperty
  <2> QED BY <1>2, <2>1, <2>2, <2>6, <2>7
<1>5. Numbered' /\ events' \in Seq(Events)
  <2>1. byteOrder' = "known" BY <1>1, <1>2, <1>3, HeadFacts
  <2> QED BY <1>1, <1>2, <1>3, <2>1, TakenOff
<1>6. /\ DOMAIN cache' = DOMAIN cache \cup {p}
      /\ \A a \in DOMAIN cache' : cache'[a] = IF a = p THEN c ELSE cache[a]
  BY <1>4 DEF SetPropertyOffset
<1>7. TypeOK'
  <2>1. Whole(n, l) \in Seq(Bytes) BY <1>4, WholeType
  <2>2. handled' \in Seq(Seq(Bytes))
    <3>1. handled \in Seq(Seq(Bytes)) BY <1>1 DEF TypeOK, Bytes
    <3> QED BY <1>2, <1>4, <2>1, <3>1, AppendProperties
  <2>3. answer' \in [data : Seq(Bytes), after : Nat]
    <3>1. <<>> \in Seq(Bytes) OBVIOUS
    <3> QED BY <1>3, <3>1 DEF NoAnswer
  <2>4. DOMAIN cache' \subseteq Atoms /\ \A a \in DOMAIN cache' : cache'[a] \in Nat
    BY <1>1, <1>4, <1>6 DEF TypeOK
  <2> QED BY <1>1, <1>3, <1>5, <2>2, <2>3, <2>4 DEF TypeOK, Events, Bytes
<1>8. ASSUME NEW a \in Atoms
      PROVE  LookupPropertyOffset(a)' = IF a = p THEN c ELSE LookupPropertyOffset(a)
  BY <1>6 DEF LookupPropertyOffset
<1>9. InWords' BY <1>1, <1>3, <1>4, <1>8 DEF InWords
<1>10. Answered' BY <1>3 DEF Answered
<1>11. ASSUME NEW a \in Atoms PROVE Announced(a)' = Announced(a)
  BY <1>3 DEF Announced, Rest
<1>12. ASSUME NEW a \in Atoms PROVE Offset(a)' = Offset(a)
  <2>1. Offset(a)' = LookupPropertyOffset(a)' BY <1>3 DEF Offset
  <2>2. CASE a = p BY <1>4, <1>8, <2>1, <2>2
  <2>3. CASE a # p BY <1>4, <1>8, <2>1, <2>3 DEF Offset
  <2> QED BY <2>2, <2>3
<1>13. Chained' BY <1>1, <1>3, <1>11, <1>12, ChainKept DEF Chained
<1> QED BY <1>5, <1>7, <1>9, <1>10, <1>13 DEF Inv

-----------------------------------------------------------------------------
(* The invariant, and what follows from it.                                *)

LEMMA InitInv == ASSUME Init PROVE Inv
<1>1. TypeOK
  <2>1. /\ 0 \in Atoms /\ events \in Seq(Events) /\ handled \in Seq(Seq(Bytes))
        /\ <<>> \in Seq(Bytes)
    BY TransportAssumption DEF Init, Atoms
  <2>2. answer \in [data : Seq(Bytes), after : Nat] BY <2>1 DEF Init, NoAnswer
  <2>3. property \in [Atoms -> Seq(Bytes)] BY <2>1 DEF Init
  <2> QED BY <2>1, <2>2, <2>3 DEF Init, TypeOK, Events, Bytes
<1>2. Len(events) = 0 /\ DOMAIN events = {} /\ sent = 0
  <2>1. Len(<<>>) = 0 /\ DOMAIN <<>> = {} BY EmptySeq
  <2> QED BY <2>1 DEF Init
<1>3. Numbered BY <1>2, TransportAssumption DEF Numbered
<1>4. \A a \in Atoms : property[a] = <<>> /\ LookupPropertyOffset(a) = 0
  BY DEF Init, LookupPropertyOffset
<1>5. InWords
  <2>1. \A a \in Atoms : Len(property[a]) = 0 BY <1>4, EmptySeq
  <2>2. 0 % 4 = 0 OBVIOUS
  <2>3. \A a \in Atoms : Len(property[a]) % 4 = 0 BY <2>1, <2>2
  <2>4. \A a \in Atoms : LookupPropertyOffset(a) % 4 = 0 BY <1>4, <2>2
  <2> QED BY <2>3, <2>4 DEF InWords
<1>6. Answered BY DEF Init, Answered
<1>7. \A a \in Atoms : Announced(a) = {} /\ Offset(a) = 0
  BY <1>2, <1>4 DEF Init, Announced, Rest, Offset
<1>8. Chained BY <1>4, <1>7 DEF Chained, ChainOf
<1> QED BY <1>1, <1>3, <1>5, <1>6, <1>8 DEF Inv

LEMMA NextInv == ASSUME Inv, [Next]_vars PROVE Inv'
<1>1. ASSUME NEW l \in Lengths, WriteShort(l) PROVE Inv' BY <1>1, WriteShortInv
<1>2. ASSUME NEW l \in Lengths, WriteLong(l) PROVE Inv' BY <1>2, WriteLongInv
<1>3. CASE ReadEvent BY <1>3, ReadEventInv
<1>4. CASE AskProperty BY <1>4, AskPropertyInv
<1>5. CASE ReadProperty BY <1>5, ReadPropertyInv
<1>6. CASE UNCHANGED vars
  <2>1. UNCHANGED <<sent, next, events, property, asked, answer, byteOrder, cache, handled>>
    BY <1>6 DEF vars
  <2>2. TypeOK' BY <2>1 DEF Inv, TypeOK
  <2>3. Numbered' BY <2>1 DEF Inv, Numbered
  <2>4. InWords' BY <2>1 DEF Inv, InWords, LookupPropertyOffset
  <2>5. Answered' BY <2>1 DEF Inv, Answered
  <2>6. \A a : Announced(a)' = Announced(a) /\ Offset(a)' = Offset(a)
    BY <2>1 DEF Announced, Rest, Offset, LookupPropertyOffset
  <2>7. Chained' BY <2>1, <2>6, ChainKept DEF Inv, Chained
  <2> QED BY <2>2, <2>3, <2>4, <2>5, <2>7 DEF Inv
<1> QED BY <1>1, <1>2, <1>3, <1>4, <1>5, <1>6 DEF Next, ReadXIMMessage

\* The invariant holds, whatever is written between and during two reads.
THEOREM SpecInv == Spec => []Inv
<1>1. Init => Inv BY InitInv
<1>2. Inv /\ [Next]_vars => Inv' BY NextInv
<1> QED BY <1>1, <1>2, PTL DEF Spec

\* What the state of the transport is made of.
THEOREM TransportTypeCorrect == Spec => []TypeOK
<1>1. Inv => TypeOK BY DEF Inv
<1> QED BY <1>1, SpecInv, PTL

\* The offset the cache has for a property is where the next message announced
\* for it stands, and a property nobody announced is deleted, with offset zero.
THEOREM OffsetsInStep == Spec => []OffsetInStep
<1>1. Inv => OffsetInStep BY DEF Inv, Chained, ChainOf, OffsetInStep
<1> QED BY <1>1, SpecInv, PTL

-----------------------------------------------------------------------------
(* The transport implements Channel: what is in transit are the messages   *)
(* of the events that were not taken off.                                  *)

Transit(s) == [j \in DOMAIN s |-> Whole(s[j].n, s[j].length)]

LEMMA TransitType ==
  ASSUME NEW s \in Seq(Events)
  PROVE  Transit(s) \in Seq(Seq(Bytes)) /\ Len(Transit(s)) = Len(s)
<1>1. Len(s) \in Nat /\ DOMAIN s = 1..Len(s) BY LenProperties
<1>2. ASSUME NEW j \in 1..Len(s) PROVE Whole(s[j].n, s[j].length) \in Seq(Bytes)
  <2>1. s[j] \in Events BY <1>2, ElementOfSeq
  <2>2. s[j].n \in Nat /\ s[j].length \in Nat BY <2>1, EventFacts, LengthFacts
  <2> QED BY <2>2, WholeType
<1>3. Transit(s) \in [1..Len(s) -> Seq(Bytes)] BY <1>1, <1>2 DEF Transit
<1>4. Transit(s) \in Seq(Seq(Bytes)) BY <1>1, <1>3
<1>5. DOMAIN Transit(s) = 1..Len(s) BY <1>1 DEF Transit
<1> QED BY <1>1, <1>4, <1>5, LenProperties

LEMMA TransitAppend ==
  ASSUME NEW s \in Seq(Events), NEW e \in Events
  PROVE  Transit(Append(s, e)) = Append(Transit(s), Whole(e.n, e.length))
<1>1. /\ Len(s) \in Nat /\ DOMAIN s = 1..Len(s) /\ Append(s, e) \in Seq(Events)
      /\ Len(Append(s, e)) = Len(s) + 1 /\ DOMAIN Append(s, e) = 1..(Len(s) + 1)
      /\ \A j \in 1..Len(s) : Append(s, e)[j] = s[j]
      /\ Append(s, e)[Len(s) + 1] = e
  BY AppendProperties, LenProperties
<1>2. /\ Transit(s) \in Seq(Seq(Bytes)) /\ Len(Transit(s)) = Len(s)
      /\ Transit(Append(s, e)) \in Seq(Seq(Bytes))
      /\ Len(Transit(Append(s, e))) = Len(s) + 1
  BY <1>1, TransitType
<1>3. PICK w \in Seq(Bytes) : w = Whole(e.n, e.length)
  <2>1. e.n \in Nat /\ e.length \in Nat BY EventFacts, LengthFacts
  <2> QED BY <2>1, WholeType
<1>4. /\ Append(Transit(s), w) \in Seq(Seq(Bytes))
      /\ Len(Append(Transit(s), w)) = Len(s) + 1
      /\ \A j \in 1..Len(s) : Append(Transit(s), w)[j] = Transit(s)[j]
      /\ Append(Transit(s), w)[Len(s) + 1] = w
  BY <1>1, <1>2, AppendProperties
<1>5. ASSUME NEW j \in 1..(Len(s) + 1)
      PROVE  Transit(Append(s, e))[j] = Append(Transit(s), w)[j]
  <2>1. CASE j \in 1..Len(s)
    <3>1. Transit(Append(s, e))[j] = Whole(s[j].n, s[j].length) BY <1>1, <2>1 DEF Transit
    <3>2. Transit(s)[j] = Whole(s[j].n, s[j].length) BY <1>1, <2>1 DEF Transit
    <3> QED BY <1>4, <2>1, <3>1, <3>2
  <2>2. CASE j = Len(s) + 1
    <3>1. Transit(Append(s, e))[j] = w BY <1>1, <1>3, <2>2 DEF Transit
    <3> QED BY <1>4, <2>2, <3>1
  <2>3. j \in 1..Len(s) \/ j = Len(s) + 1
    <3>1. Len(s) \in Nat BY <1>1
    <3> QED BY <3>1
  <2> QED BY <2>1, <2>2, <2>3
<1>6. Transit(Append(s, e)) = Append(Transit(s), w)
  BY <1>2, <1>4, <1>5, SeqEqual
<1> QED BY <1>3, <1>6

LEMMA TransitTail ==
  ASSUME NEW s \in Seq(Events), s # <<>>
  PROVE  /\ Transit(s) # <<>> /\ Tail(Transit(s)) = Transit(Tail(s))
         /\ Head(Transit(s)) = Whole(Head(s).n, Head(s).length)
<1>1. /\ Len(s) \in Nat \ {0} /\ DOMAIN s = 1..Len(s) /\ Head(s) = s[1]
      /\ Tail(s) \in Seq(Events) /\ Len(Tail(s)) = Len(s) - 1
      /\ DOMAIN Tail(s) = 1..(Len(s) - 1)
      /\ \A j \in 1..(Len(s) - 1) : Tail(s)[j] = s[j + 1]
  BY HeadTailProperties, LenProperties, EmptySeq
<1>2. /\ Transit(s) \in Seq(Seq(Bytes)) /\ Len(Transit(s)) = Len(s)
      /\ Transit(Tail(s)) \in Seq(Seq(Bytes)) /\ Len(Transit(Tail(s))) = Len(s) - 1
  BY <1>1, TransitType
<1>3. Transit(s) # <<>> BY <1>1, <1>2, EmptySeq
<1>4. /\ Tail(Transit(s)) \in Seq(Seq(Bytes)) /\ Len(Tail(Transit(s))) = Len(s) - 1
      /\ \A j \in 1..(Len(s) - 1) : Tail(Transit(s))[j] = Transit(s)[j + 1]
  BY <1>2, <1>3, HeadTailProperties
<1>5. ASSUME NEW j \in 1..(Len(s) - 1) PROVE Tail(Transit(s))[j] = Transit(Tail(s))[j]
  <2>1. j + 1 \in 1..Len(s) BY <1>1
  <2>2. Transit(s)[j + 1] = Whole(s[j + 1].n, s[j + 1].length) BY <1>1, <2>1 DEF Transit
  <2>3. Transit(Tail(s))[j] = Whole(s[j + 1].n, s[j + 1].length) BY <1>1 DEF Transit
  <2> QED BY <1>4, <2>2, <2>3
<1>6. Tail(Transit(s)) = Transit(Tail(s)) BY <1>2, <1>4, <1>5, SeqEqual
<1>7. Head(Transit(s)) = Transit(s)[1] BY <1>2, <1>3
<1>8. Transit(s)[1] = Whole(Head(s).n, Head(s).length) BY <1>1 DEF Transit
<1> QED BY <1>3, <1>6, <1>7, <1>8

\* A message that is written is sent; length and number are those of messages.
LEMMA WriteSends ==
  ASSUME Inv, NEW l \in Lengths, NEW e \in Events, e.n = sent + 1, e.length = l,
         sent < MaxSent, events' = Append(events, e), handled' = handled
  PROVE  Fifo!Next
<1>1. events \in Seq(Events) /\ sent \in Nat /\ MaxSent \in Nat
  BY TransportAssumption DEF Inv, TypeOK, Events
<1>2. sent + 1 \in 1..MaxSent BY <1>1
<1>3. Transit(events') = Append(Transit(events), Whole(sent + 1, l))
  BY <1>1, TransitAppend
<1>4. Fifo!Send(Whole(sent + 1, l)) BY <1>3 DEF Fifo!Send, Transit
<1> QED BY <1>2, <1>4 DEF Fifo!Next

\* The message that is handed over is the one at the head of the channel.
LEMMA ReadDelivers ==
  ASSUME Inv, events # <<>>, events' = Tail(events),
         handled' = Append(handled, Whole(Head(events).n, Head(events).length))
  PROVE  Fifo!Next
<1>1. events \in Seq(Events) BY DEF Inv, TypeOK, Events
<1>2. /\ Transit(events) # <<>> /\ Transit(events') = Tail(Transit(events))
      /\ Head(Transit(events)) = Whole(Head(events).n, Head(events).length)
  BY <1>1, TransitTail
<1>3. Fifo!Deliver BY <1>2 DEF Fifo!Deliver, Transit
<1> QED BY <1>3 DEF Fifo!Next

\* Every behaviour of the transport is one of Channel: the messages of a client
\* are handled whole, once each, and in the order they were written.
THEOREM ImplementsChannel == Spec => TransportIsFifo
<1>1. Init => Fifo!Init
  <2> SUFFICES ASSUME Init PROVE Fifo!Init OBVIOUS
  <2>2. events = <<>> /\ handled = <<>> /\ events \in Seq(Events) BY DEF Init
  <2>3. Transit(events) \in Seq(Seq(Bytes)) /\ Len(Transit(events)) = 0
    BY <2>2, TransitType, EmptySeq
  <2>4. Transit(events) = <<>> BY <2>3, EmptySeq
  <2> QED BY <2>2, <2>4 DEF Fifo!Init, Transit
<1>2. Inv /\ [Next]_vars => [Fifo!Next]_(Fifo!channelVars)
  <2> SUFFICES ASSUME Inv, [Next]_vars PROVE [Fifo!Next]_(Fifo!channelVars) OBVIOUS
  <2>2. sent \in Nat /\ next \in Atoms /\ sent + 1 \in Nat \ {0}
        /\ Len(property[next]) \in Nat
    <3>1. sent \in Nat /\ next \in Atoms /\ property[next] \in Seq(Bytes)
      BY DEF Inv, TypeOK, Bytes
    <3> QED BY <3>1, LenProperties
  <2>3. ASSUME NEW l \in Lengths, WriteShort(l) PROVE Fifo!Next
    <3>1. /\ Short(sent + 1, l) \in Events /\ Short(sent + 1, l).n = sent + 1
          /\ Short(sent + 1, l).length = l
      BY <2>2, WrittenEvents DEF Short
    <3> QED BY <2>3, <3>1, WriteSends DEF WriteShort
  <2>4. ASSUME NEW l \in Lengths, WriteLong(l) PROVE Fifo!Next
    <3>1. PICK e \in Events : /\ e = Long(sent + 1, l, next, Len(property[next]))
                              /\ e.n = sent + 1 /\ e.length = l
      BY <2>2, WrittenEvents
    <3> QED BY <2>4, <3>1, WriteSends DEF WriteLong
  <2>5. CASE ReadEvent
    <3>1. /\ events # <<>> /\ events' = Tail(events)
          /\ handled' = Append(handled, Whole(Head(events).n, Head(events).length))
      BY <2>5, ReadEventHandles
    <3> QED BY <3>1, ReadDelivers
  <2>6. CASE AskProperty
    BY <2>6 DEF AskProperty, Fifo!channelVars
  <2>7. CASE ReadProperty
    <3>1. events' = Tail(events) BY <2>7 DEF ReadProperty
    <3> QED BY <2>7, <3>1, ReadPropertyHandles, ReadDelivers
  <2>8. CASE UNCHANGED vars BY <2>8 DEF vars, Fifo!channelVars
  <2> QED BY <2>3, <2>4, <2>5, <2>6, <2>7, <2>8 DEF Next, ReadXIMMessage
<1> QED BY <1>1, <1>2, SpecInv, PTL DEF Spec, TransportIsFifo, Fifo!Spec
=============================================================================
