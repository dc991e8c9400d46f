--------------------------- MODULE XimServerProofs ---------------------------
(***************************************************************************)
(* Theorems about XimServer for every number of clients and contexts, every *)
(* size of Queue and every word length.  The argument is one inductive      *)
(* invariant, Inv, whose parts are                                          *)
(*   TypeOK       what the state is made of;                                *)
(*   BusyOK       ProcessQueue runs only while it has something to do;      *)
(*   PartingOK    where the two messages of a disconnection can be;         *)
(*   PendingMeansSync, SyncHasReplyComing   the two properties.             *)
(***************************************************************************)
EXTENDS XimServer, SequenceTheorems, TLAPS

\* ProcessQueue is under way only for a client that has keys put aside and
\* waits for no reply.
BusyOK == busy # NoClient => pending[busy] # <<>> /\ ~sync[busy]

\* A message of this type ends the channel, and there is no other of it.
EndsWith(messages, type) ==
  /\ messages # <<>>
  /\ \A j \in DOMAIN messages : messages[j].type = type <=> j = Len(messages)

\* A client that leaves has said so last, or has been answered last and left
\* nothing behind at the server; any other has neither message on its way.
PartingOf(c) ==
  IF state[c] = "leaving"
  THEN \/ /\ EndsWith(toServer[c], "DISCONNECT")
          /\ ~Has(toClient[c], "DISCONNECT_REPLY")
       \/ /\ toServer[c] = <<>> /\ ~sync[c] /\ pending[c] = <<>>
          /\ EndsWith(toClient[c], "DISCONNECT_REPLY")
  ELSE ~Has(toServer[c], "DISCONNECT") /\ ~Has(toClient[c], "DISCONNECT_REPLY")

PartingOK == \A c \in Clients : PartingOf(c)

Inv == TypeOK /\ BusyOK /\ PartingOK /\ PendingMeansSync /\ SyncHasReplyComing
-----------------------------------------------------------------------------
(* Channels.                                                               *)

\* Sending keeps a family of channels one.
LEMMA SendType ==
  ASSUME NEW S, NEW channel \in [Clients -> Seq(S)], NEW c \in Clients, NEW m \in Seq(S)
  PROVE  Send(channel, c, m) \in [Clients -> Seq(S)]
BY ConcatProperties DEF Send

\* What is sent is found on the channel, and what was on it stays.
LEMMA HasConcat ==
  ASSUME NEW S, NEW s \in Seq(S), NEW t \in Seq(S), NEW type
  PROVE  Has(s \o t, type) <=> Has(s, type) \/ Has(t, type)
<1>1. /\ DOMAIN s = 1..Len(s) /\ Len(s) \in Nat
      /\ DOMAIN t = 1..Len(t) /\ Len(t) \in Nat
      /\ s \o t \in Seq(S) /\ DOMAIN (s \o t) = 1..(Len(s) + Len(t))
      /\ \A j \in 1..(Len(s) + Len(t)) :
           (s \o t)[j] = IF j <= Len(s) THEN s[j] ELSE t[j - Len(s)]
  BY ConcatProperties, LenProperties
<1>2. ASSUME Has(s \o t, type) PROVE Has(s, type) \/ Has(t, type)
  BY <1>1, <1>2 DEF Has
<1>3. ASSUME Has(s, type) PROVE Has(s \o t, type)
  BY <1>1, <1>3 DEF Has
<1>4. ASSUME Has(t, type) PROVE Has(s \o t, type)
  <2>1. PICK j \in DOMAIN t : t[j].type = type
    BY <1>4 DEF Has
  <2>2. /\ Len(s) + j \in 1..(Len(s) + Len(t))
        /\ (s \o t)[Len(s) + j] = t[j]
    BY <1>1, <2>1
  <2> QED
    BY <1>1, <2>1, <2>2 DEF Has
<1> QED
  BY <1>2, <1>3, <1>4

\* Taking the first message leaves the others.
LEMMA HasTail ==
  ASSUME NEW S, NEW s \in Seq(S), s # <<>>, NEW type
  PROVE  /\ Has(Tail(s), type) => Has(s, type)
         /\ Has(s, type) => Head(s).type = type \/ Has(Tail(s), type)
<1>1. /\ DOMAIN s = 1..Len(s) /\ Len(s) \in Nat /\ Head(s) = s[1]
      /\ Tail(s) \in Seq(S) /\ DOMAIN Tail(s) = 1..(Len(s) - 1)
      /\ \A j \in 1..(Len(s) - 1) : Tail(s)[j] = s[j + 1]
  BY HeadTailProperties, LenProperties
<1>2. ASSUME Has(Tail(s), type) PROVE Has(s, type)
  BY <1>1, <1>2 DEF Has
<1>3. ASSUME Has(s, type), Head(s).type # type PROVE Has(Tail(s), type)
  <2>1. PICK j \in DOMAIN s : s[j].type = type
    BY <1>3 DEF Has
  <2>2. j - 1 \in 1..(Len(s) - 1) /\ Tail(s)[j - 1] = s[j]
    BY <1>1, <1>3, <2>1
  <2> QED
    BY <1>1, <2>1, <2>2 DEF Has
<1> QED
  BY <1>2, <1>3

\* A sequence of one message has the type of that message.
LEMMA HasOne == ASSUME NEW m, NEW type PROVE Has(<<m>>, type) <=> m.type = type
BY DEF Has

\* A last message stays the last while others are taken; when it is at the
\* head it is the only one.
LEMMA EndsWithTail ==
  ASSUME NEW S, NEW s \in Seq(S), NEW type, EndsWith(s, type)
  PROVE  IF Head(s).type = type THEN Tail(s) = <<>>
         ELSE EndsWith(Tail(s), type)
<1>1. /\ DOMAIN s = 1..Len(s) /\ Len(s) \in Nat \ {0} /\ Head(s) = s[1]
      /\ Tail(s) \in Seq(S) /\ DOMAIN Tail(s) = 1..(Len(s) - 1)
      /\ Len(Tail(s)) = Len(s) - 1
      /\ \A j \in 1..(Len(s) - 1) : Tail(s)[j] = s[j + 1]
  BY HeadTailProperties, LenProperties, EmptySeq DEF EndsWith
<1>2. CASE Head(s).type = type
  BY <1>1, <1>2, EmptySeq DEF EndsWith
<1>3. CASE Head(s).type # type
  <2>1. Len(s) # 1
    BY <1>1, <1>3 DEF EndsWith
  <2>2. Tail(s) # <<>>
    BY <1>1, <2>1
  <2>3. \A j \in DOMAIN Tail(s) : Tail(s)[j].type = type <=> j = Len(Tail(s))
    BY <1>1 DEF EndsWith
  <2> QED
    BY <1>3, <2>2, <2>3 DEF EndsWith
<1> QED
  BY <1>2, <1>3

\* A message of a type the channel has none of ends it.
LEMMA EndsWithSent ==
  ASSUME NEW S, NEW s \in Seq(S), NEW m \in S, ~Has(s, m.type)
  PROVE  EndsWith(s \o <<m>>, m.type)
<1> DEFINE t == s \o <<m>>
<1>1. /\ DOMAIN s = 1..Len(s) /\ Len(s) \in Nat
      /\ t \in Seq(S) /\ Len(t) = Len(s) + 1 /\ DOMAIN t = 1..(Len(s) + 1)
      /\ \A j \in 1..(Len(s) + 1) : t[j] = IF j <= Len(s) THEN s[j] ELSE m
  BY ConcatProperties, LenProperties
<1>2. \A j \in DOMAIN t : t[j].type = m.type <=> j = Len(t)
  BY <1>1 DEF Has
<1>3. t # <<>>
  BY <1>1
<1> QED
  BY <1>2, <1>3 DEF EndsWith

-----------------------------------------------------------------------------
(* What one key does.                                                      *)

\* ProcessHotKey keeps the state of the front end one, and the word.
LEMMA AfterHotKeyType ==
  ASSUME NEW before \in FrontEndStates, NEW ev \in KeyEvents
  PROVE  /\ AfterHotKey(before, ev) \in FrontEndStates
         /\ AfterHotKey(before, ev).len = before.len
<1> DEFINE step == {i \in DOMAIN Advances : /\ ev.press
                                           /\ Advances[i][1] = before.trigger
                                           /\ Advances[i][2] = ev.sym}
           t == IF step = {} THEN 0 ELSE Advances[CHOOSE i \in step : TRUE][3]
           e == IF Toggles(before, ev) THEN ~before.enabled ELSE before.enabled
<1>1. AfterHotKey(before, ev) = [trigger |-> t, enabled |-> e, len |-> before.len]
  BY DEF AfterHotKey
<1>2. before.enabled \in BOOLEAN /\ before.len \in 0..MaxLen
  BY DEF FrontEndStates
<1>3. e \in BOOLEAN
  BY <1>2
<1>4. t \in TriggerNums
  <2>1. CASE step = {}
    BY <2>1 DEF TriggerNums
  <2>2. CASE step # {}
    <3>1. PICK i \in step : t = Advances[i][3]
      BY <2>2
    <3> QED
      BY <3>1 DEF Advances, TriggerNums
  <2> QED
    BY <2>1, <2>2
<1> HIDE DEF t, e
<1> QED
  BY <1>1, <1>2, <1>3, <1>4 DEF FrontEndStates

\* Every decision leaves a state of the front end, and draws a word that is
\* not empty.
LEMMA XIMProcessKeyType ==
  ASSUME NEW before \in FrontEndStates, NEW ev \in KeyEvents,
         NEW d \in XIMProcessKey(before, ev)
  PROVE  /\ d.fe \in FrontEndStates
         /\ d.action \in {"DRAW", "DISCARD", "COMMIT_FORWARD", "FORWARD"}
         /\ d.action = "DRAW" => d.fe.len > 0
<1> DEFINE fe1 == AfterHotKey(before, ev)
<1>1. fe1 \in FrontEndStates
  BY AfterHotKeyType
<1>2. MaxLen \in Nat \ {0}
  BY MaxLenPositive
<1> HIDE DEF fe1
<1>3. \A n \in LenAfterLetter(fe1.len) : n \in 1..MaxLen
  BY DEF LenAfterLetter
<1>4. \A n \in 0..MaxLen : [fe1 EXCEPT !.len = n] \in FrontEndStates
                              /\ [fe1 EXCEPT !.len = n].len = n
  BY <1>1 DEF FrontEndStates
<1>5. fe1.len > 0 => fe1.len - 1 \in 0..MaxLen
  BY <1>1, <1>2 DEF FrontEndStates
<1>6. \/ d \in {Decision(fe1, "COMMIT_FORWARD"), Decision(fe1, "FORWARD")}
      \/ /\ fe1.len > 0
         /\ d = Decision([fe1 EXCEPT !.len = @ - 1],
                         IF [fe1 EXCEPT !.len = @ - 1].len > 0 THEN "DRAW" ELSE "DISCARD")
      \/ \E n \in LenAfterLetter(fe1.len) : d = Decision([fe1 EXCEPT !.len = n], "DRAW")
  BY DEF XIMProcessKey, fe1
<1>7. CASE d \in {Decision(fe1, "COMMIT_FORWARD"), Decision(fe1, "FORWARD")}
  BY <1>1, <1>7 DEF Decision
<1>8. CASE /\ fe1.len > 0
           /\ d = Decision([fe1 EXCEPT !.len = @ - 1],
                           IF [fe1 EXCEPT !.len = @ - 1].len > 0 THEN "DRAW" ELSE "DISCARD")
  <2>1. [fe1 EXCEPT !.len = @ - 1] = [fe1 EXCEPT !.len = fe1.len - 1]
    BY <1>1 DEF FrontEndStates
  <2> QED
    BY <1>4, <1>5, <1>8, <2>1 DEF Decision
<1>9. CASE \E n \in LenAfterLetter(fe1.len) : d = Decision([fe1 EXCEPT !.len = n], "DRAW")
  <2>1. PICK n \in LenAfterLetter(fe1.len) : d = Decision([fe1 EXCEPT !.len = n], "DRAW")
    BY <1>9
  <2>2. n \in 1..MaxLen /\ n \in 0..MaxLen /\ n > 0
    BY <1>2, <1>3
  <2> QED
    BY <1>4, <2>1, <2>2 DEF Decision
<1> QED
  BY <1>6, <1>7, <1>8, <1>9

-----------------------------------------------------------------------------
(* What the server sends.                                                  *)

\* Any message to a client but the one that parts with it.
Talk == {m \in ToClientMessages : m.type # "DISCONNECT_REPLY"}

\* What the server sends in answer to keys and requests.
LEMMA TalkMessages ==
  ASSUME NEW i \in ICID
  PROVE  /\ \A type \in {"CREATE_IC_REPLY", "REQUEST_REPLY", "PREEDIT_START", "PREEDIT_DONE"} :
              About(type, i) \in Talk
         /\ \A chg, n \in 0..MaxLen : DrawOf(i, chg, n) \in Talk
         /\ \A k \in Keys : Forward(i, k) \in Talk
BY DEF Talk, ToClientMessages, About, DrawOf, Forward

\* A commit is one of them, whatever it carries.
LEMMA CommitTalk ==
  ASSUME NEW i \in ICID, NEW keys \in Seq(Keys), NEW junk \in BOOLEAN
  PROVE  <<CommitOf(i, keys, junk)>> \in Seq(Talk)
<1>1. CommitOf(i, keys, junk) \in Talk
  BY DEF Talk, ToClientMessages, CommitOf
<1> QED
  BY <1>1

\* They are messages to a client, and none of them ends the connection.
LEMMA TalkSeq ==
  ASSUME NEW s \in Seq(Talk)
  PROVE  s \in Seq(ToClientMessages) /\ ~Has(s, "DISCONNECT_REPLY")
<1>1. Talk \subseteq ToClientMessages
  BY DEF Talk
<1>2. s \in Seq(ToClientMessages)
  BY <1>1, SeqMonotonic
<1>3. \A j \in DOMAIN s : s[j] \in Talk
  BY ElementOfSeq, LenProperties
<1>4. ~Has(s, "DISCONNECT_REPLY")
  BY <1>3 DEF Has, Talk
<1> QED
  BY <1>2, <1>4

Contexts == [live : BOOLEAN, enabled : BOOLEAN, len : 0..MaxLen]

\* So are the messages that show, draw and hide a preedit.
LEMMA PreeditTalk ==
  ASSUME ServerTypeOK, NEW i \in ICID
  PROVE  /\ SoftHideMessages(i) \in Seq(Talk)
         /\ DoneMessages(i) \in Seq(Talk)
         /\ \A n \in 0..MaxLen : DrawMessages(i, n) \in Seq(Talk)
<1>1. ics[i].len \in 0..MaxLen /\ 0 \in 0..MaxLen
  BY MaxLenPositive DEF ServerTypeOK
<1>2. SoftHideMessages(i) \in Seq(Talk)
  BY <1>1, TalkMessages DEF SoftHideMessages
<1>3. DoneMessages(i) \in Seq(Talk)
  BY TalkMessages DEF DoneMessages
<1>4. ASSUME NEW n \in 0..MaxLen PROVE DrawMessages(i, n) \in Seq(Talk)
  <2>1. /\ DrawOf(i, ics[i].len, n) \in Talk /\ DrawOf(i, 0, n) \in Talk
        /\ About("PREEDIT_START", i) \in Talk
    BY <1>1, TalkMessages
  <2> QED
    BY <2>1 DEF DrawMessages
<1> QED
  BY <1>2, <1>3, <1>4

\* The contexts an IC gets when its preedit is shown, drawn or hidden.
LEMMA ContextTypes ==
  ASSUME NEW r \in Contexts
  PROVE  /\ \A n \in 0..MaxLen : Drawn(r, n) \in Contexts
         /\ SoftHidden(r) \in Contexts /\ Hidden(r) \in Contexts
         /\ Unborn \in Contexts /\ NewIC \in Contexts
<1>1. 0 \in 0..MaxLen
  BY MaxLenPositive
<1>2. \A t \in Contexts : /\ \A n \in 0..MaxLen : [t EXCEPT !.len = n] \in Contexts
                         /\ \A e \in BOOLEAN : [t EXCEPT !.enabled = e] \in Contexts
  BY DEF Contexts
<1>3. ASSUME NEW n \in 0..MaxLen PROVE Drawn(r, n) \in Contexts
  BY <1>2 DEF Drawn
<1>4. SoftHidden(r) \in Contexts
  BY <1>1, <1>2 DEF SoftHidden
<1>5. Hidden(r) \in Contexts
  BY <1>1, <1>2 DEF Hidden
<1>6. Unborn \in Contexts /\ NewIC \in Contexts
  BY <1>1 DEF Contexts, Unborn, NewIC
<1> QED
  BY <1>3, <1>4, <1>5, <1>6

\* EngineReset leaves a state of the front end with an empty word.
LEMMA ResetLenType ==
  ASSUME NEW f \in FrontEndStates
  PROVE  ResetLen(f) \in FrontEndStates /\ ResetLen(f).len = 0
BY MaxLenPositive DEF FrontEndStates, ResetLen

\* The buffer of keys to come is emptied before it overflows.
LEMMA PushType ==
  ASSUME NEW q \in Seq(Keys), Len(q) < MaxBuffer, NEW k \in Keys
  PROVE  Push(q, k) \in Seq(Keys) /\ Len(Push(q, k)) < MaxBuffer
<1>1. MaxBuffer \in Nat \ {0} /\ Len(q) \in Nat
  BY XimAssumption, LenProperties
<1>2. CASE Len(q) = MaxBuffer - 1
  BY <1>1, <1>2, EmptySeq DEF Push
<1>3. CASE Len(q) # MaxBuffer - 1
  BY <1>1, <1>3, AppendProperties DEF Push
<1> QED
  BY <1>2, <1>3

\* The server sends one client some talk, and what it keeps has its type.
ServerStep(c) ==
  /\ fe' \in FrontEndStates /\ typed' \in Seq(Keys)
  /\ ics' \in [ICID -> Contexts] /\ imsSync' \in BOOLEAN
  /\ queue' \in Seq(Keys) /\ Len(queue') < MaxBuffer
  /\ \E s \in Seq(Talk) :
       /\ toClient' = Send(toClient, c, s)
       /\ \/ sync' = sync
          \/ sync' = [sync EXCEPT ![c] = TRUE] /\ Has(s, "FORWARD_EVENT")

\* The whole of ProcessKey: what it sends, and what it leaves.
LEMMA ProcessKeyStep ==
  ASSUME TypeOK, NEW c \in Clients, NEW i \in ICID, NEW k \in Keys,
         ProcessKey(c, i, k)
  PROVE  ServerStep(c)
<1>0. ServerTypeOK
  BY DEF TypeOK
<1>1. PICK d \in XIMProcessKey(fe, k.ev) :
        DrawWord(c, i, k, d) \/ DiscardWord(c, i, k, d)
          \/ CommitWord(c, i, k, d) \/ ForwardKey(c, i, k, d)
  BY DEF ProcessKey
<1>2. k.ev \in KeyEvents
  BY XimAssumption DEF Keys
<1>3. d.fe \in FrontEndStates /\ d.fe.len \in 0..MaxLen
  BY <1>0, <1>2, XIMProcessKeyType DEF FrontEndStates, ServerTypeOK
<1>4. ResetLen(d.fe) \in FrontEndStates
  BY <1>3, ResetLenType
<1>5. ics[i] \in Contexts /\ ics \in [ICID -> Contexts]
  BY <1>0 DEF Contexts, ServerTypeOK
<1>6. typed \in Seq(Keys) /\ Append(typed, k) \in Seq(Keys) /\ <<>> \in Seq(Keys)
  BY <1>0, AppendProperties, EmptySeq DEF ServerTypeOK
<1>7. Forward(i, k) \in Talk
  BY TalkMessages
<1>8. CASE DrawWord(c, i, k, d)
  <2>1. [ics EXCEPT ![i] = Drawn(@, d.fe.len)] \in [ICID -> Contexts]
    BY <1>3, <1>5, ContextTypes
  <2>2. DrawMessages(i, d.fe.len) \in Seq(Talk)
    BY <1>0, <1>3, PreeditTalk
  <2> QED
    BY <1>0, <1>3, <1>6, <1>8, <2>1, <2>2 DEF DrawWord, ServerStep, ServerTypeOK
<1>9. CASE DiscardWord(c, i, k, d)
  <2>1. PICK junk \in BOOLEAN :
          toClient' = Send(toClient, c, SoftHideMessages(i) \o
                                        <<CommitOf(i, Append(typed, k), junk)>>)
    BY <1>9 DEF DiscardWord
  <2>2. SoftHideMessages(i) \o <<CommitOf(i, Append(typed, k), junk)>> \in Seq(Talk)
    <3>1. <<CommitOf(i, Append(typed, k), junk)>> \in Seq(Talk)
      BY <1>6, CommitTalk
    <3>2. SoftHideMessages(i) \in Seq(Talk)
      BY <1>0, PreeditTalk
    <3> QED
      BY <3>1, <3>2, ConcatProperties
  <2>3. [ics EXCEPT ![i] = SoftHidden(@)] \in [ICID -> Contexts]
    BY <1>5, ContextTypes
  <2> QED
    BY <1>0, <1>4, <1>6, <1>9, <2>1, <2>2, <2>3 DEF DiscardWord, ServerStep, ServerTypeOK
<1>10. CASE CommitWord(c, i, k, d)
  <2>1. SoftHideMessages(i) \o <<CommitOf(i, typed, FALSE)>> \in Seq(Talk)
    <3>1. <<CommitOf(i, typed, FALSE)>> \in Seq(Talk)
      BY <1>6, CommitTalk
    <3>2. SoftHideMessages(i) \in Seq(Talk)
      BY <1>0, PreeditTalk
    <3> QED
      BY <3>1, <3>2, ConcatProperties
  <2>2. [ics EXCEPT ![i] = SoftHidden(@)] \in [ICID -> Contexts]
    BY <1>5, ContextTypes
  <2>3. Push(queue, k) \in Seq(Keys) /\ Len(Push(queue, k)) < MaxBuffer
    BY <1>0, PushType DEF ServerTypeOK
  <2> QED
    BY <1>0, <1>4, <1>6, <1>10, <2>1, <2>2, <2>3 DEF CommitWord, ServerStep, ServerTypeOK
<1>11. CASE ForwardKey(c, i, k, d)
  <2>1. <<Forward(i, k)>> \in Seq(Talk)
    BY <1>7
  <2>2. Has(<<Forward(i, k)>>, "FORWARD_EVENT")
    BY HasOne DEF Forward
  <2> QED
    BY <1>0, <1>3, <1>5, <1>11, <2>1, <2>2 DEF ForwardKey, ServerStep, ServerTypeOK
<1> QED
  BY <1>1, <1>8, <1>9, <1>10, <1>11

-----------------------------------------------------------------------------
(* Steps of one kind keep the invariant for one reason.                    *)

\* Nothing happens.
LEMMA InvStutter == Inv /\ UNCHANGED vars => Inv'
BY DEF Inv, vars, serverVars, channels, clientVars, TypeOK, ServerTypeOK,
       ChannelsTypeOK, ClientTypeOK, BusyOK, PartingOK, PartingOf,
       PendingMeansSync, SyncHasReplyComing, ReplyIsComing

\* The message a handler takes off the channel.
LEMMA IncomingType ==
  ASSUME TypeOK, NEW c \in Clients, NEW type, Incoming(c, type)
  PROVE  /\ toServer[c] \in Seq(ToServerMessages) /\ toServer[c] # <<>>
         /\ Head(toServer[c]) \in ToServerMessages /\ Head(toServer[c]).type = type
         /\ toServer' \in [Clients -> Seq(ToServerMessages)]
         /\ toServer'[c] = Tail(toServer[c])
         /\ \A x \in Clients \ {c} : toServer'[x] = toServer[x]
         /\ busy = NoClient
BY HeadTailProperties DEF TypeOK, ChannelsTypeOK, Incoming

\* Messages sent keep the channel a channel, and are found at its end.
LEMMA SentTo ==
  ASSUME TypeOK, NEW c \in Clients, NEW s \in Seq(ToClientMessages),
         toClient' = Send(toClient, c, s)
  PROVE  /\ toClient' \in [Clients -> Seq(ToClientMessages)]
         /\ \A type : Has(toClient'[c], type) <=> Has(toClient[c], type) \/ Has(s, type)
         /\ \A x \in Clients \ {c} : toClient'[x] = toClient[x]
<1>1. toClient \in [Clients -> Seq(ToClientMessages)]
  BY DEF TypeOK, ChannelsTypeOK
<1>2. toClient'[c] = toClient[c] \o s
  BY <1>1 DEF Send
<1>3. \A type : Has(toClient'[c], type) <=> Has(toClient[c], type) \/ Has(s, type)
  BY <1>1, <1>2, HasConcat
<1>4. toClient' \in [Clients -> Seq(ToClientMessages)]
  BY <1>1, SendType
<1> QED
  BY <1>1, <1>3, <1>4 DEF Send

\* A handler that sends its client some talk, and makes it wait only behind a
\* FORWARD_EVENT it sends and puts keys aside only while it waits.
LEMMA ServerKeepsInv ==
  ASSUME Inv, ServerTypeOK', NEW c \in Clients,
         NEW type, type \notin {"SYNC_REPLY", "DISCONNECT"}, Incoming(c, type),
         NEW s \in Seq(Talk), toClient' = Send(toClient, c, s),
         UNCHANGED <<busy, clientVars>>,
         \/ sync' = sync /\ pending' = pending
         \/ /\ sync' = [sync EXCEPT ![c] = TRUE] /\ Has(s, "FORWARD_EVENT")
            /\ pending' = pending
         \/ /\ sync' = sync /\ sync[c]
            /\ \A x \in Clients \ {c} : pending'[x] = pending[x]
  PROVE  Inv'
<1>1. TypeOK
  BY DEF Inv
<1>2. s \in Seq(ToClientMessages) /\ ~Has(s, "DISCONNECT_REPLY")
  BY TalkSeq
<1>3. /\ toServer[c] \in Seq(ToServerMessages) /\ toServer[c] # <<>>
      /\ Head(toServer[c]).type = type
      /\ toServer' \in [Clients -> Seq(ToServerMessages)]
      /\ toServer'[c] = Tail(toServer[c])
      /\ \A x \in Clients \ {c} : toServer'[x] = toServer[x]
      /\ busy = NoClient
  BY <1>1, IncomingType
<1>4. /\ toClient' \in [Clients -> Seq(ToClientMessages)]
      /\ \A t : Has(toClient'[c], t) <=> Has(toClient[c], t) \/ Has(s, t)
      /\ \A x \in Clients \ {c} : toClient'[x] = toClient[x]
  BY <1>1, <1>2, SentTo
<1>5. \A x \in Clients \ {c} : sync'[x] = sync[x] /\ pending'[x] = pending[x]
  BY <1>1 DEF TypeOK, ServerTypeOK
<1>6. /\ pending'[c] = pending[c] \/ sync'[c]
      /\ sync'[c] => sync[c] \/ Has(s, "FORWARD_EVENT")
      /\ sync[c] => sync'[c]
  BY <1>1 DEF TypeOK, ServerTypeOK
<1>7. TypeOK'
  BY <1>1, <1>3, <1>4 DEF TypeOK, ChannelsTypeOK, ClientTypeOK, clientVars
<1>8. BusyOK'
  BY <1>3 DEF BusyOK
<1>9. PartingOK'
  <2> SUFFICES ASSUME NEW x \in Clients PROVE PartingOf(x)'
    BY DEF PartingOK
  <2>1. CASE x = c
    <3>1. PartingOf(c) /\ state'[c] = state[c]
      BY DEF Inv, PartingOK, clientVars
    <3>2. /\ Has(toServer'[c], "DISCONNECT") => Has(toServer[c], "DISCONNECT")
          /\ EndsWith(toServer[c], "DISCONNECT") => EndsWith(toServer'[c], "DISCONNECT")
      BY <1>3, HasTail, EndsWithTail
    <3>3. Has(toClient'[c], "DISCONNECT_REPLY") => Has(toClient[c], "DISCONNECT_REPLY")
      BY <1>2, <1>4
    <3> QED
      BY <1>3, <2>1, <3>1, <3>2, <3>3 DEF PartingOf
  <2>2. CASE x # c
    BY <1>3, <1>4, <1>5, <2>2 DEF Inv, PartingOK, PartingOf, clientVars
  <2> QED
    BY <2>1, <2>2
<1>10. PendingMeansSync'
  BY <1>3, <1>5, <1>6 DEF Inv, PendingMeansSync
<1>11. SyncHasReplyComing'
  <2> SUFFICES ASSUME NEW x \in Clients, sync'[x], state'[x] # "leaving"
               PROVE  ReplyIsComing(x)'
    BY DEF SyncHasReplyComing
  <2>1. CASE x = c
    <3>1. Has(toServer[c], "SYNC_REPLY") => Has(toServer'[c], "SYNC_REPLY")
      BY <1>3, HasTail
    <3> QED
      BY <1>4, <1>6, <2>1, <3>1 DEF Inv, SyncHasReplyComing, ReplyIsComing, clientVars
  <2>2. CASE x # c
    BY <1>3, <1>4, <1>5, <2>2 DEF Inv, SyncHasReplyComing, ReplyIsComing, clientVars
  <2> QED
    BY <2>1, <2>2
<1> QED
  BY <1>7, <1>8, <1>9, <1>10, <1>11 DEF Inv

-----------------------------------------------------------------------------
(* The handlers of the server.                                             *)

\* What the messages of a client are made of.
LEMMA ToServerTypes ==
  ASSUME NEW m \in ToServerMessages
  PROVE  /\ m.type \in Requests \cup {"SET_IC_FOCUS", "UNSET_IC_FOCUS", "SYNC_REPLY"}
              => m.ic \in ICID
         /\ m.type = "FORWARD_EVENT" =>
              m.ic \in ICID /\ m.key \in Keys /\ m \in PendingMessages
BY DEF ToServerMessages, Requests, PendingMessages

\* A key is handled at once, or held while a reply is awaited.
LEMMA ForwardEventInv ==
  ASSUME Inv, NEW c \in Clients, HandleForwardEvent(c)
  PROVE  Inv'
<1> DEFINE m == Head(toServer[c])
<1>1. TypeOK /\ ServerTypeOK /\ Incoming(c, "FORWARD_EVENT")
  BY DEF Inv, TypeOK, HandleForwardEvent
<1>2. m \in ToServerMessages /\ m.type = "FORWARD_EVENT"
  BY <1>1, IncomingType
<1>3. m.ic \in ICID /\ m.key \in Keys /\ m \in PendingMessages
  BY <1>2, ToServerTypes
<1>4. CASE sync[c]
  <2>1. /\ pending' = [pending EXCEPT ![c] = Append(@, m)]
        /\ UNCHANGED <<fe, typed, ics, lastId, imsSync, queue, sync, toClient>>
        /\ UNCHANGED <<busy, clientVars>>
    BY <1>4 DEF HandleForwardEvent
  <2>2. pending' \in [Clients -> Seq(PendingMessages)]
    BY <1>1, <1>3, <2>1, AppendProperties DEF ServerTypeOK
  <2>3. ServerTypeOK'
    BY <1>1, <2>1, <2>2 DEF ServerTypeOK
  <2>4. <<>> \in Seq(Talk) /\ toClient' = Send(toClient, c, <<>>)
    BY <1>1, <2>1, ConcatEmptySeq, EmptySeq DEF Send, TypeOK, ChannelsTypeOK
  <2>5. \A x \in Clients \ {c} : pending'[x] = pending[x]
    BY <1>1, <2>1 DEF ServerTypeOK
  <2> QED
    BY <1>1, <1>4, <2>1, <2>3, <2>4, <2>5, ServerKeepsInv
<1>5. CASE ~sync[c]
  <2>1. ProcessKey(c, m.ic, m.key) /\ pending' = pending /\ UNCHANGED <<busy, clientVars>>
    BY <1>5 DEF HandleForwardEvent
  <2>2. ServerStep(c) /\ lastId' = lastId
    BY <1>1, <1>3, <2>1, ProcessKeyStep DEF ProcessKey
  <2>3. ServerTypeOK'
    BY <1>1, <2>1, <2>2 DEF ServerTypeOK, ServerStep, Contexts
  <2>4. PICK s \in Seq(Talk) :
          /\ toClient' = Send(toClient, c, s)
          /\ \/ sync' = sync
             \/ sync' = [sync EXCEPT ![c] = TRUE] /\ Has(s, "FORWARD_EVENT")
    BY <2>2 DEF ServerStep
  <2> QED
    BY <1>1, <2>1, <2>3, <2>4, ServerKeepsInv
<1> QED
  BY <1>4, <1>5

\* XIM_CREATE_IC: a new IC, and the reply its client is blocked on.
LEMMA CreateICInv ==
  ASSUME Inv, NEW c \in Clients, HandleCreateIC(c)
  PROVE  Inv'
<1>1. TypeOK /\ ServerTypeOK /\ Incoming(c, "CREATE_IC")
  BY DEF Inv, TypeOK, HandleCreateIC
<1>2. lastId' \in ICID
  <2>1. IdSpace \in Nat \ {0} /\ lastId \in Nat
    BY <1>1, XimAssumption DEF ServerTypeOK, ICID
  <2>2. (lastId + 1) % IdSpace \in 0..(IdSpace - 1)
    BY <2>1
  <2> QED
    BY <2>2 DEF HandleCreateIC, ICID
<1>3. NewIC \in Contexts
  BY ContextTypes, MaxLenPositive DEF Contexts, NewIC
<1>4. ServerTypeOK'
  BY <1>1, <1>2, <1>3 DEF ServerTypeOK, HandleCreateIC, Contexts
<1>5. <<About("CREATE_IC_REPLY", lastId')>> \in Seq(Talk)
  <2>1. About("CREATE_IC_REPLY", lastId') \in Talk
    BY <1>2, TalkMessages
  <2> QED
    BY <2>1
<1> QED
  BY <1>1, <1>4, <1>5, ServerKeepsInv DEF HandleCreateIC

\* XIM_DESTROY_IC: the same of an IC that goes.
LEMMA DestroyICInv ==
  ASSUME Inv, NEW c \in Clients, HandleDestroyIC(c)
  PROVE  Inv'
<1> DEFINE i == Head(toServer[c]).ic
<1>1. TypeOK /\ ServerTypeOK /\ Incoming(c, "DESTROY_IC")
  BY DEF Inv, TypeOK, HandleDestroyIC
<1>2. i \in ICID
  BY <1>1, IncomingType, ToServerTypes DEF Requests
<1>3. Unborn \in Contexts
  BY MaxLenPositive DEF Contexts, Unborn
<1>4. ServerTypeOK'
  BY <1>1, <1>2, <1>3 DEF ServerTypeOK, HandleDestroyIC, Contexts
<1>5. <<About("REQUEST_REPLY", i)>> \in Seq(Talk)
  <2>1. About("REQUEST_REPLY", i) \in Talk
    BY <1>2, TalkMessages
  <2> QED
    BY <2>1
<1> QED
  BY <1>1, <1>4, <1>5, ServerKeepsInv DEF HandleDestroyIC

\* XIM_SET_IC_FOCUS: the word of the context left goes to the new one.
LEMMA SetFocusInv ==
  ASSUME Inv, NEW c \in Clients, HandleSetFocus(c)
  PROVE  Inv'
<1> DEFINE i == Head(toServer[c]).ic
<1>1. TypeOK /\ ServerTypeOK /\ Incoming(c, "SET_IC_FOCUS")
  BY DEF Inv, TypeOK, HandleSetFocus
<1>2. i \in ICID
  BY <1>1, IncomingType, ToServerTypes
<1>3. /\ ics' \in [ICID -> Contexts] /\ fe' \in FrontEndStates
      /\ typed' \in Seq(Keys) /\ queue' \in Seq(Keys) /\ Len(queue') < MaxBuffer
  <2>1. SoftHidden(ics[i]) \in Contexts
    BY <1>1, <1>2, ContextTypes DEF ServerTypeOK, Contexts
  <2>2. ics' \in [ICID -> Contexts]
    BY <1>1, <1>2, <2>1 DEF ServerTypeOK, HandleSetFocus, Contexts
  <2>3. fe' \in FrontEndStates
    BY <1>1, ResetLenType DEF ServerTypeOK, HandleSetFocus, EngineReset
  <2> QED
    BY <2>2, <2>3, EmptySeq, XimAssumption DEF HandleSetFocus, EngineReset
<1>4. ServerTypeOK'
  BY <1>1, <1>3 DEF ServerTypeOK, HandleSetFocus, Contexts
<1>5. SoftHideMessages(i) \in Seq(Talk)
  BY <1>1, <1>2, PreeditTalk
<1> QED
  BY <1>1, <1>4, <1>5, ServerKeepsInv DEF HandleSetFocus

\* Both ways to give up the word, with the reply one of them sends.
LEMMA GiveUpWordInv ==
  ASSUME Inv, NEW c \in Clients,
         NEW type, type \notin {"SYNC_REPLY", "DISCONNECT"}, Incoming(c, type),
         NEW i \in ICID, NEW replies \in Seq(Talk), GiveUpWord(c, i, replies)
  PROVE  Inv'
<1>1. TypeOK /\ ServerTypeOK
  BY DEF Inv, TypeOK
<1>2. /\ ics' \in [ICID -> Contexts] /\ fe' \in FrontEndStates
      /\ typed' \in Seq(Keys) /\ queue' \in Seq(Keys) /\ Len(queue') < MaxBuffer
  <2>1. Hidden(ics[i]) \in Contexts
    BY <1>1, ContextTypes DEF ServerTypeOK, Contexts
  <2>2. ics' \in [ICID -> Contexts]
    BY <1>1, <2>1 DEF ServerTypeOK, GiveUpWord, Contexts
  <2>3. fe' \in FrontEndStates
    BY <1>1, ResetLenType DEF ServerTypeOK, GiveUpWord, EngineReset
  <2> QED
    BY <2>2, <2>3, EmptySeq, XimAssumption DEF GiveUpWord, EngineReset
<1>3. ServerTypeOK'
  BY <1>1, <1>2 DEF ServerTypeOK, GiveUpWord, Contexts
<1> DEFINE s == (IF fe.len > 0
                 THEN SoftHideMessages(i) \o <<CommitOf(i, typed, FALSE)>>
                        \o DoneMessages(i)
                 ELSE SoftHideMessages(i) \o DoneMessages(i)) \o replies
<1>4. s \in Seq(Talk)
  <2>1. SoftHideMessages(i) \in Seq(Talk) /\ DoneMessages(i) \in Seq(Talk)
    BY <1>1, PreeditTalk
  <2>2. <<CommitOf(i, typed, FALSE)>> \in Seq(Talk)
    BY <1>1, CommitTalk DEF ServerTypeOK
  <2>3. /\ SoftHideMessages(i) \o <<CommitOf(i, typed, FALSE)>> \o DoneMessages(i) \in Seq(Talk)
        /\ SoftHideMessages(i) \o DoneMessages(i) \in Seq(Talk)
    BY <2>1, <2>2, ConcatProperties
  <2> QED
    BY <2>3, ConcatProperties
<1>5. toClient' = Send(toClient, c, s)
  BY DEF GiveUpWord
<1> HIDE DEF s
<1> QED
  BY <1>3, <1>4, <1>5, ServerKeepsInv DEF GiveUpWord

\* XIM_UNSET_IC_FOCUS: the word is committed to the context left.
LEMMA UnsetFocusInv ==
  ASSUME Inv, NEW c \in Clients, HandleUnsetFocus(c)
  PROVE  Inv'
<1> DEFINE i == Head(toServer[c]).ic
<1>1. TypeOK /\ Incoming(c, "UNSET_IC_FOCUS") /\ GiveUpWord(c, i, <<>>)
  BY DEF Inv, HandleUnsetFocus
<1>2. i \in ICID
  BY <1>1, IncomingType, ToServerTypes
<1>3. <<>> \in Seq(Talk)
  BY EmptySeq
<1> QED
  BY <1>1, <1>2, <1>3, GiveUpWordInv

\* XIM_RESET_IC: the word is committed before the reply.
LEMMA ResetICInv ==
  ASSUME Inv, NEW c \in Clients, HandleResetIC(c)
  PROVE  Inv'
<1> DEFINE i == Head(toServer[c]).ic
<1>1. /\ TypeOK /\ Incoming(c, "RESET_IC")
      /\ GiveUpWord(c, i, <<About("REQUEST_REPLY", i)>>)
  BY DEF Inv, HandleResetIC
<1>2. i \in ICID
  BY <1>1, IncomingType, ToServerTypes DEF Requests
<1>3. <<About("REQUEST_REPLY", i)>> \in Seq(Talk)
  <2>1. About("REQUEST_REPLY", i) \in Talk
    BY <1>2, TalkMessages
  <2> QED
    BY <2>1
<1> QED
  BY <1>1, <1>2, <1>3, GiveUpWordInv

\* client->sync is cleared, or set behind the key released from Queue; keys
\* put aside are then what ProcessQueue turns to.
LEMMA SyncReplyInv ==
  ASSUME Inv, NEW c \in Clients, HandleSyncReply(c)
  PROVE  Inv'
<1> DEFINE i       == Head(toServer[c]).ic
           release == imsSync /\ queue # <<>>
           s       == IF release THEN <<Forward(i, Head(queue))>> ELSE <<>>
<1>1. TypeOK /\ ServerTypeOK /\ Incoming(c, "SYNC_REPLY")
  BY DEF Inv, TypeOK, HandleSyncReply
<1>2. /\ toServer[c] \in Seq(ToServerMessages) /\ toServer[c] # <<>>
      /\ Head(toServer[c]).type = "SYNC_REPLY" /\ i \in ICID
      /\ toServer' \in [Clients -> Seq(ToServerMessages)]
      /\ toServer'[c] = Tail(toServer[c])
      /\ \A x \in Clients \ {c} : toServer'[x] = toServer[x]
      /\ busy = NoClient
  BY <1>1, IncomingType, ToServerTypes
<1>3. release \in BOOLEAN
  BY <1>1 DEF ServerTypeOK
<1>4. s \in Seq(Talk) /\ (release => Has(s, "FORWARD_EVENT"))
  <2>1. CASE release
    <3>1. Head(queue) \in Keys
      BY <1>1, <2>1, HeadTailProperties DEF ServerTypeOK
    <3>2. Forward(i, Head(queue)) \in Talk
      BY <1>2, <3>1, TalkMessages
    <3>3. Has(<<Forward(i, Head(queue))>>, "FORWARD_EVENT")
      BY HasOne DEF Forward
    <3> QED
      BY <2>1, <3>2, <3>3
  <2>2. CASE ~release
    BY <2>2, EmptySeq
  <2> QED
    BY <2>1, <2>2
<1>5. /\ toClient' = Send(toClient, c, s)
      /\ sync' = [sync EXCEPT ![c] = release]
      /\ imsSync' = FALSE
      /\ queue' = IF release THEN Tail(queue) ELSE queue
      /\ busy' = IF ~release /\ pending[c] # <<>> THEN c ELSE NoClient
      /\ UNCHANGED <<fe, typed, ics, lastId, pending, clientVars>>
  BY DEF HandleSyncReply
<1> HIDE DEF s
<1>6. ServerTypeOK'
  <2>1. queue' \in Seq(Keys) /\ Len(queue') < MaxBuffer
    <3>1. CASE release
      <4>1. /\ queue # <<>> /\ Tail(queue) \in Seq(Keys)
            /\ Len(Tail(queue)) = Len(queue) - 1 /\ Len(queue) \in Nat
        BY <1>1, <3>1, HeadTailProperties, LenProperties DEF ServerTypeOK
      <4> QED
        BY <1>1, <1>5, <3>1, <4>1, XimAssumption DEF ServerTypeOK
    <3>2. CASE ~release
      BY <1>1, <1>5, <3>2 DEF ServerTypeOK
    <3> QED
      BY <3>1, <3>2
  <2>2. sync' \in [Clients -> BOOLEAN]
    BY <1>1, <1>3, <1>5 DEF ServerTypeOK
  <2>3. busy' \in Clients \cup {NoClient}
    BY <1>5
  <2> HIDE DEF release
  <2> QED
    BY <1>1, <1>5, <2>1, <2>2, <2>3 DEF ServerTypeOK
<1> HIDE DEF release
<1>7. s \in Seq(ToClientMessages) /\ ~Has(s, "DISCONNECT_REPLY")
  BY <1>4, TalkSeq
<1>8. /\ toClient' \in [Clients -> Seq(ToClientMessages)]
      /\ \A t : Has(toClient'[c], t) <=> Has(toClient[c], t) \/ Has(s, t)
      /\ \A x \in Clients \ {c} : toClient'[x] = toClient[x]
  BY <1>1, <1>5, <1>7, SentTo
<1>9. /\ sync'[c] = release /\ pending' = pending
      /\ \A x \in Clients \ {c} : sync'[x] = sync[x]
  BY <1>1, <1>5 DEF ServerTypeOK
<1>10. TypeOK'
  BY <1>1, <1>2, <1>5, <1>6, <1>8 DEF TypeOK, ChannelsTypeOK, ClientTypeOK, clientVars
<1>11. BusyOK'
  BY <1>3, <1>5, <1>9 DEF BusyOK
<1>12. PartingOK'
  <2> SUFFICES ASSUME NEW x \in Clients PROVE PartingOf(x)'
    BY DEF PartingOK
  <2>1. CASE x = c
    <3>1. PartingOf(c) /\ state'[c] = state[c]
      BY <1>5 DEF Inv, PartingOK, clientVars
    <3>2. /\ Has(toServer'[c], "DISCONNECT") => Has(toServer[c], "DISCONNECT")
          /\ EndsWith(toServer[c], "DISCONNECT") => EndsWith(toServer'[c], "DISCONNECT")
      BY <1>2, HasTail, EndsWithTail
    <3>3. Has(toClient'[c], "DISCONNECT_REPLY") => Has(toClient[c], "DISCONNECT_REPLY")
      BY <1>7, <1>8
    <3> QED
      BY <1>2, <2>1, <3>1, <3>2, <3>3 DEF PartingOf
  <2>2. CASE x # c
    BY <1>2, <1>5, <1>8, <1>9, <2>2 DEF Inv, PartingOK, PartingOf, clientVars
  <2> QED
    BY <2>1, <2>2
<1>13. PendingMeansSync'
  <2> SUFFICES ASSUME NEW x \in Clients, pending'[x] # <<>>
               PROVE  sync'[x] \/ busy' = x
    BY DEF PendingMeansSync
  <2>1. CASE x = c
    BY <1>3, <1>5, <1>9, <2>1
  <2>2. CASE x # c
    <3>1. sync[x]
      BY <1>1, <1>2, <1>9, <2>2, XimAssumption DEF Inv, PendingMeansSync
    <3> QED
      BY <1>9, <2>2, <3>1
  <2> QED
    BY <2>1, <2>2
<1>14. SyncHasReplyComing'
  <2> SUFFICES ASSUME NEW x \in Clients, sync'[x], state'[x] # "leaving"
               PROVE  ReplyIsComing(x)'
    BY DEF SyncHasReplyComing
  <2>1. CASE x = c
    BY <1>4, <1>8, <1>9, <2>1 DEF ReplyIsComing
  <2>2. CASE x # c
    BY <1>2, <1>5, <1>8, <1>9, <2>2 DEF Inv, SyncHasReplyComing, ReplyIsComing, clientVars
  <2> QED
    BY <2>1, <2>2
<1> QED
  BY <1>10, <1>11, <1>12, <1>13, <1>14 DEF Inv

\* Held keys are handled, until one of them awaits a reply again.
LEMMA DrainPendingInv ==
  ASSUME Inv, NEW c \in Clients, DrainPending(c)
  PROVE  Inv'
<1> DEFINE m == Head(pending[c])
<1>1. TypeOK /\ ServerTypeOK /\ busy = c /\ pending[c] # <<>> /\ ~sync[c]
  BY XimAssumption DEF Inv, TypeOK, BusyOK, DrainPending
<1>2. /\ m \in PendingMessages
      /\ Tail(pending[c]) \in Seq(PendingMessages)
  BY <1>1, HeadTailProperties DEF ServerTypeOK
<1>3. m.ic \in ICID /\ m.key \in Keys
  BY <1>2 DEF PendingMessages
<1>4. /\ ProcessKey(c, m.ic, m.key)
      /\ pending' = [pending EXCEPT ![c] = Tail(@)]
      /\ busy' = IF ~sync'[c] /\ pending'[c] # <<>> THEN c ELSE NoClient
      /\ UNCHANGED <<toServer, clientVars>>
  BY DEF DrainPending
<1>5. ServerStep(c) /\ lastId' = lastId
  BY <1>1, <1>3, <1>4, ProcessKeyStep DEF ProcessKey
<1>6. PICK s \in Seq(Talk) :
        /\ toClient' = Send(toClient, c, s)
        /\ \/ sync' = sync
           \/ sync' = [sync EXCEPT ![c] = TRUE] /\ Has(s, "FORWARD_EVENT")
  BY <1>5 DEF ServerStep
<1>7. s \in Seq(ToClientMessages) /\ ~Has(s, "DISCONNECT_REPLY")
  BY TalkSeq
<1>8. /\ toClient' \in [Clients -> Seq(ToClientMessages)]
      /\ \A t : Has(toClient'[c], t) <=> Has(toClient[c], t) \/ Has(s, t)
      /\ \A x \in Clients \ {c} : toClient'[x] = toClient[x]
  BY <1>1, <1>6, <1>7, SentTo
<1>9. /\ pending' \in [Clients -> Seq(PendingMessages)]
      /\ sync' \in [Clients -> BOOLEAN]
      /\ \A x \in Clients \ {c} : pending'[x] = pending[x] /\ sync'[x] = sync[x]
      /\ sync'[c] => Has(s, "FORWARD_EVENT")
  BY <1>1, <1>2, <1>4, <1>6 DEF ServerTypeOK
<1>10. TypeOK'
  <2>1. busy' \in Clients \cup {NoClient}
    BY <1>4
  <2>2. ServerTypeOK'
    BY <1>1, <1>5, <1>9, <2>1 DEF ServerTypeOK, ServerStep, Contexts
  <2> QED
    BY <1>1, <1>4, <1>8, <2>2 DEF TypeOK, ChannelsTypeOK, ClientTypeOK, clientVars
<1>11. BusyOK'
  BY <1>4 DEF BusyOK
<1>12. PartingOK'
  <2> SUFFICES ASSUME NEW x \in Clients PROVE PartingOf(x)'
    BY DEF PartingOK
  <2>1. PartingOf(x) /\ state'[x] = state[x] /\ toServer'[x] = toServer[x]
    BY <1>4 DEF Inv, PartingOK, clientVars
  <2>2. CASE x = c
    <3>1. Has(toClient'[c], "DISCONNECT_REPLY") => Has(toClient[c], "DISCONNECT_REPLY")
      BY <1>7, <1>8
    <3> QED
      BY <1>1, <2>1, <2>2, <3>1 DEF PartingOf
  <2>3. CASE x # c
    BY <1>8, <1>9, <2>1, <2>3 DEF PartingOf
  <2> QED
    BY <2>2, <2>3
<1>13. PendingMeansSync'
  <2> SUFFICES ASSUME NEW x \in Clients, pending'[x] # <<>>
               PROVE  sync'[x] \/ busy' = x
    BY DEF PendingMeansSync
  <2>1. CASE x = c
    BY <1>4, <1>9, <2>1
  <2>2. CASE x # c
    BY <1>1, <1>9, <2>2 DEF Inv, PendingMeansSync
  <2> QED
    BY <2>1, <2>2
<1>14. SyncHasReplyComing'
  <2> SUFFICES ASSUME NEW x \in Clients, sync'[x], state'[x] # "leaving"
               PROVE  ReplyIsComing(x)'
    BY DEF SyncHasReplyComing
  <2>1. CASE x = c
    BY <1>8, <1>9, <2>1 DEF ReplyIsComing
  <2>2. CASE x # c
    BY <1>4, <1>8, <1>9, <2>2 DEF Inv, SyncHasReplyComing, ReplyIsComing, clientVars
  <2> QED
    BY <2>1, <2>2
<1> QED
  BY <1>10, <1>11, <1>12, <1>13, <1>14 DEF Inv

\* The only handler that sends DISCONNECT_REPLY, and it leaves nothing behind.
LEMMA DisconnectInv ==
  ASSUME Inv, NEW c \in Clients, HandleDisconnect(c)
  PROVE  Inv'
<1> DEFINE reply == Plain("DISCONNECT_REPLY")
<1>1. TypeOK /\ ServerTypeOK /\ Incoming(c, "DISCONNECT")
  BY DEF Inv, TypeOK, HandleDisconnect
<1>2. /\ toServer[c] \in Seq(ToServerMessages) /\ toServer[c] # <<>>
      /\ Head(toServer[c]).type = "DISCONNECT"
      /\ toServer' \in [Clients -> Seq(ToServerMessages)]
      /\ toServer'[c] = Tail(toServer[c])
      /\ \A x \in Clients \ {c} : toServer'[x] = toServer[x]
      /\ busy = NoClient
  BY <1>1, IncomingType
<1>3. /\ reply \in ToClientMessages /\ reply.type = "DISCONNECT_REPLY"
      /\ <<reply>> \in Seq(ToClientMessages)
  <2>1. reply \in ToClientMessages /\ reply.type = "DISCONNECT_REPLY"
    BY DEF Plain, ToClientMessages
  <2> QED
    BY <2>1
<1>4. /\ toClient' = Send(toClient, c, <<reply>>)
      /\ sync' = [sync EXCEPT ![c] = FALSE]
      /\ pending' = [pending EXCEPT ![c] = <<>>]
      /\ UNCHANGED <<fe, typed, ics, lastId, imsSync, queue, busy, clientVars>>
  BY DEF HandleDisconnect
<1>5. /\ toClient' \in [Clients -> Seq(ToClientMessages)]
      /\ \A x \in Clients \ {c} : toClient'[x] = toClient[x]
  BY <1>1, <1>3, <1>4, SentTo
<1>6. /\ sync' \in [Clients -> BOOLEAN] /\ ~sync'[c]
      /\ pending' \in [Clients -> Seq(PendingMessages)] /\ pending'[c] = <<>>
      /\ \A x \in Clients \ {c} : sync'[x] = sync[x] /\ pending'[x] = pending[x]
  BY <1>1, <1>4, EmptySeq DEF ServerTypeOK
<1>7. TypeOK'
  <2>1. ServerTypeOK'
    BY <1>1, <1>4, <1>6 DEF ServerTypeOK
  <2> QED
    BY <1>1, <1>2, <1>4, <1>5, <2>1 DEF TypeOK, ChannelsTypeOK, ClientTypeOK, clientVars
<1>8. BusyOK'
  BY <1>2, <1>4 DEF BusyOK
<1>9. PartingOK'
  <2> SUFFICES ASSUME NEW x \in Clients PROVE PartingOf(x)'
    BY DEF PartingOK
  <2>1. CASE x = c
    <3>1. Has(toServer[c], "DISCONNECT")
      <4>1. 1 \in DOMAIN toServer[c] /\ toServer[c][1] = Head(toServer[c])
        BY <1>2, LenProperties, EmptySeq
      <4> QED
        BY <1>2, <4>1 DEF Has
    <3>2. /\ state[c] = "leaving" /\ EndsWith(toServer[c], "DISCONNECT")
          /\ ~Has(toClient[c], "DISCONNECT_REPLY")
      BY <1>2, <3>1 DEF Inv, PartingOK, PartingOf
    <3>3. toServer'[c] = <<>>
      BY <1>2, <3>2, EndsWithTail
    <3>4. EndsWith(toClient[c] \o <<reply>>, "DISCONNECT_REPLY")
      <4>1. toClient[c] \in Seq(ToClientMessages)
        BY <1>1 DEF TypeOK, ChannelsTypeOK
      <4> HIDE DEF reply
      <4> QED
        BY <1>3, <3>2, <4>1, EndsWithSent
    <3>5. toClient'[c] = toClient[c] \o <<reply>>
      BY <1>1, <1>4 DEF Send, TypeOK, ChannelsTypeOK
    <3> QED
      BY <1>4, <1>6, <2>1, <3>2, <3>3, <3>4, <3>5 DEF PartingOf, clientVars
  <2>2. CASE x # c
    BY <1>2, <1>4, <1>5, <1>6, <2>2 DEF Inv, PartingOK, PartingOf, clientVars
  <2> QED
    BY <2>1, <2>2
<1>10. PendingMeansSync'
  BY <1>4, <1>6 DEF Inv, PendingMeansSync
<1>11. SyncHasReplyComing'
  BY <1>2, <1>4, <1>5, <1>6
     DEF Inv, SyncHasReplyComing, ReplyIsComing, clientVars
<1> QED
  BY <1>7, <1>8, <1>9, <1>10, <1>11 DEF Inv

\* Whichever message the server takes next.
LEMMA HandleInv ==
  ASSUME Inv, NEW c \in Clients, Handle(c)
  PROVE  Inv'
BY ForwardEventInv, SyncReplyInv, DrainPendingInv, CreateICInv, DestroyICInv,
   SetFocusInv, UnsetFocusInv, ResetICInv, DisconnectInv DEF Handle

-----------------------------------------------------------------------------
(* The clients.                                                            *)

\* Any message to the server but the one that parts with it.
Asks == {m \in ToServerMessages : m.type # "DISCONNECT"}

\* What a client sends while it lives.
LEMMA AskMessages ==
  /\ Plain("CREATE_IC") \in Asks
  /\ \A i \in ICID : \A type \in Requests \cup {"SET_IC_FOCUS", "UNSET_IC_FOCUS", "SYNC_REPLY"} :
       About(type, i) \in Asks
  /\ \A i \in ICID, k \in Keys : Forward(i, k) \in Asks
BY DEF Asks, ToServerMessages, Plain, About, Forward, Requests

\* They are messages to the server, and none of them ends the connection.
LEMMA AskSeq ==
  ASSUME NEW s \in Seq(Asks)
  PROVE  s \in Seq(ToServerMessages) /\ ~Has(s, "DISCONNECT")
<1>1. Asks \subseteq ToServerMessages
  BY DEF Asks
<1>2. s \in Seq(ToServerMessages)
  BY <1>1, SeqMonotonic
<1>3. \A j \in DOMAIN s : s[j] \in Asks
  BY ElementOfSeq, LenProperties
<1> QED
  BY <1>2, <1>3 DEF Has, Asks

\* A step of the users that only asks: who is idle may send, and may block.
LEMMA AskingKeepsInv ==
  ASSUME Inv, ClientTypeOK', UNCHANGED <<serverVars, toClient>>,
         toServer' \in [Clients -> Seq(ToServerMessages)],
         \A x \in Clients :
           \/ toServer'[x] = toServer[x] /\ state'[x] = state[x]
           \/ /\ state[x] = "idle" /\ state'[x] # "leaving"
              /\ \E s \in Seq(Asks) : toServer'[x] = toServer[x] \o s
  PROVE  Inv'
<1>1. TypeOK'
  BY DEF Inv, TypeOK, ServerTypeOK, ChannelsTypeOK, serverVars
<1>2. BusyOK' /\ PendingMeansSync'
  BY DEF Inv, BusyOK, PendingMeansSync, serverVars
<1>3. \A x \in Clients :
        /\ Has(toServer'[x], "DISCONNECT") => Has(toServer[x], "DISCONNECT")
        /\ Has(toServer[x], "SYNC_REPLY") => Has(toServer'[x], "SYNC_REPLY")
  <2> TAKE x \in Clients
  <2>1. toServer[x] \in Seq(ToServerMessages)
    BY DEF Inv, TypeOK, ChannelsTypeOK
  <2>2. ASSUME NEW s \in Seq(Asks), toServer'[x] = toServer[x] \o s
        PROVE  /\ Has(toServer'[x], "DISCONNECT") => Has(toServer[x], "DISCONNECT")
               /\ Has(toServer[x], "SYNC_REPLY") => Has(toServer'[x], "SYNC_REPLY")
    <3>1. s \in Seq(ToServerMessages) /\ ~Has(s, "DISCONNECT")
      BY AskSeq
    <3> QED
      BY <2>1, <2>2, <3>1, HasConcat
  <2> QED
    BY <2>2
<1>4. PartingOK'
  <2> SUFFICES ASSUME NEW x \in Clients PROVE PartingOf(x)'
    BY DEF PartingOK
  <2>1. CASE toServer'[x] = toServer[x] /\ state'[x] = state[x]
    BY <2>1 DEF Inv, PartingOK, PartingOf, serverVars
  <2>2. CASE state[x] = "idle" /\ state'[x] # "leaving"
    BY <1>3, <2>2 DEF Inv, PartingOK, PartingOf, serverVars
  <2> QED
    BY <2>1, <2>2
<1>5. SyncHasReplyComing'
  BY <1>3 DEF Inv, SyncHasReplyComing, ReplyIsComing, serverVars
<1> QED
  BY <1>1, <1>2, <1>4, <1>5 DEF Inv

\* One client sends one message of its own.
LEMMA OneAsks ==
  ASSUME TypeOK, NEW c \in Clients, NEW m \in Asks,
         toServer' = Send(toServer, c, <<m>>),
         state[c] = "idle", state' = state \/ state' = [state EXCEPT ![c] = "blocked"]
  PROVE  /\ toServer' \in [Clients -> Seq(ToServerMessages)]
         /\ \A x \in Clients :
              \/ toServer'[x] = toServer[x] /\ state'[x] = state[x]
              \/ /\ state[x] = "idle" /\ state'[x] # "leaving"
                 /\ \E s \in Seq(Asks) : toServer'[x] = toServer[x] \o s
<1>1. <<m>> \in Seq(Asks) /\ <<m>> \in Seq(ToServerMessages)
  BY DEF Asks
<1>2. /\ toServer' \in [Clients -> Seq(ToServerMessages)]
      /\ toServer'[c] = toServer[c] \o <<m>>
      /\ \A x \in Clients \ {c} : toServer'[x] = toServer[x]
  <2>1. toServer \in [Clients -> Seq(ToServerMessages)]
    BY DEF TypeOK, ChannelsTypeOK
  <2>2. Send(toServer, c, <<m>>) \in [Clients -> Seq(ToServerMessages)]
    BY <1>1, <2>1, SendType
  <2> QED
    BY <2>1, <2>2 DEF Send
<1>3. /\ state'[c] # "leaving"
      /\ \A x \in Clients \ {c} : state'[x] = state[x]
  BY DEF TypeOK, ClientTypeOK
<1> QED
  BY <1>1, <1>2, <1>3

\* A client asks for an IC, and waits.
LEMMA OpenICInv ==
  ASSUME Inv, NEW c \in Clients, OpenIC(c) PROVE Inv'
<1>1. TypeOK /\ ClientTypeOK
  BY DEF Inv, TypeOK
<1>2. opens' \in 0..MaxICs
  BY <1>1, XimAssumption DEF ClientTypeOK, OpenIC
<1>3. ClientTypeOK'
  BY <1>1, <1>2 DEF ClientTypeOK, OpenIC
<1> QED
  BY <1>1, <1>3, AskMessages, OneAsks, AskingKeepsInv DEF OpenIC

\* A client gives an IC up, and waits.
LEMMA CloseICInv ==
  ASSUME Inv, NEW c \in Clients, NEW i \in ICID, CloseIC(c, i) PROVE Inv'
<1>1. TypeOK /\ ClientTypeOK
  BY DEF Inv, TypeOK
<1>2. requests' \in 0..MaxRequests
  BY <1>1, XimAssumption DEF ClientTypeOK, CloseIC
<1>3. ClientTypeOK'
  BY <1>1, <1>2 DEF ClientTypeOK, CloseIC
<1>4. About("DESTROY_IC", i) \in Asks
  BY AskMessages DEF Requests
<1> QED
  BY <1>1, <1>3, <1>4, OneAsks, AskingKeepsInv DEF CloseIC

\* A client resets an IC, and waits.
LEMMA UserResetICInv ==
  ASSUME Inv, NEW c \in Clients, NEW i \in ICID, ResetIC(c, i) PROVE Inv'
<1>1. TypeOK /\ ClientTypeOK
  BY DEF Inv, TypeOK
<1>2. requests' \in 0..MaxRequests
  BY <1>1, XimAssumption DEF ClientTypeOK, ResetIC
<1>3. ClientTypeOK'
  BY <1>1, <1>2 DEF ClientTypeOK, ResetIC
<1>4. About("RESET_IC", i) \in Asks
  BY AskMessages DEF Requests
<1> QED
  BY <1>1, <1>3, <1>4, OneAsks, AskingKeepsInv DEF ResetIC

\* A key goes to the context that has the focus.
LEMMA TypeKeyInv ==
  ASSUME Inv, NEW c \in Clients, NEW ev \in Keyboard, TypeKey(c, ev) PROVE Inv'
<1> DEFINE k == [n |-> pressed + 1, ev |-> ev, home |-> focus]
<1>1. TypeOK /\ ClientTypeOK
  BY DEF Inv, TypeOK
<1>2. pressed' \in 0..MaxKeys /\ pressed + 1 \in 1..MaxKeys
  BY <1>1, XimAssumption DEF ClientTypeOK, TypeKey
<1>3. ClientTypeOK'
  BY <1>1, <1>2 DEF ClientTypeOK, TypeKey
<1>4. focus \in ICID
  BY <1>1 DEF ClientTypeOK, TypeKey
<1>5. k \in Keys
  BY <1>2, <1>4 DEF Keys
<1>6. Forward(focus, k) \in Asks
  BY <1>4, <1>5, AskMessages
<1>7. state' = state /\ toServer' = Send(toServer, c, <<Forward(focus, k)>>)
  BY DEF TypeKey
<1> HIDE DEF k
<1> QED
  BY <1>1, <1>3, <1>6, <1>7, OneAsks, AskingKeepsInv DEF TypeKey

\* The focus moves, between contexts of one client or of two.
LEMMA MoveFocusInv ==
  ASSUME Inv, NEW i \in ICID \cup {NoIC}, MoveFocus(i) PROVE Inv'
<1>1. TypeOK /\ ClientTypeOK
  BY DEF Inv, TypeOK
<1>2. moves' \in 0..MaxFocus
  BY <1>1, XimAssumption DEF ClientTypeOK, MoveFocus
<1>3. ClientTypeOK'
  BY <1>1, <1>2 DEF ClientTypeOK, MoveFocus
<1>4. \A x \in Clients : \A j : x \in Clientele(j) => j \in ICID
  BY <1>1 DEF ClientTypeOK, Clientele
<1>5. toServer \in [Clients -> Seq(ToServerMessages)]
  BY <1>1 DEF TypeOK, ChannelsTypeOK
<1>6. ASSUME NEW x \in Clients
      PROVE  /\ toServer'[x] \in Seq(ToServerMessages)
             /\ state'[x] = state[x]
             /\ \/ toServer'[x] = toServer[x]
                \/ /\ state[x] = "idle"
                   /\ \E t \in Seq(Asks) : toServer'[x] = toServer[x] \o t
  <2>1. /\ x \in Clientele(focus) => About("UNSET_IC_FOCUS", focus) \in Asks
        /\ x \in Clientele(i) => About("SET_IC_FOCUS", i) \in Asks
    BY <1>4, AskMessages
  <2> DEFINE u == IF x \in Clientele(focus)
                  THEN <<About("UNSET_IC_FOCUS", focus)>> ELSE <<>>
             v == IF x \in Clientele(i) THEN <<About("SET_IC_FOCUS", i)>> ELSE <<>>
  <2>2. u \in Seq(Asks) /\ v \in Seq(Asks)
    BY <2>1, EmptySeq
  <2>3. toServer'[x] = (toServer[x] \o u) \o v /\ state'[x] = state[x]
    BY DEF MoveFocus
  <2>4. /\ u \in Seq(ToServerMessages) /\ v \in Seq(ToServerMessages)
        /\ toServer[x] \in Seq(ToServerMessages)
    BY <1>5, <2>2, AskSeq
  <2>5. CASE x \in Clientele(i) \cup Clientele(focus)
    <3> HIDE DEF u, v
    <3>1. state[x] = "idle"
      BY <2>5 DEF MoveFocus
    <3>2. u \o v \in Seq(Asks) /\ u \o v \in Seq(ToServerMessages)
      BY <2>2, <2>4, ConcatProperties
    <3>3. toServer'[x] = toServer[x] \o (u \o v)
      <4>1. \A a, b, d \in Seq(ToServerMessages) : (a \o b) \o d = a \o (b \o d)
        BY ConcatAssociative
      <4> QED
        BY <2>3, <2>4, <4>1
    <3>4. toServer'[x] \in Seq(ToServerMessages)
      BY <2>4, <3>2, <3>3, ConcatProperties
    <3> QED
      BY <2>3, <3>1, <3>2, <3>3, <3>4
  <2>6. CASE x \notin Clientele(i) \cup Clientele(focus)
    <3>1. u = <<>> /\ v = <<>>
      BY <2>6
    <3>2. toServer'[x] = toServer[x]
      <4> HIDE DEF u, v
      <4> QED
        BY <2>3, <2>4, <3>1, ConcatEmptySeq
    <3> QED
      BY <2>3, <2>4, <3>2
  <2> QED
    BY <2>5, <2>6
<1>7. toServer' \in [Clients -> Seq(ToServerMessages)]
  <2>1. toServer' = [x \in Clients |-> toServer'[x]]
    BY DEF MoveFocus
  <2> QED
    BY <1>6, <2>1
<1>8. UNCHANGED <<serverVars, toClient>>
  BY DEF MoveFocus
<1>9. \A x \in Clients :
        \/ toServer'[x] = toServer[x] /\ state'[x] = state[x]
        \/ /\ state[x] = "idle" /\ state'[x] # "leaving"
           /\ \E t \in Seq(Asks) : toServer'[x] = toServer[x] \o t
  BY <1>6
<1> QED
  BY <1>3, <1>7, <1>8, <1>9, AskingKeepsInv

\* A client disconnects, and sends nothing more.
LEMMA LeaveInv ==
  ASSUME Inv, NEW c \in Clients, Leave(c) PROVE Inv'
<1> DEFINE m == Plain("DISCONNECT")
<1>1. TypeOK /\ ClientTypeOK
  BY DEF Inv, TypeOK
<1>2. m \in ToServerMessages /\ m.type = "DISCONNECT" /\ <<m>> \in Seq(ToServerMessages)
  BY DEF Plain, ToServerMessages
<1>3. /\ toServer \in [Clients -> Seq(ToServerMessages)]
      /\ state \in [Clients -> {"idle", "blocked", "leaving"}]
  BY <1>1 DEF TypeOK, ChannelsTypeOK, ClientTypeOK
<1>4. /\ toServer' \in [Clients -> Seq(ToServerMessages)]
      /\ toServer'[c] = toServer[c] \o <<m>>
      /\ \A x \in Clients \ {c} : toServer'[x] = toServer[x]
  <2>1. Send(toServer, c, <<m>>) \in [Clients -> Seq(ToServerMessages)]
    BY <1>2, <1>3, SendType
  <2> QED
    BY <1>3, <2>1 DEF Leave, Send
<1>5. /\ state[c] = "idle" /\ state'[c] = "leaving"
      /\ \A x \in Clients \ {c} : state'[x] = state[x]
      /\ UNCHANGED <<serverVars, toClient>>
  BY <1>3 DEF Leave
<1>6. ClientTypeOK'
  <2>1. requests' \in 0..MaxRequests
    BY <1>1, XimAssumption DEF ClientTypeOK, Leave
  <2> QED
    BY <1>1, <2>1 DEF ClientTypeOK, Leave
<1>7. TypeOK'
  BY <1>1, <1>4, <1>5, <1>6 DEF TypeOK, ServerTypeOK, ChannelsTypeOK, serverVars
<1>8. BusyOK' /\ PendingMeansSync'
  BY <1>5 DEF Inv, BusyOK, PendingMeansSync, serverVars
<1>9. PartingOK'
  <2> SUFFICES ASSUME NEW x \in Clients PROVE PartingOf(x)'
    BY DEF PartingOK
  <2>1. CASE x = c
    <3>1. ~Has(toServer[c], "DISCONNECT") /\ ~Has(toClient[c], "DISCONNECT_REPLY")
      BY <1>5 DEF Inv, PartingOK, PartingOf
    <3>2. EndsWith(toServer[c] \o <<m>>, "DISCONNECT")
      <4> HIDE DEF m
      <4> QED
        BY <1>2, <1>3, <3>1, EndsWithSent
    <3> QED
      BY <1>4, <1>5, <2>1, <3>1, <3>2 DEF PartingOf, serverVars
  <2>2. CASE x # c
    BY <1>4, <1>5, <2>2 DEF Inv, PartingOK, PartingOf, serverVars
  <2> QED
    BY <2>1, <2>2
<1>10. SyncHasReplyComing'
  BY <1>4, <1>5 DEF Inv, SyncHasReplyComing, ReplyIsComing, serverVars
<1> QED
  BY <1>7, <1>8, <1>9, <1>10 DEF Inv

\* What the messages of the server are made of.
LEMMA ToClientTypes ==
  ASSUME NEW m \in ToClientMessages
  PROVE  /\ m.type # "DISCONNECT_REPLY" => m.ic \in ICID
         /\ m.type = "PREEDIT_DRAW" => m.chg_length \in 0..MaxLen /\ m.length \in 0..MaxLen
         /\ m.type = "COMMIT" => m.keys \in Seq(Keys)
         /\ m.type = "FORWARD_EVENT" => m.key \in Keys
BY DEF ToClientMessages

\* Whatever the message, display and text keep their types.
LEMMA ApplyType ==
  ASSUME ClientTypeOK, NEW m \in ToClientMessages, m.type # "DISCONNECT_REPLY", Apply(m)
  PROVE  shown' \in [ICID -> Int] /\ app' \in [ICID -> Seq(Keys)]
<1>1. m.ic \in ICID
  BY ToClientTypes
<1>2. shown' \in [ICID -> Int]
  <2>1. CASE m.type = "PREEDIT_DRAW"
    <3>1. m.chg_length \in Int /\ m.length \in Int
      BY <2>1, ToClientTypes, MaxLenPositive
    <3> QED
      BY <1>1, <2>1, <3>1 DEF ClientTypeOK, Apply
  <2>2. CASE m.type # "PREEDIT_DRAW"
    BY <1>1, <2>2 DEF ClientTypeOK, Apply
  <2> QED
    BY <2>1, <2>2
<1>3. app' \in [ICID -> Seq(Keys)]
  <2>1. CASE m.type = "COMMIT"
    <3>1. m.keys \in Seq(Keys)
      BY <2>1, ToClientTypes
    <3>2. app[m.ic] \o m.keys \in Seq(Keys)
      BY <1>1, <3>1, ConcatProperties DEF ClientTypeOK
    <3>3. app' = [app EXCEPT ![m.ic] = app[m.ic] \o m.keys]
      BY <2>1 DEF Apply
    <3> QED
      BY <1>1, <3>2, <3>3 DEF ClientTypeOK
  <2>2. CASE m.type = "FORWARD_EVENT"
    <3>1. m.key \in Keys
      BY <2>2, ToClientTypes
    <3>2. Append(app[m.ic], m.key) \in Seq(Keys)
      BY <1>1, <3>1, AppendProperties DEF ClientTypeOK
    <3>3. app' = [app EXCEPT ![m.ic] = Append(app[m.ic], m.key)]
      BY <2>2 DEF Apply
    <3> QED
      BY <1>1, <3>2, <3>3 DEF ClientTypeOK
  <2>3. CASE m.type \notin {"COMMIT", "FORWARD_EVENT"}
    BY <2>3 DEF ClientTypeOK, Apply
  <2> QED
    BY <2>1, <2>2, <2>3
<1> QED
  BY <1>2, <1>3

\* A client that takes a FORWARD_EVENT answers it: the reply the server waits
\* for passes from one channel to the other.
LEMMA ReceiveInv ==
  ASSUME Inv, NEW c \in Clients, Receive(c) PROVE Inv'
<1> DEFINE m == Head(toClient[c])
           s == Replies(m)
<1>1. TypeOK /\ ClientTypeOK
  BY DEF Inv, TypeOK
<1>2. /\ toClient \in [Clients -> Seq(ToClientMessages)]
      /\ toServer \in [Clients -> Seq(ToServerMessages)]
      /\ toClient[c] # <<>> /\ state[c] # "leaving"
      /\ m \in ToClientMessages /\ Tail(toClient[c]) \in Seq(ToClientMessages)
  <2>1. toClient \in [Clients -> Seq(ToClientMessages)] /\ toClient[c] # <<>>
    BY <1>1 DEF TypeOK, ChannelsTypeOK, Receive
  <2> QED
    BY <1>1, <2>1, HeadTailProperties DEF TypeOK, ChannelsTypeOK, Receive
<1>3. ~Has(toServer[c], "DISCONNECT") /\ ~Has(toClient[c], "DISCONNECT_REPLY")
  BY <1>2 DEF Inv, PartingOK, PartingOf
<1>4. m.type # "DISCONNECT_REPLY"
  <2>1. 1 \in DOMAIN toClient[c] /\ toClient[c][1] = m
    BY <1>2, LenProperties, EmptySeq
  <2> QED
    BY <1>3, <2>1 DEF Has
<1>5. m.ic \in ICID
  BY <1>2, <1>4, ToClientTypes
<1>6. /\ s \in Seq(Asks)
      /\ m.type = "FORWARD_EVENT" => Has(s, "SYNC_REPLY")
  <2>1. About("SYNC_REPLY", m.ic) \in Asks
    BY <1>5, AskMessages
  <2>2. Has(<<About("SYNC_REPLY", m.ic)>>, "SYNC_REPLY")
    BY HasOne DEF About
  <2> QED
    BY <2>1, <2>2, EmptySeq DEF Replies
<1>7. s \in Seq(ToServerMessages) /\ ~Has(s, "DISCONNECT")
  BY <1>6, AskSeq
<1>8. /\ Apply(m) /\ toServer' = Send(toServer, c, s)
      /\ mine' = IF m.type = "CREATE_IC_REPLY"
                 THEN [mine EXCEPT ![c] = @ \cup {m.ic}] ELSE mine
      /\ state' = IF m.type \in {"CREATE_IC_REPLY", "REQUEST_REPLY"}
                  THEN [state EXCEPT ![c] = "idle"] ELSE state
      /\ toClient' = [toClient EXCEPT ![c] = Tail(@)]
      /\ UNCHANGED <<serverVars, focus, pressed, moves, requests, opens>>
  BY DEF Receive
<1> HIDE DEF m, s
<1>9. /\ toServer' \in [Clients -> Seq(ToServerMessages)]
      /\ toServer'[c] = toServer[c] \o s
      /\ \A x \in Clients \ {c} : toServer'[x] = toServer[x]
  <2>1. toServer' \in [Clients -> Seq(ToServerMessages)]
    BY <1>2, <1>7, <1>8, SendType
  <2> QED
    BY <1>2, <1>8, <2>1 DEF Send
<1>10. /\ toClient' \in [Clients -> Seq(ToClientMessages)]
       /\ toClient'[c] = Tail(toClient[c])
       /\ \A x \in Clients \ {c} : toClient'[x] = toClient[x]
  BY <1>2, <1>8
<1>11. /\ mine' \in [Clients -> SUBSET ICID]
       /\ state' \in [Clients -> {"idle", "blocked", "leaving"}]
       /\ state'[c] # "leaving"
       /\ \A x \in Clients \ {c} : state'[x] = state[x]
  BY <1>1, <1>2, <1>5, <1>8 DEF ClientTypeOK
<1>12. TypeOK'
  <2>1. ClientTypeOK'
    BY <1>1, <1>2, <1>4, <1>8, <1>11, ApplyType DEF ClientTypeOK
  <2> QED
    BY <1>1, <1>8, <1>9, <1>10, <2>1 DEF TypeOK, ServerTypeOK, ChannelsTypeOK, serverVars
<1>13. BusyOK' /\ PendingMeansSync'
  BY <1>8 DEF Inv, BusyOK, PendingMeansSync, serverVars
<1>14. PartingOK'
  <2> SUFFICES ASSUME NEW x \in Clients PROVE PartingOf(x)'
    BY DEF PartingOK
  <2>1. CASE x = c
    <3>1. ~Has(toServer'[c], "DISCONNECT")
      BY <1>2, <1>3, <1>7, <1>9, HasConcat
    <3>2. ~Has(toClient'[c], "DISCONNECT_REPLY")
      BY <1>2, <1>3, <1>10, HasTail
    <3> QED
      BY <1>11, <2>1, <3>1, <3>2 DEF PartingOf
  <2>2. CASE x # c
    BY <1>8, <1>9, <1>10, <1>11, <2>2 DEF Inv, PartingOK, PartingOf, serverVars
  <2> QED
    BY <2>1, <2>2
<1>15. SyncHasReplyComing'
  <2> SUFFICES ASSUME NEW x \in Clients, sync'[x], state'[x] # "leaving"
               PROVE  ReplyIsComing(x)'
    BY DEF SyncHasReplyComing
  <2>1. CASE x = c
    <3>1. Has(toClient[c], "FORWARD_EVENT") \/ Has(toServer[c], "SYNC_REPLY")
      BY <1>2, <1>8, <2>1 DEF Inv, SyncHasReplyComing, ReplyIsComing, serverVars
    <3>2. /\ Has(toServer[c], "SYNC_REPLY") => Has(toServer'[c], "SYNC_REPLY")
          /\ Has(s, "SYNC_REPLY") => Has(toServer'[c], "SYNC_REPLY")
      BY <1>2, <1>7, <1>9, HasConcat
    <3>3. Has(toClient[c], "FORWARD_EVENT") =>
            m.type = "FORWARD_EVENT" \/ Has(toClient'[c], "FORWARD_EVENT")
      BY <1>2, <1>10, HasTail DEF m
    <3> QED
      BY <1>6, <2>1, <3>1, <3>2, <3>3 DEF ReplyIsComing
  <2>2. CASE x # c
    BY <1>8, <1>9, <1>10, <1>11, <2>2
       DEF Inv, SyncHasReplyComing, ReplyIsComing, serverVars
  <2> QED
    BY <2>1, <2>2
<1> QED
  BY <1>12, <1>13, <1>14, <1>15 DEF Inv

\* When a client that left is answered both channels are empty and the server
\* waits for nothing of it: the connection can be made anew.
LEMMA ReceiveLeavingInv ==
  ASSUME Inv, NEW c \in Clients, ReceiveLeaving(c) PROVE Inv'
<1> DEFINE m == Head(toClient[c])
<1>1. TypeOK /\ ClientTypeOK
  BY DEF Inv, TypeOK
<1>2. /\ toClient \in [Clients -> Seq(ToClientMessages)]
      /\ toClient[c] # <<>> /\ state[c] = "leaving"
      /\ Tail(toClient[c]) \in Seq(ToClientMessages)
  <2>1. toClient \in [Clients -> Seq(ToClientMessages)] /\ toClient[c] # <<>>
    BY <1>1 DEF TypeOK, ChannelsTypeOK, ReceiveLeaving
  <2> QED
    BY <2>1, HeadTailProperties DEF ReceiveLeaving
<1>3. /\ state' = IF m.type = "DISCONNECT_REPLY"
                  THEN [state EXCEPT ![c] = "idle"] ELSE state
      /\ toClient' = [toClient EXCEPT ![c] = Tail(@)]
      /\ UNCHANGED <<serverVars, toServer, mine, shown, app, focus, pressed, moves,
                     requests, opens>>
  BY DEF ReceiveLeaving
<1>4. /\ toClient' \in [Clients -> Seq(ToClientMessages)]
      /\ toClient'[c] = Tail(toClient[c])
      /\ \A x \in Clients \ {c} : toClient'[x] = toClient[x] /\ state'[x] = state[x]
      /\ state' \in [Clients -> {"idle", "blocked", "leaving"}]
      /\ state'[c] = IF m.type = "DISCONNECT_REPLY" THEN "idle" ELSE "leaving"
  BY <1>1, <1>2, <1>3 DEF ClientTypeOK
<1>5. TypeOK'
  BY <1>1, <1>3, <1>4
     DEF TypeOK, ServerTypeOK, ChannelsTypeOK, ClientTypeOK, serverVars
<1>6. BusyOK' /\ PendingMeansSync'
  BY <1>3 DEF Inv, BusyOK, PendingMeansSync, serverVars
<1>7. PartingOf(c)
  BY DEF Inv, PartingOK
<1>8. CASE m.type = "DISCONNECT_REPLY"
  <2>1. Has(toClient[c], "DISCONNECT_REPLY")
    <3>1. 1 \in DOMAIN toClient[c] /\ toClient[c][1] = m
      BY <1>2, LenProperties, EmptySeq
    <3> QED
      BY <1>8, <3>1 DEF Has
  <2>2. /\ toServer[c] = <<>> /\ ~sync[c]
        /\ EndsWith(toClient[c], "DISCONNECT_REPLY")
    BY <1>2, <1>7, <2>1 DEF PartingOf
  <2>3. toClient'[c] = <<>> /\ toServer'[c] = <<>> /\ ~sync'[c]
    BY <1>2, <1>3, <1>4, <1>8, <2>2, EndsWithTail DEF serverVars
  <2>4. PartingOf(c)'
    BY <1>4, <1>8, <2>3 DEF PartingOf, Has
  <2>5. PartingOK'
    BY <1>3, <1>4, <2>4 DEF Inv, PartingOK, PartingOf, serverVars
  <2>6. SyncHasReplyComing'
    BY <1>3, <1>4, <2>3 DEF Inv, SyncHasReplyComing, ReplyIsComing, serverVars
  <2> QED
    BY <1>5, <1>6, <2>5, <2>6 DEF Inv
<1>9. CASE m.type # "DISCONNECT_REPLY"
  <2>1. /\ Has(toClient'[c], "DISCONNECT_REPLY") => Has(toClient[c], "DISCONNECT_REPLY")
        /\ EndsWith(toClient[c], "DISCONNECT_REPLY")
             => EndsWith(toClient'[c], "DISCONNECT_REPLY")
    BY <1>2, <1>4, <1>9, HasTail, EndsWithTail
  <2>2. PartingOf(c)'
    BY <1>2, <1>3, <1>4, <1>7, <1>9, <2>1 DEF PartingOf, serverVars
  <2>3. PartingOK'
    BY <1>3, <1>4, <2>2 DEF Inv, PartingOK, PartingOf, serverVars
  <2>4. SyncHasReplyComing'
    BY <1>3, <1>4, <1>9 DEF Inv, SyncHasReplyComing, ReplyIsComing, serverVars
  <2> QED
    BY <1>5, <1>6, <2>3, <2>4 DEF Inv
<1> QED
  BY <1>8, <1>9

-----------------------------------------------------------------------------
(* The invariant.                                                          *)

\* Nobody is connected, nothing is held and nothing awaited.
LEMMA InitInv == Init => Inv
<1> SUFFICES ASSUME Init PROVE Inv
  OBVIOUS
<1>1. 0 \in 0..MaxLen /\ IdSpace - 1 \in Nat /\ 0 \in ICID
  BY MaxLenPositive, XimAssumption DEF ICID
<1>2. ServerTypeOK
  <2>1. fe \in FrontEndStates
    BY <1>1 DEF Init, FrontEndStates, TriggerNums
  <2>2. Unborn \in Contexts
    BY <1>1 DEF Unborn, Contexts
  <2> QED
    BY <1>1, <2>1, <2>2, EmptySeq, XimAssumption DEF Init, ServerTypeOK, Contexts
<1>3. ChannelsTypeOK
  BY EmptySeq DEF Init, ChannelsTypeOK
<1>4. ClientTypeOK
  BY EmptySeq, XimAssumption DEF Init, ClientTypeOK
<1>5. BusyOK /\ PendingMeansSync /\ SyncHasReplyComing
  BY DEF Init, BusyOK, PendingMeansSync, SyncHasReplyComing
<1>6. PartingOK
  BY DEF Init, PartingOK, PartingOf, Has
<1> QED
  BY <1>2, <1>3, <1>4, <1>5, <1>6 DEF Inv, TypeOK

\* Every step keeps the invariant.
LEMMA NextInv == Inv /\ [Next]_vars => Inv'
<1> SUFFICES ASSUME Inv, [Next]_vars PROVE Inv'
  OBVIOUS
<1>1. ASSUME NEW c \in Clients, Handle(c) PROVE Inv'
  BY <1>1, HandleInv
<1>2. ASSUME NEW c \in Clients, Receive(c) \/ ReceiveLeaving(c) PROVE Inv'
  BY <1>2, ReceiveInv, ReceiveLeavingInv
<1>3. ASSUME NEW c \in Clients, UserAct(c) PROVE Inv'
  BY <1>3, OpenICInv, LeaveInv, CloseICInv, UserResetICInv, TypeKeyInv DEF UserAct
<1>4. ASSUME NEW i \in ICID \cup {NoIC}, MoveFocus(i) PROVE Inv'
  BY <1>4, MoveFocusInv
<1>5. CASE UNCHANGED vars
  BY <1>5, InvStutter
<1> QED
  BY <1>1, <1>2, <1>3, <1>4, <1>5 DEF Next

\* Inv is an invariant of the server with its clients.
THEOREM SpecInv == Spec => []Inv
BY InitInv, NextInv, PTL DEF Spec

\* The state keeps its types whatever the clients do: a preedit never outgrows
\* a word and Queue never holds MAX_BUFFER keys (xim.c:65, 105).
THEOREM TypeCorrect == Spec => []TypeOK
<1>1. Inv => TypeOK
  BY DEF Inv
<1> QED
  BY <1>1, SpecInv, PTL

\* No handler clears client->sync and leaves keys in a pending list that
\* nothing will look at again (i18nPtHdr.c:548, 1625).
THEOREM NoKeyStranded == Spec => []PendingMeansSync
<1>1. Inv => PendingMeansSync
  BY DEF Inv
<1> QED
  BY <1>1, SpecInv, PTL

\* A client whose keys are held back owes the server an answer it has been or
\* will be asked for (i18nMethod.c:909, i18nPtHdr.c:1776).
THEOREM NoWaitForNothing == Spec => []SyncHasReplyComing
<1>1. Inv => SyncHasReplyComing
  BY DEF Inv
<1> QED
  BY <1>1, SpecInv, PTL
=============================================================================
