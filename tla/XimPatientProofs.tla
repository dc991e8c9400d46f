-------------------------- MODULE XimPatientProofs --------------------------
(***************************************************************************)
(* A user who waits for the effect of what he did sees the word he types,  *)
(* and gets the effect of his keys in order, with any number of clients    *)
(* and contexts; with one client he loses none.                            *)
(*                                                                         *)
(* He acts when all channels are empty.  So between two of his actions the *)
(* server hears of one key, of one request, or of one move of the focus,   *)
(* which two clients may tell in either order; the invariant says what     *)
(* each of these may leave behind on its way:                              *)
(*   Calm     what is under way together, and that no key is pending;      *)
(*   Known    the server has a record of every context a client has;       *)
(*   Lit      the word is shown where the focus is, or was, and nowhere    *)
(*            else; with PreeditInStep this gives DisplayIsTheWord;        *)
(*   WordOK   the word was typed there;                                    *)
(*   QueueOK  one key at most is in Queue, the reply that releases it is   *)
(*            to come, and every reply is about the context of the key;    *)
(*   Ordered  what an application has was typed before what is on its way  *)
(*            to it, and that before what the server still has, which      *)
(*            gives EffectInOrder;                                         *)
(*   UnsetFirst, Kept  with one client no word is reset before it is       *)
(*            committed, so that every key is somewhere: NothingLost.      *)
(* They rest on one another, and on Inv, Owners, OnePlace, InTurn and      *)
(* InStep, which hold for every user (XimKeysProofs).                      *)
(***************************************************************************)
EXTENDS XimKeysProofs

-----------------------------------------------------------------------------
(* The parts of the invariant.                                             *)

\* The messages on their way to the server, and to the clients.
Asked == UNION {Elems(toServer[c]) : c \in Clients}
Told  == UNION {Elems(toClient[c]) : c \in Clients}

\* ProcessQueue never runs, for no key is put aside in a pending list.
NonePending == busy = NoClient /\ \A c \in Clients : pending[c] = <<>>

\* Keys and requests are under way alone.
Alone == {"FORWARD_EVENT"} \cup {"CREATE_IC", "DISCONNECT"} \cup Requests

OneThing == \A c \in Clients : \A m \in Elems(toServer[c]) : m.type \in Alone =>
  /\ toServer[c] = <<m>>
  /\ \A d \in Clients : toClient[d] = <<>> /\ (d # c => toServer[d] = <<>>)

\* So is the leaving of a client.
Going == (\E c \in Clients : state[c] = "leaving") =>
  /\ \A m \in Asked : m.type = "DISCONNECT"
  /\ \A m \in Told  : m.type = "DISCONNECT_REPLY"

\* The keyboard goes to a context some client has, and keys and RESET_IC are
\* about that context.
FocusHeld == focus # NoIC => \E c \in Clients : focus \in mine[c]

AtFocus == \A m \in Asked : m.type \in {"FORWARD_EVENT", "RESET_IC"} => m.ic = focus

Calm == NonePending /\ OneThing /\ Going /\ FocusHeld /\ AtFocus

\* The server knows every context a client has; one it does not know is blank.
Known == /\ \A c \in Clients : \A i \in Held(c) : ics[i].live
         /\ \A i \in ICID : ~ics[i].live => ics[i].len = 0

\* The focus has moved, and the server has not yet heard all of it.
Moves == {"SET_IC_FOCUS", "UNSET_IC_FOCUS"}

Moving  == \E m \in Asked : m.type \in Moves
Left(i) == \E m \in Asked : m.type = "UNSET_IC_FOCUS" /\ m.ic = i

\* Only the context that has the focus, or had it, shows a word; while the
\* focus moves the new one is dark.
Lit == /\ \A i \in ICID : ics[i].len > 0 => i = focus \/ Left(i)
       /\ focus # NoIC => ics[focus].len = IF Moving THEN 0 ELSE fe.len

\* The word is counted, and was typed where the focus is or was.
WordOK == /\ fe.len = 0 <=> typed = <<>>
          /\ \A k \in Elems(typed) :
               /\ (\A i \in ICID : ~Left(i)) => k.home = focus
               /\ \A i \in ICID : Left(i) => k.home = i

\* A key waits in Queue alone, behind the commit of the word before it: the
\* answer to that commit is to come, and so no change of the focus is.
QueueOK == /\ Len(queue) <= 1
           /\ queue # <<>> => imsSync /\ typed = <<>>
           /\ \A k \in Elems(queue) :
                /\ \A m \in Asked : m.type = "SYNC_REPLY" => m.ic = k.home
                /\ \A m \in Told : m.type \in {"COMMIT", "FORWARD_EVENT"} => m.ic = k.home
           /\ imsSync => \/ \E m \in Asked : m.type = "SYNC_REPLY"
                         \/ \E m \in Told : m.type = "COMMIT"
           /\ Moving => ~imsSync

\* Of two keys of a context that have an effect, the one typed first is first.
Precedes(k, h) == HasEffect(k) /\ HasEffect(h) /\ k.home = h.home => k.n < h.n
Before(A, B)   == \A k \in A, h \in B : Precedes(k, h)

\* Keys in a row, and messages that carry them so to the context they are for.
InRow(s)     == \A j, p \in DOMAIN s : j < p => Precedes(s[j], s[p])
Rows(s)      == /\ \A j \in DOMAIN s : InRow(Carried(s[j]))
                /\ \A j, p \in DOMAIN s :
                     j < p => Before(Elems(Carried(s[j])), Elems(Carried(s[p])))
Addressed(s) == \A j \in DOMAIN s : \A k \in Elems(Carried(s[j])) : k.home = s[j].ic

\* The keys the server is done with.
Gone == (UNION {Elems(app[i]) : i \in ICID}) \cup (UNION {KeysOf(toClient[c]) : c \in Clients})

\* The keys an application has are before those on their way to it, and both
\* before those the server still has.
Ordered == /\ InRow(typed)
           /\ \A i \in ICID : InRow(app[i]) /\ \A k \in Elems(app[i]) : k.home = i
           /\ \A c \in Clients : Rows(toClient[c]) /\ Addressed(toClient[c])
           /\ \A i \in ICID, c \in Clients : Before(Elems(app[i]), KeysOf(toClient[c]))
           /\ Before(Gone, Elems(typed) \cup Elems(queue))

-----------------------------------------------------------------------------
(* What a step takes from the channels and adds to them.                   *)

\* A user who waits acts when nothing is under way.
LEMMA QuietChannels ==
  ASSUME Quiet
  PROVE  /\ Asked = {} /\ Told = {}
         /\ \A c \in Clients : toServer[c] = <<>> /\ toClient[c] = <<>>
<1>1. \A c \in Clients : toServer[c] = <<>> /\ toClient[c] = <<>>
  BY DEF Quiet
<1>2. \A c \in Clients : Elems(toServer[c]) = {} /\ Elems(toClient[c]) = {}
  BY <1>1, ElemsNone
<1> QED
  BY <1>1, <1>2 DEF Asked, Told

\* What is on one channel is among all.
LEMMA OnChannel ==
  ASSUME NEW c \in Clients
  PROVE  /\ \A m \in Elems(toServer[c]) : m \in Asked
         /\ \A m \in Elems(toClient[c]) : m \in Told
BY DEF Asked, Told

\* A handler takes one message,
LEMMA Taking ==
  ASSUME TypeOK, NEW c \in Clients, NEW type, Incoming(c, type)
  PROVE  LET m == Head(toServer[c])
         IN  /\ m.type = type /\ m \in ToServerMessages /\ m \in Elems(toServer[c])
             /\ m \in Asked /\ Asked = Asked' \cup {m}
             /\ \A d \in Clients : Elems(toServer'[d]) \subseteq Elems(toServer[d])
<1>1. PICK m : m = Head(toServer[c])
  OBVIOUS
<1>2. /\ toServer[c] \in Seq(ToServerMessages) /\ toServer[c] # <<>>
      /\ m \in ToServerMessages /\ m.type = type
      /\ toServer'[c] = Tail(toServer[c])
      /\ \A x \in Clients \ {c} : toServer'[x] = toServer[x]
  BY <1>1, IncomingType
<1>3. Elems(toServer[c]) = {m} \cup Elems(toServer'[c])
  BY <1>1, <1>2, ElemsTail
<1>4. Asked' = UNION {Elems(toServer'[d]) : d \in Clients}
  BY DEF Asked
<1>5. \A d \in Clients : Elems(toServer'[d]) \subseteq Elems(toServer[d])
  BY <1>2, <1>3
<1>6. m \in Asked /\ Asked' \subseteq Asked
  BY <1>3, <1>4, <1>5 DEF Asked
<1>7. ASSUME NEW x \in Asked PROVE x \in Asked' \cup {m}
  <2>1. PICK d \in Clients : x \in Elems(toServer[d])
    BY DEF Asked
  <2>2. x \in Elems(toServer'[d]) \/ x = m
    BY <1>2, <1>3, <2>1
  <2> QED
    BY <1>4, <2>2
<1> QED
  BY <1>1, <1>2, <1>3, <1>5, <1>6, <1>7

\* and adds what it sends.
LEMMA Sending ==
  ASSUME TypeOK, NEW c \in Clients, NEW s \in Seq(ToClientMessages),
         toClient' = Send(toClient, c, s)
  PROVE  Told' = Told \cup Elems(s)
<1>1. /\ toClient[c] \in Seq(ToClientMessages) /\ toClient'[c] = toClient[c] \o s
      /\ \A d \in Clients : d # c => toClient'[d] = toClient[d]
  BY SentKeys DEF TypeOK, ChannelsTypeOK
<1>2. Elems(toClient'[c]) = Elems(toClient[c]) \cup Elems(s)
  BY <1>1, ElemsConcat
<1>3. Told' = UNION {Elems(toClient'[d]) : d \in Clients}
  BY DEF Told
<1>4. ASSUME NEW x \in Told' PROVE x \in Told \cup Elems(s)
  <2>1. PICK d \in Clients : x \in Elems(toClient'[d])
    BY <1>3
  <2>2. x \in Elems(toClient[d]) \/ x \in Elems(s)
    BY <1>1, <1>2, <2>1
  <2> QED
    BY <2>2 DEF Told
<1>5. ASSUME NEW x \in Told PROVE x \in Told'
  <2>1. PICK d \in Clients : x \in Elems(toClient[d])
    BY DEF Told
  <2>2. x \in Elems(toClient'[d])
    BY <1>1, <1>2, <2>1
  <2> QED
    BY <1>3, <2>2
<1>6. Elems(s) \subseteq Told'
  BY <1>2, <1>3
<1> QED
  BY <1>4, <1>5, <1>6

\* A client takes one message and adds its reply.
LEMMA Hearing ==
  ASSUME Inv, NEW c \in Clients, Receive(c)
  PROVE  LET m == Head(toClient[c])
         IN  /\ m \in Told /\ m \in Elems(toClient[c]) /\ m.type # "DISCONNECT_REPLY"
             /\ Told = Told' \cup {m} /\ Asked' = Asked \cup Elems(Replies(m))
             /\ \A x \in Elems(Replies(m)) : x.type = "SYNC_REPLY" /\ x.ic = m.ic
                                               /\ m.type \in {"COMMIT", "FORWARD_EVENT"}
             /\ \A d \in Clients : Elems(toClient'[d]) \subseteq Elems(toClient[d])
<1>1. PICK m : m = Head(toClient[c])
  OBVIOUS
<1>2. /\ toClient[c] \in Seq(ToClientMessages) /\ toClient[c] # <<>>
      /\ toServer[c] \in Seq(ToServerMessages) /\ m.type # "DISCONNECT_REPLY"
      /\ Replies(m) \in Seq(ToServerMessages)
      /\ toServer'[c] = toServer[c] \o Replies(m)
      /\ \A x \in Clients \ {c} : toServer'[x] = toServer[x]
      /\ toClient'[c] = Tail(toClient[c])
      /\ \A x \in Clients \ {c} : toClient'[x] = toClient[x]
  BY <1>1, Received
<1>3. Elems(toClient[c]) = {m} \cup Elems(toClient'[c])
  BY <1>1, <1>2, ElemsTail
<1>4. Elems(toServer'[c]) = Elems(toServer[c]) \cup Elems(Replies(m))
  BY <1>2, ElemsConcat
<1>5. /\ Told' = UNION {Elems(toClient'[d]) : d \in Clients}
      /\ Asked' = UNION {Elems(toServer'[d]) : d \in Clients}
  BY DEF Asked, Told
<1>6. \A d \in Clients : Elems(toClient'[d]) \subseteq Elems(toClient[d])
  BY <1>2, <1>3
<1>7. m \in Told /\ Told' \subseteq Told
  BY <1>3, <1>5, <1>6 DEF Told
<1>8. ASSUME NEW x \in Told PROVE x \in Told' \cup {m}
  <2>1. PICK d \in Clients : x \in Elems(toClient[d])
    BY DEF Told
  <2>2. x \in Elems(toClient'[d]) \/ x = m
    BY <1>2, <1>3, <2>1
  <2> QED
    BY <1>5, <2>2
<1>9. ASSUME NEW x \in Asked' PROVE x \in Asked \cup Elems(Replies(m))
  <2>1. PICK d \in Clients : x \in Elems(toServer'[d])
    BY <1>5
  <2>2. x \in Elems(toServer[d]) \/ x \in Elems(Replies(m))
    BY <1>2, <1>4, <2>1
  <2> QED
    BY <2>2 DEF Asked
<1>10. ASSUME NEW x \in Asked PROVE x \in Asked'
  <2>1. PICK d \in Clients : x \in Elems(toServer[d])
    BY DEF Asked
  <2>2. x \in Elems(toServer'[d])
    BY <1>2, <1>4, <2>1
  <2> QED
    BY <1>5, <2>2
<1>11. Elems(Replies(m)) \subseteq Asked'
  BY <1>4, <1>5
<1>12. \A x \in Elems(Replies(m)) : x.type = "SYNC_REPLY" /\ x.ic = m.ic
                                      /\ m.type \in {"COMMIT", "FORWARD_EVENT"}
  BY DEF Replies, Elems, About
<1> QED
  BY <1>1, <1>2, <1>3, <1>6, <1>7, <1>8, <1>9, <1>10, <1>11, <1>12

\* A client that leaves takes one.
LEMMA HearingLast ==
  ASSUME TypeOK, NEW c \in Clients, ReceiveLeaving(c)
  PROVE  LET m == Head(toClient[c])
         IN  /\ m \in Told /\ Told = Told' \cup {m} /\ Asked' = Asked
             /\ \A d \in Clients : Elems(toClient'[d]) \subseteq Elems(toClient[d])
             /\ toClient[c] \in Seq(ToClientMessages) /\ toClient[c] # <<>>
             /\ toClient'[c] = Tail(toClient[c])
             /\ \A x \in Clients \ {c} : toClient'[x] = toClient[x]
<1>1. PICK m : m = Head(toClient[c])
  OBVIOUS
<1>2. /\ toClient[c] \in Seq(ToClientMessages) /\ toClient[c] # <<>>
      /\ toClient'[c] = Tail(toClient[c])
      /\ \A x \in Clients \ {c} : toClient'[x] = toClient[x]
      /\ toServer' = toServer
  BY DEF TypeOK, ChannelsTypeOK, ReceiveLeaving
<1>3. Elems(toClient[c]) = {m} \cup Elems(toClient'[c])
  BY <1>1, <1>2, ElemsTail
<1>4. Told' = UNION {Elems(toClient'[d]) : d \in Clients} /\ Asked' = Asked
  BY <1>2 DEF Asked, Told
<1>5. \A d \in Clients : Elems(toClient'[d]) \subseteq Elems(toClient[d])
  BY <1>2, <1>3
<1>6. m \in Told /\ Told' \subseteq Told
  BY <1>3, <1>4, <1>5 DEF Told
<1>7. ASSUME NEW x \in Told PROVE x \in Told' \cup {m}
  <2>1. PICK d \in Clients : x \in Elems(toClient[d])
    BY DEF Told
  <2>2. x \in Elems(toClient'[d]) \/ x = m
    BY <1>2, <1>3, <2>1
  <2> QED
    BY <1>4, <2>2
<1> QED
  BY <1>1, <1>2, <1>4, <1>5, <1>6, <1>7

\* A client that asks something of its own.
LEMMA Asking1 ==
  ASSUME TypeOK, NEW c \in Clients, NEW m \in ToServerMessages, Quiet,
         toServer' = Send(toServer, c, <<m>>), toClient' = toClient
  PROVE  /\ Asked' = {m} /\ Told' = {} /\ toServer'[c] = <<m>>
         /\ \A d \in Clients : toClient'[d] = <<>> /\ (d # c => toServer'[d] = <<>>)
<1>1. /\ toServer \in [Clients -> Seq(ToServerMessages)]
      /\ \A d \in Clients : toServer[d] = <<>> /\ toClient[d] = <<>>
  BY QuietChannels DEF TypeOK, ChannelsTypeOK
<1>2. toServer'[c] = <<>> \o <<m>> /\ \A d \in Clients : d # c => toServer'[d] = <<>>
  BY <1>1 DEF Send
<1>3. <<>> \o <<m>> = <<m>>
  OBVIOUS
<1>4. toServer'[c] = <<m>>
  BY <1>2, <1>3
<1>5. \A x \in Elems(toServer'[c]) : x = m
  BY <1>4, ElemsOne
<1>6. \A d \in Clients : d # c => Elems(toServer'[d]) = {}
  BY <1>2, ElemsNone
<1>7. Asked' = UNION {Elems(toServer'[d]) : d \in Clients}
  BY DEF Asked
<1>8. m \in Elems(toServer'[c])
  BY <1>4, ElemsOne
<1>9. Asked' = {m}
  BY <1>5, <1>6, <1>7, <1>8
<1>10. Told' = {}
  BY QuietChannels DEF Told
<1> QED
  BY <1>1, <1>2, <1>4, <1>9, <1>10

\* The user moves the focus: the old context is told, and the new one.
LEMMA MovingAsks ==
  ASSUME Patient, TypeOK, FocusHeld, NEW i \in ICID \cup {NoIC}, MoveFocus(i)
  PROVE  /\ Quiet /\ Told' = {} /\ UNCHANGED <<serverVars, toClient, shown, app, mine, state, pressed>>
         /\ focus' = i /\ i # focus
         /\ \A x \in Asked' : /\ x.type \in Moves
                              /\ x.type = "UNSET_IC_FOCUS" => x.ic = focus /\ focus # NoIC
                              /\ x.type = "SET_IC_FOCUS" => x.ic = i /\ i # NoIC
         /\ focus # NoIC => \E x \in Asked' : x.type = "UNSET_IC_FOCUS"
         /\ i # NoIC => \E x \in Asked' : x.type = "SET_IC_FOCUS"
         /\ \A c \in Clients : \A j \in DOMAIN toServer'[c] :
              /\ toServer'[c][j].type \in Moves
              /\ focus \in mine[c] => \E p \in DOMAIN toServer'[c] :
                   /\ toServer'[c][p].type = "UNSET_IC_FOCUS"
                   /\ toServer'[c][j].type = "SET_IC_FOCUS" => p < j
<1>1. /\ Quiet /\ UNCHANGED <<serverVars, toClient, shown, app, mine, state, pressed>>
      /\ focus' = i /\ i # focus /\ (i # NoIC => Clientele(i) # {})
  BY DEF MoveFocus, UserReady
<1>2. Told' = {} /\ \A c \in Clients : toServer[c] = <<>>
  BY <1>1, QuietChannels DEF Told
<1> DEFINE u(c) == IF c \in Clientele(focus) THEN <<About("UNSET_IC_FOCUS", focus)>> ELSE <<>>
           v(c) == IF c \in Clientele(i) THEN <<About("SET_IC_FOCUS", i)>> ELSE <<>>
<1>3. ASSUME NEW c \in Clients PROVE toServer'[c] = u(c) \o v(c)
  <2>1. toServer'[c] = toServer[c] \o u(c) \o v(c)
    BY DEF MoveFocus
  <2>2. toServer'[c] = <<>> \o u(c) \o v(c)
    BY <1>2, <2>1
  <2> QED
    BY <2>2
<1>4. \A j : \A c \in Clientele(j) : c \in Clients /\ j \in mine[c] /\ j \in ICID /\ j # NoIC
  BY DEF Clientele, TypeOK, ClientTypeOK, ICID, NoIC
<1>5. Asked' = UNION {Elems(toServer'[c]) : c \in Clients}
  BY DEF Asked
<1>6. ASSUME NEW c \in Clients
      PROVE  /\ c \in Clientele(focus) => /\ 1 \in DOMAIN toServer'[c]
                                          /\ toServer'[c][1] = About("UNSET_IC_FOCUS", focus)
             /\ c \in Clientele(i) => \E j \in DOMAIN toServer'[c] :
                                         toServer'[c][j] = About("SET_IC_FOCUS", i)
             /\ \A j \in DOMAIN toServer'[c] :
                  \/ /\ c \in Clientele(focus)
                     /\ toServer'[c][j] = About("UNSET_IC_FOCUS", focus)
                  \/ /\ c \in Clientele(i) /\ toServer'[c][j] = About("SET_IC_FOCUS", i)
                     /\ c \in Clientele(focus) => 1 < j
  <2>1. CASE c \in Clientele(focus) /\ c \in Clientele(i)
    <3>1. toServer'[c] = <<About("UNSET_IC_FOCUS", focus), About("SET_IC_FOCUS", i)>>
      BY <1>3, <2>1
    <3> QED
      BY <2>1, <3>1
  <2>2. CASE c \in Clientele(focus) /\ c \notin Clientele(i)
    <3>1. toServer'[c] = <<About("UNSET_IC_FOCUS", focus)>>
      BY <1>3, <2>2
    <3> QED
      BY <2>2, <3>1
  <2>3. CASE c \notin Clientele(focus) /\ c \in Clientele(i)
    <3>1. toServer'[c] = <<About("SET_IC_FOCUS", i)>>
      BY <1>3, <2>3
    <3> QED
      BY <2>3, <3>1
  <2>4. CASE c \notin Clientele(focus) /\ c \notin Clientele(i)
    <3>1. toServer'[c] = <<>>
      BY <1>3, <2>4
    <3> QED
      BY <2>4, <3>1
  <2> QED
    BY <2>1, <2>2, <2>3, <2>4
<1> HIDE DEF u, v
<1>7. /\ About("UNSET_IC_FOCUS", focus).type = "UNSET_IC_FOCUS"
      /\ About("UNSET_IC_FOCUS", focus).ic = focus
      /\ About("SET_IC_FOCUS", i).type = "SET_IC_FOCUS" /\ About("SET_IC_FOCUS", i).ic = i
  BY DEF About
<1>8. ASSUME NEW x \in Asked'
      PROVE  /\ x.type \in Moves
             /\ x.type = "UNSET_IC_FOCUS" => x.ic = focus /\ focus # NoIC
             /\ x.type = "SET_IC_FOCUS" => x.ic = i /\ i # NoIC
  <2>1. PICK c \in Clients : x \in Elems(toServer'[c])
    BY <1>5
  <2>2. PICK j \in DOMAIN toServer'[c] : x = toServer'[c][j]
    BY <2>1 DEF Elems
  <2> QED
    BY <1>4, <1>6, <1>7, <2>2 DEF Moves
<1>9. \A c \in Clients : \A j \in DOMAIN toServer'[c] : toServer'[c][j] \in Asked'
  BY <1>5 DEF Elems
<1>10. focus # NoIC => \E x \in Asked' : x.type = "UNSET_IC_FOCUS"
  <2> SUFFICES ASSUME focus # NoIC PROVE \E x \in Asked' : x.type = "UNSET_IC_FOCUS"
    OBVIOUS
  <2>1. PICK c \in Clients : c \in Clientele(focus)
    BY DEF FocusHeld, Clientele
  <2> QED
    BY <1>6, <1>7, <1>9, <2>1
<1>11. i # NoIC => \E x \in Asked' : x.type = "SET_IC_FOCUS"
  <2> SUFFICES ASSUME i # NoIC PROVE \E x \in Asked' : x.type = "SET_IC_FOCUS"
    OBVIOUS
  <2>1. PICK c \in Clients : c \in Clientele(i)
    BY <1>1 DEF Clientele
  <2> QED
    BY <1>6, <1>7, <1>9, <2>1
<1>12. ASSUME NEW c \in Clients, NEW j \in DOMAIN toServer'[c]
       PROVE  /\ toServer'[c][j].type \in Moves
              /\ focus \in mine[c] => \E p \in DOMAIN toServer'[c] :
                   /\ toServer'[c][p].type = "UNSET_IC_FOCUS"
                   /\ toServer'[c][j].type = "SET_IC_FOCUS" => p < j
  <2>1. toServer'[c][j].type \in Moves
    BY <1>6, <1>7 DEF Moves
  <2>2. ASSUME focus \in mine[c]
        PROVE  \E p \in DOMAIN toServer'[c] :
                   /\ toServer'[c][p].type = "UNSET_IC_FOCUS"
                   /\ toServer'[c][j].type = "SET_IC_FOCUS" => p < j
    <3>1. c \in Clientele(focus)
      BY <2>2 DEF Clientele
    <3> QED
      BY <1>6, <1>7, <3>1
  <2> QED
    BY <2>1, <2>2
<1> QED
  BY <1>1, <1>2, <1>8, <1>10, <1>11, <1>12

\* Anything else a user does is one message, of a key or a request; his focus
\* stays where it is, in a context that stays open.
LEMMA UserAsks ==
  ASSUME Patient, Inv, FocusHeld, NEW c \in Clients, UserAct(c)
  PROVE  /\ Quiet /\ UNCHANGED <<serverVars, toClient, shown, app, focus>> /\ FocusHeld'
         /\ \A d \in Clients : mine'[d] \subseteq mine[d]
         /\ \E m \in ToServerMessages :
              /\ toServer' = Send(toServer, c, <<m>>) /\ m.type \in Alone
              /\ m.type \in {"FORWARD_EVENT", "RESET_IC"} => m.ic = focus
              /\ \A d \in Clients : state'[d] = "leaving" => m.type = "DISCONNECT"
              /\ m.type # "FORWARD_EVENT" => pressed' = pressed
              /\ m.type = "FORWARD_EVENT" => pressed' = pressed + 1 /\ m.key.n = pressed + 1
<1>1. Quiet
  BY DEF UserAct, OpenIC, Leave, CloseIC, ResetIC, TypeKey, UserReady
<1>2. \A d \in Clients : toServer[d] = <<>> /\ toClient[d] = <<>>
  BY <1>1, QuietChannels
<1>3. \A d \in Clients : state[d] # "leaving"
  BY <1>2 DEF Inv, PartingOK, PartingOf, EndsWith
<1>4. ClientTypeOK
  BY DEF Inv, TypeOK
<1>5. CASE OpenIC(c)
  <2>1. PICK m : m = Plain("CREATE_IC")
    OBVIOUS
  <2>2. m \in ToServerMessages /\ m.type = "CREATE_IC"
    BY <2>1 DEF Plain, ToServerMessages
  <2>3. /\ toServer' = Send(toServer, c, <<m>>)
        /\ UNCHANGED <<serverVars, toClient, shown, app, focus, mine, pressed>>
        /\ state' = [state EXCEPT ![c] = "blocked"]
    BY <1>5, <2>1 DEF OpenIC
  <2>4. \A d \in Clients : state'[d] # "leaving"
    BY <1>3, <1>4, <2>3 DEF ClientTypeOK
  <2> QED
    BY <1>1, <2>2, <2>3, <2>4 DEF Alone, FocusHeld
<1>6. CASE Leave(c)
  <2>1. PICK m : m = Plain("DISCONNECT")
    OBVIOUS
  <2>2. m \in ToServerMessages /\ m.type = "DISCONNECT"
    BY <2>1 DEF Plain, ToServerMessages
  <2>3. /\ toServer' = Send(toServer, c, <<m>>)
        /\ UNCHANGED <<serverVars, toClient, shown, app, pressed>>
        /\ mine' = [mine EXCEPT ![c] = {}] /\ focus \notin mine[c] /\ focus' = focus
    BY <1>6, <2>1 DEF Leave
  <2>4. /\ \A d \in Clients : mine'[d] \subseteq mine[d]
        /\ \A d \in Clients : focus \in mine[d] => focus \in mine'[d]
    BY <1>4, <2>3 DEF ClientTypeOK
  <2>5. FocusHeld'
    BY <2>3, <2>4 DEF FocusHeld
  <2> QED
    BY <1>1, <2>2, <2>3, <2>4, <2>5 DEF Alone
<1>7. ASSUME NEW i \in ICID, CloseIC(c, i)
      PROVE  /\ UNCHANGED <<serverVars, toClient, shown, app, focus>> /\ FocusHeld'
             /\ \A d \in Clients : mine'[d] \subseteq mine[d]
             /\ \E m \in ToServerMessages :
                  /\ toServer' = Send(toServer, c, <<m>>) /\ m.type = "DESTROY_IC"
                  /\ \A d \in Clients : state'[d] # "leaving"
                  /\ pressed' = pressed
  <2>1. PICK m : m = About("DESTROY_IC", i)
    OBVIOUS
  <2>2. m \in ToServerMessages /\ m.type = "DESTROY_IC"
    BY <2>1 DEF About, ToServerMessages, Requests
  <2>3. /\ toServer' = Send(toServer, c, <<m>>)
        /\ UNCHANGED <<serverVars, toClient, shown, app, pressed>>
        /\ mine' = [mine EXCEPT ![c] = @ \ {i}] /\ focus # i /\ focus' = focus
        /\ state' = [state EXCEPT ![c] = "blocked"]
    BY <1>7, <2>1 DEF CloseIC
  <2>4. \A d \in Clients : state'[d] # "leaving"
    BY <1>3, <1>4, <2>3 DEF ClientTypeOK
  <2>5. /\ \A d \in Clients : mine'[d] \subseteq mine[d]
        /\ \A d \in Clients : focus \in mine[d] => focus \in mine'[d]
    BY <1>4, <2>3 DEF ClientTypeOK
  <2>6. FocusHeld'
    BY <2>3, <2>5 DEF FocusHeld
  <2> QED
    BY <2>2, <2>3, <2>4, <2>5, <2>6
<1>8. ASSUME NEW i \in ICID, ResetIC(c, i)
      PROVE  /\ UNCHANGED <<serverVars, toClient, shown, app, focus, mine>>
             /\ \E m \in ToServerMessages :
                  /\ toServer' = Send(toServer, c, <<m>>) /\ m.type = "RESET_IC" /\ m.ic = focus
                  /\ \A d \in Clients : state'[d] # "leaving"
                  /\ pressed' = pressed
  <2>1. PICK m : m = About("RESET_IC", i)
    OBVIOUS
  <2>2. m \in ToServerMessages /\ m.type = "RESET_IC" /\ m.ic = i
    BY <2>1 DEF About, ToServerMessages, Requests
  <2>3. /\ toServer' = Send(toServer, c, <<m>>) /\ i = focus
        /\ UNCHANGED <<serverVars, toClient, shown, app, pressed, mine, focus>>
        /\ state' = [state EXCEPT ![c] = "blocked"]
    BY <1>8, <2>1 DEF ResetIC
  <2>4. \A d \in Clients : state'[d] # "leaving"
    BY <1>3, <1>4, <2>3 DEF ClientTypeOK
  <2> QED
    BY <2>2, <2>3, <2>4
<1>9. ASSUME NEW ev \in Keyboard, TypeKey(c, ev)
      PROVE  /\ UNCHANGED <<serverVars, toClient, shown, app, focus, mine, state>>
             /\ \E m \in ToServerMessages :
                  /\ toServer' = Send(toServer, c, <<m>>) /\ m.type = "FORWARD_EVENT"
                  /\ m.ic = focus /\ pressed' = pressed + 1 /\ m.key.n = pressed + 1
  <2>1. PICK k : k = [n |-> pressed + 1, ev |-> ev, home |-> focus]
    OBVIOUS
  <2>2. PICK m : m = Forward(focus, k)
    OBVIOUS
  <2>3. /\ toServer' = Send(toServer, c, <<m>>) /\ pressed' = pressed + 1
        /\ UNCHANGED <<serverVars, toClient, shown, app, focus, mine, state>>
        /\ focus \in mine[c] /\ pressed < MaxKeys
    BY <1>9, <2>1, <2>2 DEF TypeKey
  <2>4. k \in Keys /\ focus \in ICID
    BY <1>4, <2>1, <2>3, XimAssumption DEF ClientTypeOK, Keys
  <2>5. m \in ToServerMessages /\ m.type = "FORWARD_EVENT" /\ m.ic = focus /\ m.key = k
    BY <2>2, <2>4 DEF Forward, ToServerMessages
  <2>6. m.key.n = pressed + 1
    BY <2>1, <2>5
  <2> QED
    BY <2>3, <2>5, <2>6
<1>10. "DESTROY_IC" \in Alone /\ "RESET_IC" \in Alone /\ "FORWARD_EVENT" \in Alone
  BY DEF Alone, Requests
<1>11. UNCHANGED <<focus, mine>> => FocusHeld'
  BY DEF FocusHeld
<1> QED
  BY <1>1, <1>3, <1>5, <1>6, <1>7, <1>8, <1>9, <1>10, <1>11 DEF UserAct
-----------------------------------------------------------------------------
(* One thing at a time.                                                    *)

\* A message that is under way alone leaves nothing when it is taken.
LEMMA AloneTaken ==
  ASSUME TypeOK, OneThing, NEW c \in Clients, NEW type \in Alone, Incoming(c, type)
  PROVE  /\ Asked' = {} /\ Asked = {Head(toServer[c])} /\ Told = {}
         /\ toServer[c] = <<Head(toServer[c])>>
         /\ \A d \in Clients : toClient[d] = <<>> /\ toServer'[d] = <<>>
                               /\ (d # c => toServer[d] = <<>>)
<1>1. PICK m : m = Head(toServer[c])
  OBVIOUS
<1>2. /\ m.type = type /\ m \in Elems(toServer[c]) /\ m \in Asked
      /\ toServer'[c] = Tail(toServer[c])
      /\ \A x \in Clients \ {c} : toServer'[x] = toServer[x]
  BY <1>1, Taking, IncomingType
<1>3. /\ toServer[c] = <<m>>
      /\ \A d \in Clients : toClient[d] = <<>> /\ (d # c => toServer[d] = <<>>)
  BY <1>2 DEF OneThing
<1>4. toServer'[c] = <<>>
  BY <1>2, <1>3
<1>5. \A d \in Clients : toServer'[d] = <<>>
  BY <1>2, <1>3, <1>4
<1>6. Asked' = UNION {Elems(toServer'[d]) : d \in Clients}
  BY DEF Asked
<1>7. \A d \in Clients : Elems(toServer'[d]) = {} /\ Elems(toClient[d]) = {}
  BY <1>3, <1>5, ElemsNone
<1>8. Elems(toServer[c]) = {m} /\ \A d \in Clients : d # c => Elems(toServer[d]) = {}
  BY <1>3, ElemsOne, ElemsNone
<1>9. Asked' = {} /\ Told = {}
  BY <1>6, <1>7 DEF Told
<1>10. Asked = {m}
  BY <1>8 DEF Asked
<1> QED
  BY <1>1, <1>3, <1>5, <1>9, <1>10

\* So no handler finds anything under way that was under way alone.
LEMMA OneThingTaken ==
  ASSUME TypeOK, OneThing, NEW c \in Clients, NEW type, Incoming(c, type)
  PROVE  /\ \A m \in Asked' : m.type \notin Alone
         /\ OneThing'
<1>1. ASSUME NEW d \in Clients, NEW m \in Elems(toServer'[d]), m.type \in Alone PROVE FALSE
  <2>1. m \in Elems(toServer[d])
    BY Taking
  <2>2. toServer[d] = <<m>> /\ \A x \in Clients : x # d => toServer[x] = <<>>
    BY <1>1, <2>1 DEF OneThing
  <2>3. toServer[c] # <<>> /\ toServer'[c] = Tail(toServer[c])
    BY IncomingType
  <2>4. c = d
    BY <2>2, <2>3
  <2>5. Tail(<<m>>) = <<>>
    OBVIOUS
  <2>6. toServer'[d] = <<>>
    BY <2>2, <2>3, <2>4, <2>5
  <2> QED
    BY <1>1, <2>6, ElemsNone
<1>2. Asked' = UNION {Elems(toServer'[d]) : d \in Clients}
  BY DEF Asked
<1>3. OneThing'
  BY <1>1 DEF OneThing
<1> QED
  BY <1>1, <1>2, <1>3

\* The client of a key that comes does not wait for a reply: its answer would
\* be under way.
LEMMA NotSynchronous ==
  ASSUME Inv, Calm, NEW c \in Clients, Incoming(c, "FORWARD_EVENT")
  PROVE  ~sync[c]
<1> SUFFICES ASSUME sync[c] PROVE FALSE
  OBVIOUS
<1>1. TypeOK /\ OneThing /\ "FORWARD_EVENT" \in Alone
  BY DEF Inv, Calm, Alone
<1>2. PICK m : m = Head(toServer[c])
  OBVIOUS
<1>3. m.type = "FORWARD_EVENT" /\ toServer[c] = <<m>> /\ toClient[c] = <<>>
  BY <1>1, <1>2, Taking, AloneTaken
<1>4. ~Has(toClient[c], "FORWARD_EVENT")
  BY <1>3 DEF Has
<1>5. ~Has(toServer[c], "SYNC_REPLY")
  BY <1>3, HasOne
<1>6. state[c] # "leaving"
  <2>1. ~EndsWith(toServer[c], "DISCONNECT")
    BY <1>3 DEF EndsWith
  <2> QED
    BY <1>3, <2>1 DEF Inv, PartingOK, PartingOf
<1> QED
  BY <1>4, <1>5, <1>6 DEF Inv, SyncHasReplyComing, ReplyIsComing

\* What a handler does to a server that is calm.  It takes a message of one
\* client, and ProcessQueue finds nothing to do.
LEMMA CalmHandlers ==
  ASSUME Inv, Calm, NEW c \in Clients, Handle(c)
  PROVE  /\ NonePending' /\ UNCHANGED clientVars
         /\ \/ /\ Incoming(c, "FORWARD_EVENT") /\ HandleForwardEvent(c)
               /\ ProcessKey(c, Head(toServer[c]).ic, Head(toServer[c]).key)
            \/ /\ Incoming(c, "SYNC_REPLY") /\ HandleSyncReply(c)
            \/ /\ Incoming(c, "CREATE_IC") /\ HandleCreateIC(c)
            \/ /\ Incoming(c, "DESTROY_IC") /\ HandleDestroyIC(c)
            \/ /\ Incoming(c, "SET_IC_FOCUS") /\ HandleSetFocus(c)
            \/ /\ Incoming(c, "UNSET_IC_FOCUS") /\ HandleUnsetFocus(c)
               /\ GiveUpWord(c, Head(toServer[c]).ic, <<>>)
            \/ /\ Incoming(c, "RESET_IC") /\ HandleResetIC(c)
               /\ GiveUpWord(c, Head(toServer[c]).ic, <<About("REQUEST_REPLY", Head(toServer[c]).ic)>>)
            \/ /\ Incoming(c, "DISCONNECT") /\ HandleDisconnect(c)
<1>1. /\ NonePending /\ busy = NoClient /\ \A d \in Clients : pending[d] = <<>>
      /\ pending \in [Clients -> Seq(PendingMessages)] /\ NoClient \notin Clients
  BY XimAssumption DEF Calm, NonePending, Inv, TypeOK, ServerTypeOK
<1>2. CASE HandleForwardEvent(c)
  <2>1. ~sync[c]
    BY <1>2, NotSynchronous DEF HandleForwardEvent
  <2> QED
    BY <1>1, <1>2, <2>1 DEF HandleForwardEvent, NonePending
<1>3. CASE HandleSyncReply(c)
  BY <1>1, <1>3 DEF HandleSyncReply, NonePending
<1>4. CASE DrainPending(c)
  BY <1>1, <1>4 DEF DrainPending
<1>5. CASE HandleCreateIC(c)
  BY <1>1, <1>5 DEF HandleCreateIC, NonePending
<1>6. CASE HandleDestroyIC(c)
  BY <1>1, <1>6 DEF HandleDestroyIC, NonePending
<1>7. CASE HandleSetFocus(c)
  BY <1>1, <1>7 DEF HandleSetFocus, NonePending
<1>8. CASE HandleUnsetFocus(c)
  BY <1>1, <1>8 DEF HandleUnsetFocus, GiveUpWord, NonePending
<1>9. CASE HandleResetIC(c)
  BY <1>1, <1>9 DEF HandleResetIC, GiveUpWord, NonePending
<1>10. CASE HandleDisconnect(c)
  <2>1. \A d \in Clients : pending'[d] = <<>>
    BY <1>1, <1>10 DEF HandleDisconnect
  <2> QED
    BY <1>1, <1>10, <2>1 DEF HandleDisconnect, NonePending
<1> QED
  BY <1>2, <1>3, <1>4, <1>5, <1>6, <1>7, <1>8, <1>9, <1>10 DEF Handle

\* The handlers keep the calm.
LEMMA HandleCalm ==
  ASSUME Inv, Calm, NEW c \in Clients, Handle(c) PROVE Calm'
<1>1. TypeOK /\ OneThing /\ AtFocus /\ FocusHeld /\ Going
  BY DEF Inv, Calm
<1>2. NonePending' /\ UNCHANGED clientVars
  BY CalmHandlers
<1>3. UNCHANGED <<focus, mine, state>>
  BY <1>2 DEF clientVars
<1>4. PICK type : Incoming(c, type) /\ (type = "DISCONNECT" => HandleDisconnect(c))
  <2>1. \/ \E type \in {"FORWARD_EVENT", "SYNC_REPLY", "CREATE_IC", "DESTROY_IC", "SET_IC_FOCUS",
                       "UNSET_IC_FOCUS", "RESET_IC"} : Incoming(c, type)
        \/ Incoming(c, "DISCONNECT") /\ HandleDisconnect(c)
    BY CalmHandlers
  <2> QED
    BY <2>1
<1>5. OneThing'
  BY <1>1, <1>4, OneThingTaken
<1>6. PICK m : m = Head(toServer[c])
  OBVIOUS
<1>7. m.type = type /\ m \in Asked /\ Asked' \subseteq Asked
  BY <1>1, <1>4, <1>6, Taking
<1>8. AtFocus' /\ FocusHeld'
  BY <1>1, <1>3, <1>7 DEF AtFocus, FocusHeld
<1>9. Going'
  <2> SUFFICES ASSUME \E d \in Clients : state'[d] = "leaving"
               PROVE  /\ \A x \in Asked' : x.type = "DISCONNECT"
                      /\ \A x \in Told'  : x.type = "DISCONNECT_REPLY"
    BY DEF Going
  <2>1. /\ \A x \in Asked : x.type = "DISCONNECT"
        /\ \A x \in Told  : x.type = "DISCONNECT_REPLY"
    BY <1>1, <1>3 DEF Going
  <2>2. HandleDisconnect(c)
    BY <1>4, <1>7, <2>1
  <2>3. PICK r : r = Plain("DISCONNECT_REPLY")
    OBVIOUS
  <2>4. r \in ToClientMessages /\ r.type = "DISCONNECT_REPLY"
    BY <2>3 DEF Plain, ToClientMessages
  <2>5. toClient' = Send(toClient, c, <<r>>) /\ <<r>> \in Seq(ToClientMessages)
    BY <2>2, <2>3, <2>4 DEF HandleDisconnect
  <2>6. Told' = Told \cup {r}
    BY <1>1, <2>5, Sending, ElemsOne
  <2> QED
    BY <1>7, <2>1, <2>4, <2>6
<1> QED
  BY <1>2, <1>5, <1>8, <1>9 DEF Calm

\* So do the clients,
LEMMA ReceiveCalm ==
  ASSUME Inv, Calm, NEW c \in Clients, Receive(c) PROVE Calm'
<1>1. TypeOK /\ NonePending /\ OneThing /\ AtFocus /\ FocusHeld /\ Going
  BY DEF Inv, Calm
<1>2. PICK m : m = Head(toClient[c])
  OBVIOUS
<1>3. /\ m \in Told /\ m.type # "DISCONNECT_REPLY"
      /\ Told = Told' \cup {m} /\ Asked' = Asked \cup Elems(Replies(m))
      /\ \A x \in Elems(Replies(m)) : x.type = "SYNC_REPLY"
  BY <1>2, Hearing
<1>4. /\ toClient[c] # <<>> /\ UNCHANGED serverVars
      /\ \A x \in Clients \ {c} : mine'[x] = mine[x] /\ state'[x] = state[x]
      /\ mine[c] \subseteq mine'[c] /\ state[c] # "leaving"
      /\ state'[c] = IF m.type \in Answering THEN "idle" ELSE state[c]
  BY <1>2, Received
<1>5. focus' = focus
  BY DEF Receive
<1>6. NonePending'
  BY <1>1, <1>4 DEF NonePending, serverVars
<1>7. \A x \in Asked' : x.type \notin Alone
  <2>1. \A x \in Asked : x.type \notin Alone
    BY <1>1, <1>4 DEF OneThing, Asked
  <2> QED
    BY <1>3, <2>1 DEF Alone, Requests
<1>8. OneThing'
  <2>1. \A d \in Clients : \A x \in Elems(toServer'[d]) : x \in Asked'
    BY DEF Asked
  <2> QED
    BY <1>7, <2>1 DEF OneThing
<1>9. AtFocus'
  BY <1>1, <1>3, <1>5 DEF AtFocus
<1>10. FocusHeld'
  BY <1>1, <1>4, <1>5 DEF FocusHeld
<1>11. Going'
  <2>1. \A d \in Clients : state'[d] = "leaving" => state[d] = "leaving"
    BY <1>4
  <2>2. \A d \in Clients : state[d] # "leaving"
    BY <1>1, <1>3 DEF Going
  <2> QED
    BY <2>1, <2>2 DEF Going
<1> QED
  BY <1>6, <1>8, <1>9, <1>10, <1>11 DEF Calm

\* also one that leaves,
LEMMA ReceiveLeavingCalm ==
  ASSUME Inv, Calm, NEW c \in Clients, ReceiveLeaving(c) PROVE Calm'
<1>1. TypeOK /\ ClientTypeOK /\ NonePending /\ OneThing /\ AtFocus /\ FocusHeld /\ Going
  BY DEF Inv, TypeOK, Calm
<1>2. /\ Told' \subseteq Told /\ Asked' = Asked /\ toClient[c] # <<>>
  BY <1>1, HearingLast
<1>3. /\ UNCHANGED <<serverVars, toServer, mine, focus>>
      /\ state' = state \/ state' = [state EXCEPT ![c] = "idle"]
  BY DEF ReceiveLeaving
<1>4. NonePending'
  BY <1>1, <1>3 DEF NonePending, serverVars
<1>5. OneThing'
  BY <1>1, <1>2, <1>3 DEF OneThing
<1>6. AtFocus' /\ FocusHeld'
  BY <1>1, <1>2, <1>3 DEF AtFocus, FocusHeld
<1>7. \A d \in Clients : state'[d] = "leaving" => state[d] = "leaving"
  BY <1>1, <1>3 DEF ClientTypeOK
<1>8. Going'
  BY <1>1, <1>2, <1>7 DEF Going
<1> QED
  BY <1>4, <1>5, <1>6, <1>8 DEF Calm

\* and a user who waits.
LEMMA UserCalm ==
  ASSUME Patient, Inv, Calm, NEW c \in Clients, UserAct(c) PROVE Calm'
<1>1. TypeOK /\ NonePending /\ FocusHeld
  BY DEF Inv, Calm
<1>2. /\ Quiet /\ UNCHANGED <<serverVars, toClient, focus>> /\ FocusHeld'
  BY <1>1, UserAsks
<1>3. PICK m \in ToServerMessages :
              /\ toServer' = Send(toServer, c, <<m>>) /\ m.type \in Alone
              /\ m.type \in {"FORWARD_EVENT", "RESET_IC"} => m.ic = focus
              /\ \A d \in Clients : state'[d] = "leaving" => m.type = "DISCONNECT"
  BY <1>1, UserAsks
<1>4. /\ Asked' = {m} /\ Told' = {} /\ toServer'[c] = <<m>>
      /\ \A d \in Clients : toClient'[d] = <<>> /\ (d # c => toServer'[d] = <<>>)
  BY <1>1, <1>2, <1>3, Asking1
<1>5. NonePending'
  BY <1>1, <1>2 DEF NonePending, serverVars
<1>6. OneThing'
  <2> SUFFICES ASSUME NEW d \in Clients, NEW x \in Elems(toServer'[d])
               PROVE  /\ toServer'[d] = <<x>>
                      /\ \A e \in Clients : toClient'[e] = <<>> /\ (e # d => toServer'[e] = <<>>)
    BY DEF OneThing
  <2>1. d = c
    BY <1>4, ElemsNone
  <2>2. x = m
    BY <1>4, <2>1, ElemsOne
  <2> QED
    BY <1>4, <2>1, <2>2
<1>7. AtFocus' /\ Going'
  BY <1>2, <1>3, <1>4 DEF AtFocus, Going
<1> QED
  BY <1>2, <1>5, <1>6, <1>7 DEF Calm

\* The focus moves in a calm server.
LEMMA MoveFocusCalm ==
  ASSUME Patient, Inv, Calm, NEW i \in ICID \cup {NoIC}, MoveFocus(i) PROVE Calm'
<1>1. TypeOK /\ ClientTypeOK /\ NonePending /\ FocusHeld
  BY DEF Inv, TypeOK, Calm
<1>2. /\ Quiet /\ Told' = {} /\ UNCHANGED <<serverVars, toClient, mine, state>>
      /\ focus' = i /\ \A x \in Asked' : x.type \in Moves
  BY <1>1, MovingAsks
<1>3. NonePending'
  BY <1>1, <1>2 DEF NonePending, serverVars
<1>4. \A x \in Asked' : x.type \notin Alone /\ x.type \notin {"FORWARD_EVENT", "RESET_IC"}
  BY <1>2 DEF Moves, Alone, Requests
<1>5. OneThing'
  <2>1. \A d \in Clients : \A x \in Elems(toServer'[d]) : x \in Asked'
    BY DEF Asked
  <2> QED
    BY <1>4, <2>1 DEF OneThing
<1>6. AtFocus'
  BY <1>4 DEF AtFocus
<1>7. FocusHeld'
  <2>1. i # NoIC => Clientele(i) # {}
    BY DEF MoveFocus
  <2> QED
    BY <1>2, <2>1 DEF FocusHeld, Clientele
<1>8. Going'
  <2>1. \A d \in Clients : toServer[d] = <<>> /\ toClient[d] = <<>>
    BY <1>2, QuietChannels
  <2>2. \A d \in Clients : state[d] # "leaving"
    BY <2>1 DEF Inv, PartingOK, PartingOf, EndsWith
  <2> QED
    BY <1>2, <2>2 DEF Going
<1> QED
  BY <1>3, <1>5, <1>6, <1>7, <1>8 DEF Calm

\* At the start nothing is under way.
LEMMA InitCalm == Init => Calm
<1> SUFFICES ASSUME Init PROVE Calm
  OBVIOUS
<1>1. /\ \A c \in Clients : toServer[c] = <<>> /\ toClient[c] = <<>> /\ state[c] = "idle"
      /\ NonePending /\ focus = NoIC
  BY DEF Init, NonePending
<1>2. \A c \in Clients : Elems(toServer[c]) = {} /\ Elems(toClient[c]) = {}
  BY <1>1, ElemsNone
<1>3. Asked = {} /\ Told = {}
  BY <1>2 DEF Asked, Told
<1> QED
  BY <1>1, <1>2, <1>3 DEF Calm, OneThing, Going, AtFocus, FocusHeld

\* Every step keeps the calm, as long as the user waits.
LEMMA NextCalm == Patient /\ Inv /\ Calm /\ [Next]_vars => Calm'
<1> SUFFICES ASSUME Patient, Inv, Calm, [Next]_vars PROVE Calm'
  OBVIOUS
<1>1. CASE UNCHANGED vars
  <2>1. UNCHANGED <<busy, pending, toServer, toClient, state, mine, focus>>
    BY <1>1 DEF vars, serverVars, channels, clientVars
  <2>2. Asked' = Asked /\ Told' = Told
    BY <2>1 DEF Asked, Told
  <2> QED
    BY <2>1, <2>2 DEF Calm, NonePending, OneThing, Going, AtFocus, FocusHeld
<1> QED
  BY <1>1, HandleCalm, ReceiveCalm, ReceiveLeavingCalm, UserCalm, MoveFocusCalm DEF Next
-----------------------------------------------------------------------------
(* The contexts the server knows.                                          *)

\* Drawing changes no more than what is displayed, and hiding blanks it.
LEMMA DrawnOrHidden ==
  ASSUME Inv, Known, Dark, NEW i \in ICID
  PROVE  /\ ics \in [ICID -> Contexts]
         /\ SoftHidden(ics[i]).live = ics[i].live /\ SoftHidden(ics[i]).len = 0
         /\ Hidden(ics[i]).live = ics[i].live /\ Hidden(ics[i]).len = 0
         /\ \A n \in 0..MaxLen : /\ Drawn(ics[i], n).live = ics[i].live
                                 /\ ics[i].live => Drawn(ics[i], n).len = n
                                 /\ ~ics[i].live => Drawn(ics[i], n).len = 0
<1>1. ics \in [ICID -> Contexts] /\ ics[i] \in Contexts
  BY DEF Inv, TypeOK, ServerTypeOK, Contexts
<1>2. (~ics[i].live => ics[i].len = 0) /\ (~ics[i].enabled => ics[i].len = 0)
  BY DEF Known, Dark
<1>3. SoftHidden(ics[i]).live = ics[i].live /\ SoftHidden(ics[i]).len = 0
  BY <1>1, <1>2 DEF SoftHidden, Visible, Contexts
<1>4. Hidden(ics[i]).live = ics[i].live /\ Hidden(ics[i]).len = 0
  BY <1>1, <1>2 DEF Hidden, Contexts
<1>5. \A n \in 0..MaxLen : /\ Drawn(ics[i], n).live = ics[i].live
                           /\ ics[i].live => Drawn(ics[i], n).len = n
                           /\ ~ics[i].live => Drawn(ics[i], n).len = 0
  BY <1>1, <1>2 DEF Drawn, Contexts
<1> QED
  BY <1>1, <1>3, <1>4, <1>5

\* A message that creates no context leaves a client what it has and awaits.
LEMMA HeldSent ==
  ASSUME TypeOK, NEW c \in Clients, NEW s \in Seq(ToClientMessages),
         toClient' = Send(toClient, c, s), \A j \in DOMAIN s : s[j].type # "CREATE_IC_REPLY",
         mine' = mine
  PROVE  \A d \in Clients : Held(d)' \subseteq Held(d)
<1>1. /\ toClient[c] \in Seq(ToClientMessages) /\ toClient'[c] = toClient[c] \o s
      /\ \A d \in Clients : d # c => toClient'[d] = toClient[d]
  BY SentKeys DEF TypeOK, ChannelsTypeOK
<1>2. \A d \in Clients : d # c => Coming(d)' = Coming(d)
  BY <1>1 DEF Coming
<1>3. ASSUME NEW i \in Coming(c)' PROVE i \in Coming(c)
  <2>1. PICK j \in DOMAIN toClient'[c] :
          toClient'[c][j].type = "CREATE_IC_REPLY" /\ toClient'[c][j].ic = i
    BY <1>3 DEF Coming
  <2>2. j \in DOMAIN toClient[c] /\ toClient[c][j] = toClient'[c][j]
    BY <1>1, <2>1, ConcatElement
  <2> QED
    BY <2>1, <2>2 DEF Coming
<1> QED
  BY <1>2, <1>3 DEF Held

\* So the server knows all that it knew.
LEMMA KnownStays ==
  ASSUME Known, ics' \in [ICID -> Contexts],
         \A d \in Clients : Held(d)' \subseteq Held(d),
         \A d \in Clients : Held(d) \subseteq ICID,
         \A i \in ICID : ics'[i].live = ics[i].live /\ (~ics'[i].live => ics'[i].len = 0)
  PROVE  Known'
BY DEF Known

\* The key that comes was typed in the focused context, which the server knows.
LEMMA KeyComes ==
  ASSUME Inv, Owners, Calm, Known, NEW c \in Clients, Incoming(c, "FORWARD_EVENT")
  PROVE  LET m == Head(toServer[c])
         IN  /\ m.ic = focus /\ m.ic \in ICID /\ m.ic \in Ids(c) /\ focus # NoIC
             /\ ics[m.ic].live
             /\ m.key \in Keys /\ m.key.ev \in KeyEvents /\ m.key.home = m.ic
             /\ m.key \in Ahead(c)
<1>1. PICK m : m = Head(toServer[c])
  OBVIOUS
<1>2. TypeOK /\ AtFocus /\ FocusHeld
  BY DEF Inv, Calm
<1>3. /\ m \in Asked /\ m.type = "FORWARD_EVENT" /\ m \in ToServerMessages
      /\ toServer[c] \in Seq(ToServerMessages) /\ toServer[c] # <<>>
  BY <1>1, <1>2, Taking, IncomingType
<1>4. m.ic = focus /\ m.ic \in ICID /\ m.key \in Keys
  BY <1>2, <1>3, ToServerTypes DEF AtFocus
<1>5. m.ic \in Ids(c)
  BY <1>1, HeadIds
<1>6. focus # NoIC
  BY <1>4 DEF ICID, NoIC
<1>7. ics[m.ic].live
  <2>1. PICK d \in Clients : focus \in mine[d]
    BY <1>2, <1>6 DEF FocusHeld
  <2> QED
    BY <1>4, <2>1 DEF Known, Held
<1>8. m.key.ev \in KeyEvents
  BY <1>4, XimAssumption DEF Keys
<1>9. 1 \in DOMAIN toServer[c] /\ toServer[c][1] = m
  BY <1>1, <1>3, TailFacts
<1>10. m.key.home = m.ic
  BY <1>3, <1>9 DEF Owners, AtHome
<1>11. m.key \in Ahead(c)
  BY <1>3, <1>9, KeysToServer DEF Ahead
<1> QED
  BY <1>1, <1>4, <1>5, <1>6, <1>7, <1>8, <1>10, <1>11

\* What is decided about a key.
LEMMA KeyDecided ==
  ASSUME TypeOK, NEW c \in Clients, NEW i \in ICID, NEW k \in Keys, ProcessKey(c, i, k)
  PROVE  \E d \in XIMProcessKey(fe, k.ev) :
           /\ \/ DrawWord(c, i, k, d) \/ DiscardWord(c, i, k, d)
              \/ CommitWord(c, i, k, d) \/ ForwardKey(c, i, k, d)
           /\ d.fe \in FrontEndStates
           /\ d.action = "DRAW" => d.fe.len > 0
           /\ d.action \in {"FORWARD", "COMMIT_FORWARD"} => d.fe.len = fe.len
           /\ d.action = "FORWARD" => ~HasEffect(k)
<1>1. PICK d \in XIMProcessKey(fe, k.ev) :
           \/ DrawWord(c, i, k, d) \/ DiscardWord(c, i, k, d)
           \/ CommitWord(c, i, k, d) \/ ForwardKey(c, i, k, d)
  BY DEF ProcessKey
<1>2. fe \in FrontEndStates /\ k.ev \in KeyEvents
  BY XimAssumption DEF TypeOK, ServerTypeOK, Keys
<1>3. d.fe \in FrontEndStates /\ (d.action = "DRAW" => d.fe.len > 0)
  BY <1>2, XIMProcessKeyType
<1>4. PICK f : f = AfterHotKey(fe, k.ev)
  OBVIOUS
<1>5. f.len = fe.len
  BY <1>2, <1>4, AfterHotKeyType
<1>6. /\ d.action \in {"FORWARD", "COMMIT_FORWARD"} => d.fe = f
      /\ d.action = "FORWARD" => ~HasEffect(k)
  BY <1>4 DEF XIMProcessKey, Decision, HasEffect
<1> QED
  BY <1>1, <1>3, <1>5, <1>6

\* Contexts are made known before their clients hear of them, and forgotten after.
LEMMA HandleKnown ==
  ASSUME Inv, Owners, InStep, Calm, Known, NEW c \in Clients, Handle(c) PROVE Known'
<1>1. TypeOK /\ ServerTypeOK /\ Dark /\ ics \in [ICID -> Contexts]
  BY DEF Inv, TypeOK, ServerTypeOK, Contexts, InStep
<1>2. mine' = mine /\ \A d \in Clients : Held(d) \subseteq ICID
  BY CalmHandlers, HeldFacts DEF clientVars
<1>3. PICK m : m = Head(toServer[c])
  OBVIOUS
<1>4. \A i \in ICID : /\ SoftHidden(ics[i]).live = ics[i].live /\ SoftHidden(ics[i]).len = 0
                      /\ Hidden(ics[i]).live = ics[i].live /\ Hidden(ics[i]).len = 0
                      /\ SoftHidden(ics[i]) \in Contexts /\ Hidden(ics[i]) \in Contexts
                      /\ ~ics[i].live => ics[i].len = 0
  BY <1>1, DrawnOrHidden, ContextTypes DEF Known
<1>5. ASSUME NEW s \in Seq(ToClientMessages), toClient' = Send(toClient, c, s),
             \A j \in DOMAIN s : s[j].type # "CREATE_IC_REPLY",
             NEW i \in ICID, NEW r \in Contexts, ics' = [ics EXCEPT ![i] = r],
             r.live = ics[i].live, ~r.live => r.len = 0
      PROVE  Known'
  <2>1. \A d \in Clients : Held(d)' \subseteq Held(d)
    BY <1>1, <1>2, <1>5, HeldSent
  <2>2. /\ ics' \in [ICID -> Contexts]
        /\ \A j \in ICID : ics'[j].live = ics[j].live /\ (~ics'[j].live => ics'[j].len = 0)
    BY <1>1, <1>4, <1>5
  <2> QED
    BY <1>2, <2>1, <2>2, KnownStays
<1>6. ASSUME NEW s \in Seq(ToClientMessages), toClient' = Send(toClient, c, s),
             \A j \in DOMAIN s : s[j].type # "CREATE_IC_REPLY", ics' = ics
      PROVE  Known'
  <2>1. \A d \in Clients : Held(d)' \subseteq Held(d)
    BY <1>1, <1>2, <1>6, HeldSent
  <2> QED
    BY <1>1, <1>2, <1>4, <1>6, <2>1, KnownStays
<1>7. CASE /\ Incoming(c, "FORWARD_EVENT")
           /\ ProcessKey(c, m.ic, m.key)
  <2>1. m.ic \in ICID /\ m.key \in Keys
    BY <1>3, <1>7, KeyComes
  <2>2. PICK s \in Seq(Says(m.ic)) : toClient' = Send(toClient, c, s)
    BY <1>1, <1>7, <2>1, ProcessKeySays
  <2>3. s \in Seq(ToClientMessages) /\ \A j \in DOMAIN s : s[j].type # "CREATE_IC_REPLY"
    BY <2>1, SaysFacts
  <2>4. PICK d \in XIMProcessKey(fe, m.key.ev) :
           /\ \/ DrawWord(c, m.ic, m.key, d) \/ DiscardWord(c, m.ic, m.key, d)
              \/ CommitWord(c, m.ic, m.key, d) \/ ForwardKey(c, m.ic, m.key, d)
           /\ d.fe \in FrontEndStates
    BY <1>1, <1>7, <2>1, KeyDecided
  <2>5. d.fe.len \in 0..MaxLen
    BY <2>4 DEF FrontEndStates
  <2>6. /\ Drawn(ics[m.ic], d.fe.len).live = ics[m.ic].live
        /\ ~ics[m.ic].live => Drawn(ics[m.ic], d.fe.len).len = 0
        /\ Drawn(ics[m.ic], d.fe.len) \in Contexts
    BY <1>1, <2>1, <2>5, DrawnOrHidden, ContextTypes
  <2>7. \/ ics' = ics
        \/ \E r \in {SoftHidden(ics[m.ic]), Drawn(ics[m.ic], d.fe.len)} :
             ics' = [ics EXCEPT ![m.ic] = r]
    BY <2>4 DEF DrawWord, DiscardWord, CommitWord, ForwardKey
  <2> QED
    BY <1>4, <1>5, <1>6, <2>1, <2>2, <2>3, <2>6, <2>7
<1>8. CASE Incoming(c, "SYNC_REPLY") /\ HandleSyncReply(c)
  <2>1. m.ic \in ICID
    BY <1>1, <1>3, <1>8, IncomingType, ToServerTypes
  <2>2. PICK s : /\ toClient' = Send(toClient, c, s) /\ ics' = ics
                 /\ s = <<>> \/ (queue # <<>> /\ s = <<Forward(m.ic, Head(queue))>>)
    BY <1>3, <1>8 DEF HandleSyncReply
  <2>3. queue # <<>> => Head(queue) \in Keys
    BY <1>1 DEF ServerTypeOK
  <2>4. s \in Seq(ToClientMessages) /\ \A j \in DOMAIN s : s[j].type # "CREATE_IC_REPLY"
    <3>1. CASE s = <<>>
      BY <3>1
    <3>2. CASE queue # <<>> /\ s = <<Forward(m.ic, Head(queue))>>
      <4>1. s \in Seq(Says(m.ic))
        BY <1>1, <2>1, <2>3, <3>2, SaysSequences
      <4> QED
        BY <2>1, <4>1, SaysFacts
    <3> QED
      BY <2>2, <3>1, <3>2
  <2> QED
    BY <1>6, <2>2, <2>4
<1>9. CASE Incoming(c, "CREATE_IC") /\ HandleCreateIC(c)
  <2>1. lastId' = lastId + 1
    BY <1>9, NextId
  <2>2. /\ ics' = [ics EXCEPT ![lastId'] = NewIC] /\ lastId' \in ICID
        /\ toClient' = Send(toClient, c, <<About("CREATE_IC_REPLY", lastId')>>)
    <3>1. lastId' = (lastId + 1) % IdSpace /\ lastId + 1 \in Nat /\ IdSpace \in Nat \ {0}
      BY <1>1, <1>9, XimAssumption DEF HandleCreateIC, ServerTypeOK, ICID
    <3> QED
      BY <1>9, <3>1 DEF HandleCreateIC, ICID
  <2>3. PICK q : q = About("CREATE_IC_REPLY", lastId')
    OBVIOUS
  <2>4. q \in ToClientMessages /\ q.ic = lastId'
    BY <2>2, <2>3 DEF About, ToClientMessages
  <2>5. /\ toClient[c] \in Seq(ToClientMessages) /\ toClient'[c] = toClient[c] \o <<q>>
        /\ \A d \in Clients : d # c => toClient'[d] = toClient[d]
        /\ <<q>> \in Seq(ToClientMessages)
    <3>1. <<q>> \in Seq(ToClientMessages)
      BY <2>4
    <3> QED
      BY <1>1, <2>2, <2>3, <3>1, SentKeys DEF TypeOK, ChannelsTypeOK
  <2>6. \A d \in Clients : d # c => Held(d)' = Held(d)
    BY <1>2, <2>5 DEF Held, Coming
  <2>7. ASSUME NEW i \in Held(c)' PROVE i \in Held(c) \cup {lastId'}
    <3>1. i \in mine[c] \/ i \in Coming(c)'
      BY <1>2 DEF Held
    <3>2. ASSUME i \in Coming(c)' PROVE i \in Held(c) \cup {lastId'}
      <4>1. PICK j \in DOMAIN toClient'[c] :
              toClient'[c][j].type = "CREATE_IC_REPLY" /\ toClient'[c][j].ic = i
        BY <3>2 DEF Coming
      <4>2. \/ j \in DOMAIN toClient[c] /\ toClient[c][j] = toClient'[c][j]
            \/ \E p \in DOMAIN <<q>> : toClient'[c][j] = <<q>>[p]
        BY <2>5, <4>1, ConcatElement
      <4>3. \A p \in DOMAIN <<q>> : <<q>>[p] = q
        OBVIOUS
      <4> QED
        BY <2>4, <4>1, <4>2, <4>3 DEF Held, Coming
    <3> QED
      BY <3>1, <3>2 DEF Held
  <2>8. /\ ics'[lastId'].live
        /\ \A i \in ICID : i # lastId' => ics'[i] = ics[i]
    BY <1>1, <2>2 DEF NewIC
  <2>9. \A d \in Clients : \A i \in Held(d)' : ics'[i].live
    BY <1>2, <2>6, <2>7, <2>8 DEF Known
  <2> QED
    BY <2>8, <2>9 DEF Known
<1>10. CASE Incoming(c, "DESTROY_IC") /\ HandleDestroyIC(c)
  <2>1. /\ m.ic \in ICID /\ m.type = "DESTROY_IC"
        /\ toServer[c] \in Seq(ToServerMessages) /\ toServer[c] # <<>>
    BY <1>1, <1>3, <1>10, IncomingType, ToServerTypes DEF Requests
  <2>2. PICK q : q = About("REQUEST_REPLY", m.ic)
    OBVIOUS
  <2>3. ics' = [ics EXCEPT ![m.ic] = Unborn] /\ toClient' = Send(toClient, c, <<q>>)
    BY <1>3, <1>10, <2>2 DEF HandleDestroyIC
  <2>4. q \in ToClientMessages /\ q.type # "CREATE_IC_REPLY"
    BY <2>1, <2>2 DEF About, ToClientMessages
  <2>5. <<q>> \in Seq(ToClientMessages) /\ \A j \in DOMAIN <<q>> : <<q>>[j].type # "CREATE_IC_REPLY"
    BY <2>4
  <2>6. \A d \in Clients : Held(d)' \subseteq Held(d)
    BY <1>1, <1>2, <2>3, <2>5, HeldSent
  <2>7. m.ic \notin Held(c)
    <3>1. 1 \in DOMAIN toServer[c] /\ toServer[c][1] = m
      BY <1>3, <2>1, TailFacts
    <3> QED
      BY <2>1, <3>1 DEF Owners, GivenUp
  <2>8. \A d \in Clients : m.ic \notin Held(d)
    <3>1. m.ic \in Ids(c)
      BY <1>3, <1>10, HeadIds
    <3>2. \A d \in Clients : Held(d) \subseteq Ids(d)
      BY HeldFacts
    <3> QED
      BY <2>7, <3>1, <3>2 DEF Owners, Owned
  <2>9. ics'[m.ic].len = 0 /\ \A i \in ICID : i # m.ic => ics'[i] = ics[i]
    BY <1>1, <2>1, <2>3 DEF Unborn
  <2>10. \A d \in Clients : \A i \in Held(d)' : ics'[i].live
    BY <1>2, <2>6, <2>8, <2>9 DEF Known
  <2> QED
    BY <2>9, <2>10 DEF Known
<1>11. CASE Incoming(c, "SET_IC_FOCUS") /\ HandleSetFocus(c)
  <2>1. m.ic \in ICID
    BY <1>1, <1>3, <1>11, IncomingType, ToServerTypes
  <2>2. /\ ics' = [ics EXCEPT ![m.ic] = SoftHidden(ics[m.ic])]
        /\ toClient' = Send(toClient, c, SoftHideMessages(m.ic))
    BY <1>3, <1>11 DEF HandleSetFocus
  <2>3. SoftHideMessages(m.ic) \in Seq(Says(m.ic))
    BY <1>1, <2>1, SaysSequences
  <2> QED
    BY <1>4, <1>5, <2>1, <2>2, <2>3, SaysFacts
<1>12. ASSUME NEW type, Incoming(c, type), m.ic \in ICID, NEW replies \in Seq(ToClientMessages),
              \A j \in DOMAIN replies : replies[j].type # "CREATE_IC_REPLY",
              GiveUpWord(c, m.ic, replies)
       PROVE  Known'
  <2>1. PICK s \in Seq(Says(m.ic)) : toClient' = Send(toClient, c, s \o replies)
    BY <1>1, <1>12, GiveUpSays
  <2>2. s \in Seq(ToClientMessages) /\ \A j \in DOMAIN s : s[j].type # "CREATE_IC_REPLY"
    BY <1>12, SaysFacts
  <2>3. /\ s \o replies \in Seq(ToClientMessages)
        /\ \A j \in DOMAIN (s \o replies) : (s \o replies)[j].type # "CREATE_IC_REPLY"
    BY <1>12, <2>2, ConcatFacts, ConcatElement
  <2>4. ics' = [ics EXCEPT ![m.ic] = Hidden(ics[m.ic])]
    BY <1>12 DEF GiveUpWord
  <2> QED
    BY <1>4, <1>5, <1>12, <2>1, <2>3, <2>4
<1>13. CASE Incoming(c, "UNSET_IC_FOCUS") /\ GiveUpWord(c, m.ic, <<>>)
  <2>1. m.ic \in ICID
    BY <1>1, <1>3, <1>13, IncomingType, ToServerTypes
  <2>2. <<>> \in Seq(ToClientMessages) /\ \A j \in DOMAIN <<>> : <<>>[j].type # "CREATE_IC_REPLY"
    OBVIOUS
  <2> QED
    BY <1>12, <1>13, <2>1, <2>2
<1>14. CASE Incoming(c, "RESET_IC") /\ GiveUpWord(c, m.ic, <<About("REQUEST_REPLY", m.ic)>>)
  <2>1. m.ic \in ICID
    BY <1>1, <1>3, <1>14, IncomingType, ToServerTypes DEF Requests
  <2>2. PICK q : q = About("REQUEST_REPLY", m.ic)
    OBVIOUS
  <2>3. q \in ToClientMessages /\ q.type # "CREATE_IC_REPLY"
    BY <2>1, <2>2 DEF About, ToClientMessages
  <2>4. <<q>> \in Seq(ToClientMessages) /\ \A j \in DOMAIN <<q>> : <<q>>[j].type # "CREATE_IC_REPLY"
    BY <2>3
  <2> QED
    BY <1>12, <1>14, <2>1, <2>2, <2>4
<1>15. CASE Incoming(c, "DISCONNECT") /\ HandleDisconnect(c)
  <2>1. PICK q : q = Plain("DISCONNECT_REPLY")
    OBVIOUS
  <2>2. q \in ToClientMessages /\ q.type # "CREATE_IC_REPLY"
    BY <2>1 DEF Plain, ToClientMessages
  <2>3. <<q>> \in Seq(ToClientMessages) /\ \A j \in DOMAIN <<q>> : <<q>>[j].type # "CREATE_IC_REPLY"
    BY <2>2
  <2>4. toClient' = Send(toClient, c, <<q>>) /\ ics' = ics
    BY <1>15, <2>1 DEF HandleDisconnect
  <2> QED
    BY <1>6, <2>3, <2>4
<1> QED
  BY <1>3, <1>7, <1>8, <1>9, <1>10, <1>11, <1>13, <1>14, <1>15, CalmHandlers

\* A context a client is told of becomes its own.
LEMMA NextKnown ==
  ASSUME Patient, Inv, Owners, InStep, Calm, Known, [Next]_vars PROVE Known'
<1>1. ASSUME ics' = ics, \A d \in Clients : Held(d)' \subseteq Held(d) PROVE Known'
  BY <1>1 DEF Known
<1>2. CASE UNCHANGED vars
  BY <1>1, <1>2 DEF vars, serverVars, channels, clientVars, Held, Coming
<1>3. ASSUME NEW c \in Clients, Receive(c) PROVE Known'
  <2>1. PICK m : m = Head(toClient[c])
    OBVIOUS
  <2>2. /\ toClient[c] \in Seq(ToClientMessages) /\ toClient[c] # <<>>
        /\ toClient'[c] = Tail(toClient[c])
        /\ \A x \in Clients \ {c} : toClient'[x] = toClient[x]
        /\ mine'[c] = IF m.type = "CREATE_IC_REPLY" THEN mine[c] \cup {m.ic} ELSE mine[c]
        /\ \A x \in Clients \ {c} : mine'[x] = mine[x]
        /\ ics' = ics
    BY <1>3, <2>1, Received DEF serverVars
  <2>3. 1 \in DOMAIN toClient[c] /\ toClient[c][1] = m
    BY <2>1, <2>2, TailFacts
  <2>4. m.type = "CREATE_IC_REPLY" => m.ic \in Coming(c)
    BY <2>3 DEF Coming
  <2>5. Coming(c)' \subseteq Coming(c)
    <3>1. \A j \in DOMAIN toClient'[c] : \E p \in DOMAIN toClient[c] : toClient[c][p] = toClient'[c][j]
      BY <2>2, TailFacts
    <3> QED
      BY <3>1 DEF Coming
  <2>6. \A d \in Clients : d # c => Held(d)' = Held(d)
    BY <2>2 DEF Held, Coming
  <2>7. Held(c)' \subseteq Held(c)
    BY <2>2, <2>4, <2>5 DEF Held
  <2> QED
    BY <1>1, <2>2, <2>6, <2>7
<1>4. ASSUME NEW c \in Clients, ReceiveLeaving(c) PROVE Known'
  <2>1. /\ toClient[c] \in Seq(ToClientMessages) /\ toClient[c] # <<>>
        /\ toClient'[c] = Tail(toClient[c])
        /\ \A x \in Clients \ {c} : toClient'[x] = toClient[x]
        /\ mine' = mine /\ ics' = ics
    BY <1>4, HearingLast DEF Inv, ReceiveLeaving, serverVars
  <2>2. \A j \in DOMAIN toClient'[c] : \E p \in DOMAIN toClient[c] : toClient[c][p] = toClient'[c][j]
    BY <2>1, TailFacts
  <2>3. \A d \in Clients : d # c => Held(d)' = Held(d)
    BY <2>1 DEF Held, Coming
  <2>4. Coming(c)' \subseteq Coming(c)
    BY <2>2 DEF Coming
  <2> QED
    BY <1>1, <2>1, <2>3, <2>4 DEF Held
<1>5. ASSUME NEW c \in Clients, UserAct(c) PROVE Known'
  <2>1. /\ ics' = ics /\ toClient' = toClient /\ \A d \in Clients : mine'[d] \subseteq mine[d]
    BY <1>5, UserAsks DEF Calm, serverVars
  <2> QED
    BY <1>1, <2>1 DEF Held, Coming
<1>6. ASSUME NEW i \in ICID \cup {NoIC}, MoveFocus(i) PROVE Known'
  BY <1>1, <1>6 DEF MoveFocus, serverVars, Held, Coming
<1> QED
  BY <1>2, <1>3, <1>4, <1>5, <1>6, HandleKnown DEF Next

\* At the start there is no context.
LEMMA InitKnown == Init => Known
BY DEF Init, Known, Held, Coming, Unborn
-----------------------------------------------------------------------------
(* The word on display.                                                    *)

\* A handler that takes a message about something else leaves it so.
LEMMA LitElsewhere ==
  ASSUME Lit, UNCHANGED <<fe, focus>>,
         \A i \in ICID : ics'[i].len > 0 => ics'[i].len = ics[i].len,
         focus # NoIC => ics'[focus].len = ics[focus].len,
         Moving' <=> Moving, \A i \in ICID : Left(i) => Left(i)'
  PROVE  Lit'
<1>1. ASSUME NEW i \in ICID, ics'[i].len > 0 PROVE i = focus' \/ Left(i)'
  BY <1>1 DEF Lit
<1>2. focus' # NoIC => ics'[focus'].len = IF Moving' THEN 0 ELSE fe'.len
  BY DEF Lit
<1> QED
  BY <1>1, <1>2 DEF Lit

\* What is under way alone is no change of the focus.
LEMMA AloneStill ==
  ASSUME TypeOK, OneThing, NEW c \in Clients, NEW type \in Alone, Incoming(c, type)
  PROVE  /\ ~Moving /\ ~Moving' /\ \A i : ~Left(i) /\ ~Left(i)'
<1>1. PICK m : m = Head(toServer[c])
  OBVIOUS
<1>2. Asked' = {} /\ Asked = {m} /\ m.type = type
  BY <1>1, AloneTaken, Taking
<1>3. type \notin Moves /\ type # "UNSET_IC_FOCUS"
  BY DEF Alone, Requests, Moves
<1> QED
  BY <1>2, <1>3 DEF Moving, Left

\* The key that comes is drawn in its context, or ends the word there.
LEMMA KeyLit ==
  ASSUME Inv, Owners, InStep, Calm, Known, Lit, NEW c \in Clients,
         Incoming(c, "FORWARD_EVENT"), focus' = focus,
         ProcessKey(c, Head(toServer[c]).ic, Head(toServer[c]).key)
  PROVE  Lit'
<1>1. /\ TypeOK /\ OneThing /\ Dark /\ ics \in [ICID -> Contexts] /\ fe \in FrontEndStates
      /\ typed \in Seq(Keys)
  BY DEF Inv, TypeOK, ServerTypeOK, Contexts, InStep, Calm
<1>2. ~Moving /\ ~Moving' /\ \A i : ~Left(i)
  BY <1>1, AloneStill DEF Alone
<1>3. PICK k : k = Head(toServer[c]).key
  OBVIOUS
<1>4. /\ Head(toServer[c]).ic = focus /\ focus \in ICID /\ focus # NoIC /\ ics[focus].live
      /\ k \in Keys
  BY <1>3, KeyComes
<1>5. PICK d \in XIMProcessKey(fe, k.ev) :
           /\ \/ DrawWord(c, focus, k, d) \/ DiscardWord(c, focus, k, d)
              \/ CommitWord(c, focus, k, d) \/ ForwardKey(c, focus, k, d)
           /\ d.fe \in FrontEndStates
           /\ d.action \in {"FORWARD", "COMMIT_FORWARD"} => d.fe.len = fe.len
  BY <1>1, <1>3, <1>4, KeyDecided
<1>6. /\ Drawn(ics[focus], d.fe.len).len = d.fe.len /\ SoftHidden(ics[focus]).len = 0
      /\ ResetLen(d.fe).len = 0
  <2>1. d.fe.len \in 0..MaxLen
    BY <1>5 DEF FrontEndStates
  <2> QED
    BY <1>1, <1>4, <1>5, <2>1, DrawnOrHidden, ResetLenType
<1>7. ics[focus].len = fe.len /\ \A i \in ICID : ics[i].len > 0 => i = focus
  BY <1>2, <1>4 DEF Lit
<1>8. /\ ics'[focus].len = fe'.len
      /\ \A i \in ICID : i # focus => ics'[i] = ics[i]
  <2>1. CASE DrawWord(c, focus, k, d)
    BY <1>1, <1>4, <1>6, <2>1 DEF DrawWord
  <2>2. CASE DiscardWord(c, focus, k, d)
    BY <1>1, <1>4, <1>6, <2>2 DEF DiscardWord
  <2>3. CASE CommitWord(c, focus, k, d)
    BY <1>1, <1>4, <1>6, <2>3 DEF CommitWord
  <2>4. CASE ForwardKey(c, focus, k, d)
    BY <1>4, <1>5, <1>7, <2>4 DEF ForwardKey
  <2> QED
    BY <1>5, <2>1, <2>2, <2>3, <2>4
<1>9. \A i \in ICID : ics'[i].len > 0 => i = focus
  BY <1>7, <1>8
<1> QED
  BY <1>2, <1>8, <1>9 DEF Lit

\* A word that is given up, or reset, is taken off the display.
LEMMA ResetLit ==
  ASSUME Inv, Owners, InStep, Calm, Known, Lit, NEW c \in Clients,
         NEW type \in {"SET_IC_FOCUS", "UNSET_IC_FOCUS", "RESET_IC"}, Incoming(c, type),
         focus' = focus, EngineReset,
         LET i == Head(toServer[c]).ic
         IN  \E r \in {SoftHidden(ics[i]), Hidden(ics[i])} : ics' = [ics EXCEPT ![i] = r]
  PROVE  Lit'
<1>1. /\ TypeOK /\ OneThing /\ Dark /\ ics \in [ICID -> Contexts] /\ fe \in FrontEndStates
  BY DEF Inv, TypeOK, ServerTypeOK, Contexts, InStep, Calm
<1>2. PICK m : m = Head(toServer[c])
  OBVIOUS
<1>3. /\ m.type = type /\ m \in Asked /\ Asked = Asked' \cup {m} /\ m \in ToServerMessages
  BY <1>1, <1>2, Taking
<1>4. m.ic \in ICID
  BY <1>3, ToServerTypes DEF Requests
<1>5. ics'[m.ic].len = 0 /\ \A i \in ICID : i # m.ic => ics'[i] = ics[i]
  BY <1>1, <1>2, <1>4, DrawnOrHidden
<1>6. fe'.len = 0
  BY <1>1, ResetLenType DEF EngineReset
<1>7. ASSUME NEW i \in ICID, ics'[i].len > 0 PROVE i = focus \/ Left(i)'
  <2>1. i # m.ic /\ ics[i].len > 0
    BY <1>5, <1>7
  <2>2. i = focus \/ Left(i)
    BY <2>1 DEF Lit
  <2>3. Left(i) => Left(i)'
    BY <1>3, <2>1 DEF Left
  <2> QED
    BY <2>2, <2>3
<1>8. focus # NoIC => ics'[focus].len = 0
  <2> SUFFICES ASSUME focus # NoIC PROVE ics'[focus].len = 0
    OBVIOUS
  <2>1. focus \in ICID
    BY <1>1 DEF TypeOK, ClientTypeOK
  <2>2. CASE type = "RESET_IC"
    <3>1. m.ic = focus
      BY <1>3, <2>2 DEF Calm, AtFocus
    <3> QED
      BY <1>5, <3>1
  <2>3. CASE type # "RESET_IC"
    <3>1. Moving
      BY <1>3, <2>3 DEF Moving, Moves
    <3>2. ics[focus].len = 0
      BY <3>1 DEF Lit
    <3> QED
      BY <1>5, <2>1, <3>2
  <2> QED
    BY <2>2, <2>3
<1> QED
  BY <1>6, <1>7, <1>8 DEF Lit

\* A handler draws where the word is, and hides it where it ends.
LEMMA HandleLit ==
  ASSUME Inv, Owners, InStep, Calm, Known, Lit, NEW c \in Clients, Handle(c) PROVE Lit'
<1>1. /\ TypeOK /\ OneThing /\ ics \in [ICID -> Contexts] /\ lastId \in ICID
      /\ focus' = focus
  BY CalmHandlers DEF Inv, TypeOK, ServerTypeOK, Contexts, Calm, clientVars
<1>2. PICK m : m = Head(toServer[c])
  OBVIOUS
<1>3. focus # NoIC => focus \in ICID /\ \E d \in Clients : focus \in mine[d]
  BY DEF Calm, FocusHeld, Inv, TypeOK, ClientTypeOK
<1>4. CASE Incoming(c, "SYNC_REPLY") /\ HandleSyncReply(c)
  <2>1. UNCHANGED <<fe, ics>>
    BY <1>4 DEF HandleSyncReply
  <2>2. m.type = "SYNC_REPLY" /\ Asked = Asked' \cup {m}
    BY <1>1, <1>2, <1>4, Taking
  <2>3. Moving' <=> Moving
    BY <2>2 DEF Moving, Moves
  <2>4. \A i \in ICID : Left(i) => Left(i)'
    BY <2>2 DEF Left
  <2> QED
    BY <1>1, <2>1, <2>3, <2>4, LitElsewhere
<1>5. CASE Incoming(c, "CREATE_IC") /\ HandleCreateIC(c)
  <2>1. ~Moving /\ ~Moving' /\ \A i : ~Left(i)
    BY <1>1, <1>5, AloneStill DEF Alone
  <2>2. lastId' = lastId + 1 /\ fe' = fe /\ ics' = [ics EXCEPT ![lastId'] = NewIC]
    BY <1>5, NextId DEF HandleCreateIC
  <2>3. \A i \in ICID : ics'[i].len > 0 => ics'[i].len = ics[i].len
    BY <1>1, <2>2 DEF NewIC
  <2>4. focus # NoIC => ics'[focus].len = ics[focus].len
    <3>1. focus # NoIC => focus <= lastId
      BY <1>3, HeldFacts DEF Ids
    <3> QED
      BY <1>1, <1>3, <2>2, <3>1 DEF ICID
  <2> QED
    BY <1>1, <2>1, <2>2, <2>3, <2>4, LitElsewhere
<1>6. CASE Incoming(c, "DESTROY_IC") /\ HandleDestroyIC(c)
  <2>1. ~Moving /\ ~Moving' /\ \A i : ~Left(i)
    BY <1>1, <1>6, AloneStill DEF Alone, Requests
  <2>2. /\ fe' = fe /\ ics' = [ics EXCEPT ![m.ic] = Unborn]
        /\ m.type = "DESTROY_IC"
        /\ toServer[c] \in Seq(ToServerMessages) /\ toServer[c] # <<>>
    BY <1>1, <1>2, <1>6, IncomingType DEF HandleDestroyIC
  <2>3. \A i \in ICID : ics'[i].len > 0 => ics'[i].len = ics[i].len
    BY <1>1, <2>2 DEF Unborn
  <2>4. focus # NoIC => focus # m.ic
    <3> SUFFICES ASSUME focus # NoIC, focus = m.ic PROVE FALSE
      OBVIOUS
    <3>1. PICK d \in Clients : focus \in mine[d]
      BY <1>3
    <3>2. m.ic \in Ids(c) /\ m.ic \in Ids(d)
      BY <1>2, <1>6, <3>1, HeadIds DEF Ids
    <3>3. d = c
      BY <3>2 DEF Owners, Owned
    <3>4. 1 \in DOMAIN toServer[c] /\ toServer[c][1] = m
      BY <1>2, <2>2, TailFacts
    <3>5. m.ic \notin Held(c)
      BY <2>2, <3>4 DEF Owners, GivenUp
    <3> QED
      BY <3>1, <3>3, <3>5 DEF Held
  <2>5. focus # NoIC => ics'[focus].len = ics[focus].len
    BY <1>1, <1>3, <2>2, <2>4
  <2> QED
    BY <1>1, <2>1, <2>2, <2>3, <2>5, LitElsewhere
<1>7. CASE Incoming(c, "SET_IC_FOCUS") /\ HandleSetFocus(c)
  BY <1>1, <1>7, ResetLit DEF HandleSetFocus
<1>8. CASE Incoming(c, "UNSET_IC_FOCUS") /\ GiveUpWord(c, m.ic, <<>>)
  <2>1. EngineReset /\ ics' = [ics EXCEPT ![m.ic] = Hidden(ics[m.ic])]
    BY <1>8 DEF GiveUpWord
  <2> QED
    BY <1>1, <1>2, <1>8, <2>1, ResetLit
<1>9. CASE Incoming(c, "RESET_IC") /\ GiveUpWord(c, m.ic, <<About("REQUEST_REPLY", m.ic)>>)
  <2>1. EngineReset /\ ics' = [ics EXCEPT ![m.ic] = Hidden(ics[m.ic])]
    BY <1>9 DEF GiveUpWord
  <2> QED
    BY <1>1, <1>2, <1>9, <2>1, ResetLit
<1>10. CASE Incoming(c, "DISCONNECT") /\ HandleDisconnect(c)
  <2>1. ~Moving /\ ~Moving' /\ \A i : ~Left(i)
    BY <1>1, <1>10, AloneStill DEF Alone
  <2>2. UNCHANGED <<fe, ics>>
    BY <1>10 DEF HandleDisconnect
  <2> QED
    BY <1>1, <2>1, <2>2, LitElsewhere
<1> QED
  BY <1>1, <1>2, <1>4, <1>5, <1>6, <1>7, <1>8, <1>9, <1>10, CalmHandlers, KeyLit

\* The focus leaves a word on display until the server hears of it.
LEMMA MoveFocusLit ==
  ASSUME Patient, Inv, Calm, Lit, NEW i \in ICID \cup {NoIC}, MoveFocus(i) PROVE Lit'
<1>1. /\ Quiet /\ UNCHANGED <<fe, ics>> /\ focus' = i /\ i # focus
      /\ \A x \in Asked' : x.type \in Moves /\ (x.type = "UNSET_IC_FOCUS" => x.ic = focus)
      /\ focus # NoIC => \E x \in Asked' : x.type = "UNSET_IC_FOCUS"
      /\ i # NoIC => \E x \in Asked' : x.type = "SET_IC_FOCUS"
  BY MovingAsks DEF Inv, Calm, serverVars
<1>2. /\ ics \in [ICID -> Contexts] /\ \A j \in ICID : ~Left(j)
  BY <1>1, QuietChannels DEF Inv, TypeOK, ServerTypeOK, Contexts, Left
<1>3. \A j \in ICID : ics[j].len > 0 => j = focus /\ focus # NoIC
  BY <1>2 DEF Lit, ICID, NoIC
<1>4. \A j \in ICID : j = focus /\ focus # NoIC => Left(j)'
  BY <1>1 DEF Left
<1>5. i # NoIC => Moving' /\ i \in ICID
  BY <1>1 DEF Moving, Moves
<1>6. i # NoIC => ics[i].len = 0
  BY <1>1, <1>2, <1>3, <1>5 DEF Contexts
<1>7. \A j \in ICID : ics'[j].len > 0 => Left(j)'
  BY <1>1, <1>3, <1>4
<1> QED
  BY <1>1, <1>5, <1>6, <1>7 DEF Lit

\* The word is lit in every step.
LEMMA NextLit ==
  ASSUME Patient, Inv, Owners, InStep, Calm, Known, Lit, [Next]_vars PROVE Lit'
<1>1. CASE UNCHANGED vars
  <2>1. UNCHANGED <<fe, ics, focus>> /\ Asked' = Asked
    BY <1>1 DEF vars, serverVars, channels, clientVars, Asked
  <2> QED
    BY <2>1, LitElsewhere DEF Moving, Left
<1>2. ASSUME NEW c \in Clients, Receive(c) PROVE Lit'
  <2>1. UNCHANGED <<fe, ics, focus>>
    BY <1>2 DEF Receive, serverVars
  <2>2. PICK S : Asked' = Asked \cup S /\ \A x \in S : x.type = "SYNC_REPLY"
    BY <1>2, Hearing
  <2>3. (Moving' <=> Moving) /\ \A i \in ICID : Left(i) => Left(i)'
    BY <2>2 DEF Moving, Moves, Left
  <2> QED
    BY <2>1, <2>3, LitElsewhere
<1>3. ASSUME NEW c \in Clients, ReceiveLeaving(c) PROVE Lit'
  <2>1. UNCHANGED <<fe, ics, focus>> /\ Asked' = Asked
    BY <1>3, HearingLast DEF Inv, ReceiveLeaving, serverVars
  <2> QED
    BY <2>1, LitElsewhere DEF Moving, Left
<1>4. ASSUME NEW c \in Clients, UserAct(c) PROVE Lit'
  <2>1. /\ Quiet /\ UNCHANGED <<fe, ics, focus, toClient>>
        /\ \E m \in ToServerMessages : toServer' = Send(toServer, c, <<m>>) /\ m.type \in Alone
    BY <1>4, UserAsks DEF Calm, serverVars
  <2>2. PICK m \in ToServerMessages : toServer' = Send(toServer, c, <<m>>) /\ m.type \in Alone
    BY <2>1
  <2>3. Asked = {} /\ Asked' = {m}
    BY <2>1, <2>2, QuietChannels, Asking1 DEF Inv
  <2>4. m.type \notin Moves
    BY <2>2 DEF Alone, Requests, Moves
  <2> QED
    BY <2>1, <2>3, <2>4, LitElsewhere DEF Moving, Left
<1> QED
  BY <1>1, <1>2, <1>3, <1>4, HandleLit, MoveFocusLit DEF Next

\* At the start there is no word.
LEMMA InitLit == Init => Lit
BY DEF Init, Lit, Unborn

(***************************************************************************)
(* When nothing is under way, what is on display is the word of the focus. *)
(***************************************************************************)
LEMMA QuietLit == Inv /\ Owners /\ InStep /\ Lit => DisplayIsTheWord
<1> SUFFICES ASSUME Inv, Owners, InStep, Lit, Quiet, NEW c \in Clients, NEW i \in mine[c]
             PROVE  shown[i] = IF i = focus THEN fe.len ELSE 0
  BY DEF DisplayIsTheWord
<1>1. /\ toClient[c] = <<>> /\ Asked = {}
  BY QuietChannels
<1>2. i \in ICID /\ i # NoIC /\ ics[i].len \in Nat
  BY MaxLenPositive DEF Inv, TypeOK, ServerTypeOK, ClientTypeOK, ICID, NoIC
<1>3. Fits(<<>>, i, shown[i], ics[i].len)
  BY <1>1 DEF InStep, Fitted, Held
<1>4. ics[i].len = shown[i]
  BY <1>3, AfterNone DEF Fits
<1>5. ~Moving /\ ~Left(i)
  BY <1>1 DEF Moving, Left
<1> QED
  BY <1>2, <1>4, <1>5 DEF Lit

LitInv == Inv /\ Owners /\ InStep /\ Calm /\ Known /\ Lit

\* The invariant behind DisplayIsTheWord.
LEMMA SpecLit == Patient => (Spec => []LitInv)
<1> SUFFICES ASSUME Patient PROVE Spec => []LitInv
  OBVIOUS
<1>1. Spec => [](Inv /\ Owners /\ InStep)
  BY SpecInStep
<1>2. Init => Calm /\ Known /\ Lit
  BY InitCalm, InitKnown, InitLit
<1>3. Inv /\ Owners /\ InStep /\ Calm /\ Known /\ Lit /\ [Next]_vars
        => (Calm /\ Known /\ Lit)'
  BY NextCalm, NextKnown, NextLit
<1> QED
  BY <1>1, <1>2, <1>3, PTL DEF Spec, LitInv

(***************************************************************************)
(* However many clients there are, and in whatever order the server hears  *)
(* of the two ends of a move of the focus, what a user who waits sees is   *)
(* the word the engine holds.                                              *)
(***************************************************************************)
THEOREM WordOnDisplay == Patient => (Spec => []DisplayIsTheWord)
<1> SUFFICES ASSUME Patient PROVE Spec => []DisplayIsTheWord
  OBVIOUS
<1>1. Spec => []LitInv
  BY SpecLit
<1>2. LitInv => DisplayIsTheWord
  BY QuietLit DEF LitInv
<1> QED
  BY <1>1, <1>2, PTL
-----------------------------------------------------------------------------
(* The word, and the key behind it.                                        *)

\* Nothing waits in Queue while the focus moves, or no answer is to come.
LEMMA QueueEmpty ==
  ASSUME QueueOK,
         Moving \/ (/\ \A m \in Asked : m.type # "SYNC_REPLY"
                    /\ \A m \in Told : m.type # "COMMIT")
  PROVE  ~imsSync /\ queue = <<>>
BY DEF QueueOK

\* What makes QueueOK and WordOK hold again: nothing left to speak of.
LEMMA NoQueue == ASSUME queue' = <<>>, ~imsSync' PROVE QueueOK'
<1>1. Len(queue') <= 1 /\ Elems(queue') = {}
  BY ElemsNone
<1> QED
  BY <1>1 DEF QueueOK

\* The same for the word.
LEMMA NoWord == ASSUME typed' = <<>>, fe'.len = 0 PROVE WordOK'
<1>1. Elems(typed') = {}
  BY ElemsNone
<1> QED
  BY <1>1 DEF WordOK

\* One key more.
LEMMA ElemsAppend ==
  ASSUME NEW s \in Seq(Keys), NEW k \in Keys
  PROVE  /\ Append(s, k) = s \o <<k>> /\ Append(s, k) # <<>> /\ Append(s, k) \in Seq(Keys)
         /\ Elems(Append(s, k)) = Elems(s) \cup {k}
<1>1. Append(s, k) = s \o <<k>> /\ <<k>> \in Seq(Keys) /\ Append(s, k) # <<>>
      /\ Append(s, k) \in Seq(Keys)
  OBVIOUS
<1>2. Elems(s \o <<k>>) = Elems(s) \cup Elems(<<k>>)
  BY <1>1, ElemsConcat
<1>3. Elems(<<k>>) = {k}
  BY ElemsOne
<1> QED
  BY <1>1, <1>2, <1>3

\* The key that comes goes to the word, or behind it.
LEMMA KeyWord ==
  ASSUME Inv, Owners, Calm, Known, WordOK, QueueOK, NEW c \in Clients,
         Incoming(c, "FORWARD_EVENT"), focus' = focus,
         ProcessKey(c, Head(toServer[c]).ic, Head(toServer[c]).key)
  PROVE  WordOK' /\ QueueOK'
<1>1. /\ TypeOK /\ ServerTypeOK /\ OneThing /\ fe \in FrontEndStates /\ typed \in Seq(Keys)
  BY DEF Inv, TypeOK, ServerTypeOK, Calm
<1>2. ~Moving /\ ~Moving' /\ \A j : ~Left(j) /\ ~Left(j)'
  BY <1>1, AloneStill DEF Alone
<1>3. PICK k : k = Head(toServer[c]).key
  OBVIOUS
<1>4. /\ Head(toServer[c]).ic = focus /\ focus \in ICID /\ k \in Keys /\ k.home = focus
  BY <1>3, KeyComes
<1>5. PICK d \in XIMProcessKey(fe, k.ev) :
           /\ \/ DrawWord(c, focus, k, d) \/ DiscardWord(c, focus, k, d)
              \/ CommitWord(c, focus, k, d) \/ ForwardKey(c, focus, k, d)
           /\ d.fe \in FrontEndStates
           /\ d.action = "DRAW" => d.fe.len > 0
           /\ d.action \in {"FORWARD", "COMMIT_FORWARD"} => d.fe.len = fe.len
  BY <1>1, <1>3, <1>4, KeyDecided
<1>6. Asked' = {} /\ Told = {} /\ queue = <<>> /\ ~imsSync
  <2>1. Asked' = {} /\ Asked = {Head(toServer[c])} /\ Told = {}
        /\ Head(toServer[c]).type = "FORWARD_EVENT"
    BY <1>1, AloneTaken, Taking DEF Alone
  <2> QED
    BY <2>1, QueueEmpty
<1>7. \A h \in Elems(typed) : h.home = focus
  BY <1>2 DEF WordOK
<1>8. ResetLen(d.fe).len = 0
  BY <1>5, ResetLenType
<1>9. CASE DrawWord(c, focus, k, d)
  <2>1. fe' = d.fe /\ typed' = Append(typed, k) /\ UNCHANGED <<queue, imsSync>> /\ d.fe.len > 0
    BY <1>5, <1>9 DEF DrawWord
  <2>2. typed' # <<>> /\ Elems(typed') = Elems(typed) \cup {k}
    BY <1>1, <1>4, <2>1, ElemsAppend
  <2>3. \A h \in Elems(typed') : h.home = focus
    BY <1>4, <1>7, <2>2
  <2>4. WordOK'
    BY <1>2, <2>1, <2>2, <2>3 DEF WordOK
  <2> QED
    BY <1>6, <2>1, <2>4, NoQueue
<1>10. CASE DiscardWord(c, focus, k, d)
  BY <1>6, <1>8, <1>10, NoWord, NoQueue DEF DiscardWord
<1>11. CASE CommitWord(c, focus, k, d)
  <2>1. PICK q : q = CommitOf(focus, typed, FALSE)
    OBVIOUS
  <2>2. PICK s : s = SoftHideMessages(focus) \o <<q>>
    OBVIOUS
  <2>3. /\ typed' = <<>> /\ fe'.len = 0 /\ imsSync' /\ queue' = Push(queue, k)
        /\ toClient' = Send(toClient, c, s)
    BY <1>8, <1>11, <2>1, <2>2 DEF CommitWord
  <2>4. s \in Seq(Says(focus))
    BY <1>1, <1>4, <2>1, <2>2, SaysSequences
  <2>5. s \in Seq(ToClientMessages) /\ \A x \in Elems(s) : x.ic = focus
    <3>1. \A j \in DOMAIN s : s[j] \in Says(focus)
      BY <2>4
    <3> QED
      BY <1>4, <2>4, <3>1, SaysFacts DEF Says, Elems
  <2>6. q.type = "COMMIT" /\ q \in Elems(s)
    <3>1. SoftHideMessages(focus) \in Seq(ToClientMessages) /\ q \in ToClientMessages
      BY <1>1, <1>4, <2>1, SaysSequences, SaysFacts, SaysMessages DEF Says, Talk
    <3>2. Elems(s) = Elems(SoftHideMessages(focus)) \cup Elems(<<q>>)
      <4>1. <<q>> \in Seq(ToClientMessages)
        BY <3>1
      <4> QED
        BY <2>2, <3>1, <4>1, ElemsConcat
    <3>3. Elems(<<q>>) = {q} /\ q.type = "COMMIT"
      BY <2>1, ElemsOne DEF CommitOf
    <3> QED
      BY <3>2, <3>3
  <2>7. Told' = Elems(s)
    BY <1>1, <1>6, <2>3, <2>5, Sending
  <2>8. queue' = <<>> \/ queue' = <<k>>
    BY <1>6, <2>3 DEF Push
  <2>9. Len(queue') <= 1 /\ \A h \in Elems(queue') : h.home = focus
    <3>1. Elems(<<k>>) = {k} /\ Elems(<<>>) = {} /\ Len(<<k>>) = 1 /\ Len(<<>>) = 0
      BY ElemsOne, ElemsNone
    <3>2. CASE queue' = <<>>
      BY <3>1, <3>2
    <3>3. CASE queue' = <<k>>
      BY <1>4, <3>1, <3>3
    <3> QED
      BY <2>8, <3>2, <3>3
  <2>10. QueueOK'
    BY <1>2, <1>6, <2>3, <2>5, <2>6, <2>7, <2>9 DEF QueueOK
  <2> QED
    BY <2>3, <2>10, NoWord
<1>12. CASE ForwardKey(c, focus, k, d)
  <2>1. fe'.len = fe.len /\ UNCHANGED <<typed, queue, imsSync>>
    BY <1>5, <1>12 DEF ForwardKey
  <2>2. WordOK'
    BY <1>2, <1>7, <2>1 DEF WordOK
  <2> QED
    BY <1>6, <2>1, <2>2, NoQueue
<1> QED
  BY <1>5, <1>9, <1>10, <1>11, <1>12

\* A word that is given up, or reset, leaves nothing behind it.
LEMMA ResetWord ==
  ASSUME TypeOK, OneThing, QueueOK, NEW c \in Clients,
         NEW type \in {"SET_IC_FOCUS", "UNSET_IC_FOCUS", "RESET_IC"}, Incoming(c, type),
         EngineReset, queue' = <<>>, imsSync' = imsSync
  PROVE  WordOK' /\ QueueOK' /\ queue = <<>>
<1>1. PICK m : m = Head(toServer[c])
  OBVIOUS
<1>2. m.type = type /\ m \in Asked
  BY <1>1, Taking
<1>3. Moving \/ (Asked = {m} /\ Told = {} /\ m.type = "RESET_IC")
  <2>1. CASE type = "RESET_IC"
    BY <1>1, <1>2, <2>1, AloneTaken DEF Alone, Requests
  <2>2. CASE type # "RESET_IC"
    BY <1>2, <2>2 DEF Moving, Moves
  <2> QED
    BY <2>1, <2>2
<1>4. ~imsSync /\ queue = <<>>
  BY <1>3, QueueEmpty
<1>5. fe \in FrontEndStates
  BY DEF TypeOK, ServerTypeOK
<1>6. typed' = <<>> /\ fe'.len = 0
  BY <1>5, ResetLenType DEF EngineReset
<1> QED
  BY <1>4, <1>6, NoWord, NoQueue

\* Other handlers leave the word alone.
LEMMA WordStays ==
  ASSUME WordOK, UNCHANGED <<fe, typed, focus>>, \A i \in ICID : Left(i)' <=> Left(i)
  PROVE  WordOK'
BY DEF WordOK

\* A handler keeps the word and Queue in order.
LEMMA HandleWord ==
  ASSUME Inv, Owners, Calm, Known, WordOK, QueueOK, NEW c \in Clients, Handle(c)
  PROVE  WordOK' /\ QueueOK'
<1>1. /\ TypeOK /\ OneThing /\ focus' = focus /\ queue \in Seq(Keys)
  BY CalmHandlers DEF Inv, TypeOK, ServerTypeOK, Calm, clientVars
<1>2. PICK m : m = Head(toServer[c])
  OBVIOUS
<1>3. CASE Incoming(c, "SYNC_REPLY") /\ HandleSyncReply(c)
  <2>1. /\ UNCHANGED <<fe, typed>> /\ imsSync' = FALSE
        /\ queue' = IF imsSync /\ queue # <<>> THEN Tail(queue) ELSE queue
    BY <1>3 DEF HandleSyncReply
  <2>2. queue' = <<>>
    BY <1>1, <2>1 DEF QueueOK
  <2>3. m.type = "SYNC_REPLY" /\ Asked = Asked' \cup {m}
    BY <1>1, <1>2, <1>3, Taking
  <2>4. \A i \in ICID : Left(i)' <=> Left(i)
    BY <2>3 DEF Left
  <2> QED
    BY <1>1, <2>1, <2>2, <2>4, WordStays, NoQueue
<1>4. ASSUME NEW type \in {"CREATE_IC", "DESTROY_IC", "DISCONNECT"}, Incoming(c, type),
             UNCHANGED <<fe, typed, queue, imsSync>>
      PROVE  WordOK' /\ QueueOK'
  <2>1. type \in Alone
    BY DEF Alone, Requests
  <2>2. \A i \in ICID : Left(i)' <=> Left(i)
    BY <1>1, <1>4, <2>1, AloneStill
  <2>3. Asked = {m} /\ Told = {} /\ m.type = type
    BY <1>1, <1>2, <1>4, <2>1, AloneTaken, Taking
  <2>4. queue = <<>> /\ ~imsSync
    BY <2>3, QueueEmpty
  <2> QED
    BY <1>1, <1>4, <2>2, <2>4, WordStays, NoQueue
<1>5. CASE Incoming(c, "CREATE_IC") /\ HandleCreateIC(c)
  BY <1>4, <1>5 DEF HandleCreateIC
<1>6. CASE Incoming(c, "DESTROY_IC") /\ HandleDestroyIC(c)
  BY <1>4, <1>6 DEF HandleDestroyIC
<1>7. CASE Incoming(c, "DISCONNECT") /\ HandleDisconnect(c)
  BY <1>4, <1>7 DEF HandleDisconnect
<1>8. CASE Incoming(c, "SET_IC_FOCUS") /\ HandleSetFocus(c)
  BY <1>1, <1>8, ResetWord DEF HandleSetFocus
<1>9. CASE Incoming(c, "UNSET_IC_FOCUS") /\ GiveUpWord(c, m.ic, <<>>)
  BY <1>1, <1>9, ResetWord DEF GiveUpWord
<1>10. CASE Incoming(c, "RESET_IC") /\ GiveUpWord(c, m.ic, <<About("REQUEST_REPLY", m.ic)>>)
  BY <1>1, <1>10, ResetWord DEF GiveUpWord
<1> QED
  BY <1>1, <1>2, <1>3, <1>5, <1>6, <1>7, <1>8, <1>9, <1>10, CalmHandlers, KeyWord

\* A client answers a commit; no other step of a client or user touches these.
LEMMA NextWord ==
  ASSUME Patient, Inv, Owners, Calm, Known, WordOK, QueueOK, [Next]_vars
  PROVE  WordOK' /\ QueueOK'
<1>1. CASE UNCHANGED vars
  <2>1. UNCHANGED <<fe, typed, queue, imsSync, focus>> /\ Asked' = Asked /\ Told' = Told
    BY <1>1 DEF vars, serverVars, channels, clientVars, Asked, Told
  <2>2. (Moving' <=> Moving) /\ \A i \in ICID : Left(i)' <=> Left(i)
    BY <2>1 DEF Moving, Left
  <2>3. QueueOK'
    BY <2>1, <2>2 DEF QueueOK
  <2> QED
    BY <2>1, <2>2, <2>3, WordStays
<1>2. ASSUME NEW c \in Clients, Receive(c) PROVE WordOK' /\ QueueOK'
  <2>1. UNCHANGED <<fe, typed, queue, imsSync, focus>>
    BY <1>2 DEF Receive, serverVars
  <2>2. PICK m : m = Head(toClient[c])
    OBVIOUS
  <2>3. /\ m \in Told /\ Told = Told' \cup {m} /\ Asked' = Asked \cup Elems(Replies(m))
        /\ \A x \in Elems(Replies(m)) : x.type = "SYNC_REPLY" /\ x.ic = m.ic
                                          /\ m.type \in {"COMMIT", "FORWARD_EVENT"}
    BY <1>2, <2>2, Hearing
  <2>4. (Moving' <=> Moving) /\ \A i \in ICID : Left(i)' <=> Left(i)
    BY <2>3 DEF Moving, Moves, Left
  <2>5. m.type = "COMMIT" => \E x \in Asked' : x.type = "SYNC_REPLY"
    <3>1. m.type = "COMMIT" => Elems(Replies(m)) = {About("SYNC_REPLY", m.ic)}
      BY ElemsOne DEF Replies
    <3>2. About("SYNC_REPLY", m.ic).type = "SYNC_REPLY"
      BY DEF About
    <3> QED
      BY <2>3, <3>1, <3>2
  <2>6. ASSUME NEW k \in Elems(queue)
        PROVE  /\ \A x \in Asked' : x.type = "SYNC_REPLY" => x.ic = k.home
               /\ \A x \in Told' : x.type \in {"COMMIT", "FORWARD_EVENT"} => x.ic = k.home
    BY <2>3 DEF QueueOK
  <2>7. imsSync => (\E x \in Asked' : x.type = "SYNC_REPLY") \/ (\E x \in Told' : x.type = "COMMIT")
    BY <2>3, <2>5 DEF QueueOK
  <2>8. QueueOK'
    BY <2>1, <2>4, <2>6, <2>7 DEF QueueOK
  <2> QED
    BY <2>1, <2>4, <2>8, WordStays
<1>3. ASSUME NEW c \in Clients, ReceiveLeaving(c) PROVE WordOK' /\ QueueOK'
  <2>1. UNCHANGED <<fe, typed, queue, imsSync, focus>> /\ Asked' = Asked
    BY <1>3, HearingLast DEF Inv, ReceiveLeaving, serverVars
  <2>2. \A i \in ICID : Left(i)' <=> Left(i)
    BY <2>1 DEF Left
  <2>3. queue = <<>> /\ ~imsSync
    <3>1. /\ \A m \in Asked : m.type = "DISCONNECT"
          /\ \A m \in Told : m.type = "DISCONNECT_REPLY"
      BY <1>3 DEF Calm, Going, ReceiveLeaving
    <3> QED
      BY <3>1, QueueEmpty
  <2> QED
    BY <2>1, <2>2, <2>3, WordStays, NoQueue
<1>4. ASSUME NEW c \in Clients, UserAct(c) PROVE WordOK' /\ QueueOK'
  <2>1. /\ Quiet /\ UNCHANGED <<fe, typed, queue, imsSync, focus, toClient>>
        /\ \E m \in ToServerMessages : toServer' = Send(toServer, c, <<m>>) /\ m.type \in Alone
    BY <1>4, UserAsks DEF Calm, serverVars
  <2>2. PICK m \in ToServerMessages : toServer' = Send(toServer, c, <<m>>) /\ m.type \in Alone
    BY <2>1
  <2>3. Asked = {} /\ Told = {} /\ Asked' = {m}
    BY <2>1, <2>2, QuietChannels, Asking1 DEF Inv
  <2>4. \A i \in ICID : Left(i)' <=> Left(i)
    BY <2>2, <2>3 DEF Left, Alone, Requests
  <2>5. queue = <<>> /\ ~imsSync
    BY <2>3, QueueEmpty
  <2> QED
    BY <2>1, <2>4, <2>5, WordStays, NoQueue
<1>5. ASSUME NEW i \in ICID \cup {NoIC}, MoveFocus(i) PROVE WordOK' /\ QueueOK'
  <2>1. /\ Quiet /\ UNCHANGED <<fe, typed, queue, imsSync>> /\ focus' = i
        /\ \A x \in Asked' : x.type = "UNSET_IC_FOCUS" => x.ic = focus
        /\ focus # NoIC => \E x \in Asked' : x.type = "UNSET_IC_FOCUS"
    BY <1>5, MovingAsks DEF Inv, Calm, serverVars
  <2>2. Asked = {} /\ Told = {}
    BY <2>1, QuietChannels
  <2>3. queue = <<>> /\ ~imsSync
    BY <2>2, QueueEmpty
  <2>4. \A k \in Elems(typed) : k.home = focus /\ focus # NoIC
    <3>1. \A k \in Elems(typed) : k.home = focus
      BY <2>2 DEF WordOK, Left
    <3>2. ASSUME NEW k \in Elems(typed) PROVE k.home \in ICID
      <4>1. PICK j \in DOMAIN typed : k = typed[j]
        BY DEF Elems
      <4>2. typed \in Seq(Keys)
        BY DEF Inv, TypeOK, ServerTypeOK
      <4>3. k \in Keys
        BY <4>1, <4>2
      <4> QED
        BY <4>3 DEF Keys
    <3> QED
      BY <3>1, <3>2 DEF ICID, NoIC
  <2>5. \A j \in ICID : Left(j)' => j = focus
    BY <2>1 DEF Left
  <2>6. focus # NoIC => \E j \in ICID : Left(j)'
    <3> SUFFICES ASSUME focus # NoIC PROVE \E j \in ICID : Left(j)'
      OBVIOUS
    <3>1. PICK j \in ICID : j = focus
      BY DEF Inv, TypeOK, ClientTypeOK
    <3> QED
      BY <2>1, <3>1 DEF Left
  <2>7. WordOK'
    BY <2>1, <2>4, <2>5, <2>6 DEF WordOK
  <2> QED
    BY <2>1, <2>3, <2>7, NoQueue
<1> QED
  BY <1>1, <1>2, <1>3, <1>4, <1>5, HandleWord DEF Next

\* At the start there is neither.
LEMMA InitWord == Init => WordOK /\ QueueOK
<1> SUFFICES ASSUME Init PROVE WordOK /\ QueueOK
  OBVIOUS
<1>1. typed = <<>> /\ queue = <<>> /\ imsSync = FALSE /\ fe.len = 0
      /\ \A c \in Clients : toServer[c] = <<>>
  BY DEF Init
<1>2. Elems(typed) = {} /\ Elems(queue) = {} /\ Len(queue) <= 1
      /\ \A c \in Clients : Elems(toServer[c]) = {}
  BY <1>1, ElemsNone
<1> QED
  BY <1>1, <1>2 DEF WordOK, QueueOK
-----------------------------------------------------------------------------
(* Keys in order.                                                          *)

\* Rows of keys put one behind the other,
LEMMA InRowConcat ==
  ASSUME NEW S, NEW s \in Seq(S), NEW t \in Seq(S), InRow(s), InRow(t),
         Before(Elems(s), Elems(t))
  PROVE  InRow(s \o t)
<1> SUFFICES ASSUME NEW j \in DOMAIN (s \o t), NEW p \in DOMAIN (s \o t), j < p
             PROVE  Precedes((s \o t)[j], (s \o t)[p])
  BY DEF InRow
<1>1. /\ Len(s) \in Nat /\ DOMAIN s = 1..Len(s) /\ DOMAIN t = 1..Len(t) /\ Len(t) \in Nat
      /\ DOMAIN (s \o t) = 1..(Len(s) + Len(t))
  BY ConcatFacts
<1>2. \/ j \in DOMAIN s /\ (s \o t)[j] = s[j]
      \/ \E q \in DOMAIN t : j = Len(s) + q /\ (s \o t)[j] = t[q]
  BY ConcatElement
<1>3. \/ p \in DOMAIN s /\ (s \o t)[p] = s[p]
      \/ \E q \in DOMAIN t : p = Len(s) + q /\ (s \o t)[p] = t[q]
  BY ConcatElement
<1>4. CASE j \in DOMAIN s /\ (s \o t)[j] = s[j] /\ p \in DOMAIN s /\ (s \o t)[p] = s[p]
  BY <1>4 DEF InRow
<1>5. ASSUME j \in DOMAIN s, (s \o t)[j] = s[j], NEW q \in DOMAIN t, (s \o t)[p] = t[q]
      PROVE  Precedes((s \o t)[j], (s \o t)[p])
  BY <1>5 DEF Before, Elems
<1>6. ASSUME NEW q \in DOMAIN t, NEW r \in DOMAIN t, j = Len(s) + q, (s \o t)[j] = t[q],
             p = Len(s) + r, (s \o t)[p] = t[r]
      PROVE  Precedes((s \o t)[j], (s \o t)[p])
  <2>1. q < r
    BY <1>1, <1>6
  <2> QED
    BY <1>6, <2>1 DEF InRow
<1>7. ASSUME NEW q \in DOMAIN t, j = Len(s) + q PROVE p \notin DOMAIN s
  BY <1>1, <1>7
<1> QED
  BY <1>2, <1>3, <1>4, <1>5, <1>6, <1>7

\* or made longer by a key.
LEMMA InRowAppend ==
  ASSUME NEW s \in Seq(Keys), NEW k \in Keys, InRow(s), Before(Elems(s), {k})
  PROVE  InRow(Append(s, k))
<1>1. Append(s, k) = s \o <<k>> /\ <<k>> \in Seq(Keys) /\ Elems(<<k>>) = {k}
  BY ElemsAppend, ElemsOne
<1>2. InRow(<<k>>)
  BY DEF InRow
<1> QED
  BY <1>1, <1>2, InRowConcat

\* The same for messages with keys,
LEMMA RowsConcat ==
  ASSUME NEW S, NEW s \in Seq(S), NEW t \in Seq(S), Rows(s), Rows(t),
         Before(KeysOf(s), KeysOf(t))
  PROVE  Rows(s \o t)
<1>1. /\ Len(s) \in Nat /\ DOMAIN s = 1..Len(s) /\ DOMAIN t = 1..Len(t) /\ Len(t) \in Nat
      /\ DOMAIN (s \o t) = 1..(Len(s) + Len(t))
  BY ConcatFacts
<1>2. \A j \in DOMAIN (s \o t) : \/ j \in DOMAIN s /\ (s \o t)[j] = s[j]
                                 \/ \E q \in DOMAIN t : j = Len(s) + q /\ (s \o t)[j] = t[q]
  BY ConcatElement
<1>3. \A j \in DOMAIN (s \o t) : InRow(Carried((s \o t)[j]))
  BY <1>2 DEF Rows
<1>4. ASSUME NEW j \in DOMAIN (s \o t), NEW p \in DOMAIN (s \o t), j < p
      PROVE  Before(Elems(Carried((s \o t)[j])), Elems(Carried((s \o t)[p])))
  <2>1. CASE j \in DOMAIN s /\ (s \o t)[j] = s[j] /\ p \in DOMAIN s /\ (s \o t)[p] = s[p]
    BY <1>4, <2>1 DEF Rows
  <2>2. ASSUME j \in DOMAIN s, (s \o t)[j] = s[j], NEW q \in DOMAIN t, (s \o t)[p] = t[q]
        PROVE  Before(Elems(Carried((s \o t)[j])), Elems(Carried((s \o t)[p])))
    <3>1. Elems(Carried(s[j])) \subseteq KeysOf(s) /\ Elems(Carried(t[q])) \subseteq KeysOf(t)
      BY <2>2 DEF KeysOf
    <3> QED
      BY <2>2, <3>1 DEF Before
  <2>3. ASSUME NEW q \in DOMAIN t, NEW r \in DOMAIN t, j = Len(s) + q, (s \o t)[j] = t[q],
               p = Len(s) + r, (s \o t)[p] = t[r]
        PROVE  Before(Elems(Carried((s \o t)[j])), Elems(Carried((s \o t)[p])))
    <3>1. q < r
      BY <1>1, <1>4, <2>3
    <3> QED
      BY <2>3, <3>1 DEF Rows
  <2>4. ASSUME NEW q \in DOMAIN t, j = Len(s) + q PROVE p \notin DOMAIN s
    BY <1>1, <1>4, <2>4
  <2> QED
    BY <1>2, <2>1, <2>2, <2>3, <2>4
<1> QED
  BY <1>3, <1>4 DEF Rows

\* of which the first may be taken.
LEMMA RowsTail ==
  ASSUME NEW S, NEW s \in Seq(S), s # <<>>, Rows(s), Addressed(s)
  PROVE  /\ Rows(Tail(s)) /\ Addressed(Tail(s)) /\ InRow(Carried(Head(s)))
         /\ Before(Elems(Carried(Head(s))), KeysOf(Tail(s)))
         /\ \A k \in Elems(Carried(Head(s))) : k.home = Head(s).ic
<1>1. /\ Head(s) = s[1] /\ 1 \in DOMAIN s
      /\ DOMAIN s = 1..Len(s) /\ DOMAIN Tail(s) = 1..(Len(s) - 1) /\ Len(s) \in Nat
      /\ \A j \in DOMAIN Tail(s) : j + 1 \in DOMAIN s /\ Tail(s)[j] = s[j + 1]
  BY TailFacts
<1>2. ASSUME NEW j \in DOMAIN Tail(s), NEW p \in DOMAIN Tail(s), j < p
      PROVE  Before(Elems(Carried(Tail(s)[j])), Elems(Carried(Tail(s)[p])))
  <2>1. j + 1 < p + 1 /\ j + 1 \in DOMAIN s /\ p + 1 \in DOMAIN s
    BY <1>1, <1>2
  <2>2. Before(Elems(Carried(s[j + 1])), Elems(Carried(s[p + 1])))
    BY <2>1 DEF Rows
  <2> QED
    BY <1>1, <2>2
<1>3. \A j \in DOMAIN Tail(s) : InRow(Carried(Tail(s)[j]))
  BY <1>1 DEF Rows
<1>4. Addressed(Tail(s)) /\ \A k \in Elems(Carried(Head(s))) : k.home = Head(s).ic
  BY <1>1 DEF Addressed
<1>5. Before(Elems(Carried(Head(s))), KeysOf(Tail(s)))
  <2> SUFFICES ASSUME NEW k \in Elems(Carried(Head(s))), NEW h \in KeysOf(Tail(s))
               PROVE  Precedes(k, h)
    BY DEF Before
  <2>1. PICK j \in DOMAIN Tail(s) : h \in Elems(Carried(Tail(s)[j]))
    BY DEF KeysOf
  <2>2. j + 1 \in DOMAIN s /\ 1 < j + 1 /\ h \in Elems(Carried(s[j + 1]))
    BY <1>1, <2>1
  <2>3. Before(Elems(Carried(s[1])), Elems(Carried(s[j + 1])))
    BY <1>1, <2>2 DEF Rows
  <2> QED
    BY <1>1, <2>2, <2>3 DEF Before
<1> QED
  BY <1>1, <1>2, <1>3, <1>4, <1>5 DEF Rows

\* Messages without keys disturb no order.
LEMMA KeylessRows ==
  ASSUME NEW s, KeysOf(s) = {}
  PROVE  Rows(s) /\ Addressed(s)
<1>1. \A j \in DOMAIN s : Elems(Carried(s[j])) = {}
  BY DEF KeysOf
<1>2. \A j \in DOMAIN s : DOMAIN Carried(s[j]) = {}
  BY <1>1 DEF Elems
<1> QED
  BY <1>1, <1>2 DEF Rows, Addressed, InRow, Before

\* Messages without keys may stand before or behind them.
LEMMA RowsKeyless ==
  ASSUME NEW s \in Seq(ToClientMessages), NEW t \in Seq(ToClientMessages), Rows(s), Rows(t), Addressed(s), Addressed(t),
         KeysOf(s) = {} \/ KeysOf(t) = {}
  PROVE  /\ s \o t \in Seq(ToClientMessages) /\ Rows(s \o t) /\ Addressed(s \o t)
         /\ KeysOf(s \o t) = KeysOf(s) \cup KeysOf(t)
<1>1. Before(KeysOf(s), KeysOf(t))
  BY DEF Before
<1>2. Addressed(s \o t)
  <2>1. \A j \in DOMAIN (s \o t) : \/ j \in DOMAIN s /\ (s \o t)[j] = s[j]
                                   \/ \E q \in DOMAIN t : (s \o t)[j] = t[q]
    BY ConcatElement
  <2> QED
    BY <2>1 DEF Addressed
<1> QED
  BY <1>1, <1>2, RowsConcat, KeysOfConcat, ConcatFacts

\* A commit carries the word in a row, and a key that is passed on is alone.
LEMMA RowsOne ==
  ASSUME NEW m, InRow(Carried(m)), \A k \in Elems(Carried(m)) : k.home = m.ic
  PROVE  Rows(<<m>>) /\ Addressed(<<m>>) /\ KeysOf(<<m>>) = Elems(Carried(m))
<1>1. DOMAIN <<m>> = {1} /\ <<m>>[1] = m
  OBVIOUS
<1> QED
  BY <1>1, KeysOfOne DEF Rows, Addressed

\* A commit has a row of keys of its context, and a key forwarded is one.
LEMMA CommitRows ==
  ASSUME TypeOK, NEW i \in ICID, NEW keys \in Seq(Keys), NEW junk \in BOOLEAN,
         InRow(keys), \A k \in Elems(keys) : k.home = i
  PROVE  LET s == SoftHideMessages(i) \o <<CommitOf(i, keys, junk)>>
         IN  s \in Seq(ToClientMessages) /\ Rows(s) /\ Addressed(s) /\ KeysOf(s) = Elems(keys)
<1>1. PICK q : q = CommitOf(i, keys, junk)
  OBVIOUS
<1>2. q \in ToClientMessages /\ Carried(q) = keys /\ q.ic = i
  BY <1>1 DEF CommitOf, Carried, ToClientMessages
<1>3. Rows(<<q>>) /\ Addressed(<<q>>) /\ KeysOf(<<q>>) = Elems(keys) /\ <<q>> \in Seq(ToClientMessages)
  BY <1>2, RowsOne
<1>4. KeysOf(SoftHideMessages(i)) = {} /\ SoftHideMessages(i) \in Seq(ToClientMessages)
  BY NoKeys, SaysSequences, SaysFacts DEF TypeOK
<1>5. Rows(SoftHideMessages(i)) /\ Addressed(SoftHideMessages(i))
  BY <1>4, KeylessRows
<1>6. SoftHideMessages(i) \o <<q>> \in Seq(ToClientMessages)
  BY <1>3, <1>4, ConcatFacts
<1>7. LET s == SoftHideMessages(i) \o <<q>>
      IN  Rows(s) /\ Addressed(s) /\ KeysOf(s) = KeysOf(SoftHideMessages(i)) \cup KeysOf(<<q>>)
  BY <1>3, <1>4, <1>5, RowsKeyless
<1> QED
  BY <1>1, <1>3, <1>4, <1>6, <1>7

\* A key forwarded to the context it was typed in.
LEMMA ForwardRows ==
  ASSUME NEW i \in ICID, NEW k \in Keys, k.home = i
  PROVE  Rows(<<Forward(i, k)>>) /\ Addressed(<<Forward(i, k)>>)
<1>1. PICK q : q = Forward(i, k)
  OBVIOUS
<1>2. Carried(q) = <<k>> /\ q.ic = i
  BY <1>1 DEF Forward, Carried
<1>3. InRow(<<k>>) /\ Elems(<<k>>) = {k}
  BY ElemsOne DEF InRow
<1> QED
  BY <1>1, <1>2, <1>3, RowsOne

\* What is gone.
LEMMA GoneKeys ==
  /\ \A i \in ICID : Elems(app[i]) \subseteq Gone
  /\ \A c \in Clients : KeysOf(toClient[c]) \subseteq Gone
  /\ \A h \in Gone : (\E i \in ICID : h \in Elems(app[i]))
                       \/ (\E c \in Clients : h \in KeysOf(toClient[c]))
  /\ Gone \subseteq Handled /\ Elems(typed) \subseteq Handled /\ Elems(queue) \subseteq Handled
<1>1. /\ \A i \in ICID : Elems(app[i]) \subseteq Gone
      /\ \A c \in Clients : KeysOf(toClient[c]) \subseteq Gone
  BY DEF Gone
<1>2. \A h \in Gone : (\E i \in ICID : h \in Elems(app[i]))
                       \/ (\E c \in Clients : h \in KeysOf(toClient[c]))
  BY DEF Gone
<1>3. \A h \in Gone \cup Elems(typed) \cup Elems(queue) : HandledAt(h)
  BY <1>2 DEF HandledAt
<1> QED
  BY <1>1, <1>2, <1>3, HandledKeys

\* A handler that sends keys after all that are gone, and keeps later ones,
\* keeps the order.
LEMMA SentInOrder ==
  ASSUME TypeOK, Ordered, NEW c \in Clients, NEW s \in Seq(ToClientMessages),
         toClient' = Send(toClient, c, s), app' = app,
         Rows(s), Addressed(s), InRow(typed'), Before(Gone, KeysOf(s)),
         Before(Gone \cup KeysOf(s), Elems(typed') \cup Elems(queue'))
  PROVE  Ordered'
<1>1. /\ \A d \in Clients : d # c => toClient'[d] = toClient[d]
      /\ toClient'[c] = toClient[c] \o s /\ toClient[c] \in Seq(ToClientMessages)
      /\ KeysOf(toClient'[c]) = KeysOf(toClient[c]) \cup KeysOf(s)
  BY SentKeys DEF TypeOK, ChannelsTypeOK
<1>2. /\ KeysOf(toClient[c]) \subseteq Gone /\ \A i \in ICID : Elems(app[i]) \subseteq Gone
  BY GoneKeys
<1>3. Rows(toClient'[c])
  <2>1. Before(KeysOf(toClient[c]), KeysOf(s))
    BY <1>2 DEF Before
  <2> QED
    BY <1>1, <2>1, RowsConcat DEF Ordered
<1>4. Addressed(toClient'[c])
  <2>1. \A j \in DOMAIN toClient'[c] :
          \/ j \in DOMAIN toClient[c] /\ toClient'[c][j] = toClient[c][j]
          \/ \E q \in DOMAIN s : toClient'[c][j] = s[q]
    BY <1>1, ConcatElement
  <2>2. Addressed(toClient[c])
    BY DEF Ordered
  <2> QED
    BY <2>1, <2>2 DEF Addressed
<1>5. ASSUME NEW i \in ICID, NEW d \in Clients
      PROVE  Before(Elems(app'[i]), KeysOf(toClient'[d]))
  <2>1. Before(Elems(app[i]), KeysOf(toClient[d])) /\ app'[i] = app[i]
    BY DEF Ordered
  <2>2. d = c => Before(Elems(app[i]), KeysOf(s))
    BY <1>2 DEF Before
  <2>3. KeysOf(toClient'[d]) \subseteq KeysOf(toClient[d]) \cup (IF d = c THEN KeysOf(s) ELSE {})
    BY <1>1
  <2> QED
    BY <2>1, <2>2, <2>3 DEF Before
<1>6. Gone' \subseteq Gone \cup KeysOf(s)
  <2>1. \A d \in Clients : KeysOf(toClient'[d]) \subseteq Gone \cup KeysOf(s)
    BY <1>1, GoneKeys
  <2>2. Gone' = (UNION {Elems(app'[i]) : i \in ICID})
                  \cup (UNION {KeysOf(toClient'[d]) : d \in Clients})
    BY DEF Gone
  <2> QED
    BY <1>2, <2>1, <2>2
<1>7. Before(Gone', Elems(typed') \cup Elems(queue'))
  BY <1>6 DEF Before
<1>8. \A d \in Clients : Rows(toClient'[d]) /\ Addressed(toClient'[d])
  BY <1>1, <1>3, <1>4 DEF Ordered
<1>9. \A i \in ICID : InRow(app'[i]) /\ \A k \in Elems(app'[i]) : k.home = i
  BY DEF Ordered
<1> QED
  BY <1>5, <1>7, <1>8, <1>9 DEF Ordered

\* What a handler makes of the keys it has and takes: it sends some, in order,
\* and keeps the rest for later.  It loses none when Queue has room for one
\* key and no word is reset without a commit.
Passes(c, T) ==
  /\ app' = app
  /\ \E s \in Seq(ToClientMessages) :
       /\ toClient' = Send(toClient, c, s) /\ Rows(s) /\ Addressed(s)
       /\ InRow(typed') /\ Before(Gone, KeysOf(s))
       /\ Before(Gone \cup KeysOf(s), Elems(typed') \cup Elems(queue'))
       /\ MaxBuffer > 1 /\ (Head(toServer[c]).type = "SET_IC_FOCUS" => typed = <<>>)
            => Elems(typed) \cup Elems(queue) \cup T
                 \subseteq Elems(typed') \cup Elems(queue') \cup KeysOf(s)

\* So what it sends stays in order.
LEMMA PassesOrdered == ASSUME TypeOK, Ordered, NEW c \in Clients, NEW T, Passes(c, T)
                       PROVE  Ordered'
BY SentInOrder DEF Passes

\* The key that comes follows all that were handled, and goes to the word, or
\* with it, or behind it; a key that passes the word by has no effect.
LEMMA KeyPasses ==
  ASSUME Inv, Owners, InTurn, Calm, Known, WordOK, QueueOK, Ordered, NEW c \in Clients,
         Incoming(c, "FORWARD_EVENT"), app' = app,
         ProcessKey(c, Head(toServer[c]).ic, Head(toServer[c]).key)
  PROVE  Passes(c, {Head(toServer[c]).key})
<1>1. /\ TypeOK /\ ServerTypeOK /\ OneThing /\ typed \in Seq(Keys) /\ MaxBuffer \in Nat \ {0}
  BY XimAssumption DEF Inv, TypeOK, ServerTypeOK, Calm
<1>2. PICK k : k = Head(toServer[c]).key
  OBVIOUS
<1>3. /\ Head(toServer[c]).ic = focus /\ focus \in ICID /\ k \in Keys /\ k.home = focus
      /\ k \in Ahead(c)
  BY <1>2, KeyComes
<1>4. PICK i : i = focus
  OBVIOUS
<1>5. PICK d \in XIMProcessKey(fe, k.ev) :
           /\ \/ DrawWord(c, i, k, d) \/ DiscardWord(c, i, k, d)
              \/ CommitWord(c, i, k, d) \/ ForwardKey(c, i, k, d)
           /\ d.fe \in FrontEndStates
           /\ d.action \in {"FORWARD", "COMMIT_FORWARD"} => d.fe.len = fe.len
           /\ d.action = "FORWARD" => ~HasEffect(k)
  BY <1>1, <1>2, <1>3, <1>4, KeyDecided
<1>6. queue = <<>> /\ Elems(queue) = {}
  <2>1. Asked = {Head(toServer[c])} /\ Told = {} /\ Head(toServer[c]).type = "FORWARD_EVENT"
    BY <1>1, AloneTaken, Taking DEF Alone
  <2> QED
    BY <2>1, QueueEmpty, ElemsNone
<1>7. \A h \in Elems(typed) : h.home = i
  BY <1>1, <1>4, AloneStill DEF WordOK, Alone
<1>8. Before(Gone, {k}) /\ Before(Elems(typed), {k})
  <2>1. \A h \in Handled : h.home = k.home => h.n < k.n
    BY <1>3 DEF InTurn
  <2> QED
    BY <2>1, GoneKeys DEF Before, Precedes
<1>9. InRow(typed) /\ Before(Gone, Elems(typed))
  BY DEF Ordered, Before
<1>10. /\ Elems(Append(typed, k)) = Elems(typed) \cup {k} /\ Append(typed, k) \in Seq(Keys)
       /\ InRow(Append(typed, k)) /\ Before(Gone, Elems(Append(typed, k)))
  <2>1. Elems(Append(typed, k)) = Elems(typed) \cup {k} /\ Append(typed, k) \in Seq(Keys)
    BY <1>1, <1>3, ElemsAppend
  <2>2. InRow(Append(typed, k))
    BY <1>1, <1>3, <1>8, <1>9, InRowAppend
  <2> QED
    BY <1>8, <1>9, <2>1, <2>2 DEF Before
<1>11. InRow(<<>>) /\ Elems(<<>>) = {}
  BY ElemsNone DEF InRow
<1>12. CASE DrawWord(c, i, k, d)
  <2>1. PICK s : s = DrawMessages(i, d.fe.len)
    OBVIOUS
  <2>2. /\ toClient' = Send(toClient, c, s) /\ typed' = Append(typed, k) /\ queue' = queue
    BY <1>12, <2>1 DEF DrawWord
  <2>3. d.fe.len \in 0..MaxLen
    BY <1>5 DEF FrontEndStates
  <2>4. s \in Seq(Says(i)) /\ KeysOf(s) = {}
    BY <1>1, <1>3, <1>4, <2>1, <2>3, SaysSequences, NoKeys
  <2>5. s \in Seq(ToClientMessages) /\ Rows(s) /\ Addressed(s)
    BY <1>3, <1>4, <2>4, SaysFacts, KeylessRows
  <2>6. Before(Gone, KeysOf(s)) /\ Before(Gone \cup KeysOf(s), Elems(typed') \cup Elems(queue'))
    BY <1>6, <1>10, <2>2, <2>4 DEF Before
  <2> QED
    BY <1>2, <1>6, <1>10, <2>2, <2>5, <2>6 DEF Passes
<1>13. ASSUME NEW keys \in Seq(Keys), NEW junk \in BOOLEAN, InRow(keys),
              \A h \in Elems(keys) : h.home = i, Before(Gone, Elems(keys)),
              toClient' = Send(toClient, c, SoftHideMessages(i) \o <<CommitOf(i, keys, junk)>>),
              typed' = <<>>, Elems(queue') \subseteq {k}, Before(Elems(keys), Elems(queue')),
              MaxBuffer > 1 => Elems(typed) \cup {k} \subseteq Elems(keys) \cup Elems(queue')
       PROVE  Passes(c, {Head(toServer[c]).key})
  <2>1. PICK s : s = SoftHideMessages(i) \o <<CommitOf(i, keys, junk)>>
    OBVIOUS
  <2>2. s \in Seq(ToClientMessages) /\ Rows(s) /\ Addressed(s) /\ KeysOf(s) = Elems(keys)
    BY <1>1, <1>3, <1>4, <1>13, <2>1, CommitRows
  <2>3. Before(Gone, KeysOf(s)) /\ Before(Gone \cup KeysOf(s), Elems(typed') \cup Elems(queue'))
    BY <1>8, <1>11, <1>13, <2>2 DEF Before
  <2>4. MaxBuffer > 1 => Elems(typed) \cup Elems(queue) \cup {k}
                           \subseteq Elems(typed') \cup Elems(queue') \cup KeysOf(s)
    BY <1>6, <1>13, <2>2
  <2>5. InRow(typed')
    BY <1>11, <1>13
  <2> QED
    BY <1>2, <1>13, <2>1, <2>2, <2>3, <2>4, <2>5 DEF Passes
<1>14. CASE DiscardWord(c, i, k, d)
  <2>1. PICK junk \in BOOLEAN :
          toClient' = Send(toClient, c,
                           SoftHideMessages(i) \o <<CommitOf(i, Append(typed, k), junk)>>)
    BY <1>14 DEF DiscardWord
  <2>2. typed' = <<>> /\ queue' = queue
    BY <1>14 DEF DiscardWord
  <2>3. \A h \in Elems(Append(typed, k)) : h.home = i
    BY <1>3, <1>4, <1>7, <1>10
  <2>4. Before(Elems(Append(typed, k)), Elems(queue'))
    BY <1>6, <2>2 DEF Before
  <2> QED
    BY <1>6, <1>10, <1>13, <2>1, <2>2, <2>3, <2>4
<1>15. CASE CommitWord(c, i, k, d)
  <2>1. /\ toClient' = Send(toClient, c, SoftHideMessages(i) \o <<CommitOf(i, typed, FALSE)>>)
        /\ typed' = <<>> /\ queue' = Push(queue, k)
    BY <1>15 DEF CommitWord
  <2>2. Elems(queue') \subseteq {k} /\ (MaxBuffer > 1 => Elems(queue') = {k})
    <3>1. Elems(<<k>>) = {k}
      BY ElemsOne
    <3>2. queue' = <<>> \/ queue' = <<k>>
      BY <1>6, <2>1 DEF Push
    <3>3. MaxBuffer > 1 => queue' = <<k>>
      BY <1>1, <1>6, <2>1 DEF Push
    <3> QED
      BY <1>11, <3>1, <3>2, <3>3
  <2>3. Before(Elems(typed), Elems(queue'))
    BY <1>8, <2>2 DEF Before
  <2> QED
    BY <1>1, <1>7, <1>9, <1>13, <2>1, <2>2, <2>3
<1>16. CASE ForwardKey(c, i, k, d)
  <2>1. PICK s : s = <<Forward(i, k)>>
    OBVIOUS
  <2>2. /\ toClient' = Send(toClient, c, s) /\ UNCHANGED <<typed, queue>>
        /\ d.action = "FORWARD" \/ (d.action = "COMMIT_FORWARD" /\ d.fe.len = 0)
    BY <1>16, <2>1 DEF ForwardKey
  <2>3. s \in Seq(ToClientMessages) /\ KeysOf(s) = {k} /\ Rows(s) /\ Addressed(s)
    BY <1>3, <1>4, <2>1, ForwardKeys, ForwardRows
  <2>4. ~HasEffect(k) \/ Elems(typed) = {}
    <3>1. d.action = "COMMIT_FORWARD" /\ d.fe.len = 0 => typed = <<>>
      BY <1>5 DEF WordOK
    <3> QED
      BY <1>5, <1>11, <2>2, <3>1
  <2>5. Before({k}, Elems(typed))
    BY <2>4 DEF Before, Precedes
  <2>6. Before(Gone, KeysOf(s)) /\ Before(Gone \cup KeysOf(s), Elems(typed') \cup Elems(queue'))
    BY <1>6, <1>8, <1>9, <2>2, <2>3, <2>5 DEF Before
  <2> QED
    BY <1>2, <1>9, <2>2, <2>3, <2>6 DEF Passes
<1> QED
  BY <1>5, <1>12, <1>14, <1>15, <1>16

\* A word that is given up goes where it was typed.
LEMMA GiveUpPasses ==
  ASSUME Inv, WordOK, Ordered, queue = <<>>, app' = app, NEW c \in Clients, NEW i \in ICID,
         \A h \in Elems(typed) : h.home = i,
         NEW replies \in Seq(ToClientMessages), KeysOf(replies) = {},
         GiveUpWord(c, i, replies)
  PROVE  Passes(c, {})
<1>1. TypeOK /\ ServerTypeOK /\ typed \in Seq(Keys) /\ fe.len \in Nat
  BY MaxLenPositive DEF Inv, TypeOK, ServerTypeOK, FrontEndStates
<1>2. InRow(typed) /\ Before(Gone, Elems(typed)) /\ (fe.len = 0 => Elems(typed) = {})
  BY ElemsNone DEF Ordered, Before, WordOK
<1> DEFINE h == SoftHideMessages(i)
           u == SoftHideMessages(i) \o <<CommitOf(i, typed, FALSE)>>
           e == DoneMessages(i)
<1>3. /\ h \in Seq(ToClientMessages) /\ KeysOf(h) = {} /\ Rows(h) /\ Addressed(h)
      /\ e \in Seq(ToClientMessages) /\ KeysOf(e) = {} /\ Rows(e) /\ Addressed(e)
      /\ Rows(replies) /\ Addressed(replies)
  BY <1>1, SaysSequences, SaysFacts, NoKeys, KeylessRows
<1>4. u \in Seq(ToClientMessages) /\ KeysOf(u) = Elems(typed) /\ Rows(u) /\ Addressed(u)
  BY <1>1, <1>2, CommitRows
<1>5. \/ toClient' = Send(toClient, c, (u \o e) \o replies)
      \/ fe.len = 0 /\ toClient' = Send(toClient, c, (h \o e) \o replies)
  BY <1>1 DEF GiveUpWord
<1>6. typed' = <<>> /\ queue' = <<>>
  BY DEF GiveUpWord, EngineReset
<1> HIDE DEF h, u, e
<1>7. PICK x \in Seq(ToClientMessages) :
        /\ toClient' = Send(toClient, c, (x \o e) \o replies) /\ KeysOf(x) = Elems(typed)
        /\ Rows(x) /\ Addressed(x)
  BY <1>2, <1>3, <1>4, <1>5
<1>8. PICK y : y = x \o e
  OBVIOUS
<1>9. y \in Seq(ToClientMessages) /\ Rows(y) /\ Addressed(y) /\ KeysOf(y) = Elems(typed)
  <2>1. /\ x \o e \in Seq(ToClientMessages) /\ Rows(x \o e) /\ Addressed(x \o e)
        /\ KeysOf(x \o e) = KeysOf(x) \cup KeysOf(e)
    BY <1>3, <1>7, RowsKeyless
  <2> QED
    BY <1>3, <1>7, <1>8, <2>1
<1>10. PICK s : s = y \o replies
  OBVIOUS
<1>11. /\ s \in Seq(ToClientMessages) /\ Rows(s) /\ Addressed(s) /\ KeysOf(s) = Elems(typed)
       /\ toClient' = Send(toClient, c, s)
  <2>1. /\ y \o replies \in Seq(ToClientMessages) /\ Rows(y \o replies) /\ Addressed(y \o replies)
        /\ KeysOf(y \o replies) = KeysOf(y) \cup KeysOf(replies)
    BY <1>3, <1>9, RowsKeyless
  <2> QED
    BY <1>7, <1>8, <1>9, <1>10, <2>1
<1>12. InRow(typed') /\ Elems(typed') = {} /\ Elems(queue') = {} /\ Elems(queue) = {}
  BY <1>6, ElemsNone DEF InRow
<1> QED
  BY <1>2, <1>11, <1>12 DEF Passes, Before

\* A handler that sends no key and keeps the word.
LEMMA KeylessPasses ==
  ASSUME Ordered, NEW c \in Clients, NEW s \in Seq(ToClientMessages), KeysOf(s) = {},
         toClient' = Send(toClient, c, s), UNCHANGED <<typed, queue, app>>
  PROVE  Passes(c, {})
<1>1. Rows(s) /\ Addressed(s)
  BY KeylessRows
<1> QED
  BY <1>1 DEF Passes, Before, Ordered

\* The answer to a commit lets the key behind it go, to the same context.
LEMMA SyncPasses ==
  ASSUME Inv, QueueOK, Ordered, NEW c \in Clients, HandleSyncReply(c)
  PROVE  Passes(c, {})
<1>1. /\ TypeOK /\ queue \in Seq(Keys) /\ Incoming(c, "SYNC_REPLY")
  BY DEF Inv, TypeOK, ServerTypeOK, HandleSyncReply
<1>2. PICK m : m = Head(toServer[c])
  OBVIOUS
<1>3. m.type = "SYNC_REPLY" /\ m \in Asked /\ m.ic \in ICID
  BY <1>1, <1>2, Taking, ToServerTypes
<1>4. /\ UNCHANGED <<typed, app>>
      /\ queue = <<>> => queue' = <<>> /\ toClient' = Send(toClient, c, <<>>)
      /\ queue # <<>> => queue' = Tail(queue)
                         /\ toClient' = Send(toClient, c, <<Forward(m.ic, Head(queue))>>)
  BY <1>2 DEF HandleSyncReply, clientVars, QueueOK
<1>5. CASE queue = <<>>
  <2>1. KeysOf(<<>>) = {} /\ <<>> \in Seq(ToClientMessages)
    BY KeysOfNone
  <2> QED
    BY <1>4, <1>5, <2>1, KeylessPasses
<1>6. CASE queue # <<>>
  <2>1. PICK k : k = Head(queue)
    OBVIOUS
  <2>2. k \in Keys /\ Tail(queue) = <<>> /\ Elems(queue) = {k} \cup Elems(Tail(queue))
    <3>1. Elems(queue) = {k} \cup Elems(Tail(queue))
      BY <1>1, <1>6, <2>1, ElemsTail
    <3> QED
      BY <1>1, <1>6, <2>1, <3>1 DEF QueueOK
  <2>3. Elems(queue) = {k} /\ Elems(queue') = {} /\ Elems(typed) = {}
    BY <1>4, <1>6, <2>2, ElemsNone DEF QueueOK
  <2>4. k.home = m.ic
    BY <1>3, <2>3 DEF QueueOK
  <2>5. PICK s : s = <<Forward(m.ic, k)>>
    OBVIOUS
  <2>6. /\ s \in Seq(ToClientMessages) /\ KeysOf(s) = {k} /\ Rows(s) /\ Addressed(s)
        /\ toClient' = Send(toClient, c, s)
    BY <1>3, <1>4, <1>6, <2>1, <2>2, <2>4, <2>5, ForwardKeys, ForwardRows
  <2>7. Before(Gone, KeysOf(s)) /\ Before(Gone \cup KeysOf(s), Elems(typed') \cup Elems(queue'))
    BY <1>4, <2>3, <2>6 DEF Before, Ordered
  <2> QED
    BY <1>4, <2>3, <2>6, <2>7 DEF Passes, Ordered
<1> QED
  BY <1>5, <1>6

\* Every handler does that, with the key that comes to it, if one does.
LEMMA HandlePasses ==
  ASSUME Inv, Owners, InTurn, Calm, Known, WordOK, QueueOK, Ordered, NEW c \in Clients, Handle(c)
  PROVE  Passes(c, Elems(Carried(Head(toServer[c]))))
<1>1. /\ TypeOK /\ ServerTypeOK /\ OneThing /\ typed \in Seq(Keys) /\ app' = app
  BY CalmHandlers DEF Inv, TypeOK, ServerTypeOK, Calm, clientVars
<1>2. PICK m : m = Head(toServer[c])
  OBVIOUS
<1>3. \A type : Incoming(c, type) => m.type = type /\ m \in Asked /\ m \in ToServerMessages
  BY <1>1, <1>2, Taking
<1>4. m.type \notin {"FORWARD_EVENT", "COMMIT"} => Elems(Carried(m)) = {}
  BY CarriedFacts
<1>5. CASE /\ Incoming(c, "FORWARD_EVENT")
           /\ ProcessKey(c, m.ic, m.key)
  <2>1. Passes(c, {m.key})
    BY <1>1, <1>2, <1>5, KeyPasses
  <2>2. Elems(Carried(m)) = {m.key}
    BY <1>3, <1>5, CarriedFacts
  <2> QED
    BY <1>2, <2>1, <2>2
<1>6. CASE Incoming(c, "SYNC_REPLY") /\ HandleSyncReply(c)
  BY <1>2, <1>3, <1>4, <1>6, SyncPasses
<1>7. ASSUME NEW q \in ToClientMessages, q.type \notin {"FORWARD_EVENT", "COMMIT"},
             toClient' = Send(toClient, c, <<q>>), UNCHANGED <<typed, queue>>
      PROVE  Passes(c, {})
  <2>1. Carried(q) = <<>>
    BY <1>7, CarriedFacts
  <2>2. KeysOf(<<q>>) = {} /\ <<q>> \in Seq(ToClientMessages)
    BY <2>1, KeysOfOne, ElemsNone
  <2> QED
    BY <1>1, <1>7, <2>2, KeylessPasses
<1>8. CASE Incoming(c, "CREATE_IC") /\ HandleCreateIC(c)
  <2>1. PICK q : q = About("CREATE_IC_REPLY", lastId')
    OBVIOUS
  <2>2. lastId' \in ICID
    <3>1. lastId' = (lastId + 1) % IdSpace /\ lastId + 1 \in Nat /\ IdSpace \in Nat \ {0}
      BY <1>1, <1>8, XimAssumption DEF HandleCreateIC, ServerTypeOK, ICID
    <3> QED
      BY <3>1 DEF ICID
  <2>3. q \in ToClientMessages /\ q.type = "CREATE_IC_REPLY"
    BY <2>1, <2>2 DEF About, ToClientMessages
  <2>4. toClient' = Send(toClient, c, <<q>>) /\ UNCHANGED <<typed, queue>>
    BY <1>8, <2>1 DEF HandleCreateIC
  <2> QED
    BY <1>2, <1>3, <1>4, <1>7, <1>8, <2>3, <2>4
<1>9. CASE Incoming(c, "DESTROY_IC") /\ HandleDestroyIC(c)
  <2>1. PICK q : q = About("REQUEST_REPLY", m.ic)
    OBVIOUS
  <2>2. m.ic \in ICID
    BY <1>3, <1>9, ToServerTypes DEF Requests
  <2>3. q \in ToClientMessages /\ q.type = "REQUEST_REPLY"
    BY <2>1, <2>2 DEF About, ToClientMessages
  <2>4. toClient' = Send(toClient, c, <<q>>) /\ UNCHANGED <<typed, queue>>
    BY <1>2, <1>9, <2>1 DEF HandleDestroyIC
  <2> QED
    BY <1>2, <1>3, <1>4, <1>7, <1>9, <2>3, <2>4
<1>10. CASE Incoming(c, "SET_IC_FOCUS") /\ HandleSetFocus(c)
  <2>1. m.ic \in ICID
    BY <1>3, <1>10, ToServerTypes
  <2>2. PICK s : s = SoftHideMessages(m.ic)
    OBVIOUS
  <2>3. s \in Seq(ToClientMessages) /\ KeysOf(s) = {}
    BY <1>1, <2>1, <2>2, SaysSequences, SaysFacts, NoKeys
  <2>4. /\ toClient' = Send(toClient, c, s) /\ typed' = <<>> /\ queue' = <<>>
    BY <1>2, <1>10, <2>2 DEF HandleSetFocus, EngineReset
  <2>5. Elems(typed') = {} /\ Elems(queue') = {} /\ InRow(typed')
    BY <2>4, ElemsNone DEF InRow
  <2>6. queue = <<>>
    BY <1>1, <1>10, ResetWord DEF HandleSetFocus
  <2>7. Elems(queue) = {} /\ (typed = <<>> => Elems(typed) = {}) /\ m.type = "SET_IC_FOCUS"
    BY <1>3, <1>10, <2>6, ElemsNone
  <2>8. Rows(s) /\ Addressed(s) /\ Elems(Carried(m)) = {}
    BY <1>4, <2>3, <2>7, KeylessRows
  <2> QED
    BY <1>1, <1>2, <2>3, <2>4, <2>5, <2>7, <2>8 DEF Passes, Before
<1>11. CASE Incoming(c, "UNSET_IC_FOCUS") /\ GiveUpWord(c, m.ic, <<>>)
  <2>1. m.ic \in ICID /\ queue = <<>>
    BY <1>1, <1>3, <1>11, ToServerTypes, ResetWord DEF GiveUpWord
  <2>2. \A h \in Elems(typed) : h.home = m.ic
    <3>1. Left(m.ic)
      BY <1>3, <1>11 DEF Left
    <3> QED
      BY <2>1, <3>1 DEF WordOK
  <2>3. KeysOf(<<>>) = {} /\ <<>> \in Seq(ToClientMessages)
    BY KeysOfNone
  <2>4. Passes(c, {})
    BY <1>1, <1>11, <2>1, <2>2, <2>3, GiveUpPasses
  <2>5. m.type = "UNSET_IC_FOCUS"
    BY <1>3, <1>11
  <2>6. Elems(Carried(m)) = {}
    BY <1>4, <2>5
  <2> QED
    BY <1>2, <2>4, <2>5, <2>6
<1>12. CASE Incoming(c, "RESET_IC") /\ GiveUpWord(c, m.ic, <<About("REQUEST_REPLY", m.ic)>>)
  <2>1. m.ic \in ICID /\ queue = <<>>
    BY <1>1, <1>3, <1>12, ToServerTypes, ResetWord DEF GiveUpWord, Requests
  <2>2. \A h \in Elems(typed) : h.home = m.ic
    <3>1. \A i \in ICID : ~Left(i)
      BY <1>1, <1>12, AloneStill DEF Alone, Requests
    <3>2. m.ic = focus
      BY <1>3, <1>12 DEF Calm, AtFocus
    <3> QED
      BY <3>1, <3>2 DEF WordOK
  <2>3. PICK q : q = About("REQUEST_REPLY", m.ic)
    OBVIOUS
  <2>4. q \in ToClientMessages /\ Carried(q) = <<>>
    BY <2>1, <2>3, CarriedFacts DEF About, ToClientMessages
  <2>5. KeysOf(<<q>>) = {} /\ <<q>> \in Seq(ToClientMessages)
    BY <2>4, KeysOfOne, ElemsNone
  <2>6. Passes(c, {})
    BY <1>1, <1>12, <2>1, <2>2, <2>3, <2>5, GiveUpPasses
  <2> QED
    BY <1>2, <1>3, <1>4, <1>12, <2>6
<1>13. CASE Incoming(c, "DISCONNECT") /\ HandleDisconnect(c)
  <2>1. PICK q : q = Plain("DISCONNECT_REPLY")
    OBVIOUS
  <2>2. q \in ToClientMessages /\ q.type = "DISCONNECT_REPLY"
    BY <2>1 DEF Plain, ToClientMessages
  <2>3. toClient' = Send(toClient, c, <<q>>) /\ UNCHANGED <<typed, queue>>
    BY <1>13, <2>1 DEF HandleDisconnect
  <2> QED
    BY <1>2, <1>3, <1>4, <1>7, <1>13, <2>2, <2>3
<1> QED
  BY <1>2, <1>5, <1>6, <1>8, <1>9, <1>10, <1>11, <1>12, <1>13, CalmHandlers

\* An application gets the keys of the message that comes next.
LEMMA ReceiveOrdered ==
  ASSUME Inv, Owners, Ordered, NEW c \in Clients, Receive(c)
  PROVE  Ordered'
<1>1. PICK m : m = Head(toClient[c])
  OBVIOUS
<1>2. /\ toClient[c] \in Seq(ToClientMessages) /\ toClient[c] # <<>>
      /\ toClient'[c] = Tail(toClient[c])
      /\ \A x \in Clients \ {c} : toClient'[x] = toClient[x]
      /\ m \in ToClientMessages /\ m.ic \in ICID /\ m.type # "DISCONNECT_REPLY"
      /\ UNCHANGED <<typed, queue>>
  BY <1>1, Received DEF serverVars
<1>3. /\ Carried(m) \in Seq(Keys) /\ app'[m.ic] = app[m.ic] \o Carried(m)
      /\ \A i \in ICID \ {m.ic} : app'[i] = app[i]
      /\ app[m.ic] \in Seq(Keys)
  BY <1>1, <1>2, ReceiveTakes DEF Inv, TypeOK, ClientTypeOK
<1>4. /\ Rows(toClient'[c]) /\ Addressed(toClient'[c]) /\ InRow(Carried(m))
      /\ Before(Elems(Carried(m)), KeysOf(toClient'[c]))
      /\ \A k \in Elems(Carried(m)) : k.home = m.ic
  BY <1>1, <1>2, RowsTail DEF Ordered
<1>5. KeysOf(toClient[c]) = Elems(Carried(m)) \cup KeysOf(toClient'[c])
  BY <1>1, <1>2, KeysOfTail
<1>6. Elems(app'[m.ic]) = Elems(app[m.ic]) \cup Elems(Carried(m))
  BY <1>3, ElemsConcat
<1>7. InRow(app'[m.ic]) /\ \A k \in Elems(app'[m.ic]) : k.home = m.ic
  <2>1. Before(Elems(app[m.ic]), KeysOf(toClient[c]))
    BY <1>2 DEF Ordered
  <2>2. Before(Elems(app[m.ic]), Elems(Carried(m)))
    BY <1>5, <2>1 DEF Before
  <2>3. InRow(app[m.ic]) /\ \A k \in Elems(app[m.ic]) : k.home = m.ic
    BY <1>2 DEF Ordered
  <2> QED
    BY <1>3, <1>4, <1>6, <2>2, <2>3, InRowConcat
<1>8. ASSUME NEW d \in Clients, d # c, NEW k \in Elems(Carried(m)), NEW h \in KeysOf(toClient[d])
      PROVE  k.home # h.home
  <2>1. PICK j \in DOMAIN toClient[d] : h \in Elems(Carried(toClient[d][j]))
    BY <1>8 DEF KeysOf
  <2>2. h.home = toClient[d][j].ic
    BY <2>1 DEF Ordered, Addressed
  <2>3. toClient[d][j].type \in {"FORWARD_EVENT", "COMMIT"}
    BY <2>1, CarriedFacts
  <2>4. h.home \in Subjects(toClient[d])
    BY <2>2, <2>3 DEF Subjects
  <2>5. m.type \in {"FORWARD_EVENT", "COMMIT"}
    BY <1>8, CarriedFacts
  <2>6. m.ic \in Subjects(toClient[c])
    BY <1>1, <1>2, <2>5, SubjectsTail
  <2> QED
    BY <1>4, <1>8, <2>4, <2>6 DEF Owners, Owned, Ids
<1>9. ASSUME NEW i \in ICID, NEW d \in Clients
      PROVE  Before(Elems(app'[i]), KeysOf(toClient'[d]))
  <2>1. Before(Elems(app[i]), KeysOf(toClient[d]))
    BY DEF Ordered
  <2>2. KeysOf(toClient'[d]) \subseteq KeysOf(toClient[d])
    BY <1>2, <1>5
  <2>3. Before(Elems(app[i]), KeysOf(toClient'[d]))
    BY <2>1, <2>2 DEF Before
  <2>4. Before(Elems(Carried(m)), KeysOf(toClient'[d]))
    BY <1>2, <1>4, <1>8, <2>2 DEF Before, Precedes
  <2>5. Elems(app'[i]) \subseteq Elems(app[i]) \cup Elems(Carried(m))
    BY <1>3, <1>6
  <2> QED
    BY <2>3, <2>4, <2>5 DEF Before
<1>10. Gone' \subseteq Gone
  <2>1. \A i \in ICID : Elems(app'[i]) \subseteq Elems(app[i]) \cup KeysOf(toClient[c])
    BY <1>3, <1>5, <1>6
  <2>2. \A d \in Clients : KeysOf(toClient'[d]) \subseteq KeysOf(toClient[d])
    BY <1>2, <1>5
  <2>3. Gone' = (UNION {Elems(app'[i]) : i \in ICID})
                  \cup (UNION {KeysOf(toClient'[d]) : d \in Clients})
    BY DEF Gone
  <2>4. (UNION {Elems(app'[i]) : i \in ICID}) \subseteq Gone
    BY <2>1, GoneKeys
  <2>5. (UNION {KeysOf(toClient'[d]) : d \in Clients}) \subseteq Gone
    BY <2>2, GoneKeys
  <2> QED
    BY <2>3, <2>4, <2>5
<1>11. Before(Gone', Elems(typed') \cup Elems(queue')) /\ InRow(typed')
  BY <1>2, <1>10 DEF Before, Ordered
<1>12. \A i \in ICID : InRow(app'[i]) /\ \A k \in Elems(app'[i]) : k.home = i
  BY <1>3, <1>7 DEF Ordered
<1>13. \A d \in Clients : Rows(toClient'[d]) /\ Addressed(toClient'[d])
  BY <1>2, <1>4 DEF Ordered
<1> QED
  BY <1>9, <1>11, <1>12, <1>13 DEF Ordered

\* A client that leaves drops some.
LEMMA ReceiveLeavingOrdered ==
  ASSUME Inv, Ordered, NEW c \in Clients, ReceiveLeaving(c)
  PROVE  Ordered'
<1>1. /\ toClient[c] \in Seq(ToClientMessages) /\ toClient[c] # <<>>
      /\ toClient'[c] = Tail(toClient[c])
      /\ \A x \in Clients \ {c} : toClient'[x] = toClient[x]
      /\ UNCHANGED <<typed, queue, app>>
  BY HearingLast DEF Inv, ReceiveLeaving, serverVars
<1>2. Rows(toClient'[c]) /\ Addressed(toClient'[c])
  BY <1>1, RowsTail DEF Ordered
<1>3. \A d \in Clients : KeysOf(toClient'[d]) \subseteq KeysOf(toClient[d])
  <2>1. KeysOf(toClient'[c]) \subseteq KeysOf(toClient[c])
    BY <1>1, KeysOfTail
  <2> QED
    BY <1>1, <2>1
<1>4. Gone' \subseteq Gone
  <2>1. Gone' = (UNION {Elems(app'[i]) : i \in ICID})
                  \cup (UNION {KeysOf(toClient'[d]) : d \in Clients})
    BY DEF Gone
  <2>2. (UNION {KeysOf(toClient'[d]) : d \in Clients}) \subseteq Gone
    BY <1>3, GoneKeys
  <2>3. (UNION {Elems(app'[i]) : i \in ICID}) \subseteq Gone
    BY <1>1, GoneKeys
  <2> QED
    BY <2>1, <2>2, <2>3
<1>5. \A i \in ICID, d \in Clients : Before(Elems(app'[i]), KeysOf(toClient'[d]))
  BY <1>1, <1>3 DEF Before, Ordered
<1>6. Before(Gone', Elems(typed') \cup Elems(queue')) /\ InRow(typed')
  BY <1>1, <1>4 DEF Before, Ordered
<1>7. \A i \in ICID : InRow(app'[i]) /\ \A k \in Elems(app'[i]) : k.home = i
  BY <1>1 DEF Ordered
<1>8. \A d \in Clients : Rows(toClient'[d]) /\ Addressed(toClient'[d])
  BY <1>1, <1>2 DEF Ordered
<1> QED
  BY <1>5, <1>6, <1>7, <1>8 DEF Ordered

\* Keys stay in order in every step.
LEMMA NextOrdered ==
  ASSUME Patient, Inv, Owners, InTurn, Calm, Known, WordOK, QueueOK, Ordered, [Next]_vars
  PROVE  Ordered'
<1>1. ASSUME UNCHANGED <<typed, queue, app, toClient>> PROVE Ordered'
  BY <1>1 DEF Ordered, Gone
<1>2. CASE UNCHANGED vars
  BY <1>1, <1>2 DEF vars, serverVars, channels, clientVars
<1>3. ASSUME NEW c \in Clients, Handle(c) PROVE Ordered'
  BY <1>3, HandlePasses, PassesOrdered DEF Inv
<1>4. ASSUME NEW c \in Clients, UserAct(c) PROVE Ordered'
  <2>1. UNCHANGED <<typed, queue, app, toClient>>
    BY <1>4, UserAsks DEF Calm, serverVars
  <2> QED
    BY <1>1, <2>1
<1>5. ASSUME NEW i \in ICID \cup {NoIC}, MoveFocus(i) PROVE Ordered'
  BY <1>1, <1>5 DEF MoveFocus, serverVars
<1> QED
  BY <1>2, <1>3, <1>4, <1>5, ReceiveOrdered, ReceiveLeavingOrdered DEF Next

\* At the start there are none.
LEMMA InitOrdered == Init => Ordered
<1> SUFFICES ASSUME Init PROVE Ordered
  OBVIOUS
<1>1. /\ typed = <<>> /\ queue = <<>> /\ \A c \in Clients : toClient[c] = <<>>
      /\ \A i \in ICID : app[i] = <<>>
  BY DEF Init
<1>2. InRow(<<>>) /\ Rows(<<>>) /\ Addressed(<<>>) /\ Elems(<<>>) = {} /\ KeysOf(<<>>) = {}
  BY ElemsNone, KeysOfNone, KeylessRows DEF InRow
<1>3. Elems(typed) = {} /\ Elems(queue) = {}
  BY <1>1, <1>2
<1>4. \A i \in ICID : InRow(app[i]) /\ \A k \in Elems(app[i]) : k.home = i
  BY <1>1, <1>2
<1>5. \A c \in Clients : Rows(toClient[c]) /\ Addressed(toClient[c]) /\ KeysOf(toClient[c]) = {}
  BY <1>1, <1>2
<1> QED
  BY <1>1, <1>2, <1>3, <1>4, <1>5 DEF Ordered, Before

(***************************************************************************)
(* Each application has the keys with an effect in the order of typing.    *)
(***************************************************************************)
LEMMA OrderedInOrder == Inv /\ Ordered => EffectInOrder
<1> SUFFICES ASSUME Inv, Ordered, NEW i \in ICID, NEW p \in DOMAIN app[i]
             PROVE  /\ app[i][p].home = i
                    /\ \A j \in 1..(p - 1) : HasEffect(app[i][j]) /\ HasEffect(app[i][p])
                                                => app[i][j].n < app[i][p].n
  BY DEF EffectInOrder
<1>1. InRow(app[i]) /\ \A k \in Elems(app[i]) : k.home = i
  BY DEF Ordered
<1>2. \A j \in DOMAIN app[i] : app[i][j].home = i
  BY <1>1 DEF Elems
<1>3. app[i] \in Seq(Keys)
  BY DEF Inv, TypeOK, ClientTypeOK
<1>4. \A j \in 1..(p - 1) : j \in DOMAIN app[i] /\ j < p
  BY <1>3
<1> QED
  BY <1>1, <1>2, <1>4 DEF InRow, Precedes

OrderInv == Inv /\ Owners /\ OnePlace /\ InTurn /\ InStep
            /\ Calm /\ Known /\ WordOK /\ QueueOK /\ Ordered

\* The invariant behind EffectInOrder.
LEMMA SpecOrdered == Patient => (Spec => []OrderInv)
<1> SUFFICES ASSUME Patient PROVE Spec => []OrderInv
  OBVIOUS
<1>1. Spec => [](Inv /\ Owners /\ OnePlace /\ InTurn)
  BY SpecInTurn
<1>2. Spec => [](Inv /\ Owners /\ InStep)
  BY SpecInStep
<1>3. Init => Calm /\ Known /\ WordOK /\ QueueOK /\ Ordered
  BY InitCalm, InitKnown, InitWord, InitOrdered
<1>4. Inv /\ Owners /\ InTurn /\ InStep /\ Calm /\ Known /\ WordOK /\ QueueOK /\ Ordered /\ [Next]_vars
        => (Calm /\ Known /\ WordOK /\ QueueOK /\ Ordered)'
  BY NextCalm, NextKnown, NextWord, NextOrdered
<1> QED
  BY <1>1, <1>2, <1>3, <1>4, PTL DEF Spec, OrderInv

(***************************************************************************)
(* A user who waits for the effect of what he did gets it in order: the    *)
(* one SYNC_REPLY that can release a key of Queue is then the answer to    *)
(* the commit before it, and no key or move of the focus overtakes them,   *)
(* with any number of clients.                                             *)
(***************************************************************************)
THEOREM EffectsInOrder == Patient => (Spec => []EffectInOrder)
<1> SUFFICES ASSUME Patient PROVE Spec => []EffectInOrder
  OBVIOUS
<1>1. Spec => []OrderInv
  BY SpecOrdered
<1>2. OrderInv => EffectInOrder
  BY OrderedInOrder DEF OrderInv
<1> QED
  BY <1>1, <1>2, PTL

-----------------------------------------------------------------------------
(* With one client no key is lost either: the word is committed when the   *)
(* focus leaves it, before the next context has the focus.                 *)

OneClient == \A c, d \in Clients : c = d

\* No context gets the focus before the word is given up.
UnsetFirst ==
  typed # <<>> => \A c \in Clients : \A j \in DOMAIN toServer[c] :
    toServer[c][j].type = "SET_IC_FOCUS" =>
      \E p \in DOMAIN toServer[c] : p < j /\ toServer[c][p].type = "UNSET_IC_FOCUS"

\* The keys that are anywhere; of all that were typed there is one.
Everything == Gone \cup Elems(typed) \cup Elems(queue)
                \cup (UNION {KeysOf(toServer[c]) : c \in Clients})

Kept == \A n \in 1..pressed : \E k \in Everything : k.n = n

\* A word that is given up needs no more commit,
LEMMA NothingFirst == ASSUME typed' = <<>> PROVE UnsetFirst'
BY DEF UnsetFirst

\* and when no context gets the focus none is reset.
LEMMA NotAsked ==
  ASSUME \A m \in Asked' : m.type # "SET_IC_FOCUS"
  PROVE  UnsetFirst'
<1>1. \A c \in Clients : \A j \in DOMAIN toServer'[c] : toServer'[c][j] \in Asked'
  BY DEF Asked, Elems
<1> QED
  BY <1>1 DEF UnsetFirst

\* A handler takes what comes first: UNSET_IC_FOCUS before SET_IC_FOCUS.
LEMMA HandleFirst ==
  ASSUME Inv, Calm, UnsetFirst, NEW c \in Clients, Handle(c)
  PROVE  UnsetFirst'
<1>1. TypeOK /\ OneThing
  BY DEF Inv, Calm
<1>2. ASSUME NEW type \in Alone, Incoming(c, type) PROVE UnsetFirst'
  BY <1>1, <1>2, AloneTaken, NotAsked
<1>3. CASE \/ Incoming(c, "SET_IC_FOCUS") /\ HandleSetFocus(c)
           \/ Incoming(c, "UNSET_IC_FOCUS") /\ HandleUnsetFocus(c)
  BY <1>3, NothingFirst DEF HandleSetFocus, HandleUnsetFocus, GiveUpWord, EngineReset
<1>4. CASE Incoming(c, "SYNC_REPLY") /\ HandleSyncReply(c)
  <2>1. PICK m : m = Head(toServer[c])
    OBVIOUS
  <2>2. /\ toServer[c] \in Seq(ToServerMessages) /\ toServer[c] # <<>>
        /\ m.type = "SYNC_REPLY" /\ toServer'[c] = Tail(toServer[c])
        /\ \A x \in Clients \ {c} : toServer'[x] = toServer[x]
        /\ typed' = typed
    BY <1>1, <1>4, <2>1, IncomingType DEF HandleSyncReply
  <2>3. /\ \A j \in DOMAIN toServer'[c] : j + 1 \in DOMAIN toServer[c]
                                           /\ toServer'[c][j] = toServer[c][j + 1]
        /\ \A j \in DOMAIN toServer[c] : j # 1 => j - 1 \in DOMAIN toServer'[c]
                                           /\ toServer'[c][j - 1] = toServer[c][j]
        /\ DOMAIN toServer[c] \subseteq Int /\ DOMAIN toServer'[c] \subseteq Int
        /\ toServer[c][1].type = "SYNC_REPLY"
    <3>1. Len(toServer[c]) \in Nat
      BY <2>2
    <3> QED
      BY <2>1, <2>2, <3>1, TailFacts
  <2>4. ASSUME typed # <<>>, NEW j \in DOMAIN toServer'[c],
               toServer'[c][j].type = "SET_IC_FOCUS"
        PROVE  \E p \in DOMAIN toServer'[c] :
                 p < j /\ toServer'[c][p].type = "UNSET_IC_FOCUS"
    <3>1. PICK p \in DOMAIN toServer[c] :
            p < j + 1 /\ toServer[c][p].type = "UNSET_IC_FOCUS"
      BY <2>3, <2>4 DEF UnsetFirst
    <3>2. p # 1 /\ p \in Int /\ j \in Int
      BY <2>3, <3>1
    <3>3. p - 1 < j /\ p - 1 \in DOMAIN toServer'[c]
          /\ toServer'[c][p - 1].type = "UNSET_IC_FOCUS"
      BY <2>3, <3>1, <3>2
    <3> QED
      BY <3>3
  <2>5. typed # <<>> => \A d \in Clients : \A j \in DOMAIN toServer'[d] :
          toServer'[d][j].type = "SET_IC_FOCUS" =>
            \E p \in DOMAIN toServer'[d] : p < j /\ toServer'[d][p].type = "UNSET_IC_FOCUS"
    <3> SUFFICES ASSUME typed # <<>>, NEW d \in Clients
                 PROVE  \A j \in DOMAIN toServer'[d] :
                          toServer'[d][j].type = "SET_IC_FOCUS" =>
                            \E p \in DOMAIN toServer'[d] :
                              p < j /\ toServer'[d][p].type = "UNSET_IC_FOCUS"
      OBVIOUS
    <3>1. CASE d = c
      BY <2>4, <3>1
    <3>2. CASE d # c
      <4>1. toServer'[d] = toServer[d]
        BY <2>2, <3>2
      <4> QED
        BY <4>1 DEF UnsetFirst
    <3> QED
      BY <3>1, <3>2
  <2> QED
    BY <2>2, <2>5 DEF UnsetFirst
<1> QED
  BY <1>2, <1>3, <1>4, CalmHandlers DEF Alone, Requests

\* A reply goes behind both.
LEMMA ReceiveFirst ==
  ASSUME Inv, UnsetFirst, NEW c \in Clients, Receive(c)
  PROVE  UnsetFirst'
<1>1. PICK t : t = Replies(Head(toClient[c]))
  OBVIOUS
<1>2. /\ toServer[c] \in Seq(ToServerMessages) /\ t \in Seq(ToServerMessages)
      /\ toServer'[c] = toServer[c] \o t
      /\ \A x \in Clients \ {c} : toServer'[x] = toServer[x]
      /\ typed' = typed
  BY <1>1, Received DEF serverVars
<1>3. \A j \in DOMAIN t : t[j].type = "SYNC_REPLY"
  BY <1>1, RepliesFacts
<1>4. ASSUME NEW j \in DOMAIN toServer'[c], toServer'[c][j].type = "SET_IC_FOCUS"
      PROVE  j \in DOMAIN toServer[c] /\ toServer'[c][j] = toServer[c][j]
  BY <1>2, <1>3, <1>4, ConcatElement
<1>5. \A j \in DOMAIN toServer[c] :
        j \in DOMAIN toServer'[c] /\ toServer'[c][j] = toServer[c][j]
  BY <1>2, ConcatFacts
<1>6. ASSUME typed # <<>>, NEW d \in Clients, NEW j \in DOMAIN toServer'[d],
             toServer'[d][j].type = "SET_IC_FOCUS"
      PROVE  \E p \in DOMAIN toServer'[d] :
               p < j /\ toServer'[d][p].type = "UNSET_IC_FOCUS"
  <2>1. CASE d # c
    BY <1>2, <1>6, <2>1 DEF UnsetFirst
  <2>2. CASE d = c
    <3>1. j \in DOMAIN toServer[c] /\ toServer[c][j].type = "SET_IC_FOCUS"
      BY <1>4, <1>6, <2>2
    <3>2. PICK p \in DOMAIN toServer[c] : p < j /\ toServer[c][p].type = "UNSET_IC_FOCUS"
      BY <1>6, <3>1 DEF UnsetFirst
    <3> QED
      BY <1>5, <2>2, <3>2
  <2> QED
    BY <2>1, <2>2
<1> QED
  BY <1>2, <1>6 DEF UnsetFirst

\* The one client tells of the context that loses the focus first.
LEMMA MoveFocusFirst ==
  ASSUME Patient, OneClient, Inv, Calm, WordOK, NEW i \in ICID \cup {NoIC}, MoveFocus(i)
  PROVE  UnsetFirst'
<1>1. TypeOK /\ FocusHeld /\ Quiet
  BY MovingAsks DEF Inv, Calm
<1>2. typed' = typed
  BY <1>1, MovingAsks DEF serverVars
<1>3. CASE typed = <<>>
  BY <1>2, <1>3, NothingFirst
<1>4. CASE typed # <<>>
  <2>1. \A x \in ICID : ~Left(x)
    BY <1>1, QuietChannels DEF Left
  <2>2. typed \in Seq(Keys) /\ Head(typed) \in Elems(typed)
    <3>1. typed \in Seq(Keys)
      BY <1>1 DEF TypeOK, ServerTypeOK
    <3> QED
      BY <1>4, <3>1, ElemsTail
  <2>3. Head(typed).home = focus /\ Head(typed).home \in ICID
    <3>1. Head(typed) \in Keys
      BY <1>4, <2>2
    <3> QED
      BY <2>1, <2>2, <3>1 DEF WordOK, Keys
  <2>4. focus # NoIC
    BY <2>3, XimAssumption DEF ICID, NoIC
  <2>5. \A c \in Clients : focus \in mine[c]
    BY <1>1, <2>4 DEF FocusHeld, OneClient
  <2> QED
    BY <1>1, <2>5, MovingAsks DEF UnsetFirst
<1> QED
  BY <1>3, <1>4

\* So it is in every step.
LEMMA NextFirst ==
  ASSUME Patient, OneClient, Inv, Calm, WordOK, UnsetFirst, [Next]_vars
  PROVE  UnsetFirst'
<1>1. ASSUME UNCHANGED <<typed, toServer>> PROVE UnsetFirst'
  BY <1>1 DEF UnsetFirst
<1>2. CASE UNCHANGED vars
  BY <1>1, <1>2 DEF vars, serverVars, channels
<1>3. ASSUME NEW c \in Clients, ReceiveLeaving(c) PROVE UnsetFirst'
  BY <1>1, <1>3 DEF ReceiveLeaving, serverVars
<1>4. ASSUME NEW c \in Clients, UserAct(c) PROVE UnsetFirst'
  <2>1. FocusHeld /\ Quiet /\ TypeOK
    BY <1>4, UserAsks DEF Calm, Inv
  <2>2. PICK m \in ToServerMessages : /\ toServer' = Send(toServer, c, <<m>>)
                                      /\ m.type \in Alone /\ toClient' = toClient
    BY <1>4, <2>1, UserAsks
  <2>3. Asked' = {m}
    BY <2>1, <2>2, Asking1
  <2> QED
    BY <2>2, <2>3, NotAsked DEF Alone, Requests
<1> QED
  BY <1>2, <1>3, <1>4, HandleFirst, ReceiveFirst, MoveFocusFirst DEF Next

\* What is among the keys that are anywhere.
LEMMA EverythingIs ==
  /\ Gone \subseteq Everything /\ Elems(typed) \subseteq Everything
  /\ Elems(queue) \subseteq Everything
  /\ \A c \in Clients : KeysOf(toServer[c]) \subseteq Everything
  /\ \A c \in Clients : KeysOf(toClient[c]) \subseteq Everything
  /\ \A i \in ICID : Elems(app[i]) \subseteq Everything
BY GoneKeys DEF Everything

\* The same in the next state.
LEMMA EverythingNext ==
  /\ Everything' = Gone' \cup Elems(typed') \cup Elems(queue')
                     \cup (UNION {KeysOf(toServer'[c]) : c \in Clients})
  /\ Gone' = (UNION {Elems(app'[i]) : i \in ICID})
               \cup (UNION {KeysOf(toClient'[c]) : c \in Clients})
BY DEF Everything, Gone

\* No key goes.
LEMMA KeptStays == ASSUME Kept, Everything \subseteq Everything', pressed' = pressed
                   PROVE  Kept'
BY DEF Kept

\* A handler loses no key: a word that it resets is committed, or empty.
LEMMA HandleKept ==
  ASSUME MaxBuffer > 1, OneClient, Inv, Owners, InTurn, Calm, Known, WordOK, QueueOK, Ordered,
         UnsetFirst, Kept, NEW c \in Clients, Handle(c)
  PROVE  Kept'
<1>1. TypeOK /\ pressed' = pressed
  BY CalmHandlers DEF Inv, clientVars
<1>2. PICK m : m = Head(toServer[c])
  OBVIOUS
<1>3. PICK type : Incoming(c, type)
  BY CalmHandlers
<1>4. /\ toServer[c] \in Seq(ToServerMessages) /\ toServer[c] # <<>> /\ m.type = type
      /\ toServer'[c] = Tail(toServer[c])
      /\ \A x \in Clients \ {c} : toServer'[x] = toServer[x]
  BY <1>1, <1>2, <1>3, IncomingType
<1>5. m.type = "SET_IC_FOCUS" => typed = <<>>
  <2>1. 1 \in DOMAIN toServer[c] /\ toServer[c][1] = m /\ DOMAIN toServer[c] \subseteq Nat \ {0}
    BY <1>2, <1>4, TailFacts
  <2> QED
    BY <2>1 DEF UnsetFirst
<1>6. app' = app /\ Passes(c, Elems(Carried(m)))
  BY <1>2, HandlePasses DEF Passes
<1>7. PICK s \in Seq(ToClientMessages) :
        /\ toClient' = Send(toClient, c, s)
        /\ Elems(typed) \cup Elems(queue) \cup Elems(Carried(m))
             \subseteq Elems(typed') \cup Elems(queue') \cup KeysOf(s)
  BY <1>2, <1>5, <1>6 DEF Passes
<1>8. KeysOf(toServer[c]) = Elems(Carried(m)) \cup KeysOf(toServer'[c])
  BY <1>2, <1>4, KeysOfTail
<1>9. /\ KeysOf(toClient'[c]) = KeysOf(toClient[c]) \cup KeysOf(s)
      /\ \A d \in Clients : KeysOf(toClient[d]) \subseteq KeysOf(toClient'[d])
  BY <1>1, <1>7, SentKeys
<1>10. Gone \subseteq Gone' /\ KeysOf(s) \subseteq Gone'
  <2>1. \A d \in Clients : KeysOf(toClient'[d]) \subseteq Gone'
    BY EverythingNext
  <2>2. \A i \in ICID : Elems(app[i]) \subseteq Gone'
    BY <1>6, EverythingNext
  <2> QED
    BY <1>9, <2>1, <2>2, GoneKeys
<1>11. Elems(typed) \cup Elems(queue) \cup Elems(Carried(m)) \subseteq Everything'
  BY <1>7, <1>10, EverythingNext
<1>12. \A d \in Clients : KeysOf(toServer[d]) \subseteq Everything'
  <2>1. \A d \in Clients : KeysOf(toServer'[d]) \subseteq Everything'
    BY EverythingNext
  <2>2. KeysOf(toServer[c]) \subseteq Everything'
    BY <1>8, <1>11, <2>1
  <2> QED
    BY <1>4, <2>1, <2>2
<1>13. Gone \subseteq Everything'
  BY <1>10, EverythingNext
<1>14. Everything \subseteq Everything'
  BY <1>11, <1>12, <1>13 DEF Everything
<1> QED
  BY <1>1, <1>14, KeptStays

\* A client puts the keys it receives into its texts.
LEMMA ReceiveKept ==
  ASSUME Inv, Kept, NEW c \in Clients, Receive(c)
  PROVE  Kept'
<1>1. PICK m : m = Head(toClient[c])
  OBVIOUS
<1>2. /\ toClient[c] \in Seq(ToClientMessages) /\ toClient[c] # <<>>
      /\ toServer[c] \in Seq(ToServerMessages) /\ Replies(m) \in Seq(ToServerMessages)
      /\ toClient'[c] = Tail(toClient[c])
      /\ \A x \in Clients \ {c} : toClient'[x] = toClient[x]
      /\ toServer'[c] = toServer[c] \o Replies(m)
      /\ \A x \in Clients \ {c} : toServer'[x] = toServer[x]
      /\ UNCHANGED <<typed, queue, pressed>>
  BY <1>1, Received DEF serverVars
<1>3. /\ m.ic \in ICID /\ Carried(m) \in Seq(Keys) /\ app'[m.ic] = app[m.ic] \o Carried(m)
      /\ \A i \in ICID \ {m.ic} : app'[i] = app[i]
      /\ app[m.ic] \in Seq(Keys) /\ Silent(Replies(m))
  BY <1>1, ReceiveTakes DEF Inv, TypeOK, ClientTypeOK
<1>4. KeysOf(toClient[c]) = Elems(Carried(m)) \cup KeysOf(toClient'[c])
  BY <1>1, <1>2, KeysOfTail
<1>5. Elems(app'[m.ic]) = Elems(app[m.ic]) \cup Elems(Carried(m))
  BY <1>3, ElemsConcat
<1>6. Gone \subseteq Gone'
  <2>1. \A i \in ICID : Elems(app'[i]) \subseteq Gone'
    BY EverythingNext
  <2>2. \A d \in Clients : KeysOf(toClient'[d]) \subseteq Gone'
    BY EverythingNext
  <2>3. \A i \in ICID : Elems(app[i]) \subseteq Gone'
    BY <1>3, <1>5, <2>1
  <2>4. KeysOf(toClient[c]) \subseteq Gone'
    BY <1>3, <1>4, <1>5, <2>1, <2>2
  <2>5. \A d \in Clients : KeysOf(toClient[d]) \subseteq Gone'
    BY <1>2, <2>2, <2>4
  <2> QED
    BY <2>3, <2>5, GoneKeys
<1>7. \A d \in Clients : KeysOf(toServer'[d]) = KeysOf(toServer[d])
  <2>1. KeysOf(toServer'[c]) = KeysOf(toServer[c])
    BY <1>2, <1>3, SilentSaid
  <2> QED
    BY <1>2, <2>1
<1>8. Everything \subseteq Everything'
  <2>1. \A d \in Clients : KeysOf(toServer[d]) \subseteq Everything'
    BY <1>7, EverythingNext
  <2>2. Elems(typed) \cup Elems(queue) \cup Gone \subseteq Everything'
    BY <1>2, <1>6, EverythingNext
  <2> QED
    BY <2>1, <2>2 DEF Everything
<1> QED
  BY <1>2, <1>8, KeptStays

\* A client that leaves drops no message with keys.
LEMMA ReceiveLeavingKept ==
  ASSUME Inv, Calm, Kept, NEW c \in Clients, ReceiveLeaving(c)
  PROVE  Kept'
<1>1. PICK m : m = Head(toClient[c])
  OBVIOUS
<1>2. /\ toClient[c] \in Seq(ToClientMessages) /\ toClient[c] # <<>> /\ m \in Told
      /\ toClient'[c] = Tail(toClient[c])
      /\ \A x \in Clients \ {c} : toClient'[x] = toClient[x]
      /\ UNCHANGED <<typed, queue, app, toServer, pressed>> /\ state[c] = "leaving"
  BY <1>1, HearingLast DEF Inv, ReceiveLeaving, serverVars
<1>3. Elems(Carried(m)) = {}
  BY <1>2, CarriedFacts DEF Calm, Going
<1>4. KeysOf(toClient'[c]) = KeysOf(toClient[c])
  BY <1>1, <1>2, <1>3, KeysOfTail
<1>5. \A d \in Clients : KeysOf(toClient'[d]) = KeysOf(toClient[d])
  BY <1>2, <1>4
<1>6. Gone \subseteq Gone'
  <2>1. \A i \in ICID : Elems(app[i]) \subseteq Gone'
    BY <1>2, EverythingNext
  <2>2. \A d \in Clients : KeysOf(toClient[d]) \subseteq Gone'
    BY <1>5, EverythingNext
  <2> QED
    BY <2>1, <2>2, GoneKeys
<1>7. Everything \subseteq Everything'
  <2>1. \A d \in Clients : KeysOf(toServer[d]) \subseteq Everything'
    BY <1>2, EverythingNext
  <2>2. Elems(typed) \cup Elems(queue) \cup Gone \subseteq Everything'
    BY <1>2, <1>6, EverythingNext
  <2> QED
    BY <2>1, <2>2 DEF Everything
<1> QED
  BY <1>2, <1>7, KeptStays

\* A user who acts when nothing is under way adds one key, or none.
LEMMA AskedKept ==
  ASSUME TypeOK, Kept, UNCHANGED <<serverVars, toClient, app>>,
         \A d \in Clients : toServer[d] = <<>>,
         \/ pressed' = pressed
         \/ pressed' = pressed + 1 /\ \E c \in Clients : \E k \in KeysOf(toServer'[c]) : k.n = pressed + 1
  PROVE  Kept'
<1>1. \A d \in Clients : KeysOf(toServer[d]) = {}
  BY KeysOfNone
<1>2. Gone = Gone'
  BY DEF Gone
<1>3. Everything = Gone' \cup Elems(typed') \cup Elems(queue')
  BY <1>1, <1>2 DEF Everything, serverVars
<1>4. Everything \subseteq Everything'
  BY <1>3, EverythingNext
<1>5. CASE pressed' = pressed
  BY <1>4, <1>5, KeptStays
<1>6. CASE pressed' = pressed + 1 /\ \E c \in Clients : \E k \in KeysOf(toServer'[c]) : k.n = pressed + 1
  <2>1. PICK c \in Clients : \E k \in KeysOf(toServer'[c]) : k.n = pressed'
    BY <1>6
  <2>2. PICK k \in KeysOf(toServer'[c]) : k.n = pressed'
    BY <2>1
  <2>3. k \in Everything'
    BY EverythingNext
  <2>4. pressed \in Nat
    BY DEF TypeOK, ClientTypeOK
  <2>5. \A n \in 1..pressed' : n \in 1..pressed \/ n = pressed'
    BY <1>6, <2>4
  <2>6. \A n \in 1..pressed' : \E h \in Everything' : h.n = n
    BY <1>4, <2>2, <2>3, <2>5 DEF Kept
  <2> QED
    BY <2>6 DEF Kept
<1> QED
  BY <1>5, <1>6

\* No step loses a key.
LEMMA NextKept ==
  ASSUME Patient, OneClient, MaxBuffer > 1, Inv, Owners, InTurn, Calm, Known, WordOK, QueueOK,
         Ordered, UnsetFirst, Kept, [Next]_vars
  PROVE  Kept'
<1>1. CASE UNCHANGED vars
  <2>1. Everything' = Everything /\ pressed' = pressed
    BY <1>1 DEF vars, serverVars, channels, clientVars, Everything, Gone
  <2> QED
    BY <2>1, KeptStays
<1>2. TypeOK /\ FocusHeld
  BY DEF Inv, Calm
<1>3. ASSUME NEW c \in Clients, UserAct(c) PROVE Kept'
  <2>1. Quiet /\ UNCHANGED <<serverVars, toClient, app>>
    BY <1>2, <1>3, UserAsks
  <2>2. PICK m \in ToServerMessages :
          /\ toServer' = Send(toServer, c, <<m>>) /\ m.type \in Alone
          /\ m.type # "FORWARD_EVENT" => pressed' = pressed
          /\ m.type = "FORWARD_EVENT" => pressed' = pressed + 1 /\ m.key.n = pressed + 1
    BY <1>2, <1>3, UserAsks
  <2>3. \A d \in Clients : toServer[d] = <<>>
    BY <2>1, QuietChannels
  <2>4. CASE m.type = "FORWARD_EVENT"
    <3>1. toServer'[c] = <<m>>
      BY <1>2, <2>1, <2>2, Asking1
    <3>2. m.key \in KeysOf(toServer'[c])
      <4>1. KeysOf(<<m>>) = {m.key}
        BY <2>4, KeysOfOne, CarriedFacts
      <4> QED
        BY <3>1, <4>1
    <3> QED
      BY <1>2, <2>1, <2>2, <2>3, <2>4, <3>2, AskedKept
  <2>5. CASE m.type # "FORWARD_EVENT"
    BY <1>2, <2>1, <2>2, <2>3, <2>5, AskedKept
  <2> QED
    BY <2>4, <2>5
<1>4. ASSUME NEW i \in ICID \cup {NoIC}, MoveFocus(i) PROVE Kept'
  <2>1. Quiet /\ UNCHANGED <<serverVars, toClient, app, pressed>>
    BY <1>2, <1>4, MovingAsks
  <2>2. \A d \in Clients : toServer[d] = <<>>
    BY <2>1, QuietChannels
  <2> QED
    BY <1>2, <2>1, <2>2, AskedKept
<1> QED
  BY <1>1, <1>3, <1>4, HandleKept, ReceiveKept, ReceiveLeavingKept DEF Next

\* At the start none was typed.
LEMMA InitKept == Init => UnsetFirst /\ Kept
<1> SUFFICES ASSUME Init PROVE UnsetFirst /\ Kept
  OBVIOUS
<1>1. typed = <<>> /\ pressed = 0
  BY DEF Init
<1> QED
  BY <1>1 DEF UnsetFirst, Kept

(***************************************************************************)
(* When nothing is under way the keys are in the word and in the texts.    *)
(***************************************************************************)
LEMMA KeptIsNothingLost ==
  ASSUME Inv, Calm, WordOK, QueueOK, Kept PROVE NothingLost
<1> SUFFICES ASSUME Quiet
             PROVE  /\ queue = <<>> /\ ~imsSync
                    /\ \A n \in 1..pressed : Places(n) # {}
                    /\ \A j \in DOMAIN typed : typed[j].home = focus
  BY DEF NothingLost
<1>1. Asked = {} /\ Told = {} /\ \A c \in Clients : toServer[c] = <<>> /\ toClient[c] = <<>>
  BY QuietChannels
<1>2. queue = <<>> /\ ~imsSync
  BY <1>1, QueueEmpty
<1>3. \A j \in DOMAIN typed : typed[j].home = focus
  BY <1>1 DEF Left, WordOK, Elems
<1>4. ASSUME NEW n \in 1..pressed PROVE Places(n) # {}
  <2>1. PICK k \in Everything : k.n = n
    BY DEF Kept
  <2>2. /\ Elems(queue) = {}
        /\ \A c \in Clients : KeysOf(toServer[c]) = {} /\ KeysOf(toClient[c]) = {}
    BY <1>1, <1>2, ElemsNone, KeysOfNone
  <2>3. k \in Elems(typed) \/ \E i \in ICID : k \in Elems(app[i])
    BY <2>2 DEF Everything, Gone
  <2>4. CASE k \in Elems(typed)
    <3>1. PICK j \in DOMAIN typed : typed[j] = k
      BY <2>4 DEF Elems
    <3>2. j \in At(typed, n)
      BY <2>1, <3>1 DEF At
    <3>3. <<"word", j>> \in Places(n)
      BY <3>2 DEF Places
    <3> QED
      BY <3>3
  <2>5. ASSUME NEW i \in ICID, k \in Elems(app[i]) PROVE Places(n) # {}
    <3>1. PICK j \in DOMAIN app[i] : app[i][j] = k
      BY <2>5 DEF Elems
    <3>2. j \in At(app[i], n)
      BY <2>1, <3>1 DEF At
    <3>3. <<"app", i, j>> \in Places(n)
      BY <3>2 DEF Places
    <3> QED
      BY <3>3
  <2> QED
    BY <2>3, <2>4, <2>5
<1> QED
  BY <1>2, <1>3, <1>4

KeptInv == OrderInv /\ UnsetFirst /\ Kept

\* The invariant behind NothingLost.
LEMMA SpecKept == Patient /\ OneClient /\ MaxBuffer > 1 => (Spec => []KeptInv)
<1> SUFFICES ASSUME Patient, OneClient, MaxBuffer > 1 PROVE Spec => []KeptInv
  OBVIOUS
<1>1. Spec => []OrderInv
  BY SpecOrdered
<1>2. Init => UnsetFirst /\ Kept
  BY InitKept
<1>3. OrderInv /\ UnsetFirst /\ Kept /\ [Next]_vars => (UnsetFirst /\ Kept)'
  BY NextFirst, NextKept DEF OrderInv
<1> QED
  BY <1>1, <1>2, <1>3, PTL DEF Spec, KeptInv

(***************************************************************************)
(* One client whose user waits loses no key: with room for one in Queue, a *)
(* key is in a text, in the word or on its way to either, and the word is  *)
(* committed before the server forgets it.                                 *)
(***************************************************************************)
THEOREM NoKeyIsLost == Patient /\ OneClient /\ MaxBuffer > 1 => (Spec => []NothingLost)
<1> SUFFICES ASSUME Patient, OneClient, MaxBuffer > 1 PROVE Spec => []NothingLost
  OBVIOUS
<1>1. Spec => []KeptInv
  BY SpecKept
<1>2. KeptInv => NothingLost
  BY KeptIsNothingLost DEF KeptInv, OrderInv
<1> QED
  BY <1>1, <1>2, PTL
=============================================================================
