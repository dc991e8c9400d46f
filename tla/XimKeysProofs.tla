--------------------------- MODULE XimKeysProofs ----------------------------
(***************************************************************************)
(* Theorems about the displays and the keys of the server's clients, each  *)
(* for every number of clients, keys and contexts: the server and the      *)
(* displays agree across the channels (PreeditInStep), a key is in one     *)
(* place (KeyInOnePlace), and the keys of a context are handled in the     *)
(* order of typing (KeysHandledInOrder).  None of the three is inductive.  *)
(*                                                                         *)
(*   Owners    who knows a context: a client blocks on one request at a    *)
(*             time, so that no more contexts are created than were asked  *)
(*             for and ids never wrap, and every id on a channel or in a   *)
(*             pending list belongs to one client.                         *)
(*   InStep    what a channel draws in a context fits what the client will *)
(*             display; it needs Owners, for a draw on the channel of      *)
(*             another client would change the record and not the display. *)
(*   OnePlace  the keys are in boxes, the word, Queue, and each            *)
(*             application, pending list and channel; no number is in two  *)
(*             boxes or twice in one.                                      *)
(*   InTurn    channels and pending lists are sorted, what is pending      *)
(*             comes before what is on its way, and what was handled in a  *)
(*             context comes before both; it needs Owners, for the keys of *)
(*             one context wait at one client, and OnePlace for a key just *)
(*             typed.                                                      *)
(*                                                                         *)
(* A handler of the server takes keys of one client, those that come       *)
(* first, and deals them and the ones it had to the word, to Queue and to  *)
(* the messages it sends (Deals); only a FORWARD_EVENT put aside does not. *)
(***************************************************************************)
EXTENDS XimServerProofs, FiniteSetTheorems, WellFoundedInduction

-----------------------------------------------------------------------------
(* The parts of the invariant.                                             *)

\* The messages of s of a type in T: none, or one.
None(s, T) == \A j \in DOMAIN s : s[j].type \notin T
One(s, T)  == \E j \in DOMAIN s : /\ s[j].type \in T
                                  /\ \A p \in DOMAIN s : s[p].type \in T => p = j

Asking    == {"CREATE_IC"} \cup Requests
Answering == {"CREATE_IC_REPLY", "REQUEST_REPLY"}

\* A client is blocked on the one request it has made, or on its answer.
OneRequest(c) ==
  IF state[c] = "blocked"
  THEN \/ One(toServer[c], Asking) /\ None(toClient[c], Answering)
       \/ None(toServer[c], Asking) /\ One(toClient[c], Answering)
  ELSE None(toServer[c], Asking) /\ None(toClient[c], Answering)

\* Every context created or asked for was counted, so that ids never wrap.
Creating == {c \in Clients : Has(toServer[c], "CREATE_IC")}

Counted == IsFiniteSet(Creating) /\ lastId + Cardinality(Creating) <= opens

\* The contexts that the messages of a channel are about.
Subjects(s) ==
  {s[j].ic : j \in {j \in DOMAIN s :
                      s[j].type \notin {"CREATE_IC", "DISCONNECT", "DISCONNECT_REPLY"}}}

Ids(c) == mine[c] \cup Subjects(toServer[c]) \cup Subjects(pending[c])
                  \cup Subjects(toClient[c])

\* A context is known to one client, and was created.
Owned == /\ \A c \in Clients : Ids(c) \subseteq 1..lastId
         /\ \A c, d \in Clients : c # d => Ids(c) \cap Ids(d) = {}

\* A key comes from the context it was typed in.
AtHome == \A c \in Clients :
            /\ \A j \in DOMAIN toServer[c] : toServer[c][j].type = "FORWARD_EVENT"
                 => toServer[c][j].key.home = toServer[c][j].ic
            /\ \A j \in DOMAIN pending[c] : pending[c][j].key.home = pending[c][j].ic

\* The contexts a client has, or will hear of.
Coming(c) == {toClient[c][j].ic : j \in {j \in DOMAIN toClient[c] :
                                           toClient[c][j].type = "CREATE_IC_REPLY"}}

Held(c) == mine[c] \cup Coming(c)

\* A client asks to destroy only what it no longer has.
GivenUp == \A c \in Clients : \A j \in DOMAIN toServer[c] :
             toServer[c][j].type = "DESTROY_IC" => toServer[c][j].ic \notin Held(c)

\* What context i displays when the first j messages of s have arrived, where
\* it displays x before.
Draws(s, i, j) == {p \in 1..j : s[p].type = "PREEDIT_DRAW" /\ s[p].ic = i}

After(s, i, x, j) ==
  IF Draws(s, i, j) = {} THEN x
  ELSE s[CHOOSE p \in Draws(s, i, j) : \A q \in Draws(s, i, j) : q <= p].length

\* The messages of s keep the display of context i, x before them and n after.
Fits(s, i, x, n) ==
  /\ \A j \in DOMAIN s : IsPreedit(s[j]) /\ s[j].ic = i =>
       IF s[j].type = "PREEDIT_DRAW" THEN s[j].chg_length = After(s, i, x, j - 1)
                                     ELSE After(s, i, x, j - 1) = 0
  /\ n = After(s, i, x, Len(s))

\* The contexts a client has display what the server thinks, once all arrived.
Fitted == \A c \in Clients : \A i \in Held(c) :
            Fits(toClient[c], i, shown[i], ics[i].len)

\* A context not created displays nothing, one not enabled has no preedit, and
\* a client that leaves has no contexts.
Unseen == \A i \in ICID : i > lastId => shown[i] = 0
Dark   == \A i \in ICID : ~ics[i].enabled => ics[i].len = 0
Parted == \A c \in Clients : state[c] = "leaving" => mine[c] = {}

InStep == Fitted /\ Unseen /\ Dark /\ Parted

\* The keys in a sequence, and those that messages carry.
Elems(s)  == {s[j] : j \in DOMAIN s}
KeysOf(s) == UNION {Elems(Carried(s[j])) : j \in DOMAIN s}

\* Where a key can be: a box of each kind, and what is in it.
WordBox       == <<"word", 0>>
QueueBox      == <<"queue", 0>>
AppBox(i)     == <<"app", i>>
PendingBox(c) == <<"pending", c>>
ServerBox(c)  == <<"toServer", c>>
ClientBox(c)  == <<"toClient", c>>

Boxes == {WordBox, QueueBox} \cup {AppBox(i) : i \in ICID}
           \cup {PendingBox(c) : c \in Clients} \cup {ServerBox(c) : c \in Clients}
           \cup {ClientBox(c) : c \in Clients}

Content(b) == CASE b[1] = "word"     -> Elems(typed)
                [] b[1] = "queue"    -> Elems(queue)
                [] b[1] = "app"      -> Elems(app[b[2]])
                [] b[1] = "pending"  -> KeysOf(pending[b[2]])
                [] b[1] = "toServer" -> KeysOf(toServer[b[2]])
                [] b[1] = "toClient" -> KeysOf(toClient[b[2]])

\* No number is in two boxes,
Apart == \A b, d \in Boxes : \A k \in Content(b), h \in Content(d) :
           k.n = h.n => b = d /\ k = h

\* nor twice in one.
Once(s) == \A j, p \in DOMAIN s : s[j].n = s[p].n => j = p

OnceIn(s) == /\ \A j \in DOMAIN s : Once(Carried(s[j]))
             /\ \A j, p \in DOMAIN s :
                  \A k \in Elems(Carried(s[j])), h \in Elems(Carried(s[p])) :
                    k.n = h.n => j = p

Singly == /\ Once(typed) /\ Once(queue)
          /\ \A i \in ICID : Once(app[i])
          /\ \A c \in Clients :
               OnceIn(pending[c]) /\ OnceIn(toServer[c]) /\ OnceIn(toClient[c])

\* Keys are numbered as they are typed.
Numbered == \A b \in Boxes : \A k \in Content(b) : k.n \in 1..pressed

OnePlace == Apart /\ Singly /\ Numbered

\* The keys of a channel stand in the order of typing.
Sorted(s) == \A j, p \in DOMAIN s :
  s[j].type = "FORWARD_EVENT" /\ s[p].type = "FORWARD_EVENT" /\ j < p
    => s[j].key.n < s[p].key.n

\* The keys of a client that the server has not handled.
Ahead(c) == KeysOf(pending[c]) \cup KeysOf(toServer[c])

InTurn == \A c \in Clients :
  /\ Sorted(toServer[c]) /\ Sorted(pending[c])
  /\ \A k \in KeysOf(pending[c]), h \in KeysOf(toServer[c]) : k.n < h.n
  /\ \A k \in Ahead(c), h \in Handled : h.home = k.home => h.n < k.n

-----------------------------------------------------------------------------
(* Sequences that grow at one end and are taken from the other.            *)

\* Where the elements of two sequences stand in their concatenation.
LEMMA ConcatFacts ==
  ASSUME NEW S, NEW s \in Seq(S), NEW t \in Seq(S)
  PROVE  /\ s \o t \in Seq(S) /\ Len(s \o t) = Len(s) + Len(t)
         /\ Len(s) \in Nat /\ DOMAIN s = 1..Len(s)
         /\ Len(t) \in Nat /\ DOMAIN t = 1..Len(t)
         /\ DOMAIN (s \o t) = 1..(Len(s) + Len(t))
         /\ \A j \in DOMAIN s : j \in DOMAIN (s \o t) /\ (s \o t)[j] = s[j]
         /\ \A j \in DOMAIN t : Len(s) + j \in DOMAIN (s \o t) /\ (s \o t)[Len(s) + j] = t[j]
         /\ \A j \in DOMAIN (s \o t) :
              j \in DOMAIN s \/ \E p \in DOMAIN t : j = Len(s) + p
<1>1. /\ s \o t \in Seq(S) /\ Len(s \o t) = Len(s) + Len(t)
      /\ Len(s) \in Nat /\ DOMAIN s = 1..Len(s)
      /\ Len(t) \in Nat /\ DOMAIN t = 1..Len(t)
      /\ DOMAIN (s \o t) = 1..(Len(s) + Len(t))
      /\ \A j \in 1..(Len(s) + Len(t)) :
           (s \o t)[j] = IF j <= Len(s) THEN s[j] ELSE t[j - Len(s)]
  BY ConcatProperties, LenProperties
<1>2. ASSUME NEW j \in DOMAIN s PROVE j \in DOMAIN (s \o t) /\ (s \o t)[j] = s[j]
  BY <1>1
<1>3. ASSUME NEW j \in DOMAIN t
      PROVE  Len(s) + j \in DOMAIN (s \o t) /\ (s \o t)[Len(s) + j] = t[j]
  BY <1>1
<1>4. ASSUME NEW j \in DOMAIN (s \o t), j \notin DOMAIN s
      PROVE  \E p \in DOMAIN t : j = Len(s) + p
  <2>1. j - Len(s) \in DOMAIN t /\ j = Len(s) + (j - Len(s))
    BY <1>1, <1>4
  <2> QED
    BY <2>1
<1> QED
  BY <1>1, <1>2, <1>3, <1>4

\* The same of a sequence without its first element.
LEMMA TailFacts ==
  ASSUME NEW S, NEW s \in Seq(S), s # <<>>
  PROVE  /\ Head(s) \in S /\ Head(s) = s[1] /\ 1 \in DOMAIN s
         /\ Tail(s) \in Seq(S) /\ Len(s) \in Nat /\ Len(Tail(s)) = Len(s) - 1
         /\ DOMAIN s = 1..Len(s) /\ DOMAIN Tail(s) = 1..(Len(s) - 1)
         /\ \A j \in DOMAIN Tail(s) : j + 1 \in DOMAIN s /\ Tail(s)[j] = s[j + 1]
         /\ \A j \in DOMAIN s : j # 1 => j - 1 \in DOMAIN Tail(s) /\ Tail(s)[j - 1] = s[j]
<1>1. /\ DOMAIN s = 1..Len(s) /\ Len(s) \in Nat /\ Head(s) = s[1] /\ Head(s) \in S
      /\ Tail(s) \in Seq(S) /\ DOMAIN Tail(s) = 1..(Len(s) - 1) /\ Len(Tail(s)) = Len(s) - 1
      /\ \A j \in 1..(Len(s) - 1) : Tail(s)[j] = s[j + 1]
  BY HeadTailProperties, LenProperties
<1>2. 1 \in DOMAIN s
  BY <1>1, EmptySeq
<1>3. ASSUME NEW j \in DOMAIN Tail(s) PROVE j + 1 \in DOMAIN s /\ Tail(s)[j] = s[j + 1]
  BY <1>1
<1>4. ASSUME NEW j \in DOMAIN s, j # 1 PROVE j - 1 \in DOMAIN Tail(s) /\ Tail(s)[j - 1] = s[j]
  <2>1. j - 1 \in 1..(Len(s) - 1) /\ (j - 1) + 1 = j
    BY <1>1, <1>4
  <2> QED
    BY <1>1, <2>1
<1> QED
  BY <1>1, <1>2, <1>3, <1>4

\* Requests and answers: none more is found than was sent.
LEMMA NoneConcat ==
  ASSUME NEW S, NEW s \in Seq(S), NEW t \in Seq(S), NEW T, None(t, T)
  PROVE  /\ None(s, T) => None(s \o t, T)
         /\ One(s, T) => One(s \o t, T)
<1>1. /\ \A j \in DOMAIN s : j \in DOMAIN (s \o t) /\ (s \o t)[j] = s[j]
      /\ \A j \in DOMAIN t : Len(s) + j \in DOMAIN (s \o t) /\ (s \o t)[Len(s) + j] = t[j]
      /\ \A j \in DOMAIN (s \o t) :
              j \in DOMAIN s \/ \E p \in DOMAIN t : j = Len(s) + p
  BY ConcatFacts
<1>2. \A j \in DOMAIN (s \o t) : j \in DOMAIN s \/ (s \o t)[j].type \notin T
  BY <1>1 DEF None
<1>3. None(s, T) => None(s \o t, T)
  BY <1>1, <1>2 DEF None
<1>4. ASSUME One(s, T) PROVE One(s \o t, T)
  <2>1. PICK j \in DOMAIN s : /\ s[j].type \in T
                              /\ \A p \in DOMAIN s : s[p].type \in T => p = j
    BY <1>4 DEF One
  <2>2. j \in DOMAIN (s \o t) /\ (s \o t)[j].type \in T
    BY <1>1, <2>1
  <2>3. \A p \in DOMAIN (s \o t) : (s \o t)[p].type \in T => p = j
    BY <1>1, <1>2, <2>1
  <2> QED
    BY <2>2, <2>3 DEF One
<1> QED
  BY <1>3, <1>4

\* One that is sent where there was none is the only one.
LEMMA OneSent ==
  ASSUME NEW S, NEW s \in Seq(S), NEW t \in Seq(S), NEW T, None(s, T), One(t, T)
  PROVE  One(s \o t, T)
<1>1. /\ Len(s) \in Nat /\ DOMAIN t = 1..Len(t)
      /\ \A j \in DOMAIN s : j \in DOMAIN (s \o t) /\ (s \o t)[j] = s[j]
      /\ \A j \in DOMAIN t : Len(s) + j \in DOMAIN (s \o t) /\ (s \o t)[Len(s) + j] = t[j]
      /\ \A j \in DOMAIN (s \o t) :
              j \in DOMAIN s \/ \E p \in DOMAIN t : j = Len(s) + p
  BY ConcatFacts
<1>2. PICK j \in DOMAIN t : /\ t[j].type \in T
                            /\ \A p \in DOMAIN t : t[p].type \in T => p = j
  BY DEF One
<1>3. Len(s) + j \in DOMAIN (s \o t) /\ (s \o t)[Len(s) + j].type \in T
  BY <1>1, <1>2
<1>4. ASSUME NEW p \in DOMAIN (s \o t), (s \o t)[p].type \in T PROVE p = Len(s) + j
  <2>1. p \notin DOMAIN s
    BY <1>1, <1>4 DEF None
  <2>2. PICK q \in DOMAIN t : p = Len(s) + q
    BY <1>1, <2>1
  <2> QED
    BY <1>1, <1>2, <1>4, <2>2
<1> QED
  BY <1>3, <1>4 DEF One

\* A channel without such a message has none when its first is taken.
LEMMA NoneTail ==
  ASSUME NEW S, NEW s \in Seq(S), s # <<>>, NEW T
  PROVE  /\ None(s, T) => None(Tail(s), T) /\ Head(s).type \notin T
         /\ One(s, T) => IF Head(s).type \in T THEN None(Tail(s), T) ELSE One(Tail(s), T)
<1>1. /\ Head(s) = s[1] /\ 1 \in DOMAIN s /\ DOMAIN s = 1..Len(s) /\ Len(s) \in Nat
      /\ DOMAIN Tail(s) = 1..(Len(s) - 1)
      /\ \A j \in DOMAIN Tail(s) : j + 1 \in DOMAIN s /\ Tail(s)[j] = s[j + 1]
      /\ \A j \in DOMAIN s : j # 1 => j - 1 \in DOMAIN Tail(s) /\ Tail(s)[j - 1] = s[j]
  BY TailFacts
<1>2. None(s, T) => None(Tail(s), T) /\ Head(s).type \notin T
  BY <1>1 DEF None
<1>3. ASSUME One(s, T), Head(s).type \in T PROVE None(Tail(s), T)
  <2>1. \A p \in DOMAIN s : s[p].type \in T => p = 1
    BY <1>1, <1>3 DEF One
  <2>2. \A j \in DOMAIN Tail(s) : j + 1 # 1
    BY <1>1
  <2> QED
    BY <1>1, <2>1, <2>2 DEF None
<1>4. ASSUME One(s, T), Head(s).type \notin T PROVE One(Tail(s), T)
  <2>1. PICK j \in DOMAIN s : /\ s[j].type \in T
                              /\ \A p \in DOMAIN s : s[p].type \in T => p = j
    BY <1>4 DEF One
  <2>2. j - 1 \in DOMAIN Tail(s) /\ Tail(s)[j - 1].type \in T
    BY <1>1, <1>4, <2>1
  <2>3. \A p \in DOMAIN Tail(s) : Tail(s)[p].type \in T => p = j - 1
    BY <1>1, <2>1
  <2> QED
    BY <2>2, <2>3 DEF One
<1> QED
  BY <1>2, <1>3, <1>4

\* What is about a context in two channels, is in one of them.
LEMMA SubjectsConcat ==
  ASSUME NEW S, NEW s \in Seq(S), NEW t \in Seq(S)
  PROVE  Subjects(s \o t) = Subjects(s) \cup Subjects(t)
<1>1. /\ \A j \in DOMAIN s : j \in DOMAIN (s \o t) /\ (s \o t)[j] = s[j]
      /\ \A j \in DOMAIN t : Len(s) + j \in DOMAIN (s \o t) /\ (s \o t)[Len(s) + j] = t[j]
      /\ \A j \in DOMAIN (s \o t) :
              j \in DOMAIN s \/ \E p \in DOMAIN t : j = Len(s) + p
  BY ConcatFacts
<1>2. ASSUME NEW i \in Subjects(s \o t) PROVE i \in Subjects(s) \cup Subjects(t)
  <2>1. PICK j \in DOMAIN (s \o t) :
          /\ (s \o t)[j].type \notin {"CREATE_IC", "DISCONNECT", "DISCONNECT_REPLY"}
          /\ i = (s \o t)[j].ic
    BY DEF Subjects
  <2>2. CASE j \in DOMAIN s
    <3>1. (s \o t)[j] = s[j]
      BY <1>1, <2>2
    <3> QED
      BY <2>1, <2>2, <3>1 DEF Subjects
  <2>3. CASE \E p \in DOMAIN t : j = Len(s) + p
    <3>1. PICK p \in DOMAIN t : j = Len(s) + p
      BY <2>3
    <3>2. (s \o t)[j] = t[p]
      BY <1>1, <3>1
    <3> QED
      BY <2>1, <3>1, <3>2 DEF Subjects
  <2> QED
    BY <1>1, <2>2, <2>3
<1>3. ASSUME NEW i \in Subjects(s) PROVE i \in Subjects(s \o t)
  <2>1. PICK j \in DOMAIN s :
          s[j].type \notin {"CREATE_IC", "DISCONNECT", "DISCONNECT_REPLY"} /\ i = s[j].ic
    BY DEF Subjects
  <2>2. j \in DOMAIN (s \o t) /\ (s \o t)[j] = s[j]
    BY <1>1
  <2> QED
    BY <2>1, <2>2 DEF Subjects
<1>4. ASSUME NEW i \in Subjects(t) PROVE i \in Subjects(s \o t)
  <2>1. PICK j \in DOMAIN t :
          t[j].type \notin {"CREATE_IC", "DISCONNECT", "DISCONNECT_REPLY"} /\ i = t[j].ic
    BY DEF Subjects
  <2>2. PICK p \in DOMAIN (s \o t) : (s \o t)[p] = t[j]
    BY <1>1
  <2> QED
    BY <2>1, <2>2 DEF Subjects
<1> QED
  BY <1>2, <1>3, <1>4

\* Its subjects are those of the first message and those of the rest.
LEMMA SubjectsTail ==
  ASSUME NEW S, NEW s \in Seq(S), s # <<>>
  PROVE  /\ Subjects(Tail(s)) \subseteq Subjects(s)
         /\ Head(s).type \notin {"CREATE_IC", "DISCONNECT", "DISCONNECT_REPLY"}
              => Head(s).ic \in Subjects(s)
<1>1. /\ Head(s) = s[1] /\ 1 \in DOMAIN s
      /\ \A j \in DOMAIN Tail(s) : j + 1 \in DOMAIN s /\ Tail(s)[j] = s[j + 1]
  BY TailFacts
<1> QED
  BY <1>1 DEF Subjects

\* The subject of one message.
LEMMA SubjectsOne ==
  ASSUME NEW S, NEW s \in Seq(S), NEW m \in S
  PROVE  Subjects(s \o <<m>>) \subseteq Subjects(s) \cup {m.ic}
<1>1. <<m>> \in Seq(S)
  OBVIOUS
<1>2. Subjects(s \o <<m>>) = Subjects(s) \cup Subjects(<<m>>)
  BY <1>1, SubjectsConcat
<1>3. Subjects(<<m>>) \subseteq {m.ic}
  BY DEF Subjects
<1> QED
  BY <1>2, <1>3

\* What is in a family of channels after a message was taken was there before.
LEMMA TakenFrom ==
  ASSUME NEW S, NEW c \in Clients, NEW f, NEW g, f[c] \in Seq(S), f[c] # <<>>,
         g[c] = Tail(f[c]), \A x \in Clients \ {c} : g[x] = f[x],
         NEW x \in Clients, NEW j \in DOMAIN g[x]
  PROVE  \E p \in DOMAIN f[x] : f[x][p] = g[x][j]
<1>1. CASE x = c
  <2>1. g[x] = Tail(f[c]) /\ j \in DOMAIN Tail(f[c])
    BY <1>1
  <2>2. j + 1 \in DOMAIN f[c] /\ Tail(f[c])[j] = f[c][j + 1]
    BY <2>1, TailFacts
  <2> QED
    BY <1>1, <2>1, <2>2
<1>2. CASE x # c
  BY <1>2
<1> QED
  BY <1>1, <1>2

\* An element of two sequences together is one of either.
LEMMA ConcatElement ==
  ASSUME NEW S, NEW s \in Seq(S), NEW t \in Seq(S), NEW j \in DOMAIN (s \o t)
  PROVE  \/ j \in DOMAIN s /\ (s \o t)[j] = s[j]
         \/ \E p \in DOMAIN t : j = Len(s) + p /\ (s \o t)[j] = t[p]
<1>1. j \in DOMAIN s \/ \E p \in DOMAIN t : j = Len(s) + p
  BY ConcatFacts
<1>2. CASE j \in DOMAIN s
  BY <1>2, ConcatFacts
<1>3. CASE \E p \in DOMAIN t : j = Len(s) + p
  <2>1. PICK p \in DOMAIN t : j = Len(s) + p
    BY <1>3
  <2>2. (s \o t)[Len(s) + p] = t[p]
    BY ConcatFacts
  <2> QED
    BY <2>1, <2>2
<1> QED
  BY <1>1, <1>2, <1>3
-----------------------------------------------------------------------------
(* What the server says while it handles a key or a change of focus.       *)

\* Talk about a context that answers no request.
Says(i) == {m \in Talk : m.type \notin Answering /\ m.ic = i}

\* It is talk, it answers nothing, and it is about that context alone.
LEMMA SaysFacts ==
  ASSUME NEW i \in ICID, NEW s \in Seq(Says(i))
  PROVE  /\ s \in Seq(Talk) /\ s \in Seq(ToClientMessages)
         /\ None(s, Answering) /\ ~Has(s, "DISCONNECT_REPLY")
         /\ Subjects(s) \subseteq {i}
         /\ \A j \in DOMAIN s : s[j].type # "CREATE_IC_REPLY"
<1>1. Says(i) \subseteq Talk /\ Says(i) \subseteq ToClientMessages
  BY DEF Says, Talk
<1>2. s \in Seq(Talk) /\ s \in Seq(ToClientMessages)
  BY <1>1, SeqMonotonic
<1>3. \A j \in DOMAIN s : s[j] \in Says(i)
  BY ElementOfSeq, LenProperties
<1>4. None(s, Answering)
  BY <1>3 DEF None, Says
<1>5. Subjects(s) \subseteq {i}
  BY <1>3 DEF Subjects, Says
<1>6. \A j \in DOMAIN s : s[j].type # "CREATE_IC_REPLY"
  BY <1>4 DEF None, Answering
<1> QED
  BY <1>2, <1>4, <1>5, <1>6, TalkSeq

\* The messages there are.
LEMMA SaysMessages ==
  ASSUME NEW i \in ICID
  PROVE  /\ About("PREEDIT_START", i) \in Says(i) /\ About("PREEDIT_DONE", i) \in Says(i)
         /\ \A chg, n \in 0..MaxLen : DrawOf(i, chg, n) \in Says(i)
         /\ \A k \in Keys : Forward(i, k) \in Says(i)
         /\ \A keys \in Seq(Keys), junk \in BOOLEAN : CommitOf(i, keys, junk) \in Says(i)
<1>1. /\ About("PREEDIT_START", i) \in Talk /\ About("PREEDIT_DONE", i) \in Talk
      /\ \A chg, n \in 0..MaxLen : DrawOf(i, chg, n) \in Talk
      /\ \A k \in Keys : Forward(i, k) \in Talk
  BY TalkMessages
<1>2. \A keys \in Seq(Keys), junk \in BOOLEAN : CommitOf(i, keys, junk) \in Talk
  BY DEF Talk, ToClientMessages, CommitOf
<1>3. /\ About("PREEDIT_START", i) \in Says(i) /\ About("PREEDIT_DONE", i) \in Says(i)
  BY <1>1 DEF Says, Answering, About
<1>4. \A chg, n \in 0..MaxLen : DrawOf(i, chg, n) \in Says(i)
  BY <1>1 DEF Says, Answering, DrawOf
<1>5. \A k \in Keys : Forward(i, k) \in Says(i)
  BY <1>1 DEF Says, Answering, Forward
<1>6. \A keys \in Seq(Keys), junk \in BOOLEAN : CommitOf(i, keys, junk) \in Says(i)
  BY <1>2 DEF Says, Answering, CommitOf
<1> QED
  BY <1>3, <1>4, <1>5, <1>6

\* The sequences of them that are sent.
LEMMA SaysSequences ==
  ASSUME ServerTypeOK, NEW i \in ICID
  PROVE  /\ SoftHideMessages(i) \in Seq(Says(i)) /\ DoneMessages(i) \in Seq(Says(i))
         /\ \A n \in 0..MaxLen : DrawMessages(i, n) \in Seq(Says(i))
         /\ \A k \in Keys : <<Forward(i, k)>> \in Seq(Says(i))
         /\ \A keys \in Seq(Keys), junk \in BOOLEAN :
              SoftHideMessages(i) \o <<CommitOf(i, keys, junk)>> \in Seq(Says(i))
<1>1. ics[i].len \in 0..MaxLen /\ 0 \in 0..MaxLen
  BY MaxLenPositive DEF ServerTypeOK
<1>2. SoftHideMessages(i) \in Seq(Says(i))
  BY <1>1, SaysMessages DEF SoftHideMessages
<1>3. DoneMessages(i) \in Seq(Says(i))
  BY SaysMessages DEF DoneMessages
<1>4. ASSUME NEW n \in 0..MaxLen PROVE DrawMessages(i, n) \in Seq(Says(i))
  <2>1. /\ DrawOf(i, ics[i].len, n) \in Says(i) /\ DrawOf(i, 0, n) \in Says(i)
        /\ About("PREEDIT_START", i) \in Says(i)
    BY <1>1, SaysMessages
  <2> QED
    BY <2>1 DEF DrawMessages
<1>5. ASSUME NEW k \in Keys PROVE <<Forward(i, k)>> \in Seq(Says(i))
  BY SaysMessages
<1>6. ASSUME NEW keys \in Seq(Keys), NEW junk \in BOOLEAN
      PROVE  SoftHideMessages(i) \o <<CommitOf(i, keys, junk)>> \in Seq(Says(i))
  <2>1. CommitOf(i, keys, junk) \in Says(i)
    BY SaysMessages
  <2>2. <<CommitOf(i, keys, junk)>> \in Seq(Says(i))
    BY <2>1
  <2> QED
    BY <1>2, <2>2, ConcatProperties
<1> QED
  BY <1>2, <1>3, <1>4, <1>5, <1>6

\* ProcessKey says such things, and creates nothing.
LEMMA ProcessKeySays ==
  ASSUME TypeOK, NEW c \in Clients, NEW i \in ICID, NEW k \in Keys, ProcessKey(c, i, k)
  PROVE  /\ \E s \in Seq(Says(i)) : toClient' = Send(toClient, c, s)
         /\ lastId' = lastId
<1>1. ServerTypeOK
  BY DEF TypeOK
<1>2. PICK d \in XIMProcessKey(fe, k.ev) :
        DrawWord(c, i, k, d) \/ DiscardWord(c, i, k, d)
          \/ CommitWord(c, i, k, d) \/ ForwardKey(c, i, k, d)
  BY DEF ProcessKey
<1>3. d.fe.len \in 0..MaxLen
  <2>1. k.ev \in KeyEvents
    BY XimAssumption DEF Keys
  <2> QED
    BY <1>1, <2>1, XIMProcessKeyType DEF FrontEndStates, ServerTypeOK
<1>4. typed \in Seq(Keys) /\ Append(typed, k) \in Seq(Keys)
  BY <1>1, AppendProperties DEF ServerTypeOK
<1>5. \E s \in Seq(Says(i)) : toClient' = Send(toClient, c, s)
  BY <1>1, <1>2, <1>3, <1>4, SaysSequences
     DEF DrawWord, DiscardWord, CommitWord, ForwardKey
<1> QED
  BY <1>5 DEF ProcessKey

-----------------------------------------------------------------------------
(* Contexts and their clients.                                             *)

Owners == /\ \A c \in Clients : OneRequest(c)
          /\ Counted /\ Owned /\ AtHome /\ GivenUp

\* Fewer requests for a context, and no more contexts, keep the count.
LEMMA CountedKept ==
  ASSUME Counted, lastId \in Nat, lastId' = lastId, opens' = opens, opens \in Nat,
         Creating' \subseteq Creating
  PROVE  Counted'
<1>1. IsFiniteSet(Creating') /\ Cardinality(Creating') <= Cardinality(Creating)
  BY FS_Subset DEF Counted
<1>2. Cardinality(Creating') \in Nat /\ Cardinality(Creating) \in Nat
  BY <1>1, FS_CardinalityType DEF Counted
<1> QED
  BY <1>1, <1>2 DEF Counted

\* A handler that takes message m of client c, and speaks of its context only,
\* with an answer when m is a request.
LEMMA HandlerOwners ==
  ASSUME Inv, Owners, NEW c \in Clients, NEW type, type # "CREATE_IC",
         Incoming(c, type), NEW s \in Seq(ToClientMessages),
         toClient' = Send(toClient, c, s), UNCHANGED <<lastId, clientVars>>,
         IF type \in Asking THEN One(s, Answering) ELSE None(s, Answering),
         \A j \in DOMAIN s : s[j].type # "CREATE_IC_REPLY",
         \A i \in Subjects(s) : type # "DISCONNECT" /\ i = Head(toServer[c]).ic,
         \A x \in Clients \ {c} : pending'[x] = pending[x],
         \/ pending'[c] = pending[c]
         \/ pending'[c] = <<>>
         \/ type = "FORWARD_EVENT" /\ pending'[c] = pending[c] \o <<Head(toServer[c])>>
  PROVE  Owners'
<1> DEFINE m == Head(toServer[c])
<1>1. TypeOK /\ ServerTypeOK /\ ClientTypeOK
  BY DEF Inv, TypeOK
<1>2. /\ toServer[c] \in Seq(ToServerMessages) /\ toServer[c] # <<>>
      /\ m \in ToServerMessages /\ m.type = type
      /\ toServer'[c] = Tail(toServer[c])
      /\ \A x \in Clients \ {c} : toServer'[x] = toServer[x]
  BY <1>1, IncomingType
<1>3. toClient \in [Clients -> Seq(ToClientMessages)]
  BY <1>1 DEF TypeOK, ChannelsTypeOK
<1>4. /\ toClient'[c] = toClient[c] \o s
      /\ \A x \in Clients \ {c} : toClient'[x] = toClient[x]
  BY <1>3 DEF Send
<1>5. mine' = mine /\ state' = state /\ lastId' = lastId /\ opens' = opens
  BY DEF clientVars
<1>6. ASSUME NEW x \in Clients PROVE OneRequest(x)'
  <2>1. CASE x = c
    <3>1. OneRequest(c)
      BY DEF Owners
    <3>2. /\ None(toServer[c], Asking) => type \notin Asking /\ None(toServer'[c], Asking)
          /\ One(toServer[c], Asking) => IF type \in Asking THEN None(toServer'[c], Asking)
                                                            ELSE One(toServer'[c], Asking)
      BY <1>2, NoneTail
    <3>3. CASE type \in Asking
      <4>1. state[c] = "blocked" /\ One(toServer[c], Asking) /\ None(toClient[c], Answering)
        BY <3>1, <3>2, <3>3 DEF OneRequest
      <4>2. One(toClient'[c], Answering)
        BY <1>3, <1>4, <3>3, <4>1, OneSent
      <4> QED
        BY <1>5, <2>1, <3>2, <3>3, <4>1, <4>2 DEF OneRequest
    <3>4. CASE type \notin Asking
      <4>1. /\ None(toClient[c], Answering) => None(toClient'[c], Answering)
            /\ One(toClient[c], Answering) => One(toClient'[c], Answering)
        BY <1>3, <1>4, <3>4, NoneConcat
      <4> QED
        BY <1>5, <2>1, <3>1, <3>2, <3>4, <4>1 DEF OneRequest
    <3> QED
      BY <3>3, <3>4
  <2>2. CASE x # c
    BY <1>2, <1>4, <1>5, <2>2 DEF Owners, OneRequest
  <2> QED
    BY <2>1, <2>2
<1>7. Counted'
  <2>1. Creating' \subseteq Creating
    <3>1. Has(toServer'[c], "CREATE_IC") => Has(toServer[c], "CREATE_IC")
      BY <1>2, HasTail
    <3> QED
      BY <1>2, <3>1 DEF Creating
  <2> QED
    BY <1>1, <1>5, <2>1, CountedKept, XimAssumption
       DEF Owners, ServerTypeOK, ClientTypeOK, ICID
<1>8. type \notin {"CREATE_IC", "DISCONNECT"} => m.ic \in Ids(c)
  <2>1. m.type \notin {"CREATE_IC", "DISCONNECT", "DISCONNECT_REPLY"}
              => m.ic \in Subjects(toServer[c])
    BY <1>2, SubjectsTail
  <2>2. m.type # "DISCONNECT_REPLY"
    BY <1>2 DEF ToServerMessages, Requests
  <2> QED
    BY <1>2, <2>1, <2>2 DEF Ids
<1>9. ASSUME NEW x \in Clients PROVE Ids(x)' \subseteq Ids(x)
  <2>1. CASE x = c
    <3>1. Subjects(toServer'[c]) \subseteq Subjects(toServer[c])
      BY <1>2, SubjectsTail
    <3>2. Subjects(toClient'[c]) \subseteq Subjects(toClient[c]) \cup Subjects(s)
      BY <1>3, <1>4, SubjectsConcat
    <3>3. Subjects(s) \subseteq Ids(c)
      BY <1>8
    <3>4. Subjects(pending'[c]) \subseteq Ids(c)
      <4>1. CASE pending'[c] = pending[c]
        BY <4>1 DEF Ids
      <4>2. CASE pending'[c] = <<>>
        BY <4>2 DEF Subjects
      <4>3. CASE type = "FORWARD_EVENT" /\ pending'[c] = pending[c] \o <<m>>
        <5>1. pending[c] \in Seq(PendingMessages)
          BY <1>1 DEF ServerTypeOK
        <5>2. m \in PendingMessages
          BY <1>2, <4>3, ToServerTypes
        <5>3. Subjects(pending'[c]) \subseteq Subjects(pending[c]) \cup {m.ic}
          <6> HIDE DEF m
          <6> QED
            BY <4>3, <5>1, <5>2, SubjectsOne
        <5> QED
          BY <1>8, <4>3, <5>3 DEF Ids
      <4> QED
        BY <4>1, <4>2, <4>3
    <3> QED
      BY <1>5, <2>1, <3>1, <3>2, <3>3, <3>4 DEF Ids
  <2>2. CASE x # c
    BY <1>2, <1>4, <1>5, <2>2 DEF Ids
  <2> QED
    BY <2>1, <2>2
<1>10. Owned'
  <2>1. \A x \in Clients : Ids(x)' \subseteq 1..lastId'
    BY <1>5, <1>9 DEF Owners, Owned
  <2>2. \A x, y \in Clients : x # y => Ids(x)' \cap Ids(y)' = {}
    BY <1>9 DEF Owners, Owned
  <2> QED
    BY <2>1, <2>2 DEF Owned
<1>11. AtHome'
  <2> SUFFICES ASSUME NEW x \in Clients
               PROVE  /\ \A j \in DOMAIN toServer'[x] : toServer'[x][j].type = "FORWARD_EVENT"
                           => toServer'[x][j].key.home = toServer'[x][j].ic
                      /\ \A j \in DOMAIN pending'[x] :
                           pending'[x][j].key.home = pending'[x][j].ic
    BY DEF AtHome
  <2>0. /\ \A j \in DOMAIN toServer[x] : toServer[x][j].type = "FORWARD_EVENT"
                           => toServer[x][j].key.home = toServer[x][j].ic
        /\ \A j \in DOMAIN pending[x] : pending[x][j].key.home = pending[x][j].ic
    BY DEF Owners, AtHome
  <2>1. CASE x = c
    <3>1. /\ m = toServer[c][1] /\ 1 \in DOMAIN toServer[c]
          /\ \A j \in DOMAIN toServer'[c] :
               j + 1 \in DOMAIN toServer[c] /\ toServer'[c][j] = toServer[c][j + 1]
      BY <1>2, TailFacts
    <3>2. type = "FORWARD_EVENT" => m.key.home = m.ic
      BY <1>2, <2>0, <2>1, <3>1
    <3>3. \A j \in DOMAIN pending'[c] : pending'[c][j].key.home = pending'[c][j].ic
      <4>1. CASE pending'[c] = pending[c]
        BY <2>0, <2>1, <4>1
      <4>2. CASE pending'[c] = <<>>
        BY <4>2
      <4>3. CASE type = "FORWARD_EVENT" /\ pending'[c] = pending[c] \o <<m>>
        <5>1. pending[c] \in Seq(PendingMessages)
          BY <1>1 DEF ServerTypeOK
        <5>2. m \in PendingMessages
          BY <1>2, <4>3, ToServerTypes
        <5>3. <<m>> \in Seq(PendingMessages) /\ <<m>>[1] = m /\ DOMAIN <<m>> = {1}
          BY <5>2
        <5>4. \A j \in DOMAIN pending'[c] :
                pending'[c][j] = m \/ (j \in DOMAIN pending[c] /\ pending'[c][j] = pending[c][j])
          BY <4>3, <5>1, <5>3, ConcatFacts
        <5> QED
          BY <2>0, <2>1, <3>2, <4>3, <5>4
      <4> QED
        BY <4>1, <4>2, <4>3
    <3> QED
      BY <2>0, <2>1, <3>1, <3>3
  <2>2. CASE x # c
    BY <1>2, <2>0, <2>2
  <2> QED
    BY <2>1, <2>2
<1>12. GivenUp'
  <2> SUFFICES ASSUME NEW x \in Clients, NEW j \in DOMAIN toServer'[x],
                      toServer'[x][j].type = "DESTROY_IC"
               PROVE  toServer'[x][j].ic \notin Held(x)'
    BY DEF GivenUp
  <2>1. PICK p \in DOMAIN toServer[x] : toServer[x][p] = toServer'[x][j]
    BY <1>2, TakenFrom
  <2>2. Held(x)' \subseteq Held(x)
    <3>1. CASE x = c
      <4>1. \A q \in DOMAIN toClient'[c] : \/ q \in DOMAIN toClient[c] /\ toClient'[c][q] = toClient[c][q]
                                          \/ toClient'[c][q].type # "CREATE_IC_REPLY"
        BY <1>3, <1>4, ConcatFacts
      <4> QED
        BY <1>5, <3>1, <4>1 DEF Held, Coming
    <3>2. CASE x # c
      BY <1>4, <1>5, <3>2 DEF Held, Coming
    <3> QED
      BY <3>1, <3>2
  <2> QED
    BY <2>1, <2>2 DEF Owners, GivenUp
<1> QED
  BY <1>6, <1>7, <1>10, <1>11, <1>12 DEF Owners

\* One message at a time: none of the types, one, or about a context.
LEMMA OneMessage ==
  ASSUME NEW m, NEW T
  PROVE  /\ m.type \notin T => None(<<m>>, T)
         /\ m.type \in T => One(<<m>>, T)
         /\ Subjects(<<m>>) \subseteq {m.ic}
         /\ m.type \in {"CREATE_IC", "DISCONNECT", "DISCONNECT_REPLY"} => Subjects(<<m>>) = {}
<1>1. DOMAIN <<m>> = {1} /\ <<m>>[1] = m
  OBVIOUS
<1> QED
  BY <1>1 DEF None, One, Subjects

\* A key is put aside, or goes to the word, to Queue or back to its client.
LEMMA ForwardEventOwners ==
  ASSUME Inv, Owners, NEW c \in Clients, HandleForwardEvent(c) PROVE Owners'
<1> DEFINE m == Head(toServer[c])
<1>1. TypeOK /\ ServerTypeOK /\ Incoming(c, "FORWARD_EVENT")
  BY DEF Inv, TypeOK, HandleForwardEvent
<1>2. m \in ToServerMessages /\ m.type = "FORWARD_EVENT"
  BY <1>1, IncomingType
<1>3. m.ic \in ICID /\ m.key \in Keys /\ m \in PendingMessages
  BY <1>2, ToServerTypes
<1>4. PICK s \in Seq(Says(m.ic)) : toClient' = Send(toClient, c, s)
  <2>1. CASE sync[c]
    <3>1. <<>> \in Seq(Says(m.ic)) /\ toClient' = Send(toClient, c, <<>>)
      BY <1>1, <2>1, ConcatEmptySeq, EmptySeq
         DEF HandleForwardEvent, Send, TypeOK, ChannelsTypeOK
    <3> QED
      BY <3>1
  <2>2. CASE ~sync[c]
    BY <1>1, <1>3, <2>2, ProcessKeySays DEF HandleForwardEvent
  <2> QED
    BY <2>1, <2>2
<1>5. lastId' = lastId /\ UNCHANGED clientVars
  <2>1. CASE sync[c]
    BY <2>1 DEF HandleForwardEvent
  <2>2. CASE ~sync[c]
    BY <1>1, <1>3, <2>2, ProcessKeySays DEF HandleForwardEvent
  <2> QED
    BY <2>1, <2>2
<1>6. /\ \A x \in Clients \ {c} : pending'[x] = pending[x]
      /\ pending'[c] = pending[c] \/ pending'[c] = pending[c] \o <<m>>
  <2>1. Append(pending[c], m) = pending[c] \o <<m>>
    BY <1>1, <1>3, AppendIsConcat DEF ServerTypeOK
  <2>2. CASE sync[c]
    BY <1>1, <2>1, <2>2 DEF HandleForwardEvent, ServerTypeOK
  <2>3. CASE ~sync[c]
    BY <2>3 DEF HandleForwardEvent
  <2> QED
    BY <2>2, <2>3
<1>7. /\ s \in Seq(ToClientMessages) /\ None(s, Answering)
      /\ \A i \in Subjects(s) : i = m.ic
      /\ \A j \in DOMAIN s : s[j].type # "CREATE_IC_REPLY"
  BY <1>3, SaysFacts
<1>8. "FORWARD_EVENT" \notin Asking
  BY DEF Asking, Requests
<1> HIDE DEF m
<1> QED
  BY <1>1, <1>4, <1>5, <1>6, <1>7, <1>8, HandlerOwners DEF m

\* A key of Queue goes out to the context of the reply, which its client knows.
LEMMA SyncReplyOwners ==
  ASSUME Inv, Owners, NEW c \in Clients, HandleSyncReply(c) PROVE Owners'
<1> DEFINE m == Head(toServer[c])
<1>1. TypeOK /\ ServerTypeOK /\ Incoming(c, "SYNC_REPLY")
  BY DEF Inv, TypeOK, HandleSyncReply
<1>2. m \in ToServerMessages /\ m.type = "SYNC_REPLY" /\ m.ic \in ICID
  BY <1>1, IncomingType, ToServerTypes
<1>3. PICK s \in Seq(Says(m.ic)) : toClient' = Send(toClient, c, s)
  <2>1. CASE imsSync /\ queue # <<>>
    <3>1. Head(queue) \in Keys
      BY <1>1, <2>1, HeadTailProperties DEF ServerTypeOK
    <3>2. <<Forward(m.ic, Head(queue))>> \in Seq(Says(m.ic))
      BY <1>1, <1>2, <3>1, SaysSequences
    <3> QED
      BY <2>1, <3>2 DEF HandleSyncReply
  <2>2. CASE ~(imsSync /\ queue # <<>>)
    BY <2>2, EmptySeq DEF HandleSyncReply
  <2> QED
    BY <2>1, <2>2
<1>4. /\ s \in Seq(ToClientMessages) /\ None(s, Answering)
      /\ \A i \in Subjects(s) : i = m.ic
      /\ \A j \in DOMAIN s : s[j].type # "CREATE_IC_REPLY"
  BY <1>2, SaysFacts
<1>5. "SYNC_REPLY" \notin Asking
  BY DEF Asking, Requests
<1>6. UNCHANGED <<lastId, pending, clientVars>>
  BY DEF HandleSyncReply
<1> HIDE DEF m
<1> QED
  BY <1>1, <1>3, <1>4, <1>5, <1>6, HandlerOwners DEF m

\* The reply to DESTROY_IC takes the place of the request.
LEMMA DestroyICOwners ==
  ASSUME Inv, Owners, NEW c \in Clients, HandleDestroyIC(c) PROVE Owners'
<1> DEFINE m == Head(toServer[c])
           r == About("REQUEST_REPLY", m.ic)
<1>1. TypeOK /\ Incoming(c, "DESTROY_IC")
  BY DEF Inv, HandleDestroyIC
<1>2. m.ic \in ICID
  BY <1>1, IncomingType, ToServerTypes DEF Requests
<1>3. /\ r \in ToClientMessages /\ r.type = "REQUEST_REPLY" /\ r.ic = m.ic
      /\ r.type \in Answering
  BY <1>2, TalkMessages DEF Talk, About, Answering
<1>4. UNCHANGED <<lastId, pending, clientVars>>
  BY DEF HandleDestroyIC
<1>5. "DESTROY_IC" \in Asking
  BY DEF Asking, Requests
<1> HIDE DEF r, m
<1> DEFINE t == <<r>>
<1>6. t \in Seq(ToClientMessages) /\ \A j \in DOMAIN t : t[j].type # "CREATE_IC_REPLY"
  BY <1>3
<1>7. One(t, Answering) /\ \A i \in Subjects(t) : i = m.ic
  BY <1>3, OneMessage
<1>8. toClient' = Send(toClient, c, t)
  BY DEF HandleDestroyIC, r, m
<1> HIDE DEF t
<1> QED
  BY <1>1, <1>4, <1>5, <1>6, <1>7, <1>8, HandlerOwners DEF m

\* SET_IC_FOCUS is answered at most by a draw in its context.
LEMMA SetFocusOwners ==
  ASSUME Inv, Owners, NEW c \in Clients, HandleSetFocus(c) PROVE Owners'
<1> DEFINE m == Head(toServer[c])
<1>1. TypeOK /\ ServerTypeOK /\ Incoming(c, "SET_IC_FOCUS")
  BY DEF Inv, TypeOK, HandleSetFocus
<1>2. m.ic \in ICID
  BY <1>1, IncomingType, ToServerTypes
<1>3. PICK s \in Seq(Says(m.ic)) : toClient' = Send(toClient, c, s)
  BY <1>1, <1>2, SaysSequences DEF HandleSetFocus
<1>4. /\ s \in Seq(ToClientMessages) /\ None(s, Answering)
      /\ \A i \in Subjects(s) : i = m.ic
      /\ \A j \in DOMAIN s : s[j].type # "CREATE_IC_REPLY"
  BY <1>2, SaysFacts
<1>5. "SET_IC_FOCUS" \notin Asking
  BY DEF Asking, Requests
<1>6. UNCHANGED <<lastId, pending, clientVars>>
  BY DEF HandleSetFocus
<1> HIDE DEF m
<1> QED
  BY <1>1, <1>3, <1>4, <1>5, <1>6, HandlerOwners DEF m

\* What is said when the word is given up, before any reply.
LEMMA GiveUpSays ==
  ASSUME TypeOK, NEW c \in Clients, NEW i \in ICID, NEW replies \in Seq(ToClientMessages),
         GiveUpWord(c, i, replies)
  PROVE  \E s \in Seq(Says(i)) : toClient' = Send(toClient, c, s \o replies)
<1>1. ServerTypeOK
  BY DEF TypeOK
<1> DEFINE s == IF fe.len > 0
                THEN SoftHideMessages(i) \o <<CommitOf(i, typed, FALSE)>> \o DoneMessages(i)
                ELSE SoftHideMessages(i) \o DoneMessages(i)
<1>2. s \in Seq(Says(i))
  <2>1. /\ SoftHideMessages(i) \o <<CommitOf(i, typed, FALSE)>> \in Seq(Says(i))
        /\ SoftHideMessages(i) \in Seq(Says(i)) /\ DoneMessages(i) \in Seq(Says(i))
    BY <1>1, SaysSequences DEF ServerTypeOK
  <2> QED
    BY <2>1, ConcatProperties
<1>3. toClient' = Send(toClient, c, s \o replies)
  BY DEF GiveUpWord
<1> QED
  BY <1>2, <1>3

\* UNSET_IC_FOCUS too, and by the commit of the word.
LEMMA UnsetFocusOwners ==
  ASSUME Inv, Owners, NEW c \in Clients, HandleUnsetFocus(c) PROVE Owners'
<1> DEFINE m == Head(toServer[c])
<1>1. TypeOK /\ Incoming(c, "UNSET_IC_FOCUS") /\ GiveUpWord(c, m.ic, <<>>)
  BY DEF Inv, HandleUnsetFocus
<1>2. m.ic \in ICID
  BY <1>1, IncomingType, ToServerTypes
<1>3. PICK s \in Seq(Says(m.ic)) : toClient' = Send(toClient, c, s \o <<>>)
  BY <1>1, <1>2, GiveUpSays, EmptySeq
<1>4. /\ s \in Seq(ToClientMessages) /\ None(s, Answering)
      /\ \A i \in Subjects(s) : i = m.ic
      /\ \A j \in DOMAIN s : s[j].type # "CREATE_IC_REPLY"
  BY <1>2, SaysFacts
<1>5. toClient' = Send(toClient, c, s)
  BY <1>3, <1>4, ConcatEmptySeq
<1>6. "UNSET_IC_FOCUS" \notin Asking
  BY DEF Asking, Requests
<1>7. UNCHANGED <<lastId, pending, clientVars>>
  BY <1>1 DEF GiveUpWord
<1> HIDE DEF m
<1> QED
  BY <1>1, <1>4, <1>5, <1>6, <1>7, HandlerOwners DEF m

\* The reply to RESET_IC takes the place of the request.
LEMMA ResetICOwners ==
  ASSUME Inv, Owners, NEW c \in Clients, HandleResetIC(c) PROVE Owners'
<1> DEFINE m == Head(toServer[c])
           r == About("REQUEST_REPLY", m.ic)
<1>1. TypeOK /\ Incoming(c, "RESET_IC") /\ GiveUpWord(c, m.ic, <<r>>)
  BY DEF Inv, HandleResetIC
<1>2. m.ic \in ICID
  BY <1>1, IncomingType, ToServerTypes DEF Requests
<1>3. /\ r \in ToClientMessages /\ r.type = "REQUEST_REPLY" /\ r.ic = m.ic
      /\ r.type \in Answering
  BY <1>2, TalkMessages DEF Talk, About, Answering
<1> HIDE DEF r
<1>4. <<r>> \in Seq(ToClientMessages) /\ DOMAIN <<r>> = {1} /\ <<r>>[1] = r
  BY <1>3
<1>5. PICK s \in Seq(Says(m.ic)) : toClient' = Send(toClient, c, s \o <<r>>)
  BY <1>1, <1>2, <1>4, GiveUpSays
<1>6. /\ s \in Seq(ToClientMessages) /\ None(s, Answering)
      /\ \A i \in Subjects(s) : i = m.ic
      /\ \A j \in DOMAIN s : s[j].type # "CREATE_IC_REPLY"
  BY <1>2, SaysFacts
<1>7. UNCHANGED <<lastId, pending, clientVars>>
  BY <1>1 DEF GiveUpWord
<1> HIDE DEF m
<1> DEFINE t == s \o <<r>>
<1>8. t \in Seq(ToClientMessages) /\ One(t, Answering)
  <2>1. One(<<r>>, Answering)
    BY <1>3, OneMessage
  <2> QED
    BY <1>4, <1>6, <2>1, OneSent, ConcatProperties
<1>9. \A i \in Subjects(t) : i = m.ic
  BY <1>3, <1>6, SubjectsOne
<1>10. \A j \in DOMAIN t : t[j].type # "CREATE_IC_REPLY"
  BY <1>3, <1>4, <1>6, ConcatFacts
<1>11. "RESET_IC" \in Asking /\ toClient' = Send(toClient, c, t)
  BY <1>5 DEF Asking, Requests
<1> HIDE DEF t
<1> QED
  BY <1>1, <1>7, <1>8, <1>9, <1>10, <1>11, HandlerOwners DEF m

\* The record of a client that disconnects is cleared.
LEMMA DisconnectOwners ==
  ASSUME Inv, Owners, NEW c \in Clients, HandleDisconnect(c) PROVE Owners'
<1> DEFINE r == Plain("DISCONNECT_REPLY")
<1>1. TypeOK /\ ServerTypeOK /\ Incoming(c, "DISCONNECT")
  BY DEF Inv, TypeOK, HandleDisconnect
<1>2. r \in ToClientMessages /\ r.type = "DISCONNECT_REPLY" /\ r.type \notin Answering
  BY DEF Plain, ToClientMessages, Answering
<1>3. toClient' = Send(toClient, c, <<r>>) /\ UNCHANGED <<lastId, clientVars>>
  BY DEF HandleDisconnect
<1> HIDE DEF r
<1>4. <<r>> \in Seq(ToClientMessages) /\ DOMAIN <<r>> = {1} /\ <<r>>[1] = r
  BY <1>2
<1>5. None(<<r>>, Answering) /\ Subjects(<<r>>) = {}
  BY <1>2, OneMessage
<1>6. pending'[c] = <<>> /\ \A x \in Clients \ {c} : pending'[x] = pending[x]
  BY <1>1 DEF HandleDisconnect, ServerTypeOK
<1>7. "DISCONNECT" \notin Asking
  BY DEF Asking, Requests
<1> QED
  BY <1>1, <1>2, <1>3, <1>4, <1>5, <1>6, <1>7, HandlerOwners

\* The count bounds the ids: the next one is new, and within the CARD16.
LEMMA NextId ==
  ASSUME Inv, Owners, NEW c \in Clients, HandleCreateIC(c)
  PROVE  lastId' = lastId + 1 /\ Counted'
<1>1. TypeOK /\ ServerTypeOK /\ ClientTypeOK /\ Incoming(c, "CREATE_IC")
  BY DEF Inv, TypeOK, HandleCreateIC
<1>2. /\ toServer[c] \in Seq(ToServerMessages) /\ toServer[c] # <<>>
      /\ Head(toServer[c]).type = "CREATE_IC"
      /\ toServer'[c] = Tail(toServer[c])
      /\ \A x \in Clients \ {c} : toServer'[x] = toServer[x]
  BY <1>1, IncomingType
<1>3. Has(toServer[c], "CREATE_IC")
  <2>1. 1 \in DOMAIN toServer[c] /\ toServer[c][1] = Head(toServer[c])
    BY <1>2, TailFacts
  <2> QED
    BY <1>2, <2>1 DEF Has
<1>4. ~Has(toServer'[c], "CREATE_IC")
  <2>1. ~None(toServer[c], Asking)
    BY <1>3 DEF None, Has, Asking
  <2>2. One(toServer[c], Asking)
    BY <2>1 DEF Owners, OneRequest
  <2>3. None(toServer'[c], Asking)
    BY <1>2, <2>2, NoneTail DEF Asking
  <2> QED
    BY <2>3 DEF None, Has, Asking
<1>5. c \in Creating /\ Creating' \subseteq Creating \ {c}
  BY <1>2, <1>3, <1>4 DEF Creating
<1>6. /\ IsFiniteSet(Creating \ {c}) /\ IsFiniteSet(Creating)
      /\ Cardinality(Creating \ {c}) = Cardinality(Creating) - 1
  BY <1>5, FS_RemoveElement DEF Owners, Counted
<1>7. IsFiniteSet(Creating') /\ Cardinality(Creating') <= Cardinality(Creating \ {c})
  BY <1>5, <1>6, FS_Subset
<1>8. /\ Cardinality(Creating') \in Nat /\ Cardinality(Creating) \in Nat
      /\ Cardinality(Creating \ {c}) \in Nat
  BY <1>6, <1>7, FS_CardinalityType
<1>9. /\ lastId \in Nat /\ opens \in Nat /\ opens' = opens /\ opens <= MaxICs
      /\ IdSpace \in Nat /\ MaxICs \in Nat /\ MaxICs < IdSpace
  BY <1>1, XimAssumption DEF HandleCreateIC, clientVars, ServerTypeOK, ClientTypeOK, ICID
<1>10. lastId + Cardinality(Creating) <= opens
  BY DEF Owners, Counted
<1>11. lastId + 1 <= opens
  BY <1>6, <1>8, <1>9, <1>10
<1>12. lastId' = lastId + 1
  <2>1. lastId + 1 \in 0..(IdSpace - 1) /\ IdSpace > 0
    BY <1>9, <1>11
  <2>2. (lastId + 1) % IdSpace = lastId + 1
    BY <1>9, <2>1
  <2> QED
    BY <2>2 DEF HandleCreateIC
<1>13. lastId' + Cardinality(Creating') <= opens'
  BY <1>6, <1>7, <1>8, <1>9, <1>10, <1>12
<1> QED
  BY <1>7, <1>12, <1>13 DEF Counted

\* A context created gets an id that no client knows: lastId has not wrapped.
LEMMA CreateICOwners ==
  ASSUME Inv, Owners, NEW c \in Clients, HandleCreateIC(c) PROVE Owners'
<1> DEFINE r == About("CREATE_IC_REPLY", lastId')
<1>1. TypeOK /\ ServerTypeOK /\ ClientTypeOK /\ Incoming(c, "CREATE_IC")
  BY DEF Inv, TypeOK, HandleCreateIC
<1>2. /\ toServer[c] \in Seq(ToServerMessages) /\ toServer[c] # <<>>
      /\ Head(toServer[c]).type = "CREATE_IC"
      /\ toServer'[c] = Tail(toServer[c])
      /\ \A x \in Clients \ {c} : toServer'[x] = toServer[x]
  BY <1>1, IncomingType
<1>3. /\ toClient' = Send(toClient, c, <<r>>) /\ pending' = pending
      /\ mine' = mine /\ state' = state
  BY DEF HandleCreateIC, clientVars
<1>4. lastId' = lastId + 1 /\ Counted' /\ lastId \in Nat
  BY <1>1, NextId DEF ServerTypeOK, ICID
<1>5. r \in ToClientMessages /\ r.type = "CREATE_IC_REPLY" /\ r.ic = lastId'
  <2>1. ServerTypeOK'
    BY CreateICInv DEF Inv, TypeOK
  <2>2. lastId' \in ICID
    BY <2>1 DEF ServerTypeOK
  <2> QED
    BY <2>2, TalkMessages DEF Talk, About
<1>6. toClient \in [Clients -> Seq(ToClientMessages)]
  BY <1>1 DEF TypeOK, ChannelsTypeOK
<1>7. /\ toClient'[c] = toClient[c] \o <<r>>
      /\ \A x \in Clients \ {c} : toClient'[x] = toClient[x]
  BY <1>3, <1>6 DEF Send
<1>8. /\ state[c] = "blocked" /\ None(toClient[c], Answering)
      /\ None(toServer'[c], Asking)
  <2>1. "CREATE_IC" \in Asking
    BY DEF Asking
  <2>2. /\ ~None(toServer[c], Asking)
        /\ One(toServer[c], Asking) => None(toServer'[c], Asking)
    BY <1>2, <2>1, NoneTail
  <2> QED
    BY <2>2 DEF Owners, OneRequest
<1> HIDE DEF r
<1>9. One(toClient'[c], Answering)
  <2>1. One(<<r>>, Answering) /\ <<r>> \in Seq(ToClientMessages)
    BY <1>5, OneMessage DEF Answering
  <2> QED
    BY <1>6, <1>7, <1>8, <2>1, OneSent
<1>10. ASSUME NEW x \in Clients PROVE OneRequest(x)'
  <2>1. CASE x = c
    BY <1>3, <1>8, <1>9, <2>1 DEF OneRequest
  <2>2. CASE x # c
    BY <1>2, <1>3, <1>7, <2>2 DEF Owners, OneRequest
  <2> QED
    BY <2>1, <2>2
<1>11. Ids(c)' \subseteq Ids(c) \cup {lastId'}
  <2>1. Subjects(toServer'[c]) \subseteq Subjects(toServer[c])
    BY <1>2, SubjectsTail
  <2>2. Subjects(toClient'[c]) \subseteq Subjects(toClient[c]) \cup {lastId'}
    BY <1>5, <1>6, <1>7, SubjectsOne
  <2> QED
    BY <1>3, <2>1, <2>2 DEF Ids
<1>12. \A x \in Clients \ {c} : Ids(x)' = Ids(x)
  BY <1>2, <1>3, <1>7 DEF Ids
<1>13. Owned'
  <2>0. lastId' \in 1..lastId' /\ \A i \in 1..lastId : i \in 1..lastId'
                                            /\ i # lastId'
    BY <1>4
  <2>1. \A x \in Clients : Ids(x)' \subseteq 1..lastId'
    BY <1>11, <1>12, <2>0 DEF Owners, Owned
  <2>2. ASSUME NEW x \in Clients, NEW y \in Clients, x # y PROVE Ids(x)' \cap Ids(y)' = {}
    <3>1. Ids(x) \cap Ids(y) = {}
      BY <2>2 DEF Owners, Owned
    <3>2. lastId' \notin Ids(x) /\ lastId' \notin Ids(y)
      BY <2>0 DEF Owners, Owned
    <3> QED
      BY <1>11, <1>12, <2>2, <3>1, <3>2
  <2> QED
    BY <2>1, <2>2 DEF Owned
<1>14. AtHome'
  <2> SUFFICES ASSUME NEW x \in Clients, NEW j \in DOMAIN toServer'[x],
                      toServer'[x][j].type = "FORWARD_EVENT"
               PROVE  toServer'[x][j].key.home = toServer'[x][j].ic
    BY <1>3 DEF Owners, AtHome
  <2>1. PICK p \in DOMAIN toServer[x] : toServer[x][p] = toServer'[x][j]
    BY <1>2, TakenFrom
  <2> QED
    BY <2>1 DEF Owners, AtHome
<1>15. GivenUp'
  <2> SUFFICES ASSUME NEW x \in Clients, NEW j \in DOMAIN toServer'[x],
                      toServer'[x][j].type = "DESTROY_IC"
               PROVE  toServer'[x][j].ic \notin Held(x)'
    BY DEF GivenUp
  <2>1. x # c
    BY <1>8 DEF None, Asking, Requests
  <2>2. Held(x)' = Held(x) /\ toServer'[x] = toServer[x]
    BY <1>2, <1>3, <1>7, <2>1 DEF Held, Coming
  <2> QED
    BY <2>2 DEF Owners, GivenUp
<1> QED
  BY <1>4, <1>10, <1>13, <1>14, <1>15 DEF Owners

\* A key of the pending list is handled in the context it was put aside with.
LEMMA DrainPendingOwners ==
  ASSUME Inv, Owners, NEW c \in Clients, DrainPending(c) PROVE Owners'
<1> DEFINE m == Head(pending[c])
<1>1. TypeOK /\ ServerTypeOK /\ ClientTypeOK /\ busy = c /\ pending[c] # <<>>
  BY XimAssumption DEF Inv, TypeOK, BusyOK, DrainPending
<1>2. /\ pending[c] \in Seq(PendingMessages) /\ m \in PendingMessages
      /\ toClient \in [Clients -> Seq(ToClientMessages)]
  BY <1>1, HeadTailProperties DEF ServerTypeOK, TypeOK, ChannelsTypeOK
<1>3. m.ic \in ICID /\ m.key \in Keys /\ m.type = "FORWARD_EVENT"
  BY <1>2 DEF PendingMessages
<1>4. /\ ProcessKey(c, m.ic, m.key)
      /\ pending'[c] = Tail(pending[c])
      /\ \A x \in Clients \ {c} : pending'[x] = pending[x]
      /\ toServer' = toServer /\ mine' = mine /\ state' = state /\ opens' = opens
  BY <1>1 DEF DrainPending, clientVars, ServerTypeOK
<1> HIDE DEF m
<1>5. lastId' = lastId
  BY <1>1, <1>3, <1>4, ProcessKeySays
<1>6. PICK s \in Seq(Says(m.ic)) : toClient' = Send(toClient, c, s)
  BY <1>1, <1>3, <1>4, ProcessKeySays
<1>7. /\ s \in Seq(ToClientMessages) /\ None(s, Answering)
      /\ Subjects(s) \subseteq {m.ic}
      /\ \A j \in DOMAIN s : s[j].type # "CREATE_IC_REPLY"
  BY <1>3, SaysFacts
<1>8. /\ toClient'[c] = toClient[c] \o s
      /\ \A x \in Clients \ {c} : toClient'[x] = toClient[x]
  BY <1>2, <1>6 DEF Send
<1>9. ASSUME NEW x \in Clients PROVE OneRequest(x)'
  <2>1. CASE x = c
    <3>1. /\ None(toClient[c], Answering) => None(toClient'[c], Answering)
          /\ One(toClient[c], Answering) => One(toClient'[c], Answering)
      BY <1>2, <1>7, <1>8, NoneConcat
    <3> QED
      BY <1>4, <2>1, <3>1 DEF Owners, OneRequest
  <2>2. CASE x # c
    BY <1>4, <1>8, <2>2 DEF Owners, OneRequest
  <2> QED
    BY <2>1, <2>2
<1>10. Counted'
  BY <1>4, <1>5 DEF Owners, Counted, Creating
<1>11. ASSUME NEW x \in Clients PROVE Ids(x)' \subseteq Ids(x)
  <2>1. CASE x = c
    <3>1. Subjects(pending'[c]) \subseteq Subjects(pending[c]) /\ m.ic \in Subjects(pending[c])
      BY <1>1, <1>2, <1>3, <1>4, SubjectsTail DEF m
    <3>2. Subjects(toClient'[c]) \subseteq Subjects(toClient[c]) \cup {m.ic}
      BY <1>2, <1>7, <1>8, SubjectsConcat
    <3> QED
      BY <1>4, <2>1, <3>1, <3>2 DEF Ids
  <2>2. CASE x # c
    BY <1>4, <1>8, <2>2 DEF Ids
  <2> QED
    BY <2>1, <2>2
<1>12. Owned'
  BY <1>5, <1>11 DEF Owners, Owned
<1>13. AtHome'
  <2> SUFFICES ASSUME NEW x \in Clients, NEW j \in DOMAIN pending'[x]
               PROVE  pending'[x][j].key.home = pending'[x][j].ic
    BY <1>4 DEF Owners, AtHome
  <2>1. PICK p \in DOMAIN pending[x] : pending[x][p] = pending'[x][j]
    <3>1. /\ pending[c] \in Seq(PendingMessages) /\ pending[c] # <<>>
          /\ pending'[c] = Tail(pending[c]) /\ \A y \in Clients \ {c} : pending'[y] = pending[y]
      BY <1>1, <1>2, <1>4
    <3> QED
      BY <3>1, TakenFrom
  <2> QED
    BY <2>1 DEF Owners, AtHome
<1>14. GivenUp'
  <2> SUFFICES ASSUME NEW x \in Clients PROVE Held(x)' \subseteq Held(x)
    BY <1>4 DEF Owners, GivenUp
  <2>1. CASE x = c
    <3>1. \A q \in DOMAIN toClient'[c] : \/ q \in DOMAIN toClient[c] /\ toClient'[c][q] = toClient[c][q]
                                        \/ toClient'[c][q].type # "CREATE_IC_REPLY"
      BY <1>2, <1>7, <1>8, ConcatFacts
    <3> QED
      BY <1>4, <2>1, <3>1 DEF Held, Coming
  <2>2. CASE x # c
    BY <1>4, <1>8, <2>2 DEF Held, Coming
  <2> QED
    BY <2>1, <2>2
<1> QED
  BY <1>9, <1>10, <1>12, <1>13, <1>14 DEF Owners

-----------------------------------------------------------------------------
(* What the clients do about them.                                         *)

\* Clients that send messages about contexts of theirs, and at most one
\* request each, on which they block.
LEMMA AskingOwners ==
  ASSUME Inv, Owners, Counted', UNCHANGED <<serverVars, toClient>>,
         \A x \in Clients :
           /\ mine'[x] \subseteq mine[x]
           /\ \E t \in Seq(ToServerMessages) :
                /\ toServer'[x] = toServer[x] \o t
                /\ Subjects(t) \subseteq mine[x]
                /\ \A j \in DOMAIN t :
                     /\ t[j].type = "FORWARD_EVENT" => t[j].key.home = t[j].ic
                     /\ t[j].type = "DESTROY_IC" => t[j].ic \notin mine'[x]
                /\ \/ None(t, Asking) /\ state'[x] = state[x]
                   \/ None(t, Asking) /\ state[x] = "idle" /\ state'[x] # "blocked"
                   \/ One(t, Asking) /\ state[x] = "idle" /\ state'[x] = "blocked"
  PROVE  Owners'
<1>1. TypeOK /\ ServerTypeOK /\ ClientTypeOK
  BY DEF Inv, TypeOK
<1>2. toServer \in [Clients -> Seq(ToServerMessages)]
  BY <1>1 DEF TypeOK, ChannelsTypeOK
<1>3. lastId' = lastId /\ pending' = pending /\ toClient' = toClient
  BY DEF serverVars
<1>4. ASSUME NEW x \in Clients
      PROVE  /\ OneRequest(x)' /\ Ids(x)' \subseteq Ids(x) /\ Held(x)' \subseteq Held(x)
             /\ \A j \in DOMAIN toServer'[x] :
                  /\ toServer'[x][j].type = "FORWARD_EVENT"
                       => toServer'[x][j].key.home = toServer'[x][j].ic
                  /\ toServer'[x][j].type = "DESTROY_IC"
                       => toServer'[x][j].ic \notin Held(x)'
  <2>1. PICK t \in Seq(ToServerMessages) :
          /\ toServer'[x] = toServer[x] \o t
          /\ Subjects(t) \subseteq mine[x]
          /\ \A j \in DOMAIN t :
               /\ t[j].type = "FORWARD_EVENT" => t[j].key.home = t[j].ic
               /\ t[j].type = "DESTROY_IC" => t[j].ic \notin mine'[x]
          /\ \/ None(t, Asking) /\ state'[x] = state[x]
             \/ None(t, Asking) /\ state[x] = "idle" /\ state'[x] # "blocked"
             \/ One(t, Asking) /\ state[x] = "idle" /\ state'[x] = "blocked"
    OBVIOUS
  <2>2. OneRequest(x)
    BY DEF Owners
  <2>3. OneRequest(x)'
    <3>1. CASE None(t, Asking)
      <4>1. /\ None(toServer[x], Asking) => None(toServer'[x], Asking)
            /\ One(toServer[x], Asking) => One(toServer'[x], Asking)
        BY <1>2, <2>1, <3>1, NoneConcat
      <4>2. CASE state'[x] = state[x]
        BY <1>3, <2>2, <4>1, <4>2 DEF OneRequest
      <4>3. CASE state[x] = "idle" /\ state'[x] # "blocked"
        BY <1>3, <2>2, <4>1, <4>3 DEF OneRequest
      <4>4. CASE One(t, Asking)
        BY <3>1, <4>4 DEF None, One
      <4> QED
        BY <2>1, <4>2, <4>3, <4>4
    <3>2. CASE One(t, Asking) /\ state[x] = "idle" /\ state'[x] = "blocked"
      <4>1. None(toServer[x], Asking) /\ None(toClient[x], Answering)
        BY <2>2, <3>2 DEF OneRequest
      <4>2. One(toServer'[x], Asking)
        BY <1>2, <2>1, <3>2, <4>1, OneSent
      <4> QED
        BY <1>3, <3>2, <4>1, <4>2 DEF OneRequest
    <3> QED
      BY <2>1, <3>1, <3>2
  <2>4. Ids(x)' \subseteq Ids(x)
    <3>1. Subjects(toServer'[x]) = Subjects(toServer[x]) \cup Subjects(t)
      BY <1>2, <2>1, SubjectsConcat
    <3> QED
      BY <1>3, <2>1, <3>1 DEF Ids
  <2>5. Held(x)' \subseteq Held(x)
    BY <1>3 DEF Held, Coming
  <2>6. ASSUME NEW j \in DOMAIN toServer'[x]
        PROVE  /\ toServer'[x][j].type = "FORWARD_EVENT"
                    => toServer'[x][j].key.home = toServer'[x][j].ic
               /\ toServer'[x][j].type = "DESTROY_IC"
                    => toServer'[x][j].ic \notin Held(x)'
    <3>1. CASE j \in DOMAIN toServer[x] /\ toServer'[x][j] = toServer[x][j]
      BY <2>5, <3>1 DEF Owners, AtHome, GivenUp
    <3>2. CASE \E p \in DOMAIN t : toServer'[x][j] = t[p]
      <4>1. PICK p \in DOMAIN t : toServer'[x][j] = t[p]
        BY <3>2
      <4>2. t[p].type = "DESTROY_IC" => Coming(x)' = {}
        <5>1. ASSUME t[p].type = "DESTROY_IC" PROVE state[x] = "idle"
          <6>1. ~None(t, Asking)
            BY <5>1 DEF None, Asking, Requests
          <6> QED
            BY <2>1, <6>1
        <5>2. state[x] = "idle" => None(toClient[x], Answering)
          BY <2>2 DEF OneRequest
        <5> QED
          BY <1>3, <5>1, <5>2 DEF Coming, None, Answering
      <4> QED
        BY <2>1, <4>1, <4>2 DEF Held
    <3>3. \/ j \in DOMAIN toServer[x] /\ toServer'[x][j] = toServer[x][j]
          \/ \E p \in DOMAIN t : toServer'[x][j] = t[p]
      <4>1. j \in DOMAIN (toServer[x] \o t) /\ toServer[x] \in Seq(ToServerMessages)
        BY <1>2, <2>1
      <4>2. \/ j \in DOMAIN toServer[x] /\ (toServer[x] \o t)[j] = toServer[x][j]
            \/ \E p \in DOMAIN t : j = Len(toServer[x]) + p /\ (toServer[x] \o t)[j] = t[p]
        BY <4>1, ConcatElement
      <4> QED
        BY <2>1, <4>2
    <3> QED
      BY <3>1, <3>2, <3>3
  <2> QED
    BY <2>3, <2>4, <2>5, <2>6
<1>5. Owned'
  BY <1>3, <1>4 DEF Owners, Owned
<1>6. AtHome'
  BY <1>3, <1>4 DEF Owners, AtHome
<1>7. GivenUp'
  BY <1>4 DEF GivenUp
<1> QED
  BY <1>4, <1>5, <1>6, <1>7 DEF Owners

\* One client sends one message.
LEMMA OneAskOwners ==
  ASSUME Inv, Owners, Counted', UNCHANGED <<serverVars, toClient>>,
         NEW c \in Clients, NEW m \in ToServerMessages,
         toServer' = Send(toServer, c, <<m>>), state[c] = "idle",
         \A x \in Clients \ {c} : mine'[x] = mine[x] /\ state'[x] = state[x],
         mine'[c] \subseteq mine[c],
         m.type \notin {"CREATE_IC", "DISCONNECT"} => m.ic \in mine[c],
         m.type = "FORWARD_EVENT" => m.key.home = m.ic,
         m.type = "DESTROY_IC" => m.ic \notin mine'[c],
         IF m.type \in Asking THEN state'[c] = "blocked" ELSE state'[c] # "blocked"
  PROVE  Owners'
<1>1. toServer \in [Clients -> Seq(ToServerMessages)]
  BY DEF Inv, TypeOK, ChannelsTypeOK
<1> DEFINE t == <<m>>
<1>2. /\ t \in Seq(ToServerMessages) /\ \A j \in DOMAIN t : t[j] = m
      /\ m.type \notin Asking => None(t, Asking)
      /\ m.type \in Asking => One(t, Asking)
      /\ Subjects(t) \subseteq mine[c]
  <2>1. Subjects(t) \subseteq {m.ic}
       /\ (m.type \in {"CREATE_IC", "DISCONNECT"} => Subjects(t) = {})
    BY OneMessage
  <2> QED
    BY <2>1, OneMessage
<1>3. toServer'[c] = toServer[c] \o t /\ \A x \in Clients \ {c} : toServer'[x] = toServer[x]
  BY <1>1 DEF Send
<1> HIDE DEF t
<1>4. ASSUME NEW x \in Clients
      PROVE  /\ mine'[x] \subseteq mine[x]
             /\ \E u \in Seq(ToServerMessages) :
                /\ toServer'[x] = toServer[x] \o u
                /\ Subjects(u) \subseteq mine[x]
                /\ \A j \in DOMAIN u :
                     /\ u[j].type = "FORWARD_EVENT" => u[j].key.home = u[j].ic
                     /\ u[j].type = "DESTROY_IC" => u[j].ic \notin mine'[x]
                /\ \/ None(u, Asking) /\ state'[x] = state[x]
                   \/ None(u, Asking) /\ state[x] = "idle" /\ state'[x] # "blocked"
                   \/ One(u, Asking) /\ state[x] = "idle" /\ state'[x] = "blocked"
  <2>1. CASE x = c
    BY <1>2, <1>3, <2>1
  <2>2. CASE x # c
    <3>1. PICK u \in Seq(ToServerMessages) : u = <<>>
      BY EmptySeq
    <3>2. /\ toServer[x] \o u = toServer[x] /\ \A j \in DOMAIN u : FALSE
          /\ Subjects(u) = {} /\ None(u, Asking)
      BY <1>1, <3>1, ConcatEmptySeq DEF Subjects, None
    <3>3. toServer'[x] = toServer[x] \o u /\ mine'[x] = mine[x] /\ state'[x] = state[x]
      BY <1>3, <2>2, <3>2
    <3> QED
      BY <3>2, <3>3
  <2> QED
    BY <2>1, <2>2
<1> QED
  BY <1>4, AskingOwners

\* A message that is no CREATE_IC leaves the count as it is.
LEMMA CountedSend ==
  ASSUME TypeOK, Counted, NEW c \in Clients, NEW m \in ToServerMessages,
         m.type # "CREATE_IC", toServer' = Send(toServer, c, <<m>>),
         lastId' = lastId, opens' = opens
  PROVE  Counted'
<1>1. toServer \in [Clients -> Seq(ToServerMessages)]
  BY DEF TypeOK, ChannelsTypeOK
<1>2. toServer'[c] = toServer[c] \o <<m>> /\ \A x \in Clients \ {c} : toServer'[x] = toServer[x]
  BY <1>1 DEF Send
<1>3. Has(toServer'[c], "CREATE_IC") => Has(toServer[c], "CREATE_IC")
  <2>1. <<m>> \in Seq(ToServerMessages) /\ ~Has(<<m>>, "CREATE_IC")
    BY HasOne
  <2> QED
    BY <1>1, <1>2, <2>1, HasConcat
<1>4. Creating' \subseteq Creating
  BY <1>2, <1>3 DEF Creating
<1> QED
  BY <1>4, CountedKept, XimAssumption DEF TypeOK, ServerTypeOK, ClientTypeOK, ICID

\* A client asks for a context only when it waits for nothing.
LEMMA OpenICOwners ==
  ASSUME Inv, Owners, NEW c \in Clients, OpenIC(c) PROVE Owners'
<1> DEFINE m == Plain("CREATE_IC")
<1>1. TypeOK /\ ServerTypeOK /\ ClientTypeOK
  BY DEF Inv, TypeOK
<1>2. m \in ToServerMessages /\ m.type = "CREATE_IC" /\ "CREATE_IC" \in Asking
  BY DEF Plain, ToServerMessages, Asking
<1>3. /\ toServer' = Send(toServer, c, <<m>>) /\ state[c] = "idle"
      /\ UNCHANGED <<serverVars, toClient>> /\ mine' = mine
      /\ opens' = opens + 1 /\ lastId' = lastId
  BY DEF OpenIC, serverVars
<1>4. state'[c] = "blocked" /\ \A x \in Clients \ {c} : state'[x] = state[x]
  BY <1>1 DEF OpenIC, ClientTypeOK
<1> HIDE DEF m
<1>5. Counted'
  <2>1. toServer \in [Clients -> Seq(ToServerMessages)]
    BY <1>1 DEF TypeOK, ChannelsTypeOK
  <2>2. \A x \in Clients \ {c} : toServer'[x] = toServer[x]
    BY <1>3, <2>1 DEF Send
  <2>3. Creating' \subseteq Creating \cup {c}
    BY <2>2 DEF Creating
  <2>4. /\ IsFiniteSet(Creating) /\ IsFiniteSet(Creating \cup {c})
        /\ Cardinality(Creating \cup {c}) <= Cardinality(Creating) + 1
    <3>1. IsFiniteSet(Creating)
      BY DEF Owners, Counted
    <3>2. Cardinality(Creating) \in Nat
      BY <3>1, FS_CardinalityType
    <3> QED
      BY <3>1, <3>2, FS_AddElement
  <2>5. /\ IsFiniteSet(Creating')
        /\ Cardinality(Creating') <= Cardinality(Creating \cup {c})
    BY <2>3, <2>4, FS_Subset
  <2>6. /\ Cardinality(Creating) \in Nat /\ Cardinality(Creating') \in Nat
        /\ Cardinality(Creating \cup {c}) \in Nat
    BY <2>4, <2>5, FS_CardinalityType
  <2>7. lastId \in Nat /\ opens \in Nat /\ lastId + Cardinality(Creating) <= opens
    BY <1>1, XimAssumption DEF ServerTypeOK, ClientTypeOK, ICID, Owners, Counted
  <2>8. lastId' + Cardinality(Creating') <= opens'
    BY <1>3, <2>4, <2>5, <2>6, <2>7
  <2> QED
    BY <2>5, <2>8 DEF Counted
<1> QED
  BY <1>2, <1>3, <1>4, <1>5, OneAskOwners

\* It destroys only a context it has,
LEMMA CloseICOwners ==
  ASSUME Inv, Owners, NEW c \in Clients, NEW i \in ICID, CloseIC(c, i) PROVE Owners'
<1> DEFINE m == About("DESTROY_IC", i)
<1>1. TypeOK /\ ClientTypeOK
  BY DEF Inv, TypeOK
<1>2. m \in ToServerMessages /\ m.type = "DESTROY_IC" /\ m.ic = i /\ "DESTROY_IC" \in Asking
  BY DEF About, ToServerMessages, Asking, Requests
<1>3. /\ toServer' = Send(toServer, c, <<m>>) /\ state[c] = "idle"
      /\ UNCHANGED <<serverVars, toClient>> /\ i \in mine[c]
      /\ opens' = opens /\ lastId' = lastId
  BY DEF CloseIC, serverVars
<1>4. /\ state'[c] = "blocked" /\ mine'[c] = mine[c] \ {i}
      /\ \A x \in Clients \ {c} : mine'[x] = mine[x] /\ state'[x] = state[x]
  BY <1>1 DEF CloseIC, ClientTypeOK
<1> HIDE DEF m
<1>5. Counted'
  BY <1>1, <1>2, <1>3, CountedSend DEF Owners
<1> QED
  BY <1>2, <1>3, <1>4, <1>5, OneAskOwners

\* and resets only one it has.
LEMMA UserResetICOwners ==
  ASSUME Inv, Owners, NEW c \in Clients, NEW i \in ICID, ResetIC(c, i) PROVE Owners'
<1> DEFINE m == About("RESET_IC", i)
<1>1. TypeOK /\ ClientTypeOK
  BY DEF Inv, TypeOK
<1>2. m \in ToServerMessages /\ m.type = "RESET_IC" /\ m.ic = i /\ "RESET_IC" \in Asking
  BY DEF About, ToServerMessages, Asking, Requests
<1>3. /\ toServer' = Send(toServer, c, <<m>>) /\ state[c] = "idle"
      /\ UNCHANGED <<serverVars, toClient>> /\ i \in mine[c] /\ mine' = mine
      /\ opens' = opens /\ lastId' = lastId
  BY DEF ResetIC, serverVars
<1>4. state'[c] = "blocked" /\ \A x \in Clients \ {c} : state'[x] = state[x]
  BY <1>1 DEF ResetIC, ClientTypeOK
<1> HIDE DEF m
<1>5. Counted'
  BY <1>1, <1>2, <1>3, CountedSend DEF Owners
<1> QED
  BY <1>2, <1>3, <1>4, <1>5, OneAskOwners

\* A client that leaves has given up its contexts.
LEMMA LeaveOwners ==
  ASSUME Inv, Owners, NEW c \in Clients, Leave(c) PROVE Owners'
<1> DEFINE m == Plain("DISCONNECT")
<1>1. TypeOK /\ ClientTypeOK
  BY DEF Inv, TypeOK
<1>2. m \in ToServerMessages /\ m.type = "DISCONNECT" /\ "DISCONNECT" \notin Asking
  BY DEF Plain, ToServerMessages, Asking, Requests
<1>3. /\ toServer' = Send(toServer, c, <<m>>) /\ state[c] = "idle"
      /\ UNCHANGED <<serverVars, toClient>>
      /\ opens' = opens /\ lastId' = lastId
  BY DEF Leave, serverVars
<1>4. /\ state'[c] = "leaving" /\ mine'[c] = {}
      /\ \A x \in Clients \ {c} : mine'[x] = mine[x] /\ state'[x] = state[x]
  BY <1>1 DEF Leave, ClientTypeOK
<1> HIDE DEF m
<1>5. Counted'
  BY <1>1, <1>2, <1>3, CountedSend DEF Owners
<1> QED
  BY <1>2, <1>3, <1>4, <1>5, OneAskOwners

\* A key is typed in the context it is sent for.
LEMMA TypeKeyOwners ==
  ASSUME Inv, Owners, NEW c \in Clients, NEW ev \in Keyboard, TypeKey(c, ev) PROVE Owners'
<1> DEFINE k == [n |-> pressed + 1, ev |-> ev, home |-> focus]
           m == Forward(focus, k)
<1>1. TypeOK /\ ClientTypeOK
  BY DEF Inv, TypeOK
<1>2. focus \in ICID /\ pressed + 1 \in 1..MaxKeys
  BY <1>1, XimAssumption DEF ClientTypeOK, TypeKey
<1>3. k \in Keys /\ k.home = focus
  BY <1>2 DEF Keys
<1> HIDE DEF k
<1>4. m \in ToServerMessages /\ m.type = "FORWARD_EVENT" /\ m.ic = focus /\ m.key = k
  BY <1>2, <1>3 DEF Forward, ToServerMessages
<1>5. "FORWARD_EVENT" \notin Asking
  BY DEF Asking, Requests
<1>6. /\ toServer' = Send(toServer, c, <<m>>) /\ state[c] = "idle"
      /\ UNCHANGED <<serverVars, toClient>> /\ focus \in mine[c] /\ mine' = mine
      /\ opens' = opens /\ lastId' = lastId /\ state' = state
  BY DEF TypeKey, serverVars, k
<1> HIDE DEF m
<1>7. Counted'
  BY <1>1, <1>4, <1>6, CountedSend DEF Owners
<1> QED
  BY <1>3, <1>4, <1>5, <1>6, <1>7, OneAskOwners

\* When the focus moves each client tells of contexts it has, and asks nothing.
LEMMA MoveFocusTells ==
  ASSUME TypeOK, NEW i \in ICID \cup {NoIC}, MoveFocus(i), NEW x \in Clients
  PROVE  \E t \in Seq(ToServerMessages) :
           /\ toServer'[x] = toServer[x] \o t
           /\ Subjects(t) \subseteq mine[x]
           /\ \A j \in DOMAIN t : t[j].type \in {"SET_IC_FOCUS", "UNSET_IC_FOCUS"}
<1>0. toServer[x] \in Seq(ToServerMessages)
  BY DEF TypeOK, ChannelsTypeOK
<1> DEFINE u == IF x \in Clientele(focus)
                THEN <<About("UNSET_IC_FOCUS", focus)>> ELSE <<>>
           v == IF x \in Clientele(i) THEN <<About("SET_IC_FOCUS", i)>> ELSE <<>>
<1>1. toServer'[x] = (toServer[x] \o u) \o v
  BY DEF MoveFocus
<1>2. \A j : x \in Clientele(j) => j \in mine[x] /\ j \in ICID
  BY DEF TypeOK, ClientTypeOK, Clientele
<1>3. /\ u \in Seq(ToServerMessages) /\ Subjects(u) \subseteq mine[x]
      /\ \A j \in DOMAIN u : u[j].type \in {"SET_IC_FOCUS", "UNSET_IC_FOCUS"}
  <2>1. CASE x \in Clientele(focus)
    <3> DEFINE m == About("UNSET_IC_FOCUS", focus)
    <3>1. /\ m \in ToServerMessages /\ m.ic \in mine[x]
          /\ m.type = "UNSET_IC_FOCUS"
      BY <1>2, <2>1 DEF About, ToServerMessages
    <3> HIDE DEF m
    <3>2. Subjects(<<m>>) \subseteq {m.ic}
      BY OneMessage
    <3> QED
      BY <2>1, <3>1, <3>2 DEF m
  <2>2. CASE x \notin Clientele(focus)
    BY <2>2, EmptySeq DEF Subjects
  <2> QED
    BY <2>1, <2>2
<1>4. /\ v \in Seq(ToServerMessages) /\ Subjects(v) \subseteq mine[x]
      /\ \A j \in DOMAIN v : v[j].type \in {"SET_IC_FOCUS", "UNSET_IC_FOCUS"}
  <2>1. CASE x \in Clientele(i)
    <3> DEFINE m == About("SET_IC_FOCUS", i)
    <3>1. /\ m \in ToServerMessages /\ m.ic \in mine[x]
          /\ m.type = "SET_IC_FOCUS"
      BY <1>2, <2>1 DEF About, ToServerMessages
    <3> HIDE DEF m
    <3>2. Subjects(<<m>>) \subseteq {m.ic}
      BY OneMessage
    <3> QED
      BY <2>1, <3>1, <3>2 DEF m
  <2>2. CASE x \notin Clientele(i)
    BY <2>2, EmptySeq DEF Subjects
  <2> QED
    BY <2>1, <2>2
<1> HIDE DEF u, v
<1>5. u \o v \in Seq(ToServerMessages) /\ toServer'[x] = toServer[x] \o (u \o v)
  <2>1. u \o v \in Seq(ToServerMessages)
    BY <1>3, <1>4, ConcatProperties
  <2>2. (toServer[x] \o u) \o v = toServer[x] \o (u \o v)
    <3>1. PICK w \in Seq(ToServerMessages) : w = toServer[x]
      BY <1>0
    <3>2. (w \o u) \o v = w \o (u \o v)
      BY <1>3, <1>4, ConcatAssociative
    <3> QED
      BY <3>1, <3>2
  <2> QED
    BY <1>1, <2>1, <2>2
<1>6. Subjects(u \o v) \subseteq mine[x]
  BY <1>3, <1>4, SubjectsConcat
<1>7. \A j \in DOMAIN (u \o v) : (u \o v)[j].type \in {"SET_IC_FOCUS", "UNSET_IC_FOCUS"}
  BY <1>3, <1>4, ConcatElement
<1> QED
  BY <1>5, <1>6, <1>7

\* A client is told of the focus only in contexts it has.
LEMMA MoveFocusOwners ==
  ASSUME Inv, Owners, NEW i \in ICID \cup {NoIC}, MoveFocus(i) PROVE Owners'
<1>1. TypeOK /\ ServerTypeOK /\ ClientTypeOK
  BY DEF Inv, TypeOK
<1>2. toServer \in [Clients -> Seq(ToServerMessages)]
  BY <1>1 DEF TypeOK, ChannelsTypeOK
<1>3. /\ UNCHANGED <<serverVars, toClient>> /\ state' = state /\ mine' = mine
      /\ opens' = opens /\ lastId' = lastId
  BY DEF MoveFocus, serverVars
<1>4. \A x \in Clients :
        \E t \in Seq(ToServerMessages) :
           /\ toServer'[x] = toServer[x] \o t
           /\ Subjects(t) \subseteq mine[x]
           /\ \A j \in DOMAIN t : t[j].type \in {"SET_IC_FOCUS", "UNSET_IC_FOCUS"}
  BY <1>1, MoveFocusTells
<1>5. Counted'
  <2>1. ASSUME NEW x \in Clients, Has(toServer'[x], "CREATE_IC")
        PROVE  Has(toServer[x], "CREATE_IC")
    <3>1. PICK t \in Seq(ToServerMessages) :
                /\ toServer'[x] = toServer[x] \o t
                /\ \A j \in DOMAIN t : t[j].type \in {"SET_IC_FOCUS", "UNSET_IC_FOCUS"}
      BY <1>4
    <3>2. ~Has(t, "CREATE_IC")
      BY <3>1 DEF Has
    <3> QED
      BY <1>2, <2>1, <3>1, <3>2, HasConcat
  <2>2. Creating' \subseteq Creating
    BY <2>1 DEF Creating
  <2> QED
    BY <1>1, <1>3, <2>2, CountedKept, XimAssumption
       DEF Owners, ServerTypeOK, ClientTypeOK, ICID
<1>6. ASSUME NEW x \in Clients
      PROVE  /\ mine'[x] \subseteq mine[x]
             /\ \E u \in Seq(ToServerMessages) :
                /\ toServer'[x] = toServer[x] \o u
                /\ Subjects(u) \subseteq mine[x]
                /\ \A j \in DOMAIN u :
                     /\ u[j].type = "FORWARD_EVENT" => u[j].key.home = u[j].ic
                     /\ u[j].type = "DESTROY_IC" => u[j].ic \notin mine'[x]
                /\ \/ None(u, Asking) /\ state'[x] = state[x]
                   \/ None(u, Asking) /\ state[x] = "idle" /\ state'[x] # "blocked"
                   \/ One(u, Asking) /\ state[x] = "idle" /\ state'[x] = "blocked"
  <2>1. PICK t \in Seq(ToServerMessages) :
                /\ toServer'[x] = toServer[x] \o t
                /\ Subjects(t) \subseteq mine[x]
                /\ \A j \in DOMAIN t : t[j].type \in {"SET_IC_FOCUS", "UNSET_IC_FOCUS"}
    BY <1>4
  <2>2. None(t, Asking)
    BY <2>1 DEF None, Asking, Requests
  <2> QED
    BY <1>3, <2>1, <2>2
<1> QED
  BY <1>3, <1>5, <1>6, AskingOwners

\* The message a client takes, and what it answers.
LEMMA Received ==
  ASSUME Inv, NEW c \in Clients, Receive(c)
  PROVE  LET m == Head(toClient[c])
         IN  /\ toClient[c] \in Seq(ToClientMessages) /\ toClient[c] # <<>>
             /\ toServer[c] \in Seq(ToServerMessages)
             /\ m \in ToClientMessages /\ m.ic \in ICID /\ m.type # "DISCONNECT_REPLY"
             /\ Replies(m) \in Seq(ToServerMessages)
             /\ toServer'[c] = toServer[c] \o Replies(m)
             /\ \A x \in Clients \ {c} : toServer'[x] = toServer[x]
             /\ toClient'[c] = Tail(toClient[c])
             /\ \A x \in Clients \ {c} : toClient'[x] = toClient[x]
             /\ mine'[c] = IF m.type = "CREATE_IC_REPLY" THEN mine[c] \cup {m.ic} ELSE mine[c]
             /\ state'[c] = IF m.type \in Answering THEN "idle" ELSE state[c]
             /\ \A x \in Clients \ {c} : mine'[x] = mine[x] /\ state'[x] = state[x]
             /\ UNCHANGED <<serverVars, opens, pressed>> /\ state[c] # "leaving" /\ Apply(m)
<1> DEFINE m == Head(toClient[c])
<1>1. TypeOK /\ ClientTypeOK
  BY DEF Inv, TypeOK
<1>2. /\ toClient \in [Clients -> Seq(ToClientMessages)]
      /\ toServer \in [Clients -> Seq(ToServerMessages)]
      /\ toClient[c] # <<>> /\ state[c] # "leaving"
  BY <1>1 DEF TypeOK, ChannelsTypeOK, Receive
<1>3. m \in ToClientMessages /\ m = toClient[c][1] /\ 1 \in DOMAIN toClient[c]
  BY <1>2, TailFacts
<1>4. m.type # "DISCONNECT_REPLY"
  <2>1. ~Has(toClient[c], "DISCONNECT_REPLY")
    BY <1>2 DEF Inv, PartingOK, PartingOf
  <2> QED
    BY <1>3, <2>1 DEF Has
<1>5. m.ic \in ICID
  BY <1>3, <1>4, ToClientTypes
<1>6. Replies(m) \in Seq(ToServerMessages)
  <2>1. About("SYNC_REPLY", m.ic) \in ToServerMessages
    BY <1>5 DEF About, ToServerMessages
  <2> QED
    BY <2>1, EmptySeq DEF Replies
<1>7. /\ Apply(m) /\ toServer' = Send(toServer, c, Replies(m))
      /\ mine' = IF m.type = "CREATE_IC_REPLY"
                 THEN [mine EXCEPT ![c] = @ \cup {m.ic}] ELSE mine
      /\ state' = IF m.type \in {"CREATE_IC_REPLY", "REQUEST_REPLY"}
                  THEN [state EXCEPT ![c] = "idle"] ELSE state
      /\ toClient' = [toClient EXCEPT ![c] = Tail(@)]
      /\ UNCHANGED <<serverVars, focus, pressed, moves, requests, opens>>
  BY DEF Receive
<1> HIDE DEF m
<1>8. /\ toServer'[c] = toServer[c] \o Replies(m)
      /\ \A x \in Clients \ {c} : toServer'[x] = toServer[x]
  BY <1>2, <1>7 DEF Send
<1>9. /\ toClient'[c] = Tail(toClient[c])
      /\ \A x \in Clients \ {c} : toClient'[x] = toClient[x]
  BY <1>2, <1>7
<1>10. /\ mine'[c] = IF m.type = "CREATE_IC_REPLY" THEN mine[c] \cup {m.ic} ELSE mine[c]
       /\ state'[c] = IF m.type \in Answering THEN "idle" ELSE state[c]
       /\ \A x \in Clients \ {c} : mine'[x] = mine[x] /\ state'[x] = state[x]
  BY <1>1, <1>7 DEF ClientTypeOK, Answering
<1> QED
  BY <1>2, <1>3, <1>4, <1>5, <1>6, <1>7, <1>8, <1>9, <1>10 DEF m

\* What a client answers is no request, and is about the context of the message.
LEMMA RepliesFacts ==
  ASSUME NEW m
  PROVE  /\ None(Replies(m), Asking) /\ Subjects(Replies(m)) \subseteq {m.ic}
         /\ \A j \in DOMAIN Replies(m) : Replies(m)[j].type = "SYNC_REPLY"
<1> DEFINE a == About("SYNC_REPLY", m.ic)
<1>1. a.type = "SYNC_REPLY" /\ a.ic = m.ic
  BY DEF About
<1>2. "SYNC_REPLY" \notin Asking
  BY DEF Asking, Requests
<1>3. Replies(m) = <<a>> \/ Replies(m) = <<>>
  BY DEF Replies
<1> HIDE DEF a
<1>4. CASE Replies(m) = <<a>>
  BY <1>1, <1>2, <1>4, OneMessage
<1>5. CASE Replies(m) = <<>>
  BY <1>5 DEF None, Subjects
<1> QED
  BY <1>3, <1>4, <1>5

\* A reply unblocks the client, and brings the context it asked for.
LEMMA ReceiveOwners ==
  ASSUME Inv, Owners, NEW c \in Clients, Receive(c) PROVE Owners'
<1>1. PICK m : m = Head(toClient[c])
  OBVIOUS
<1>2. PICK t : t = Replies(m)
  OBVIOUS
<1>3. /\ toClient[c] \in Seq(ToClientMessages) /\ toClient[c] # <<>>
      /\ toServer[c] \in Seq(ToServerMessages)
      /\ m \in ToClientMessages /\ m.type # "DISCONNECT_REPLY"
      /\ t \in Seq(ToServerMessages)
      /\ toServer'[c] = toServer[c] \o t
      /\ \A x \in Clients \ {c} : toServer'[x] = toServer[x]
      /\ toClient'[c] = Tail(toClient[c])
      /\ \A x \in Clients \ {c} : toClient'[x] = toClient[x]
      /\ mine'[c] = IF m.type = "CREATE_IC_REPLY" THEN mine[c] \cup {m.ic} ELSE mine[c]
      /\ state'[c] = IF m.type \in Answering THEN "idle" ELSE state[c]
      /\ \A x \in Clients \ {c} : mine'[x] = mine[x] /\ state'[x] = state[x]
  BY <1>1, <1>2, Received
<1>4. lastId' = lastId /\ pending' = pending /\ opens' = opens
  BY Received DEF serverVars
<1>5. /\ None(t, Asking) /\ Subjects(t) \subseteq {m.ic}
      /\ \A j \in DOMAIN t : t[j].type = "SYNC_REPLY"
  BY <1>2, RepliesFacts
<1>6. m.ic \in Subjects(toClient[c])
  <2>1. m.type \notin {"CREATE_IC", "DISCONNECT", "DISCONNECT_REPLY"}
    BY <1>3 DEF ToClientMessages
  <2> QED
    BY <1>1, <1>3, <2>1, SubjectsTail
<1>7. ASSUME NEW x \in Clients PROVE OneRequest(x)'
  <2>1. CASE x = c
    <3>1. /\ None(toClient[c], Answering) => m.type \notin Answering /\ None(toClient'[c], Answering)
          /\ One(toClient[c], Answering) => IF m.type \in Answering
                                            THEN None(toClient'[c], Answering)
                                            ELSE One(toClient'[c], Answering)
      BY <1>1, <1>3, NoneTail
    <3>2. /\ None(toServer[c], Asking) => None(toServer'[c], Asking)
          /\ One(toServer[c], Asking) => One(toServer'[c], Asking)
      BY <1>3, <1>5, NoneConcat
    <3>3. OneRequest(c)
      BY DEF Owners
    <3>4. CASE m.type \in Answering
      BY <1>3, <2>1, <3>1, <3>2, <3>3, <3>4 DEF OneRequest
    <3>5. CASE m.type \notin Answering
      BY <1>3, <2>1, <3>1, <3>2, <3>3, <3>5 DEF OneRequest
    <3> QED
      BY <3>4, <3>5
  <2>2. CASE x # c
    BY <1>3, <2>2 DEF Owners, OneRequest
  <2> QED
    BY <2>1, <2>2
<1>8. Counted'
  <2>1. ~Has(t, "CREATE_IC")
    BY <1>5 DEF Has
  <2>2. Has(toServer'[c], "CREATE_IC") => Has(toServer[c], "CREATE_IC")
    BY <1>3, <2>1, HasConcat
  <2>3. Creating' \subseteq Creating
    BY <1>3, <2>2 DEF Creating
  <2> QED
    BY <1>4, <2>3, CountedKept, XimAssumption
       DEF Inv, TypeOK, Owners, ServerTypeOK, ClientTypeOK, ICID
<1>9. ASSUME NEW x \in Clients PROVE Ids(x)' \subseteq Ids(x)
  <2>1. CASE x = c
    <3>1. Subjects(toClient'[c]) \subseteq Subjects(toClient[c])
      BY <1>3, SubjectsTail
    <3>2. Subjects(toServer'[c]) \subseteq Subjects(toServer[c]) \cup {m.ic}
      <4>1. Subjects(toServer[c] \o t) = Subjects(toServer[c]) \cup Subjects(t)
        BY <1>3, SubjectsConcat
      <4> QED
        BY <1>3, <1>5, <4>1
    <3>3. mine'[c] \subseteq mine[c] \cup {m.ic}
      BY <1>3
    <3>4. Ids(c)' = mine'[c] \cup Subjects(toServer'[c]) \cup Subjects(pending'[c])
                            \cup Subjects(toClient'[c])
      BY DEF Ids
    <3>5. Ids(c)' \subseteq Ids(c)
      BY <1>4, <1>6, <3>1, <3>2, <3>3, <3>4 DEF Ids
    <3> QED
      BY <2>1, <3>5
  <2>2. CASE x # c
    BY <1>3, <1>4, <2>2 DEF Ids
  <2> QED
    BY <2>1, <2>2
<1>10. Owned'
  BY <1>4, <1>9 DEF Owners, Owned
<1>11. ASSUME NEW x \in Clients, NEW j \in DOMAIN toServer'[x],
              toServer'[x][j].type # "SYNC_REPLY"
       PROVE  j \in DOMAIN toServer[x] /\ toServer'[x][j] = toServer[x][j]
  <2>1. CASE x = c
    <3>1. j \in DOMAIN (toServer[c] \o t) /\ toServer'[x][j] = (toServer[c] \o t)[j]
      BY <1>3, <2>1
    <3>2. \/ j \in DOMAIN toServer[c] /\ (toServer[c] \o t)[j] = toServer[c][j]
          \/ \E p \in DOMAIN t : j = Len(toServer[c]) + p /\ (toServer[c] \o t)[j] = t[p]
      BY <1>3, <3>1, ConcatElement
    <3> QED
      BY <1>5, <1>11, <2>1, <3>1, <3>2
  <2>2. CASE x # c
    BY <1>3, <2>2
  <2> QED
    BY <2>1, <2>2
<1>12. AtHome'
  <2>1. \A x \in Clients : \A j \in DOMAIN toServer'[x] :
          toServer'[x][j].type = "FORWARD_EVENT"
                 => toServer'[x][j].key.home = toServer'[x][j].ic
    BY <1>11 DEF Owners, AtHome
  <2> QED
    BY <1>4, <2>1 DEF Owners, AtHome
<1>13. ASSUME NEW x \in Clients PROVE Held(x)' \subseteq Held(x)
  <2>1. CASE x = c
    <3>1. /\ m = toClient[c][1] /\ 1 \in DOMAIN toClient[c]
          /\ \A j \in DOMAIN toClient'[c] :
               j + 1 \in DOMAIN toClient[c] /\ toClient'[c][j] = toClient[c][j + 1]
      BY <1>1, <1>3, TailFacts
    <3>2. Coming(c)' \subseteq Coming(c)
      BY <3>1 DEF Coming
    <3>3. m.type = "CREATE_IC_REPLY" => m.ic \in Coming(c)
      BY <3>1 DEF Coming
    <3> QED
      BY <1>3, <2>1, <3>2, <3>3 DEF Held
  <2>2. CASE x # c
    BY <1>3, <2>2 DEF Held, Coming
  <2> QED
    BY <2>1, <2>2
<1>14. GivenUp'
  BY <1>11, <1>13 DEF Owners, GivenUp
<1> QED
  BY <1>7, <1>8, <1>10, <1>12, <1>14 DEF Owners

\* A client that leaves drops what it is sent.
LEMMA ReceiveLeavingOwners ==
  ASSUME Inv, Owners, NEW c \in Clients, ReceiveLeaving(c) PROVE Owners'
<1>1. TypeOK /\ ClientTypeOK
  BY DEF Inv, TypeOK
<1>2. /\ toClient \in [Clients -> Seq(ToClientMessages)]
      /\ toClient[c] # <<>> /\ state[c] = "leaving"
  BY <1>1 DEF TypeOK, ChannelsTypeOK, ReceiveLeaving
<1>3. /\ toClient'[c] = Tail(toClient[c])
      /\ \A x \in Clients \ {c} : toClient'[x] = toClient[x] /\ state'[x] = state[x]
      /\ state'[c] \in {"idle", "leaving"} /\ toServer' = toServer /\ mine' = mine
      /\ pending' = pending /\ lastId' = lastId /\ opens' = opens
  BY <1>1, <1>2 DEF ReceiveLeaving, serverVars, ClientTypeOK
<1>4. ASSUME NEW x \in Clients PROVE OneRequest(x)'
  <2>1. CASE x = c
    <3>1. None(toServer[c], Asking) /\ None(toClient[c], Answering)
      BY <1>2 DEF Owners, OneRequest
    <3>2. None(toClient'[c], Answering)
      BY <1>2, <1>3, <3>1, NoneTail
    <3> QED
      BY <1>3, <2>1, <3>1, <3>2 DEF OneRequest
  <2>2. CASE x # c
    BY <1>3, <2>2 DEF Owners, OneRequest
  <2> QED
    BY <2>1, <2>2
<1>5. Counted'
  BY <1>3 DEF Owners, Counted, Creating
<1>6. ASSUME NEW x \in Clients PROVE Ids(x)' \subseteq Ids(x) /\ Held(x)' \subseteq Held(x)
  <2>1. CASE x = c
    <3>1. Subjects(toClient'[c]) \subseteq Subjects(toClient[c])
      BY <1>2, <1>3, SubjectsTail
    <3>2. \A j \in DOMAIN toClient'[c] :
               j + 1 \in DOMAIN toClient[c] /\ toClient'[c][j] = toClient[c][j + 1]
      BY <1>2, <1>3, TailFacts
    <3>3. Ids(c)' \subseteq Ids(c)
      BY <1>3, <3>1 DEF Ids
    <3>4. Coming(c)' \subseteq Coming(c)
      BY <3>2 DEF Coming
    <3> QED
      BY <1>3, <2>1, <3>3, <3>4 DEF Held
  <2>2. CASE x # c
    BY <1>3, <2>2 DEF Ids, Held, Coming
  <2> QED
    BY <2>1, <2>2
<1>7. Owned' /\ AtHome' /\ GivenUp'
  BY <1>3, <1>6 DEF Owners, Owned, AtHome, GivenUp
<1> QED
  BY <1>4, <1>5, <1>7 DEF Owners

\* At first no client has a context.
LEMMA InitOwners == Init => Owners
<1> SUFFICES ASSUME Init PROVE Owners
  OBVIOUS
<1>1. /\ \A c \in Clients : /\ toServer[c] = <<>> /\ toClient[c] = <<>> /\ pending[c] = <<>>
                           /\ state[c] = "idle" /\ mine[c] = {}
      /\ lastId = 0 /\ opens = 0
  BY DEF Init
<1>2. \A T : None(<<>>, T)
  BY DEF None
<1>3. Creating = {} /\ Subjects(<<>>) = {}
  BY <1>1 DEF Creating, Has, Subjects
<1>4. Counted
  BY <1>1, <1>3, FS_EmptySet DEF Counted
<1>5. Owned
  BY <1>1, <1>3 DEF Owned, Ids
<1>6. AtHome /\ GivenUp
  BY <1>1 DEF AtHome, GivenUp
<1> QED
  BY <1>1, <1>2, <1>4, <1>5, <1>6 DEF Owners, OneRequest

\* Every step keeps contexts with their clients.
LEMMA NextOwners == Inv /\ Owners /\ [Next]_vars => Owners'
<1> SUFFICES ASSUME Inv, Owners, [Next]_vars PROVE Owners'
  OBVIOUS
<1>1. ASSUME NEW c \in Clients, Handle(c) PROVE Owners'
  BY <1>1, ForwardEventOwners, SyncReplyOwners, DrainPendingOwners, CreateICOwners,
     DestroyICOwners, SetFocusOwners, UnsetFocusOwners, ResetICOwners, DisconnectOwners
     DEF Handle
<1>2. ASSUME NEW c \in Clients, Receive(c) \/ ReceiveLeaving(c) PROVE Owners'
  BY <1>2, ReceiveOwners, ReceiveLeavingOwners
<1>3. ASSUME NEW c \in Clients, UserAct(c) PROVE Owners'
  BY <1>3, OpenICOwners, LeaveOwners, CloseICOwners, UserResetICOwners, TypeKeyOwners
     DEF UserAct
<1>4. ASSUME NEW i \in ICID \cup {NoIC}, MoveFocus(i) PROVE Owners'
  BY <1>4, MoveFocusOwners
<1>5. CASE UNCHANGED vars
  <2>1. UNCHANGED <<toServer, toClient, pending, mine, state, lastId, opens>>
    BY <1>5 DEF vars, serverVars, channels, clientVars
  <2>2. \A c \in Clients : OneRequest(c)' = OneRequest(c)
    BY <2>1 DEF OneRequest
  <2>3. Counted' = Counted
    BY <2>1 DEF Counted, Creating
  <2>4. Owned' = Owned
    BY <2>1 DEF Owned, Ids
  <2>5. AtHome' = AtHome
    BY <2>1 DEF AtHome
  <2>6. GivenUp' = GivenUp
    BY <2>1 DEF GivenUp, Held, Coming
  <2> QED
    BY <2>2, <2>3, <2>4, <2>5, <2>6 DEF Owners
<1> QED
  BY <1>1, <1>2, <1>3, <1>4, <1>5 DEF Next
-----------------------------------------------------------------------------
(* The last draw of a context on a channel.                                *)

\* A set of numbers that is not empty has a least one.
LEMMA LeastNumber ==
  ASSUME NEW T \in SUBSET Nat, T # {}
  PROVE  \E x \in T : \A y \in T : x <= y
<1> DEFINE R == StrictSubsetOrdering(Nat)
           F == {1..n : n \in T}
<1>1. IsWellFoundedOn(R, FiniteSubsetsOf(Nat))
  BY FS_StrictSubsetOrderingWellFounded
<1>2. F \subseteq FiniteSubsetsOf(Nat) /\ F # {}
  <2>1. \A n \in T : IsFiniteSet(1..n) /\ 1..n \subseteq Nat
    BY FS_Interval
  <2> QED
    BY <2>1 DEF FiniteSubsetsOf
<1>3. ASSUME NEW y \in T, NEW x \in T, y < x PROVE <<1..y, 1..x>> \in R
  <2>1. /\ 1..y \subseteq 1..x /\ x \in 1..x /\ x \notin 1..y
        /\ 1..y \in SUBSET Nat /\ 1..x \in SUBSET Nat
    BY <1>3
  <2> HIDE DEF F
  <2>2. 1..y # 1..x
    BY <2>1
  <2> QED
    BY <2>1, <2>2 DEF StrictSubsetOrdering
<1>4. PICK X \in F : \A Y \in F : ~ (<<Y, X>> \in R)
  <2> HIDE DEF F, R
  <2> QED
    BY <1>1, <1>2, WFMin
<1>5. PICK x \in T : X = 1..x
  OBVIOUS
<1>6. \A y \in T : ~ (y < x)
  <2> SUFFICES ASSUME NEW y \in T, y < x PROVE FALSE
    OBVIOUS
  <2>1. <<1..y, 1..x>> \in R
    BY <1>3
  <2>2. 1..y \in F
    OBVIOUS
  <2> HIDE DEF F, R
  <2> QED
    BY <1>4, <1>5, <2>1, <2>2
<1> QED
  BY <1>6

\* And a greatest one, when it is bounded.
LEMMA GreatestNumber ==
  ASSUME NEW n \in Nat, NEW D \in SUBSET (1..n), D # {}
  PROVE  \E p \in D : \A q \in D : q <= p
<1> DEFINE T == {n - p : p \in D}
<1>1. T \in SUBSET Nat /\ T # {}
  <2>1. \A p \in D : n - p \in Nat
    OBVIOUS
  <2> QED
    BY <2>1
<1> HIDE DEF T
<1>2. PICK x \in T : \A y \in T : x <= y
  BY <1>1, LeastNumber
<1>3. PICK p \in D : x = n - p
  BY DEF T
<1>4. \A q \in D : n - q \in T
  BY DEF T
<1> QED
  BY <1>2, <1>3, <1>4

\* What is displayed was displayed before, or is what the last draw says.
LEMMA AfterFacts ==
  ASSUME NEW s, NEW i, NEW x, NEW j \in Nat
  PROVE  \/ Draws(s, i, j) = {} /\ After(s, i, x, j) = x
         \/ \E p \in Draws(s, i, j) : /\ \A q \in Draws(s, i, j) : q <= p
                                      /\ After(s, i, x, j) = s[p].length
<1>1. CASE Draws(s, i, j) = {}
  BY <1>1 DEF After
<1>2. CASE Draws(s, i, j) # {}
  <2>1. Draws(s, i, j) \in SUBSET (1..j)
    BY DEF Draws
  <2>2. \E p \in Draws(s, i, j) : \A q \in Draws(s, i, j) : q <= p
    BY <1>2, <2>1, GreatestNumber
  <2> QED
    BY <1>2, <2>2 DEF After
<1> QED
  BY <1>1, <1>2

\* There is only one last draw.
LEMMA AfterLast ==
  ASSUME NEW s, NEW i, NEW x, NEW j \in Nat, NEW p \in Draws(s, i, j),
         \A q \in Draws(s, i, j) : q <= p
  PROVE  After(s, i, x, j) = s[p].length
<1>1. PICK r \in Draws(s, i, j) : /\ \A q \in Draws(s, i, j) : q <= r
                                  /\ After(s, i, x, j) = s[r].length
  BY AfterFacts
<1>2. p <= r /\ r <= p /\ p \in Nat /\ r \in Nat
  BY <1>1 DEF Draws
<1>3. p = r
  BY <1>2
<1> QED
  BY <1>1, <1>3

\* Before any message.
LEMMA AfterNone ==
  ASSUME NEW s, NEW i, NEW x PROVE After(s, i, x, 0) = x
BY DEF After, Draws

\* Messages that follow others start from what those left.
LEMMA AfterShift ==
  ASSUME NEW s, NEW t, NEW i, NEW x, NEW l \in Nat, NEW j \in Nat,
         \A p \in 1..j : s[l + p] = t[p]
  PROVE  After(s, i, x, l + j) = After(t, i, After(s, i, x, l), j)
<1>1. /\ \A p \in Draws(t, i, j) : l + p \in Draws(s, i, l + j)
      /\ \A p \in Draws(s, i, l + j) : \/ p \in Draws(s, i, l)
                                       \/ p - l \in Draws(t, i, j) /\ l + (p - l) = p
  <2>1. ASSUME NEW p \in Draws(t, i, j) PROVE l + p \in Draws(s, i, l + j)
    <3>1. p \in 1..j /\ l + p \in 1..(l + j)
      BY DEF Draws
    <3> QED
      BY <3>1 DEF Draws
  <2>2. ASSUME NEW p \in Draws(s, i, l + j), p \notin Draws(s, i, l)
        PROVE  p - l \in Draws(t, i, j) /\ l + (p - l) = p
    <3>1. p \in 1..(l + j) /\ p \notin 1..l
      BY <2>2 DEF Draws
    <3>2. p - l \in 1..j /\ l + (p - l) = p
      BY <3>1
    <3> QED
      BY <3>2 DEF Draws
  <2> QED
    BY <2>1, <2>2
<1>2. Draws(s, i, l) \subseteq Draws(s, i, l + j)
  BY DEF Draws
<1>3. l + j \in Nat
  OBVIOUS
<1>4. CASE Draws(t, i, j) = {}
  <2>1. Draws(s, i, l + j) = Draws(s, i, l)
    BY <1>1, <1>2, <1>4
  <2>2. After(s, i, x, l + j) = After(s, i, x, l)
    <3>1. CASE Draws(s, i, l) = {}
      BY <2>1, <3>1 DEF After
    <3>2. CASE Draws(s, i, l) # {}
      <4>1. PICK p \in Draws(s, i, l) : /\ \A q \in Draws(s, i, l) : q <= p
                                        /\ After(s, i, x, l) = s[p].length
        BY <3>2, AfterFacts
      <4>2. p \in Draws(s, i, l + j) /\ \A q \in Draws(s, i, l + j) : q <= p
        BY <2>1, <4>1
      <4>3. After(s, i, x, l + j) = s[p].length
        BY <1>3, <4>2, AfterLast
      <4> QED
        BY <4>1, <4>3
    <3> QED
      BY <3>1, <3>2
  <2> QED
    BY <1>4, <2>2 DEF After
<1>5. CASE Draws(t, i, j) # {}
  <2>1. PICK p \in Draws(t, i, j) :
          /\ \A q \in Draws(t, i, j) : q <= p
          /\ After(t, i, After(s, i, x, l), j) = t[p].length
    BY <1>5, AfterFacts
  <2>2. p \in 1..j /\ l + p \in Draws(s, i, l + j)
    BY <1>1 DEF Draws
  <2>3. ASSUME NEW q \in Draws(s, i, l + j) PROVE q <= l + p
    <3>1. q \in Draws(s, i, l) => q <= l
      BY DEF Draws
    <3>2. q - l \in Draws(t, i, j) => q - l <= p
      BY <2>1
    <3>3. q \in Int
      BY DEF Draws
    <3> QED
      BY <1>1, <2>2, <3>1, <3>2, <3>3
  <2>4. After(s, i, x, l + j) = s[l + p].length
    BY <1>3, <2>2, <2>3, AfterLast
  <2> QED
    BY <2>1, <2>2, <2>4
<1> QED
  BY <1>4, <1>5

\* Channels that begin alike display alike.
LEMMA AfterPrefix ==
  ASSUME NEW s, NEW t, NEW i, NEW x, NEW j \in Nat, \A p \in 1..j : s[p] = t[p]
  PROVE  After(s, i, x, j) = After(t, i, x, j)
<1>1. \A p \in 1..j : s[0 + p] = t[p]
  OBVIOUS
<1>2. After(s, i, x, 0 + j) = After(t, i, After(s, i, x, 0), j)
  BY <1>1, AfterShift
<1> QED
  BY <1>2, AfterNone

\* After one message.
LEMMA AfterOne ==
  ASSUME NEW s, NEW i, NEW x
  PROVE  After(s, i, x, 1) = IF s[1].type = "PREEDIT_DRAW" /\ s[1].ic = i
                             THEN s[1].length ELSE x
<1>1. CASE s[1].type = "PREEDIT_DRAW" /\ s[1].ic = i
  <2>1. 1 \in Draws(s, i, 1) /\ \A q \in Draws(s, i, 1) : q <= 1
    BY <1>1 DEF Draws
  <2> QED
    BY <1>1, <2>1, AfterLast
<1>2. CASE ~ (s[1].type = "PREEDIT_DRAW" /\ s[1].ic = i)
  <2>1. Draws(s, i, 1) = {}
    BY <1>2 DEF Draws
  <2> QED
    BY <1>2, <2>1 DEF After
<1> QED
  BY <1>1, <1>2
-----------------------------------------------------------------------------
(* Channels that keep a display.                                           *)

\* One message, after x characters.
FitsAt(m, i, x) == IsPreedit(m) /\ m.ic = i =>
                     IF m.type = "PREEDIT_DRAW" THEN m.chg_length = x ELSE x = 0

\* Messages about nothing displayed in a context.
LEMMA FitsSilent ==
  ASSUME NEW S, NEW s \in Seq(S), NEW i, NEW x,
         \A j \in DOMAIN s : ~ (IsPreedit(s[j]) /\ s[j].ic = i)
  PROVE  Fits(s, i, x, x)
<1>1. DOMAIN s = 1..Len(s) /\ Len(s) \in Nat
  BY LenProperties
<1>2. Draws(s, i, Len(s)) = {}
  BY <1>1 DEF Draws, IsPreedit
<1> QED
  BY <1>2 DEF Fits, After

\* One message fits by itself.
LEMMA FitsOne ==
  ASSUME NEW m, NEW i, NEW x, FitsAt(m, i, x)
  PROVE  Fits(<<m>>, i, x, IF m.type = "PREEDIT_DRAW" /\ m.ic = i THEN m.length ELSE x)
<1> DEFINE s == <<m>>
<1>1. DOMAIN s = {1} /\ s[1] = m /\ Len(s) = 1
  OBVIOUS
<1> HIDE DEF s
<1>2. After(s, i, x, 0) = x
  BY AfterNone
<1>3. After(s, i, x, 1) = IF m.type = "PREEDIT_DRAW" /\ m.ic = i THEN m.length ELSE x
  BY <1>1, AfterOne
<1>4. Fits(s, i, x, IF m.type = "PREEDIT_DRAW" /\ m.ic = i THEN m.length ELSE x)
  <2>1. ASSUME NEW j \in DOMAIN s, IsPreedit(s[j]), s[j].ic = i
        PROVE  IF s[j].type = "PREEDIT_DRAW" THEN s[j].chg_length = After(s, i, x, j - 1)
                                             ELSE After(s, i, x, j - 1) = 0
    <3>1. j = 1 /\ s[j] = m /\ j - 1 = 0
      BY <1>1
    <3> QED
      BY <1>2, <2>1, <3>1 DEF FitsAt
  <2> QED
    BY <1>1, <1>3, <2>1 DEF Fits
<1> QED
  BY <1>4 DEF s

\* What follows must start where the channel ends.
LEMMA FitsConcat ==
  ASSUME NEW S, NEW s \in Seq(S), NEW t \in Seq(S), NEW i, NEW x, NEW n, NEW y,
         Fits(s, i, x, n), Fits(t, i, n, y)
  PROVE  Fits(s \o t, i, x, y)
<1> DEFINE u == s \o t
<1>1. /\ Len(s) \in Nat /\ DOMAIN s = 1..Len(s)
      /\ Len(t) \in Nat /\ DOMAIN t = 1..Len(t)
      /\ Len(u) = Len(s) + Len(t)
      /\ \A j \in 1..Len(s) : u[j] = s[j]
      /\ \A j \in 1..Len(t) : u[Len(s) + j] = t[j]
  <2>1. /\ Len(u) = Len(s) + Len(t)
        /\ Len(s) \in Nat /\ DOMAIN s = 1..Len(s)
        /\ Len(t) \in Nat /\ DOMAIN t = 1..Len(t)
        /\ \A j \in DOMAIN s : j \in DOMAIN u /\ u[j] = s[j]
        /\ \A j \in DOMAIN t : Len(s) + j \in DOMAIN u /\ u[Len(s) + j] = t[j]
    BY ConcatFacts
  <2> QED
    BY <2>1
<1> HIDE DEF u
<1>2. ASSUME NEW j \in Nat, j <= Len(s) PROVE After(u, i, x, j) = After(s, i, x, j)
  <2>1. \A p \in 1..j : u[p] = s[p]
    BY <1>1, <1>2
  <2> QED
    BY <2>1, AfterPrefix
<1>3. n = After(s, i, x, Len(s)) /\ n = After(u, i, x, Len(s))
  BY <1>1, <1>2 DEF Fits
<1>4. ASSUME NEW j \in Nat, j <= Len(t)
      PROVE  After(u, i, x, Len(s) + j) = After(t, i, n, j)
  <2>1. \A p \in 1..j : u[Len(s) + p] = t[p]
    BY <1>1, <1>4
  <2> QED
    BY <1>1, <1>3, <2>1, AfterShift
<1>5. y = After(u, i, x, Len(u))
  BY <1>1, <1>4 DEF Fits
<1>6. ASSUME NEW j \in DOMAIN u, IsPreedit(u[j]), u[j].ic = i
      PROVE  IF u[j].type = "PREEDIT_DRAW" THEN u[j].chg_length = After(u, i, x, j - 1)
                                           ELSE After(u, i, x, j - 1) = 0
  <2>1. j \in DOMAIN s \/ \E p \in DOMAIN t : j = Len(s) + p
    BY ConcatFacts DEF u
  <2>2. CASE j \in DOMAIN s
    <3>1. u[j] = s[j] /\ j - 1 \in Nat /\ j - 1 <= Len(s)
      BY <1>1, <2>2
    <3>2. After(u, i, x, j - 1) = After(s, i, x, j - 1)
      BY <1>2, <3>1
    <3> QED
      BY <1>6, <2>2, <3>1, <3>2 DEF Fits
  <2>3. CASE \E p \in DOMAIN t : j = Len(s) + p
    <3>1. PICK p \in DOMAIN t : j = Len(s) + p
      BY <2>3
    <3>2. u[j] = t[p] /\ p - 1 \in Nat /\ p - 1 <= Len(t) /\ j - 1 = Len(s) + (p - 1)
      BY <1>1, <3>1
    <3>3. After(u, i, x, j - 1) = After(t, i, n, p - 1)
      BY <1>4, <3>2
    <3> QED
      BY <1>6, <3>1, <3>2, <3>3 DEF Fits
  <2> QED
    BY <2>1, <2>2, <2>3
<1>7. Fits(u, i, x, y)
  BY <1>5, <1>6 DEF Fits
<1> QED
  BY <1>7 DEF u

\* The first message finds what is displayed, and the others what it leaves.
LEMMA FitsTail ==
  ASSUME NEW S, NEW s \in Seq(S), s # <<>>, NEW i, NEW x, NEW n, Fits(s, i, x, n)
  PROVE  /\ FitsAt(Head(s), i, x)
         /\ Fits(Tail(s), i, IF Head(s).type = "PREEDIT_DRAW" /\ Head(s).ic = i
                             THEN Head(s).length ELSE x, n)
<1>1. /\ Head(s) = s[1] /\ 1 \in DOMAIN s /\ Len(s) \in Nat
      /\ Len(Tail(s)) = Len(s) - 1 /\ DOMAIN s = 1..Len(s) /\ DOMAIN Tail(s) = 1..(Len(s) - 1)
      /\ \A j \in DOMAIN Tail(s) : j + 1 \in DOMAIN s /\ Tail(s)[j] = s[j + 1]
  BY TailFacts
<1> DEFINE t == Tail(s)
           y == After(s, i, x, 1)
<1>2. FitsAt(Head(s), i, x)
  <2>1. IsPreedit(s[1]) /\ s[1].ic = i =>
          IF s[1].type = "PREEDIT_DRAW" THEN s[1].chg_length = After(s, i, x, 1 - 1)
                                        ELSE After(s, i, x, 1 - 1) = 0
    BY <1>1 DEF Fits
  <2>2. 1 - 1 = 0 /\ After(s, i, x, 0) = x
    BY AfterNone
  <2> QED
    BY <1>1, <2>1, <2>2 DEF FitsAt
<1>3. y = IF Head(s).type = "PREEDIT_DRAW" /\ Head(s).ic = i THEN Head(s).length ELSE x
  BY <1>1, AfterOne
<1> HIDE DEF y, t
<1>4. ASSUME NEW j \in Nat, j <= Len(s) - 1 PROVE After(t, i, y, j) = After(s, i, x, 1 + j)
  <2>1. \A p \in 1..j : s[1 + p] = t[p]
    BY <1>1, <1>4 DEF t
  <2>2. 1 \in Nat
    OBVIOUS
  <2> QED
    BY <2>1, <2>2, AfterShift DEF y
<1>5. Len(s) - 1 \in Nat /\ 1 + (Len(s) - 1) = Len(s)
  BY <1>1
<1>6. n = After(t, i, y, Len(t))
  <2>1. After(t, i, y, Len(s) - 1) = After(s, i, x, Len(s))
    BY <1>4, <1>5
  <2> QED
    BY <1>1, <2>1 DEF Fits, t
<1>7. ASSUME NEW j \in DOMAIN t, IsPreedit(t[j]), t[j].ic = i
      PROVE  IF t[j].type = "PREEDIT_DRAW" THEN t[j].chg_length = After(t, i, y, j - 1)
                                           ELSE After(t, i, y, j - 1) = 0
  <2>1. j + 1 \in DOMAIN s /\ t[j] = s[j + 1] /\ j \in 1..(Len(s) - 1)
    BY <1>1 DEF t
  <2>2. j - 1 \in Nat /\ j - 1 <= Len(s) - 1 /\ 1 + (j - 1) = (j + 1) - 1
    BY <2>1, <1>1
  <2>3. After(t, i, y, j - 1) = After(s, i, x, (j + 1) - 1)
    BY <1>4, <2>2
  <2> QED
    BY <1>7, <2>1, <2>3 DEF Fits
<1>8. Fits(t, i, y, n)
  BY <1>6, <1>7 DEF Fits
<1> QED
  BY <1>2, <1>3, <1>8 DEF t
-----------------------------------------------------------------------------
(* What the server sends keeps the display.                                *)

\* Talk about another context does not concern this one.
LEMMA FitsElsewhere ==
  ASSUME NEW i, NEW s \in Seq(Says(i)), NEW k, k # i, NEW x
  PROVE  Fits(s, k, x, x)
<1>1. \A j \in DOMAIN s : s[j] \in Says(i)
  BY ElementOfSeq, LenProperties
<1>2. \A j \in DOMAIN s : ~ (IsPreedit(s[j]) /\ s[j].ic = k)
  BY <1>1 DEF Says
<1> QED
  BY <1>2, FitsSilent

\* Nothing sent, nothing displayed.
LEMMA FitsNothing == ASSUME NEW i, NEW x PROVE Fits(<<>>, i, x, x)
<1>1. PICK s \in Seq({}) : s = <<>>
  BY EmptySeq
<1>2. \A j \in DOMAIN s : ~ (IsPreedit(s[j]) /\ s[j].ic = i)
  BY <1>1
<1>3. Fits(s, i, x, x)
  BY <1>2, FitsSilent
<1> QED
  BY <1>1, <1>3

\* Soft-hiding draws away what there is.
LEMMA SoftHideFits ==
  ASSUME ServerTypeOK, NEW i \in ICID
  PROVE  Fits(SoftHideMessages(i), i, ics[i].len, SoftHidden(ics[i]).len)
<1>1. ics[i] \in Contexts
  BY DEF ServerTypeOK, Contexts
<1>2. CASE Visible(ics[i])
  <2>1. PICK m : m = DrawOf(i, ics[i].len, 0)
    OBVIOUS
  <2>2. FitsAt(m, i, ics[i].len) /\ m.type = "PREEDIT_DRAW" /\ m.ic = i /\ m.length = 0
    BY <2>1 DEF FitsAt, DrawOf
  <2>3. Fits(<<m>>, i, ics[i].len, 0)
    <3>1. Fits(<<m>>, i, ics[i].len,
               IF m.type = "PREEDIT_DRAW" /\ m.ic = i THEN m.length ELSE ics[i].len)
      BY <2>2, FitsOne
    <3> QED
      BY <2>2, <3>1
  <2>4. SoftHideMessages(i) = <<m>> /\ SoftHidden(ics[i]).len = 0
    BY <1>1, <1>2, <2>1 DEF SoftHideMessages, SoftHidden, Contexts
  <2> QED
    BY <2>3, <2>4
<1>3. CASE ~ Visible(ics[i])
  BY <1>3, FitsNothing DEF SoftHideMessages, SoftHidden
<1> QED
  BY <1>2, <1>3

\* A preedit that is over was soft-hidden before.
LEMMA DoneFits ==
  ASSUME ServerTypeOK, Dark, NEW i \in ICID
  PROVE  Fits(DoneMessages(i), i, SoftHidden(ics[i]).len, Hidden(ics[i]).len)
<1>1. ics[i] \in Contexts /\ ics[i].len \in Nat
  BY MaxLenPositive DEF ServerTypeOK, Contexts
<1>2. CASE ics[i].live /\ ics[i].enabled
  <2>1. PICK m : m = About("PREEDIT_DONE", i)
    OBVIOUS
  <2>2. FitsAt(m, i, 0) /\ m.type # "PREEDIT_DRAW"
    BY <2>1 DEF FitsAt, About
  <2>3. Fits(<<m>>, i, 0, 0)
    <3>1. Fits(<<m>>, i, 0, IF m.type = "PREEDIT_DRAW" /\ m.ic = i THEN m.length ELSE 0)
      BY <2>2, FitsOne
    <3> QED
      BY <2>2, <3>1
  <2>4. DoneMessages(i) = <<m>>
    BY <1>2, <2>1 DEF DoneMessages
  <2>5. SoftHidden(ics[i]).len = 0
    BY <1>1, <1>2 DEF SoftHidden, Visible, Contexts
  <2>6. Hidden(ics[i]).len = 0
    BY <1>1, <1>2 DEF Hidden, Contexts
  <2> QED
    BY <2>3, <2>4, <2>5, <2>6
<1>3. CASE ~ (ics[i].live /\ ics[i].enabled)
  <2>1. DoneMessages(i) = <<>> /\ SoftHidden(ics[i]) = ics[i]
    BY <1>3 DEF DoneMessages, SoftHidden, Visible
  <2>2. Hidden(ics[i]).len = ics[i].len
    <3>1. CASE ics[i].live
      BY <1>1, <1>3, <3>1 DEF Hidden, Dark, Contexts
    <3>2. CASE ~ics[i].live
      BY <3>2 DEF Hidden
    <3> QED
      BY <3>1, <3>2
  <2> QED
    BY <2>1, <2>2, FitsNothing
<1> QED
  BY <1>2, <1>3

\* Two messages, one after the other.
LEMMA PairConcat == ASSUME NEW S, NEW m \in S, NEW d \in S PROVE <<m>> \o <<d>> = <<m, d>>
<1> DEFINE s == <<m>>
           t == <<d>>
           u == s \o t
           v == <<m, d>>
<1>1. /\ s \in Seq(S) /\ Len(s) = 1 /\ s[1] = m
      /\ t \in Seq(S) /\ Len(t) = 1 /\ t[1] = d
      /\ v \in Seq(S) /\ Len(v) = 2 /\ v[1] = m /\ v[2] = d
  OBVIOUS
<1> HIDE DEF s, t, v
<1>2. /\ u \in Seq(S) /\ Len(u) = 1 + 1
      /\ \A i \in 1..(1 + 1) : u[i] = IF i <= 1 THEN s[i] ELSE t[i - 1]
  BY <1>1, ConcatProperties
<1>3. u[1] = v[1] /\ u[2] = v[2] /\ Len(u) = Len(v)
  BY <1>1, <1>2
<1> HIDE DEF u
<1>4. \A i \in 1..Len(u) : u[i] = v[i]
  BY <1>1, <1>3
<1>5. u = v
  BY <1>1, <1>2, <1>3, <1>4, SeqEqual
<1> QED
  BY <1>5 DEF s, t, u, v

\* A word is drawn over the one before it, and a preedit starts empty.
LEMMA DrawFits ==
  ASSUME ServerTypeOK, Dark, NEW i \in ICID, NEW n \in 0..MaxLen
  PROVE  Fits(DrawMessages(i, n), i, ics[i].len, Drawn(ics[i], n).len)
<1>1. ics[i] \in Contexts
  BY DEF ServerTypeOK, Contexts
<1>2. \A x : Fits(<<DrawOf(i, x, n)>>, i, x, n)
  <2> SUFFICES ASSUME NEW x PROVE Fits(<<DrawOf(i, x, n)>>, i, x, n)
    OBVIOUS
  <2>1. PICK m : m = DrawOf(i, x, n)
    OBVIOUS
  <2>2. FitsAt(m, i, x) /\ m.type = "PREEDIT_DRAW" /\ m.ic = i /\ m.length = n
    BY <2>1 DEF FitsAt, DrawOf
  <2>3. Fits(<<m>>, i, x, IF m.type = "PREEDIT_DRAW" /\ m.ic = i THEN m.length ELSE x)
    BY <2>2, FitsOne
  <2> QED
    BY <2>1, <2>2, <2>3
<1>3. CASE ~ics[i].live
  BY <1>3, FitsNothing DEF DrawMessages, Drawn
<1>4. CASE ics[i].live
  <2>1. Drawn(ics[i], n).len = n
    BY <1>1, <1>4 DEF Drawn, Contexts
  <2>2. CASE ics[i].enabled
    BY <1>2, <1>4, <2>1, <2>2 DEF DrawMessages
  <2>3. CASE ~ics[i].enabled
    <3>1. PICK m : m = About("PREEDIT_START", i)
      OBVIOUS
    <3>2. PICK d : d = DrawOf(i, 0, n)
      OBVIOUS
    <3>3. Fits(<<m>>, i, 0, 0)
      <4>1. FitsAt(m, i, 0) /\ m.type # "PREEDIT_DRAW"
        BY <3>1 DEF FitsAt, About
      <4>2. Fits(<<m>>, i, 0, IF m.type = "PREEDIT_DRAW" /\ m.ic = i THEN m.length ELSE 0)
        BY <4>1, FitsOne
      <4> QED
        BY <4>1, <4>2
    <3>4. Fits(<<d>>, i, 0, n)
      BY <1>2, <3>2
    <3> DEFINE s == <<m>>
               t == <<d>>
    <3>5. s \in Seq({m, d}) /\ t \in Seq({m, d}) /\ s \o t = <<m, d>>
      <4>1. m \in {m, d} /\ d \in {m, d}
        OBVIOUS
      <4>2. <<m>> \o <<d>> = <<m, d>>
        BY <4>1, PairConcat
      <4>3. s \in Seq({m, d}) /\ t \in Seq({m, d})
        OBVIOUS
      <4> QED
        BY <4>2, <4>3
    <3>6. Fits(s, i, 0, 0) /\ Fits(t, i, 0, n)
      BY <3>3, <3>4
    <3> HIDE DEF s, t
    <3>7. Fits(s \o t, i, 0, n)
      BY <3>5, <3>6, FitsConcat
    <3>9. ics[i].len = 0
      BY <2>3 DEF Dark
    <3> QED
      BY <1>4, <2>1, <2>3, <3>1, <3>2, <3>5, <3>7, <3>9 DEF DrawMessages
  <2> QED
    BY <2>2, <2>3
<1> QED
  BY <1>3, <1>4

\* A commit, a key or an answer displays nothing.
LEMMA FitsOther ==
  ASSUME NEW m, ~IsPreedit(m), NEW i, NEW x PROVE Fits(<<m>>, i, x, x)
<1>1. FitsAt(m, i, x) /\ m.type # "PREEDIT_DRAW"
  BY DEF FitsAt, IsPreedit
<1>2. Fits(<<m>>, i, x, IF m.type = "PREEDIT_DRAW" /\ m.ic = i THEN m.length ELSE x)
  BY <1>1, FitsOne
<1> QED
  BY <1>1, <1>2

\* The word is drawn away before it is committed.
LEMMA CommitFits ==
  ASSUME ServerTypeOK, NEW i \in ICID, NEW keys \in Seq(Keys), NEW junk \in BOOLEAN
  PROVE  Fits(SoftHideMessages(i) \o <<CommitOf(i, keys, junk)>>,
              i, ics[i].len, SoftHidden(ics[i]).len)
<1>1. PICK m : m = CommitOf(i, keys, junk)
  OBVIOUS
<1>2. ~IsPreedit(m)
  BY <1>1 DEF IsPreedit, CommitOf
<1>3. \A x : Fits(<<m>>, i, x, x)
  BY <1>2, FitsOther
<1>4. m \in Says(i)
  BY <1>1, SaysMessages
<1>5. SoftHideMessages(i) \in Seq(Says(i)) /\ <<m>> \in Seq(Says(i))
  BY <1>4, SaysSequences
<1>6. Fits(SoftHideMessages(i) \o <<m>>, i, ics[i].len, SoftHidden(ics[i]).len)
  BY <1>3, <1>5, SoftHideFits, FitsConcat
<1> QED
  BY <1>1, <1>6

\* What a step of the server may do to context i: c hears it, and no other
\* context changes.
Shows(c, i) ==
  /\ \E s \in Seq(Says(i)) : /\ toClient' = Send(toClient, c, s)
                             /\ Fits(s, i, ics[i].len, ics'[i].len)
  /\ ics' \in [ICID -> Contexts] /\ \A k \in ICID : k # i => ics'[k] = ics[k]
  /\ ~ics'[i].enabled => ics'[i].len = 0

\* ProcessKey is such a step.
LEMMA ProcessKeyShows ==
  ASSUME TypeOK, Dark, NEW c \in Clients, NEW i \in ICID, NEW k \in Keys, ProcessKey(c, i, k)
  PROVE  Shows(c, i)
<1>1. ServerTypeOK /\ ics \in [ICID -> Contexts] /\ ics[i] \in Contexts
  BY DEF TypeOK, ServerTypeOK, Contexts
<1>2. PICK d \in XIMProcessKey(fe, k.ev) :
        DrawWord(c, i, k, d) \/ DiscardWord(c, i, k, d)
          \/ CommitWord(c, i, k, d) \/ ForwardKey(c, i, k, d)
  BY DEF ProcessKey
<1>3. d.fe.len \in 0..MaxLen
  <2>1. k.ev \in KeyEvents
    BY XimAssumption DEF Keys
  <2> QED
    BY <1>1, <2>1, XIMProcessKeyType DEF FrontEndStates, ServerTypeOK
<1>4. typed \in Seq(Keys) /\ Append(typed, k) \in Seq(Keys)
  BY <1>1, AppendProperties DEF ServerTypeOK
<1>5. /\ Drawn(ics[i], d.fe.len) \in Contexts /\ SoftHidden(ics[i]) \in Contexts
      /\ ~Drawn(ics[i], d.fe.len).enabled => Drawn(ics[i], d.fe.len).len = 0
      /\ ~SoftHidden(ics[i]).enabled => SoftHidden(ics[i]).len = 0
  <2>1. Drawn(ics[i], d.fe.len) \in Contexts /\ SoftHidden(ics[i]) \in Contexts
    BY <1>1, <1>3, ContextTypes
  <2>2. ~ics[i].enabled => ics[i].len = 0
    BY DEF Dark
  <2>3. ~Drawn(ics[i], d.fe.len).enabled => Drawn(ics[i], d.fe.len).len = 0
    BY <1>1, <2>2 DEF Drawn, Contexts
  <2>4. ~SoftHidden(ics[i]).enabled => SoftHidden(ics[i]).len = 0
    BY <1>1, <2>2 DEF SoftHidden, Contexts
  <2> QED
    BY <2>1, <2>3, <2>4
<1>6. CASE DrawWord(c, i, k, d)
  <2>1. /\ toClient' = Send(toClient, c, DrawMessages(i, d.fe.len))
        /\ ics' = [ics EXCEPT ![i] = Drawn(@, d.fe.len)]
    BY <1>6 DEF DrawWord
  <2>2. DrawMessages(i, d.fe.len) \in Seq(Says(i))
    BY <1>1, <1>3, SaysSequences
  <2>3. Fits(DrawMessages(i, d.fe.len), i, ics[i].len, Drawn(ics[i], d.fe.len).len)
    BY <1>1, <1>3, DrawFits
  <2>4. ics'[i] = Drawn(ics[i], d.fe.len)
    BY <1>1, <2>1
  <2> QED
    BY <1>1, <1>5, <2>1, <2>2, <2>3, <2>4 DEF Shows
<1>7. ASSUME ics' = [ics EXCEPT ![i] = SoftHidden(@)],
             NEW keys \in Seq(Keys), NEW junk \in BOOLEAN,
             toClient' = Send(toClient, c, SoftHideMessages(i) \o <<CommitOf(i, keys, junk)>>)
      PROVE  Shows(c, i)
  <2>1. SoftHideMessages(i) \o <<CommitOf(i, keys, junk)>> \in Seq(Says(i))
    BY <1>1, SaysSequences
  <2>2. Fits(SoftHideMessages(i) \o <<CommitOf(i, keys, junk)>>,
             i, ics[i].len, SoftHidden(ics[i]).len)
    BY <1>1, CommitFits
  <2>3. ics'[i] = SoftHidden(ics[i])
    BY <1>1, <1>7
  <2> QED
    BY <1>1, <1>5, <1>7, <2>1, <2>2, <2>3 DEF Shows
<1>8. CASE DiscardWord(c, i, k, d)
  BY <1>4, <1>7, <1>8 DEF DiscardWord
<1>9. CASE CommitWord(c, i, k, d)
  BY <1>4, <1>7, <1>9 DEF CommitWord
<1>10. CASE ForwardKey(c, i, k, d)
  <2>1. toClient' = Send(toClient, c, <<Forward(i, k)>>) /\ ics' = ics
    BY <1>10 DEF ForwardKey
  <2>2. Fits(<<Forward(i, k)>>, i, ics[i].len, ics[i].len)
    BY FitsOther DEF IsPreedit, Forward
  <2>3. <<Forward(i, k)>> \in Seq(Says(i))
    BY <1>1, SaysSequences
  <2>4. ~ics[i].enabled => ics[i].len = 0
    BY DEF Dark
  <2> QED
    BY <1>1, <2>1, <2>2, <2>3, <2>4 DEF Shows
<1> QED
  BY <1>2, <1>6, <1>8, <1>9, <1>10
-----------------------------------------------------------------------------
(* Every step keeps the displays.                                          *)

\* The contexts a client has or will hear of are its own, and were created.
LEMMA HeldFacts ==
  ASSUME Inv, Owners, NEW c \in Clients
  PROVE  /\ Held(c) \subseteq Ids(c) /\ Ids(c) \subseteq ICID
         /\ \A i \in Ids(c) : i <= lastId
<1>1. Coming(c) \subseteq Subjects(toClient[c])
  BY DEF Coming, Subjects
<1>2. lastId \in ICID /\ IdSpace \in Nat
  BY XimAssumption DEF Inv, TypeOK, ServerTypeOK
<1>3. Ids(c) \subseteq 1..lastId
  BY DEF Owners, Owned
<1> QED
  BY <1>1, <1>2, <1>3 DEF Held, Ids, ICID

\* The message at the head of a channel, or of a pending list, is about a
\* context of its client.
LEMMA HeadIds ==
  ASSUME Inv, NEW c \in Clients
  PROVE  /\ \A type : Incoming(c, type) /\ type \notin {"CREATE_IC", "DISCONNECT"}
                        => Head(toServer[c]).ic \in Ids(c)
         /\ pending[c] # <<>> => Head(pending[c]).ic \in Ids(c)
<1>1. TypeOK /\ ServerTypeOK
  BY DEF Inv, TypeOK
<1>2. ASSUME NEW type, Incoming(c, type), type \notin {"CREATE_IC", "DISCONNECT"}
      PROVE  Head(toServer[c]).ic \in Ids(c)
  <2>1. /\ toServer[c] \in Seq(ToServerMessages) /\ toServer[c] # <<>>
        /\ Head(toServer[c]) \in ToServerMessages /\ Head(toServer[c]).type = type
    BY <1>1, <1>2, IncomingType
  <2>2. Head(toServer[c]).type # "DISCONNECT_REPLY"
    BY <2>1 DEF ToServerMessages, Requests
  <2>3. Head(toServer[c]).ic \in Subjects(toServer[c])
    BY <1>2, <2>1, <2>2, SubjectsTail
  <2> QED
    BY <2>3 DEF Ids
<1>3. ASSUME pending[c] # <<>> PROVE Head(pending[c]).ic \in Ids(c)
  <2>1. pending[c] \in Seq(PendingMessages) /\ Head(pending[c]) \in PendingMessages
    BY <1>1, <1>3, HeadTailProperties DEF ServerTypeOK
  <2>2. Head(pending[c]).type = "FORWARD_EVENT"
    BY <2>1 DEF PendingMessages
  <2>3. Head(pending[c]).ic \in Subjects(pending[c])
    BY <1>3, <2>1, <2>2, SubjectsTail
  <2> QED
    BY <2>3 DEF Ids
<1> QED
  BY <1>2, <1>3

\* The server sends messages that fit, and changes contexts of their client only.
LEMMA SentInStep ==
  ASSUME Inv, Owners, InStep, NEW c \in Clients, NEW s \in Seq(ToClientMessages),
         toClient' = Send(toClient, c, s),
         \A j \in DOMAIN s : s[j].type # "CREATE_IC_REPLY",
         \A k \in Held(c) : Fits(s, k, ics[k].len, ics'[k].len),
         \A k \in ICID : ics'[k] # ics[k] => k \in Ids(c),
         Dark', lastId' = lastId, UNCHANGED clientVars
  PROVE  InStep'
<1>1. toClient \in [Clients -> Seq(ToClientMessages)]
  BY DEF Inv, TypeOK, ChannelsTypeOK
<1>2. /\ toClient'[c] = toClient[c] \o s
      /\ \A x \in Clients \ {c} : toClient'[x] = toClient[x]
  BY <1>1 DEF Send
<1>3. mine' = mine /\ state' = state /\ shown' = shown
  BY DEF clientVars
<1>4. ASSUME NEW x \in Clients PROVE Held(x)' \subseteq Held(x)
  <2>1. CASE x = c
    <3>1. \A q \in DOMAIN toClient'[c] : \/ q \in DOMAIN toClient[c] /\ toClient'[c][q] = toClient[c][q]
                                        \/ toClient'[c][q].type # "CREATE_IC_REPLY"
      BY <1>1, <1>2, ConcatFacts
    <3>2. Coming(c)' \subseteq Coming(c)
      BY <3>1 DEF Coming
    <3> QED
      BY <1>3, <2>1, <3>2 DEF Held
  <2>2. CASE x # c
    BY <1>2, <1>3, <2>2 DEF Held, Coming
  <2> QED
    BY <2>1, <2>2
<1>5. ASSUME NEW x \in Clients, NEW k \in Held(x)
      PROVE  Fits(toClient'[x], k, shown'[k], ics'[k].len)
  <2>1. Fits(toClient[x], k, shown[k], ics[k].len)
    BY DEF InStep, Fitted
  <2>2. CASE x = c
    BY <1>1, <1>2, <1>3, <2>1, <2>2, FitsConcat
  <2>3. CASE x # c
    <3>1. k \in Ids(x) /\ k \in ICID
      BY HeldFacts
    <3>2. k \notin Ids(c)
      BY <2>3, <3>1 DEF Owners, Owned
    <3> QED
      BY <1>2, <1>3, <2>1, <2>3, <3>1, <3>2
  <2> QED
    BY <2>2, <2>3
<1>6. Fitted'
  BY <1>4, <1>5 DEF Fitted
<1>7. Unseen' /\ Parted'
  BY <1>3 DEF InStep, Unseen, Parted
<1> QED
  BY <1>6, <1>7 DEF InStep

\* A step that shows one context of a client, and then answers.
LEMMA ShowsInStep ==
  ASSUME Inv, Owners, InStep, NEW c \in Clients, NEW i \in Ids(c),
         NEW s \in Seq(Says(i)), NEW r \in Seq(ToClientMessages),
         \A j \in DOMAIN r : ~IsPreedit(r[j]) /\ r[j].type # "CREATE_IC_REPLY",
         toClient' = Send(toClient, c, s \o r), Fits(s, i, ics[i].len, ics'[i].len),
         \A k \in ICID : k # i => ics'[k] = ics[k],
         ~ics'[i].enabled => ics'[i].len = 0,
         lastId' = lastId, UNCHANGED clientVars
  PROVE  InStep'
<1>1. i \in ICID /\ Held(c) \subseteq ICID
  BY HeldFacts
<1>2. s \in Seq(ToClientMessages) /\ \A j \in DOMAIN s : s[j].type # "CREATE_IC_REPLY"
  BY <1>1, SaysFacts
<1> DEFINE u == s \o r
<1>3. u \in Seq(ToClientMessages)
  BY <1>2, ConcatProperties
<1>4. ASSUME NEW j \in DOMAIN u PROVE u[j].type # "CREATE_IC_REPLY"
  <2>1. \/ j \in DOMAIN s /\ u[j] = s[j]
        \/ \E p \in DOMAIN r : j = Len(s) + p /\ u[j] = r[p]
    BY <1>2, ConcatElement
  <2> QED
    BY <1>2, <2>1
<1>5. ASSUME NEW k \in Held(c) PROVE Fits(u, k, ics[k].len, ics'[k].len)
  <2>1. Fits(s, k, ics[k].len, ics'[k].len)
    <3>1. CASE k = i
      BY <3>1
    <3>2. CASE k # i
      <4>1. ics'[k] = ics[k]
        BY <1>1, <3>2
      <4> QED
        BY <1>1, <3>2, <4>1, FitsElsewhere
    <3> QED
      BY <3>1, <3>2
  <2>2. \A x : Fits(r, k, x, x)
    BY FitsSilent
  <2> QED
    BY <1>2, <2>1, <2>2, FitsConcat
<1>6. Dark'
  BY DEF InStep, Dark
<1> HIDE DEF u
<1>7. toClient' = Send(toClient, c, u)
  BY DEF u
<1>8. \A k \in ICID : ics'[k] # ics[k] => k \in Ids(c)
  OBVIOUS
<1> QED
  BY <1>3, <1>4, <1>5, <1>6, <1>7, <1>8, SentInStep

\* With no answer.
LEMMA OnlyShowsInStep ==
  ASSUME Inv, Owners, InStep, NEW c \in Clients, NEW i \in Ids(c), Shows(c, i),
         lastId' = lastId, UNCHANGED clientVars
  PROVE  InStep'
<1>1. PICK s \in Seq(Says(i)) : toClient' = Send(toClient, c, s)
                                /\ Fits(s, i, ics[i].len, ics'[i].len)
  BY DEF Shows
<1>2. PICK r \in Seq(ToClientMessages) : r = <<>>
  BY EmptySeq
<1>3. s \o r = s
  BY <1>2, ConcatEmptySeq
<1>4. \A j \in DOMAIN r : ~IsPreedit(r[j]) /\ r[j].type # "CREATE_IC_REPLY"
  BY <1>2
<1>5. toClient' = Send(toClient, c, s \o r)
  BY <1>1, <1>3
<1>6. /\ \A k \in ICID : k # i => ics'[k] = ics[k]
      /\ ~ics'[i].enabled => ics'[i].len = 0
  BY DEF Shows
<1> QED
  BY <1>1, <1>4, <1>5, <1>6, ShowsInStep

\* A step that concerns no display.
LEMMA QuietInStep ==
  ASSUME InStep, \A x \in Clients : toClient'[x] = toClient[x] /\ Held(x)' \subseteq Held(x),
         ics' = ics, shown' = shown, lastId' = lastId, Parted'
  PROVE  InStep'
<1>1. Fitted'
  BY DEF InStep, Fitted
<1> QED
  BY <1>1 DEF InStep, Unseen, Dark

\* A key is handled and drawn, or held back and nothing is.
LEMMA ForwardEventInStep ==
  ASSUME Inv, Owners, InStep, NEW c \in Clients, HandleForwardEvent(c) PROVE InStep'
<1> DEFINE m == Head(toServer[c])
<1>1. TypeOK /\ ServerTypeOK /\ Incoming(c, "FORWARD_EVENT")
  BY DEF Inv, TypeOK, HandleForwardEvent
<1>2. m \in ToServerMessages /\ m.type = "FORWARD_EVENT" /\ m.ic \in Ids(c)
  BY <1>1, IncomingType, HeadIds
<1>3. m.ic \in ICID /\ m.key \in Keys
  BY <1>2, ToServerTypes
<1>4. UNCHANGED clientVars
  BY DEF HandleForwardEvent
<1>5. CASE sync[c]
  <2>1. ics' = ics /\ toClient' = toClient /\ lastId' = lastId
    BY <1>5 DEF HandleForwardEvent
  <2>2. mine' = mine /\ shown' = shown /\ state' = state
    BY <1>4 DEF clientVars
  <2>3. \A x \in Clients : Held(x)' \subseteq Held(x)
    BY <2>1, <2>2 DEF Held, Coming
  <2>4. Parted'
    BY <2>2 DEF InStep, Parted
  <2> QED
    BY <2>1, <2>2, <2>3, <2>4, QuietInStep
<1>6. CASE ~sync[c]
  <2>1. ProcessKey(c, m.ic, m.key)
    BY <1>6 DEF HandleForwardEvent
  <2> HIDE DEF m
  <2>2. Shows(c, m.ic)
    BY <1>1, <1>3, <2>1, ProcessKeyShows DEF InStep
  <2>3. lastId' = lastId
    BY <1>1, <1>3, <2>1, ProcessKeySays
  <2> QED
    BY <1>2, <1>4, <2>2, <2>3, OnlyShowsInStep
<1> QED
  BY <1>5, <1>6

\* The same of a key that waited.
LEMMA DrainPendingInStep ==
  ASSUME Inv, Owners, InStep, NEW c \in Clients, DrainPending(c) PROVE InStep'
<1> DEFINE m == Head(pending[c])
<1>1. TypeOK /\ ServerTypeOK /\ busy = c /\ pending[c] # <<>>
  BY XimAssumption DEF Inv, TypeOK, BusyOK, DrainPending
<1>2. m \in PendingMessages /\ m.ic \in Ids(c)
  BY <1>1, HeadIds, HeadTailProperties DEF ServerTypeOK
<1>3. m.ic \in ICID /\ m.key \in Keys
  BY <1>2 DEF PendingMessages
<1>4. ProcessKey(c, m.ic, m.key) /\ UNCHANGED clientVars
  BY DEF DrainPending
<1> HIDE DEF m
<1>5. Shows(c, m.ic)
  BY <1>1, <1>3, <1>4, ProcessKeyShows DEF InStep
<1>6. lastId' = lastId
  BY <1>1, <1>3, <1>4, ProcessKeySays
<1> QED
  BY <1>2, <1>4, <1>5, <1>6, OnlyShowsInStep

\* A key released draws nothing.
LEMMA SyncReplyInStep ==
  ASSUME Inv, Owners, InStep, NEW c \in Clients, HandleSyncReply(c) PROVE InStep'
<1> DEFINE m == Head(toServer[c])
<1>1. TypeOK /\ ServerTypeOK /\ Incoming(c, "SYNC_REPLY")
  BY DEF Inv, TypeOK, HandleSyncReply
<1>2. m \in ToServerMessages /\ m.type = "SYNC_REPLY" /\ m.ic \in ICID /\ m.ic \in Ids(c)
  BY <1>1, IncomingType, ToServerTypes, HeadIds
<1>3. PICK s \in Seq(Says(m.ic)) : toClient' = Send(toClient, c, s)
                                   /\ \A x : Fits(s, m.ic, x, x)
  <2>1. CASE imsSync /\ queue # <<>>
    <3>1. Head(queue) \in Keys
      BY <1>1, <2>1, HeadTailProperties DEF ServerTypeOK
    <3>2. <<Forward(m.ic, Head(queue))>> \in Seq(Says(m.ic))
      BY <1>1, <1>2, <3>1, SaysSequences
    <3>3. ~IsPreedit(Forward(m.ic, Head(queue)))
      BY DEF IsPreedit, Forward
    <3>4. \A x : Fits(<<Forward(m.ic, Head(queue))>>, m.ic, x, x)
      BY <3>3, FitsOther
    <3>5. toClient' = Send(toClient, c, <<Forward(m.ic, Head(queue))>>)
      BY <2>1 DEF HandleSyncReply
    <3> QED
      BY <3>2, <3>4, <3>5
  <2>2. CASE ~(imsSync /\ queue # <<>>)
    <3>1. toClient' = Send(toClient, c, <<>>)
      BY <2>2 DEF HandleSyncReply
    <3>2. \A x : Fits(<<>>, m.ic, x, x)
      BY FitsNothing
    <3> QED
      BY <3>1, <3>2, EmptySeq
  <2> QED
    BY <2>1, <2>2
<1>4. ics' = ics /\ lastId' = lastId /\ UNCHANGED clientVars
  BY DEF HandleSyncReply
<1>5. Shows(c, m.ic)
  <2>1. ics \in [ICID -> Contexts] /\ (~ics[m.ic].enabled => ics[m.ic].len = 0)
    BY <1>1, <1>2 DEF ServerTypeOK, Contexts, InStep, Dark
  <2> HIDE DEF m
  <2> QED
    BY <1>3, <1>4, <2>1 DEF Shows
<1> HIDE DEF m
<1> QED
  BY <1>2, <1>4, <1>5, OnlyShowsInStep

\* What has the focus shows an empty preedit.
LEMMA SetFocusInStep ==
  ASSUME Inv, Owners, InStep, NEW c \in Clients, HandleSetFocus(c) PROVE InStep'
<1> DEFINE m == Head(toServer[c])
<1>1. TypeOK /\ ServerTypeOK /\ Incoming(c, "SET_IC_FOCUS")
  BY DEF Inv, TypeOK, HandleSetFocus
<1>2. m.ic \in ICID /\ m.ic \in Ids(c)
  BY <1>1, IncomingType, ToServerTypes, HeadIds
<1>3. /\ toClient' = Send(toClient, c, SoftHideMessages(m.ic))
      /\ ics' = [ics EXCEPT ![m.ic] = SoftHidden(@)]
      /\ lastId' = lastId /\ UNCHANGED clientVars
  BY DEF HandleSetFocus
<1> HIDE DEF m
<1>4. ics \in [ICID -> Contexts] /\ ics[m.ic] \in Contexts /\ SoftHidden(ics[m.ic]) \in Contexts
  <2>1. ics \in [ICID -> Contexts] /\ ics[m.ic] \in Contexts
    BY <1>1, <1>2 DEF ServerTypeOK, Contexts
  <2> QED
    BY <2>1, ContextTypes
<1>5. ~SoftHidden(ics[m.ic]).enabled => SoftHidden(ics[m.ic]).len = 0
  BY <1>2, <1>4 DEF SoftHidden, Contexts, InStep, Dark
<1>6. Fits(SoftHideMessages(m.ic), m.ic, ics[m.ic].len, SoftHidden(ics[m.ic]).len)
  BY <1>1, <1>2, SoftHideFits
<1>7. SoftHideMessages(m.ic) \in Seq(Says(m.ic))
  BY <1>1, <1>2, SaysSequences
<1>8. ics'[m.ic] = SoftHidden(ics[m.ic])
  BY <1>2, <1>3, <1>4
<1>9. Shows(c, m.ic)
  BY <1>2, <1>3, <1>4, <1>5, <1>6, <1>7, <1>8 DEF Shows
<1> QED
  BY <1>2, <1>3, <1>9, OnlyShowsInStep

\* The preedit is over when the word is given up.
LEMMA GiveUpFits ==
  ASSUME TypeOK, Dark, NEW c \in Clients, NEW i \in ICID, NEW replies,
         GiveUpWord(c, i, replies)
  PROVE  /\ \E s \in Seq(Says(i)) : /\ toClient' = Send(toClient, c, s \o replies)
                                    /\ Fits(s, i, ics[i].len, ics'[i].len)
         /\ \A k \in ICID : k # i => ics'[k] = ics[k]
         /\ ~ics'[i].enabled => ics'[i].len = 0
         /\ lastId' = lastId /\ UNCHANGED clientVars
<1>1. ServerTypeOK /\ ics \in [ICID -> Contexts] /\ ics[i] \in Contexts
  BY DEF TypeOK, ServerTypeOK, Contexts
<1>2. /\ SoftHideMessages(i) \in Seq(Says(i)) /\ DoneMessages(i) \in Seq(Says(i))
      /\ SoftHideMessages(i) \o <<CommitOf(i, typed, FALSE)>> \in Seq(Says(i))
  BY <1>1, SaysSequences DEF ServerTypeOK
<1>3. /\ Fits(SoftHideMessages(i), i, ics[i].len, SoftHidden(ics[i]).len)
      /\ Fits(SoftHideMessages(i) \o <<CommitOf(i, typed, FALSE)>>,
              i, ics[i].len, SoftHidden(ics[i]).len)
  BY <1>1, SoftHideFits, CommitFits DEF ServerTypeOK
<1>4. Fits(DoneMessages(i), i, SoftHidden(ics[i]).len, Hidden(ics[i]).len)
  BY <1>1, DoneFits
<1>5. /\ Fits(SoftHideMessages(i) \o DoneMessages(i), i, ics[i].len, Hidden(ics[i]).len)
      /\ Fits(SoftHideMessages(i) \o <<CommitOf(i, typed, FALSE)>> \o DoneMessages(i),
              i, ics[i].len, Hidden(ics[i]).len)
  BY <1>2, <1>3, <1>4, FitsConcat
<1>6. /\ SoftHideMessages(i) \o DoneMessages(i) \in Seq(Says(i))
      /\ SoftHideMessages(i) \o <<CommitOf(i, typed, FALSE)>> \o DoneMessages(i)
           \in Seq(Says(i))
  BY <1>2, ConcatProperties
<1>7. /\ ics' = [ics EXCEPT ![i] = Hidden(@)] /\ ics'[i] = Hidden(ics[i])
      /\ lastId' = lastId /\ UNCHANGED clientVars
  BY <1>1 DEF GiveUpWord
<1>8. ~ics'[i].enabled => ics'[i].len = 0
  BY <1>1, <1>7 DEF Hidden, Contexts, Dark
<1>9. \E s \in Seq(Says(i)) : /\ toClient' = Send(toClient, c, s \o replies)
                              /\ Fits(s, i, ics[i].len, ics'[i].len)
  <2>1. CASE fe.len > 0
    BY <1>5, <1>6, <1>7, <2>1 DEF GiveUpWord
  <2>2. CASE ~(fe.len > 0)
    BY <1>5, <1>6, <1>7, <2>2 DEF GiveUpWord
  <2> QED
    BY <2>1, <2>2
<1> QED
  BY <1>1, <1>7, <1>8, <1>9

\* The focus is taken away: the preedit is hidden and done.
LEMMA UnsetFocusInStep ==
  ASSUME Inv, Owners, InStep, NEW c \in Clients, HandleUnsetFocus(c) PROVE InStep'
<1> DEFINE m == Head(toServer[c])
<1>1. TypeOK /\ Incoming(c, "UNSET_IC_FOCUS") /\ GiveUpWord(c, m.ic, <<>>)
  BY DEF Inv, HandleUnsetFocus
<1>2. m.ic \in ICID /\ m.ic \in Ids(c)
  BY <1>1, IncomingType, ToServerTypes, HeadIds
<1> HIDE DEF m
<1>3. PICK r \in Seq(ToClientMessages) : r = <<>>
  BY EmptySeq
<1>4. GiveUpWord(c, m.ic, r)
  BY <1>1, <1>3
<1>5. \A j \in DOMAIN r : ~IsPreedit(r[j]) /\ r[j].type # "CREATE_IC_REPLY"
  BY <1>3
<1>6. PICK s \in Seq(Says(m.ic)) : /\ toClient' = Send(toClient, c, s \o r)
                                   /\ Fits(s, m.ic, ics[m.ic].len, ics'[m.ic].len)
  BY <1>1, <1>2, <1>4, GiveUpFits DEF InStep
<1>7. /\ \A k \in ICID : k # m.ic => ics'[k] = ics[k]
      /\ ~ics'[m.ic].enabled => ics'[m.ic].len = 0
      /\ lastId' = lastId /\ UNCHANGED clientVars
  BY <1>1, <1>2, <1>4, GiveUpFits DEF InStep
<1> QED
  BY <1>2, <1>5, <1>6, <1>7, ShowsInStep

\* The context is reset: the same, before the reply.
LEMMA ResetICInStep ==
  ASSUME Inv, Owners, InStep, NEW c \in Clients, HandleResetIC(c) PROVE InStep'
<1> DEFINE m == Head(toServer[c])
           q == About("REQUEST_REPLY", m.ic)
<1>1. TypeOK /\ Incoming(c, "RESET_IC") /\ GiveUpWord(c, m.ic, <<q>>)
  BY DEF Inv, HandleResetIC
<1>2. m.ic \in ICID /\ m.ic \in Ids(c)
  BY <1>1, IncomingType, ToServerTypes, HeadIds DEF Requests
<1>3. q \in ToClientMessages /\ q.type = "REQUEST_REPLY"
  BY <1>2, TalkMessages DEF Talk, About
<1> HIDE DEF q, m
<1> DEFINE r == <<q>>
<1>4. r \in Seq(ToClientMessages) /\ \A j \in DOMAIN r : r[j].type = "REQUEST_REPLY"
  BY <1>3
<1>5. \A j \in DOMAIN r : ~IsPreedit(r[j]) /\ r[j].type # "CREATE_IC_REPLY"
  BY <1>4 DEF IsPreedit
<1>6. GiveUpWord(c, m.ic, r)
  BY <1>1
<1> HIDE DEF r
<1>7. PICK s \in Seq(Says(m.ic)) : /\ toClient' = Send(toClient, c, s \o r)
                                   /\ Fits(s, m.ic, ics[m.ic].len, ics'[m.ic].len)
  BY <1>1, <1>2, <1>6, GiveUpFits DEF InStep
<1>8. /\ \A k \in ICID : k # m.ic => ics'[k] = ics[k]
      /\ ~ics'[m.ic].enabled => ics'[m.ic].len = 0
      /\ lastId' = lastId /\ UNCHANGED clientVars
  BY <1>1, <1>2, <1>6, GiveUpFits DEF InStep
<1> QED
  BY <1>2, <1>4, <1>5, <1>7, <1>8, ShowsInStep

\* A context destroyed is no longer the client's.
LEMMA DestroyICInStep ==
  ASSUME Inv, Owners, InStep, NEW c \in Clients, HandleDestroyIC(c) PROVE InStep'
<1> DEFINE m == Head(toServer[c])
           q == About("REQUEST_REPLY", m.ic)
<1>1. TypeOK /\ ServerTypeOK /\ Incoming(c, "DESTROY_IC")
  BY DEF Inv, TypeOK, HandleDestroyIC
<1>2. /\ m.ic \in ICID /\ m.ic \in Ids(c) /\ m.type = "DESTROY_IC"
      /\ toServer[c] \in Seq(ToServerMessages) /\ toServer[c] # <<>>
  BY <1>1, IncomingType, ToServerTypes, HeadIds DEF Requests
<1>3. q \in ToClientMessages /\ q.type = "REQUEST_REPLY" /\ ~IsPreedit(q)
  BY <1>2, TalkMessages DEF Talk, About, IsPreedit
<1>4. m.ic \notin Held(c)
  <2>1. m = toServer[c][1] /\ 1 \in DOMAIN toServer[c]
    BY <1>2, TailFacts
  <2> QED
    BY <1>2, <2>1 DEF Owners, GivenUp
<1>5. /\ toClient' = Send(toClient, c, <<q>>) /\ ics' = [ics EXCEPT ![m.ic] = Unborn]
      /\ lastId' = lastId /\ UNCHANGED clientVars
  BY DEF HandleDestroyIC
<1> HIDE DEF q, m
<1> DEFINE s == <<q>>
<1>6. s \in Seq(ToClientMessages) /\ \A j \in DOMAIN s : s[j].type # "CREATE_IC_REPLY"
  BY <1>3
<1>7. \A k, x : Fits(s, k, x, x)
  BY <1>3, FitsOther
<1>8. toClient' = Send(toClient, c, s)
  BY <1>5
<1> HIDE DEF s
<1>9. ics \in [ICID -> Contexts]
  BY <1>1 DEF ServerTypeOK, Contexts
<1>10. \A k \in ICID : k # m.ic => ics'[k] = ics[k]
  BY <1>5, <1>9
<1>11. ics'[m.ic].len = 0
  BY <1>2, <1>5, <1>9 DEF Unborn
<1>12. Dark'
  BY <1>10, <1>11 DEF InStep, Dark
<1>13. \A k \in Held(c) : Fits(s, k, ics[k].len, ics'[k].len)
  <2> SUFFICES ASSUME NEW k \in Held(c) PROVE Fits(s, k, ics[k].len, ics'[k].len)
    OBVIOUS
  <2>1. k \in ICID /\ k # m.ic
    BY <1>4, HeldFacts
  <2> QED
    BY <1>7, <1>10, <2>1
<1>14. \A k \in ICID : ics'[k] # ics[k] => k \in Ids(c)
  BY <1>2, <1>10
<1> QED
  BY <1>5, <1>6, <1>8, <1>12, <1>13, <1>14, SentInStep

\* The server draws nothing for a client that leaves.
LEMMA DisconnectInStep ==
  ASSUME Inv, Owners, InStep, NEW c \in Clients, HandleDisconnect(c) PROVE InStep'
<1> DEFINE q == Plain("DISCONNECT_REPLY")
<1>1. q \in ToClientMessages /\ q.type = "DISCONNECT_REPLY" /\ ~IsPreedit(q)
  BY DEF Plain, ToClientMessages, IsPreedit
<1>2. /\ toClient' = Send(toClient, c, <<q>>) /\ ics' = ics
      /\ lastId' = lastId /\ UNCHANGED clientVars
  BY DEF HandleDisconnect
<1> HIDE DEF q
<1> DEFINE s == <<q>>
<1>3. s \in Seq(ToClientMessages) /\ \A j \in DOMAIN s : s[j].type # "CREATE_IC_REPLY"
  BY <1>1
<1>4. \A k, x : Fits(s, k, x, x)
  BY <1>1, FitsOther
<1>5. toClient' = Send(toClient, c, s)
  BY <1>2
<1> HIDE DEF s
<1>6. Dark'
  BY <1>2 DEF InStep, Dark
<1>7. /\ \A k \in Held(c) : Fits(s, k, ics[k].len, ics'[k].len)
      /\ \A k \in ICID : ics'[k] # ics[k] => k \in Ids(c)
  BY <1>2, <1>4
<1> QED
  BY <1>2, <1>3, <1>5, <1>6, <1>7, SentInStep

\* A new context displays nothing, and nothing on its way says it would.
LEMMA CreateICInStep ==
  ASSUME Inv, Owners, InStep, NEW c \in Clients, HandleCreateIC(c) PROVE InStep'
<1> DEFINE new == lastId'
           q == About("CREATE_IC_REPLY", new)
<1>1. TypeOK /\ ServerTypeOK /\ ClientTypeOK /\ TypeOK'
  BY NextInv DEF Inv, TypeOK, Next, Handle
<1>2. new = lastId + 1 /\ new \in ICID /\ lastId \in ICID
  BY <1>1, NextId DEF TypeOK, ServerTypeOK
<1>3. q \in ToClientMessages /\ q.type = "CREATE_IC_REPLY" /\ q.ic = new
      /\ ~IsPreedit(q)
  BY <1>2, TalkMessages DEF Talk, About, IsPreedit
<1>4. /\ toClient' = Send(toClient, c, <<q>>) /\ ics' = [ics EXCEPT ![new] = NewIC]
      /\ UNCHANGED clientVars
  BY DEF HandleCreateIC
<1>5. mine' = mine /\ state' = state /\ shown' = shown
  BY <1>4 DEF clientVars
<1> HIDE DEF q, new
<1> DEFINE s == <<q>>
<1>6. s \in Seq(ToClientMessages) /\ \A j \in DOMAIN s : s[j] = q
  BY <1>3
<1>7. \A k, x : Fits(s, k, x, x)
  BY <1>3, FitsOther
<1>8. toClient' = Send(toClient, c, s)
  BY <1>4
<1> HIDE DEF s
<1>9. toClient \in [Clients -> Seq(ToClientMessages)] /\ ics \in [ICID -> Contexts]
  BY <1>1 DEF TypeOK, ChannelsTypeOK, ServerTypeOK, Contexts
<1>10. /\ toClient'[c] = toClient[c] \o s
       /\ \A x \in Clients \ {c} : toClient'[x] = toClient[x]
  BY <1>8, <1>9 DEF Send
<1>11. /\ \A k \in ICID : k # new => ics'[k] = ics[k]
       /\ ics'[new].len = 0 /\ shown[new] = 0
  BY <1>2, <1>4, <1>9 DEF NewIC, InStep, Unseen, ICID
<1>12. \A x \in Clients : new \notin Ids(x)
  BY <1>2, HeldFacts DEF ICID
<1>13. ASSUME NEW x \in Clients, NEW k \in Held(x)', x # c \/ k # new PROVE k \in Held(x)
  <2>1. CASE x = c
    <3>1. \A j \in DOMAIN toClient'[c] :
            \/ j \in DOMAIN toClient[c] /\ toClient'[c][j] = toClient[c][j]
            \/ toClient'[c][j] = q
      BY <1>6, <1>9, <1>10, ConcatFacts
    <3>2. k \in mine[c] \/ k \in Coming(c)'
      BY <1>5, <1>13, <2>1 DEF Held
    <3>3. k \in Coming(c)' => k \in Coming(c)
      BY <1>3, <1>13, <2>1, <3>1 DEF Coming
    <3> QED
      BY <2>1, <3>2, <3>3 DEF Held
  <2>2. CASE x # c
    BY <1>5, <1>10, <1>13, <2>2 DEF Held, Coming
  <2> QED
    BY <2>1, <2>2
<1>14. ASSUME NEW x \in Clients, NEW k \in Held(x)
       PROVE  Fits(toClient'[x], k, shown'[k], ics'[k].len)
  <2>1. Fits(toClient[x], k, shown[k], ics[k].len)
    BY DEF InStep, Fitted
  <2>2. k \in Ids(x) /\ k \in ICID
    BY HeldFacts
  <2>3. ics'[k] = ics[k]
    BY <1>11, <1>12, <2>2
  <2>4. CASE x = c
    BY <1>5, <1>6, <1>7, <1>9, <1>10, <2>1, <2>3, <2>4, FitsConcat
  <2>5. CASE x # c
    BY <1>5, <1>10, <2>1, <2>3, <2>5
  <2> QED
    BY <2>4, <2>5
<1>15. Fits(toClient'[c], new, shown'[new], ics'[new].len)
  <2>1. \A j \in DOMAIN toClient[c] : ~ (IsPreedit(toClient[c][j]) /\ toClient[c][j].ic = new)
    <3>1. \A j \in DOMAIN toClient[c] :
            IsPreedit(toClient[c][j]) => toClient[c][j].ic \in Subjects(toClient[c])
      BY DEF IsPreedit, Subjects
    <3>2. new \notin Subjects(toClient[c])
      BY <1>12 DEF Ids
    <3> QED
      BY <3>1, <3>2
  <2>2. Fits(toClient[c], new, 0, 0)
    BY <1>9, <2>1, FitsSilent
  <2>3. Fits(toClient[c] \o s, new, 0, 0)
    <3>1. Fits(s, new, 0, 0) /\ toClient[c] \in Seq(ToClientMessages)
      BY <1>7, <1>9
    <3> QED
      BY <1>6, <2>2, <3>1, FitsConcat
  <2> QED
    BY <1>5, <1>10, <1>11, <2>3
<1>16. Fitted'
  <2> SUFFICES ASSUME NEW x \in Clients, NEW k \in Held(x)'
               PROVE  Fits(toClient'[x], k, shown'[k], ics'[k].len)
    BY DEF Fitted
  <2>1. CASE x = c /\ k = new
    BY <1>15, <2>1
  <2>2. CASE x # c \/ k # new
    BY <1>13, <1>14, <2>2
  <2> QED
    BY <2>1, <2>2
<1>17. Unseen'
  BY <1>2, <1>5 DEF InStep, Unseen, new, ICID
<1>18. Dark'
  BY <1>11 DEF InStep, Dark
<1>19. Parted'
  BY <1>5 DEF InStep, Parted
<1> QED
  BY <1>16, <1>17, <1>18, <1>19 DEF InStep

\* Users and clients that speak to the server display what they did.
LEMMA SpokenInStep ==
  ASSUME Inv, InStep, UNCHANGED <<serverVars, toClient, shown>>,
         \A x \in Clients : mine'[x] \subseteq mine[x], Parted'
  PROVE  InStep'
<1>1. ics' = ics /\ lastId' = lastId /\ toClient' = toClient /\ shown' = shown
  BY DEF serverVars
<1>2. \A x \in Clients : Held(x)' \subseteq Held(x)
  BY <1>1 DEF Held, Coming
<1> QED
  BY <1>1, <1>2, QuietInStep

\* What a user does changes no display.
LEMMA UserInStep ==
  ASSUME Inv, InStep, NEW c \in Clients, UserAct(c) PROVE InStep'
<1>1. /\ mine \in [Clients -> SUBSET ICID]
      /\ state \in [Clients -> {"idle", "blocked", "leaving"}]
  BY DEF Inv, TypeOK, ClientTypeOK
<1>2. CASE OpenIC(c)
  <2>1. UNCHANGED <<serverVars, toClient, shown, mine>>
        /\ state' = [state EXCEPT ![c] = "blocked"]
    BY <1>2 DEF OpenIC
  <2>2. Parted'
    BY <1>1, <2>1 DEF InStep, Parted
  <2> QED
    BY <2>1, <2>2, SpokenInStep
<1>3. CASE Leave(c)
  <2>1. UNCHANGED <<serverVars, toClient, shown>> /\ mine' = [mine EXCEPT ![c] = {}]
        /\ state' = [state EXCEPT ![c] = "leaving"]
    BY <1>3 DEF Leave
  <2>2. Parted' /\ \A x \in Clients : mine'[x] \subseteq mine[x]
    BY <1>1, <2>1 DEF InStep, Parted
  <2> QED
    BY <2>1, <2>2, SpokenInStep
<1>4. ASSUME NEW i \in ICID, CloseIC(c, i) PROVE InStep'
  <2>1. UNCHANGED <<serverVars, toClient, shown>> /\ mine' = [mine EXCEPT ![c] = @ \ {i}]
        /\ state' = [state EXCEPT ![c] = "blocked"]
    BY <1>4 DEF CloseIC
  <2>2. Parted' /\ \A x \in Clients : mine'[x] \subseteq mine[x]
    BY <1>1, <2>1 DEF InStep, Parted
  <2> QED
    BY <2>1, <2>2, SpokenInStep
<1>5. ASSUME NEW i \in ICID, ResetIC(c, i) PROVE InStep'
  <2>1. UNCHANGED <<serverVars, toClient, shown, mine>>
        /\ state' = [state EXCEPT ![c] = "blocked"]
    BY <1>5 DEF ResetIC
  <2>2. Parted'
    BY <1>1, <2>1 DEF InStep, Parted
  <2> QED
    BY <2>1, <2>2, SpokenInStep
<1>6. ASSUME NEW ev \in Keyboard, TypeKey(c, ev) PROVE InStep'
  <2>1. UNCHANGED <<serverVars, toClient, shown, mine, state>>
    BY <1>6 DEF TypeKey
  <2>2. Parted'
    BY <2>1 DEF InStep, Parted
  <2> QED
    BY <2>1, <2>2, SpokenInStep
<1> QED
  BY <1>2, <1>3, <1>4, <1>5, <1>6 DEF UserAct

\* Nor does a focus that moves.
LEMMA MoveFocusInStep ==
  ASSUME Inv, InStep, NEW i \in ICID \cup {NoIC}, MoveFocus(i) PROVE InStep'
<1>1. UNCHANGED <<serverVars, toClient, shown, mine, state>>
  BY DEF MoveFocus
<1>2. Parted'
  BY <1>1 DEF InStep, Parted
<1> QED
  BY <1>1, <1>2, SpokenInStep

\* The message received finds on display what it replaces.
LEMMA ReceiveInStep ==
  ASSUME Inv, Owners, InStep, NEW c \in Clients, Receive(c) PROVE InStep'
<1>1. PICK m : m = Head(toClient[c])
  OBVIOUS
<1>2. /\ toClient[c] \in Seq(ToClientMessages) /\ toClient[c] # <<>>
      /\ m \in ToClientMessages /\ m.ic \in ICID /\ m.type # "DISCONNECT_REPLY"
      /\ toClient'[c] = Tail(toClient[c])
      /\ \A x \in Clients \ {c} : toClient'[x] = toClient[x]
      /\ mine'[c] = IF m.type = "CREATE_IC_REPLY" THEN mine[c] \cup {m.ic} ELSE mine[c]
      /\ state'[c] = IF m.type \in Answering THEN "idle" ELSE state[c]
      /\ \A x \in Clients \ {c} : mine'[x] = mine[x] /\ state'[x] = state[x]
      /\ state[c] # "leaving" /\ Apply(m)
  BY <1>1, Received
<1>3. ics' = ics /\ lastId' = lastId
  BY Received DEF serverVars
<1>4. shown \in [ICID -> Int]
  BY DEF Inv, TypeOK, ClientTypeOK
<1>5. m.ic \in Ids(c)
  <2>1. m.type \notin {"CREATE_IC", "DISCONNECT", "DISCONNECT_REPLY"}
    BY <1>2 DEF ToClientMessages
  <2> QED
    BY <1>1, <1>2, <2>1, SubjectsTail DEF Ids
<1>6. \A k \in ICID : k # m.ic => shown'[k] = shown[k]
  BY <1>2, <1>4 DEF Apply
<1>7. ASSUME NEW x \in Clients PROVE Held(x)' \subseteq Held(x)
  <2>1. CASE x = c
    <3>1. /\ m = toClient[c][1] /\ 1 \in DOMAIN toClient[c]
          /\ \A j \in DOMAIN toClient'[c] :
               j + 1 \in DOMAIN toClient[c] /\ toClient'[c][j] = toClient[c][j + 1]
      BY <1>1, <1>2, TailFacts
    <3>2. Coming(c)' \subseteq Coming(c)
      BY <3>1 DEF Coming
    <3>3. m.type = "CREATE_IC_REPLY" => m.ic \in Coming(c)
      BY <3>1 DEF Coming
    <3> QED
      BY <1>2, <2>1, <3>2, <3>3 DEF Held
  <2>2. CASE x # c
    BY <1>2, <2>2 DEF Held, Coming
  <2> QED
    BY <2>1, <2>2
<1>8. ASSUME NEW k \in Held(c) PROVE Fits(toClient'[c], k, shown'[k], ics'[k].len)
  <2>1. Fits(toClient[c], k, shown[k], ics[k].len)
    BY DEF InStep, Fitted
  <2>2. /\ FitsAt(m, k, shown[k])
        /\ Fits(toClient'[c], k, IF m.type = "PREEDIT_DRAW" /\ m.ic = k
                                 THEN m.length ELSE shown[k], ics[k].len)
    BY <1>1, <1>2, <2>1, FitsTail
  <2>3. k \in ICID
    BY HeldFacts
  <2>4. shown'[k] = IF m.type = "PREEDIT_DRAW" /\ m.ic = k THEN m.length ELSE shown[k]
    <3>1. CASE k # m.ic
      BY <1>6, <2>3, <3>1
    <3>2. CASE k = m.ic /\ m.type = "PREEDIT_DRAW"
      <4>1. m.chg_length = shown[k]
        BY <2>2, <3>2 DEF FitsAt, IsPreedit
      <4>2. m.length \in Int /\ shown[k] \in Int
        BY <1>2, <1>4, <2>3, <3>2, ToClientTypes, MaxLenPositive
      <4>3. shown'[k] = shown[k] - m.chg_length + m.length
        BY <1>2, <1>4, <2>3, <3>2 DEF Apply
      <4> QED
        BY <3>2, <4>1, <4>2, <4>3
    <3>3. CASE k = m.ic /\ m.type \in {"PREEDIT_START", "PREEDIT_DONE"}
      <4>1. shown[k] = 0
        BY <2>2, <3>3 DEF FitsAt, IsPreedit
      <4>2. shown'[k] = 0
        BY <1>2, <1>4, <2>3, <3>3 DEF Apply
      <4> QED
        BY <3>3, <4>1, <4>2
    <3>4. CASE ~IsPreedit(m)
      BY <1>2, <3>4 DEF Apply, IsPreedit
    <3> QED
      BY <3>1, <3>2, <3>3, <3>4 DEF IsPreedit
  <2> QED
    BY <1>3, <2>2, <2>4
<1>9. Fitted'
  <2> SUFFICES ASSUME NEW x \in Clients, NEW k \in Held(x)
               PROVE  Fits(toClient'[x], k, shown'[k], ics'[k].len)
    BY <1>7 DEF Fitted
  <2>1. CASE x = c
    BY <1>8, <2>1
  <2>2. CASE x # c
    <3>1. k \in ICID /\ k # m.ic
      BY <1>5, <2>2, HeldFacts DEF Owners, Owned
    <3> QED
      BY <1>2, <1>3, <1>6, <2>2, <3>1 DEF InStep, Fitted
  <2> QED
    BY <2>1, <2>2
<1>10. Unseen'
  <2> SUFFICES ASSUME NEW k \in ICID, k > lastId PROVE shown'[k] = 0
    BY <1>3 DEF Unseen
  <2>1. k # m.ic
    <3>1. m.ic <= lastId /\ lastId \in ICID
      BY <1>5, HeldFacts DEF Inv, TypeOK, ServerTypeOK
    <3> QED
      BY <1>2, <3>1 DEF ICID
  <2> QED
    BY <1>6, <2>1 DEF InStep, Unseen
<1>11. Dark' /\ Parted'
  BY <1>2, <1>3 DEF InStep, Dark, Parted
<1> QED
  BY <1>9, <1>10, <1>11 DEF InStep

\* A client that leaves displays none of its contexts any more.
LEMMA ReceiveLeavingInStep ==
  ASSUME Inv, Owners, InStep, NEW c \in Clients, ReceiveLeaving(c) PROVE InStep'
<1>1. /\ toClient \in [Clients -> Seq(ToClientMessages)]
      /\ state \in [Clients -> {"idle", "blocked", "leaving"}]
      /\ toClient[c] # <<>> /\ state[c] = "leaving"
  BY DEF Inv, TypeOK, ClientTypeOK, ChannelsTypeOK, ReceiveLeaving
<1>2. /\ toClient'[c] = Tail(toClient[c])
      /\ \A x \in Clients \ {c} : toClient'[x] = toClient[x] /\ state'[x] = state[x]
      /\ mine' = mine /\ shown' = shown /\ ics' = ics /\ lastId' = lastId
  BY <1>1 DEF ReceiveLeaving, serverVars
<1>3. mine[c] = {} /\ None(toClient[c], Answering)
  BY <1>1 DEF InStep, Parted, Owners, OneRequest
<1>4. None(toClient'[c], Answering)
  BY <1>1, <1>2, <1>3, NoneTail
<1>5. Held(c)' = {}
  BY <1>2, <1>3, <1>4 DEF Held, Coming, None, Answering
<1>6. \A x \in Clients \ {c} : Held(x)' = Held(x)
  BY <1>2 DEF Held, Coming
<1>7. Fitted'
  BY <1>2, <1>5, <1>6 DEF InStep, Fitted
<1>8. Unseen' /\ Dark' /\ Parted'
  BY <1>2, <1>3 DEF InStep, Unseen, Dark, Parted
<1> QED
  BY <1>7, <1>8 DEF InStep

\* At first nothing is displayed.
LEMMA InitInStep == Init => InStep
<1> SUFFICES ASSUME Init PROVE InStep
  OBVIOUS
<1>1. \A c \in Clients : Held(c) = {}
  BY DEF Init, Held, Coming
<1>2. Fitted
  BY <1>1 DEF Fitted
<1>3. Unseen /\ Dark /\ Parted
  BY DEF Init, Unseen, Dark, Parted, Unborn
<1> QED
  BY <1>2, <1>3 DEF InStep

\* Every step keeps the displays.
LEMMA NextInStep == Inv /\ Owners /\ InStep /\ [Next]_vars => InStep'
<1> SUFFICES ASSUME Inv, Owners, InStep, [Next]_vars PROVE InStep'
  OBVIOUS
<1>1. ASSUME NEW c \in Clients, Handle(c) PROVE InStep'
  BY <1>1, ForwardEventInStep, SyncReplyInStep, DrainPendingInStep, CreateICInStep,
     DestroyICInStep, SetFocusInStep, UnsetFocusInStep, ResetICInStep, DisconnectInStep
     DEF Handle
<1>2. ASSUME NEW c \in Clients, Receive(c) \/ ReceiveLeaving(c) PROVE InStep'
  BY <1>2, ReceiveInStep, ReceiveLeavingInStep
<1>3. ASSUME NEW c \in Clients, UserAct(c) PROVE InStep'
  BY <1>3, UserInStep
<1>4. ASSUME NEW i \in ICID \cup {NoIC}, MoveFocus(i) PROVE InStep'
  BY <1>4, MoveFocusInStep
<1>5. CASE UNCHANGED vars
  <2>1. UNCHANGED <<serverVars, toClient, shown, mine, state>>
    BY <1>5 DEF vars, serverVars, channels, clientVars
  <2>2. Parted'
    BY <2>1 DEF InStep, Parted
  <2> QED
    BY <2>1, <2>2, SpokenInStep
<1> QED
  BY <1>1, <1>2, <1>3, <1>4, <1>5 DEF Next

\* What Fitted says of a channel is what PreeditInStep says.
LEMMA DisplaysSame == Fitted => PreeditInStep
<1> SUFFICES ASSUME Fitted, NEW c \in Clients, NEW i \in mine[c]
             PROVE  /\ \A j \in DOMAIN toClient[c] :
                         IsPreedit(toClient[c][j]) /\ toClient[c][j].ic = i =>
                           IF toClient[c][j].type = "PREEDIT_DRAW"
                           THEN toClient[c][j].chg_length = ShownAfter(c, i, j - 1)
                           ELSE ShownAfter(c, i, j - 1) = 0
                    /\ ics[i].len = ShownAfter(c, i, Len(toClient[c]))
  BY DEF PreeditInStep
<1>1. \A j : ShownAfter(c, i, j) = After(toClient[c], i, shown[i], j)
  BY DEF ShownAfter, After, DrawsOf, Draws
<1>2. Fits(toClient[c], i, shown[i], ics[i].len)
  BY DEF Fitted, Held
<1> QED
  BY <1>1, <1>2 DEF Fits

(***************************************************************************)
(* A step keeps the two invariants, the second by the first.               *)
(***************************************************************************)
THEOREM SpecInStep == Spec => [](Inv /\ Owners /\ InStep)
<1>1. Init => Inv /\ Owners /\ InStep
  BY InitInv, InitOwners, InitInStep
<1>2. (Inv /\ Owners /\ InStep) /\ [Next]_vars => (Inv /\ Owners /\ InStep)'
  BY NextInv, NextOwners, NextInStep
<1> QED
  BY <1>1, <1>2, PTL DEF Spec

(***************************************************************************)
(* preedit_len of xim.c and the characters a client displays agree across  *)
(* the channel: every PREEDIT_DRAW that IMPreeditDraw sends replaces what  *)
(* will be on display when it arrives, however many messages are on their  *)
(* way and whatever the users do meanwhile.                                *)
(***************************************************************************)
THEOREM DisplaysInStep == Spec => []PreeditInStep
<1>1. InStep => PreeditInStep
  BY DisplaysSame DEF InStep
<1> QED
  BY <1>1, SpecInStep, PTL
-----------------------------------------------------------------------------
(* Keys in sequences.                                                      *)

\* The keys of two sequences together, of one without its first, of one key.
LEMMA ElemsConcat ==
  ASSUME NEW S, NEW s \in Seq(S), NEW t \in Seq(S)
  PROVE  Elems(s \o t) = Elems(s) \cup Elems(t)
<1>1. /\ \A j \in DOMAIN s : j \in DOMAIN (s \o t) /\ (s \o t)[j] = s[j]
      /\ \A j \in DOMAIN t : Len(s) + j \in DOMAIN (s \o t) /\ (s \o t)[Len(s) + j] = t[j]
      /\ \A j \in DOMAIN (s \o t) :
              j \in DOMAIN s \/ \E p \in DOMAIN t : j = Len(s) + p
  BY ConcatFacts
<1>2. ASSUME NEW k \in Elems(s \o t) PROVE k \in Elems(s) \cup Elems(t)
  <2>1. PICK j \in DOMAIN (s \o t) : k = (s \o t)[j]
    BY DEF Elems
  <2> QED
    BY <1>1, <2>1 DEF Elems
<1>3. ASSUME NEW k \in Elems(s) PROVE k \in Elems(s \o t)
  BY <1>1 DEF Elems
<1>4. ASSUME NEW k \in Elems(t) PROVE k \in Elems(s \o t)
  <2>1. PICK j \in DOMAIN t : k = t[j]
    BY DEF Elems
  <2>2. Len(s) + j \in DOMAIN (s \o t) /\ k = (s \o t)[Len(s) + j]
    BY <1>1, <2>1
  <2> QED
    BY <2>2 DEF Elems
<1> QED
  BY <1>2, <1>3, <1>4

\* The keys of a sequence are its first and those of the rest.
LEMMA ElemsTail ==
  ASSUME NEW S, NEW s \in Seq(S), s # <<>>
  PROVE  Elems(s) = {Head(s)} \cup Elems(Tail(s))
<1>1. /\ Head(s) = s[1] /\ 1 \in DOMAIN s
      /\ \A j \in DOMAIN Tail(s) : j + 1 \in DOMAIN s /\ Tail(s)[j] = s[j + 1]
      /\ \A j \in DOMAIN s : j # 1 => j - 1 \in DOMAIN Tail(s) /\ Tail(s)[j - 1] = s[j]
  BY TailFacts
<1>2. ASSUME NEW k \in Elems(s) PROVE k \in {Head(s)} \cup Elems(Tail(s))
  <2>1. PICK j \in DOMAIN s : k = s[j]
    BY DEF Elems
  <2>2. j # 1 => j - 1 \in DOMAIN Tail(s) /\ k = Tail(s)[j - 1]
    BY <1>1, <2>1
  <2> QED
    BY <1>1, <2>1, <2>2 DEF Elems
<1>3. ASSUME NEW k \in Elems(Tail(s)) PROVE k \in Elems(s)
  BY <1>1 DEF Elems
<1>4. Head(s) \in Elems(s)
  BY <1>1 DEF Elems
<1> QED
  BY <1>2, <1>3, <1>4

\* A sequence of one key.
LEMMA ElemsOne == ASSUME NEW k PROVE Elems(<<k>>) = {k} /\ Once(<<k>>)
BY DEF Elems, Once

\* A sequence of none.
LEMMA ElemsNone == Elems(<<>>) = {} /\ Once(<<>>)
BY DEF Elems, Once

\* One number more, which is not there yet, is there once.
LEMMA OnceConcat ==
  ASSUME NEW S, NEW s \in Seq(S), NEW t \in Seq(S), Once(s), Once(t),
         \A k \in Elems(s), h \in Elems(t) : k.n # h.n
  PROVE  Once(s \o t)
<1> SUFFICES ASSUME NEW j \in DOMAIN (s \o t), NEW p \in DOMAIN (s \o t),
                    (s \o t)[j].n = (s \o t)[p].n
             PROVE  j = p
  BY DEF Once
<1>1. \/ j \in DOMAIN s /\ (s \o t)[j] = s[j]
      \/ \E q \in DOMAIN t : j = Len(s) + q /\ (s \o t)[j] = t[q]
  BY ConcatElement
<1>2. \/ p \in DOMAIN s /\ (s \o t)[p] = s[p]
      \/ \E q \in DOMAIN t : p = Len(s) + q /\ (s \o t)[p] = t[q]
  BY ConcatElement
<1> QED
  BY <1>1, <1>2 DEF Once, Elems

\* Once the first key is taken its number is gone.
LEMMA OnceTail ==
  ASSUME NEW S, NEW s \in Seq(S), s # <<>>, Once(s)
  PROVE  Once(Tail(s)) /\ Head(s) \notin Elems(Tail(s))
<1>1. /\ Head(s) = s[1] /\ 1 \in DOMAIN s /\ DOMAIN Tail(s) = 1..(Len(s) - 1)
      /\ Len(s) \in Nat
      /\ \A j \in DOMAIN Tail(s) : j + 1 \in DOMAIN s /\ Tail(s)[j] = s[j + 1]
  BY TailFacts
<1>2. ASSUME NEW j \in DOMAIN Tail(s), NEW p \in DOMAIN Tail(s), Tail(s)[j].n = Tail(s)[p].n
      PROVE  j = p
  <2>1. j + 1 = p + 1
    BY <1>1, <1>2 DEF Once
  <2> QED
    BY <1>1, <2>1
<1>3. ASSUME NEW j \in DOMAIN Tail(s), Tail(s)[j] = Head(s) PROVE FALSE
  <2>1. j + 1 = 1
    BY <1>1, <1>3 DEF Once
  <2> QED
    BY <1>1, <2>1
<1> QED
  BY <1>2, <1>3 DEF Once, Elems

\* The same of messages.
LEMMA KeysOfConcat ==
  ASSUME NEW S, NEW s \in Seq(S), NEW t \in Seq(S)
  PROVE  KeysOf(s \o t) = KeysOf(s) \cup KeysOf(t)
<1>1. /\ \A j \in DOMAIN s : j \in DOMAIN (s \o t) /\ (s \o t)[j] = s[j]
      /\ \A j \in DOMAIN t : Len(s) + j \in DOMAIN (s \o t) /\ (s \o t)[Len(s) + j] = t[j]
      /\ \A j \in DOMAIN (s \o t) :
              j \in DOMAIN s \/ \E p \in DOMAIN t : j = Len(s) + p
  BY ConcatFacts
<1>2. ASSUME NEW k \in KeysOf(s \o t) PROVE k \in KeysOf(s) \cup KeysOf(t)
  <2>1. PICK j \in DOMAIN (s \o t) : k \in Elems(Carried((s \o t)[j]))
    BY DEF KeysOf
  <2> QED
    BY <1>1, <2>1 DEF KeysOf
<1>3. ASSUME NEW k \in KeysOf(s) PROVE k \in KeysOf(s \o t)
  <2>1. PICK j \in DOMAIN s : k \in Elems(Carried(s[j]))
    BY DEF KeysOf
  <2>2. j \in DOMAIN (s \o t) /\ k \in Elems(Carried((s \o t)[j]))
    BY <1>1, <2>1
  <2> QED
    BY <2>2 DEF KeysOf
<1>4. ASSUME NEW k \in KeysOf(t) PROVE k \in KeysOf(s \o t)
  <2>1. PICK j \in DOMAIN t : k \in Elems(Carried(t[j]))
    BY DEF KeysOf
  <2>2. Len(s) + j \in DOMAIN (s \o t) /\ k \in Elems(Carried((s \o t)[Len(s) + j]))
    BY <1>1, <2>1
  <2> QED
    BY <2>2 DEF KeysOf
<1> QED
  BY <1>2, <1>3, <1>4

\* The keys of a channel are those of its first message and of the rest.
LEMMA KeysOfTail ==
  ASSUME NEW S, NEW s \in Seq(S), s # <<>>
  PROVE  KeysOf(s) = Elems(Carried(Head(s))) \cup KeysOf(Tail(s))
<1>1. /\ Head(s) = s[1] /\ 1 \in DOMAIN s
      /\ \A j \in DOMAIN Tail(s) : j + 1 \in DOMAIN s /\ Tail(s)[j] = s[j + 1]
      /\ \A j \in DOMAIN s : j # 1 => j - 1 \in DOMAIN Tail(s) /\ Tail(s)[j - 1] = s[j]
  BY TailFacts
<1>2. ASSUME NEW k \in KeysOf(s) PROVE k \in Elems(Carried(Head(s))) \cup KeysOf(Tail(s))
  <2>1. PICK j \in DOMAIN s : k \in Elems(Carried(s[j]))
    BY DEF KeysOf
  <2>2. j # 1 => j - 1 \in DOMAIN Tail(s) /\ k \in Elems(Carried(Tail(s)[j - 1]))
    BY <1>1, <2>1
  <2> QED
    BY <1>1, <2>1, <2>2 DEF KeysOf
<1>3. ASSUME NEW k \in KeysOf(Tail(s)) PROVE k \in KeysOf(s)
  <2>1. PICK j \in DOMAIN Tail(s) : k \in Elems(Carried(Tail(s)[j]))
    BY DEF KeysOf
  <2>2. j + 1 \in DOMAIN s /\ k \in Elems(Carried(s[j + 1]))
    BY <1>1, <2>1
  <2> QED
    BY <2>2 DEF KeysOf
<1>4. Elems(Carried(Head(s))) \subseteq KeysOf(s)
  BY <1>1 DEF KeysOf
<1> QED
  BY <1>2, <1>3, <1>4

\* A channel of one message.
LEMMA KeysOfOne ==
  ASSUME NEW m
  PROVE  /\ KeysOf(<<m>>) = Elems(Carried(m))
         /\ Once(Carried(m)) => OnceIn(<<m>>)
<1> DEFINE s == <<m>>
<1>1. DOMAIN s = {1} /\ s[1] = m
  OBVIOUS
<1> HIDE DEF s
<1>2. KeysOf(s) = Elems(Carried(m))
  BY <1>1 DEF KeysOf
<1>3. Once(Carried(m)) => OnceIn(s)
  BY <1>1 DEF OnceIn
<1> QED
  BY <1>2, <1>3 DEF s

\* A channel of none.
LEMMA KeysOfNone == KeysOf(<<>>) = {} /\ OnceIn(<<>>)
BY DEF KeysOf, OnceIn

\* What each message carries.
LEMMA CarriedFacts ==
  ASSUME NEW m
  PROVE  /\ m.type = "FORWARD_EVENT" => Carried(m) = <<m.key>> /\ Elems(Carried(m)) = {m.key}
                                        /\ Once(Carried(m))
         /\ m.type = "COMMIT" => Carried(m) = m.keys
         /\ m.type \notin {"FORWARD_EVENT", "COMMIT"} => Carried(m) = <<>>
              /\ Elems(Carried(m)) = {} /\ Once(Carried(m))
<1>1. m.type = "FORWARD_EVENT" => Carried(m) = <<m.key>>
  BY DEF Carried
<1>2. m.type = "COMMIT" => Carried(m) = m.keys
  BY DEF Carried
<1>3. m.type \notin {"FORWARD_EVENT", "COMMIT"} => Carried(m) = <<>>
  BY DEF Carried
<1> QED
  BY <1>1, <1>2, <1>3, ElemsOne, ElemsNone

\* Channels that carry each number once, one after the other.
LEMMA OnceInConcat ==
  ASSUME NEW S, NEW s \in Seq(S), NEW t \in Seq(S), OnceIn(s), OnceIn(t),
         \A k \in KeysOf(s), h \in KeysOf(t) : k.n # h.n
  PROVE  OnceIn(s \o t)
<1> DEFINE u == s \o t
<1>1. ASSUME NEW j \in DOMAIN u
      PROVE  \/ j \in DOMAIN s /\ u[j] = s[j]
             \/ \E q \in DOMAIN t : j = Len(s) + q /\ u[j] = t[q]
  BY ConcatElement
<1> HIDE DEF u
<1>2. ASSUME NEW j \in DOMAIN u PROVE Once(Carried(u[j]))
  BY <1>1 DEF OnceIn
<1>3. ASSUME NEW j \in DOMAIN u, NEW p \in DOMAIN u,
             NEW k \in Elems(Carried(u[j])), NEW h \in Elems(Carried(u[p])), k.n = h.n
      PROVE  j = p
  <2>1. CASE j \in DOMAIN s /\ u[j] = s[j]
    <3>1. k \in KeysOf(s)
      BY <2>1 DEF KeysOf
    <3>2. CASE p \in DOMAIN s /\ u[p] = s[p]
      BY <1>3, <2>1, <3>2 DEF OnceIn
    <3>3. CASE \E q \in DOMAIN t : p = Len(s) + q /\ u[p] = t[q]
      <4>1. h \in KeysOf(t)
        BY <3>3 DEF KeysOf
      <4> QED
        BY <1>3, <3>1, <4>1
    <3> QED
      BY <1>1, <3>2, <3>3
  <2>2. CASE \E q \in DOMAIN t : j = Len(s) + q /\ u[j] = t[q]
    <3>1. PICK q \in DOMAIN t : j = Len(s) + q /\ u[j] = t[q]
      BY <2>2
    <3>2. k \in KeysOf(t)
      BY <3>1 DEF KeysOf
    <3>3. CASE p \in DOMAIN s /\ u[p] = s[p]
      <4>1. h \in KeysOf(s)
        BY <3>3 DEF KeysOf
      <4> QED
        BY <1>3, <3>2, <4>1
    <3>4. CASE \E r \in DOMAIN t : p = Len(s) + r /\ u[p] = t[r]
      <4>1. PICK r \in DOMAIN t : p = Len(s) + r /\ u[p] = t[r]
        BY <3>4
      <4>2. q = r
        BY <1>3, <3>1, <4>1 DEF OnceIn
      <4> QED
        BY <3>1, <4>1, <4>2
    <3> QED
      BY <1>1, <3>3, <3>4
  <2> QED
    BY <1>1, <2>1, <2>2
<1>4. OnceIn(u)
  BY <1>2, <1>3 DEF OnceIn
<1> QED
  BY <1>4 DEF u

\* Once the first message is taken its keys are gone.
LEMMA OnceInTail ==
  ASSUME NEW S, NEW s \in Seq(S), s # <<>>, OnceIn(s)
  PROVE  /\ OnceIn(Tail(s)) /\ Once(Carried(Head(s)))
         /\ Elems(Carried(Head(s))) \cap KeysOf(Tail(s)) = {}
<1> DEFINE t == Tail(s)
<1>1. /\ Head(s) = s[1] /\ 1 \in DOMAIN s /\ DOMAIN t = 1..(Len(s) - 1) /\ Len(s) \in Nat
      /\ \A j \in DOMAIN t : j + 1 \in DOMAIN s /\ t[j] = s[j + 1]
  BY TailFacts
<1> HIDE DEF t
<1>2. ASSUME NEW j \in DOMAIN t PROVE Once(Carried(t[j]))
  BY <1>1 DEF OnceIn
<1>3. ASSUME NEW j \in DOMAIN t, NEW p \in DOMAIN t,
             NEW k \in Elems(Carried(t[j])), NEW h \in Elems(Carried(t[p])), k.n = h.n
      PROVE  j = p
  <2>1. j + 1 = p + 1
    BY <1>1, <1>3 DEF OnceIn
  <2> QED
    BY <1>1, <2>1
<1>4. ASSUME NEW k \in Elems(Carried(Head(s))), NEW j \in DOMAIN t, k \in Elems(Carried(t[j]))
      PROVE  FALSE
  <2>1. j + 1 = 1
    BY <1>1, <1>4 DEF OnceIn
  <2> QED
    BY <1>1, <2>1
<1>5. OnceIn(t) /\ Elems(Carried(Head(s))) \cap KeysOf(t) = {}
  BY <1>2, <1>3, <1>4 DEF OnceIn, KeysOf
<1> QED
  BY <1>1, <1>5 DEF t, OnceIn

\* Messages that carry no key.
LEMMA Keyless ==
  ASSUME NEW S, NEW s \in Seq(S),
         \A j \in DOMAIN s : s[j].type \notin {"FORWARD_EVENT", "COMMIT"}
  PROVE  KeysOf(s) = {} /\ OnceIn(s)
<1>1. \A j \in DOMAIN s : Elems(Carried(s[j])) = {} /\ Once(Carried(s[j]))
  BY CarriedFacts
<1> QED
  BY <1>1 DEF KeysOf, OnceIn
-----------------------------------------------------------------------------
(* Every key is in one place.                                              *)

\* Boxes are of six kinds, and each is one.
LEMMA BoxKinds ==
  ASSUME NEW b \in Boxes
  PROVE  \/ b = WordBox \/ b = QueueBox
         \/ \E i \in ICID : b = AppBox(i)
         \/ \E c \in Clients : b = PendingBox(c) \/ b = ServerBox(c) \/ b = ClientBox(c)
BY DEF Boxes

\* No two of them are the same.
LEMMA BoxesDiffer ==
  /\ WordBox \in Boxes /\ QueueBox \in Boxes /\ WordBox # QueueBox
  /\ \A i \in ICID : AppBox(i) \in Boxes /\ AppBox(i) # WordBox /\ AppBox(i) # QueueBox
  /\ \A c \in Clients :
       /\ PendingBox(c) \in Boxes /\ ServerBox(c) \in Boxes /\ ClientBox(c) \in Boxes
       /\ WordBox \notin {PendingBox(c), ServerBox(c), ClientBox(c)}
       /\ QueueBox \notin {PendingBox(c), ServerBox(c), ClientBox(c)}
       /\ \A i \in ICID : AppBox(i) \notin {PendingBox(c), ServerBox(c), ClientBox(c)}
       /\ \A d \in Clients :
            /\ PendingBox(c) # ServerBox(d) /\ PendingBox(c) # ClientBox(d)
            /\ ServerBox(c) # ClientBox(d)
            /\ PendingBox(c) = PendingBox(d) => c = d
            /\ ServerBox(c) = ServerBox(d) => c = d
            /\ ClientBox(c) = ClientBox(d) => c = d
  /\ \A i, j \in ICID : AppBox(i) = AppBox(j) => i = j
BY DEF Boxes, WordBox, QueueBox, AppBox, PendingBox, ServerBox, ClientBox

\* What is in each,
LEMMA Contents ==
  /\ Content(WordBox) = Elems(typed)
  /\ Content(QueueBox) = Elems(queue)
  /\ \A i \in ICID : Content(AppBox(i)) = Elems(app[i])
  /\ \A c \in Clients : /\ Content(PendingBox(c)) = KeysOf(pending[c])
                        /\ Content(ServerBox(c)) = KeysOf(toServer[c])
                        /\ Content(ClientBox(c)) = KeysOf(toClient[c])
BY DEF Content, WordBox, QueueBox, AppBox, PendingBox, ServerBox, ClientBox

\* and what is there after a step.
LEMMA ContentsNext ==
  /\ Content(WordBox)' = Elems(typed')
  /\ Content(QueueBox)' = Elems(queue')
  /\ \A i \in ICID : Content(AppBox(i))' = Elems(app'[i])
  /\ \A c \in Clients : /\ Content(PendingBox(c))' = KeysOf(pending'[c])
                        /\ Content(ServerBox(c))' = KeysOf(toServer'[c])
                        /\ Content(ClientBox(c))' = KeysOf(toClient'[c])
BY DEF Content, WordBox, QueueBox, AppBox, PendingBox, ServerBox, ClientBox

\* A step that puts keys into other boxes, each into one, and where they stood
\* they stand no more, leaves every number in one box.
LEMMA StillApart ==
  ASSUME NEW B, NEW f, NEW g, NEW S,
         \A b, d \in B : \A k \in f[b], h \in f[d] : k.n = h.n => b = d /\ k = h,
         \A b \in B : g[b] \subseteq f[b] \cup S,
         \A k \in S : \A b \in B : \A h \in f[b] \cup S : k.n = h.n => k = h,
         \A k \in S : \A b, d \in B : k \in g[b] /\ k \in g[d] => b = d
  PROVE  \A b, d \in B : \A k \in g[b], h \in g[d] : k.n = h.n => b = d /\ k = h
<1> SUFFICES ASSUME NEW b \in B, NEW d \in B, NEW k \in g[b], NEW h \in g[d], k.n = h.n
             PROVE  b = d /\ k = h
  OBVIOUS
<1>1. CASE k \in S
  <2>1. k = h
    BY <1>1
  <2> QED
    BY <1>1, <2>1
<1>2. CASE h \in S
  <2>1. k = h
    BY <1>2
  <2> QED
    BY <1>2, <2>1
<1>3. CASE k \in f[b] /\ h \in f[d]
  BY <1>3
<1> QED
  BY <1>1, <1>2, <1>3
-----------------------------------------------------------------------------
(* The order of keys.                                                      *)

\* The keys that messages to the server carry are those of FORWARD_EVENTs.
LEMMA KeysToServer ==
  ASSUME NEW s \in Seq(ToServerMessages)
  PROVE  /\ \A k \in KeysOf(s) : \E j \in DOMAIN s : s[j].type = "FORWARD_EVENT" /\ s[j].key = k
         /\ \A j \in DOMAIN s : s[j].type = "FORWARD_EVENT" => s[j].key \in KeysOf(s)
<1>1. \A j \in DOMAIN s : s[j] \in ToServerMessages
  BY ElementOfSeq, LenProperties
<1>2. \A j \in DOMAIN s : s[j].type # "COMMIT"
  BY <1>1 DEF ToServerMessages, Requests
<1>3. ASSUME NEW j \in DOMAIN s
      PROVE  /\ s[j].type = "FORWARD_EVENT" => Elems(Carried(s[j])) = {s[j].key}
             /\ s[j].type # "FORWARD_EVENT" => Elems(Carried(s[j])) = {}
  BY <1>2, CarriedFacts
<1>4. ASSUME NEW k \in KeysOf(s)
      PROVE  \E j \in DOMAIN s : s[j].type = "FORWARD_EVENT" /\ s[j].key = k
  <2>1. PICK j \in DOMAIN s : k \in Elems(Carried(s[j]))
    BY DEF KeysOf
  <2> QED
    BY <1>3, <2>1
<1>5. ASSUME NEW j \in DOMAIN s, s[j].type = "FORWARD_EVENT" PROVE s[j].key \in KeysOf(s)
  <2>1. s[j].key \in Elems(Carried(s[j]))
    BY <1>3, <1>5
  <2> QED
    BY <2>1 DEF KeysOf
<1> QED
  BY <1>4, <1>5

\* What is pending are such messages.
LEMMA PendingIsToServer ==
  ASSUME NEW s \in Seq(PendingMessages)
  PROVE  s \in Seq(ToServerMessages) /\ \A j \in DOMAIN s : s[j].type = "FORWARD_EVENT"
<1>1. PendingMessages \subseteq ToServerMessages
  BY DEF PendingMessages, ToServerMessages
<1>2. s \in Seq(ToServerMessages)
  BY <1>1, SeqMonotonic
<1>3. \A j \in DOMAIN s : s[j] \in PendingMessages
  BY ElementOfSeq, LenProperties
<1> QED
  BY <1>2, <1>3 DEF PendingMessages

\* The first key of a sorted channel comes before the others.
LEMMA SortedTail ==
  ASSUME NEW s \in Seq(ToServerMessages), s # <<>>, Sorted(s)
  PROVE  /\ Sorted(Tail(s))
         /\ Head(s).type = "FORWARD_EVENT" =>
              \A h \in KeysOf(Tail(s)) : Head(s).key.n < h.n
<1> DEFINE t == Tail(s)
<1>1. /\ Head(s) = s[1] /\ 1 \in DOMAIN s /\ DOMAIN t = 1..(Len(s) - 1) /\ Len(s) \in Nat
      /\ \A j \in DOMAIN t : j + 1 \in DOMAIN s /\ t[j] = s[j + 1]
      /\ t \in Seq(ToServerMessages)
  BY TailFacts, HeadTailProperties
<1> HIDE DEF t
<1>2. ASSUME NEW j \in DOMAIN t, NEW p \in DOMAIN t,
             t[j].type = "FORWARD_EVENT", t[p].type = "FORWARD_EVENT", j < p
      PROVE  t[j].key.n < t[p].key.n
  <2>1. j + 1 < p + 1
    BY <1>1, <1>2
  <2> QED
    BY <1>1, <1>2, <2>1 DEF Sorted
<1>3. ASSUME Head(s).type = "FORWARD_EVENT", NEW h \in KeysOf(t) PROVE Head(s).key.n < h.n
  <2>1. PICK j \in DOMAIN t : t[j].type = "FORWARD_EVENT" /\ t[j].key = h
    BY <1>1, KeysToServer
  <2>2. 1 < j + 1
    BY <1>1
  <2> QED
    BY <1>1, <1>3, <2>1, <2>2 DEF Sorted
<1>4. Sorted(t) /\ (Head(s).type = "FORWARD_EVENT" =>
                      \A h \in KeysOf(t) : Head(s).key.n < h.n)
  BY <1>2, <1>3 DEF Sorted
<1> QED
  BY <1>4 DEF t

\* Channels put together stay sorted when all the keys of the first come first.
LEMMA SortedConcat ==
  ASSUME NEW s \in Seq(ToServerMessages), NEW t \in Seq(ToServerMessages),
         Sorted(s), Sorted(t), \A k \in KeysOf(s), h \in KeysOf(t) : k.n < h.n
  PROVE  Sorted(s \o t)
<1> DEFINE u == s \o t
<1>1. ASSUME NEW j \in DOMAIN u
      PROVE  \/ j \in DOMAIN s /\ u[j] = s[j]
             \/ \E q \in DOMAIN t : j = Len(s) + q /\ u[j] = t[q]
  BY ConcatElement
<1>2. Len(s) \in Nat /\ DOMAIN s = 1..Len(s) /\ Len(t) \in Nat /\ DOMAIN t = 1..Len(t)
  BY LenProperties
<1> HIDE DEF u
<1>3. ASSUME NEW j \in DOMAIN u, NEW p \in DOMAIN u,
             u[j].type = "FORWARD_EVENT", u[p].type = "FORWARD_EVENT", j < p
      PROVE  u[j].key.n < u[p].key.n
  <2>1. CASE j \in DOMAIN s /\ u[j] = s[j]
    <3>1. u[j].key \in KeysOf(s)
      BY <1>3, <2>1, KeysToServer
    <3>2. CASE p \in DOMAIN s /\ u[p] = s[p]
      BY <1>3, <2>1, <3>2 DEF Sorted
    <3>3. CASE \E q \in DOMAIN t : p = Len(s) + q /\ u[p] = t[q]
      <4>1. u[p].key \in KeysOf(t)
        BY <1>3, <3>3, KeysToServer
      <4> QED
        BY <3>1, <4>1
    <3> QED
      BY <1>1, <3>2, <3>3
  <2>2. CASE \E q \in DOMAIN t : j = Len(s) + q /\ u[j] = t[q]
    <3>1. PICK q \in DOMAIN t : j = Len(s) + q /\ u[j] = t[q]
      BY <2>2
    <3>2. p \notin DOMAIN s
      BY <1>2, <1>3, <3>1
    <3>3. PICK r \in DOMAIN t : p = Len(s) + r /\ u[p] = t[r]
      BY <1>1, <3>2
    <3>4. q < r
      BY <1>2, <1>3, <3>1, <3>3
    <3> QED
      BY <1>3, <3>1, <3>3, <3>4 DEF Sorted
  <2> QED
    BY <1>1, <2>1, <2>2
<1>4. Sorted(u)
  BY <1>3 DEF Sorted
<1> QED
  BY <1>4 DEF u

\* One message, or messages without a key.
LEMMA SortedFew ==
  ASSUME NEW m
  PROVE  /\ Sorted(<<m>>)
         /\ \A s : (\A j \in DOMAIN s : s[j].type # "FORWARD_EVENT") => Sorted(s)
<1> DEFINE s == <<m>>
<1>1. DOMAIN s = {1}
  OBVIOUS
<1> HIDE DEF s
<1>2. Sorted(s)
  BY <1>1 DEF Sorted
<1> QED
  BY <1>2 DEF s, Sorted

\* The server takes keys T of client c, and deals those and the ones it had to
\* the word, to Queue and to the messages s it sends.
Taken(c, T) ==
  /\ \A d \in Clients :
       /\ KeysOf(toServer'[d]) \subseteq KeysOf(toServer[d]) /\ OnceIn(toServer'[d])
       /\ KeysOf(pending'[d]) \subseteq KeysOf(pending[d])   /\ OnceIn(pending'[d])
       /\ Sorted(toServer[d]) => Sorted(toServer'[d])
       /\ Sorted(pending[d]) => Sorted(pending'[d])
  /\ T \subseteq Ahead(c)
  /\ T \cap (KeysOf(toServer'[c]) \cup KeysOf(pending'[c])) = {}

Dealt(T, s) ==
  /\ Once(typed') /\ Once(queue') /\ OnceIn(s)
  /\ Elems(typed') \cup Elems(queue') \cup KeysOf(s)
       \subseteq Elems(typed) \cup Elems(queue) \cup T
  /\ Elems(typed') \cap Elems(queue') = {}
  /\ Elems(typed') \cap KeysOf(s) = {}
  /\ Elems(queue') \cap KeysOf(s) = {}

\* What a client has been sent carries the keys it carried, and those of s.
LEMMA SentKeys ==
  ASSUME TypeOK, NEW c \in Clients, NEW s \in Seq(ToClientMessages),
         toClient' = Send(toClient, c, s)
  PROVE  /\ \A d \in Clients : d # c => toClient'[d] = toClient[d]
         /\ toClient'[c] = toClient[c] \o s
         /\ KeysOf(toClient'[c]) = KeysOf(toClient[c]) \cup KeysOf(s)
<1>1. /\ toClient[c] \in Seq(ToClientMessages)
      /\ \A d \in Clients : d # c => toClient'[d] = toClient[d]
      /\ toClient'[c] = toClient[c] \o s
  BY DEF TypeOK, ChannelsTypeOK, Send
<1> QED
  BY <1>1, KeysOfConcat

\* A server that takes keys and deals them leaves each in one place.
LEMMA ServerDeals ==
  ASSUME TypeOK, OnePlace, NEW c \in Clients, NEW T, NEW s \in Seq(ToClientMessages),
         toClient' = Send(toClient, c, s), Taken(c, T), Dealt(T, s),
         app' = app, pressed' = pressed
  PROVE  OnePlace'
<1> DEFINE f == [b \in Boxes |-> Content(b)]
           g == [b \in Boxes |-> Content(b)']
           S == Elems(typed) \cup Elems(queue) \cup T
<1>1. /\ \A d \in Clients : d # c => toClient'[d] = toClient[d]
      /\ toClient'[c] = toClient[c] \o s
      /\ KeysOf(toClient'[c]) = KeysOf(toClient[c]) \cup KeysOf(s)
  BY SentKeys
<1>2. /\ f[WordBox] = Elems(typed) /\ f[QueueBox] = Elems(queue)
      /\ \A i \in ICID : f[AppBox(i)] = Elems(app[i])
      /\ \A d \in Clients : /\ f[PendingBox(d)] = KeysOf(pending[d])
                            /\ f[ServerBox(d)] = KeysOf(toServer[d])
                            /\ f[ClientBox(d)] = KeysOf(toClient[d])
  BY Contents, BoxesDiffer
<1>3. /\ g[WordBox] = Elems(typed') /\ g[QueueBox] = Elems(queue')
      /\ \A i \in ICID : g[AppBox(i)] = Elems(app[i])
      /\ \A d \in Clients : /\ g[PendingBox(d)] = KeysOf(pending'[d])
                            /\ g[ServerBox(d)] = KeysOf(toServer'[d])
                            /\ g[ClientBox(d)] = KeysOf(toClient'[d])
  BY ContentsNext, BoxesDiffer
<1>4. \A b, d \in Boxes : \A k \in f[b], h \in f[d] : k.n = h.n => b = d /\ k = h
  BY DEF OnePlace, Apart
<1>5. \A b \in Boxes : \A k \in f[b] : k.n \in 1..pressed
  BY DEF OnePlace, Numbered
<1>6. (\A b, d \in Boxes : \A k \in g[b], h \in g[d] : k.n = h.n => b = d /\ k = h) => Apart'
  BY DEF Apart
<1>7. (\A b \in Boxes : \A k \in g[b] : k.n \in 1..pressed) => Numbered'
  BY DEF Numbered
<1> HIDE DEF f, g
<1>8. Elems(typed') \subseteq S /\ Elems(queue') \subseteq S /\ KeysOf(s) \subseteq S
  BY DEF Dealt
<1>9. T \subseteq KeysOf(pending[c]) \cup KeysOf(toServer[c])
  BY DEF Taken, Ahead
<1>10. \A d \in Clients : /\ KeysOf(toServer'[d]) \subseteq KeysOf(toServer[d])
                          /\ KeysOf(pending'[d]) \subseteq KeysOf(pending[d])
  BY DEF Taken
<1>11. \A b \in Boxes : g[b] \subseteq f[b] \cup S
  <2> SUFFICES ASSUME NEW b \in Boxes PROVE g[b] \subseteq f[b] \cup S
    OBVIOUS
  <2>1. CASE b = WordBox \/ b = QueueBox
    BY <1>3, <1>8, <2>1
  <2>2. CASE \E i \in ICID : b = AppBox(i)
    BY <1>2, <1>3, <2>2
  <2>3. ASSUME NEW d \in Clients, b = PendingBox(d) \/ b = ServerBox(d)
        PROVE  g[b] \subseteq f[b]
    BY <1>2, <1>3, <1>10, <2>3
  <2>4. ASSUME NEW d \in Clients, b = ClientBox(d) PROVE g[b] \subseteq f[b] \cup S
    <3>1. f[b] = KeysOf(toClient[d]) /\ g[b] = KeysOf(toClient'[d])
      BY <1>2, <1>3, <2>4
    <3>2. CASE d = c
      BY <1>1, <1>8, <3>1, <3>2
    <3>3. CASE d # c
      BY <1>1, <3>1, <3>3
    <3> QED
      BY <3>2, <3>3
  <2> QED
    BY BoxKinds, <2>1, <2>2, <2>3, <2>4
<1>12. \A k \in S : \E b \in Boxes :
          k \in f[b] /\ (b \notin {WordBox, QueueBox} =>
               k \in T /\ b \in {PendingBox(c), ServerBox(c)})
  <2> SUFFICES ASSUME NEW k \in S
               PROVE  \E b \in Boxes :
                         k \in f[b] /\ (b \notin {WordBox, QueueBox} =>
               k \in T /\ b \in {PendingBox(c), ServerBox(c)})
    OBVIOUS
  <2>1. CASE k \in Elems(typed)
    <3>1. k \in f[WordBox] /\ WordBox \in Boxes
      BY <1>2, <2>1, BoxesDiffer
    <3> QED
      BY <3>1
  <2>2. CASE k \in Elems(queue)
    <3>1. k \in f[QueueBox] /\ QueueBox \in Boxes
      BY <1>2, <2>2, BoxesDiffer
    <3> QED
      BY <3>1
  <2>3. CASE k \in T
    <3>1. k \in f[PendingBox(c)] \/ k \in f[ServerBox(c)]
      BY <1>2, <1>9, <2>3
    <3>2. PendingBox(c) \in Boxes /\ ServerBox(c) \in Boxes
      BY BoxesDiffer
    <3> QED
      BY <2>3, <3>1, <3>2
  <2> QED
    BY <2>1, <2>2, <2>3
<1>13. \A k \in S : \A b \in Boxes : \A h \in f[b] \cup S : k.n = h.n => k = h
  BY <1>4, <1>12
<1>14. \A k \in S : \A b \in Boxes : k \in g[b] =>
          \/ b = WordBox /\ k \in Elems(typed')
          \/ b = QueueBox /\ k \in Elems(queue')
          \/ b = ClientBox(c) /\ k \in KeysOf(s)
  <2> SUFFICES ASSUME NEW k \in S, NEW b \in Boxes, k \in g[b], b # WordBox, b # QueueBox
               PROVE  b = ClientBox(c) /\ k \in KeysOf(s)
    BY <1>3
  <2>1. PICK d \in Boxes : k \in f[d] /\ (d \notin {WordBox, QueueBox} =>
               k \in T /\ d \in {PendingBox(c), ServerBox(c)})
    BY <1>12
  <2>2. k \in f[b] => b = d /\ k \in T /\ b \in {PendingBox(c), ServerBox(c)}
    <3>1. k \in f[b] => b = d
      BY <1>4, <2>1
    <3> QED
      BY <2>1, <3>1
  <2>3. T \cap KeysOf(toServer'[c]) = {} /\ T \cap KeysOf(pending'[c]) = {}
    BY DEF Taken
  <2>4. k \notin f[b]
    BY <1>3, <2>2, <2>3
  <2>5. CASE \E i \in ICID : b = AppBox(i)
    BY <1>2, <1>3, <2>4, <2>5
  <2>6. ASSUME NEW e \in Clients, b = PendingBox(e) \/ b = ServerBox(e) PROVE FALSE
    BY <1>2, <1>3, <1>10, <2>4, <2>6
  <2>7. ASSUME NEW e \in Clients, b = ClientBox(e) PROVE b = ClientBox(c) /\ k \in KeysOf(s)
    <3>1. k \in KeysOf(toClient'[e]) /\ k \notin KeysOf(toClient[e])
      BY <1>2, <1>3, <2>4, <2>7
    <3> QED
      BY <1>1, <2>7, <3>1
  <2> QED
    BY BoxKinds, <2>5, <2>6, <2>7
<1>15. /\ Elems(typed') \cap Elems(queue') = {} /\ Elems(typed') \cap KeysOf(s) = {}
       /\ Elems(queue') \cap KeysOf(s) = {}
  BY DEF Dealt
<1>16. \A k \in S : \A b, d \in Boxes : k \in g[b] /\ k \in g[d] => b = d
  BY <1>14, <1>15
<1>17. Apart'
  <2>1. \A b, d \in Boxes : \A k \in g[b], h \in g[d] : k.n = h.n => b = d /\ k = h
    <3> HIDE DEF S
    <3> QED
      BY <1>4, <1>11, <1>13, <1>16, StillApart
  <2> QED
    BY <1>6, <2>1
<1>18. Numbered'
  BY <1>5, <1>7, <1>11, <1>12
<1>19. Singly'
  <2>1. Once(typed') /\ Once(queue') /\ OnceIn(s)
    BY DEF Dealt
  <2>2. \A i \in ICID : Once(app'[i])
    BY DEF OnePlace, Singly
  <2>3. \A d \in Clients : OnceIn(toServer'[d]) /\ OnceIn(pending'[d])
    BY DEF Taken
  <2>4. \A d \in Clients : OnceIn(toClient[d]) /\ toClient[d] \in Seq(ToClientMessages)
    BY DEF OnePlace, Singly, TypeOK, ChannelsTypeOK
  <2>5. ASSUME NEW k \in KeysOf(toClient[c]), NEW h \in KeysOf(s), k.n = h.n PROVE FALSE
    <3>1. k \in f[ClientBox(c)] /\ ClientBox(c) \in Boxes
      BY <1>2, BoxesDiffer
    <3>2. PICK b \in Boxes : h \in f[b] /\ b # ClientBox(c)
      BY <1>8, <1>12, BoxesDiffer
    <3> QED
      BY <1>4, <2>5, <3>1, <3>2
  <2>6. OnceIn(toClient'[c])
    BY <1>1, <2>1, <2>4, <2>5, OnceInConcat
  <2>7. \A d \in Clients : OnceIn(toClient'[d])
    BY <1>1, <2>4, <2>6
  <2> QED
    BY <2>1, <2>2, <2>3, <2>7 DEF Singly
<1> QED
  BY <1>17, <1>18, <1>19 DEF OnePlace

\* The keys of the word, of Queue, and of a client that waits are different.
LEMMA WordFacts ==
  ASSUME OnePlace, NEW c \in Clients
  PROVE  /\ Once(typed) /\ Once(queue) /\ Elems(typed) \cap Elems(queue) = {}
         /\ \A k \in Ahead(c), h \in Elems(typed) \cup Elems(queue) : k.n # h.n
<1>1. Once(typed) /\ Once(queue)
  BY DEF OnePlace, Singly
<1>2. \A b, d \in Boxes : b # d => \A k \in Content(b), h \in Content(d) : k.n # h.n
  BY DEF OnePlace, Apart
<1>3. \A k \in Elems(typed), h \in Elems(queue) : k.n # h.n
  <2>1. WordBox \in Boxes /\ QueueBox \in Boxes /\ WordBox # QueueBox
    BY BoxesDiffer
  <2>2. Content(WordBox) = Elems(typed) /\ Content(QueueBox) = Elems(queue)
    BY Contents
  <2> QED
    BY <1>2, <2>1, <2>2
<1>4. ASSUME NEW b \in {WordBox, QueueBox}, NEW d \in {PendingBox(c), ServerBox(c)}
      PROVE  \A k \in Content(d), h \in Content(b) : k.n # h.n
  <2>1. b \in Boxes /\ d \in Boxes /\ b # d
    BY <1>4, BoxesDiffer
  <2> QED
    BY <1>2, <2>1
<1>5. /\ Content(WordBox) = Elems(typed) /\ Content(QueueBox) = Elems(queue)
      /\ Content(PendingBox(c)) = KeysOf(pending[c])
      /\ Content(ServerBox(c)) = KeysOf(toServer[c])
  BY Contents
<1>6. \A k \in Ahead(c), h \in Elems(typed) \cup Elems(queue) : k.n # h.n
  <2>1. \A k \in KeysOf(pending[c]), h \in Elems(typed) : k.n # h.n
    BY <1>4, <1>5
  <2>2. \A k \in KeysOf(pending[c]), h \in Elems(queue) : k.n # h.n
    BY <1>4, <1>5
  <2>3. \A k \in KeysOf(toServer[c]), h \in Elems(typed) : k.n # h.n
    BY <1>4, <1>5
  <2>4. \A k \in KeysOf(toServer[c]), h \in Elems(queue) : k.n # h.n
    BY <1>4, <1>5
  <2> QED
    BY <2>1, <2>2, <2>3, <2>4 DEF Ahead
<1> QED
  BY <1>1, <1>3, <1>6

\* The keys that each message of the server carries.
LEMMA NoKeys ==
  ASSUME ServerTypeOK, NEW i \in ICID
  PROVE  /\ KeysOf(SoftHideMessages(i)) = {} /\ OnceIn(SoftHideMessages(i))
         /\ KeysOf(DoneMessages(i)) = {} /\ OnceIn(DoneMessages(i))
         /\ \A n \in 0..MaxLen : KeysOf(DrawMessages(i, n)) = {} /\ OnceIn(DrawMessages(i, n))
<1> DEFINE P == {m \in Says(i) : m.type \notin {"FORWARD_EVENT", "COMMIT"}}
<1>1. ASSUME NEW s \in Seq(P) PROVE KeysOf(s) = {} /\ OnceIn(s)
  <2>1. \A j \in DOMAIN s : s[j] \in P
    BY ElementOfSeq, LenProperties
  <2>2. \A j \in DOMAIN s : s[j].type \notin {"FORWARD_EVENT", "COMMIT"}
    BY <2>1
  <2> QED
    BY <2>2, Keyless
<1>2. ics[i].len \in 0..MaxLen /\ 0 \in 0..MaxLen
  BY MaxLenPositive DEF ServerTypeOK
<1>3. /\ About("PREEDIT_START", i) \in P /\ About("PREEDIT_DONE", i) \in P
      /\ \A chg, n \in 0..MaxLen : DrawOf(i, chg, n) \in P
  BY SaysMessages DEF About, DrawOf
<1> HIDE DEF P
<1>4. SoftHideMessages(i) \in Seq(P)
  BY <1>2, <1>3 DEF SoftHideMessages
<1>5. DoneMessages(i) \in Seq(P)
  BY <1>3 DEF DoneMessages
<1>6. ASSUME NEW n \in 0..MaxLen PROVE DrawMessages(i, n) \in Seq(P)
  <2>1. /\ DrawOf(i, ics[i].len, n) \in P /\ DrawOf(i, 0, n) \in P
        /\ About("PREEDIT_START", i) \in P
    BY <1>2, <1>3
  <2> QED
    BY <2>1 DEF DrawMessages
<1> QED
  BY <1>1, <1>4, <1>5, <1>6

\* Messages put together when one of the two sequences carries no key.
LEMMA KeylessConcat ==
  ASSUME NEW s \in Seq(ToClientMessages), NEW t \in Seq(ToClientMessages),
         OnceIn(s), OnceIn(t), KeysOf(s) = {} \/ KeysOf(t) = {}
  PROVE  /\ s \o t \in Seq(ToClientMessages) /\ OnceIn(s \o t)
         /\ KeysOf(s \o t) = KeysOf(s) \cup KeysOf(t)
<1>1. KeysOf(s \o t) = KeysOf(s) \cup KeysOf(t)
  BY KeysOfConcat
<1>2. \A k \in KeysOf(s), h \in KeysOf(t) : k.n # h.n
  OBVIOUS
<1>3. OnceIn(s \o t)
  BY <1>2, OnceInConcat
<1>4. s \o t \in Seq(ToClientMessages)
  BY ConcatProperties
<1> QED
  BY <1>1, <1>3, <1>4

\* A COMMIT carries the keys of the word.
LEMMA CommitKeys ==
  ASSUME ServerTypeOK, NEW i \in ICID, NEW keys \in Seq(Keys), NEW junk \in BOOLEAN, Once(keys)
  PROVE  LET s == SoftHideMessages(i) \o <<CommitOf(i, keys, junk)>>
         IN  s \in Seq(ToClientMessages) /\ KeysOf(s) = Elems(keys) /\ OnceIn(s)
<1> DEFINE m == CommitOf(i, keys, junk)
<1>1. m.type = "COMMIT" /\ m.keys = keys
  BY DEF CommitOf
<1>2. SoftHideMessages(i) \in Seq(ToClientMessages)
  BY SaysSequences, SaysFacts
<1>3. m \in ToClientMessages
  BY SaysMessages DEF Says, Talk
<1> HIDE DEF m
<1>4. <<m>> \in Seq(ToClientMessages)
  BY <1>3
<1>5. KeysOf(<<m>>) = Elems(keys) /\ OnceIn(<<m>>)
  <2>1. Carried(m) = keys
    BY <1>1, CarriedFacts
  <2>2. KeysOf(<<m>>) = Elems(Carried(m)) /\ (Once(Carried(m)) => OnceIn(<<m>>))
    BY KeysOfOne
  <2> QED
    BY <2>1, <2>2
<1>6. KeysOf(SoftHideMessages(i)) = {} /\ OnceIn(SoftHideMessages(i))
  BY NoKeys
<1>7. PICK t \in Seq(ToClientMessages) : t = <<m>>
  BY <1>4
<1>8. KeysOf(t) = Elems(keys) /\ OnceIn(t)
  BY <1>5, <1>7
<1>9. /\ SoftHideMessages(i) \o t \in Seq(ToClientMessages)
      /\ KeysOf(SoftHideMessages(i) \o t) = Elems(keys) /\ OnceIn(SoftHideMessages(i) \o t)
  <2> DEFINE r == SoftHideMessages(i)
  <2>1. r \in Seq(ToClientMessages) /\ KeysOf(r) = {} /\ OnceIn(r)
    BY <1>2, <1>6
  <2> HIDE DEF r
  <2>2. /\ r \o t \in Seq(ToClientMessages) /\ OnceIn(r \o t)
        /\ KeysOf(r \o t) = KeysOf(r) \cup KeysOf(t)
    BY <1>8, <2>1, KeylessConcat
  <2>3. KeysOf(r \o t) = Elems(keys)
    BY <1>8, <2>1, <2>2
  <2> QED
    BY <2>2, <2>3 DEF r
<1> QED
  BY <1>7, <1>9 DEF m

\* A FORWARD_EVENT carries its key.
LEMMA ForwardKeys ==
  ASSUME NEW i \in ICID, NEW k \in Keys
  PROVE  /\ <<Forward(i, k)>> \in Seq(ToClientMessages)
         /\ KeysOf(<<Forward(i, k)>>) = {k} /\ OnceIn(<<Forward(i, k)>>)
<1> DEFINE m == Forward(i, k)
<1>1. m.type = "FORWARD_EVENT" /\ m.key = k
  BY DEF Forward
<1>2. m \in ToClientMessages
  BY SaysMessages DEF Says, Talk
<1> HIDE DEF m
<1>3. Carried(m) = <<k>> /\ Elems(Carried(m)) = {k} /\ Once(Carried(m))
  BY <1>1, CarriedFacts
<1>4. KeysOf(<<m>>) = {k} /\ OnceIn(<<m>>) /\ <<m>> \in Seq(ToClientMessages)
  BY <1>2, <1>3, KeysOfOne
<1> QED
  BY <1>4 DEF m

\* One key more at the end of the word or of Queue.
LEMMA OneKeyMore ==
  ASSUME NEW s \in Seq(Keys), NEW k \in Keys, Once(s), \A h \in Elems(s) : k.n # h.n
  PROVE  /\ Append(s, k) \in Seq(Keys) /\ Once(Append(s, k))
         /\ Elems(Append(s, k)) = Elems(s) \cup {k}
<1>1. <<k>> \in Seq(Keys) /\ Append(s, k) = s \o <<k>>
  BY AppendIsConcat
<1>2. Elems(<<k>>) = {k} /\ Once(<<k>>)
  BY ElemsOne
<1>3. \A h \in Elems(s), g \in Elems(<<k>>) : h.n # g.n
  BY <1>2
<1> DEFINE t == <<k>>
<1>4. t \in Seq(Keys) /\ Append(s, k) = s \o t /\ Elems(t) = {k} /\ Once(t)
      /\ \A h \in Elems(s), g \in Elems(t) : h.n # g.n
  BY <1>1, <1>2, <1>3
<1> HIDE DEF t
<1> QED
  BY <1>4, ElemsConcat, OnceConcat, ConcatProperties

\* ProcessKey deals the key it is given.
LEMMA ProcessKeyDeals ==
  ASSUME TypeOK, OnePlace, NEW c \in Clients, NEW i \in ICID, NEW k \in Keys,
         k \in Ahead(c), ProcessKey(c, i, k)
  PROVE  \E s \in Seq(ToClientMessages) :
           toClient' = Send(toClient, c, s) /\ Dealt({k}, s)
<1>1. ServerTypeOK /\ typed \in Seq(Keys) /\ queue \in Seq(Keys)
  BY DEF TypeOK, ServerTypeOK
<1>2. PICK d \in XIMProcessKey(fe, k.ev) :
        DrawWord(c, i, k, d) \/ DiscardWord(c, i, k, d)
          \/ CommitWord(c, i, k, d) \/ ForwardKey(c, i, k, d)
  BY DEF ProcessKey
<1>3. d.fe.len \in 0..MaxLen
  <2>1. k.ev \in KeyEvents
    BY XimAssumption DEF Keys
  <2> QED
    BY <1>1, <2>1, XIMProcessKeyType DEF FrontEndStates, ServerTypeOK
<1>4. /\ Once(typed) /\ Once(queue) /\ Elems(typed) \cap Elems(queue) = {}
      /\ (\A h \in Elems(typed) : k.n # h.n) /\ (\A h \in Elems(queue) : k.n # h.n)
  BY WordFacts
<1>5. /\ Append(typed, k) \in Seq(Keys) /\ Once(Append(typed, k))
      /\ Elems(Append(typed, k)) = Elems(typed) \cup {k}
      /\ Append(queue, k) \in Seq(Keys) /\ Once(Append(queue, k))
      /\ Elems(Append(queue, k)) = Elems(queue) \cup {k}
  BY <1>1, <1>4, OneKeyMore
<1>6. k \notin Elems(typed) /\ k \notin Elems(queue)
  BY <1>4
<1>7. Elems(<<>>) = {} /\ Once(<<>>)
  BY ElemsNone
<1>8. CASE DrawWord(c, i, k, d)
  <2> DEFINE s == DrawMessages(i, d.fe.len)
  <2>1. toClient' = Send(toClient, c, s) /\ typed' = Append(typed, k) /\ queue' = queue
    BY <1>8 DEF DrawWord
  <2>2. s \in Seq(ToClientMessages) /\ KeysOf(s) = {} /\ OnceIn(s)
    BY <1>1, <1>3, SaysSequences, SaysFacts, NoKeys
  <2> HIDE DEF s
  <2>3. Dealt({k}, s)
    BY <1>4, <1>5, <1>6, <2>1, <2>2 DEF Dealt
  <2> QED
    BY <2>1, <2>2, <2>3
<1>9. CASE DiscardWord(c, i, k, d)
  <2>1. PICK junk \in BOOLEAN :
          toClient' = Send(toClient, c, SoftHideMessages(i) \o
                                          <<CommitOf(i, Append(typed, k), junk)>>)
    BY <1>9 DEF DiscardWord
  <2> DEFINE s == SoftHideMessages(i) \o <<CommitOf(i, Append(typed, k), junk)>>
  <2>2. s \in Seq(ToClientMessages) /\ KeysOf(s) = Elems(typed) \cup {k} /\ OnceIn(s)
    BY <1>1, <1>5, CommitKeys
  <2>3. toClient' = Send(toClient, c, s) /\ typed' = <<>> /\ queue' = queue
    BY <1>9, <2>1 DEF DiscardWord
  <2> HIDE DEF s
  <2>4. Elems(typed') = {} /\ Once(typed')
    BY <1>7, <2>3
  <2>5. Dealt({k}, s)
    BY <1>4, <1>6, <2>2, <2>3, <2>4 DEF Dealt
  <2> QED
    BY <2>2, <2>3, <2>5
<1>10. CASE CommitWord(c, i, k, d)
  <2> DEFINE s == SoftHideMessages(i) \o <<CommitOf(i, typed, FALSE)>>
  <2>1. s \in Seq(ToClientMessages) /\ KeysOf(s) = Elems(typed) /\ OnceIn(s)
    BY <1>1, <1>4, CommitKeys
  <2>2. toClient' = Send(toClient, c, s) /\ typed' = <<>> /\ queue' = Push(queue, k)
    BY <1>10 DEF CommitWord
  <2> HIDE DEF s
  <2>3. Elems(typed') = {} /\ Once(typed')
    BY <1>7, <2>2
  <2>4. Elems(queue') \subseteq Elems(queue) \cup {k} /\ Once(queue')
    <3>1. CASE queue' = <<>>
      BY <1>7, <3>1
    <3>2. CASE queue' = Append(queue, k)
      BY <1>5, <3>2
    <3> QED
      BY <2>2, <3>1, <3>2 DEF Push
  <2>5. Dealt({k}, s)
    BY <1>4, <1>6, <2>1, <2>3, <2>4 DEF Dealt
  <2> QED
    BY <2>1, <2>2, <2>5
<1>11. CASE ForwardKey(c, i, k, d)
  <2> DEFINE s == <<Forward(i, k)>>
  <2>1. s \in Seq(ToClientMessages) /\ KeysOf(s) = {k} /\ OnceIn(s)
    BY ForwardKeys
  <2>2. toClient' = Send(toClient, c, s) /\ typed' = typed /\ queue' = queue
    BY <1>11 DEF ForwardKey
  <2> HIDE DEF s
  <2>3. Dealt({k}, s)
    BY <1>4, <1>6, <2>1, <2>2 DEF Dealt
  <2> QED
    BY <2>1, <2>2, <2>3
<1> QED
  BY <1>2, <1>8, <1>9, <1>10, <1>11

\* Giving up the word deals it to the client, or to nobody.
LEMMA GiveUpDeals ==
  ASSUME TypeOK, OnePlace, NEW c \in Clients, NEW i \in ICID,
         NEW replies \in Seq(ToClientMessages), KeysOf(replies) = {}, OnceIn(replies),
         GiveUpWord(c, i, replies)
  PROVE  \E s \in Seq(ToClientMessages) :
           toClient' = Send(toClient, c, s) /\ Dealt({}, s)
<1>1. ServerTypeOK /\ typed \in Seq(Keys)
  BY DEF TypeOK, ServerTypeOK
<1>2. Once(typed)
  BY WordFacts
<1> DEFINE h == SoftHideMessages(i)
           u == SoftHideMessages(i) \o <<CommitOf(i, typed, FALSE)>>
           e == DoneMessages(i)
<1>3. /\ h \in Seq(ToClientMessages) /\ KeysOf(h) = {} /\ OnceIn(h)
      /\ e \in Seq(ToClientMessages) /\ KeysOf(e) = {} /\ OnceIn(e)
  BY <1>1, SaysSequences, SaysFacts, NoKeys
<1>4. u \in Seq(ToClientMessages) /\ KeysOf(u) = Elems(typed) /\ OnceIn(u)
  BY <1>1, <1>2, CommitKeys
<1>5. \/ toClient' = Send(toClient, c, (u \o e) \o replies)
      \/ toClient' = Send(toClient, c, (h \o e) \o replies)
  BY DEF GiveUpWord
<1>6. typed' = <<>> /\ queue' = <<>>
  BY DEF GiveUpWord, EngineReset
<1> HIDE DEF h, u, e
<1>7. /\ u \o e \in Seq(ToClientMessages) /\ h \o e \in Seq(ToClientMessages)
      /\ KeysOf(u \o e) = Elems(typed) /\ OnceIn(u \o e)
      /\ KeysOf(h \o e) = {} /\ OnceIn(h \o e)
  <2>1. /\ u \o e \in Seq(ToClientMessages) /\ OnceIn(u \o e)
        /\ KeysOf(u \o e) = KeysOf(u) \cup KeysOf(e)
    BY <1>3, <1>4, KeylessConcat
  <2>2. /\ h \o e \in Seq(ToClientMessages) /\ OnceIn(h \o e)
        /\ KeysOf(h \o e) = KeysOf(h) \cup KeysOf(e)
    BY <1>3, KeylessConcat
  <2>3. KeysOf(u \o e) = Elems(typed)
    BY <1>3, <1>4, <2>1
  <2>4. KeysOf(h \o e) = {}
    BY <1>3, <2>2
  <2> QED
    BY <2>1, <2>2, <2>3, <2>4
<1>8. ASSUME NEW s \in Seq(ToClientMessages), KeysOf(s) \subseteq Elems(typed), OnceIn(s)
      PROVE  /\ s \o replies \in Seq(ToClientMessages)
             /\ KeysOf(s \o replies) \subseteq Elems(typed) /\ OnceIn(s \o replies)
  BY <1>8, KeylessConcat
<1>9. PICK s \in Seq(ToClientMessages) : /\ toClient' = Send(toClient, c, s)
                                         /\ KeysOf(s) \subseteq Elems(typed) /\ OnceIn(s)
  <2> DEFINE v == u \o e
             w == h \o e
  <2>1. /\ v \in Seq(ToClientMessages) /\ KeysOf(v) \subseteq Elems(typed) /\ OnceIn(v)
        /\ w \in Seq(ToClientMessages) /\ KeysOf(w) \subseteq Elems(typed) /\ OnceIn(w)
        /\ (toClient' = Send(toClient, c, v \o replies)
              \/ toClient' = Send(toClient, c, w \o replies))
    BY <1>5, <1>7
  <2> HIDE DEF v, w
  <2> QED
    BY <1>8, <2>1
<1>10. Elems(typed') = {} /\ Once(typed') /\ Elems(queue') = {} /\ Once(queue')
  BY <1>6, ElemsNone
<1>11. Dealt({}, s)
  BY <1>9, <1>10 DEF Dealt
<1> QED
  BY <1>9, <1>11

\* The server takes the first message of a client,
LEMMA FirstTaken ==
  ASSUME TypeOK, OnePlace, NEW c \in Clients, NEW type, Incoming(c, type),
         pending' = pending
  PROVE  Taken(c, Elems(Carried(Head(toServer[c]))))
<1> DEFINE T == Elems(Carried(Head(toServer[c])))
<1>1. /\ toServer[c] \in Seq(ToServerMessages) /\ toServer[c] # <<>>
      /\ toServer'[c] = Tail(toServer[c])
      /\ \A d \in Clients : d # c => toServer'[d] = toServer[d]
  BY DEF TypeOK, ChannelsTypeOK, Incoming
<1>2. \A d \in Clients : OnceIn(toServer[d]) /\ OnceIn(pending[d])
  BY DEF OnePlace, Singly
<1>3. KeysOf(toServer[c]) = T \cup KeysOf(toServer'[c])
  BY <1>1, KeysOfTail
<1>4. OnceIn(toServer'[c]) /\ T \cap KeysOf(toServer'[c]) = {}
  BY <1>1, <1>2, OnceInTail
<1>5. ASSUME NEW k \in KeysOf(toServer[c]), k \in KeysOf(pending[c]) PROVE FALSE
  <2>1. /\ ServerBox(c) \in Boxes /\ PendingBox(c) \in Boxes /\ ServerBox(c) # PendingBox(c)
        /\ Content(ServerBox(c)) = KeysOf(toServer[c])
        /\ Content(PendingBox(c)) = KeysOf(pending[c])
    BY BoxesDiffer, Contents
  <2> QED
    BY <1>5, <2>1 DEF OnePlace, Apart
<1> HIDE DEF T
<1>6. T \subseteq Ahead(c) /\ T \cap KeysOf(pending'[c]) = {}
  BY <1>3, <1>5 DEF Ahead
<1>7. \A d \in Clients : /\ KeysOf(toServer'[d]) \subseteq KeysOf(toServer[d])
                         /\ OnceIn(toServer'[d])
  <2> SUFFICES ASSUME NEW d \in Clients
               PROVE  KeysOf(toServer'[d]) \subseteq KeysOf(toServer[d]) /\ OnceIn(toServer'[d])
    OBVIOUS
  <2>1. CASE d = c
    BY <1>3, <1>4, <2>1
  <2>2. CASE d # c
    BY <1>1, <1>2, <2>2
  <2> QED
    BY <2>1, <2>2
<1>8. \A d \in Clients : /\ Sorted(toServer[d]) => Sorted(toServer'[d])
                         /\ Sorted(pending[d]) => Sorted(pending'[d])
  BY <1>1, SortedTail
<1>9. Taken(c, T)
  BY <1>2, <1>4, <1>6, <1>7, <1>8 DEF Taken
<1> QED
  BY <1>9 DEF T

\* or the first that it has put aside.
LEMMA PendingTaken ==
  ASSUME TypeOK, OnePlace, NEW c \in Clients, pending[c] # <<>>,
         pending' = [pending EXCEPT ![c] = Tail(@)], toServer' = toServer
  PROVE  /\ Head(pending[c]) \in PendingMessages
         /\ Head(pending[c]).key \in Ahead(c) /\ Taken(c, {Head(pending[c]).key})
<1>1. /\ pending[c] \in Seq(PendingMessages)
      /\ pending'[c] = Tail(pending[c])
      /\ \A d \in Clients : d # c => pending'[d] = pending[d]
  BY DEF TypeOK, ServerTypeOK
<1>2. \A d \in Clients : OnceIn(toServer[d]) /\ OnceIn(pending[d])
  BY DEF OnePlace, Singly
<1>3. Head(pending[c]) \in PendingMessages
  BY <1>1, HeadTailProperties
<1> DEFINE k == Head(pending[c]).key
<1>4. Elems(Carried(Head(pending[c]))) = {k}
  BY <1>3, CarriedFacts DEF PendingMessages
<1>5. KeysOf(pending[c]) = {k} \cup KeysOf(pending'[c])
  BY <1>1, <1>4, KeysOfTail
<1>6. OnceIn(pending'[c]) /\ {k} \cap KeysOf(pending'[c]) = {}
  BY <1>1, <1>2, <1>4, OnceInTail
<1>7. k \notin KeysOf(toServer[c])
  <2>1. /\ ServerBox(c) \in Boxes /\ PendingBox(c) \in Boxes /\ ServerBox(c) # PendingBox(c)
        /\ Content(ServerBox(c)) = KeysOf(toServer[c])
        /\ Content(PendingBox(c)) = KeysOf(pending[c])
    BY BoxesDiffer, Contents
  <2>2. k \in KeysOf(pending[c])
    BY <1>5
  <2> QED
    BY <2>1, <2>2 DEF OnePlace, Apart
<1> HIDE DEF k
<1>8. \A d \in Clients : /\ KeysOf(pending'[d]) \subseteq KeysOf(pending[d])
                         /\ OnceIn(pending'[d])
  <2> SUFFICES ASSUME NEW d \in Clients
               PROVE  KeysOf(pending'[d]) \subseteq KeysOf(pending[d]) /\ OnceIn(pending'[d])
    OBVIOUS
  <2>1. CASE d = c
    BY <1>5, <1>6, <2>1
  <2>2. CASE d # c
    BY <1>1, <1>2, <2>2
  <2> QED
    BY <2>1, <2>2
<1>9. k \in Ahead(c)
  BY <1>5 DEF Ahead
<1>10. \A d \in Clients : /\ Sorted(toServer[d]) => Sorted(toServer'[d])
                          /\ Sorted(pending[d]) => Sorted(pending'[d])
  <2>1. pending[c] \in Seq(ToServerMessages)
    BY <1>1, PendingIsToServer
  <2> QED
    BY <1>1, <2>1, SortedTail
<1>11. Taken(c, {k})
  BY <1>2, <1>6, <1>7, <1>8, <1>9, <1>10 DEF Taken
<1> QED
  BY <1>3, <1>9, <1>11 DEF k

\* Keys that go from where they were, or from nowhere, to one box.
LEMMA KeysMove ==
  ASSUME OnePlace, NEW S, NEW t \in Boxes,
         \A b \in Boxes : b # t => Content(b)' \subseteq Content(b) \ S,
         Content(t)' \subseteq Content(t) \cup S,
         \A k \in S : \A b \in Boxes : \A h \in Content(b) \cup S : k.n = h.n => k = h,
         \A k \in S : k.n \in 1..pressed', 1..pressed \subseteq 1..pressed'
  PROVE  Apart' /\ Numbered'
<1> DEFINE f == [b \in Boxes |-> Content(b)]
           g == [b \in Boxes |-> Content(b)']
<1>1. \A b, d \in Boxes : \A k \in f[b], h \in f[d] : k.n = h.n => b = d /\ k = h
  BY DEF OnePlace, Apart
<1>2. \A b \in Boxes : \A k \in f[b] : k.n \in 1..pressed
  BY DEF OnePlace, Numbered
<1>3. (\A b, d \in Boxes : \A k \in g[b], h \in g[d] : k.n = h.n => b = d /\ k = h) => Apart'
  BY DEF Apart
<1>4. (\A b \in Boxes : \A k \in g[b] : k.n \in 1..pressed') => Numbered'
  BY DEF Numbered
<1>5. /\ \A b \in Boxes : b # t => g[b] \subseteq f[b] \ S
      /\ g[t] \subseteq f[t] \cup S
  OBVIOUS
<1>6. \A k \in S : \A b \in Boxes : \A h \in f[b] \cup S : k.n = h.n => k = h
  OBVIOUS
<1> HIDE DEF f, g
<1>7. \A b \in Boxes : g[b] \subseteq f[b] \cup S
  BY <1>5
<1>8. \A k \in S : \A b, d \in Boxes : k \in g[b] /\ k \in g[d] => b = d
  BY <1>5
<1>9. \A b, d \in Boxes : \A k \in g[b], h \in g[d] : k.n = h.n => b = d /\ k = h
  BY <1>1, <1>6, <1>7, <1>8, StillApart
<1>10. \A b \in Boxes : \A k \in g[b] : k.n \in 1..pressed'
  BY <1>2, <1>7
<1> QED
  BY <1>3, <1>4, <1>9, <1>10

\* In particular none.
LEMMA KeysStay ==
  ASSUME OnePlace, \A b \in Boxes : Content(b)' \subseteq Content(b), pressed' = pressed
  PROVE  Apart' /\ Numbered'
BY DEF OnePlace, Apart, Numbered
-----------------------------------------------------------------------------
(* What each handler does with the keys.                                   *)

\* The server takes some keys of a client, the first it has, and deals them.
Deals(c) ==
  \E T : \E s \in Seq(ToClientMessages) :
    /\ toClient' = Send(toClient, c, s) /\ Taken(c, T) /\ Dealt(T, s)
    /\ app' = app /\ pressed' = pressed
    /\ InTurn => \A k \in T, h \in Ahead(c) \ T : k.n < h.n

\* A handler that takes no key and says nothing of one.
LEMMA QuietDeals ==
  ASSUME TypeOK, OnePlace, NEW c \in Clients, Taken(c, {}),
         NEW s \in Seq(ToClientMessages), toClient' = Send(toClient, c, s),
         Dealt({}, s), app' = app, pressed' = pressed
  PROVE  Deals(c)
<1>1. \A k \in {}, h \in Ahead(c) \ {} : k.n < h.n
  OBVIOUS
<1> QED
  BY <1>1 DEF Deals

\* One message that carries no key.
LEMMA OneQuiet ==
  ASSUME OnePlace, typed' = typed, queue' = queue, NEW m \in ToClientMessages,
         m.type \notin {"FORWARD_EVENT", "COMMIT"}, NEW c \in Clients
  PROVE  <<m>> \in Seq(ToClientMessages) /\ KeysOf(<<m>>) = {} /\ Dealt({}, <<m>>)
<1>1. <<m>> \in Seq(ToClientMessages)
  OBVIOUS
<1>2. KeysOf(<<m>>) = {} /\ OnceIn(<<m>>)
  BY CarriedFacts, KeysOfOne
<1>3. Once(typed) /\ Once(queue) /\ Elems(typed) \cap Elems(queue) = {}
  BY WordFacts
<1> QED
  BY <1>1, <1>2, <1>3 DEF Dealt

\* No key is in a message of another type.
LEMMA NoneTaken ==
  ASSUME TypeOK, OnePlace, NEW c \in Clients, NEW type, Incoming(c, type),
         type # "FORWARD_EVENT", pending' = pending
  PROVE  Taken(c, {})
<1>1. Head(toServer[c]) \in ToServerMessages /\ Head(toServer[c]).type = type
  BY IncomingType
<1>2. type \notin {"FORWARD_EVENT", "COMMIT"}
  BY <1>1 DEF ToServerMessages, Requests
<1>3. Elems(Carried(Head(toServer[c]))) = {}
  BY <1>1, <1>2, CarriedFacts
<1> QED
  BY <1>3, FirstTaken

\* A FORWARD_EVENT is handled at once only when no key is pending.
LEMMA ForwardEventDeals ==
  ASSUME Inv, OnePlace, NEW c \in Clients, HandleForwardEvent(c), ~sync[c]
  PROVE  Deals(c)
<1> DEFINE m == Head(toServer[c])
<1>1. TypeOK /\ ServerTypeOK /\ Incoming(c, "FORWARD_EVENT") /\ busy = NoClient
  BY DEF Inv, TypeOK, HandleForwardEvent, Incoming
<1>2. /\ toServer[c] \in Seq(ToServerMessages) /\ toServer[c] # <<>>
      /\ m \in ToServerMessages /\ m.type = "FORWARD_EVENT"
      /\ toServer'[c] = Tail(toServer[c])
  BY <1>1, IncomingType
<1>3. m.ic \in ICID /\ m.key \in Keys
  BY <1>2, ToServerTypes
<1>4. ProcessKey(c, m.ic, m.key) /\ pending' = pending
  BY DEF HandleForwardEvent
<1>5. app' = app /\ pressed' = pressed
  BY DEF HandleForwardEvent, clientVars
<1>6. Elems(Carried(m)) = {m.key}
  BY <1>2, CarriedFacts
<1>7. Taken(c, {m.key})
  BY <1>1, <1>4, <1>6, FirstTaken
<1>8. m.key \in Ahead(c)
  BY <1>7 DEF Taken
<1>9. PICK s \in Seq(ToClientMessages) : toClient' = Send(toClient, c, s) /\ Dealt({m.key}, s)
  BY <1>1, <1>3, <1>4, <1>8, ProcessKeyDeals
<1>10. ASSUME InTurn, NEW h \in Ahead(c) \ {m.key} PROVE m.key.n < h.n
  <2>1. pending[c] = <<>>
    BY <1>1, XimAssumption DEF Inv, PendingMeansSync
  <2>2. KeysOf(pending[c]) = {}
    BY <2>1, KeysOfNone
  <2>3. KeysOf(toServer[c]) = {m.key} \cup KeysOf(Tail(toServer[c]))
    BY <1>2, <1>6, KeysOfTail
  <2>4. h \in KeysOf(Tail(toServer[c]))
    BY <2>2, <2>3 DEF Ahead
  <2>5. Sorted(toServer[c])
    BY <1>10 DEF InTurn
  <2> QED
    BY <1>2, <2>4, <2>5, SortedTail
<1> HIDE DEF m
<1>11. InTurn => \A k \in {m.key}, h \in Ahead(c) \ {m.key} : k.n < h.n
  BY <1>10
<1> QED
  BY <1>5, <1>7, <1>9, <1>11 DEF Deals

\* ProcessQueue takes the first key that is pending.
LEMMA DrainPendingDeals ==
  ASSUME Inv, OnePlace, NEW c \in Clients, DrainPending(c)
  PROVE  Deals(c)
<1> DEFINE m == Head(pending[c])
<1>1. TypeOK /\ ServerTypeOK /\ ClientTypeOK /\ busy = c /\ pending[c] # <<>>
  BY XimAssumption DEF Inv, TypeOK, BusyOK, DrainPending
<1>2. /\ ProcessKey(c, m.ic, m.key) /\ toServer' = toServer
      /\ pending' = [pending EXCEPT ![c] = Tail(@)]
      /\ app' = app /\ pressed' = pressed
  BY DEF DrainPending, clientVars
<1>3. m \in PendingMessages /\ m.key \in Ahead(c) /\ Taken(c, {m.key})
  BY <1>1, <1>2, PendingTaken
<1>4. m.ic \in ICID /\ m.key \in Keys /\ m.type = "FORWARD_EVENT"
  BY <1>3 DEF PendingMessages
<1>5. PICK s \in Seq(ToClientMessages) : toClient' = Send(toClient, c, s) /\ Dealt({m.key}, s)
  BY <1>1, <1>2, <1>3, <1>4, ProcessKeyDeals
<1>6. ASSUME InTurn, NEW h \in Ahead(c) \ {m.key} PROVE m.key.n < h.n
  <2>1. /\ pending[c] \in Seq(ToServerMessages) /\ Sorted(pending[c])
        /\ \A k \in KeysOf(pending[c]), g \in KeysOf(toServer[c]) : k.n < g.n
    BY <1>1, <1>6, PendingIsToServer DEF InTurn, ServerTypeOK
  <2>2. KeysOf(pending[c]) = {m.key} \cup KeysOf(Tail(pending[c]))
    <3>1. Elems(Carried(m)) = {m.key}
      BY <1>4, CarriedFacts
    <3> QED
      BY <1>1, <2>1, <3>1, KeysOfTail
  <2>3. CASE h \in KeysOf(Tail(pending[c]))
    BY <1>1, <1>4, <2>1, <2>3, SortedTail
  <2>4. CASE h \in KeysOf(toServer[c])
    BY <2>1, <2>2, <2>4
  <2> QED
    BY <2>2, <2>3, <2>4 DEF Ahead
<1> HIDE DEF m
<1>7. InTurn => \A k \in {m.key}, h \in Ahead(c) \ {m.key} : k.n < h.n
  BY <1>6
<1> QED
  BY <1>2, <1>3, <1>5, <1>7 DEF Deals

\* A SYNC_REPLY takes the first key out of Queue, and none of a client.
LEMMA SyncReplyDeals ==
  ASSUME Inv, OnePlace, NEW c \in Clients, HandleSyncReply(c)
  PROVE  Deals(c)
<1> DEFINE i == Head(toServer[c]).ic
           k == Head(queue)
<1>1. TypeOK /\ ServerTypeOK /\ Incoming(c, "SYNC_REPLY") /\ queue \in Seq(Keys)
  BY DEF Inv, TypeOK, ServerTypeOK, HandleSyncReply
<1>2. i \in ICID
  BY <1>1, IncomingType, ToServerTypes
<1>3. /\ pending' = pending /\ typed' = typed /\ app' = app /\ pressed' = pressed
  BY DEF HandleSyncReply, clientVars
<1>4. Taken(c, {})
  BY <1>1, <1>3, NoneTaken
<1>5. Once(typed) /\ Once(queue) /\ Elems(typed) \cap Elems(queue) = {}
  BY WordFacts
<1>6. CASE imsSync /\ queue # <<>>
  <2>1. k \in Keys
    BY <1>1, <1>6, HeadTailProperties
  <2>2. toClient' = Send(toClient, c, <<Forward(i, k)>>) /\ queue' = Tail(queue)
    BY <1>6 DEF HandleSyncReply
  <2>3. Elems(queue) = {k} \cup Elems(Tail(queue))
    BY <1>1, <1>6, ElemsTail
  <2>4. Once(Tail(queue)) /\ k \notin Elems(Tail(queue))
    BY <1>1, <1>5, <1>6, OnceTail
  <2> HIDE DEF k, i
  <2>5. PICK s \in Seq(ToClientMessages) :
          s = <<Forward(i, k)>> /\ KeysOf(s) = {k} /\ OnceIn(s)
    BY <1>2, <2>1, ForwardKeys
  <2>6. Dealt({}, s)
    BY <1>3, <1>5, <2>2, <2>3, <2>4, <2>5 DEF Dealt
  <2> QED
    BY <1>1, <1>3, <1>4, <2>2, <2>5, <2>6, QuietDeals
<1>7. CASE ~(imsSync /\ queue # <<>>)
  <2>1. PICK s \in Seq(ToClientMessages) : s = <<>>
    BY EmptySeq
  <2>2. toClient' = Send(toClient, c, s) /\ queue' = queue
    BY <1>7, <2>1 DEF HandleSyncReply
  <2>3. KeysOf(s) = {} /\ OnceIn(s)
    BY <2>1, KeysOfNone
  <2>4. Dealt({}, s)
    BY <1>3, <1>5, <2>2, <2>3 DEF Dealt
  <2> QED
    BY <1>1, <1>3, <1>4, <2>2, <2>4, QuietDeals
<1> QED
  BY <1>6, <1>7

\* CREATE_IC is of no key,
LEMMA CreateICDeals ==
  ASSUME Inv, OnePlace, NEW c \in Clients, HandleCreateIC(c)
  PROVE  Deals(c)
<1> DEFINE r == About("CREATE_IC_REPLY", lastId')
<1>1. TypeOK /\ TypeOK' /\ Incoming(c, "CREATE_IC") /\ lastId' \in ICID
  BY CreateICInv DEF Inv, TypeOK, ServerTypeOK, HandleCreateIC
<1>2. /\ pending' = pending /\ typed' = typed /\ queue' = queue
      /\ app' = app /\ pressed' = pressed /\ toClient' = Send(toClient, c, <<r>>)
  BY DEF HandleCreateIC, clientVars
<1>3. Taken(c, {})
  BY <1>1, <1>2, NoneTaken
<1>4. r \in ToClientMessages /\ r.type = "CREATE_IC_REPLY"
  BY <1>1, TalkMessages DEF Talk, About
<1> HIDE DEF r
<1>5. PICK s \in Seq(ToClientMessages) : s = <<r>> /\ Dealt({}, s)
  BY <1>2, <1>4, OneQuiet
<1> QED
  BY <1>1, <1>2, <1>3, <1>5, QuietDeals

\* nor is DESTROY_IC.
LEMMA DestroyICDeals ==
  ASSUME Inv, OnePlace, NEW c \in Clients, HandleDestroyIC(c)
  PROVE  Deals(c)
<1> DEFINE i == Head(toServer[c]).ic
           r == About("REQUEST_REPLY", i)
<1>1. TypeOK /\ Incoming(c, "DESTROY_IC")
  BY DEF Inv, HandleDestroyIC
<1>2. i \in ICID
  BY <1>1, IncomingType, ToServerTypes DEF Requests
<1>3. /\ pending' = pending /\ typed' = typed /\ queue' = queue
      /\ app' = app /\ pressed' = pressed /\ toClient' = Send(toClient, c, <<r>>)
  BY DEF HandleDestroyIC, clientVars
<1>4. Taken(c, {})
  BY <1>1, <1>3, NoneTaken
<1>5. r \in ToClientMessages /\ r.type = "REQUEST_REPLY"
  BY <1>2, TalkMessages DEF Talk, About
<1> HIDE DEF r
<1>6. PICK s \in Seq(ToClientMessages) : s = <<r>> /\ Dealt({}, s)
  BY <1>3, <1>5, OneQuiet
<1> QED
  BY <1>1, <1>3, <1>4, <1>6, QuietDeals

\* SET_IC_FOCUS drops the word and Queue.
LEMMA SetFocusDeals ==
  ASSUME Inv, OnePlace, NEW c \in Clients, HandleSetFocus(c)
  PROVE  Deals(c)
<1> DEFINE i == Head(toServer[c]).ic
           s == SoftHideMessages(i)
<1>1. TypeOK /\ ServerTypeOK /\ Incoming(c, "SET_IC_FOCUS")
  BY DEF Inv, TypeOK, HandleSetFocus
<1>2. i \in ICID
  BY <1>1, IncomingType, ToServerTypes
<1>3. /\ pending' = pending /\ typed' = <<>> /\ queue' = <<>>
      /\ app' = app /\ pressed' = pressed /\ toClient' = Send(toClient, c, s)
  BY DEF HandleSetFocus, EngineReset, clientVars
<1>4. Taken(c, {})
  BY <1>1, <1>3, NoneTaken
<1>5. s \in Seq(ToClientMessages) /\ KeysOf(s) = {} /\ OnceIn(s)
  BY <1>1, <1>2, SaysSequences, SaysFacts, NoKeys
<1> HIDE DEF s
<1>6. Elems(typed') = {} /\ Once(typed') /\ Elems(queue') = {} /\ Once(queue')
  BY <1>3, ElemsNone
<1>7. Dealt({}, s)
  BY <1>5, <1>6 DEF Dealt
<1> QED
  BY <1>1, <1>3, <1>4, <1>5, <1>7, QuietDeals

\* UNSET_IC_FOCUS commits the word or drops it, and drops Queue.
LEMMA UnsetFocusDeals ==
  ASSUME Inv, OnePlace, NEW c \in Clients, HandleUnsetFocus(c)
  PROVE  Deals(c)
<1> DEFINE i == Head(toServer[c]).ic
<1>1. TypeOK /\ Incoming(c, "UNSET_IC_FOCUS") /\ GiveUpWord(c, i, <<>>)
  BY DEF Inv, HandleUnsetFocus
<1>2. i \in ICID
  BY <1>1, IncomingType, ToServerTypes
<1>3. pending' = pending /\ app' = app /\ pressed' = pressed
  BY <1>1 DEF GiveUpWord, clientVars
<1>4. Taken(c, {})
  BY <1>1, <1>3, NoneTaken
<1>5. PICK r \in Seq(ToClientMessages) : r = <<>>
  BY EmptySeq
<1> HIDE DEF i
<1>6. KeysOf(r) = {} /\ OnceIn(r) /\ GiveUpWord(c, i, r)
  BY <1>1, <1>5, KeysOfNone
<1>7. PICK s \in Seq(ToClientMessages) : toClient' = Send(toClient, c, s) /\ Dealt({}, s)
  BY <1>1, <1>2, <1>6, GiveUpDeals
<1> QED
  BY <1>1, <1>3, <1>4, <1>7, QuietDeals

\* RESET_IC does the same.
LEMMA ResetICDeals ==
  ASSUME Inv, OnePlace, NEW c \in Clients, HandleResetIC(c)
  PROVE  Deals(c)
<1> DEFINE i == Head(toServer[c]).ic
           m == About("REQUEST_REPLY", i)
<1>1. TypeOK /\ Incoming(c, "RESET_IC") /\ GiveUpWord(c, i, <<m>>)
  BY DEF Inv, HandleResetIC
<1>2. i \in ICID
  BY <1>1, IncomingType, ToServerTypes DEF Requests
<1>3. pending' = pending /\ app' = app /\ pressed' = pressed
  BY <1>1 DEF GiveUpWord, clientVars
<1>4. Taken(c, {})
  BY <1>1, <1>3, NoneTaken
<1>5. m \in ToClientMessages /\ m.type = "REQUEST_REPLY"
  BY <1>2, TalkMessages DEF Talk, About
<1> HIDE DEF m
<1>6. PICK r \in Seq(ToClientMessages) : r = <<m>>
  <2>1. <<m>> \in Seq(ToClientMessages)
    BY <1>5
  <2> QED
    BY <2>1
<1>7. KeysOf(r) = {} /\ OnceIn(r)
  <2>1. Elems(Carried(m)) = {} /\ Once(Carried(m))
    BY <1>5, CarriedFacts
  <2>2. KeysOf(<<m>>) = {} /\ OnceIn(<<m>>)
    BY <2>1, KeysOfOne
  <2> QED
    BY <1>6, <2>2
<1> HIDE DEF i
<1>8. GiveUpWord(c, i, r)
  BY <1>1, <1>6
<1>9. PICK s \in Seq(ToClientMessages) : toClient' = Send(toClient, c, s) /\ Dealt({}, s)
  BY <1>1, <1>2, <1>7, <1>8, GiveUpDeals
<1> QED
  BY <1>1, <1>3, <1>4, <1>9, QuietDeals

\* The keys put aside for a client that goes are dropped.
LEMMA DisconnectDeals ==
  ASSUME Inv, OnePlace, NEW c \in Clients, HandleDisconnect(c)
  PROVE  Deals(c)
<1> DEFINE m == Plain("DISCONNECT_REPLY")
<1>1. TypeOK /\ ServerTypeOK /\ Incoming(c, "DISCONNECT")
  BY DEF Inv, TypeOK, HandleDisconnect
<1>2. /\ pending' = [pending EXCEPT ![c] = <<>>] /\ typed' = typed /\ queue' = queue
      /\ app' = app /\ pressed' = pressed /\ toClient' = Send(toClient, c, <<m>>)
  BY DEF HandleDisconnect, clientVars
<1>3. m \in ToClientMessages /\ m.type = "DISCONNECT_REPLY"
  BY DEF Plain, ToClientMessages
<1> HIDE DEF m
<1>4. PICK s \in Seq(ToClientMessages) : s = <<m>> /\ Dealt({}, s)
  BY <1>2, <1>3, OneQuiet
<1>5. \A d \in Clients : OnceIn(toServer[d]) /\ OnceIn(pending[d])
  BY DEF OnePlace, Singly
<1>6. /\ toServer[c] \in Seq(ToServerMessages) /\ toServer[c] # <<>>
      /\ toServer'[c] = Tail(toServer[c])
      /\ \A d \in Clients \ {c} : toServer'[d] = toServer[d]
  BY <1>1, IncomingType
<1>7. KeysOf(toServer'[c]) \subseteq KeysOf(toServer[c]) /\ OnceIn(toServer'[c])
  BY <1>5, <1>6, KeysOfTail, OnceInTail
<1>8. /\ pending'[c] = <<>> /\ KeysOf(<<>>) = {} /\ OnceIn(<<>>)
      /\ \A d \in Clients \ {c} : pending'[d] = pending[d]
  BY <1>1, <1>2, KeysOfNone DEF ServerTypeOK
<1>9. ASSUME NEW d \in Clients
      PROVE  /\ KeysOf(toServer'[d]) \subseteq KeysOf(toServer[d]) /\ OnceIn(toServer'[d])
             /\ KeysOf(pending'[d]) \subseteq KeysOf(pending[d])   /\ OnceIn(pending'[d])
  <2>1. CASE d = c
    BY <1>7, <1>8, <2>1
  <2>2. CASE d # c
    BY <1>5, <1>6, <1>8, <2>2
  <2> QED
    BY <2>1, <2>2
<1>10. ASSUME NEW d \in Clients
       PROVE  /\ Sorted(toServer[d]) => Sorted(toServer'[d])
              /\ Sorted(pending[d]) => Sorted(pending'[d])
  <2>1. Sorted(<<>>)
    BY DEF Sorted
  <2> QED
    BY <1>6, <1>8, <2>1, SortedTail
<1>11. Taken(c, {})
  BY <1>9, <1>10 DEF Taken
<1> QED
  BY <1>1, <1>2, <1>4, <1>11, QuietDeals

\* Every handler deals, but the one that puts a key aside.
LEMMA HandleDeals ==
  ASSUME Inv, OnePlace, NEW c \in Clients, Handle(c), ~(HandleForwardEvent(c) /\ sync[c])
  PROVE  Deals(c)
BY ForwardEventDeals, SyncReplyDeals, DrainPendingDeals, CreateICDeals, DestroyICDeals,
   SetFocusDeals, UnsetFocusDeals, ResetICDeals, DisconnectDeals DEF Handle

\* The clients ask, tell and answer without a key.
Silent(s) == \A j \in DOMAIN s : s[j].type \notin {"FORWARD_EVENT", "COMMIT"}

OnlyAsks ==
  /\ UNCHANGED <<typed, queue, pending, toClient, app, pressed>>
  /\ \A d \in Clients : \E s \in Seq(ToServerMessages) :
       Silent(s) /\ toServer'[d] = toServer[d] \o s

\* What is said silently carries no key, and breaks no order.
LEMMA SilentSaid ==
  ASSUME NEW s \in Seq(ToServerMessages), NEW t \in Seq(ToServerMessages), Silent(t)
  PROVE  /\ KeysOf(s \o t) = KeysOf(s)
         /\ OnceIn(s) => OnceIn(s \o t)
         /\ Sorted(s) => Sorted(s \o t)
<1>1. KeysOf(t) = {} /\ OnceIn(t)
  BY Keyless DEF Silent
<1>2. KeysOf(s \o t) = KeysOf(s)
  <2>1. KeysOf(s \o t) = KeysOf(s) \cup KeysOf(t)
    BY KeysOfConcat
  <2> QED
    BY <1>1, <2>1
<1>3. OnceIn(s) => OnceIn(s \o t)
  <2>1. \A k \in KeysOf(s), h \in KeysOf(t) : k.n # h.n
    BY <1>1
  <2> QED
    BY <1>1, <2>1, OnceInConcat
<1>4. Sorted(t)
  BY SortedFew DEF Silent
<1>5. Sorted(s) => Sorted(s \o t)
  <2>1. \A k \in KeysOf(s), h \in KeysOf(t) : k.n < h.n
    BY <1>1
  <2> QED
    BY <1>4, <2>1, SortedConcat
<1> QED
  BY <1>2, <1>3, <1>5

\* One message is silent when it is of no key.
LEMMA OneSaid ==
  ASSUME TypeOK, NEW c \in Clients, NEW m \in ToServerMessages,
         m.type \notin {"FORWARD_EVENT", "COMMIT"}, toServer' = Send(toServer, c, <<m>>),
         UNCHANGED <<typed, queue, pending, toClient, app, pressed>>
  PROVE  OnlyAsks
<1>1. toServer \in [Clients -> Seq(ToServerMessages)]
  BY DEF TypeOK, ChannelsTypeOK
<1>2. <<m>> \in Seq(ToServerMessages) /\ Silent(<<m>>)
  BY DEF Silent
<1>3. PICK t \in Seq(ToServerMessages) : t = <<m>> /\ Silent(t)
  BY <1>2
<1>4. PICK e \in Seq(ToServerMessages) : e = <<>>
  BY EmptySeq
<1>5. Silent(e)
  BY <1>4 DEF Silent
<1>6. toServer' = Send(toServer, c, t)
  BY <1>3
<1>7. toServer'[c] = toServer[c] \o t /\ \A d \in Clients : d # c => toServer'[d] = toServer[d]
  BY <1>1, <1>6 DEF Send
<1>8. \A d \in Clients : toServer[d] = toServer[d] \o e
  BY <1>1, <1>4, ConcatEmptySeq
<1>9. ASSUME NEW d \in Clients
      PROVE  \E s \in Seq(ToServerMessages) : Silent(s) /\ toServer'[d] = toServer[d] \o s
  <2>1. CASE d = c
    BY <1>3, <1>7, <2>1
  <2>2. CASE d # c
    <3>1. toServer'[d] = toServer[d] \o e
      BY <1>7, <1>8, <2>2
    <3> QED
      BY <1>5, <3>1
  <2> QED
    BY <2>1, <2>2
<1> QED
  BY <1>9 DEF OnlyAsks

\* CREATE_IC is of no key,
LEMMA OpenICAsks == ASSUME TypeOK, NEW c \in Clients, OpenIC(c) PROVE OnlyAsks
<1> DEFINE m == Plain("CREATE_IC")
<1>1. m \in ToServerMessages /\ m.type = "CREATE_IC"
  BY DEF Plain, ToServerMessages
<1>2. /\ toServer' = Send(toServer, c, <<m>>)
      /\ UNCHANGED <<typed, queue, pending, toClient, app, pressed>>
  BY DEF OpenIC, serverVars
<1> HIDE DEF m
<1> QED
  BY <1>1, <1>2, OneSaid

\* nor is DESTROY_IC,
LEMMA CloseICAsks ==
  ASSUME TypeOK, NEW c \in Clients, NEW i \in ICID, CloseIC(c, i) PROVE OnlyAsks
<1> DEFINE m == About("DESTROY_IC", i)
<1>1. m \in ToServerMessages /\ m.type = "DESTROY_IC"
  BY DEF About, ToServerMessages, Requests
<1>2. /\ toServer' = Send(toServer, c, <<m>>)
      /\ UNCHANGED <<typed, queue, pending, toClient, app, pressed>>
  BY DEF CloseIC, serverVars
<1> HIDE DEF m
<1> QED
  BY <1>1, <1>2, OneSaid

\* RESET_IC,
LEMMA UserResetICAsks ==
  ASSUME TypeOK, NEW c \in Clients, NEW i \in ICID, ResetIC(c, i) PROVE OnlyAsks
<1> DEFINE m == About("RESET_IC", i)
<1>1. m \in ToServerMessages /\ m.type = "RESET_IC"
  BY DEF About, ToServerMessages, Requests
<1>2. /\ toServer' = Send(toServer, c, <<m>>)
      /\ UNCHANGED <<typed, queue, pending, toClient, app, pressed>>
  BY DEF ResetIC, serverVars
<1> HIDE DEF m
<1> QED
  BY <1>1, <1>2, OneSaid

\* DISCONNECT,
LEMMA LeaveAsks == ASSUME TypeOK, NEW c \in Clients, Leave(c) PROVE OnlyAsks
<1> DEFINE m == Plain("DISCONNECT")
<1>1. m \in ToServerMessages /\ m.type = "DISCONNECT"
  BY DEF Plain, ToServerMessages
<1>2. /\ toServer' = Send(toServer, c, <<m>>)
      /\ UNCHANGED <<typed, queue, pending, toClient, app, pressed>>
  BY DEF Leave, serverVars
<1> HIDE DEF m
<1> QED
  BY <1>1, <1>2, OneSaid

\* or what a client says of the focus.
LEMMA MoveFocusAsks ==
  ASSUME TypeOK, NEW i \in ICID \cup {NoIC}, MoveFocus(i) PROVE OnlyAsks
<1>1. UNCHANGED <<typed, queue, pending, toClient, app, pressed>>
  BY DEF MoveFocus, serverVars
<1>2. ASSUME NEW d \in Clients
      PROVE  \E s \in Seq(ToServerMessages) : Silent(s) /\ toServer'[d] = toServer[d] \o s
  <2>1. PICK t \in Seq(ToServerMessages) :
           /\ toServer'[d] = toServer[d] \o t
           /\ \A j \in DOMAIN t : t[j].type \in {"SET_IC_FOCUS", "UNSET_IC_FOCUS"}
    BY MoveFocusTells
  <2>2. Silent(t)
    BY <2>1 DEF Silent
  <2> QED
    BY <2>1, <2>2
<1> QED
  BY <1>1, <1>2 DEF OnlyAsks

\* Asking moves no key.
LEMMA AsksOnePlace == ASSUME TypeOK, OnePlace, OnlyAsks PROVE OnePlace'
<1>1. ASSUME NEW d \in Clients
      PROVE  KeysOf(toServer'[d]) = KeysOf(toServer[d]) /\ OnceIn(toServer'[d])
  <2>1. PICK s \in Seq(ToServerMessages) : Silent(s) /\ toServer'[d] = toServer[d] \o s
    BY DEF OnlyAsks
  <2>2. toServer[d] \in Seq(ToServerMessages) /\ OnceIn(toServer[d])
    BY DEF TypeOK, ChannelsTypeOK, OnePlace, Singly
  <2> QED
    BY <2>1, <2>2, SilentSaid
<1>2. UNCHANGED <<typed, queue, pending, toClient, app, pressed>>
  BY DEF OnlyAsks
<1>3. ASSUME NEW b \in Boxes PROVE Content(b)' \subseteq Content(b)
  <2>1. CASE \E d \in Clients : b = ServerBox(d)
    BY <1>1, <2>1, Contents, ContentsNext
  <2>2. CASE b = WordBox \/ b = QueueBox
    BY <1>2, <2>2, Contents, ContentsNext
  <2>3. CASE \E i \in ICID : b = AppBox(i)
    BY <1>2, <2>3, Contents, ContentsNext
  <2>4. CASE \E d \in Clients : b = PendingBox(d) \/ b = ClientBox(d)
    BY <1>2, <2>4, Contents, ContentsNext
  <2> QED
    BY BoxKinds, <2>1, <2>2, <2>3, <2>4
<1>4. Apart' /\ Numbered'
  BY <1>2, <1>3, KeysStay
<1>5. Singly'
  BY <1>1, <1>2 DEF OnePlace, Singly
<1> QED
  BY <1>4, <1>5 DEF OnePlace

\* Keys go to one box and are gone from where they were.
LEMMA FromBoxToBox ==
  ASSUME OnePlace, NEW a \in Boxes, NEW t \in Boxes, a # t, NEW S, S \subseteq Content(a),
         Content(a)' \subseteq Content(a) \ S, Content(t)' \subseteq Content(t) \cup S,
         \A b \in Boxes : b # a /\ b # t => Content(b)' \subseteq Content(b),
         pressed' = pressed
  PROVE  Apart' /\ Numbered'
<1>1. \A b, d \in Boxes : \A k \in Content(b), h \in Content(d) : k.n = h.n => b = d /\ k = h
  BY DEF OnePlace, Apart
<1>2. \A k \in S : k.n \in 1..pressed' /\ k \in Content(a)
  BY DEF OnePlace, Numbered
<1>3. ASSUME NEW b \in Boxes, b # t PROVE Content(b)' \subseteq Content(b) \ S
  <2>1. CASE b = a
    BY <2>1
  <2>2. CASE b # a
    <3>1. \A k \in S : k \notin Content(b)
      BY <1>1, <1>2, <2>2
    <3> QED
      BY <1>3, <2>2, <3>1
  <2> QED
    BY <2>1, <2>2
<1>4. ASSUME NEW k \in S, NEW b \in Boxes, NEW h \in Content(b) \cup S, k.n = h.n PROVE k = h
  <2>1. h \in Content(b) \/ h \in Content(a)
    BY <1>2
  <2> QED
    BY <1>1, <1>2, <1>4, <2>1
<1>5. 1..pressed \subseteq 1..pressed'
  OBVIOUS
<1> QED
  BY <1>2, <1>3, <1>4, <1>5, KeysMove

\* A key put aside.
LEMMA HoldOnePlace ==
  ASSUME Inv, OnePlace, NEW c \in Clients, HandleForwardEvent(c), sync[c]
  PROVE  OnePlace'
<1> DEFINE m == Head(toServer[c])
<1>1. TypeOK /\ ServerTypeOK /\ Incoming(c, "FORWARD_EVENT")
  BY DEF Inv, TypeOK, HandleForwardEvent
<1>2. /\ toServer[c] \in Seq(ToServerMessages) /\ toServer[c] # <<>>
      /\ m \in ToServerMessages /\ m.type = "FORWARD_EVENT"
      /\ toServer'[c] = Tail(toServer[c])
      /\ \A d \in Clients \ {c} : toServer'[d] = toServer[d]
  BY <1>1, IncomingType
<1>3. m \in PendingMessages /\ pending[c] \in Seq(PendingMessages)
  BY <1>1, <1>2, ToServerTypes DEF ServerTypeOK
<1>4. /\ pending' = [pending EXCEPT ![c] = Append(@, m)]
      /\ UNCHANGED <<typed, queue, toClient, app, pressed>>
  BY DEF HandleForwardEvent, clientVars
<1>5. Elems(Carried(m)) = {m.key} /\ Once(Carried(m))
  BY <1>2, CarriedFacts
<1>6. \A d \in Clients : OnceIn(toServer[d]) /\ OnceIn(pending[d])
  BY DEF OnePlace, Singly
<1>7. /\ KeysOf(toServer[c]) = {m.key} \cup KeysOf(toServer'[c])
      /\ OnceIn(toServer'[c]) /\ {m.key} \cap KeysOf(toServer'[c]) = {}
  BY <1>2, <1>5, <1>6, KeysOfTail, OnceInTail
<1>8. \A d \in Clients \ {c} : pending'[d] = pending[d]
  BY <1>1, <1>4 DEF ServerTypeOK
<1>9. pending'[c] = pending[c] \o <<m>>
  BY <1>1, <1>3, <1>4, AppendIsConcat DEF ServerTypeOK
<1>10. KeysOf(<<m>>) = {m.key} /\ OnceIn(<<m>>)
  BY <1>5, KeysOfOne
<1>11. <<m>> \in Seq(PendingMessages)
  BY <1>3
<1> HIDE DEF m
<1>12. PICK t \in Seq(PendingMessages) : t = <<m>>
  BY <1>11
<1>13. KeysOf(pending'[c]) = KeysOf(pending[c]) \cup {m.key}
  <2>1. KeysOf(pending[c] \o t) = KeysOf(pending[c]) \cup KeysOf(t)
    BY <1>3, KeysOfConcat
  <2> QED
    BY <1>9, <1>10, <1>12, <2>1
<1>14. /\ ServerBox(c) \in Boxes /\ PendingBox(c) \in Boxes /\ ServerBox(c) # PendingBox(c)
       /\ Content(ServerBox(c)) = KeysOf(toServer[c])
       /\ Content(PendingBox(c)) = KeysOf(pending[c])
       /\ Content(ServerBox(c))' = KeysOf(toServer'[c])
       /\ Content(PendingBox(c))' = KeysOf(pending'[c])
  BY BoxesDiffer, Contents, ContentsNext
<1>15. OnceIn(pending'[c])
  <2>1. \A k \in KeysOf(pending[c]) : k.n # m.key.n
    BY <1>7, <1>14 DEF OnePlace, Apart
  <2>2. \A k \in KeysOf(pending[c]), h \in KeysOf(t) : k.n # h.n
    BY <1>10, <1>12, <2>1
  <2>3. OnceIn(pending[c] \o t)
    BY <1>3, <1>6, <1>10, <1>12, <2>2, OnceInConcat
  <2> QED
    BY <1>9, <1>12, <2>3
<1>16. ASSUME NEW b \in Boxes, b # ServerBox(c), b # PendingBox(c)
       PROVE  Content(b)' \subseteq Content(b)
  <2>1. CASE b = WordBox \/ b = QueueBox
    BY <1>4, <2>1, Contents, ContentsNext
  <2>2. CASE \E i \in ICID : b = AppBox(i)
    BY <1>4, <2>2, Contents, ContentsNext
  <2>3. ASSUME NEW d \in Clients, b = ClientBox(d) PROVE Content(b)' = Content(b)
    BY <1>4, <2>3, Contents, ContentsNext
  <2>4. ASSUME NEW d \in Clients, b = ServerBox(d) PROVE Content(b)' = Content(b)
    BY <1>2, <1>16, <2>4, Contents, ContentsNext
  <2>5. ASSUME NEW d \in Clients, b = PendingBox(d) PROVE Content(b)' = Content(b)
    BY <1>8, <1>16, <2>5, Contents, ContentsNext
  <2> QED
    BY BoxKinds, <2>1, <2>2, <2>3, <2>4, <2>5
<1>17. Apart' /\ Numbered'
  <2>1. {m.key} \subseteq Content(ServerBox(c))
    BY <1>7, <1>14
  <2>2. Content(ServerBox(c))' \subseteq Content(ServerBox(c)) \ {m.key}
    BY <1>7, <1>14
  <2>3. Content(PendingBox(c))' \subseteq Content(PendingBox(c)) \cup {m.key}
    BY <1>13, <1>14
  <2>4. pressed' = pressed
    BY <1>4
  <2> QED
    BY <1>14, <1>16, <2>1, <2>2, <2>3, <2>4, FromBoxToBox
<1>18. Singly'
  <2>1. \A d \in Clients : OnceIn(toServer'[d]) /\ OnceIn(pending'[d])
    BY <1>2, <1>6, <1>7, <1>8, <1>15
  <2> QED
    BY <1>4, <2>1 DEF OnePlace, Singly
<1> QED
  BY <1>17, <1>18 DEF OnePlace

\* A key typed has a number of its own.
LEMMA TypeKeyOnePlace ==
  ASSUME Inv, OnePlace, NEW c \in Clients, NEW ev \in Keyboard, TypeKey(c, ev)
  PROVE  OnePlace'
<1> DEFINE k == [n |-> pressed + 1, ev |-> ev, home |-> focus]
           m == Forward(focus, k)
<1>1. TypeOK /\ ClientTypeOK /\ toServer \in [Clients -> Seq(ToServerMessages)]
  BY DEF Inv, TypeOK, ChannelsTypeOK
<1>2. focus \in ICID /\ pressed + 1 \in 1..MaxKeys /\ pressed \in Nat /\ pressed' = pressed + 1
  BY <1>1, XimAssumption DEF ClientTypeOK, TypeKey
<1>3. k \in Keys /\ k.n = pressed + 1
  BY <1>2 DEF Keys
<1>4. /\ toServer' = Send(toServer, c, <<m>>)
      /\ UNCHANGED <<typed, queue, pending, toClient, app>>
  BY DEF TypeKey, serverVars
<1> HIDE DEF k
<1>5. m \in ToServerMessages /\ m.type = "FORWARD_EVENT" /\ m.key = k
  BY <1>2, <1>3 DEF Forward, ToServerMessages
<1> HIDE DEF m
<1>6. KeysOf(<<m>>) = {k} /\ OnceIn(<<m>>) /\ <<m>> \in Seq(ToServerMessages)
  BY <1>5, CarriedFacts, KeysOfOne
<1>7. PICK t \in Seq(ToServerMessages) : t = <<m>>
  BY <1>6
<1>8. /\ toServer'[c] = toServer[c] \o t
      /\ \A d \in Clients \ {c} : toServer'[d] = toServer[d]
  BY <1>1, <1>4, <1>7 DEF Send
<1>9. /\ KeysOf(toServer'[c]) = KeysOf(toServer[c]) \cup {k}
  <2>1. KeysOf(toServer[c] \o t) = KeysOf(toServer[c]) \cup KeysOf(t)
    BY <1>1, KeysOfConcat
  <2> QED
    BY <1>6, <1>7, <1>8, <2>1
<1>10. ASSUME NEW b \in Boxes, NEW h \in Content(b) PROVE h.n # k.n
  BY <1>2, <1>3 DEF OnePlace, Numbered
<1>11. /\ ServerBox(c) \in Boxes
       /\ Content(ServerBox(c)) = KeysOf(toServer[c])
       /\ Content(ServerBox(c))' = KeysOf(toServer'[c])
  BY BoxesDiffer, Contents, ContentsNext
<1>12. OnceIn(toServer'[c])
  <2>1. \A h \in KeysOf(toServer[c]), g \in KeysOf(t) : h.n # g.n
    BY <1>6, <1>7, <1>10, <1>11
  <2>2. OnceIn(toServer[c]) /\ OnceIn(t)
    BY <1>6, <1>7 DEF OnePlace, Singly
  <2>3. OnceIn(toServer[c] \o t)
    BY <1>1, <2>1, <2>2, OnceInConcat
  <2> QED
    BY <1>8, <2>3
<1>13. ASSUME NEW b \in Boxes, b # ServerBox(c)
       PROVE  Content(b)' \subseteq Content(b) \ {k}
  <2>1. k \notin Content(b)
    BY <1>10
  <2>2. CASE b = WordBox \/ b = QueueBox
    BY <1>4, <2>1, <2>2, Contents, ContentsNext
  <2>3. CASE \E i \in ICID : b = AppBox(i)
    BY <1>4, <2>1, <2>3, Contents, ContentsNext
  <2>4. ASSUME NEW d \in Clients, b = ClientBox(d) \/ b = PendingBox(d)
        PROVE  Content(b)' = Content(b)
    BY <1>4, <2>4, Contents, ContentsNext
  <2>5. ASSUME NEW d \in Clients, b = ServerBox(d) PROVE Content(b)' = Content(b)
    BY <1>8, <1>13, <2>5, Contents, ContentsNext
  <2> QED
    BY BoxKinds, <2>1, <2>2, <2>3, <2>4, <2>5
<1>14. Apart' /\ Numbered'
  <2>1. Content(ServerBox(c))' \subseteq Content(ServerBox(c)) \cup {k}
    BY <1>9, <1>11
  <2>2. \A g \in {k} : \A b \in Boxes : \A h \in Content(b) \cup {k} : g.n = h.n => g = h
    BY <1>10
  <2>3. \A g \in {k} : g.n \in 1..pressed'
    BY <1>2, <1>3
  <2>4. 1..pressed \subseteq 1..pressed'
    BY <1>2
  <2> QED
    BY <1>11, <1>13, <2>1, <2>2, <2>3, <2>4, KeysMove
<1>15. Singly'
  <2>1. \A d \in Clients : OnceIn(toServer'[d])
    BY <1>8, <1>12 DEF OnePlace, Singly
  <2> QED
    BY <1>4, <2>1 DEF OnePlace, Singly
<1> QED
  BY <1>14, <1>15 DEF OnePlace

\* What a client takes, its application has.
LEMMA ReceiveTakes ==
  ASSUME Inv, NEW c \in Clients, Receive(c)
  PROVE  LET m == Head(toClient[c])
         IN  /\ m.ic \in ICID /\ Carried(m) \in Seq(Keys)
             /\ app'[m.ic] = app[m.ic] \o Carried(m)
             /\ \A i \in ICID \ {m.ic} : app'[i] = app[i]
             /\ Silent(Replies(m))
<1>1. PICK m : m = Head(toClient[c])
  OBVIOUS
<1>2. m \in ToClientMessages /\ m.ic \in ICID /\ Apply(m)
  BY <1>1, Received
<1>3. app \in [ICID -> Seq(Keys)] /\ app[m.ic] \in Seq(Keys)
  BY <1>2 DEF Inv, TypeOK, ClientTypeOK
<1>4. Silent(Replies(m))
  <2>1. \A j \in DOMAIN Replies(m) : Replies(m)[j].type = "SYNC_REPLY"
    BY RepliesFacts
  <2> QED
    BY <2>1 DEF Silent
<1>5. CASE m.type = "COMMIT"
  <2>1. app' = [app EXCEPT ![m.ic] = @ \o m.keys]
    BY <1>2, <1>5 DEF Apply
  <2>2. Carried(m) = m.keys /\ m.keys \in Seq(Keys)
    BY <1>2, <1>5, CarriedFacts, ToClientTypes
  <2> QED
    BY <1>1, <1>2, <1>3, <1>4, <2>1, <2>2
<1>6. CASE m.type = "FORWARD_EVENT"
  <2>1. app' = [app EXCEPT ![m.ic] = Append(@, m.key)]
    BY <1>2, <1>6 DEF Apply
  <2>2. Carried(m) = <<m.key>> /\ m.key \in Keys
    BY <1>2, <1>6, CarriedFacts, ToClientTypes
  <2>3. Append(app[m.ic], m.key) = app[m.ic] \o Carried(m) /\ Carried(m) \in Seq(Keys)
    BY <1>3, <2>2, AppendIsConcat
  <2> QED
    BY <1>1, <1>2, <1>3, <1>4, <2>1, <2>3
<1>7. CASE m.type \notin {"COMMIT", "FORWARD_EVENT"}
  <2>1. app' = app
    BY <1>2, <1>7 DEF Apply
  <2>2. Carried(m) = <<>>
    BY <1>7, CarriedFacts
  <2>3. app[m.ic] = app[m.ic] \o Carried(m) /\ Carried(m) \in Seq(Keys)
    BY <1>3, <2>2, ConcatEmptySeq, EmptySeq
  <2> QED
    BY <1>1, <1>2, <1>4, <2>1, <2>3
<1> QED
  BY <1>5, <1>6, <1>7

\* The keys of a message go to the context it is for.
LEMMA ReceiveOnePlace ==
  ASSUME Inv, OnePlace, NEW c \in Clients, Receive(c) PROVE OnePlace'
<1>1. PICK m : m = Head(toClient[c])
  OBVIOUS
<1>2. PICK t : t = Replies(m)
  OBVIOUS
<1>3. PICK s : s = Carried(m)
  OBVIOUS
<1>4. /\ toClient[c] \in Seq(ToClientMessages) /\ toClient[c] # <<>>
      /\ toServer[c] \in Seq(ToServerMessages)
      /\ m.ic \in ICID /\ t \in Seq(ToServerMessages)
      /\ toServer'[c] = toServer[c] \o t
      /\ \A x \in Clients \ {c} : toServer'[x] = toServer[x]
      /\ toClient'[c] = Tail(toClient[c])
      /\ \A x \in Clients \ {c} : toClient'[x] = toClient[x]
  BY <1>1, <1>2, Received
<1>5. UNCHANGED <<typed, queue, pending, pressed>>
  BY Received DEF serverVars
<1>6. /\ s \in Seq(Keys) /\ app'[m.ic] = app[m.ic] \o s
      /\ \A i \in ICID \ {m.ic} : app'[i] = app[i]
      /\ Silent(t)
  BY <1>1, <1>2, <1>3, ReceiveTakes
<1>7. app[m.ic] \in Seq(Keys)
  BY <1>4 DEF Inv, TypeOK, ClientTypeOK
<1>8. /\ \A i \in ICID : Once(app[i])
      /\ \A d \in Clients : OnceIn(pending[d]) /\ OnceIn(toServer[d]) /\ OnceIn(toClient[d])
      /\ Once(typed) /\ Once(queue)
  BY DEF OnePlace, Singly
<1>9. KeysOf(toClient[c]) = Elems(s) \cup KeysOf(toClient'[c])
  BY <1>1, <1>3, <1>4, KeysOfTail
<1>10. /\ OnceIn(toClient'[c]) /\ Once(s) /\ Elems(s) \cap KeysOf(toClient'[c]) = {}
  BY <1>1, <1>3, <1>4, <1>8, OnceInTail
<1>11. KeysOf(toServer'[c]) = KeysOf(toServer[c]) /\ OnceIn(toServer'[c])
  BY <1>4, <1>6, <1>8, SilentSaid
<1>12. Elems(app'[m.ic]) = Elems(app[m.ic]) \cup Elems(s)
  BY <1>6, <1>7, ElemsConcat
<1>13. /\ ClientBox(c) \in Boxes /\ AppBox(m.ic) \in Boxes /\ ClientBox(c) # AppBox(m.ic)
       /\ Content(ClientBox(c)) = KeysOf(toClient[c])
       /\ Content(AppBox(m.ic)) = Elems(app[m.ic])
       /\ Content(ClientBox(c))' = KeysOf(toClient'[c])
       /\ Content(AppBox(m.ic))' = Elems(app'[m.ic])
  BY <1>4, BoxesDiffer, Contents, ContentsNext
<1>14. Once(app'[m.ic])
  <2>1. \A k \in Elems(app[m.ic]), h \in Elems(s) : k.n # h.n
    BY <1>9, <1>13 DEF OnePlace, Apart
  <2>2. Once(app[m.ic] \o s)
    BY <1>4, <1>6, <1>7, <1>8, <1>10, <2>1, OnceConcat
  <2> QED
    BY <1>6, <2>2
<1>15. ASSUME NEW b \in Boxes, b # ClientBox(c), b # AppBox(m.ic)
       PROVE  Content(b)' \subseteq Content(b)
  <2>1. CASE b = WordBox \/ b = QueueBox
    BY <1>5, <2>1, Contents, ContentsNext
  <2>2. ASSUME NEW i \in ICID, b = AppBox(i) PROVE Content(b)' = Content(b)
    BY <1>6, <1>15, <2>2, Contents, ContentsNext
  <2>3. ASSUME NEW d \in Clients, b = PendingBox(d) PROVE Content(b)' = Content(b)
    BY <1>5, <2>3, Contents, ContentsNext
  <2>4. ASSUME NEW d \in Clients, b = ServerBox(d) PROVE Content(b)' = Content(b)
    <3>1. KeysOf(toServer'[d]) = KeysOf(toServer[d])
      BY <1>4, <1>11
    <3> QED
      BY <2>4, <3>1, Contents, ContentsNext
  <2>5. ASSUME NEW d \in Clients, b = ClientBox(d) PROVE Content(b)' = Content(b)
    BY <1>4, <1>15, <2>5, Contents, ContentsNext
  <2> QED
    BY BoxKinds, <2>1, <2>2, <2>3, <2>4, <2>5
<1>16. Apart' /\ Numbered'
  <2>1. Elems(s) \subseteq Content(ClientBox(c))
    BY <1>9, <1>13
  <2>2. Content(ClientBox(c))' \subseteq Content(ClientBox(c)) \ Elems(s)
    BY <1>9, <1>10, <1>13
  <2>3. Content(AppBox(m.ic))' \subseteq Content(AppBox(m.ic)) \cup Elems(s)
    BY <1>12, <1>13
  <2>4. pressed' = pressed
    BY <1>5
  <2> QED
    BY <1>13, <1>15, <2>1, <2>2, <2>3, <2>4, FromBoxToBox
<1>17. Singly'
  <2>1. \A d \in Clients : OnceIn(toServer'[d]) /\ OnceIn(toClient'[d])
    BY <1>4, <1>8, <1>10, <1>11
  <2>2. \A i \in ICID : Once(app'[i])
    BY <1>6, <1>8, <1>14
  <2> QED
    BY <1>5, <1>8, <2>1, <2>2 DEF Singly
<1> QED
  BY <1>16, <1>17 DEF OnePlace

\* What a client that leaves is sent is dropped.
LEMMA ReceiveLeavingOnePlace ==
  ASSUME Inv, OnePlace, NEW c \in Clients, ReceiveLeaving(c) PROVE OnePlace'
<1>1. /\ toClient \in [Clients -> Seq(ToClientMessages)] /\ toClient[c] # <<>>
      /\ UNCHANGED <<typed, queue, pending, toServer, app, pressed>>
      /\ toClient' = [toClient EXCEPT ![c] = Tail(@)]
  BY DEF Inv, TypeOK, ChannelsTypeOK, ReceiveLeaving, serverVars
<1>2. /\ toClient[c] \in Seq(ToClientMessages) /\ toClient'[c] = Tail(toClient[c])
      /\ \A d \in Clients : d # c => toClient'[d] = toClient[d]
  BY <1>1
<1>3. \A d \in Clients : OnceIn(toClient[d])
  BY DEF OnePlace, Singly
<1>4. KeysOf(toClient'[c]) \subseteq KeysOf(toClient[c]) /\ OnceIn(toClient'[c])
  BY <1>1, <1>2, <1>3, KeysOfTail, OnceInTail
<1>5. ASSUME NEW b \in Boxes PROVE Content(b)' \subseteq Content(b)
  <2>1. CASE b = WordBox \/ b = QueueBox
    BY <1>1, <2>1, Contents, ContentsNext
  <2>2. CASE \E i \in ICID : b = AppBox(i)
    BY <1>1, <2>2, Contents, ContentsNext
  <2>3. ASSUME NEW d \in Clients, b = PendingBox(d) \/ b = ServerBox(d)
        PROVE  Content(b)' = Content(b)
    BY <1>1, <2>3, Contents, ContentsNext
  <2>4. ASSUME NEW d \in Clients, b = ClientBox(d) PROVE Content(b)' \subseteq Content(b)
    <3>1. KeysOf(toClient'[d]) \subseteq KeysOf(toClient[d])
      BY <1>2, <1>4
    <3> QED
      BY <2>4, <3>1, Contents, ContentsNext
  <2> QED
    BY BoxKinds, <2>1, <2>2, <2>3, <2>4
<1>6. Apart' /\ Numbered'
  BY <1>1, <1>5, KeysStay
<1>7. Singly'
  <2>1. \A d \in Clients : OnceIn(toClient'[d])
    BY <1>2, <1>3, <1>4
  <2> QED
    BY <1>1, <2>1 DEF OnePlace, Singly
<1> QED
  BY <1>6, <1>7 DEF OnePlace

\* At first there is no key.
LEMMA InitOnePlace == Init => OnePlace
<1> SUFFICES ASSUME Init PROVE OnePlace
  OBVIOUS
<1>1. /\ typed = <<>> /\ queue = <<>> /\ \A i \in ICID : app[i] = <<>>
      /\ \A c \in Clients : pending[c] = <<>> /\ toServer[c] = <<>> /\ toClient[c] = <<>>
  BY DEF Init
<1>2. Elems(<<>>) = {} /\ Once(<<>>) /\ KeysOf(<<>>) = {} /\ OnceIn(<<>>)
  BY ElemsNone, KeysOfNone
<1>3. ASSUME NEW b \in Boxes PROVE Content(b) = {}
  BY <1>1, <1>2, BoxKinds, Contents
<1>4. Apart /\ Numbered
  BY <1>3 DEF Apart, Numbered
<1>5. Singly
  BY <1>1, <1>2 DEF Singly
<1> QED
  BY <1>4, <1>5 DEF OnePlace

\* Every step keeps each key in one place.
LEMMA NextOnePlace == Inv /\ OnePlace /\ [Next]_vars => OnePlace'
<1> SUFFICES ASSUME Inv, OnePlace, [Next]_vars PROVE OnePlace'
  OBVIOUS
<1>1. TypeOK
  BY DEF Inv
<1>2. ASSUME NEW c \in Clients, Handle(c) PROVE OnePlace'
  <2>1. CASE HandleForwardEvent(c) /\ sync[c]
    BY <2>1, HoldOnePlace
  <2>2. CASE ~(HandleForwardEvent(c) /\ sync[c])
    <3>1. Deals(c)
      BY <1>2, <2>2, HandleDeals
    <3> QED
      BY <1>1, <3>1, ServerDeals DEF Deals
  <2> QED
    BY <2>1, <2>2
<1>3. ASSUME NEW c \in Clients, Receive(c) \/ ReceiveLeaving(c) PROVE OnePlace'
  BY <1>3, ReceiveOnePlace, ReceiveLeavingOnePlace
<1>4. ASSUME NEW c \in Clients, UserAct(c) PROVE OnePlace'
  <2>1. CASE \E ev \in Keyboard : TypeKey(c, ev)
    BY <2>1, TypeKeyOnePlace
  <2>2. CASE OpenIC(c) \/ Leave(c) \/ \E i \in ICID : CloseIC(c, i) \/ ResetIC(c, i)
    BY <1>1, <2>2, OpenICAsks, LeaveAsks, CloseICAsks, UserResetICAsks, AsksOnePlace
  <2> QED
    BY <1>4, <2>1, <2>2 DEF UserAct
<1>5. ASSUME NEW i \in ICID \cup {NoIC}, MoveFocus(i) PROVE OnePlace'
  BY <1>1, <1>5, MoveFocusAsks, AsksOnePlace
<1>6. CASE UNCHANGED vars
  <2>1. UNCHANGED <<typed, queue, pending, toServer, toClient, app, pressed>>
    BY <1>6 DEF vars, serverVars, channels, clientVars
  <2>2. ASSUME NEW b \in Boxes PROVE Content(b)' \subseteq Content(b)
    BY <2>1 DEF Content
  <2>3. Apart' /\ Numbered'
    BY <2>1, <2>2, KeysStay
  <2>4. Singly'
    BY <2>1 DEF OnePlace, Singly
  <2> QED
    BY <2>3, <2>4 DEF OnePlace
<1> QED
  BY <1>2, <1>3, <1>4, <1>5, <1>6 DEF Next

\* Place p of a key with number n is in box b.
Sits(p, n, b) ==
  \/ b = WordBox /\ \E j \in At(typed, n) : p = <<"word", j>>
  \/ b = QueueBox /\ \E j \in At(queue, n) : p = <<"queue", j>>
  \/ \E i \in ICID : b = AppBox(i) /\ \E j \in At(app[i], n) : p = <<"app", i, j>>
  \/ \E c \in Clients : /\ b = PendingBox(c)
                        /\ \E j \in DOMAIN pending[c] : /\ pending[c][j].key.n = n
                                                        /\ p = <<"pending", c, j>>
  \/ \E c \in Clients : /\ b = ServerBox(c)
                        /\ \E j \in DOMAIN toServer[c] : /\ At(Carried(toServer[c][j]), n) # {}
                                                         /\ p = <<"toServer", c, j>>
  \/ \E c \in Clients : /\ b = ClientBox(c)
                        /\ \E j \in DOMAIN toClient[c] : /\ At(Carried(toClient[c][j]), n) # {}
                                                         /\ p = <<"toClient", c, j>>

\* Every place is in a box,
LEMMA PlaceInBox ==
  ASSUME NEW n, NEW p \in Places(n)
  PROVE  \E b \in Boxes : Sits(p, n, b)
<1>1. CASE p \in {<<"word", j>> : j \in At(typed, n)}
  BY <1>1, BoxesDiffer DEF Sits
<1>2. CASE p \in {<<"queue", j>> : j \in At(queue, n)}
  BY <1>2, BoxesDiffer DEF Sits
<1>3. CASE p \in UNION {{<<"app", i, j>> : j \in At(app[i], n)} : i \in ICID}
  <2>1. PICK i \in ICID : \E j \in At(app[i], n) : p = <<"app", i, j>>
    BY <1>3
  <2>2. AppBox(i) \in Boxes /\ Sits(p, n, AppBox(i))
    BY <2>1, BoxesDiffer DEF Sits
  <2> QED
    BY <2>2
<1>4. CASE p \in UNION {{<<"pending", c, j>> : j \in {j \in DOMAIN pending[c] :
                            pending[c][j].key.n = n}} : c \in Clients}
  <2>1. PICK c \in Clients : \E j \in DOMAIN pending[c] :
                                pending[c][j].key.n = n /\ p = <<"pending", c, j>>
    BY <1>4
  <2>2. PendingBox(c) \in Boxes /\ Sits(p, n, PendingBox(c))
    BY <2>1, BoxesDiffer DEF Sits
  <2> QED
    BY <2>2
<1>5. CASE p \in UNION {{<<"toServer", c, j>> : j \in {j \in DOMAIN toServer[c] :
                            At(Carried(toServer[c][j]), n) # {}}} : c \in Clients}
  <2>1. PICK c \in Clients : \E j \in DOMAIN toServer[c] :
                                At(Carried(toServer[c][j]), n) # {} /\ p = <<"toServer", c, j>>
    BY <1>5
  <2>2. ServerBox(c) \in Boxes /\ Sits(p, n, ServerBox(c))
    BY <2>1, BoxesDiffer DEF Sits
  <2> QED
    BY <2>2
<1>6. CASE p \in UNION {{<<"toClient", c, j>> : j \in {j \in DOMAIN toClient[c] :
                            At(Carried(toClient[c][j]), n) # {}}} : c \in Clients}
  <2>1. PICK c \in Clients : \E j \in DOMAIN toClient[c] :
                                At(Carried(toClient[c][j]), n) # {} /\ p = <<"toClient", c, j>>
    BY <1>6
  <2>2. ClientBox(c) \in Boxes /\ Sits(p, n, ClientBox(c))
    BY <2>1, BoxesDiffer DEF Sits
  <2> QED
    BY <2>2
<1> QED
  BY <1>1, <1>2, <1>3, <1>4, <1>5, <1>6 DEF Places

\* where a key of that number is,
LEMMA KeyAt ==
  ASSUME NEW s, NEW n, NEW j \in At(s, n)
  PROVE  j \in DOMAIN s /\ s[j] \in Elems(s) /\ s[j].n = n
BY DEF At, Elems

\* A key carried by a message of a channel is a key of that channel.
LEMMA CarriedInChannel ==
  ASSUME NEW s, NEW j \in DOMAIN s, NEW n, At(Carried(s[j]), n) # {}
  PROVE  \E k \in Elems(Carried(s[j])) : k.n = n /\ k \in KeysOf(s)
<1>1. PICK p : p \in At(Carried(s[j]), n)
  OBVIOUS
<1>2. PICK k \in Elems(Carried(s[j])) : k.n = n
  BY <1>1, KeyAt
<1> QED
  BY <1>2 DEF KeysOf

\* Where a number sits there is a key of that number.
LEMMA KeyInBox ==
  ASSUME TypeOK, NEW n, NEW p, NEW b \in Boxes, Sits(p, n, b)
  PROVE  \E k \in Content(b) : k.n = n
<1>1. CASE b = WordBox /\ \E j \in At(typed, n) : p = <<"word", j>>
  BY <1>1, KeyAt, Contents
<1>2. CASE b = QueueBox /\ \E j \in At(queue, n) : p = <<"queue", j>>
  BY <1>2, KeyAt, Contents
<1>3. ASSUME NEW i \in ICID, b = AppBox(i), NEW j \in At(app[i], n)
      PROVE  \E k \in Content(b) : k.n = n
  BY <1>3, KeyAt, Contents
<1>4. ASSUME NEW c \in Clients, b = PendingBox(c), NEW j \in DOMAIN pending[c],
             pending[c][j].key.n = n
      PROVE  \E k \in Content(b) : k.n = n
  <2>1. pending[c] \in Seq(PendingMessages)
    BY DEF TypeOK, ServerTypeOK
  <2>2. pending[c][j].key \in KeysOf(pending[c])
    BY <2>1, PendingIsToServer, KeysToServer
  <2> QED
    BY <1>4, <2>2, Contents
<1>5. ASSUME NEW c \in Clients, b = ServerBox(c), NEW j \in DOMAIN toServer[c],
             At(Carried(toServer[c][j]), n) # {}
      PROVE  \E k \in Content(b) : k.n = n
  BY <1>5, CarriedInChannel, Contents
<1>6. ASSUME NEW c \in Clients, b = ClientBox(c), NEW j \in DOMAIN toClient[c],
             At(Carried(toClient[c][j]), n) # {}
      PROVE  \E k \in Content(b) : k.n = n
  BY <1>6, CarriedInChannel, Contents
<1> QED
  BY <1>1, <1>2, <1>3, <1>4, <1>5, <1>6 DEF Sits

\* and there is one in each box.
LEMMA OneInBox ==
  ASSUME TypeOK, Singly, NEW n, NEW p, NEW q, NEW b \in Boxes, Sits(p, n, b), Sits(q, n, b)
  PROVE  p = q
<1>1. ASSUME NEW s, Once(s), NEW j \in At(s, n), NEW k \in At(s, n) PROVE j = k
  BY <1>1 DEF At, Once
<1>2. ASSUME NEW s, OnceIn(s), NEW j \in DOMAIN s, NEW k \in DOMAIN s,
             At(Carried(s[j]), n) # {}, At(Carried(s[k]), n) # {}
      PROVE  j = k
  <2>1. PICK g \in Elems(Carried(s[j])) : g.n = n
    BY <1>2, CarriedInChannel
  <2>2. PICK h \in Elems(Carried(s[k])) : h.n = n
    BY <1>2, CarriedInChannel
  <2> QED
    BY <1>2, <2>1, <2>2 DEF OnceIn
<1>3. CASE b = WordBox
  <2>1. /\ \E j \in At(typed, n) : p = <<"word", j>>
        /\ \E j \in At(typed, n) : q = <<"word", j>>
    BY <1>3, BoxesDiffer DEF Sits
  <2> QED
    BY <1>1, <2>1 DEF Singly
<1>4. CASE b = QueueBox
  <2>1. /\ \E j \in At(queue, n) : p = <<"queue", j>>
        /\ \E j \in At(queue, n) : q = <<"queue", j>>
    BY <1>4, BoxesDiffer DEF Sits
  <2> QED
    BY <1>1, <2>1 DEF Singly
<1>5. ASSUME NEW i \in ICID, b = AppBox(i) PROVE p = q
  <2>1. ASSUME NEW x, Sits(x, n, b) PROVE \E j \in At(app[i], n) : x = <<"app", i, j>>
    BY <1>5, <2>1, BoxesDiffer DEF Sits
  <2> QED
    BY <1>1, <2>1 DEF Singly
<1>6. ASSUME NEW c \in Clients, b = PendingBox(c) PROVE p = q
  <2>1. ASSUME NEW x, Sits(x, n, b)
        PROVE  \E j \in DOMAIN pending[c] : pending[c][j].key.n = n /\ x = <<"pending", c, j>>
    BY <1>6, <2>1, BoxesDiffer DEF Sits
  <2>2. PICK j \in DOMAIN pending[c] : pending[c][j].key.n = n /\ p = <<"pending", c, j>>
    BY <2>1
  <2>3. PICK k \in DOMAIN pending[c] : pending[c][k].key.n = n /\ q = <<"pending", c, k>>
    BY <2>1
  <2>4. pending[c] \in Seq(PendingMessages)
    BY DEF TypeOK, ServerTypeOK
  <2>5. /\ pending[c][j].key \in Elems(Carried(pending[c][j]))
        /\ pending[c][k].key \in Elems(Carried(pending[c][k]))
    BY <2>4, PendingIsToServer, CarriedFacts
  <2>6. j = k
    BY <2>2, <2>3, <2>5 DEF Singly, OnceIn
  <2> QED
    BY <2>2, <2>3, <2>6
<1>7. ASSUME NEW c \in Clients, b = ServerBox(c) PROVE p = q
  <2>1. ASSUME NEW x, Sits(x, n, b)
        PROVE  \E j \in DOMAIN toServer[c] : /\ At(Carried(toServer[c][j]), n) # {}
                                             /\ x = <<"toServer", c, j>>
    BY <1>7, <2>1, BoxesDiffer DEF Sits
  <2> QED
    BY <1>2, <2>1 DEF Singly
<1>8. ASSUME NEW c \in Clients, b = ClientBox(c) PROVE p = q
  <2>1. ASSUME NEW x, Sits(x, n, b)
        PROVE  \E j \in DOMAIN toClient[c] : /\ At(Carried(toClient[c][j]), n) # {}
                                             /\ x = <<"toClient", c, j>>
    BY <1>8, <2>1, BoxesDiffer DEF Sits
  <2> QED
    BY <1>2, <2>1 DEF Singly
<1> QED
  BY BoxKinds, <1>3, <1>4, <1>5, <1>6, <1>7, <1>8

\* Keys apart, and each once in its box, have one place.
LEMMA OnePlaceEach == TypeOK /\ OnePlace => KeyInOnePlace
<1> SUFFICES ASSUME TypeOK, OnePlace, NEW n, NEW p \in Places(n), NEW q \in Places(n)
             PROVE  p = q
  BY DEF KeyInOnePlace
<1>1. PICK b \in Boxes : Sits(p, n, b)
  BY PlaceInBox
<1>2. PICK d \in Boxes : Sits(q, n, d)
  BY PlaceInBox
<1>3. b = d
  <2>1. PICK k \in Content(b) : k.n = n
    BY <1>1, KeyInBox
  <2>2. PICK h \in Content(d) : h.n = n
    BY <1>2, KeyInBox
  <2> QED
    BY <2>1, <2>2 DEF OnePlace, Apart
<1> QED
  BY <1>1, <1>2, <1>3, OneInBox DEF OnePlace

(***************************************************************************)
(* A key is in one place: ProcessKey, the release of Queue by a SYNC_REPLY *)
(* and ProcessQueue each take a key from where it was before they put it   *)
(* anywhere else, and nothing is ever dealt twice.                         *)
(***************************************************************************)
THEOREM SpecOnePlace == Spec => [](Inv /\ OnePlace)
<1>1. Init => Inv /\ OnePlace
  BY InitInv, InitOnePlace
<1>2. (Inv /\ OnePlace) /\ [Next]_vars => (Inv /\ OnePlace)'
  BY NextInv, NextOnePlace
<1> QED
  BY <1>1, <1>2, PTL DEF Spec

\* In particular no number has two places: no key is committed or forwarded
\* twice, nor while it still waits in Queue or in the pending list of a client.
THEOREM KeysInOnePlace == Spec => []KeyInOnePlace
<1>1. Inv /\ OnePlace => KeyInOnePlace
  BY OnePlaceEach DEF Inv
<1> QED
  BY <1>1, SpecOnePlace, PTL
-----------------------------------------------------------------------------
(* The server takes the keys of a context in the order of typing.          *)

\* Where a key is that was handled.
HandledAt(h) == \/ h \in Elems(typed) \/ h \in Elems(queue)
                \/ \E i \in ICID : h \in Elems(app[i])
                \/ \E c \in Clients : h \in KeysOf(toClient[c])

\* These are the keys that were handled.
LEMMA HandledKeys ==
  /\ \A h \in Handled : HandledAt(h)
  /\ \A h : HandledAt(h) => h \in Handled
<1>1. \A s : {s[j] : j \in DOMAIN s} = Elems(s)
  BY DEF Elems
<1>2. ASSUME NEW s PROVE UNION {Elems(Carried(m)) : m \in Elems(s)} = KeysOf(s)
  BY DEF Elems, KeysOf
<1>3. Handled = Elems(typed) \cup Elems(queue) \cup (UNION {Elems(app[i]) : i \in ICID})
                  \cup (UNION {KeysOf(toClient[c]) : c \in Clients})
  <2>1. Handled = Elems(typed) \cup Elems(queue) \cup (UNION {Elems(app[i]) : i \in ICID})
          \cup (UNION {UNION {Elems(Carried(m)) : m \in Elems(toClient[c])} : c \in Clients})
    BY <1>1 DEF Handled, Elems
  <2> QED
    BY <1>2, <2>1
<1> QED
  BY <1>3 DEF HandledAt

\* The same after a step.
LEMMA HandledKeysNext ==
  /\ \A h \in Handled' : HandledAt(h)'
  /\ \A h : HandledAt(h)' => h \in Handled'
<1>1. \A s : {s[j] : j \in DOMAIN s} = Elems(s)
  BY DEF Elems
<1>2. ASSUME NEW s PROVE UNION {Elems(Carried(m)) : m \in Elems(s)} = KeysOf(s)
  BY DEF Elems, KeysOf
<1>3. Handled' = Elems(typed') \cup Elems(queue') \cup (UNION {Elems(app'[i]) : i \in ICID})
                   \cup (UNION {KeysOf(toClient'[c]) : c \in Clients})
  <2>1. Handled' = Elems(typed') \cup Elems(queue') \cup (UNION {Elems(app'[i]) : i \in ICID})
          \cup (UNION {UNION {Elems(Carried(m)) : m \in Elems(toClient'[c])} : c \in Clients})
    BY <1>1 DEF Handled, Elems
  <2> QED
    BY <1>2, <2>1
<1> QED
  BY <1>3 DEF HandledAt

\* Such a key was typed, so that it has a number.
LEMMA HandledNumber ==
  ASSUME OnePlace, NEW h \in Handled
  PROVE  h.n \in 1..pressed
<1>1. ASSUME NEW b \in Boxes, h \in Content(b) PROVE h.n \in 1..pressed
  BY <1>1 DEF OnePlace, Numbered
<1>2. HandledAt(h)
  BY HandledKeys
<1> QED
  BY <1>1, <1>2, Contents, BoxesDiffer DEF HandledAt

\* The keys that wait at a client are of contexts of that client.
LEMMA HomeOf ==
  ASSUME TypeOK, Owners, NEW c \in Clients, NEW k \in Ahead(c)
  PROVE  k.home \in Ids(c)
<1>1. toServer[c] \in Seq(ToServerMessages) /\ pending[c] \in Seq(PendingMessages)
  BY DEF TypeOK, ServerTypeOK, ChannelsTypeOK
<1>2. CASE k \in KeysOf(toServer[c])
  <2>1. PICK j \in DOMAIN toServer[c] :
           toServer[c][j].type = "FORWARD_EVENT" /\ toServer[c][j].key = k
    BY <1>1, <1>2, KeysToServer
  <2>2. toServer[c][j].ic \in Subjects(toServer[c])
    BY <2>1 DEF Subjects
  <2>3. k.home = toServer[c][j].ic
    BY <2>1 DEF Owners, AtHome
  <2> QED
    BY <2>2, <2>3 DEF Ids
<1>3. CASE k \in KeysOf(pending[c])
  <2>1. PICK j \in DOMAIN pending[c] :
           pending[c][j].type = "FORWARD_EVENT" /\ pending[c][j].key = k
    BY <1>1, <1>3, PendingIsToServer, KeysToServer
  <2>2. pending[c][j].ic \in Subjects(pending[c])
    BY <2>1 DEF Subjects
  <2>3. k.home = pending[c][j].ic
    BY <2>1 DEF Owners, AtHome
  <2> QED
    BY <2>2, <2>3 DEF Ids
<1> QED
  BY <1>2, <1>3 DEF Ahead

\* Keys that wait at two clients are of different contexts.
LEMMA DifferentHomes ==
  ASSUME TypeOK, Owners, NEW c \in Clients, NEW d \in Clients, c # d,
         NEW k \in Ahead(c), NEW h \in Ahead(d)
  PROVE  k.home # h.home
<1>1. k.home \in Ids(c) /\ h.home \in Ids(d)
  BY HomeOf
<1> QED
  BY <1>1 DEF Owners, Owned

\* The keys that were handled stay, and those taken come to them.
LEMMA DealsInTurn ==
  ASSUME Inv, Owners, InTurn, NEW c \in Clients, Deals(c)
  PROVE  InTurn'
<1>1. TypeOK
  BY DEF Inv
<1>2. PICK T : \E s \in Seq(ToClientMessages) :
        /\ toClient' = Send(toClient, c, s) /\ Taken(c, T) /\ Dealt(T, s)
        /\ app' = app
        /\ \A k \in T, h \in Ahead(c) \ T : k.n < h.n
  BY DEF Deals
<1>3. PICK s \in Seq(ToClientMessages) :
        /\ toClient' = Send(toClient, c, s) /\ Taken(c, T) /\ Dealt(T, s)
        /\ app' = app
        /\ \A k \in T, h \in Ahead(c) \ T : k.n < h.n
  BY <1>2
<1>4. /\ \A d \in Clients : d # c => toClient'[d] = toClient[d]
      /\ KeysOf(toClient'[c]) = KeysOf(toClient[c]) \cup KeysOf(s)
  BY <1>1, <1>3, SentKeys
<1>5. Elems(typed') \cup Elems(queue') \cup KeysOf(s) \subseteq Elems(typed) \cup Elems(queue) \cup T
  BY <1>3 DEF Dealt
<1>6. ASSUME NEW h \in Handled' PROVE h \in Handled \/ h \in T
  <2>1. HandledAt(h)'
    BY HandledKeysNext
  <2>2. \/ h \in Elems(typed') \/ h \in Elems(queue')
        \/ \E i \in ICID : h \in Elems(app[i])
        \/ \E d \in Clients : h \in KeysOf(toClient'[d])
    BY <1>3, <2>1 DEF HandledAt
  <2>3. \/ h \in Elems(typed) \/ h \in Elems(queue) \/ h \in T
        \/ \E i \in ICID : h \in Elems(app[i])
        \/ \E d \in Clients : h \in KeysOf(toClient[d])
    BY <1>4, <1>5, <2>2
  <2> QED
    BY <2>3, HandledKeys DEF HandledAt
<1>7. ASSUME NEW d \in Clients
      PROVE  /\ KeysOf(toServer'[d]) \subseteq KeysOf(toServer[d])
             /\ KeysOf(pending'[d]) \subseteq KeysOf(pending[d])
             /\ Sorted(toServer'[d]) /\ Sorted(pending'[d])
  BY <1>3 DEF Taken, InTurn
<1>8. /\ T \subseteq Ahead(c)
      /\ T \cap (KeysOf(toServer'[c]) \cup KeysOf(pending'[c])) = {}
  BY <1>3 DEF Taken
<1>9. ASSUME NEW d \in Clients,
             NEW k \in KeysOf(pending'[d]) \cup KeysOf(toServer'[d]),
             NEW h \in Handled', h.home = k.home
      PROVE  h.n < k.n
  <2>1. k \in Ahead(d)
    BY <1>7 DEF Ahead
  <2>2. CASE h \in Handled
    BY <1>9, <2>1, <2>2 DEF InTurn
  <2>3. CASE h \in T
    <3>1. d = c
      BY <1>1, <1>8, <1>9, <2>1, <2>3, DifferentHomes
    <3>2. k \in Ahead(c) \ T
      BY <1>8, <1>9, <2>1, <3>1
    <3> QED
      BY <1>3, <2>3, <3>2
  <2> QED
    BY <1>6, <2>2, <2>3
<1>10. \A d \in Clients : \A k \in KeysOf(pending'[d]), h \in KeysOf(toServer'[d]) : k.n < h.n
  BY <1>7 DEF InTurn
<1> QED
  BY <1>7, <1>9, <1>10 DEF InTurn, Ahead

\* Nothing more was handled, and no key more is ahead.
LEMMA InTurnStays ==
  ASSUME InTurn, Handled' \subseteq Handled,
         \A d \in Clients : /\ KeysOf(toServer'[d]) \subseteq KeysOf(toServer[d])
                            /\ KeysOf(pending'[d]) \subseteq KeysOf(pending[d])
                            /\ Sorted(toServer'[d]) /\ Sorted(pending'[d])
  PROVE  InTurn'
<1> SUFFICES ASSUME NEW d \in Clients
             PROVE  /\ \A k \in KeysOf(pending'[d]), h \in KeysOf(toServer'[d]) : k.n < h.n
                    /\ \A k \in KeysOf(pending'[d]) \cup KeysOf(toServer'[d]), h \in Handled' :
                         h.home = k.home => h.n < k.n
  BY DEF InTurn, Ahead
<1>1. KeysOf(pending'[d]) \cup KeysOf(toServer'[d]) \subseteq Ahead(d)
  BY DEF Ahead
<1> QED
  BY <1>1 DEF InTurn

\* Asking handles no key and brings none.
LEMMA AsksInTurn ==
  ASSUME TypeOK, InTurn, OnlyAsks PROVE InTurn'
<1>1. ASSUME NEW d \in Clients
      PROVE  KeysOf(toServer'[d]) = KeysOf(toServer[d]) /\ Sorted(toServer'[d])
  <2>1. PICK s \in Seq(ToServerMessages) : Silent(s) /\ toServer'[d] = toServer[d] \o s
    BY DEF OnlyAsks
  <2>2. toServer[d] \in Seq(ToServerMessages) /\ Sorted(toServer[d])
    BY DEF TypeOK, ChannelsTypeOK, InTurn
  <2> QED
    BY <2>1, <2>2, SilentSaid
<1>2. UNCHANGED <<typed, queue, pending, toClient, app>>
  BY DEF OnlyAsks
<1>3. Handled' = Handled
  BY <1>2 DEF Handled
<1> QED
  BY <1>1, <1>2, <1>3, InTurnStays DEF InTurn

\* A key put aside comes after those that wait, and before those to come.
LEMMA HoldInTurn ==
  ASSUME Inv, InTurn, NEW c \in Clients, HandleForwardEvent(c), sync[c]
  PROVE  InTurn'
<1> DEFINE m == Head(toServer[c])
<1>1. TypeOK /\ ServerTypeOK /\ Incoming(c, "FORWARD_EVENT")
  BY DEF Inv, TypeOK, HandleForwardEvent
<1>2. /\ toServer[c] \in Seq(ToServerMessages) /\ toServer[c] # <<>>
      /\ m \in ToServerMessages /\ m.type = "FORWARD_EVENT"
      /\ toServer'[c] = Tail(toServer[c])
      /\ \A d \in Clients \ {c} : toServer'[d] = toServer[d]
  BY <1>1, IncomingType
<1>3. m \in PendingMessages /\ pending[c] \in Seq(PendingMessages)
  BY <1>1, <1>2, ToServerTypes DEF ServerTypeOK
<1>4. /\ pending' = [pending EXCEPT ![c] = Append(@, m)]
      /\ UNCHANGED <<typed, queue, toClient, app>>
  BY DEF HandleForwardEvent, clientVars
<1>5. Elems(Carried(m)) = {m.key}
  BY <1>2, CarriedFacts
<1>6. KeysOf(toServer[c]) = {m.key} \cup KeysOf(toServer'[c])
  BY <1>2, <1>5, KeysOfTail
<1>7. /\ Sorted(toServer[c]) /\ Sorted(pending[c])
      /\ \A k \in KeysOf(pending[c]), h \in KeysOf(toServer[c]) : k.n < h.n
      /\ \A k \in Ahead(c), h \in Handled : h.home = k.home => h.n < k.n
  BY DEF InTurn
<1>8. Sorted(toServer'[c]) /\ \A h \in KeysOf(toServer'[c]) : m.key.n < h.n
  BY <1>2, <1>7, SortedTail
<1>9. \A d \in Clients \ {c} : pending'[d] = pending[d]
  BY <1>1, <1>4 DEF ServerTypeOK
<1>10. pending'[c] = pending[c] \o <<m>>
  BY <1>1, <1>3, <1>4, AppendIsConcat DEF ServerTypeOK
<1>11. KeysOf(<<m>>) = {m.key} /\ Sorted(<<m>>)
  BY <1>5, KeysOfOne, SortedFew
<1>12. <<m>> \in Seq(PendingMessages)
  BY <1>3
<1> HIDE DEF m
<1>13. PICK t \in Seq(PendingMessages) : t = <<m>>
  BY <1>12
<1>14. pending[c] \in Seq(ToServerMessages) /\ t \in Seq(ToServerMessages)
  BY <1>3, PendingIsToServer
<1>15. KeysOf(pending'[c]) = KeysOf(pending[c]) \cup {m.key}
  <2>1. KeysOf(pending[c] \o t) = KeysOf(pending[c]) \cup KeysOf(t)
    BY <1>14, KeysOfConcat
  <2> QED
    BY <1>10, <1>11, <1>13, <2>1
<1>16. Sorted(pending'[c])
  <2>1. \A k \in KeysOf(pending[c]), h \in KeysOf(t) : k.n < h.n
    BY <1>6, <1>7, <1>11, <1>13
  <2>2. Sorted(pending[c] \o t)
    BY <1>7, <1>11, <1>13, <1>14, <2>1, SortedConcat
  <2> QED
    BY <1>10, <1>13, <2>2
<1>17. Handled' = Handled
  BY <1>4 DEF Handled
<1>18. \A k \in KeysOf(pending'[c]), h \in KeysOf(toServer'[c]) : k.n < h.n
  BY <1>6, <1>7, <1>8, <1>15
<1>19. KeysOf(pending'[c]) \cup KeysOf(toServer'[c]) \subseteq Ahead(c)
  BY <1>6, <1>15 DEF Ahead
<1>20. \A d \in Clients \ {c} :
         /\ Sorted(toServer'[d]) /\ Sorted(pending'[d])
         /\ \A k \in KeysOf(pending'[d]), h \in KeysOf(toServer'[d]) : k.n < h.n
         /\ \A k \in KeysOf(pending'[d]) \cup KeysOf(toServer'[d]), h \in Handled :
              h.home = k.home => h.n < k.n
  BY <1>2, <1>9 DEF InTurn, Ahead
<1>21. \A k \in KeysOf(pending'[c]) \cup KeysOf(toServer'[c]), h \in Handled :
         h.home = k.home => h.n < k.n
  BY <1>7, <1>19
<1> QED
  BY <1>8, <1>16, <1>17, <1>18, <1>20, <1>21 DEF InTurn, Ahead

\* A key typed comes after all others.
LEMMA TypeKeyInTurn ==
  ASSUME Inv, OnePlace, InTurn, NEW c \in Clients, NEW ev \in Keyboard, TypeKey(c, ev)
  PROVE  InTurn'
<1> DEFINE k == [n |-> pressed + 1, ev |-> ev, home |-> focus]
           m == Forward(focus, k)
<1>1. TypeOK /\ ClientTypeOK /\ toServer \in [Clients -> Seq(ToServerMessages)]
  BY DEF Inv, TypeOK, ChannelsTypeOK
<1>2. focus \in ICID /\ pressed + 1 \in 1..MaxKeys /\ pressed \in Nat
  BY <1>1, XimAssumption DEF ClientTypeOK, TypeKey
<1>3. k \in Keys /\ k.n = pressed + 1
  BY <1>2 DEF Keys
<1>4. /\ toServer' = Send(toServer, c, <<m>>)
      /\ UNCHANGED <<typed, queue, pending, toClient, app>>
  BY DEF TypeKey, serverVars
<1> HIDE DEF k
<1>5. m \in ToServerMessages /\ m.type = "FORWARD_EVENT" /\ m.key = k
  BY <1>2, <1>3 DEF Forward, ToServerMessages
<1> HIDE DEF m
<1>6. KeysOf(<<m>>) = {k} /\ Sorted(<<m>>) /\ <<m>> \in Seq(ToServerMessages)
  BY <1>5, CarriedFacts, KeysOfOne, SortedFew
<1>7. PICK t \in Seq(ToServerMessages) : t = <<m>>
  BY <1>6
<1>8. /\ toServer'[c] = toServer[c] \o t
      /\ \A d \in Clients \ {c} : toServer'[d] = toServer[d]
  BY <1>1, <1>4, <1>7 DEF Send
<1>9. KeysOf(toServer'[c]) = KeysOf(toServer[c]) \cup {k}
  <2>1. KeysOf(toServer[c] \o t) = KeysOf(toServer[c]) \cup KeysOf(t)
    BY <1>1, KeysOfConcat
  <2> QED
    BY <1>6, <1>7, <1>8, <2>1
<1>10. ASSUME NEW h, h \in KeysOf(toServer[c]) \/ h \in KeysOf(pending[c]) \/ h \in Handled
       PROVE  h.n < k.n
  <2>1. h.n \in 1..pressed
    <3>1. ASSUME NEW b \in Boxes, h \in Content(b) PROVE h.n \in 1..pressed
      BY <3>1 DEF OnePlace, Numbered
    <3>2. CASE h \in Handled
      BY <3>2, HandledNumber
    <3>3. CASE h \in KeysOf(toServer[c]) \/ h \in KeysOf(pending[c])
      BY <3>1, <3>3, Contents, BoxesDiffer
    <3> QED
      BY <1>10, <3>2, <3>3
  <2> QED
    BY <1>2, <1>3, <2>1
<1>11. Sorted(toServer'[c])
  <2>1. Sorted(toServer[c]) /\ Sorted(t)
    BY <1>6, <1>7 DEF InTurn
  <2>2. \A g \in KeysOf(toServer[c]), h \in KeysOf(t) : g.n < h.n
    BY <1>6, <1>7, <1>10
  <2>3. Sorted(toServer[c] \o t)
    BY <1>1, <2>1, <2>2, SortedConcat
  <2> QED
    BY <1>8, <2>3
<1>12. Handled' = Handled /\ pending' = pending
  BY <1>4 DEF Handled
<1>13. /\ Sorted(pending[c])
       /\ \A g \in KeysOf(pending[c]), h \in KeysOf(toServer[c]) : g.n < h.n
       /\ \A g \in KeysOf(pending[c]) \cup KeysOf(toServer[c]), h \in Handled :
            h.home = g.home => h.n < g.n
  BY DEF InTurn, Ahead
<1>14. /\ \A g \in KeysOf(pending[c]), h \in KeysOf(toServer'[c]) : g.n < h.n
       /\ \A g \in KeysOf(pending[c]) \cup KeysOf(toServer'[c]), h \in Handled :
            h.home = g.home => h.n < g.n
  BY <1>9, <1>10, <1>13
<1>15. \A d \in Clients \ {c} :
         /\ Sorted(toServer'[d]) /\ Sorted(pending[d])
         /\ \A g \in KeysOf(pending[d]), h \in KeysOf(toServer'[d]) : g.n < h.n
         /\ \A g \in KeysOf(pending[d]) \cup KeysOf(toServer'[d]), h \in Handled :
              h.home = g.home => h.n < g.n
  BY <1>8 DEF InTurn, Ahead
<1> QED
  BY <1>11, <1>12, <1>13, <1>14, <1>15 DEF InTurn, Ahead

\* What a client takes from its channel was handled before.
LEMMA ReceiveInTurn ==
  ASSUME Inv, InTurn, NEW c \in Clients, Receive(c) PROVE InTurn'
<1>1. PICK m : m = Head(toClient[c])
  OBVIOUS
<1>2. PICK t : t = Replies(m)
  OBVIOUS
<1>3. PICK s : s = Carried(m)
  OBVIOUS
<1>4. /\ toClient[c] \in Seq(ToClientMessages) /\ toClient[c] # <<>>
      /\ toServer[c] \in Seq(ToServerMessages)
      /\ m.ic \in ICID /\ t \in Seq(ToServerMessages)
      /\ toServer'[c] = toServer[c] \o t
      /\ \A x \in Clients \ {c} : toServer'[x] = toServer[x]
      /\ toClient'[c] = Tail(toClient[c])
      /\ \A x \in Clients \ {c} : toClient'[x] = toClient[x]
  BY <1>1, <1>2, Received
<1>5. UNCHANGED <<typed, queue, pending>>
  BY Received DEF serverVars
<1>6. /\ s \in Seq(Keys) /\ app'[m.ic] = app[m.ic] \o s
      /\ \A i \in ICID \ {m.ic} : app'[i] = app[i]
      /\ Silent(t)
  BY <1>1, <1>2, <1>3, ReceiveTakes
<1>7. app[m.ic] \in Seq(Keys)
  BY <1>4 DEF Inv, TypeOK, ClientTypeOK
<1>8. KeysOf(toClient[c]) = Elems(s) \cup KeysOf(toClient'[c])
  BY <1>1, <1>3, <1>4, KeysOfTail
<1>9. \A d \in Clients : Sorted(toServer[d]) /\ Sorted(pending[d])
  BY DEF InTurn
<1>10. KeysOf(toServer'[c]) = KeysOf(toServer[c]) /\ Sorted(toServer'[c])
  BY <1>4, <1>6, <1>9, SilentSaid
<1>11. Elems(app'[m.ic]) = Elems(app[m.ic]) \cup Elems(s)
  BY <1>6, <1>7, ElemsConcat
<1>12. ASSUME NEW h \in Handled' PROVE h \in Handled
  <2>1. HandledAt(h)'
    BY HandledKeysNext
  <2>2. \/ h \in Elems(typed) \/ h \in Elems(queue)
        \/ \E i \in ICID : h \in Elems(app'[i])
        \/ \E d \in Clients : h \in KeysOf(toClient'[d])
    BY <1>5, <2>1 DEF HandledAt
  <2>3. ASSUME NEW i \in ICID, h \in Elems(app'[i])
        PROVE  h \in Elems(app[i]) \/ h \in KeysOf(toClient[c])
    BY <1>6, <1>8, <1>11, <2>3
  <2>4. ASSUME NEW d \in Clients, h \in KeysOf(toClient'[d]) PROVE h \in KeysOf(toClient[d])
    BY <1>4, <1>8, <2>4
  <2>5. HandledAt(h)
    BY <2>2, <2>3, <2>4 DEF HandledAt
  <2> QED
    BY <2>5, HandledKeys
<1>13. ASSUME NEW d \in Clients
       PROVE  KeysOf(toServer'[d]) = KeysOf(toServer[d]) /\ Sorted(toServer'[d])
  BY <1>4, <1>9, <1>10
<1> QED
  BY <1>5, <1>9, <1>12, <1>13, InTurnStays

\* A client that leaves drops it.
LEMMA ReceiveLeavingInTurn ==
  ASSUME Inv, InTurn, NEW c \in Clients, ReceiveLeaving(c) PROVE InTurn'
<1>1. /\ toClient \in [Clients -> Seq(ToClientMessages)] /\ toClient[c] # <<>>
      /\ UNCHANGED <<typed, queue, pending, toServer, app>>
      /\ toClient' = [toClient EXCEPT ![c] = Tail(@)]
  BY DEF Inv, TypeOK, ChannelsTypeOK, ReceiveLeaving, serverVars
<1>2. /\ toClient[c] \in Seq(ToClientMessages) /\ toClient'[c] = Tail(toClient[c])
      /\ \A d \in Clients : d # c => toClient'[d] = toClient[d]
  BY <1>1
<1>3. KeysOf(toClient'[c]) \subseteq KeysOf(toClient[c])
  BY <1>1, <1>2, KeysOfTail
<1>4. ASSUME NEW h \in Handled' PROVE h \in Handled
  <2>1. HandledAt(h)'
    BY HandledKeysNext
  <2>2. HandledAt(h)
    BY <1>1, <1>2, <1>3, <2>1 DEF HandledAt
  <2> QED
    BY <2>2, HandledKeys
<1> QED
  BY <1>1, <1>4, InTurnStays DEF InTurn

\* At first there is no key.
LEMMA InitInTurn == Init => InTurn
<1> SUFFICES ASSUME Init, NEW c \in Clients
             PROVE  /\ Sorted(toServer[c]) /\ Sorted(pending[c])
                    /\ KeysOf(pending[c]) = {} /\ KeysOf(toServer[c]) = {}
  BY DEF InTurn, Ahead
<1>1. pending[c] = <<>> /\ toServer[c] = <<>>
  BY DEF Init
<1>2. Sorted(<<>>) /\ KeysOf(<<>>) = {}
  BY KeysOfNone DEF Sorted
<1> QED
  BY <1>1, <1>2

\* Every step keeps the order of the keys.
LEMMA NextInTurn == Inv /\ Owners /\ OnePlace /\ InTurn /\ [Next]_vars => InTurn'
<1> SUFFICES ASSUME Inv, Owners, OnePlace, InTurn, [Next]_vars PROVE InTurn'
  OBVIOUS
<1>1. TypeOK
  BY DEF Inv
<1>2. ASSUME NEW c \in Clients, Handle(c) PROVE InTurn'
  <2>1. CASE HandleForwardEvent(c) /\ sync[c]
    BY <2>1, HoldInTurn
  <2>2. CASE ~(HandleForwardEvent(c) /\ sync[c])
    <3>1. Deals(c)
      BY <1>2, <2>2, HandleDeals
    <3> QED
      BY <3>1, DealsInTurn
  <2> QED
    BY <2>1, <2>2
<1>3. ASSUME NEW c \in Clients, Receive(c) \/ ReceiveLeaving(c) PROVE InTurn'
  BY <1>3, ReceiveInTurn, ReceiveLeavingInTurn
<1>4. ASSUME NEW c \in Clients, UserAct(c) PROVE InTurn'
  <2>1. CASE \E ev \in Keyboard : TypeKey(c, ev)
    BY <2>1, TypeKeyInTurn
  <2>2. CASE OpenIC(c) \/ Leave(c) \/ \E i \in ICID : CloseIC(c, i) \/ ResetIC(c, i)
    BY <1>1, <2>2, OpenICAsks, LeaveAsks, CloseICAsks, UserResetICAsks, AsksInTurn
  <2> QED
    BY <1>4, <2>1, <2>2 DEF UserAct
<1>5. ASSUME NEW i \in ICID \cup {NoIC}, MoveFocus(i) PROVE InTurn'
  BY <1>1, <1>5, MoveFocusAsks, AsksInTurn
<1>6. CASE UNCHANGED vars
  <2>1. UNCHANGED <<typed, queue, pending, toServer, toClient, app>>
    BY <1>6 DEF vars, serverVars, channels, clientVars
  <2>2. Handled' = Handled
    BY <2>1 DEF Handled
  <2> QED
    BY <2>1, <2>2, InTurnStays DEF InTurn
<1> QED
  BY <1>2, <1>3, <1>4, <1>5, <1>6 DEF Next

\* Keys in turn are handled in order.
LEMMA InTurnInOrder == TypeOK /\ InTurn => KeysHandledInOrder
<1> SUFFICES ASSUME TypeOK, InTurn, NEW c \in Clients
             PROVE  LET coming == {toServer[c][j].key : j \in {j \in DOMAIN toServer[c] :
                                         toServer[c][j].type = "FORWARD_EVENT"}}
                    IN  /\ \A k \in Waiting(c) \cup coming, h \in Handled :
                             h.home = k.home => h.n < k.n
                        /\ \A k \in Waiting(c), h \in coming : k.n < h.n
                        /\ \A j, p \in DOMAIN pending[c] :
                             j < p => pending[c][j].key.n < pending[c][p].key.n
  BY DEF KeysHandledInOrder
<1> DEFINE coming == {toServer[c][j].key : j \in {j \in DOMAIN toServer[c] :
                        toServer[c][j].type = "FORWARD_EVENT"}}
<1>1. toServer[c] \in Seq(ToServerMessages) /\ pending[c] \in Seq(PendingMessages)
  BY DEF TypeOK, ServerTypeOK, ChannelsTypeOK
<1>2. coming \subseteq KeysOf(toServer[c])
  <2>1. \A j \in DOMAIN toServer[c] : toServer[c][j].type = "FORWARD_EVENT"
          => toServer[c][j].key \in KeysOf(toServer[c])
    BY <1>1, KeysToServer
  <2> QED
    BY <2>1
<1>3. /\ pending[c] \in Seq(ToServerMessages)
      /\ \A j \in DOMAIN pending[c] : pending[c][j].type = "FORWARD_EVENT"
  BY <1>1, PendingIsToServer
<1>4. Waiting(c) \subseteq KeysOf(pending[c])
  <2>1. \A j \in DOMAIN pending[c] : pending[c][j].key \in KeysOf(pending[c])
    BY <1>3, KeysToServer
  <2> QED
    BY <2>1 DEF Waiting
<1>5. \A j, p \in DOMAIN pending[c] : j < p => pending[c][j].key.n < pending[c][p].key.n
  BY <1>3 DEF InTurn, Sorted
<1> HIDE DEF coming
<1>6. \A k \in Waiting(c) \cup coming, h \in Handled : h.home = k.home => h.n < k.n
  BY <1>2, <1>4 DEF InTurn, Ahead
<1>7. \A k \in Waiting(c), h \in coming : k.n < h.n
  BY <1>2, <1>4 DEF InTurn
<1> QED
  BY <1>5, <1>6, <1>7 DEF coming

(***************************************************************************)
(* The handlers of i18nPtHdr.c take the keys of a context in the order of  *)
(* typing: a key that ForwardEventMessageProc puts aside goes behind those *)
(* pending, ProcessQueue takes the first of them, and a FORWARD_EVENT is   *)
(* handled at once only when none is pending.                              *)
(***************************************************************************)
THEOREM SpecInTurn == Spec => [](Inv /\ Owners /\ OnePlace /\ InTurn)
<1>1. Init => Inv /\ Owners /\ OnePlace /\ InTurn
  BY InitInv, InitOwners, InitOnePlace, InitInTurn
<1>2. (Inv /\ Owners /\ OnePlace /\ InTurn) /\ [Next]_vars => (Inv /\ Owners /\ OnePlace /\ InTurn)'
  BY NextInv, NextOwners, NextOnePlace, NextInTurn
<1> QED
  BY <1>1, <1>2, PTL DEF Spec

\* In particular what is pending was typed after all that was handled in its
\* context, and before all that is still on its way to the server.
THEOREM KeysTakenInOrder == Spec => []KeysHandledInOrder
<1>1. Inv /\ InTurn => KeysHandledInOrder
  BY InTurnInOrder DEF Inv
<1> QED
  BY <1>1, SpecInTurn, PTL
=============================================================================
