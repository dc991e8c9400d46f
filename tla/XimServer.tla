----------------------------- MODULE XimServer ------------------------------
(***************************************************************************)
(* The input-method server of vnim between its clients: the handlers of    *)
(* xim.c, the input contexts of IC.c as far as those handlers use them,    *)
(* and the two places where IMdkit holds a key back, the pending list of a *)
(* client (i18nPtHdr.c) and the Queue of xim.c.  One process serves every  *)
(* client, and composes one word at a time for all of them.                *)
(*                                                                         *)
(* A client and the server exchange XIM messages over two FIFO channels.   *)
(* The clients (Xlib inside each application) are not part of the          *)
(* repository: they are modelled by what the handlers assume of them.  A   *)
(* client sends the keys of its focused context at once, without waiting,  *)
(* blocks on CREATE_IC, DESTROY_IC, RESET_IC and DISCONNECT until the      *)
(* reply, and answers every COMMIT and FORWARD_EVENT with a SYNC_REPLY,    *)
(* for the server sets the synchronous bit of both.                        *)
(***************************************************************************)
EXTENDS FrontEnd, KeyQueue

CONSTANTS
  Clients,      \* connections, by connect_id
  NoClient,     \* stands for none of them
  IdSpace,      \* values of a CARD16, 65536: the ids of contexts wrap there
  MaxICs,       \* input contexts created over a behaviour
  Keyboard,     \* the key events that are typed, a subset of KeyEvents
  MaxKeys,      \* how many of them
  MaxFocus,     \* how often the focus moves
  MaxRequests,  \* how many blocking requests all clients make, creations apart
  Patient       \* TRUE: the user waits for the effect of what he did

ASSUME XimAssumption ==
  /\ NoClient \notin Clients
  /\ IdSpace \in Nat /\ MaxICs \in Nat /\ MaxICs < IdSpace   \* no id is used twice
  /\ MaxBuffer \in Nat \ {0} /\ MaxKeys \in Nat
  /\ MaxFocus \in Nat /\ MaxRequests \in Nat
  /\ Keyboard \subseteq KeyEvents
  /\ Patient \in BOOLEAN

ICID == 0..(IdSpace - 1)
NoIC == -1

VARIABLES
  fe,           \* main.c: hot keys, engineEnabled, length of the word
  typed,        \* the keys the word is made of
  ics,          \* IC.c: the context of each id
  lastId,       \* NewIC: the last id given
  imsSync,      \* ims->sync: the next SYNC_REPLY releases a key of Queue
  queue,        \* Queue: keys held back behind a commit
  sync,         \* client->sync: keys of the client wait for a SYNC_REPLY
  pending,      \* client->pending: those keys, as messages
  busy,         \* the client whose pending list ProcessQueue is emptying
  toServer, toClient,
  state,        \* client: "idle", "blocked" on a request, or "leaving"
  mine,         \* client: ids of its contexts
  shown,        \* client: characters of preedit it displays in a context
  app,          \* client: the keys each context has had the effect of
  focus,        \* the context the user's keyboard goes to
  opens, pressed, moves, requests   \* what the users did, against the bounds

serverVars  == <<fe, typed, ics, lastId, imsSync, queue, sync, pending, busy>>
channels    == <<toServer, toClient>>
clientVars  == <<state, mine, shown, app, focus, opens, pressed, moves, requests>>
vars        == <<serverVars, channels, clientVars>>

-----------------------------------------------------------------------------
(* Messages.  A key carries its number in the order of typing and the      *)
(* context it was typed in.                                                *)

Keys == [n : 1..MaxKeys, ev : Keyboard, home : ICID]

Requests == {"DESTROY_IC", "RESET_IC"}

ToServerMessages ==
  [type : {"CREATE_IC", "DISCONNECT"}]
    \cup [type : Requests \cup {"SET_IC_FOCUS", "UNSET_IC_FOCUS", "SYNC_REPLY"},
          ic : ICID]
    \cup [type : {"FORWARD_EVENT"}, ic : ICID, key : Keys]

ToClientMessages ==
  [type : {"DISCONNECT_REPLY"}]
    \cup [type : {"CREATE_IC_REPLY", "REQUEST_REPLY", "PREEDIT_START", "PREEDIT_DONE"},
          ic : ICID]
    \cup [type : {"PREEDIT_DRAW"}, ic : ICID, chg_length : 0..MaxLen, length : 0..MaxLen]
    \cup [type : {"COMMIT"}, ic : ICID, keys : Seq(Keys), junk : BOOLEAN]
    \cup [type : {"FORWARD_EVENT"}, ic : ICID, key : Keys]

Plain(type)         == [type |-> type]
About(type, i)      == [type |-> type, ic |-> i]
Forward(i, k)       == [type |-> "FORWARD_EVENT", ic |-> i, key |-> k]
DrawOf(i, chg, len) == [type |-> "PREEDIT_DRAW", ic |-> i,
                        chg_length |-> chg, length |-> len]
CommitOf(i, keys, junk) == [type |-> "COMMIT", ic |-> i, keys |-> keys, junk |-> junk]

Send(channel, c, messages) == [channel EXCEPT ![c] = @ \o messages]

-----------------------------------------------------------------------------
(* The preedit of a context: what the drawing functions of xim.c make of   *)
(* its record, and the callbacks they send.  FindIC finds no context that  *)
(* is not live; nothing happens then.                                      *)

Unborn == [live |-> FALSE, enabled |-> FALSE, len |-> 0]
NewIC  == [live |-> TRUE, enabled |-> FALSE, len |-> 0]

\* IMPreeditDraw of a word of n characters, after IMPreeditShow if need be.
Drawn(r, n) == IF r.live THEN [r EXCEPT !.enabled = TRUE, !.len = n] ELSE r

\* Fault: the characters on display are not replaced.
DrawMessagesAppend(i, n) ==
  IF ~ics[i].live THEN <<>>
  ELSE (IF ics[i].enabled THEN <<>> ELSE << About("PREEDIT_START", i) >>)
         \o << DrawOf(i, 0, n) >>

DrawMessages(i, n) ==
  IF ~ics[i].live THEN <<>>
  ELSE IF ics[i].enabled THEN << DrawOf(i, ics[i].len, n) >>
  ELSE << About("PREEDIT_START", i), DrawOf(i, 0, n) >>

\* IMPreeditSoftHide: IMPreeditDraw of no buffer.
Visible(r) == r.live /\ r.enabled /\ r.len > 0

\* Fault: what was drawn away is still counted.
SoftHiddenStillCounts(r) == r

SoftHidden(r) == IF Visible(r) THEN [r EXCEPT !.len = 0] ELSE r

SoftHideMessages(i) ==
  IF Visible(ics[i]) THEN << DrawOf(i, ics[i].len, 0) >> ELSE <<>>

\* IMPreeditHide, which soft-hides first.
Hidden(r) == IF r.live THEN [r EXCEPT !.enabled = FALSE, !.len = 0] ELSE r

DoneMessages(i) ==
  IF ics[i].live /\ ics[i].enabled THEN << About("PREEDIT_DONE", i) >> ELSE <<>>

-----------------------------------------------------------------------------

Init ==
  /\ fe \in [trigger : {0}, enabled : BOOLEAN, len : {0}]    \* --silent or not
  /\ typed = <<>>
  /\ ics = [i \in ICID |-> Unborn] /\ lastId = 0
  /\ imsSync = FALSE /\ queue = <<>>
  /\ sync = [c \in Clients |-> FALSE]
  /\ pending = [c \in Clients |-> <<>>]
  /\ busy = NoClient
  /\ toServer = [c \in Clients |-> <<>>] /\ toClient = [c \in Clients |-> <<>>]
  /\ state = [c \in Clients |-> "idle"] /\ mine = [c \in Clients |-> {}]
  /\ shown = [i \in ICID |-> 0] /\ app = [i \in ICID |-> <<>>]
  /\ focus = NoIC /\ opens = 0 /\ pressed = 0 /\ moves = 0 /\ requests = 0

-----------------------------------------------------------------------------
(* The server.  It takes the messages of any client as they arrive, one at *)
(* a time; while ProcessQueue runs nothing else does.                      *)

Incoming(c, type) ==
  /\ busy = NoClient
  /\ toServer[c] # <<>> /\ Head(toServer[c]).type = type
  /\ toServer' = [toServer EXCEPT ![c] = Tail(@)]

\* Fault: the word committed is not reset.
EngineResetForgotten == UNCHANGED <<fe, typed>>

EngineReset == fe' = ResetLen(fe) /\ typed' = <<>>

\* ProcessKey of xim.c, one disjunct for each action XIMProcessKey may return.
DrawWord(c, i, k, d) ==
  /\ d.action = "DRAW"
  /\ fe' = d.fe /\ typed' = Append(typed, k)
  /\ ics' = [ics EXCEPT ![i] = Drawn(@, d.fe.len)]
  /\ toClient' = Send(toClient, c, DrawMessages(i, d.fe.len))
  /\ UNCHANGED <<imsSync, queue, sync>>

\* The narrow string "" is read as wide characters past its end: the commit is
\* empty, or some junk.
DiscardWord(c, i, k, d) ==
  /\ d.action = "DISCARD"
  /\ fe' = ResetLen(d.fe) /\ typed' = <<>>
  /\ ics' = [ics EXCEPT ![i] = SoftHidden(@)]
  /\ \E junk \in BOOLEAN :
       toClient' = Send(toClient, c, SoftHideMessages(i) \o
                                     <<CommitOf(i, Append(typed, k), junk)>>)
  /\ UNCHANGED <<imsSync, queue, sync>>

\* Fault: the key overtakes the word it ended.
CommitWordAfterKey(c, i, k, d) ==
  /\ d.action = "COMMIT_FORWARD" /\ d.fe.len > 0
  /\ fe' = ResetLen(d.fe) /\ typed' = <<>>
  /\ ics' = [ics EXCEPT ![i] = SoftHidden(@)]
  /\ toClient' = Send(toClient, c, <<Forward(i, k)>> \o SoftHideMessages(i)
                                     \o <<CommitOf(i, typed, FALSE)>>)
  /\ UNCHANGED <<imsSync, queue, sync>>

\* Fault: nothing says that a reply releases the key.
CommitWordNoSync(c, i, k, d) ==
  /\ d.action = "COMMIT_FORWARD" /\ d.fe.len > 0
  /\ fe' = ResetLen(d.fe) /\ typed' = <<>>
  /\ ics' = [ics EXCEPT ![i] = SoftHidden(@)]
  /\ toClient' = Send(toClient, c, SoftHideMessages(i) \o <<CommitOf(i, typed, FALSE)>>)
  /\ queue' = Push(queue, k)
  /\ UNCHANGED <<imsSync, sync>>

CommitWord(c, i, k, d) ==
  /\ d.action = "COMMIT_FORWARD" /\ d.fe.len > 0
  /\ fe' = ResetLen(d.fe) /\ typed' = <<>>
  /\ imsSync' = TRUE
  /\ ics' = [ics EXCEPT ![i] = SoftHidden(@)]
  /\ toClient' = Send(toClient, c, SoftHideMessages(i) \o <<CommitOf(i, typed, FALSE)>>)
  /\ queue' = Push(queue, k)
  /\ UNCHANGED sync

ForwardKey(c, i, k, d) ==
  /\ d.action = "FORWARD" \/ (d.action = "COMMIT_FORWARD" /\ d.fe.len = 0)
  /\ fe' = d.fe
  /\ toClient' = Send(toClient, c, <<Forward(i, k)>>)
  /\ sync' = [sync EXCEPT ![c] = TRUE]
  /\ UNCHANGED <<typed, ics, imsSync, queue>>

ProcessKey(c, i, k) ==
  /\ \E d \in XIMProcessKey(fe, k.ev) :
       \/ DrawWord(c, i, k, d)
       \/ DiscardWord(c, i, k, d)
       \/ CommitWord(c, i, k, d)
       \/ ForwardKey(c, i, k, d)
  /\ UNCHANGED lastId

\* Fault: a key held back goes before those that wait already.
HandleForwardEventLifo(c) ==
  /\ Incoming(c, "FORWARD_EVENT")
  /\ LET m == Head(toServer[c])
     IN  IF sync[c]
         THEN /\ pending' = [pending EXCEPT ![c] = <<m>> \o @]
              /\ UNCHANGED <<fe, typed, ics, lastId, imsSync, queue, sync, toClient>>
         ELSE ProcessKey(c, m.ic, m.key) /\ UNCHANGED pending
  /\ UNCHANGED <<busy, clientVars>>

HandleForwardEvent(c) ==
  /\ Incoming(c, "FORWARD_EVENT")
  /\ LET m == Head(toServer[c])
     IN  IF sync[c]
         THEN /\ pending' = [pending EXCEPT ![c] = Append(@, m)]
              /\ UNCHANGED <<fe, typed, ics, lastId, imsSync, queue, sync, toClient>>
         ELSE ProcessKey(c, m.ic, m.key) /\ UNCHANGED pending
  /\ UNCHANGED <<busy, clientVars>>

\* Fault: client->sync is not cleared by a reply that releases no key.
HandleSyncReplyKeepsSync(c) ==
  /\ Incoming(c, "SYNC_REPLY")
  /\ LET i == Head(toServer[c]).ic
         release == imsSync /\ queue # <<>>
     IN  /\ imsSync' = FALSE
         /\ queue' = IF release THEN Tail(queue) ELSE queue
         /\ sync' = [sync EXCEPT ![c] = @ \/ release]
         /\ toClient' = Send(toClient, c,
                             IF release THEN <<Forward(i, Head(queue))>> ELSE <<>>)
         /\ busy' = IF ~sync'[c] /\ pending[c] # <<>> THEN c ELSE NoClient
  /\ UNCHANGED <<fe, typed, ics, lastId, pending, clientVars>>

(***************************************************************************)
(* XIM_SYNC_REPLY: client->sync is cleared whatever the reply answers; a   *)
(* key of Queue, when ims->sync says there is one, goes to the client and  *)
(* the context of this reply.  Then ProcessQueue.                          *)
(***************************************************************************)
HandleSyncReply(c) ==
  /\ Incoming(c, "SYNC_REPLY")
  /\ LET i == Head(toServer[c]).ic
         release == imsSync /\ queue # <<>>
     IN  /\ imsSync' = FALSE
         /\ queue' = IF release THEN Tail(queue) ELSE queue
         /\ sync' = [sync EXCEPT ![c] = release]
         /\ toClient' = Send(toClient, c,
                             IF release THEN <<Forward(i, Head(queue))>> ELSE <<>>)
         /\ busy' = IF ~release /\ pending[c] # <<>> THEN c ELSE NoClient
  /\ UNCHANGED <<fe, typed, ics, lastId, pending, clientVars>>

\* Fault: one key is taken and the rest left.
DrainPendingOnce(c) ==
  /\ busy = c
  /\ ProcessKey(c, Head(pending[c]).ic, Head(pending[c]).key)
  /\ pending' = [pending EXCEPT ![c] = Tail(@)]
  /\ busy' = NoClient
  /\ UNCHANGED <<toServer, clientVars>>

\* One turn of the loop of ProcessQueue.
DrainPending(c) ==
  /\ busy = c
  /\ ProcessKey(c, Head(pending[c]).ic, Head(pending[c]).key)
  /\ pending' = [pending EXCEPT ![c] = Tail(@)]
  /\ busy' = IF ~sync'[c] /\ pending'[c] # <<>> THEN c ELSE NoClient
  /\ UNCHANGED <<toServer, clientVars>>

HandleCreateIC(c) ==
  /\ Incoming(c, "CREATE_IC")
  /\ lastId' = (lastId + 1) % IdSpace
  /\ ics' = [ics EXCEPT ![lastId'] = NewIC]
  /\ toClient' = Send(toClient, c, <<About("CREATE_IC_REPLY", lastId')>>)
  /\ UNCHANGED <<fe, typed, imsSync, queue, sync, pending, busy, clientVars>>

HandleDestroyIC(c) ==
  /\ Incoming(c, "DESTROY_IC")
  /\ LET i == Head(toServer[c]).ic
     IN  /\ ics' = [ics EXCEPT ![i] = Unborn]
         /\ toClient' = Send(toClient, c, <<About("REQUEST_REPLY", i)>>)
  /\ UNCHANGED <<fe, typed, lastId, imsSync, queue, sync, pending, busy, clientVars>>

HandleSetFocus(c) ==
  /\ Incoming(c, "SET_IC_FOCUS")
  /\ LET i == Head(toServer[c]).ic
     IN  /\ ics' = [ics EXCEPT ![i] = SoftHidden(@)]
         /\ toClient' = Send(toClient, c, SoftHideMessages(i))
  /\ queue' = <<>>
  /\ EngineReset
  /\ UNCHANGED <<lastId, imsSync, sync, pending, busy, clientVars>>

\* Fault: the word is hidden and never committed.
GiveUpWordUncommitted(c, i, replies) ==
  /\ toClient' = Send(toClient, c, SoftHideMessages(i) \o DoneMessages(i) \o replies)
  /\ ics' = [ics EXCEPT ![i] = Hidden(@)]
  /\ queue' = <<>>
  /\ EngineReset
  /\ UNCHANGED <<lastId, imsSync, sync, pending, busy, clientVars>>

\* XIM_UNSET_IC_FOCUS and XIM_RESET_IC: the word being composed is committed
\* to the context of the message, whichever it was composed in.
GiveUpWord(c, i, replies) ==
  /\ toClient' = Send(toClient, c,
                      (IF fe.len > 0
                       THEN SoftHideMessages(i) \o <<CommitOf(i, typed, FALSE)>>
                              \o DoneMessages(i)
                       ELSE SoftHideMessages(i) \o DoneMessages(i)) \o replies)
  /\ ics' = [ics EXCEPT ![i] = Hidden(@)]
  /\ queue' = <<>>
  /\ EngineReset
  /\ UNCHANGED <<lastId, imsSync, sync, pending, busy, clientVars>>

HandleUnsetFocus(c) ==
  /\ Incoming(c, "UNSET_IC_FOCUS")
  /\ GiveUpWord(c, Head(toServer[c]).ic, <<>>)

HandleResetIC(c) ==
  /\ Incoming(c, "RESET_IC")
  /\ LET i == Head(toServer[c]).ic
     IN  GiveUpWord(c, i, <<About("REQUEST_REPLY", i)>>)

\* The record of the client goes to the free list; its contexts stay.
HandleDisconnect(c) ==
  /\ Incoming(c, "DISCONNECT")
  /\ sync' = [sync EXCEPT ![c] = FALSE]
  /\ pending' = [pending EXCEPT ![c] = <<>>]
  /\ toClient' = Send(toClient, c, <<Plain("DISCONNECT_REPLY")>>)
  /\ UNCHANGED <<fe, typed, ics, lastId, imsSync, queue, busy, clientVars>>

Handle(c) ==
  \/ HandleForwardEvent(c) \/ HandleSyncReply(c) \/ DrainPending(c)
  \/ HandleCreateIC(c) \/ HandleDestroyIC(c)
  \/ HandleSetFocus(c) \/ HandleUnsetFocus(c) \/ HandleResetIC(c)
  \/ HandleDisconnect(c)

-----------------------------------------------------------------------------
(* The clients and their users.  A user types ahead of the server, moves   *)
(* the focus and closes windows when he likes, unless he is Patient: then  *)
(* he waits until nothing is under way, and his clients reset the context  *)
(* he types in and close any other.                                        *)

Quiet ==
  /\ busy = NoClient
  /\ \A c \in Clients :
       toServer[c] = <<>> /\ toClient[c] = <<>> /\ pending[c] = <<>>

UserReady == Patient => Quiet

\* The client of a context, if it has one yet or still.
Clientele(i) == {c \in Clients : i \in mine[c]}

OpenIC(c) ==
  /\ state[c] = "idle" /\ UserReady
  /\ opens < MaxICs /\ opens' = opens + 1
  /\ state' = [state EXCEPT ![c] = "blocked"]
  /\ toServer' = Send(toServer, c, <<Plain("CREATE_IC")>>)
  /\ UNCHANGED <<serverVars, toClient, mine, shown, app, focus, pressed, moves, requests>>

CloseIC(c, i) ==
  /\ state[c] = "idle" /\ i \in mine[c] /\ UserReady
  /\ Patient => i # focus
  /\ requests < MaxRequests /\ requests' = requests + 1
  /\ state' = [state EXCEPT ![c] = "blocked"]
  /\ mine' = [mine EXCEPT ![c] = @ \ {i}]
  /\ focus' = IF focus = i THEN NoIC ELSE focus
  /\ toServer' = Send(toServer, c, <<About("DESTROY_IC", i)>>)
  /\ UNCHANGED <<serverVars, toClient, shown, app, pressed, moves, opens>>

ResetIC(c, i) ==
  /\ state[c] = "idle" /\ i \in mine[c] /\ UserReady
  /\ Patient => i = focus
  /\ requests < MaxRequests /\ requests' = requests + 1
  /\ state' = [state EXCEPT ![c] = "blocked"]
  /\ toServer' = Send(toServer, c, <<About("RESET_IC", i)>>)
  /\ UNCHANGED <<serverVars, toClient, mine, shown, app, focus, pressed, moves, opens>>

\* A client that leaves drops what is still on its way to it.
Leave(c) ==
  /\ state[c] = "idle" /\ mine[c] # {} /\ UserReady
  /\ Patient => focus \notin mine[c]
  /\ requests < MaxRequests /\ requests' = requests + 1
  /\ state' = [state EXCEPT ![c] = "leaving"]
  /\ mine' = [mine EXCEPT ![c] = {}]
  /\ focus' = IF focus \in mine[c] THEN NoIC ELSE focus
  /\ toServer' = Send(toServer, c, <<Plain("DISCONNECT")>>)
  /\ UNCHANGED <<serverVars, toClient, shown, app, pressed, moves, opens>>

\* The focus moves from one context to another: each client tells the server
\* by itself, so that the order in which it hears of the two is open.
MoveFocus(i) ==
  /\ i # focus /\ UserReady
  /\ moves < MaxFocus /\ moves' = moves + 1
  /\ i # NoIC => Clientele(i) # {}
  /\ \A c \in Clientele(i) \cup Clientele(focus) : state[c] = "idle"
  /\ focus' = i
  /\ toServer' = [c \in Clients |->
       toServer[c] \o (IF c \in Clientele(focus)
                       THEN <<About("UNSET_IC_FOCUS", focus)>> ELSE <<>>)
                  \o (IF c \in Clientele(i)
                       THEN <<About("SET_IC_FOCUS", i)>> ELSE <<>>)]
  /\ UNCHANGED <<serverVars, toClient, state, mine, shown, app, pressed, requests, opens>>

TypeKey(c, ev) ==
  /\ focus \in mine[c] /\ state[c] = "idle" /\ UserReady
  /\ pressed < MaxKeys /\ pressed' = pressed + 1
  /\ toServer' = Send(toServer, c,
       <<Forward(focus, [n |-> pressed + 1, ev |-> ev, home |-> focus])>>)
  /\ UNCHANGED <<serverVars, toClient, state, mine, shown, app, focus, moves, requests, opens>>

\* The effect of a message on the display and the text of its context.
Apply(m) ==
  /\ shown' = CASE m.type \in {"PREEDIT_START", "PREEDIT_DONE"} ->
                     [shown EXCEPT ![m.ic] = 0]
                [] m.type = "PREEDIT_DRAW" ->
                     [shown EXCEPT ![m.ic] = @ - m.chg_length + m.length]
                [] OTHER -> shown
  /\ app' = CASE m.type = "COMMIT"        -> [app EXCEPT ![m.ic] = @ \o m.keys]
              [] m.type = "FORWARD_EVENT" -> [app EXCEPT ![m.ic] = Append(@, m.key)]
              [] OTHER                    -> app

Replies(m) == IF m.type \in {"COMMIT", "FORWARD_EVENT"}
              THEN <<About("SYNC_REPLY", m.ic)>> ELSE <<>>

Receive(c) ==
  /\ state[c] # "leaving" /\ toClient[c] # <<>>
  /\ LET m == Head(toClient[c])
     IN  /\ Apply(m)
         /\ toServer' = Send(toServer, c, Replies(m))
         /\ mine' = IF m.type = "CREATE_IC_REPLY"
                    THEN [mine EXCEPT ![c] = @ \cup {m.ic}] ELSE mine
         /\ state' = IF m.type \in {"CREATE_IC_REPLY", "REQUEST_REPLY"}
                     THEN [state EXCEPT ![c] = "idle"] ELSE state
  /\ toClient' = [toClient EXCEPT ![c] = Tail(@)]
  /\ UNCHANGED <<serverVars, focus, pressed, moves, requests, opens>>

ReceiveLeaving(c) ==
  /\ state[c] = "leaving" /\ toClient[c] # <<>>
  /\ state' = IF Head(toClient[c]).type = "DISCONNECT_REPLY"
              THEN [state EXCEPT ![c] = "idle"] ELSE state
  /\ toClient' = [toClient EXCEPT ![c] = Tail(@)]
  /\ UNCHANGED <<serverVars, toServer, mine, shown, app, focus, pressed, moves, requests, opens>>

UserAct(c) ==
  \/ OpenIC(c) \/ Leave(c)
  \/ \E i \in ICID : CloseIC(c, i) \/ ResetIC(c, i)
  \/ \E ev \in Keyboard : TypeKey(c, ev)

Next ==
  \/ \E c \in Clients : Handle(c) \/ Receive(c) \/ ReceiveLeaving(c) \/ UserAct(c)
  \/ \E i \in ICID \cup {NoIC} : MoveFocus(i)

Spec == Init /\ [][Next]_vars

\* The event loop of the server and of each client; nothing makes a user act.
Fairness ==
  \A c \in Clients : WF_vars(Handle(c)) /\ WF_vars(Receive(c) \/ ReceiveLeaving(c))

FairSpec == Spec /\ Fairness

-----------------------------------------------------------------------------

PendingMessages == [type : {"FORWARD_EVENT"}, ic : ICID, key : Keys]

ServerTypeOK ==
  /\ fe \in FrontEndStates
  /\ typed \in Seq(Keys)
  /\ ics \in [ICID -> [live : BOOLEAN, enabled : BOOLEAN, len : 0..MaxLen]]
  /\ lastId \in ICID
  /\ imsSync \in BOOLEAN
  /\ queue \in Seq(Keys) /\ Len(queue) < MaxBuffer
  /\ sync \in [Clients -> BOOLEAN]
  /\ pending \in [Clients -> Seq(PendingMessages)]
  /\ busy \in Clients \cup {NoClient}

ChannelsTypeOK ==
  /\ toServer \in [Clients -> Seq(ToServerMessages)]
  /\ toClient \in [Clients -> Seq(ToClientMessages)]

ClientTypeOK ==
  /\ state \in [Clients -> {"idle", "blocked", "leaving"}]
  /\ mine \in [Clients -> SUBSET ICID]
  /\ shown \in [ICID -> Int]
  /\ app \in [ICID -> Seq(Keys)]
  /\ focus \in ICID \cup {NoIC}
  /\ opens \in 0..MaxICs /\ pressed \in 0..MaxKeys
  /\ moves \in 0..MaxFocus /\ requests \in 0..MaxRequests

\* Type invariant: a context's preedit never outgrows a word, Queue never
\* holds MAX_BUFFER keys, and every message is one its receiver knows.
TypeOK == ServerTypeOK /\ ChannelsTypeOK /\ ClientTypeOK

(***************************************************************************)
(* Keys wait in a pending list only behind a SYNC_REPLY that is to come,   *)
(* or while ProcessQueue is taking them out: no handler clears             *)
(* client->sync and leaves keys behind that nothing will look at again.    *)
(***************************************************************************)
PendingMeansSync ==
  \A c \in Clients : pending[c] # <<>> => sync[c] \/ busy = c

(***************************************************************************)
(* A client whose keys are held back owes the server a SYNC_REPLY: either  *)
(* the FORWARD_EVENT that asks for it is on its way, or the reply is.  The *)
(* server never waits for an answer nobody was asked for.                  *)
(***************************************************************************)
Has(messages, type) == \E j \in DOMAIN messages : messages[j].type = type

ReplyIsComing(c) == Has(toClient[c], "FORWARD_EVENT") \/ Has(toServer[c], "SYNC_REPLY")

SyncHasReplyComing == \A c \in Clients : sync[c] /\ state[c] # "leaving" => ReplyIsComing(c)

IsPreedit(m) == m.type \in {"PREEDIT_START", "PREEDIT_DRAW", "PREEDIT_DONE"}

\* What context i displays once the first j messages to its client arrived.
DrawsOf(c, i, j) ==
  {p \in 1..j : toClient[c][p].type = "PREEDIT_DRAW" /\ toClient[c][p].ic = i}

ShownAfter(c, i, j) ==
  IF DrawsOf(c, i, j) = {} THEN shown[i]
  ELSE toClient[c][CHOOSE p \in DrawsOf(c, i, j) :
                     \A q \in DrawsOf(c, i, j) : q <= p].length

(***************************************************************************)
(* The server's preedit_len and the characters a client displays agree     *)
(* across the channel: every PREEDIT_DRAW replaces exactly what will be on *)
(* display when it arrives (chg_length), a preedit starts and ends empty,  *)
(* and the last draw leaves what the record of the context says.           *)
(***************************************************************************)
PreeditInStep ==
  \A c \in Clients : \A i \in mine[c] :
    /\ \A j \in DOMAIN toClient[c] : IsPreedit(toClient[c][j]) /\ toClient[c][j].ic = i =>
         IF toClient[c][j].type = "PREEDIT_DRAW"
         THEN toClient[c][j].chg_length = ShownAfter(c, i, j - 1)
         ELSE ShownAfter(c, i, j - 1) = 0
    /\ ics[i].len = ShownAfter(c, i, Len(toClient[c]))

-----------------------------------------------------------------------------
(* Where keys are.                                                         *)

At(s, n) == {j \in DOMAIN s : s[j].n = n}

Carried(m) == CASE m.type = "COMMIT"        -> m.keys
                [] m.type = "FORWARD_EVENT" -> <<m.key>>
                [] OTHER                    -> <<>>

Places(n) ==
  {<<"word", j>> : j \in At(typed, n)}
    \cup {<<"queue", j>> : j \in At(queue, n)}
    \cup (UNION {{<<"app", i, j>> : j \in At(app[i], n)} : i \in ICID})
    \cup (UNION {{<<"pending", c, j>> : j \in {j \in DOMAIN pending[c] :
                     pending[c][j].key.n = n}} : c \in Clients})
    \cup (UNION {{<<"toServer", c, j>> : j \in {j \in DOMAIN toServer[c] :
                     At(Carried(toServer[c][j]), n) # {}}} : c \in Clients})
    \cup (UNION {{<<"toClient", c, j>> : j \in {j \in DOMAIN toClient[c] :
                     At(Carried(toClient[c][j]), n) # {}}} : c \in Clients})

(***************************************************************************)
(* A key has its effect at most once: it is never both in the word and on  *)
(* its way back, nor released twice from Queue or a pending list.          *)
(***************************************************************************)
KeyInOnePlace == \A n \in 1..MaxKeys : \A p, q \in Places(n) : p = q

Handled ==
  LET in(s) == {s[j] : j \in DOMAIN s}
  IN  in(typed) \cup in(queue) \cup (UNION {in(app[i]) : i \in ICID})
        \cup (UNION {UNION {in(Carried(m)) : m \in in(toClient[c])} : c \in Clients})

Waiting(c) == {pending[c][j].key : j \in DOMAIN pending[c]}

(***************************************************************************)
(* The server takes the keys of a context in the order of typing, however  *)
(* often they are put aside: what is pending was typed after all that was  *)
(* handled, and before all that is still on its way.                       *)
(***************************************************************************)
KeysHandledInOrder ==
  \A c \in Clients :
    LET coming == {toServer[c][j].key : j \in {j \in DOMAIN toServer[c] :
                                         toServer[c][j].type = "FORWARD_EVENT"}}
    IN  /\ \A k \in Waiting(c) \cup coming, h \in Handled : h.home = k.home => h.n < k.n
        /\ \A k \in Waiting(c), h \in coming : k.n < h.n
        /\ \A j, p \in DOMAIN pending[c] : j < p => pending[c][j].key.n < pending[c][p].key.n

\* A key that has an effect on a text: none that is let go, and not Shift.
HasEffect(k) == k.ev.press /\ k.ev.sym \notin {"Shift_L", "Shift_R"}

(***************************************************************************)
(* An application gets the effect of the keys pressed in it in the order   *)
(* of typing, and of no other context's keys.  (A key let go and the Shift *)
(* keys are passed on while letters typed before are still being composed; *)
(* they have no effect on a text.)                                         *)
(***************************************************************************)
EffectInOrder ==
  \A i \in ICID : \A p \in DOMAIN app[i] :
    /\ app[i][p].home = i
    /\ \A j \in 1..(p - 1) : HasEffect(app[i][j]) /\ HasEffect(app[i][p])
                                => app[i][j].n < app[i][p].n

(***************************************************************************)
(* When nothing is under way every key typed has had its effect or is in   *)
(* the word of the context it was typed in; none is left behind in Queue,  *)
(* and no SYNC_REPLY to come would release one.                            *)
(***************************************************************************)
NothingLost ==
  Quiet =>
    /\ queue = <<>> /\ ~imsSync
    /\ \A n \in 1..pressed : Places(n) # {}
    /\ \A j \in DOMAIN typed : typed[j].home = focus

(***************************************************************************)
(* What the user sees is the word the engine holds: when nothing is under  *)
(* way the focused context displays as many characters as the word has,    *)
(* and no other context still displays any.                                *)
(***************************************************************************)
DisplayIsTheWord ==
  Quiet => \A c \in Clients : \A i \in mine[c] :
             shown[i] = IF i = focus THEN fe.len ELSE 0

\* Keys put aside in a pending list are taken up again.
PendingIsEmptied == \A c \in Clients : pending[c] # <<>> ~> pending[c] = <<>>

(***************************************************************************)
(* A key held back in Queue is released or given up with the focus,        *)
(* however fast the user types, moves the focus and resets.  Only          *)
(*   - a second key must not join it: ims->sync is one Boolean for all of  *)
(*     Queue, the first SYNC_REPLY clears it, and the key left behind has  *)
(*     no reply that would release it;                                     *)
(*   - no client may leave, for its answers are never given.               *)
(***************************************************************************)
AtMostOneHeld == Len(queue) <= 1

NobodyLeaves == \A c \in Clients : state[c] # "leaving"

HeldKeyIsReleased ==
  [](AtMostOneHeld /\ NobodyLeaves) => (queue # <<>> ~> queue = <<>>)
=============================================================================
