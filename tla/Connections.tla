---------------------------- MODULE Connections ----------------------------
(***************************************************************************)
(* The tables of the server: the list of clients and the list of freed     *)
(* ones (i18nUtil.c, i18nX.c), the list of input contexts (IC.c), and the  *)
(* messages that open, use and close a connection (i18nPtHdr.c).           *)
(*                                                                         *)
(* An application dials with a new window, tells its byte order, opens the *)
(* input method, creates and uses contexts, closes, disconnects, and may   *)
(* dial again; or it dies on the way.  Keys are the subject of XimServer,  *)
(* and how bytes travel that of PropertyTransport: here a message arrives  *)
(* whole.                                                                  *)
(***************************************************************************)
EXTENDS Integers, Sequences, FiniteSets

CONSTANTS
  Apps,         \* applications
  OrderOf,      \* the byte order of the machine of each
  IdSpace,      \* how many ids a CARD16 has: 65536
  MaxICs,       \* contexts created over a behaviour
  MaxDead       \* clients that die

\* connect_id is a CARD16; there are too few applications for it to wrap.
ASSUME ConnectionsAssumption ==
  /\ IsFiniteSet(Apps) /\ Cardinality(Apps) < 65536
  /\ OrderOf \in [Apps -> {"l", "B"}]
  /\ IdSpace \in Nat \ {0} /\ MaxICs \in Nat /\ MaxDead \in Nat

VARIABLES
  running,      \* the server's process is there
  badWindow,    \* an error is on its way to it
  clients,      \* i18n_core->address.clients
  freeClients,  \* i18n_core->address.free_clients
  connectId,    \* the static connect_id of _Xi18nNewClient
  accepting,    \* applications for which accept_win exists, with its filter
  ics,          \* ic_list, each with the number of its creation
  created,      \* the static icid of NewIC, before it is cut to 16 bits
  inbox,        \* messages on their way to the server, by application
  stage,        \* how far the client has come
  asked,        \* the request it waits for the answer of
  held          \* ids of contexts the client may use

server == <<running, badWindow, clients, freeClients, connectId, accepting, ics, created>>
tables == <<clients, freeClients, connectId, accepting>>
clientSide == <<stage, asked, held>>
vars == <<server, inbox, clientSide>>

NoIC == -1
Message(op, icid) == [op |-> op, icid |-> icid]
Plain(op) == Message(op, NoIC)
Nothing == Plain("nothing")

\* Answered without a change of the tables.  QUERY stands for three messages
\* alike: QUERY_EXTENSION, ENCODING_NEGOTIATION and GET_IM_VALUES.
Queries == {"OPEN", "CLOSE", "QUERY"}
Uses    == {"SET_IC_VALUES", "GET_IC_VALUES", "DESTROY_IC"}
Asks    == {"XCONNECT", "CONNECT", "DISCONNECT", "CREATE_IC"} \cup Queries \cup Uses

\* What a client sends without waiting.
Unasked == {"SYNC_REPLY"}

Messages == [op : Asks \cup Unasked \cup {"nothing"}, icid : Nat \cup {NoIC}]

Init ==
  /\ running = TRUE /\ badWindow = FALSE
  /\ clients = {} /\ freeClients = {} /\ connectId = 0 /\ accepting = {}
  /\ ics = {} /\ created = 0
  /\ inbox = [s \in Apps |-> <<>>]
  /\ stage = [s \in Apps |-> "away"]
  /\ asked = [s \in Apps |-> Nothing]
  /\ held = [s \in Apps |-> {}]

-----------------------------------------------------------------------------
(* The clients.                                                            *)

HasWindow(s) == stage[s] \notin {"away", "dead"}

\* The server has not read this yet.
Sent(s, op) == \E k \in DOMAIN inbox[s] : inbox[s][k].op = op

\* MaxICs, of contexts that are created or asked for.
RoomForIC == created + Cardinality({s \in Apps : Sent(s, "CREATE_IC")}) < MaxICs

\* What a client may ask next.
MayAsk(s) ==
  CASE stage[s] = "away" -> {Plain("XCONNECT")}
    [] stage[s] = "met" -> {Plain("CONNECT")}
    [] stage[s] = "joined" -> {Plain("OPEN"), Plain("DISCONNECT")}
    [] stage[s] = "open" ->
         {Plain(op) : op \in Queries \ {"OPEN"}}
           \cup {Plain(op) : op \in IF RoomForIC THEN {"CREATE_IC"} ELSE {}}
           \cup {Message(op, i) : op \in Uses, i \in held[s]}
    [] OTHER -> {}

Ask(s, m) ==
  /\ asked[s] = Nothing /\ inbox[s] = <<>> /\ m \in MayAsk(s)
  /\ asked' = [asked EXCEPT ![s] = m]
  /\ stage' = [stage EXCEPT ![s] = IF @ = "away" THEN "dialing" ELSE @]
  /\ inbox' = [inbox EXCEPT ![s] = Append(@, m)]
  /\ held' = [held EXCEPT ![s] = IF m.op = "DESTROY_IC" THEN @ \ {m.icid}
                                 ELSE IF m.op = "CLOSE" THEN {} ELSE @]
  /\ UNCHANGED server

\* The answer to a SYNC may come late, behind a DISCONNECT.
AnswerSync(s) ==
  /\ stage[s] \in {"joined", "open"} /\ asked[s].op \in {"nothing", "DISCONNECT"}
  /\ ~Sent(s, "SYNC_REPLY")
  /\ inbox' = [inbox EXCEPT ![s] = Append(@, Plain("SYNC_REPLY"))]
  /\ UNCHANGED <<server, clientSide>>

NextStage(op, now) ==
  CASE op = "XCONNECT" -> "met"
    [] op = "CONNECT" -> "joined"
    [] op = "OPEN" -> "open"
    [] op = "CLOSE" -> "joined"
    [] op = "DISCONNECT" -> "away"
    [] OTHER -> now

\* A client that waits does nothing else: the answer is received when sent.
Receive(s, m) ==
  /\ stage' = [stage EXCEPT ![s] = NextStage(m.op, @)]
  /\ asked' = [asked EXCEPT ![s] = Nothing]
  /\ held' = [held EXCEPT ![s] = IF m.op = "CREATE_IC" THEN @ \cup {m.icid} ELSE @]

\* The client dies: its window is gone, what it has sent is still to be read.
Die(s) ==
  /\ HasWindow(s)
  /\ Cardinality({d \in Apps : stage[d] = "dead"}) < MaxDead
  /\ stage' = [stage EXCEPT ![s] = "dead"]
  /\ asked' = [asked EXCEPT ![s] = Nothing]
  /\ held' = [held EXCEPT ![s] = {}]
  /\ UNCHANGED <<server, inbox>>

-----------------------------------------------------------------------------
(* The tables.  They are lists in the code.  Ids and windows are those of  *)
(* one client only, so that the order of the clients does not matter; the  *)
(* newest context stands first in ic_list.                                 *)

FindClient(id) == CHOOSE c \in clients : c.id = id

\* ReadXIMMessage looks for the client by the window the event came to.
ClientOf(s) == CHOOSE c \in clients : c.win = s

Client(id, win, order) == [id |-> id, win |-> win, order |-> order]

\* Fault: the freed record keeps the byte order of the client before.
NewClientAsItWas(s) ==
  /\ \/ \E old \in freeClients :
          /\ freeClients' = freeClients \ {old}
          /\ clients' = clients \cup {Client(old.id, s, old.order)}
          /\ UNCHANGED connectId
     \/ /\ freeClients = {}
        /\ clients' = clients \cup {Client(connectId + 1, s, "?")}
        /\ connectId' = connectId + 1 /\ UNCHANGED freeClients
  /\ accepting' = accepting \cup {s}

\* Fault: the record that is used again stays in the list of freed ones.
NewClientStaysFree(s) ==
  /\ \/ \E old \in freeClients :
          /\ clients' = clients \cup {Client(old.id, s, "?")}
          /\ UNCHANGED <<connectId, freeClients>>
     \/ /\ freeClients = {}
        /\ clients' = clients \cup {Client(connectId + 1, s, "?")}
        /\ connectId' = connectId + 1 /\ UNCHANGED freeClients
  /\ accepting' = accepting \cup {s}

\* The record of any client that left is used again, with its id.
NewClient(s) ==
  /\ \/ \E old \in freeClients :
          /\ freeClients' = freeClients \ {old}
          /\ clients' = clients \cup {Client(old.id, s, "?")}
          /\ UNCHANGED connectId
     \/ /\ freeClients = {}
        /\ clients' = clients \cup {Client(connectId + 1, s, "?")}
        /\ connectId' = connectId + 1 /\ UNCHANGED freeClients
  /\ accepting' = accepting \cup {s}

\* Fault: a client that leaves stays in the list.
DisconnectKeeps(c) == UNCHANGED tables

\* Xi18nXDisconnect, with _Xi18nDeleteClient.
Disconnect(c) ==
  /\ clients' = clients \ {c} /\ freeClients' = freeClients \cup {c}
  /\ accepting' = accepting \ {c.win}
  /\ UNCHANGED connectId

\* The newest of the contexts with this id, if there is one.
FindIC(icid) ==
  {r \in ics : r.id = icid /\ \A q \in ics : q.id = icid => q.num <= r.num}

\* Fault: the contexts there are, are counted.
NewICOfCount(s) ==
  [id |-> (Cardinality(ics) + 1) % IdSpace, num |-> created + 1, client |-> s]

\* Fault: the id has more bits than the messages have room for.
NewICWide(s) == [id |-> created + 1, num |-> created + 1, client |-> s]

\* The client window is among the attributes a context is created with.
NewIC(s) == [id |-> (created + 1) % IdSpace, num |-> created + 1, client |-> s]

-----------------------------------------------------------------------------
(* Sending.  An event to a window that is gone makes the X server answer   *)
(* BadWindow, later; no handler is set for it.                             *)

Send(s, m) ==
  IF HasWindow(s) THEN Receive(s, m) /\ UNCHANGED badWindow
                  ELSE badWindow' = TRUE /\ UNCHANGED clientSide

\* _Xi18nSendMessage to the client of this number.
SendMessage(id, m) == Send(FindClient(id).win, m)

-----------------------------------------------------------------------------
(* The server reads one message.                                           *)

Reads(s, op) == running /\ inbox[s] # <<>> /\ Head(inbox[s]).op = op
Read(s) == inbox' = [inbox EXCEPT ![s] = Tail(@)]
Icid(s) == Head(inbox[s]).icid

ReadXConnectMessage(s) ==
  /\ Reads(s, "XCONNECT") /\ Read(s)
  /\ NewClient(s)
  /\ Send(s, Plain("XCONNECT"))
  /\ UNCHANGED <<running, ics, created>>

\* The filter of the window passes an event on to ReadXIMMessage, which knows
\* the client of the window and takes nothing from it before its CONNECT.
Passes(s, op) == s \in accepting /\ (op = "CONNECT" \/ ClientOf(s).order # "?")

ReadXIMMessage(s, op) == Reads(s, op) /\ Passes(s, op) /\ Read(s)

\* Other events are dropped.
Drop(s) ==
  /\ running /\ inbox[s] # <<>> /\ Head(inbox[s]).op # "XCONNECT"
  /\ ~Passes(s, Head(inbox[s]).op)
  /\ Read(s)
  /\ UNCHANGED <<server, clientSide>>

\* The first byte of the message is the byte order, kept if none is known.
ConnectMessageProc(s) ==
  /\ ReadXIMMessage(s, "CONNECT")
  /\ LET c == ClientOf(s)
         known == IF c.order = "?" THEN Client(c.id, c.win, OrderOf[s]) ELSE c
     IN  /\ clients' = (clients \ {c}) \cup {known}
         /\ SendMessage(c.id, Plain("CONNECT"))
  /\ UNCHANGED <<running, freeClients, connectId, accepting, ics, created>>

DisConnectMessageProc(s) ==
  /\ ReadXIMMessage(s, "DISCONNECT")
  /\ SendMessage(ClientOf(s).id, Plain("DISCONNECT"))
  /\ Disconnect(ClientOf(s))
  /\ UNCHANGED <<running, ics, created>>

\* Fault: a client that closes has no answer.
QueryMessageProcSilent(s, op) ==
  /\ op \in Queries /\ ReadXIMMessage(s, op)
  /\ IF op = "CLOSE" THEN UNCHANGED <<badWindow, clientSide>>
     ELSE SendMessage(ClientOf(s).id, Plain(op))
  /\ UNCHANGED <<running, tables, ics, created>>

\* Opening, closing, extensions, encodings and the values of the method.
QueryMessageProc(s, op) ==
  /\ op \in Queries /\ ReadXIMMessage(s, op)
  /\ SendMessage(ClientOf(s).id, Plain(op))
  /\ UNCHANGED <<running, tables, ics, created>>

\* A second message, with the events to be forwarded, goes to the same client.
CreateICMessageProc(s) ==
  /\ ReadXIMMessage(s, "CREATE_IC")
  /\ LET rec == NewIC(s)
     IN  /\ ics' = ics \cup {rec} /\ created' = created + 1
         /\ SendMessage(ClientOf(s).id, Message("CREATE_IC", rec.id))
  /\ UNCHANGED <<running, tables>>

\* The window is set again; a context that is not there has its answer too.
SetICValuesMessageProc(s) ==
  /\ ReadXIMMessage(s, "SET_IC_VALUES")
  /\ LET found == FindIC(Icid(s))
     IN  ics' = (ics \ found) \cup {[r EXCEPT !.client = s] : r \in found}
  /\ SendMessage(ClientOf(s).id, Message("SET_IC_VALUES", Icid(s)))
  /\ UNCHANGED <<running, tables, created>>

GetICValuesMessageProc(s) ==
  /\ ReadXIMMessage(s, "GET_IC_VALUES")
  /\ SendMessage(ClientOf(s).id, Message("GET_IC_VALUES", Icid(s)))
  /\ UNCHANGED <<running, tables, ics, created>>

DestroyICMessageProc(s) ==
  /\ ReadXIMMessage(s, "DESTROY_IC")
  /\ ics' = ics \ FindIC(Icid(s))
  /\ SendMessage(ClientOf(s).id, Message("DESTROY_IC", Icid(s)))
  /\ UNCHANGED <<running, tables, created>>

\* A key that was held back may be sent to the client; see XimServer.
SyncReplyMessageProc(s) ==
  /\ ReadXIMMessage(s, "SYNC_REPLY")
  /\ \/ UNCHANGED badWindow
     \/ ~HasWindow(FindClient(ClientOf(s).id).win) /\ badWindow' = TRUE
  /\ UNCHANGED <<running, tables, ics, created, clientSide>>

Handle(s) ==
  \/ ReadXConnectMessage(s) \/ Drop(s)
  \/ ConnectMessageProc(s) \/ DisConnectMessageProc(s)
  \/ \E op \in Queries : QueryMessageProc(s, op)
  \/ CreateICMessageProc(s) \/ SetICValuesMessageProc(s)
  \/ GetICValuesMessageProc(s) \/ DestroyICMessageProc(s)
  \/ SyncReplyMessageProc(s)

\* The process ends: killed, or by Xlib's own handler of errors.  Its tables are
\* gone, and its windows with what was on its way to them; Xlib tells the
\* clients that they have no input method.
End ==
  /\ running /\ running' = FALSE /\ badWindow' = FALSE
  /\ clients' = {} /\ freeClients' = {} /\ connectId' = 0 /\ accepting' = {}
  /\ ics' = {} /\ created' = 0
  /\ inbox' = [s \in Apps |-> <<>>]
  /\ stage' = [s \in Apps |-> IF stage[s] = "dead" THEN "dead" ELSE "away"]
  /\ asked' = [s \in Apps |-> Nothing]
  /\ held' = [s \in Apps |-> {}]

-----------------------------------------------------------------------------

\* With no server there is none to dial.
ClientStep(s) ==
  running /\ ((\E m \in MayAsk(s) : Ask(s, m)) \/ AnswerSync(s) \/ Die(s))

Next == (\E s \in Apps : ClientStep(s) \/ Handle(s)) \/ End

Spec == Init /\ [][Next]_vars

-----------------------------------------------------------------------------
(* Properties.                                                             *)

\* Type invariant.
TypeOK ==
  /\ running \in BOOLEAN /\ badWindow \in BOOLEAN
  /\ clients \subseteq [id : 1..connectId, win : Apps, order : {"?", "l", "B"}]
  /\ freeClients \subseteq [id : 1..connectId, win : Apps, order : {"?", "l", "B"}]
  /\ connectId \in Nat /\ accepting \subseteq Apps
  /\ ics \subseteq [id : 0..(IdSpace - 1), num : 1..created, client : Apps]
  /\ created \in Nat
  /\ inbox \in [Apps -> Seq(Messages)]
  /\ stage \in [Apps -> {"away", "dialing", "met", "joined", "open", "dead"}]
  /\ asked \in [Apps -> Messages]
  /\ held \in [Apps -> SUBSET Nat]

(***************************************************************************)
(* A window that has a filter has one client, so that ReadXIMMessage finds *)
(* it, and an id that of one client, in the list or freed, so that         *)
(* _Xi18nFindClient finds the same one.                                    *)
(***************************************************************************)
OneRecordEach ==
  /\ accepting = {c.win : c \in clients}
  /\ \A c, d \in clients : c.id = d.id \/ c.win = d.win => c = d
  /\ \A c \in clients, d \in freeClients : c.id # d.id

(***************************************************************************)
(* What a client is sent answers the request of its own that was read, and *)
(* no client hears of another's: none is sent what is meant for a client   *)
(* that had its id, or that has it now.                                    *)
(***************************************************************************)
Hears(s) == asked'[s] = Nothing /\ asked[s] # Nothing /\ stage'[s] # "dead" /\ running'

OnlyTheAskerHears ==
  [][\A s \in Apps : Hears(s) =>
       /\ inbox[s] # <<>> /\ inbox'[s] = Tail(inbox[s]) /\ Head(inbox[s]) = asked[s]
       /\ stage'[s] = NextStage(asked[s].op, stage[s])]_vars

(***************************************************************************)
(* The messages of a client are read, and answered, in its byte order,     *)
(* also when its record was that of a client with another one.             *)
(***************************************************************************)
ReadInItsOrder ==
  \A c \in clients : \/ c.order = OrderOf[c.win]
                     \/ c.order = "?" /\ stage[c.win] \in {"met", "dead"}

(***************************************************************************)
(* A client finds its context by the id it was told, also after the ids    *)
(* began again from 0, while none is in the list that is as old as the ids *)
(* are many.                                                               *)
(***************************************************************************)
ContextIsItsOwners ==
  (\A r \in ics : created - r.num < IdSpace) =>
    \A s \in Apps : \A i \in held[s] : \E r \in FindIC(i) : r.client = s

(***************************************************************************)
(* An event goes to a window that is gone, which ends the server for all   *)
(* its clients, only where a client died: never where one left, whatever   *)
(* it sent before and after its DISCONNECT.                                *)
(***************************************************************************)
OnlyTheDeadBreakIt == badWindow => \E s \in Apps : stage[s] = "dead"

(***************************************************************************)
(* A client that waits for an answer waits for a request that is still to  *)
(* be read, where the server is sure to look: none is dropped or left      *)
(* without an answer, so that no client is blocked for ever.               *)
(***************************************************************************)
NoOneWaitsInVain ==
  \A s \in Apps : asked[s] # Nothing =>
    /\ Sent(s, asked[s].op)
    /\ asked[s].op # "XCONNECT" => Passes(s, asked[s].op)
=============================================================================
