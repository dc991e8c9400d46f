--------------------------- MODULE ServiceProofs ----------------------------
(***************************************************************************)
(* The connections, and the service they are a part of.                    *)
(*                                                                         *)
(* First Connections: every client has one record, is read in its own byte *)
(* order, hears the answer of what it asked and nothing else, and finds    *)
(* its own contexts, for any applications, contexts and deaths.  The       *)
(* inductive invariant has the tables (ids are of one record only, freed   *)
(* ones included) and, for each application, the conversation: what it has *)
(* sent and the server has not read is a SYNC_REPLY, or the request it     *)
(* waits for with a SYNC_REPLY behind it.  Contexts, further down, is the  *)
(* invariant of the list of contexts.                                      *)
(*                                                                         *)
(* Then Registration: a server that is up can be found, and none refused   *)
(* for a dead one, for any number of instances.                            *)
(*                                                                         *)
(* Last Service: it does nothing that one of its parts could not do, so    *)
(* that what is proved of the connections and of the registration alone    *)
(* holds where instances come and go around them.                          *)
(***************************************************************************)
EXTENDS Service, SequenceTheorems, FiniteSetTheorems, TLAPS

Sync == Plain("SYNC_REPLY")
Requests == [op : Asks, icid : Nat \cup {NoIC}]

\* The request that waits in the inbox, and in which stage it can.
Fits(s, m) ==
  /\ m.op = "XCONNECT" => s \notin accepting
  /\ asked[s] = IF stage[s] = "dead" THEN Nothing ELSE m
  /\ stage[s] # "dead" =>
       /\ m.op = "XCONNECT" => stage[s] = "dialing"
       /\ m.op = "CONNECT" => stage[s] = "met"
       /\ m.op \notin {"XCONNECT", "CONNECT"} => stage[s] \in {"joined", "open"}

Orderly(s) ==
  \/ asked[s] = Nothing /\ (inbox[s] = <<>> \/ inbox[s] = <<Sync>>)
  \/ \E m \in Requests : Fits(s, m) /\ (inbox[s] = <<m>> \/ inbox[s] = <<m, Sync>>)

Received(s) ==
  stage[s] # "dead" => (s \in accepting <=> stage[s] \in {"met", "joined", "open"})

FreedOnce == \A c, d \in freeClients : c.id = d.id => c = d

Tables == OneRecordEach /\ FreedOnce /\ ReadInItsOrder

Inv ==
  /\ TypeOK /\ Tables /\ OnlyTheDeadBreakIt
  /\ \A s \in Apps : Orderly(s) /\ Received(s)

LEMMA InitInv == ASSUME Init PROVE Inv
<1>1. inbox \in [Apps -> Seq(Messages)] BY DEF Init
<1>2. asked \in [Apps -> Messages] BY DEF Init, Nothing, Plain, Message, Messages, NoIC
<1>3. TypeOK
  <2>1. running \in BOOLEAN /\ badWindow \in BOOLEAN
    <3>1. running = TRUE /\ badWindow = FALSE BY DEF Init
    <3> QED BY <3>1
  <2>2. /\ stage \in [Apps -> {"away", "dialing", "met", "joined", "open", "dead"}]
        /\ held \in [Apps -> SUBSET Nat] /\ connectId \in Nat /\ created \in Nat
    BY DEF Init
  <2>3. /\ clients \subseteq [id : 1..connectId, win : Apps, order : {"?", "l", "B"}]
        /\ freeClients \subseteq [id : 1..connectId, win : Apps, order : {"?", "l", "B"}]
        /\ accepting \subseteq Apps
        /\ ics \subseteq [id : 0..(IdSpace - 1), num : 1..created, client : Apps]
    BY DEF Init
  <2> QED BY <1>1, <1>2, <2>1, <2>2, <2>3 DEF TypeOK
<1>4. Tables BY DEF Init, Tables, OneRecordEach, FreedOnce, ReadInItsOrder
<1>5. OnlyTheDeadBreakIt BY DEF Init, OnlyTheDeadBreakIt
<1>6. \A s \in Apps : Orderly(s) /\ Received(s) BY DEF Init, Orderly, Received
<1> QED BY <1>3, <1>4, <1>5, <1>6 DEF Inv

(* Messages.                                                               *)

LEMMA RequestsAre ==
  /\ Requests \subseteq Messages /\ Sync \in Messages /\ Nothing \in Messages
  /\ \A m \in Requests : m # Nothing /\ m.op \in Asks /\ m.op # "SYNC_REPLY" /\ m # Sync
  /\ Sync.op = "SYNC_REPLY" /\ Nothing.op = "nothing" /\ Sync # Nothing
BY DEF Requests, Messages, Sync, Nothing, Plain, Message, Asks, Unasked, Queries, Uses, NoIC

\* What is left of an inbox when its first message is read.
LEMMA Reading ==
  ASSUME NEW m, NEW n
  PROVE  /\ Head(<<m>>) = m /\ Tail(<<m>>) = <<>>
         /\ Head(<<m, n>>) = m /\ Tail(<<m, n>>) = <<n>>
         /\ Append(<<>>, m) = <<m>> /\ Append(<<m>>, n) = <<m, n>>
         /\ <<m>> # <<>> /\ <<m, n>> # <<>>
<1>1. Head(<<m>>) = m /\ Head(<<m, n>>) = m OBVIOUS
<1>2. Tail(<<m>>) = <<>> OBVIOUS
<1>3. Tail(<<m, n>>) = <<n>> OBVIOUS
<1>4. Append(<<>>, m) = <<m>> OBVIOUS
<1>5. Append(<<m>>, n) = <<m, n>>
  <2>1. <<m>> \in Seq({m, n}) /\ <<m, n>> \in Seq({m, n}) OBVIOUS
  <2>2. Append(<<m>>, n) \in Seq({m, n}) /\ Len(Append(<<m>>, n)) = 2 BY <2>1
  <2>3. Append(<<m>>, n)[1] = m /\ Append(<<m>>, n)[2] = n BY <2>1
  <2>4. \A i \in 1..2 : Append(<<m>>, n)[i] = <<m, n>>[i] BY <2>3
  <2> QED BY <2>1, <2>2, <2>4, SeqEqual
<1>6. <<m>> # <<>> /\ <<m, n>> # <<>> OBVIOUS
<1> QED BY <1>1, <1>2, <1>3, <1>4, <1>5, <1>6

(* The clients.                                                            *)

\* What happens to one client is no matter of another's conversation.
LEMMA Elsewhere ==
  ASSUME NEW t \in Apps, Orderly(t), Received(t), asked'[t] = asked[t], stage'[t] = stage[t],
         inbox'[t] = inbox[t], t \in accepting' <=> t \in accepting
  PROVE  Orderly(t)' /\ Received(t)'
BY DEF Orderly, Fits, Received

LEMMA MayAskFits ==
  ASSUME TypeOK, NEW s \in Apps, NEW m \in MayAsk(s)
  PROVE  /\ m \in Requests /\ stage[s] # "dead"
         /\ m.op = "XCONNECT" => stage[s] = "away"
         /\ m.op = "CONNECT" => stage[s] = "met"
         /\ m.op \notin {"XCONNECT", "CONNECT"} => stage[s] \in {"joined", "open"}
<1> USE DEF Requests, Asks, Queries, Uses, Plain, Message, NoIC
<1>1. CASE stage[s] = "away" BY <1>1 DEF MayAsk
<1>2. CASE stage[s] = "met" BY <1>2 DEF MayAsk
<1>3. CASE stage[s] = "joined" BY <1>3 DEF MayAsk
<1>4. CASE stage[s] = "open"
  <2>1. held[s] \subseteq Nat BY DEF TypeOK
  <2>2. \/ \E op \in Queries \ {"OPEN"} : m = Plain(op)
        \/ m = Plain("CREATE_IC")
        \/ \E op \in Uses, i \in held[s] : m = Message(op, i)
    BY <1>4 DEF MayAsk
  <2> QED BY <1>4, <2>1, <2>2
<1> QED BY <1>1, <1>2, <1>3, <1>4 DEF MayAsk

LEMMA AskInv ==
  ASSUME Inv, NEW s \in Apps, NEW m \in MayAsk(s), Ask(s, m) PROVE Inv'
<1> USE DEF Inv
<1>1. /\ m \in Requests /\ stage[s] # "dead"
      /\ m.op = "XCONNECT" => stage[s] = "away"
      /\ m.op = "CONNECT" => stage[s] = "met"
      /\ m.op \notin {"XCONNECT", "CONNECT"} => stage[s] \in {"joined", "open"}
  BY MayAskFits
<1>2. UNCHANGED server BY DEF Ask
<1>3. inbox' = [inbox EXCEPT ![s] = <<m>>]
  BY Reading DEF Ask, TypeOK
<1>4. /\ asked' = [asked EXCEPT ![s] = m]
      /\ stage' = [stage EXCEPT ![s] = IF stage[s] = "away" THEN "dialing" ELSE stage[s]]
      /\ held' \in [Apps -> SUBSET Nat]
  BY DEF Ask, TypeOK
<1>5. TypeOK' BY <1>1, <1>2, <1>3, <1>4, RequestsAre DEF TypeOK, server
<1>6. \A t \in Apps : t # s =>
         asked'[t] = asked[t] /\ stage'[t] = stage[t] /\ inbox'[t] = inbox[t]
  BY <1>3, <1>4 DEF TypeOK
<1>7. /\ asked'[s] = m /\ inbox'[s] = <<m>> /\ stage'[s] # "dead"
      /\ stage'[s] = IF stage[s] = "away" THEN "dialing" ELSE stage[s]
  BY <1>1, <1>3, <1>4 DEF TypeOK
<1>8. accepting' = accepting BY <1>2 DEF server
<1>9. \A t \in Apps : Orderly(t)' /\ Received(t)'
  <2>1. ASSUME NEW t \in Apps, t # s PROVE Orderly(t)' /\ Received(t)'
    BY <1>6, <1>8, <2>1, Elsewhere
  <2>2. Received(s)' BY <1>7, <1>8 DEF Received
  <2>3. Fits(s, m)' BY <1>1, <1>7, <1>8 DEF Fits, Received
  <2>4. Orderly(s)' BY <1>1, <1>7, <2>3 DEF Orderly
  <2> QED BY <2>1, <2>2, <2>4
<1>10. Tables' BY <1>2, <1>6, <1>7 DEF Tables, OneRecordEach, FreedOnce, ReadInItsOrder, server, TypeOK
<1>11. OnlyTheDeadBreakIt' BY <1>2, <1>6, <1>1 DEF OnlyTheDeadBreakIt, server
<1> QED BY <1>5, <1>9, <1>10, <1>11

\* A client that has no SYNC_REPLY on its way.
LEMMA NoSync ==
  ASSUME NEW s \in Apps, Orderly(s), ~Sent(s, "SYNC_REPLY")
  PROVE  \/ asked[s] = Nothing /\ inbox[s] = <<>>
         \/ \E m \in Requests : Fits(s, m) /\ inbox[s] = <<m>>
<1>1. inbox[s] # <<Sync>>
  <2> SUFFICES ASSUME inbox[s] = <<Sync>> PROVE FALSE OBVIOUS
  <2>1. 1 \in DOMAIN inbox[s] /\ inbox[s][1] = Sync OBVIOUS
  <2> QED BY <2>1, RequestsAre DEF Sent
<1>2. ASSUME NEW m PROVE inbox[s] # <<m, Sync>>
  <2> SUFFICES ASSUME inbox[s] = <<m, Sync>> PROVE FALSE OBVIOUS
  <2>1. 2 \in DOMAIN inbox[s] /\ inbox[s][2] = Sync OBVIOUS
  <2> QED BY <2>1, RequestsAre DEF Sent
<1> QED BY <1>1, <1>2 DEF Orderly

LEMMA AnswerSyncInv ==
  ASSUME Inv, NEW s \in Apps, AnswerSync(s) PROVE Inv'
<1> USE DEF Inv
<1>1. UNCHANGED <<server, clientSide>> /\ ~Sent(s, "SYNC_REPLY") BY DEF AnswerSync
<1>2. inbox' = [inbox EXCEPT ![s] = Append(inbox[s], Sync)] BY DEF AnswerSync, Sync
<1>3. TypeOK' BY <1>1, <1>2, RequestsAre DEF TypeOK, server, clientSide
<1>4. UNCHANGED <<clients, freeClients, accepting, badWindow, stage, asked>>
  BY <1>1 DEF server, clientSide
<1>5. Tables' /\ OnlyTheDeadBreakIt'
  BY <1>4 DEF Tables, OneRecordEach, FreedOnce, ReadInItsOrder, OnlyTheDeadBreakIt
<1>6. inbox'[s] = Append(inbox[s], Sync) /\ \A t \in Apps : t # s => inbox'[t] = inbox[t]
  BY <1>2 DEF TypeOK
<1>7. Orderly(s)'
  <2>1. CASE asked[s] = Nothing /\ inbox[s] = <<>>
    BY <1>4, <1>6, <2>1, Reading DEF Orderly
  <2>2. ASSUME NEW m \in Requests, Fits(s, m), inbox[s] = <<m>> PROVE Orderly(s)'
    <3>1. inbox'[s] = <<m, Sync>> BY <1>6, <2>2, Reading
    <3>2. Fits(s, m)' BY <1>4, <2>2 DEF Fits
    <3> QED BY <3>1, <3>2 DEF Orderly
  <2> QED BY <1>1, <2>1, <2>2, NoSync
<1>8. \A t \in Apps : Orderly(t)' /\ Received(t)'
  BY <1>4, <1>6, <1>7, Elsewhere DEF Received
<1> QED BY <1>3, <1>5, <1>8

LEMMA DieInv ==
  ASSUME Inv, NEW s \in Apps, Die(s) PROVE Inv'
<1> USE DEF Inv
<1>1. UNCHANGED <<server, inbox>> /\ HasWindow(s) BY DEF Die
<1>2. /\ stage' = [stage EXCEPT ![s] = "dead"]
      /\ asked' = [asked EXCEPT ![s] = Nothing] /\ held' = [held EXCEPT ![s] = {}]
  BY DEF Die
<1>3. TypeOK' BY <1>1, <1>2, RequestsAre DEF TypeOK, server
<1>4. /\ stage'[s] = "dead" /\ asked'[s] = Nothing
      /\ \A t \in Apps : t # s => stage'[t] = stage[t] /\ asked'[t] = asked[t]
  BY <1>2 DEF TypeOK
<1>5. UNCHANGED <<clients, freeClients, accepting, badWindow, inbox>> BY <1>1 DEF server
<1>6. Tables' /\ OnlyTheDeadBreakIt'
  BY <1>4, <1>5 DEF Tables, OneRecordEach, FreedOnce, ReadInItsOrder, OnlyTheDeadBreakIt, TypeOK
<1>7. Orderly(s)' /\ Received(s)'
  <2>1. \A m \in Requests : Fits(s, m) => Fits(s, m)' BY <1>4, <1>5 DEF Fits
  <2> QED BY <1>4, <1>5, <2>1 DEF Orderly, Received
<1>8. \A t \in Apps : Orderly(t)' /\ Received(t)' BY <1>4, <1>5, <1>7, Elsewhere
<1> QED BY <1>3, <1>6, <1>8

LEMMA EndInv == ASSUME Inv, End PROVE Inv'
<1> USE DEF Inv
<1>1. badWindow' \in BOOLEAN /\ running' \in BOOLEAN BY DEF End
<1>2. \A s \in Apps : inbox'[s] = <<>> /\ asked'[s] = Nothing
  BY DEF End
<1>3. \A s \in Apps : stage'[s] = IF stage[s] = "dead" THEN "dead" ELSE "away"
  BY DEF End
<1>4. TypeOK'
  <2>1. inbox' \in [Apps -> Seq(Messages)] BY DEF End
  <2>2. asked' \in [Apps -> Messages] BY RequestsAre DEF End
  <2>3. stage' \in [Apps -> {"away", "dialing", "met", "joined", "open", "dead"}]
    BY DEF End
  <2> QED BY <1>1, <2>1, <2>2, <2>3 DEF End, TypeOK
<1>5. Tables' BY DEF Tables, OneRecordEach, FreedOnce, ReadInItsOrder, End
<1>6. OnlyTheDeadBreakIt' BY DEF OnlyTheDeadBreakIt, End
<1>7. \A s \in Apps : Orderly(s)' /\ Received(s)'
  BY <1>2, <1>3 DEF Orderly, Received, End
<1> QED BY <1>4, <1>5, <1>6, <1>7

(* The server.                                                             *)

\* The request that is read.
LEMMA HeadIsRequest ==
  ASSUME NEW s \in Apps, Orderly(s), inbox[s] # <<>>, Head(inbox[s]).op # "SYNC_REPLY"
  PROVE  /\ Head(inbox[s]) \in Requests /\ Fits(s, Head(inbox[s]))
         /\ Tail(inbox[s]) = <<>> \/ Tail(inbox[s]) = <<Sync>>
<1>1. inbox[s] # <<Sync>> BY RequestsAre, Reading
<1>2. PICK m \in Requests : Fits(s, m) /\ (inbox[s] = <<m>> \/ inbox[s] = <<m, Sync>>)
  BY <1>1 DEF Orderly
<1>3. CASE inbox[s] = <<m>> BY <1>2, <1>3, Reading
<1>4. CASE inbox[s] = <<m, Sync>> BY <1>2, <1>4, Reading
<1> QED BY <1>2, <1>3, <1>4

\* The conversation after an answer, whatever the tables are.
LEMMA Answering ==
  ASSUME Inv, NEW s \in Apps, NEW x \in Messages, inbox[s] # <<>>,
         Head(inbox[s]).op = x.op, x.op \in Asks, Read(s), Send(s, x),
         x.op = "CREATE_IC" => x.icid \in Nat,
         s \in accepting \/ x.op = "XCONNECT",
         s \in accepting' <=> x.op # "DISCONNECT",
         \A t \in Apps : t # s => (t \in accepting' <=> t \in accepting)
  PROVE  /\ \A t \in Apps : Orderly(t)' /\ Received(t)'
         /\ OnlyTheDeadBreakIt' /\ badWindow' \in BOOLEAN
         /\ inbox' \in [Apps -> Seq(Messages)] /\ asked' \in [Apps -> Messages]
         /\ stage' \in [Apps -> {"away", "dialing", "met", "joined", "open", "dead"}]
         /\ held' \in [Apps -> SUBSET Nat]
         /\ \A t \in Apps : t # s => stage'[t] = stage[t]
         /\ stage'[s] = IF stage[s] = "dead" THEN "dead" ELSE NextStage(x.op, stage[s])
         /\ stage[s] # "dead" =>
              /\ x.op = "XCONNECT" => stage[s] = "dialing"
              /\ x.op = "CONNECT" => stage[s] = "met"
              /\ x.op \notin {"XCONNECT", "CONNECT"} => stage[s] \in {"joined", "open"}
<1> USE DEF Inv
<1>1. x.op # "SYNC_REPLY" BY DEF Asks, Queries, Uses
<1>2. /\ Head(inbox[s]) \in Requests /\ Fits(s, Head(inbox[s]))
      /\ Tail(inbox[s]) = <<>> \/ Tail(inbox[s]) = <<Sync>>
  BY <1>1, HeadIsRequest
<1>3. stage[s] # "dead" =>
        /\ x.op = "XCONNECT" => stage[s] = "dialing"
        /\ x.op = "CONNECT" => stage[s] = "met"
        /\ x.op \notin {"XCONNECT", "CONNECT"} => stage[s] \in {"joined", "open"}
  BY <1>2 DEF Fits
<1>4. inbox' = [inbox EXCEPT ![s] = Tail(inbox[s])] BY DEF Read
<1>5. /\ inbox' \in [Apps -> Seq(Messages)] /\ inbox'[s] = Tail(inbox[s])
      /\ \A t \in Apps : t # s => inbox'[t] = inbox[t]
  BY <1>4 DEF TypeOK
<1>6. HasWindow(s) <=> stage[s] # "dead" BY <1>3 DEF HasWindow
<1>7. NextStage(x.op, stage[s]) \in {"away", "dialing", "met", "joined", "open", "dead"}
  BY DEF NextStage, TypeOK
<1>8. /\ stage' \in [Apps -> {"away", "dialing", "met", "joined", "open", "dead"}]
      /\ \A t \in Apps : t # s => stage'[t] = stage[t]
      /\ stage'[s] = IF stage[s] = "dead" THEN "dead" ELSE NextStage(x.op, stage[s])
  BY <1>6, <1>7 DEF Send, Receive, clientSide, TypeOK
<1>9. /\ asked' \in [Apps -> Messages] /\ asked'[s] = Nothing
      /\ \A t \in Apps : t # s => asked'[t] = asked[t]
  <2>1. stage[s] = "dead" => asked[s] = Nothing BY <1>2 DEF Fits
  <2> QED BY <1>6, <2>1, RequestsAre DEF Send, Receive, clientSide, TypeOK
<1>10. held' \in [Apps -> SUBSET Nat]
  <2>1. held \in [Apps -> SUBSET Nat] /\ (UNCHANGED held \/ Receive(s, x))
    BY DEF Send, clientSide, TypeOK
  <2>2. (IF x.op = "CREATE_IC" THEN held[s] \cup {x.icid} ELSE held[s]) \in SUBSET Nat
    BY <2>1
  <2> QED BY <2>1, <2>2 DEF Receive
<1>11. badWindow' \in BOOLEAN BY DEF Send, TypeOK
<1>12. OnlyTheDeadBreakIt'
  BY <1>6, <1>8 DEF Send, OnlyTheDeadBreakIt, TypeOK
<1>13. Orderly(s)' BY <1>2, <1>5, <1>9 DEF Orderly
<1>14. Received(s)' BY <1>3, <1>8 DEF Received, NextStage
<1>15. \A t \in Apps : Orderly(t)' /\ Received(t)'
  BY <1>5, <1>8, <1>9, <1>13, <1>14, Elsewhere
<1> QED BY <1>3, <1>5, <1>8, <1>9, <1>10, <1>11, <1>12, <1>15

\* The record of a window that has a filter, and the way back to the window.
LEMMA ItsClient ==
  ASSUME Tables, NEW s \in Apps, s \in accepting
  PROVE  /\ ClientOf(s) \in clients /\ ClientOf(s).win = s
         /\ \A c \in clients : c.win = s => c = ClientOf(s)
         /\ FindClient(ClientOf(s).id) = ClientOf(s)
         /\ \A m : SendMessage(ClientOf(s).id, m) = Send(s, m)
<1>1. \E c \in clients : c.win = s BY DEF Tables, OneRecordEach
<1>2. ClientOf(s) \in clients /\ ClientOf(s).win = s BY <1>1 DEF ClientOf
<1>3. \A c \in clients : c.win = s => c = ClientOf(s)
  BY <1>2 DEF Tables, OneRecordEach
<1>4. FindClient(ClientOf(s).id) = ClientOf(s)
  <2>1. \A c \in clients : c.id = ClientOf(s).id <=> c = ClientOf(s)
    BY <1>2 DEF Tables, OneRecordEach
  <2> QED BY <1>2, <2>1 DEF FindClient
<1> QED BY <1>2, <1>3, <1>4 DEF SendMessage

\* The filter lets the requests of a client that lives pass.
LEMMA LivingPass ==
  ASSUME ConnectionsAssumption, Tables, NEW s \in Apps, Received(s), stage[s] # "dead",
         NEW m \in Requests, Fits(s, m), m.op # "XCONNECT"
  PROVE  Passes(s, m.op)
<1>1. s \in accepting BY DEF Received, Fits
<1>2. ClientOf(s) \in clients /\ ClientOf(s).win = s BY <1>1, ItsClient
<1>3. CASE m.op = "CONNECT" BY <1>1, <1>3 DEF Passes
<1>4. CASE m.op # "CONNECT"
  <2>1. stage[s] \in {"joined", "open"} BY <1>4 DEF Fits
  <2>2. ClientOf(s).order = OrderOf[s]
    BY <1>2, <2>1 DEF Tables, ReadInItsOrder
  <2>3. OrderOf[s] # "?" BY DEF ConnectionsAssumption
  <2> QED BY <1>1, <2>2, <2>3 DEF Passes
<1> QED BY <1>3, <1>4

\* Tables that stay, when one client whose order is known goes on.
LEMMA SameTables ==
  ASSUME Tables, NEW s \in Apps, s \in accepting, ClientOf(s).order # "?",
         UNCHANGED <<clients, freeClients, accepting>>, TypeOK,
         \A t \in Apps : t # s => stage'[t] = stage[t]
  PROVE  Tables'
<1>1. ClientOf(s) \in clients /\ \A c \in clients : c.win = s => c = ClientOf(s)
  BY ItsClient
<1>2. ReadInItsOrder'
  <2> SUFFICES ASSUME NEW c \in clients
               PROVE  \/ c.order = OrderOf[c.win]
                      \/ c.order = "?" /\ stage'[c.win] \in {"met", "dead"}
    BY DEF ReadInItsOrder
  <2>1. c.win \in Apps BY DEF TypeOK
  <2>2. CASE c.win = s BY <1>1, <2>2 DEF Tables, ReadInItsOrder
  <2>3. CASE c.win # s BY <2>1, <2>3 DEF Tables, ReadInItsOrder
  <2> QED BY <2>2, <2>3
<1> QED BY <1>2 DEF Tables, OneRecordEach, FreedOnce

LEMMA DropInv ==
  ASSUME ConnectionsAssumption, Inv, NEW s \in Apps, Drop(s) PROVE Inv'
<1> USE DEF Inv
<1>1. /\ inbox[s] # <<>> /\ Head(inbox[s]).op # "XCONNECT" /\ ~Passes(s, Head(inbox[s]).op)
      /\ Read(s) /\ UNCHANGED <<server, clientSide>>
  BY DEF Drop
<1>2. UNCHANGED <<clients, freeClients, accepting, badWindow, stage, asked>>
  BY <1>1 DEF server, clientSide
<1>3. inbox' = [inbox EXCEPT ![s] = Tail(inbox[s])] BY <1>1 DEF Read
<1>4. TypeOK' BY <1>1, <1>3 DEF TypeOK, server, clientSide
<1>5. Tables' /\ OnlyTheDeadBreakIt'
  BY <1>2 DEF Tables, OneRecordEach, FreedOnce, ReadInItsOrder, OnlyTheDeadBreakIt
<1>6. inbox'[s] = Tail(inbox[s]) /\ \A t \in Apps : t # s => inbox'[t] = inbox[t]
  BY <1>3 DEF TypeOK
<1>7. Orderly(s)'
  <2>1. CASE Head(inbox[s]).op = "SYNC_REPLY"
    <3>1. asked[s] = Nothing /\ inbox[s] = <<Sync>>
      BY <1>1, <2>1, RequestsAre, Reading DEF Orderly
    <3> QED BY <1>2, <1>6, <3>1, Reading DEF Orderly
  <2>2. CASE Head(inbox[s]).op # "SYNC_REPLY"
    <3>1. /\ Head(inbox[s]) \in Requests /\ Fits(s, Head(inbox[s]))
          /\ Tail(inbox[s]) = <<>> \/ Tail(inbox[s]) = <<Sync>>
      BY <1>1, <2>2, HeadIsRequest
    <3>2. stage[s] = "dead" BY <1>1, <3>1, LivingPass
    <3>3. asked[s] = Nothing BY <3>1, <3>2 DEF Fits
    <3> QED BY <1>2, <1>6, <3>1, <3>3 DEF Orderly
  <2> QED BY <2>1, <2>2
<1>8. \A t \in Apps : Orderly(t)' /\ Received(t)'
  BY <1>2, <1>6, <1>7, Elsewhere DEF Received
<1> QED BY <1>4, <1>5, <1>8

LEMMA SyncReplyInv ==
  ASSUME Inv, NEW s \in Apps, SyncReplyMessageProc(s) PROVE Inv'
<1> USE DEF Inv
<1>1. /\ inbox[s] # <<>> /\ Head(inbox[s]).op = "SYNC_REPLY" /\ s \in accepting /\ Read(s)
      /\ UNCHANGED <<running, tables, ics, created, clientSide>>
  BY DEF SyncReplyMessageProc, ReadXIMMessage, Reads, Passes
<1>2. UNCHANGED <<clients, freeClients, accepting, stage, asked>>
  BY <1>1 DEF tables, clientSide
<1>3. inbox' = [inbox EXCEPT ![s] = Tail(inbox[s])] BY <1>1 DEF Read
<1>4. badWindow' \in BOOLEAN BY DEF SyncReplyMessageProc, TypeOK
<1>5. TypeOK' BY <1>1, <1>3, <1>4 DEF TypeOK, tables, clientSide
<1>6. Tables' BY <1>2 DEF Tables, OneRecordEach, FreedOnce, ReadInItsOrder
<1>7. OnlyTheDeadBreakIt'
  <2>1. FindClient(ClientOf(s).id).win = s BY <1>1, ItsClient
  <2>2. ~HasWindow(s) => stage[s] = "dead" BY <1>1 DEF HasWindow, Received
  <2> QED BY <1>2, <2>1, <2>2 DEF OnlyTheDeadBreakIt, SyncReplyMessageProc
<1>8. inbox'[s] = Tail(inbox[s]) /\ \A t \in Apps : t # s => inbox'[t] = inbox[t]
  BY <1>3 DEF TypeOK
<1>9. Orderly(s)'
  <2>1. asked[s] = Nothing /\ inbox[s] = <<Sync>>
    BY <1>1, RequestsAre, Reading DEF Orderly
  <2> QED BY <1>2, <1>8, <2>1, Reading DEF Orderly
<1>10. \A t \in Apps : Orderly(t)' /\ Received(t)'
  BY <1>2, <1>8, <1>9, Elsewhere DEF Received
<1> QED BY <1>5, <1>6, <1>7, <1>10

\* The handlers that answer and leave the tables of clients as they are.
LEMMA AnsweringInv ==
  ASSUME Inv, NEW s \in Apps, NEW x \in Messages, x.op \in Queries \cup Uses \cup {"CREATE_IC"},
         ReadXIMMessage(s, x.op), SendMessage(ClientOf(s).id, x),
         x.op = "CREATE_IC" => x.icid \in Nat,
         UNCHANGED <<running, tables>>, created' \in Nat,
         ics' \subseteq [id : 0..(IdSpace - 1), num : 1..created', client : Apps]
  PROVE  Inv'
<1> USE DEF Inv
<1>1. /\ inbox[s] # <<>> /\ Head(inbox[s]).op = x.op /\ Read(s) /\ s \in accepting
      /\ ClientOf(s).order # "?" /\ x.op \in Asks
      /\ x.op \notin {"XCONNECT", "CONNECT", "DISCONNECT"}
  BY DEF ReadXIMMessage, Reads, Passes, Asks, Queries, Uses
<1>2. Send(s, x) BY <1>1, ItsClient
<1>3. UNCHANGED <<clients, freeClients, connectId, accepting>> BY DEF tables
<1>4. /\ \A t \in Apps : Orderly(t)' /\ Received(t)'
      /\ OnlyTheDeadBreakIt' /\ badWindow' \in BOOLEAN
      /\ inbox' \in [Apps -> Seq(Messages)] /\ asked' \in [Apps -> Messages]
      /\ stage' \in [Apps -> {"away", "dialing", "met", "joined", "open", "dead"}]
      /\ held' \in [Apps -> SUBSET Nat]
      /\ \A t \in Apps : t # s => stage'[t] = stage[t]
  BY <1>1, <1>2, <1>3, Answering
<1>5. TypeOK' BY <1>3, <1>4 DEF TypeOK
<1>6. Tables' BY <1>1, <1>3, <1>4, SameTables
<1> QED BY <1>4, <1>5, <1>6

LEMMA QueryInv ==
  ASSUME Inv, NEW s \in Apps, NEW op \in Queries, QueryMessageProc(s, op) PROVE Inv'
<1>1. Plain(op) \in Messages /\ Plain(op).op = op
  BY DEF Plain, Message, Messages, Asks, NoIC
<1>2. op # "CREATE_IC" BY DEF Queries
<1> QED BY <1>1, <1>2, AnsweringInv DEF QueryMessageProc, Inv, TypeOK

\* The id that a message names.
LEMMA NamedIC ==
  ASSUME TypeOK, NEW s \in Apps, inbox[s] # <<>>, NEW op \in Asks
  PROVE  Message(op, Icid(s)) \in Messages /\ Message(op, Icid(s)).op = op
<1>1. Head(inbox[s]) \in Messages BY DEF TypeOK
<1> QED BY <1>1 DEF Icid, Message, Messages

LEMMA CreateICInv ==
  ASSUME ConnectionsAssumption, Inv, NEW s \in Apps, CreateICMessageProc(s) PROVE Inv'
<1> USE DEF Inv
<1>1. (created + 1) % IdSpace \in 0..(IdSpace - 1)
  BY DEF ConnectionsAssumption, TypeOK
<1> DEFINE rec == NewIC(s)
           x == Message("CREATE_IC", rec.id)
<1>2. /\ rec = [id |-> (created + 1) % IdSpace, num |-> created + 1, client |-> s]
      /\ rec \in [id : 0..(IdSpace - 1), num : 1..(created + 1), client : Apps]
  BY <1>1 DEF NewIC, TypeOK
<1>3. x \in Messages /\ x.op = "CREATE_IC" /\ x.icid \in Nat
  BY <1>1, <1>2 DEF Message, Messages, Asks, ConnectionsAssumption
<1>4. /\ ReadXIMMessage(s, x.op) /\ SendMessage(ClientOf(s).id, x)
      /\ UNCHANGED <<running, tables>> /\ created' = created + 1 /\ ics' = ics \cup {rec}
  BY <1>3 DEF CreateICMessageProc
<1>5. ics' \subseteq [id : 0..(IdSpace - 1), num : 1..created', client : Apps]
  <2>1. ics \subseteq [id : 0..(IdSpace - 1), num : 1..(created + 1), client : Apps]
    BY DEF TypeOK
  <2> QED BY <1>2, <1>4, <2>1
<1>6. created' \in Nat BY <1>4 DEF TypeOK
<1> HIDE DEF rec, x
<1> QED BY <1>3, <1>4, <1>5, <1>6, AnsweringInv

LEMMA SetICValuesInv ==
  ASSUME Inv, NEW s \in Apps, SetICValuesMessageProc(s) PROVE Inv'
<1> USE DEF Inv
<1> DEFINE x == Message("SET_IC_VALUES", Icid(s))
<1>1. inbox[s] # <<>> BY DEF SetICValuesMessageProc, ReadXIMMessage, Reads
<1>2. x \in Messages /\ x.op = "SET_IC_VALUES" BY <1>1, NamedIC DEF Asks, Uses
<1>3. ics' \subseteq [id : 0..(IdSpace - 1), num : 1..created, client : Apps]
  <2>1. ics' = (ics \ FindIC(Icid(s))) \cup {[r EXCEPT !.client = s] : r \in FindIC(Icid(s))}
    BY DEF SetICValuesMessageProc
  <2>2. \A r \in ics : [r EXCEPT !.client = s]
                         \in [id : 0..(IdSpace - 1), num : 1..created, client : Apps]
    BY DEF TypeOK
  <2>3. FindIC(Icid(s)) \subseteq ics BY DEF FindIC
  <2> QED BY <2>1, <2>2, <2>3 DEF TypeOK
<1>4. /\ ReadXIMMessage(s, x.op) /\ SendMessage(ClientOf(s).id, x)
      /\ UNCHANGED <<running, tables, created>>
  BY <1>2 DEF SetICValuesMessageProc
<1> HIDE DEF x
<1> QED BY <1>2, <1>3, <1>4, AnsweringInv DEF Uses, TypeOK

LEMMA GetICValuesInv ==
  ASSUME Inv, NEW s \in Apps, GetICValuesMessageProc(s) PROVE Inv'
<1> USE DEF Inv
<1> DEFINE x == Message("GET_IC_VALUES", Icid(s))
<1>1. inbox[s] # <<>> BY DEF GetICValuesMessageProc, ReadXIMMessage, Reads
<1>2. x \in Messages /\ x.op = "GET_IC_VALUES" BY <1>1, NamedIC DEF Asks, Uses
<1>3. /\ ReadXIMMessage(s, x.op) /\ SendMessage(ClientOf(s).id, x)
      /\ UNCHANGED <<running, tables, ics, created>>
  BY <1>2 DEF GetICValuesMessageProc
<1> HIDE DEF x
<1> QED BY <1>2, <1>3, AnsweringInv DEF Uses, TypeOK

LEMMA DestroyICInv ==
  ASSUME Inv, NEW s \in Apps, DestroyICMessageProc(s) PROVE Inv'
<1> USE DEF Inv
<1> DEFINE x == Message("DESTROY_IC", Icid(s))
<1>1. inbox[s] # <<>> BY DEF DestroyICMessageProc, ReadXIMMessage, Reads
<1>2. x \in Messages /\ x.op = "DESTROY_IC" BY <1>1, NamedIC DEF Asks, Uses
<1>3. /\ ReadXIMMessage(s, x.op) /\ SendMessage(ClientOf(s).id, x)
      /\ UNCHANGED <<running, tables, created>> /\ ics' \subseteq ics
  BY <1>2 DEF DestroyICMessageProc
<1> HIDE DEF x
<1> QED BY <1>2, <1>3, AnsweringInv DEF Uses, TypeOK

ClientRecords(n) == [id : 1..n, win : Apps, order : {"?", "l", "B"}]

\* The tables with a client more, whose record is new or that of one that left.
LEMMA NewClientTables ==
  ASSUME TypeOK, Tables, NEW s \in Apps, s \notin accepting, NewClient(s)
  PROVE  /\ clients' \subseteq ClientRecords(connectId') /\ connectId' \in Nat
         /\ freeClients' \subseteq ClientRecords(connectId')
         /\ accepting' = accepting \cup {s}
         /\ OneRecordEach' /\ FreedOnce'
         /\ \A c \in clients' : c \in clients \/ (c.win = s /\ c.order = "?")
<1> USE DEF ClientRecords
<1>1. \A c \in clients : c.win # s BY DEF Tables, OneRecordEach
<1>2. CASE freeClients = {}
  <2>1. /\ freeClients' = {} /\ connectId' = connectId + 1
        /\ clients' = clients \cup {Client(connectId + 1, s, "?")}
        /\ accepting' = accepting \cup {s}
    BY <1>2 DEF NewClient
  <2>2. \A c \in clients : c.id # connectId + 1 BY DEF TypeOK
  <2>3. Client(connectId + 1, s, "?") \in ClientRecords(connectId + 1)
    BY DEF Client, TypeOK
  <2>4. clients \subseteq ClientRecords(connectId + 1) BY DEF TypeOK
  <2> DEFINE new == Client(connectId + 1, s, "?")
  <2>5. new.id = connectId + 1 /\ new.win = s /\ new.order = "?" BY DEF Client
  <2> HIDE DEF new
  <2>6. clients' = clients \cup {new} BY <2>1 DEF new
  <2>7. OneRecordEach' /\ FreedOnce'
    BY <1>1, <2>1, <2>2, <2>5, <2>6 DEF Tables, OneRecordEach, FreedOnce
  <2>8. connectId + 1 \in Nat BY DEF TypeOK
  <2>9. new \in ClientRecords(connectId + 1) BY <2>3 DEF new
  <2> QED BY <2>1, <2>4, <2>5, <2>6, <2>7, <2>8, <2>9
<1>3. CASE freeClients # {}
  <2>1. PICK old \in freeClients :
          /\ freeClients' = freeClients \ {old} /\ connectId' = connectId
          /\ clients' = clients \cup {Client(old.id, s, "?")}
    BY <1>3 DEF NewClient
  <2>2. \A c \in clients : c.id # old.id BY DEF Tables, OneRecordEach
  <2>3. Client(old.id, s, "?") \in ClientRecords(connectId) BY DEF Client, TypeOK
  <2>4. accepting' = accepting \cup {s} BY DEF NewClient
  <2> DEFINE new == Client(old.id, s, "?")
  <2>5. new.id = old.id /\ new.win = s /\ new.order = "?" BY DEF Client
  <2>6. clients' = clients \cup {new} /\ new \in ClientRecords(connectId) BY <2>1, <2>3
  <2> HIDE DEF new
  <2>7. OneRecordEach' /\ FreedOnce'
    BY <1>1, <2>1, <2>2, <2>4, <2>5, <2>6 DEF Tables, OneRecordEach, FreedOnce
  <2> QED BY <2>1, <2>4, <2>5, <2>6, <2>7 DEF TypeOK
<1> QED BY <1>2, <1>3

LEMMA XConnectInv ==
  ASSUME Inv, NEW s \in Apps, ReadXConnectMessage(s) PROVE Inv'
<1> USE DEF Inv
<1> DEFINE x == Plain("XCONNECT")
<1>1. /\ inbox[s] # <<>> /\ Head(inbox[s]).op = x.op /\ Read(s) /\ Send(s, x)
      /\ NewClient(s) /\ UNCHANGED <<running, ics, created>>
  BY DEF ReadXConnectMessage, Reads, Plain, Message
<1>2. x \in Messages /\ x.op = "XCONNECT" /\ x.op \in Asks
  BY DEF Plain, Message, Messages, Asks, NoIC
<1> HIDE DEF x
<1>3. s \notin accepting BY <1>1, <1>2, HeadIsRequest DEF Fits
<1>4. /\ clients' \subseteq ClientRecords(connectId') /\ connectId' \in Nat
      /\ freeClients' \subseteq ClientRecords(connectId')
      /\ accepting' = accepting \cup {s} /\ OneRecordEach' /\ FreedOnce'
      /\ \A c \in clients' : c \in clients \/ (c.win = s /\ c.order = "?")
  BY <1>1, <1>3, NewClientTables
<1>5. /\ \A t \in Apps : Orderly(t)' /\ Received(t)'
      /\ OnlyTheDeadBreakIt' /\ badWindow' \in BOOLEAN
      /\ inbox' \in [Apps -> Seq(Messages)] /\ asked' \in [Apps -> Messages]
      /\ stage' \in [Apps -> {"away", "dialing", "met", "joined", "open", "dead"}]
      /\ held' \in [Apps -> SUBSET Nat]
      /\ \A t \in Apps : t # s => stage'[t] = stage[t]
      /\ stage'[s] = IF stage[s] = "dead" THEN "dead" ELSE NextStage(x.op, stage[s])
  BY <1>1, <1>2, <1>4, Answering
<1>6. TypeOK' BY <1>1, <1>4, <1>5 DEF TypeOK, ClientRecords
<1>7. ReadInItsOrder'
  <2>1. stage'[s] \in {"met", "dead"} BY <1>2, <1>5 DEF NextStage
  <2>2. \A c \in clients : c.win \in Apps /\ c.win # s
    BY <1>3 DEF TypeOK, Tables, OneRecordEach
  <2> QED BY <1>4, <1>5, <2>1, <2>2 DEF Tables, ReadInItsOrder
<1> QED BY <1>4, <1>5, <1>6, <1>7 DEF Tables

LEMMA ConnectInv ==
  ASSUME ConnectionsAssumption, Inv, NEW s \in Apps, ConnectMessageProc(s) PROVE Inv'
<1> USE DEF Inv
<1> DEFINE x == Plain("CONNECT")
           c == ClientOf(s)
           known == IF c.order = "?" THEN Client(c.id, c.win, OrderOf[s]) ELSE c
<1>1. /\ inbox[s] # <<>> /\ Head(inbox[s]).op = x.op /\ Read(s) /\ s \in accepting
      /\ clients' = (clients \ {c}) \cup {known} /\ SendMessage(c.id, x)
      /\ UNCHANGED <<running, freeClients, connectId, accepting, ics, created>>
  BY DEF ConnectMessageProc, ReadXIMMessage, Reads, Passes, Plain, Message
<1>2. x \in Messages /\ x.op = "CONNECT" /\ x.op \in Asks
  BY DEF Plain, Message, Messages, Asks, NoIC
<1> HIDE DEF x
<1>3. c \in clients /\ c.win = s /\ (\A d \in clients : d.win = s => d = c) /\ Send(s, x)
  BY <1>1, ItsClient
<1>4. c \in [id : 1..connectId, win : Apps, order : {"?", "l", "B"}] BY <1>3 DEF TypeOK
<1>5. /\ known \in [id : 1..connectId, win : Apps, order : {"?", "l", "B"}]
      /\ known.id = c.id /\ known.win = s /\ known.order = OrderOf[s]
  BY <1>3, <1>4 DEF Client, ConnectionsAssumption, Tables, ReadInItsOrder
<1> HIDE DEF c, known
<1>6. /\ \A t \in Apps : Orderly(t)' /\ Received(t)'
      /\ OnlyTheDeadBreakIt' /\ badWindow' \in BOOLEAN
      /\ inbox' \in [Apps -> Seq(Messages)] /\ asked' \in [Apps -> Messages]
      /\ stage' \in [Apps -> {"away", "dialing", "met", "joined", "open", "dead"}]
      /\ held' \in [Apps -> SUBSET Nat]
      /\ \A t \in Apps : t # s => stage'[t] = stage[t]
  BY <1>1, <1>2, <1>3, Answering
<1>7. TypeOK' BY <1>1, <1>5, <1>6 DEF TypeOK
<1>8. OneRecordEach' /\ FreedOnce'
  BY <1>1, <1>3, <1>5 DEF Tables, OneRecordEach, FreedOnce
<1>9. ReadInItsOrder'
  <2>1. \A d \in clients : d # c => d.win \in Apps /\ d.win # s BY <1>3 DEF TypeOK
  <2> SUFFICES ASSUME NEW d \in clients'
               PROVE  \/ d.order = OrderOf[d.win]
                      \/ d.order = "?" /\ stage'[d.win] \in {"met", "dead"}
    BY DEF ReadInItsOrder
  <2>2. CASE d = known BY <1>5, <2>2
  <2>3. CASE d # known
    <3>1. d \in clients /\ d # c BY <1>1, <2>3
    <3>2. stage'[d.win] = stage[d.win] BY <1>6, <2>1, <3>1
    <3> QED BY <3>1, <3>2 DEF Tables, ReadInItsOrder
  <2> QED BY <2>2, <2>3
<1> QED BY <1>6, <1>7, <1>8, <1>9 DEF Tables

LEMMA DisConnectInv ==
  ASSUME Inv, NEW s \in Apps, DisConnectMessageProc(s) PROVE Inv'
<1> USE DEF Inv
<1> DEFINE x == Plain("DISCONNECT")
           c == ClientOf(s)
<1>1. /\ inbox[s] # <<>> /\ Head(inbox[s]).op = x.op /\ Read(s) /\ s \in accepting
      /\ SendMessage(c.id, x) /\ Disconnect(c) /\ UNCHANGED <<running, ics, created>>
  BY DEF DisConnectMessageProc, ReadXIMMessage, Reads, Passes, Plain, Message
<1>2. x \in Messages /\ x.op = "DISCONNECT" /\ x.op \in Asks
  BY DEF Plain, Message, Messages, Asks, NoIC
<1> HIDE DEF x
<1>3. c \in clients /\ c.win = s /\ (\A d \in clients : d.win = s => d = c) /\ Send(s, x)
  BY <1>1, ItsClient
<1> HIDE DEF c
<1>4. /\ clients' = clients \ {c} /\ freeClients' = freeClients \cup {c}
      /\ accepting' = accepting \ {s} /\ connectId' = connectId
  BY <1>1, <1>3 DEF Disconnect
<1>5. /\ \A t \in Apps : Orderly(t)' /\ Received(t)'
      /\ OnlyTheDeadBreakIt' /\ badWindow' \in BOOLEAN
      /\ inbox' \in [Apps -> Seq(Messages)] /\ asked' \in [Apps -> Messages]
      /\ stage' \in [Apps -> {"away", "dialing", "met", "joined", "open", "dead"}]
      /\ held' \in [Apps -> SUBSET Nat]
      /\ \A t \in Apps : t # s => stage'[t] = stage[t]
  BY <1>1, <1>2, <1>3, <1>4, Answering
<1>6. TypeOK' BY <1>1, <1>3, <1>4, <1>5 DEF TypeOK
<1>7. OneRecordEach' /\ FreedOnce'
  BY <1>3, <1>4 DEF Tables, OneRecordEach, FreedOnce
<1>8. ReadInItsOrder'
  <2>1. \A d \in clients : d # c => d.win \in Apps /\ d.win # s BY <1>3 DEF TypeOK
  <2> QED BY <1>4, <1>5, <2>1 DEF Tables, ReadInItsOrder
<1> QED BY <1>5, <1>6, <1>7, <1>8 DEF Tables

LEMMA NextInv == ASSUME ConnectionsAssumption, Inv, [Next]_vars PROVE Inv'
<1>1. ASSUME NEW s \in Apps, ClientStep(s) PROVE Inv'
  BY <1>1, AskInv, AnswerSyncInv, DieInv DEF ClientStep
<1>2. ASSUME NEW s \in Apps, Handle(s) PROVE Inv'
  BY <1>2, XConnectInv, DropInv, ConnectInv, DisConnectInv, QueryInv, CreateICInv,
     SetICValuesInv, GetICValuesInv, DestroyICInv, SyncReplyInv DEF Handle
<1>3. CASE UNCHANGED vars
  <2>1. UNCHANGED <<running, badWindow, clients, freeClients, connectId, accepting, ics, created,
                    inbox, stage, asked, held>>
    BY <1>3 DEF vars, server, clientSide
  <2>2. TypeOK' BY <2>1 DEF Inv, TypeOK
  <2>3. Tables' /\ OnlyTheDeadBreakIt'
    BY <2>1 DEF Inv, Tables, OneRecordEach, FreedOnce, ReadInItsOrder, OnlyTheDeadBreakIt
  <2>4. \A s \in Apps : Orderly(s)' /\ Received(s)' BY <2>1, Elsewhere DEF Inv
  <2> QED BY <2>2, <2>3, <2>4 DEF Inv
<1> QED BY <1>1, <1>2, <1>3, EndInv DEF Next

LEMMA Invariance == ASSUME ConnectionsAssumption PROVE Spec => []Inv
<1>1. Init => Inv BY InitInv
<1>2. Inv /\ [Next]_vars => Inv' BY NextInv
<1> QED BY <1>1, <1>2, PTL DEF Spec

LEMMA NoneInVain == ASSUME ConnectionsAssumption, Inv PROVE NoOneWaitsInVain
<1> SUFFICES ASSUME NEW s \in Apps, asked[s] # Nothing
             PROVE  /\ Sent(s, asked[s].op)
                    /\ asked[s].op # "XCONNECT" => Passes(s, asked[s].op)
  BY DEF NoOneWaitsInVain
<1> USE DEF Inv
<1>1. PICK m \in Requests : Fits(s, m) /\ (inbox[s] = <<m>> \/ inbox[s] = <<m, Sync>>)
  BY DEF Orderly
<1>2. asked[s] = m /\ stage[s] # "dead" BY <1>1 DEF Fits
<1>3. 1 \in DOMAIN inbox[s] /\ inbox[s][1] = m
  <2>1. CASE inbox[s] = <<m>> BY <2>1
  <2>2. CASE inbox[s] = <<m, Sync>> BY <2>2
  <2> QED BY <1>1, <2>1, <2>2
<1>4. m.op # "XCONNECT" => Passes(s, m.op) BY <1>1, <1>2, LivingPass
<1> QED BY <1>2, <1>3, <1>4 DEF Sent

\* What a handler sends is the answer of the message it read.
Answers(s, x) ==
  /\ inbox[s] # <<>> /\ x.op = Head(inbox[s]).op /\ x.op # "SYNC_REPLY"
  /\ Read(s) /\ Send(s, x)

LEMMA HandlersAnswer ==
  ASSUME Inv, NEW s \in Apps, Handle(s)
  PROVE  UNCHANGED clientSide \/ \E x \in Messages : Answers(s, x)
<1> USE DEF Inv
<1>1. CASE ReadXConnectMessage(s)
  <2>1. /\ Plain("XCONNECT") \in Messages /\ Plain("XCONNECT").op = "XCONNECT"
    BY DEF Plain, Message, Messages, Asks, NoIC
  <2>2. Answers(s, Plain("XCONNECT"))
    BY <1>1, <2>1 DEF ReadXConnectMessage, Reads, Answers
  <2> QED BY <2>1, <2>2
<1>2. CASE Drop(s) \/ SyncReplyMessageProc(s) BY <1>2 DEF Drop, SyncReplyMessageProc
<1>3. ASSUME NEW x \in Messages, x.op # "SYNC_REPLY", ReadXIMMessage(s, x.op),
             SendMessage(ClientOf(s).id, x)
      PROVE  \E y \in Messages : Answers(s, y)
  <2>1. s \in accepting BY <1>3 DEF ReadXIMMessage, Passes
  <2>2. Answers(s, x) BY <1>3, <2>1, ItsClient DEF ReadXIMMessage, Reads, Answers
  <2> QED BY <2>2
<1>4. \A op \in {"CONNECT", "DISCONNECT"} \cup Queries :
        Plain(op) \in Messages /\ Plain(op).op = op /\ op # "SYNC_REPLY"
  BY DEF Plain, Message, Messages, Asks, Queries, NoIC
<1>5. CASE ConnectMessageProc(s) BY <1>3, <1>4, <1>5 DEF ConnectMessageProc
<1>6. CASE DisConnectMessageProc(s) BY <1>3, <1>4, <1>6 DEF DisConnectMessageProc
<1>7. ASSUME NEW op \in Queries, QueryMessageProc(s, op)
      PROVE  \E x \in Messages : Answers(s, x)
  BY <1>3, <1>4, <1>7 DEF QueryMessageProc
<1>8. ASSUME inbox[s] # <<>>, NEW op \in Uses
      PROVE  /\ Message(op, Icid(s)) \in Messages /\ Message(op, Icid(s)).op = op
             /\ op # "SYNC_REPLY"
  BY <1>8, NamedIC DEF Asks, Uses
<1>9. CASE SetICValuesMessageProc(s)
  BY <1>3, <1>8, <1>9 DEF SetICValuesMessageProc, ReadXIMMessage, Reads, Uses
<1>10. CASE GetICValuesMessageProc(s)
  BY <1>3, <1>8, <1>10 DEF GetICValuesMessageProc, ReadXIMMessage, Reads, Uses
<1>11. CASE DestroyICMessageProc(s)
  BY <1>3, <1>8, <1>11 DEF DestroyICMessageProc, ReadXIMMessage, Reads, Uses
<1>12. CASE CreateICMessageProc(s)
  <2> DEFINE x == Message("CREATE_IC", NewIC(s).id)
  <2>1. x.op = "CREATE_IC" BY DEF Message
  <2>2. ReadXIMMessage(s, x.op) /\ SendMessage(ClientOf(s).id, x)
    BY <1>12, <2>1 DEF CreateICMessageProc
  <2>3. x \in Messages
    <3>1. (created + 1) % IdSpace \in 0..(IdSpace - 1)
      BY ConnectionsAssumption DEF TypeOK
    <3> QED BY <3>1, ConnectionsAssumption DEF Message, Messages, Asks, NewIC
  <2> HIDE DEF x
  <2> QED BY <1>3, <2>1, <2>2, <2>3
<1> QED BY <1>1, <1>2, <1>5, <1>6, <1>7, <1>9, <1>10, <1>11, <1>12 DEF Handle

Heard ==
  \A s \in Apps : Hears(s) =>
    /\ inbox[s] # <<>> /\ inbox'[s] = Tail(inbox[s]) /\ Head(inbox[s]) = asked[s]
    /\ stage'[s] = NextStage(asked[s].op, stage[s])

LEMMA StepHeard == ASSUME ConnectionsAssumption, Inv, [Next]_vars PROVE Heard
<1> SUFFICES ASSUME NEW s \in Apps, Hears(s)
             PROVE  /\ inbox[s] # <<>> /\ inbox'[s] = Tail(inbox[s]) /\ Head(inbox[s]) = asked[s]
                    /\ stage'[s] = NextStage(asked[s].op, stage[s])
  BY DEF Heard
<1> USE DEF Inv
<1>1. asked[s] # Nothing /\ asked'[s] = Nothing /\ stage'[s] # "dead" /\ running'
  BY DEF Hears
<1>2. ~UNCHANGED clientSide BY <1>1 DEF clientSide
<1>3. ~End BY <1>1 DEF End
<1>4. ASSUME NEW t \in Apps PROVE ~ClientStep(t)
  <2>1. ~AnswerSync(t) BY <1>2 DEF AnswerSync
  <2>2. ~Die(t) BY <1>1 DEF Die, TypeOK
  <2>3. ASSUME NEW m \in MayAsk(t) PROVE ~Ask(t, m)
    BY <1>1, MayAskFits, RequestsAre DEF Ask, TypeOK
  <2> QED BY <2>1, <2>2, <2>3 DEF ClientStep
<1>5. PICK t \in Apps : Handle(t)
  BY <1>2, <1>3, <1>4 DEF Next, vars
<1>6. PICK x \in Messages : Answers(t, x) BY <1>2, <1>5, HandlersAnswer
<1>7. Receive(t, x) BY <1>2, <1>6 DEF Answers, Send
<1>8. t = s BY <1>1, <1>7 DEF Receive, TypeOK
<1>9. inbox[s] # <<>> /\ inbox'[s] = Tail(inbox[s])
  BY <1>6, <1>8 DEF Answers, Read, TypeOK
<1>10. Fits(s, Head(inbox[s])) BY <1>6, <1>8, HeadIsRequest DEF Answers
<1>11. Head(inbox[s]) = asked[s] BY <1>1, <1>10 DEF Fits
<1>12. stage'[s] = NextStage(x.op, stage[s]) BY <1>7, <1>8 DEF Receive, TypeOK
<1> QED BY <1>6, <1>8, <1>9, <1>11, <1>12 DEF Answers

-----------------------------------------------------------------------------
(* Contexts.  An id is used by a client that may name it, and by one whose *)
(* message that names it was not read.  Of the contexts with an id there   *)
(* are at least as many as it has users, also when ids came round again:   *)
(* the newest is destroyed first, so that no client is left to use an id   *)
(* when the oldest of its contexts goes.  This is why what holds of an id  *)
(* whose contexts are all young holds again once the old ones are gone.    *)

Names(s, i) == inbox[s] # <<>> /\ Head(inbox[s]).op \in Uses /\ Icid(s) = i

Users(i) == {s \in Apps : i \in held[s] \/ Names(s, i)}

Nums(i) == {r.num : r \in {q \in ics : q.id = i}}

\* No context with this id is as old as the ids are many.
Young(i) == \A r \in ics : r.id = i => created - r.num < IdSpace

Owned(i) == \A s \in Users(i) : \E r \in ics : r.id = i /\ r.client = s

\* A context that is to be destroyed is not named again.
GivenUp(s) ==
  inbox[s] # <<>> /\ Head(inbox[s]).op = "DESTROY_IC" => Icid(s) \notin held[s]

Contexts ==
  /\ \A r \in ics : r.id = r.num % IdSpace
  /\ \A r, q \in ics : r.num = q.num => r = q
  /\ \A i \in Nat : Cardinality(Users(i)) <= Cardinality(Nums(i))
  /\ \A i \in Nat : Young(i) => Owned(i)
  /\ \A s \in Apps : GivenUp(s)

\* Numbers that are alike in their last digit are the same or far apart.
LEMMA SameId ==
  ASSUME NEW M \in Nat \ {0}, NEW a \in Nat, NEW b \in Nat, a % M = b % M,
         a - b < M, b - a < M
  PROVE  a = b
<1>1. PICK j \in Int : a = M * j + (a % M)
  <2>1. a = M * (a \div M) + (a % M) /\ a \div M \in Int OBVIOUS
  <2> QED BY <2>1
<1>2. PICK k \in Int : b = M * k + (b % M)
  <2>1. b = M * (b \div M) + (b % M) /\ b \div M \in Int OBVIOUS
  <2> QED BY <2>1
<1>3. a % M \in Int /\ b % M \in Int OBVIOUS
<1>4. a - b = M * (j - k) BY <1>1, <1>2, <1>3
<1>5. j - k < 1 BY <1>4
<1>6. -1 < j - k BY <1>4
<1>7. j = k BY <1>5, <1>6
<1> QED BY <1>4, <1>7

\* Users and contexts of an id stay in proportion.
LEMMA Fewer ==
  ASSUME NEW U, NEW N, IsFiniteSet(U), Cardinality(U) <= Cardinality(N), IsFiniteSet(N),
         NEW V \in SUBSET U
  PROVE  Cardinality(V) <= Cardinality(N)
<1>1. Cardinality(V) <= Cardinality(U) /\ IsFiniteSet(V) BY FS_Subset
<1>2. Cardinality(V) \in Nat /\ Cardinality(U) \in Nat /\ Cardinality(N) \in Nat
  BY <1>1, FS_CardinalityType
<1> QED BY <1>1, <1>2

LEMMA OneMore ==
  ASSUME NEW U, NEW N, IsFiniteSet(U), Cardinality(U) <= Cardinality(N), IsFiniteSet(N),
         NEW A, NEW x \in A, NEW n, n \notin N, NEW V \in SUBSET (U \cup {x})
  PROVE  Cardinality(V) <= Cardinality(N \cup {n})
<1>1. Cardinality(U) \in Nat /\ Cardinality(N) \in Nat BY FS_CardinalityType
<1>2. IsFiniteSet(U \cup {x}) /\ Cardinality(U \cup {x}) <= Cardinality(U) + 1
  <2>1. /\ IsFiniteSet(U \cup {x})
        /\ Cardinality(U \cup {x}) =
             IF x \in U THEN Cardinality(U) ELSE Cardinality(U) + 1
    BY FS_AddElement
  <2>2. CASE x \in U BY <1>1, <2>1, <2>2
  <2>3. CASE x \notin U BY <1>1, <2>1, <2>3
  <2> QED BY <2>2, <2>3
<1>3. Cardinality(N \cup {n}) = Cardinality(N) + 1 BY FS_AddElement
<1>4. Cardinality(V) <= Cardinality(U \cup {x}) /\ Cardinality(V) \in Nat
      /\ Cardinality(U \cup {x}) \in Nat
  BY <1>2, FS_Subset, FS_CardinalityType
<1> QED BY <1>1, <1>2, <1>3, <1>4

LEMMA OneLess ==
  ASSUME NEW U, NEW N, IsFiniteSet(U), Cardinality(U) <= Cardinality(N), IsFiniteSet(N),
         NEW x \in U, NEW n \in N, NEW V \in SUBSET (U \ {x})
  PROVE  Cardinality(V) <= Cardinality(N \ {n})
<1>1. Cardinality(U) \in Nat /\ Cardinality(N) \in Nat BY FS_CardinalityType
<1>2. IsFiniteSet(U \ {x}) /\ Cardinality(U \ {x}) = Cardinality(U) - 1
  BY FS_RemoveElement
<1>3. Cardinality(N \ {n}) = Cardinality(N) - 1 BY FS_RemoveElement
<1>4. Cardinality(V) <= Cardinality(U \ {x}) /\ Cardinality(V) \in Nat
  BY <1>2, FS_Subset, FS_CardinalityType
<1> QED BY <1>1, <1>2, <1>3, <1>4

LEMMA NoUsers ==
  ASSUME NEW U, NEW N, IsFiniteSet(U), Cardinality(U) <= Cardinality(N), N = {}
  PROVE  U = {}
<1>1. Cardinality(U) \in Nat /\ Cardinality(N) = 0 BY FS_CardinalityType, FS_EmptySet
<1>2. Cardinality(U) = 0 BY <1>1
<1> QED BY <1>2, FS_EmptySet

LEMMA UsersAndNums ==
  ASSUME ConnectionsAssumption, TypeOK, NEW i
  PROVE  IsFiniteSet(Users(i)) /\ IsFiniteSet(Nums(i))
<1>1. Users(i) \in SUBSET Apps BY DEF Users
<1>2. IsFiniteSet(Users(i)) BY <1>1, FS_Subset DEF ConnectionsAssumption
<1>3. PICK S : S = 1..created OBVIOUS
<1>4. Nums(i) \in SUBSET S BY <1>3 DEF Nums, TypeOK
<1>5. IsFiniteSet(S) BY <1>3, FS_Interval DEF TypeOK
<1>6. IsFiniteSet(Nums(i)) BY <1>4, <1>5, FS_Subset
<1> QED BY <1>2, <1>6

\* A young id has one context.
LEMMA YoungIsOne ==
  ASSUME ConnectionsAssumption, TypeOK, Contexts, NEW r \in ics, NEW q \in ics,
         r.id = q.id, Young(r.id)
  PROVE  r = q
<1>1. /\ r.num \in Nat /\ q.num \in Nat /\ r.num <= created /\ q.num <= created
      /\ created \in Nat /\ IdSpace \in Nat \ {0}
  BY DEF TypeOK, ConnectionsAssumption
<1>2. r.num % IdSpace = q.num % IdSpace BY DEF Contexts
<1>3. created - r.num < IdSpace /\ created - q.num < IdSpace BY DEF Young
<1>4. r.num - q.num < IdSpace /\ q.num - r.num < IdSpace BY <1>1, <1>3
<1>5. r.num = q.num BY <1>1, <1>2, <1>4, SameId
<1> QED BY <1>5 DEF Contexts

\* What FindIC finds is nothing, or the one context with the highest number.
LEMMA Found ==
  ASSUME TypeOK, Contexts, NEW i, FindIC(i) # {}
  PROVE  \E r \in ics : /\ FindIC(i) = {r} /\ r.id = i
                        /\ \A q \in ics : q.id = i => q.num <= r.num
<1>1. PICK r \in FindIC(i) : TRUE OBVIOUS
<1>2. r \in ics /\ r.id = i /\ \A q \in ics : q.id = i => q.num <= r.num
  BY <1>1 DEF FindIC
<1>3. ASSUME NEW q \in FindIC(i) PROVE q = r
  <2>1. q \in ics /\ q.num <= r.num /\ r.num <= q.num BY <1>2, <1>3 DEF FindIC
  <2>2. q.num \in Int /\ r.num \in Int BY <1>2, <2>1 DEF TypeOK
  <2> QED BY <1>2, <2>1, <2>2 DEF Contexts
<1> QED BY <1>1, <1>2, <1>3

\* Steps that change no context, and let no client use an id it did not use.
LEMMA SameContexts ==
  ASSUME ConnectionsAssumption, TypeOK, Contexts, ics' = ics, created' = created,
         \A i \in Nat : Users(i)' \subseteq Users(i), \A s \in Apps : GivenUp(s)'
  PROVE  Contexts'
<1>1. \A i : Nums(i)' = Nums(i) BY DEF Nums
<1>2. ASSUME NEW i \in Nat PROVE Cardinality(Users(i)') <= Cardinality(Nums(i)')
  <2>1. Users(i)' \in SUBSET Users(i) OBVIOUS
  <2>2. IsFiniteSet(Users(i)) /\ IsFiniteSet(Nums(i))
        /\ Cardinality(Users(i)) <= Cardinality(Nums(i))
    BY UsersAndNums DEF Contexts
  <2>3. Cardinality(Users(i)') <= Cardinality(Nums(i)) BY <2>1, <2>2, Fewer
  <2> QED BY <1>1, <2>3
<1>3. ASSUME NEW i \in Nat, Young(i)' PROVE Owned(i)'
  <2>1. Young(i) BY <1>3 DEF Young
  <2> QED BY <2>1 DEF Contexts, Owned
<1> QED BY <1>2, <1>3 DEF Contexts

LEMMA AppendTwo == ASSUME NEW m, NEW n PROVE Append(<<m>>, n) = <<m, n>> BY Reading

\* A client asks, dies or answers a SYNC.
LEMMA ClientContexts ==
  ASSUME ConnectionsAssumption, Inv, Contexts, NEW s \in Apps, ClientStep(s)
  PROVE  Contexts'
<1> USE DEF Inv
<1>1. CASE \E m \in MayAsk(s) : Ask(s, m)
  <2>1. PICK m \in MayAsk(s) : Ask(s, m) BY <1>1
  <2>2. /\ inbox[s] = <<>> /\ inbox' = [inbox EXCEPT ![s] = <<m>>]
        /\ held' = [held EXCEPT ![s] = IF m.op = "DESTROY_IC" THEN @ \ {m.icid}
                                       ELSE IF m.op = "CLOSE" THEN {} ELSE @]
        /\ ics' = ics /\ created' = created
    BY <2>1, Reading DEF Ask, server, TypeOK
  <2>3. inbox'[s] = <<m>> /\ Head(<<m>>) = m BY <2>2, Reading DEF TypeOK
  <2>4. m.op \in Uses => m.icid \in held[s]
    <3>1. \A op, i : Message(op, i).op = op /\ Message(op, i).icid = i BY DEF Message
    <3>2. \A op : Plain(op).op = op BY <3>1 DEF Plain
    <3> QED BY <3>1, <3>2 DEF MayAsk, Uses, Queries
  <2>5. \A i : Users(i)' \subseteq Users(i)
    <3>1. \A t \in Apps : t # s => inbox'[t] = inbox[t] /\ held'[t] = held[t]
      BY <2>2 DEF TypeOK
    <3>2. held'[s] \subseteq held[s] BY <2>2 DEF TypeOK
    <3>3. \A i : Names(s, i)' => i \in held[s] BY <2>3, <2>4 DEF Names, Icid
    <3>4. \A t \in Apps : \A i : t # s => (Names(t, i)' <=> Names(t, i))
      BY <3>1 DEF Names, Icid
    <3> QED BY <3>1, <3>2, <3>3, <3>4 DEF Users
  <2>6. \A t \in Apps : GivenUp(t)'
    <3>1. GivenUp(s)' BY <2>2, <2>3 DEF GivenUp, Icid, TypeOK
    <3>2. ASSUME NEW t \in Apps, t # s PROVE GivenUp(t)'
      <4>1. inbox'[t] = inbox[t] /\ held'[t] = held[t] BY <2>2, <3>2 DEF TypeOK
      <4> QED BY <4>1 DEF GivenUp, Icid, Contexts
    <3> QED BY <3>1, <3>2
  <2> QED BY <2>2, <2>5, <2>6, SameContexts
<1>2. CASE AnswerSync(s)
  <2>1. /\ inbox' = [inbox EXCEPT ![s] = Append(inbox[s], Sync)]
        /\ held' = held /\ ics' = ics /\ created' = created
    BY <1>2 DEF AnswerSync, server, clientSide, Sync
  <2>2. \/ inbox'[s] = <<Sync>> /\ Head(<<Sync>>) = Sync
        \/ inbox[s] # <<>> /\ inbox'[s] # <<>> /\ Head(inbox'[s]) = Head(inbox[s])
    <3>1. inbox'[s] = Append(inbox[s], Sync) BY <2>1 DEF TypeOK
    <3>2. \/ inbox[s] = <<>>
          \/ \E m \in Requests : inbox[s] = <<m>>
      BY <1>2, NoSync DEF AnswerSync
    <3>3. CASE inbox[s] = <<>> BY <3>1, <3>3, Reading
    <3>4. ASSUME NEW m \in Requests, inbox[s] = <<m>>
          PROVE  inbox[s] # <<>> /\ inbox'[s] # <<>> /\ Head(inbox'[s]) = Head(inbox[s])
      <4>1. inbox'[s] = <<m, Sync>>
        <5>1. inbox'[s] = Append(<<m>>, Sync) BY <3>1, <3>4
        <5>2. Append(<<m>>, Sync) = <<m, Sync>> BY AppendTwo
        <5> QED BY <5>1, <5>2
      <4> QED BY <3>4, <4>1, Reading
    <3> QED BY <3>2, <3>3, <3>4
  <2>3. Sync.op \notin Uses /\ Sync.op # "DESTROY_IC" BY RequestsAre DEF Uses
  <2>4. \A t \in Apps : t # s => inbox'[t] = inbox[t] BY <2>1 DEF TypeOK
  <2>5. \A t \in Apps : \A i : Names(t, i)' => Names(t, i)
    BY <2>2, <2>3, <2>4 DEF Names, Icid
  <2>6. \A t \in Apps : GivenUp(t)'
    BY <2>1, <2>2, <2>3, <2>4 DEF GivenUp, Icid, Contexts
  <2>7. \A i : Users(i)' \subseteq Users(i) BY <2>1, <2>5 DEF Users
  <2> QED BY <2>1, <2>6, <2>7, SameContexts
<1>3. CASE Die(s)
  <2>1. /\ held' = [held EXCEPT ![s] = {}]
        /\ inbox' = inbox /\ ics' = ics /\ created' = created
    BY <1>3 DEF Die, server
  <2>2. \A t \in Apps : held'[t] \subseteq held[t] BY <2>1 DEF TypeOK
  <2>3. \A i : Users(i)' \subseteq Users(i) BY <2>1, <2>2 DEF Users, Names, Icid
  <2>4. \A t \in Apps : GivenUp(t)' BY <2>1, <2>2 DEF GivenUp, Icid, Contexts
  <2> QED BY <2>1, <2>3, <2>4, SameContexts
<1> QED BY <1>1, <1>2, <1>3 DEF ClientStep

\* A message that was read names nothing any more.
LEMMA ReadNames ==
  ASSUME Inv, Contexts, NEW s \in Apps, inbox[s] # <<>>, Read(s),
         \A t \in Apps : t # s => held'[t] = held[t]
  PROVE  /\ \A i : ~Names(s, i)' /\ GivenUp(s)'
         /\ \A t \in Apps : \A i : t # s => (Names(t, i)' <=> Names(t, i))
         /\ \A t \in Apps : GivenUp(t)'
         /\ \A i : Users(i)' = {t \in Users(i) : t # s}
                                 \cup (IF i \in held'[s] THEN {s} ELSE {})
<1> USE DEF Inv
<1>1. inbox'[s] = Tail(inbox[s]) /\ \A t \in Apps : t # s => inbox'[t] = inbox[t]
  BY DEF Read, TypeOK
<1>2. Tail(inbox[s]) = <<>> \/ Tail(inbox[s]) = <<Sync>>
  <2>1. CASE inbox[s] = <<Sync>> BY <2>1, Reading
  <2>2. CASE inbox[s] # <<Sync>>
    <3>1. PICK m : inbox[s] = <<m>> \/ inbox[s] = <<m, Sync>> BY <2>2 DEF Orderly
    <3>2. CASE inbox[s] = <<m>> BY <3>2, Reading
    <3>3. CASE inbox[s] = <<m, Sync>> BY <3>3, Reading
    <3> QED BY <3>1, <3>2, <3>3
  <2> QED BY <2>1, <2>2
<1>3. Sync.op \notin Uses /\ Sync.op # "DESTROY_IC" /\ Head(<<Sync>>) = Sync
  BY RequestsAre, Reading DEF Uses
<1>4. \A i : ~Names(s, i)' /\ GivenUp(s)' BY <1>1, <1>2, <1>3 DEF Names, GivenUp
<1>5. \A t \in Apps : \A i : t # s => (Names(t, i)' <=> Names(t, i))
  BY <1>1 DEF Names, Icid
<1>6. \A t \in Apps : GivenUp(t)' BY <1>1, <1>4 DEF GivenUp, Icid, Contexts
<1>7. ASSUME NEW i
      PROVE  Users(i)' = {t \in Users(i) : t # s}
                           \cup (IF i \in held'[s] THEN {s} ELSE {})
  BY <1>4, <1>5 DEF Users
<1> QED BY <1>4, <1>5, <1>6, <1>7

\* What a client holds changes when it is told of a new context.
LEMMA SendHeld ==
  ASSUME TypeOK, NEW s \in Apps, NEW x, Send(s, x)
  PROVE  /\ \A t \in Apps : t # s => held'[t] = held[t]
         /\ \/ held'[s] = held[s]
            \/ x.op = "CREATE_IC" /\ held'[s] = held[s] \cup {x.icid}
BY DEF Send, Receive, clientSide, TypeOK

\* The messages that change no context.
LEMMA ReadContexts ==
  ASSUME ConnectionsAssumption, Inv, Contexts, NEW s \in Apps, inbox[s] # <<>>, Read(s),
         ics' = ics, created' = created, \A t \in Apps : held'[t] = held[t]
  PROVE  Contexts'
<1>1. \A i : Users(i)' \subseteq Users(i) BY ReadNames DEF Users
<1>2. \A t \in Apps : GivenUp(t)' BY ReadNames
<1> QED BY <1>1, <1>2, SameContexts DEF Inv

\* A context that is created is the only one that is young with its id.
LEMMA CreateContexts ==
  ASSUME ConnectionsAssumption, Inv, Contexts, NEW s \in Apps, CreateICMessageProc(s)
  PROVE  Contexts'
<1> USE DEF Inv
<1> DEFINE n == created + 1
           d == n % IdSpace
           rec == NewIC(s)
           x == Message("CREATE_IC", rec.id)
<1>1. n \in Nat /\ d \in Nat /\ n = created + 1 /\ created \in Nat /\ d = n % IdSpace
      /\ IdSpace \in Nat \ {0}
  BY DEF TypeOK, ConnectionsAssumption
<1>2. rec.id = d /\ rec.num = n /\ rec.client = s BY DEF NewIC
<1>3. x.icid = d BY DEF Message, NewIC
<1>4. /\ inbox[s] # <<>> /\ Read(s) /\ s \in accepting /\ SendMessage(ClientOf(s).id, x)
      /\ ics' = ics \cup {rec} /\ created' = n
  BY DEF CreateICMessageProc, ReadXIMMessage, Reads, Passes
<1> HIDE DEF n, d, rec, x
<1>5. Send(s, x) BY <1>4, ItsClient
<1>6. \A i : Users(i)' \subseteq Users(i) \cup (IF i = d THEN {s} ELSE {})
  <2>1. /\ \A t \in Apps : t # s => held'[t] = held[t]
        /\ held'[s] \subseteq held[s] \cup {d}
    BY <1>3, <1>5, SendHeld
  <2>2. \A i : Users(i)' = {t \in Users(i) : t # s}
                             \cup (IF i \in held'[s] THEN {s} ELSE {})
    BY <1>4, <2>1, ReadNames
  <2>3. \A i : i \in held[s] => s \in Users(i) BY DEF Users
  <2> QED BY <2>1, <2>2, <2>3
<1>7. \A t \in Apps : GivenUp(t)' BY <1>4, <1>5, SendHeld, ReadNames
<1>8. \A r \in ics : r.num \in Nat /\ r.num < n /\ r.num # n
  BY <1>1 DEF TypeOK
<1>9. /\ \A r \in ics' : r.id = r.num % IdSpace
      /\ \A r, q \in ics' : r.num = q.num => r = q
  BY <1>1, <1>2, <1>4, <1>8 DEF Contexts
<1>10. ASSUME NEW i PROVE Nums(i)' = IF i = d THEN Nums(i) \cup {n} ELSE Nums(i)
  BY <1>2, <1>4 DEF Nums
<1>11. ASSUME NEW i \in Nat PROVE Cardinality(Users(i)') <= Cardinality(Nums(i)')
  <2>1. IsFiniteSet(Users(i)) /\ IsFiniteSet(Nums(i))
        /\ Cardinality(Users(i)) <= Cardinality(Nums(i))
    BY UsersAndNums DEF Contexts
  <2>2. CASE i # d
    <3>1. Users(i)' \in SUBSET Users(i) BY <1>6, <2>2
    <3>2. Cardinality(Users(i)') <= Cardinality(Nums(i)) BY <2>1, <3>1, Fewer
    <3> QED BY <1>10, <2>2, <3>2
  <2>3. CASE i = d
    <3>1. Users(i)' \in SUBSET (Users(i) \cup {s}) BY <1>6, <2>3
    <3>2. n \notin Nums(i) BY <1>8 DEF Nums
    <3>3. Cardinality(Users(i)') <= Cardinality(Nums(i) \cup {n})
      <4> DEFINE U == Users(i)
                 N == Nums(i)
                 V == Users(i)'
      <4>2. /\ IsFiniteSet(U) /\ IsFiniteSet(N) /\ Cardinality(U) <= Cardinality(N)
            /\ V \in SUBSET (U \cup {s}) /\ n \notin N /\ s \in Apps
        BY <2>1, <3>1, <3>2
      <4> HIDE DEF U, N, V
      <4>3. Cardinality(V) <= Cardinality(N \cup {n}) BY <4>2, OneMore
      <4> QED BY <4>3 DEF U, N, V
    <3> QED BY <1>10, <2>3, <3>3
  <2> QED BY <2>2, <2>3
<1>12. ASSUME NEW i \in Nat, Young(i)' PROVE Owned(i)'
  <2>1. CASE i # d
    <3>1. Young(i)
      <4> SUFFICES ASSUME NEW r \in ics, r.id = i PROVE created - r.num < IdSpace
        BY DEF Young
      <4>1. n - r.num < IdSpace BY <1>4, <1>12 DEF Young
      <4> QED BY <1>1, <1>8, <4>1
    <3>2. Owned(i) BY <3>1 DEF Contexts
    <3> QED BY <1>4, <1>6, <2>1, <3>2 DEF Owned
  <2>2. CASE i = d
    <3>1. Nums(i) = {}
      <4> SUFFICES ASSUME NEW r \in ics, r.id = i PROVE FALSE BY DEF Nums
      <4>1. n - r.num < IdSpace BY <1>4, <1>12 DEF Young
      <4>2. r.num % IdSpace = n % IdSpace BY <1>1, <2>2 DEF Contexts
      <4>3. IdSpace \in Nat \ {0} BY DEF ConnectionsAssumption
      <4>4. r.num - n < IdSpace BY <1>1, <1>8, <4>3
      <4>5. r.num = n BY <1>1, <1>8, <4>1, <4>2, <4>3, <4>4, SameId
      <4> QED BY <1>8, <4>5
    <3>2. Users(i) = {}
      <4>1. /\ IsFiniteSet(Users(i)) /\ IsFiniteSet(Nums(i))
            /\ Cardinality(Users(i)) <= Cardinality(Nums(i))
        BY UsersAndNums DEF Contexts
      <4> QED BY <3>1, <4>1, NoUsers
    <3>3. Users(i)' \subseteq {s} BY <1>6, <2>2, <3>2
    <3> QED BY <1>2, <1>4, <2>2, <3>3 DEF Owned
  <2> QED BY <2>1, <2>2
<1> QED BY <1>7, <1>9, <1>11, <1>12 DEF Contexts

\* The window is set where it was, unless ids came round.
LEMMA SetValuesContexts ==
  ASSUME ConnectionsAssumption, Inv, Contexts, NEW s \in Apps, SetICValuesMessageProc(s)
  PROVE  Contexts'
<1> USE DEF Inv
<1>0. PICK i : i = Icid(s) OBVIOUS
<1> DEFINE x == Message("SET_IC_VALUES", i)
<1>1. i = Icid(s) /\ x.op = "SET_IC_VALUES" BY <1>0 DEF Message
<1>2. /\ inbox[s] # <<>> /\ Head(inbox[s]).op = "SET_IC_VALUES" /\ Read(s)
      /\ s \in accepting /\ SendMessage(ClientOf(s).id, x) /\ created' = created
      /\ ics' = (ics \ FindIC(i)) \cup {[r EXCEPT !.client = s] : r \in FindIC(i)}
  BY <1>1 DEF SetICValuesMessageProc, ReadXIMMessage, Reads, Passes
<1> HIDE DEF x
<1>3. \A t \in Apps : held'[t] = held[t]
  <2>1. Send(s, x) BY <1>2, ItsClient
  <2> QED BY <1>1, <2>1, SendHeld
<1>4. CASE FindIC(i) = {}
  <2>1. ics' = ics BY <1>2, <1>4
  <2> QED BY <1>2, <1>3, <2>1, ReadContexts
<1>5. CASE FindIC(i) # {}
  <2>1. PICK r \in ics : FindIC(i) = {r} /\ r.id = i BY <1>5, Found
  <2> DEFINE q == [r EXCEPT !.client = s]
  <2>3. q.id = i /\ q.num = r.num /\ q.client = s
    <3>1. r \in [id : 0..(IdSpace - 1), num : 1..created, client : Apps] BY DEF TypeOK
    <3> QED BY <2>1, <3>1
  <2>4. ics' = (ics \ {r}) \cup {q} BY <1>2, <2>1
  <2> HIDE DEF q
  <2>5. /\ \A p \in ics' : p.id = p.num % IdSpace
        /\ \A p, o \in ics' : p.num = o.num => p = o
    BY <2>1, <2>3, <2>4 DEF Contexts
  <2>6. \A j : Nums(j)' = Nums(j) BY <2>1, <2>3, <2>4 DEF Nums
  <2>7. \A j : Users(j)' \subseteq Users(j) BY <1>2, <1>3, ReadNames DEF Users
  <2>8. ASSUME NEW j \in Nat PROVE Cardinality(Users(j)') <= Cardinality(Nums(j)')
    <3>1. IsFiniteSet(Users(j)) /\ IsFiniteSet(Nums(j))
          /\ Cardinality(Users(j)) <= Cardinality(Nums(j))
      BY UsersAndNums DEF Contexts
    <3>2. Users(j)' \in SUBSET Users(j) BY <2>7
    <3>3. Cardinality(Users(j)') <= Cardinality(Nums(j)) BY <3>1, <3>2, Fewer
    <3> QED BY <2>6, <3>3
  <2>9. ASSUME NEW j \in Nat, Young(j)' PROVE Owned(j)'
    <3>1. Young(j)
      <4> SUFFICES ASSUME NEW p \in ics, p.id = j PROVE created - p.num < IdSpace
        BY DEF Young
      <4>1. PICK o \in ics' : o.id = j /\ o.num = p.num BY <2>1, <2>3, <2>4
      <4>2. created' - o.num < IdSpace BY <2>9, <4>1 DEF Young
      <4> QED BY <1>2, <4>1, <4>2
    <3> SUFFICES ASSUME NEW t \in Users(j)'
                 PROVE  \E p \in ics' : p.id = j /\ p.client = t
      BY DEF Owned
    <3>2. PICK p \in ics : p.id = j /\ p.client = t BY <2>7, <3>1 DEF Contexts, Owned
    <3>3. CASE p # r BY <2>4, <3>2, <3>3
    <3>4. CASE p = r
      <4>1. s \in Users(i) BY <1>1, <1>2 DEF Users, Names, Uses
      <4>2. PICK o \in ics : o.id = i /\ o.client = s
        BY <2>1, <3>1, <3>2, <3>4, <4>1 DEF Contexts, Owned
      <4>3. o = r BY <2>1, <3>1, <3>2, <3>4, <4>2, YoungIsOne
      <4> QED BY <2>1, <2>3, <2>4, <3>2, <3>4, <4>2, <4>3
    <3> QED BY <3>3, <3>4
  <2>10. \A t \in Apps : GivenUp(t)' BY <1>2, <1>3, ReadNames
  <2> QED BY <2>5, <2>8, <2>9, <2>10 DEF Contexts
<1> QED BY <1>4, <1>5

\* The newest goes first; with the oldest of an id goes its last user.
LEMMA DestroyContexts ==
  ASSUME ConnectionsAssumption, Inv, Contexts, NEW s \in Apps, DestroyICMessageProc(s)
  PROVE  Contexts'
<1> USE DEF Inv
<1>0. PICK i : i = Icid(s) OBVIOUS
<1> DEFINE x == Message("DESTROY_IC", i)
<1>1. i = Icid(s) /\ x.op = "DESTROY_IC" BY <1>0 DEF Message
<1>2. /\ inbox[s] # <<>> /\ Head(inbox[s]).op = "DESTROY_IC" /\ Read(s)
      /\ s \in accepting /\ SendMessage(ClientOf(s).id, x) /\ created' = created
      /\ ics' = ics \ FindIC(i)
  BY <1>1 DEF DestroyICMessageProc, ReadXIMMessage, Reads, Passes
<1> HIDE DEF x
<1>3. \A t \in Apps : held'[t] = held[t]
  <2>1. Send(s, x) BY <1>2, ItsClient
  <2> QED BY <1>1, <2>1, SendHeld
<1>4. CASE FindIC(i) = {}
  <2>1. ics' = ics BY <1>2, <1>4
  <2> QED BY <1>2, <1>3, <2>1, ReadContexts
<1>5. CASE FindIC(i) # {}
  <2>1. PICK r \in ics : /\ FindIC(i) = {r} /\ r.id = i
                         /\ \A q \in ics : q.id = i => q.num <= r.num
    BY <1>5, Found
  <2>2. ics' = ics \ {r} BY <1>2, <2>1
  <2>3. /\ \A p \in ics' : p.id = p.num % IdSpace
        /\ \A p, o \in ics' : p.num = o.num => p = o
    BY <2>2 DEF Contexts
  <2>4. \A j : Nums(j)' = IF j = i THEN Nums(j) \ {r.num} ELSE Nums(j)
    <3>1. \A q \in ics : q.num = r.num => q = r BY DEF Contexts
    <3> QED BY <2>1, <2>2, <3>1 DEF Nums
  <2>5. s \in Users(i) /\ i \notin held[s]
    BY <1>1, <1>2 DEF Users, Names, Uses, Contexts, GivenUp
  <2>6. \A j : Users(j)' \subseteq Users(j) BY <1>2, <1>3, ReadNames DEF Users
  <2>7. Users(i)' \subseteq Users(i) \ {s}
    <3>1. Users(i)' = {t \in Users(i) : t # s}
                        \cup (IF i \in held'[s] THEN {s} ELSE {})
      BY <1>2, <1>3, ReadNames
    <3>2. i \notin held'[s] BY <1>3, <2>5
    <3> QED BY <3>1, <3>2
  <2>8. ASSUME NEW j \in Nat PROVE Cardinality(Users(j)') <= Cardinality(Nums(j)')
    <3>1. IsFiniteSet(Users(j)) /\ IsFiniteSet(Nums(j))
          /\ Cardinality(Users(j)) <= Cardinality(Nums(j))
      BY UsersAndNums DEF Contexts
    <3>2. CASE j # i
      <4>1. Users(j)' \in SUBSET Users(j) BY <2>6
      <4>2. Cardinality(Users(j)') <= Cardinality(Nums(j)) BY <3>1, <4>1, Fewer
      <4> QED BY <2>4, <3>2, <4>2
    <3>3. CASE j = i
      <4>1. Users(j)' \in SUBSET (Users(j) \ {s}) BY <2>7, <3>3
      <4>2. s \in Users(j) /\ r.num \in Nums(j) BY <2>1, <2>5, <3>3 DEF Nums
      <4>3. Cardinality(Users(j)') <= Cardinality(Nums(j) \ {r.num})
        BY <3>1, <4>1, <4>2, OneLess
      <4> QED BY <2>4, <3>3, <4>3
    <3> QED BY <3>2, <3>3
  <2>9. ASSUME NEW j \in Nat, Young(j)' PROVE Owned(j)'
    <3>1. CASE j # i
      <4>1. \A q : q \in ics /\ q.id = j => q \in ics' BY <2>1, <2>2, <3>1
      <4>2. Young(j) BY <1>2, <2>9, <4>1 DEF Young
      <4> QED BY <2>6, <4>1, <4>2 DEF Contexts, Owned
    <3>2. CASE j = i
      <4>1. \A q \in ics : q.id = i => q = r
        <5>1. CASE Young(i) BY <2>1, <5>1, YoungIsOne
        <5>2. CASE ~Young(i)
          <6>1. PICK o \in ics : o.id = i /\ ~(created - o.num < IdSpace)
            BY <5>2 DEF Young
          <6>2. o = r BY <1>2, <2>2, <2>9, <3>2, <6>1 DEF Young
          <6>3. ASSUME NEW q \in ics, q.id = i PROVE q = r
            <7>1. q.num <= o.num BY <2>1, <6>2, <6>3
            <7>2. /\ q.num \in Int /\ o.num \in Int /\ created \in Int /\ IdSpace \in Int
              BY DEF TypeOK, ConnectionsAssumption
            <7>3. ~(created - q.num < IdSpace) BY <6>1, <7>1, <7>2
            <7> QED BY <1>2, <2>2, <2>9, <3>2, <6>3, <7>3 DEF Young
          <6> QED BY <6>3
        <5> QED BY <5>1, <5>2
      <4>2. Nums(i)' = {} BY <2>2, <4>1 DEF Nums
      <4>3. PICK U, N : U = Users(i) /\ N = Nums(i) OBVIOUS
      <4>4. /\ IsFiniteSet(U) /\ IsFiniteSet(N) /\ Cardinality(U) <= Cardinality(N)
        BY <3>2, <4>3, UsersAndNums DEF Contexts
      <4>5. N = {r.num} BY <2>1, <4>1, <4>3 DEF Nums
      <4>6. U \ {s} = {}
        <5>1. Cardinality(U \ {s}) <= Cardinality(N \ {r.num})
          BY <2>5, <4>3, <4>4, <4>5, OneLess
        <5>2. Cardinality(N \ {r.num}) = 0
          <6>1. N \ {r.num} = {} BY <4>5
          <6> QED BY <6>1, FS_EmptySet
        <5>3. IsFiniteSet(U \ {s}) BY <4>4, FS_RemoveElement
        <5>4. Cardinality(U \ {s}) \in Nat BY <5>3, FS_CardinalityType
        <5>5. Cardinality(U \ {s}) = 0 BY <5>1, <5>2, <5>4
        <5> QED BY <5>3, <5>5, FS_EmptySet
      <4>7. Users(i)' = {} BY <2>7, <4>3, <4>6
      <4> QED BY <3>2, <4>7 DEF Owned
    <3> QED BY <3>1, <3>2
  <2>10. \A t \in Apps : GivenUp(t)' BY <1>2, <1>3, ReadNames
  <2> QED BY <2>3, <2>8, <2>9, <2>10 DEF Contexts
<1> QED BY <1>4, <1>5

LEMMA InitContexts == ASSUME ConnectionsAssumption, Init PROVE Contexts
<1>1. /\ ics = {} /\ inbox = [s \in Apps |-> <<>>] /\ held = [s \in Apps |-> {}]
  BY DEF Init
<1>2. \A i : Users(i) = {} BY <1>1 DEF Users, Names
<1>3. \A i : Nums(i) = {} BY <1>1 DEF Nums
<1>4. Cardinality({}) <= Cardinality({}) BY FS_EmptySet
<1>5. \A i \in Nat : Cardinality(Users(i)) <= Cardinality(Nums(i)) BY <1>2, <1>3, <1>4
<1>6. \A i : Owned(i) BY <1>2 DEF Owned
<1>7. \A s \in Apps : GivenUp(s) BY <1>1 DEF GivenUp
<1> QED BY <1>1, <1>5, <1>6, <1>7 DEF Contexts

LEMMA EndContexts == ASSUME ConnectionsAssumption, End PROVE Contexts'
<1>1. /\ ics' = {} /\ inbox' = [s \in Apps |-> <<>>] /\ held' = [s \in Apps |-> {}]
  BY DEF End
<1>2. \A i : Users(i)' = {} BY <1>1 DEF Users, Names
<1>3. \A i : Nums(i)' = {} BY <1>1 DEF Nums
<1>4. Cardinality({}) <= Cardinality({}) BY FS_EmptySet
<1>5. \A i \in Nat : Cardinality(Users(i)') <= Cardinality(Nums(i)') BY <1>2, <1>3, <1>4
<1>6. \A i : Owned(i)' BY <1>2 DEF Owned
<1>7. \A s \in Apps : GivenUp(s)' BY <1>1 DEF GivenUp
<1> QED BY <1>1, <1>5, <1>6, <1>7 DEF Contexts

LEMMA HandleContexts ==
  ASSUME ConnectionsAssumption, Inv, Contexts, NEW s \in Apps, Handle(s) PROVE Contexts'
<1> USE DEF Inv
<1>1. ASSUME inbox[s] # <<>>, Read(s), NEW x, x.op # "CREATE_IC", Send(s, x),
             ics' = ics, created' = created
      PROVE  Contexts'
  <2>1. \A t \in Apps : held'[t] = held[t] BY <1>1, SendHeld
  <2> QED BY <1>1, <2>1, ReadContexts
<1>2. ASSUME NEW x, x.op # "CREATE_IC", ReadXIMMessage(s, x.op),
             SendMessage(ClientOf(s).id, x), ics' = ics, created' = created
      PROVE  Contexts'
  <2>1. inbox[s] # <<>> /\ Read(s) /\ s \in accepting
    BY <1>2 DEF ReadXIMMessage, Reads, Passes
  <2>2. Send(s, x) BY <1>2, <2>1, ItsClient
  <2> QED BY <1>1, <1>2, <2>1, <2>2
<1>3. ASSUME inbox[s] # <<>>, Read(s), UNCHANGED <<ics, created, clientSide>>
      PROVE  Contexts'
  <2>1. \A t \in Apps : held'[t] = held[t] BY <1>3 DEF clientSide
  <2> QED BY <1>3, <2>1, ReadContexts
<1>4. \A op : Plain(op).op = op /\ \A i : Message(op, i).op = op BY DEF Plain, Message
<1>5. CASE ReadXConnectMessage(s)
  BY <1>1, <1>4, <1>5 DEF ReadXConnectMessage, Reads
<1>6. CASE Drop(s) BY <1>3, <1>6 DEF Drop, server
<1>7. CASE SyncReplyMessageProc(s)
  BY <1>3, <1>7 DEF SyncReplyMessageProc, ReadXIMMessage, Reads
<1>8. CASE ConnectMessageProc(s) BY <1>2, <1>4, <1>8 DEF ConnectMessageProc
<1>9. CASE DisConnectMessageProc(s) BY <1>2, <1>4, <1>9 DEF DisConnectMessageProc
<1>10. ASSUME NEW op \in Queries, QueryMessageProc(s, op) PROVE Contexts'
  BY <1>2, <1>4, <1>10 DEF QueryMessageProc, Queries
<1>11. CASE GetICValuesMessageProc(s) BY <1>2, <1>4, <1>11 DEF GetICValuesMessageProc
<1> QED BY <1>5, <1>6, <1>7, <1>8, <1>9, <1>10, <1>11, CreateContexts, SetValuesContexts,
           DestroyContexts DEF Handle

LEMMA NextContexts ==
  ASSUME ConnectionsAssumption, Inv, Contexts, [Next]_vars PROVE Contexts'
<1>1. CASE UNCHANGED vars
  <2>1. UNCHANGED <<ics, created, inbox, held>> BY <1>1 DEF vars, server, clientSide
  <2>2. \A i \in Nat : Users(i)' \subseteq Users(i) BY <2>1 DEF Users, Names, Icid
  <2>3. \A s \in Apps : GivenUp(s)' BY <2>1 DEF Contexts, GivenUp, Icid
  <2> QED BY <2>1, <2>2, <2>3, SameContexts DEF Inv
<1> QED BY <1>1, ClientContexts, HandleContexts, EndContexts DEF Next

LEMMA ContextsInvariance == ASSUME ConnectionsAssumption PROVE Spec => [](Inv /\ Contexts)
<1>1. Init => Inv /\ Contexts BY InitInv, InitContexts
<1>2. Inv /\ Contexts /\ [Next]_vars => (Inv /\ Contexts)' BY NextInv, NextContexts
<1> QED BY <1>1, <1>2, PTL DEF Spec

LEMMA TheirOwners == ASSUME ConnectionsAssumption, Inv, Contexts PROVE ContextIsItsOwners
<1> SUFFICES ASSUME \A r \in ics : created - r.num < IdSpace,
                    NEW s \in Apps, NEW i \in held[s]
             PROVE  \E r \in FindIC(i) : r.client = s
  BY DEF ContextIsItsOwners
<1> USE DEF Inv
<1>1. i \in Nat /\ s \in Users(i) BY DEF TypeOK, Users
<1>2. Young(i) /\ Owned(i) BY <1>1 DEF Young, Contexts
<1>3. PICK r \in ics : r.id = i /\ r.client = s BY <1>1, <1>2 DEF Owned
<1>4. ASSUME NEW q \in ics, q.id = i PROVE q.num <= r.num
  <2>1. q = r BY <1>2, <1>3, <1>4, YoungIsOne
  <2>2. r.num \in Int BY DEF TypeOK
  <2> QED BY <2>1, <2>2
<1> QED BY <1>3, <1>4 DEF FindIC

-----------------------------------------------------------------------------
(* Theorems.                                                               *)

(***************************************************************************)
(* The tables of clients, contexts and messages keep their types: every id *)
(* of a context is below IdSpace, every id of a client at most connect_id. *)
(***************************************************************************)
THEOREM TypeCorrect == ASSUME ConnectionsAssumption PROVE Spec => []TypeOK
<1>1. Inv => TypeOK BY DEF Inv
<1> QED BY <1>1, Invariance, PTL

(***************************************************************************)
(* _Xi18nNewClient, _Xi18nDeleteClient and Xi18nXDisconnect keep one       *)
(* record for a window, and one window for an id, also as records of       *)
(* clients that left are used again.                                       *)
(***************************************************************************)
THEOREM RecordsAreOne == ASSUME ConnectionsAssumption PROVE Spec => []OneRecordEach
<1>1. Inv => OneRecordEach BY DEF Inv, Tables
<1> QED BY <1>1, Invariance, PTL

(***************************************************************************)
(* No client is read in the byte order of the one that had its record.     *)
(***************************************************************************)
THEOREM OrderIsKept == ASSUME ConnectionsAssumption PROVE Spec => []ReadInItsOrder
<1>1. Inv => ReadInItsOrder BY DEF Inv, Tables
<1> QED BY <1>1, Invariance, PTL

(***************************************************************************)
(* However clients leave and come back, the server sends nothing to a      *)
(* window that is gone unless a client died.                               *)
(***************************************************************************)
THEOREM TheLivingBreakNothing ==
  ASSUME ConnectionsAssumption PROVE Spec => []OnlyTheDeadBreakIt
<1>1. Inv => OnlyTheDeadBreakIt BY DEF Inv
<1> QED BY <1>1, Invariance, PTL

(***************************************************************************)
(* A client that waits for an answer has its request before the server,    *)
(* and the filters let it through.                                         *)
(***************************************************************************)
THEOREM RequestsAreRead == ASSUME ConnectionsAssumption PROVE Spec => []NoOneWaitsInVain
<1>1. Inv => NoOneWaitsInVain BY NoneInVain
<1> QED BY <1>1, Invariance, PTL

(***************************************************************************)
(* What a client hears is the answer of the request it asked, which was    *)
(* the next of its messages, and nobody else hears it.                     *)
(***************************************************************************)
THEOREM AnswersFindTheAsker == ASSUME ConnectionsAssumption PROVE Spec => OnlyTheAskerHears
<1>1. Inv /\ [Next]_vars => [Heard]_vars BY StepHeard
<1> QED BY <1>1, Invariance, PTL DEF Spec, OnlyTheAskerHears, Heard

(***************************************************************************)
(* FindIC finds a client its own context by the id the client was told,    *)
(* however often ids came round, while none in ic_list is as old as the    *)
(* ids are many.                                                           *)
(***************************************************************************)
THEOREM ContextsAreTheirOwners ==
  ASSUME ConnectionsAssumption PROVE Spec => []ContextIsItsOwners
<1>1. Inv /\ Contexts => ContextIsItsOwners BY TheirOwners
<1> QED BY <1>1, ContextsInvariance, PTL

-----------------------------------------------------------------------------
(* The registration.  The invariant says what each stage of a start has    *)
(* made sure of, as long as no two instances were starting at the same     *)
(* time.                                                                   *)

\* Who owns the selection has taken it, and has not been refused.
OwnerIsThere ==
  owner # None => pc[owner] \in {"publishing", "confirming", "up"}

OneStarts == \A i, j \in Registering!InStart : i = j

\* What an instance has seen of the property is true still.
FoundIsListed ==
  \A i \in Instances :
    /\ pc[i] \in {"off", "reading", "up", "refused", "ended"} => i \notin found
    /\ pc[i] = "checking" => i \in found /\ listed = 1
    /\ pc[i] \in {"taking", "publishing"} => (i \in found <=> listed = 1)

\* No server is up beside one that takes the selection.
TakesAlone ==
  \A i \in Instances :
    /\ pc[i] = "taking" => owner = None
    /\ pc[i] = "publishing" => owner = i
    /\ pc[i] = "confirming" => owner = i /\ listed = 1
    /\ pc[i] = "up" => owner = i /\ listed = 1

\* The inductive invariant of the registration.
Registered ==
  /\ Registering!TypeOK
  /\ OwnerIsThere
  /\ ~raced => listed \in {0, 1} /\ OneStarts /\ FoundIsListed /\ TakesAlone

NoneIsNoInstance == None \notin Instances

LEMMA RegistrationInit == ASSUME NoneIsNoInstance, Registering!Init PROVE Registered
BY DEF NoneIsNoInstance, Registering!Init, Registered, Registering!TypeOK, OwnerIsThere,
  OneStarts, FoundIsListed, TakesAlone, Registering!InStart, Registering!Starting

LEMMA StartInv ==
  ASSUME NoneIsNoInstance, Registered, NEW i \in Instances, Registering!Start(i)
  PROVE Registered'
BY DEF NoneIsNoInstance, Registering!Start, Registering!Go, Registered,
  Registering!TypeOK, OwnerIsThere, OneStarts, FoundIsListed, TakesAlone,
  Registering!InStart, Registering!Starting

LEMMA ReadServersInv ==
  ASSUME NoneIsNoInstance, Registered, NEW i \in Instances, Registering!ReadServers(i)
  PROVE Registered'
<1> USE DEF NoneIsNoInstance, Registering!ReadServers, Registering!Go, Registered,
  Registering!TypeOK, Registering!InStart, Registering!Starting
<1>1. Registering!TypeOK' BY DEF Registering!TypeOK
<1>2. OwnerIsThere' BY DEF OwnerIsThere
<1>3. ASSUME ~raced
      PROVE  (listed \in {0, 1} /\ OneStarts /\ FoundIsListed /\ TakesAlone)'
  <2>1. listed' = listed /\ listed \in {0, 1} BY <1>3
  <2>2. OneStarts' BY <1>3 DEF OneStarts
  <2>3. FoundIsListed'
    <3>1. CASE listed = 0
      <4>1. pc'[i] = "taking" /\ found' = found BY <3>1
      <4>2. \A k \in Instances : k # i => pc'[k] = pc[k] /\ (k \in found' <=> k \in found) OBVIOUS
      <4> QED BY <1>3, <2>1, <3>1, <4>1, <4>2 DEF FoundIsListed
    <3>2. CASE listed = 1
      <4>1. pc'[i] = "checking" /\ i \in found' BY <3>2
      <4>2. \A k \in Instances : k # i => pc'[k] = pc[k] /\ (k \in found' <=> k \in found) OBVIOUS
      <4> QED BY <1>3, <2>1, <3>2, <4>1, <4>2 DEF FoundIsListed
    <3> QED BY <2>1, <3>1, <3>2
  <2>4. TakesAlone'
    <3>1. ASSUME listed = 0 PROVE owner = None
      <4> SUFFICES ASSUME owner # None PROVE FALSE OBVIOUS
      <4>1. owner \in Instances /\ pc[owner] \in {"publishing", "confirming", "up"}
        BY DEF OwnerIsThere
      <4>2. pc[owner] = "publishing" BY <1>3, <3>1, <4>1 DEF TakesAlone
      <4> QED BY <1>3, <4>1, <4>2 DEF OneStarts
    <3>2. \A k \in Instances : k # i => pc'[k] = pc[k] OBVIOUS
    <3>3. pc'[i] = IF listed > 0 THEN "checking" ELSE "taking" OBVIOUS
    <3> QED BY <1>3, <2>1, <3>1, <3>2, <3>3 DEF TakesAlone
  <2> QED BY <2>1, <2>2, <2>3, <2>4
<1> QED BY <1>1, <1>2, <1>3

LEMMA CheckOwnerInv ==
  ASSUME NoneIsNoInstance, Registered, NEW i \in Instances, Registering!CheckOwner(i)
  PROVE Registered'
BY DEF NoneIsNoInstance, Registering!CheckOwner, Registering!Go, Registering!Leave,
  Registered, Registering!TypeOK, OwnerIsThere, OneStarts, FoundIsListed, TakesAlone,
  Registering!InStart, Registering!Starting

LEMMA TakeSelectionInv ==
  ASSUME NoneIsNoInstance, Registered, NEW i \in Instances, Registering!TakeSelection(i)
  PROVE Registered'
BY DEF NoneIsNoInstance, Registering!TakeSelection, Registering!Go, Registered,
  Registering!TypeOK, OwnerIsThere, OneStarts, FoundIsListed, TakesAlone,
  Registering!InStart, Registering!Starting

LEMMA PublishInv ==
  ASSUME NoneIsNoInstance, Registered, NEW i \in Instances, Registering!Publish(i)
  PROVE Registered'
BY DEF NoneIsNoInstance, Registering!Publish, Registering!Go, Registered,
  Registering!TypeOK, OwnerIsThere, OneStarts, FoundIsListed, TakesAlone,
  Registering!InStart, Registering!Starting

LEMMA ConfirmInv ==
  ASSUME NoneIsNoInstance, Registered, NEW i \in Instances, Registering!Confirm(i)
  PROVE Registered'
BY DEF NoneIsNoInstance, Registering!Confirm, Registering!Go, Registering!Leave,
  Registered, Registering!TypeOK, OwnerIsThere, OneStarts, FoundIsListed, TakesAlone,
  Registering!InStart, Registering!Starting

LEMMA StopInv ==
  ASSUME NoneIsNoInstance, Registered, NEW i \in Instances, Registering!Stop(i)
  PROVE Registered'
BY DEF NoneIsNoInstance, Registering!Stop, Registering!Leave, Registered,
  Registering!TypeOK, OwnerIsThere, OneStarts, FoundIsListed, TakesAlone,
  Registering!InStart, Registering!Starting

LEMMA InvFound == ASSUME NoneIsNoInstance, Registered PROVE Registering!ServerIsFound
BY DEF NoneIsNoInstance, Registered, Registering!TypeOK, TakesAlone,
  Registering!ServerIsFound, Registering!Up

LEMMA RegistrationNext ==
  ASSUME NoneIsNoInstance, Registered, [Registering!Next]_(Registering!vars) PROVE Registered'
<1>1. ASSUME NEW i \in Instances, Registering!Start(i) PROVE Registered' BY <1>1, StartInv
<1>2. ASSUME NEW i \in Instances, Registering!Stop(i) PROVE Registered' BY <1>2, StopInv
<1>3. ASSUME NEW i \in Instances, Registering!SetXi18nSelectionOwner(i) PROVE Registered'
  BY <1>3, ReadServersInv, CheckOwnerInv, TakeSelectionInv, PublishInv, ConfirmInv
     DEF Registering!SetXi18nSelectionOwner
<1>4. CASE UNCHANGED Registering!vars
  BY <1>4 DEF Registering!vars, Registered, Registering!TypeOK, OwnerIsThere, OneStarts,
    FoundIsListed, TakesAlone, Registering!InStart, Registering!Starting
<1> QED BY <1>1, <1>2, <1>3, <1>4 DEF Registering!Next

(***************************************************************************)
(* Instances start and end as they like: every variable stays in its type. *)
(***************************************************************************)
THEOREM RegistrationTypeCorrect ==
  ASSUME NoneIsNoInstance PROVE Registering!Spec => []Registering!TypeOK
<1>1. Registering!Init => Registered BY RegistrationInit
<1>2. Registered /\ [Registering!Next]_(Registering!vars) => Registered' BY RegistrationNext
<1>3. Registered => Registering!TypeOK BY DEF Registered
<1> QED BY <1>1, <1>2, <1>3, PTL DEF Registering!Spec

(***************************************************************************)
(* However many instances there are and were, a server that has started    *)
(* while no other one was starting is the only one, has the selection, and *)
(* its atom is listed once (SetXi18nSelectionOwner).                       *)
(***************************************************************************)
THEOREM AServerIsFound ==
  ASSUME NoneIsNoInstance PROVE Registering!Spec => []Registering!ServerIsFound
<1>1. Registering!Init => Registered BY RegistrationInit
<1>2. Registered /\ [Registering!Next]_(Registering!vars) => Registered' BY RegistrationNext
<1>3. Registered => Registering!ServerIsFound BY InvFound
<1> QED BY <1>1, <1>2, <1>3, PTL DEF Registering!Spec

\* An instance is refused where the owner it sees is another one that is there.
Refusal ==
  \A i \in Instances : ~raced /\ pc[i] # "refused" /\ pc'[i] = "refused" =>
    \E j \in Registering!InStart \cup Registering!Up : j # i /\ owner = j

LEMMA StepRefusal ==
  ASSUME NoneIsNoInstance, Registered, [Registering!Next]_(Registering!vars) PROVE Refusal
<1> SUFFICES ASSUME NEW i \in Instances, ~raced, pc[i] # "refused", pc'[i] = "refused"
             PROVE  \E j \in Registering!InStart \cup Registering!Up : j # i /\ owner = j
  BY DEF Refusal
<1> USE DEF Registered, Registering!TypeOK
<1>1. Registering!CheckOwner(i) \/ Registering!Confirm(i)
  BY DEF Registering!Next, Registering!vars, Registering!Start,
    Registering!SetXi18nSelectionOwner, Registering!ReadServers, Registering!CheckOwner,
    Registering!TakeSelection, Registering!Publish, Registering!Confirm,
    Registering!Stop, Registering!Go
<1>2. ~Registering!Confirm(i) BY DEF Registering!Confirm, Registering!Go, TakesAlone
<1>3. owner # None /\ pc[i] = "checking"
  BY <1>1, <1>2 DEF Registering!CheckOwner, Registering!Go
<1>4. owner \in Instances /\ pc[owner] \in {"publishing", "confirming", "up"}
  BY <1>3 DEF OwnerIsThere
<1>5. owner # i BY <1>3, <1>4
<1> QED BY <1>4, <1>5 DEF Registering!InStart, Registering!Up, Registering!Starting

(***************************************************************************)
(* No instance is refused for a server that has ended, whatever that one   *)
(* left in XIM_SERVERS, unless two were starting at the same time.         *)
(***************************************************************************)
THEOREM RefusedForTheLiving ==
  ASSUME NoneIsNoInstance PROVE Registering!Spec => Registering!RefusedForALiveServer
<1>1. Registering!Init => Registered BY RegistrationInit
<1>2. Registered /\ [Registering!Next]_(Registering!vars) => Registered' BY RegistrationNext
<1>3. Registered /\ [Registering!Next]_(Registering!vars) => [Refusal]_(Registering!vars)
  BY StepRefusal
<1> QED BY <1>1, <1>2, <1>3, PTL DEF Registering!Spec, Registering!RefusedForALiveServer,
  Refusal

-----------------------------------------------------------------------------
(* The service.                                                            *)

(***************************************************************************)
(* Seen from the tables, the service is a server that serves and may end.  *)
(***************************************************************************)
THEOREM ServiceConnects == ServiceSpec => Spec
<1>1. ServiceInit => Init BY DEF ServiceInit
<1>2. [ServiceNext]_service => [Next]_vars
  <2>1. CASE Others BY <2>1 DEF Others
  <2>2. ASSUME NEW s \in Apps, ClientOfThis(s) \/ Serve(s) PROVE Next
    BY <2>2 DEF ClientOfThis, Serve, Next
  <2>3. CASE End BY <2>3 DEF Next
  <2>4. CASE UNCHANGED service BY <2>4 DEF service
  <2> QED BY <2>1, <2>2, <2>3, <2>4 DEF ServiceNext
<1> QED BY <1>1, <1>2, PTL DEF ServiceSpec, Spec

(***************************************************************************)
(* Seen from the X server, it is an instance that registers and may end.   *)
(***************************************************************************)
THEOREM ServiceRegisters == ServiceSpec => Registering!Spec
<1>1. ServiceInit => Registering!Init BY DEF ServiceInit
<1>2. [ServiceNext]_service => [Registering!Next]_registration
  <2>1. CASE Others BY <2>1 DEF Others, Registering!Next
  <2>2. ASSUME NEW s \in Apps, ClientOfThis(s) \/ Serve(s) PROVE UNCHANGED registration
    BY <2>2 DEF ClientOfThis, Serve
  <2>3. CASE Registering!Stop(This) BY <2>3, ServiceAssumption DEF Registering!Next
  <2>4. CASE UNCHANGED service BY <2>4 DEF service
  <2> QED BY <2>1, <2>2, <2>3, <2>4 DEF ServiceNext
<1>3. registration = Registering!vars BY DEF registration, Registering!vars
<1> QED BY <1>1, <1>2, <1>3, PTL DEF ServiceSpec, Registering!Spec, registration, Registering!vars

(***************************************************************************)
(* No client of an instance hears of another's answer, also as instances   *)
(* start and end beside it.                                                *)
(***************************************************************************)
THEOREM ServiceAnswersTheAsker == ServiceSpec => OnlyTheAskerHears
BY ServiceConnects, AnswersFindTheAsker, ConnectionsAssumption, PTL

(***************************************************************************)
(* The contexts of the clients of an instance are told apart as those of a *)
(* server alone: an instance that ends leaves none to the next.            *)
(***************************************************************************)
THEOREM ServiceContextsAreTheirOwners == ServiceSpec => []ContextIsItsOwners
BY ServiceConnects, ContextsAreTheirOwners, ConnectionsAssumption, PTL

(***************************************************************************)
(* The server a client dials is the only one, unless two were starting at  *)
(* the same time.                                                          *)
(***************************************************************************)
THEOREM ServiceIsFound == ServiceSpec => []ServerIsFound
BY ServiceRegisters, AServerIsFound, ServiceAssumption, PTL DEF ServerIsFound, NoneIsNoInstance

(***************************************************************************)
(* In the service too an instance is refused only for one that is there,   *)
(* unless two were starting at the same time.                              *)
(***************************************************************************)
THEOREM ServiceRefusesForTheLiving == ServiceSpec => RefusedForALiveServer
BY ServiceRegisters, RefusedForTheLiving, ServiceAssumption, PTL
  DEF RefusedForALiveServer, NoneIsNoInstance
=============================================================================
