------------------------------ MODULE Channel -------------------------------
(***************************************************************************)
(* What the dispatcher of messages counts on from the transport: the       *)
(* messages of a client arrive whole, once each, and in the order in which *)
(* they were sent.                                                         *)
(***************************************************************************)
EXTENDS Sequences

CONSTANT Message

VARIABLES inTransit, received

channelVars == <<inTransit, received>>

Init == inTransit = <<>> /\ received = <<>>

Send(m) == inTransit' = Append(inTransit, m) /\ UNCHANGED received

Deliver ==
  /\ inTransit # <<>>
  /\ received' = Append(received, Head(inTransit))
  /\ inTransit' = Tail(inTransit)

Next == (\E m \in Message : Send(m)) \/ Deliver

Spec == Init /\ [][Next]_channelVars
=============================================================================
