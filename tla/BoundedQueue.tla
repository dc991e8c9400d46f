---------------------------- MODULE BoundedQueue ----------------------------
(***************************************************************************)
(* Queue as the server counts on it: keys come out in the order they went  *)
(* in, each once, and none that was there before Queue was emptied.        *)
(***************************************************************************)
EXTENDS KeyQueue

CONSTANTS Key, NoKey

VARIABLES queue, released

queueVars == <<queue, released>>

Init == queue = <<>> /\ released = NoKey

HoldBack(k) == queue' = Push(queue, k) /\ UNCHANGED released

Release ==
  /\ queue # <<>>
  /\ released' = Head(queue)
  /\ queue' = Tail(queue)

Forget == queue' = <<>> /\ UNCHANGED released

Next == (\E k \in Key : HoldBack(k)) \/ Release \/ Forget

Spec == Init /\ [][Next]_queueVars
=============================================================================
