----------------------------- MODULE RingQueue ------------------------------
(***************************************************************************)
(* Queue of xim.c as the ring it is: an array and the indices of its first *)
(* key and of the slot behind its last, which go round.  Nothing says how  *)
(* many keys there are: the indices are equal both when there is none and  *)
(* when all slots have been filled.  A slot keeps its key when the key has *)
(* been taken out, and when the indices are set back to the first slot.    *)
(***************************************************************************)
EXTENDS Integers, Sequences

CONSTANTS
  MaxBuffer,    \* MAX_BUFFER, 100 in the code
  Key,          \* key events
  NoKey         \* what a static array holds at first

ASSUME RingAssumption == MaxBuffer \in Nat \ {0}

VARIABLES
  slots,                  \* Queue
  FirstIndex, LastIndex,
  released                \* the event that the last successful Pop has returned

vars == <<slots, FirstIndex, LastIndex, released>>

Slots == 0..(MaxBuffer - 1)

Init ==
  /\ slots = [j \in Slots |-> NoKey]
  /\ FirstIndex = 0 /\ LastIndex = 0
  /\ released = NoKey

Push(k) ==
  /\ slots' = [slots EXCEPT ![LastIndex] = k]
  /\ LastIndex' = (LastIndex + 1) % MaxBuffer
  /\ UNCHANGED <<FirstIndex, released>>

\* Where the indices are equal Pop returns False, and changes nothing.
Pop ==
  /\ FirstIndex # LastIndex
  /\ released' = slots[FirstIndex]
  /\ FirstIndex' = (FirstIndex + 1) % MaxBuffer
  /\ UNCHANGED <<slots, LastIndex>>

\* Fault: only what is taken out starts at the first slot again.
ForgetHalf == FirstIndex' = 0 /\ UNCHANGED <<slots, LastIndex, released>>

\* A change of the focus, or XIM_RESET_IC.
Forget == FirstIndex' = 0 /\ LastIndex' = 0 /\ UNCHANGED <<slots, released>>

Next == (\E k \in Key : Push(k)) \/ Pop \/ Forget

Spec == Init /\ [][Next]_vars

-----------------------------------------------------------------------------
(* Properties.                                                             *)

\* Type invariant.
TypeOK ==
  /\ slots \in [Slots -> Key \cup {NoKey}]
  /\ FirstIndex \in Slots /\ LastIndex \in Slots
  /\ released \in Key \cup {NoKey}

\* The keys in the ring, from the first on.
Count == (LastIndex - FirstIndex) % MaxBuffer

Contents == [j \in 1..Count |-> slots[(FirstIndex + j - 1) % MaxBuffer]]

Bounded == INSTANCE BoundedQueue WITH queue <- Contents

(***************************************************************************)
(* The ring is the sequence that XimServer has in its place: wherever its  *)
(* indices stand and however often they went round, Pop returns the keys   *)
(* in the order of Push, each once and none from before it was emptied,    *)
(* and the Push that fills the last slot loses them all.                   *)
(***************************************************************************)
RingIsAQueue == Bounded!Spec
=============================================================================
