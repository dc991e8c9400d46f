------------------------------ MODULE KeyQueue ------------------------------
(***************************************************************************)
(* What xim.c has of Queue as long as it only pushes, pops and empties it: *)
(* a sequence of keys, which loses all of them when it gets too long.      *)
(***************************************************************************)
EXTENDS Integers, Sequences

CONSTANT MaxBuffer   \* MAX_BUFFER, 100 in the code: slots of Queue

\* Push: the slot after the last free one closes the ring on itself, and a
\* ring whose two ends meet is an empty one.
Push(q, k) == IF Len(q) = MaxBuffer - 1 THEN <<>> ELSE Append(q, k)
=============================================================================
