----------------------------- MODULE WordLength -----------------------------
(* The bound on a composed word, and what one more letter does to its length. *)
EXTENDS Integers

CONSTANT MaxLen          \* WORD_MAX_LENGTH, 10 in the code

ASSUME MaxLenPositive == MaxLen \in Nat \ {0}

\* Fault: a full word still takes a letter.
LenUnbounded(n) == {n, n + 1}

\* A letter the engine takes makes the word one longer, or changes it in place.
LenAfterLetter(n) == {n, n + 1} \cap 1..MaxLen
=============================================================================
