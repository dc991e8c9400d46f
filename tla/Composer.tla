------------------------------ MODULE Composer ------------------------------
(***************************************************************************)
(* What the front end of vnim counts on from the engine that composes a    *)
(* word, and all it can see of it through vi-engine.h: how many characters *)
(* the word shows, and whether a key was taken.                            *)
(*                                                                         *)
(*   - a letter is taken while there is room; it makes the word one longer *)
(*     or changes it in place, and the word is then never empty;           *)
(*   - a letter may be refused only by a full word, which then keeps its   *)
(*     length;                                                             *)
(*   - any other key is refused and changes nothing;                       *)
(*   - backspace takes one character away.                                 *)
(***************************************************************************)
EXTENDS WordLength

VARIABLES
  len,      \* characters shown
  event,    \* the last call: "letter", "other", "backspace" or "reset"
  taken     \* its return value, as a truth value

composerVars == <<len, event, taken>>

Init == len = 0 /\ event = "reset" /\ taken = FALSE

PressLetter ==
  /\ event' = "letter"
  /\ \/ taken' = TRUE /\ len' \in LenAfterLetter(len)
     \/ taken' = FALSE /\ len = MaxLen /\ len' = len

PressOther == event' = "other" /\ taken' = FALSE /\ len' = len

Backspace ==
  /\ event' = "backspace"
  /\ taken' = (len > 0)
  /\ len' = IF len > 0 THEN len - 1 ELSE 0

Reset == event' = "reset" /\ taken' = FALSE /\ len' = 0

Next == PressLetter \/ PressOther \/ Backspace \/ Reset

Spec == Init /\ [][Next]_composerVars
=============================================================================
