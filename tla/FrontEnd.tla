------------------------------ MODULE FrontEnd ------------------------------
(***************************************************************************)
(* What main.c does with one key event: the hot keys that switch the       *)
(* engine on and off, and the decision what becomes of the key.            *)
(*                                                                         *)
(* A key event is a record with                                            *)
(*   press  TRUE for KeyPress, FALSE for KeyRelease                        *)
(*   sym    the keysym, as far as the code tells keysyms apart             *)
(*   mods   whether ControlMask or Mod1Mask is set in its state            *)
(* and the state of the front end is a record with                         *)
(*   trigger  triggerNum, how much of a hot key has been seen              *)
(*   enabled  engineEnabled                                                *)
(*   len      preEditLength, the characters of the word being composed     *)
(***************************************************************************)
EXTENDS WordLength

\* "letter" is any key the engine processes but z; "other" any it does not.
Syms == {"Control_L", "Shift_L", "Shift_R", "Alt_L", "z", "letter",
         "BackSpace", "other"}

KeyEvents == [press : BOOLEAN, sym : Syms, mods : BOOLEAN]

TriggerNums == {0, 1, 2, 11, 12}

FrontEndStates == [trigger : TriggerNums, enabled : BOOLEAN, len : 0..MaxLen]

ResetLen(fe) == [fe EXCEPT !.len = 0]      \* EngineReset

-----------------------------------------------------------------------------
(* ProcessHotKey                                                           *)

Advances == << <<0, "Control_L", 1>>, <<1, "Shift_L", 2>>,
               <<0, "Alt_L", 11>>,    <<11, "z", 12>> >>

Toggles(fe, ev) == fe.trigger \in {2, 12} /\ ~ev.press

\* Fault: letting a key go does not start the hot key over.
AfterHotKeyKeepsTrigger(fe, ev) ==
  LET step == {i \in DOMAIN Advances : /\ ev.press
                                       /\ Advances[i][1] = fe.trigger
                                       /\ Advances[i][2] = ev.sym}
  IN  [trigger |-> IF step # {} THEN Advances[CHOOSE i \in step : TRUE][3]
                   ELSE IF ev.press THEN 0 ELSE fe.trigger,
       enabled |-> IF Toggles(fe, ev) THEN ~fe.enabled ELSE fe.enabled,
       len     |-> fe.len]

\* Fault: a key that does not belong to the hot key is passed over.
AfterHotKeyPassesOver(fe, ev) ==
  LET step == {i \in DOMAIN Advances : /\ ev.press
                                       /\ Advances[i][1] = fe.trigger
                                       /\ Advances[i][2] = ev.sym}
  IN  [trigger |-> IF step # {} THEN Advances[CHOOSE i \in step : TRUE][3]
                   ELSE IF ev.press THEN fe.trigger ELSE 0,
       enabled |-> IF Toggles(fe, ev) THEN ~fe.enabled ELSE fe.enabled,
       len     |-> fe.len]

AfterHotKey(fe, ev) ==
  LET step == {i \in DOMAIN Advances : /\ ev.press
                                       /\ Advances[i][1] = fe.trigger
                                       /\ Advances[i][2] = ev.sym}
  IN  [trigger |-> IF step = {} THEN 0 ELSE Advances[CHOOSE i \in step : TRUE][3],
       enabled |-> IF Toggles(fe, ev) THEN ~fe.enabled ELSE fe.enabled,
       len     |-> fe.len]

-----------------------------------------------------------------------------
(* XIMProcessKey.  The engine is its promise, module Composer: a letter is *)
(* taken and leaves the word one longer or as long as it was, or is        *)
(* refused by a full word.                                                 *)

Decision(fe, action) == [fe |-> fe, action |-> action]

\* The decisions XIMProcessKey may take, with the state it leaves.
XIMProcessKey(before, ev) ==
  LET fe == AfterHotKey(before, ev)
      shorter == [fe EXCEPT !.len = @ - 1]
  IN  IF ~fe.enabled \/ ev.mods
      THEN {Decision(fe, "COMMIT_FORWARD")}
      ELSE IF ~ev.press \/ ev.sym \in {"Shift_L", "Shift_R"}
      THEN {Decision(fe, "FORWARD")}
      ELSE IF ev.sym = "BackSpace" /\ fe.len > 0
      THEN {Decision(shorter, IF shorter.len > 0 THEN "DRAW" ELSE "DISCARD")}
      ELSE IF ev.sym \in {"z", "letter"}
      THEN {Decision([fe EXCEPT !.len = n], "DRAW") : n \in LenAfterLetter(fe.len)}
             \cup (IF fe.len = MaxLen THEN {Decision(fe, "COMMIT_FORWARD")} ELSE {})
      ELSE {Decision(fe, "COMMIT_FORWARD")}
=============================================================================
