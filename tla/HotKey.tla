------------------------------- MODULE HotKey -------------------------------
(***************************************************************************)
(* The hot keys of main.c at a physical keyboard.  The keyboard reports a  *)
(* key going down or up; vnim is told of it only while a window that uses  *)
(* it has the keyboard.                                                    *)
(***************************************************************************)
EXTENDS FrontEnd, Sequences

CONSTANTS
  Keyboard,     \* the keys there are, a subset of Syms
  MaxPresses,   \* presses followed between two moments of an idle keyboard
  MaxElsewhere  \* events that may go to a window vnim does not serve

ASSUME KeyboardAssumption ==
  Keyboard \subseteq Syms /\ MaxPresses \in Nat /\ MaxElsewhere \in Nat

VARIABLES
  fe,         \* state of the front end
  held,       \* keys that are down
  presses,    \* keys pressed since the keyboard was last idle, in order
  switched,   \* times the engine was switched on or off since then
  elsewhere   \* events that went to another window so far

vars == <<fe, held, presses, switched, elsewhere>>

TypeOK ==
  /\ fe \in FrontEndStates
  /\ held \subseteq Keyboard
  /\ presses \in Seq(Keyboard) /\ Len(presses) <= MaxPresses
  /\ switched \in Nat
  /\ elsewhere \in 0..MaxElsewhere

Chords == {<<"Control_L", "Shift_L">>, <<"Alt_L", "z">>}

\* The event of key k as the X server describes it: its state has the
\* modifiers that were down before, and z with shift is another keysym.  Caps
\* Lock, which also makes z another keysym, is off.
EventOf(k, press) ==
  [press |-> press,
   sym   |-> IF k = "z" /\ "Shift_L" \in held THEN "letter" ELSE k,
   mods  |-> {"Control_L", "Alt_L"} \cap held # {}]

\* Fault: only a discarded word resets the engine.
AfterDiscardOnly(state, ev) ==
  {IF d.action = "DISCARD" THEN ResetLen(d.fe) ELSE d.fe : d \in XIMProcessKey(state, ev)}

\* The states after XIMProcessKey and what ProcessKey in xim.c makes of it: a
\* commit resets the engine.
After(state, ev) ==
  {IF d.action \in {"COMMIT_FORWARD", "DISCARD"} THEN ResetLen(d.fe) ELSE d.fe :
     d \in XIMProcessKey(state, ev)}

-----------------------------------------------------------------------------

Init ==
  /\ fe \in [trigger : {0}, enabled : BOOLEAN, len : {0}]   \* --silent or not
  /\ held = {} /\ presses = <<>> /\ switched = 0 /\ elsewhere = 0

KeyDown(k) ==
  /\ k \notin held
  /\ held' = held \cup {k}
  /\ presses' = IF held = {} THEN <<k>> ELSE Append(presses, k)
  /\ Len(presses') <= MaxPresses

KeyUp(k) ==
  /\ k \in held
  /\ held' = held \ {k}
  /\ UNCHANGED presses

Press(k) ==
  /\ KeyDown(k)
  /\ fe' \in After(fe, EventOf(k, TRUE))
  /\ switched' = IF held = {} THEN 0 ELSE switched
  /\ UNCHANGED elsewhere

Release(k) ==
  /\ KeyUp(k)
  /\ fe' \in After(fe, EventOf(k, FALSE))
  /\ switched' = IF fe'.enabled # fe.enabled THEN switched + 1 ELSE switched
  /\ UNCHANGED elsewhere

\* The X server repeats the key pressed last as a release and a press.
AutoRepeat(k) ==
  /\ held # {} /\ k \in held /\ k = presses[Len(presses)]
  /\ k \notin {"Control_L", "Shift_L", "Shift_R", "Alt_L"}
  /\ \E up \in After(fe, EventOf(k, FALSE)) : fe' \in After(up, EventOf(k, TRUE))
  /\ switched' = IF fe'.enabled # fe.enabled THEN switched + 1 ELSE switched
  /\ UNCHANGED <<held, presses, elsewhere>>

\* Another window, or a grab of the window manager, has the keyboard.
Elsewhere(k) ==
  /\ elsewhere < MaxElsewhere
  /\ elsewhere' = elsewhere + 1
  /\ \/ KeyDown(k) /\ switched' = IF held = {} THEN 0 ELSE switched
     \/ KeyUp(k) /\ UNCHANGED switched
  /\ UNCHANGED fe

Next ==
  \E k \in Keyboard : Press(k) \/ Release(k) \/ AutoRepeat(k) \/ Elsewhere(k)

Spec == Init /\ [][Next]_vars

-----------------------------------------------------------------------------

(***************************************************************************)
(* A chord pressed in the order of the code and let go, its last key       *)
(* perhaps repeating, switches the engine exactly once, whatever was typed *)
(* before; and a gesture that holds no chord switches nothing.  This as    *)
(* long as vnim sees every event of the keyboard.                          *)
(***************************************************************************)
ChordSwitchesOnce ==
  held = {} /\ elsewhere = 0 =>
    /\ presses \in Chords => switched = 1
    /\ (\A c \in Chords : ~\E i \in 1..(Len(presses) - 1) :
                             SubSeq(presses, i, i + 1) = c) => switched = 0

ChordIsDown == \E c \in Chords : c[1] \in held /\ c[2] \in held

(***************************************************************************)
(* The engine is switched only while both keys of a chord are down, again  *)
(* when vnim sees every event: a shortcut that begins like a chord, or     *)
(* letters released late, do not switch it.                                *)
(***************************************************************************)
SwitchNeedsChord ==
  [][ fe'.enabled # fe.enabled /\ elsewhere = 0 => ChordIsDown ]_vars

(***************************************************************************)
(* README.md line 38: "Uses Ctrl + Shift or Alt + Z to enable/disable      *)
(* engine", so nothing else does: both keys of a chord have been pressed   *)
(* since the keyboard was last idle, wherever the events went.             *)
(* ProcessHotKey keeps triggerNum while another window has the keyboard:   *)
(* after a Ctrl let go there, Shift pressed alone will do, or z after Alt. *)
(***************************************************************************)
ChordWasPressed == \E c \in Chords : \A k \in {c[1], c[2]} :
                     \E i \in DOMAIN presses : presses[i] = k

OnlyChordsSwitch == [][ fe'.enabled # fe.enabled => ChordWasPressed ]_vars

(***************************************************************************)
(* A disabled engine holds no word: the very event that switches it off    *)
(* also commits what was being composed.                                   *)
(***************************************************************************)
DisabledHoldsNoWord == ~fe.enabled => fe.len = 0
=============================================================================
