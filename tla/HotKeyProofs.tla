---------------------------- MODULE HotKeyProofs ----------------------------
(***************************************************************************)
(* Theorems about HotKey for every keyboard and every number of events.    *)
(* Inv ties triggerNum to the keys that are down: while vnim sees every    *)
(* event, a chord seen so far is a chord held so far.  Gesture, further    *)
(* down, ties it to the keys that were pressed since the keyboard was idle *)
(* and to how often they switched the engine.                              *)
(***************************************************************************)
EXTENDS HotKey, SequenceTheorems, TLAPS

\* What the trigger says of the keys held, when no event was missed.
TriggerIsHeld ==
  elsewhere = 0 =>
    /\ fe.trigger \in {1, 2} => "Control_L" \in held
    /\ fe.trigger = 2 => "Shift_L" \in held
    /\ fe.trigger \in {11, 12} => "Alt_L" \in held
    /\ fe.trigger = 12 => "z" \in held

Inv == TypeOK /\ TriggerIsHeld /\ DisabledHoldsNoWord

-----------------------------------------------------------------------------

\* A key that goes on with a hot key is the one the table names; any other
\* key, and every release, starts over.
LEMMA HotKeyStep ==
  ASSUME NEW s \in FrontEndStates, NEW ev \in KeyEvents
  PROVE  /\ AfterHotKey(s, ev) \in FrontEndStates
         /\ AfterHotKey(s, ev).len = s.len
         /\ AfterHotKey(s, ev).enabled = IF Toggles(s, ev) THEN ~s.enabled ELSE s.enabled
         /\ \/ AfterHotKey(s, ev).trigger = 0
            \/ /\ ev.press
               /\ \/ ev.sym = "Control_L" /\ AfterHotKey(s, ev).trigger = 1
                  \/ ev.sym = "Shift_L" /\ s.trigger = 1 /\ AfterHotKey(s, ev).trigger = 2
                  \/ ev.sym = "Alt_L" /\ AfterHotKey(s, ev).trigger = 11
                  \/ ev.sym = "z" /\ s.trigger = 11 /\ AfterHotKey(s, ev).trigger = 12
<1> DEFINE step == {i \in DOMAIN Advances : /\ ev.press
                                            /\ Advances[i][1] = s.trigger
                                            /\ Advances[i][2] = ev.sym}
           t == IF step = {} THEN 0 ELSE Advances[CHOOSE i \in step : TRUE][3]
           e == IF Toggles(s, ev) THEN ~s.enabled ELSE s.enabled
<1>1. AfterHotKey(s, ev) = [trigger |-> t, enabled |-> e, len |-> s.len]
  BY DEF AfterHotKey
<1>2. s.enabled \in BOOLEAN /\ s.trigger \in TriggerNums /\ s.len \in 0..MaxLen
  BY DEF FrontEndStates
<1>3. e \in BOOLEAN
  BY <1>2
<1>4. \/ t = 0
      \/ /\ ev.press
         /\ \/ ev.sym = "Control_L" /\ t = 1
            \/ ev.sym = "Shift_L" /\ s.trigger = 1 /\ t = 2
            \/ ev.sym = "Alt_L" /\ t = 11
            \/ ev.sym = "z" /\ s.trigger = 11 /\ t = 12
  <2>1. CASE step = {}
    BY <2>1
  <2>2. CASE step # {}
    <3>1. PICK i \in step : t = Advances[i][3]
      BY <2>2
    <3> HIDE DEF t
    <3>2. /\ ev.press /\ Advances[i][1] = s.trigger /\ Advances[i][2] = ev.sym
          /\ i \in DOMAIN Advances
      OBVIOUS
    <3>3. i \in {1, 2, 3, 4}
      BY <3>2 DEF Advances
    <3> HIDE DEF step
    <3>4. CASE i \in {1, 2}
      BY <3>1, <3>2, <3>4 DEF Advances
    <3>5. CASE i \in {3, 4}
      BY <3>1, <3>2, <3>5 DEF Advances
    <3> QED
      BY <3>3, <3>4, <3>5
  <2> QED
    BY <2>1, <2>2
<1> HIDE DEF t, e, step
<1>5. t \in TriggerNums
  BY <1>4 DEF TriggerNums
<1> QED
  BY <1>1, <1>2, <1>3, <1>4, <1>5 DEF e, FrontEndStates

\* A decision leaves trigger and switch as ProcessHotKey set them, and a word
\* only in an enabled engine.
LEMMA AfterEvent ==
  ASSUME NEW s \in FrontEndStates, NEW ev \in KeyEvents, NEW u \in After(s, ev),
         ~s.enabled => s.len = 0
  PROVE  /\ u \in FrontEndStates
         /\ u.trigger = AfterHotKey(s, ev).trigger
         /\ u.enabled = AfterHotKey(s, ev).enabled
         /\ ~u.enabled => u.len = 0
<1> DEFINE h == AfterHotKey(s, ev)
<1>1. h \in FrontEndStates
  BY HotKeyStep
<1>2. PICK d \in XIMProcessKey(s, ev) :
        u = IF d.action \in {"COMMIT_FORWARD", "DISCARD"} THEN ResetLen(d.fe) ELSE d.fe
  BY DEF After
<1> HIDE DEF h
<1>3. MaxLen \in Nat \ {0} /\ h.len \in 0..MaxLen
  BY <1>1, MaxLenPositive DEF FrontEndStates
<1>4. ASSUME NEW n \in 0..MaxLen
      PROVE  /\ [h EXCEPT !.len = n] \in FrontEndStates
             /\ [h EXCEPT !.len = n].trigger = h.trigger
             /\ [h EXCEPT !.len = n].enabled = h.enabled
  BY <1>1, <1>4 DEF FrontEndStates
<1>5. \/ d.fe = h /\ (h.enabled \/ d.action = "COMMIT_FORWARD")
      \/ h.enabled /\ \E n \in 0..MaxLen : d.fe = [h EXCEPT !.len = n]
  <2>1. CASE ~h.enabled \/ ev.mods
    BY <2>1 DEF XIMProcessKey, Decision, h
  <2>2. CASE h.enabled /\ h.len > 0 /\ d = Decision([h EXCEPT !.len = @ - 1], d.action)
    <3>1. h.len - 1 \in 0..MaxLen /\ d.fe = [h EXCEPT !.len = h.len - 1]
      BY <1>3, <2>2 DEF Decision
    <3> QED
      BY <2>2, <3>1
  <2>3. CASE h.enabled /\ \E n \in LenAfterLetter(h.len) : d = Decision([h EXCEPT !.len = n], "DRAW")
    <3>1. LenAfterLetter(h.len) \subseteq 0..MaxLen
      BY <1>3 DEF LenAfterLetter
    <3> QED
      BY <2>3, <3>1 DEF Decision
  <2>4. CASE h.enabled /\ \E a \in {"FORWARD", "COMMIT_FORWARD"} : d = Decision(h, a)
    BY <2>4 DEF Decision
  <2> QED
    BY <1>2, <2>1, <2>2, <2>3, <2>4 DEF XIMProcessKey, Decision, h
<1>6. /\ d.fe \in FrontEndStates /\ d.fe.trigger = h.trigger /\ d.fe.enabled = h.enabled
  BY <1>1, <1>4, <1>5
<1>7. /\ ResetLen(d.fe) \in FrontEndStates /\ ResetLen(d.fe).len = 0
      /\ ResetLen(d.fe).trigger = h.trigger /\ ResetLen(d.fe).enabled = h.enabled
  BY <1>3, <1>6 DEF ResetLen, FrontEndStates
<1> QED
  BY <1>2, <1>5, <1>6, <1>7 DEF h

\* The X server describes a key of the keyboard.
LEMMA EventType ==
  ASSUME NEW k \in Keyboard, NEW press \in BOOLEAN
  PROVE  EventOf(k, press) \in KeyEvents
<1>1. k \in Syms /\ "letter" \in Syms
  BY KeyboardAssumption DEF Syms
<1>2. ({"Control_L", "Alt_L"} \cap held # {}) \in BOOLEAN
  OBVIOUS
<1> HIDE DEF Syms
<1> QED
  BY <1>1, <1>2 DEF EventOf, KeyEvents

\* What one event of key k does to trigger and switch.
LEMMA KeyStep ==
  ASSUME NEW s \in FrontEndStates, ~s.enabled => s.len = 0,
         NEW k \in Keyboard, NEW press \in BOOLEAN, NEW u \in After(s, EventOf(k, press))
  PROVE  /\ u \in FrontEndStates
         /\ ~u.enabled => u.len = 0
         /\ ~press => u.trigger = 0
         /\ \/ u.trigger = 0
            \/ k = "Control_L" /\ u.trigger = 1
            \/ k = "Shift_L" /\ s.trigger = 1 /\ u.trigger = 2
            \/ k = "Alt_L" /\ u.trigger = 11
            \/ k = "z" /\ s.trigger = 11 /\ u.trigger = 12
         /\ u.enabled # s.enabled => s.trigger \in {2, 12} /\ ~press
<1> DEFINE ev == EventOf(k, press)
<1>1. ev \in KeyEvents /\ u \in After(s, ev)
  BY EventType
<1>2. /\ ev.sym = IF k = "z" /\ "Shift_L" \in held THEN "letter" ELSE k
      /\ ev.press <=> press
  BY DEF EventOf
<1> HIDE DEF ev
<1>3. /\ u \in FrontEndStates /\ u.trigger = AfterHotKey(s, ev).trigger
      /\ u.enabled = AfterHotKey(s, ev).enabled /\ (~u.enabled => u.len = 0)
  BY <1>1, AfterEvent
<1>4. ev.sym \in {"Control_L", "Shift_L", "Alt_L", "z"} => ev.sym = k
  BY <1>2
<1>5. \/ u.trigger = 0
      \/ /\ ev.press
         /\ \/ ev.sym = "Control_L" /\ u.trigger = 1
            \/ ev.sym = "Shift_L" /\ s.trigger = 1 /\ u.trigger = 2
            \/ ev.sym = "Alt_L" /\ u.trigger = 11
            \/ ev.sym = "z" /\ s.trigger = 11 /\ u.trigger = 12
  BY <1>1, <1>3, HotKeyStep
<1>6. u.enabled # s.enabled => Toggles(s, ev)
  BY <1>1, <1>3, HotKeyStep
<1>7. Toggles(s, ev) => s.trigger \in {2, 12} /\ ~press
  BY <1>2 DEF Toggles
<1> QED
  BY <1>2, <1>3, <1>4, <1>5, <1>6, <1>7

\* A key going down is added to the presses, within their bound.
LEMMA PressesType ==
  ASSUME TypeOK, NEW k \in Keyboard, KeyDown(k)
  PROVE  presses' \in Seq(Keyboard) /\ Len(presses') <= MaxPresses /\ held' \subseteq Keyboard
BY DEF TypeOK, KeyDown

-----------------------------------------------------------------------------

\* The keyboard starts idle and the front end with no chord seen.
LEMMA InitInv == Init => Inv
BY MaxLenPositive, KeyboardAssumption
DEF Init, Inv, TypeOK, TriggerIsHeld, DisabledHoldsNoWord, FrontEndStates, TriggerNums

\* Every event keeps the trigger within the keys held.
LEMMA NextInv == Inv /\ [Next]_vars => Inv'
<1> SUFFICES ASSUME Inv, [Next]_vars PROVE Inv'
  OBVIOUS
<1>0. fe \in FrontEndStates /\ (~fe.enabled => fe.len = 0)
  BY DEF Inv, TypeOK, DisabledHoldsNoWord
<1>1. ASSUME NEW k \in Keyboard, Press(k) PROVE Inv'
  <2>1. fe' \in After(fe, EventOf(k, TRUE)) /\ held' = held \cup {k} /\ elsewhere' = elsewhere
    BY <1>1 DEF Press, KeyDown
  <2>2. /\ fe' \in FrontEndStates /\ (~fe'.enabled => fe'.len = 0)
        /\ \/ fe'.trigger = 0
           \/ k = "Control_L" /\ fe'.trigger = 1
           \/ k = "Shift_L" /\ fe.trigger = 1 /\ fe'.trigger = 2
           \/ k = "Alt_L" /\ fe'.trigger = 11
           \/ k = "z" /\ fe.trigger = 11 /\ fe'.trigger = 12
    BY <1>0, <2>1, KeyStep
  <2>3. TypeOK'
    BY <1>1, <2>2, PressesType DEF Inv, TypeOK, Press
  <2>4. TriggerIsHeld'
    BY <2>1, <2>2 DEF Inv, TriggerIsHeld
  <2> QED
    BY <2>2, <2>3, <2>4 DEF Inv, DisabledHoldsNoWord
<1>2. ASSUME NEW k \in Keyboard, Release(k) PROVE Inv'
  <2>1. fe' \in After(fe, EventOf(k, FALSE))
    BY <1>2 DEF Release
  <2>2. fe' \in FrontEndStates /\ (~fe'.enabled => fe'.len = 0) /\ fe'.trigger = 0
    BY <1>0, <2>1, KeyStep
  <2>3. TypeOK'
    BY <1>2, <2>2 DEF Inv, TypeOK, Release, KeyUp
  <2>4. TriggerIsHeld'
    BY <2>2 DEF TriggerIsHeld
  <2> QED
    BY <2>2, <2>3, <2>4 DEF Inv, DisabledHoldsNoWord
<1>3. ASSUME NEW k \in Keyboard, AutoRepeat(k) PROVE Inv'
  <2>1. PICK up \in After(fe, EventOf(k, FALSE)) : fe' \in After(up, EventOf(k, TRUE))
    BY <1>3 DEF AutoRepeat
  <2>2. up \in FrontEndStates /\ (~up.enabled => up.len = 0) /\ up.trigger = 0
    BY <1>0, KeyStep
  <2>3. k \notin {"Control_L", "Shift_L", "Alt_L"}
    BY <1>3 DEF AutoRepeat
  <2>4. fe' \in FrontEndStates /\ (~fe'.enabled => fe'.len = 0) /\ fe'.trigger = 0
    <3>1. /\ fe' \in FrontEndStates /\ (~fe'.enabled => fe'.len = 0)
          /\ \/ fe'.trigger = 0
             \/ k \in {"Control_L", "Shift_L", "Alt_L"}
             \/ up.trigger = 11
      BY <2>1, <2>2, KeyStep
    <3> QED
      BY <2>2, <2>3, <3>1
  <2>5. TypeOK'
    BY <1>3, <2>4 DEF Inv, TypeOK, AutoRepeat
  <2> QED
    BY <2>4, <2>5 DEF Inv, DisabledHoldsNoWord, TriggerIsHeld
<1>4. ASSUME NEW k \in Keyboard, Elsewhere(k) PROVE Inv'
  <2>1. elsewhere' \in 0..MaxElsewhere /\ elsewhere' # 0
    BY <1>4, KeyboardAssumption DEF Inv, TypeOK, Elsewhere
  <2>2. held' \subseteq Keyboard /\ presses' \in Seq(Keyboard) /\ Len(presses') <= MaxPresses
    BY <1>4, PressesType DEF Inv, TypeOK, Elsewhere, KeyUp
  <2>3. switched' \in Nat /\ fe' = fe
    BY <1>4 DEF Inv, TypeOK, Elsewhere
  <2> QED
    BY <2>1, <2>2, <2>3 DEF Inv, TypeOK, TriggerIsHeld, DisabledHoldsNoWord
<1>5. CASE UNCHANGED vars
  BY <1>5 DEF Inv, TypeOK, TriggerIsHeld, DisabledHoldsNoWord, vars
<1> QED
  BY <1>1, <1>2, <1>3, <1>4, <1>5 DEF Next

\* Inv is an invariant of the hot keys.
THEOREM SpecInv == Spec => []Inv
<1> QED
  BY InitInv, NextInv, PTL DEF Spec

\* The event that disables the engine also ends the word.
THEOREM DisabledIsEmpty == Spec => []DisabledHoldsNoWord
<1>1. Inv => DisabledHoldsNoWord
  BY DEF Inv
<1> QED
  BY <1>1, SpecInv, PTL

\* Nothing but a chord switches an engine that sees every event.
THEOREM OnlySeenChordsSwitch == Spec => SwitchNeedsChord
<1>1. Inv /\ [Next]_vars
        => [fe'.enabled # fe.enabled /\ elsewhere = 0 => ChordIsDown]_vars
  <2> SUFFICES ASSUME Inv, [Next]_vars, fe'.enabled # fe.enabled, elsewhere = 0
               PROVE  ChordIsDown
    OBVIOUS
  <2>0. fe \in FrontEndStates /\ (~fe.enabled => fe.len = 0)
    BY DEF Inv, TypeOK, DisabledHoldsNoWord
  <2>1. fe.trigger \in {2, 12} => ChordIsDown
    BY DEF Inv, TriggerIsHeld, ChordIsDown, Chords
  <2>2. ASSUME NEW k \in Keyboard, Press(k) \/ Release(k) PROVE fe.trigger \in {2, 12}
    BY <2>0, <2>2, KeyStep DEF Press, Release
  <2>3. ASSUME NEW k \in Keyboard, AutoRepeat(k) PROVE fe.trigger \in {2, 12}
    <3>1. PICK up \in After(fe, EventOf(k, FALSE)) : fe' \in After(up, EventOf(k, TRUE))
      BY <2>3 DEF AutoRepeat
    <3>2. /\ up \in FrontEndStates /\ up.trigger = 0 /\ (~up.enabled => up.len = 0)
          /\ up.enabled # fe.enabled => fe.trigger \in {2, 12}
      BY <2>0, KeyStep
    <3>3. fe'.enabled = up.enabled
      BY <3>1, <3>2, KeyStep
    <3> QED
      BY <3>2, <3>3
  <2>4. ASSUME NEW k \in Keyboard, Elsewhere(k) PROVE FALSE
    BY <2>4 DEF Elsewhere
  <2>5. CASE UNCHANGED vars
    BY <2>5 DEF vars
  <2> QED
    BY <2>1, <2>2, <2>3, <2>4, <2>5 DEF Next
<1> QED
  BY <1>1, SpecInv, PTL DEF Spec, SwitchNeedsChord

-----------------------------------------------------------------------------
(* Gestures: what was pressed since the keyboard was idle.  The trigger is *)
(* what the last presses make of it, and starts over with every release;   *)
(* a chord that was nothing else has switched the engine unless it still   *)
(* stands in the trigger.                                                  *)

HasChord(s) == \E i \in 1..(Len(s) - 1) : <<s[i], s[i + 1]>> \in Chords

\* The last two presses.
EndsIn(s, a, b) == Len(s) > 1 /\ s[Len(s) - 1] = a /\ s[Len(s)] = b

\* One key is all that was pressed, and nothing was let go.
FirstKey ==
  Len(presses) = 1 /\ held # {} =>
    /\ held = {presses[1]} /\ switched = 0
    /\ presses[1] = "Control_L" => fe.trigger = 1
    /\ presses[1] = "Alt_L" => fe.trigger = 11

Gesture ==
  elsewhere = 0 =>
    /\ held # {} => Len(presses) > 0
    /\ fe.trigger = 1 => presses[Len(presses)] = "Control_L"
    /\ fe.trigger = 2 => EndsIn(presses, "Control_L", "Shift_L")
    /\ fe.trigger = 11 => presses[Len(presses)] = "Alt_L"
    /\ fe.trigger = 12 => EndsIn(presses, "Alt_L", "z")
    /\ FirstKey
    /\ switched # 0 => HasChord(presses)
    /\ presses \in Chords => switched = IF fe.trigger \in {2, 12} THEN 0 ELSE 1

\* The first key of a chord starts a hot key, and the second one completes it.
LEMMA ChordAdvances ==
  ASSUME NEW s \in FrontEndStates, ~s.enabled => s.len = 0,
         NEW k \in Keyboard, NEW u \in After(s, EventOf(k, TRUE))
  PROVE  /\ k = "Control_L" /\ s.trigger = 0 => u.trigger = 1
         /\ k = "Shift_L" /\ s.trigger = 1 => u.trigger = 2
         /\ k = "Alt_L" /\ s.trigger = 0 => u.trigger = 11
         /\ k = "z" /\ "Shift_L" \notin held /\ s.trigger = 11 => u.trigger = 12
<1> DEFINE ev == EventOf(k, TRUE)
           step == {i \in DOMAIN Advances : /\ ev.press
                                            /\ Advances[i][1] = s.trigger
                                            /\ Advances[i][2] = ev.sym}
<1>1. ev \in KeyEvents /\ u \in After(s, ev)
  BY EventType
<1>2. ev.press /\ ev.sym = IF k = "z" /\ "Shift_L" \in held THEN "letter" ELSE k
  BY DEF EventOf
<1>3. u.trigger = IF step = {} THEN 0 ELSE Advances[CHOOSE i \in step : TRUE][3]
  BY <1>1, AfterEvent DEF AfterHotKey
<1> HIDE DEF ev
<1>4. ASSUME NEW j \in 1..4, Advances[j][1] = s.trigger, Advances[j][2] = ev.sym
      PROVE  u.trigger = Advances[j][3]
  <2>1. step = {j}
    BY <1>2, <1>4 DEF Advances
  <2> QED
    BY <1>3, <2>1
<1> QED
  BY <1>2, <1>4 DEF Advances

\* A release switches the engine when a chord is complete, and then only.
LEMMA ReleaseSwitches ==
  ASSUME NEW s \in FrontEndStates, ~s.enabled => s.len = 0,
         NEW k \in Keyboard, NEW u \in After(s, EventOf(k, FALSE))
  PROVE  /\ u \in FrontEndStates /\ (~u.enabled => u.len = 0) /\ u.trigger = 0
         /\ (u.enabled # s.enabled) = (s.trigger \in {2, 12})
<1> DEFINE ev == EventOf(k, FALSE)
<1>1. ev \in KeyEvents /\ u \in After(s, ev) /\ ev.press = FALSE
  BY EventType DEF EventOf
<1>2. u \in FrontEndStates /\ (~u.enabled => u.len = 0) /\ u.trigger = 0
  BY KeyStep
<1> HIDE DEF ev
<1>3. u.enabled = IF Toggles(s, ev) THEN ~s.enabled ELSE s.enabled
  BY <1>1, AfterEvent, HotKeyStep
<1>4. s.enabled \in BOOLEAN
  BY DEF FrontEndStates
<1>5. CASE s.trigger \in {2, 12}
  <2>1. Toggles(s, ev)
    BY <1>1, <1>5 DEF Toggles
  <2> QED
    BY <1>2, <1>3, <1>4, <1>5, <2>1
<1>6. CASE s.trigger \notin {2, 12}
  <2>1. ~Toggles(s, ev)
    BY <1>6 DEF Toggles
  <2> QED
    BY <1>2, <1>3, <1>4, <1>6, <2>1
<1> QED
  BY <1>5, <1>6

\* A chord among the presses stays there, and a last pair is among them.
LEMMA ChordsOfPresses ==
  ASSUME NEW s \in Seq(Keyboard), NEW k \in Keyboard
  PROVE  /\ HasChord(s) => HasChord(Append(s, k))
         /\ \A c \in Chords : EndsIn(s, c[1], c[2]) => HasChord(s)
         /\ Len(s) > 0 /\ Append(s, k) \in Chords => Append(s, k) = <<s[1], k>> /\ Len(s) = 1
         /\ Len(s) > 0 => EndsIn(Append(s, k), s[Len(s)], k)
         /\ Append(s, k)[Len(Append(s, k))] = k
<1>1. /\ Len(s) \in Nat /\ Append(s, k) \in Seq(Keyboard) /\ Len(Append(s, k)) = Len(s) + 1
      /\ Append(s, k)[Len(s) + 1] = k
      /\ \A i \in 1..Len(s) : Append(s, k)[i] = s[i]
  OBVIOUS
<1>2. HasChord(s) => HasChord(Append(s, k))
  <2> SUFFICES ASSUME NEW i \in 1..(Len(s) - 1), <<s[i], s[i + 1]>> \in Chords
               PROVE  \E j \in 1..(Len(Append(s, k)) - 1) :
                        <<Append(s, k)[j], Append(s, k)[j + 1]>> \in Chords
    BY DEF HasChord
  <2>1. /\ i \in 1..(Len(Append(s, k)) - 1)
        /\ Append(s, k)[i] = s[i] /\ Append(s, k)[i + 1] = s[i + 1]
    BY <1>1
  <2> QED
    BY <2>1
<1>3. ASSUME NEW c \in Chords, EndsIn(s, c[1], c[2]) PROVE HasChord(s)
  <2>1. c = <<c[1], c[2]>>
    BY DEF Chords
  <2>2. Len(s) - 1 \in 1..(Len(s) - 1) /\ (Len(s) - 1) + 1 = Len(s)
    BY <1>1, <1>3 DEF EndsIn
  <2>3. <<s[Len(s) - 1], s[(Len(s) - 1) + 1]>> \in Chords
    BY <1>3, <2>1, <2>2 DEF EndsIn
  <2> QED
    BY <2>2, <2>3 DEF HasChord
<1>4. Len(s) > 0 /\ Append(s, k) \in Chords => Append(s, k) = <<s[1], k>> /\ Len(s) = 1
  <2> SUFFICES ASSUME Len(s) > 0, Append(s, k) \in Chords
               PROVE  Append(s, k) = <<s[1], k>> /\ Len(s) = 1
    OBVIOUS
  <2>1. PICK c \in Chords : c = Append(s, k)
    OBVIOUS
  <2>2. Len(c) = 2 /\ c = <<c[1], c[2]>>
    <3>1. CASE c = <<"Control_L", "Shift_L">>
      BY <3>1
    <3>2. CASE c = <<"Alt_L", "z">>
      BY <3>2
    <3> QED
      BY <3>1, <3>2 DEF Chords
  <2>3. Len(s) = 1
    <3>1. PICK n \in Nat : n = Len(s)
      BY <1>1
    <3>2. n + 1 = 2
      BY <1>1, <2>1, <2>2, <3>1
    <3>3. n = 1
      BY <3>2
    <3> QED
      BY <3>1, <3>3
  <2>4. c[1] = s[1] /\ c[2] = k
    BY <1>1, <2>1, <2>3
  <2> QED
    BY <2>1, <2>2, <2>3, <2>4
<1>5. Len(s) > 0 => EndsIn(Append(s, k), s[Len(s)], k)
  BY <1>1 DEF EndsIn
<1> QED
  BY <1>1, <1>2, <1>3, <1>4, <1>5

\* Two presses, one after the other.
LEMMA TwoOf ==
  ASSUME NEW s \in Seq(Keyboard), NEW i \in 1..(Len(s) - 1)
  PROVE  SubSeq(s, i, i + 1) = <<s[i], s[i + 1]>>
<1> DEFINE t == SubSeq(s, i, i + 1)
           v == <<s[i], s[i + 1]>>
<1>1. Len(s) \in Nat /\ i + 1 \in 1..Len(s) /\ i \in 1..Len(s) /\ i \in Int
  OBVIOUS
<1>2. t \in Seq(Keyboard) /\ Len(t) = 2
  BY <1>1
<1>3. t[1] = s[i] /\ t[2] = s[i + 1]
  BY <1>1
<1>4. v \in Seq(Keyboard) /\ Len(v) = 2 /\ v[1] = s[i] /\ v[2] = s[i + 1]
  BY <1>1
<1> HIDE DEF t, v
<1>5. \A j \in 1..Len(t) : t[j] = v[j]
  BY <1>2, <1>3, <1>4
<1> QED
  BY <1>2, <1>4, <1>5, SeqEqual DEF t, v

\* A key goes down.
LEMMA PressGesture ==
  ASSUME Inv, Gesture, NEW k \in Keyboard, Press(k) PROVE Gesture'
<1> SUFFICES ASSUME elsewhere = 0 PROVE Gesture'
  BY DEF Press, Gesture
<1>0. /\ fe \in FrontEndStates /\ (~fe.enabled => fe.len = 0)
      /\ presses \in Seq(Keyboard) /\ held \subseteq Keyboard
  BY DEF Inv, TypeOK, DisabledHoldsNoWord
<1>1. /\ fe' \in After(fe, EventOf(k, TRUE)) /\ held' = held \cup {k}
      /\ k \notin held /\ elsewhere' = elsewhere
      /\ presses' = IF held = {} THEN <<k>> ELSE Append(presses, k)
      /\ switched' = IF held = {} THEN 0 ELSE switched
  BY DEF Press, KeyDown
<1>2. \/ fe'.trigger = 0
      \/ k = "Control_L" /\ fe'.trigger = 1
      \/ k = "Shift_L" /\ fe.trigger = 1 /\ fe'.trigger = 2
      \/ k = "Alt_L" /\ fe'.trigger = 11
      \/ k = "z" /\ fe.trigger = 11 /\ fe'.trigger = 12
  BY <1>0, <1>1, KeyStep
<1>3. CASE held = {}
  <2>1. fe.trigger \notin {1, 2, 11, 12}
    BY <1>3 DEF Inv, TriggerIsHeld
  <2>2. fe.trigger = 0
    BY <1>0, <2>1 DEF FrontEndStates, TriggerNums
  <2>3. presses' = <<k>> /\ Len(presses') = 1 /\ presses'[1] = k /\ held' = {k} /\ switched' = 0
    BY <1>1, <1>3
  <2>4. FirstKey'
    BY <1>0, <1>1, <2>2, <2>3, ChordAdvances DEF FirstKey
  <2>5. presses' \notin Chords
    BY <2>3 DEF Chords
  <2> QED
    BY <1>2, <2>2, <2>3, <2>4, <2>5 DEF Gesture
<1>4. CASE held # {}
  <2>1. /\ Len(presses) > 0 /\ FirstKey /\ (switched # 0 => HasChord(presses))
        /\ fe.trigger = 1 => presses[Len(presses)] = "Control_L"
        /\ fe.trigger = 11 => presses[Len(presses)] = "Alt_L"
    BY <1>4 DEF Gesture
  <2>2. presses' = Append(presses, k) /\ switched' = switched /\ Len(presses') # 1
    BY <1>0, <1>1, <1>4, <2>1
  <2>3. /\ EndsIn(presses', presses[Len(presses)], k) /\ presses'[Len(presses')] = k
        /\ switched' # 0 => HasChord(presses')
        /\ presses' \in Chords => presses' = <<presses[1], k>> /\ Len(presses) = 1
    BY <1>0, <2>1, <2>2, ChordsOfPresses
  <2>4. ASSUME presses' \in Chords PROVE fe'.trigger \in {2, 12} /\ switched' = 0
    <3>1. /\ Len(presses) = 1 /\ held = {presses[1]} /\ switched = 0
          /\ presses' = <<presses[1], k>>
      BY <1>4, <2>1, <2>3, <2>4 DEF FirstKey
    <3>2. CASE presses[1] = "Control_L" /\ k = "Shift_L"
      BY <1>0, <1>1, <1>4, <2>1, <2>2, <3>1, <3>2, ChordAdvances DEF FirstKey
    <3>3. CASE presses[1] = "Alt_L" /\ k = "z"
      BY <1>0, <1>1, <1>4, <2>1, <2>2, <3>1, <3>3, ChordAdvances DEF FirstKey
    <3> QED
      BY <2>4, <3>1, <3>2, <3>3 DEF Chords
  <2>5. Len(presses') > 0
    BY <1>0, <2>2
  <2>6. FirstKey'
    BY <2>2 DEF FirstKey
  <2>7. /\ fe'.trigger = 1 => presses'[Len(presses')] = "Control_L"
        /\ fe'.trigger = 2 => EndsIn(presses', "Control_L", "Shift_L")
        /\ fe'.trigger = 11 => presses'[Len(presses')] = "Alt_L"
        /\ fe'.trigger = 12 => EndsIn(presses', "Alt_L", "z")
    BY <1>2, <2>1, <2>3
  <2> QED
    BY <2>3, <2>4, <2>5, <2>6, <2>7 DEF Gesture
<1> QED
  BY <1>3, <1>4

\* A step that starts the trigger over and switches what the trigger says.
LEMMA OverGesture ==
  ASSUME Inv, Gesture, elsewhere = 0, presses' = presses, fe'.trigger = 0,
         held' # {} => held # {},
         switched' = IF fe.trigger \in {2, 12} THEN switched + 1 ELSE switched,
         FirstKey'
  PROVE  Gesture'
<1>1. presses \in Seq(Keyboard) /\ switched \in Nat
  BY DEF Inv, TypeOK
<1>2. fe.trigger \in {2, 12} => HasChord(presses)
  <2>1. <<"Control_L", "Shift_L">> \in Chords /\ <<"Alt_L", "z">> \in Chords
    BY DEF Chords
  <2>2. CASE fe.trigger = 2
    <3>1. PICK c \in Chords : c = <<"Control_L", "Shift_L">>
      BY <2>1
    <3>2. EndsIn(presses, c[1], c[2])
      BY <2>2, <3>1 DEF Gesture
    <3> QED
      BY <1>1, <3>2, ChordsOfPresses DEF EndsIn
  <2>3. CASE fe.trigger = 12
    <3>1. PICK c \in Chords : c = <<"Alt_L", "z">>
      BY <2>1
    <3>2. EndsIn(presses, c[1], c[2])
      BY <2>3, <3>1 DEF Gesture
    <3> QED
      BY <1>1, <3>2, ChordsOfPresses DEF EndsIn
  <2> QED
    BY <2>2, <2>3
<1>3. switched' # 0 => HasChord(presses')
  BY <1>2 DEF Gesture
<1>4. presses' \in Chords => switched' = 1
  BY <1>1 DEF Gesture
<1>5. held' # {} => Len(presses') > 0
  BY DEF Gesture
<1> QED
  BY <1>3, <1>4, <1>5 DEF Gesture

\* A key comes up.
LEMMA ReleaseGesture ==
  ASSUME Inv, Gesture, NEW k \in Keyboard, Release(k) PROVE Gesture'
<1> SUFFICES ASSUME elsewhere = 0 PROVE Gesture'
  BY DEF Release, Gesture
<1>1. /\ fe' \in After(fe, EventOf(k, FALSE)) /\ held' = held \ {k} /\ k \in held
      /\ presses' = presses
      /\ switched' = IF fe'.enabled # fe.enabled THEN switched + 1 ELSE switched
  BY DEF Release, KeyUp
<1>2. /\ fe'.trigger = 0
      /\ (fe'.enabled # fe.enabled) = (fe.trigger \in {2, 12})
  BY <1>1, ReleaseSwitches DEF Inv, TypeOK, DisabledHoldsNoWord
<1>3. FirstKey'
  BY <1>1 DEF Gesture, FirstKey
<1> QED
  BY <1>1, <1>2, <1>3, OverGesture

\* The last key is repeated: a second release of a chord switches nothing.
LEMMA RepeatGesture ==
  ASSUME Inv, Gesture, NEW k \in Keyboard, AutoRepeat(k) PROVE Gesture'
<1> SUFFICES ASSUME elsewhere = 0 PROVE Gesture'
  BY DEF AutoRepeat, Gesture
<1>0. /\ k \notin {"Control_L", "Shift_L", "Alt_L"} /\ held # {} /\ k = presses[Len(presses)]
      /\ switched' = IF fe'.enabled # fe.enabled THEN switched + 1 ELSE switched
      /\ held' = held /\ presses' = presses
  BY DEF AutoRepeat
<1>1. PICK up \in After(fe, EventOf(k, FALSE)) : fe' \in After(up, EventOf(k, TRUE))
  BY DEF AutoRepeat
<1>2. /\ up \in FrontEndStates /\ (~up.enabled => up.len = 0) /\ up.trigger = 0
      /\ (up.enabled # fe.enabled) = (fe.trigger \in {2, 12})
  BY ReleaseSwitches DEF Inv, TypeOK, DisabledHoldsNoWord
<1>3. fe'.trigger = 0 /\ fe'.enabled = up.enabled
  <2>1. /\ \/ fe'.trigger = 0
           \/ k \in {"Control_L", "Shift_L", "Alt_L"}
           \/ up.trigger = 11
        /\ fe'.enabled # up.enabled => up.trigger \in {2, 12}
    BY <1>1, <1>2, KeyStep
  <2> QED
    BY <1>0, <1>2, <2>1
<1>4. FirstKey'
  <2>1. Len(presses) = 1 => fe.trigger \notin {2, 12}
    BY DEF Gesture, EndsIn
  <2> QED
    BY <1>0, <1>2, <1>3, <2>1 DEF Gesture, FirstKey
<1> QED
  BY <1>0, <1>2, <1>3, <1>4, OverGesture

\* The keyboard starts idle, and every event keeps Gesture.
LEMMA GestureInvariance == Spec => [](Inv /\ Gesture)
<1>1. Init => Inv /\ Gesture
  <2>1. Init => Gesture
    BY DEF Init, Gesture, FirstKey, Chords
  <2> QED
    BY <2>1, InitInv
<1>2. Inv /\ Gesture /\ [Next]_vars => (Inv /\ Gesture)'
  <2> SUFFICES ASSUME Inv, Gesture, [Next]_vars PROVE Gesture'
    BY NextInv
  <2>1. ASSUME NEW k \in Keyboard, Elsewhere(k) PROVE Gesture'
    BY <2>1 DEF Elsewhere, Gesture, Inv, TypeOK
  <2>2. CASE UNCHANGED vars
    BY <2>2 DEF Gesture, FirstKey, vars
  <2> QED
    BY <2>1, <2>2, PressGesture, ReleaseGesture, RepeatGesture DEF Next
<1> QED
  BY <1>1, <1>2, PTL DEF Spec

\* The hot keys keep their types: a trigger is one of sCurrentTrigger's, and
\* the word is never longer than chars[].
THEOREM TypeCorrect == Spec => []TypeOK
<1>1. Inv => TypeOK
  BY DEF Inv
<1> QED
  BY <1>1, SpecInv, PTL

\* A chord that was all that was pressed switched the engine once, also when
\* its last key repeated; presses that have no chord in them switched nothing.
THEOREM ChordsSwitchOnce == Spec => []ChordSwitchesOnce
<1>1. Inv /\ Gesture => ChordSwitchesOnce
  <2> SUFFICES ASSUME Inv, Gesture, held = {}, elsewhere = 0
               PROVE  /\ presses \in Chords => switched = 1
                      /\ (\A c \in Chords : ~\E i \in 1..(Len(presses) - 1) :
                            SubSeq(presses, i, i + 1) = c) => switched = 0
    BY DEF ChordSwitchesOnce
  <2>1. fe.trigger \notin {2, 12}
    BY DEF Inv, TriggerIsHeld
  <2>2. ASSUME NEW i \in 1..(Len(presses) - 1)
        PROVE  SubSeq(presses, i, i + 1) = <<presses[i], presses[i + 1]>>
    BY TwoOf DEF Inv, TypeOK
  <2> QED
    BY <2>1, <2>2 DEF Gesture, HasChord
<1> QED
  BY <1>1, GestureInvariance, PTL
=============================================================================
