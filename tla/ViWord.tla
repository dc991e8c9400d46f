------------------------------- MODULE ViWord -------------------------------
(***************************************************************************)
(* The word a vnim user is composing and the pure algorithms of            *)
(* viEngine/vi-engine.c on it.  A word is a sequence of letters, each with *)
(* the shift of its own mark (circumflex, breve, horn, bar), and one tone  *)
(* for the whole word; a shift is the distance, in the table of glyphs,    *)
(* from the plain letter to the marked one.                                *)
(*                                                                         *)
(* Positions are 1..Len where the code counts from 0.  The case of a       *)
(* letter is left out of the word: nothing but the last bit of the glyph's *)
(* index depends on it (see GlyphIndex).                                   *)
(***************************************************************************)
EXTENDS Integers, Sequences

CONSTANTS
  MaxLen,   \* WORD_MAX_LENGTH, 10 in the code
  Rules     \* sRules: the trigger of every key that has one

Zero == "Zero"   \* VNCharZero: the letter a lone w stands for until it settles

Marks == {0, 12, 24, 2, 154}        \* shifts a letter may carry
Tones == {0, 2, 4, 6, 8, 10}        \* shifts a word may carry

Triggers == {"WFull", "W", "A", "D", "E", "O", "F", "J", "R", "S", "X", "Z",
             "AW", "AEO", "OUW"}

ASSUME MaxLenAssumption == MaxLen \in Nat \ {0}
ASSUME RulesAssumption  ==
  /\ \A k \in DOMAIN Rules : Rules[k] \in Triggers
  /\ Zero \notin DOMAIN Rules     \* no key types it

TelexRules ==
  [k \in {"w", "a", "e", "o", "d", "s", "f", "j", "r", "x", "z"} |->
     CASE k = "w" -> "WFull" [] k = "a" -> "A" [] k = "e" -> "E"
       [] k = "o" -> "O"     [] k = "d" -> "D" [] k = "s" -> "S"
       [] k = "f" -> "F"     [] k = "j" -> "J" [] k = "r" -> "R"
       [] k = "x" -> "X"     [] k = "z" -> "Z"]

VNIRules ==
  [k \in {"0", "1", "2", "3", "4", "5", "6", "7", "8", "9"} |->
     CASE k = "0" -> "Z" [] k = "1" -> "S"   [] k = "2" -> "F"
       [] k = "3" -> "R" [] k = "4" -> "X"   [] k = "5" -> "J"
       [] k = "6" -> "AEO" [] k = "7" -> "OUW" [] k = "8" -> "AW"
       [] k = "9" -> "D"]

-----------------------------------------------------------------------------

Latin == {"a", "b", "c", "d", "e", "f", "g", "h", "i", "j", "k", "l", "m",
          "n", "o", "p", "q", "r", "s", "t", "u", "v", "w", "x", "y", "z"}

Vowels == {"a", "e", "o", "u", "i", "y", Zero}

Processable(k) == k \in Latin \/ k \in DOMAIN Rules

Letter(origin, mark) == [origin |-> origin, mark |-> mark]

EmptyWord == [chars |-> <<>>, tone |-> 0]

CanTransformWord(w) == \E i \in DOMAIN w.chars : w.chars[i].origin \in Vowels

LastOf(S)  == CHOOSE i \in S : \A j \in S : j <= i
FirstOf(S) == CHOOSE i \in S : \A j \in S : i <= j

(***************************************************************************)
(* A transform reaches back to the consonant just before the last group of *)
(* vowels, included.  The field wordBreak is recomputed at the start of    *)
(* every key and never read otherwise, so it is an operator here.          *)
(***************************************************************************)
WordBreak(chars) ==
  LET before == {p \in DOMAIN chars :
                   /\ chars[p].origin \notin Vowels
                   /\ \E q \in DOMAIN chars : q > p /\ chars[q].origin \in Vowels}
  IN  IF before = {} THEN 0 ELSE LastOf(before) - 1

Result(w, ret) == [word |-> w, ret |-> ret]

\* Fault: the shift is added to the one the letter has.
SetMarkAdds(w, i, mark) == [w EXCEPT !.chars[i].mark = @ + mark]

SetMark(w, i, mark) == [w EXCEPT !.chars[i].mark = mark]

(***************************************************************************)
(* ViDoCharRevertTransform.  pairs is a sequence of <<letter, mark>>: a    *)
(* pair some letter of the word carries already is undone, the earliest    *)
(* pair first and wherever in the word the letter is; else the last letter *)
(* in reach that has a pair takes its mark.                                *)
(***************************************************************************)
CharRevertTransform(w, pairs) ==
  LET carrying(j) == {i \in DOMAIN w.chars :
                        w.chars[i] = Letter(pairs[j][1], pairs[j][2])}
      carried == {j \in DOMAIN pairs : carrying(j) # {}}
      pairOf(i) == {j \in DOMAIN pairs : w.chars[i].origin = pairs[j][1]}
      targets == {i \in DOMAIN w.chars :
                    i > WordBreak(w.chars) /\ pairOf(i) # {}}
  IN  IF carried # {}
      THEN Result(SetMark(w, LastOf(carrying(FirstOf(carried))), 0), "REVERTED")
      ELSE IF targets # {}
      THEN LET i == LastOf(targets)
           IN  Result(SetMark(w, i, pairs[FirstOf(pairOf(i))][2]), "PROCESSED")
      ELSE Result(w, "NOTHING")

\* ViDoProcessUO: the pair "uo" is horned, or both horns are taken off.
ProcessUO(w) ==
  LET horned(i) == w.chars[i-1].mark = 12 /\ w.chars[i].mark = 24
      acting == {i \in 2..Len(w.chars) :
                   /\ w.chars[i].origin = "o" /\ w.chars[i-1].origin = "u"
                   /\ horned(i) \/ i > WordBreak(w.chars)}
      i == LastOf(acting)
  IN  IF acting = {} THEN Result(w, "NOTHING")
      ELSE IF horned(i)
      THEN Result(SetMark(SetMark(w, i-1, 0), i, 0), "REVERTED")
      ELSE Result(SetMark(SetMark(w, i-1, 12), i, 24), "PROCESSED")

UOThen(w, pairs) ==
  IF ProcessUO(w).ret # "NOTHING" THEN ProcessUO(w)
  ELSE CharRevertTransform(w, pairs)

ProcessOUW(w) == UOThen(w, << <<"o", 24>>, <<"u", 12>> >>)
ProcessW(w)   == UOThen(w, << <<"o", 24>>, <<"u", 12>>, <<"a", 24>> >>)
ProcessAOE(w) ==
  CharRevertTransform(w, << <<"a", 12>>, <<"o", 12>>, <<"e", 12>> >>)

\* Fault: a new letter starts with no shift of the word either.
AppendWordClearsTone(w, origin, mark) ==
  [w EXCEPT !.chars = Append(@, Letter(origin, mark)), !.tone = 0]

AppendWord(w, origin, mark) ==
  [w EXCEPT !.chars = Append(@, Letter(origin, mark))]

SettleZeros(w) ==
  [w EXCEPT !.chars = [i \in DOMAIN w.chars |->
     IF w.chars[i].origin = Zero THEN Letter("u", 12) ELSE w.chars[i]]]

\* Fault: the length is checked by the other caller of ViAppendWord only.
ProcessWFullNoRoom(w) ==
  LET done == ProcessW(SettleZeros(w))
  IN  IF done.ret # "NOTHING" THEN done
      ELSE Result(AppendWord(done.word, Zero, 154), "PROCESSED")

\* ViDoProcessWFull: a w is a mark for what is there, or else a letter u-horn.
ProcessWFull(w) ==
  LET len == Len(w.chars)
      done == ProcessW(SettleZeros(w))
  IN  IF len > 0 /\ w.chars[len].origin = Zero /\ w.tone = 0
      THEN Result([w EXCEPT !.chars = SubSeq(@, 1, len - 1)], "REVERTED")
      ELSE IF done.ret # "NOTHING" THEN done
      ELSE IF len < MaxLen THEN Result(AppendWord(done.word, Zero, 154), "PROCESSED")
      ELSE done

\* Fault: a tone taken back counts as processed.
WordTransformSwallows(w, tone) ==
  IF ~CanTransformWord(w) THEN Result(w, "NOTHING")
  ELSE Result([w EXCEPT !.tone = IF @ = tone THEN 0 ELSE tone], "PROCESSED")

\* ViDoWordTransform: the tone goes to the word; the same tone again removes it.
WordTransform(w, tone) ==
  IF ~CanTransformWord(w) THEN Result(w, "NOTHING")
  ELSE IF w.tone = tone THEN Result([w EXCEPT !.tone = 0], "REVERTED")
  ELSE Result([w EXCEPT !.tone = tone], "PROCESSED")

ToneOf(trigger) ==
  CASE trigger = "S" -> 2 [] trigger = "F" -> 4  [] trigger = "R" -> 6
    [] trigger = "X" -> 8 [] trigger = "J" -> 10 [] trigger = "Z" -> 0

TriggerSelection(w, trigger) ==
  CASE trigger = "WFull" -> ProcessWFull(w)
    [] trigger = "W"     -> ProcessW(w)
    [] trigger = "A"     -> CharRevertTransform(w, << <<"a", 12>> >>)
    [] trigger = "D"     -> CharRevertTransform(w, << <<"d", 2>> >>)
    [] trigger = "E"     -> CharRevertTransform(w, << <<"e", 12>> >>)
    [] trigger = "O"     -> CharRevertTransform(w, << <<"o", 12>> >>)
    [] trigger = "AEO"   -> ProcessAOE(w)
    [] trigger = "AW"    -> CharRevertTransform(w, << <<"a", 24>> >>)
    [] trigger = "OUW"   -> ProcessOUW(w)
    [] OTHER             -> WordTransform(w, ToneOf(trigger))

\* ViCorrection: after a u the breve of an a moves to the u as a horn.
Correction(w) ==
  LET isUA(i) == /\ i \in 2..Len(w.chars)
                 /\ w.chars[i-1].origin = "u"
                 /\ w.chars[i] = Letter("a", 24)
  IN  [w EXCEPT !.chars = [i \in DOMAIN w.chars |->
        IF isUA(i) THEN Letter("a", 0)
        ELSE IF isUA(i + 1) THEN Letter("u", 12)
        ELSE w.chars[i]]]

\* Fault: what the trigger returned is forgotten when the word is full.
ProcessKeyForgets(w, k) ==
  LET tried == IF k \in DOMAIN Rules THEN TriggerSelection(w, Rules[k])
               ELSE Result(w, "NOTHING")
  IN  IF ~Processable(k) THEN Result(w, "NOTHING")
      ELSE IF tried.ret = "PROCESSED" THEN Result(Correction(tried.word), "PROCESSED")
      ELSE IF Len(tried.word.chars) < MaxLen
      THEN Result(Correction(AppendWord(tried.word, k, 0)), "PROCESSED")
      ELSE Result(Correction(tried.word), "NOTHING")

(***************************************************************************)
(* ViProcessKey: the word after the key and the value returned.  A trigger *)
(* that did not process the key leaves it to be appended as a letter, and  *)
(* a full word takes no letter.                                            *)
(***************************************************************************)
ProcessKey(w, k) ==
  LET tried == IF k \in DOMAIN Rules THEN TriggerSelection(w, Rules[k])
               ELSE Result(w, "NOTHING")
      room == Len(tried.word.chars) < MaxLen
  IN  IF ~Processable(k) THEN Result(w, "NOTHING")
      ELSE IF tried.ret # "PROCESSED" /\ room
      THEN Result(Correction(AppendWord(tried.word, k, 0)), "PROCESSED")
      ELSE Result(Correction(tried.word), tried.ret)

\* Fault: the tone outlives the vowel it was on.
ProcessBackspaceKeepsTone(w) ==
  IF w.chars = <<>> THEN w ELSE [w EXCEPT !.chars = SubSeq(@, 1, Len(@) - 1)]

\* Fault: a marked letter loses its mark first.
ProcessBackspacePeels(w) ==
  LET len == Len(w.chars)
  IN  IF len = 0 THEN w
      ELSE IF w.chars[len].mark \in {12, 24} THEN SetMark(w, len, 0)
      ELSE [w EXCEPT !.chars = SubSeq(@, 1, len - 1), !.tone = 0]

\* ViProcessBackspace: the tone goes when the last vowel does.
ProcessBackspace(w) ==
  LET shorter == [w EXCEPT !.chars = SubSeq(@, 1, Len(@) - 1)]
  IN  IF w.chars = <<>> THEN w
      ELSE IF CanTransformWord(shorter) THEN shorter
      ELSE [shorter EXCEPT !.tone = 0]

-----------------------------------------------------------------------------
(* What the user sees: ViGetCurrentWord and VNCharToWChar.                 *)

CharSetIndex(origin) ==
  CASE origin = Zero -> 0  [] origin = "a" -> 0  [] origin = "d" -> 40
    [] origin = "e" -> 44  [] origin = "i" -> 74 [] origin = "o" -> 96
    [] origin = "u" -> 142 [] origin = "y" -> 172

InCharSet == {Zero, "a", "d", "e", "i", "o", "u", "y"}

\* The vowels the tone may be drawn on, when there is one to draw: the last
\* vowel of an open syllable gives it up, but not after "gi" and "qu".
Seats(w) ==
  LET c == w.chars
      after(x, y, i) == i > 2 /\ c[i-2].origin = x /\ c[i-1].origin = y
      open(i) == /\ i = Len(c) /\ c[i].mark = 0
                 /\ ~after("g", "i", i) /\ ~after("q", "u", i)
                 /\ i > 1 /\ c[i-1].origin \in Vowels
  IN  {i \in DOMAIN c : c[i].origin \in Vowels /\ ~open(i)}

ToneAt(w, i) == IF w.tone # 0 /\ Seats(w) # {} /\ i = LastOf(Seats(w))
                THEN w.tone ELSE 0

\* The index into UnicodeVNCharset of a letter the table has.
GlyphIndex(w, i, upper) ==
  LET c == w.chars[i]
  IN  CharSetIndex(c.origin) + c.mark
        + (IF c.origin = "d" THEN 0 ELSE ToneAt(w, i))
        + (IF upper THEN 0 ELSE 1)

\* What is drawn at position i: a glyph of the table, or the letter itself.
Glyph(w, i) == IF w.chars[i].origin \in InCharSet
               THEN <<"table", GlyphIndex(w, i, TRUE)>>
               ELSE <<"latin", w.chars[i].origin>>

CurrentWord(w) == [i \in DOMAIN w.chars |-> Glyph(w, i)]
=============================================================================
