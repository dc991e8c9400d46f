------------------------------ MODULE ViEngine ------------------------------
(***************************************************************************)
(* The composing engine of vnim (viEngine/vi-engine.c) behind its public   *)
(* interface: sCurrentWord under ViProcessKey, ViProcessBackspace and      *)
(* ViResetEngine, called one at a time by the front end.                   *)
(***************************************************************************)
EXTENDS ViWord

CONSTANT Keys     \* the characters typed, after tolower()

VARIABLES
  word,     \* *sCurrentWord
  event,    \* the last call: "letter", "other", "backspace" or "reset"
  ret       \* what it returned: "PROCESSED", "REVERTED" or "NOTHING"

vars == <<word, event, ret>>

-----------------------------------------------------------------------------

ViInitEngine == word = EmptyWord /\ event = "reset" /\ ret = "NOTHING"

ViProcessKey(k) ==
  LET done == ProcessKey(word, k)
  IN  /\ word' = done.word
      /\ ret' = done.ret
      /\ event' = IF Processable(k) THEN "letter" ELSE "other"

ViProcessBackspace ==
  /\ word' = ProcessBackspace(word)
  /\ ret' = IF word.chars = <<>> THEN "NOTHING" ELSE "PROCESSED"
  /\ event' = "backspace"

ViResetEngine == word' = EmptyWord /\ ret' = "NOTHING" /\ event' = "reset"

Next == (\E k \in Keys : ViProcessKey(k)) \/ ViProcessBackspace \/ ViResetEngine

Spec == ViInitEngine /\ [][Next]_vars

-----------------------------------------------------------------------------
(* The marks a letter may carry: the rows UnicodeVNCharset has for it.     *)

MarksOf(origin) ==
  CASE origin \in {"a", "o"} -> {0, 12, 24}
    [] origin \in {"e", "u"} -> {0, 12}
    [] origin = "d"          -> {0, 2}
    [] origin = Zero         -> {154}
    [] OTHER                 -> {0}

Chars == UNION {[origin : {o}, mark : MarksOf(o)] : o \in Latin \cup {Zero} \cup Keys}

(***************************************************************************)
(* Type invariant: a word never outgrows chars[] (WORD_MAX_LENGTH) and     *)
(* every letter carries a mark the glyph table has for it, whatever marks  *)
(* were put on, moved by ViCorrection and taken off before.                *)
(***************************************************************************)
TypeOK ==
  /\ word \in [chars : Seq(Chars), tone : Tones]
  /\ Len(word.chars) \in 0..MaxLen
  /\ event \in {"letter", "other", "backspace", "reset"}
  /\ ret \in {"PROCESSED", "REVERTED", "NOTHING"}

(***************************************************************************)
(* A word with a tone has a vowel to draw it on: neither backspace over    *)
(* the last vowel nor a w taken back by ViDoProcessWFull strands a tone,   *)
(* which would reappear on the next vowel typed.                           *)
(***************************************************************************)
ToneHasVowel == word.tone # 0 => CanTransformWord(word)

(***************************************************************************)
(* The tone is drawn: ViGetCurrentWord skips the last vowel of an open     *)
(* syllable and must still find another one to put the tone on.            *)
(***************************************************************************)
ToneIsDrawn ==
  word.tone # 0 => \E i \in DOMAIN word.chars : ToneAt(word, i) = word.tone

\* The letter each row of UnicodeVNCharset (charset.c) shows, two entries a row.
LetterOfRow(index) ==
  CASE index \in 0..35    -> "a"
    [] index \in 40..43   -> "d"
    [] index \in 44..67   -> "e"
    [] index \in 74..85   -> "i"
    [] index \in 96..131  -> "o"
    [] index \in 142..165 -> "u"
    [] index \in 172..183 -> "y"
    [] OTHER              -> "other"

(***************************************************************************)
(* VNCharToWChar adds the shifts of the letter, of the tone and of the     *)
(* case to one index: the sum must stay in the rows of the letter typed    *)
(* (a w alone shows as a u), never in another letter's or past the table.  *)
(***************************************************************************)
GlyphShowsItsLetter ==
  \A i \in DOMAIN word.chars : \A upper \in BOOLEAN :
    LET o == word.chars[i].origin
    IN  o \in InCharSet =>
          LetterOfRow(GlyphIndex(word, i, upper)) = IF o = Zero THEN "u" ELSE o

(***************************************************************************)
(* ViCorrection leaves no u before an a with breve anywhere in the word,   *)
(* however the two came to stand together.                                 *)
(***************************************************************************)
NoUBreve ==
  \A i \in 2..Len(word.chars) :
    ~(word.chars[i-1].origin = "u" /\ word.chars[i] = Letter("a", 24))

IsToneKey(k) == k \in DOMAIN Rules /\ Rules[k] \in {"S", "F", "R", "X", "J"}

(***************************************************************************)
(* The engine's README: a tone key need not stand beside any letter.  Once *)
(* the word has a vowel, a tone key before or after the next letter gives  *)
(* the same word, unless that letter takes back a lone w.                  *)
(***************************************************************************)
ToneKeyIsFree ==
  \A t, k \in Keys :
    ( /\ IsToneKey(t) /\ ~IsToneKey(k) /\ Processable(k)
      /\ ~(k \in DOMAIN Rules /\ Rules[k] = "Z")
      /\ CanTransformWord(word)
      /\ word.tone # ToneOf(Rules[t])
      /\ Len(word.chars) < MaxLen
      /\ ~(/\ k \in DOMAIN Rules /\ Rules[k] = "WFull"
           /\ word.chars[Len(word.chars)].origin = Zero) )
    => ProcessKey(ProcessKey(word, t).word, k).word =
         ProcessKey(ProcessKey(word, k).word, t).word

(***************************************************************************)
(* Typing a tone key twice is the way to get the key itself: the second    *)
(* stroke removes the tone and appends the key, with no letter or mark of  *)
(* the word changed on the way.                                            *)
(***************************************************************************)
ToneKeyTwiceIsLiteral ==
  \A t \in Keys :
    ( /\ IsToneKey(t) /\ CanTransformWord(word)
      /\ word.tone # ToneOf(Rules[t]) /\ Len(word.chars) < MaxLen )
    => ProcessKey(ProcessKey(word, t).word, t).word =
         [chars |-> Append(word.chars, Letter(t, 0)), tone |-> 0]

(***************************************************************************)
(* A key the front end forwards to the application (ViProcessKey returned  *)
(* 0) left no trace in the word, or it would take effect twice: neither    *)
(* the w settled on the way, nor a mark, nor ViCorrection changed it.      *)
(***************************************************************************)
RefusedLeavesWord ==
  [][event' \in {"letter", "other"} /\ ret' = "NOTHING" => word' = word]_vars

\* The engine keeps the promises the front end relies on.
Promise == INSTANCE Composer WITH len <- Len(word.chars), taken <- ret # "NOTHING"
PromiseKept == Promise!Spec
=============================================================================
