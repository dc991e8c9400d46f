--------------------------- MODULE ViEngineProofs ---------------------------
(***************************************************************************)
(* Theorems about ViEngine for every set of rules and keys and every word  *)
(* length.  The engine is a composition of a few transforms of a word, so  *)
(* the lemmas are about one transform each:                                *)
(*   - which letters it may mark and with what (type correctness);         *)
(*   - that it keeps vowels vowels, and the tone (Reshapes);               *)
(*   - by how much it changes the length (what Composer promises).         *)
(* The invariant is Inv: TypeOK, ToneHasVowel and NoUBreve.                *)
(* Of the tone keys it is shown that no transform looks at the tone, but   *)
(* the one that sets it: words Alike but for it stay so, key by key.       *)
(***************************************************************************)
EXTENDS ViEngine, SequenceTheorems, WellFoundedInduction, TLAPS

Words == [chars : Seq(Chars), tone : Tones]

\* v has the letters of w up to their marks, and its vowels where w has them.
Reshapes(w, v) ==
  /\ v \in Words /\ v.tone = w.tone /\ Len(v.chars) = Len(w.chars)
  /\ \A i \in 1..Len(w.chars) : v.chars[i].origin \in Vowels <=> w.chars[i].origin \in Vowels

-----------------------------------------------------------------------------
(* The last and the first position of a set of them.                       *)

\* Positions of a word have a last one.
LEMMA LastExists ==
  ASSUME NEW n \in Nat, NEW S \in SUBSET (1..n), S # {}
  PROVE  LastOf(S) \in S /\ \A j \in S : j <= LastOf(S)
<1> DEFINE Less == {ss \in Nat \X Nat : ss[1] < ss[2]}
           T    == {n - i : i \in S}
<1>1. IsWellFoundedOn(Less, Nat)
  BY NatLessThanWellFounded DEF OpToRel
<1>2. T \subseteq Nat /\ T # {}
  <2>1. \A i \in S : n - i \in Nat
    OBVIOUS
  <2> QED
    BY <2>1
<1>3. \E x \in T : \A y \in T : ~(<<y, x>> \in Less)
  <2> HIDE DEF Less, T
  <2> QED
    BY <1>1, <1>2, WFMin
<1>4. PICK x \in T : \A y \in T : ~(y < x)
  BY <1>2, <1>3
<1>5. PICK i \in S : x = n - i
  BY <1>4
<1>6. \A j \in S : j <= i
  <2> TAKE j \in S
  <2>1. n - j \in T
    OBVIOUS
  <2>2. ~(n - j < n - i)
    BY <1>4, <1>5, <2>1
  <2>3. i \in Int /\ j \in Int
    OBVIOUS
  <2> QED
    BY <2>2, <2>3
<1> QED
  BY <1>6 DEF LastOf

\* ... and a first one.
LEMMA FirstExists ==
  ASSUME NEW n \in Nat, NEW S \in SUBSET (1..n), S # {}
  PROVE  FirstOf(S) \in S
<1> DEFINE Less == {ss \in Nat \X Nat : ss[1] < ss[2]}
<1>1. IsWellFoundedOn(Less, Nat)
  BY NatLessThanWellFounded DEF OpToRel
<1>2. S \subseteq Nat
  OBVIOUS
<1>3. \E x \in S : \A y \in S : ~(<<y, x>> \in Less)
  <2> HIDE DEF Less
  <2> QED
    BY <1>1, <1>2, WFMin
<1>4. PICK x \in S : \A y \in S : ~(y < x)
  BY <1>2, <1>3
<1>5. \A y \in S : x <= y
  BY <1>2, <1>4
<1> QED
  BY <1>5 DEF FirstOf

-----------------------------------------------------------------------------
(* Marks.                                                                  *)

\* A letter is in Chars when its mark is one of its own.
LEMMA CharsType ==
  ASSUME NEW c \in Chars
  PROVE  /\ c.origin \in Latin \cup {Zero} \cup Keys
         /\ c.mark \in MarksOf(c.origin)
         /\ c = Letter(c.origin, c.mark)
         /\ \A m \in MarksOf(c.origin) : [c EXCEPT !.mark = m] \in Chars
         /\ \A m : [c EXCEPT !.mark = m].origin = c.origin
BY DEF Chars, Letter

\* A letter of the keyboard or a w standing alone, with a mark of its own.
LEMMA LetterType ==
  ASSUME NEW o \in Latin \cup {Zero} \cup Keys, NEW m \in MarksOf(o)
  PROVE  Letter(o, m) \in Chars
BY DEF Chars, Letter

\* The letters of a word, by position.
LEMMA WordType ==
  ASSUME NEW w \in Words
  PROVE  /\ w.chars \in Seq(Chars) /\ w.tone \in Tones
         /\ Len(w.chars) \in Nat /\ DOMAIN w.chars = 1..Len(w.chars)
         /\ \A i \in 1..Len(w.chars) : w.chars[i] \in Chars
         /\ \A s \in Seq(Chars) : /\ [w EXCEPT !.chars = s] \in Words
                                  /\ [w EXCEPT !.chars = s].chars = s
                                  /\ [w EXCEPT !.chars = s].tone = w.tone
         /\ \A t \in Tones : /\ [w EXCEPT !.tone = t] \in Words
                             /\ [w EXCEPT !.tone = t].chars = w.chars
                             /\ [w EXCEPT !.tone = t].tone = t
<1>1. w.chars \in Seq(Chars) /\ w.tone \in Tones
  BY DEF Words
<1>2. Len(w.chars) \in Nat /\ DOMAIN w.chars = 1..Len(w.chars)
  BY <1>1, LenProperties
<1>3. \A i \in 1..Len(w.chars) : w.chars[i] \in Chars
  BY <1>1, ElementOfSeq
<1> QED
  BY <1>1, <1>2, <1>3 DEF Words

\* A mark of the letter's own reshapes the word.
LEMMA SetMarkReshapes ==
  ASSUME NEW w \in Words, NEW i \in DOMAIN w.chars, NEW m \in MarksOf(w.chars[i].origin)
  PROVE  /\ Reshapes(w, SetMark(w, i, m))
         /\ \A j \in DOMAIN w.chars :
              SetMark(w, i, m).chars[j].origin = w.chars[j].origin
<1> DEFINE c == [w.chars[i] EXCEPT !.mark = m]
           s == [w.chars EXCEPT ![i] = c]
<1>1. i \in 1..Len(w.chars) /\ w.chars \in Seq(Chars) /\ w.chars[i] \in Chars
  BY WordType
<1>2. c \in Chars /\ c.origin = w.chars[i].origin
  BY <1>1, CharsType
<1> HIDE DEF c
<1>3. /\ s \in Seq(Chars) /\ Len(s) = Len(w.chars)
      /\ \A j \in 1..Len(w.chars) : s[j] = IF j = i THEN c ELSE w.chars[j]
  BY <1>1, <1>2, ExceptSeq
<1>4. SetMark(w, i, m) = [w EXCEPT !.chars = s]
  BY DEF SetMark, s, c
<1> DEFINE v == SetMark(w, i, m)
<1> HIDE DEF s
<1>5. v \in Words /\ v.chars = s /\ v.tone = w.tone
  BY <1>3, <1>4, WordType
<1> HIDE DEF v
<1>6. DOMAIN w.chars = 1..Len(w.chars)
  BY WordType
<1>7. \A j \in 1..Len(w.chars) : v.chars[j].origin = w.chars[j].origin
  BY <1>2, <1>3, <1>5
<1>8. Reshapes(w, v)
  BY <1>3, <1>5, <1>7 DEF Reshapes
<1> QED
  BY <1>6, <1>7, <1>8 DEF v

\* A word reshapes itself, and reshaping twice is reshaping.
LEMMA ReshapesTwice ==
  /\ \A w \in Words : Reshapes(w, w)
  /\ \A w, u, v \in Words : Reshapes(w, u) /\ Reshapes(u, v) => Reshapes(w, v)
BY DEF Reshapes

\* A word that is reshaped has a vowel when it had one.
LEMMA ReshapesKeepsVowel ==
  ASSUME NEW w \in Words, NEW v, Reshapes(w, v)
  PROVE  CanTransformWord(v) <=> CanTransformWord(w)
<1>1. v \in Words
  BY DEF Reshapes
<1>2. /\ DOMAIN v.chars = 1..Len(v.chars) /\ DOMAIN w.chars = 1..Len(w.chars)
  BY <1>1, WordType
<1> QED
  BY <1>2 DEF Reshapes, CanTransformWord

-----------------------------------------------------------------------------
(* The transforms of marks.                                                *)

\* So do two of them, the one after the other.
LEMMA SetMarksReshapes ==
  ASSUME NEW w \in Words, NEW k \in DOMAIN w.chars, NEW m \in MarksOf(w.chars[k].origin),
         NEW i \in DOMAIN w.chars, NEW p \in MarksOf(w.chars[i].origin)
  PROVE  Reshapes(w, SetMark(SetMark(w, k, m), i, p))
<1> DEFINE u == SetMark(w, k, m)
<1>1. Reshapes(w, u) /\ u.chars[i].origin = w.chars[i].origin
  BY SetMarkReshapes
<1> HIDE DEF u
<1>2. u \in Words /\ DOMAIN u.chars = DOMAIN w.chars
  BY <1>1, WordType DEF Reshapes
<1>3. Reshapes(u, SetMark(u, i, p))
  BY <1>1, <1>2, SetMarkReshapes
<1>4. Reshapes(w, SetMark(u, i, p))
  BY <1>1, <1>2, <1>3, ReshapesTwice DEF Reshapes
<1> QED
  BY <1>4 DEF u

\* What such a transform may do: mark or unmark a letter, or nothing at all.
Transforms(w, r) ==
  /\ Reshapes(w, r.word)
  /\ \/ r.ret = "NOTHING" /\ r.word = w
     \/ r.ret \in {"PROCESSED", "REVERTED"} /\ Len(w.chars) > 0

\* A list of pairs that the code may pass: each mark is one of the letter's.
PairList(pairs, n) ==
  /\ DOMAIN pairs = 1..n
  /\ \A j \in 1..n : /\ pairs[j][2] \in MarksOf(pairs[j][1])
                     /\ 0 \in MarksOf(pairs[j][1])

\* ViDoCharRevertTransform takes a mark off a letter that carries it or puts
\* one on a letter that has it.
LEMMA CharRevertTransformTransforms ==
  ASSUME NEW w \in Words, NEW n \in Nat, NEW pairs, PairList(pairs, n)
  PROVE  Transforms(w, CharRevertTransform(w, pairs))
<1> DEFINE carrying(j) == {i \in DOMAIN w.chars :
                             w.chars[i] = Letter(pairs[j][1], pairs[j][2])}
           carried == {j \in DOMAIN pairs : carrying(j) # {}}
           pairOf(i) == {j \in DOMAIN pairs : w.chars[i].origin = pairs[j][1]}
           targets == {i \in DOMAIN w.chars :
                         i > WordBreak(w.chars) /\ pairOf(i) # {}}
           L == Len(w.chars)
<1>1. L \in Nat /\ DOMAIN w.chars = 1..L /\ \A i \in 1..L : w.chars[i] \in Chars
  BY WordType
<1>2. DOMAIN pairs = 1..n
  BY DEF PairList
<1>3. CASE carried # {}
  <2> DEFINE j == FirstOf(carried)
             i == LastOf(carrying(j))
  <2>1. j \in carried
    <3>1. carried \in SUBSET (1..n)
      BY <1>2
    <3> HIDE DEF carried
    <3> QED
      BY <1>3, <3>1, FirstExists
  <2>2. carrying(j) # {} /\ carrying(j) \in SUBSET (1..L)
    BY <1>1, <2>1
  <2>3. i \in carrying(j)
    <3> HIDE DEF carrying, j, L
    <3> QED
      BY <1>1, <2>2, LastExists
  <2>4. i \in 1..L /\ w.chars[i].origin = pairs[j][1]
    <3> HIDE DEF j
    <3> QED
      BY <1>1, <2>3 DEF Letter
  <2>5. 0 \in MarksOf(w.chars[i].origin)
    BY <1>2, <2>1, <2>4 DEF PairList
  <2>6. CharRevertTransform(w, pairs) = Result(SetMark(w, i, 0), "REVERTED")
    BY <1>3 DEF CharRevertTransform
  <2> HIDE DEF i, j, L, carried, carrying
  <2>7. Reshapes(w, SetMark(w, i, 0))
    BY <1>1, <2>4, <2>5, SetMarkReshapes
  <2> QED
    BY <1>1, <2>4, <2>6, <2>7 DEF Transforms, Result, L
<1>4. CASE carried = {} /\ targets # {}
  <2> DEFINE i == LastOf(targets)
             j == FirstOf(pairOf(i))
  <2>1. i \in targets
    <3>1. targets \in SUBSET (1..L)
      BY <1>1
    <3> HIDE DEF targets, L
    <3> QED
      BY <1>1, <1>4, <3>1, LastExists
  <2>2. i \in 1..L /\ pairOf(i) # {} /\ pairOf(i) \in SUBSET (1..n)
    <3> HIDE DEF i
    <3> QED
      BY <1>1, <1>2, <2>1
  <2>3. j \in pairOf(i)
    <3> HIDE DEF pairOf, i
    <3> QED
      BY <2>2, FirstExists
  <2>4. j \in 1..n /\ w.chars[i].origin = pairs[j][1]
    <3> HIDE DEF i, j
    <3> QED
      BY <1>2, <2>3
  <2>5. pairs[j][2] \in MarksOf(w.chars[i].origin)
    BY <2>4 DEF PairList
  <2>6. CharRevertTransform(w, pairs) = Result(SetMark(w, i, pairs[j][2]), "PROCESSED")
    BY <1>4 DEF CharRevertTransform
  <2> HIDE DEF i, j, L, targets, pairOf, carried
  <2>7. Reshapes(w, SetMark(w, i, pairs[j][2]))
    BY <1>1, <2>2, <2>5, SetMarkReshapes
  <2> QED
    BY <1>1, <2>2, <2>6, <2>7 DEF Transforms, Result, L
<1>5. CASE carried = {} /\ targets = {}
  <2>1. CharRevertTransform(w, pairs) = Result(w, "NOTHING")
    BY <1>5 DEF CharRevertTransform
  <2> QED
    BY <2>1, ReshapesTwice DEF Transforms, Result
<1> QED
  BY <1>3, <1>4, <1>5

\* A mark of the list that is on some letter is never overlooked.
LEMMA CarriedIsReverted ==
  ASSUME NEW w, NEW pairs, NEW j \in DOMAIN pairs, NEW i \in DOMAIN w.chars,
         w.chars[i] = Letter(pairs[j][1], pairs[j][2])
  PROVE  CharRevertTransform(w, pairs).ret = "REVERTED"
BY DEF CharRevertTransform, Result

\* ViDoProcessUO marks or unmarks the two letters of "uo" together.
LEMMA ProcessUOTransforms ==
  ASSUME NEW w \in Words
  PROVE  Transforms(w, ProcessUO(w))
<1> DEFINE horned(i) == w.chars[i-1].mark = 12 /\ w.chars[i].mark = 24
           acting == {i \in 2..Len(w.chars) :
                        /\ w.chars[i].origin = "o" /\ w.chars[i-1].origin = "u"
                        /\ horned(i) \/ i > WordBreak(w.chars)}
           i == LastOf(acting)
           both(m, p) == SetMark(SetMark(w, i-1, m), i, p)
<1>1. CASE acting = {}
  <2>1. ProcessUO(w) = Result(w, "NOTHING")
    BY <1>1 DEF ProcessUO
  <2> QED
    BY <2>1, ReshapesTwice DEF Transforms, Result
<1>2. CASE acting # {}
  <2>1. Len(w.chars) \in Nat /\ DOMAIN w.chars = 1..Len(w.chars)
    BY WordType
  <2>2. i \in acting
    <3>1. acting \in SUBSET (1..Len(w.chars))
      BY <2>1
    <3> HIDE DEF acting
    <3> QED
      BY <1>2, <2>1, <3>1, LastExists
  <2>3. /\ i \in 2..Len(w.chars) /\ w.chars[i].origin = "o" /\ w.chars[i-1].origin = "u"
    <3> HIDE DEF i
    <3> QED
      BY <2>2
  <2>4. \/ ProcessUO(w) = Result(both(0, 0), "REVERTED")
        \/ ProcessUO(w) = Result(both(12, 24), "PROCESSED")
    BY <1>2 DEF ProcessUO
  <2> HIDE DEF i, acting
  <2>5. ASSUME NEW m \in {0, 12}, NEW p \in {0, 24} PROVE Reshapes(w, both(m, p))
    <3>1. i - 1 \in DOMAIN w.chars /\ i \in DOMAIN w.chars
      BY <2>1, <2>3
    <3>2. m \in MarksOf(w.chars[i-1].origin) /\ p \in MarksOf(w.chars[i].origin)
      BY <2>3 DEF MarksOf, Zero
    <3> QED
      BY <3>1, <3>2, SetMarksReshapes
  <2> HIDE DEF both
  <2> QED
    BY <2>1, <2>3, <2>4, <2>5 DEF Transforms, Result
<1> QED
  BY <1>1, <1>2

\* What tries "uo" first and a list of pairs then.
LEMMA UOThenTransforms ==
  ASSUME NEW w \in Words, NEW n \in Nat, NEW pairs, PairList(pairs, n)
  PROVE  Transforms(w, UOThen(w, pairs))
BY ProcessUOTransforms, CharRevertTransformTransforms DEF UOThen

\* The lists of the code.
LEMMA PairLists ==
  /\ PairList(<< <<"a", 12>> >>, 1) /\ PairList(<< <<"d", 2>> >>, 1)
  /\ PairList(<< <<"e", 12>> >>, 1) /\ PairList(<< <<"o", 12>> >>, 1)
  /\ PairList(<< <<"a", 24>> >>, 1)
  /\ PairList(<< <<"a", 12>>, <<"o", 12>>, <<"e", 12>> >>, 3)
  /\ PairList(<< <<"o", 24>>, <<"u", 12>> >>, 2)
  /\ PairList(<< <<"o", 24>>, <<"u", 12>>, <<"a", 24>> >>, 3)
<1>1. \A m \in {0, 12, 24} : m \in MarksOf("a") /\ m \in MarksOf("o")
  BY DEF MarksOf, Zero
<1>2. \A m \in {0, 12} : m \in MarksOf("e") /\ m \in MarksOf("u")
  BY DEF MarksOf, Zero
<1>3. \A m \in {0, 2} : m \in MarksOf("d")
  BY DEF MarksOf, Zero
<1> QED
  BY <1>1, <1>2, <1>3 DEF PairList

-----------------------------------------------------------------------------
(* The transforms that change the length or the tone.                      *)

\* What any trigger may do to a word, with the value it returns.
Outcome(w, r) ==
  /\ r.word \in Words
  /\ (w.tone # 0 => CanTransformWord(w)) => (r.word.tone # 0 => CanTransformWord(r.word))
  /\ \/ r.ret = "NOTHING" /\ r.word = w
     \/ /\ r.ret \in {"PROCESSED", "REVERTED"}
        /\ Len(r.word.chars) = Len(w.chars) /\ Len(w.chars) > 0
     \/ /\ r.ret = "PROCESSED" /\ Len(w.chars) < MaxLen
        /\ Len(r.word.chars) = Len(w.chars) + 1
     \/ /\ r.ret = "REVERTED" /\ Len(w.chars) > 0
        /\ Len(r.word.chars) = Len(w.chars) - 1

\* A transform of marks is one.
LEMMA TransformsOutcome ==
  ASSUME NEW w \in Words, NEW r, Transforms(w, r)
  PROVE  Outcome(w, r)
<1>1. Reshapes(w, r.word) /\ r.word \in Words /\ r.word.tone = w.tone
  BY DEF Transforms, Reshapes
<1>2. CanTransformWord(r.word) <=> CanTransformWord(w)
  BY <1>1, ReshapesKeepsVowel
<1>3. Len(r.word.chars) = Len(w.chars)
  BY <1>1 DEF Reshapes
<1> QED
  BY <1>1, <1>2, <1>3 DEF Transforms, Outcome

\* A letter at the end of a word makes it one longer.
LEMMA AppendWordType ==
  ASSUME NEW w \in Words, NEW o \in Latin \cup {Zero} \cup Keys, NEW m \in MarksOf(o)
  PROVE  /\ AppendWord(w, o, m) \in Words
         /\ AppendWord(w, o, m).tone = w.tone
         /\ Len(AppendWord(w, o, m).chars) = Len(w.chars) + 1
         /\ CanTransformWord(w) => CanTransformWord(AppendWord(w, o, m))
<1> DEFINE s == Append(w.chars, Letter(o, m))
           v == AppendWord(w, o, m)
<1>1. Letter(o, m) \in Chars /\ w.chars \in Seq(Chars)
  BY LetterType, WordType
<1>2. /\ s \in Seq(Chars) /\ Len(s) = Len(w.chars) + 1
      /\ \A i \in 1..Len(w.chars) : s[i] = w.chars[i]
  BY <1>1, AppendProperties
<1>3. v = [w EXCEPT !.chars = s]
  BY DEF AppendWord
<1> HIDE DEF s, v
<1>4. v \in Words /\ v.chars = s /\ v.tone = w.tone
  BY <1>2, <1>3, WordType
<1>5. CanTransformWord(w) => CanTransformWord(v)
  <2>1. /\ DOMAIN w.chars = 1..Len(w.chars) /\ Len(w.chars) \in Nat
        /\ DOMAIN s = 1..Len(s)
    BY <1>2, WordType, LenProperties
  <2>2. \A i \in DOMAIN w.chars : i \in DOMAIN s /\ s[i] = w.chars[i]
    <3> TAKE i \in DOMAIN w.chars
    <3>1. i \in 1..Len(w.chars) /\ i \in 1..(Len(w.chars) + 1)
      BY <2>1
    <3> QED
      BY <1>2, <2>1, <3>1
  <2>3. \A i \in DOMAIN w.chars : i \in DOMAIN v.chars /\ v.chars[i] = w.chars[i]
    BY <1>4, <2>2
  <2> QED
    BY <2>3 DEF CanTransformWord
<1> QED
  BY <1>2, <1>4, <1>5 DEF v

\* The letters but the last.
LEMMA ShorterType ==
  ASSUME NEW w \in Words, Len(w.chars) > 0
  PROVE  LET v == [w EXCEPT !.chars = SubSeq(@, 1, Len(@) - 1)]
         IN  /\ v \in Words /\ v.tone = w.tone /\ Len(v.chars) = Len(w.chars) - 1
             /\ \A i \in 1..(Len(w.chars) - 1) : v.chars[i] = w.chars[i]
<1> DEFINE s == SubSeq(w.chars, 1, Len(w.chars) - 1)
           v == [w EXCEPT !.chars = SubSeq(@, 1, Len(@) - 1)]
<1>1. Len(w.chars) \in Nat /\ \A i \in 1..Len(w.chars) : w.chars[i] \in Chars
  BY WordType
<1>2. /\ s \in Seq(Chars) /\ Len(s) = Len(w.chars) - 1
      /\ \A i \in 1..(Len(w.chars) - 1) : s[i] = w.chars[i]
  BY <1>1, SubSeqProperties
<1>3. v = [w EXCEPT !.chars = s]
  OBVIOUS
<1> HIDE DEF s, v
<1>4. v \in Words /\ v.chars = s /\ v.tone = w.tone
  BY <1>2, <1>3, WordType
<1> QED
  BY <1>2, <1>4 DEF v

\* A w that stood alone settles as a u with a horn, a vowel as before.
LEMMA SettleZerosReshapes ==
  ASSUME NEW w \in Words
  PROVE  Reshapes(w, SettleZeros(w))
<1> DEFINE c(i) == IF w.chars[i].origin = Zero THEN Letter("u", 12) ELSE w.chars[i]
           s == [i \in 1..Len(w.chars) |-> c(i)]
<1>1. /\ Len(w.chars) \in Nat /\ DOMAIN w.chars = 1..Len(w.chars)
      /\ \A i \in 1..Len(w.chars) : w.chars[i] \in Chars
  BY WordType
<1>2. "u" \in Latin /\ 12 \in MarksOf("u")
  BY DEF Latin, MarksOf, Zero
<1>3. Letter("u", 12) \in Chars
  BY <1>2, LetterType
<1>4. \A i \in 1..Len(w.chars) :
        c(i) \in Chars /\ (c(i).origin \in Vowels <=> w.chars[i].origin \in Vowels)
  BY <1>1, <1>3 DEF Letter, Vowels
<1>5. SettleZeros(w) = [w EXCEPT !.chars = s]
  BY <1>1 DEF SettleZeros
<1> HIDE DEF c
<1>6. s \in Seq(Chars) /\ Len(s) = Len(w.chars)
  <2>1. s \in [1..Len(w.chars) -> Chars]
    BY <1>4
  <2> QED
    BY <1>1, <2>1
<1>7. \A i \in 1..Len(w.chars) : s[i] = c(i)
  OBVIOUS
<1> HIDE DEF s
<1> DEFINE v == SettleZeros(w)
<1>8. v \in Words /\ v.chars = s /\ v.tone = w.tone
  BY <1>5, <1>6, WordType
<1> HIDE DEF v
<1>9. Reshapes(w, v)
  BY <1>4, <1>6, <1>7, <1>8 DEF Reshapes
<1> QED
  BY <1>9 DEF v

\* When a w does nothing, there was none to settle: it would be taken back.
LEMMA NothingSettled ==
  ASSUME NEW w \in Words, ProcessW(SettleZeros(w)).ret = "NOTHING"
  PROVE  SettleZeros(w) = w
<1> DEFINE v     == SettleZeros(w)
           pairs == << <<"o", 24>>, <<"u", 12>>, <<"a", 24>> >>
<1>1. DOMAIN w.chars = 1..Len(w.chars) /\ w.chars \in Seq(Chars)
  BY WordType
<1>2. v = [w EXCEPT !.chars = [i \in DOMAIN w.chars |->
             IF w.chars[i].origin = Zero THEN Letter("u", 12) ELSE w.chars[i]]]
  BY DEF SettleZeros
<1>3. v.chars = [i \in DOMAIN w.chars |->
             IF w.chars[i].origin = Zero THEN Letter("u", 12) ELSE w.chars[i]]
  BY <1>2 DEF Words
<1>4. CharRevertTransform(v, pairs).ret # "REVERTED"
  BY DEF ProcessW, UOThen
<1>5. \A i \in DOMAIN w.chars : w.chars[i].origin # Zero
  <2> SUFFICES ASSUME NEW i \in DOMAIN w.chars, w.chars[i].origin = Zero PROVE FALSE
    OBVIOUS
  <2>1. i \in DOMAIN v.chars /\ v.chars[i] = Letter("u", 12)
    BY <1>3
  <2>2. 2 \in DOMAIN pairs /\ pairs[2][1] = "u" /\ pairs[2][2] = 12
    OBVIOUS
  <2> HIDE DEF v, pairs
  <2> QED
    BY <1>4, <2>1, <2>2, CarriedIsReverted
<1>6. v.chars = [i \in DOMAIN w.chars |-> w.chars[i]]
  BY <1>3, <1>5
<1>7. v.chars = w.chars
  BY <1>1, <1>6
<1> QED
  BY <1>2, <1>3, <1>7 DEF Words

\* ViDoProcessWFull.
LEMMA ProcessWFullOutcome ==
  ASSUME NEW w \in Words
  PROVE  Outcome(w, ProcessWFull(w))
<1> DEFINE len  == Len(w.chars)
           v    == SettleZeros(w)
           done == ProcessW(v)
           r    == ProcessWFull(w)
<1>1. len \in Nat
  BY WordType
<1>2. Reshapes(w, v) /\ v \in Words
  BY SettleZerosReshapes DEF Reshapes
<1>3. Transforms(v, done)
  BY <1>2, PairLists, UOThenTransforms DEF ProcessW
<1>4. CASE len > 0 /\ w.chars[len].origin = Zero /\ w.tone = 0
  <2> DEFINE u == [w EXCEPT !.chars = SubSeq(@, 1, Len(@) - 1)]
  <2>1. r = Result(u, "REVERTED")
    BY <1>4 DEF ProcessWFull
  <2>2. u \in Words /\ u.tone = w.tone /\ Len(u.chars) = Len(w.chars) - 1
    BY <1>4, ShorterType
  <2> HIDE DEF u
  <2> QED
    BY <1>4, <2>1, <2>2 DEF Outcome, Result
<1>5. CASE /\ ~(len > 0 /\ w.chars[len].origin = Zero /\ w.tone = 0)
           /\ done.ret # "NOTHING"
  <2>1. r = done
    BY <1>5 DEF ProcessWFull
  <2>2. Transforms(w, done)
    <3>1. done.word \in Words /\ Reshapes(v, done.word) /\ Len(v.chars) = Len(w.chars)
      BY <1>2, <1>3 DEF Transforms, Reshapes
    <3>2. Reshapes(w, done.word)
      BY <1>2, <3>1, ReshapesTwice
    <3> HIDE DEF done
    <3> QED
      BY <1>3, <1>5, <3>1, <3>2 DEF Transforms
  <2> QED
    BY <2>1, <2>2, TransformsOutcome
<1>6. CASE /\ ~(len > 0 /\ w.chars[len].origin = Zero /\ w.tone = 0)
           /\ done.ret = "NOTHING"
  <2>1. done.word = w
    BY <1>3, <1>6, NothingSettled DEF Transforms
  <2>2. r = IF len < MaxLen THEN Result(AppendWord(w, Zero, 154), "PROCESSED") ELSE done
    BY <1>6, <2>1 DEF ProcessWFull
  <2>3. CASE len < MaxLen
    <3>1. 154 \in MarksOf(Zero)
      BY DEF MarksOf, Zero
    <3> DEFINE u == AppendWord(w, Zero, 154)
    <3>2. /\ u \in Words /\ u.tone = w.tone /\ Len(u.chars) = Len(w.chars) + 1
          /\ CanTransformWord(w) => CanTransformWord(u)
      BY <3>1, AppendWordType
    <3> HIDE DEF u
    <3> QED
      BY <2>2, <2>3, <3>2 DEF Outcome, Result, u
  <2>4. CASE ~(len < MaxLen)
    BY <1>6, <2>1, <2>2, <2>4 DEF Outcome
  <2> QED
    BY <2>3, <2>4
<1> QED
  BY <1>4, <1>5, <1>6

\* ViDoWordTransform changes the tone of a word that has a vowel, no other.
LEMMA WordTransformOutcome ==
  ASSUME NEW w \in Words, NEW tone \in Tones
  PROVE  Outcome(w, WordTransform(w, tone))
<1>1. Len(w.chars) \in Nat /\ DOMAIN w.chars = 1..Len(w.chars)
  BY WordType
<1>2. CASE ~CanTransformWord(w)
  BY <1>2 DEF WordTransform, Outcome, Result
<1>3. CASE CanTransformWord(w)
  <2>1. Len(w.chars) > 0
    BY <1>1, <1>3 DEF CanTransformWord
  <2>2. ASSUME NEW t \in Tones
        PROVE  /\ [w EXCEPT !.tone = t] \in Words
               /\ [w EXCEPT !.tone = t].chars = w.chars
               /\ CanTransformWord([w EXCEPT !.tone = t])
    <3>1. [w EXCEPT !.tone = t] \in Words /\ [w EXCEPT !.tone = t].chars = w.chars
      BY WordType
    <3> QED
      BY <1>3, <3>1 DEF CanTransformWord
  <2>3. 0 \in Tones
    BY DEF Tones
  <2>4. \/ WordTransform(w, tone) = Result([w EXCEPT !.tone = 0], "REVERTED")
        \/ WordTransform(w, tone) = Result([w EXCEPT !.tone = tone], "PROCESSED")
    BY <1>3 DEF WordTransform
  <2>5. ASSUME NEW t \in Tones, NEW answer \in {"REVERTED", "PROCESSED"}
        PROVE  Outcome(w, Result([w EXCEPT !.tone = t], answer))
    BY <2>1, <2>2 DEF Outcome, Result
  <2> QED
    BY <2>3, <2>4, <2>5
<1> QED
  BY <1>2, <1>3

\* ViTriggerSelection.
LEMMA TriggerSelectionOutcome ==
  ASSUME NEW w \in Words, NEW trigger \in Triggers
  PROVE  Outcome(w, TriggerSelection(w, trigger))
<1> DEFINE r == TriggerSelection(w, trigger)
<1>1. CASE trigger = "WFull"
  <2>1. r = ProcessWFull(w)
    BY <1>1 DEF TriggerSelection
  <2> QED
    BY <2>1, ProcessWFullOutcome
<1>2. CASE trigger \in {"W", "A", "D", "E", "O", "AEO", "AW", "OUW"}
  <2>1. /\ trigger = "W" => r = UOThen(w, << <<"o", 24>>, <<"u", 12>>, <<"a", 24>> >>)
        /\ trigger = "OUW" => r = UOThen(w, << <<"o", 24>>, <<"u", 12>> >>)
        /\ trigger = "A" => r = CharRevertTransform(w, << <<"a", 12>> >>)
        /\ trigger = "D" => r = CharRevertTransform(w, << <<"d", 2>> >>)
        /\ trigger = "E" => r = CharRevertTransform(w, << <<"e", 12>> >>)
        /\ trigger = "O" => r = CharRevertTransform(w, << <<"o", 12>> >>)
        /\ trigger = "AW" => r = CharRevertTransform(w, << <<"a", 24>> >>)
        /\ trigger = "AEO" => r = CharRevertTransform(w, << <<"a", 12>>, <<"o", 12>>, <<"e", 12>> >>)
    BY <1>2 DEF TriggerSelection, ProcessW, ProcessOUW, ProcessAOE
  <2>2. Transforms(w, r)
    <3> HIDE DEF r
    <3> QED
      BY <1>2, <2>1, PairLists, UOThenTransforms, CharRevertTransformTransforms
  <2> QED
    BY <2>2, TransformsOutcome
<1>3. CASE trigger \in {"S", "F", "R", "X", "J", "Z"}
  <2>1. r = WordTransform(w, ToneOf(trigger))
    BY <1>3 DEF TriggerSelection
  <2>2. ToneOf(trigger) \in Tones
    BY <1>3 DEF ToneOf, Tones
  <2> QED
    BY <2>1, <2>2, WordTransformOutcome
<1> QED
  BY <1>1, <1>2, <1>3 DEF Triggers

-----------------------------------------------------------------------------
(* A key and a backspace.                                                  *)

\* No a with a breve stands after a u.
Corrected(w) ==
  \A i \in 2..Len(w.chars) :
    ~(w.chars[i-1].origin = "u" /\ w.chars[i] = Letter("a", 24))

\* ViCorrection reshapes the word, corrects it, and leaves a correct one alone.
LEMMA CorrectionReshapes ==
  ASSUME NEW w \in Words
  PROVE  /\ Reshapes(w, Correction(w)) /\ Corrected(Correction(w))
         /\ Corrected(w) => Correction(w) = w
<1> DEFINE isUA(i) == /\ i \in 2..Len(w.chars)
                      /\ w.chars[i-1].origin = "u"
                      /\ w.chars[i] = Letter("a", 24)
           c(i) == IF isUA(i) THEN Letter("a", 0)
                   ELSE IF isUA(i + 1) THEN Letter("u", 12)
                   ELSE w.chars[i]
           s == [i \in 1..Len(w.chars) |-> c(i)]
           v == Correction(w)
<1>1. /\ Len(w.chars) \in Nat /\ DOMAIN w.chars = 1..Len(w.chars)
      /\ \A i \in 1..Len(w.chars) : w.chars[i] \in Chars
  BY WordType
<1>2. Letter("a", 0) \in Chars /\ Letter("u", 12) \in Chars
  <2>1. "a" \in Latin /\ "u" \in Latin /\ 0 \in MarksOf("a") /\ 12 \in MarksOf("u")
    BY DEF Latin, MarksOf, Zero
  <2> QED
    BY <2>1, LetterType
<1>3. \A i \in 1..Len(w.chars) : c(i) \in Chars /\ c(i).origin = w.chars[i].origin
  <2> TAKE i \in 1..Len(w.chars)
  <2>1. CASE isUA(i)
    BY <1>2, <2>1 DEF Letter
  <2>2. CASE ~isUA(i) /\ isUA(i + 1)
    <3>1. w.chars[i].origin = "u"
      <4>1. (i + 1) - 1 = i
        OBVIOUS
      <4> QED
        BY <2>2, <4>1
    <3> QED
      BY <1>2, <2>2, <3>1 DEF Letter
  <2>3. CASE ~isUA(i) /\ ~isUA(i + 1)
    BY <1>1, <2>3
  <2> QED
    BY <2>1, <2>2, <2>3
<1>4. v = [w EXCEPT !.chars = s]
  BY <1>1 DEF Correction
<1>5. \A i \in 1..Len(w.chars) : s[i] = c(i)
  OBVIOUS
<1>6. \A i \in 2..Len(w.chars) : c(i) = Letter("a", 24) => w.chars[i] = Letter("a", 24) /\ ~isUA(i)
  BY DEF Letter
<1>7. s \in Seq(Chars) /\ Len(s) = Len(w.chars)
  <2>1. s \in [1..Len(w.chars) -> Chars]
    <3> HIDE DEF c
    <3> QED
      BY <1>3
  <2> HIDE DEF s
  <2> QED
    BY <1>1, <2>1
<1>8. Corrected(w) => s = w.chars
  <2> SUFFICES ASSUME Corrected(w) PROVE s = w.chars
    OBVIOUS
  <2>1. \A i : ~isUA(i)
    BY DEF Corrected
  <2>2. \A i \in 1..Len(w.chars) : s[i] = w.chars[i]
    BY <2>1
  <2>3. w.chars \in Seq(Chars)
    BY WordType
  <2> HIDE DEF s
  <2> QED
    BY <1>7, <2>2, <2>3, SeqEqual
<1> HIDE DEF s, v
<1>9. v \in Words /\ v.chars = s /\ v.tone = w.tone
  BY <1>4, <1>7, WordType
<1>10. Reshapes(w, v)
  <2> HIDE DEF c
  <2> QED
    BY <1>3, <1>5, <1>7, <1>9 DEF Reshapes
<1>11. Corrected(v)
  <2> SUFFICES ASSUME NEW i \in 2..Len(w.chars),
                      s[i-1].origin = "u", s[i] = Letter("a", 24)
               PROVE  FALSE
    BY <1>7, <1>9 DEF Corrected
  <2>1. i \in 1..Len(w.chars) /\ i - 1 \in 1..Len(w.chars)
    BY <1>1
  <2>2. c(i) = Letter("a", 24) /\ c(i-1).origin = "u"
    <3> HIDE DEF c
    <3> QED
      BY <1>5, <2>1
  <2>3. w.chars[i-1].origin = "u"
    <3> HIDE DEF c
    <3> QED
      BY <1>3, <2>1, <2>2
  <2>4. w.chars[i] = Letter("a", 24) /\ ~isUA(i)
    <3> HIDE DEF c, isUA
    <3> QED
      BY <1>6, <2>2
  <2> QED
    BY <2>3, <2>4
<1>12. Corrected(w) => v = w
  BY <1>4, <1>8 DEF Words
<1> QED
  BY <1>10, <1>11, <1>12 DEF v

\* What the front end is promised of a key the engine knows.
Promised(w, r) ==
  \/ r.ret # "NOTHING" /\ Len(r.word.chars) \in {Len(w.chars), Len(w.chars) + 1} \cap 1..MaxLen
  \/ r.ret = "NOTHING" /\ Len(w.chars) = MaxLen /\ r.word = w

\* A word of the program, whichever key comes next.
Sound(w) ==
  /\ w \in Words /\ Len(w.chars) <= MaxLen
  /\ w.tone # 0 => CanTransformWord(w)
  /\ Corrected(w)

\* The trigger first, the letter if it did not process the key, then
\* ViCorrection: the word stays sound and the promise is kept.
LEMMA ProcessKeyKeeps ==
  ASSUME NEW w, Sound(w), NEW k \in Keys, Processable(k)
  PROVE  /\ Sound(ProcessKey(w, k).word)
         /\ ProcessKey(w, k).ret \in {"PROCESSED", "REVERTED", "NOTHING"}
         /\ Promised(w, ProcessKey(w, k))
<1> DEFINE tried == IF k \in DOMAIN Rules THEN TriggerSelection(w, Rules[k])
                    ELSE Result(w, "NOTHING")
           room == Len(tried.word.chars) < MaxLen
           r == ProcessKey(w, k)
<1>1. w \in Words /\ Len(w.chars) \in Nat /\ Len(w.chars) <= MaxLen /\ MaxLen \in Nat \ {0}
  BY WordType, MaxLenAssumption DEF Sound
<1>2. Outcome(w, tried)
  <2>1. CASE k \in DOMAIN Rules
    <3>1. Rules[k] \in Triggers
      BY <2>1, RulesAssumption
    <3> QED
      BY <1>1, <2>1, <3>1, TriggerSelectionOutcome
  <2>2. CASE k \notin DOMAIN Rules
    BY <1>1, <2>2 DEF Outcome, Result
  <2> QED
    BY <2>1, <2>2
<1>3. \/ ~(tried.ret # "PROCESSED" /\ room) /\ r = Result(Correction(tried.word), tried.ret)
      \/ /\ tried.ret # "PROCESSED" /\ room
         /\ r = Result(Correction(AppendWord(tried.word, k, 0)), "PROCESSED")
  BY DEF ProcessKey
<1> HIDE DEF tried, r
<1>4. /\ tried.word \in Words
      /\ tried.word.tone # 0 => CanTransformWord(tried.word)
  BY <1>2 DEF Outcome, Sound
<1>5. ASSUME NEW v \in Words, Len(v.chars) <= MaxLen, v.tone # 0 => CanTransformWord(v)
      PROVE  Sound(Correction(v)) /\ Len(Correction(v).chars) = Len(v.chars)
  <2>1. Reshapes(v, Correction(v)) /\ Corrected(Correction(v))
    BY <1>5, CorrectionReshapes
  <2>2. CanTransformWord(Correction(v)) <=> CanTransformWord(v)
    BY <1>5, <2>1, ReshapesKeepsVowel
  <2> QED
    BY <1>5, <2>1, <2>2 DEF Sound, Reshapes
<1>6. CASE /\ tried.ret # "PROCESSED" /\ room
           /\ r = Result(Correction(AppendWord(tried.word, k, 0)), "PROCESSED")
  <2> DEFINE v == AppendWord(tried.word, k, 0)
  <2>1. k # Zero /\ 0 \in MarksOf(k)
    <3>1. k # Zero
      BY RulesAssumption DEF Processable, Latin, Zero
    <3> QED
      BY <3>1 DEF MarksOf
  <2>2. /\ v \in Words /\ v.tone = tried.word.tone
        /\ Len(v.chars) = Len(tried.word.chars) + 1
        /\ CanTransformWord(tried.word) => CanTransformWord(v)
    BY <1>4, <2>1, AppendWordType
  <2>3. Len(tried.word.chars) \in Nat /\ Len(v.chars) <= MaxLen
    BY <1>1, <1>4, <1>6, <2>2, WordType
  <2> HIDE DEF v
  <2>4. Sound(Correction(v)) /\ Len(Correction(v).chars) = Len(v.chars)
    BY <1>4, <1>5, <2>2, <2>3
  <2>5. r.word = Correction(v) /\ r.ret = "PROCESSED"
    BY <1>6 DEF Result, v
  <2>6. Len(tried.word.chars) = Len(w.chars) \/ Len(tried.word.chars) = Len(w.chars) - 1
    BY <1>2, <1>6 DEF Outcome
  <2>7. Promised(w, r)
    <3>1. Len(r.word.chars) = Len(tried.word.chars) + 1
      BY <2>2, <2>4, <2>5
    <3>2. Len(r.word.chars) \in {Len(w.chars), Len(w.chars) + 1}
      BY <1>1, <2>6, <3>1
    <3>3. Len(r.word.chars) \in 1..MaxLen
      BY <1>1, <2>2, <2>3, <3>1
    <3> QED
      BY <2>5, <3>2, <3>3 DEF Promised
  <2> QED
    BY <2>4, <2>5, <2>7 DEF r
<1>7. CASE /\ ~(tried.ret # "PROCESSED" /\ room)
           /\ r = Result(Correction(tried.word), tried.ret)
  <2>1. r.word = Correction(tried.word) /\ r.ret = tried.ret
    BY <1>7 DEF Result
  <2>2. tried.ret \in {"PROCESSED", "REVERTED", "NOTHING"}
    BY <1>2 DEF Outcome
  <2>3. Len(tried.word.chars) \in Nat /\ Len(tried.word.chars) <= MaxLen
    BY <1>1, <1>2, <1>4, WordType DEF Outcome
  <2>4. Sound(Correction(tried.word)) /\ Len(Correction(tried.word).chars) = Len(tried.word.chars)
    BY <1>4, <1>5, <2>3
  <2>5. Promised(w, r)
    <3>1. CASE tried.ret = "PROCESSED"
      <4>1. Len(tried.word.chars) \in {Len(w.chars), Len(w.chars) + 1} \cap 1..MaxLen
        BY <1>1, <1>2, <2>3, <3>1 DEF Outcome
      <4> QED
        BY <2>1, <2>4, <3>1, <4>1 DEF Promised
    <3>2. CASE tried.ret = "REVERTED"
      <4>1. Len(tried.word.chars) = MaxLen /\ Len(w.chars) = MaxLen
        BY <1>1, <1>2, <1>7, <2>3, <3>2 DEF Outcome
      <4> QED
        BY <1>1, <2>1, <2>4, <3>2, <4>1 DEF Promised
    <3>3. CASE tried.ret = "NOTHING"
      <4>1. tried.word = w
        BY <1>2, <3>3 DEF Outcome
      <4>2. Len(w.chars) = MaxLen
        BY <1>1, <1>7, <3>3, <4>1
      <4>3. Correction(w) = w
        BY <1>1, CorrectionReshapes DEF Sound
      <4> QED
        BY <2>1, <3>3, <4>1, <4>2, <4>3 DEF Promised
    <3> QED
      BY <2>2, <3>1, <3>2, <3>3
  <2> QED
    BY <2>1, <2>2, <2>4, <2>5 DEF r
<1> QED
  BY <1>3, <1>6, <1>7

\* Backspace over the last vowel takes the tone along.
LEMMA ProcessBackspaceKeeps ==
  ASSUME NEW w, Sound(w)
  PROVE  /\ Sound(ProcessBackspace(w))
         /\ w.chars = <<>> => ProcessBackspace(w) = w
         /\ w.chars # <<>> => /\ Len(w.chars) > 0
                              /\ Len(ProcessBackspace(w).chars) = Len(w.chars) - 1
<1>1. w \in Words /\ w.chars \in Seq(Chars) /\ Len(w.chars) \in Nat /\ MaxLen \in Nat
  BY WordType, MaxLenAssumption DEF Sound
<1>2. CASE w.chars = <<>>
  BY <1>2 DEF ProcessBackspace
<1>3. CASE w.chars # <<>>
  <2> DEFINE v == [w EXCEPT !.chars = SubSeq(@, 1, Len(@) - 1)]
             u == ProcessBackspace(w)
  <2>1. Len(w.chars) > 0
    BY <1>1, <1>3, EmptySeq
  <2>2. /\ v \in Words /\ v.tone = w.tone /\ Len(v.chars) = Len(w.chars) - 1
        /\ \A i \in 1..(Len(w.chars) - 1) : v.chars[i] = w.chars[i]
    BY <1>1, <2>1, ShorterType
  <2>3. u = IF CanTransformWord(v) THEN v ELSE [v EXCEPT !.tone = 0]
    BY <1>3 DEF ProcessBackspace
  <2> HIDE DEF v, u
  <2>4. 0 \in Tones
    BY DEF Tones
  <2>5. u \in Words /\ u.chars = v.chars /\ (u.tone # 0 => CanTransformWord(v) /\ u = v)
    BY <2>2, <2>3, <2>4, WordType
  <2>6. Corrected(u)
    <3> SUFFICES ASSUME NEW i \in 2..Len(u.chars)
                 PROVE  ~(u.chars[i-1].origin = "u" /\ u.chars[i] = Letter("a", 24))
      BY DEF Corrected
    <3>1. Len(u.chars) = Len(w.chars) - 1
      BY <2>2, <2>5
    <3>2. i \in 1..(Len(w.chars) - 1) /\ i - 1 \in 1..(Len(w.chars) - 1) /\ i \in 2..Len(w.chars)
      BY <1>1, <3>1
    <3>3. u.chars[i] = w.chars[i] /\ u.chars[i-1] = w.chars[i-1]
      BY <2>2, <2>5, <3>2
    <3> QED
      BY <3>2, <3>3 DEF Sound, Corrected
  <2>7. Sound(u)
    BY <1>1, <2>2, <2>5, <2>6 DEF Sound
  <2> QED
    BY <1>3, <2>1, <2>2, <2>5, <2>7 DEF u
<1> QED
  BY <1>2, <1>3

\* The empty word is sound.
LEMMA EmptyWordSound == Sound(EmptyWord) /\ Len(EmptyWord.chars) = 0
<1>1. <<>> \in Seq(Chars) /\ Len(<<>>) = 0 /\ 0 \in Tones
  BY EmptySeq DEF Tones
<1> QED
  BY <1>1, MaxLenAssumption DEF Sound, EmptyWord, Words, Corrected

-----------------------------------------------------------------------------
(* The invariant and its consequences.                                     *)

\* The inductive invariant: a sound word, and what the last call was.
Inv ==
  /\ Sound(word)
  /\ event \in {"letter", "other", "backspace", "reset"}
  /\ ret \in {"PROCESSED", "REVERTED", "NOTHING"}

\* A key the engine does not know changes nothing.
LEMMA OtherKey ==
  ASSUME NEW w, NEW k, ~Processable(k)
  PROVE  ProcessKey(w, k) = [word |-> w, ret |-> "NOTHING"]
BY DEF ProcessKey, Result

\* The engine starts with the empty word.
LEMMA InitInv == ViInitEngine => Inv
BY EmptyWordSound DEF ViInitEngine, Inv

\* Every call keeps the word sound.
LEMMA NextInv == Inv /\ [Next]_vars => Inv'
<1> SUFFICES ASSUME Inv, [Next]_vars PROVE Inv'
  OBVIOUS
<1>1. ASSUME NEW k \in Keys, ViProcessKey(k) PROVE Inv'
  <2>1. CASE Processable(k)
    <3>1. /\ Sound(ProcessKey(word, k).word)
          /\ ProcessKey(word, k).ret \in {"PROCESSED", "REVERTED", "NOTHING"}
      BY <2>1, ProcessKeyKeeps DEF Inv
    <3> QED
      BY <1>1, <2>1, <3>1 DEF Inv, ViProcessKey
  <2>2. CASE ~Processable(k)
    BY <1>1, <2>2, OtherKey DEF Inv, ViProcessKey
  <2> QED
    BY <2>1, <2>2
<1>2. CASE ViProcessBackspace
  BY <1>2, ProcessBackspaceKeeps DEF Inv, ViProcessBackspace
<1>3. CASE ViResetEngine
  BY <1>3, EmptyWordSound DEF Inv, ViResetEngine
<1>4. CASE UNCHANGED vars
  BY <1>4 DEF Inv, vars
<1> QED
  BY <1>1, <1>2, <1>3, <1>4 DEF Next

\* Inv is an invariant of the engine.
THEOREM SpecInv == Spec => []Inv
<1>1. Inv /\ [Next]_vars => Inv'
  BY NextInv
<1> QED
  BY <1>1, InitInv, PTL DEF Spec

\* The word never outgrows chars[], and every letter carries a mark the
\* glyph table has for it.
THEOREM TypeCorrect == Spec => []TypeOK
<1>1. Inv => TypeOK
  BY WordType DEF Inv, Sound, TypeOK, Words
<1> QED
  BY <1>1, SpecInv, PTL

\* No tone is stranded on a word without a vowel.
THEOREM ToneNotStranded == Spec => []ToneHasVowel
<1>1. Inv => ToneHasVowel
  BY DEF Inv, Sound, ToneHasVowel
<1> QED
  BY <1>1, SpecInv, PTL

\* ViCorrection did its work wherever u and a came to stand together.
THEOREM NoUBreveEver == Spec => []NoUBreve
<1>1. Inv => NoUBreve
  BY DEF Inv, Sound, Corrected, NoUBreve
<1> QED
  BY <1>1, SpecInv, PTL

\* An open last vowel gives the tone up to the vowel before it, which is not
\* last and so keeps it: there is always a seat for the tone.
LEMMA VowelHasSeat ==
  ASSUME NEW w \in Words, CanTransformWord(w)
  PROVE  Seats(w) # {} /\ Seats(w) \subseteq 1..Len(w.chars)
<1> DEFINE c == w.chars
           after(x, y, i) == i > 2 /\ c[i-2].origin = x /\ c[i-1].origin = y
           open(i) == /\ i = Len(c) /\ c[i].mark = 0
                      /\ ~after("g", "i", i) /\ ~after("q", "u", i)
                      /\ i > 1 /\ c[i-1].origin \in Vowels
<1>1. Len(c) \in Nat /\ DOMAIN c = 1..Len(c)
  BY WordType
<1>2. Seats(w) = {i \in 1..Len(c) : c[i].origin \in Vowels /\ ~open(i)}
  BY <1>1 DEF Seats
<1>3. PICK i \in 1..Len(c) : c[i].origin \in Vowels
  BY <1>1 DEF CanTransformWord
<1>4. CASE open(i)
  <2>1. i - 1 \in 1..Len(c) /\ i - 1 # Len(c) /\ c[i-1].origin \in Vowels
    BY <1>1, <1>4
  <2>2. ~open(i-1)
    BY <2>1
  <2> HIDE DEF open
  <2> QED
    BY <1>2, <2>1, <2>2
<1>5. CASE ~open(i)
  <2> HIDE DEF open
  <2> QED
    BY <1>2, <1>3, <1>5
<1> QED
  BY <1>2, <1>4, <1>5

\* ViGetCurrentWord finds a vowel for the tone of every word there can be.
THEOREM ToneAlwaysDrawn == Spec => []ToneIsDrawn
<1>1. Inv => ToneIsDrawn
  <2> SUFFICES ASSUME Inv, word.tone # 0
               PROVE  \E i \in DOMAIN word.chars : ToneAt(word, i) = word.tone
    BY DEF ToneIsDrawn
  <2>1. word \in Words /\ CanTransformWord(word)
    BY DEF Inv, Sound
  <2>2. Len(word.chars) \in Nat /\ DOMAIN word.chars = 1..Len(word.chars)
    BY <2>1, WordType
  <2>3. Seats(word) # {} /\ Seats(word) \in SUBSET (1..Len(word.chars))
    BY <2>1, VowelHasSeat
  <2>4. LastOf(Seats(word)) \in Seats(word)
    BY <2>2, <2>3, LastExists
  <2>5. ToneAt(word, LastOf(Seats(word))) = word.tone
    BY <2>3 DEF ToneAt
  <2> QED
    BY <2>2, <2>3, <2>4, <2>5
<1> QED
  BY <1>1, SpecInv, PTL

\* A key refused by the engine left no trace in the word.
THEOREM RefusedKeyLeavesWord == Spec => RefusedLeavesWord
<1>1. Inv /\ [Next]_vars
        => [event' \in {"letter", "other"} /\ ret' = "NOTHING" => word' = word]_vars
  <2> SUFFICES ASSUME Inv, [Next]_vars,
                      event' \in {"letter", "other"}, ret' = "NOTHING"
               PROVE  word' = word
    OBVIOUS
  <2>1. ASSUME NEW k \in Keys, ViProcessKey(k) PROVE word' = word
    <3>1. CASE Processable(k)
      BY <2>1, <3>1, ProcessKeyKeeps DEF Inv, ViProcessKey, Promised
    <3>2. CASE ~Processable(k)
      BY <2>1, <3>2, OtherKey DEF ViProcessKey
    <3> QED
      BY <3>1, <3>2
  <2>2. ~ViProcessBackspace /\ ~ViResetEngine
    BY DEF ViProcessBackspace, ViResetEngine
  <2>3. CASE UNCHANGED vars
    BY <2>3 DEF vars
  <2> QED
    BY <2>1, <2>2, <2>3 DEF Next
<1> QED
  BY <1>1, SpecInv, PTL DEF Spec, RefusedLeavesWord

\* The rows of the table a letter and its mark start, the tone to be added.
LEMMA RowsOfLetter ==
  ASSUME NEW o \in InCharSet, NEW m \in MarksOf(o), NEW t \in Tones,
         NEW b \in {0, 1}
  PROVE  LetterOfRow(CharSetIndex(o) + m + (IF o = "d" THEN 0 ELSE t) + b)
           = IF o = Zero THEN "u" ELSE o
<1>1. t \in 0..10
  BY DEF Tones
<1>2. CASE o = "a"
  <2>1. CharSetIndex(o) = 0 /\ m \in {0, 12, 24}
    BY <1>2 DEF CharSetIndex, MarksOf, Zero
  <2>2. CharSetIndex(o) + m + t + b \in 0..35
    BY <1>1, <2>1
  <2> QED
    BY <1>2, <2>2 DEF LetterOfRow, Zero
<1>3. CASE o = Zero
  <2>1. CharSetIndex(o) = 0 /\ m = 154
    BY <1>3 DEF CharSetIndex, MarksOf, Zero
  <2>2. CharSetIndex(o) + m + t + b \in 142..165
    BY <1>1, <2>1
  <2> QED
    BY <1>3, <2>2 DEF LetterOfRow, Zero
<1>4. CASE o = "d"
  <2>1. CharSetIndex(o) = 40 /\ m \in {0, 2}
    BY <1>4 DEF CharSetIndex, MarksOf, Zero
  <2>2. CharSetIndex(o) + m + 0 + b \in 40..43
    BY <2>1
  <2> QED
    BY <1>4, <2>2 DEF LetterOfRow, Zero
<1>5. CASE o = "e"
  <2>1. CharSetIndex(o) = 44 /\ m \in {0, 12}
    BY <1>5 DEF CharSetIndex, MarksOf, Zero
  <2>2. CharSetIndex(o) + m + t + b \in 44..67
    BY <1>1, <2>1
  <2> QED
    BY <1>5, <2>2 DEF LetterOfRow, Zero
<1>6. CASE o = "i"
  <2>1. CharSetIndex(o) = 74 /\ m = 0
    BY <1>6 DEF CharSetIndex, MarksOf, Zero
  <2>2. CharSetIndex(o) + m + t + b \in 74..85
    BY <1>1, <2>1
  <2> QED
    BY <1>6, <2>2 DEF LetterOfRow, Zero
<1>7. CASE o = "o"
  <2>1. CharSetIndex(o) = 96 /\ m \in {0, 12, 24}
    BY <1>7 DEF CharSetIndex, MarksOf, Zero
  <2>2. CharSetIndex(o) + m + t + b \in 96..131
    BY <1>1, <2>1
  <2> QED
    BY <1>7, <2>2 DEF LetterOfRow, Zero
<1>8. CASE o = "u"
  <2>1. CharSetIndex(o) = 142 /\ m \in {0, 12}
    BY <1>8 DEF CharSetIndex, MarksOf, Zero
  <2>2. CharSetIndex(o) + m + t + b \in 142..165
    BY <1>1, <2>1
  <2> QED
    BY <1>8, <2>2 DEF LetterOfRow, Zero
<1>9. CASE o = "y"
  <2>1. CharSetIndex(o) = 172 /\ m = 0
    BY <1>9 DEF CharSetIndex, MarksOf, Zero
  <2>2. CharSetIndex(o) + m + t + b \in 172..183
    BY <1>1, <2>1
  <2> QED
    BY <1>9, <2>2 DEF LetterOfRow, Zero
<1> QED
  BY <1>2, <1>3, <1>4, <1>5, <1>6, <1>7, <1>8, <1>9 DEF InCharSet

\* The sum of the shifts stays in the rows of the letter typed.
THEOREM GlyphsShowTheirLetters == Spec => []GlyphShowsItsLetter
<1>1. Inv => GlyphShowsItsLetter
  <2> SUFFICES ASSUME Inv, NEW i \in DOMAIN word.chars, NEW upper \in BOOLEAN,
                      word.chars[i].origin \in InCharSet
               PROVE  LetterOfRow(GlyphIndex(word, i, upper))
                        = IF word.chars[i].origin = Zero THEN "u" ELSE word.chars[i].origin
    BY DEF GlyphShowsItsLetter
  <2> DEFINE o == word.chars[i].origin
             m == word.chars[i].mark
             b == IF upper THEN 0 ELSE 1
  <2>1. word \in Words
    BY DEF Inv, Sound
  <2>2. word.chars[i] \in Chars
    BY <2>1, WordType
  <2>3. m \in MarksOf(o)
    BY <2>2, CharsType
  <2>4. word.tone \in Tones /\ 0 \in Tones
    BY <2>1 DEF Words, Tones
  <2>5. ToneAt(word, i) \in Tones
    BY <2>4 DEF ToneAt
  <2>6. b \in {0, 1}
    OBVIOUS
  <2>7. GlyphIndex(word, i, upper)
          = CharSetIndex(o) + m + (IF o = "d" THEN 0 ELSE ToneAt(word, i)) + b
    BY DEF GlyphIndex
  <2> HIDE DEF o, m, b
  <2>8. o \in InCharSet
    BY DEF o
  <2>9. LetterOfRow(CharSetIndex(o) + m + (IF o = "d" THEN 0 ELSE ToneAt(word, i)) + b)
          = IF o = Zero THEN "u" ELSE o
    BY <2>3, <2>5, <2>6, <2>8, RowsOfLetter
  <2> QED
    BY <2>7, <2>9 DEF o
<1> QED
  BY <1>1, SpecInv, PTL

(***************************************************************************)
(* The engine implements Composer: a letter takes the word to one of the   *)
(* lengths LenAfterLetter names or is refused by a full word, and the      *)
(* other calls do what their names say.                                    *)
(***************************************************************************)
THEOREM EngineKeepsPromise == Spec => PromiseKept
<1>1. ViInitEngine => Promise!Init
  BY EmptyWordSound DEF ViInitEngine, Promise!Init
<1>2. Inv /\ [Next]_vars => [Promise!Next]_(Promise!composerVars)
  <2> SUFFICES ASSUME Inv, [Next]_vars
               PROVE  [Promise!Next]_(Promise!composerVars)
    OBVIOUS
  <2>0. Sound(word) /\ Len(word.chars) \in Nat /\ MaxLen \in Nat \ {0}
    BY WordType, MaxLenAssumption DEF Inv, Sound
  <2>1. ASSUME NEW k \in Keys, ViProcessKey(k), Processable(k)
        PROVE  Promise!PressLetter
    <3>1. Promised(word, ProcessKey(word, k))
      BY <2>0, <2>1, ProcessKeyKeeps
    <3>2. word' = ProcessKey(word, k).word /\ ret' = ProcessKey(word, k).ret /\ event' = "letter"
      BY <2>1 DEF ViProcessKey
    <3>3. CASE /\ ret' # "NOTHING"
               /\ Len(word'.chars) \in {Len(word.chars), Len(word.chars) + 1} \cap 1..MaxLen
      <4>1. Len(word'.chars) \in Promise!LenAfterLetter(Len(word.chars))
        BY <2>0, <3>3 DEF Promise!LenAfterLetter
      <4> QED
        BY <3>2, <3>3, <4>1 DEF Promise!PressLetter
    <3>4. CASE ret' = "NOTHING" /\ Len(word.chars) = MaxLen /\ word' = word
      BY <3>2, <3>4 DEF Promise!PressLetter
    <3> QED
      BY <3>1, <3>2, <3>3, <3>4 DEF Promised
  <2>2. ASSUME NEW k \in Keys, ViProcessKey(k), ~Processable(k)
        PROVE  Promise!PressOther
    BY <2>2, OtherKey DEF ViProcessKey, Promise!PressOther
  <2>3. ASSUME ViProcessBackspace PROVE Promise!Backspace
    <3>1. CASE word.chars = <<>>
      BY <2>0, <2>3, <3>1, ProcessBackspaceKeeps, EmptyWordSound
      DEF ViProcessBackspace, Promise!Backspace, EmptyWord
    <3>2. CASE word.chars # <<>>
      BY <2>0, <2>3, <3>2, ProcessBackspaceKeeps DEF ViProcessBackspace, Promise!Backspace
    <3> QED
      BY <3>1, <3>2
  <2>4. ASSUME ViResetEngine PROVE Promise!Reset
    BY <2>4, EmptyWordSound DEF ViResetEngine, Promise!Reset
  <2>5. ASSUME UNCHANGED vars PROVE UNCHANGED Promise!composerVars
    BY <2>5 DEF vars, Promise!composerVars
  <2> QED
    BY <2>1, <2>2, <2>3, <2>4, <2>5 DEF Next, Promise!Next
<1> QED
  BY <1>1, <1>2, SpecInv, PTL DEF Spec, PromiseKept, Promise!Spec

-----------------------------------------------------------------------------
(* Tone keys.  Every other transform looks at the letters and their marks  *)
(* only, and leaves the tone alone.                                        *)

\* The outcomes of a transform on two words of the same letters.
Alike(r, q) == r.ret = q.ret /\ r.word.chars = q.word.chars

\* A word is its letters and its tone.
LEMMA WordEqual ==
  ASSUME NEW w \in Words, NEW v \in Words, w.chars = v.chars, w.tone = v.tone
  PROVE  w = v
BY DEF Words

\* A mark is set on the letters.
LEMMA SetMarkAlike ==
  ASSUME NEW w \in Words, NEW v \in Words, w.chars = v.chars, NEW i, NEW m
  PROVE  SetMark(w, i, m).chars = SetMark(v, i, m).chars
<1>1. ASSUME NEW u \in Words
      PROVE  SetMark(u, i, m).chars = [u.chars EXCEPT ![i].mark = m]
  BY DEF SetMark, Words
<1> QED
  BY <1>1

\* So is it by ViDoCharRevertTransform,
LEMMA CharRevertTransformAlike ==
  ASSUME NEW w \in Words, NEW v \in Words, w.chars = v.chars, NEW pairs
  PROVE  Alike(CharRevertTransform(w, pairs), CharRevertTransform(v, pairs))
<1> DEFINE carrying(s, j) == {i \in DOMAIN s : s[i] = Letter(pairs[j][1], pairs[j][2])}
           carried(s) == {j \in DOMAIN pairs : carrying(s, j) # {}}
           pairOf(s, i) == {j \in DOMAIN pairs : s[i].origin = pairs[j][1]}
           targets(s) == {i \in DOMAIN s : i > WordBreak(s) /\ pairOf(s, i) # {}}
           undone(s) == LastOf(carrying(s, FirstOf(carried(s))))
           marked(s) == LastOf(targets(s))
           mark(s) == pairs[FirstOf(pairOf(s, marked(s)))][2]
<1>1. ASSUME NEW u
      PROVE  CharRevertTransform(u, pairs) =
               IF carried(u.chars) # {}
               THEN Result(SetMark(u, undone(u.chars), 0), "REVERTED")
               ELSE IF targets(u.chars) # {}
               THEN Result(SetMark(u, marked(u.chars), mark(u.chars)), "PROCESSED")
               ELSE Result(u, "NOTHING")
  BY DEF CharRevertTransform
<1> HIDE DEF carrying, carried, pairOf, targets, undone, marked, mark
<1>2. \A i, m : SetMark(w, i, m).chars = SetMark(v, i, m).chars
  BY SetMarkAlike
<1> QED
  BY <1>1, <1>2 DEF Alike, Result

\* and by ViDoProcessUO,
LEMMA ProcessUOAlike ==
  ASSUME NEW w \in Words, NEW v \in Words, w.chars = v.chars
  PROVE  Alike(ProcessUO(w), ProcessUO(v))
<1> DEFINE horned(s, i) == s[i-1].mark = 12 /\ s[i].mark = 24
           acting(s) == {i \in 2..Len(s) : /\ s[i].origin = "o" /\ s[i-1].origin = "u"
                                           /\ horned(s, i) \/ i > WordBreak(s)}
           last(s) == LastOf(acting(s))
<1>1. ASSUME NEW u
      PROVE  ProcessUO(u) =
               IF acting(u.chars) = {} THEN Result(u, "NOTHING")
               ELSE IF horned(u.chars, last(u.chars))
               THEN Result(SetMark(SetMark(u, last(u.chars)-1, 0), last(u.chars), 0), "REVERTED")
               ELSE Result(SetMark(SetMark(u, last(u.chars)-1, 12), last(u.chars), 24), "PROCESSED")
  BY DEF ProcessUO
<1> HIDE DEF horned, acting, last
<1>2. CASE acting(w.chars) = {}
  BY <1>1, <1>2 DEF Alike, Result
<1>3. CASE acting(w.chars) # {}
  <2> DEFINE i == last(w.chars)
  <2>1. ASSUME NEW m, NEW p
        PROVE  SetMark(SetMark(w, i-1, m), i, p).chars = SetMark(SetMark(v, i-1, m), i, p).chars
    <3>1. ASSUME NEW u \in Words, NEW j, NEW q
          PROVE  SetMark(u, j, q).chars = [u.chars EXCEPT ![j].mark = q]
      BY DEF SetMark, Words
    <3>2. ASSUME NEW u \in Words
          PROVE  SetMark(SetMark(u, i-1, m), i, p).chars
                   = [[u.chars EXCEPT ![i-1].mark = m] EXCEPT ![i].mark = p]
      BY DEF SetMark, Words
    <3> QED
      BY <3>2
  <2>2. i = last(v.chars) /\ acting(v.chars) # {} /\ (horned(w.chars, i) <=> horned(v.chars, i))
    BY <1>3
  <2> HIDE DEF i
  <2>3. CASE horned(w.chars, i)
    <3>1. /\ ProcessUO(w) = Result(SetMark(SetMark(w, i-1, 0), i, 0), "REVERTED")
          /\ ProcessUO(v) = Result(SetMark(SetMark(v, i-1, 0), i, 0), "REVERTED")
      BY <1>1, <1>3, <2>2, <2>3 DEF i
    <3> QED
      BY <2>1, <3>1 DEF Alike, Result
  <2>4. CASE ~horned(w.chars, i)
    <3>1. /\ ProcessUO(w) = Result(SetMark(SetMark(w, i-1, 12), i, 24), "PROCESSED")
          /\ ProcessUO(v) = Result(SetMark(SetMark(v, i-1, 12), i, 24), "PROCESSED")
      BY <1>1, <1>3, <2>2, <2>4 DEF i
    <3> QED
      BY <2>1, <3>1 DEF Alike, Result
  <2> QED
    BY <2>3, <2>4
<1> QED
  BY <1>2, <1>3

\* and by what tries the one first and the other then.
LEMMA UOThenAlike ==
  ASSUME NEW w \in Words, NEW v \in Words, w.chars = v.chars, NEW pairs
  PROVE  Alike(UOThen(w, pairs), UOThen(v, pairs))
BY ProcessUOAlike, CharRevertTransformAlike DEF UOThen, Alike

\* A letter is appended to the letters.
LEMMA AppendWordAlike ==
  ASSUME NEW w \in Words, NEW v \in Words, w.chars = v.chars, NEW o, NEW m
  PROVE  /\ AppendWord(w, o, m).chars = AppendWord(v, o, m).chars
         /\ AppendWord(w, o, m).tone = w.tone
<1>1. ASSUME NEW u \in Words
      PROVE  /\ AppendWord(u, o, m).chars = Append(u.chars, Letter(o, m))
             /\ AppendWord(u, o, m).tone = u.tone
  BY DEF AppendWord, Words
<1> QED
  BY <1>1

\* A w behind another letter than a lone w looks at the letters only.
LEMMA ProcessWFullAlike ==
  ASSUME NEW w \in Words, NEW v \in Words, w.chars = v.chars,
         Len(w.chars) > 0 => w.chars[Len(w.chars)].origin # Zero
  PROVE  /\ Alike(ProcessWFull(w), ProcessWFull(v))
         /\ ProcessWFull(w).word.tone = w.tone
<1> DEFINE settled(s) == [i \in DOMAIN s |->
                             IF s[i].origin = Zero THEN Letter("u", 12) ELSE s[i]]
<1>1. ASSUME NEW u \in Words PROVE SettleZeros(u).chars = settled(u.chars)
  <2>1. SettleZeros(u) = [u EXCEPT !.chars = settled(u.chars)]
    BY DEF SettleZeros
  <2> HIDE DEF settled
  <2> QED
    BY <2>1 DEF Words
<1> HIDE DEF settled
<1>2. ASSUME NEW u \in Words
      PROVE  /\ SettleZeros(u) \in Words /\ SettleZeros(u).tone = u.tone
             /\ Transforms(SettleZeros(u), ProcessW(SettleZeros(u)))
  <2>1. SettleZeros(u) \in Words /\ SettleZeros(u).tone = u.tone
    BY SettleZerosReshapes DEF Reshapes
  <2> QED
    BY <2>1, PairLists, UOThenTransforms DEF ProcessW
<1>3. SettleZeros(w).chars = SettleZeros(v).chars
  BY <1>1
<1>4. Alike(ProcessW(SettleZeros(w)), ProcessW(SettleZeros(v)))
  BY <1>2, <1>3, UOThenAlike DEF ProcessW
<1> DEFINE done(u) == ProcessW(SettleZeros(u))
<1>5. ASSUME NEW u \in Words, u.chars = w.chars
      PROVE  ProcessWFull(u) = IF done(u).ret # "NOTHING" THEN done(u)
                               ELSE IF Len(u.chars) < MaxLen
                               THEN Result(AppendWord(done(u).word, Zero, 154), "PROCESSED")
                               ELSE done(u)
  BY <1>5 DEF ProcessWFull
<1>6. ASSUME NEW u \in Words
      PROVE  done(u).word \in Words /\ done(u).word.tone = u.tone
  BY <1>2 DEF Transforms, Reshapes
<1> HIDE DEF done
<1>8. done(w).ret = done(v).ret /\ done(w).word.chars = done(v).word.chars
  BY <1>4 DEF done, Alike
<1>9. CASE done(w).ret # "NOTHING" \/ ~(Len(w.chars) < MaxLen)
  <2>1. ProcessWFull(w) = done(w) /\ ProcessWFull(v) = done(v)
    BY <1>5, <1>8, <1>9
  <2> QED
    BY <1>6, <1>8, <2>1 DEF Alike
<1>10. CASE done(w).ret = "NOTHING" /\ Len(w.chars) < MaxLen
  <2> DEFINE appended(u) == AppendWord(done(u).word, Zero, 154)
  <2>1. /\ ProcessWFull(w) = Result(appended(w), "PROCESSED")
        /\ ProcessWFull(v) = Result(appended(v), "PROCESSED")
    BY <1>5, <1>8, <1>10
  <2>2. appended(w).chars = appended(v).chars /\ appended(w).tone = w.tone
    <3>1. PICK a \in Words : a = done(w).word /\ a.tone = w.tone
      BY <1>6
    <3>2. PICK b \in Words : b = done(v).word
      BY <1>6
    <3>3. a.chars = b.chars
      BY <1>8, <3>1, <3>2
    <3>4. /\ AppendWord(a, Zero, 154).chars = AppendWord(b, Zero, 154).chars
          /\ AppendWord(a, Zero, 154).tone = a.tone
      <4> HIDE DEF appended
      <4> QED
        BY <3>3, AppendWordAlike
    <3> QED
      BY <3>1, <3>2, <3>4
  <2> HIDE DEF appended
  <2> QED
    BY <2>1, <2>2 DEF Alike, Result
<1> QED
  BY <1>9, <1>10

\* The triggers that are no tone.
Untoned == Triggers \ {"S", "F", "R", "X", "J", "Z"}

\* A trigger that is no tone looks at the letters only, and keeps the tone.
LEMMA TriggerSelectionAlike ==
  ASSUME NEW w \in Words, NEW v \in Words, w.chars = v.chars, NEW trigger \in Untoned,
         trigger = "WFull" /\ Len(w.chars) > 0 => w.chars[Len(w.chars)].origin # Zero
  PROVE  /\ Alike(TriggerSelection(w, trigger), TriggerSelection(v, trigger))
         /\ TriggerSelection(w, trigger).word.tone = w.tone
<1>1. CASE trigger = "WFull"
  <2>1. \A u : TriggerSelection(u, trigger) = ProcessWFull(u)
    BY <1>1 DEF TriggerSelection
  <2> QED
    BY <1>1, <2>1, ProcessWFullAlike
<1>2. CASE trigger \in {"W", "A", "D", "E", "O", "AEO", "AW", "OUW"}
  <2>1. ASSUME NEW u
        PROVE  LET r == TriggerSelection(u, trigger) IN
        /\ trigger = "W" => r = UOThen(u, << <<"o", 24>>, <<"u", 12>>, <<"a", 24>> >>)
        /\ trigger = "OUW" => r = UOThen(u, << <<"o", 24>>, <<"u", 12>> >>)
        /\ trigger = "A" => r = CharRevertTransform(u, << <<"a", 12>> >>)
        /\ trigger = "D" => r = CharRevertTransform(u, << <<"d", 2>> >>)
        /\ trigger = "E" => r = CharRevertTransform(u, << <<"e", 12>> >>)
        /\ trigger = "O" => r = CharRevertTransform(u, << <<"o", 12>> >>)
        /\ trigger = "AW" => r = CharRevertTransform(u, << <<"a", 24>> >>)
        /\ trigger = "AEO" => r = CharRevertTransform(u, << <<"a", 12>>, <<"o", 12>>, <<"e", 12>> >>)
    BY <1>2 DEF TriggerSelection, ProcessW, ProcessOUW, ProcessAOE
  <2>2. Alike(TriggerSelection(w, trigger), TriggerSelection(v, trigger))
    BY <1>2, <2>1, UOThenAlike, CharRevertTransformAlike
  <2>3. Transforms(w, TriggerSelection(w, trigger))
    BY <1>2, <2>1, PairLists, UOThenTransforms, CharRevertTransformTransforms
  <2> QED
    BY <2>2, <2>3 DEF Transforms, Reshapes
<1> QED
  BY <1>1, <1>2 DEF Untoned, Triggers

\* ViCorrection looks at the letters only.
LEMMA CorrectionAlike ==
  ASSUME NEW w \in Words, NEW v \in Words, w.chars = v.chars
  PROVE  Correction(w).chars = Correction(v).chars
<1> DEFINE isUA(s, i) == /\ i \in 2..Len(s) /\ s[i-1].origin = "u"
                         /\ s[i] = Letter("a", 24)
           corrected(s) == [i \in DOMAIN s |-> IF isUA(s, i) THEN Letter("a", 0)
                                               ELSE IF isUA(s, i + 1) THEN Letter("u", 12)
                                               ELSE s[i]]
<1>1. ASSUME NEW u \in Words PROVE Correction(u) = [u EXCEPT !.chars = corrected(u.chars)]
  BY DEF Correction
<1> HIDE DEF corrected
<1>2. ASSUME NEW u \in Words PROVE Correction(u).chars = corrected(u.chars)
  BY <1>1 DEF Words
<1> QED
  BY <1>2

\* A key that is no tone key does the same to the letters, whatever the tone.
LEMMA LetterKeyAlike ==
  ASSUME NEW w, NEW v, Sound(w), Sound(v), w.chars = v.chars, NEW k \in Keys, Processable(k),
         k \in DOMAIN Rules => Rules[k] \in Untoned,
         k \in DOMAIN Rules /\ Rules[k] = "WFull" /\ Len(w.chars) > 0
           => w.chars[Len(w.chars)].origin # Zero
  PROVE  /\ ProcessKey(w, k).word.chars = ProcessKey(v, k).word.chars
         /\ ProcessKey(w, k).word.tone = w.tone
<1> DEFINE tried(u) == IF k \in DOMAIN Rules THEN TriggerSelection(u, Rules[k])
                       ELSE Result(u, "NOTHING")
           room(u) == Len(tried(u).word.chars) < MaxLen
<1>1. w \in Words /\ v \in Words
  BY DEF Sound
<1>2. Alike(tried(w), tried(v)) /\ tried(w).word.tone = w.tone
  <2>1. CASE k \in DOMAIN Rules
    BY <1>1, <2>1, TriggerSelectionAlike
  <2>2. CASE k \notin DOMAIN Rules
    BY <2>2 DEF Alike, Result
  <2> QED
    BY <2>1, <2>2
<1>3. ASSUME NEW u, Sound(u) PROVE tried(u).word \in Words
  <2>1. CASE k \in DOMAIN Rules
    <3>1. Rules[k] \in Triggers
      BY <2>1, RulesAssumption
    <3>2. Outcome(u, TriggerSelection(u, Rules[k]))
      BY <1>3, <3>1, TriggerSelectionOutcome DEF Sound
    <3> QED
      BY <2>1, <3>2 DEF Outcome
  <2>2. CASE k \notin DOMAIN Rules
    BY <1>3, <2>2 DEF Sound, Result
  <2> QED
    BY <2>1, <2>2
<1>4. ASSUME NEW u
      PROVE  ProcessKey(u, k) = IF tried(u).ret # "PROCESSED" /\ room(u)
                                THEN Result(Correction(AppendWord(tried(u).word, k, 0)), "PROCESSED")
                                ELSE Result(Correction(tried(u).word), tried(u).ret)
  BY DEF ProcessKey
<1> HIDE DEF tried
<1>5. /\ tried(w).word \in Words /\ tried(v).word \in Words
      /\ tried(w).word.chars = tried(v).word.chars /\ tried(w).ret = tried(v).ret
  BY <1>2, <1>3 DEF Alike
<1>6. k # Zero /\ 0 \in MarksOf(k)
  <2>1. k # Zero
    BY RulesAssumption DEF Processable, Latin, Zero
  <2> QED
    BY <2>1 DEF MarksOf
<1>7. ASSUME NEW u \in Words
      PROVE  AppendWord(u, k, 0) \in Words /\ AppendWord(u, k, 0).tone = u.tone
  BY <1>6, AppendWordType
<1>8. ASSUME NEW u \in Words, NEW x \in Words, u.chars = x.chars
      PROVE  Correction(u).chars = Correction(x).chars /\ Correction(u).tone = u.tone
  BY <1>8, CorrectionAlike, CorrectionReshapes DEF Reshapes
<1>9. CASE tried(w).ret # "PROCESSED" /\ room(w)
  <2>1. /\ ProcessKey(w, k).word = Correction(AppendWord(tried(w).word, k, 0))
        /\ ProcessKey(v, k).word = Correction(AppendWord(tried(v).word, k, 0))
    BY <1>4, <1>5, <1>9 DEF Result
  <2> DEFINE appended(u) == AppendWord(tried(u).word, k, 0)
  <2>2. /\ appended(w) \in Words /\ appended(v) \in Words
        /\ appended(w).chars = appended(v).chars /\ appended(w).tone = w.tone
    <3>1. PICK a \in Words : a = tried(w).word /\ a.tone = w.tone
      BY <1>2, <1>5
    <3>2. PICK b \in Words : b = tried(v).word
      BY <1>5
    <3>3. a.chars = b.chars
      BY <1>5, <3>1, <3>2
    <3>4. AppendWord(a, k, 0) \in Words /\ AppendWord(a, k, 0).tone = w.tone
      BY <1>7, <3>1
    <3>5. AppendWord(b, k, 0) \in Words
      BY <1>7
    <3>6. AppendWord(a, k, 0).chars = AppendWord(b, k, 0).chars
      <4> HIDE DEF appended
      <4> QED
        BY <3>3, AppendWordAlike
    <3> QED
      BY <3>1, <3>2, <3>4, <3>5, <3>6
  <2> HIDE DEF appended
  <2>3. /\ Correction(appended(w)).chars = Correction(appended(v)).chars
        /\ Correction(appended(w)).tone = w.tone
    BY <1>8, <2>2
  <2> QED
    BY <2>1, <2>3 DEF appended
<1>10. CASE ~(tried(w).ret # "PROCESSED" /\ room(w))
  <2>1. /\ ProcessKey(w, k).word = Correction(tried(w).word)
        /\ ProcessKey(v, k).word = Correction(tried(v).word)
    BY <1>4, <1>5, <1>10 DEF Result
  <2> QED
    BY <1>2, <1>5, <1>8, <2>1
<1> QED
  BY <1>9, <1>10

\* A tone key changes the tone of a word with a vowel, and nothing else.
LEMMA ToneStroke ==
  ASSUME NEW w, Sound(w), NEW t \in Keys, IsToneKey(t), CanTransformWord(w)
  PROVE  LET T == ToneOf(Rules[t]) IN
         /\ T \in Tones /\ T # 0 /\ [w EXCEPT !.tone = T] \in Words
         /\ Sound([w EXCEPT !.tone = T]) /\ CanTransformWord([w EXCEPT !.tone = T])
         /\ w.tone # T => ProcessKey(w, t).word = [w EXCEPT !.tone = T]
         /\ w.tone = T /\ Len(w.chars) < MaxLen => ProcessKey(w, t).word =
              [chars |-> Append(w.chars, Letter(t, 0)), tone |-> 0]
<1> DEFINE T == ToneOf(Rules[t])
<1>1. T \in Tones /\ T # 0 /\ Rules[t] \notin {"WFull", "W", "A", "D", "E", "O", "AEO", "AW", "OUW"}
  BY DEF IsToneKey, ToneOf, Tones
<1>2. TriggerSelection(w, Rules[t]) = WordTransform(w, T)
  BY <1>1 DEF TriggerSelection
<1>3. t \in DOMAIN Rules /\ Processable(t)
  BY DEF IsToneKey, Processable
<1> HIDE DEF T
<1>4. w \in Words /\ Corrected(w) /\ Len(w.chars) <= MaxLen
  BY DEF Sound
<1>5. ASSUME NEW x \in Tones
      PROVE  /\ [w EXCEPT !.tone = x] \in Words /\ [w EXCEPT !.tone = x].chars = w.chars
             /\ [w EXCEPT !.tone = x].tone = x
  BY <1>4, WordType
<1>6. ASSUME NEW v \in Words, v.chars = w.chars
      PROVE  Sound(v) /\ CanTransformWord(v) /\ Corrected(v)
  BY <1>4, <1>6 DEF Sound, Corrected, CanTransformWord
<1>7. ASSUME w.tone # T PROVE ProcessKey(w, t).word = [w EXCEPT !.tone = T]
  <2> DEFINE v == [w EXCEPT !.tone = T]
  <2>1. WordTransform(w, T) = Result(v, "PROCESSED")
    BY <1>7 DEF WordTransform
  <2>2. v \in Words /\ v.chars = w.chars
    BY <1>1, <1>5
  <2> HIDE DEF v
  <2>3. Correction(v) = v
    BY <1>6, <2>2, CorrectionReshapes
  <2>4. ProcessKey(w, t).word = Correction(v)
    BY <1>2, <1>3, <2>1 DEF ProcessKey, Result
  <2> QED
    BY <2>3, <2>4 DEF v
<1>8. ASSUME w.tone = T, Len(w.chars) < MaxLen
      PROVE  ProcessKey(w, t).word = [chars |-> Append(w.chars, Letter(t, 0)), tone |-> 0]
  <2> DEFINE v == [w EXCEPT !.tone = 0]
             u == AppendWord(v, t, 0)
  <2>1. WordTransform(w, T) = Result(v, "REVERTED")
    BY <1>8 DEF WordTransform
  <2>2. v \in Words /\ v.chars = w.chars /\ v.tone = 0
    <3>1. 0 \in Tones
      BY DEF Tones
    <3> QED
      BY <1>5, <3>1
  <2> HIDE DEF v
  <2>3. ProcessKey(w, t).word = Correction(u)
    BY <1>2, <1>3, <1>8, <2>1, <2>2 DEF ProcessKey, Result
  <2>4. t # Zero /\ 0 \in MarksOf(t)
    <3>1. t # Zero
      BY <1>3, RulesAssumption
    <3> QED
      BY <3>1 DEF MarksOf
  <2>5. u \in Words /\ u.tone = 0
    BY <2>2, <2>4, AppendWordType
  <2>6. u.chars = Append(w.chars, Letter(t, 0))
    BY <2>2 DEF AppendWord, Words
  <2>7. u = [chars |-> Append(w.chars, Letter(t, 0)), tone |-> 0]
    BY <2>5, <2>6 DEF Words
  <2> HIDE DEF u
  <2>8. Corrected(u)
    <3>1. w.chars \in Seq(Chars) /\ Len(w.chars) \in Nat
      BY <1>4, WordType
    <3>2. /\ Len(u.chars) = Len(w.chars) + 1
          /\ \A i \in 1..Len(w.chars) : u.chars[i] = w.chars[i]
          /\ u.chars[Len(w.chars) + 1] = Letter(t, 0)
      <4> DEFINE s == Append(w.chars, Letter(t, 0))
      <4>1. Letter(t, 0) \in Chars
        BY <2>4, LetterType
      <4>2. /\ Len(s) = Len(w.chars) + 1 /\ \A i \in 1..Len(w.chars) : s[i] = w.chars[i]
            /\ s[Len(w.chars) + 1] = Letter(t, 0)
        BY <3>1, <4>1, AppendProperties
      <4> HIDE DEF s
      <4> QED
        BY <2>6, <4>2 DEF s
    <3>3. Letter(t, 0) # Letter("a", 24)
      BY DEF Letter
    <3> SUFFICES ASSUME NEW i \in 2..Len(u.chars),
                        u.chars[i-1].origin = "u", u.chars[i] = Letter("a", 24)
                 PROVE  FALSE
      BY DEF Corrected
    <3>4. i \in 2..Len(w.chars)
      BY <3>1, <3>2, <3>3
    <3>5. i - 1 \in 1..Len(w.chars) /\ i \in 1..Len(w.chars)
      BY <3>1, <3>4
    <3> QED
      BY <1>4, <3>2, <3>4, <3>5 DEF Corrected
  <2>9. Correction(u) = u
    BY <2>5, <2>8, CorrectionReshapes
  <2> QED
    BY <2>3, <2>7, <2>9
<1> QED
  BY <1>1, <1>5, <1>6, <1>7, <1>8 DEF T

\* A tone key before the next letter or behind it gives the same word, as the
\* README of the engine says: ViDoWordTransform puts the tone on the word, and
\* no other transform of vi-engine.c looks at it, a lone w taken back apart.
THEOREM ToneKeyAnywhere == Spec => []ToneKeyIsFree
<1>1. Inv => ToneKeyIsFree
  <2> SUFFICES ASSUME Inv, NEW t \in Keys, NEW k \in Keys,
                      IsToneKey(t), ~IsToneKey(k), Processable(k),
                      ~(k \in DOMAIN Rules /\ Rules[k] = "Z"),
                      CanTransformWord(word), word.tone # ToneOf(Rules[t]),
                      ~(/\ k \in DOMAIN Rules /\ Rules[k] = "WFull"
                        /\ word.chars[Len(word.chars)].origin = Zero)
               PROVE  ProcessKey(ProcessKey(word, t).word, k).word =
                        ProcessKey(ProcessKey(word, k).word, t).word
    BY DEF ToneKeyIsFree
  <2> DEFINE T == ToneOf(Rules[t])
             v == [word EXCEPT !.tone = T]
             u == ProcessKey(word, k).word
             x == ProcessKey(v, k).word
  <2>1. Sound(word) /\ word \in Words
    BY DEF Inv, Sound
  <2>2. /\ T \in Tones /\ T # 0 /\ v \in Words /\ Sound(v) /\ ProcessKey(word, t).word = v
    BY <2>1, ToneStroke
  <2>3. v.chars = word.chars /\ v.tone = T
    BY <2>1, <2>2, WordType
  <2>4. k \in DOMAIN Rules => Rules[k] \in Untoned
    BY RulesAssumption DEF IsToneKey, Untoned
  <2> HIDE DEF v, T
  <2>5. u.chars = x.chars /\ u.tone = word.tone /\ x.tone = T
    BY <2>1, <2>2, <2>3, <2>4, LetterKeyAlike
  <2>6. Sound(u) /\ Sound(x) /\ u \in Words /\ x \in Words
    BY <2>1, <2>2, ProcessKeyKeeps DEF Sound
  <2> HIDE DEF u, x
  <2>7. CanTransformWord(u)
    <3>1. CanTransformWord(x)
      BY <2>2, <2>5, <2>6 DEF Sound
    <3> QED
      BY <2>5, <3>1 DEF CanTransformWord
  <2>8. ProcessKey(u, t).word = [u EXCEPT !.tone = T]
    BY <2>5, <2>6, <2>7, ToneStroke DEF T
  <2>9. /\ [u EXCEPT !.tone = T] \in Words
        /\ [u EXCEPT !.tone = T].chars = x.chars /\ [u EXCEPT !.tone = T].tone = x.tone
    BY <2>2, <2>5, <2>6, WordType
  <2>10. x = [u EXCEPT !.tone = T]
    BY <2>6, <2>9, WordEqual
  <2> QED
    BY <2>2, <2>8, <2>10 DEF u, x
<1> QED
  BY <1>1, SpecInv, PTL

\* A tone key typed twice gives the key itself: ViDoWordTransform takes the
\* tone back and says so, whereupon ViProcessKey appends the letter, and
\* ViCorrection finds nothing to correct.
THEOREM ToneKeyTwice == Spec => []ToneKeyTwiceIsLiteral
<1>1. Inv => ToneKeyTwiceIsLiteral
  <2> SUFFICES ASSUME Inv, NEW t \in Keys, IsToneKey(t), CanTransformWord(word),
                      word.tone # ToneOf(Rules[t]), Len(word.chars) < MaxLen
               PROVE  ProcessKey(ProcessKey(word, t).word, t).word =
                        [chars |-> Append(word.chars, Letter(t, 0)), tone |-> 0]
    BY DEF ToneKeyTwiceIsLiteral
  <2> DEFINE T == ToneOf(Rules[t])
             v == [word EXCEPT !.tone = T]
  <2>1. Sound(word) /\ word \in Words
    BY DEF Inv, Sound
  <2>2. /\ T \in Tones /\ v \in Words /\ Sound(v) /\ CanTransformWord(v)
        /\ ProcessKey(word, t).word = v
    BY <2>1, ToneStroke
  <2>3. v.chars = word.chars /\ v.tone = T
    BY <2>1, <2>2, WordType
  <2> HIDE DEF v, T
  <2>4. ProcessKey(v, t).word = [chars |-> Append(v.chars, Letter(t, 0)), tone |-> 0]
    BY <2>2, <2>3, ToneStroke DEF T
  <2> QED
    BY <2>2, <2>3, <2>4
<1> QED
  BY <1>1, SpecInv, PTL
=============================================================================
