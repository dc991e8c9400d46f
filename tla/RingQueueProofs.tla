-------------------------- MODULE RingQueueProofs ---------------------------
(***************************************************************************)
(* The ring implements the bounded queue, for any number of slots and any  *)
(* keys.  The invariant is TypeOK: what the ring holds is defined by the   *)
(* indices alone, and what stands in the other slots is never looked at.   *)
(* The work is in the arithmetic of indices that go round.                 *)
(***************************************************************************)
EXTENDS RingQueue, SequenceTheorems, TLAPS

Held == Key \cup {NoKey}

\* One turn at most is taken off, or added.
LEMMA Wrap ==
  ASSUME NEW M \in Nat \ {0}, NEW i \in (1 - M)..(2 * M - 1)
  PROVE  i % M = IF i < 0 THEN i + M ELSE IF i < M THEN i ELSE i - M
<1>1. PICK j \in Int : i = M * j + (i % M)
  <2>1. i = M * (i \div M) + (i % M) /\ i \div M \in Int OBVIOUS
  <2> QED BY <2>1
<1>2. i % M \in 0..(M - 1) OBVIOUS
<1>3. -2 < j BY <1>1, <1>2
<1>4. j < 2 BY <1>1, <1>2
<1>5. CASE j = 0 BY <1>1, <1>2, <1>5
<1>6. CASE j = 1 BY <1>1, <1>2, <1>6
<1>7. CASE j = -1 BY <1>1, <1>2, <1>7
<1> QED BY <1>3, <1>4, <1>5, <1>6, <1>7

\* The slots between two indices, and the slot of the j-th key behind one.
Between(f, l) == (l - f) % MaxBuffer
Place(f, j) == (f + j - 1) % MaxBuffer

\* The arithmetic of both, without a remainder.
LEMMA BetweenIs ==
  ASSUME NEW f \in Slots, NEW l \in Slots
  PROVE  Between(f, l) = IF f <= l THEN l - f ELSE l - f + MaxBuffer
<1> DEFINE i == l - f
<1>1. MaxBuffer \in Nat \ {0} BY RingAssumption
<1>2. i \in (1 - MaxBuffer)..(2 * MaxBuffer - 1) BY <1>1 DEF Slots
<1>3. i % MaxBuffer =
        IF i < 0 THEN i + MaxBuffer ELSE IF i < MaxBuffer THEN i ELSE i - MaxBuffer
  <2> HIDE DEF i
  <2> QED BY <1>1, <1>2, Wrap
<1> QED BY <1>1, <1>3 DEF Between, Slots

\* A key behind the last slot stands at the beginning.
LEMMA PlaceIs ==
  ASSUME NEW f \in Slots, NEW j \in 1..MaxBuffer
  PROVE  Place(f, j) = IF f + j - 1 < MaxBuffer THEN f + j - 1 ELSE f + j - 1 - MaxBuffer
<1> DEFINE i == f + j - 1
<1>1. MaxBuffer \in Nat \ {0} BY RingAssumption
<1>2. i \in (1 - MaxBuffer)..(2 * MaxBuffer - 1) BY <1>1 DEF Slots
<1>3. i % MaxBuffer =
        IF i < 0 THEN i + MaxBuffer ELSE IF i < MaxBuffer THEN i ELSE i - MaxBuffer
  <2> HIDE DEF i
  <2> QED BY <1>1, <1>2, Wrap
<1> QED BY <1>1, <1>3 DEF Place, Slots

\* The slot that follows.
LEMMA NextIs ==
  ASSUME NEW f \in Slots
  PROVE  (f + 1) % MaxBuffer = IF f = MaxBuffer - 1 THEN 0 ELSE f + 1
<1> DEFINE i == f + 1
<1>1. MaxBuffer \in Nat \ {0} BY RingAssumption
<1>2. i \in (1 - MaxBuffer)..(2 * MaxBuffer - 1) BY <1>1 DEF Slots
<1>3. i % MaxBuffer =
        IF i < 0 THEN i + MaxBuffer ELSE IF i < MaxBuffer THEN i ELSE i - MaxBuffer
  <2> HIDE DEF i
  <2> QED BY <1>1, <1>2, Wrap
<1> QED BY <1>1, <1>3 DEF Slots

-----------------------------------------------------------------------------
(* What the ring holds.                                                    *)

\* The keys of an array q between two indices, in order.
Ring(q, f, l) == [j \in 1..Between(f, l) |-> q[Place(f, j)]]

\* That is what the ring holds, before a step and after it.
LEMMA ContentsAre ==
  /\ Contents = Ring(slots, FirstIndex, LastIndex)
  /\ Contents' = Ring(slots', FirstIndex', LastIndex')
BY DEF Contents, Count, Ring, Between, Place

\* Equal indices have nothing between them; a ring is never full.
LEMMA BetweenType ==
  ASSUME NEW f \in Slots, NEW l \in Slots
  PROVE  Between(f, l) \in 0..(MaxBuffer - 1) /\ (Between(f, l) = 0 <=> f = l)
BY RingAssumption, BetweenIs DEF Slots

\* A sequence of as many keys as there are slots between the indices.
LEMMA RingType ==
  ASSUME NEW q \in [Slots -> Held], NEW f \in Slots, NEW l \in Slots
  PROVE  /\ Ring(q, f, l) \in Seq(Held) /\ Len(Ring(q, f, l)) = Between(f, l)
         /\ \A j \in 1..Between(f, l) : Ring(q, f, l)[j] = q[Place(f, j)]
<1> DEFINE n == Between(f, l)
           ring == Ring(q, f, l)
<1>1. n \in 0..(MaxBuffer - 1) BY BetweenType
<1>2. MaxBuffer \in Nat \ {0} BY RingAssumption
<1>3. \A j \in 1..n : Place(f, j) \in Slots
  BY <1>1, <1>2, PlaceIs DEF Slots
<1>4. ring = [j \in 1..n |-> q[Place(f, j)]] BY DEF Ring
<1>5. ring \in [1..n -> Held] BY <1>3, <1>4
<1>6. n \in Nat BY <1>1, <1>2
<1> HIDE DEF n, ring
<1>7. ring \in Seq(Held) BY <1>5, <1>6
<1>8. DOMAIN ring = 1..n BY <1>4
<1>9. Len(ring) = n BY <1>6, <1>7, <1>8, LenProperties
<1> QED BY <1>4, <1>7, <1>9 DEF n, ring

\* An empty one where the indices are equal.
LEMMA RingEmpty ==
  ASSUME NEW q \in [Slots -> Held], NEW f \in Slots PROVE Ring(q, f, f) = <<>>
<1>1. Ring(q, f, f) \in Seq(Held) /\ Len(Ring(q, f, f)) = 0
  BY RingType, BetweenType
<1> QED BY <1>1, EmptySeq

-----------------------------------------------------------------------------
(* The steps.                                                              *)

LEMMA InitTypes == ASSUME Init PROVE TypeOK
BY RingAssumption DEF Init, TypeOK, Slots

\* No step leaves the array.
LEMMA NextTypes == ASSUME TypeOK, [Next]_vars PROVE TypeOK'
<1>1. \A f \in Slots : (f + 1) % MaxBuffer \in Slots
  BY RingAssumption, NextIs DEF Slots
<1>2. 0 \in Slots BY RingAssumption DEF Slots
<1>3. ASSUME NEW k \in Key, Push(k) PROVE TypeOK' BY <1>1, <1>3 DEF TypeOK, Push
<1>4. CASE Pop BY <1>1, <1>4 DEF TypeOK, Pop
<1>5. CASE Forget BY <1>2, <1>5 DEF TypeOK, Forget
<1>6. CASE UNCHANGED vars BY <1>6 DEF TypeOK, vars
<1> QED BY <1>3, <1>4, <1>5, <1>6 DEF Next

\* Push puts a key behind the others, or closes the ring.
LEMMA PushHoldsBack ==
  ASSUME TypeOK, TypeOK', NEW k \in Key, Push(k)
  PROVE  Bounded!HoldBack(k)
<1> DEFINE f == FirstIndex
           l == LastIndex
           n == Between(f, l)
<1>1. MaxBuffer \in Nat \ {0} BY RingAssumption
<1>2. f \in Slots /\ l \in Slots /\ slots \in [Slots -> Held] /\ k \in Held
  BY DEF TypeOK, Held
<1>3. f' = f /\ l' \in Slots /\ l' = IF l = MaxBuffer - 1 THEN 0 ELSE l + 1
  BY <1>2, NextIs DEF TypeOK, Push
<1>4. slots' = [slots EXCEPT ![l] = k] /\ slots' \in [Slots -> Held]
  BY DEF TypeOK, Push, Held
<1>5. n \in 0..(MaxBuffer - 1) BY <1>2, BetweenType
<1>6. Contents = Ring(slots, f, l) /\ Contents' = Ring(slots', f, l')
  BY <1>3, ContentsAre
<1>7. /\ Contents \in Seq(Held) /\ Len(Contents) = n
      /\ \A j \in 1..n : Contents[j] = slots[Place(f, j)]
  BY <1>2, <1>6, RingType
<1>8. n = IF f <= l THEN l - f ELSE l - f + MaxBuffer BY <1>2, BetweenIs
<1>9. CASE n = MaxBuffer - 1
  <2>1. l' = f BY <1>1, <1>2, <1>3, <1>8, <1>9 DEF Slots
  <2>2. Contents' = <<>> BY <1>2, <1>4, <1>6, <2>1, RingEmpty
  <2> QED BY <1>7, <1>9, <2>2 DEF Bounded!HoldBack, Bounded!Push, Push
<1>10. CASE n # MaxBuffer - 1
  <2>1. Between(f, l') = n + 1
    <3>1. Between(f, l') = IF f <= l' THEN l' - f ELSE l' - f + MaxBuffer
      BY <1>2, <1>3, BetweenIs
    <3> QED BY <1>1, <1>2, <1>3, <1>8, <1>10, <3>1 DEF Slots
  <2>2. n + 1 \in 1..MaxBuffer BY <1>1, <1>5
  <2>3. Place(f, n + 1) = l
    <3>1. Place(f, n + 1) = IF f + (n + 1) - 1 < MaxBuffer
                            THEN f + (n + 1) - 1 ELSE f + (n + 1) - 1 - MaxBuffer
      BY <1>2, <2>2, PlaceIs
    <3> QED BY <1>1, <1>2, <1>5, <1>8, <3>1 DEF Slots
  <2>4. ASSUME NEW j \in 1..n PROVE Place(f, j) # l /\ Place(f, j) \in Slots
    <3>1. j \in 1..MaxBuffer BY <1>1, <1>5
    <3>2. Place(f, j) = IF f + j - 1 < MaxBuffer THEN f + j - 1 ELSE f + j - 1 - MaxBuffer
      BY <1>2, <3>1, PlaceIs
    <3> QED BY <1>1, <1>2, <1>5, <1>8, <3>2 DEF Slots
  <2>5. /\ Contents' \in Seq(Held) /\ Len(Contents') = n + 1
        /\ \A j \in 1..(n + 1) : Contents'[j] = slots'[Place(f, j)]
    <3>1. slots' \in [Slots -> Held] /\ f \in Slots /\ l' \in Slots BY <1>2, <1>3, <1>4
    <3>2. /\ Ring(slots', f, l') \in Seq(Held)
          /\ Len(Ring(slots', f, l')) = Between(f, l')
          /\ \A j \in 1..Between(f, l') : Ring(slots', f, l')[j] = slots'[Place(f, j)]
      BY <3>1, RingType
    <3> QED BY <1>6, <2>1, <3>2
  <2>6. /\ Append(Contents, k) \in Seq(Held) /\ Len(Append(Contents, k)) = n + 1
        /\ \A j \in 1..n : Append(Contents, k)[j] = Contents[j]
        /\ Append(Contents, k)[n + 1] = k
    BY <1>2, <1>7, AppendProperties
  <2>7. ASSUME NEW j \in 1..(n + 1) PROVE Contents'[j] = Append(Contents, k)[j]
    <3>1. CASE j = n + 1
      BY <1>2, <1>4, <2>3, <2>5, <2>6, <3>1
    <3>2. CASE j \in 1..n
      BY <1>2, <1>4, <1>7, <2>4, <2>5, <2>6, <3>2
    <3>3. j = n + 1 \/ j \in 1..n BY <1>1, <1>5
    <3> QED BY <3>1, <3>2, <3>3
  <2>8. Contents' = Append(Contents, k) BY <2>5, <2>6, <2>7, SeqEqual
  <2> QED BY <1>7, <1>10, <2>8 DEF Bounded!HoldBack, Bounded!Push, Push
<1> QED BY <1>9, <1>10

\* Pop takes the first key out.
LEMMA PopReleases == ASSUME TypeOK, TypeOK', Pop PROVE Bounded!Release
<1> DEFINE f == FirstIndex
           l == LastIndex
           n == Between(f, l)
<1>1. MaxBuffer \in Nat \ {0} BY RingAssumption
<1>2. f \in Slots /\ l \in Slots /\ slots \in [Slots -> Held] BY DEF TypeOK, Held
<1>3. /\ f # l /\ l' = l /\ slots' = slots /\ released' = slots[f]
      /\ f' \in Slots /\ f' = IF f = MaxBuffer - 1 THEN 0 ELSE f + 1
  BY <1>2, NextIs DEF TypeOK, Pop
<1>4. n \in 1..(MaxBuffer - 1) BY <1>1, <1>2, <1>3, BetweenType
<1>5. Contents = Ring(slots, f, l) /\ Contents' = Ring(slots, f', l)
  BY <1>3, ContentsAre
<1>6. /\ Contents \in Seq(Held) /\ Len(Contents) = n
      /\ \A j \in 1..n : Contents[j] = slots[Place(f, j)]
  BY <1>2, <1>5, RingType
<1>7. Contents # <<>> BY <1>4, <1>6, EmptySeq
<1>8. released' = Head(Contents)
  <2>1. 1 \in 1..MaxBuffer /\ 1 \in 1..n BY <1>1, <1>4
  <2>2. Place(f, 1) = f BY <1>1, <1>2, <2>1, PlaceIs DEF Slots
  <2> QED BY <1>3, <1>6, <1>7, <2>1, <2>2
<1>9. Between(f', l) = n - 1
  <2>1. /\ n = IF f <= l THEN l - f ELSE l - f + MaxBuffer
        /\ Between(f', l) = IF f' <= l THEN l - f' ELSE l - f' + MaxBuffer
    BY <1>2, <1>3, BetweenIs
  <2> QED BY <1>1, <1>2, <1>3, <2>1 DEF Slots
<1>10. /\ Contents' \in Seq(Held) /\ Len(Contents') = n - 1
       /\ \A j \in 1..(n - 1) : Contents'[j] = slots[Place(f', j)]
  <2>1. /\ Ring(slots, f', l) \in Seq(Held)
        /\ Len(Ring(slots, f', l)) = Between(f', l)
        /\ \A j \in 1..Between(f', l) : Ring(slots, f', l)[j] = slots[Place(f', j)]
    BY <1>2, <1>3, RingType
  <2> QED BY <1>5, <1>9, <2>1
<1>11. /\ Tail(Contents) \in Seq(Held) /\ Len(Tail(Contents)) = n - 1
       /\ \A j \in 1..(n - 1) : Tail(Contents)[j] = Contents[j + 1]
  BY <1>6, <1>7, HeadTailProperties
<1>12. ASSUME NEW j \in 1..(n - 1) PROVE Contents'[j] = Tail(Contents)[j]
  <2>1. j \in 1..MaxBuffer /\ j + 1 \in 1..MaxBuffer /\ j + 1 \in 1..n BY <1>1, <1>4
  <2>2. /\ Place(f', j) = IF f' + j - 1 < MaxBuffer THEN f' + j - 1
                          ELSE f' + j - 1 - MaxBuffer
        /\ Place(f, j + 1) = IF f + (j + 1) - 1 < MaxBuffer THEN f + (j + 1) - 1
                             ELSE f + (j + 1) - 1 - MaxBuffer
    BY <1>2, <1>3, <2>1, PlaceIs
  <2>3. Place(f', j) = Place(f, j + 1) BY <1>1, <1>2, <1>3, <1>4, <2>2 DEF Slots
  <2> QED BY <1>6, <1>10, <1>11, <2>1, <2>3
<1>13. Contents' = Tail(Contents) BY <1>10, <1>11, <1>12, SeqEqual
<1> QED BY <1>7, <1>8, <1>13 DEF Bounded!Release

\* A reset of both indices empties the ring.
LEMMA ForgetEmpties == ASSUME TypeOK, Forget PROVE Bounded!Forget
<1>1. /\ slots' = slots /\ slots \in [Slots -> Held] /\ 0 \in Slots
      /\ FirstIndex' = 0 /\ LastIndex' = 0 /\ released' = released
  BY RingAssumption DEF Forget, TypeOK, Held, Slots
<1>2. Contents' = <<>> BY <1>1, ContentsAre, RingEmpty
<1> QED BY <1>1, <1>2 DEF Bounded!Forget

-----------------------------------------------------------------------------
(* The theorems.                                                           *)

(***************************************************************************)
(* The indices stay within the array, however often they go round.         *)
(***************************************************************************)
THEOREM RingTypeCorrect == Spec => []TypeOK
<1>1. Init => TypeOK BY InitTypes
<1>2. TypeOK /\ [Next]_vars => TypeOK' BY NextTypes
<1> QED BY <1>1, <1>2, PTL DEF Spec

(***************************************************************************)
(* The array with two indices of xim.c is the bounded sequence that the    *)
(* model of the server has for Queue: Push, Pop and the resets of the      *)
(* indices do to the one what BoundedQueue says of the other, whatever old *)
(* keys stand in the slots.                                                *)
(***************************************************************************)
THEOREM RingImplementsQueue == Spec => RingIsAQueue
<1>1. Init => Bounded!Init
  <2> SUFFICES ASSUME Init PROVE Bounded!Init OBVIOUS
  <2>1. FirstIndex = LastIndex /\ released = NoKey /\ TypeOK BY InitTypes DEF Init
  <2>2. Contents = <<>> BY <2>1, ContentsAre, RingEmpty DEF TypeOK, Held
  <2> QED BY <2>1, <2>2 DEF Bounded!Init
<1>2. TypeOK /\ TypeOK' /\ [Next]_vars => [Bounded!Next]_(Bounded!queueVars)
  <2> SUFFICES ASSUME TypeOK, TypeOK', [Next]_vars
               PROVE  [Bounded!Next]_(Bounded!queueVars)
    OBVIOUS
  <2>1. ASSUME NEW k \in Key, Push(k) PROVE Bounded!Next
    BY <2>1, PushHoldsBack DEF Bounded!Next
  <2>2. CASE Pop BY <2>2, PopReleases DEF Bounded!Next
  <2>3. CASE Forget BY <2>3, ForgetEmpties DEF Bounded!Next
  <2>4. CASE UNCHANGED vars
    BY <2>4 DEF vars, Bounded!queueVars, Contents, Count
  <2> QED BY <2>1, <2>2, <2>3, <2>4 DEF Next
<1> QED BY <1>1, <1>2, RingTypeCorrect, PTL DEF Spec, RingIsAQueue, Bounded!Spec
=============================================================================
