---------------------------- MODULE LayerProofs -----------------------------
(***************************************************************************)
(* The three searches, for words of any size, any range of keys, any       *)
(* constants and any files: every key is judged as the equations of the    *)
(* layer judge it, whatever the keys before have left, and what is printed *)
(* is the good keys among those that have been tried. And the loops with   *)
(* which the layers add and subtract words of 16 bits.                     *)
(***************************************************************************)
EXTENDS Words, CarryLoop, TLAPS

CONSTANTS
  FirstKey1, LastKey1, LowMix, HighGoal, LowShift, LowGoal, Verdict,
  FirstKey2, LastKey2, Rounds2, Start2, Mask2, Marker, Refused, Lo2, Blobs2,
  FirstKey3, LastKey3, Rounds3, Start3, Mask3, Text, Lo3, Blobs3

VARIABLES
  blob, k1, k2, key, block, r0, r3, r6, r7, r8, r11, r12, r13, z0, hi, i, stream,
  ret, printed

L1 == INSTANCE Layer1 WITH FirstKey <- FirstKey1, LastKey <- LastKey1

L2 == INSTANCE Layer2 WITH
  FirstKey <- FirstKey2, LastKey <- LastKey2, Rounds <- Rounds2, Start <- Start2,
  Mask <- Mask2, Lo <- Lo2, Blobs <- Blobs2

L3 == INSTANCE Layer3 WITH
  FirstKey <- FirstKey3, LastKey <- LastKey3, Rounds <- Rounds3, Start <- Start3,
  Mask <- Mask3, Lo <- Lo3, Blobs <- Blobs3

Search1 == INSTANCE KeySearch WITH
  count <- L1!Candidates, good <- L1!Good, next <- L1!Tried, printed <- L1!Reported
Search2 == INSTANCE KeySearch WITH
  count <- L2!Candidates, good <- L2!Good, next <- L2!Tried, printed <- L2!Reported
Search3 == INSTANCE KeySearch WITH
  count <- L3!Candidates, good <- L3!Good, next <- L3!Tried, printed <- L3!Reported

(***************************************************************************)
(* What is assumed of words.                                               *)
(***************************************************************************)

\* 2 ^ HalfBits, of which the provers know nothing.
HalvesOK == Half \in Nat /\ Half > 1

\* ^ of C, on words: it goes bit by bit, so that it is its own inverse and works on each half.
IsXor(words) ==
  /\ \A a, b \in words : BitXor(a, b) \in words /\ BitXor(a, b) = BitXor(b, a)
  /\ \A a, b, c \in words : BitXor(BitXor(a, b), c) = BitXor(a, BitXor(b, c))
  /\ \A a \in words : BitXor(a, 0) = a /\ BitXor(a, a) = 0
  /\ \A a, b \in words : /\ High(BitXor(a, b)) = BitXor(High(a), High(b))
                        /\ Low(BitXor(a, b)) = BitXor(Low(a), Low(b))

-----------------------------------------------------------------------------
(* Words.                                                                  *)

LEMMA Products ==
  ASSUME NEW a \in Int, NEW b \in Int, NEW d \in Int, a * d < b * d, d > 0
  PROVE  a < b
<1>1. CASE b <= a
  <2>1. PICK e \in Nat : a = b + e
    BY <1>1
  <2>2. a * d = b * d + e * d
    BY <2>1
  <2>3. e * d \in Nat
    BY <2>1
  <2> QED
    BY <2>2, <2>3
<1> QED
  BY <1>1

LEMMA Base ==
  ASSUME HalvesOK
  PROVE  /\ WordBase \in Nat /\ WordBase > Half /\ Half \in Nat
         /\ 0 \in Word /\ 1 \in Word
         /\ \A h \in 0 .. Half - 1 : h \in Word
<1>1. PICK h \in Nat : h = Half /\ h > 1
  BY DEF HalvesOK
<1>2. h * h \in Nat /\ h * h > h
  <2>1. PICK e \in Nat : h = e + 2
    BY <1>1
  <2>2. h * h = h * e + 2 * h
    BY <2>1
  <2>3. h * e \in Nat
    BY <2>1
  <2> QED
    BY <1>1, <2>2, <2>3
<1> QED
  BY <1>1, <1>2 DEF WordBase, Word

\* Division by a number of no known size.
LEMMA Divided ==
  ASSUME NEW n \in Int, NEW d \in Nat, d > 0
  PROVE  /\ n \div d \in Int /\ n % d \in 0 .. d - 1
         /\ n = d * (n \div d) + (n % d)
<1>1. n \div d \in Int
  OBVIOUS
<1>2. n % d \in 0 .. d - 1
  OBVIOUS
<1>3. n = d * (n \div d) + (n % d)
  OBVIOUS
<1> QED
  BY <1>1, <1>2, <1>3, Zenon

LEMMA DividedOnce ==
  ASSUME NEW d \in Nat, d > 0, NEW q \in Int, NEW r \in 0 .. d - 1
  PROVE  (d * q + r) \div d = q /\ (d * q + r) % d = r
<1> DEFINE n == d * q + r
<1>1. PICK k \in Int, s \in 0 .. d - 1 : k = n \div d /\ s = n % d /\ n = d * k + s
  <2>1. n \in Int
    OBVIOUS
  <2> QED
    BY <2>1, Divided
<1>2. k * d < (q + 1) * d /\ q * d < (k + 1) * d
  BY <1>1
<1>3. k < q + 1 /\ q < k + 1
  BY <1>2, Products
<1>4. k = q
  BY <1>3
<1> QED
  BY <1>1, <1>4

\* Wrap depends on the remainder only.
LEMMA WrapIs ==
  ASSUME HalvesOK, NEW n \in Int
  PROVE  Wrap(n) \in Word /\ \E q \in Int : n = WordBase * q + Wrap(n)
<1>1. WordBase \in Nat /\ WordBase > 0
  BY Base
<1>2. /\ n \div WordBase \in Int /\ n % WordBase \in 0 .. WordBase - 1
      /\ n = WordBase * (n \div WordBase) + (n % WordBase)
  BY <1>1, Divided
<1> QED
  BY <1>2 DEF Wrap, Word

LEMMA WrapOne ==
  ASSUME HalvesOK, NEW w \in Word, NEW q \in Int
  PROVE  Wrap(WordBase * q + w) = w
  BY Base, DividedOnce DEF Wrap, Word

LEMMA WrapOf ==
  ASSUME HalvesOK, NEW w \in Word
  PROVE  Wrap(w) = w /\ w \in Int
<1>1. w \in Int /\ WordBase \in Nat
  BY Base DEF Word
<1>2. WordBase * 0 + w = w
  BY <1>1
<1> QED
  BY <1>1, <1>2, WrapOne

LEMMA WrapTurns ==
  ASSUME HalvesOK, NEW n \in Int, NEW m \in Int, NEW k \in Int, n = m + WordBase * k
  PROVE  Wrap(n) = Wrap(m)
<1>1. PICK q \in Int : m = WordBase * q + Wrap(m)
  BY WrapIs
<1>2. WordBase \in Int /\ Wrap(m) \in Int
  BY Base, WrapIs, WrapOf
<1>3. n = WordBase * (q + k) + Wrap(m)
  BY <1>1, <1>2
<1> QED
  BY <1>3, WrapIs, WrapOne

LEMMA WrapSum ==
  ASSUME HalvesOK, NEW n \in Int, NEW m \in Int
  PROVE  /\ Wrap(Wrap(n) + m) = Wrap(n + m)
         /\ Wrap(m + Wrap(n)) = Wrap(m + n)
         /\ Wrap(Wrap(n) - m) = Wrap(n - m)
         /\ Wrap(m + WordBase) = Wrap(m)
<1>1. PICK q \in Int : n = WordBase * q + Wrap(n)
  BY WrapIs
<1>2. WordBase \in Int /\ Wrap(n) \in Int
  BY Base, WrapIs, WrapOf
<1>3. n + m = (Wrap(n) + m) + WordBase * q /\ n - m = (Wrap(n) - m) + WordBase * q
  BY <1>1, <1>2
<1>4. Wrap(n + m) = Wrap(Wrap(n) + m) /\ Wrap(n - m) = Wrap(Wrap(n) - m)
  <2>1. n + m \in Int /\ Wrap(n) + m \in Int /\ n - m \in Int /\ Wrap(n) - m \in Int
    BY <1>2
  <2> QED
    BY <1>3, <2>1, WrapTurns
<1>5. Wrap(m + n) = Wrap(n + m) /\ Wrap(m + Wrap(n)) = Wrap(Wrap(n) + m)
  <2>1. m + n = n + m /\ m + Wrap(n) = Wrap(n) + m
    BY <1>2
  <2> QED
    BY <2>1
<1>6. Wrap(m + WordBase) = Wrap(m)
  <2>1. m + WordBase = m + WordBase * 1 /\ m + WordBase \in Int
    BY <1>2
  <2> QED
    BY <2>1, WrapTurns
<1> QED
  BY <1>4, <1>5, <1>6

\* A difference is zero when there is none, and a sum can be undone.
LEMMA WrapMoves ==
  ASSUME HalvesOK, NEW a \in Word, NEW b \in Word, NEW m \in Int
  PROVE  /\ Wrap(a - b) = 0 <=> a = b
         /\ Wrap(a - m) = b <=> a = Wrap(b + m)
<1>1. a \in Int /\ b \in Int /\ Wrap(a) = a /\ Wrap(b) = b
  BY WrapOf
<1>2. Wrap(a - m) = b => a = Wrap(b + m)
  <2>1. Wrap(Wrap(a - m) + m) = Wrap((a - m) + m) /\ (a - m) + m = a
    BY <1>1, WrapSum
  <2> QED
    BY <1>1, <2>1
<1>3. a = Wrap(b + m) => Wrap(a - m) = b
  <2>1. Wrap(Wrap(b + m) - m) = Wrap((b + m) - m) /\ (b + m) - m = b
    BY <1>1, WrapSum
  <2> QED
    BY <1>1, <2>1
<1>4. a = b => Wrap(a - b) = 0
  BY <1>1, Base, WrapOf
<1>5. Wrap(a - b) = 0 => a = b
  <2>1. Wrap(Wrap(a - b) + b) = Wrap((a - b) + b) /\ (a - b) + b = a /\ 0 + b = b
    BY <1>1, WrapSum
  <2> QED
    BY <1>1, <2>1
<1> QED
  BY <1>2, <1>3, <1>4, <1>5

LEMMA WrapZero ==
  ASSUME HalvesOK, NEW a \in Word, NEW b \in Word
  PROVE  Wrap(a - b) = 0 <=> a = b
<1>1. 0 \in Int
  OBVIOUS
<1> QED
  BY <1>1, WrapMoves

\* A word is its two halves.
LEMMA Halved ==
  ASSUME HalvesOK, NEW w \in Word
  PROVE  /\ High(w) \in 0 .. Half - 1 /\ Low(w) \in 0 .. Half - 1
         /\ w = Half * High(w) + Low(w)
<1>1. Half \in Nat /\ Half > 0 /\ w \in Nat /\ w < Half * Half
  BY Base DEF HalvesOK, Word, WordBase
<1>2. High(w) \in Int /\ Low(w) \in 0 .. Half - 1 /\ w = Half * High(w) + Low(w)
  BY <1>1, Divided DEF High, Low
<1>3. High(w) < Half
  <2>1. High(w) * Half < Half * Half
    BY <1>1, <1>2
  <2> QED
    BY <1>1, <1>2, <2>1, Products
<1>4. -1 < High(w)
  <2>1. (-1) * Half < High(w) * Half
    BY <1>1, <1>2
  <2> QED
    BY <1>1, <1>2, <2>1, Products
<1> QED
  BY <1>1, <1>2, <1>3, <1>4

LEMMA Joined ==
  ASSUME HalvesOK, NEW h \in 0 .. Half - 1, NEW l \in 0 .. Half - 1
  PROVE  /\ Half * h + l \in Word /\ High(Half * h + l) = h /\ Low(Half * h + l) = l
         /\ ToHigh(h) = Half * h /\ ToHigh(h) \in Word
<1>1. Half \in Nat /\ Half > 1 /\ WordBase = Half * Half
  BY DEF HalvesOK, WordBase
<1>2. High(Half * h + l) = h /\ Low(Half * h + l) = l
  BY <1>1, DividedOnce DEF High, Low
<1>3. Half * h \in Nat /\ Half * h + Half <= Half * Half
  <2>1. PICK e \in Nat : Half = h + 1 + e
    BY <1>1
  <2>2. Half * Half = Half * h + Half + Half * e
    BY <1>1, <2>1
  <2>3. Half * e \in Nat /\ Half * h \in Nat
    BY <1>1
  <2> QED
    BY <1>1, <2>2, <2>3
<1>4. Half * h + l \in Word /\ Half * h \in Word
  BY <1>1, <1>3 DEF Word
<1>5. ToHigh(h) = Half * h
  <2>1. ToHigh(h) = Wrap(h * Half) /\ h * Half = Half * h
    BY <1>1 DEF ToHigh
  <2> QED
    BY <1>4, <2>1, WrapOf
<1> QED
  BY <1>2, <1>4, <1>5

LEMMA XorUndone ==
  ASSUME IsXor(Word), NEW a \in Word, NEW b \in Word
  PROVE  /\ BitXor(a, b) \in Word /\ BitXor(a, b) = BitXor(b, a)
         /\ BitXor(BitXor(a, b), b) = a
<1>1. BitXor(BitXor(a, b), b) = BitXor(a, BitXor(b, b))
  BY DEF IsXor
<1> QED
  BY <1>1 DEF IsXor

LEMMA XorMoves ==
  ASSUME IsXor(Word), NEW a \in Word, NEW b \in Word, NEW c \in Word
  PROVE  BitXor(a, b) = c <=> a = BitXor(c, b)
<1>1. BitXor(BitXor(a, b), b) = a /\ BitXor(BitXor(c, b), b) = c
  BY XorUndone
<1> QED
  BY <1>1, Zenon
-----------------------------------------------------------------------------
(***************************************************************************)
(* Layer 1.                                                                *)
(***************************************************************************)

Layer1OK ==
  /\ FirstKey1 \in Word \X Word /\ LastKey1 \in Word \X Word /\ Verdict \in Word \X Word
  /\ {LowMix, HighGoal, LowShift, LowGoal} \subseteq Word
  \* the key is among those that are tried, and not the verdict on itself
  /\ L1!TheKey[1] \in FirstKey1[1] .. LastKey1[1] /\ L1!TheKey[2] \in FirstKey1[2] .. LastKey1[2]
  /\ L1!TheKey # <<Wrap(Verdict[1] + HighGoal), BitXor(LowGoal, Verdict[2])>>

\* The layer has its own definitions of words.
LEMMA Words1 ==
  /\ L1!Half = Half /\ L1!WordBase = WordBase /\ L1!Word = Word
  /\ \A n : /\ L1!Wrap(n) = Wrap(n) /\ L1!Low(n) = Low(n) /\ L1!High(n) = High(n)
            /\ L1!ToHigh(n) = ToHigh(n)
BY DEF L1!Half, Half, L1!WordBase, WordBase, L1!Word, Word, L1!Wrap, Wrap, L1!Low, Low,
       L1!High, High, L1!ToHigh, ToHigh

\* A word folded on itself twice is the word again.
LEMMA FoldTwice ==
  ASSUME HalvesOK, IsXor(Word), NEW w \in Word
  PROVE  L1!Fold(w) \in Word /\ L1!Fold(L1!Fold(w)) = w
<1>1. High(w) \in 0 .. Half - 1 /\ High(w) \in Word
  BY Halved, Base
<1>2. High(High(w)) = 0
  <2>1. Half * 0 + High(w) = High(w) /\ 0 \in 0 .. Half - 1
    BY <1>1, Base DEF Word, HalvesOK
  <2> QED
    BY <1>1, <2>1, Joined
<1>3. L1!Fold(w) = BitXor(w, High(w)) /\ L1!Fold(w) \in Word
  BY <1>1, Words1, XorUndone DEF L1!Fold
<1>4. High(L1!Fold(w)) = High(w)
  BY <1>1, <1>2, <1>3 DEF IsXor
<1>5. L1!Fold(L1!Fold(w)) = BitXor(BitXor(w, High(w)), High(w))
  BY <1>3, <1>4, Words1 DEF L1!Fold
<1> QED
  BY <1>1, <1>3, <1>5, XorUndone

LEMMA FoldMoves ==
  ASSUME HalvesOK, IsXor(Word), NEW a \in Word, NEW b \in Word
  PROVE  L1!Fold(a) = b <=> a = L1!Fold(b)
<1>1. L1!Fold(L1!Fold(a)) = a /\ L1!Fold(L1!Fold(b)) = b
  BY FoldTwice
<1> QED
  BY <1>1, Zenon

LEMMA LowSolved ==
  ASSUME HalvesOK, IsXor(Word), Layer1OK, r12 \in Word
  PROVE  /\ L1!MixLow \in Word /\ L1!TheLow \in Word
         /\ Wrap(L1!MixLow - LowShift) = LowGoal <=> r12 = L1!TheLow
<1> DEFINE g == Wrap(LowGoal + LowShift)
<1>1. LowMix \in Word /\ LowGoal \in Word /\ LowShift \in Word
  BY DEF Layer1OK
<1>2. LowGoal + LowShift \in Int /\ LowShift \in Int
  BY <1>1, WrapOf
<1>3. g \in Word /\ BitXor(g, LowMix) \in Word
  BY <1>1, <1>2, WrapIs, XorUndone
<1>4. L1!MixLow = BitXor(L1!Fold(r12), LowMix) /\ L1!Fold(r12) \in Word
  BY FoldTwice DEF L1!MixLow, L1!Fold
<1>5. L1!MixLow \in Word
  BY <1>1, <1>4, XorUndone
<1>6. L1!TheLow = L1!Fold(BitXor(g, LowMix))
  BY Words1 DEF L1!TheLow
<1> HIDE DEF g
<1>7. L1!TheLow \in Word
  BY <1>3, <1>6, FoldTwice
<1>8. Wrap(L1!MixLow - LowShift) = LowGoal <=> L1!MixLow = g
  BY <1>1, <1>2, <1>5, WrapMoves DEF g
<1>9. L1!MixLow = g <=> L1!Fold(r12) = BitXor(g, LowMix)
  BY <1>1, <1>3, <1>4, XorMoves
<1>10. L1!Fold(r12) = BitXor(g, LowMix) <=> r12 = L1!Fold(BitXor(g, LowMix))
  BY <1>3, FoldMoves
<1> QED
  BY <1>5, <1>6, <1>7, <1>8, <1>9, <1>10, Zenon

LEMMA HalvesOfLow ==
  ASSUME HalvesOK, IsXor(Word), NEW w \in Word
  PROVE  /\ Low(w) \in Word /\ High(w) \in Word
         /\ ToHigh(Low(w)) \in Word /\ ToHigh(High(w)) \in Word
  BY Halved, Joined, Base

LEMMA HighSolved ==
  ASSUME HalvesOK, IsXor(Word), Layer1OK, r12 \in Word, r3 \in Word
  PROVE  /\ L1!MixHigh \in Word /\ L1!TheKey \in Word \X Word
         /\ r12 = L1!TheLow => (L1!MixHigh = HighGoal <=> r3 = L1!TheKey[2])
<1> DEFINE a == Low(r12)
           b == ToHigh(Low(r12))
           c == ToHigh(High(r12))
           d == High(r12)
           f == L1!Fold(r3)
           s == BitXor(BitXor(BitXor(a, b), c), d)
<1>1. a \in Word /\ b \in Word /\ c \in Word /\ d \in Word /\ f \in Word
  BY HalvesOfLow, FoldTwice
<1>2. L1!MixHigh = BitXor(BitXor(BitXor(BitXor(f, a), b), c), d)
  BY Words1 DEF L1!MixHigh, L1!Fold
<1>3. r12 = L1!TheLow => s = L1!Spread
  BY Words1 DEF L1!Spread
<1> HIDE DEF a, b, c, d, f, s
<1>4. BitXor(a, b) \in Word /\ BitXor(BitXor(a, b), c) \in Word /\ s \in Word
  BY <1>1 DEF IsXor, s
<1>5. BitXor(BitXor(BitXor(BitXor(f, a), b), c), d) = BitXor(f, s)
  <2>1. BitXor(BitXor(f, a), b) = BitXor(f, BitXor(a, b))
    BY <1>1 DEF IsXor
  <2>2. BitXor(BitXor(f, BitXor(a, b)), c) = BitXor(f, BitXor(BitXor(a, b), c))
    BY <1>1, <1>4 DEF IsXor
  <2>3. BitXor(BitXor(f, BitXor(BitXor(a, b), c)), d) = BitXor(f, s)
    BY <1>1, <1>4 DEF IsXor, s
  <2> QED
    BY <2>1, <2>2, <2>3, Zenon
<1>6. L1!MixHigh = BitXor(f, s) /\ L1!MixHigh \in Word
  BY <1>1, <1>2, <1>4, <1>5, XorUndone
<1>7. HighGoal \in Word /\ BitXor(HighGoal, s) \in Word
  BY <1>4, XorUndone DEF Layer1OK
<1>8. BitXor(f, s) = HighGoal <=> f = BitXor(HighGoal, s)
  BY <1>1, <1>4, <1>7, XorMoves
<1>9. f = BitXor(HighGoal, s) <=> r3 = L1!Fold(BitXor(HighGoal, s))
  BY <1>7, FoldMoves DEF f
<1>10. L1!TheKey = <<L1!TheLow, L1!Fold(BitXor(HighGoal, L1!Spread))>>
  BY DEF L1!TheKey
<1>11. L1!TheKey \in Word \X Word
  <2>1. L1!TheKey[2] \in FirstKey1[2] .. LastKey1[2] /\ FirstKey1[2] \in Word /\ LastKey1[2] \in Word
    BY DEF Layer1OK
  <2>2. L1!TheKey[2] \in Word
    BY <2>1, Base DEF Word
  <2> QED
    BY <1>10, <2>2, LowSolved
<1> QED
  BY <1>3, <1>6, <1>8, <1>9, <1>10, <1>11

\* The pair of words that f() works on is the one that main() tries, and what it has
\* made of it so far; on its return the pair is judged.
Inv1 ==
  /\ L1!TypeOK
  /\ pc \notin {"main", "exit"} => r12 = k1 /\ r3 = k2
  /\ pc \in {"low", "high", "test high", "shift", "test low", "verdict"} => ret = 0 /\ key = <<k1, k2>>
  /\ pc \in {"high", "test high", "shift"} => r6 = L1!MixLow
  /\ pc \in {"test low", "verdict"} => r6 = Wrap(L1!MixLow - LowShift)
  /\ pc = "test high" => r8 = L1!MixHigh
  /\ pc \in {"shift", "test low", "verdict"} => r8 = HighGoal /\ L1!MixHigh = HighGoal
  /\ pc = "verdict" => z0 = (r6 = LowGoal)
  /\ pc = "return" => /\ ret = 1 <=> key # <<k1, k2>>
                      /\ ret = 1 <=> <<k1, k2>> = L1!TheKey
                      /\ ret = 1 => r6 = LowGoal
  /\ printed \subseteq (FirstKey1[1] .. LastKey1[1]) \X (FirstKey1[2] .. LastKey1[2])

\* What does not change.
LEMMA SameKey1 ==
  ASSUME L1!Next
  PROVE  /\ Layer1OK => Layer1OK' /\ L1!TheKey' = L1!TheKey
  OBVIOUS

LEMMA InitInv1 == ASSUME HalvesOK, Layer1OK, L1!Init PROVE Inv1
<1>1. FirstKey1[1] \in FirstKey1[1] .. LastKey1[1] /\ FirstKey1[2] \in FirstKey1[2] .. LastKey1[2]
  BY DEF Layer1OK, Word
<1>2. L1!TypeOK
  BY <1>1, Words1, Base DEF L1!TypeOK, L1!Init
<1> QED
  BY <1>2 DEF L1!Init, Inv1

LEMMA Keys1 ==
  ASSUME HalvesOK, Layer1OK, L1!TypeOK
  PROVE  /\ k1 \in Word /\ k2 \in Word /\ r12 \in Word /\ r3 \in Word /\ r6 \in Word /\ r8 \in Word
         /\ key \in Word \X Word /\ L1!Word = Word
         /\ k1 \in Int /\ k2 \in Int
<1>1. k1 \in FirstKey1[1] .. LastKey1[1] /\ k2 \in FirstKey1[2] .. LastKey1[2]
  BY DEF L1!TypeOK
<1>2. FirstKey1[1] \in Word /\ LastKey1[1] \in Word /\ FirstKey1[2] \in Word /\ LastKey1[2] \in Word
  BY DEF Layer1OK
<1>3. k1 \in Word /\ k2 \in Word /\ k1 \in Int /\ k2 \in Int
  BY <1>1, <1>2, Base DEF Word
<1> QED
  BY <1>3, Words1 DEF L1!TypeOK

LEMMA Try1 == ASSUME HalvesOK, IsXor(Word), Layer1OK, Inv1, L1!Try PROVE Inv1'
<1>1. L1!TypeOK'
  BY Keys1 DEF Inv1, L1!TypeOK, L1!Try
<1> QED
  BY <1>1 DEF Inv1, L1!Try

LEMMA LowIs1 == ASSUME HalvesOK, IsXor(Word), Layer1OK, Inv1, L1!Low1 PROVE Inv1'
<1>1. r12 \in Word /\ L1!MixLow \in Word /\ L1!MixLow' = L1!MixLow
  BY Keys1, LowSolved DEF Inv1, L1!Low1, L1!MixLow, L1!High, L1!Half
<1>2. L1!TypeOK'
  BY <1>1, Keys1 DEF Inv1, L1!TypeOK, L1!Low1
<1> QED
  BY <1>1, <1>2 DEF Inv1, L1!Low1

LEMMA HighIs1 == ASSUME HalvesOK, IsXor(Word), Layer1OK, Inv1, L1!High1 PROVE Inv1'
<1>1. /\ r12 \in Word /\ r3 \in Word /\ L1!MixHigh \in Word
      /\ L1!MixHigh' = L1!MixHigh /\ L1!MixLow' = L1!MixLow
  BY Keys1, HighSolved DEF Inv1, L1!High1, L1!MixLow, L1!MixHigh
<1>2. L1!TypeOK'
  BY <1>1, Keys1 DEF Inv1, L1!TypeOK, L1!High1
<1> QED
  BY <1>1, <1>2 DEF Inv1, L1!High1

LEMMA TestHigh1 == ASSUME HalvesOK, IsXor(Word), Layer1OK, Inv1, L1!TestHigh PROVE Inv1'
<1>1. /\ r12 \in Word /\ r3 \in Word /\ r8 \in Word /\ r12 = k1 /\ r3 = k2
      /\ r8 = L1!MixHigh /\ key = <<k1, k2>> /\ ret = 0 /\ r6 = L1!MixLow
  BY Keys1 DEF Inv1, L1!TestHigh
<1>2. L1!MixHigh' = L1!MixHigh /\ L1!MixLow' = L1!MixLow /\ L1!TheKey' = L1!TheKey
  BY DEF L1!TestHigh, L1!MixLow, L1!MixHigh
<1>3. HighGoal \in Word
  BY DEF Layer1OK
<1>4. z0' = (r8 = HighGoal)
  <2>1. Wrap(r8 - HighGoal) = 0 <=> r8 = HighGoal
    BY <1>1, <1>3, WrapZero
  <2>2. z0' = (Wrap(r8 - HighGoal) = 0)
    BY Words1 DEF L1!TestHigh
  <2> QED
    BY <2>1, <2>2
<1>5. L1!TypeOK'
  BY <1>4, Keys1 DEF Inv1, L1!TypeOK, L1!TestHigh
<1>6. r8 # HighGoal => <<k1, k2>> # L1!TheKey
  BY <1>1, HighSolved DEF L1!TheKey
<1> QED
  <2>1. CASE r8 = HighGoal
    BY <2>1, <1>1, <1>2, <1>4, <1>5 DEF Inv1, L1!TestHigh
  <2>2. CASE r8 # HighGoal
    <3>1. UNCHANGED <<k1, k2, key, ret, r12, r3, printed>>
      BY DEF L1!TestHigh
    <3>2. pc' = "return"
      BY <2>2, <1>4 DEF L1!TestHigh
    <3>3. key' = <<k1', k2'>> /\ ret' # 1 /\ <<k1', k2'>> # L1!TheKey'
      BY <3>1, <2>2, <1>1, <1>2, <1>6
    <3> QED
      BY <3>1, <3>2, <3>3, <1>1, <1>5, Zenon DEF Inv1
  <2> QED
    BY <2>1, <2>2

LEMMA Shift1 == ASSUME HalvesOK, IsXor(Word), Layer1OK, Inv1, L1!ShiftLow PROVE Inv1'
<1>1. L1!MixHigh' = L1!MixHigh /\ L1!MixLow' = L1!MixLow /\ r6 = L1!MixLow
  BY DEF L1!ShiftLow, L1!MixLow, L1!MixHigh, Inv1
<1>2. LowShift \in Word
  BY DEF Layer1OK
<1>3. Wrap(r6 - LowShift) \in Word /\ r6' = Wrap(r6 - LowShift)
  <2>1. r6 \in Int /\ LowShift \in Int
    BY <1>2, Keys1, WrapOf DEF Inv1
  <2>2. r6 - LowShift \in Int
    BY <2>1
  <2> QED
    BY <2>2, WrapIs, Words1 DEF L1!ShiftLow
<1>4. L1!TypeOK'
  BY <1>3, Keys1 DEF Inv1, L1!TypeOK, L1!ShiftLow
<1> QED
  BY <1>1, <1>3, <1>4 DEF Inv1, L1!ShiftLow

LEMMA TestLow1 == ASSUME HalvesOK, IsXor(Word), Layer1OK, Inv1, L1!TestLow PROVE Inv1'
<1>1. L1!MixHigh' = L1!MixHigh /\ L1!MixLow' = L1!MixLow
  BY DEF L1!TestLow, L1!MixLow, L1!MixHigh
<1>2. LowGoal \in Word
  BY DEF Layer1OK
<1>3. z0' = (r6 = LowGoal)
  <2>1. Wrap(r6 - LowGoal) = 0 <=> r6 = LowGoal
    BY <1>2, WrapZero, Keys1 DEF Inv1
  <2>2. z0' = (Wrap(r6 - LowGoal) = 0)
    BY Words1 DEF L1!TestLow
  <2> QED
    BY <2>1, <2>2
<1>4. L1!TypeOK'
  BY <1>3, Keys1 DEF Inv1, L1!TypeOK, L1!TestLow
<1> QED
  BY <1>1, <1>3, <1>4 DEF Inv1, L1!TestLow

LEMMA Verdict1 == ASSUME HalvesOK, IsXor(Word), Layer1OK, Inv1, L1!WriteVerdict PROVE Inv1'
<1>1. /\ r12 \in Word /\ r3 \in Word /\ r12 = k1 /\ r3 = k2 /\ r6 \in Word /\ r8 \in Word
      /\ r6 = Wrap(L1!MixLow - LowShift) /\ r8 = HighGoal /\ L1!MixHigh = HighGoal
      /\ z0 = (r6 = LowGoal) /\ key = <<k1, k2>> /\ ret = 0
  BY Keys1 DEF Inv1, L1!WriteVerdict
<1>2. z0 <=> <<k1, k2>> = L1!TheKey
  BY <1>1, LowSolved, HighSolved DEF L1!TheKey
<1>3. L1!NewKey = <<Wrap(Verdict[1] + r8), BitXor(r6, Verdict[2])>>
  BY Words1 DEF L1!NewKey
<1>4. L1!NewKey \in Word \X Word
  <2>1. Verdict[1] \in Word /\ Verdict[2] \in Word
    BY DEF Layer1OK
  <2>2. Verdict[1] + r8 \in Int
    BY <1>1, <2>1, WrapOf
  <2> QED
    BY <1>1, <1>3, <2>1, <2>2, WrapIs, XorUndone
<1>5. z0 => L1!NewKey # <<k1, k2>>
  BY <1>1, <1>2, <1>3 DEF Layer1OK
<1>6. L1!TypeOK'
  BY <1>4, Keys1 DEF Inv1, L1!TypeOK, L1!WriteVerdict
<1>7. L1!TheKey' = L1!TheKey /\ L1!MixHigh' = L1!MixHigh
  BY DEF L1!WriteVerdict, L1!MixHigh
<1>8. /\ pc' = "return" /\ r12' = k1' /\ r3' = k2' /\ printed' = printed
      /\ ret' = 1 <=> z0
      /\ key' # <<k1', k2'>> <=> z0
      /\ <<k1', k2'>> = L1!TheKey' <=> z0
      /\ z0 => r6' = LowGoal
  <2>1. UNCHANGED <<k1, k2, r12, r3, r6, printed>> /\ pc' = "return"
    BY DEF L1!WriteVerdict
  <2>2. CASE z0 = TRUE
    <3>1. key' = L1!NewKey /\ ret' = 1
      BY <2>2 DEF L1!WriteVerdict
    <3> QED
      BY <1>1, <1>2, <1>5, <1>7, <2>1, <2>2, <3>1
  <2>3. CASE z0 = FALSE
    <3>1. key' = key /\ ret' = ret
      BY <2>3 DEF L1!WriteVerdict
    <3> QED
      BY <1>1, <1>2, <1>7, <2>1, <2>3, <3>1
  <2> QED
    BY <1>1, <2>2, <2>3
<1> QED
  BY <1>6, <1>8 DEF Inv1

LEMMA Report1 == ASSUME HalvesOK, IsXor(Word), Layer1OK, Inv1, L1!Report PROVE Inv1'
<1>1. /\ k1 \in FirstKey1[1] .. LastKey1[1] /\ k2 \in FirstKey1[2] .. LastKey1[2]
      /\ FirstKey1[1] \in Int /\ LastKey1[1] \in Int /\ FirstKey1[2] \in Int /\ LastKey1[2] \in Int
  <2>1. FirstKey1[1] \in Word /\ LastKey1[1] \in Word /\ FirstKey1[2] \in Word /\ LastKey1[2] \in Word
    BY DEF Layer1OK
  <2> QED
    BY <2>1, WrapOf DEF Inv1, L1!TypeOK
<1>2. k1' \in FirstKey1[1] .. LastKey1[1] /\ k2' \in FirstKey1[2] .. LastKey1[2]
  BY <1>1 DEF L1!Report
<1>3. /\ printed' \subseteq Word \X Word
      /\ printed' \subseteq (FirstKey1[1] .. LastKey1[1]) \X (FirstKey1[2] .. LastKey1[2])
  BY <1>1, Keys1 DEF L1!Report, Inv1, L1!TypeOK
<1>4. L1!TypeOK'
  BY <1>2, <1>3, Words1 DEF Inv1, L1!TypeOK, L1!Report
<1> QED
  BY <1>3, <1>4 DEF Inv1, L1!Report

LEMMA Next1 == ASSUME HalvesOK, IsXor(Word), Layer1OK, Inv1, L1!Next PROVE Inv1'
  BY Try1, LowIs1, HighIs1, TestHigh1, Shift1, TestLow1, Verdict1, Report1 DEF L1!Next

\* Only main() prints.
LEMMA Prints1 == L1!Next => printed' = printed \/ L1!Report
<1>1. L1!Try => printed' = printed
  BY DEF L1!Try
<1>2. L1!Low1 => printed' = printed
  BY DEF L1!Low1
<1>3. L1!High1 => printed' = printed
  BY DEF L1!High1
<1>4. L1!TestHigh => printed' = printed
  BY DEF L1!TestHigh
<1>5. L1!ShiftLow => printed' = printed
  BY DEF L1!ShiftLow
<1>6. L1!TestLow => printed' = printed
  BY DEF L1!TestLow
<1>7. L1!WriteVerdict => printed' = printed
  BY DEF L1!WriteVerdict
<1> QED
  BY <1>1, <1>2, <1>3, <1>4, <1>5, <1>6, <1>7 DEF L1!Next

LEMMA Safe1 == Inv1 => L1!TypeOK /\ L1!ClientAgrees
  BY DEF Inv1, L1!ClientAgrees

\* The candidates in the order in which main() takes them.
LEMMA Numbers1 ==
  ASSUME HalvesOK, Layer1OK
  PROVE  /\ \A c \in FirstKey1[1] .. LastKey1[1], d \in FirstKey1[2] .. LastKey1[2] :
              /\ L1!Number(<<c, d>>) \in 0 .. L1!Candidates - 1
              /\ L1!Number(<<c, d>>) = L1!Columns * (c - FirstKey1[1]) + (d - FirstKey1[2])
              /\ L1!Number(<<c, d>>) = L1!Number(L1!TheKey) <=> <<c, d>> = L1!TheKey
         /\ L1!Columns \in Nat /\ L1!Columns = LastKey1[2] - FirstKey1[2] + 1
         /\ L1!Candidates \in Nat
         /\ L1!Candidates = L1!Columns * (LastKey1[1] - FirstKey1[1]) + L1!Columns
<1>1. /\ FirstKey1[1] \in Int /\ LastKey1[1] \in Int /\ FirstKey1[2] \in Int /\ LastKey1[2] \in Int
  <2>1. FirstKey1[1] \in Word /\ LastKey1[1] \in Word /\ FirstKey1[2] \in Word /\ LastKey1[2] \in Word
    BY DEF Layer1OK
  <2> QED
    BY <2>1, WrapOf
<1>2. L1!TheKey = <<L1!TheKey[1], L1!TheKey[2]>>
  BY DEF L1!TheKey
<1>3. /\ L1!TheKey[1] \in FirstKey1[1] .. LastKey1[1] /\ L1!TheKey[2] \in FirstKey1[2] .. LastKey1[2]
  BY DEF Layer1OK
<1>4. L1!Columns \in Nat /\ L1!Columns > 0 /\ L1!Columns = LastKey1[2] - FirstKey1[2] + 1
  BY <1>1, <1>3 DEF L1!Columns
<1> DEFINE C == L1!Columns
           At(c, d) == C * (c - FirstKey1[1]) + (d - FirstKey1[2])
<1>5. \A c, d \in Int : L1!Number(<<c, d>>) = At(c, d)
  BY <1>1, <1>4 DEF L1!Number
<1>6. L1!Candidates = C * (LastKey1[1] - FirstKey1[1]) + C
  BY <1>1, <1>4 DEF L1!Candidates, L1!Number
<1> HIDE DEF C
<1>7. ASSUME NEW c \in FirstKey1[1] .. LastKey1[1], NEW d \in FirstKey1[2] .. LastKey1[2]
      PROVE  /\ At(c, d) \div C = c - FirstKey1[1] /\ At(c, d) % C = d - FirstKey1[2]
             /\ At(c, d) \in 0 .. L1!Candidates - 1
  <2>1. c - FirstKey1[1] \in Nat /\ d - FirstKey1[2] \in 0 .. C - 1 /\ C \in Nat /\ C > 0
    BY <1>1, <1>4 DEF C
  <2>2. At(c, d) \div C = c - FirstKey1[1] /\ At(c, d) % C = d - FirstKey1[2]
    <3> DEFINE q == c - FirstKey1[1]
               t == d - FirstKey1[2]
    <3> HIDE DEF q, t
    <3>1. (C * q + t) \div C = q /\ (C * q + t) % C = t
      <4>1. q \in Int /\ t \in 0 .. C - 1 /\ C \in Nat /\ C > 0
        BY <2>1 DEF q, t
      <4> QED
        BY <4>1, DividedOnce
    <3> QED
      BY <3>1 DEF q, t
  <2> DEFINE e == LastKey1[1] - c
  <2>3. e \in Nat /\ LastKey1[1] - FirstKey1[1] = (c - FirstKey1[1]) + e
    BY <1>1
  <2> HIDE DEF e
  <2>4. C * (LastKey1[1] - FirstKey1[1]) = C * (c - FirstKey1[1]) + C * e /\ C * e \in Nat
        /\ C * (c - FirstKey1[1]) \in Nat
    BY <2>1, <2>3
  <2>5. At(c, d) \in 0 .. L1!Candidates - 1
    BY <1>6, <2>1, <2>4
  <2> QED
    BY <2>2, <2>5
<1> QED
  <2>1. ASSUME NEW c \in FirstKey1[1] .. LastKey1[1], NEW d \in FirstKey1[2] .. LastKey1[2]
        PROVE  /\ L1!Number(<<c, d>>) = At(c, d)
               /\ L1!Number(<<c, d>>) \in 0 .. L1!Candidates - 1
               /\ L1!Number(<<c, d>>) = L1!Number(L1!TheKey) <=> <<c, d>> = L1!TheKey
    <3> DEFINE t == L1!TheKey[1]
               u == L1!TheKey[2]
    <3>0. c \in Int /\ d \in Int /\ t \in Int /\ u \in Int
      BY <1>1, <1>3
    <3>1. L1!Number(<<c, d>>) = At(c, d) /\ L1!Number(L1!TheKey) = At(t, u)
      BY <1>2, <1>5, <3>0
    <3>2. /\ At(c, d) \div C = c - FirstKey1[1] /\ At(c, d) % C = d - FirstKey1[2]
          /\ At(t, u) \div C = t - FirstKey1[1] /\ At(t, u) % C = u - FirstKey1[2]
          /\ At(c, d) \in 0 .. L1!Candidates - 1
      BY <1>3, <1>7
    <3>3. At(c, d) = At(t, u) => c - FirstKey1[1] = t - FirstKey1[1] /\ d - FirstKey1[2] = u - FirstKey1[2]
      BY <3>2
    <3> HIDE DEF At, t, u
    <3>4. At(c, d) = At(t, u) => c = t /\ d = u
      BY <3>0, <3>3, <1>1
    <3>5. <<c, d>> = L1!TheKey <=> c = t /\ d = u
      BY <1>2 DEF t, u
    <3>6. c = t /\ d = u => At(c, d) = At(t, u)
      OBVIOUS
    <3> QED
      BY <3>1, <3>2, <3>4, <3>5, <3>6
  <2>2. L1!Candidates \in Nat
    <3>1. C \in Nat /\ LastKey1[1] - FirstKey1[1] \in Nat
      BY <1>1, <1>3, <1>4 DEF C
    <3>2. C * (LastKey1[1] - FirstKey1[1]) \in Nat
      BY <3>1
    <3> QED
      BY <1>6, <3>1, <3>2
  <2> QED
    BY <1>4, <1>6, <2>1, <2>2 DEF C

LEMMA Fresh1 == ASSUME HalvesOK, Layer1OK, L1!Init PROVE Search1!Fresh
<1>1. L1!Good \subseteq 0 .. L1!Candidates - 1
  <2>1. L1!TheKey = <<L1!TheKey[1], L1!TheKey[2]>>
    BY DEF L1!TheKey
  <2>2. /\ L1!TheKey[1] \in FirstKey1[1] .. LastKey1[1] /\ L1!TheKey[2] \in FirstKey1[2] .. LastKey1[2]
    BY DEF Layer1OK
  <2>3. L1!Number(L1!TheKey) \in 0 .. L1!Candidates - 1
    BY <2>1, <2>2, Numbers1
  <2> QED
    BY <2>3 DEF L1!Good
<1>2. L1!Reported = {}
  BY DEF L1!Reported, L1!Init
<1>3. L1!Tried = 0
  <2>1. FirstKey1[1] \in Int /\ FirstKey1[2] \in Int
    BY WrapOf DEF Layer1OK
  <2>2. L1!Tried = L1!Number(<<FirstKey1[1], FirstKey1[2]>>)
    BY DEF L1!Tried, L1!Init
  <2>3. FirstKey1[1] \in FirstKey1[1] .. LastKey1[1] /\ FirstKey1[2] \in FirstKey1[2] .. LastKey1[2]
    <3>1. LastKey1[1] \in Int /\ LastKey1[2] \in Int
      BY WrapOf DEF Layer1OK
    <3> QED
      BY <2>1, <3>1 DEF Layer1OK
  <2>4. L1!Tried = L1!Columns * (FirstKey1[1] - FirstKey1[1]) + (FirstKey1[2] - FirstKey1[2])
        /\ L1!Columns \in Nat
    BY <2>2, <2>3, Numbers1
  <2> QED
    BY <2>1, <2>4
<1> QED
  BY <1>1, <1>2, <1>3 DEF Search1!Fresh

LEMMA SameNumbers1 ==
  ASSUME L1!Next
  PROVE  /\ L1!Candidates' = L1!Candidates /\ L1!Good' = L1!Good
         /\ \A k : L1!Number(k)' = L1!Number(k)
  BY DEF L1!Candidates, L1!Good, L1!Number, L1!TheKey, L1!Columns

LEMMA Step1 ==
  ASSUME HalvesOK, IsXor(Word), Layer1OK, Inv1, L1!Next
  PROVE  Search1!Try \/ UNCHANGED Search1!vars
<1>1. CASE L1!Report
  <2> DEFINE n == L1!Number(<<k1, k2>>)
  <2>1. /\ k1 \in FirstKey1[1] .. LastKey1[1] /\ k2 \in FirstKey1[2] .. LastKey1[2]
        /\ FirstKey1[1] \in Int /\ FirstKey1[2] \in Int /\ LastKey1[1] \in Int /\ LastKey1[2] \in Int
    <3>1. FirstKey1[1] \in Word /\ LastKey1[1] \in Word /\ FirstKey1[2] \in Word /\ LastKey1[2] \in Word
      BY DEF Layer1OK
    <3> QED
      BY <3>1, WrapOf DEF Inv1, L1!TypeOK
  <2>2. pc = "return" /\ L1!Tried = n /\ n \in 0 .. L1!Candidates - 1 /\ L1!Candidates \in Nat
    BY <1>1, <2>1, Numbers1 DEF L1!Report, L1!Tried
  <2>3. n \in L1!Good <=> ret = 1
    BY <2>1, <2>2, Numbers1 DEF L1!Good, Inv1
  <2>4. L1!Reported' = L1!Reported \union ({n} \intersect L1!Good)
    <3>1. CASE ret = 1
      <4>1. printed' = printed \union {<<k1, k2>>}
        BY <1>1, <3>1 DEF L1!Report
      <4>2. L1!Reported' = L1!Reported \union {n}
        BY <4>1 DEF L1!Reported, L1!Number, L1!Columns
      <4> QED
        BY <4>2, <3>1, <2>3
    <3>2. CASE ret # 1
      <4>1. printed' = printed
        BY <1>1, <3>2 DEF L1!Report
      <4>2. L1!Reported' = L1!Reported
        BY <4>1 DEF L1!Reported, L1!Number, L1!Columns
      <4> QED
        BY <4>2, <3>2, <2>3
    <3> QED
      BY <3>1, <3>2
  <2>5. L1!Tried' = n + 1
    <3> DEFINE C == L1!Columns
    <3>0. /\ C \in Nat /\ C = LastKey1[2] - FirstKey1[2] + 1
          /\ n = C * (k1 - FirstKey1[1]) + (k2 - FirstKey1[2])
          /\ L1!Candidates = C * (LastKey1[1] - FirstKey1[1]) + C
          /\ L1!Candidates' = L1!Candidates
      BY <2>1, Numbers1, SameNumbers1
    <3>1. CASE k2 = LastKey1[2] /\ k1 = LastKey1[1]
      <4>1. L1!Tried' = L1!Candidates
        BY <1>1, <3>0, <3>1 DEF L1!Report, L1!Tried
      <4>2. n + 1 = C * (LastKey1[1] - FirstKey1[1]) + C
        BY <2>1, <3>0, <3>1
      <4> QED
        BY <3>0, <4>1, <4>2
    <3>2. CASE k2 = LastKey1[2] /\ k1 # LastKey1[1]
      <4>1. /\ k1 + 1 \in FirstKey1[1] .. LastKey1[1] /\ FirstKey1[2] \in FirstKey1[2] .. LastKey1[2]
            /\ pc' = "main" /\ k1' = k1 + 1 /\ k2' = FirstKey1[2]
        BY <1>1, <2>1, <3>2 DEF L1!Report
      <4>2. L1!Tried' = L1!Number(<<k1 + 1, FirstKey1[2]>>)
        BY <4>1 DEF L1!Tried, L1!Number, L1!Columns
      <4>3. L1!Tried' = C * ((k1 + 1) - FirstKey1[1]) + (FirstKey1[2] - FirstKey1[2])
        <5> DEFINE c == k1 + 1
                   d == FirstKey1[2]
        <5>1. c \in FirstKey1[1] .. LastKey1[1] /\ d \in FirstKey1[2] .. LastKey1[2]
              /\ L1!Tried' = L1!Number(<<c, d>>)
          BY <4>1, <4>2
        <5> HIDE DEF c, d
        <5>2. L1!Tried' = C * (c - FirstKey1[1]) + (d - FirstKey1[2])
          BY <5>1, Numbers1
        <5> QED
          BY <5>2 DEF c, d
      <4> DEFINE x == k1 - FirstKey1[1]
      <4>4. (k1 + 1) - FirstKey1[1] = x + 1 /\ x \in Int
        BY <2>1
      <4>5. C * (x + 1) = C * x + C
        BY <3>0, <4>4
      <4>6. C * x \in Int
        BY <3>0, <4>4
      <4> HIDE DEF x
      <4>7. n = C * x + (k2 - FirstKey1[2])
        BY <3>0 DEF x
      <4> QED
        BY <2>1, <3>0, <3>2, <4>3, <4>4, <4>5, <4>6, <4>7
    <3>3. CASE k2 # LastKey1[2]
      <4>1. k2 + 1 \in FirstKey1[2] .. LastKey1[2] /\ pc' = "main" /\ k1' = k1 /\ k2' = k2 + 1
        BY <1>1, <2>1, <3>3 DEF L1!Report
      <4>2. L1!Tried' = L1!Number(<<k1, k2 + 1>>)
        BY <4>1 DEF L1!Tried, L1!Number, L1!Columns
      <4>3. L1!Tried' = C * (k1 - FirstKey1[1]) + (k2 + 1 - FirstKey1[2])
        BY <2>1, <4>1, <4>2, Numbers1
      <4>4. C * (k1 - FirstKey1[1]) \in Int
        BY <2>1, <3>0
      <4> QED
        BY <2>1, <3>0, <4>3, <4>4
    <3> QED
      BY <3>1, <3>2, <3>3
  <2> QED
    BY <1>1, <2>2, <2>4, <2>5, SameNumbers1 DEF Search1!Try
<1>2. CASE ~L1!Report
  <2>1. printed' = printed /\ k1' = k1 /\ k2' = k2 /\ pc # "exit" /\ pc' # "exit"
    <3>1. L1!Try \/ L1!Low1 \/ L1!High1 \/ L1!TestHigh \/ L1!ShiftLow \/ L1!TestLow \/ L1!WriteVerdict
      BY <1>2 DEF L1!Next
    <3> QED
      BY <3>1 DEF L1!Try, L1!Low1, L1!High1, L1!TestHigh, L1!ShiftLow, L1!TestLow, L1!WriteVerdict
  <2>2. L1!Tried' = L1!Tried /\ L1!Reported' = L1!Reported
    BY <2>1 DEF L1!Tried, L1!Reported, L1!Number, L1!Columns
  <2> QED
    BY <2>2, SameNumbers1 DEF Search1!vars
<1> QED
  BY <1>1, <1>2

LEMMA Stutter1 == ASSUME Inv1, UNCHANGED L1!vars PROVE Inv1' /\ UNCHANGED Search1!vars
<1>1. UNCHANGED <<pc, k1, k2, key, r12, r3, r6, r8, z0, ret, printed>>
  BY DEF L1!vars
<1>2. L1!MixLow' = L1!MixLow /\ L1!MixHigh' = L1!MixHigh /\ L1!TheKey' = L1!TheKey
  BY <1>1 DEF L1!MixLow, L1!MixHigh
<1>3. L1!TypeOK'
  BY <1>1 DEF Inv1, L1!TypeOK
<1>4. Inv1'
  BY <1>1, <1>2, <1>3 DEF Inv1
<1>5. UNCHANGED Search1!vars
  BY <1>1 DEF Search1!vars, L1!Candidates, L1!Good, L1!Tried, L1!Reported, L1!Number, L1!Columns,
              L1!TheKey
<1> QED
  BY <1>4, <1>5

LEMMA Always1 == ASSUME HalvesOK, IsXor(Word), Layer1OK PROVE L1!Spec => []Inv1
<1>1. L1!Init => Inv1
  BY InitInv1
<1>2. Inv1 /\ [L1!Next]_L1!vars => Inv1'
  BY Next1, Stutter1
<1> QED
  BY <1>1, <1>2, PTL DEF L1!Spec

\* The client of the machine, which only sees the key change in the memory, accepts the
\* pairs of words for which f() returns 1 and no other, on the paths that jump over the
\* verdict, too (bflayer1.c).
THEOREM Layer1Agrees ==
  ASSUME HalvesOK, IsXor(Word), Layer1OK
  PROVE  L1!Spec => [](L1!TypeOK /\ L1!ClientAgrees)
<1>1. Inv1 => L1!TypeOK /\ L1!ClientAgrees
  BY Safe1
<1> QED
  BY <1>1, Always1, PTL

\* The loops of main() implement the search of module KeySearch: every pair of words of
\* the range is tried once, and what is printed, once it has been tried, is the one pair
\* that solves the equations of the layer (bflayer1.c).
THEOREM Layer1Finds ==
  ASSUME HalvesOK, IsXor(Word), Layer1OK
  PROVE  L1!Spec => Search1!Promise
<1>1. L1!Init => Search1!Fresh
  BY Fresh1
<1>2. Inv1 /\ [L1!Next]_L1!vars => [Search1!Next]_Search1!vars
  BY Step1, Stutter1 DEF Search1!Next
<1> QED
  BY <1>1, <1>2, Always1, PTL DEF L1!Spec, Search1!Promise

-----------------------------------------------------------------------------
(***************************************************************************)
(* Layer 2.                                                                *)
(***************************************************************************)

Layer2OK ==
  \* the block does not go over the end of the memory
  /\ Rounds2 \in Nat /\ Rounds2 > 0 /\ Start2 \in Nat /\ Start2 + 4 * Rounds2 \in Word
  /\ \A s \in L2!Slots : Mask2[s] \in Word
  /\ Blobs2 \subseteq [L2!Slots -> Word]
  /\ {Marker, Refused, Lo2, FirstKey2, LastKey2} \subseteq Word
  /\ \A b \in Blobs2 : L2!TheKey(b) \in FirstKey2 .. LastKey2

LEMMA Words2 ==
  /\ L2!Half = Half /\ L2!WordBase = WordBase /\ L2!Word = Word
  /\ \A n : L2!Wrap(n) = Wrap(n) /\ L2!Complement(n) = Complement(n)
  /\ \A n, m : L2!Borrow(n, m) = Borrow(n, m)
BY DEF L2!Half, Half, L2!WordBase, WordBase, L2!Word, Word, L2!Wrap, Wrap, L2!Complement,
       Complement, L2!Borrow, Borrow

LEMMA MovedOn ==
  ASSUME NEW n \in Nat
  PROVE  L2!Moved(n) \in Int /\ L2!Moved(n + 1) = L2!Moved(n) + n /\ L2!Moved(0) = 0
<1>1. n * (n - 1) \in Int
  OBVIOUS
<1>2. (n + 1) * ((n + 1) - 1) = n * (n - 1) + 2 * n
  OBVIOUS
<1>3. \A m \in Int : m \div 2 \in Int /\ (m + 2 * n) \div 2 = (m \div 2) + n
  OBVIOUS
<1>4. 0 * (0 - 1) = 0 /\ 0 \div 2 = 0
  OBVIOUS
<1> QED
  BY <1>1, <1>2, <1>3, <1>4 DEF L2!Moved

Place2 == 0 .. 2 * Rounds2 - 1

LEMMA Slots2 ==
  ASSUME HalvesOK, Layer2OK
  PROVE  /\ \A n \in Place2 : Start2 + 2 * n \in L2!Slots
         /\ L2!Slots = {Start2 + 2 * n : n \in Place2}
         /\ L2!LastSlot = Start2 + 2 * (2 * Rounds2 - 1) /\ 2 * Rounds2 - 1 \in Place2
         /\ \A s \in L2!Slots : Mask2[s] \in Word
         /\ \A b \in Blobs2 : b \in [L2!Slots -> Word] /\ \A s \in L2!Slots : b[s] \in Word
<1>1. Rounds2 \in Nat /\ Rounds2 > 0 /\ Start2 \in Nat
  BY DEF Layer2OK
<1>2. L2!LastSlot = Start2 + 2 * (2 * Rounds2 - 1) /\ 2 * Rounds2 - 1 \in Place2
  BY <1>1 DEF L2!LastSlot, Place2
<1>3. L2!Slots = {Start2 + 2 * n : n \in Place2}
  BY DEF L2!Slots, Place2
<1> QED
  BY <1>2, <1>3 DEF Layer2OK

\* The words of the key stream.
LEMMA Streams2 ==
  ASSUME HalvesOK, Layer2OK, NEW j \in Nat, NEW k \in Word
  PROVE  /\ L2!Plain(2 * j, k) = BitXor(BitXor(blob[Start2 + 2 * (2 * j)], Mask2[Start2 + 2 * (2 * j)]),
                                        Wrap(Lo2 + L2!Moved(j)))
         /\ L2!Plain(2 * j + 1, k) = BitXor(BitXor(blob[Start2 + 2 * (2 * j + 1)], Mask2[Start2 + 2 * (2 * j + 1)]),
                                            Wrap(k - L2!Moved(j)))
         /\ Wrap(Lo2 + L2!Moved(j)) \in Word /\ Wrap(k - L2!Moved(j)) \in Word
<1>1. (2 * j) % 2 = 0 /\ (2 * j + 1) % 2 = 1 /\ (2 * j) \div 2 = j /\ (2 * j + 1) \div 2 = j
  OBVIOUS
<1>2. L2!Moved(j) \in Int /\ Lo2 \in Int /\ k \in Int
  BY MovedOn, WrapOf DEF Layer2OK
<1>3. Wrap(Lo2 + L2!Moved(j)) \in Word /\ Wrap(k - L2!Moved(j)) \in Word
  BY <1>2, WrapIs
<1> QED
  BY <1>1, <1>3, Words2 DEF L2!Plain

\* The first m words of the block have been decrypted, and no other.
Held2(m) ==
  \A n \in Place2 : block[Start2 + 2 * n] = IF n < m THEN L2!Plain(n, k2) ELSE blob[Start2 + 2 * n]

LEMMA Decrypts2 ==
  ASSUME HalvesOK, IsXor(Word), Layer2OK, L2!TypeOK, NEW m \in Place2, Held2(m), r8 = Start2 + 2 * m,
         NEW w \in Word, L2!Decrypt(w), UNCHANGED <<blob, k2>>,
         L2!Plain(m, k2) = BitXor(BitXor(blob[r8], Mask2[r8]), w)
  PROVE  Held2(m + 1)' /\ block' \in [L2!Slots -> Word]
<1>1. block \in [L2!Slots -> Word] /\ r8 \in L2!Slots
  BY Slots2, Words2 DEF L2!TypeOK
<1>2. block' = [block EXCEPT ![r8] = BitXor(BitXor(block[r8], Mask2[r8]), w)]
  BY DEF L2!Decrypt
<1>3. block[r8] = blob[r8]
  BY DEF Held2, Layer2OK, Place2
<1>4. block[r8] \in Word /\ Mask2[r8] \in Word
  BY <1>1, Slots2
<1>5. block' \in [L2!Slots -> Word]
  BY <1>1, <1>2, <1>4, XorUndone
<1>6. ASSUME NEW n \in Place2
      PROVE  block'[Start2 + 2 * n] = IF n < m + 1 THEN L2!Plain(n, k2) ELSE blob[Start2 + 2 * n]
  <2>1. Start2 + 2 * n \in L2!Slots /\ n \in Int /\ m \in Int /\ Start2 \in Int
    BY Slots2 DEF Place2, Layer2OK
  <2>2. CASE n = m
    BY <1>1, <1>2, <1>3, <2>1, <2>2
  <2>3. CASE n # m
    <3>1. Start2 + 2 * n # r8
      BY <2>1, <2>3
    <3>2. block'[Start2 + 2 * n] = block[Start2 + 2 * n]
      BY <1>1, <1>2, <2>1, <3>1
    <3>3. n < m <=> n < m + 1
      BY <2>1, <2>3
    <3> QED
      BY <3>2, <3>3 DEF Held2
  <2> QED
    BY <2>2, <2>3
<1>7. \A n : L2!Plain(n, k2)' = L2!Plain(n, k2)
  BY DEF L2!Plain
<1> QED
  BY <1>5, <1>6, <1>7 DEF Held2

\* m words have been decrypted, r8 is s, and the two words of the stream are those of
\* rounds l and h.
Round2(m, s, l, h) ==
  /\ Held2(m) /\ r8 = s /\ ret = 1
  /\ r11 = Wrap(Lo2 + L2!Moved(l)) /\ hi = Wrap(k2 - L2!Moved(h))

\* All words have been decrypted, and the last one is spoilt if the key is wrong.
Judged2 ==
  /\ block[L2!LastSlot] = IF ret = 1 THEN Marker ELSE Refused
  /\ \A n \in 0 .. 2 * Rounds2 - 2 : block[Start2 + 2 * n] = L2!Plain(n, k2)
  /\ ret = 1 <=> k2 = L2!TheKey(blob)
  /\ r8 = L2!LastSlot /\ r11 = Wrap(Lo2 + L2!Moved(Rounds2))

Inv2 ==
  /\ L2!TypeOK
  /\ pc \in {"low", "advance", "high", "lower", "count"} => i < Rounds2
  /\ pc = "low" => Round2(2 * i, Start2 + 4 * i, i, i)
  /\ pc = "advance" => Round2(2 * i + 1, Start2 + 4 * i, i, i)
  /\ pc = "high" => Round2(2 * i + 1, Start2 + 4 * i + 2, i + 1, i)
  /\ pc = "lower" => Round2(2 * i + 2, Start2 + 4 * i + 2, i + 1, i)
  /\ pc = "count" => Round2(2 * i + 2, Start2 + 4 * i + 4, i + 1, i + 1)
  /\ pc = "step back" => i = Rounds2 /\ Round2(2 * i, Start2 + 4 * i, i, i)
  /\ pc = "marker" => i = Rounds2 /\ Round2(2 * i, Start2 + 2 * (2 * i - 1), i, i)
  /\ pc = "loop" => \/ i = Rounds2 /\ Judged2
                    \/ i < Rounds2 /\ i > 0 /\ Round2(2 * i, Start2 + 4 * i, i, i)
  /\ pc = "return" => Judged2

LEMMA Given2 ==
  ASSUME HalvesOK, Layer2OK, L2!TypeOK
  PROVE  /\ k2 \in Word /\ r11 \in Word /\ hi \in Word /\ r8 \in Word /\ i \in Word
         /\ k2 \in Int /\ r11 \in Int /\ hi \in Int /\ r8 \in Int /\ i \in Nat
         /\ Rounds2 \in Nat /\ Rounds2 > 0 /\ Start2 \in Nat /\ Rounds2 \in Word
         /\ Lo2 \in Int /\ L2!Word = Word /\ Lo2 \in Word /\ Lo2 = Wrap(Lo2)
         /\ \A n \in Nat : n <= Start2 + 4 * Rounds2 => n \in Word /\ Wrap(n) = n
<1>1. r11 \in Word /\ hi \in Word /\ r8 \in Word /\ i \in Word /\ k2 \in FirstKey2 .. LastKey2
  BY Words2 DEF L2!TypeOK
<1>2. FirstKey2 \in Word /\ LastKey2 \in Word /\ Lo2 \in Word
  BY DEF Layer2OK
<1>3. WordBase \in Nat
  BY Base
<1>4. k2 \in Word
  BY <1>1, <1>2, <1>3 DEF Word
<1>5. r11 \in Int /\ hi \in Int /\ r8 \in Int /\ i \in Nat /\ k2 \in Int /\ Lo2 \in Int
  BY <1>1, <1>2, <1>3, <1>4 DEF Word
<1>6. Rounds2 \in Nat /\ Rounds2 > 0 /\ Start2 \in Nat /\ Start2 + 4 * Rounds2 \in Word
  BY DEF Layer2OK
<1>7. \A n \in Nat : n <= Start2 + 4 * Rounds2 => n \in Word
  BY <1>3, <1>6 DEF Word
<1>8. Rounds2 \in Word
  BY <1>6, <1>7
<1> QED
  BY <1>1, <1>2, <1>4, <1>5, <1>6, <1>7, <1>8, WrapOf, Words2

LEMMA InitInv2 == ASSUME HalvesOK, Layer2OK, L2!Init PROVE Inv2
<1>1. FirstKey2 \in FirstKey2 .. LastKey2
  <2>1. PICK b \in Blobs2 : L2!TheKey(b) \in FirstKey2 .. LastKey2
    BY DEF Layer2OK, L2!Init
  <2>2. FirstKey2 \in Int /\ LastKey2 \in Int
    BY WrapOf DEF Layer2OK
  <2> QED
    BY <2>1, <2>2
<1>2. L2!TypeOK
  BY <1>1, Words2, Base DEF L2!TypeOK, L2!Init
<1> QED
  BY <1>2 DEF L2!Init, Inv2

LEMMA Try2 == ASSUME HalvesOK, IsXor(Word), Layer2OK, Inv2, L2!Try PROVE Inv2'
<1>1. blob \in [L2!Slots -> Word] /\ L2!TypeOK
  BY Slots2 DEF L2!TypeOK, Inv2
<1>2. /\ block' = blob /\ r11' = Lo2 /\ hi' = k2 /\ i' = 0 /\ r8' = Start2 /\ ret' = 1
      /\ pc' = "low" /\ blob' = blob /\ k2' = k2
  BY DEF L2!Try, L2!Copy
<1>3. Start2 \in Word /\ 0 \in Word
  BY <1>1, Given2, Base
<1>4. L2!TypeOK'
  BY <1>1, <1>2, <1>3, Given2 DEF L2!TypeOK, L2!Try
<1>5. Held2(0)'
  BY <1>2 DEF Held2, Place2
<1>6. r11' = Wrap(Lo2 + L2!Moved(0)) /\ hi' = Wrap(k2 - L2!Moved(0))
  BY <1>1, <1>2, Given2, MovedOn, WrapOf
<1>7. Round2(2 * i, Start2 + 4 * i, i, i)'
  <2>1. 2 * i' = 0 /\ Start2 + 4 * i' = Start2 /\ i' = 0
    BY <1>1, <1>2, Given2
  <2> QED
    BY <1>2, <1>5, <1>6, <2>1 DEF Round2
<1>8. i' < Rounds2
  BY <1>1, <1>2, Given2
<1> QED
  BY <1>2, <1>4, <1>7, <1>8 DEF Inv2

LEMMA DecryptLow2 == ASSUME HalvesOK, IsXor(Word), Layer2OK, Inv2, L2!DecryptLow PROVE Inv2'
<1>1. /\ pc = "low" /\ L2!TypeOK /\ i < Rounds2 /\ Round2(2 * i, Start2 + 4 * i, i, i)
      /\ i \in Nat /\ k2 \in Word /\ Rounds2 \in Nat /\ Start2 \in Nat /\ r11 \in Word
  BY Given2 DEF Inv2, L2!DecryptLow
<1>2. /\ UNCHANGED <<blob, k2, r11, hi, i, r8, ret, printed>> /\ pc' = "advance" /\ L2!Decrypt(r11)
  BY DEF L2!DecryptLow
<1>3. 2 * i \in Place2 /\ r8 = Start2 + 2 * (2 * i) /\ Held2(2 * i)
  BY <1>1 DEF Place2, Round2
<1>4. L2!Plain(2 * i, k2) = BitXor(BitXor(blob[r8], Mask2[r8]), r11)
  BY <1>1, <1>3, Streams2 DEF Round2
<1>5. Held2(2 * i + 1)' /\ block' \in [L2!Slots -> Word]
  BY <1>1, <1>2, <1>3, <1>4, Decrypts2
<1>6. L2!TypeOK'
  BY <1>1, <1>2, <1>5, Given2 DEF L2!TypeOK
<1>7. Round2(2 * i + 1, Start2 + 4 * i, i, i)'
  BY <1>1, <1>2, <1>5 DEF Round2
<1> QED
  BY <1>1, <1>2, <1>6, <1>7 DEF Inv2

LEMMA AdvanceLow2 == ASSUME HalvesOK, IsXor(Word), Layer2OK, Inv2, L2!AdvanceLow PROVE Inv2'
<1>1. /\ pc = "advance" /\ L2!TypeOK /\ i < Rounds2 /\ Round2(2 * i + 1, Start2 + 4 * i, i, i)
      /\ i \in Nat /\ k2 \in Word /\ Rounds2 \in Nat /\ Start2 \in Nat /\ Lo2 \in Int
  BY Given2 DEF Inv2, L2!AdvanceLow
<1>2. /\ UNCHANGED <<blob, k2, block, hi, i, ret, printed>> /\ pc' = "high"
      /\ r11' = Wrap(r11 + i) /\ r8' = Wrap(r8 + 2)
  BY Words2 DEF L2!AdvanceLow
<1>3. r8' = Start2 + 4 * i + 2 /\ r8' \in Word
  <2>1. r8 + 2 = Start2 + 4 * i + 2 /\ r8 + 2 \in Nat /\ r8 + 2 <= Start2 + 4 * Rounds2
    BY <1>1 DEF Round2
  <2> QED
    BY <1>1, <1>2, <2>1, Given2
<1>4. r11' = Wrap(Lo2 + L2!Moved(i + 1)) /\ r11' \in Word
  <2>1. L2!Moved(i) \in Int /\ L2!Moved(i + 1) = L2!Moved(i) + i
    BY <1>1, MovedOn
  <2>2. r11' = Wrap((Lo2 + L2!Moved(i)) + i)
    <3>1. Lo2 + L2!Moved(i) \in Int /\ i \in Int
      BY <1>1, <2>1
    <3>2. r11' = Wrap(Wrap(Lo2 + L2!Moved(i)) + i)
      BY <1>1, <1>2 DEF Round2
    <3> QED
      BY <3>1, <3>2, WrapSum
  <2>3. (Lo2 + L2!Moved(i)) + i = Lo2 + L2!Moved(i + 1) /\ (Lo2 + L2!Moved(i)) + i \in Int
    BY <1>1, <2>1
  <2> QED
    BY <2>2, <2>3, WrapIs
<1>5. Held2(2 * i + 1)'
  BY <1>1, <1>2 DEF Round2, Held2, L2!Plain
<1>6. L2!TypeOK'
  BY <1>1, <1>2, <1>3, <1>4, Given2 DEF L2!TypeOK
<1>7. Round2(2 * i + 1, Start2 + 4 * i + 2, i + 1, i)'
  BY <1>1, <1>2, <1>3, <1>4, <1>5 DEF Round2
<1> QED
  BY <1>1, <1>2, <1>6, <1>7 DEF Inv2

LEMMA DecryptHigh2 == ASSUME HalvesOK, IsXor(Word), Layer2OK, Inv2, L2!DecryptHigh PROVE Inv2'
<1>1. /\ pc = "high" /\ L2!TypeOK /\ i < Rounds2 /\ Round2(2 * i + 1, Start2 + 4 * i + 2, i + 1, i)
      /\ i \in Nat /\ k2 \in Word /\ Rounds2 \in Nat /\ Start2 \in Nat /\ hi \in Word
  BY Given2 DEF Inv2, L2!DecryptHigh
<1>2. /\ UNCHANGED <<blob, k2, r11, hi, i, r8, ret, printed>> /\ pc' = "lower" /\ L2!Decrypt(hi)
  BY DEF L2!DecryptHigh
<1>3. 2 * i + 1 \in Place2 /\ r8 = Start2 + 2 * (2 * i + 1) /\ Held2(2 * i + 1)
  BY <1>1 DEF Place2, Round2
<1>4. L2!Plain(2 * i + 1, k2) = BitXor(BitXor(blob[r8], Mask2[r8]), hi)
  BY <1>1, <1>3, Streams2 DEF Round2
<1>5. Held2((2 * i + 1) + 1)' /\ block' \in [L2!Slots -> Word]
  BY <1>1, <1>2, <1>3, <1>4, Decrypts2
<1>6. L2!TypeOK'
  BY <1>1, <1>2, <1>5, Given2 DEF L2!TypeOK
<1>7. Round2(2 * i + 2, Start2 + 4 * i + 2, i + 1, i)'
  <2>1. (2 * i + 1) + 1 = 2 * i + 2
    BY <1>1
  <2> QED
    BY <1>1, <1>2, <1>5, <2>1 DEF Round2
<1> QED
  BY <1>1, <1>2, <1>6, <1>7 DEF Inv2

LEMMA LowerHigh2 == ASSUME HalvesOK, IsXor(Word), Layer2OK, Inv2, L2!LowerHigh PROVE Inv2'
<1>1. /\ pc = "lower" /\ L2!TypeOK /\ i < Rounds2 /\ Round2(2 * i + 2, Start2 + 4 * i + 2, i + 1, i)
      /\ i \in Nat /\ k2 \in Int /\ Rounds2 \in Nat /\ Start2 \in Nat /\ hi \in Int
  BY Given2 DEF Inv2, L2!LowerHigh
<1>2. /\ UNCHANGED <<blob, k2, block, r11, i, ret, printed>> /\ pc' = "count"
      /\ hi' = Wrap(hi + Wrap(Complement(i) + 1)) /\ r8' = Wrap(r8 + 2)
  BY Words2 DEF L2!LowerHigh, L2!Less
<1>3. r8' = Start2 + 4 * i + 4 /\ r8' \in Word
  <2>1. r8 + 2 = Start2 + 4 * i + 4 /\ r8 + 2 \in Nat /\ r8 + 2 <= Start2 + 4 * Rounds2
    BY <1>1 DEF Round2
  <2> QED
    BY <1>1, <1>2, <2>1, Given2
<1>4. hi' = Wrap(k2 - L2!Moved(i + 1)) /\ hi' \in Word
  <2>1. L2!Moved(i) \in Int /\ L2!Moved(i + 1) = L2!Moved(i) + i
    BY <1>1, MovedOn
  <2>2. WordBase \in Int /\ Complement(i) + 1 = WordBase - i /\ WordBase - i \in Int
    BY <1>1, Base DEF Complement
  <2>3. hi' = Wrap(hi + (WordBase - i))
    BY <1>1, <1>2, <2>2, WrapSum
  <2>4. hi + (WordBase - i) = (hi - i) + WordBase /\ hi - i \in Int
    BY <1>1, <2>2
  <2>5. hi' = Wrap(hi - i)
    BY <2>3, <2>4, WrapSum
  <2>6. Wrap(hi - i) = Wrap((k2 - L2!Moved(i)) - i)
    <3>1. k2 - L2!Moved(i) \in Int /\ i \in Int
      BY <1>1, <2>1
    <3>2. hi = Wrap(k2 - L2!Moved(i))
      BY <1>1 DEF Round2
    <3> QED
      BY <3>1, <3>2, WrapSum
  <2>7. (k2 - L2!Moved(i)) - i = k2 - L2!Moved(i + 1) /\ (k2 - L2!Moved(i)) - i \in Int
    BY <1>1, <2>1
  <2> QED
    BY <2>5, <2>6, <2>7, WrapIs
<1>5. Held2(2 * i + 2)'
  BY <1>1, <1>2 DEF Round2, Held2, L2!Plain
<1>6. L2!TypeOK'
  BY <1>1, <1>2, <1>3, <1>4, Given2 DEF L2!TypeOK
<1>7. Round2(2 * i + 2, Start2 + 4 * i + 4, i + 1, i + 1)'
  BY <1>1, <1>2, <1>3, <1>4, <1>5 DEF Round2
<1> QED
  BY <1>1, <1>2, <1>6, <1>7 DEF Inv2

LEMMA CountRound2 == ASSUME HalvesOK, IsXor(Word), Layer2OK, Inv2, L2!CountRound PROVE Inv2'
<1>1. /\ pc = "count" /\ L2!TypeOK /\ i < Rounds2
      /\ Round2(2 * i + 2, Start2 + 4 * i + 4, i + 1, i + 1)
      /\ i \in Nat /\ Rounds2 \in Nat /\ Rounds2 \in Word /\ Start2 \in Nat
  BY Given2 DEF Inv2, L2!CountRound
<1>2. i' = i + 1 /\ i' \in Word
  <2>1. i + 1 \in Nat /\ i + 1 <= Start2 + 4 * Rounds2
    BY <1>1
  <2> QED
    BY <1>1, <2>1, Given2, Words2 DEF L2!CountRound
<1>3. /\ UNCHANGED <<blob, k2, block, r11, hi, r8, ret, printed>>
      /\ pc' = IF i' = Rounds2 THEN "step back" ELSE "loop"
  <2>1. Wrap(i' - Rounds2) = 0 <=> i' = Rounds2
    BY <1>1, <1>2, WrapZero
  <2> QED
    BY <2>1, Words2 DEF L2!CountRound
<1>4. L2!TypeOK'
  BY <1>1, <1>2, <1>3, Given2 DEF L2!TypeOK
<1>5. PICK m : m = 2 * i + 2 /\ Held2(m)'
  <2>1. PICK m : m = 2 * i + 2
    OBVIOUS
  <2>2. Held2(m) /\ m = 2 * i + 2
    BY <1>1, <2>1 DEF Round2
  <2>3. Held2(m)'
    BY <1>3, <2>2 DEF Held2, L2!Plain
  <2> QED
    BY <2>1, <2>3
<1>6. Round2(2 * i, Start2 + 4 * i, i, i)'
  <2>1. 2 * i' = 2 * i + 2 /\ Start2 + 4 * i' = Start2 + 4 * i + 4
    BY <1>1, <1>2
  <2>2. r8' = Start2 + 4 * i' /\ ret' = 1 /\ r11' = Wrap(Lo2 + L2!Moved(i')) /\ hi' = Wrap(k2' - L2!Moved(i'))
    BY <1>1, <1>2, <1>3, <2>1 DEF Round2
  <2>3. Held2(2 * i)'
    <3>1. m = 2 * i'
      BY <1>5, <2>1
    <3> QED
      BY <1>5, <3>1 DEF Held2
  <2> QED
    BY <2>2, <2>3 DEF Round2
<1>7. i' > 0 /\ (i' = Rounds2 \/ i' < Rounds2)
  BY <1>1, <1>2
<1> QED
  BY <1>3, <1>4, <1>6, <1>7 DEF Inv2

LEMMA StepBack2 == ASSUME HalvesOK, IsXor(Word), Layer2OK, Inv2, L2!StepBack PROVE Inv2'
<1>1. /\ pc = "step back" /\ L2!TypeOK /\ i = Rounds2 /\ Round2(2 * i, Start2 + 4 * i, i, i)
      /\ i \in Nat /\ Rounds2 \in Nat /\ Rounds2 > 0 /\ Start2 \in Nat
  BY Given2 DEF Inv2, L2!StepBack
<1>2. /\ UNCHANGED <<blob, k2, block, r11, hi, i, ret, printed>> /\ pc' = "marker"
      /\ r8' = Wrap(r8 - 2)
  BY Words2 DEF L2!StepBack
<1>3. r8' = Start2 + 2 * (2 * i - 1) /\ r8' \in Word
  <2>1. r8 - 2 = Start2 + 2 * (2 * i - 1) /\ r8 - 2 \in Nat /\ r8 - 2 <= Start2 + 4 * Rounds2
    <3>1. r8 = Start2 + 4 * i /\ i \in Nat /\ i > 0 /\ i = Rounds2 /\ Start2 \in Nat
      BY <1>1 DEF Round2
    <3>2. r8 - 2 = Start2 + 2 * (2 * i - 1)
      BY <3>1
    <3>3. r8 - 2 \in Nat
      BY <3>1
    <3>4. r8 - 2 <= Start2 + 4 * Rounds2
      BY <3>1
    <3> QED
      BY <3>2, <3>3, <3>4, Zenon
  <2> QED
    BY <1>1, <1>2, <2>1, Given2
<1>4. L2!TypeOK'
  BY <1>1, <1>2, <1>3, Given2 DEF L2!TypeOK
<1>5. Held2(2 * i)'
  BY <1>1, <1>2 DEF Round2, Held2, L2!Plain
<1>6. Round2(2 * i, Start2 + 2 * (2 * i - 1), i, i)'
  BY <1>1, <1>2, <1>3, <1>5 DEF Round2
<1> QED
  BY <1>1, <1>2, <1>4, <1>6 DEF Inv2

\* The last word is the marker for one key.
LEMMA Solved2 ==
  ASSUME HalvesOK, IsXor(Word), Layer2OK, L2!TypeOK
  PROVE  /\ L2!Plain(2 * Rounds2 - 1, k2) \in Word
         /\ L2!Plain(2 * Rounds2 - 1, k2) = Marker <=> k2 = L2!TheKey(blob)
<1> DEFINE j == Rounds2 - 1
           c == BitXor(blob[L2!LastSlot], Mask2[L2!LastSlot])
           w == Wrap(k2 - L2!Moved(j))
<1>1. j \in Nat /\ 2 * j + 1 = 2 * Rounds2 - 1 /\ k2 \in Word
  BY Given2
<1>2. L2!LastSlot \in L2!Slots /\ L2!LastSlot = Start2 + 2 * (2 * j + 1)
  BY <1>1, Slots2
<1>3. blob[L2!LastSlot] \in Word /\ Mask2[L2!LastSlot] \in Word
  BY <1>2, Slots2 DEF L2!TypeOK
<1>4. L2!Plain(2 * Rounds2 - 1, k2) = BitXor(c, w) /\ w \in Word
  BY <1>1, <1>2, Streams2
<1>5. c \in Word
  BY <1>3, XorUndone
<1>6. L2!Moved(j) \in Int /\ Marker \in Word
  BY <1>1, MovedOn DEF Layer2OK
<1>7. L2!TheKey(blob) = Wrap(BitXor(c, Marker) + L2!Moved(j))
  BY Words2 DEF L2!TheKey
<1> HIDE DEF j, c
<1>8. w = BitXor(c, Marker) <=> k2 = Wrap(BitXor(c, Marker) + L2!Moved(j))
  BY <1>1, <1>5, <1>6, XorUndone, WrapMoves
<1> HIDE DEF w
<1>9. BitXor(c, w) = Marker <=> w = BitXor(c, Marker)
  <2>1. BitXor(w, c) = Marker <=> w = BitXor(Marker, c)
    BY <1>4, <1>5, <1>6, XorMoves
  <2>2. BitXor(w, c) = BitXor(c, w) /\ BitXor(Marker, c) = BitXor(c, Marker) /\ BitXor(c, w) \in Word
    BY <1>4, <1>5, <1>6, XorUndone
  <2> QED
    BY <2>1, <2>2
<1> QED
  BY <1>4, <1>5, <1>7, <1>8, <1>9, XorUndone

LEMMA CheckMarker2 == ASSUME HalvesOK, IsXor(Word), Layer2OK, Inv2, L2!CheckMarker PROVE Inv2'
<1>1. /\ pc = "marker" /\ L2!TypeOK /\ i = Rounds2 /\ Round2(2 * i, Start2 + 2 * (2 * i - 1), i, i)
      /\ i \in Nat /\ Rounds2 \in Nat /\ Rounds2 > 0 /\ Start2 \in Nat
  BY Given2 DEF Inv2, L2!CheckMarker
<1>2. UNCHANGED <<blob, k2, r11, hi, i, r8, printed>> /\ pc' = "loop"
  BY DEF L2!CheckMarker
<1>3. r8 = L2!LastSlot /\ r8 = Start2 + 2 * (2 * Rounds2 - 1) /\ r8 \in L2!Slots /\ ret = 1
      /\ block \in [L2!Slots -> Word]
  BY <1>1, Slots2, Words2 DEF Round2, L2!TypeOK
<1>4. /\ \A n \in 0 .. 2 * Rounds2 - 2 : block[Start2 + 2 * n] = L2!Plain(n, k2)
      /\ block[r8] = L2!Plain(2 * Rounds2 - 1, k2)
  <2>1. \A n \in Place2 : n < 2 * i /\ (n \in 0 .. 2 * Rounds2 - 2 \/ n = 2 * Rounds2 - 1)
    BY <1>1 DEF Place2
  <2>2. \A n \in 0 .. 2 * Rounds2 - 2 : n \in Place2
    BY <1>1 DEF Place2
  <2>3. 2 * Rounds2 - 1 \in Place2
    BY Slots2
  <2> QED
    BY <1>1, <1>3, <2>1, <2>2, <2>3 DEF Round2, Held2
<1>5. block[r8] = Marker <=> k2 = L2!TheKey(blob)
  BY <1>1, <1>4, Solved2
<1>6. Wrap(block[r8] - Marker) = 0 <=> block[r8] = Marker
  BY <1>1, <1>3, WrapZero DEF Layer2OK
<1>7. IF block[r8] # Marker
        THEN block' = [block EXCEPT ![r8] = Refused] /\ ret' = 0
        ELSE UNCHANGED <<block, ret>>
  BY <1>6, Words2 DEF L2!CheckMarker
<1>8. block' \in [L2!Slots -> Word] /\ ret' \in {0, 1}
  BY <1>3, <1>7 DEF Layer2OK
<1>9. L2!TypeOK'
  BY <1>1, <1>2, <1>8, Given2 DEF L2!TypeOK
<1>10. \A n \in 0 .. 2 * Rounds2 - 2 : block'[Start2 + 2 * n] = L2!Plain(n, k2)
  <2> TAKE n \in 0 .. 2 * Rounds2 - 2
  <2>1. Start2 + 2 * n # r8 /\ n \in Place2
    BY <1>1, <1>3 DEF Place2
  <2>2. Start2 + 2 * n \in L2!Slots
    BY <2>1, Slots2
  <2> QED
    BY <1>3, <1>4, <1>7, <2>1, <2>2
<1>11. block'[r8] = (IF ret' = 1 THEN Marker ELSE Refused) /\ (ret' = 1 <=> k2 = L2!TheKey(blob))
  BY <1>3, <1>5, <1>7
<1>12. Judged2'
  <2>1. L2!TheKey(blob)' = L2!TheKey(blob) /\ \A n : L2!Plain(n, k2)' = L2!Plain(n, k2)
    BY <1>2 DEF L2!Plain, L2!TheKey
  <2>2. L2!LastSlot' = L2!LastSlot /\ r11 = Wrap(Lo2 + L2!Moved(Rounds2))
    BY <1>1 DEF Round2, L2!LastSlot
  <2> QED
    BY <1>2, <1>3, <1>10, <1>11, <2>1, <2>2 DEF Judged2
<1> QED
  BY <1>1, <1>2, <1>9, <1>12 DEF Inv2

LEMMA LoopBack2 == ASSUME HalvesOK, IsXor(Word), Layer2OK, Inv2, L2!LoopBack PROVE Inv2'
<1>1. /\ pc = "loop" /\ L2!TypeOK /\ i \in Nat /\ Rounds2 \in Nat /\ Rounds2 > 0
  BY Given2 DEF Inv2, L2!LoopBack
<1>2. /\ UNCHANGED <<blob, k2, block, r11, hi, i, r8, ret, printed>>
      /\ pc' = IF i < Rounds2 THEN "low" ELSE "return"
  <2>1. L2!MoreRounds <=> i < Rounds2
    BY <1>1 DEF L2!MoreRounds, L2!Borrow
  <2> QED
    BY <2>1 DEF L2!LoopBack
<1>3. L2!TypeOK'
  BY <1>1, <1>2 DEF L2!TypeOK
<1>4. CASE i = Rounds2 /\ Judged2
  <2>1. Judged2'
    BY <1>2, <1>4 DEF Judged2, L2!Plain, L2!TheKey
  <2>2. pc' = "return"
    BY <1>1, <1>2, <1>4
  <2> QED
    BY <1>3, <2>1, <2>2 DEF Inv2
<1>5. CASE i < Rounds2 /\ Round2(2 * i, Start2 + 4 * i, i, i)
  <2>1. Round2(2 * i, Start2 + 4 * i, i, i)'
    BY <1>2, <1>5 DEF Round2, Held2, L2!Plain
  <2>2. pc' = "low" /\ i' < Rounds2
    BY <1>1, <1>2, <1>5
  <2> QED
    BY <1>3, <2>1, <2>2 DEF Inv2
<1> QED
  BY <1>1, <1>4, <1>5 DEF Inv2

LEMMA Report2 == ASSUME HalvesOK, IsXor(Word), Layer2OK, Inv2, L2!Report PROVE Inv2'
<1>1. L2!TypeOK /\ k2 \in FirstKey2 .. LastKey2 /\ FirstKey2 \in Int /\ LastKey2 \in Int
  BY WrapOf DEF Inv2, Layer2OK, L2!TypeOK
<1>2. k2' \in FirstKey2 .. LastKey2 /\ printed' \subseteq FirstKey2 .. LastKey2 /\ pc' \in {"main", "exit"}
  BY <1>1 DEF L2!Report, L2!TypeOK
<1>3. L2!TypeOK'
  BY <1>1, <1>2 DEF L2!TypeOK, L2!Report
<1> QED
  BY <1>2, <1>3 DEF Inv2

LEMMA Next2 == ASSUME HalvesOK, IsXor(Word), Layer2OK, Inv2, L2!Next PROVE Inv2'
  BY Try2, DecryptLow2, AdvanceLow2, DecryptHigh2, LowerHigh2, CountRound2, StepBack2, CheckMarker2,
     LoopBack2, Report2 DEF L2!Next

LEMMA Prints2 == L2!Next => printed' = printed \/ L2!Report
<1>1. L2!Try => printed' = printed
  BY DEF L2!Try
<1>2. L2!DecryptLow => printed' = printed
  BY DEF L2!DecryptLow
<1>3. L2!AdvanceLow => printed' = printed
  BY DEF L2!AdvanceLow
<1>4. L2!DecryptHigh => printed' = printed
  BY DEF L2!DecryptHigh
<1>5. L2!LowerHigh => printed' = printed
  BY DEF L2!LowerHigh
<1>6. L2!CountRound => printed' = printed
  BY DEF L2!CountRound
<1>7. L2!StepBack => printed' = printed
  BY DEF L2!StepBack
<1>8. L2!CheckMarker => printed' = printed
  BY DEF L2!CheckMarker
<1>9. L2!LoopBack => printed' = printed
  BY DEF L2!LoopBack
<1> QED
  BY <1>1, <1>2, <1>3, <1>4, <1>5, <1>6, <1>7, <1>8, <1>9 DEF L2!Next

LEMMA Safe2 ==
  ASSUME HalvesOK, Layer2OK, Inv2
  PROVE  L2!TypeOK /\ L2!Progress /\ L2!ClientAgrees
<1>1. L2!Progress
  BY Words2 DEF Inv2, L2!Progress, Round2, Held2, Place2
<1>2. L2!ClientAgrees
  BY DEF Inv2, L2!ClientAgrees, Judged2
<1> QED
  BY <1>1, <1>2 DEF Inv2

LEMMA Fresh2 == ASSUME HalvesOK, Layer2OK, L2!Init PROVE Search2!Fresh
<1>1. L2!TheKey(blob) \in FirstKey2 .. LastKey2
  BY DEF Layer2OK, L2!Init
<1>2. FirstKey2 \in Int /\ LastKey2 \in Int
  BY WrapOf DEF Layer2OK
<1>3. L2!TheKey(blob) \in Int
  BY <1>1, <1>2
<1>4. L2!TheKey(blob) - FirstKey2 \in 0 .. L2!Candidates - 1
  BY <1>1, <1>2, <1>3 DEF L2!Candidates
<1>5. L2!Tried = 0 /\ L2!Reported = {}
  BY <1>2 DEF L2!Init, L2!Tried, L2!Reported
<1> QED
  BY <1>4, <1>5 DEF Search2!Fresh, L2!Good

LEMMA SameKey2 ==
  ASSUME blob' = blob
  PROVE  L2!Candidates' = L2!Candidates /\ L2!Good' = L2!Good
  BY DEF L2!Candidates, L2!Good, L2!TheKey

LEMMA Step2 ==
  ASSUME HalvesOK, IsXor(Word), Layer2OK, Inv2, L2!Next
  PROVE  Search2!Try \/ UNCHANGED Search2!vars
<1>1. CASE L2!Report
  <2> DEFINE n == k2 - FirstKey2
  <2>1. /\ pc = "return" /\ k2 \in FirstKey2 .. LastKey2 /\ FirstKey2 \in Int /\ LastKey2 \in Int
        /\ blob' = blob /\ k2 \in Int /\ L2!TheKey(blob) \in Int
    <3>1. pc = "return" /\ k2 \in FirstKey2 .. LastKey2 /\ blob \in Blobs2
      BY <1>1 DEF Inv2, L2!TypeOK, L2!Report
    <3>2. FirstKey2 \in Int /\ LastKey2 \in Int
      BY WrapOf DEF Layer2OK
    <3>3. L2!TheKey(blob) \in FirstKey2 .. LastKey2
      BY <3>1 DEF Layer2OK
    <3> QED
      BY <1>1, <3>1, <3>2, <3>3 DEF L2!Report
  <2>2. ret = 1 <=> k2 = L2!TheKey(blob)
    BY <2>1 DEF Inv2, Judged2
  <2>3. n \in L2!Good <=> ret = 1
    <3> DEFINE right == L2!TheKey(blob)
    <3>1. right \in Int
      BY <2>1
    <3> HIDE DEF right
    <3>2. k2 - FirstKey2 = right - FirstKey2 <=> k2 = right
      BY <2>1, <3>1
    <3> QED
      BY <2>2, <3>2 DEF L2!Good, right
  <2>4. L2!Reported' = L2!Reported \union ({n} \intersect L2!Good)
    <3>1. printed' = IF ret = 1 THEN printed \union {k2} ELSE printed
      BY <1>1 DEF L2!Report
    <3> QED
      BY <2>3, <3>1 DEF L2!Reported
  <2>5. L2!Tried = n /\ n < L2!Candidates /\ L2!Tried' = n + 1
    BY <1>1, <2>1 DEF L2!Tried, L2!Report, L2!Candidates
  <2> QED
    BY <2>1, <2>4, <2>5, SameKey2 DEF Search2!Try
<1>2. CASE ~L2!Report
  <2>1. printed' = printed /\ k2' = k2 /\ pc # "exit" /\ pc' # "exit" /\ blob' = blob
    <3>1. \/ L2!Try \/ L2!DecryptLow \/ L2!AdvanceLow \/ L2!DecryptHigh \/ L2!LowerHigh
          \/ L2!CountRound \/ L2!StepBack \/ L2!CheckMarker \/ L2!LoopBack
      BY <1>2 DEF L2!Next
    <3> QED
      BY <3>1 DEF L2!Try, L2!DecryptLow, L2!AdvanceLow, L2!DecryptHigh, L2!LowerHigh,
                  L2!CountRound, L2!StepBack, L2!CheckMarker, L2!LoopBack
  <2>2. L2!Tried' = L2!Tried /\ L2!Reported' = L2!Reported
    BY <2>1 DEF L2!Tried, L2!Reported, L2!Candidates
  <2> QED
    BY <2>1, <2>2, SameKey2 DEF Search2!vars
<1> QED
  BY <1>1, <1>2

LEMMA Stutter2 == ASSUME Inv2, UNCHANGED L2!vars PROVE Inv2' /\ UNCHANGED Search2!vars
<1>1. UNCHANGED <<pc, blob, k2, block, r11, hi, i, r8, ret, printed>>
  BY DEF L2!vars
<1>2. L2!TypeOK'
  BY <1>1 DEF Inv2, L2!TypeOK
<1>3. Inv2'
  BY <1>1, <1>2 DEF Inv2, Round2, Held2, Judged2, L2!Plain, L2!TheKey
<1>4. UNCHANGED Search2!vars
  BY <1>1, SameKey2 DEF Search2!vars, L2!Tried, L2!Reported, L2!Candidates
<1> QED
  BY <1>3, <1>4

LEMMA Always2 == ASSUME HalvesOK, IsXor(Word), Layer2OK PROVE L2!Spec => []Inv2
<1>1. L2!Init => Inv2
  BY InitInv2
<1>2. Inv2 /\ [L2!Next]_L2!vars => Inv2'
  BY Next2, Stutter2
<1> QED
  BY <1>1, <1>2, PTL DEF L2!Spec

\* f() decrypts every word of the block once and in order, with the key that main()
\* tries, on a fresh copy; and the client, which sees only the last word of the block,
\* takes and refuses the keys that f() takes and refuses (bflayer2.c).
THEOREM Layer2Agrees ==
  ASSUME HalvesOK, IsXor(Word), Layer2OK
  PROVE  L2!Spec => [](L2!TypeOK /\ L2!Progress /\ L2!ClientAgrees)
<1>1. Inv2 => L2!TypeOK /\ L2!Progress /\ L2!ClientAgrees
  BY Safe2
<1> QED
  BY <1>1, Always2, PTL

\* The loop of main() implements the search of module KeySearch: every word of the
\* range is tried once, and what is printed is the words tried for which the marker
\* comes out of the last word of the block.
THEOREM Layer2Finds ==
  ASSUME HalvesOK, IsXor(Word), Layer2OK
  PROVE  L2!Spec => Search2!Promise
<1>1. L2!Init => Search2!Fresh
  BY Fresh2
<1>2. Inv2 /\ [L2!Next]_L2!vars => [Search2!Next]_Search2!vars
  BY Step2, Stutter2 DEF Search2!Next
<1> QED
  BY <1>1, <1>2, Always2, PTL DEF L2!Spec, Search2!Promise

-----------------------------------------------------------------------------
(***************************************************************************)
(* Layer 3.                                                                *)
(***************************************************************************)

Layer3OK ==
  \* the block does not go over the end of the memory
  /\ Rounds3 \in Nat /\ Rounds3 > 0 /\ Start3 \in Nat /\ Start3 + 2 * Rounds3 \in Word
  /\ \A s \in L3!Slots : Mask3[s] \in Word
  /\ Blobs3 \subseteq [L3!Slots -> Word] /\ Text \in [L3!Slots -> Word]
  /\ {Lo3, FirstKey3, LastKey3} \subseteq Word /\ FirstKey3 <= LastKey3
  /\ \A b \in Blobs3 : L3!TheKeys(b) \subseteq FirstKey3 .. LastKey3

LEMMA Words3 ==
  /\ L3!Half = Half /\ L3!WordBase = WordBase /\ L3!Word = Word
  /\ \A n : /\ L3!Wrap(n) = Wrap(n) /\ L3!Low(n) = Low(n) /\ L3!High(n) = High(n)
            /\ L3!ToHigh(n) = ToHigh(n)
  /\ \A n, m : L3!Borrow(n, m) = Borrow(n, m)
BY DEF L3!Half, Half, L3!WordBase, WordBase, L3!Word, Word, L3!Wrap, Wrap, L3!Low, Low,
       L3!High, High, L3!ToHigh, ToHigh, L3!Borrow, Borrow

\* The mixed halves of the key, and the word made of them.
MixedLow(k) == BitXor(Low(Lo3), Low(k))
MixedHigh(k) == BitXor(High(Lo3), High(k))
Stream3(k) == Wrap(L3!Mixed(MixedLow(k), MixedHigh(k)))

LEMMA MixedHalves ==
  ASSUME HalvesOK, IsXor(Word), Layer3OK, NEW k \in Word
  PROVE  /\ MixedLow(k) \in 0 .. Half - 1 /\ MixedHigh(k) \in 0 .. Half - 1
         /\ k = BitXor(Lo3, Half * MixedHigh(k) + MixedLow(k))
         /\ \A h, l \in 0 .. Half - 1 :
              k = BitXor(Lo3, Half * h + l) => MixedHigh(k) = h /\ MixedLow(k) = l
<1>1. Lo3 \in Word
  BY DEF Layer3OK
<1> DEFINE w == BitXor(Lo3, k)
<1>2. w \in Word /\ k = BitXor(Lo3, w)
  <2>1. w = BitXor(k, Lo3) /\ w \in Word /\ BitXor(BitXor(k, Lo3), Lo3) = k
    BY <1>1, XorUndone
  <2>2. BitXor(Lo3, w) = BitXor(w, Lo3)
    BY <1>1, <2>1, XorUndone
  <2> QED
    BY <2>1, <2>2
<1>3. MixedLow(k) = Low(w) /\ MixedHigh(k) = High(w)
  BY <1>1 DEF IsXor, MixedLow, MixedHigh
<1> HIDE DEF w
<1>4. /\ High(w) \in 0 .. Half - 1 /\ Low(w) \in 0 .. Half - 1
      /\ w = Half * High(w) + Low(w)
  BY <1>2, Halved
<1>5. ASSUME NEW h \in 0 .. Half - 1, NEW l \in 0 .. Half - 1, k = BitXor(Lo3, Half * h + l)
      PROVE  MixedHigh(k) = h /\ MixedLow(k) = l
  <2> DEFINE v == Half * h + l
  <2>1. v \in Word /\ High(v) = h /\ Low(v) = l
    BY Joined
  <2>2. k = BitXor(Lo3, v)
    BY <1>5
  <2> HIDE DEF v
  <2>3. BitXor(v, Lo3) = k /\ BitXor(w, Lo3) = k
    BY <1>1, <1>2, <2>1, <2>2, XorUndone
  <2>4. v = w
    BY <1>1, <1>2, <2>1, <2>3, XorMoves
  <2> QED
    BY <1>3, <2>1, <2>4
<1> QED
  BY <1>2, <1>3, <1>4, <1>5

\* A mixed key and what it leaves of the halves.
LEMMA MixedOnce ==
  ASSUME HalvesOK, NEW x \in 0 .. Half - 1, NEW y \in 0 .. Half - 1
  PROVE  /\ L3!Mixed(x, y) \in Nat /\ L3!Mixed(x, y) < 2 * WordBase
         /\ L3!Mixed(x, y) \div (Half + 1) = y /\ L3!Mixed(x, y) % (Half + 1) = x
<1>1. Half \in Nat /\ Half > 1 /\ WordBase = Half * Half /\ WordBase > Half /\ WordBase \in Nat
  BY Base DEF HalvesOK, WordBase
<1>2. /\ L3!Mixed(x, y) = (Half + 1) * y + x
      /\ L3!Mixed(x, y) = (Half * y + x) + y
  BY <1>1, Words3 DEF L3!Mixed
<1>3. ((Half + 1) * y + x) \div (Half + 1) = y /\ ((Half + 1) * y + x) % (Half + 1) = x
  <2> DEFINE d == Half + 1
  <2>1. d \in Nat /\ d > 0 /\ y \in Int /\ x \in 0 .. d - 1
    BY <1>1
  <2> HIDE DEF d
  <2>2. (d * y + x) \div d = y /\ (d * y + x) % d = x
    BY <2>1, DividedOnce
  <2> QED
    BY <2>2 DEF d
<1>4. Half * y + x \in Nat /\ Half * y + x < WordBase
  <2>1. Half * y + x \in Word
    BY Joined
  <2> QED
    BY <1>1, <2>1 DEF Word
<1>5. L3!Mixed(x, y) \in Nat /\ L3!Mixed(x, y) < 2 * WordBase
  BY <1>1, <1>2, <1>4
<1> QED
  BY <1>2, <1>3, <1>5

\* KeysOf(w) is the words of the key from which the program makes w.
LEMMA KeysAre ==
  ASSUME HalvesOK, IsXor(Word), Layer3OK, NEW w \in Word, NEW k \in Word
  PROVE  k \in L3!KeysOf(w) <=> Stream3(k) = w
<1> DEFINE x == MixedLow(k)
           y == MixedHigh(k)
           Fits(u) == u \div (Half + 1) < Half /\ u % (Half + 1) < Half
           Key(v) == BitXor(Lo3, ToHigh(v \div (Half + 1)) + (v % (Half + 1)))
<1>1. L3!KeysOf(w) = {Key(v) : v \in {u \in {w, w + WordBase} : Fits(u)}}
  BY Words3 DEF L3!KeysOf
<1>2. Half \in Nat /\ Half > 1 /\ WordBase \in Nat /\ WordBase > 0 /\ w \in Nat /\ Wrap(w) = w
  BY Base, WrapOf DEF HalvesOK, Word
<1>3. /\ x \in 0 .. Half - 1 /\ y \in 0 .. Half - 1
      /\ k = BitXor(Lo3, Half * y + x)
  BY MixedHalves
<1>4. ASSUME Stream3(k) = w
      PROVE  k \in L3!KeysOf(w)
  <2> DEFINE v == L3!Mixed(x, y)
  <2>1. /\ v \in Nat /\ v < 2 * WordBase
        /\ v \div (Half + 1) = y /\ v % (Half + 1) = x
    BY <1>3, MixedOnce
  <2>2. Wrap(v) = w
    BY <1>4 DEF Stream3
  <2>3. ToHigh(y) = Half * y
    BY <1>3, Joined
  <2> HIDE DEF v, x, y
  <2>4. v = w \/ v = w + WordBase
    <3>1. PICK q \in Int : v = WordBase * q + w
      BY <2>1, <2>2, WrapIs
    <3>2. w < WordBase
      BY <1>2 DEF Word
    <3>3. (-1) * WordBase < q * WordBase /\ q * WordBase < 2 * WordBase
      BY <1>2, <2>1, <3>1, <3>2
    <3>4. -1 < q /\ q < 2
      BY <1>2, <3>3, Products
    <3>5. q = 0 \/ q = 1
      BY <3>4
    <3> QED
      BY <1>2, <3>1, <3>5
  <2>5. Fits(v) /\ Key(v) = k
    BY <1>2, <1>3, <2>1, <2>3
  <2> QED
    BY <1>1, <2>4, <2>5
<1>5. ASSUME k \in L3!KeysOf(w)
      PROVE  Stream3(k) = w
  <2>1. PICK v \in {w, w + WordBase} : Fits(v) /\ k = Key(v)
    BY <1>1, <1>5
  <2> DEFINE q == v \div (Half + 1)
             r == v % (Half + 1)
  <2>2. v \in Nat /\ Wrap(v) = w
    <3>1. Wrap(w + WordBase) = w
      BY <1>2, WrapSum
    <3> QED
      BY <1>2, <2>1, <3>1
  <2>3. q \in Int /\ r \in 0 .. Half /\ v = (Half + 1) * q + r /\ q < Half /\ r < Half
    <3> DEFINE d == Half + 1
    <3>1. d \in Nat /\ d > 0 /\ d - 1 = Half
      BY <1>2
    <3>2. v \div d \in Int /\ v % d \in 0 .. d - 1 /\ v = d * (v \div d) + (v % d)
      <4> HIDE DEF d
      <4> QED
        BY <2>2, <3>1, Divided
    <3> QED
      BY <2>1, <3>1, <3>2
  <2>4. k = BitXor(Lo3, ToHigh(q) + r)
    BY <2>1
  <2> HIDE DEF q, r
  <2>5. -1 < q
    <3>1. (-1) * (Half + 1) < q * (Half + 1)
      BY <1>2, <2>2, <2>3
    <3>2. Half + 1 \in Int /\ Half + 1 > 0 /\ -1 \in Int
      BY <1>2
    <3> QED
      BY <2>3, <3>1, <3>2, Products
  <2>6. q \in 0 .. Half - 1 /\ r \in 0 .. Half - 1
    BY <1>2, <2>3, <2>5
  <2>7. ToHigh(q) = Half * q
    BY <2>6, Joined
  <2>8. MixedHigh(k) = q /\ MixedLow(k) = r
    BY <2>4, <2>6, <2>7, MixedHalves
  <2>9. L3!Mixed(r, q) = v
    <3>1. L3!Mixed(r, q) = r + q * (Half + 1)
      BY Words3 DEF L3!Mixed
    <3> QED
      BY <1>2, <2>3, <3>1
  <2> QED
    BY <2>2, <2>8, <2>9 DEF Stream3
<1> QED
  BY <1>4, <1>5

Place3 == 0 .. Rounds3 - 1

\* The word at s of the block, as the key k decrypts it.
Plain3(s, k) == BitXor(BitXor(blob[s], Mask3[s]), Stream3(k))

LEMMA Slots3 ==
  ASSUME HalvesOK, Layer3OK
  PROVE  /\ \A n \in Place3 : Start3 + 2 * n \in L3!Slots
         /\ L3!Slots = {Start3 + 2 * n : n \in Place3} /\ Start3 \in L3!Slots
         /\ \A s \in L3!Slots : Mask3[s] \in Word
         /\ \A b \in Blobs3 : b \in [L3!Slots -> Word] /\ \A s \in L3!Slots : b[s] \in Word
<1>1. Rounds3 \in Nat /\ Rounds3 > 0 /\ Start3 \in Nat
  BY DEF Layer3OK
<1>2. L3!Slots = {Start3 + 2 * n : n \in Place3}
  BY DEF L3!Slots, Place3
<1>3. 0 \in Place3 /\ Start3 + 2 * 0 = Start3
  BY <1>1 DEF Place3
<1> QED
  BY <1>2, <1>3 DEF Layer3OK

\* The block is the text when the key is one of TheKeys, and for no other word.
LEMMA Solved3 ==
  ASSUME HalvesOK, IsXor(Word), Layer3OK, NEW k \in Word, blob \in Blobs3,
         NEW f \in [L3!Slots -> Word], \A s \in L3!Slots : f[s] = Plain3(s, k)
  PROVE  f = Text <=> k \in L3!TheKeys(blob)
<1> DEFINE v == Stream3(k)
           Coded(s) == BitXor(blob[s], Mask3[s])
           w == BitXor(Coded(Start3), Text[Start3])
<1>1. v \in Word
  <2>1. L3!Mixed(MixedLow(k), MixedHigh(k)) \in Int
    BY MixedHalves, MixedOnce
  <2> QED
    BY <2>1, WrapIs DEF Stream3
<1>2. \A s \in L3!Slots : Coded(s) \in Word /\ Text[s] \in Word /\ f[s] = BitXor(Coded(s), v)
  <2>1. ASSUME NEW s \in L3!Slots
        PROVE  Coded(s) \in Word
    <3>1. blob[s] \in Word /\ Mask3[s] \in Word
      BY Slots3
    <3> QED
      BY <3>1, XorUndone
  <2>2. \A s \in L3!Slots : Text[s] \in Word
    BY DEF Layer3OK
  <2> QED
    BY <2>1, <2>2 DEF Plain3
<1>3. Start3 \in L3!Slots
  BY Slots3
<1>4. L3!Streams(blob) = {u \in {w} : \A s \in L3!Slots : BitXor(Coded(s), u) = Text[s]}
  BY DEF L3!Streams
<1> HIDE DEF Coded, v
<1>5. BitXor(Coded(Start3), v) = Text[Start3] => v = w
  <2>1. Coded(Start3) \in Word /\ Text[Start3] \in Word
    BY <1>2, <1>3
  <2>2. BitXor(v, Coded(Start3)) = BitXor(Coded(Start3), v)
        /\ BitXor(Text[Start3], Coded(Start3)) = w
    BY <1>1, <2>1, XorUndone
  <2> QED
    BY <1>1, <2>1, <2>2, XorMoves
<1>6. f = Text <=> \A s \in L3!Slots : f[s] = Text[s]
  BY DEF Layer3OK
<1>7. f = Text <=> v \in L3!Streams(blob)
  BY <1>2, <1>3, <1>4, <1>5, <1>6
<1>8. \A u \in L3!Streams(blob) : u \in Word /\ (k \in L3!KeysOf(u) <=> v = u)
  <2>1. w \in Word
    BY <1>2, <1>3, XorUndone
  <2>2. \A u \in L3!Streams(blob) : u \in Word
    BY <1>4, <2>1
  <2> QED
    BY <2>2, KeysAre DEF v
<1> QED
  BY <1>7, <1>8 DEF L3!TheKeys

-----------------------------------------------------------------------------

\* The first m words of the block have been decrypted, and no other.
Held3(m) ==
  \A n \in Place3 :
    block[Start3 + 2 * n] = IF n < m THEN Plain3(Start3 + 2 * n, k2) ELSE blob[Start3 + 2 * n]

Round3(m) == i \in 0 .. Rounds3 /\ r0 = Start3 + 2 * i /\ stream = Stream3(k2) /\ Held3(m)

Inv3 ==
  /\ L3!TypeOK
  /\ pc \in {"mix", "sum"} => block = blob
  /\ pc = "sum" => r13 = MixedLow(k2) /\ r7 = MixedHigh(k2)
  /\ pc = "decrypt" => i < Rounds3 /\ Round3(i)
  /\ pc = "advance" => i < Rounds3 /\ Round3(i + 1)
  /\ pc = "loop" => i > 0 /\ Round3(i)
  /\ pc = "return" => Held3(Rounds3)

LEMMA Given3 ==
  ASSUME HalvesOK, Layer3OK, L3!TypeOK
  PROVE  /\ k2 \in Word /\ k2 \in FirstKey3 .. LastKey3 /\ FirstKey3 \in Int /\ LastKey3 \in Int
         /\ Rounds3 \in Nat /\ Rounds3 > 0 /\ Start3 \in Nat /\ L3!Word = Word
         /\ \A n \in Nat : n <= Start3 + 2 * Rounds3 => n \in Word /\ Wrap(n) = n
<1>1. k2 \in FirstKey3 .. LastKey3
  BY DEF L3!TypeOK
<1>2. FirstKey3 \in Word /\ LastKey3 \in Word
  BY DEF Layer3OK
<1>3. WordBase \in Nat
  BY Base
<1>4. Rounds3 \in Nat /\ Rounds3 > 0 /\ Start3 \in Nat /\ Start3 + 2 * Rounds3 \in Word
  BY DEF Layer3OK
<1>5. \A n \in Nat : n <= Start3 + 2 * Rounds3 => n \in Word
  BY <1>3, <1>4 DEF Word
<1>6. k2 \in Word /\ FirstKey3 \in Int /\ LastKey3 \in Int
  BY <1>1, <1>2, <1>3 DEF Word
<1> QED
  BY <1>1, <1>4, <1>5, <1>6, WrapOf, Words3

LEMMA InitInv3 == ASSUME HalvesOK, Layer3OK, L3!Init PROVE Inv3
<1>1. FirstKey3 \in FirstKey3 .. LastKey3
  BY WrapOf DEF Layer3OK
<1>2. L3!TypeOK
  BY <1>1, Words3, Base DEF L3!TypeOK, L3!Init
<1> QED
  BY <1>2 DEF L3!Init, Inv3

LEMMA Try3 == ASSUME HalvesOK, Layer3OK, Inv3, L3!Try PROVE Inv3'
<1>1. blob \in [L3!Slots -> Word] /\ L3!TypeOK
  BY Slots3 DEF L3!TypeOK, Inv3
<1>2. /\ block' = blob /\ blob' = blob /\ pc' = "mix"
      /\ UNCHANGED <<k2, r13, r7, stream, i, r0, printed>>
  BY DEF L3!Try, L3!Copy
<1>3. L3!TypeOK'
  BY <1>1, <1>2, Words3 DEF L3!TypeOK
<1> QED
  BY <1>2, <1>3 DEF Inv3

LEMMA Mix3 == ASSUME HalvesOK, IsXor(Word), Layer3OK, Inv3, L3!Mix PROVE Inv3'
<1>1. L3!TypeOK /\ pc = "mix" /\ block = blob
  BY DEF Inv3, L3!Mix
<1>2. k2 \in Word
  BY <1>1, Given3
<1>3. /\ pc' = "sum" /\ r13' = MixedLow(k2) /\ r7' = MixedHigh(k2)
      /\ UNCHANGED <<blob, k2, block, stream, i, r0, printed>>
  BY Words3 DEF L3!Mix, L3!MixHigh, MixedLow, MixedHigh
<1>4. r13' \in Word /\ r7' \in Word
  BY <1>2, <1>3, MixedHalves, Base
<1>5. L3!TypeOK'
  BY <1>1, <1>3, <1>4, Words3 DEF L3!TypeOK
<1>6. MixedLow(k2)' = MixedLow(k2) /\ MixedHigh(k2)' = MixedHigh(k2)
  BY <1>3 DEF MixedLow, MixedHigh
<1> QED
  BY <1>1, <1>3, <1>5, <1>6 DEF Inv3

LEMMA Sum3 == ASSUME HalvesOK, IsXor(Word), Layer3OK, Inv3, L3!SumKey PROVE Inv3'
<1>1. L3!TypeOK /\ block = blob /\ r13 = MixedLow(k2) /\ r7 = MixedHigh(k2)
  BY DEF Inv3, L3!SumKey
<1>2. /\ k2 \in Word /\ Rounds3 \in Nat /\ Rounds3 > 0 /\ Start3 \in Nat
      /\ Start3 \in Word
  BY <1>1, Given3
<1>3. /\ pc' = "decrypt" /\ stream' = L3!Sum /\ i' = 0 /\ r0' = Start3
      /\ UNCHANGED <<blob, k2, block, r13, r7, printed>>
  BY DEF L3!SumKey
<1>4. r13 \in 0 .. Half - 1 /\ r7 \in 0 .. Half - 1 /\ Half \in Nat
  BY <1>1, <1>2, MixedHalves, Base
<1>5. L3!Sum = Stream3(k2) /\ Stream3(k2) \in Word
  <2>1. ToHigh(r7) = Half * r7
    BY <1>4, Joined
  <2>2. L3!Sum = Wrap(Wrap(r13 + r7) + Half * r7)
    BY <2>1, Words3 DEF L3!Sum
  <2>3. r13 + r7 \in Int /\ Half * r7 \in Int
    BY <1>4
  <2>4. Wrap(Wrap(r13 + r7) + Half * r7) = Wrap((r13 + r7) + Half * r7)
    <3> DEFINE a == r13 + r7
               b == Half * r7
    <3>1. a \in Int /\ b \in Int
      BY <2>3
    <3> HIDE DEF a, b
    <3>2. Wrap(Wrap(a) + b) = Wrap(a + b)
      BY <3>1, WrapSum
    <3> QED
      BY <3>2 DEF a, b
  <2>5. L3!Mixed(r13, r7) = (r13 + r7) + Half * r7
    <3>1. L3!Mixed(r13, r7) = r13 + r7 * (Half + 1)
      BY Words3 DEF L3!Mixed
    <3> QED
      BY <1>4, <3>1
  <2>6. L3!Mixed(r13, r7) \in Int
    BY <1>4, MixedOnce
  <2> QED
    BY <1>1, <2>2, <2>4, <2>5, <2>6, WrapIs DEF Stream3
<1>6. L3!TypeOK'
  BY <1>1, <1>2, <1>3, <1>5, Words3, Base DEF L3!TypeOK
<1>7. Stream3(k2)' = Stream3(k2)
  BY <1>3 DEF Stream3, L3!Mixed, MixedLow, MixedHigh
<1>8. Held3(0)'
  BY <1>1, <1>3 DEF Held3, Place3
<1>9. Round3(i)' /\ i' < Rounds3
  <2>1. i' = 0 /\ Start3 + 2 * i' = Start3 /\ i' \in 0 .. Rounds3 /\ i' < Rounds3
    BY <1>2, <1>3
  <2> QED
    BY <1>3, <1>5, <1>7, <1>8, <2>1 DEF Round3
<1> QED
  BY <1>3, <1>6, <1>9 DEF Inv3

LEMMA Decrypt3 == ASSUME HalvesOK, IsXor(Word), Layer3OK, Inv3, L3!Decrypt PROVE Inv3'
<1>1. L3!TypeOK /\ i < Rounds3 /\ Round3(i)
  BY DEF Inv3, L3!Decrypt
<1>2. Rounds3 \in Nat /\ Start3 \in Nat
  BY <1>1, Given3
<1>3. i \in Place3 /\ r0 = Start3 + 2 * i /\ stream = Stream3(k2) /\ Held3(i)
  BY <1>1, <1>2 DEF Round3, Place3
<1>4. r0 \in L3!Slots /\ block \in [L3!Slots -> Word] /\ stream \in Word
  BY <1>1, <1>3, Slots3, Words3 DEF L3!TypeOK
<1>5. /\ block' = [block EXCEPT ![r0] = BitXor(BitXor(block[r0], Mask3[r0]), stream)]
      /\ pc' = "advance" /\ UNCHANGED <<blob, k2, r13, r7, stream, i, r0, printed>>
  BY DEF L3!Decrypt
<1>6. block[r0] = blob[r0] /\ block[r0] \in Word /\ Mask3[r0] \in Word
  <2>1. ~(i < i)
    BY <1>2, <1>3 DEF Place3
  <2>2. block[r0] = blob[r0]
    BY <1>3, <2>1 DEF Held3
  <2> QED
    BY <1>4, <2>2, Slots3
<1>7. block' \in [L3!Slots -> Word]
  BY <1>4, <1>5, <1>6, XorUndone
<1>8. L3!TypeOK'
  BY <1>1, <1>5, <1>7, Words3 DEF L3!TypeOK
<1>9. Stream3(k2)' = Stream3(k2) /\ \A s : Plain3(s, k2)' = Plain3(s, k2)
  BY <1>5 DEF Plain3, Stream3, L3!Mixed, MixedLow, MixedHigh
<1>10. ASSUME NEW n \in Place3
       PROVE  block'[Start3 + 2 * n] =
                IF n < i + 1 THEN Plain3(Start3 + 2 * n, k2) ELSE blob[Start3 + 2 * n]
  <2>1. Start3 + 2 * n \in L3!Slots /\ n \in Int /\ i \in Int
    BY <1>2, <1>3, Slots3 DEF Place3
  <2>2. CASE n = i
    <3>1. n < i + 1 /\ Start3 + 2 * n = r0
      BY <1>3, <2>1, <2>2
    <3>2. block'[r0] = Plain3(r0, k2)
      BY <1>3, <1>4, <1>5, <1>6 DEF Plain3
    <3> QED
      BY <3>1, <3>2
  <2>3. CASE n # i
    <3>1. Start3 + 2 * n # r0
      BY <1>2, <1>3, <2>1, <2>3
    <3>2. block'[Start3 + 2 * n] = block[Start3 + 2 * n]
      BY <1>4, <1>5, <2>1, <3>1
    <3>3. n < i <=> n < i + 1
      BY <2>1, <2>3
    <3> QED
      BY <1>3, <3>2, <3>3 DEF Held3
  <2> QED
    BY <2>2, <2>3
<1>11. Round3(i + 1)'
  <2>1. Held3(i + 1)'
    BY <1>5, <1>9, <1>10 DEF Held3
  <2> QED
    BY <1>1, <1>5, <1>9, <2>1 DEF Round3
<1> QED
  BY <1>1, <1>5, <1>8, <1>11 DEF Inv3

LEMMA Advance3 == ASSUME HalvesOK, IsXor(Word), Layer3OK, Inv3, L3!Advance PROVE Inv3'
<1>1. L3!TypeOK /\ i < Rounds3 /\ Round3(i + 1)
  BY DEF Inv3, L3!Advance
<1>2. /\ Rounds3 \in Nat /\ Start3 \in Nat /\ i \in Nat
      /\ \A n \in Nat : n <= Start3 + 2 * Rounds3 => n \in Word /\ Wrap(n) = n
  BY <1>1, Given3 DEF Round3
<1>3. i + 1 \in Word /\ Wrap(i + 1) = i + 1 /\ r0 + 2 \in Word /\ Wrap(r0 + 2) = r0 + 2
  <2>1. i + 1 \in Nat /\ i + 1 <= Start3 + 2 * Rounds3
    BY <1>1, <1>2
  <2>2. r0 + 2 \in Nat /\ r0 + 2 <= Start3 + 2 * Rounds3
    BY <1>1, <1>2 DEF Round3
  <2> QED
    BY <1>2, <2>1, <2>2
<1>4. /\ i' = i + 1 /\ r0' = r0 + 2 /\ pc' = "loop"
      /\ UNCHANGED <<blob, k2, block, r13, r7, stream, printed>>
  BY <1>3, Words3 DEF L3!Advance
<1>5. L3!TypeOK'
  BY <1>1, <1>3, <1>4, Words3 DEF L3!TypeOK
<1>6. Stream3(k2)' = Stream3(k2) /\ \A s : Plain3(s, k2)' = Plain3(s, k2)
  BY <1>4 DEF Plain3, Stream3, L3!Mixed, MixedLow, MixedHigh
<1>7. Held3(i)'
  BY <1>1, <1>4, <1>6 DEF Held3, Round3
<1>8. i' \in 0 .. Rounds3 /\ r0' = Start3 + 2 * i' /\ i' > 0
  BY <1>1, <1>2, <1>4 DEF Round3
<1> QED
  BY <1>1, <1>4, <1>5, <1>6, <1>7, <1>8 DEF Inv3, Round3

LEMMA LoopBack3 == ASSUME HalvesOK, IsXor(Word), Layer3OK, Inv3, L3!LoopBack PROVE Inv3'
<1>1. L3!TypeOK /\ i > 0 /\ Round3(i)
  BY DEF Inv3, L3!LoopBack
<1>2. Rounds3 \in Nat /\ Rounds3 > 0 /\ i \in 0 .. Rounds3
  BY <1>1, Given3 DEF Round3
<1>3. L3!MoreRounds <=> i < Rounds3
  BY <1>2 DEF L3!MoreRounds, L3!Borrow
<1>4. /\ pc' = IF i < Rounds3 THEN "decrypt" ELSE "return"
      /\ UNCHANGED <<blob, k2, block, r13, r7, stream, i, r0, printed>>
  BY <1>3 DEF L3!LoopBack
<1>5. L3!TypeOK'
  BY <1>1, <1>4 DEF L3!TypeOK
<1>6. Round3(i)'
  BY <1>1, <1>4 DEF Round3, Held3, Plain3, Stream3, L3!Mixed, MixedLow, MixedHigh
<1>7. CASE i < Rounds3
  BY <1>4, <1>5, <1>6, <1>7 DEF Inv3
<1>8. CASE i = Rounds3
  <2>1. Held3(Rounds3)'
    BY <1>4, <1>6, <1>8 DEF Round3, Held3
  <2>2. pc' = "return"
    BY <1>2, <1>4, <1>8
  <2> QED
    BY <1>5, <2>1, <2>2 DEF Inv3
<1> QED
  BY <1>2, <1>7, <1>8

LEMMA Report3 == ASSUME HalvesOK, IsXor(Word), Layer3OK, Inv3, L3!Report PROVE Inv3'
<1>1. L3!TypeOK /\ k2 \in FirstKey3 .. LastKey3 /\ FirstKey3 \in Int /\ LastKey3 \in Int
  BY Given3 DEF Inv3
<1>2. k2' \in FirstKey3 .. LastKey3 /\ printed' \subseteq FirstKey3 .. LastKey3 /\ pc' \in {"main", "exit"}
  BY <1>1 DEF L3!Report, L3!TypeOK
<1>3. L3!TypeOK'
  BY <1>1, <1>2 DEF L3!TypeOK, L3!Report
<1> QED
  BY <1>2, <1>3 DEF Inv3

LEMMA Next3 == ASSUME HalvesOK, IsXor(Word), Layer3OK, Inv3, L3!Next PROVE Inv3'
  BY Try3, Mix3, Sum3, Decrypt3, Advance3, LoopBack3, Report3 DEF L3!Next

LEMMA Safe3 ==
  ASSUME HalvesOK, IsXor(Word), Layer3OK, Inv3
  PROVE  L3!TypeOK /\ L3!Progress
<1>1. SUFFICES ASSUME pc = "decrypt" PROVE L3!Progress
  BY DEF Inv3, L3!Progress
<1>2. i < Rounds3 /\ Round3(i) /\ Start3 \in Nat /\ Rounds3 \in Nat
  BY <1>1, Given3 DEF Inv3
<1>3. stream = L3!Wrap(L3!Mixed(BitXor(L3!Low(Lo3), L3!Low(k2)), BitXor(L3!High(Lo3), L3!High(k2))))
  BY <1>2, Words3 DEF Round3, Stream3, MixedLow, MixedHigh
<1>4. ASSUME NEW s \in L3!Slots
      PROVE  block[s] = IF s < r0 THEN BitXor(BitXor(blob[s], Mask3[s]), stream) ELSE blob[s]
  <2>1. PICK n \in Place3 : s = Start3 + 2 * n
    BY Slots3
  <2>2. s < r0 <=> n < i
    BY <1>2, <2>1 DEF Round3, Place3
  <2> QED
    BY <1>2, <2>1, <2>2 DEF Round3, Held3, Plain3
<1> QED
  BY <1>2, <1>3, <1>4 DEF L3!Progress, Round3

LEMMA Fresh3 == ASSUME HalvesOK, Layer3OK, L3!Init PROVE Search3!Fresh
<1>1. L3!TheKeys(blob) \subseteq FirstKey3 .. LastKey3 /\ FirstKey3 \in Int /\ LastKey3 \in Int
  BY WrapOf DEF Layer3OK, L3!Init
<1>2. L3!Good \subseteq 0 .. L3!Candidates - 1
  <2>1. \A k \in FirstKey3 .. LastKey3 : k - FirstKey3 \in 0 .. L3!Candidates - 1
    BY <1>1 DEF L3!Candidates
  <2> QED
    BY <1>1, <2>1 DEF L3!Good
<1>3. L3!Tried = 0 /\ L3!Reported = {}
  BY <1>1 DEF L3!Init, L3!Tried, L3!Reported
<1> QED
  BY <1>2, <1>3 DEF Search3!Fresh

LEMMA SameKeys3 ==
  ASSUME blob' = blob
  PROVE  L3!Candidates' = L3!Candidates /\ L3!Good' = L3!Good
  BY DEF L3!Candidates, L3!Good, L3!TheKeys, L3!Streams, L3!KeysOf

LEMMA Step3 ==
  ASSUME HalvesOK, IsXor(Word), Layer3OK, Inv3, L3!Next
  PROVE  Search3!Try \/ UNCHANGED Search3!vars
<1>1. CASE L3!Report
  <2> DEFINE n == k2 - FirstKey3
  <2>1. /\ pc = "return" /\ k2 \in FirstKey3 .. LastKey3 /\ FirstKey3 \in Int /\ LastKey3 \in Int
        /\ blob' = blob /\ blob \in Blobs3 /\ k2 \in Word /\ block \in [L3!Slots -> Word]
    BY <1>1, Given3, Words3 DEF Inv3, L3!TypeOK, L3!Report
  <2>2. \A s \in L3!Slots : block[s] = Plain3(s, k2)
    <3>1. Held3(Rounds3)
      BY <1>1 DEF Inv3, L3!Report
    <3>2. \A m \in Place3 : m < Rounds3
      BY DEF Place3, Layer3OK
    <3> QED
      BY <3>1, <3>2, Slots3 DEF Held3
  <2>3. block = Text <=> k2 \in L3!TheKeys(blob)
    BY <2>1, <2>2, Solved3
  <2>4. n \in L3!Good <=> k2 \in L3!TheKeys(blob)
    <3>1. \A k \in L3!TheKeys(blob) : k \in Int
      BY <2>1 DEF Layer3OK
    <3>2. \A k \in Int : k2 - FirstKey3 = k - FirstKey3 <=> k2 = k
      BY <2>1
    <3> QED
      BY <3>1, <3>2 DEF L3!Good
  <2>5. L3!Reported' = L3!Reported \union ({n} \intersect L3!Good)
    <3>1. printed' = IF block = Text THEN printed \union {k2} ELSE printed
      BY <1>1 DEF L3!Report
    <3> QED
      BY <2>3, <2>4, <3>1 DEF L3!Reported
  <2>6. L3!Tried = n /\ n < L3!Candidates /\ L3!Tried' = n + 1
    BY <1>1, <2>1 DEF L3!Tried, L3!Report, L3!Candidates
  <2> QED
    BY <2>1, <2>5, <2>6, SameKeys3 DEF Search3!Try
<1>2. CASE ~L3!Report
  <2>1. printed' = printed /\ k2' = k2 /\ pc # "exit" /\ pc' # "exit" /\ blob' = blob
    <3>1. L3!Try \/ L3!Mix \/ L3!SumKey \/ L3!Decrypt \/ L3!Advance \/ L3!LoopBack
      BY <1>2 DEF L3!Next
    <3> QED
      BY <3>1 DEF L3!Try, L3!Mix, L3!SumKey, L3!Decrypt, L3!Advance, L3!LoopBack
  <2>2. L3!Tried' = L3!Tried /\ L3!Reported' = L3!Reported
    BY <2>1 DEF L3!Tried, L3!Reported, L3!Candidates
  <2> QED
    BY <2>1, <2>2, SameKeys3 DEF Search3!vars
<1> QED
  BY <1>1, <1>2

LEMMA Stutter3 == ASSUME Inv3, UNCHANGED L3!vars PROVE Inv3' /\ UNCHANGED Search3!vars
<1>1. UNCHANGED <<pc, blob, k2, block, r13, r7, stream, i, r0, printed>>
  BY DEF L3!vars
<1>2. L3!TypeOK'
  BY <1>1 DEF Inv3, L3!TypeOK
<1>3. Inv3'
  BY <1>1, <1>2 DEF Inv3, Round3, Held3, Plain3, Stream3, L3!Mixed, MixedLow, MixedHigh
<1>4. UNCHANGED Search3!vars
  BY <1>1, SameKeys3 DEF Search3!vars, L3!Tried, L3!Reported, L3!Candidates
<1> QED
  BY <1>3, <1>4

LEMMA Always3 == ASSUME HalvesOK, IsXor(Word), Layer3OK PROVE L3!Spec => []Inv3
<1>1. L3!Init => Inv3
  BY InitInv3
<1>2. Inv3 /\ [L3!Next]_L3!vars => Inv3'
  BY Next3, Stutter3
<1> QED
  BY <1>1, <1>2, PTL DEF L3!Spec

\* f() decrypts every word of the block once and in order, with the one word that it
\* makes of the key that main() tries, on a fresh copy (bflayer3.c).
THEOREM Layer3Decrypts ==
  ASSUME HalvesOK, IsXor(Word), Layer3OK
  PROVE  L3!Spec => [](L3!TypeOK /\ L3!Progress)
<1>1. Inv3 => L3!TypeOK /\ L3!Progress
  BY Safe3
<1> QED
  BY <1>1, Always3, PTL

\* The loop of main() implements the search of module KeySearch: every word of the
\* range is tried once, and what is printed is the words tried that solve the equations
\* of the layer for the text, none, one or two of them for a word of the key stream.
THEOREM Layer3Finds ==
  ASSUME HalvesOK, IsXor(Word), Layer3OK
  PROVE  L3!Spec => Search3!Promise
<1>1. L3!Init => Search3!Fresh
  BY Fresh3
<1>2. Inv3 /\ [L3!Next]_L3!vars => [Search3!Next]_Search3!vars
  BY Step3, Stutter3 DEF Search3!Next
<1> QED
  BY <1>1, <1>2, Always3, PTL DEF L3!Spec, Search3!Promise

-----------------------------------------------------------------------------
(***************************************************************************)
(* The loops of the layers subtract, for every pair of 16-bit words: the   *)
(* sum of the two words of a loop and of what it has carried out stays the *)
(* same, and what is still to be carried has no bit below the number of    *)
(* passes.                                                                 *)
(***************************************************************************)

Firsts == {0, 4, 8, 12}

LEMMA BitOf ==
  ASSUME NEW v \in Word16, NEW n \in Idx
  PROVE  v[n] \in 0 .. 1
  BY DEF Word16

LEMMA NibbleBits ==
  ASSUME NEW v \in Word16, NEW n \in Firsts
  PROVE  v[n] \in 0 .. 1 /\ v[n + 1] \in 0 .. 1 /\ v[n + 2] \in 0 .. 1 /\ v[n + 3] \in 0 .. 1
<1>1. n \in Idx /\ n + 1 \in Idx /\ n + 2 \in Idx /\ n + 3 \in Idx
  BY DEF Firsts, Idx
<1> QED
  BY <1>1, BitOf

LEMMA NibbleRange ==
  ASSUME NEW v \in Word16, NEW n \in Firsts
  PROVE  Nibble(v, n) \in Nat /\ Nibble(v, n) < 16
<1>1. v[n] \in 0 .. 1 /\ v[n + 1] \in 0 .. 1 /\ v[n + 2] \in 0 .. 1 /\ v[n + 3] \in 0 .. 1
  BY NibbleBits
<1> QED
  BY <1>1 DEF Nibble

LEMMA ValRange ==
  ASSUME NEW v \in Word16
  PROVE  Val(v) \in Nat /\ Val(v) < 65536
<1>1. /\ Nibble(v, 0) \in Nat /\ Nibble(v, 0) < 16
      /\ Nibble(v, 4) \in Nat /\ Nibble(v, 4) < 16
      /\ Nibble(v, 8) \in Nat /\ Nibble(v, 8) < 16
      /\ Nibble(v, 12) \in Nat /\ Nibble(v, 12) < 16
  BY NibbleRange DEF Firsts
<1> QED
  BY <1>1 DEF Val

\* A number cut to 16 bits, one turn around.
LEMMA CutTo16 ==
  /\ \A n \in Nat : n < 65536 => n % 65536 = n
  /\ \A n \in Int : n < 0 /\ n > -65536 => n % 65536 = n + 65536
  OBVIOUS

LEMMA OpsType ==
  ASSUME NEW v \in Word16, NEW w \in Word16
  PROVE  /\ Xor(v, w) \in Word16 /\ And(v, w) \in Word16 /\ Carries(v, w) \in Word16
         /\ Not(v) \in Word16 /\ Zero \in Word16 /\ One \in Word16
<1>1. ASSUME NEW n \in Idx
      PROVE  (v[n] + w[n]) % 2 \in {0, 1} /\ v[n] * w[n] \in {0, 1} /\ 1 - v[n] \in {0, 1}
  <2>1. v[n] \in {0, 1} /\ w[n] \in {0, 1}
    BY DEF Word16
  <2>2. CASE v[n] = 0
    BY <2>1, <2>2
  <2>3. CASE v[n] = 1
    BY <2>1, <2>3
  <2> QED
    BY <2>1, <2>2, <2>3
<1>2. And(v, w) \in Word16
  BY <1>1 DEF And, Word16
<1>3. Xor(v, w) \in Word16
  BY <1>1 DEF Xor, Word16
<1>4. Not(v) \in Word16
  BY <1>1 DEF Not, Word16
<1>5. ShiftLeft(And(v, w)) \in Word16
  BY <1>2 DEF ShiftLeft, Word16, Idx
<1>6. Zero \in Word16 /\ One \in Word16
  BY DEF Zero, One, Word16
<1> QED
  BY <1>2, <1>3, <1>4, <1>5, <1>6 DEF Carries

\* A half adder on every bit.
LEMMA HalfAdder ==
  ASSUME NEW v \in Word16, NEW w \in Word16, NEW n \in Idx
  PROVE  Xor(v, w)[n] + 2 * And(v, w)[n] = v[n] + w[n]
<1>1. v[n] \in {0, 1} /\ w[n] \in {0, 1}
  BY DEF Word16
<1>2. Xor(v, w)[n] = (v[n] + w[n]) % 2 /\ And(v, w)[n] = v[n] * w[n]
  BY DEF Xor, And
<1>3. CASE v[n] = 0
  BY <1>1, <1>2, <1>3
<1>4. CASE v[n] = 1
  BY <1>1, <1>2, <1>4
<1> QED
  BY <1>1, <1>3, <1>4

LEMMA NibbleAdder ==
  ASSUME NEW v \in Word16, NEW w \in Word16, NEW n \in Firsts
  PROVE  Nibble(Xor(v, w), n) + 2 * Nibble(And(v, w), n) = Nibble(v, n) + Nibble(w, n)
<1> DEFINE X == Xor(v, w)
           A == And(v, w)
<1>1. X \in Word16 /\ A \in Word16
  BY OpsType
<1>2. n \in Idx /\ n + 1 \in Idx /\ n + 2 \in Idx /\ n + 3 \in Idx
  BY DEF Firsts, Idx
<1>3. /\ X[n] + 2 * A[n] = v[n] + w[n]
      /\ X[n + 1] + 2 * A[n + 1] = v[n + 1] + w[n + 1]
      /\ X[n + 2] + 2 * A[n + 2] = v[n + 2] + w[n + 2]
      /\ X[n + 3] + 2 * A[n + 3] = v[n + 3] + w[n + 3]
  BY <1>2, HalfAdder
<1> HIDE DEF X, A
<1>4. /\ X[n] \in 0 .. 1 /\ X[n + 1] \in 0 .. 1 /\ X[n + 2] \in 0 .. 1 /\ X[n + 3] \in 0 .. 1
      /\ A[n] \in 0 .. 1 /\ A[n + 1] \in 0 .. 1 /\ A[n + 2] \in 0 .. 1 /\ A[n + 3] \in 0 .. 1
      /\ v[n] \in 0 .. 1 /\ v[n + 1] \in 0 .. 1 /\ v[n + 2] \in 0 .. 1 /\ v[n + 3] \in 0 .. 1
      /\ w[n] \in 0 .. 1 /\ w[n + 1] \in 0 .. 1 /\ w[n + 2] \in 0 .. 1 /\ w[n + 3] \in 0 .. 1
  BY <1>1, NibbleBits
<1>5. Nibble(X, n) + 2 * Nibble(A, n) = Nibble(v, n) + Nibble(w, n)
  BY <1>3, <1>4 DEF Nibble
<1> QED
  BY <1>5 DEF X, A

\* A shift moves the last bit of a nibble into the next one.
LEMMA NibbleShift ==
  ASSUME NEW v \in Word16, NEW n \in Firsts
  PROVE  Nibble(ShiftLeft(v), n) + 16 * v[n + 3] =
           2 * Nibble(v, n) + (IF n = 0 THEN 0 ELSE v[n - 1])
<1>1. n \in Int /\ n \in Idx /\ n + 1 \in Idx /\ n + 2 \in Idx /\ n + 3 \in Idx
  BY DEF Firsts, Idx
<1>2. /\ ShiftLeft(v)[n] = IF n = 0 THEN 0 ELSE v[n - 1]
      /\ ShiftLeft(v)[n + 1] = v[n]
      /\ ShiftLeft(v)[n + 2] = v[n + 1]
      /\ ShiftLeft(v)[n + 3] = v[n + 2]
  BY <1>1 DEF ShiftLeft, Idx
<1>3. n # 0 => v[n - 1] \in Int
  BY DEF Firsts, Word16, Idx
<1> QED
  BY <1>2, <1>3, NibbleBits DEF Nibble

\* What a pass leaves, with what it carries out, is what it was given.
LEMMA PassSum ==
  ASSUME NEW v \in Word16, NEW w \in Word16
  PROVE  Val(Xor(v, w)) + Val(Carries(v, w)) + 65536 * And(v, w)[15] = Val(v) + Val(w)
<1> DEFINE X == Xor(v, w)
           A == And(v, w)
           S == ShiftLeft(A)
<1>1. X \in Word16 /\ A \in Word16 /\ S \in Word16
  BY OpsType DEF Carries
<1>2. /\ Nibble(X, 0) + 2 * Nibble(A, 0) = Nibble(v, 0) + Nibble(w, 0)
      /\ Nibble(X, 4) + 2 * Nibble(A, 4) = Nibble(v, 4) + Nibble(w, 4)
      /\ Nibble(X, 8) + 2 * Nibble(A, 8) = Nibble(v, 8) + Nibble(w, 8)
      /\ Nibble(X, 12) + 2 * Nibble(A, 12) = Nibble(v, 12) + Nibble(w, 12)
  BY NibbleAdder DEF Firsts
<1> HIDE DEF X, A
<1>3. /\ Nibble(S, 0) + 16 * A[3] = 2 * Nibble(A, 0)
      /\ Nibble(S, 4) + 16 * A[7] = 2 * Nibble(A, 4) + A[3]
      /\ Nibble(S, 8) + 16 * A[11] = 2 * Nibble(A, 8) + A[7]
      /\ Nibble(S, 12) + 16 * A[15] = 2 * Nibble(A, 12) + A[11]
  <2>1. A[3] \in Int /\ A[7] \in Int /\ A[11] \in Int /\ Nibble(A, 0) \in Int
    BY <1>1, NibbleRange DEF Word16, Idx, Firsts
  <2>2. Nibble(S, 0) + 16 * A[0 + 3] = 2 * Nibble(A, 0) + 0
    BY <1>1, NibbleShift DEF Firsts
  <2>3. Nibble(S, 4) + 16 * A[4 + 3] = 2 * Nibble(A, 4) + A[4 - 1]
    BY <1>1, NibbleShift DEF Firsts
  <2>4. Nibble(S, 8) + 16 * A[8 + 3] = 2 * Nibble(A, 8) + A[8 - 1]
    BY <1>1, NibbleShift DEF Firsts
  <2>5. Nibble(S, 12) + 16 * A[12 + 3] = 2 * Nibble(A, 12) + A[12 - 1]
    BY <1>1, NibbleShift DEF Firsts
  <2> QED
    BY <2>1, <2>2, <2>3, <2>4, <2>5
<1>4. /\ A[3] \in Int /\ A[7] \in Int /\ A[11] \in Int /\ A[15] \in Int
      /\ \A u \in {X, A, S, v, w} : /\ Nibble(u, 0) \in Int /\ Nibble(u, 4) \in Int
                                  /\ Nibble(u, 8) \in Int /\ Nibble(u, 12) \in Int
  BY <1>1, NibbleRange DEF Word16, Idx, Firsts
<1> HIDE DEF S
<1>5. Val(X) + Val(S) + 65536 * A[15] = Val(v) + Val(w)
  BY <1>2, <1>3, <1>4 DEF Val
<1> QED
  BY <1>5 DEF X, A, S, Carries

LEMMA NotVal ==
  ASSUME NEW v \in Word16
  PROVE  Val(Not(v)) = 65535 - Val(v)
<1>1. ASSUME NEW n \in Firsts
      PROVE  Nibble(Not(v), n) = 15 - Nibble(v, n)
  <2>1. n \in Idx /\ n + 1 \in Idx /\ n + 2 \in Idx /\ n + 3 \in Idx
    BY DEF Firsts, Idx
  <2>2. /\ Not(v)[n] = 1 - v[n] /\ Not(v)[n + 1] = 1 - v[n + 1]
        /\ Not(v)[n + 2] = 1 - v[n + 2] /\ Not(v)[n + 3] = 1 - v[n + 3]
    BY <2>1 DEF Not
  <2> QED
    BY <2>2, NibbleBits DEF Nibble
<1>2. /\ Nibble(Not(v), 0) = 15 - Nibble(v, 0) /\ Nibble(Not(v), 4) = 15 - Nibble(v, 4)
      /\ Nibble(Not(v), 8) = 15 - Nibble(v, 8) /\ Nibble(Not(v), 12) = 15 - Nibble(v, 12)
  BY <1>1 DEF Firsts
<1>3. /\ Nibble(v, 0) \in Int /\ Nibble(v, 4) \in Int
      /\ Nibble(v, 8) \in Int /\ Nibble(v, 12) \in Int
  BY NibbleRange DEF Firsts
<1> QED
  BY <1>2, <1>3 DEF Val

LEMMA SmallVals == Val(Zero) = 0 /\ Val(One) = 1
  BY DEF Val, Nibble, Zero, One, Idx

-----------------------------------------------------------------------------

\* What the first loop leaves in 16 bits.
Minus(n) == IF n = 0 THEN 0 ELSE 65536 - n

\* What the loop that runs adds up to.
Total == IF pc \in {"negate", "negated"} THEN 65536 - Val(subtrahend)
         ELSE Val(minuend) + Minus(Val(subtrahend))

\* The sum is kept, and the low bits of the addend are clear.
LoopInv ==
  /\ pc # "done" => flag \in {0, 1}
  /\ Val(sum) + Val(addend) + 65536 * carry = Total
  /\ pc \in {"negate", "add"} => passes = 0 \/ addend # Zero
  /\ pc \in {"negated", "added", "done"} => addend = Zero
  /\ pc = "done" => flag = 1 - carry
  /\ passes <= 16
  /\ \A n \in Idx : n < passes => addend[n] = 0

CarryInv == TypeOK /\ LoopInv

LEMMA InitCarry == Init => CarryInv
<1> SUFFICES ASSUME Init PROVE CarryInv
  OBVIOUS
<1>1. minuend \in Word16 /\ subtrahend \in Word16
  BY OperandsAssumption DEF Init
<1>2. TypeOK
  BY <1>1, OpsType DEF Init, TypeOK, MaxPasses
<1>3. Val(sum) + Val(addend) + 65536 * carry = Total
  <2>1. Val(sum) = 1 /\ Val(addend) = 65535 - Val(subtrahend) /\ carry = 0
    BY <1>1, NotVal, SmallVals DEF Init
  <2>2. Total = 65536 - Val(subtrahend)
    BY DEF Init, Total
  <2>3. Val(subtrahend) \in Int
    BY <1>1, ValRange
  <2> QED
    BY <2>1, <2>2, <2>3
<1> QED
  BY <1>2, <1>3 DEF Init, CarryInv, LoopInv, Idx

LEMMA TotalRange ==
  ASSUME TypeOK
  PROVE  Total \in Nat /\ Total < 131072
<1>1. /\ Val(minuend) \in Nat /\ Val(minuend) < 65536
      /\ Val(subtrahend) \in Nat /\ Val(subtrahend) < 65536
  BY ValRange DEF TypeOK
<1> QED
  BY <1>1 DEF Total, Minus

\* A pass of either loop.
LEMMA PassCarry ==
  ASSUME CarryInv,
         NEW head, NEW after, Pass(head, after),
         <<head, after>> = <<"negate", "negated">> \/ <<head, after>> = <<"add", "added">>
  PROVE  CarryInv'
<1>0. /\ sum \in Word16 /\ addend \in Word16 /\ minuend \in Word16
      /\ subtrahend \in Word16 /\ carry \in {0, 1} /\ flag \in {0, 1}
      /\ passes \in Nat /\ pc = head
  BY DEF CarryInv, TypeOK, Pass, MaxPasses
<1>1. /\ sum' = Xor(sum, addend) /\ addend' = Carries(sum, addend) /\ sum' \in Word16
      /\ addend' \in Word16
      /\ And(sum, addend) \in Word16 /\ minuend' = minuend /\ subtrahend' = subtrahend
      /\ flag' = flag
  BY <1>0, OpsType DEF Pass
<1>1a. passes \in Nat /\ passes <= 16 /\ passes' = passes + 1
  BY <1>0 DEF Pass, CarryInv, LoopInv, MaxPasses
<1>2. pc' \in {head, after} /\ Total' = Total
  BY <1>0, <1>1 DEF Pass, Total
<1>3. And(sum, addend)[15] \in {0, 1}
  BY <1>1 DEF Word16, Idx
<1>4. carry' = carry + And(sum, addend)[15] /\ carry' \in {0, 1}
  <2>1. Val(Xor(sum, addend)) + Val(Carries(sum, addend)) + 65536 * And(sum, addend)[15]
          + 65536 * carry = Total
    BY <1>0, <1>3, PassSum, ValRange DEF CarryInv, LoopInv
  <2>2. Val(Xor(sum, addend)) \in Nat /\ Val(Carries(sum, addend)) \in Nat
    BY <1>1, ValRange
  <2>3. Total \in Nat /\ Total < 131072
    BY TotalRange DEF CarryInv
  <2>4. ~(And(sum, addend)[15] = 1 /\ carry = 1)
    BY <2>1, <2>2, <2>3
  <2>5. carry' = IF And(sum, addend)[15] = 1 THEN 1 ELSE carry
    BY DEF Pass, CarryOut
  <2> QED
    BY <1>0, <1>3, <2>4, <2>5
<1>5. Val(sum') + Val(addend') + 65536 * carry' = Total'
  BY <1>0, <1>1, <1>2, <1>3, <1>4, PassSum, ValRange DEF CarryInv, LoopInv
<1>6. \A n \in Idx : n < passes' => addend'[n] = 0
  <2> SUFFICES ASSUME NEW n \in Idx, n < passes + 1 PROVE addend'[n] = 0
    BY <1>1a
  <2>1. CASE n = 0
    BY <1>1, <2>1 DEF Carries, ShiftLeft, Idx
  <2>2. CASE n # 0
    <3>1. n - 1 \in Idx /\ n - 1 < passes
      BY <1>0, <2>2 DEF Idx
    <3>2. addend[n - 1] = 0 /\ sum[n - 1] \in {0, 1}
      BY <1>0, <3>1 DEF CarryInv, LoopInv, Word16
    <3>3. addend'[n] = sum[n - 1] * addend[n - 1]
      BY <1>1, <2>2, <3>1 DEF Carries, ShiftLeft, And, Idx
    <3> QED
      BY <3>2, <3>3
  <2> QED
    BY <2>1, <2>2
<1>7. passes' <= 16
  <2>1. passes = 0 \/ addend # Zero
    BY <1>0 DEF CarryInv, LoopInv
  <2>2. CASE passes = 16
    <3>1. \A n \in Idx : addend[n] = 0
      BY <2>2 DEF CarryInv, LoopInv, Idx
    <3>2. addend = Zero
      BY <1>0, <3>1 DEF Word16, Zero
    <3> QED
      BY <2>1, <2>2, <3>2
  <2> QED
    BY <1>1a, <2>2
<1>8. TypeOK'
  BY <1>0, <1>1, <1>1a, <1>2, <1>4, <1>7 DEF TypeOK, MaxPasses
<1>9. /\ pc' \in {"negate", "add"} => addend' # Zero
      /\ pc' \in {"negated", "added", "done"} => addend' = Zero
      /\ pc' # "done"
  BY <1>0 DEF Pass
<1> QED
  BY <1>0, <1>1, <1>5, <1>6, <1>7, <1>8, <1>9 DEF CarryInv, LoopInv

LEMMA LoadCarry ==
  ASSUME CarryInv, Load
  PROVE  CarryInv'
<1>0. /\ sum \in Word16 /\ addend \in Word16 /\ minuend \in Word16
      /\ subtrahend \in Word16 /\ carry \in {0, 1} /\ flag \in {0, 1}
      /\ pc = "negated" /\ addend = Zero
  BY DEF CarryInv, LoopInv, TypeOK, Load
<1>1. /\ sum' = minuend /\ addend' = sum /\ minuend' = minuend /\ subtrahend' = subtrahend
      /\ carry' = 0 /\ passes' = 0 /\ pc' = "add"
      /\ flag' = 1 - carry
  BY DEF Load, FreshScratch
<1>2. TypeOK'
  BY <1>0, <1>1 DEF TypeOK, MaxPasses
<1>3. Val(sum) + 65536 * carry = 65536 - Val(subtrahend)
  BY <1>0, SmallVals, ValRange DEF CarryInv, LoopInv, Total
<1>4. /\ Val(sum) \in Nat /\ Val(sum) < 65536 /\ Val(minuend) \in Nat
      /\ Val(subtrahend) \in Nat /\ Val(subtrahend) < 65536
  BY <1>0, ValRange
<1>5. Val(sum) = Minus(Val(subtrahend))
  BY <1>0, <1>3, <1>4 DEF Minus
<1>6. Val(sum') + Val(addend') + 65536 * carry' = Total'
  <2>1. Val(sum') = Val(minuend) /\ Val(addend') = Val(sum) /\ carry' = 0
    BY <1>1
  <2>2. Total' = Val(minuend) + Minus(Val(subtrahend))
    BY <1>1 DEF Total
  <2> QED
    BY <1>4, <1>5, <2>1, <2>2
<1>7. passes' <= 16 /\ \A n \in Idx : n < passes' => addend'[n] = 0
  BY <1>1 DEF Idx
<1> QED
  BY <1>0, <1>1, <1>2, <1>6, <1>7 DEF CarryInv, LoopInv

LEMMA FinishCarry ==
  ASSUME CarryInv, Finish
  PROVE  CarryInv'
<1>1. /\ sum' = sum /\ addend' = addend /\ minuend' = minuend /\ subtrahend' = subtrahend
      /\ carry' = carry /\ passes' = passes
      /\ pc = "added" /\ pc' = "done" /\ flag' = 1 - carry
  BY DEF Finish
<1>2. TypeOK'
  BY <1>1 DEF CarryInv, TypeOK
<1>3. Total' = Total
  BY <1>1 DEF Total
<1> QED
  BY <1>1, <1>2, <1>3 DEF CarryInv, LoopInv

LEMMA NextCarry == CarryInv /\ [Next]_vars => CarryInv'
<1> SUFFICES ASSUME CarryInv, [Next]_vars PROVE CarryInv'
  OBVIOUS
<1>1. CASE Pass("negate", "negated")
  BY <1>1, PassCarry
<1>2. CASE Load
  BY <1>2, LoadCarry
<1>3. CASE Pass("add", "added")
  BY <1>3, PassCarry
<1>4. CASE Finish
  BY <1>4, FinishCarry
<1>5. CASE UNCHANGED vars
  BY <1>5 DEF vars, CarryInv, LoopInv, TypeOK, Total
<1> QED
  BY <1>1, <1>2, <1>3, <1>4, <1>5 DEF Next

LEMMA CarryInvSubtracts == CarryInv => Subtracts
<1> SUFFICES ASSUME CarryInv, pc = "done"
             PROVE  /\ Val(sum) = (Val(minuend) - Val(subtrahend)) % 65536
                    /\ flag = 1 <=> Val(minuend) < Val(subtrahend) \/ Val(subtrahend) = 0
  BY DEF Subtracts
<1> DEFINE D == Val(minuend) - Val(subtrahend)
           N == Minus(Val(subtrahend))
           Goal == /\ Val(sum) = D % 65536
                   /\ flag = 1 <=> Val(minuend) < Val(subtrahend) \/ Val(subtrahend) = 0
<1> SUFFICES Goal
  OBVIOUS
<1>1. /\ Val(sum) \in Nat /\ Val(sum) < 65536
      /\ Val(minuend) \in Nat /\ Val(minuend) < 65536
      /\ Val(subtrahend) \in Nat /\ Val(subtrahend) < 65536
      /\ carry \in {0, 1} /\ flag = 1 - carry /\ Val(addend) = 0
  BY ValRange, SmallVals DEF CarryInv, LoopInv, TypeOK
<1>2. Val(sum) + Val(addend) + 65536 * carry = Val(minuend) + N
  BY DEF CarryInv, LoopInv, Total
<1>3. CASE Val(subtrahend) = 0
  <2>0. N = 0
    BY <1>3 DEF Minus
  <2> HIDE DEF N
  <2>1. Val(sum) + 65536 * carry = Val(minuend)
    BY <1>1, <1>2, <2>0
  <2>2. carry = 0 /\ Val(sum) = D
    BY <1>1, <1>3, <2>1
  <2> QED
    BY <1>1, <1>3, <2>2, CutTo16
<1>4. CASE Val(subtrahend) # 0
  <2>1. N = 65536 - Val(subtrahend)
    BY <1>1, <1>4 DEF Minus
  <2> HIDE DEF N
  <2>2. Val(sum) + 65536 * carry = D + 65536
    BY <1>1, <1>2, <2>1
  <2>3. CASE carry = 0
    <3>1. Val(sum) = D + 65536 /\ D < 0 /\ D > -65536 /\ D \in Int
      BY <1>1, <2>2, <2>3
    <3> QED
      BY <1>1, <2>3, <3>1, CutTo16
  <2>4. CASE carry = 1
    <3>1. Val(sum) = D
      BY <1>1, <2>2, <2>4
    <3> QED
      BY <1>1, <1>4, <2>4, <3>1, CutTo16
  <2> QED
    BY <1>1, <2>3, <2>4
<1> QED
  BY <1>3, <1>4

LEMMA AlwaysCarry == Spec => []CarryInv
  BY InitCarry, NextCarry, PTL DEF Spec

\* The words of the loops stay words of sixteen bits, the scratch word and the flag c
\* bits, and the passes are counted.
THEOREM CarriesTyped == Spec => []TypeOK
<1>1. CarryInv => TypeOK
  BY DEF CarryInv
<1> QED
  BY <1>1, AlwaysCarry, PTL

\* The loops of the layers subtract, and leave the borrow in the flag c.
THEOREM LoopsSubtract == Spec => []Subtracts
  BY AlwaysCarry, CarryInvSubtracts, PTL

\* No loop runs more than 16 times.
THEOREM LoopsEnd == Spec => []AtMost16
<1>1. CarryInv => AtMost16
  BY DEF CarryInv, LoopInv, AtMost16
<1> QED
  BY <1>1, AlwaysCarry, PTL
=============================================================================
