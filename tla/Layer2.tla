------------------------------- MODULE Layer2 -------------------------------
(***************************************************************************)
(* The search for the second key (bflayer2.c).  The code of layer 2        *)
(* decrypts a block of memory in place, two words a round, with a key      *)
(* stream that starts from the two words of the key and an obfuscation     *)
(* mask; it looks at the last word that it decrypts, and spoils it when    *)
(* the key is wrong.  main() knows the first word of the key, and tries    *)
(* all the others on a fresh copy of the block.                            *)
(***************************************************************************)
EXTENDS Words

CONSTANTS
  Rounds,     \* 0x40
  Start,      \* 0x50: where r8 starts
  Mask,       \* the mask of the operand obf(0x9fc0, r8, 0x7), for every r8
  Marker,     \* 0xbe92, the last word of the block
  Refused,    \* 0xffff, written over it
  Lo,         \* 0x94e3: the first word of the key
  FirstKey,   \* the words that main() tries: 0 .. 0xffff
  LastKey,
  Blobs       \* the blocks that main() may be given

VARIABLES
  pc,         \* where the program is
  blob,       \* the file
  k2,         \* the loop of main()
  block,      \* the words at 0x9fc0 + r8, for the values of r8 in Slots
  r11, hi,    \* the two words of the stream (hi is the word obf(0xf308))
  i,          \* the rounds done (obf(0xdf44))
  r8,
  ret,        \* what f() returns
  printed     \* the words that main() has printed

vars == <<pc, blob, k2, block, r11, hi, i, r8, ret, printed>>

Slots == {Start + 2 * n : n \in 0 .. 2 * Rounds - 1}
LastSlot == Start + 4 * Rounds - 2

TypeOK ==
  /\ pc \in {"main", "low", "advance", "high", "lower", "count", "step back", "marker",
             "loop", "return", "exit"}
  /\ blob \in Blobs
  /\ k2 \in FirstKey .. LastKey
  /\ block \in [Slots -> Word]
  /\ {r11, hi, i, r8} \subseteq Word
  /\ ret \in {0, 1}
  /\ printed \subseteq FirstKey .. LastKey

Init ==
  /\ pc = "main" /\ blob \in Blobs /\ k2 = FirstKey
  /\ block = [s \in Slots |-> 0]
  /\ r11 = 0 /\ hi = 0 /\ i = 0 /\ r8 = 0
  /\ ret = 0 /\ printed = {}

\* memcpy: f() decrypts in place, and every key gets a fresh copy.
Copy == blob

\* main() stores the key and calls f(), which reads it.
Try ==
  /\ pc = "main"
  /\ block' = Copy
  /\ r11' = Lo /\ hi' = k2
  /\ i' = 0 /\ r8' = Start
  /\ ret' = 1
  /\ pc' = "low"
  /\ UNCHANGED <<blob, k2, printed>>

\* A word of the block is read through its mask and written without.
Decrypt(w) == block' = [block EXCEPT ![r8] = BitXor(BitXor(@, Mask[r8]), w)]

DecryptLow ==
  /\ pc = "low"
  /\ Decrypt(r11)
  /\ pc' = "advance"
  /\ UNCHANGED <<blob, k2, r11, hi, i, r8, ret, printed>>

\* r11 += i, r8 += 2.
AdvanceLow ==
  /\ pc = "advance"
  /\ r11' = Wrap(r11 + i)
  /\ r8' = Wrap(r8 + 2)
  /\ pc' = "high"
  /\ UNCHANGED <<blob, k2, block, hi, i, ret, printed>>

DecryptHigh ==
  /\ pc = "high"
  /\ Decrypt(hi)
  /\ pc' = "lower"
  /\ UNCHANGED <<blob, k2, r11, hi, i, r8, ret, printed>>

\* Slip: the sum of the second loop is kept in more than a word.
LessWide == hi + Wrap(Complement(i) + 1)

\* hi -= i, by two loops: ~i + 1, hi + that.
Less == Wrap(hi + Wrap(Complement(i) + 1))

\* And r8 += 2.
LowerHigh ==
  /\ pc = "lower"
  /\ hi' = Less
  /\ r8' = Wrap(r8 + 2)
  /\ pc' = "count"
  /\ UNCHANGED <<blob, k2, block, r11, i, ret, printed>>

\* i += 1, and past the test of the last word unless i - 0x40 is zero.
CountRound ==
  /\ pc = "count"
  /\ i' = Wrap(i + 1)
  /\ pc' = IF Wrap(i' - Rounds) = 0 THEN "step back" ELSE "loop"
  /\ UNCHANGED <<blob, k2, block, r11, hi, r8, ret, printed>>

\* r8 -= 2: back on the word that was decrypted last.
StepBack ==
  /\ pc = "step back"
  /\ r8' = Wrap(r8 - 2)
  /\ pc' = "marker"
  /\ UNCHANGED <<blob, k2, block, r11, hi, i, ret, printed>>

CheckMarker ==
  /\ pc = "marker"
  /\ IF Wrap(block[r8] - Marker) # 0
       THEN block' = [block EXCEPT ![r8] = Refused] /\ ret' = 0
       ELSE UNCHANGED <<block, ret>>
  /\ pc' = "loop"
  /\ UNCHANGED <<blob, k2, r11, hi, i, r8, printed>>

\* The flag c of i - 0x40.
MoreRounds == Borrow(i, Rounds)

LoopBack ==
  /\ pc = "loop"
  /\ pc' = IF MoreRounds THEN "low" ELSE "return"
  /\ UNCHANGED <<blob, k2, block, r11, hi, i, r8, ret, printed>>

\* The request to the client, the sled and the end of f().
\* main() prints the key if f() took it, and goes to the next.
Report ==
  /\ pc = "return"
  /\ printed' = IF ret = 1 THEN printed \union {k2} ELSE printed
  /\ IF k2 < LastKey
       THEN k2' = k2 + 1 /\ pc' = "main"
       ELSE k2' = k2 /\ pc' = "exit"
  /\ UNCHANGED <<blob, block, r11, hi, i, r8, ret>>

Next ==
  \/ Try \/ DecryptLow \/ AdvanceLow \/ DecryptHigh \/ LowerHigh
  \/ CountRound \/ StepBack \/ CheckMarker \/ LoopBack \/ Report

Spec == Init /\ [][Next]_vars /\ WF_vars(Next)

-----------------------------------------------------------------------------

\* The sum of the first n rounds' numbers: how far the two words have moved.
Moved(n) == (n * (n - 1)) \div 2

\* Word n of the block, counted from 0, as the key <<Lo, k>> decrypts it.
Plain(n, k) ==
  LET s == Start + 2 * n
      round == n \div 2
  IN BitXor(BitXor(blob[s], Mask[s]),
            Wrap(IF n % 2 = 0 THEN Lo + Moved(round) ELSE k - Moved(round)))

\* At the head of a round the words below r8 have been decrypted once and the
\* others not yet, and r8 and the two words of the stream are where the rounds
\* done put them: nothing is skipped, and no word is decrypted again, whatever
\* the last key left behind.
Progress ==
  pc = "low" =>
    /\ i < Rounds /\ r8 = Start + 4 * i
    /\ r11 = Wrap(Lo + Moved(i)) /\ hi = Wrap(k2 - Moved(i))
    /\ \A n \in 0 .. 2 * Rounds - 1 :
         block[Start + 2 * n] = IF n < 2 * i THEN Plain(n, k2) ELSE blob[Start + 2 * n]

\* The client sees the block and not ret: it refuses the key when it finds the
\* last word, and nothing else, spoilt (vicpwn_check, layer 1).
ClientAgrees ==
  pc = "return" =>
    /\ block[LastSlot] = IF ret = 1 THEN Marker ELSE Refused
    /\ \A n \in 0 .. 2 * Rounds - 2 : block[Start + 2 * n] = Plain(n, k2)

\* The marker run backwards: the only second word of the key for the block b.
TheKey(b) ==
  Wrap(BitXor(BitXor(b[LastSlot], Mask[LastSlot]), Marker) + Moved(Rounds - 1))

\* The search as module KeySearch has it: the candidates are numbered from 0.
Candidates == LastKey - FirstKey + 1
Good == {TheKey(blob) - FirstKey}
Tried == IF pc = "exit" THEN Candidates ELSE k2 - FirstKey
Reported == {k - FirstKey : k \in printed}
=============================================================================
