------------------------------- MODULE Layer3 -------------------------------
(***************************************************************************)
(* The search for the third key (bflayer3.c).  The code of layer 3 makes   *)
(* one word of the two words of the key and decrypts a block of memory in  *)
(* place with it and an obfuscation mask.  f() judges nothing: main()      *)
(* compares the block with the text it expects.  main() knows the first    *)
(* word of the key, and tries all the others on a fresh copy of the block. *)
(***************************************************************************)
EXTENDS Words

CONSTANTS
  Rounds,     \* 0x10
  Start,      \* 4: where r0 starts
  Mask,       \* the mask of the operand obf(0xa00c, r0, 0x33), for every r0
  Text,       \* the text that main() compares with, a word for every r0
  Lo,         \* 0xf63d: the first word of the key
  FirstKey,   \* the words that main() tries: 0 .. 0xffff
  LastKey,
  Blobs       \* the blocks that main() may be given

VARIABLES
  pc,         \* where the program is
  blob,       \* the file
  k2,         \* the loop of main()
  block,      \* the words at 0xa00c + r0, for the values of r0 in Slots
  r13, r7,    \* the low halves of the key mixed, and its high halves
  stream,     \* the word made of them (obf(0xdb2a))
  i,          \* the rounds done (obf(0xea26))
  r0,
  printed     \* the words that main() has printed

vars == <<pc, blob, k2, block, r13, r7, stream, i, r0, printed>>

Slots == {Start + 2 * n : n \in 0 .. Rounds - 1}

TypeOK ==
  /\ pc \in {"main", "mix", "sum", "decrypt", "advance", "loop", "return", "exit"}
  /\ blob \in Blobs
  /\ k2 \in FirstKey .. LastKey
  /\ block \in [Slots -> Word]
  /\ {r13, r7, stream, i, r0} \subseteq Word
  /\ printed \subseteq FirstKey .. LastKey

Init ==
  /\ pc = "main" /\ blob \in Blobs /\ k2 = FirstKey
  /\ block = [s \in Slots |-> 0]
  /\ r13 = 0 /\ r7 = 0 /\ stream = 0 /\ i = 0 /\ r0 = 0
  /\ printed = {}

\* Slip: the block is copied for the first key only.
CopyOnce == IF k2 = FirstKey THEN blob ELSE block

\* memcpy: f() decrypts in place, and every key gets a fresh copy.
Copy == blob

\* main() stores the key and calls f().
Try ==
  /\ pc = "main"
  /\ block' = Copy
  /\ pc' = "mix"
  /\ UNCHANGED <<blob, k2, r13, r7, stream, i, r0, printed>>

MixHigh == BitXor(High(Lo), High(k2))

\* The low halves of the two words are mixed, and the high ones.
Mix ==
  /\ pc = "mix"
  /\ r13' = BitXor(Low(Lo), Low(k2))
  /\ r7' = MixHigh
  /\ pc' = "sum"
  /\ UNCHANGED <<blob, k2, block, stream, i, r0, printed>>

\* Slip: the high halves are added once.
SumOnce == Wrap(r13 + ToHigh(r7))

\* r13 + r7 + (r7 << 8), by two loops.
Sum == Wrap(Wrap(r13 + r7) + ToHigh(r7))

SumKey ==
  /\ pc = "sum"
  /\ stream' = Sum
  /\ i' = 0 /\ r0' = Start
  /\ pc' = "decrypt"
  /\ UNCHANGED <<blob, k2, block, r13, r7, printed>>

\* A word of the block is read through its mask and written without.
Decrypt ==
  /\ pc = "decrypt"
  /\ block' = [block EXCEPT ![r0] = BitXor(BitXor(@, Mask[r0]), stream)]
  /\ pc' = "advance"
  /\ UNCHANGED <<blob, k2, r13, r7, stream, i, r0, printed>>

\* i += 1, r0 += 2.
Advance ==
  /\ pc = "advance"
  /\ i' = Wrap(i + 1)
  /\ r0' = Wrap(r0 + 2)
  /\ pc' = "loop"
  /\ UNCHANGED <<blob, k2, block, r13, r7, stream, printed>>

\* The flag c of i - 0x10.
MoreRounds == Borrow(i, Rounds)

LoopBack ==
  /\ pc = "loop"
  /\ pc' = IF MoreRounds THEN "decrypt" ELSE "return"
  /\ UNCHANGED <<blob, k2, block, r13, r7, stream, i, r0, printed>>

\* The request to the client, the sled and the end of f().  main() compares the
\* block with the text, and goes to the next key.
Report ==
  /\ pc = "return"
  /\ printed' = IF block = Text THEN printed \union {k2} ELSE printed
  /\ IF k2 < LastKey
       THEN k2' = k2 + 1 /\ pc' = "main"
       ELSE k2' = k2 /\ pc' = "exit"
  /\ UNCHANGED <<blob, block, r13, r7, stream, i, r0>>

Next == Try \/ Mix \/ SumKey \/ Decrypt \/ Advance \/ LoopBack \/ Report

Spec == Init /\ [][Next]_vars /\ WF_vars(Next)

-----------------------------------------------------------------------------

\* The word that the block has been encrypted with, if there is one.
Streams(b) ==
  LET w == BitXor(BitXor(b[Start], Mask[Start]), Text[Start])
  IN {v \in {w} : \A s \in Slots : BitXor(BitXor(b[s], Mask[s]), v) = Text[s]}

\* The second words of the key that give the stream word w.  x and y are the mixed
\* low and high halves: x + y * (Half + 1) takes every value below WordBase + Half - 1
\* but those whose remainder is Half, so that the words below Half - 1 have two keys
\* and one word has none.
Mixed(x, y) == x + y * (Half + 1)
KeysOf(w) ==
  {BitXor(Lo, ToHigh(v \div (Half + 1)) + (v % (Half + 1))) :
     v \in {u \in {w, w + WordBase} : u \div (Half + 1) < Half /\ u % (Half + 1) < Half}}
TheKeys(b) == UNION {KeysOf(w) : w \in Streams(b)}

\* At the head of a round the words below r0 have been decrypted once and the
\* others not yet, with one word made of the key.
Progress ==
  pc = "decrypt" =>
    /\ i < Rounds /\ r0 = Start + 2 * i
    /\ stream = Wrap(Mixed(BitXor(Low(Lo), Low(k2)), BitXor(High(Lo), High(k2))))
    /\ \A s \in Slots :
         block[s] = IF s < r0 THEN BitXor(BitXor(blob[s], Mask[s]), stream) ELSE blob[s]

\* The search as module KeySearch has it: the candidates are numbered from 0.
Candidates == LastKey - FirstKey + 1
Good == {k - FirstKey : k \in TheKeys(blob)}
Tried == IF pc = "exit" THEN Candidates ELSE k2 - FirstKey
Reported == {k - FirstKey : k \in printed}
=============================================================================
