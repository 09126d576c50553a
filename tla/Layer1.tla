------------------------------- MODULE Layer1 -------------------------------
(***************************************************************************)
(* The search for the first key of the virtual machine (bflayer1.c): the   *)
(* code of layer 1, decompiled to C, is run on every pair of words, and    *)
(* the pairs it accepts are printed.                                       *)
(*                                                                         *)
(* f() keeps the names of the registers of the machine.  It tells its      *)
(* caller that it accepts a key (ret, an edit of the author), and the      *)
(* client of the machine by writing two other words over the key.          *)
(***************************************************************************)
EXTENDS Words

CONSTANTS
  FirstKey,   \* where the loops of main() start: <<0, 0>>
  LastKey,    \* and end: <<0xffff, 0xffff>>
  LowMix,     \* 0x9577
  HighGoal,   \* 0xae4d
  LowShift,   \* 0x0539
  LowGoal,    \* 0x6b14
  Verdict     \* the two words of the verdict: 0xdead and 0xbeef

VARIABLES
  pc,         \* where the program is
  k1, k2,     \* the loops of main()
  key,        \* the words at 0xa000 and 0xa002
  r12, r3,    \* the key as f() read it
  r6, r8,     \* what f() makes of its two words
  z0,         \* the flag of the last test
  ret,        \* what f() returns
  printed     \* the pairs that main() has printed

vars == <<pc, k1, k2, key, r12, r3, r6, r8, z0, ret, printed>>

TypeOK ==
  /\ pc \in {"main", "low", "high", "test high", "shift", "test low", "verdict", "return", "exit"}
  /\ k1 \in FirstKey[1] .. LastKey[1] /\ k2 \in FirstKey[2] .. LastKey[2]
  /\ key \in Word \X Word
  /\ {r12, r3, r6, r8} \subseteq Word
  /\ z0 \in BOOLEAN /\ ret \in {0, 1}
  /\ printed \subseteq Word \X Word

Init ==
  /\ pc = "main" /\ k1 = FirstKey[1] /\ k2 = FirstKey[2]
  /\ key = <<0, 0>>
  /\ r12 = 0 /\ r3 = 0 /\ r6 = 0 /\ r8 = 0
  /\ z0 = FALSE /\ ret = 0 /\ printed = {}

\* Slip: f() keeps what it has told its caller for the key before.
TryRetKept ==
  /\ pc = "main"
  /\ key' = <<k1, k2>>
  /\ r12' = k1 /\ r3' = k2
  /\ z0' = FALSE
  /\ pc' = "low"
  /\ UNCHANGED <<k1, k2, r6, r8, ret, printed>>

\* main() stores a key and calls f(), which clears its flags.
Try ==
  /\ pc = "main"
  /\ key' = <<k1, k2>>
  /\ r12' = k1 /\ r3' = k2
  /\ ret' = 0 /\ z0' = FALSE
  /\ pc' = "low"
  /\ UNCHANGED <<k1, k2, r6, r8, printed>>

\* The first word is folded on itself.
MixLow == BitXor(BitXor(r12, High(r12)), LowMix)

Low1 ==
  /\ pc = "low"
  /\ r6' = MixLow
  /\ pc' = "high"
  /\ UNCHANGED <<k1, k2, key, r12, r3, r8, z0, ret, printed>>

\* The second word is folded on itself, and each half of the first one is
\* spread over both halves of the result.
MixHigh ==
  BitXor(BitXor(BitXor(BitXor(BitXor(r3, High(r3)),
                              Low(r12)),
                       ToHigh(Low(r12))),
                ToHigh(High(r12))),
         High(r12))

High1 ==
  /\ pc = "high"
  /\ r8' = MixHigh
  /\ pc' = "test high"
  /\ UNCHANGED <<k1, k2, key, r12, r3, r6, z0, ret, printed>>

\* r8 - 0xae4d in a scratch word, and out if anything is left.
TestHigh ==
  /\ pc = "test high"
  /\ z0' = (Wrap(r8 - HighGoal) = 0)
  /\ pc' = IF z0' THEN "shift" ELSE "return"
  /\ UNCHANGED <<k1, k2, key, r12, r3, r6, r8, ret, printed>>

\* Slip: the difference stays in a scratch word, and the goal is changed instead.
ShiftInScratch ==
  /\ pc = "shift"
  /\ pc' = "test low"
  /\ UNCHANGED <<k1, k2, key, r12, r3, r6, r8, z0, ret, printed>>

\* r6 -= 0x0539.
ShiftLow ==
  /\ pc = "shift"
  /\ r6' = Wrap(r6 - LowShift)
  /\ pc' = "test low"
  /\ UNCHANGED <<k1, k2, key, r12, r3, r8, z0, ret, printed>>

\* r6 - 0x6b14 in a scratch word.
TestLow ==
  /\ pc = "test low"
  /\ z0' = (Wrap(r6 - LowGoal) = 0)
  /\ pc' = "verdict"
  /\ UNCHANGED <<k1, k2, key, r12, r3, r6, r8, ret, printed>>

\* The two words that tell the client of the machine.
NewKey == <<Wrap(Verdict[1] + r8), BitXor(r6, Verdict[2])>>

\* Slip: the last two stores have lost their condition.
WriteVerdictAlways ==
  /\ pc = "verdict"
  /\ key' = NewKey
  /\ ret' = IF z0 THEN 1 ELSE ret
  /\ pc' = "return"
  /\ UNCHANGED <<k1, k2, r12, r3, r6, r8, z0, printed>>

\* Instructions of condition z: they act only when the flag of the test is set,
\* and the loop of their addition works with the other set of flags.
WriteVerdict ==
  /\ pc = "verdict"
  /\ IF z0
       THEN key' = NewKey /\ ret' = 1
       ELSE UNCHANGED <<key, ret>>
  /\ pc' = "return"
  /\ UNCHANGED <<k1, k2, r12, r3, r6, r8, z0, printed>>

\* The request to the client, the sled, the end of f(), and main()'s next key.
Report ==
  /\ pc = "return"
  /\ printed' = IF ret = 1 THEN printed \union {<<k1, k2>>} ELSE printed
  /\ k2' = IF k2 < LastKey[2] THEN k2 + 1 ELSE FirstKey[2]
  /\ IF k2 = LastKey[2] /\ k1 = LastKey[1]
       THEN pc' = "exit" /\ k1' = k1
       ELSE pc' = "main" /\ k1' = IF k2 = LastKey[2] THEN k1 + 1 ELSE k1
  /\ UNCHANGED <<key, r12, r3, r6, r8, z0, ret>>

Next == Try \/ Low1 \/ High1 \/ TestHigh \/ ShiftLow \/ TestLow \/ WriteVerdict \/ Report

Spec == Init /\ [][Next]_vars /\ WF_vars(Next)

-----------------------------------------------------------------------------

\* The client of the machine, that knows nothing of ret, takes a key for good
\* when the words it asked for are no longer those it gave (vicpwn_check, layer
\* 0): f() must have changed them exactly when it returns 1, on the paths that
\* jump over the verdict, too.
ClientAgrees == pc = "return" => (ret = 1 <=> key # <<k1, k2>>)

\* Each word folded on itself twice is the word again, so that both goals can be
\* run backwards: there is one key, and this is it.
Fold(w) == BitXor(w, High(w))
TheLow == Fold(BitXor(Wrap(LowGoal + LowShift), LowMix))
Spread == BitXor(BitXor(BitXor(Low(TheLow), ToHigh(Low(TheLow))),
                        ToHigh(High(TheLow))),
                 High(TheLow))
TheKey == <<TheLow, Fold(BitXor(HighGoal, Spread))>>

\* The search as module KeySearch has it: the candidates are numbered from 0.
Columns == LastKey[2] - FirstKey[2] + 1
Number(k) == (k[1] - FirstKey[1]) * Columns + k[2] - FirstKey[2]
Candidates == Number(LastKey) + 1
Good == {Number(TheKey)}
Tried == IF pc = "exit" THEN Candidates ELSE Number(<<k1, k2>>)
Reported == {Number(k) : k \in printed}
=============================================================================
