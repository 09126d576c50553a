------------------------------ MODULE KeyChain ------------------------------
(***************************************************************************)
(* The three searches, one after the other, with the constants of the      *)
(* programs.  What a search finds was copied by hand into the source of    *)
(* the next one (the first word of its key, and the registers that the     *)
(* code of a layer leaves to the code of the next layer, which the machine *)
(* runs without a reset), and the whole key into extract.c, findblocks.c   *)
(* and test_key.c.                                                         *)
(*                                                                         *)
(* The same searches run on words of 6 bits as well, where every key can   *)
(* be tried; there they follow one another in the same way, each one with  *)
(* a block of its own.                                                     *)
(*                                                                         *)
(* The searches share the variables that have one name in the programs;    *)
(* each one starts as a new process.                                       *)
(***************************************************************************)
EXTENDS Integers, Sequences

CONSTANTS
  BitXor(_, _),
  Near,         \* how far from the key each loop of main() starts and ends
  Blob, Blah,   \* the files given to bflayer2 and bflayer3
  Text,         \* the text of bflayer3.c
  Mask6, Text6, Blobs2, Blobs3  \* the same for words of 6 bits

VARIABLES
  width,        \* 16, the words of the programs, or 6
  program,      \* 1, 2 or 3: the search that runs
  pc, blob, k1, k2, key, block, r0, r3, r6, r7, r8, r11, r12, r13, z0, hi, i, stream,
  ret, printed,
  found,        \* what the searches before have printed
  left          \* the registers that f() left for each key that was printed

own == <<pc, blob, k1, k2, key, block, r0, r3, r6, r7, r8, r11, r12, r13, z0, hi, i, stream,
         ret, printed>>
vars == <<width, program, own, found, left>>

-----------------------------------------------------------------------------
(* The masks of the obfuscated operands.                                   *)

Wrap(n) == n % \h10000
ROL1(v) == Wrap(2 * v) + v \div \h8000
ROR2(v) == v \div 4 + (v % 4) * \h4000

\* A round of calc_obf: two words, and the last two bytes that came out of them.
ObfRound(o) ==
  LET r2 == Wrap(ROR2(o.r2) + ROL1(o.r5))
      r5 == Wrap(ROL1(o.r5) + 2)
      x == BitXor(r2, r5)
  IN [r5 |-> r5, r2 |-> r2, byte |-> BitXor(x % 256, x \div 256), last |-> o.byte]

Obf == [r5 : 0 .. \hffff, r2 : 0 .. \hffff, byte : 0 .. 255, last : 0 .. 255]
RoundsFrom[o \in Obf, n \in Nat] == IF n = 0 THEN o ELSE RoundsFrom[ObfRound(o), n - 1]

ObfStart(addr, v) ==
  [r5 |-> BitXor(Wrap((v * 64 + v) * 16 + v), \h464d),
   r2 |-> BitXor(addr, \h6c38),
   byte |-> 0, last |-> 0]

\* The masks of count operands obf(addr, first, v), obf(addr, first + 2, v), ...:
\* each one takes two rounds more than the one before.
Masks(addr, v, first, count) ==
  LET after[n \in 0 .. count - 1] ==
        IF n = 0 THEN RoundsFrom[ObfStart(addr, v), first + 2]
                 ELSE RoundsFrom[after[n - 1], 2]
  IN [reg \in {first + 2 * n : n \in 0 .. count - 1} |->
        LET o == after[(reg - first) \div 2] IN o.byte * 256 + o.last]

-----------------------------------------------------------------------------
(* The constants of the sources.                                           *)

\* KEY in extract.c and findblocks.c, in words; the second half is the key of the
\* machine.
KEY == <<\hfd41, \h85ff, \h66a9, \h4afd, \he5df, \h94e3, \hf63d, \h8937>>

\* set_my_key gives layer n the words n + 1 and n + 2 of the key of the machine.
Window(n) == <<KEY[5 + n], KEY[6 + n]>>

\* The first words of the keys, as main() has them.
Lo2 == \h94e3
Lo3 == \hf63d

\* The registers that f() of bflayer2.c and of bflayer3.c starts with.
Entry2 == [r6 |-> \h6b14, r12 |-> \he5df]
Entry3 == [r8 |-> \h14e, r11 |-> \h9cc3]

\* obf(0x9fc0, r8, 0x7) and obf(0xa00c, r0, 0x33).
Mask2 == Masks(\h9fc0, 7, \h50, 128)
Mask3 == Masks(\ha00c, \h33, 4, 16)

L1 == INSTANCE Layer1 WITH
  HalfBits <- 8,
  FirstKey <- <<Window(0)[1] - Near, Window(0)[2] - Near>>,
  LastKey <- <<Window(0)[1] + Near, Window(0)[2] + Near>>,
  LowMix <- \h9577, HighGoal <- \hae4d,
  LowShift <- \h0539, LowGoal <- \h6b14,
  Verdict <- <<\hdead, \hbeef>>
L2 == INSTANCE Layer2 WITH
  HalfBits <- 8, Rounds <- \h40, Start <- \h50, Mask <- Mask2,
  Marker <- \hbe92, Refused <- \hffff,
  Lo <- Lo2, FirstKey <- Window(1)[2] - Near, LastKey <- Window(1)[2] + Near,
  Blobs <- {Blob}
L3 == INSTANCE Layer3 WITH
  HalfBits <- 8, Rounds <- \h10, Start <- 4, Mask <- Mask3,
  Lo <- Lo3, FirstKey <- Window(2)[2] - Near, LastKey <- Window(2)[2] + Near,
  Blobs <- {Blah}

-----------------------------------------------------------------------------
(* Words of 6 bits: every pair of words for the first search, and every    *)
(* second word for four rounds of the second and three of the third.       *)

S1 == INSTANCE Layer1 WITH
  HalfBits <- 3, FirstKey <- <<0, 0>>, LastKey <- <<63, 63>>,
  LowMix <- 23, HighGoal <- 45, LowShift <- 57, LowGoal <- 20,
  Verdict <- <<53, 47>>
S2 == INSTANCE Layer2 WITH
  HalfBits <- 3, Rounds <- 4, Start <- 10, Mask <- Mask6,
  Marker <- 50, Refused <- 63, Lo <- 61, FirstKey <- 0, LastKey <- 63,
  Blobs <- Blobs2
S3 == INSTANCE Layer3 WITH
  HalfBits <- 3, Rounds <- 3, Start <- 4, Mask <- Mask6, Text <- Text6,
  Lo <- 45, FirstKey <- 0, LastKey <- 63,
  Blobs <- Blobs3

-----------------------------------------------------------------------------

\* The variables that a search does not have: they stay as they are.
Others1 == <<blob, block, r0, r7, r11, r13, hi, i, stream>>
Others2 == <<k1, key, r0, r3, r6, r7, r12, r13, z0, stream>>
Others3 == <<k1, key, r3, r6, r8, r11, r12, z0, hi, ret>>

Init ==
  /\ \/ width = 16 /\ L1!Init
     \/ width = 6 /\ S1!Init
  /\ program = 1
  /\ blob = <<>> /\ block = <<>> /\ r0 = 0 /\ r7 = 0 /\ r11 = 0 /\ r13 = 0
  /\ hi = 0 /\ i = 0 /\ stream = 0
  /\ found = <<>> /\ left = <<>>

Keep == left' = IF printed' # printed
                  THEN Append(left, [r6 |-> r6, r8 |-> r8, r11 |-> r11, r12 |-> r12])
                  ELSE left

\* A step of the search that runs.
Run ==
  /\ \/ program = 1 /\ UNCHANGED Others1 /\ \/ width = 16 /\ L1!Next
                                            \/ width = 6 /\ S1!Next
     \/ program = 2 /\ UNCHANGED Others2 /\ \/ width = 16 /\ L2!Next
                                            \/ width = 6 /\ S2!Next
     \/ program = 3 /\ UNCHANGED Others3 /\ \/ width = 16 /\ L3!Next
                                            \/ width = 6 /\ S3!Next
  /\ IF width = 16 THEN Keep ELSE left' = left
  /\ UNCHANGED <<width, program, found>>

\* The search has ended: the next program is started.
Start ==
  /\ pc = "exit" /\ program < 3
  /\ program' = program + 1
  /\ found' = Append(found, printed)
  /\ pc' = "main" /\ printed' = {} /\ ret' = 0
  /\ blob' \in IF width = 16 THEN {IF program = 1 THEN Blob ELSE Blah}
               ELSE IF program = 1 THEN Blobs2 ELSE Blobs3
  /\ k2' = IF width = 16 THEN Window(program)[2] - Near ELSE 0
  /\ block' = [s \in DOMAIN blob' |-> 0]
  /\ r0' = 0 /\ r7' = 0 /\ r8' = 0 /\ r11' = 0 /\ r13' = 0 /\ hi' = 0 /\ i' = 0 /\ stream' = 0
  /\ UNCHANGED <<width, k1, key, r3, r6, r12, z0, left>>

Next == Run \/ Start

Spec == Init /\ [][Next]_vars /\ WF_vars(Next)

-----------------------------------------------------------------------------

\* What each search has its own definition of.
Current(l1, l2, l3, s1, s2, s3) ==
  IF width = 16
    THEN CASE program = 1 -> l1 [] program = 2 -> l2 [] program = 3 -> l3
    ELSE CASE program = 1 -> s1 [] program = 2 -> s2 [] program = 3 -> s3

\* The registers hold words, all of them, after every sum, difference and shift.
TypeOK ==
  /\ width \in {6, 16} /\ program \in 1 .. 3
  /\ Current(L1!TypeOK, L2!TypeOK, L3!TypeOK, S1!TypeOK, S2!TypeOK, S3!TypeOK)

\* The decryptions in place go over each word of the block once, and start from the
\* file for every key, whatever the last key has left behind.
Progress ==
  Current(TRUE, L2!Progress, L3!Progress, TRUE, S2!Progress, S3!Progress)

\* The author's edit of f() (ret) and the client of the machine, that knows only the
\* memory, judge every key in the same way.
ClientAgrees ==
  Current(L1!ClientAgrees, L2!ClientAgrees, TRUE, S1!ClientAgrees, S2!ClientAgrees, TRUE)

\* What has been copied by hand is what the searches print: each search starts from
\* the last word that the one before has printed, and the words printed are the
\* windows of the key that extract.c and test_key.c have.
Copied ==
  width = 16 =>
    /\ Len(found) >= 1 => found[1] = {Window(0)} /\ Lo2 = Window(0)[2]
    /\ Len(found) >= 2 => found[2] = {Window(1)[2]} /\ Lo3 = Window(1)[2]
    /\ program = 3 /\ pc = "exit" => printed = {Window(2)[2]}

\* The registers that bflayer2.c and bflayer3.c start with are those that the code
\* of the layer before leaves when it is given the right key.
HandedOver ==
  /\ Len(left) >= 1 => left[1].r6 = Entry2.r6 /\ left[1].r12 = Entry2.r12
  /\ Len(left) >= 2 => left[2].r8 = Entry3.r8 /\ left[2].r11 = Entry3.r11

\* Each search tries all its keys and prints the good ones and nothing else: they
\* are found by running the equations of the layer backwards, which gives one key
\* for layers 1 and 2, and one, two or none for the word that a block of layer 3
\* has been encrypted with.  Nothing that a key leaves in the memory, the registers
\* or the flags changes what is found for the next one, and the search ends.
Search == INSTANCE KeySearch WITH
  count <- Current(L1!Candidates, L2!Candidates, L3!Candidates,
                   S1!Candidates, S2!Candidates, S3!Candidates),
  good <- Current(L1!Good, L2!Good, L3!Good, S1!Good, S2!Good, S3!Good),
  next <- Current(L1!Tried, L2!Tried, L3!Tried, S1!Tried, S2!Tried, S3!Tried),
  printed <- Current(L1!Reported, L2!Reported, L3!Reported,
                     S1!Reported, S2!Reported, S3!Reported)
PrintsTheKeys == Search!Spec
=============================================================================
