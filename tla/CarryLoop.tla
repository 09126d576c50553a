----------------------------- MODULE CarryLoop ------------------------------
(***************************************************************************)
(* The machine of the layers has no addition: its code adds with a loop    *)
(* over and, xor and a shift, and subtracts with two of them, the          *)
(* complement of the subtrahend + 1 and then the minuend + that.  A        *)
(* scratch word keeps a bit for the carry, and comes out of the loop       *)
(* negated, shifted into the flag c, as a borrow.                          *)
(*                                                                         *)
(* This is the first subtraction of bflayer1.c, r8 - 0xae4d, for every     *)
(* pair of words.  A word is its 16 bits, the lowest at 0.                 *)
(***************************************************************************)
EXTENDS Integers

CONSTANT Operands  \* the words that the instance of the model subtracts

Idx == 0 .. 15
Word16 == [Idx -> {0, 1}]

ASSUME OperandsAssumption == Operands \subseteq Word16

MaxPasses == 17  \* passes are counted up to here

Zero == [n \in Idx |-> 0]
One == [n \in Idx |-> IF n = 0 THEN 1 ELSE 0]

\* Slip: the digits of 2 are kept.
Sum2(v, w) == [n \in Idx |-> v[n] + w[n]]

Xor(v, w) == [n \in Idx |-> (v[n] + w[n]) % 2]
And(v, w) == [n \in Idx |-> v[n] * w[n]]
Not(v) == [n \in Idx |-> 1 - v[n]]
ShiftLeft(v) == [n \in Idx |-> IF n = 0 THEN 0 ELSE v[n - 1]]

\* The number that a word stands for.
Nibble(v, n) == v[n] + 2 * v[n + 1] + 4 * v[n + 2] + 8 * v[n + 3]
Val(v) == Nibble(v, 0) + 16 * Nibble(v, 4) + 256 * Nibble(v, 8) + 4096 * Nibble(v, 12)

VARIABLES
  pc,                   \* "negate" and "add" are the heads of the loops
  minuend, subtrahend,  \* the operands
  sum, addend,          \* the words of the loop
  carry,                \* bit 15 of the scratch word
  passes,               \* how many times the body of the loop has run
  flag                  \* the flag c after a loop

vars == <<pc, minuend, subtrahend, sum, addend, carry, passes, flag>>

TypeOK ==
  /\ pc \in {"negate", "negated", "add", "added", "done"}
  /\ minuend \in Word16 /\ subtrahend \in Word16 /\ sum \in Word16 /\ addend \in Word16
  /\ carry \in {0, 1} /\ flag \in {0, 1}
  /\ passes \in 0 .. MaxPasses

\* The complement of the subtrahend and 1 go into the first loop.
Init ==
  /\ pc = "negate"
  /\ minuend \in Operands /\ subtrahend \in Operands
  /\ sum = One /\ addend = Not(subtrahend)
  /\ carry = 0 /\ passes = 0 /\ flag = 0

\* Slip: what is carried out comes back in at bit 0.
CarriesAround(v, w) == [ShiftLeft(And(v, w)) EXCEPT ![0] = And(v, w)[15]]

\* The carries of v + w, where they are added.
Carries(v, w) == ShiftLeft(And(v, w))

\* The bit that the shift pushes out sets the flag, and an "or" on the flag keeps
\* it in the scratch word.
CarryOut(v, w) == IF And(v, w)[15] = 1 THEN 1 ELSE carry

\* The body of a loop, and the jump back to its head unless nothing is carried.
Pass(head, after) ==
  /\ pc = head
  /\ sum' = Xor(sum, addend)
  /\ addend' = Carries(sum, addend)
  /\ carry' = CarryOut(sum, addend)
  /\ passes' = IF passes < MaxPasses THEN passes + 1 ELSE passes
  /\ pc' = IF addend' = Zero THEN after ELSE head
  /\ UNCHANGED <<minuend, subtrahend, flag>>

\* Slip: the scratch word of the second loop is that of the first.
KeptScratch == carry

FreshScratch == 0

\* Between the loops: the negated subtrahend is in sum, and the minuend goes in with it.
Load ==
  /\ pc = "negated"
  /\ sum' = minuend /\ addend' = sum
  /\ flag' = 1 - carry
  /\ carry' = FreshScratch /\ passes' = 0
  /\ pc' = "add"
  /\ UNCHANGED <<minuend, subtrahend>>

\* The scratch word is negated and shifted: flag is the borrow of the subtraction.
Finish ==
  /\ pc = "added"
  /\ flag' = 1 - carry
  /\ pc' = "done"
  /\ UNCHANGED <<minuend, subtrahend, sum, addend, carry, passes>>

Next == Pass("negate", "negated") \/ Load \/ Pass("add", "added") \/ Finish

Spec == Init /\ [][Next]_vars

-----------------------------------------------------------------------------

\* The loops leave the difference, and the flag c tells whether it borrowed; except
\* that subtracting 0 leaves it set.
Subtracts ==
  pc = "done" =>
    /\ Val(sum) = (Val(minuend) - Val(subtrahend)) % 65536
    /\ flag = 1 <=> Val(minuend) < Val(subtrahend) \/ Val(subtrahend) = 0

\* The loops end, and run no more than once for each bit: every pass clears the lowest bit that
\* is still carried.
AtMost16 == passes <= 16
=============================================================================
