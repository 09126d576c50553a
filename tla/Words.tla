------------------------------- MODULE Words --------------------------------
(***************************************************************************)
(* Words of two halves of HalfBits bits, and the operations that the       *)
(* programs bflayer1.c, bflayer2.c and bflayer3.c build from and, or, neg  *)
(* and shift: the exclusive or, written in six ways out of and, or and     *)
(* neg, and sums and differences, which module CarryLoop shows to be what  *)
(* their loops leave.  The program has halves of 8 bits.                   *)
(***************************************************************************)
EXTENDS Integers

CONSTANTS
  HalfBits,     \* the bits of half a word: 8 in the programs
  BitXor(_, _)  \* ^ on words

Half == 2 ^ HalfBits
WordBase == Half * Half
Word == 0 .. WordBase - 1

\* uint16_t: what a word keeps of an integer.
Wrap(n) == n % WordBase

Complement(w) == WordBase - 1 - w

\* & 0x00ff, >> 8 and << 8 for halves of 8 bits.
Low(w) == w % Half
High(w) == w \div Half
ToHigh(w) == Wrap(w * Half)

\* The borrow that the second of the two loops of a subtraction leaves in the
\* flag c: the loops add one to ~n, then the sum to w.  Nothing is carried out
\* when n is 0 either.
Borrow(w, n) == w < n \/ n = 0

=============================================================================
