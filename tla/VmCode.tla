------------------------------- MODULE VmCode -------------------------------
(***************************************************************************)
(* The instructions of the virtual machine as records, the bits that each  *)
(* part of them takes and the arithmetic on 16-bit words, which the        *)
(* interpreter of the webcam (server.c) and the disassembler               *)
(* (vmdisas.rb) have in common.                                            *)
(*                                                                         *)
(* A program is a function from bit positions to instructions; it does not *)
(* write its own code.                                                     *)
(***************************************************************************)
EXTENDS Integers, Sequences

CONSTANTS BitAnd(_, _), BitOr(_, _), BitXor(_, _)  \* &, | and ^ on words

Word == 0 .. 65535
Wrap(n) == n % 65536
Complement(v) == 65535 - v
Sign(v) == v \div 32768
Low(v) == v % 256
High(v) == v \div 256

\* Shift counts are 1 .. 15: 0 and 16 shift by a negative count in C.
\* ShlWide is a slip: the result is not cut to 16 bits.
ShlWide(v, k) == v * 2^k
Shl(v, k) == Wrap(v * 2^k)
Shr(v, k) == v \div 2^k
LastShifted(right, v, k) == (IF right THEN v \div 2^(k - 1) ELSE v \div 2^(16 - k)) % 2

\* The mask of the obfuscated operands: reg + 2 rounds on two words, the last two
\* bytes that come out of them.
Mask(addr, reg, obf) ==
  LET rol(v) == Wrap(2 * v) + v \div 32768
      ror2(v) == v \div 4 + (v % 4) * 16384
      round[i \in 0 .. reg + 2] ==
        IF i = 0
          THEN [r5 |-> BitXor(Wrap((obf * 64 + obf) * 16 + obf), 17997),   \* 0x464d
                r2 |-> BitXor(addr, 27704),                                \* 0x6c38
                byte |-> 0]
          ELSE LET old == round[i - 1]
                   r2 == Wrap(ror2(old.r2) + rol(old.r5))
                   r5 == Wrap(rol(old.r5) + 2)
                   x == BitXor(r2, r5)
               IN [r5 |-> r5, r2 |-> r2, byte |-> BitXor(Low(x), High(x))]
  IN round[reg + 2].byte * 256 + round[reg + 1].byte

-----------------------------------------------------------------------------
(* Operands: [type, mode, size, reg, val, obf].  val is the immediate value   *)
(* or the address, mode tells the three kinds of memory reference.            *)

OperandWidths(o) ==
  <<1, 2>> \o
  CASE o.type = "reg" -> <<4>>
    [] o.type = "imm" -> <<IF o.size = 0 THEN 8 ELSE 16>>
    [] o.type = "obf" -> <<16, 4, 6>>
    [] o.type = "mem" -> CASE o.mode = "reg" -> <<2, 4>>
                           [] o.mode = "imm" -> <<2, 16>>
                           [] o.mode = "index" -> <<2, 16, 4>>

\* Instructions: [op, cond, test, uf], and dst, src; right, count for a shift;
\* back, bytes, bits for a jump, whose target may be dst instead.
HeadWidths(i) == IF i.op = "end" THEN <<1, 8>> ELSE <<1, 8, 3, 1>>

MoreWidths(i) ==
  CASE i.op = "shift" -> <<1, 8>>
    [] i.op \in {"jmp", "call"} -> <<6, 3>>
    [] OTHER -> <<>>

\* r12 = 0: the target of the jump is an operand.
Absolute(i) == i.op \in {"jmp", "call"} /\ ~i.back /\ i.bytes = 0

Operands(i) ==
  IF i.op \in {"and", "or", "mov"} THEN <<i.dst, i.src>>
  ELSE IF i.op \in {"neg", "shift"} \/ Absolute(i) THEN <<i.dst>>
  ELSE <<>>

Bits(widths) ==
  LET sum[n \in 0 .. Len(widths)] == IF n = 0 THEN 0 ELSE sum[n - 1] + widths[n]
  IN sum[Len(widths)]

Size(i) ==
  Bits(HeadWidths(i)) + Bits(MoreWidths(i))
    + Bits([k \in DOMAIN Operands(i) |-> Bits(OperandWidths(Operands(i)[k]))])

\* The program counter is a byte number of 16 bits and a bit number.
WrapPosition(pos) == pos % (8 * 65536)

\* The target of a relative jump, counted from the end of the jump.
Relative(i, pos) ==
  WrapPosition(IF i.back THEN pos - 8 * i.bytes - i.bits ELSE pos + 8 * i.bytes + i.bits)
=============================================================================
