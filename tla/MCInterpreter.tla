---------------------------- MODULE MCInterpreter ----------------------------
EXTENDS InterpreterProofs, Bitwise

AndWords(a, b) == a & b
OrWords(a, b) == a | b
XorWords(a, b) == a ^^ b

-----------------------------------------------------------------------------
(* An assembler.                                                           *)

Op(type, mode, reg, val, obf) ==
  [type |-> type, mode |-> mode, size |-> 1, reg |-> reg, val |-> val, obf |-> obf]
R(k) == Op("reg", "", k, 0, 0)
Imm(v) == Op("imm", "", 0, v, 0)
M(a) == Op("mem", "imm", 0, a, 0)
At(k) == Op("mem", "reg", k, 0, 0)
Index(a, k) == Op("mem", "index", k, a, 0)
Obf(a, k, v) == Op("obf", "", k, a, v)
Short(o) == [o EXCEPT !.size = 0]

I(op, dst, src) ==
  [op |-> op, cond |-> 0, test |-> "always", uf |-> FALSE, dst |-> dst, src |-> src,
   right |-> FALSE, count |-> 1, back |-> FALSE, bytes |-> 0, bits |-> 0, to |-> 0]
Shift(right, dst, count) == [I("shift", dst, dst) EXCEPT !.right = right, !.count = count]
To(op, k) == [I(op, R(0), R(0)) EXCEPT !.to = k, !.bytes = 1]
JmpOn(o) == I("jmp", o, o)
End == I("end", R(0), R(0))
If(cond, test, i) == [i EXCEPT !.cond = cond, !.test = test]
Uf(cond, i) == [i EXCEPT !.cond = cond, !.uf = TRUE]

Start(code, k) == SumFunctionOnSet([j \in DOMAIN code |-> Size(code[j])], 1 .. k - 1)

\* The instructions one behind the other; jumps and calls to number k are relative.
Assemble(code) ==
  LET linked(k) ==
        LET i == code[k]
            d == Start(code, i.to) - Start(code, k + 1)
        IN IF i.to = 0 THEN i
           ELSE [i EXCEPT !.back = (d < 0),
                          !.bytes = (IF d < 0 THEN -d ELSE d) \div 8,
                          !.bits = (IF d < 0 THEN -d ELSE d) % 8]
  IN [p \in {Start(code, k) : k \in DOMAIN code} |->
        linked(CHOOSE k \in DOMAIN code : Start(code, k) = p)]

-----------------------------------------------------------------------------
(* Programs of the kind the layers are.                                    *)

Logic == Assemble(<<
  I("mov", R(0), M(64)),
  Uf(0, I("and", R(0), M(80))),
  If(0, "z", To("jmp", 6)),
  I("or", M(64), Obf(70, 1, 5)),
  I("neg", Obf(70, 1, 5), R(0)),
  Uf(1, Shift(TRUE, R(0), 1)),
  If(1, "c", I("mov", Index(80, 1), R(0))),
  If(0, "nz", To("jmp", 2)),
  I("mov", Obf(74, 3, 9), R(0)),
  End >>)

\* A word shifted out bit by bit, as layer 1 does, and a jump to an address.
Loop == Assemble(<<
  I("mov", R(2), M(64)),
  Uf(1, Shift(FALSE, R(2), 6)),
  If(1, "nc", I("mov", M(66), R(2))),
  Uf(0, I("or", R(2), Imm(0))),
  If(0, "nz", To("jmp", 2)),
  [JmpOn(Imm(29)) EXCEPT !.bits = 1],
  I("neg", R(3), R(3)),
  End >>)

\* Two instructions in a row, all those that set and test flags on a register, a
\* word and an obfuscated word.
Places == {R(2), M(64), Obf(70, 1, 5)}
Shifts == {Shift(right, d, 3) : right \in BOOLEAN, d \in Places}
Moves == {I(op, d, s) : op \in {"and", "or", "mov"}, d \in Places,
                        s \in {R(2), Imm(0), Obf(70, 1, 5)}}
Negs == {I("neg", d, d) : d \in Places}

Pairs ==
  {Assemble(<<Uf(k, i), If(0, "nc", j), End>>) :
     k \in {0, 1}, i \in Moves \cup Shifts, j \in Moves \cup Shifts \cup Negs}
  \cup {Assemble(<<Uf(k, i), If(0, "z", j), End>>) :
          k \in {0, 1}, i \in Moves, j \in Moves \cup Shifts \cup Negs}

FlatPrograms == {Logic, Loop} \cup Pairs

\* What the theorem about the C programs is for.
ASSUME FlatProgramsAssumption == \A program \in FlatPrograms : CompiledProgram(program)

Data == 28 .. 129
FlatMemories == {[a \in Data |-> IF a = 65 THEN n ELSE (a * 37 + n) % 256] : n \in {0, 91}}

FlatRegisters == {[k \in 0 .. 14 |-> CASE k = 1 -> 2 [] k = 3 -> 0 [] OTHER -> 7 * k]}

-----------------------------------------------------------------------------
(* Programs with a stack, across the pages 6 (96 .. 111) and 7.           *)

Ret == I("mov", R(15), At(14))

\* Two nested calls, one through memory, with conditions on a call and on a return.
NestedCode == <<
  Uf(0, I("and", R(0), M(64))),
  To("call", 6),
  If(0, "z", To("call", 6)),
  I("call", M(78), M(78)),
  End,
  If(0, "nz", Ret),
  I("neg", M(80), R(0)),
  To("call", 10),
  Ret,
  Uf(0, I("neg", R(0), R(0))),
  Ret >>

\* A first return switches to frames that are obfuscated.
Base == 100
ObfRet == I("mov", R(15), Obf(Base, 14, 33))
Obfuscated == Assemble(<<
  I("mov", R(14), Imm(10)),
  ObfRet,
  To("call", 5),
  End,
  I("neg", M(80), R(0)),
  If(1, "z", To("call", 5)),
  Uf(1, Shift(TRUE, R(3), 2)),
  If(1, "z", To("call", 10)),
  ObfRet,
  If(1, "ns", ObfRet),
  ObfRet >>)

\* Words popped to memory and to a register, a word pushed.
Popped == Assemble(<<
  I("mov", R(14), Imm(30)),
  I("mov", Obf(64, 14, 3), At(14)),
  I("mov", R(4), Obf(2, 14, 7)),
  I("mov", At(14), R(15)),
  If(0, "z", I("mov", At(14), M(64))),
  End >>)

\* Bytes, the program counter as an operand, jumps through a register.
Bytes == Assemble(<<
  I("mov", Short(R(5)), Short(M(81))),
  Uf(1, I("neg", Short(Obf(67, 1, 9)), R(0))),
  If(1, "l", I("mov", M(68), R(15))),
  I("or", Short(M(64)), Short(Imm(5))),
  I("mov", Imm(0), R(5)),
  If(1, "never", To("jmp", 1)),
  JmpOn(R(6)),
  End >>)

\* Words across pages are read as 0; the last mov has one read and one written across
\* pages, and its own code as well: six pages.
Wide == Assemble(<<
  I("mov", R(4), M(95)),
  I("mov", R(5), Obf(93, 1, 5)),
  I("mov", M(79), M(111)),
  End >>)

\* Calls whose first or second word lies across pages.
WideFrames ==
  {Assemble(<<I("mov", R(14), Imm(sp)), To("call", 3), End>>) : sp \in {97, 99}}

\* A return that loads a word of the data for the bit counter, and 0 across pages for the byte.
WildReturn == Assemble(<<I("mov", R(14), Imm(93)), Ret, End>>)

\* The stack pointer goes down with the mov that is executed, and not with the other one.
Pushes == Assemble(<<
  I("mov", At(14), R(4)),
  If(0, "z", I("mov", At(14), R(4))),
  End >>)

StackPrograms ==
  {Assemble(NestedCode), Obfuscated, Popped, Bytes, Wide, WildReturn} \cup WideFrames
PushPrograms == {Pushes}

\* What the theorems about the five slots and about the words are for.
ASSUME WordProgramsAssumption ==
  \A program \in FlatPrograms \cup StackPrograms \cup PushPrograms :
    EncodedProgram(program) /\ WordProgram(program)

\* The first return of Obfuscated goes to its third instruction.
AfterObfRet == Size(I("mov", R(14), Imm(10))) + Size(ObfRet)
FirstFrame == [a \in {110, 112} |->
  BitXor(IF a = 110 THEN AfterObfRet % 8 ELSE AfterObfRet \div 8, Mask(Base, a - Base, 33))]

StackMemories ==
  {[a \in Data |-> IF a \in {110, 112} THEN Low(FirstFrame[a])
                   ELSE IF a \in {111, 113} THEN High(FirstFrame[a - 1])
                   ELSE IF a = 78 THEN Start(NestedCode, 7)
                   ELSE IF a = 79 THEN 0
                   ELSE n] : n \in {0, 5}}

StackRegisters ==
  {[k \in 0 .. 14 |-> CASE k = 14 -> 114 [] k = 1 -> 2 [] k = 3 -> n
                             [] OTHER -> 0] :
     n \in {0, 65535}}
=============================================================================
