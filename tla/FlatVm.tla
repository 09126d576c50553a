------------------------------- MODULE FlatVm -------------------------------
(***************************************************************************)
(* What a layer computes: the C program that vmdisas.rb generates for it,  *)
(* one statement for each instruction.  There is one array for the memory  *)
(* and no webcam; an instruction takes effect at once.                     *)
(*                                                                         *)
(* vmdisas.rb translates no push, pop, call, byte operand or jump through  *)
(* a register, and only the flags z and c.  The compiled shift sets z by   *)
(* its result, the firmware always sets it: z is any value after a shift,  *)
(* and no layer looks at it before something else has set it.              *)
(***************************************************************************)
EXTENDS VmCode

CONSTANT Programs  \* functions from bit positions to instructions

VARIABLES prog, pc, r, m, z, c

flatVars == <<prog, pc, r, m, z, c>>

Ins == prog[pc]

Holds(i) ==
  CASE i.test = "z" -> z[i.cond]
    [] i.test = "nz" -> ~z[i.cond]
    [] i.test = "c" -> c[i.cond]
    [] i.test = "nc" -> ~c[i.cond]
    [] i.test = "always" -> TRUE

rw(a) == m[a] + 256 * m[a + 1]

Address(o) ==
  CASE o.type = "mem" /\ o.mode = "imm" -> o.val
    [] o.type = "mem" /\ o.mode = "reg" -> r[o.reg]
    [] OTHER -> o.val + r[o.reg]

Value(o) ==
  CASE o.type = "reg" -> r[o.reg]
    [] o.type = "imm" -> o.val
    [] o.type = "mem" -> rw(Address(o))
    [] o.type = "obf" -> BitXor(rw(Address(o)), Mask(o.val, r[o.reg], o.obf))

sw(a, v) == m' = [m EXCEPT ![a] = Low(v), ![a + 1] = High(v)] /\ UNCHANGED r

Assign(o, v) ==
  CASE o.type = "reg" -> r' = [r EXCEPT ![o.reg] = v] /\ UNCHANGED m
    [] o.type = "mem" -> sw(Address(o), v)
    [] o.type = "obf" -> sw(Address(o), BitXor(v, Mask(o.val, r[o.reg], o.obf)))

NextPc == WrapPosition(pc + Size(Ins))

Init ==
  /\ prog \in Programs
  /\ pc = 0
  /\ r \in [0 .. 13 -> Word]
  /\ z = [k \in {0, 1} |-> FALSE]
  /\ c = [k \in {0, 1} |-> FALSE]

SetZ(v) == z' = IF Ins.uf THEN [z EXCEPT ![Ins.cond] = (v = 0)] ELSE z

Logic ==
  LET v == CASE Ins.op = "and" -> BitAnd(Value(Ins.dst), Value(Ins.src))
             [] Ins.op = "or" -> BitOr(Value(Ins.dst), Value(Ins.src))
             [] Ins.op = "neg" -> Complement(Value(Ins.dst))
  IN /\ Ins.op \in {"and", "or", "neg"} /\ Holds(Ins)
     /\ Assign(Ins.dst, v)
     /\ SetZ(v)
     /\ pc' = NextPc
     /\ UNCHANGED <<prog, c>>

Shift ==
  LET v == Value(Ins.dst)
  IN /\ Ins.op = "shift" /\ Holds(Ins)
     /\ Assign(Ins.dst, IF Ins.right THEN Shr(v, Ins.count) ELSE Shl(v, Ins.count))
     /\ IF Ins.uf
          THEN /\ c' = [c EXCEPT ![Ins.cond] = (LastShifted(Ins.right, v, Ins.count) = 1)]
               /\ \E b \in BOOLEAN : z' = [z EXCEPT ![Ins.cond] = b]
          ELSE UNCHANGED <<c, z>>
     /\ pc' = NextPc
     /\ UNCHANGED prog

Mov ==
  /\ Ins.op = "mov" /\ Holds(Ins)
  /\ Assign(Ins.dst, Value(Ins.src))
  /\ pc' = NextPc
  /\ UNCHANGED <<prog, z, c>>

Jmp ==
  /\ Ins.op = "jmp" /\ Holds(Ins)
  /\ pc' = IF ~Absolute(Ins) THEN Relative(Ins, NextPc)
           ELSE WrapPosition(8 * Ins.dst.val + Ins.bits)
  /\ UNCHANGED <<prog, r, m, z, c>>

\* The condition of the instruction does not hold.
Skip ==
  /\ Ins.op # "end" /\ ~Holds(Ins)
  /\ pc' = NextPc
  /\ UNCHANGED <<prog, r, m, z, c>>

Next == Logic \/ Shift \/ Mov \/ Jmp \/ Skip

Spec == Init /\ [][Next]_flatVars
=============================================================================
