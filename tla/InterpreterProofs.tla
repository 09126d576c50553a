-------------------------- MODULE InterpreterProofs --------------------------
(***************************************************************************)
(* An instruction that waits for a page has left no trace, whatever the    *)
(* program, the memory and the registers; a program such as the layers are *)
(* computes what the C program that vmdisas.rb generates for it does;      *)
(* words stay words; five slots are enough for an instruction, unless an   *)
(* operand is a word across two pages; and a return goes back to its call. *)
(***************************************************************************)
EXTENDS Interpreter, WellFoundedInduction, FiniteSetTheorems, TLAPS

\* What this needs of a program: save_dest works out the address of an obfuscated
\* destination again when the flags are already those of the result, and r15 has gone
\* on from the first operand of an "and" or an "or" to the second by then.
NoDestAlongR15 ==
  \A program \in Programs : \A p \in DOMAIN program :
    program[p].op \in {"and", "or"} /\ program[p].dst.type = "obf" => program[p].dst.reg # 15

ASSUME ProgramsAssumption == NoDestAlongR15

\* The program counter stays on the code that is modelled.
RunsItsCode == stage = "start" => pos \in DOMAIN prog

-----------------------------------------------------------------------------
(* The inductive invariant.                                                *)

ShapeOK ==
  /\ prog \in Programs
  /\ DOMAIN regs = 0 .. 14 /\ regs = [k \in 0 .. 14 |-> regs[k]]
  /\ \E S : ops \in Seq(S)
  /\ stage \in {"start", "running", "blocked", "halted", "strayed"}
  /\ stage \in {"start", "blocked"} => ops = <<>>
  /\ stage = "running" => saved.pos \in DOMAIN prog

\* All that an instruction has changed while it runs is the program counter and the
\* stack pointer, the latter by a mov.
OnlySP ==
  stage = "running" =>
    /\ before = [pos |-> saved.pos, regs |-> [regs EXCEPT ![14] = saved.sp],
                 flags |-> flags, mem |-> mem, frame |-> frame]
    /\ Ins.op # "mov" => regs[14] = saved.sp

\* The page of the result has been touched when the flags change.
Updating == Ins.op \in {"and", "or", "neg", "shift"}

DestOK ==
  stage = "running" /\ ops # <<>> /\ Updating =>
    /\ Dest = Ins.dst
    /\ DestPage \subseteq touched

IInv == ShapeOK /\ OnlySP /\ DestOK /\ NoTrace

-----------------------------------------------------------------------------
LEMMA AppendIs ==
  ASSUME NEW S, NEW s \in Seq(S), NEW e
  PROVE  /\ \E T : Append(s, e) \in Seq(T)
         /\ s = <<>> => Append(s, e)[1] = e
         /\ s # <<>> => Append(s, e)[1] = s[1]
<1>1. s \in Seq(S \cup {e})
  OBVIOUS
<1> QED
  BY <1>1

LEMMA InitIsSafe == Init => IInv
  BY RegistersAssumption DEF Init, IInv, ShapeOK, OnlySP, DestOK, NoTrace

LEMMA BeginKeeps == ASSUME IInv, RunsItsCode, Begin PROVE IInv'
<1>1. ShapeOK'
  BY DEF Begin, Starting, RunsItsCode, IInv, ShapeOK
<1>2. OnlySP'
  BY DEF Begin, Starting, IInv, ShapeOK, OnlySP, Now, SP
<1>3. DestOK'
  BY DEF Begin, Starting, IInv, ShapeOK, DestOK
<1>4. NoTrace'
  BY DEF Begin, NoTrace
<1> QED
  BY <1>1, <1>2, <1>3, <1>4 DEF IInv

LEMMA BeginFaultKeeps == ASSUME IInv, BeginFault PROVE IInv'
  BY DEF BeginFault, Starting, IInv, ShapeOK, OnlySP, DestOK, NoTrace, Now

LEMMA ServeKeeps == ASSUME IInv, Serve PROVE IInv'
  BY DEF Serve, IInv, ShapeOK, OnlySP, DestOK, NoTrace

LEMMA FirstHalf ==
  ASSUME mem' = PushedByte
  PROVE  /\ DOMAIN mem' = DOMAIN mem
         /\ \A a \in DOMAIN mem : mem'[a] # mem[a] => a \in {Slot(2), Wrap(Slot(2) + 1)}
  BY DEF PushedByte, Pushed, Stored

\* sub_41da brings back the state that the run has started from.
LEMMA FaultKeeps ==
  ASSUME IInv, stage = "running", NEW pages, NEW rs, Fault(pages, rs),
         [rs EXCEPT ![14] = saved.sp] = [regs EXCEPT ![14] = saved.sp],
         UNCHANGED flags,
         UNCHANGED mem \/ (Ins.op = "call" /\ mem' = PushedByte)
  PROVE  IInv'
<1>1. /\ stage' = "blocked" /\ pos' = saved.pos /\ ops' = <<>> /\ regs' = [regs EXCEPT ![14] = saved.sp]
      /\ UNCHANGED <<prog, frame, saved, before>>
  BY DEF Fault
<1>2. before = [pos |-> saved.pos, regs |-> [regs EXCEPT ![14] = saved.sp],
                flags |-> flags, mem |-> mem, frame |-> frame]
  BY DEF IInv, OnlySP
<1>3. Ins' = Ins
  BY <1>1 DEF Ins, Origin
<1>4. [Now EXCEPT !.mem = before.mem]' = before'
  BY <1>1, <1>2 DEF Now
<1>5. ASSUME NEW a \in DOMAIN mem', mem'[a] # before'.mem[a]
      PROVE  Ins'.op = "call" /\ a \in {Slot(2)', Wrap(Slot(2)' + 1)}
  <2>1. Ins.op = "call" /\ mem' = PushedByte
    BY <1>1, <1>2, <1>5
  <2>2. regs' = regs
    BY <1>1, <2>1 DEF IInv, OnlySP, ShapeOK
  <2>3. Slot(2)' = Slot(2)
    BY <1>1, <2>2 DEF Slot, SP
  <2> QED
    BY <1>1, <1>2, <1>3, <1>5, <2>1, <2>3, FirstHalf
<1>6. NoTrace'
  BY <1>4, <1>5 DEF NoTrace
<1>7. ShapeOK'
  <2>1. ops' \in Seq({})
    BY <1>1
  <2>2. DOMAIN regs' = 0 .. 14 /\ regs' = [k \in 0 .. 14 |-> regs'[k]]
    BY <1>1 DEF IInv, ShapeOK
  <2> QED
    BY <1>1, <2>1, <2>2 DEF IInv, ShapeOK
<1> QED
  BY <1>1, <1>6, <1>7 DEF IInv, OnlySP, DestOK

LEMMA DecodeOperandKeeps == ASSUME IInv, DecodeOperand PROVE IInv'
<1>1. /\ stage = "running" /\ Len(ops) < Len(Operands(Ins))
      /\ pos' = OperandEnd /\ touched' = touched \cup OperandPages
      /\ UNCHANGED <<prog, flags, mem, frame, saved, stage, before, calls>>
  BY DEF DecodeOperand, Decoding
<1>2. regs' = IF Pushing THEN [regs EXCEPT ![14] = Wrap(@ - 2)] ELSE regs
  BY DEF DecodeOperand
<1>3. PICK e : /\ ops' = Append(ops, e)
               /\ e.o = Operand
               /\ e.addr = LET addr == IF Operand.type = "mem" THEN Address(Operand, OperandEnd)
                                       ELSE Operand.val
                           IN IF Pushing THEN Wrap(addr - 2) ELSE addr
  BY DEF DecodeOperand
<1>4. PICK S : ops \in Seq(S)
  BY DEF IInv, ShapeOK
<1>5. Ins' = Ins
  BY <1>1 DEF Ins, Origin
<1>6. ShapeOK'
  <2>1. \E T : ops' \in Seq(T)
    BY <1>3, <1>4, AppendIs
  <2> QED
    BY <1>1, <1>2, <2>1 DEF IInv, ShapeOK
<1>7. OnlySP'
  <2>1. Ins.op # "mov" => ~Pushing
    BY DEF Pushing
  <2> QED
    BY <1>1, <1>2, <1>5, <2>1 DEF IInv, OnlySP, ShapeOK
<1>8. DestOK'
  <2> SUFFICES ASSUME Updating
               PROVE  Dest' = Ins.dst /\ DestPage' \subseteq touched'
    BY <1>5 DEF DestOK, Updating
  <2>1. ~Pushing /\ regs' = regs /\ ~Popping /\ ~Popping'
    BY <1>2, <1>5 DEF Updating, Pushing, Popping
  <2>2. RegsAtSave = regs /\ RegsAtSave' = regs
    BY <2>1 DEF RegsAtSave
  <2>3. CASE ops = <<>>
    <3>1. Operand = Ins.dst
      BY <2>3, <1>1 DEF Operand, Operands, Updating
    <3>2. Dest' = Ins.dst
      BY <1>3, <1>4, <2>3, <3>1, AppendIs DEF Dest
    <3>3. ops'[1].addr = IF Ins.dst.type = "mem" THEN Address(Ins.dst, pos') ELSE Ins.dst.val
      BY <1>1, <1>3, <1>4, <2>1, <2>3, <3>1, AppendIs
    <3>4. DestReg' = Reg(Ins.dst.reg, pos')
      BY <3>2, <2>2 DEF DestReg, Reg
    <3>5. InMemory(Ins.dst) => DestAddress' = Address(Ins.dst, pos')
      BY <3>2, <3>3, <3>4 DEF DestAddress, InMemory, Address
    <3>6. DataPages(Ins.dst, pos') \subseteq touched'
      BY <1>1, <3>1 DEF OperandPages
    <3> QED
      BY <3>2, <3>5, <3>6 DEF DestPage, DataPages, AccessPages
  <2>4. CASE ops # <<>>
    <3>1. Dest = Ins.dst /\ DestPage \subseteq touched
      BY <1>1, <2>4 DEF IInv, DestOK
    <3>2. ops'[1] = ops[1]
      BY <1>3, <1>4, <2>4, AppendIs
    <3>3. Ins.op \in {"and", "or"}
      BY <1>1, <1>4, <2>4 DEF Operands, Updating
    <3>4. Ins.dst.type = "obf" => Ins.dst.reg # 15
      <4>1. prog \in Programs /\ saved.pos \in DOMAIN prog
        BY <1>1 DEF IInv, ShapeOK
      <4> QED
        BY <1>1, <3>3, <4>1, ProgramsAssumption DEF NoDestAlongR15, Ins, Origin
    <3>5. InMemory(Ins.dst) => DestAddress' = DestAddress
      BY <2>2, <3>1, <3>2, <3>4 DEF DestAddress, DestReg, Dest, InMemory
    <3> QED
      BY <1>1, <3>1, <3>2, <3>5 DEF DestPage, Dest
  <2> QED
    BY <2>3, <2>4
<1>9. NoTrace'
  BY <1>1 DEF NoTrace
<1> QED
  BY <1>6, <1>7, <1>8, <1>9 DEF IInv

LEMMA OperandFaultKeeps == ASSUME IInv, OperandFault PROVE IInv'
  BY FaultKeeps DEF OperandFault, Decoding

LEMMA ExecuteFaultKeeps == ASSUME IInv, ExecuteFault PROVE IInv'
<1>1. /\ stage = "running" /\ Ins.op \in {"and", "or", "neg", "shift", "mov"}
      /\ Len(ops) = Len(Operands(Ins)) /\ ~(DestPage \subseteq touched)
      /\ Fault(DestPage, RegsAtSave) /\ flags' = FlagsAfter /\ UNCHANGED mem
  BY DEF ExecuteFault, Computing, Decoded, Fault
<1>2. ops # <<>>
  BY <1>1, SMTT(30) DEF Operands
<1>3. Ins.op = "mov"
  BY <1>1, <1>2 DEF IInv, DestOK, Updating
<1>4. flags' = flags
  BY <1>1, <1>3 DEF FlagsAfter
<1>5. [RegsAtSave EXCEPT ![14] = saved.sp] = [regs EXCEPT ![14] = saved.sp]
  BY DEF RegsAtSave, IInv, ShapeOK
<1> QED
  BY <1>1, <1>4, <1>5, FaultKeeps

LEMMA CallFaultKeeps == ASSUME IInv, CallFault PROVE IInv'
<1>1. stage = "running" /\ Ins.op = "call" /\ UNCHANGED flags
  BY DEF CallFault, Calling, Decoded
<1>2. [RegsAfterCall EXCEPT ![14] = saved.sp] = [regs EXCEPT ![14] = saved.sp]
  BY DEF RegsAfterCall, IInv, ShapeOK
<1> QED
  BY <1>1, <1>2, FaultKeeps DEF CallFault

LEMMA ReturnFaultKeeps == ASSUME IInv, ReturnFault PROVE IInv'
  BY FaultKeeps DEF ReturnFault, Decoded

LEMMA DoneKeeps ==
  ASSUME IInv, Done, DOMAIN regs' = 0 .. 14 /\ regs' = [k \in 0 .. 14 |-> regs'[k]]
  PROVE  IInv'
  BY DEF Done, IInv, ShapeOK, OnlySP, DestOK, NoTrace

LEMMA ExecuteKeeps == ASSUME IInv, Execute PROVE IInv'
  BY DoneKeeps DEF Execute, RegsAtSave, IInv, ShapeOK

LEMMA OthersKeep == ASSUME IInv, Skip \/ Jump \/ Call \/ Return PROVE IInv'
  BY DoneKeeps DEF Skip, Jump, Call, Return, RegsAfterCall, IInv, ShapeOK

\* The steps after which the interpreter is not followed any longer.
LEMMA StrayIs ==
  ASSUME StrayStore \/ StrayCall \/ StrayReturn
  PROVE  /\ stage = "running" /\ stage' = "strayed"
         /\ UNCHANGED <<prog, pos, regs, flags, mem, frame, saved, ops, touched, before, calls>>
  BY DEF StrayStore, StrayCall, StrayReturn, Computing, Calling, Decoded, Strays

LEMMA StrayKeeps == ASSUME IInv, StrayStore \/ StrayCall \/ StrayReturn PROVE IInv'
  BY StrayIs DEF IInv, ShapeOK, OnlySP, DestOK, NoTrace

LEMMA NextKeeps == ASSUME IInv, RunsItsCode, [Next]_vars PROVE IInv'
<1>1. CASE UNCHANGED vars
  <2>1. Ins' = Ins /\ Now' = Now /\ DestPage' = DestPage /\ Dest' = Dest /\ Slot(2)' = Slot(2)
    BY <1>1 DEF vars, Ins, Origin, Now, DestPage, Dest, DestAddress, DestReg, RegsAtSave, Popping, Slot, SP
  <2> QED
    BY <1>1, <2>1 DEF vars, IInv, ShapeOK, OnlySP, DestOK, NoTrace, Updating
<1> QED
  BY <1>1, BeginKeeps, BeginFaultKeeps, ServeKeeps, DecodeOperandKeeps, OperandFaultKeeps,
     ExecuteKeeps, ExecuteFaultKeeps, OthersKeep, CallFaultKeeps, ReturnFaultKeeps, StrayKeeps DEF Next

\* A fault in the middle of an instruction, after it has updated the flags, popped its source
\* or pushed half a frame, brings back the state in which it has started: sub_41da restores
\* no more than the program counter and the stack pointer, but that is enough.
THEOREM FaultsLeaveNoTrace == Spec /\ []RunsItsCode => []NoTrace
<1>1. Init => IInv
  BY InitIsSafe
<1>2. IInv /\ RunsItsCode /\ [Next]_vars => IInv'
  BY NextKeeps
<1>3. IInv => NoTrace
  BY DEF IInv
<1> QED
  BY <1>1, <1>2, <1>3, PTL DEF Spec

-----------------------------------------------------------------------------
(***************************************************************************)
(* The sums of the widths.                                                 *)
(***************************************************************************)

LEMMA LeastNumber ==
  ASSUME NEW T, T \subseteq Nat, T # {}
  PROVE  \E x \in T : \A y \in T : x <= y
<1>1. PICK x \in T : \A y \in T : <<y, x>> \notin OpToRel(<, Nat)
  BY NatLessThanWellFounded, WFMin, Zenon
<1>2. \A y \in T : ~(y < x)
  BY <1>1 DEF OpToRel
<1> QED
  BY <1>2

\* f[n] is the sum of the first n widths.
SumsTo(w, f, m) == f = [n \in 0 .. m |-> IF n = 0 THEN 0 ELSE f[n - 1] + w[n]]

LEMMA SumsExist ==
  ASSUME NEW w, NEW n \in Nat
  PROVE  \E f : SumsTo(w, f, n)
<1> DEFINE Bad == {m \in Nat : ~\E f : SumsTo(w, f, m)}
<1>1. SUFFICES ASSUME Bad # {} PROVE FALSE
  OBVIOUS
<1>2. PICK m \in Bad : \A y \in Bad : m <= y
  BY <1>1, LeastNumber
<1>3. CASE m = 0
  <2> DEFINE f == [i \in 0 .. 0 |-> 0]
  <2>1. f = [i \in 0 .. 0 |-> IF i = 0 THEN 0 ELSE f[i - 1] + w[i]]
    OBVIOUS
  <2>2. SumsTo(w, f, 0)
    BY <2>1 DEF SumsTo
  <2> QED
    BY <1>2, <1>3, <2>2
<1>4. CASE m # 0
  <2>0. m \in Nat /\ m >= 1 /\ m - 1 \in Nat /\ m - 1 \notin Bad
    BY <1>2, <1>4
  <2>1. PICK f : SumsTo(w, f, m - 1)
    BY <2>0
  <2> DEFINE g == [i \in 0 .. m |-> IF i = m THEN f[m - 1] + w[m] ELSE f[i]]
  <2>2. \A i \in 0 .. m - 1 : g[i] = f[i]
    BY <2>0
  <2>3. ASSUME NEW i \in 0 .. m
        PROVE  g[i] = IF i = 0 THEN 0 ELSE g[i - 1] + w[i]
    <3>1. CASE i = m
      <4>1. g[i] = f[m - 1] + w[m] /\ g[m - 1] = f[m - 1]
        BY <2>0, <2>2, <3>1
      <4> QED
        BY <2>0, <3>1, <4>1
    <3>2. CASE i # m
      <4>1. i \in 0 .. m - 1 /\ g[i] = f[i]
        BY <2>0, <2>2, <3>2
      <4>2. f[i] = IF i = 0 THEN 0 ELSE f[i - 1] + w[i]
        BY <2>1, <4>1 DEF SumsTo
      <4>3. i # 0 => g[i - 1] = f[i - 1]
        BY <2>0, <2>2, <4>1
      <4> QED
        BY <4>1, <4>2, <4>3
    <3> QED
      BY <3>1, <3>2
  <2>4. SumsTo(w, g, m)
    BY <2>3 DEF SumsTo
  <2> QED
    BY <1>2, <2>4
<1> QED
  BY <1>3, <1>4

LEMMA BitsIs ==
  ASSUME NEW S, NEW w \in Seq(S)
  PROVE  \E f : SumsTo(w, f, Len(w)) /\ Bits(w) = f[Len(w)]
<1>1. \E f : SumsTo(w, f, Len(w))
  BY SumsExist
<1>2. SumsTo(w, CHOOSE f : SumsTo(w, f, Len(w)), Len(w))
  BY <1>1
<1>3. Bits(w) = (CHOOSE f : SumsTo(w, f, Len(w)))[Len(w)]
  BY DEF Bits, SumsTo
<1> QED
  BY <1>2, <1>3

\* Two sums of the same numbers are one number.
LEMMA SumsAgree ==
  ASSUME NEW v \in Seq(Nat), NEW w \in Seq(Nat), NEW n \in Nat, n <= Len(v), n <= Len(w),
         \A k \in 1 .. n : v[k] = w[k],
         NEW f, SumsTo(v, f, Len(v)), NEW g, SumsTo(w, g, Len(w))
  PROVE  f[n] = g[n] /\ f[n] \in Nat
<1> DEFINE Bad == {m \in 0 .. n : ~(f[m] = g[m] /\ f[m] \in Nat)}
<1>1. SUFFICES ASSUME Bad # {} PROVE FALSE
  BY SMTT(30)
<1>2. PICK m \in Bad : \A y \in Bad : m <= y
  <2>1. Bad \subseteq Nat
    OBVIOUS
  <2> QED
    BY <1>1, <2>1, LeastNumber
<1>3. Len(v) \in Nat /\ Len(w) \in Nat /\ m \in 0 .. Len(v) /\ m \in 0 .. Len(w)
  BY <1>2
<1>4. /\ f[m] = IF m = 0 THEN 0 ELSE f[m - 1] + v[m]
      /\ g[m] = IF m = 0 THEN 0 ELSE g[m - 1] + w[m]
  BY <1>3 DEF SumsTo
<1>5. CASE m = 0
  BY <1>2, <1>4, <1>5
<1>6. CASE m # 0
  <2>1. m - 1 \in 0 .. n /\ m - 1 \notin Bad /\ m \in 1 .. n /\ m \in 1 .. Len(v)
    BY <1>2, <1>3, <1>6
  <2>2. f[m - 1] = g[m - 1] /\ f[m - 1] \in Nat /\ v[m] = w[m] /\ v[m] \in Nat
    BY <2>1
  <2> QED
    BY <1>2, <1>4, <1>6, <2>2, SMTT(30)
<1> QED
  BY <1>5, <1>6

LEMMA BitsAppend ==
  ASSUME NEW w \in Seq(Nat), NEW e \in Nat
  PROVE  Bits(Append(w, e)) = Bits(w) + e /\ Bits(w) \in Nat
<1> DEFINE v == Append(w, e)
<1>1. v \in Seq(Nat) /\ Len(v) = Len(w) + 1 /\ v[Len(v)] = e /\ Len(w) \in Nat
      /\ \A k \in 1 .. Len(w) : v[k] = w[k]
  OBVIOUS
<1> HIDE DEF v
<1>2. PICK f : SumsTo(v, f, Len(v)) /\ Bits(v) = f[Len(v)]
  BY <1>1, BitsIs
<1>3. PICK g : SumsTo(w, g, Len(w)) /\ Bits(w) = g[Len(w)]
  BY BitsIs
<1>4. f[Len(w)] = g[Len(w)] /\ f[Len(w)] \in Nat
  <2>1. Len(w) \in Nat /\ Len(w) <= Len(v) /\ Len(w) <= Len(w) /\ v \in Seq(Nat)
    BY <1>1
  <2>2. \A k \in 1 .. Len(w) : v[k] = w[k]
    BY <1>1
  <2>3. SumsTo(v, f, Len(v)) /\ SumsTo(w, g, Len(w))
    BY <1>2, <1>3
  <2> QED
    BY <2>1, <2>2, <2>3, SumsAgree
<1>5. f[Len(v)] = f[Len(v) - 1] + v[Len(v)]
  <2>1. Len(v) \in 0 .. Len(v) /\ Len(v) # 0
    BY <1>1
  <2> QED
    BY <1>2, <2>1 DEF SumsTo
<1>6. Len(v) - 1 = Len(w)
  BY <1>1
<1>7. Bits(v) = Bits(w) + e /\ Bits(w) \in Nat
  BY <1>1, <1>2, <1>3, <1>4, <1>5, <1>6
<1> QED
  BY <1>7 DEF v

LEMMA BitsOfNone == Bits(<<>>) = 0
<1>1. <<>> \in Seq(Nat) /\ Len(<<>>) = 0
  OBVIOUS
<1>2. PICK f : SumsTo(<<>>, f, 0) /\ Bits(<<>>) = f[0]
  BY <1>1, BitsIs
<1> QED
  BY <1>2 DEF SumsTo

\* Two widths more.
LEMMA BitsOfTwo ==
  ASSUME NEW w \in Seq(Nat), NEW a \in Nat, NEW b \in Nat
  PROVE  Bits(w \o <<a, b>>) = Bits(w) + Bits(<<a, b>>)
<1>1. <<>> \in Seq(Nat) /\ <<a>> \in Seq(Nat) /\ Append(w, a) \in Seq(Nat)
  OBVIOUS
<1>2. <<a>> = Append(<<>>, a) /\ <<a, b>> = Append(<<a>>, b)
  OBVIOUS
<1>3. w \o <<a, b>> = Append(Append(w, a), b)
  OBVIOUS
<1>4. Bits(<<a, b>>) = a + b
  <2>1. Bits(<<a>>) = 0 + a
    BY <1>1, <1>2, BitsAppend, BitsOfNone, Zenon
  <2>2. Bits(<<a, b>>) = Bits(<<a>>) + b
    BY <1>1, <1>2, BitsAppend, Zenon
  <2> QED
    BY <2>1, <2>2
<1>5. Bits(Append(Append(w, a), b)) = Bits(w) + a + b
  <2>1. Bits(Append(Append(w, a), b)) = Bits(Append(w, a)) + b
    BY <1>1, BitsAppend, Zenon
  <2>2. Bits(Append(w, a)) = Bits(w) + a
    BY BitsAppend, Zenon
  <2> QED
    BY <2>1, <2>2
<1>6. Bits(w) \in Nat
  BY BitsAppend
<1>7. Bits(w \o <<a, b>>) = Bits(w) + a + b
  BY <1>3, <1>5, Zenon
<1>8. \A x \in Nat : x + a + b = x + (a + b)
  OBVIOUS
<1> QED
  BY <1>4, <1>6, <1>7, <1>8, Zenon

-----------------------------------------------------------------------------
(***************************************************************************)
(* The C program that vmdisas.rb generates for a layer does what the       *)
(* interpreter does.                                                       *)
(***************************************************************************)

\* What vmdisas.rb translates, as the layers have it: words, registers below the stack
\* pointer, the flags z and c; a "neg" that would update the flags would clear c.
CompiledOperand(o) ==
  \/ o.type = "imm"
  \/ /\ o.size = 1
     /\ \/ o.type \in {"reg", "obf"} /\ o.reg \in 0 .. 13
        \/ o.type = "mem" /\ o.mode = "imm"
        \/ o.type = "mem" /\ o.mode \in {"reg", "index"} /\ o.reg \in 0 .. 13

CompiledInstruction(i) ==
  /\ i.op \in {"and", "or", "neg", "shift", "mov", "jmp", "end"}
  /\ i.cond \in {0, 1} /\ i.test \in {"z", "nz", "c", "nc", "always"} /\ i.uf \in BOOLEAN
  /\ i.op = "neg" => ~i.uf
  /\ \A k \in DOMAIN Operands(i) : CompiledOperand(Operands(i)[k])
  /\ Operands(i) # <<>> => (i.dst.type = "imm" <=> i.op = "jmp")

CompiledProgram(program) ==
  /\ DOMAIN program \subseteq Nat
  /\ \A p \in DOMAIN program : CompiledInstruction(program[p])

Compiled == \A program \in Programs : CompiledProgram(program)

\* The words that the C program reads and writes are in its array m, of 65536 bytes, and
\* none lies across two pages.
InM(a) == a \in Nat /\ a < 65535 /\ a % 16 # 15

StaysInM ==
  stage = "running" =>
    \A k \in DOMAIN Operands(Ins) :
      InMemory(Operands(Ins)[k]) => InM(Flat!Address(Operands(Ins)[k]))

\* Where the decoder is, and what it has decoded.
Sizes(n) == Bits([k \in 1 .. n |-> Bits(OperandWidths(Operands(Ins)[k]))])

DecodedOK(k) ==
  LET o == Operands(Ins)[k]
  IN /\ ops[k].o = o
     /\ ops[k].value = Flat!Value(o)
     /\ ops[k].addr = IF o.type = "mem" THEN Flat!Address(o) ELSE o.val

RunOK ==
  stage = "running" =>
    /\ Ins.op # "end"
    /\ Len(ops) <= Len(Operands(Ins))
    /\ pos = WrapPosition(saved.pos + Bits(Widths) + Sizes(Len(ops)))
    /\ \A k \in 1 .. Len(ops) : DecodedOK(k)

FlagsShape == DOMAIN flags = {0, 1} /\ flags = [k \in {0, 1} |-> flags[k]]

FInv == IInv /\ RunOK /\ FlagsShape

LEMMA BitsNat == ASSUME NEW w \in Seq(Nat) PROVE Bits(w) \in Nat
  BY BitsAppend

LEMMA WidthsNat ==
  ASSUME NEW i, CompiledInstruction(i)
  PROVE  /\ HeadWidths(i) \in Seq(Nat) /\ MoreWidths(i) \in Seq(Nat)
         /\ Bits(HeadWidths(i) \o MoreWidths(i)) = Bits(HeadWidths(i)) + Bits(MoreWidths(i))
<1>1. HeadWidths(i) \in Seq(Nat)
  BY DEF HeadWidths
<1>2. CASE i.op = "shift"
  <2>1. MoreWidths(i) = <<1, 8>>
    BY <1>2 DEF MoreWidths
  <2> QED
    BY <1>1, <2>1, BitsOfTwo
<1>3. CASE i.op = "jmp"
  <2>1. MoreWidths(i) = <<6, 3>>
    BY <1>3 DEF MoreWidths
  <2> QED
    BY <1>1, <2>1, BitsOfTwo
<1>4. CASE i.op \notin {"shift", "jmp"}
  <2>1. MoreWidths(i) = <<>>
    BY <1>4 DEF MoreWidths, CompiledInstruction
  <2>2. HeadWidths(i) \o <<>> = HeadWidths(i)
    BY <1>1
  <2>3. Bits(HeadWidths(i)) \in Nat
    BY <1>1, BitsNat
  <2>4. Bits(HeadWidths(i) \o MoreWidths(i)) = Bits(HeadWidths(i)) + Bits(MoreWidths(i))
    BY <2>1, <2>2, <2>3, BitsOfNone
  <2> QED
    BY <1>1, <2>1, <2>4
<1> QED
  BY <1>2, <1>3, <1>4

LEMMA OperandWidthsNat ==
  ASSUME NEW o, CompiledOperand(o)
  PROVE  Bits(OperandWidths(o)) \in Nat
<1>1. OperandWidths(o) \in Seq(Nat)
  BY DEF CompiledOperand, OperandWidths
<1> QED
  BY <1>1, BitsNat

LEMMA Wraps ==
  ASSUME NEW p \in Nat, NEW a \in Nat, NEW b \in Nat, NEW d \in Nat
  PROVE  /\ WrapPosition(WrapPosition(p + a + b) + d) = WrapPosition(p + a + (b + d))
         /\ WrapPosition(p + a + b) \in Nat
  BY DEF WrapPosition

\* The operands of an instruction are one or two.
LEMMA OperandsAre ==
  ASSUME NEW i
  PROVE  \E S : Operands(i) \in Seq(S)
<1>1. <<i.dst, i.src>> \in Seq({i.dst, i.src}) /\ <<i.dst>> \in Seq({i.dst}) /\ <<>> \in Seq({})
  OBVIOUS
<1> QED
  BY <1>1 DEF Operands

LEMMA RunsCompiled ==
  ASSUME Compiled, ShapeOK, stage = "running"
  PROVE  CompiledInstruction(Ins) /\ Origin = saved.pos /\ saved.pos \in Nat
  BY DEF Compiled, CompiledProgram, ShapeOK, Ins, Origin

\* One operand more, some bits further on.
LEMMA NextSize ==
  ASSUME NEW i, CompiledInstruction(i), NEW n \in Nat, n < Len(Operands(i))
  PROVE  /\ Bits([k \in 1 .. n + 1 |-> Bits(OperandWidths(Operands(i)[k]))])
            = Bits([k \in 1 .. n |-> Bits(OperandWidths(Operands(i)[k]))])
              + Bits(OperandWidths(Operands(i)[n + 1]))
         /\ Bits([k \in 1 .. n |-> Bits(OperandWidths(Operands(i)[k]))]) \in Nat
         /\ Bits(OperandWidths(Operands(i)[n + 1])) \in Nat
<1> DEFINE W(k) == Bits(OperandWidths(Operands(i)[k]))
           s == [k \in 1 .. n |-> W(k)]
           t == [k \in 1 .. n + 1 |-> W(k)]
<1>1. DOMAIN Operands(i) = 1 .. Len(Operands(i)) /\ Len(Operands(i)) \in Nat
  BY OperandsAre
<1>2. \A k \in 1 .. n + 1 : W(k) \in Nat
  <2> SUFFICES ASSUME NEW k \in 1 .. n + 1 PROVE W(k) \in Nat
    OBVIOUS
  <2>1. k \in DOMAIN Operands(i)
    BY <1>1
  <2> QED
    BY <2>1, OperandWidthsNat DEF CompiledInstruction
<1> HIDE DEF W
<1>3. s \in Seq(Nat) /\ W(n + 1) \in Nat /\ t = Append(s, W(n + 1))
  BY <1>2
<1> HIDE DEF s, t
<1>4. Bits(t) = Bits(s) + W(n + 1) /\ Bits(s) \in Nat
  BY <1>3, BitsAppend
<1> QED
  BY <1>3, <1>4 DEF s, t, W

-----------------------------------------------------------------------------
(* What the interpreter and the C program both see.                        *)

LEMMA SameWords ==
  /\ \A n : Flat!Low(n) = Low(n) /\ Flat!High(n) = High(n) /\ Flat!Complement(n) = Complement(n)
  /\ \A n : Flat!WrapPosition(n) = WrapPosition(n)
  BY DEF Flat!Low, Low, Flat!High, High, Flat!Complement, Complement, Flat!WrapPosition, WrapPosition

LEMMA SameShifts ==
  ASSUME NEW v, NEW n, NEW right
  PROVE  /\ Flat!Shl(v, n) = Shl(v, n) /\ Flat!Shr(v, n) = Shr(v, n)
         /\ Flat!LastShifted(right, v, n) = LastShifted(right, v, n)
  BY DEF Flat!Shl, Shl, Flat!Shr, Shr, Flat!LastShifted, LastShifted, Flat!Wrap, Wrap

LEMMA SameMask ==
  ASSUME NEW a, NEW k, NEW v
  PROVE  Flat!Mask(a, k, v) = Mask(a, k, v)
  BY DEF Flat!Mask, Mask, Flat!Wrap, Wrap, Flat!Low, Low, Flat!High, High

LEMMA SameSize ==
  ASSUME NEW i
  PROVE  Flat!Size(i) = Size(i)
  BY DEF Flat!Size, Size, Flat!Bits, Bits, Flat!HeadWidths, HeadWidths, Flat!MoreWidths, MoreWidths,
         Flat!Operands, Operands, Flat!OperandWidths, OperandWidths, Flat!Absolute, Absolute

LEMMA SameTarget ==
  ASSUME NEW i, NEW p
  PROVE  Flat!Relative(i, p) = Relative(i, p) /\ (Flat!Absolute(i) <=> Absolute(i))
  BY DEF Flat!Relative, Relative, Flat!WrapPosition, WrapPosition, Flat!Absolute, Absolute

LEMMA SameRegister ==
  ASSUME NEW k \in 0 .. 13, NEW p
  PROVE  Reg(k, p) = regs[k] /\ [n \in 0 .. 13 |-> regs[n]][k] = regs[k]
  BY DEF Reg

LEMMA SameValue ==
  ASSUME NEW o, NEW p, CompiledOperand(o), InMemory(o) => InM(Flat!Address(o))
  PROVE  /\ Value(o, p) = Flat!Value(o)
         /\ InMemory(o) => Address(o, p) = Flat!Address(o)
<1>0. \A n : InM(n) => Wrap(n) = n /\ Wrap(n + 1) = n + 1
  BY DEF Wrap, InM
<1>1. ASSUME InMemory(o) PROVE Address(o, p) = Flat!Address(o)
  <2>1. CASE o.type = "mem" /\ o.mode = "imm"
    BY <2>1 DEF Address, Flat!Address
  <2>2. CASE o.type = "mem" /\ o.mode = "reg"
    <3>1. o.reg \in 0 .. 13
      BY <2>2 DEF CompiledOperand
    <3>2. Address(o, p) = Reg(o.reg, p)
      BY <2>2 DEF Address
    <3>3. Flat!Address(o) = [n \in 0 .. 13 |-> regs[n]][o.reg]
      BY <2>2 DEF Flat!Address
    <3> QED
      BY <3>1, <3>2, <3>3, SameRegister
  <2>3. CASE ~(o.type = "mem" /\ o.mode = "imm") /\ ~(o.type = "mem" /\ o.mode = "reg")
    <3>1. o.reg \in 0 .. 13
      BY <1>1, <2>3 DEF CompiledOperand, InMemory
    <3>2. Address(o, p) = Wrap(o.val + Reg(o.reg, p))
      BY <2>3 DEF Address
    <3>3. Flat!Address(o) = o.val + [n \in 0 .. 13 |-> regs[n]][o.reg]
      BY <2>3 DEF Flat!Address
    <3> QED
      BY <1>0, <1>1, <3>1, <3>2, <3>3, SameRegister
  <2> QED
    BY <2>1, <2>2, <2>3
<1>2. CASE o.type = "imm"
  BY <1>2 DEF Value, Flat!Value, InMemory
<1>3. CASE o.type = "reg"
  <2>1. o.reg \in 0 .. 13
    BY <1>3 DEF CompiledOperand
  <2>2. Value(o, p) = Reg(o.reg, p) /\ Flat!Value(o) = [n \in 0 .. 13 |-> regs[n]][o.reg]
    BY <1>3 DEF Value, Flat!Value
  <2> QED
    BY <1>3, <2>1, <2>2, SameRegister DEF InMemory
<1>4. CASE InMemory(o)
  <2>1. Address(o, p) = Flat!Address(o) /\ Wrap(Address(o, p) + 1) = Flat!Address(o) + 1
    BY <1>0, <1>1, <1>4
  <2>2. o.size = 1
    BY <1>4 DEF CompiledOperand, InMemory
  <2>3. Load(Address(o, p), o.size) = Flat!rw(Flat!Address(o))
    <3>1. ~Across(Flat!Address(o), o.size)
      BY <1>4 DEF InM, Across
    <3> QED
      BY <2>1, <2>2, <3>1 DEF Load, Flat!rw
  <2>4. CASE o.type = "mem"
    <3>1. Value(o, p) = Load(Address(o, p), o.size) /\ Flat!Value(o) = Flat!rw(Flat!Address(o))
      BY <2>4 DEF Value, Flat!Value
    <3> QED
      BY <2>1, <2>3, <3>1
  <2>5. CASE o.type = "obf"
    <3>1. o.reg \in 0 .. 13
      BY <2>5 DEF CompiledOperand
    <3>2. Value(o, p) = BitXor(Load(Address(o, p), o.size), Mask(o.val, Reg(o.reg, p), o.obf))
      BY <2>2, <2>5 DEF Value, Cut
    <3>3. Flat!Value(o) = BitXor(Flat!rw(Flat!Address(o)),
                                 Flat!Mask(o.val, [n \in 0 .. 13 |-> regs[n]][o.reg], o.obf))
      BY <2>5 DEF Flat!Value
    <3> QED
      BY <2>1, <2>3, <3>1, <3>2, <3>3, SameRegister, SameMask
  <2> QED
    BY <1>4, <2>4, <2>5 DEF InMemory
<1> QED
  BY <1>1, <1>2, <1>3, <1>4 DEF CompiledOperand, InMemory

LEMMA SameTest ==
  ASSUME FlagsShape, CompiledInstruction(Ins)
  PROVE  Flat!Holds(Ins) <=> Matched
  BY DEF FlagsShape, CompiledInstruction, Flat!Holds, Matched, TestFlags

\* When all its operands are decoded the program counter is behind the instruction.
LEMMA SameEnd ==
  ASSUME Compiled, FInv, Decoded
  PROVE  Flat!NextPc = pos
<1>1. CompiledInstruction(Ins) /\ Origin = saved.pos /\ saved.pos \in Nat
  BY RunsCompiled DEF FInv, IInv, Decoded
<1>2. pos = WrapPosition(saved.pos + Bits(Widths) + Sizes(Len(Operands(Ins))))
  BY DEF FInv, RunOK, Decoded
<1>3. DOMAIN Operands(Ins) = 1 .. Len(Operands(Ins))
  BY OperandsAre
<1>4. Size(Ins) = Bits(HeadWidths(Ins)) + Bits(MoreWidths(Ins)) + Sizes(Len(Operands(Ins)))
  BY <1>3 DEF Size, Sizes
<1>5. Bits(Widths) = Bits(HeadWidths(Ins)) + Bits(MoreWidths(Ins))
  BY <1>1, WidthsNat DEF Widths
<1>6. Bits(HeadWidths(Ins)) \in Nat /\ Bits(MoreWidths(Ins)) \in Nat
  BY <1>1, WidthsNat, BitsNat
<1>7. Sizes(Len(Operands(Ins))) \in Nat
  <2>1. \A k \in 1 .. Len(Operands(Ins)) : Bits(OperandWidths(Operands(Ins)[k])) \in Nat
    BY <1>1, <1>3, OperandWidthsNat DEF CompiledInstruction
  <2>2. [k \in 1 .. Len(Operands(Ins)) |-> Bits(OperandWidths(Operands(Ins)[k]))] \in Seq(Nat)
    <3>1. Len(Operands(Ins)) \in Nat
      BY OperandsAre
    <3> QED
      BY <2>1, <3>1
  <2> QED
    BY <2>2, BitsNat DEF Sizes
<1>8. saved.pos + Bits(Widths) + Sizes(Len(Operands(Ins))) = Origin + Size(Ins)
  BY <1>1, <1>4, <1>5, <1>6, <1>7
<1>9. Flat!NextPc = Flat!WrapPosition(Origin + Flat!Size(Ins))
  BY DEF Flat!NextPc, Flat!Ins, Ins
<1> QED
  BY <1>2, <1>8, <1>9, SameWords, SameSize

-----------------------------------------------------------------------------
(* The decoder.                                                            *)

LEMMA BeginRuns ==
  ASSUME Compiled, IInv, RunsItsCode, Begin
  PROVE  RunOK'
<1>1. stage = "start" /\ ops = <<>> /\ pos \in DOMAIN prog /\ prog \in Programs
  BY DEF Begin, Starting, IInv, ShapeOK, RunsItsCode
<1>2. CompiledInstruction(Ins) /\ pos \in Nat /\ Ins = prog[pos]
  BY <1>1 DEF Compiled, CompiledProgram, Ins, Origin
<1>3. /\ saved'.pos = pos /\ ops' = <<>> /\ prog' = prog /\ pos' = After(pos, Widths)
      /\ stage' = IF Ins.op = "end" THEN "halted" ELSE "running"
  BY <1>1 DEF Begin, Starting
<1> SUFFICES ASSUME stage' = "running" PROVE RunOK'
  BY DEF RunOK
<1>4. Ins' = Ins
  BY <1>2, <1>3 DEF Ins, Origin
<1>5. Widths' = Widths
  BY <1>4 DEF Widths
<1>6. Sizes(0)' = 0
  <2>1. [k \in 1 .. 0 |-> Bits(OperandWidths(Operands(Ins')[k]))] = <<>>
    OBVIOUS
  <2> QED
    BY <2>1, BitsOfNone DEF Sizes
<1>7. Bits(Widths) \in Nat
  <2>1. Bits(HeadWidths(Ins)) \in Nat /\ Bits(MoreWidths(Ins)) \in Nat
    BY <1>2, WidthsNat, BitsNat
  <2> QED
    BY <1>2, <2>1, WidthsNat DEF Widths
<1>8. pos' = WrapPosition(saved'.pos + Bits(Widths') + 0)
  BY <1>2, <1>3, <1>5, <1>7 DEF After
<1>9. Ins'.op # "end" /\ Len(ops') = 0 /\ 0 <= Len(Operands(Ins'))
  <2>1. Len(Operands(Ins)) \in Nat
    BY OperandsAre
  <2> QED
    BY <1>3, <1>4, <2>1
<1> QED
  BY <1>6, <1>8, <1>9 DEF RunOK

LEMMA DecodeOperandRuns ==
  ASSUME Compiled, FInv, StaysInM, DecodeOperand
  PROVE  RunOK' /\ regs' = regs
<1>1. /\ stage = "running" /\ Len(ops) < Len(Operands(Ins))
      /\ pos' = OperandEnd
      /\ UNCHANGED <<prog, flags, mem, frame, saved, stage>>
  BY DEF DecodeOperand, Decoding
<1>2. CompiledInstruction(Ins) /\ Origin = saved.pos /\ saved.pos \in Nat
  BY <1>1, RunsCompiled DEF FInv, IInv
<1>3. Ins' = Ins
  BY <1>1 DEF Ins, Origin
<1>4. PICK S : ops \in Seq(S)
  BY DEF FInv, IInv, ShapeOK
<1>5. PICK n : n = Len(ops)
  OBVIOUS
<1>6. DOMAIN Operands(Ins) = 1 .. Len(Operands(Ins)) /\ Len(Operands(Ins)) \in Nat /\ n \in Nat
  BY <1>4, <1>5, OperandsAre
<1>7. /\ n + 1 \in DOMAIN Operands(Ins) /\ Operand = Operands(Ins)[n + 1]
      /\ CompiledOperand(Operand) /\ (InMemory(Operand) => InM(Flat!Address(Operand)))
  <2>1. n + 1 \in DOMAIN Operands(Ins) /\ Operand = Operands(Ins)[n + 1]
    BY <1>1, <1>5, <1>6 DEF Operand
  <2> QED
    BY <1>1, <1>2, <2>1 DEF CompiledInstruction, StaysInM
<1>8. ~Pushing /\ regs' = regs
  <2>1. ~OnStack(Operand)
    BY <1>7 DEF CompiledOperand, OnStack
  <2> QED
    BY <2>1 DEF DecodeOperand, Pushing
<1>9. PICK e : /\ ops' = Append(ops, e)
               /\ e.o = Operand
               /\ e.value = Value(Operand, OperandEnd)
               /\ e.addr = IF Operand.type = "mem" THEN Address(Operand, OperandEnd) ELSE Operand.val
  BY <1>8 DEF DecodeOperand
<1>10. Len(ops') = n + 1 /\ ops'[n + 1] = e /\ \A k \in 1 .. n : ops'[k] = ops[k]
  BY <1>4, <1>5, <1>9
<1>11. pos' = WrapPosition(saved'.pos + Bits(Widths') + Sizes(n + 1)')
  <2>1. pos = WrapPosition(saved.pos + Bits(Widths) + Sizes(n))
    BY <1>1, <1>5 DEF FInv, RunOK
  <2>2. Bits(Widths) \in Nat
    <3>1. Bits(HeadWidths(Ins)) \in Nat /\ Bits(MoreWidths(Ins)) \in Nat
      BY <1>2, WidthsNat, BitsNat
    <3> QED
      BY <1>2, <3>1, WidthsNat DEF Widths
  <2>3. /\ Sizes(n + 1) = Sizes(n) + Bits(OperandWidths(Operand))
        /\ Sizes(n) \in Nat /\ Bits(OperandWidths(Operand)) \in Nat
    <3>1. n < Len(Operands(Ins))
      BY <1>1, <1>5
    <3> QED
      BY <1>2, <1>6, <1>7, <3>1, NextSize DEF Sizes
  <2>4. pos' = WrapPosition(WrapPosition(saved.pos + Bits(Widths) + Sizes(n)) + Bits(OperandWidths(Operand)))
    BY <1>1, <2>1 DEF OperandEnd, After
  <2>5. pos' = WrapPosition(saved.pos + Bits(Widths) + Sizes(n + 1))
    BY <1>2, <2>2, <2>3, <2>4, Wraps
  <2>6. Widths' = Widths /\ Sizes(n + 1)' = Sizes(n + 1)
    BY <1>3 DEF Widths, Sizes
  <2> QED
    BY <1>1, <2>5, <2>6
<1>12. \A o : Flat!Value(o)' = Flat!Value(o) /\ Flat!Address(o)' = Flat!Address(o)
  BY <1>1, <1>8 DEF Flat!Value, Flat!Address, Flat!rw
<1>13. ASSUME NEW k \in 1 .. n + 1
       PROVE  DecodedOK(k)'
  <2>1. CASE k \in 1 .. n
    <3>1. DecodedOK(k)
      BY <1>1, <1>5, <2>1 DEF FInv, RunOK
    <3> QED
      BY <1>3, <1>10, <1>12, <2>1, <3>1 DEF DecodedOK
  <2>2. CASE k = n + 1
    <3>1. /\ Value(Operand, OperandEnd) = Flat!Value(Operand)
          /\ Operand.type = "mem" => Address(Operand, OperandEnd) = Flat!Address(Operand)
      BY <1>7, SameValue DEF InMemory
    <3> QED
      BY <1>3, <1>7, <1>9, <1>10, <1>12, <2>2, <3>1 DEF DecodedOK
  <2> QED
    BY <1>6, <2>1, <2>2
<1>14. Ins'.op # "end" /\ n + 1 <= Len(Operands(Ins'))
  BY <1>1, <1>3, <1>5, <1>6 DEF FInv, RunOK
<1> QED
  BY <1>8, <1>10, <1>11, <1>13, <1>14 DEF RunOK

\* The other steps end the run of the instruction, or have not begun it.
LEMMA OthersRun ==
  ASSUME FInv, BeginFault \/ Serve \/ OperandFault \/ Execute \/ ExecuteFault \/ Skip \/ Jump
               \/ Call \/ CallFault \/ Return \/ ReturnFault \/ StrayStore \/ StrayCall \/ StrayReturn
  PROVE  RunOK'
<1>1. stage' \in {"start", "blocked", "strayed"}
  BY DEF BeginFault, Serve, OperandFault, Execute, ExecuteFault, Skip, Jump, Call, CallFault,
         Return, ReturnFault, Fault, Done, StrayStore, StrayCall, StrayReturn, Strays
<1> QED
  BY <1>1 DEF RunOK

LEMMA StutterRuns == ASSUME FInv, UNCHANGED vars PROVE RunOK'
<1>1. UNCHANGED <<prog, pos, regs, flags, mem, saved, ops, stage>>
  BY DEF vars
<1>2. Ins' = Ins
  BY <1>1 DEF Ins, Origin
<1>3. \A n : Sizes(n)' = Sizes(n)
  BY <1>2 DEF Sizes
<1>4. \A o : Flat!Value(o)' = Flat!Value(o) /\ Flat!Address(o)' = Flat!Address(o)
  BY <1>1 DEF Flat!Value, Flat!Address, Flat!rw
<1>5. \A k : DecodedOK(k)' <=> DecodedOK(k)
  BY <1>1, <1>2, <1>4 DEF DecodedOK
<1> QED
  BY <1>1, <1>2, <1>3, <1>5 DEF FInv, RunOK, Widths

LEMMA FlagsKeepShape == ASSUME FlagsShape, [Next]_vars PROVE FlagsShape'
<1>1. CASE flags' = flags
  BY <1>1 DEF FlagsShape
<1>2. ASSUME NEW new, flags' = UpdatedFlags(Ins, new) PROVE FlagsShape'
  BY <1>2 DEF FlagsShape, UpdatedFlags
<1>3. CASE Computing /\ flags' = FlagsAfter
  BY <1>1, <1>2, <1>3 DEF FlagsAfter, Computing
<1> QED
  BY <1>1, <1>3 DEF Next, vars, Begin, BeginFault, Serve, DecodeOperand, OperandFault, Execute,
     ExecuteFault, Skip, Jump, Call, CallFault, Return, ReturnFault, StrayStore, StrayCall,
     StrayReturn, Strays

LEMMA FInvInit == Init => FInv
<1>1. Init => IInv
  BY InitIsSafe
<1>2. Init => RunOK /\ FlagsShape
  BY DEF Init, RunOK, FlagsShape
<1> QED
  BY <1>1, <1>2 DEF FInv

LEMMA FInvNext == ASSUME Compiled, FInv, RunsItsCode, StaysInM, [Next]_vars PROVE FInv'
<1>1. IInv'
  BY NextKeeps DEF FInv
<1>2. RunOK'
  BY BeginRuns, DecodeOperandRuns, OthersRun, StutterRuns DEF FInv, Next
<1>3. FlagsShape'
  BY FlagsKeepShape DEF FInv
<1> QED
  BY <1>1, <1>2, <1>3 DEF FInv

-----------------------------------------------------------------------------
(* What the C program does at each step.                                   *)

LEMMA FlatInit == Init => Flat!Init
<1> SUFFICES ASSUME Init PROVE Flat!Init
  OBVIOUS
<1>1. Origin = 0 /\ prog \in Programs
  BY DEF Init, Origin
<1>2. regs \in [0 .. 14 -> Word]
  BY RegistersAssumption DEF Init
<1>3. [k \in 0 .. 13 |-> regs[k]] \in [0 .. 13 -> Flat!Word]
  <2>1. Flat!Word = Word
    BY DEF Flat!Word, Word
  <2>2. \A k \in 0 .. 13 : k \in 0 .. 14
    OBVIOUS
  <2> QED
    BY <1>2, <2>1, <2>2, Zenon
<1>4. /\ [k \in {0, 1} |-> "Z" \in flags[k]] = [k \in {0, 1} |-> FALSE]
      /\ [k \in {0, 1} |-> "C" \in flags[k]] = [k \in {0, 1} |-> FALSE]
  <2>1. \A k \in {0, 1} : ("Z" \in flags[k]) = FALSE /\ ("C" \in flags[k]) = FALSE
    BY DEF Init
  <2> QED
    BY <2>1, Zenon
<1> QED
  BY <1>1, <1>3, <1>4, Zenon DEF Flat!Init

LEMMA Unseen ==
  ASSUME prog' = prog, Origin' = Origin, mem' = mem, flags' = flags,
         \A k \in 0 .. 13 : regs'[k] = regs[k]
  PROVE  UNCHANGED Flat!flatVars
  BY DEF Flat!flatVars

LEMMA FaultUnseen ==
  ASSUME stage = "running", NEW pages, NEW rs, Fault(pages, rs), UNCHANGED <<flags, mem>>,
         \A k \in 0 .. 13 : rs[k] = regs[k], DOMAIN rs = 0 .. 14
  PROVE  UNCHANGED Flat!flatVars
<1>1. prog' = prog /\ stage' = "blocked" /\ pos' = saved.pos /\ regs' = [rs EXCEPT ![14] = saved.sp]
  BY DEF Fault
<1>2. Origin' = Origin
  BY <1>1 DEF Origin
<1>3. \A k \in 0 .. 13 : regs'[k] = regs[k]
  BY <1>1
<1> QED
  BY <1>1, <1>2, <1>3, Unseen

\* The result of an instruction that the C program has, and where it goes.
LEMMA ResultIs ==
  ASSUME Compiled, FInv, Decoded, Matched
  PROVE  /\ CompiledInstruction(Ins) /\ Ins.op # "end" /\ Flat!Holds(Ins) /\ Flat!NextPc = pos
         /\ ~Popping /\ RegsAtSave = regs
         /\ Operands(Ins) # <<>> => /\ Dest = Ins.dst
                                    /\ CompiledOperand(Ins.dst)
                                    /\ ops[1].value = Flat!Value(Ins.dst)
                                    /\ ops[1].addr = IF Ins.dst.type = "mem" THEN Flat!Address(Ins.dst)
                                                     ELSE Ins.dst.val
         /\ Ins.op \in {"and", "or", "mov"} => ops[2].value = Flat!Value(Ins.src)
<1>1. CompiledInstruction(Ins) /\ stage = "running" /\ Len(ops) = Len(Operands(Ins))
  BY RunsCompiled DEF FInv, IInv, Decoded
<1>2. Flat!Holds(Ins) /\ Flat!NextPc = pos
  BY <1>1, SameTest, SameEnd DEF FInv
<1>3. Ins.op # "end" /\ \A k \in 1 .. Len(ops) : DecodedOK(k)
  BY <1>1 DEF FInv, RunOK
<1>4. ASSUME Operands(Ins) # <<>>
      PROVE  Dest = Ins.dst /\ CompiledOperand(Ins.dst) /\ DecodedOK(1) /\ Operands(Ins)[1] = Ins.dst
  <2>1. Operands(Ins)[1] = Ins.dst /\ 1 \in 1 .. Len(ops) /\ 1 \in DOMAIN Operands(Ins)
    BY <1>1, <1>4 DEF Operands
  <2> QED
    BY <1>1, <1>3, <2>1 DEF DecodedOK, Dest, CompiledInstruction
<1>5. ASSUME Ins.op \in {"and", "or", "mov"}
      PROVE  ops[2].value = Flat!Value(Ins.src) /\ ops[2].o = Ins.src /\ CompiledOperand(Ins.src)
  <2>1. Operands(Ins)[2] = Ins.src /\ 2 \in 1 .. Len(ops) /\ 2 \in DOMAIN Operands(Ins)
    BY <1>1, <1>5 DEF Operands
  <2> QED
    BY <1>1, <1>3, <2>1 DEF DecodedOK, CompiledInstruction
<1>6. ~Popping
  BY <1>5 DEF Popping, OnStack, CompiledOperand
<1> QED
  BY <1>1, <1>2, <1>3, <1>4, <1>5, <1>6 DEF DecodedOK, RegsAtSave

LEMMA Assigned ==
  ASSUME Compiled, FInv, StaysInM, Execute
  PROVE  Flat!Assign(Ins.dst, Result) /\ pos' = Flat!NextPc /\ Origin' = Flat!NextPc
<1>1. /\ Decoded /\ Matched /\ Ins.op \in {"and", "or", "neg", "shift", "mov"}
      /\ stage = "running" /\ stage' = "start"
  BY DEF Execute, Computing, Decoded, Done
<1>2. Operands(Ins) # <<>>
  BY <1>1 DEF Operands
<1>3. /\ CompiledInstruction(Ins) /\ Flat!NextPc = pos /\ RegsAtSave = regs /\ Dest = Ins.dst
      /\ CompiledOperand(Ins.dst)
      /\ ops[1].addr = IF Ins.dst.type = "mem" THEN Flat!Address(Ins.dst) ELSE Ins.dst.val
  BY <1>1, <1>2, ResultIs
<1>4. Ins.dst.type \in {"reg", "mem", "obf"} /\ Ins.dst.size = 1
  BY <1>1, <1>2, <1>3 DEF CompiledInstruction, CompiledOperand
<1>5. DOMAIN regs = 0 .. 14
  BY DEF FInv, IInv, ShapeOK
<1>6. DestMerged = Result
  BY <1>3, <1>4 DEF DestMerged
<1>7. Ins.dst.type \in {"reg", "obf"} => Ins.dst.reg \in 0 .. 13 /\ DestReg = regs[Ins.dst.reg]
  BY <1>3, <1>4 DEF CompiledOperand, DestReg
<1>8. pos' = pos
  <2>1. ~(Ins.dst.type = "reg" /\ Ins.dst.reg = 15)
    BY <1>7
  <2> QED
    BY <1>3, <2>1 DEF Execute
<1>9. Origin' = pos
  BY <1>1, <1>8 DEF Origin
<1>10. CASE Ins.dst.type = "reg"
  <2>1. regs' = [regs EXCEPT ![Ins.dst.reg] = Result] /\ mem' = mem
    BY <1>3, <1>6, <1>7, <1>10 DEF Execute
  <2>2. [k \in 0 .. 13 |-> regs'[k]] = [[k \in 0 .. 13 |-> regs[k]] EXCEPT ![Ins.dst.reg] = Result]
    <3>1. \A k \in 0 .. 13 : k \in DOMAIN regs
      BY <1>5
    <3>2. \A k \in 0 .. 13 : regs'[k] = IF k = Ins.dst.reg THEN Result ELSE regs[k]
      BY <2>1, <3>1, Zenon
    <3> HIDE DEF Result
    <3> QED
      BY <1>7, <1>10, <3>2
  <2> QED
    BY <1>3, <1>8, <1>9, <1>10, <2>1, <2>2 DEF Flat!Assign
<1>11. CASE Ins.dst.type \in {"mem", "obf"}
  <2>1. InM(Flat!Address(Ins.dst))
    <3>1. Operands(Ins)[1] = Ins.dst /\ 1 \in DOMAIN Operands(Ins)
      BY <1>1, <1>2 DEF Operands
    <3> QED
      BY <1>1, <1>11, <3>1 DEF StaysInM, InMemory
  <2>2. Wrap(Flat!Address(Ins.dst)) = Flat!Address(Ins.dst)
        /\ Wrap(Flat!Address(Ins.dst) + 1) = Flat!Address(Ins.dst) + 1
    BY <2>1 DEF InM, Wrap
  <2>3. DestAddress = Flat!Address(Ins.dst)
    <3>1. CASE Ins.dst.type = "mem"
      BY <1>3, <3>1 DEF DestAddress
    <3>2. CASE Ins.dst.type = "obf"
      <4>1. DestAddress = Wrap(Ins.dst.val + regs[Ins.dst.reg])
        BY <1>3, <1>7, <3>2 DEF DestAddress
      <4>2. Flat!Address(Ins.dst) = Ins.dst.val + regs[Ins.dst.reg]
        BY <1>7, <3>2 DEF Flat!Address
      <4> QED
        BY <2>2, <4>1, <4>2
    <3> QED
      BY <1>11, <3>1, <3>2
  <2>4. \A v : Stored(mem, DestAddress, 1, v)
                 = [mem EXCEPT ![Flat!Address(Ins.dst)] = Flat!Low(v),
                               ![Flat!Address(Ins.dst) + 1] = Flat!High(v)]
    <3> SUFFICES ASSUME NEW v
                 PROVE  Stored(mem, DestAddress, 1, v)
                          = [mem EXCEPT ![Flat!Address(Ins.dst)] = Flat!Low(v),
                                        ![Flat!Address(Ins.dst) + 1] = Flat!High(v)]
      OBVIOUS
    <3>1. Stored(mem, DestAddress, 1, v)
            = [mem EXCEPT ![DestAddress] = Low(v), ![Wrap(DestAddress + 1)] = High(v)]
      BY DEF Stored
    <3>2. Flat!Low(v) = Low(v) /\ Flat!High(v) = High(v)
      BY SameWords
    <3> QED
      BY <2>2, <2>3, <3>1, <3>2
  <2>5. regs' = regs
    BY <1>3, <1>11 DEF Execute
  <2>6. CASE Ins.dst.type = "mem"
    <3>1. mem' = Stored(mem, DestAddress, 1, Result)
      BY <1>3, <1>4, <2>6 DEF Execute
    <3> QED
      BY <1>3, <1>8, <1>9, <2>4, <2>5, <2>6, <3>1 DEF Flat!Assign, Flat!sw
  <2>7. CASE Ins.dst.type = "obf"
    <3>1. mem' = Stored(mem, DestAddress, 1, BitXor(Result, Mask(Ins.dst.val, regs[Ins.dst.reg], Ins.dst.obf)))
      BY <1>3, <1>4, <1>7, <2>7 DEF Execute
    <3>2. Flat!Mask(Ins.dst.val, [k \in 0 .. 13 |-> regs[k]][Ins.dst.reg], Ins.dst.obf)
            = Mask(Ins.dst.val, regs[Ins.dst.reg], Ins.dst.obf)
      BY <1>7, <2>7, SameMask
    <3> QED
      BY <1>3, <1>8, <1>9, <2>4, <2>5, <2>7, <3>1, <3>2 DEF Flat!Assign, Flat!sw
  <2> QED
    BY <1>11, <2>6, <2>7
<1> QED
  BY <1>4, <1>10, <1>11

\* The flags, as the C program has them.
LEMMA FlagsSet ==
  ASSUME FlagsShape, CompiledInstruction(Ins), NEW new, flags' = UpdatedFlags(Ins, new)
  PROVE  /\ [k \in {0, 1} |-> "Z" \in flags'[k]]
              = IF Ins.uf THEN [[k \in {0, 1} |-> "Z" \in flags[k]] EXCEPT ![Ins.cond] = ("Z" \in new)]
                ELSE [k \in {0, 1} |-> "Z" \in flags[k]]
         /\ [k \in {0, 1} |-> "C" \in flags'[k]]
              = IF Ins.uf THEN [[k \in {0, 1} |-> "C" \in flags[k]] EXCEPT ![Ins.cond] = ("C" \in new)]
                ELSE [k \in {0, 1} |-> "C" \in flags[k]]
<1>1. CASE ~Ins.uf
  BY <1>1 DEF UpdatedFlags
<1>2. CASE Ins.uf
  <2>1. \A k \in {0, 1} : flags'[k] = IF k = Ins.cond THEN new ELSE flags[k]
    BY <1>2 DEF UpdatedFlags, FlagsShape
  <2>2. ASSUME NEW e
        PROVE  [k \in {0, 1} |-> e \in flags'[k]]
                 = [[k \in {0, 1} |-> e \in flags[k]] EXCEPT ![Ins.cond] = (e \in new)]
    <3>1. ASSUME NEW k \in {0, 1}
          PROVE  (e \in flags'[k]) = IF k = Ins.cond THEN e \in new ELSE e \in flags[k]
      BY <2>1, Zenon
    <3> QED
      BY <3>1, Zenon
  <2> QED
    BY <1>2, <2>2, Zenon
<1> QED
  BY <1>1, <1>2

LEMMA ExecuteIsFlat ==
  ASSUME Compiled, FInv, StaysInM, Execute
  PROVE  Flat!Next
<1>1. /\ Decoded /\ Matched /\ Ins.op \in {"and", "or", "neg", "shift", "mov"}
      /\ flags' = FlagsAfter /\ prog' = prog
  BY DEF Execute, Computing, Done
<1>2. Flat!Assign(Ins.dst, Result) /\ pos' = Flat!NextPc /\ Origin' = Flat!NextPc
  BY Assigned
<1>3. Operands(Ins) # <<>>
  BY <1>1 DEF Operands
<1>4. /\ CompiledInstruction(Ins) /\ Flat!Holds(Ins) /\ ops[1].value = Flat!Value(Ins.dst)
      /\ Ins.op \in {"and", "or", "mov"} => ops[2].value = Flat!Value(Ins.src)
  BY <1>1, <1>3, ResultIs
<1>5. Flat!Ins = Ins
  BY DEF Flat!Ins, Ins
<1> DEFINE v == CASE Flat!Ins.op = "and" -> BitAnd(Flat!Value(Flat!Ins.dst), Flat!Value(Flat!Ins.src))
                  [] Flat!Ins.op = "or" -> BitOr(Flat!Value(Flat!Ins.dst), Flat!Value(Flat!Ins.src))
                  [] Flat!Ins.op = "neg" -> Flat!Complement(Flat!Value(Flat!Ins.dst))
<1>6. CASE Ins.op = "mov"
  <2>1. Result = Flat!Value(Ins.src) /\ flags' = flags
    BY <1>1, <1>4, <1>6 DEF Result, FlagsAfter
  <2>2. Flat!Assign(Flat!Ins.dst, Flat!Value(Flat!Ins.src))
    BY <1>2, <1>5, <2>1 DEF Flat!Assign, Flat!sw
  <2>3. Flat!Mov
    BY <1>1, <1>2, <1>4, <1>5, <1>6, <2>1, <2>2 DEF Flat!Mov
  <2> QED
    BY <2>3 DEF Flat!Next
<1>7. CASE Ins.op \in {"and", "or"}
  <2>1. Result = IF Ins.op = "and" THEN BitAnd(Flat!Value(Ins.dst), Flat!Value(Ins.src))
                 ELSE BitOr(Flat!Value(Ins.dst), Flat!Value(Ins.src))
    BY <1>4, <1>7 DEF Result
  <2> DEFINE new == (flags[Ins.cond] \ {"Z"}) \cup Flags(Result = 0, FALSE, FALSE)
  <2>2. flags' = UpdatedFlags(Ins, new)
    BY <1>1, <1>7 DEF FlagsAfter
  <2>3. ("Z" \in new) = (Result = 0) /\ ("C" \in new) = ("C" \in flags[Ins.cond])
    BY DEF Flags
  <2> HIDE DEF new
  <2>4. [k \in {0, 1} |-> "Z" \in flags'[k]]
          = IF Ins.uf THEN [[k \in {0, 1} |-> "Z" \in flags[k]] EXCEPT ![Ins.cond] = (Result = 0)]
            ELSE [k \in {0, 1} |-> "Z" \in flags[k]]
    <3>1. [k \in {0, 1} |-> "Z" \in flags'[k]]
            = IF Ins.uf THEN [[k \in {0, 1} |-> "Z" \in flags[k]] EXCEPT ![Ins.cond] = ("Z" \in new)]
              ELSE [k \in {0, 1} |-> "Z" \in flags[k]]
      BY <1>4, <2>2, FlagsSet DEF FInv
    <3> QED
      BY <2>3, <3>1, Zenon
  <2>5. [k \in {0, 1} |-> "C" \in flags'[k]] = [k \in {0, 1} |-> "C" \in flags[k]]
    <3>1. \A k \in {0, 1} : ("C" \in flags'[k]) = ("C" \in flags[k])
      BY <2>2, <2>3 DEF UpdatedFlags, FInv, FlagsShape
    <3> QED
      BY <3>1, Zenon
  <2>6. Flat!SetZ(Result)
    BY <1>5, <2>4 DEF Flat!SetZ
  <2>7. v = Result
    BY <1>5, <1>7, <2>1
  <2>8. Flat!Assign(Flat!Ins.dst, v) /\ Flat!SetZ(v)
    BY <1>2, <1>5, <2>6, <2>7 DEF Flat!Assign, Flat!sw, Flat!SetZ
  <2>9. Flat!Logic
    BY <1>1, <1>2, <1>4, <1>5, <1>7, <2>5, <2>8 DEF Flat!Logic
  <2> QED
    BY <2>9 DEF Flat!Next
<1>8. CASE Ins.op = "neg"
  <2>1. Result = Flat!Complement(Flat!Value(Ins.dst)) /\ ~Ins.uf
    BY <1>4, <1>8, SameWords DEF Result, CompiledInstruction
  <2>2. flags' = flags
    BY <1>1, <1>8, <2>1 DEF FlagsAfter, UpdatedFlags
  <2>3. v = Result
    BY <1>5, <1>8, <2>1
  <2>4. Flat!Assign(Flat!Ins.dst, v) /\ Flat!SetZ(v)
    BY <1>2, <1>5, <2>1, <2>2, <2>3 DEF Flat!Assign, Flat!sw, Flat!SetZ
  <2>5. Flat!Logic
    BY <1>1, <1>2, <1>4, <1>5, <1>8, <2>2, <2>4 DEF Flat!Logic
  <2> QED
    BY <2>5 DEF Flat!Next
<1>9. CASE Ins.op = "shift"
  <2> DEFINE last == LastShifted(Ins.right, ops[1].value, Ins.count) = 1
             new == Flags(TRUE, last, FALSE)
             w == IF Flat!Ins.right THEN Flat!Shr(Flat!Value(Flat!Ins.dst), Flat!Ins.count)
                  ELSE Flat!Shl(Flat!Value(Flat!Ins.dst), Flat!Ins.count)
             ShiftFlags ==
               IF Flat!Ins.uf
                 THEN /\ [k \in {0, 1} |-> "C" \in flags'[k]]
                           = [[k \in {0, 1} |-> "C" \in flags[k]] EXCEPT
                                ![Flat!Ins.cond] = (Flat!LastShifted(Flat!Ins.right, Flat!Value(Flat!Ins.dst),
                                                                     Flat!Ins.count) = 1)]
                      /\ \E b \in BOOLEAN :
                           [k \in {0, 1} |-> "Z" \in flags'[k]]
                             = [[k \in {0, 1} |-> "Z" \in flags[k]] EXCEPT ![Flat!Ins.cond] = b]
                 ELSE /\ [k \in {0, 1} |-> "C" \in flags'[k]] = [k \in {0, 1} |-> "C" \in flags[k]]
                      /\ [k \in {0, 1} |-> "Z" \in flags'[k]] = [k \in {0, 1} |-> "Z" \in flags[k]]
  <2>1. Result = IF Ins.right THEN Flat!Shr(Flat!Value(Ins.dst), Ins.count)
                 ELSE Flat!Shl(Flat!Value(Ins.dst), Ins.count)
    BY <1>4, <1>9, SameShifts DEF Result
  <2>2. flags' = UpdatedFlags(Ins, new)
    BY <1>1, <1>9 DEF FlagsAfter
  <2>3. ("Z" \in new) = TRUE /\ ("C" \in new) = last
    BY DEF Flags
  <2> HIDE DEF new, last
  <2>4. last = (Flat!LastShifted(Ins.right, Flat!Value(Ins.dst), Ins.count) = 1)
    BY <1>4, SameShifts DEF last
  <2>6. ASSUME Ins.uf PROVE ShiftFlags
    <3>1. [k \in {0, 1} |-> "Z" \in flags'[k]]
            = [[k \in {0, 1} |-> "Z" \in flags[k]] EXCEPT ![Ins.cond] = ("Z" \in new)]
      BY <1>4, <2>2, <2>6, FlagsSet DEF FInv
    <3>2. [k \in {0, 1} |-> "C" \in flags'[k]]
            = [[k \in {0, 1} |-> "C" \in flags[k]] EXCEPT ![Ins.cond] = ("C" \in new)]
      BY <1>4, <2>2, <2>6, FlagsSet DEF FInv
    <3>3. [k \in {0, 1} |-> "C" \in flags'[k]]
            = [[k \in {0, 1} |-> "C" \in flags[k]] EXCEPT
                 ![Ins.cond] = (Flat!LastShifted(Ins.right, Flat!Value(Ins.dst), Ins.count) = 1)]
      BY <2>3, <2>4, <3>2, Zenon
    <3>4. \E b \in BOOLEAN :
            [k \in {0, 1} |-> "Z" \in flags'[k]]
              = [[k \in {0, 1} |-> "Z" \in flags[k]] EXCEPT ![Flat!Ins.cond] = b]
      BY <1>5, <2>3, <3>1, Zenon
    <3>5. Flat!Ins.uf
      BY <1>5, <2>6
    <3>6. [k \in {0, 1} |-> "C" \in flags'[k]]
            = [[k \in {0, 1} |-> "C" \in flags[k]] EXCEPT
                 ![Flat!Ins.cond] = (Flat!LastShifted(Flat!Ins.right, Flat!Value(Flat!Ins.dst),
                                                      Flat!Ins.count) = 1)]
      BY <1>5, <3>3, Zenon
    <3> QED
      BY <3>4, <3>5, <3>6, Zenon
  <2>7. ASSUME ~Ins.uf PROVE ShiftFlags
    BY <1>5, <2>2, <2>7 DEF UpdatedFlags
  <2>8. Flat!Assign(Flat!Ins.dst, w)
    BY <1>2, <1>5, <2>1 DEF Flat!Assign, Flat!sw
  <2>9. Flat!Shift
    BY <1>1, <1>2, <1>4, <1>5, <1>9, <2>6, <2>7, <2>8 DEF Flat!Shift
  <2> QED
    BY <2>9 DEF Flat!Next
<1> QED
  BY <1>1, <1>6, <1>7, <1>8, <1>9

LEMMA SkipIsFlat == ASSUME Compiled, FInv, Skip PROVE Flat!Next
<1>1. Decoded /\ stage = "running" /\ ~Matched
  BY DEF Skip, Decoded
<1>2. CompiledInstruction(Ins) /\ Ins.op # "end"
  BY <1>1, RunsCompiled DEF FInv, IInv, RunOK
<1>3. ~Flat!Holds(Ins) /\ Flat!NextPc = pos
  BY <1>1, <1>2, SameTest, SameEnd DEF FInv
<1>4. Origin' = pos /\ UNCHANGED <<prog, regs, mem, flags>>
  BY DEF Skip, Done, Origin
<1>5. Flat!Ins = Ins
  BY DEF Flat!Ins, Ins
<1>6. Flat!Skip
  BY <1>2, <1>3, <1>4, <1>5 DEF Flat!Skip
<1> QED
  BY <1>6 DEF Flat!Next

LEMMA JumpIsFlat == ASSUME Compiled, FInv, Jump PROVE Flat!Next
<1>1. Decoded /\ Matched /\ Ins.op = "jmp"
  BY DEF Jump
<1>2. CompiledInstruction(Ins) /\ Flat!Holds(Ins) /\ Flat!NextPc = pos
  BY <1>1, ResultIs
<1>3. Origin' = Target /\ UNCHANGED <<prog, regs, mem, flags>>
  BY DEF Jump, Done, Origin
<1>4. Flat!Ins = Ins
  BY DEF Flat!Ins, Ins
<1>5. Target = IF ~Flat!Absolute(Ins) THEN Flat!Relative(Ins, Flat!NextPc)
               ELSE Flat!WrapPosition(8 * Ins.dst.val + Ins.bits)
  <2>1. CASE ~Absolute(Ins)
    BY <1>2, <2>1, SameTarget DEF Target
  <2>2. CASE Absolute(Ins)
    <3>1. Operands(Ins) # <<>>
      BY <1>1, <2>2 DEF Operands
    <3>2. Ins.dst.type = "imm" /\ ops[1].value = Flat!Value(Ins.dst)
      BY <1>1, <1>2, <3>1, ResultIs DEF CompiledInstruction
    <3>3. Flat!Value(Ins.dst) = Ins.dst.val
      BY <3>2 DEF Flat!Value
    <3>4. Target = WrapPosition(8 * Ins.dst.val + Ins.bits)
      BY <2>2, <3>2, <3>3 DEF Target
    <3>5. Flat!Absolute(Ins)
      BY <2>2, SameTarget
    <3> QED
      BY <3>4, <3>5, SameWords
  <2> QED
    BY <2>1, <2>2
<1>6. Flat!Jmp
  BY <1>1, <1>2, <1>3, <1>4, <1>5 DEF Flat!Jmp
<1> QED
  BY <1>6 DEF Flat!Next

\* The decoder and the faults do not show.
LEMMA DecoderUnseen ==
  ASSUME Compiled, FInv, RunsItsCode, StaysInM, Begin \/ BeginFault \/ Serve \/ DecodeOperand
  PROVE  UNCHANGED Flat!flatVars
<1>1. UNCHANGED <<prog, flags, mem>> /\ Origin' = Origin
  BY DEF Begin, BeginFault, Starting, Serve, DecodeOperand, Decoding, Origin
<1>2. regs' = regs
  BY DecodeOperandRuns DEF Begin, BeginFault, Serve
<1> QED
  BY <1>1, <1>2, Unseen

LEMMA FaultsUnseen ==
  ASSUME Compiled, FInv, OperandFault \/ ExecuteFault
  PROVE  UNCHANGED Flat!flatVars
<1>1. DOMAIN regs = 0 .. 14
  BY DEF FInv, IInv, ShapeOK
<1>2. CASE OperandFault
  BY <1>1, <1>2, FaultUnseen DEF OperandFault, Decoding
<1>3. CASE ExecuteFault
  <2>1. /\ stage = "running" /\ Ins.op \in {"and", "or", "neg", "shift", "mov"}
        /\ Len(ops) = Len(Operands(Ins)) /\ ~(DestPage \subseteq touched)
        /\ Fault(DestPage, RegsAtSave) /\ flags' = FlagsAfter /\ UNCHANGED mem
    BY <1>3 DEF ExecuteFault, Computing, Decoded, Fault
  <2>2. ops # <<>>
    BY <2>1 DEF Operands
  <2>3. Ins.op = "mov"
    BY <2>1, <2>2 DEF FInv, IInv, DestOK, Updating
  <2>4. flags' = flags
    BY <2>1, <2>3 DEF FlagsAfter
  <2>5. RegsAtSave = regs
    BY <1>3, ResultIs DEF ExecuteFault, Computing
  <2> QED
    BY <1>1, <2>1, <2>4, <2>5, FaultUnseen
<1> QED
  BY <1>2, <1>3

\* Nothing has changed where the interpreter is not followed any longer.
LEMMA StraysUnseen ==
  ASSUME StrayStore \/ StrayCall \/ StrayReturn
  PROVE  UNCHANGED Flat!flatVars
<1>1. Origin' = Origin
  BY StrayIs DEF Origin
<1> QED
  BY <1>1, StrayIs, Unseen

\* The C program has neither.
LEMMA NoCallNoReturn ==
  ASSUME Compiled, FInv
  PROVE  ~Call /\ ~CallFault /\ ~Return /\ ~ReturnFault
<1>1. ASSUME Calling PROVE FALSE
  BY <1>1, ResultIs DEF Calling, CompiledInstruction
<1>2. ASSUME Decoded, Matched, Returning PROVE FALSE
  BY <1>2, ResultIs DEF Returning
<1> QED
  BY <1>1, <1>2 DEF Call, CallFault, Return, ReturnFault

LEMMA StepIsFlat ==
  ASSUME Compiled, FInv, RunsItsCode, StaysInM, [Next]_vars
  PROVE  [Flat!Next]_(Flat!flatVars)
<1>1. CASE UNCHANGED vars
  BY <1>1, Unseen DEF vars, Origin
<1> QED
  BY <1>1, DecoderUnseen, FaultsUnseen, StraysUnseen, NoCallNoReturn, ExecuteIsFlat, SkipIsFlat, JumpIsFlat
     DEF Next

\* On the webcam, with its pages that come and go and its instructions that are given up
\* and begun again, a layer computes what the C program generated by vmdisas.rb does
\* (bflayer*.orig.c), of which the brute force is made: each statement takes effect once,
\* as a whole, and in the same order.
THEOREM LayersRunAsTheirC ==
  ASSUME Compiled
  PROVE  Spec /\ []RunsItsCode /\ []StaysInM => FlatSpec
<1>1. Init => FInv /\ Flat!Init
  BY FInvInit, FlatInit
<1>2. FInv /\ RunsItsCode /\ StaysInM /\ [Next]_vars => FInv'
  BY FInvNext
<1>3. FInv /\ RunsItsCode /\ StaysInM /\ [Next]_vars => [Flat!Next]_(Flat!flatVars)
  BY StepIsFlat
<1> QED
  BY <1>1, <1>2, <1>3, PTL DEF Spec, FlatSpec, Flat!Spec

-----------------------------------------------------------------------------
(***************************************************************************)
(* The pages of an instruction.                                            *)
(***************************************************************************)

\* What the bits of an instruction can stand for.
EncodedOperand(o) ==
  \/ o.type = "reg"
  \/ o.type = "imm" /\ o.size \in {0, 1}
  \/ o.type = "obf"
  \/ o.type = "mem" /\ o.mode \in {"reg", "imm", "index"}

EncodedProgram(program) ==
  /\ \A p \in DOMAIN program : Position(p)
  /\ \A p \in DOMAIN program : \A k \in DOMAIN Operands(program[p]) :
       EncodedOperand(Operands(program[p])[k])

Encoded == \A program \in Programs : EncodedProgram(program)

LEMMA BitsOfOneMore ==
  ASSUME NEW w \in Seq(Nat), NEW a \in Nat
  PROVE  w \o <<a>> \in Seq(Nat) /\ Bits(w \o <<a>>) = Bits(w) + a
<1>1. w \o <<a>> = Append(w, a) /\ Append(w, a) \in Seq(Nat)
  OBVIOUS
<1> QED
  BY <1>1, BitsAppend, Zenon

LEMMA BitsOfTwoMore ==
  ASSUME NEW w \in Seq(Nat), NEW a \in Nat, NEW b \in Nat
  PROVE  w \o <<a, b>> \in Seq(Nat) /\ Bits(w \o <<a, b>>) = Bits(w) + a + b
<1>1. w \o <<a, b>> = Append(w \o <<a>>, b) /\ w \o <<a, b>> \in Seq(Nat)
  OBVIOUS
<1> QED
  <2>1. w \o <<a>> \in Seq(Nat) /\ Bits(w \o <<a>>) = Bits(w) + a
    BY BitsOfOneMore
  <2>2. Bits(Append(w \o <<a>>, b)) = Bits(w \o <<a>>) + b
    BY <2>1, BitsAppend, Zenon
  <2> QED
    BY <1>1, <2>1, <2>2, Zenon

LEMMA BitsOfThreeMore ==
  ASSUME NEW w \in Seq(Nat), NEW a \in Nat, NEW b \in Nat, NEW d \in Nat
  PROVE  w \o <<a, b, d>> \in Seq(Nat) /\ Bits(w \o <<a, b, d>>) = Bits(w) + a + b + d
<1>1. w \o <<a, b, d>> = Append(w \o <<a, b>>, d) /\ w \o <<a, b, d>> \in Seq(Nat)
  OBVIOUS
<1> QED
  <2>1. w \o <<a, b>> \in Seq(Nat) /\ Bits(w \o <<a, b>>) = Bits(w) + a + b
    BY BitsOfTwoMore
  <2>2. Bits(Append(w \o <<a, b>>, d)) = Bits(w \o <<a, b>>) + d
    BY <2>1, BitsAppend, Zenon
  <2> QED
    BY <1>1, <2>1, <2>2, Zenon

LEMMA BitsOfThese ==
  /\ <<1, 2>> \in Seq(Nat) /\ Bits(<<1, 2>>) = 3
  /\ <<1, 8>> \in Seq(Nat) /\ Bits(<<1, 8>>) = 9
  /\ <<1, 8, 3, 1>> \in Seq(Nat) /\ Bits(<<1, 8, 3, 1>>) = 13
<1>1. <<>> \in Seq(Nat) /\ Bits(<<>>) = 0
  BY BitsOfNone
<1>2. <<1>> = Append(<<>>, 1) /\ <<1, 2>> = Append(<<1>>, 2) /\ <<1, 8>> = Append(<<1>>, 8)
      /\ <<1, 8, 3>> = Append(<<1, 8>>, 3) /\ <<1, 8, 3, 1>> = Append(<<1, 8, 3>>, 1)
  OBVIOUS
<1>3. 1 \in Nat /\ 2 \in Nat /\ 3 \in Nat /\ 8 \in Nat
  OBVIOUS
<1>4. <<1>> \in Seq(Nat) /\ <<1, 8>> \in Seq(Nat) /\ <<1, 8, 3>> \in Seq(Nat)
  OBVIOUS
<1>5. Bits(<<1>>) = 0 + 1
  BY <1>1, <1>2, <1>3, BitsAppend, Zenon
<1>6. Bits(<<1, 2>>) = Bits(<<1>>) + 2 /\ Bits(<<1, 8>>) = Bits(<<1>>) + 8
  BY <1>2, <1>3, <1>4, BitsAppend, Zenon
<1>7. Bits(<<1, 8, 3>>) = Bits(<<1, 8>>) + 3
  BY <1>2, <1>3, <1>4, BitsAppend, Zenon
<1>8. Bits(<<1, 8, 3, 1>>) = Bits(<<1, 8, 3>>) + 1
  BY <1>2, <1>3, <1>4, BitsAppend, Zenon
<1> QED
  BY <1>5, <1>6, <1>7, <1>8

\* What is read before a width is part of the whole.
LEMMA PrefixBits ==
  ASSUME NEW w \in Seq(Nat), NEW n \in 0 .. Len(w)
  PROVE  Bits(SubSeq(w, 1, n)) \in Nat /\ Bits(SubSeq(w, 1, n)) <= Bits(w)
<1> DEFINE v == SubSeq(w, 1, n)
<1>1. v \in Seq(Nat) /\ Len(v) = n /\ Len(w) \in Nat /\ n \in Nat /\ n <= Len(w)
      /\ \A k \in 1 .. n : v[k] = w[k]
  OBVIOUS
<1> HIDE DEF v
<1>2. PICK f : SumsTo(v, f, Len(v)) /\ Bits(v) = f[Len(v)]
  BY <1>1, BitsIs
<1>3. PICK g : SumsTo(w, g, Len(w)) /\ Bits(w) = g[Len(w)]
  BY BitsIs
<1>4. f[n] = g[n] /\ f[n] \in Nat
  <2>1. n <= Len(v) /\ n <= Len(w)
    BY <1>1
  <2> QED
    BY <1>1, <1>2, <1>3, <2>1, SumsAgree
<1>5. g[n] <= g[Len(w)]
  <2> DEFINE Bad == {m \in n .. Len(w) : ~(g[m] \in Nat /\ g[n] <= g[m])}
  <2>1. SUFFICES ASSUME Bad # {} PROVE FALSE
    <3>1. Len(w) \in n .. Len(w)
      BY <1>1
    <3> QED
      BY <3>1
  <2>2. PICK m \in Bad : \A y \in Bad : m <= y
    <3>1. Bad \subseteq Nat
      BY <1>1
    <3> QED
      BY <2>1, <3>1, LeastNumber
  <2>3. m # n /\ m \in Nat /\ m \in 0 .. Len(w) /\ m - 1 \in n .. Len(w) /\ m \in 1 .. Len(w)
    BY <1>1, <1>4, <2>2
  <2>4. g[m - 1] \in Nat /\ g[n] <= g[m - 1]
    BY <2>2, <2>3
  <2>5. w[m] \in Nat /\ m # 0
    BY <1>1, <2>3
  <2>6. g[m] = g[m - 1] + w[m]
    BY <1>3, <2>3, <2>5 DEF SumsTo
  <2> QED
    BY <1>4, <2>2, <2>4, <2>5, <2>6
<1> QED
  BY <1>1, <1>2, <1>3, <1>4, <1>5 DEF v

\* The widths of an instruction: at most 22 bits and twice 29.
LEMMA HeadBits ==
  ASSUME NEW i
  PROVE  HeadWidths(i) \o MoreWidths(i) \in Seq(Nat) /\ Bits(HeadWidths(i) \o MoreWidths(i)) <= 22
<1> DEFINE h == HeadWidths(i)
<1>1. h \in Seq(Nat) /\ Bits(h) \in {9, 13}
  BY BitsOfThese DEF HeadWidths
<1>2. MoreWidths(i) \in {<<1, 8>>, <<6, 3>>, <<>>}
  BY DEF MoreWidths
<1> HIDE DEF h
<1>3. h \o <<1, 8>> \in Seq(Nat) /\ Bits(h \o <<1, 8>>) = Bits(h) + 1 + 8
  BY <1>1, BitsOfTwoMore
<1>4. h \o <<6, 3>> \in Seq(Nat) /\ Bits(h \o <<6, 3>>) = Bits(h) + 6 + 3
  BY <1>1, BitsOfTwoMore
<1>5. h \o <<>> = h
  BY <1>1
<1>6. h \o MoreWidths(i) \in Seq(Nat) /\ Bits(h \o MoreWidths(i)) <= 22
  <2>1. CASE MoreWidths(i) = <<1, 8>>
    BY <1>1, <1>3, <2>1
  <2>2. CASE MoreWidths(i) = <<6, 3>>
    BY <1>1, <1>4, <2>2
  <2>3. CASE MoreWidths(i) = <<>>
    BY <1>1, <1>5, <2>3
  <2> QED
    BY <1>2, <2>1, <2>2, <2>3
<1> QED
  BY <1>6 DEF h

LEMMA OperandBits ==
  ASSUME NEW o, EncodedOperand(o)
  PROVE  OperandWidths(o) \in Seq(Nat) /\ Bits(OperandWidths(o)) <= 29
<1> DEFINE start == <<1, 2>>
<1>0. start \in Seq(Nat) /\ Bits(start) = 3
  BY BitsOfThese
<1> HIDE DEF start
<1>1. CASE o.type = "reg"
  <2>1. OperandWidths(o) = start \o <<4>>
    BY <1>1 DEF OperandWidths, start
  <2>2. Bits(start \o <<4>>) = 3 + 4 /\ start \o <<4>> \in Seq(Nat)
    BY BitsOfOneMore, <1>0
  <2> QED
    BY <2>1, <2>2
<1>2. CASE o.type = "imm" /\ o.size = 0
  <2>1. OperandWidths(o) = start \o <<8>>
    BY <1>2 DEF OperandWidths, start
  <2>2. Bits(start \o <<8>>) = 3 + 8 /\ start \o <<8>> \in Seq(Nat)
    BY BitsOfOneMore, <1>0
  <2> QED
    BY <2>1, <2>2
<1>3. CASE o.type = "imm" /\ o.size = 1
  <2>1. OperandWidths(o) = start \o <<16>>
    BY <1>3 DEF OperandWidths, start
  <2>2. Bits(start \o <<16>>) = 3 + 16 /\ start \o <<16>> \in Seq(Nat)
    BY BitsOfOneMore, <1>0
  <2> QED
    BY <2>1, <2>2
<1>4. CASE o.type = "obf"
  <2>1. OperandWidths(o) = start \o <<16, 4, 6>>
    BY <1>4 DEF OperandWidths, start
  <2>2. Bits(start \o <<16, 4, 6>>) = 3 + 16 + 4 + 6 /\ start \o <<16, 4, 6>> \in Seq(Nat)
    BY BitsOfThreeMore, <1>0
  <2> QED
    BY <2>1, <2>2
<1>5. CASE o.type = "mem" /\ o.mode = "reg"
  <2>1. OperandWidths(o) = start \o <<2, 4>>
    BY <1>5 DEF OperandWidths, start
  <2>2. Bits(start \o <<2, 4>>) = 3 + 2 + 4 /\ start \o <<2, 4>> \in Seq(Nat)
    BY BitsOfTwoMore, <1>0
  <2> QED
    BY <2>1, <2>2
<1>6. CASE o.type = "mem" /\ o.mode = "imm"
  <2>1. OperandWidths(o) = start \o <<2, 16>>
    BY <1>6 DEF OperandWidths, start
  <2>2. Bits(start \o <<2, 16>>) = 3 + 2 + 16 /\ start \o <<2, 16>> \in Seq(Nat)
    BY BitsOfTwoMore, <1>0
  <2> QED
    BY <2>1, <2>2
<1>7. CASE o.type = "mem" /\ o.mode = "index"
  <2>1. OperandWidths(o) = start \o <<2, 16, 4>>
    BY <1>7 DEF OperandWidths, start
  <2>2. Bits(start \o <<2, 16, 4>>) = 3 + 2 + 16 + 4 /\ start \o <<2, 16, 4>> \in Seq(Nat)
    BY BitsOfThreeMore, <1>0
  <2> QED
    BY <2>1, <2>2
<1> QED
  BY <1>1, <1>2, <1>3, <1>4, <1>5, <1>6, <1>7 DEF EncodedOperand

\* The page where an instruction begins, and the next one.
CodePair(p) == {(p \div 8) \div 16, Wrap((p \div 8) + 16) \div 16}

OnPair(b, j) == Wrap(b + j) \div 16 \in {b \div 16, Wrap(b + 16) \div 16}

LEMMA Sixteen ==
  ASSUME NEW b \in Nat, b < 65536, NEW j \in Nat, j <= 16
  PROVE  OnPair(b, j)
<1> USE DEF OnPair
<1>1. CASE b + 16 < 65536
  <2>1. Wrap(b + j) = b + j /\ Wrap(b + 16) = b + 16
    BY <1>1 DEF Wrap
  <2>2. (b + j) \div 16 \in {b \div 16, (b + 16) \div 16}
    OBVIOUS
  <2> QED
    BY <2>1, <2>2
<1>2. CASE b + 16 >= 65536 /\ b + j < 65536
  <2>1. Wrap(b + j) = b + j
    BY <1>2 DEF Wrap
  <2>2. (b + j) \div 16 = 4095 /\ b \div 16 = 4095
    BY <1>2
  <2> QED
    BY <2>1, <2>2
<1>3. CASE b + 16 >= 65536 /\ b + j >= 65536
  <2>1. Wrap(b + j) = b + j - 65536 /\ Wrap(b + 16) = b + 16 - 65536
    BY <1>3 DEF Wrap
  <2>2. (b + j - 65536) \div 16 \in {0, 1} /\ (b + 16 - 65536) \div 16 \in {0, 1}
    BY <1>3
  <2>3. b + 16 - 65536 < 16 \/ b + 16 - 65536 >= 16
    OBVIOUS
  <2>4. b + 16 - 65536 < 16
    OBVIOUS
  <2> QED
    BY <1>3, <2>1, <2>2, <2>4
<1> QED
  BY <1>1, <1>2, <1>3

LEMMA ByteOf ==
  ASSUME NEW p, Position(p), NEW n \in Nat
  PROVE  /\ WrapPosition(p + n) \div 8 = Wrap((p \div 8) + (((p % 8) + n) \div 8))
         /\ Position(WrapPosition(p + n))
<1>1. p \in Nat /\ p < 8 * 65536
  BY DEF Position
<1>2. PICK q \in Nat, r \in 0 .. 7 : p = 8 * q + r /\ p \div 8 = q /\ p % 8 = r
  BY <1>1
<1>3. PICK u \in Nat, t \in 0 .. 7 : r + n = 8 * u + t /\ (r + n) \div 8 = u
  BY <1>2
<1>4. PICK h \in Nat, g \in Nat : q + u = 65536 * h + g /\ g < 65536 /\ (q + u) % 65536 = g
  BY <1>2, <1>3
<1>5. p + n = 524288 * h + (8 * g + t) /\ 8 * g + t < 524288
  BY <1>2, <1>3, <1>4
<1>6. (p + n) % 524288 = 8 * g + t
  BY <1>1, <1>5
<1>7. (8 * g + t) \div 8 = g
  BY <1>3, <1>4
<1>8. WrapPosition(p + n) = 8 * g + t
  BY <1>6 DEF WrapPosition
<1>9. Position(8 * g + t)
  BY <1>3, <1>4, <1>5 DEF Position
<1> QED
  BY <1>2, <1>3, <1>4, <1>7, <1>8, <1>9 DEF Wrap

LEMMA WrapTwice ==
  ASSUME NEW b \in Nat, NEW j \in Nat, NEW m \in Nat
  PROVE  /\ Wrap(Wrap(b + j) + m) = Wrap(b + (j + m))
         /\ WrapPosition(WrapPosition(b + j) + m) = WrapPosition(b + (j + m))
  BY DEF Wrap, WrapPosition

\* The bytes of an instruction are on two pages, read_nbits's one too many included.
LEMMA CodeIsNear ==
  ASSUME NEW base, Position(base), NEW s \in Nat, NEW p, p = WrapPosition(base + s),
         NEW w \in Seq(Nat), s + Bits(w) <= 109
  PROVE  CodePages(p, w) \subseteq CodePair(base)
<1>0. base \in Nat
  BY DEF Position
<1>1. Bits(w) \in Nat /\ base \in Nat /\ base < 524288
  BY BitsNat DEF Position
<1>2. ASSUME NEW k \in DOMAIN w, NEW a \in BytesRead(After(p, SubSeq(w, 1, k - 1)), w[k])
      PROVE  a \div 16 \in CodePair(base)
  <2>1. PICK n : n = Bits(SubSeq(w, 1, k - 1))
    OBVIOUS
  <2>2. n \in Nat /\ n <= Bits(w)
    <3>1. k - 1 \in 0 .. Len(w)
      OBVIOUS
    <3> QED
      BY <2>1, <3>1, PrefixBits
  <2>3. After(p, SubSeq(w, 1, k - 1)) = WrapPosition(base + (s + n))
    <3>1. After(p, SubSeq(w, 1, k - 1)) = WrapPosition(p + n)
      BY <2>1, Zenon DEF After
    <3>2. WrapPosition(WrapPosition(base + s) + n) = WrapPosition(base + (s + n))
      BY <1>0, <2>2, WrapTwice, Zenon
    <3> QED
      BY <3>1, <3>2, Zenon
  <2>4. PICK j : j = ((base % 8) + (s + n)) \div 8
    OBVIOUS
  <2>5. j \in Nat /\ j <= 14
    BY <1>1, <2>2, <2>4
  <2>6. WrapPosition(base + (s + n)) \div 8 = Wrap((base \div 8) + j)
    BY <2>2, <2>4, ByteOf
  <2>7. PICK m \in 0 .. 2 : a = Wrap((WrapPosition(base + (s + n)) \div 8) + m)
    BY <1>2, <2>3 DEF BytesRead
  <2>8. a = Wrap((base \div 8) + (j + m))
    <3>0. m \in Nat
      OBVIOUS
    <3>1. base \div 8 \in Nat
      BY <1>1
    <3>2. a = Wrap(Wrap((base \div 8) + j) + m)
      BY <2>6, <2>7
    <3> QED
      BY <2>5, <3>0, <3>1, <3>2, WrapTwice, Zenon
  <2>9. base \div 8 \in Nat /\ base \div 8 < 65536 /\ j + m \in Nat /\ j + m <= 16
    BY <1>1, <2>5
  <2>10. OnPair(base \div 8, j + m)
    BY <2>9, Sixteen
  <2> QED
    BY <2>8, <2>10, Zenon DEF CodePair, OnPair
<1> QED
  BY <1>2 DEF CodePages

-----------------------------------------------------------------------------
(* The pages that have been touched.                                       *)

\* The pages of the k-th operand, when it has been read from memory.
ReadPages(k) ==
  IF k <= Len(ops) /\ InMemory(ops[k].o) THEN AccessPages(ops[k].at, ops[k].o.size) ELSE {}

PagesOK ==
  /\ \E S : ops \in Seq(S)
  /\ stage \in {"start", "running", "blocked", "halted", "strayed"}
  /\ stage \in {"start", "blocked"} => touched = {}
  /\ stage \in {"running", "halted", "strayed"} =>
       /\ prog \in Programs /\ saved.pos \in DOMAIN prog
       /\ Len(ops) <= Len(Operands(Ins))
       /\ \A k \in 1 .. Len(ops) : ops[k].o = Operands(Ins)[k]
       /\ \E s \in Nat : s <= 22 + 29 * Len(ops) /\ pos = WrapPosition(saved.pos + s)
       /\ touched \subseteq CodePair(saved.pos) \cup ReadPages(1) \cup ReadPages(2)

PInv == prog \in Programs /\ (stage \in {"start", "blocked"} => ops = <<>>) /\ PagesOK

LEMMA PInvInit == Init => PInv
  BY DEF Init, PInv, PagesOK

LEMMA PInvBegin == ASSUME Encoded, PInv, RunsItsCode, Begin PROVE PInv'
<1>1. /\ stage = "start" /\ ops = <<>> /\ pos \in DOMAIN prog /\ prog \in Programs
      /\ saved'.pos = pos /\ ops' = <<>> /\ prog' = prog
      /\ pos' = After(pos, Widths) /\ touched' = CodePages(pos, Widths)
      /\ stage' \in {"running", "halted"}
  BY DEF Begin, Starting, PInv, RunsItsCode
<1>2. Position(pos)
  BY <1>1 DEF Encoded, EncodedProgram
<1>3. Ins' = Ins
  BY <1>1 DEF Ins, Origin
<1>4. Widths \in Seq(Nat) /\ Bits(Widths) <= 22 /\ Bits(Widths) \in Nat
  BY HeadBits, BitsNat DEF Widths
<1>5. pos = WrapPosition(pos + 0)
  BY <1>2 DEF Position, WrapPosition
<1>6. touched' \subseteq CodePair(pos)
  <2>1. 0 + Bits(Widths) <= 109
    BY <1>4
  <2> QED
    BY <1>1, <1>2, <1>4, <1>5, <2>1, CodeIsNear
<1>7. Len(ops') = 0 /\ 0 <= Len(Operands(Ins'))
  <2>1. Len(Operands(Ins)) \in Nat
    BY OperandsAre
  <2> QED
    BY <1>1, <1>3, <2>1
<1>8. pos' = WrapPosition(saved'.pos + Bits(Widths)) /\ Bits(Widths) <= 22 + 29 * 0
  BY <1>1, <1>4 DEF After
<1>9. ops' \in Seq({})
  BY <1>1
<1> QED
  BY <1>1, <1>4, <1>6, <1>7, <1>8, <1>9 DEF PInv, PagesOK

LEMMA PInvDecode == ASSUME Encoded, PInv, DecodeOperand PROVE PInv'
<1>1. /\ stage = "running" /\ Len(ops) < Len(Operands(Ins))
      /\ pos' = OperandEnd /\ touched' = touched \cup OperandPages
      /\ UNCHANGED <<prog, saved, stage>>
  BY DEF DecodeOperand, Decoding
<1>2. Ins' = Ins /\ Ins = prog[saved.pos] /\ prog \in Programs /\ saved.pos \in DOMAIN prog
  BY <1>1 DEF Ins, Origin, PInv, PagesOK
<1>3. PICK S : ops \in Seq(S)
  BY DEF PInv, PagesOK
<1>4. PICK n : n = Len(ops)
  OBVIOUS
<1>5. n \in {0, 1} /\ n + 1 \in DOMAIN Operands(Ins) /\ Operand = Operands(Ins)[n + 1]
  <2>1. Len(Operands(Ins)) \in Nat /\ Len(Operands(Ins)) <= 2 /\ DOMAIN Operands(Ins) = 1 .. Len(Operands(Ins))
    <3>1. Operands(Ins) = <<>> \/ Operands(Ins) = <<Ins.dst>> \/ Operands(Ins) = <<Ins.dst, Ins.src>>
      BY DEF Operands
    <3>2. CASE Operands(Ins) = <<>>
      BY <3>2
    <3>3. CASE Operands(Ins) = <<Ins.dst>>
      BY <3>3
    <3>4. CASE Operands(Ins) = <<Ins.dst, Ins.src>>
      BY <3>4
    <3> QED
      BY <3>1, <3>2, <3>3, <3>4
  <2> QED
    BY <1>1, <1>3, <1>4, <2>1 DEF Operand
<1>6. EncodedOperand(Operand) /\ Position(saved.pos)
  BY <1>2, <1>5 DEF Encoded, EncodedProgram
<1>7. PICK e : ops' = Append(ops, e) /\ e.o = Operand /\ e.at = Address(Operand, OperandEnd)
  BY DEF DecodeOperand
<1>8. ops' \in Seq(S \cup {e}) /\ Len(ops') = n + 1 /\ ops'[n + 1] = e /\ \A k \in 1 .. n : ops'[k] = ops[k]
  BY <1>3, <1>4, <1>7
<1>9. PICK s \in Nat : s <= 22 + 29 * n /\ pos = WrapPosition(saved.pos + s)
  BY <1>1, <1>4 DEF PInv, PagesOK
<1>10. PICK bits : bits = Bits(OperandWidths(Operand))
  OBVIOUS
<1>11. bits \in Nat /\ bits <= 29 /\ OperandWidths(Operand) \in Seq(Nat)
  BY <1>6, <1>10, OperandBits, BitsNat
<1>12. pos' = WrapPosition(saved'.pos + (s + bits)) /\ s + bits \in Nat /\ s + bits <= 22 + 29 * (n + 1)
  <2>1. saved.pos \in Nat
    BY <1>6 DEF Position
  <2>2. WrapPosition(WrapPosition(saved.pos + s) + bits) = WrapPosition(saved.pos + (s + bits))
    BY <1>11, <2>1 DEF WrapPosition
  <2>3. s + bits <= 22 + 29 * (n + 1)
    BY <1>5, <1>9, <1>11
  <2> QED
    BY <1>1, <1>9, <1>10, <1>11, <2>2, <2>3 DEF OperandEnd, After
<1>13. CodePages(pos, OperandWidths(Operand)) \subseteq CodePair(saved.pos)
  <2>1. s + Bits(OperandWidths(Operand)) <= 109
    BY <1>5, <1>9, <1>10, <1>11
  <2> QED
    BY <1>6, <1>9, <1>11, <2>1, CodeIsNear
<1>14. touched \subseteq CodePair(saved.pos) \cup ReadPages(1) \cup ReadPages(2)
  BY <1>1 DEF PInv, PagesOK
<1>15. ReadPages(n + 1)' = DataPages(Operand, OperandEnd)
  <2>1. n + 1 <= Len(ops')
    BY <1>5, <1>8
  <2> QED
    BY <1>7, <1>8, <2>1 DEF ReadPages, DataPages
<1>16. touched' \subseteq touched \cup CodePair(saved.pos) \cup ReadPages(n + 1)'
  BY <1>1, <1>13, <1>15 DEF OperandPages
<1>17. touched' \subseteq CodePair(saved'.pos) \cup ReadPages(1)' \cup ReadPages(2)'
  <2>1. CASE n = 0
    <3>1. touched \subseteq CodePair(saved.pos)
      BY <1>4, <1>14, <2>1 DEF ReadPages
    <3>2. n + 1 = 1
      BY <2>1
    <3> QED
      BY <1>1, <1>16, <3>1, <3>2
  <2>2. CASE n = 1
    <3>1. touched \subseteq CodePair(saved.pos) \cup ReadPages(1)
      BY <1>4, <1>14, <2>2 DEF ReadPages
    <3>2. ReadPages(1)' = ReadPages(1)
      BY <1>4, <1>8, <2>2 DEF ReadPages
    <3>3. n + 1 = 2
      BY <2>2
    <3> QED
      BY <1>1, <1>16, <3>1, <3>2, <3>3
  <2> QED
    BY <1>5, <2>1, <2>2
<1>18. Len(ops') <= Len(Operands(Ins')) /\ \A k \in 1 .. Len(ops') : ops'[k].o = Operands(Ins')[k]
  <2>1. \A k \in 1 .. n : ops[k].o = Operands(Ins)[k]
    BY <1>1, <1>4 DEF PInv, PagesOK
  <2>2. Len(Operands(Ins)) \in Nat
    BY OperandsAre
  <2>3. \A k \in 1 .. n + 1 : k \in 1 .. n \/ k = n + 1
    BY <1>5
  <2> QED
    BY <1>1, <1>2, <1>4, <1>5, <1>7, <1>8, <2>1, <2>2, <2>3
<1>19. \E t \in Nat : t <= 22 + 29 * Len(ops') /\ pos' = WrapPosition(saved'.pos + t)
  BY <1>8, <1>12
<1>20. \E T : ops' \in Seq(T)
  BY <1>8
<1> QED
  BY <1>1, <1>2, <1>17, <1>18, <1>19, <1>20 DEF PInv, PagesOK

LEMMA PInvOthers ==
  ASSUME PInv, BeginFault \/ Serve \/ OperandFault \/ Execute \/ ExecuteFault \/ Skip \/ Jump
               \/ Call \/ CallFault \/ Return \/ ReturnFault
  PROVE  PInv'
<1>1. stage' \in {"start", "blocked"} /\ touched' = {} /\ ops' = <<>> /\ prog' = prog
  BY DEF BeginFault, Starting, Serve, OperandFault, Execute, ExecuteFault, Skip, Jump, Call, CallFault,
         Return, ReturnFault, Fault, Done, PInv, PagesOK
<1>2. ops' \in Seq({})
  BY <1>1
<1> QED
  BY <1>1, <1>2 DEF PInv, PagesOK

LEMMA PInvNext == ASSUME Encoded, PInv, RunsItsCode, [Next]_vars PROVE PInv'
<1>1. CASE UNCHANGED vars \/ StrayStore \/ StrayCall \/ StrayReturn
  <2>1. /\ UNCHANGED <<prog, pos, saved, ops, touched>>
        /\ stage' = stage \/ (stage = "running" /\ stage' = "strayed")
    BY <1>1, StrayIs DEF vars
  <2>2. Ins' = Ins
    BY <2>1 DEF Ins, Origin
  <2>3. \A k : ReadPages(k)' = ReadPages(k)
    BY <2>1 DEF ReadPages
  <2> QED
    BY <2>1, <2>2, <2>3 DEF PInv, PagesOK
<1> QED
  BY <1>1, PInvBegin, PInvDecode, PInvOthers DEF Next

-----------------------------------------------------------------------------
(***************************************************************************)
(* Words stay words.                                                       *)
(***************************************************************************)

\* Powers of which the provers know nothing.
Powers == {2, 4, 8, 16, 32, 64, 128, 256, 512, 1024, 2048, 4096, 8192, 16384, 32768}

ASSUME PowersAssumption == \A k \in 1 .. 15 : 2^k \in Powers

\* &, | and ^ of C are operations on words, and on bytes.
BitwiseOn(numbers) ==
  \A a, b \in numbers :
    BitAnd(a, b) \in numbers /\ BitOr(a, b) \in numbers /\ BitXor(a, b) \in numbers

\* The fields of an instruction, as wide as read_nbits reads them.
WordOperand(o) ==
  /\ EncodedOperand(o)
  /\ o.size \in {0, 1} /\ o.reg \in 0 .. 15 /\ o.val \in Word /\ o.obf \in 0 .. 63

WordInstruction(i) ==
  /\ i.op \in {"and", "or", "neg", "shift", "mov", "jmp", "call", "end"}
  /\ i.cond \in {0, 1} /\ i.uf \in BOOLEAN /\ i.right \in BOOLEAN /\ i.count \in 1 .. 15
  /\ i.back \in BOOLEAN /\ i.bytes \in 0 .. 63 /\ i.bits \in 0 .. 7
  /\ \A k \in DOMAIN Operands(i) : WordOperand(Operands(i)[k])

WordProgram(program) ==
  \A p \in DOMAIN program : Position(p) /\ WordInstruction(program[p])

WordPrograms == \A program \in Programs : WordProgram(program)

LEMMA Halves ==
  ASSUME NEW v \in Word
  PROVE  v \in Int /\ Low(v) \in Byte /\ High(v) \in Byte /\ v = 256 * High(v) + Low(v)
  BY DEF Word, Low, High, Byte

LEMMA WordIsInt == ASSUME NEW v \in Word PROVE v \in Int /\ v \in Nat /\ 0 <= v /\ v <= 65535
  BY DEF Word

LEMMA WrapsToWord == ASSUME NEW n \in Int PROVE Wrap(n) \in Word
  BY DEF Wrap, Word

\* The provers are slow to place a number in so large an interval.
LEMMA Unwrapped == ASSUME NEW n \in Int, Wrap(n) = n PROVE n \in Word
  BY WrapsToWord

LEMMA Joins ==
  ASSUME NEW h \in Byte, NEW l \in Byte
  PROVE  h * 256 + l \in Word /\ l + 256 * h \in Word /\ 256 * h + l \in Word /\ l \in Word
<1>1. h \in Int /\ 0 <= h /\ h <= 255 /\ l \in Int /\ 0 <= l /\ l <= 255
  BY DEF Byte
<1>2. Wrap(256 * h + l) = 256 * h + l /\ 256 * h + l \in Int
  BY <1>1 DEF Wrap
<1>3. Wrap(l) = l
  BY <1>1 DEF Wrap
<1>4. h * 256 + l = 256 * h + l /\ l + 256 * h = 256 * h + l
  BY <1>1
<1>5. 256 * h + l \in Word
  BY <1>2, Unwrapped
<1>6. l \in Word
  BY <1>1, <1>3, Unwrapped
<1> QED
  BY <1>4, <1>5, <1>6

\* A round of calc_obf.
MaskStart(addr, obf) ==
  [r5 |-> BitXor(Wrap((obf * 64 + obf) * 16 + obf), 17997),
   r2 |-> BitXor(addr, 27704), byte |-> 0]
MaskRound(old) ==
  LET r2 == Wrap((old.r2 \div 4 + (old.r2 % 4) * 16384) + (Wrap(2 * old.r5) + old.r5 \div 32768))
      r5 == Wrap((Wrap(2 * old.r5) + old.r5 \div 32768) + 2)
      x == BitXor(r2, r5)
  IN [r5 |-> r5, r2 |-> r2, byte |-> BitXor(Low(x), High(x))]
MaskTable(addr, obf, f, n) ==
  f = [i \in 0 .. n |-> IF i = 0 THEN MaskStart(addr, obf) ELSE MaskRound(f[i - 1])]

LEMMA MaskTableExists ==
  ASSUME NEW addr, NEW obf, NEW n \in Nat
  PROVE  \E f : MaskTable(addr, obf, f, n)
<1> DEFINE Bad == {m \in Nat : ~\E f : MaskTable(addr, obf, f, m)}
<1>1. SUFFICES ASSUME Bad # {} PROVE FALSE
  OBVIOUS
<1>2. PICK m \in Bad : \A y \in Bad : m <= y
  BY <1>1, LeastNumber
<1>3. CASE m = 0
  <2> DEFINE f == [i \in 0 .. 0 |-> MaskStart(addr, obf)]
  <2>1. f = [i \in 0 .. 0 |-> IF i = 0 THEN MaskStart(addr, obf) ELSE MaskRound(f[i - 1])]
    OBVIOUS
  <2>2. MaskTable(addr, obf, f, 0)
    BY <2>1 DEF MaskTable
  <2> QED
    BY <1>2, <1>3, <2>2
<1>4. CASE m # 0
  <2>0. m \in Nat /\ m >= 1 /\ m - 1 \in Nat /\ m - 1 \notin Bad
    BY <1>2, <1>4
  <2>1. PICK f : MaskTable(addr, obf, f, m - 1)
    BY <2>0
  <2> DEFINE g == [i \in 0 .. m |-> IF i = m THEN MaskRound(f[m - 1]) ELSE f[i]]
  <2>2. \A i \in 0 .. m - 1 : g[i] = f[i]
    BY <2>0
  <2>3. ASSUME NEW i \in 0 .. m
        PROVE  g[i] = IF i = 0 THEN MaskStart(addr, obf) ELSE MaskRound(g[i - 1])
    <3>1. CASE i = m
      <4>1. g[i] = MaskRound(f[m - 1]) /\ g[m - 1] = f[m - 1]
        BY <2>0, <2>2, <3>1
      <4> QED
        BY <2>0, <3>1, <4>1
    <3>2. CASE i # m
      <4>1. i \in 0 .. m - 1 /\ g[i] = f[i]
        BY <2>0, <2>2, <3>2
      <4>2. f[i] = IF i = 0 THEN MaskStart(addr, obf) ELSE MaskRound(f[i - 1])
        BY <2>1, <4>1 DEF MaskTable
      <4>3. i # 0 => g[i - 1] = f[i - 1]
        BY <2>0, <2>2, <4>1
      <4> QED
        BY <4>1, <4>2, <4>3
    <3> QED
      BY <3>1, <3>2
  <2>4. MaskTable(addr, obf, g, m)
    BY <2>3 DEF MaskTable
  <2> QED
    BY <1>2, <2>4
<1> QED
  BY <1>3, <1>4

MaskState(o) == o.r5 \in Word /\ o.r2 \in Word /\ o.byte \in Byte

LEMMA RoundKeepsState ==
  ASSUME BitwiseOn(Word), BitwiseOn(Byte), NEW o, MaskState(o)
  PROVE  MaskState(MaskRound(o))
<1> DEFINE rol == Wrap(2 * o.r5) + o.r5 \div 32768
           ror == o.r2 \div 4 + (o.r2 % 4) * 16384
           r2 == Wrap(ror + rol)
           r5 == Wrap(rol + 2)
<1>1. rol \in Int /\ ror \in Int
  <2>1. o.r5 \in Int /\ o.r2 \in Int
    <3>1. o.r5 \in Word /\ o.r2 \in Word
      BY DEF MaskState
    <3> QED
      BY <3>1, WordIsInt
  <2>2. 2 * o.r5 \in Int /\ o.r5 \div 32768 \in Int /\ o.r2 \div 4 \in Int /\ o.r2 % 4 \in Int
    BY <2>1
  <2>3. Wrap(2 * o.r5) \in Int
    BY <2>2 DEF Wrap
  <2> QED
    BY <2>2, <2>3
<1>2. r2 \in Word /\ r5 \in Word
  BY <1>1, WrapsToWord
<1>3. MaskRound(o) = [r5 |-> r5, r2 |-> r2, byte |-> BitXor(Low(BitXor(r2, r5)), High(BitXor(r2, r5)))]
  BY DEF MaskRound
<1> HIDE DEF r2, r5
<1>4. BitXor(r2, r5) \in Word
  BY <1>2 DEF BitwiseOn
<1>5. BitXor(Low(BitXor(r2, r5)), High(BitXor(r2, r5))) \in Byte
  BY <1>4, Halves DEF BitwiseOn
<1> QED
  BY <1>2, <1>3, <1>5 DEF MaskState

LEMMA TableStates ==
  ASSUME BitwiseOn(Word), BitwiseOn(Byte), NEW addr \in Word, NEW obf \in Nat, NEW f, NEW n \in Nat,
         MaskTable(addr, obf, f, n), NEW k \in 0 .. n
  PROVE  MaskState(f[k])
<1> DEFINE Bad == {m \in 0 .. n : ~MaskState(f[m])}
<1>1. SUFFICES ASSUME Bad # {} PROVE FALSE
  OBVIOUS
<1>2. PICK m \in Bad : \A y \in Bad : m <= y
  <2>1. Bad \subseteq Nat
    OBVIOUS
  <2> QED
    BY <1>1, <2>1, LeastNumber
<1>3. CASE m = 0
  <2>1. f[0] = MaskStart(addr, obf)
    BY DEF MaskTable
  <2>2. Wrap((obf * 64 + obf) * 16 + obf) \in Word /\ 17997 \in Word /\ 27704 \in Word /\ 0 \in Byte
    <3>1. (obf * 64 + obf) * 16 + obf \in Int
      OBVIOUS
    <3>2. 0 \in Byte
      BY DEF Byte
    <3>3. 17997 \in Word /\ 27704 \in Word
      <4>1. Wrap(17997) = 17997 /\ Wrap(27704) = 27704
        BY DEF Wrap
      <4> QED
        BY <4>1, Unwrapped
    <3>4. Wrap((obf * 64 + obf) * 16 + obf) \in Word
      BY <3>1, WrapsToWord
    <3> QED
      BY <3>2, <3>3, <3>4
  <2>3. MaskState(MaskStart(addr, obf))
    BY <2>2 DEF MaskStart, MaskState, BitwiseOn
  <2> QED
    BY <1>2, <1>3, <2>1, <2>3
<1>4. CASE m # 0
  <2>1. m - 1 \in 0 .. n /\ m - 1 \notin Bad /\ m \in 0 .. n
    BY <1>2, <1>4
  <2>2. f[m] = MaskRound(f[m - 1])
    BY <1>4, <2>1 DEF MaskTable
  <2> QED
    BY <1>2, <2>1, <2>2, RoundKeepsState
<1> QED
  BY <1>3, <1>4

\* The mask of an obfuscated operand is a word.
LEMMA MaskIsWord ==
  ASSUME BitwiseOn(Word), BitwiseOn(Byte), NEW addr \in Word, NEW reg \in Word, NEW obf \in 0 .. 63
  PROVE  Mask(addr, reg, obf) \in Word
<1> DEFINE f == CHOOSE f : MaskTable(addr, obf, f, reg + 2)
<1>1. reg \in Nat /\ reg + 2 \in Nat /\ reg + 1 \in 0 .. reg + 2 /\ reg + 2 \in 0 .. reg + 2
  <2>1. reg \in Nat
    BY WordIsInt
  <2> QED
    BY <2>1
<1>2. MaskTable(addr, obf, f, reg + 2)
  BY <1>1, MaskTableExists
<1>3. Mask(addr, reg, obf) = f[reg + 2].byte * 256 + f[reg + 1].byte
  BY DEF Mask, MaskTable, MaskStart, MaskRound
<1> HIDE DEF f
<1>4. MaskState(f[reg + 2]) /\ MaskState(f[reg + 1])
  BY <1>1, <1>2, TableStates
<1>5. f[reg + 2].byte \in Byte /\ f[reg + 1].byte \in Byte
  BY <1>4 DEF MaskState
<1>6. f[reg + 2].byte * 256 + f[reg + 1].byte \in Word
  BY <1>5, Joins
<1> QED
  BY <1>3, <1>6

-----------------------------------------------------------------------------
(* The operations on words.                                                *)

LEMMA ComplementIsWord == ASSUME NEW v \in Word PROVE Complement(v) \in Word
<1>1. 65535 - v \in Int /\ Wrap(65535 - v) = 65535 - v
  BY WordIsInt DEF Wrap
<1> QED
  BY <1>1, Unwrapped DEF Complement

LEMMA ShiftsAreWords ==
  ASSUME NEW v \in Word, NEW k \in 1 .. 15
  PROVE  Shl(v, k) \in Word /\ Shr(v, k) \in Word
<1> DEFINE d == 2^k
<1>1. d \in Powers
  BY PowersAssumption, Zenon
<1>2. Shl(v, k) = Wrap(v * d) /\ Shr(v, k) = v \div d
  BY DEF Shl, Shr
<1> HIDE DEF d
<1>3. v * d \in Int /\ v \div d \in Int
  BY <1>1, WordIsInt DEF Powers
<1>4. Wrap(v \div d) = v \div d
  BY <1>1, WordIsInt DEF Wrap, Powers
<1> QED
  BY <1>2, <1>3, <1>4, Unwrapped, WrapsToWord

LEMMA CutIsWord == ASSUME NEW size, NEW v \in Word PROVE Cut(size, v) \in Word
<1>1. Low(v) \in Word
  BY Halves, Joins
<1> QED
  BY <1>1 DEF Cut

-----------------------------------------------------------------------------
(* The state.                                                              *)

MachineOK ==
  /\ Position(pos)
  /\ regs \in [0 .. 14 -> Word]
  /\ flags \in [{0, 1} -> SUBSET {"Z", "C", "S"}]
  /\ mem \in [Word -> Byte]
  /\ frame.addr \in Word /\ frame.obf \in 0 .. 63

SavedOK == Position(saved.pos) /\ saved.sp \in Word

DecodedWords == \A k \in DOMAIN ops : ops[k].value \in Word /\ ops[k].addr \in Word

WInv == PInv /\ MachineOK /\ SavedOK /\ DecodedWords

LEMMA WrapsToPosition == ASSUME NEW n \in Int PROVE Position(WrapPosition(n))
  BY DEF Position, WrapPosition

LEMMA WordsAreTyped == ASSUME WInv PROVE TypeOK
  BY DEF TypeOK, WInv, MachineOK, SavedOK, DecodedWords, PInv, PagesOK

LEMMA ByteOfPosition == ASSUME NEW p, Position(p) PROVE p \div 8 \in Word
<1>1. p \div 8 \in Int /\ Wrap(p \div 8) = p \div 8
  BY DEF Position, Wrap
<1> QED
  BY <1>1, Unwrapped

LEMMA RegIsWord ==
  ASSUME MachineOK, NEW k \in 0 .. 15, NEW p, Position(p)
  PROVE  Reg(k, p) \in Word
<1>1. CASE k = 15
  BY <1>1, ByteOfPosition DEF Reg
<1>2. CASE k # 15
  <2>1. k \in 0 .. 14
    BY <1>2
  <2> QED
    BY <1>2, <2>1 DEF Reg, MachineOK
<1> QED
  BY <1>1, <1>2

\* The sum of two words, as an address.
LEMMA SumIsAddress == ASSUME NEW a \in Word, NEW b \in Word PROVE Wrap(a + b) \in Word
<1>1. a + b \in Int
  BY WordIsInt
<1> QED
  BY <1>1, WrapsToWord

LEMMA NextIsAddress ==
  ASSUME NEW a \in Word, NEW k \in Int
  PROVE  Wrap(a + k) \in Word /\ Wrap(a - k) \in Word
<1>1. a + k \in Int /\ a - k \in Int
  BY WordIsInt
<1> QED
  BY <1>1, WrapsToWord

LEMMA ZeroIsWord == 0 \in Word
<1>1. Wrap(0) = 0 /\ 0 \in Int
  BY DEF Wrap
<1> QED
  BY <1>1, Unwrapped

LEMMA LoadIsWord == ASSUME MachineOK, NEW a \in Word, NEW size PROVE Load(a, size) \in Word
<1>1. Wrap(a + 1) \in Word
  BY NextIsAddress
<1>2. mem[a] \in Byte /\ mem[Wrap(a + 1)] \in Byte
  BY <1>1 DEF MachineOK
<1> QED
  BY <1>2, Joins, ZeroIsWord DEF Load

LEMMA ChangedFunction ==
  ASSUME NEW D, NEW R, NEW f \in [D -> R], NEW x, NEW v \in R
  PROVE  [f EXCEPT ![x] = v] \in [D -> R]
  OBVIOUS

LEMMA StoredIsMemory ==
  ASSUME NEW m \in [Word -> Byte], NEW a, NEW size, NEW v \in Word
  PROVE  Stored(m, a, size, v) \in [Word -> Byte]
<1>1. Low(v) \in Byte /\ High(v) \in Byte
  BY Halves
<1>2. [m EXCEPT ![a] = Low(v)] \in [Word -> Byte]
  BY <1>1, ChangedFunction
<1>3. [[m EXCEPT ![a] = Low(v)] EXCEPT ![Wrap(a + 1)] = High(v)] \in [Word -> Byte]
  BY <1>1, <1>2, ChangedFunction
<1>4. [m EXCEPT ![a] = Low(v), ![Wrap(a + 1)] = High(v)]
        = [[m EXCEPT ![a] = Low(v)] EXCEPT ![Wrap(a + 1)] = High(v)]
  OBVIOUS
<1> QED
  BY <1>2, <1>3, <1>4 DEF Stored

LEMMA AddressIsWord ==
  ASSUME MachineOK, NEW o, WordOperand(o), NEW p, Position(p)
  PROVE  Address(o, p) \in Word
<1>1. Reg(o.reg, p) \in Word /\ o.val \in Word
  BY RegIsWord DEF WordOperand
<1>2. Wrap(o.val + Reg(o.reg, p)) \in Word
  BY <1>1, SumIsAddress
<1> QED
  BY <1>1, <1>2 DEF Address

LEMMA ValueIsWord ==
  ASSUME BitwiseOn(Word), BitwiseOn(Byte), MachineOK, NEW o, WordOperand(o), NEW p, Position(p)
  PROVE  Value(o, p) \in Word
<1>1. Reg(o.reg, p) \in Word /\ o.val \in Word /\ o.obf \in 0 .. 63
  BY RegIsWord DEF WordOperand
<1>2. Load(Address(o, p), o.size) \in Word
  BY AddressIsWord, LoadIsWord
<1>3. Mask(o.val, Reg(o.reg, p), o.obf) \in Word
  BY <1>1, MaskIsWord
<1>4. Cut(o.size, BitXor(Load(Address(o, p), o.size), Mask(o.val, Reg(o.reg, p), o.obf))) \in Word
  <2>1. BitXor(Load(Address(o, p), o.size), Mask(o.val, Reg(o.reg, p), o.obf)) \in Word
    BY <1>2, <1>3 DEF BitwiseOn
  <2> QED
    BY <2>1, CutIsWord
<1>5. o.type \in {"reg", "imm", "mem", "obf"}
  BY DEF WordOperand, EncodedOperand
<1> QED
  BY <1>1, <1>2, <1>4, <1>5 DEF Value

-----------------------------------------------------------------------------
(* The steps.                                                              *)

\* While an instruction runs it is one of those that are encoded, and so are its operands.
LEMMA RunningWords ==
  ASSUME WordPrograms, WInv, stage = "running"
  PROVE  /\ WordInstruction(Ins)
         /\ \A k \in 1 .. Len(ops) :
              WordOperand(ops[k].o) /\ ops[k].value \in Word /\ ops[k].addr \in Word
<1>1. prog \in Programs /\ saved.pos \in DOMAIN prog /\ Ins = prog[saved.pos]
  BY DEF WInv, PInv, PagesOK, Ins, Origin
<1>2. WordInstruction(Ins)
  BY <1>1 DEF WordPrograms, WordProgram
<1>3. PICK S : ops \in Seq(S)
  BY DEF WInv, PInv, PagesOK
<1>4. DOMAIN ops = 1 .. Len(ops) /\ Len(ops) \in Nat
  BY <1>3
<1>5. Len(ops) <= Len(Operands(Ins)) /\ \A k \in 1 .. Len(ops) : ops[k].o = Operands(Ins)[k]
  BY DEF WInv, PInv, PagesOK
<1>6. PICK T : Operands(Ins) \in Seq(T)
  BY OperandsAre
<1>7. ASSUME NEW k \in 1 .. Len(ops) PROVE WordOperand(ops[k].o)
  <2>1. k \in DOMAIN Operands(Ins)
    BY <1>4, <1>5, <1>6
  <2> QED
    BY <1>2, <1>5, <2>1 DEF WordInstruction
<1> QED
  BY <1>2, <1>4, <1>7 DEF WInv, DecodedWords

LEMMA NoneDecoded == ASSUME ops' = <<>> PROVE DecodedWords'
<1>1. DOMAIN ops' = {}
  OBVIOUS
<1> QED
  BY <1>1 DEF DecodedWords

LEMMA InitTyped == ASSUME Memories \subseteq [Word -> Byte], Init PROVE MachineOK /\ SavedOK /\ DecodedWords
<1>1. regs \in [0 .. 14 -> Word] /\ regs[14] \in Word /\ mem \in [Word -> Byte]
  BY RegistersAssumption DEF Init
<1>2. Position(0) /\ 0 \in 0 .. 63
  BY DEF Position
<1>3. flags = [k \in {0, 1} |-> {}] /\ frame.addr = 0 /\ frame.obf = 0 /\ pos = 0
      /\ saved.pos = 0 /\ saved.sp = regs[14] /\ ops = <<>>
  BY DEF Init, SP
<1>4. flags \in [{0, 1} -> SUBSET {"Z", "C", "S"}]
  BY <1>3
<1>5. DecodedWords
  BY <1>3 DEF DecodedWords
<1> QED
  BY <1>1, <1>2, <1>3, <1>4, <1>5, ZeroIsWord DEF MachineOK, SavedOK

\* The program counter after some bits of the code.
LEMMA AfterIsPosition ==
  ASSUME NEW p, Position(p), NEW w, Bits(w) \in Nat
  PROVE  Position(After(p, w))
<1>1. p + Bits(w) \in Int
  BY DEF Position
<1> QED
  BY <1>1, WrapsToPosition DEF After

LEMMA SPIsWord == ASSUME MachineOK PROVE SP \in Word /\ regs[14] \in Word
  BY DEF SP, MachineOK

LEMMA BeginTyped ==
  ASSUME WInv, Begin \/ BeginFault \/ Serve
  PROVE  MachineOK' /\ SavedOK' /\ DecodedWords'
<1>1. Bits(Widths) \in Nat
  BY HeadBits, BitsNat DEF Widths
<1>2. Position(After(pos, Widths))
  BY <1>1, AfterIsPosition DEF WInv, MachineOK
<1>3. UNCHANGED <<regs, flags, mem, frame, ops>> /\ (pos' = pos \/ pos' = After(pos, Widths))
      /\ (saved' = saved \/ saved' = [pos |-> pos, sp |-> SP])
  BY DEF Begin, BeginFault, Starting, Serve
<1>4. MachineOK'
  BY <1>2, <1>3 DEF WInv, MachineOK
<1>5. SavedOK'
  BY <1>3, SPIsWord DEF WInv, MachineOK, SavedOK
<1> QED
  BY <1>3, <1>4, <1>5 DEF WInv, DecodedWords

\* The registers that a fault restores.
LEMMA FaultTyped ==
  ASSUME WInv, NEW pages, NEW rs \in [0 .. 14 -> Word], Fault(pages, rs),
         flags' \in [{0, 1} -> SUBSET {"Z", "C", "S"}], mem' \in [Word -> Byte]
  PROVE  MachineOK' /\ SavedOK' /\ DecodedWords'
<1>1. pos' = saved.pos /\ regs' = [rs EXCEPT ![14] = saved.sp] /\ ops' = <<>> /\ UNCHANGED <<frame, saved>>
  BY DEF Fault
<1>2. regs' \in [0 .. 14 -> Word]
  BY <1>1, ChangedFunction DEF WInv, SavedOK
<1>3. MachineOK'
  BY <1>1, <1>2 DEF WInv, MachineOK, SavedOK
<1>4. SavedOK'
  BY <1>1 DEF WInv, SavedOK
<1> QED
  BY <1>1, <1>3, <1>4, NoneDecoded

LEMMA DecodeTyped ==
  ASSUME BitwiseOn(Word), BitwiseOn(Byte), WordPrograms, WInv, DecodeOperand
  PROVE  MachineOK' /\ SavedOK' /\ DecodedWords'
<1>1. stage = "running" /\ Len(ops) < Len(Operands(Ins)) /\ MachineOK
  BY DEF DecodeOperand, Decoding, WInv
<1>2. WordInstruction(Ins)
  BY <1>1, RunningWords
<1>3. PICK S : ops \in Seq(S)
  BY DEF WInv, PInv, PagesOK
<1>4. WordOperand(Operand)
  <2>1. PICK T : Operands(Ins) \in Seq(T)
    BY OperandsAre
  <2>2. Len(ops) + 1 \in DOMAIN Operands(Ins)
    BY <1>1, <1>3, <2>1
  <2> QED
    BY <1>2, <2>2 DEF WordInstruction, Operand
<1>5. Bits(OperandWidths(Operand)) \in Nat
  BY <1>4, OperandBits, BitsNat DEF WordOperand
<1>6. Position(OperandEnd)
  BY <1>1, <1>5, AfterIsPosition DEF OperandEnd, MachineOK
<1>7. PICK addr : addr = IF Operand.type = "mem" THEN Address(Operand, OperandEnd) ELSE Operand.val
  OBVIOUS
<1>8. addr \in Word
  <2>1. Address(Operand, OperandEnd) \in Word
    BY <1>1, <1>4, <1>6, AddressIsWord
  <2>2. Operand.val \in Word
    BY <1>4 DEF WordOperand
  <2> QED
    BY <1>7, <2>1, <2>2
<1>9. PICK e : ops' = Append(ops, e) /\ e.value = Value(Operand, OperandEnd)
               /\ e.addr = IF Pushing THEN Wrap(addr - 2) ELSE addr
  BY <1>7 DEF DecodeOperand
<1>10. e.value \in Word /\ e.addr \in Word
  <2>1. Wrap(addr - 2) \in Word
    BY <1>8, NextIsAddress
  <2>2. Value(Operand, OperandEnd) \in Word
    BY <1>1, <1>4, <1>6, ValueIsWord
  <2> QED
    BY <1>8, <1>9, <2>1, <2>2
<1>11. DecodedWords'
  <2>1. DOMAIN ops' = 1 .. Len(ops) + 1 /\ Len(ops) \in Nat /\ ops'[Len(ops) + 1] = e
        /\ \A k \in 1 .. Len(ops) : ops'[k] = ops[k] /\ k \in DOMAIN ops
    BY <1>3, <1>9
  <2>2. \A k \in 1 .. Len(ops) : ops[k].value \in Word /\ ops[k].addr \in Word
    BY <1>1, RunningWords
  <2>3. \A k \in 1 .. Len(ops) + 1 : k \in 1 .. Len(ops) \/ k = Len(ops) + 1
    BY <2>1
  <2> QED
    BY <1>10, <2>1, <2>2, <2>3 DEF DecodedWords
<1>12. regs' \in [0 .. 14 -> Word]
  <2>1. Wrap(regs[14] - 2) \in Word
    BY <1>1, SPIsWord, NextIsAddress
  <2>2. [regs EXCEPT ![14] = Wrap(regs[14] - 2)] \in [0 .. 14 -> Word]
    BY <1>1, <2>1, ChangedFunction DEF MachineOK
  <2>3. regs' = [regs EXCEPT ![14] = Wrap(regs[14] - 2)] \/ regs' = regs
    BY DEF DecodeOperand
  <2> QED
    BY <1>1, <2>2, <2>3 DEF MachineOK
<1>13. pos' = OperandEnd /\ UNCHANGED <<flags, mem, frame, saved>>
  BY DEF DecodeOperand
<1> QED
  BY <1>6, <1>11, <1>12, <1>13 DEF WInv, MachineOK, SavedOK

LEMMA ComputingHas ==
  ASSUME WordPrograms, WInv, Computing
  PROVE  /\ stage = "running" /\ Ins.op \in {"and", "or", "neg", "shift", "mov"}
         /\ WordInstruction(Ins) /\ MachineOK
         /\ WordOperand(ops[1].o) /\ ops[1].value \in Word /\ ops[1].addr \in Word
         /\ Ins.op \in {"and", "or", "mov"} =>
              WordOperand(ops[2].o) /\ ops[2].value \in Word /\ ops[2].addr \in Word
<1>1. stage = "running" /\ Len(ops) = Len(Operands(Ins)) /\ Ins.op \in {"and", "or", "neg", "shift", "mov"}
  BY DEF Computing, Decoded
<1>2. CASE Ins.op \in {"and", "or", "mov"}
  <2>1. Len(ops) = 2
    BY <1>1, <1>2 DEF Operands
  <2>2. 1 \in 1 .. Len(ops) /\ 2 \in 1 .. Len(ops)
    BY <2>1
  <2> QED
    BY <1>1, <2>2, RunningWords DEF WInv
<1>3. CASE Ins.op \in {"neg", "shift"}
  <2>1. Len(ops) = 1
    BY <1>1, <1>3 DEF Operands
  <2>2. 1 \in 1 .. Len(ops)
    BY <2>1
  <2> QED
    BY <1>1, <1>3, <2>2, RunningWords DEF WInv
<1> QED
  BY <1>1, <1>2, <1>3

LEMMA ResultIsWord ==
  ASSUME BitwiseOn(Word), BitwiseOn(Byte), WordPrograms, WInv, Computing
  PROVE  Result \in Word
<1>1. CASE Ins.op \in {"and", "or"}
  BY <1>1, ComputingHas DEF Result, BitwiseOn
<1>2. CASE Ins.op = "neg"
  BY <1>2, ComputingHas, ComplementIsWord DEF Result
<1>3. CASE Ins.op = "shift"
  <2>1. Ins.count \in 1 .. 15 /\ Ins.right \in BOOLEAN
    BY ComputingHas DEF WordInstruction
  <2>2. Shl(ops[1].value, Ins.count) \in Word /\ Shr(ops[1].value, Ins.count) \in Word
    BY <2>1, ComputingHas, ShiftsAreWords
  <2> QED
    BY <1>3, <2>1, <2>2 DEF Result
<1>4. CASE Ins.op = "mov"
  BY <1>4, ComputingHas DEF Result
<1> QED
  BY <1>1, <1>2, <1>3, <1>4, ComputingHas

LEMMA FlagsTyped ==
  ASSUME WordPrograms, WInv, Computing
  PROVE  FlagsAfter \in [{0, 1} -> SUBSET {"Z", "C", "S"}]
<1> DEFINE All == {"Z", "C", "S"}
<1>1. flags \in [{0, 1} -> SUBSET All] /\ Ins.cond \in {0, 1}
  BY ComputingHas DEF MachineOK, WordInstruction
<1>2. \A zero, carry, sign : Flags(zero, carry, sign) \subseteq All
  BY DEF Flags
<1>3. ASSUME NEW new \in SUBSET All
      PROVE  UpdatedFlags(Ins, new) \in [{0, 1} -> SUBSET All]
  <2>1. [flags EXCEPT ![Ins.cond] = new] \in [{0, 1} -> SUBSET All]
    BY <1>1, <1>3, ChangedFunction
  <2> QED
    BY <1>1, <2>1 DEF UpdatedFlags
<1>4. flags[Ins.cond] \subseteq All
  BY <1>1
<1> HIDE DEF All
<1>5. ASSUME NEW zero, NEW carry, NEW sign
      PROVE  /\ UpdatedFlags(Ins, Flags(zero, carry, sign)) \in [{0, 1} -> SUBSET All]
             /\ UpdatedFlags(Ins, (flags[Ins.cond] \ {"Z"}) \cup Flags(zero, carry, sign))
                  \in [{0, 1} -> SUBSET All]
  <2>1. Flags(zero, carry, sign) \in SUBSET All
        /\ (flags[Ins.cond] \ {"Z"}) \cup Flags(zero, carry, sign) \in SUBSET All
    BY <1>2, <1>4
  <2> QED
    BY <1>3, <2>1
<1>6. FlagsAfter \in [{0, 1} -> SUBSET All]
  <2>1. CASE Ins.op \in {"and", "or"}
    BY <1>5, <2>1 DEF FlagsAfter
  <2>2. CASE Ins.op = "neg"
    BY <1>5, <2>2 DEF FlagsAfter
  <2>3. CASE Ins.op = "shift"
    BY <1>5, <2>3 DEF FlagsAfter
  <2>4. CASE Ins.op = "mov"
    BY <1>1, <2>4 DEF FlagsAfter
  <2> QED
    BY <2>1, <2>2, <2>3, <2>4, ComputingHas
<1> QED
  BY <1>6 DEF All

LEMMA RegsAtSaveTyped == ASSUME MachineOK PROVE RegsAtSave \in [0 .. 14 -> Word]
<1>1. Wrap(regs[14] + 2) \in Word
  BY SPIsWord, NextIsAddress
<1>2. [regs EXCEPT ![14] = Wrap(regs[14] + 2)] \in [0 .. 14 -> Word]
  BY <1>1, ChangedFunction DEF MachineOK
<1> QED
  BY <1>2 DEF RegsAtSave, MachineOK

LEMMA DestTyped ==
  ASSUME BitwiseOn(Word), BitwiseOn(Byte), WordPrograms, WInv, Computing
  PROVE  DestReg \in Word /\ DestAddress \in Word /\ DestMerged \in Word
<1>1. Dest.reg \in 0 .. 15 /\ ops[1].addr \in Word /\ MachineOK
  BY ComputingHas DEF Dest, WordOperand
<1>2. DestReg \in Word
  <2>1. CASE Dest.reg = 15
    <3>1. pos \div 8 \in Word
      BY <1>1, ByteOfPosition DEF MachineOK
    <3> QED
      BY <2>1, <3>1 DEF DestReg
  <2>2. CASE Dest.reg # 15
    <3>1. Dest.reg \in 0 .. 14
      BY <1>1, <2>2
    <3>2. RegsAtSave[Dest.reg] \in Word
      BY <1>1, <3>1, RegsAtSaveTyped
    <3> QED
      BY <2>2, <3>2 DEF DestReg
  <2> QED
    BY <2>1, <2>2
<1>3. DestAddress \in Word
  BY <1>1, <1>2, SumIsAddress DEF DestAddress
<1>4. DestMerged \in Word
  <2>1. Result \in Word
    BY ResultIsWord
  <2>2. High(DestReg) \in Byte /\ Low(Result) \in Byte
    BY <1>2, <2>1, Halves
  <2>3. 256 * High(DestReg) + Low(Result) \in Word
    BY <2>2, Joins
  <2> QED
    BY <2>1, <2>3 DEF DestMerged
<1> QED
  BY <1>2, <1>3, <1>4

LEMMA ExecuteTyped ==
  ASSUME BitwiseOn(Word), BitwiseOn(Byte), WordPrograms, WInv, Execute
  PROVE  MachineOK' /\ SavedOK' /\ DecodedWords'
<1>0. Computing /\ MachineOK
  BY DEF Execute, WInv
<1>1. Result \in Word /\ DestReg \in Word /\ DestAddress \in Word /\ DestMerged \in Word
  BY <1>0, ResultIsWord, DestTyped
<1>2. regs' \in [0 .. 14 -> Word]
  <2>1. RegsAtSave \in [0 .. 14 -> Word]
    BY <1>0, RegsAtSaveTyped
  <2>2. [RegsAtSave EXCEPT ![Dest.reg] = DestMerged] \in [0 .. 14 -> Word]
    BY <1>1, <2>1, ChangedFunction
  <2> QED
    BY <2>1, <2>2 DEF Execute
<1>3. Position(pos')
  <2>1. DestMerged \in Int /\ 0 <= DestMerged /\ DestMerged <= 65535
    BY <1>1, WordIsInt
  <2>2. Position(pos)
    BY <1>0 DEF MachineOK
  <2>3. Position(8 * DestMerged + (pos % 8))
    BY <2>1, <2>2 DEF Position
  <2>4. pos' = pos \/ pos' = 8 * DestMerged + (pos % 8)
    BY DEF Execute
  <2> QED
    BY <2>2, <2>3, <2>4
<1>4. mem' \in [Word -> Byte]
  <2>1. mem \in [Word -> Byte]
    BY <1>0 DEF MachineOK
  <2>2. Stored(mem, DestAddress, Dest.size, Result) \in [Word -> Byte]
    BY <1>1, <2>1, StoredIsMemory
  <2>3. Dest.obf \in 0 .. 63 /\ ops[1].addr \in Word
    BY <1>0, ComputingHas DEF Dest, WordOperand
  <2>4. Mask(ops[1].addr, DestReg, Dest.obf) \in Word
    BY <1>1, <2>3, MaskIsWord
  <2>5. BitXor(Result, Mask(ops[1].addr, DestReg, Dest.obf)) \in Word
    BY <1>1, <2>4 DEF BitwiseOn
  <2>6. Stored(mem, DestAddress, Dest.size, BitXor(Result, Mask(ops[1].addr, DestReg, Dest.obf)))
          \in [Word -> Byte]
    BY <2>1, <2>5, StoredIsMemory
  <2> QED
    BY <2>1, <2>2, <2>6 DEF Execute
<1>5. flags' \in [{0, 1} -> SUBSET {"Z", "C", "S"}]
  BY <1>0, FlagsTyped DEF Execute
<1>6. ops' = <<>> /\ UNCHANGED <<saved, frame>>
  BY DEF Execute, Done
<1>7. MachineOK'
  BY <1>0, <1>2, <1>3, <1>4, <1>5, <1>6 DEF MachineOK
<1>8. SavedOK'
  BY <1>6 DEF WInv, SavedOK
<1> QED
  BY <1>6, <1>7, <1>8, NoneDecoded

LEMMA ExecuteFaultTyped ==
  ASSUME BitwiseOn(Word), BitwiseOn(Byte), WordPrograms, WInv, ExecuteFault
  PROVE  MachineOK' /\ SavedOK' /\ DecodedWords'
<1>1. Computing /\ Fault(DestPage, RegsAtSave) /\ flags' = FlagsAfter /\ mem' = mem /\ MachineOK
  BY DEF ExecuteFault, WInv
<1>2. FlagsAfter \in [{0, 1} -> SUBSET {"Z", "C", "S"}] /\ RegsAtSave \in [0 .. 14 -> Word]
  BY <1>1, FlagsTyped, RegsAtSaveTyped
<1> QED
  BY <1>1, <1>2, FaultTyped DEF MachineOK

LEMMA SkipTyped == ASSUME WInv, Skip PROVE MachineOK' /\ SavedOK' /\ DecodedWords'
<1>1. UNCHANGED <<pos, regs, flags, mem, frame, saved>> /\ ops' = <<>>
  BY DEF Skip, Done
<1> QED
  BY <1>1, NoneDecoded DEF WInv, MachineOK, SavedOK

LEMMA TargetIsPosition ==
  ASSUME WordPrograms, WInv, Decoded, Ins.op \in {"jmp", "call"}
  PROVE  Position(Target)
<1>1. stage = "running" /\ Len(ops) = Len(Operands(Ins)) /\ Position(pos)
  BY DEF Decoded, WInv, MachineOK
<1>2. WordInstruction(Ins)
  BY <1>1, RunningWords
<1>3. Ins.bytes \in Int /\ Ins.bits \in Int
  BY <1>2 DEF WordInstruction
<1>4. CASE ~Absolute(Ins)
  <2>1. pos - 8 * Ins.bytes - Ins.bits \in Int /\ pos + 8 * Ins.bytes + Ins.bits \in Int
    BY <1>1, <1>3 DEF Position
  <2>2. Position(WrapPosition(pos - 8 * Ins.bytes - Ins.bits))
        /\ Position(WrapPosition(pos + 8 * Ins.bytes + Ins.bits))
    BY <2>1, WrapsToPosition
  <2> QED
    BY <1>4, <2>2 DEF Target, Relative
<1>5. CASE Absolute(Ins)
  <2>1. Len(ops) = 1
    BY <1>1, <1>5 DEF Operands, Absolute
  <2>2. 1 \in 1 .. Len(ops)
    BY <2>1
  <2>3. ops[1].value \in Word
    BY <1>1, <2>2, RunningWords
  <2>4. ops[1].value \in Int /\ 0 <= ops[1].value /\ ops[1].value <= 65535
    BY <2>3, WordIsInt
  <2>5. Position(ops[1].value)
    BY <2>4 DEF Position
  <2>6. 8 * ops[1].value + Ins.bits \in Int
    BY <1>3, <2>4
  <2>7. Position(WrapPosition(8 * ops[1].value + Ins.bits))
    BY <2>6, WrapsToPosition
  <2> QED
    BY <1>5, <2>5, <2>7 DEF Target
<1> QED
  BY <1>4, <1>5

LEMMA JumpTyped ==
  ASSUME WordPrograms, WInv, Jump
  PROVE  MachineOK' /\ SavedOK' /\ DecodedWords'
<1>1. Decoded /\ Ins.op = "jmp" /\ pos' = Target /\ UNCHANGED <<regs, flags, mem, frame, saved>> /\ ops' = <<>>
  BY DEF Jump, Done
<1>2. Position(Target)
  BY <1>1, TargetIsPosition
<1> QED
  BY <1>1, <1>2, NoneDecoded DEF WInv, MachineOK, SavedOK

LEMMA PushedIsMemory ==
  ASSUME BitwiseOn(Word), BitwiseOn(Byte), MachineOK, NEW m \in [Word -> Byte], NEW k \in Int, NEW v \in Word
  PROVE  Pushed(m, k, v) \in [Word -> Byte]
<1>1. Wrap(SP - k) \in Word
  BY SPIsWord, NextIsAddress
<1>2. Mask(frame.addr, Wrap(SP - k), frame.obf) \in Word
  BY <1>1, MaskIsWord DEF MachineOK
<1>3. BitXor(v, Mask(frame.addr, Wrap(SP - k), frame.obf)) \in Word
  BY <1>2 DEF BitwiseOn
<1> QED
  BY <1>3, StoredIsMemory DEF Pushed

LEMMA FramePushed ==
  ASSUME BitwiseOn(Word), BitwiseOn(Byte), MachineOK
  PROVE  /\ PushedByte \in [Word -> Byte] /\ Pushed(PushedByte, 4, pos % 8) \in [Word -> Byte]
         /\ RegsAfterCall \in [0 .. 14 -> Word]
<1>1. pos \div 8 \in Word
  BY ByteOfPosition DEF MachineOK
<1>2. pos % 8 \in Word
  <2>1. pos % 8 \in Int /\ Wrap(pos % 8) = pos % 8
    BY DEF MachineOK, Position, Wrap
  <2> QED
    BY <2>1, Unwrapped
<1>3. PushedByte \in [Word -> Byte]
  BY <1>1, PushedIsMemory DEF PushedByte, MachineOK
<1>4. Pushed(PushedByte, 4, pos % 8) \in [Word -> Byte]
  BY <1>2, <1>3, PushedIsMemory
<1>5. Wrap(regs[14] - 4) \in Word
  BY SPIsWord, NextIsAddress
<1>6. RegsAfterCall \in [0 .. 14 -> Word]
  BY <1>5, ChangedFunction DEF RegsAfterCall, MachineOK
<1> QED
  BY <1>3, <1>4, <1>6

LEMMA CallTyped ==
  ASSUME BitwiseOn(Word), BitwiseOn(Byte), WordPrograms, WInv, Call \/ CallFault
  PROVE  MachineOK' /\ SavedOK' /\ DecodedWords'
<1>1. Calling /\ MachineOK
  BY DEF Call, CallFault, WInv
<1>2. CASE Call
  <2>1. Position(Target)
    BY <1>1, TargetIsPosition DEF Calling
  <2>2. /\ mem' = Pushed(PushedByte, 4, pos % 8) /\ regs' = RegsAfterCall /\ pos' = Target
        /\ ops' = <<>> /\ UNCHANGED <<flags, frame, saved>>
    BY <1>2 DEF Call, Done
  <2> QED
    BY <1>1, <2>1, <2>2, FramePushed, NoneDecoded DEF WInv, MachineOK, SavedOK
<1>3. CASE CallFault
  <2>1. flags' \in [{0, 1} -> SUBSET {"Z", "C", "S"}]
    BY <1>1, <1>3 DEF CallFault, MachineOK
  <2>2. CASE Fault({Slot(2) \div 16}, regs) /\ UNCHANGED mem
    BY <1>1, <2>1, <2>2, FaultTyped DEF MachineOK
  <2>3. CASE Fault({Slot(4) \div 16}, RegsAfterCall) /\ mem' = PushedByte
    BY <1>1, <2>1, <2>3, FramePushed, FaultTyped
  <2> QED
    BY <1>3, <2>2, <2>3 DEF CallFault
<1> QED
  BY <1>2, <1>3

LEMMA ReturningHas ==
  ASSUME WordPrograms, WInv, Decoded, Returning
  PROVE  MachineOK /\ WordOperand(ops[2].o) /\ ops[2].addr \in Word
<1>1. stage = "running" /\ Len(ops) = Len(Operands(Ins)) /\ Ins.op = "mov"
  BY DEF Decoded, Returning, Popping
<1>2. Len(ops) = 2
  BY <1>1 DEF Operands
<1>3. 2 \in 1 .. Len(ops)
  BY <1>2
<1> QED
  BY <1>1, <1>3, RunningWords DEF WInv

LEMMA StackWordIsWord ==
  ASSUME BitwiseOn(Word), BitwiseOn(Byte), WordPrograms, WInv, Decoded, Returning, NEW k \in Int
  PROVE  StackWord(k) \in Word
<1> DEFINE at == Wrap(SP + k)  size == ops[2].o.size
<1>1. MachineOK /\ ops[2].addr \in Word /\ ops[2].o.obf \in 0 .. 63
  BY ReturningHas DEF WordOperand
<1>2. at \in Word
  BY <1>1, SPIsWord, NextIsAddress
<1>3. StackWord(k) = IF ops[2].o.type = "mem" THEN Load(at, size)
                     ELSE Cut(size, BitXor(Load(Wrap(ops[2].addr + at), size),
                                           Mask(ops[2].addr, at, ops[2].o.obf)))
  BY DEF StackWord
<1> HIDE DEF at, size
<1>4. Load(at, size) \in Word /\ Load(Wrap(ops[2].addr + at), size) \in Word
  BY <1>1, <1>2, SumIsAddress, LoadIsWord
<1>5. Mask(ops[2].addr, at, ops[2].o.obf) \in Word
  BY <1>1, <1>2, MaskIsWord
<1>6. BitXor(Load(Wrap(ops[2].addr + at), size), Mask(ops[2].addr, at, ops[2].o.obf)) \in Word
  BY <1>4, <1>5 DEF BitwiseOn
<1> QED
  BY <1>3, <1>4, <1>6, CutIsWord

LEMMA ReturnTyped ==
  ASSUME BitwiseOn(Word), BitwiseOn(Byte), WordPrograms, WInv, Return
  PROVE  MachineOK' /\ SavedOK' /\ DecodedWords'
<1>1. Decoded /\ Returning
  BY DEF Return
<1>2. MachineOK /\ ops[2].addr \in Word /\ ops[2].o.obf \in 0 .. 63
  BY <1>1, ReturningHas DEF WordOperand
<1>3. Position(pos')
  <2>1. /\ StackWord(2) \in Nat /\ StackWord(2) <= 65535
        /\ StackWord(0) \in Nat
    BY <1>1, StackWordIsWord, WordIsInt
  <2>2. StackWord(0) <= 7 /\ pos' = 8 * StackWord(2) + StackWord(0)
    BY DEF Return
  <2> QED
    BY <2>1, <2>2 DEF Position
<1>4. regs' \in [0 .. 14 -> Word]
  <2>1. Wrap(regs[14] + 4) \in Word
    BY <1>2, SPIsWord, NextIsAddress
  <2> QED
    BY <1>2, <2>1, ChangedFunction DEF Return, MachineOK
<1>5. frame'.addr \in Word /\ frame'.obf \in 0 .. 63
  BY <1>2 DEF Return, MachineOK
<1>6. ops' = <<>> /\ UNCHANGED <<flags, mem, saved>>
  BY DEF Return, Done
<1> QED
  BY <1>2, <1>3, <1>4, <1>5, <1>6, NoneDecoded DEF WInv, MachineOK, SavedOK

LEMMA OtherFaultsTyped ==
  ASSUME WInv, OperandFault \/ ReturnFault
  PROVE  MachineOK' /\ SavedOK' /\ DecodedWords'
<1>1. MachineOK /\ UNCHANGED <<flags, mem>>
  BY DEF OperandFault, ReturnFault, WInv
<1>2. PICK pages : Fault(pages, regs)
  BY DEF OperandFault, ReturnFault
<1> QED
  BY <1>1, <1>2, FaultTyped DEF MachineOK

LEMMA StutterTyped == ASSUME WInv, UNCHANGED vars PROVE MachineOK' /\ SavedOK' /\ DecodedWords'
  BY DEF vars, WInv, MachineOK, SavedOK, DecodedWords

LEMMA StrayTyped ==
  ASSUME WInv, StrayStore \/ StrayCall \/ StrayReturn
  PROVE  MachineOK' /\ SavedOK' /\ DecodedWords'
  BY StrayIs DEF WInv, MachineOK, SavedOK, DecodedWords

LEMMA EncodedAre == ASSUME WordPrograms PROVE Encoded
  BY DEF WordPrograms, WordProgram, WordInstruction, WordOperand, Encoded, EncodedProgram

LEMMA WInvNext ==
  ASSUME BitwiseOn(Word), BitwiseOn(Byte), WordPrograms, WInv, RunsItsCode, [Next]_vars
  PROVE  WInv'
<1>1. PInv'
  BY EncodedAre, PInvNext DEF WInv
<1>2. MachineOK' /\ SavedOK' /\ DecodedWords'
  BY BeginTyped, DecodeTyped, ExecuteTyped, ExecuteFaultTyped, SkipTyped, JumpTyped, CallTyped,
     ReturnTyped, OtherFaultsTyped, StrayTyped, StutterTyped DEF Next
<1> QED
  BY <1>1, <1>2 DEF WInv

\* Words stay words: no instruction leaves a register, an operand, an address or the
\* program counter wider than 16 bits, or a byte of the memory wider than 8, however the
\* page faults fall and wherever a return or a jump through a register goes.
THEOREM WordsStayWords ==
  ASSUME BitwiseOn(Word), BitwiseOn(Byte), WordPrograms, Memories \subseteq [Word -> Byte]
  PROVE  Spec /\ []RunsItsCode => []TypeOK
<1>1. Init => WInv
  BY PInvInit, InitTyped DEF WInv
<1>2. WInv /\ RunsItsCode /\ [Next]_vars => WInv'
  BY WInvNext
<1>3. WInv => TypeOK
  BY WordsAreTyped
<1> QED
  BY <1>1, <1>2, <1>3, PTL DEF Spec

-----------------------------------------------------------------------------
(***************************************************************************)
(* Five slots are enough for an instruction, or six.                       *)
(***************************************************************************)

LEMMA WrapSum ==
  ASSUME NEW a \in Int, NEW b \in Int
  PROVE  /\ Wrap(Wrap(a) + b) = Wrap(a + b) /\ Wrap(b + Wrap(a)) = Wrap(a + b)
         /\ Wrap(Wrap(a) - b) = Wrap(a - b)
  BY DEF Wrap

LEMMA WrapOfWord == ASSUME NEW a \in Word PROVE Wrap(a) = a
<1>1. a \in Int /\ 0 <= a /\ a <= 65535
  BY WordIsInt
<1> QED
  BY <1>1 DEF Wrap

\* Where the first operand was read if the result goes there: the decoder has gone on since,
\* by another operand at most.
ReadAt(o, p) ==
  /\ ops[1].at \in Word
  /\ o.type = "mem" => ops[1].at = ops[1].addr
  /\ o.type = "obf" => ops[1].at = Wrap(ops[1].addr + Reg(o.reg, p))

NearDest ==
  stage = "running" =>
    /\ Ins.op # "end"
    /\ ops # <<>> /\ Matched /\ InMemory(ops[1].o) =>
         \E p, t \in Nat :
           /\ t <= 29 * (Len(ops) - 1) /\ Position(p) /\ pos = WrapPosition(p + t)
           /\ ReadAt(ops[1].o, p)

QInv == WInv /\ NearDest

\* What the decoder keeps while it decodes an operand of an instruction that will be executed.
LEMMA DecodingKeeps ==
  ASSUME WordPrograms, QInv, DecodeOperand
  PROVE  /\ stage = "running" /\ Ins' = Ins /\ Ins.op # "end" /\ (Matched' <=> Matched)
         /\ WordOperand(Operand) /\ Position(OperandEnd) /\ pos' = OperandEnd
         /\ Matched => regs' = regs
         /\ \E bits \in Nat : bits <= 29 /\ OperandEnd = WrapPosition(pos + bits)
<1>1. /\ stage = "running" /\ Len(ops) < Len(Operands(Ins)) /\ MachineOK
      /\ pos' = OperandEnd /\ UNCHANGED <<prog, flags, saved, stage>>
  BY DEF DecodeOperand, Decoding, QInv, WInv
<1>2. Ins' = Ins /\ Ins.op # "end"
  BY <1>1 DEF Ins, Origin, QInv, NearDest
<1>3. WordOperand(Operand)
  <2>1. WordInstruction(Ins)
    BY <1>1, RunningWords DEF QInv
  <2>2. PICK S : ops \in Seq(S)
    BY DEF QInv, WInv, PInv, PagesOK
  <2>3. PICK T : Operands(Ins) \in Seq(T)
    BY OperandsAre
  <2>4. Len(ops) + 1 \in DOMAIN Operands(Ins)
    BY <1>1, <2>2, <2>3
  <2> QED
    BY <2>1, <2>4 DEF WordInstruction, Operand
<1>4. Bits(OperandWidths(Operand)) \in Nat /\ Bits(OperandWidths(Operand)) <= 29
  BY <1>3, OperandBits, BitsNat DEF WordOperand
<1>5. OperandEnd = WrapPosition(pos + Bits(OperandWidths(Operand))) /\ Position(OperandEnd)
  BY <1>1, <1>4, AfterIsPosition DEF OperandEnd, After, MachineOK
<1>6. Matched => regs' = regs
  BY DEF DecodeOperand, Pushing
<1>7. Matched' <=> Matched
  BY <1>1, <1>2 DEF Matched
<1> QED
  BY <1>1, <1>2, <1>3, <1>4, <1>5, <1>6, <1>7

LEMMA NearDecode ==
  ASSUME WordPrograms, QInv, DecodeOperand
  PROVE  NearDest'
<1>1. PICK S : ops \in Seq(S)
  BY DEF QInv, WInv, PInv, PagesOK
<1>2. PICK e : /\ ops' = Append(ops, e) /\ e.o = Operand
               /\ e.at = Address(Operand, OperandEnd)
               /\ Matched => e.addr = IF Operand.type = "mem" THEN Address(Operand, OperandEnd)
                                      ELSE Operand.val
  BY DEF DecodeOperand, Pushing
<1>3. SUFFICES ASSUME Matched, InMemory(ops'[1].o)
               PROVE  \E p, t \in Nat :
                        /\ t <= 29 * (Len(ops') - 1) /\ Position(p) /\ pos' = WrapPosition(p + t)
                        /\ ReadAt(ops[1].o, p)'
  BY DecodingKeeps DEF NearDest
<1>4. regs' = regs /\ pos' = OperandEnd /\ Position(OperandEnd) /\ \A k, p : Reg(k, p)' = Reg(k, p)
  BY <1>3, DecodingKeeps DEF Reg
<1>5. CASE ops = <<>>
  <2>1. Len(ops') = 1 /\ ops'[1] = e
    BY <1>1, <1>2, <1>5
  <2>2. e.at \in Word
    BY <1>2, DecodingKeeps, AddressIsWord DEF QInv, WInv
  <2>3. PICK p : p = OperandEnd
    OBVIOUS
  <2>4. Operand.type = "obf" => e.at = Wrap(e.addr + Reg(Operand.reg, p))
    BY <1>2, <1>3, <2>3 DEF Address
  <2>5. ReadAt(ops[1].o, p)'
    BY <1>2, <1>3, <1>4, <2>1, <2>2, <2>4 DEF ReadAt
  <2>6. p \in Nat /\ p = WrapPosition(p + 0) /\ 0 <= 29 * (Len(ops') - 1)
    BY <1>4, <2>1, <2>3 DEF Position, WrapPosition
  <2> QED
    BY <1>4, <2>3, <2>5, <2>6
<1>6. CASE ops # <<>>
  <2>1. /\ Len(ops') = Len(ops) + 1 /\ Len(ops) \in Nat /\ ops'[1] = ops[1]
    BY <1>1, <1>2, <1>6
  <2>2. PICK p \in Nat, t \in Nat :
          /\ t <= 29 * (Len(ops) - 1) /\ Position(p) /\ pos = WrapPosition(p + t)
          /\ ReadAt(ops[1].o, p)
    BY <1>3, <1>6, <2>1, DecodingKeeps DEF QInv, NearDest
  <2>3. PICK bits \in Nat : bits <= 29 /\ OperandEnd = WrapPosition(pos + bits)
    BY DecodingKeeps
  <2>4. pos' = WrapPosition(p + (t + bits))
    BY <1>4, <2>2, <2>3, WrapTwice
  <2>5. t + bits \in Nat /\ t + bits <= 29 * (Len(ops') - 1)
    BY <2>1, <2>2, <2>3
  <2>6. ReadAt(ops[1].o, p)'
    BY <1>4, <2>1, <2>2 DEF ReadAt
  <2> QED
    BY <2>2, <2>4, <2>5, <2>6
<1> QED
  BY <1>5, <1>6

LEMMA NearOthers ==
  ASSUME QInv, [Next]_vars, ~DecodeOperand
  PROVE  NearDest'
<1>1. CASE Begin
  <2>1. stage = "start" /\ stage' = (IF Ins.op = "end" THEN "halted" ELSE "running")
        /\ saved'.pos = pos /\ prog' = prog /\ ops' = <<>>
    BY <1>1 DEF Begin, Starting, QInv, WInv, PInv
  <2>2. stage' = "running" => Ins' = Ins
    BY <2>1 DEF Ins, Origin
  <2> QED
    BY <2>1, <2>2 DEF NearDest
<1>2. CASE UNCHANGED vars
  <2>1. UNCHANGED <<prog, pos, regs, flags, saved, ops, stage>>
    BY <1>2 DEF vars
  <2>2. Ins' = Ins
    BY <2>1 DEF Ins, Origin
  <2>3. (Matched' <=> Matched) /\ \A o, p : ReadAt(o, p)' <=> ReadAt(o, p)
    BY <2>1, <2>2 DEF Matched, ReadAt, Reg
  <2> QED
    BY <2>1, <2>2, <2>3 DEF QInv, NearDest
<1>3. CASE Next /\ ~Begin
  <2>1. stage' # "running"
    BY <1>3, StrayIs DEF Next, BeginFault, Serve, OperandFault, Execute, ExecuteFault, Skip, Jump, Call,
       CallFault, Return, ReturnFault, Fault, Done
  <2> QED
    BY <2>1 DEF NearDest
<1> QED
  BY <1>1, <1>2, <1>3

-----------------------------------------------------------------------------
(* The pages that an instruction needs.                                    *)

\* The pages of a word that begins at most 15 bytes behind a.
LEMMA PairOf ==
  ASSUME NEW a \in Word, NEW j \in Nat, j <= 15, NEW size
  PROVE  AccessPages(Wrap(a + j), size) \subseteq {a \div 16, Wrap(a + 16) \div 16}
<1>1. a \in Nat /\ a < 65536
  BY WordIsInt
<1>2. OnPair(a, j) /\ OnPair(a, j + 1)
  BY <1>1, Sixteen
<1>3. Wrap(Wrap(a + j) + 1) = Wrap(a + (j + 1))
  BY <1>1, WrapTwice
<1> QED
  BY <1>2, <1>3 DEF AccessPages, OnPair

\* The result goes to where the first operand was read, or less than 16 bytes behind:
\* r14 has been popped or r15 has gone on.
LEMMA DestIsNear ==
  ASSUME WordPrograms, QInv, Computing, InMemory(Dest)
  PROVE  \E j \in Nat : j <= 14 /\ DestAddress = Wrap(ops[1].at + j)
<1>1. /\ stage = "running" /\ Matched /\ MachineOK /\ ops[1].addr \in Word
      /\ Ins.op \in {"and", "or", "neg", "shift", "mov"} /\ WordOperand(ops[1].o)
      /\ Len(ops) = Len(Operands(Ins))
  BY ComputingHas DEF QInv, Computing, Decoded
<1>2. Len(ops) \in {1, 2} /\ ops # <<>>
  BY <1>1 DEF Operands
<1>3. PICK p \in Nat, t \in Nat :
        /\ t <= 29 * (Len(ops) - 1) /\ Position(p) /\ pos = WrapPosition(p + t)
        /\ ReadAt(Dest, p)
  BY <1>1, <1>2 DEF QInv, NearDest, Dest
<1>4. ops[1].at \in Word /\ ops[1].at \in Nat /\ Wrap(ops[1].at + 0) = ops[1].at
  <2>1. ops[1].at \in Word /\ ops[1].at \in Nat
    BY <1>3, WordIsInt DEF ReadAt
  <2> QED
    BY <2>1, WrapOfWord
<1>5. CASE Dest.type = "mem"
  BY <1>3, <1>4, <1>5 DEF DestAddress, ReadAt
<1>6. CASE Dest.type = "obf"
  <2>1. ops[1].addr \in Nat /\ ops[1].at = Wrap(ops[1].addr + Reg(Dest.reg, p))
        /\ DestAddress = Wrap(ops[1].addr + DestReg) /\ Dest.reg \in 0 .. 15
    BY <1>1, <1>3, <1>6, WordIsInt DEF ReadAt, DestAddress, WordOperand, Dest
  <2>2. ASSUME NEW j \in Nat, j <= 14, DestReg = Wrap(Reg(Dest.reg, p) + j), Reg(Dest.reg, p) \in Nat
        PROVE  DestAddress = Wrap(ops[1].at + j)
    <3>1. PICK a \in Int, b \in Int : a = ops[1].addr /\ b = Reg(Dest.reg, p)
      BY <2>1, <2>2
    <3>2. Wrap(a + Wrap(b + j)) = Wrap(b + j + a) /\ Wrap(Wrap(a + b) + j) = Wrap(a + b + j)
      <4>1. b + j \in Int /\ a + b \in Int
        OBVIOUS
      <4> QED
        BY <4>1, WrapSum
    <3>3. b + j + a = a + b + j
      OBVIOUS
    <3> QED
      BY <2>1, <2>2, <3>1, <3>2, <3>3
  <2>3. Reg(Dest.reg, p) \in Word /\ Reg(Dest.reg, p) \in Nat
    <3>1. Reg(Dest.reg, p) \in Word
      BY <1>1, <1>3, <2>1, RegIsWord
    <3> QED
      BY <3>1, WordIsInt
  <2>4. CASE Dest.reg = 15
    <3>1. DestReg = Wrap((p \div 8) + (((p % 8) + t) \div 8))
      BY <1>3, <2>4, ByteOf DEF DestReg
    <3>2. ((p % 8) + t) \div 8 \in Nat /\ ((p % 8) + t) \div 8 <= 14
      <4>1. t <= 29 * (1 - 1) \/ t <= 29 * (2 - 1)
        BY <1>2, <1>3, Zenon
      <4> QED
        BY <1>3, <4>1 DEF Position
    <3>3. Reg(Dest.reg, p) = p \div 8
      BY <2>4 DEF Reg
    <3> QED
      BY <2>2, <2>3, <3>1, <3>2, <3>3
  <2>5. CASE Dest.reg # 15
    <3>1. Reg(Dest.reg, p) = regs[Dest.reg] /\ DestReg = RegsAtSave[Dest.reg]
      BY <2>5 DEF Reg, DestReg
    <3>2. DOMAIN regs = 0 .. 14 /\ Dest.reg \in 0 .. 14
      BY <1>1, <2>1, <2>5 DEF MachineOK
    <3>3. RegsAtSave[Dest.reg] = regs[Dest.reg] \/ RegsAtSave[Dest.reg] = Wrap(regs[Dest.reg] + 2)
      BY <3>2 DEF RegsAtSave
    <3>4. Wrap(regs[Dest.reg] + 0) = regs[Dest.reg]
      BY <2>3, <3>1, WrapOfWord
    <3> QED
      BY <2>2, <2>3, <3>1, <3>3, <3>4
  <2> QED
    BY <2>4, <2>5
<1> QED
  BY <1>5, <1>6 DEF InMemory

LEMMA SixAtMost ==
  ASSUME NEW S, NEW p1, NEW p2, NEW p3, NEW p4, NEW p5, NEW p6, S \subseteq {p1, p2, p3, p4, p5, p6}
  PROVE  /\ Cardinality(S) <= 6
         /\ S \subseteq {p1, p2, p3, p4, p5} => Cardinality(S) <= 5
<1> DEFINE Small(T, n) == IsFiniteSet(T) /\ Cardinality(T) \in Nat /\ Cardinality(T) <= n
<1>1. ASSUME NEW T, NEW p, NEW n \in Nat, Small(T, n)
      PROVE  Small(T \cup {p}, n + 1)
  BY <1>1, FS_AddElement
<1>2. Small({}, 0)
  BY FS_EmptySet
<1> HIDE DEF Small
<1>3. 0 \in Nat /\ 0 + 1 \in Nat /\ 0 + 1 + 1 \in Nat /\ 0 + 1 + 1 + 1 \in Nat /\ 0 + 1 + 1 + 1 + 1 \in Nat
      /\ 0 + 1 + 1 + 1 + 1 + 1 \in Nat
  OBVIOUS
<1>4. Small(({} \cup {p1}) \cup {p2}, 0 + 1 + 1)
  <2>1. Small({} \cup {p1}, 0 + 1)
    BY <1>1, <1>2, <1>3, Zenon
  <2> QED
    BY <1>1, <1>3, <2>1, Zenon
<1>5. Small((({} \cup {p1}) \cup {p2}) \cup {p3}, 0 + 1 + 1 + 1)
  BY <1>1, <1>3, <1>4, Zenon
<1>6. Small(((({} \cup {p1}) \cup {p2}) \cup {p3}) \cup {p4}, 0 + 1 + 1 + 1 + 1)
  BY <1>1, <1>3, <1>5, Zenon
<1>7. Small((((({} \cup {p1}) \cup {p2}) \cup {p3}) \cup {p4}) \cup {p5}, 0 + 1 + 1 + 1 + 1 + 1)
  BY <1>1, <1>3, <1>6, Zenon
<1>8. Small(((((({} \cup {p1}) \cup {p2}) \cup {p3}) \cup {p4}) \cup {p5}) \cup {p6},
            0 + 1 + 1 + 1 + 1 + 1 + 1)
  BY <1>1, <1>3, <1>7, Zenon
<1>9. /\ {p1, p2, p3, p4, p5} = (((({} \cup {p1}) \cup {p2}) \cup {p3}) \cup {p4}) \cup {p5}
      /\ {p1, p2, p3, p4, p5, p6}
           = ((((({} \cup {p1}) \cup {p2}) \cup {p3}) \cup {p4}) \cup {p5}) \cup {p6}
  OBVIOUS
<1>10. Small({p1, p2, p3, p4, p5}, 5) /\ Small({p1, p2, p3, p4, p5, p6}, 6)
  BY <1>7, <1>8, <1>9
<1> QED
  BY <1>10, FS_Subset, FS_CardinalityType DEF Small

\* The pages of an access: two, or one if it is no word across two pages.
LEMMA AccessIs ==
  ASSUME NEW a, NEW size
  PROVE  \E x, y : /\ AccessPages(a, size) = {x, y} /\ x = a \div 16
                   /\ ~Across(a, size) => x = y
<1>1. CASE Across(a, size)
  BY <1>1 DEF AccessPages
<1>2. CASE ~Across(a, size)
  BY <1>2 DEF AccessPages
<1> QED
  BY <1>1, <1>2

LEMMA ReadPagesAre ==
  ASSUME QInv, NEW k \in {1, 2}
  PROVE  \E x, y : ReadPages(k) \subseteq {x, y} /\ (OperandsInPages => x = y)
<1>1. PICK S : ops \in Seq(S)
  BY DEF QInv, WInv, PInv, PagesOK
<1>2. CASE k <= Len(ops) /\ InMemory(ops[k].o)
  <2>1. PICK x, y : /\ AccessPages(ops[k].at, ops[k].o.size) = {x, y}
                    /\ ~Across(ops[k].at, ops[k].o.size) => x = y
    BY AccessIs
  <2>2. k \in DOMAIN ops
    BY <1>1, <1>2
  <2> QED
    BY <1>2, <2>1, <2>2 DEF ReadPages, OperandsInPages
<1>3. CASE ~(k <= Len(ops) /\ InMemory(ops[k].o))
  BY <1>3 DEF ReadPages
<1> QED
  BY <1>2, <1>3

\* A frame that a call pushes is on two pages, as is one that a return pops.
LEMMA CallPagesAre ==
  ASSUME QInv
  PROVE  \E x, y : AccessPages(Slot(2), 1) \cup AccessPages(Slot(4), 1) \subseteq {x, y}
<1>1. SP \in Nat /\ SP - 4 \in Int /\ frame.addr \in Nat /\ Slot(4) \in Word
  <2>1. MachineOK
    BY DEF QInv, WInv
  <2>2. SP \in Word /\ frame.addr \in Word
    BY <2>1, SPIsWord DEF MachineOK
  <2>3. SP \in Nat /\ frame.addr \in Nat
    BY <2>2, WordIsInt
  <2>4. Wrap(SP - 4) \in Word
    BY <2>2, NextIsAddress
  <2>5. Wrap(frame.addr + Wrap(SP - 4)) \in Word
    BY <2>2, <2>4, SumIsAddress
  <2> QED
    BY <2>3, <2>4, <2>5 DEF Slot
<1>2. Slot(2) = Wrap(Slot(4) + 2)
  <2>1. Wrap(SP - 2) = Wrap(Wrap(SP - 4) + 2)
    <3>1. SP - 2 = (SP - 4) + 2
      BY <1>1
    <3> QED
      BY <1>1, <3>1, WrapSum
  <2>2. Wrap(frame.addr + Wrap(Wrap(SP - 4) + 2)) = Wrap(Wrap(frame.addr + Wrap(SP - 4)) + 2)
    <3>1. PICK b \in Int : b = Wrap(SP - 4)
      BY <1>1 DEF Wrap
    <3>2. PICK a \in Int : a = frame.addr
      BY <1>1
    <3>3. Wrap(a + Wrap(b + 2)) = Wrap(b + 2 + a) /\ Wrap(Wrap(a + b) + 2) = Wrap(a + b + 2)
      <4>1. b + 2 \in Int /\ a + b \in Int
        OBVIOUS
      <4> QED
        BY <4>1, WrapSum
    <3>4. b + 2 + a = a + b + 2
      OBVIOUS
    <3> QED
      BY <3>1, <3>2, <3>3, <3>4
  <2> QED
    BY <2>1, <2>2 DEF Slot
<1>3. Slot(4) = Wrap(Slot(4) + 0)
  BY <1>1, WordIsInt, WrapOfWord
<1>4. /\ AccessPages(Wrap(Slot(4) + 0), 1) \subseteq {Slot(4) \div 16, Wrap(Slot(4) + 16) \div 16}
      /\ AccessPages(Wrap(Slot(4) + 2), 1) \subseteq {Slot(4) \div 16, Wrap(Slot(4) + 16) \div 16}
  BY <1>1, PairOf
<1> QED
  BY <1>2, <1>3, <1>4

LEMMA ReturnPagesAre ==
  ASSUME WordPrograms, QInv, Decoded, Returning
  PROVE  \E x, y : ReturnPages \subseteq {x, y}
<1>1. SP \in Nat /\ ops[2].addr \in Nat
  BY ReturningHas, SPIsWord, WordIsInt DEF QInv, WInv
<1>2. PICK b \in Nat : \A k : PopAddress(k) = Wrap(b + SP + k)
  BY <1>1 DEF PopAddress
<1>3. PopAddress(0) \in Word /\ PopAddress(0) = Wrap(PopAddress(0) + 0)
      /\ PopAddress(2) = Wrap(PopAddress(0) + 2)
  <2>1. b + SP \in Nat /\ b + SP + 0 = b + SP
    BY <1>1
  <2>2. PopAddress(0) = Wrap(b + SP) /\ PopAddress(2) = Wrap(Wrap(b + SP) + 2)
    BY <1>2, <2>1, WrapSum
  <2>3. PopAddress(0) \in Word /\ PopAddress(0) \in Nat
    BY <2>1, <2>2, WrapsToWord, WordIsInt
  <2> QED
    BY <2>2, <2>3, WrapOfWord
<1>4. \A k \in {0, 2} : AccessPages(Wrap(PopAddress(0) + k), ops[2].o.size)
                          \subseteq {PopAddress(0) \div 16, Wrap(PopAddress(0) + 16) \div 16}
  BY <1>3, PairOf
<1> QED
  BY <1>3, <1>4 DEF ReturnPages

\* Two pages of code, at most four of data, and at most three of them if none of the
\* operands is a word across two pages.
LEMMA QInvFits == ASSUME WordPrograms, QInv PROVE FitsInTheCache
<1>1. SUFFICES \E p1, p2, p3, p4, p5, p6 :
                 /\ PagesNeeded \subseteq {p1, p2, p3, p4, p5, p6}
                 /\ OperandsInPages => PagesNeeded \subseteq {p1, p2, p3, p4, p5}
  BY SixAtMost DEF FitsInTheCache
<1>2. CASE stage \in {"start", "blocked"}
  <2>1. PagesNeeded = {}
    BY <1>2 DEF PagesNeeded, Decoded, QInv, WInv, PInv, PagesOK
  <2> QED
    BY <2>1
<1>3. CASE stage \in {"running", "halted", "strayed"}
  <2>1. PICK x1, y1 : ReadPages(1) \subseteq {x1, y1} /\ (OperandsInPages => x1 = y1)
    BY ReadPagesAre
  <2>2. PICK x2, y2 : ReadPages(2) \subseteq {x2, y2} /\ (OperandsInPages => x2 = y2)
    BY ReadPagesAre
  <2>3. PICK c1, c2 : CodePair(saved.pos) = {c1, c2}
    BY DEF CodePair
  <2>4. touched \subseteq {c1, c2} \cup ReadPages(1) \cup ReadPages(2)
    BY <1>3, <2>3 DEF QInv, WInv, PInv, PagesOK
  <2>5. CASE PagesNeeded \subseteq touched
    <3>1. PagesNeeded \subseteq {c1, c2, x1, x2, y1, y2}
      BY <2>1, <2>2, <2>4, <2>5
    <3>2. OperandsInPages => PagesNeeded \subseteq {c1, c2, x1, x2, y1}
      BY <2>1, <2>2, <3>1
    <3> QED
      BY <3>1, <3>2
  <2>6. CASE Decoded /\ Matched /\ Ins.op = "call"
    <3>1. ReadPages(2) = {}
      BY <2>6 DEF Decoded, Operands, ReadPages
    <3>2. PICK s, t : AccessPages(Slot(2), 1) \cup AccessPages(Slot(4), 1) \subseteq {s, t}
      BY CallPagesAre
    <3>3. PagesNeeded \subseteq {c1, c2, x1, s, t, y1}
      BY <2>1, <2>4, <2>6, <3>1, <3>2 DEF PagesNeeded
    <3>4. OperandsInPages => PagesNeeded \subseteq {c1, c2, x1, s, t}
      BY <2>1, <3>3
    <3> QED
      BY <3>3, <3>4
  <2>7. CASE Decoded /\ Matched /\ Ins.op \notin {"jmp", "call"} /\ Returning
    <3>1. ReadPages(1) = {}
      BY <2>7 DEF Returning, InMemory, ReadPages
    <3>2. PICK s, t : ReturnPages \subseteq {s, t}
      BY <2>7, ReturnPagesAre
    <3>3. PagesNeeded \subseteq {c1, c2, x2, s, t, y2}
      BY <2>2, <2>4, <2>7, <3>1, <3>2 DEF PagesNeeded
    <3>4. OperandsInPages => PagesNeeded \subseteq {c1, c2, x2, s, t}
      BY <2>2, <3>3
    <3> QED
      BY <3>3, <3>4
  <2>8. CASE Decoded /\ Matched /\ Ins.op \notin {"jmp", "call"} /\ ~Returning /\ InMemory(Dest)
    <3>1. Computing /\ ops # <<>> /\ stage = "running"
      <4>1. stage = "running" /\ WordInstruction(Ins) /\ Ins.op # "end"
        BY <2>8, RunningWords DEF Decoded, QInv, NearDest
      <4>2. Ins.op \in {"and", "or", "neg", "shift", "mov"}
        BY <2>8, <4>1 DEF WordInstruction
      <4> QED
        BY <2>8, <4>1, <4>2 DEF Computing, Decoded, Operands
    <3>2. PICK a : a = ops[1].at
      OBVIOUS
    <3>3. a \in Word
      BY <2>8, <3>1, <3>2 DEF QInv, NearDest, ReadAt, Dest
    <3>4. PICK s, t : s = a \div 16 /\ t = Wrap(a + 16) \div 16
      OBVIOUS
    <3>5. AccessPages(DestAddress, Dest.size) \subseteq {s, t}
      BY <2>8, <3>1, <3>2, <3>3, <3>4, DestIsNear, PairOf
    <3>6. ReadPages(1) \subseteq {s, t}
      <4>1. Wrap(a + 0) = a /\ 0 \in Nat
        BY <3>3, WordIsInt, WrapOfWord
      <4>2. AccessPages(Wrap(a + 0), Dest.size) \subseteq {s, t}
        BY <3>3, <3>4, <4>1, PairOf
      <4> QED
        BY <3>2, <4>1, <4>2 DEF ReadPages, Dest
    <3>7. PagesNeeded \subseteq {c1, c2, s, t, x2, y2}
      BY <2>2, <2>4, <2>8, <3>5, <3>6 DEF PagesNeeded
    <3>8. OperandsInPages => PagesNeeded \subseteq {c1, c2, s, t, x2}
      BY <2>2, <3>7
    <3> QED
      BY <3>7, <3>8
  <2> QED
    BY <2>5, <2>6, <2>7, <2>8 DEF PagesNeeded
<1> QED
  BY <1>2, <1>3 DEF QInv, WInv, PInv, PagesOK

\* The five slots of the webcam are enough for every instruction, wherever it begins and
\* whatever its operands point to, unless an operand is a word across two pages: then it
\* needs six at most, its code, its operands and its result or its frame included.
THEOREM FiveSlotsAreEnough ==
  ASSUME BitwiseOn(Word), BitwiseOn(Byte), WordPrograms, Memories \subseteq [Word -> Byte]
  PROVE  Spec /\ []RunsItsCode => []FitsInTheCache
<1>1. Init => QInv
  BY PInvInit, InitTyped DEF QInv, WInv, NearDest, Init
<1>2. QInv /\ RunsItsCode /\ [Next]_vars => QInv'
  BY WInvNext, NearDecode, NearOthers DEF QInv
<1>3. QInv => FitsInTheCache
  BY QInvFits
<1> QED
  BY <1>1, <1>2, <1>3, PTL DEF Spec

-----------------------------------------------------------------------------
(***************************************************************************)
(* Returns go back to their calls.                                         *)
(***************************************************************************)

\* Obfuscation is undone by doing it again.
XorUndoes(numbers) == \A v, k \in numbers : BitXor(BitXor(v, k), k) = v

\* The word of a frame that the stack has at s: where it is, and what is there for v.
Place(s) == IF frame.obf = 0 THEN s ELSE Wrap(frame.addr + s)
Hidden(s, v) == IF frame.obf = 0 THEN v ELSE BitXor(v, Mask(frame.addr, s, frame.obf))

Pair(a) == {a, Wrap(a + 1)}
FrameBytes(sp) == Pair(Place(Wrap(sp - 2))) \cup Pair(Place(Wrap(sp - 4)))

\* A return reads words of the kind that calls push.
ReturnsInKind ==
  /\ ops[2].o.size = 1
  /\ IF ops[2].o.type = "mem" THEN frame.obf = 0
     ELSE frame.obf # 0 /\ frame = [addr |-> ops[2].addr, obf |-> ops[2].o.obf]

DestBytes == IF Dest.size = 0 THEN {DestAddress} ELSE Pair(DestAddress)

\* What programs do with their stack: between a call and its return, calls and returns
\* alone move the stack pointer, nothing is stored in a frame, and the stack does not
\* come round to its own frames.
KeepsItsStack ==
  calls # <<>> =>
    /\ ~(Decoding /\ Pushing)
    /\ Computing =>
         /\ ~Popping /\ ~(Dest.type = "reg" /\ Dest.reg = 14)
         /\ InMemory(Dest) => \A n \in 1 .. Len(calls) : DestBytes \cap FrameBytes(calls[n].sp) = {}
    /\ Decoded /\ Matched /\ Returning => ReturnsInKind
    /\ Calling => Len(calls) < 16384

WordAt(m, a) == m[a] + 256 * m[Wrap(a + 1)]

\* The frame of a call holds where it is to return, in two words that lie in pages.
FrameHolds(m, c) ==
  /\ ~Across(Place(Wrap(c.sp - 2)), 1) /\ ~Across(Place(Wrap(c.sp - 4)), 1)
  /\ WordAt(m, Place(Wrap(c.sp - 2))) = Hidden(Wrap(c.sp - 2), c.ret \div 8)
  /\ WordAt(m, Place(Wrap(c.sp - 4))) = Hidden(Wrap(c.sp - 4), c.ret % 8)

\* The calls that have not returned, each frame below the one before.
CallOK(c) == Position(c.ret) /\ c.sp \in Word

StackOK ==
  /\ \E S : calls \in Seq(S)
  /\ Len(calls) <= 16384
  /\ \A n \in 1 .. Len(calls) :
       /\ CallOK(calls[n])
       /\ SP = Wrap(calls[n].sp - 4 * (Len(calls) - n + 1))
       /\ FrameHolds(mem, calls[n])
  /\ calls # <<>> /\ stage = "running" => saved.sp = SP

-----------------------------------------------------------------------------
(* Words in the memory.                                                    *)

LEMMA WrapDiffers ==
  ASSUME NEW a \in Int, NEW d \in Int, 0 < d, d < 65536
  PROVE  Wrap(a + d) # Wrap(a)
<1>1. PICK q \in Int, r \in Int : a = 65536 * q + r /\ 0 <= r /\ r < 65536 /\ a % 65536 = r
  <2> DEFINE q == a \div 65536  r == a % 65536
  <2>1. q \in Int /\ r \in Int /\ a = 65536 * q + r /\ 0 <= r /\ r < 65536
    OBVIOUS
  <2> QED
    BY <2>1
<1>2. CASE r + d < 65536
  <2>1. (a + d) % 65536 = r + d
    BY <1>1, <1>2
  <2> QED
    BY <1>1, <2>1 DEF Wrap
<1>3. CASE r + d >= 65536
  <2>1. (a + d) % 65536 = r + d - 65536
    BY <1>1, <1>3
  <2> QED
    BY <1>1, <2>1 DEF Wrap
<1> QED
  BY <1>1, <1>2, <1>3

LEMMA StoredSame ==
  ASSUME NEW m \in [Word -> Byte], NEW a \in Word, NEW size, NEW v, NEW x \in Word,
         Pair(x) \cap (IF size = 0 THEN {a} ELSE Pair(a)) = {}
  PROVE  WordAt(Stored(m, a, size, v), x) = WordAt(m, x)
<1>1. Wrap(x + 1) \in Word
  BY NextIsAddress
<1>2. \A y \in Word : y # a /\ (size # 0 => y # Wrap(a + 1)) => Stored(m, a, size, v)[y] = m[y]
  BY DEF Stored
<1>3. x # a /\ Wrap(x + 1) # a /\ (size # 0 => x # Wrap(a + 1) /\ Wrap(x + 1) # Wrap(a + 1))
  BY DEF Pair
<1> QED
  BY <1>1, <1>2, <1>3 DEF WordAt

LEMMA StoredThere ==
  ASSUME NEW m \in [Word -> Byte], NEW a \in Word, NEW v \in Word
  PROVE  WordAt(Stored(m, a, 1, v), a) = v
<1>1. Wrap(a + 1) \in Word
  BY NextIsAddress
<1>2. Wrap(a + 1) # a
  <2>1. a \in Int /\ 1 \in Int /\ 0 < 1 /\ 1 < 65536
    BY WordIsInt
  <2>2. Wrap(a + 1) # Wrap(a)
    BY <2>1, WrapDiffers
  <2> QED
    BY <2>2, WrapOfWord
<1>3. Stored(m, a, 1, v)[a] = Low(v) /\ Stored(m, a, 1, v)[Wrap(a + 1)] = High(v)
  BY <1>1, <1>2 DEF Stored
<1>4. v = 256 * High(v) + Low(v) /\ High(v) \in Byte /\ Low(v) \in Byte
  BY Halves
<1>5. Low(v) + 256 * High(v) = v
  <2>1. High(v) \in Int /\ Low(v) \in Int
    BY <1>4 DEF Byte
  <2> QED
    BY <1>4, <2>1
<1> QED
  BY <1>3, <1>5 DEF WordAt

LEMMA PlaceIsWord == ASSUME MachineOK, NEW s \in Word PROVE Place(s) \in Word
<1>1. Wrap(frame.addr + s) \in Word
  BY SumIsAddress DEF MachineOK
<1> QED
  BY <1>1 DEF Place

LEMMA HiddenIsWord ==
  ASSUME BitwiseOn(Word), BitwiseOn(Byte), MachineOK, NEW s \in Word, NEW v \in Word
  PROVE  Hidden(s, v) \in Word
<1>1. frame.addr \in Word /\ frame.obf \in 0 .. 63
  BY DEF MachineOK
<1>2. Mask(frame.addr, s, frame.obf) \in Word
  BY <1>1, MaskIsWord
<1> QED
  BY <1>2 DEF Hidden, BitwiseOn

\* A byte of a frame is so far below the stack pointer of its call.
FrameBase == IF frame.obf = 0 THEN 0 ELSE frame.addr

LEMMA PlaceIs ==
  ASSUME MachineOK, NEW s \in Int, NEW k \in Int
  PROVE  /\ Place(Wrap(s - k)) = Wrap(FrameBase + s - k)
         /\ Wrap(Place(Wrap(s - k)) + 1) = Wrap(FrameBase + s - (k - 1))
<1>1. frame.addr \in Int
  BY WordIsInt DEF MachineOK
<1>2. FrameBase \in Int /\ s - k \in Int
  BY <1>1 DEF FrameBase
<1>3. Place(Wrap(s - k)) = Wrap(FrameBase + s - k)
  <2>1. CASE frame.obf = 0
    <3>1. FrameBase + s - k = s - k
      BY <1>2, <2>1 DEF FrameBase
    <3> QED
      BY <2>1, <3>1 DEF Place
  <2>2. CASE frame.obf # 0
    <3>1. Place(Wrap(s - k)) = Wrap(FrameBase + Wrap(s - k)) /\ FrameBase + s - k = s - k + FrameBase
      BY <1>2, <2>2 DEF Place, FrameBase
    <3> QED
      BY <1>2, <3>1, WrapSum
  <2> QED
    BY <2>1, <2>2
<1>4. FrameBase + s - k \in Int /\ FrameBase + s - k + 1 = FrameBase + s - (k - 1)
  BY <1>2
<1> QED
  BY <1>3, <1>4, WrapSum

LEMMA FrameIs ==
  ASSUME MachineOK, NEW s \in Int
  PROVE  /\ Pair(Place(Wrap(s - 2))) = {Wrap(FrameBase + s - 2), Wrap(FrameBase + s - 1)}
         /\ Pair(Place(Wrap(s - 4))) = {Wrap(FrameBase + s - 4), Wrap(FrameBase + s - 3)}
<1>1. \A k \in {2, 4} : /\ Place(Wrap(s - k)) = Wrap(FrameBase + s - k)
                        /\ Wrap(Place(Wrap(s - k)) + 1) = Wrap(FrameBase + s - (k - 1))
  <2> SUFFICES ASSUME NEW k \in {2, 4}
               PROVE  /\ Place(Wrap(s - k)) = Wrap(FrameBase + s - k)
                      /\ Wrap(Place(Wrap(s - k)) + 1) = Wrap(FrameBase + s - (k - 1))
    OBVIOUS
  <2>1. k \in Int
    OBVIOUS
  <2> QED
    BY <2>1, PlaceIs
<1>2. 2 - 1 = 1 /\ 4 - 1 = 3
  OBVIOUS
<1> QED
  BY <1>1, <1>2 DEF Pair

Depths == {d \in Nat : 1 <= d /\ d <= 16383}

LEMMA DepthIs ==
  /\ \A d \in Depths : d \in Int /\ 1 <= d /\ d <= 16383
  /\ \A d \in Nat : 1 <= d /\ d < 16384 => d \in Depths
  BY DEF Depths

\* The stack pointer does not come round to a frame that is less than 16384 frames above.
LEMMA FramesApart ==
  ASSUME MachineOK, NEW s \in Int, NEW d \in Depths
  PROVE  FrameBytes(s) \cap FrameBytes(Wrap(s - 4 * d)) = {}
<1>0. d \in Int /\ 1 <= d /\ d <= 16383
  BY DepthIs
<1>1. FrameBase \in Int
  BY WordIsInt DEF MachineOK, FrameBase
<1> DEFINE t == Wrap(s - 4 * d)
<1>2. t \in Int
  BY <1>0 DEF Wrap
<1>3. \A j \in 1 .. 4 : Wrap(FrameBase + t - j) = Wrap(FrameBase + s - 4 * d - j)
  <2> SUFFICES ASSUME NEW j \in 1 .. 4 PROVE Wrap(FrameBase + t - j) = Wrap(FrameBase + s - 4 * d - j)
    OBVIOUS
  <2>1. FrameBase - j \in Int /\ s - 4 * d \in Int
    BY <1>0, <1>1
  <2>2. Wrap((FrameBase - j) + Wrap(s - 4 * d)) = Wrap((s - 4 * d) + (FrameBase - j))
    BY <2>1, WrapSum
  <2>3. (FrameBase - j) + Wrap(s - 4 * d) = FrameBase + t - j
        /\ (s - 4 * d) + (FrameBase - j) = FrameBase + s - 4 * d - j
    BY <1>0, <1>1, <1>2
  <2> QED
    BY <2>2, <2>3
<1> HIDE DEF t
<1>4. ASSUME NEW j \in 1 .. 4, NEW k \in 1 .. 4
      PROVE  Wrap(FrameBase + s - k) # Wrap(FrameBase + t - j)
  <2>1. PICK a \in Int : a = FrameBase + s - 4 * d - j
    BY <1>0, <1>1
  <2>2. PICK e \in Int : e = 4 * d + j - k
    BY <1>0
  <2>3. 0 < e /\ e < 65536 /\ a + e = FrameBase + s - k
    <3>1. 1 <= j /\ j <= 4 /\ 1 <= k /\ k <= 4 /\ j \in Int /\ k \in Int
      OBVIOUS
    <3> QED
      BY <1>0, <1>1, <2>1, <2>2, <3>1
  <2>4. Wrap(a + e) # Wrap(a)
    BY <2>1, <2>2, <2>3, WrapDiffers
  <2> QED
    BY <1>3, <2>1, <2>3, <2>4
<1>5. FrameBytes(s) = {Wrap(FrameBase + s - 2), Wrap(FrameBase + s - 1), Wrap(FrameBase + s - 4), Wrap(FrameBase + s - 3)}
  BY FrameIs DEF FrameBytes
<1>6. FrameBytes(t) = {Wrap(FrameBase + t - 2), Wrap(FrameBase + t - 1), Wrap(FrameBase + t - 4), Wrap(FrameBase + t - 3)}
  BY <1>2, FrameIs DEF FrameBytes
<1>7. \A x \in FrameBytes(s) : x \notin FrameBytes(t)
  BY <1>4, <1>5, <1>6
<1>8. FrameBytes(s) \cap FrameBytes(t) = {}
  BY <1>7
<1> QED
  BY <1>8 DEF t

LEMMA FrameStays ==
  ASSUME BitwiseOn(Word), BitwiseOn(Byte), MachineOK, NEW m \in [Word -> Byte], NEW a \in Word, NEW size, NEW v,
         NEW c, CallOK(c), FrameHolds(m, c),
         FrameBytes(c.sp) \cap (IF size = 0 THEN {a} ELSE Pair(a)) = {}
  PROVE  FrameHolds(Stored(m, a, size, v), c)
<1>1. c.sp \in Word
  BY DEF CallOK
<1>2. Wrap(c.sp - 2) \in Word /\ Wrap(c.sp - 4) \in Word
  BY <1>1, NextIsAddress
<1>3. Place(Wrap(c.sp - 2)) \in Word /\ Place(Wrap(c.sp - 4)) \in Word
  BY <1>2, PlaceIsWord
<1>4. /\ Pair(Place(Wrap(c.sp - 2))) \cap (IF size = 0 THEN {a} ELSE Pair(a)) = {}
      /\ Pair(Place(Wrap(c.sp - 4))) \cap (IF size = 0 THEN {a} ELSE Pair(a)) = {}
  BY DEF FrameBytes
<1>5. /\ WordAt(Stored(m, a, size, v), Place(Wrap(c.sp - 2))) = WordAt(m, Place(Wrap(c.sp - 2)))
      /\ WordAt(Stored(m, a, size, v), Place(Wrap(c.sp - 4))) = WordAt(m, Place(Wrap(c.sp - 4)))
  BY <1>3, <1>4, StoredSame
<1> QED
  BY <1>5 DEF FrameHolds

LEMMA PushedIs ==
  ASSUME NEW m, NEW k, NEW v
  PROVE  Slot(k) = Place(Wrap(SP - k)) /\ Pushed(m, k, v) = Stored(m, Slot(k), 1, Hidden(Wrap(SP - k), v))
  BY DEF Slot, Place, Pushed, Hidden

RInv == WInv /\ StackOK

\* What a call pushes is not in the frames above.
LEMMA PushKeeps ==
  ASSUME BitwiseOn(Word), BitwiseOn(Byte), RInv, Len(calls) < 16384,
         NEW k \in {2, 4}, NEW m \in [Word -> Byte], NEW v,
         NEW n \in 1 .. Len(calls), FrameHolds(m, calls[n])
  PROVE  FrameHolds(Pushed(m, k, v), calls[n])
<1>1. MachineOK /\ CallOK(calls[n]) /\ SP = Wrap(calls[n].sp - 4 * (Len(calls) - n + 1)) /\ Len(calls) \in Nat
  BY DEF RInv, WInv, StackOK
<1>2. calls[n].sp \in Int /\ SP \in Word /\ SP \in Int
  BY <1>1, WordIsInt, SPIsWord DEF CallOK
<1>3. PICK d \in Depths : d = Len(calls) - n + 1
  <2>1. Len(calls) - n + 1 \in Nat /\ 1 <= Len(calls) - n + 1 /\ Len(calls) - n + 1 < 16384
    BY <1>1
  <2> QED
    BY <2>1, DepthIs
<1>4. FrameBytes(calls[n].sp) \cap FrameBytes(SP) = {}
  <2>1. SP = Wrap(calls[n].sp - 4 * d)
    BY <1>1, <1>3
  <2>2. FrameBytes(calls[n].sp) \cap FrameBytes(Wrap(calls[n].sp - 4 * d)) = {}
    BY <1>1, <1>2, <1>3, FramesApart
  <2> QED
    BY <2>1, <2>2
<1>5. Slot(k) = Place(Wrap(SP - k)) /\ Pushed(m, k, v) = Stored(m, Slot(k), 1, Hidden(Wrap(SP - k), v))
  BY PushedIs
<1>6. Pair(Slot(k)) \subseteq FrameBytes(SP)
  BY <1>5 DEF FrameBytes
<1>7. Slot(k) \in Word
  <2>1. Wrap(SP - 2) \in Word /\ Wrap(SP - 4) \in Word
    BY <1>2, NextIsAddress
  <2>2. Place(Wrap(SP - 2)) \in Word /\ Place(Wrap(SP - 4)) \in Word
    BY <1>1, <2>1, PlaceIsWord
  <2> QED
    BY <1>5, <2>2
<1>8. FrameBytes(calls[n].sp) \cap (IF 1 = 0 THEN {Slot(k)} ELSE Pair(Slot(k))) = {}
  BY <1>4, <1>6
<1> QED
  BY <1>1, <1>5, <1>7, <1>8, FrameStays

LEMMA ThreeDiffer ==
  ASSUME NEW b \in Int
  PROVE  Wrap(b + 1) # Wrap(b) /\ Wrap(b + 2) # Wrap(b) /\ Wrap(b + 3) # Wrap(b)
<1>1. \A e \in {1, 2, 3} : Wrap(b + e) # Wrap(b)
  <2> SUFFICES ASSUME NEW e \in {1, 2, 3} PROVE Wrap(b + e) # Wrap(b)
    OBVIOUS
  <2>1. e \in Int /\ 0 < e /\ e < 65536
    OBVIOUS
  <2> QED
    BY <2>1, WrapDiffers
<1> QED
  BY <1>1

\* The two words of a frame are apart.
LEMMA HalvesApart ==
  ASSUME MachineOK, NEW s \in Int
  PROVE  Pair(Place(Wrap(s - 2))) \cap Pair(Place(Wrap(s - 4))) = {}
<1>1. FrameBase + s - 4 \in Int
  BY WordIsInt DEF MachineOK, FrameBase
<1>2. PICK a \in Int : a = FrameBase + s - 4
  BY <1>1
<1>3. /\ FrameBase + s - 3 = a + 1 /\ FrameBase + s - 2 = a + 2 /\ FrameBase + s - 1 = a + 3
      /\ FrameBase + s - 2 = (a + 1) + 1 /\ FrameBase + s - 1 = (a + 1) + 2
  <2>1. FrameBase \in Int
    BY WordIsInt DEF MachineOK, FrameBase
  <2> QED
    BY <1>2, <2>1
<1>4. Wrap(a + 2) # Wrap(a) /\ Wrap(a + 3) # Wrap(a)
  BY <1>2, ThreeDiffer
<1>5. Wrap((a + 1) + 1) # Wrap(a + 1) /\ Wrap((a + 1) + 2) # Wrap(a + 1)
  <2>1. PICK b \in Int : b = a + 1
    BY <1>2
  <2>2. Wrap(b + 1) # Wrap(b) /\ Wrap(b + 2) # Wrap(b)
    BY <2>1, ThreeDiffer
  <2> QED
    BY <2>1, <2>2
<1>6. /\ Pair(Place(Wrap(s - 2))) = {Wrap(a + 2), Wrap(a + 3)}
      /\ Pair(Place(Wrap(s - 4))) = {Wrap(a), Wrap(a + 1)}
  BY <1>2, <1>3, FrameIs
<1>7. Wrap(a + 2) # Wrap(a + 1) /\ Wrap(a + 3) # Wrap(a + 1)
  BY <1>2, <1>3, <1>5
<1> QED
  BY <1>4, <1>6, <1>7

LEMMA PositionParts ==
  ASSUME NEW p, Position(p)
  PROVE  p \div 8 \in Word /\ p % 8 \in Word /\ 8 * (p \div 8) + (p % 8) = p /\ p % 8 <= 7
<1>1. p % 8 \in Int /\ Wrap(p % 8) = p % 8
  BY DEF Position, Wrap
<1>2. 8 * (p \div 8) + (p % 8) = p /\ p % 8 <= 7
  BY DEF Position
<1> QED
  BY <1>1, <1>2, ByteOfPosition, Unwrapped

\* A call leaves where it returns in its frame.
LEMMA PushHolds ==
  ASSUME BitwiseOn(Word), BitwiseOn(Byte), MachineOK, ~SlotAcross
  PROVE  FrameHolds(Pushed(PushedByte, 4, pos % 8), [ret |-> pos, sp |-> SP])
<1>1. Position(pos) /\ SP \in Word /\ SP \in Int /\ mem \in [Word -> Byte]
  BY SPIsWord, WordIsInt DEF MachineOK
<1>2. pos \div 8 \in Word /\ pos % 8 \in Word
  BY <1>1, PositionParts
<1>3. Wrap(SP - 2) \in Word /\ Wrap(SP - 4) \in Word
  BY <1>1, NextIsAddress
<1>4. /\ Place(Wrap(SP - 2)) \in Word /\ Place(Wrap(SP - 4)) \in Word
      /\ Hidden(Wrap(SP - 2), pos \div 8) \in Word /\ Hidden(Wrap(SP - 4), pos % 8) \in Word
  BY <1>2, <1>3, PlaceIsWord, HiddenIsWord
<1>5. PushedByte = Stored(mem, Place(Wrap(SP - 2)), 1, Hidden(Wrap(SP - 2), pos \div 8))
  BY PushedIs DEF PushedByte
<1>6. Pushed(PushedByte, 4, pos % 8)
        = Stored(PushedByte, Place(Wrap(SP - 4)), 1, Hidden(Wrap(SP - 4), pos % 8))
  BY PushedIs
<1>7. PushedByte \in [Word -> Byte]
  BY FramePushed
<1>8. WordAt(PushedByte, Place(Wrap(SP - 2))) = Hidden(Wrap(SP - 2), pos \div 8)
  BY <1>1, <1>4, <1>5, StoredThere
<1>9. WordAt(Pushed(PushedByte, 4, pos % 8), Place(Wrap(SP - 4))) = Hidden(Wrap(SP - 4), pos % 8)
  BY <1>4, <1>6, <1>7, StoredThere
<1>10. Pair(Place(Wrap(SP - 2))) \cap (IF 1 = 0 THEN {Place(Wrap(SP - 4))} ELSE Pair(Place(Wrap(SP - 4)))) = {}
  BY <1>1, HalvesApart
<1>11. WordAt(Pushed(PushedByte, 4, pos % 8), Place(Wrap(SP - 2))) = WordAt(PushedByte, Place(Wrap(SP - 2)))
  BY <1>4, <1>6, <1>7, <1>10, StoredSame
<1>12. ~Across(Place(Wrap(SP - 2)), 1) /\ ~Across(Place(Wrap(SP - 4)), 1)
  BY PushedIs DEF SlotAcross
<1> QED
  BY <1>8, <1>9, <1>11, <1>12 DEF FrameHolds

LEMMA CallIs ==
  ASSUME NEW c, CallOK(c)
  PROVE  /\ c.sp \in Word /\ c.sp \in Int /\ Position(c.ret)
         /\ Wrap(c.sp - 2) \in Word /\ Wrap(c.sp - 4) \in Word /\ Wrap(c.sp) = c.sp
<1>1. c.sp \in Word /\ Position(c.ret)
  BY DEF CallOK
<1>2. c.sp \in Int
  BY <1>1, WordIsInt
<1>3. Wrap(c.sp) = c.sp
  BY <1>1, WrapOfWord
<1>4. c.sp - 2 \in Int /\ c.sp - 4 \in Int
  BY <1>2
<1>5. Wrap(c.sp - 2) \in Word /\ Wrap(c.sp - 4) \in Word
  BY <1>4, WrapsToWord
<1> QED
  BY <1>1, <1>2, <1>3, <1>5

LEMMA StackMoves ==
  ASSUME NEW s \in Int, NEW d \in Int
  PROVE  /\ Wrap(Wrap(s - 4 * d) - 4) = Wrap(s - 4 * (d + 1))
         /\ Wrap(Wrap(s - 4 * d) + 4) = Wrap(s - 4 * (d - 1))
         /\ Wrap(Wrap(s - 4) + 2) = Wrap(s - 2) /\ Wrap(Wrap(s - 4) + 0) = Wrap(s - 4)
         /\ Wrap(Wrap(s - 4) + 4) = Wrap(s)
<1>1. \A a, b \in Int : Wrap(Wrap(a) + b) = Wrap(a + b) /\ Wrap(Wrap(a) - b) = Wrap(a - b)
  BY WrapSum
<1>2. s - 4 * d \in Int /\ s - 4 \in Int
  OBVIOUS
<1>3. /\ Wrap(Wrap(s - 4 * d) - 4) = Wrap((s - 4 * d) - 4)
      /\ Wrap(Wrap(s - 4 * d) + 4) = Wrap((s - 4 * d) + 4)
      /\ Wrap(Wrap(s - 4) + 2) = Wrap((s - 4) + 2) /\ Wrap(Wrap(s - 4) + 0) = Wrap((s - 4) + 0)
      /\ Wrap(Wrap(s - 4) + 4) = Wrap((s - 4) + 4)
  BY <1>1, <1>2
<1>4. /\ (s - 4 * d) - 4 = s - 4 * (d + 1) /\ (s - 4 * d) + 4 = s - 4 * (d - 1)
      /\ (s - 4) + 2 = s - 2 /\ (s - 4) + 0 = s - 4 /\ (s - 4) + 4 = s
  OBVIOUS
<1> QED
  BY <1>3, <1>4

LEMMA FramesKept ==
  ASSUME BitwiseOn(Word), BitwiseOn(Byte), RInv, Len(calls) < 16384
  PROVE  \A n \in 1 .. Len(calls) : /\ FrameHolds(PushedByte, calls[n])
                                    /\ FrameHolds(Pushed(PushedByte, 4, pos % 8), calls[n])
<1> SUFFICES ASSUME NEW n \in 1 .. Len(calls)
             PROVE  /\ FrameHolds(PushedByte, calls[n])
                    /\ FrameHolds(Pushed(PushedByte, 4, pos % 8), calls[n])
  OBVIOUS
<1>1. FrameHolds(mem, calls[n]) /\ MachineOK /\ mem \in [Word -> Byte]
  BY DEF RInv, WInv, StackOK, MachineOK
<1>2. PushedByte \in [Word -> Byte] /\ 2 \in {2, 4} /\ 4 \in {2, 4}
  BY <1>1, FramePushed
<1>3. FrameHolds(PushedByte, calls[n])
  BY <1>1, <1>2, PushKeeps DEF PushedByte
<1> QED
  BY <1>2, <1>3, PushKeeps

LEMMA StackPointer == ASSUME RInv PROVE SP \in Word /\ SP \in Int /\ SP = regs[14]
<1>1. SP \in Word
  BY SPIsWord DEF RInv, WInv
<1> QED
  BY <1>1, WordIsInt DEF SP

-----------------------------------------------------------------------------
(* The steps.                                                              *)

LEMMA NoFrames == ASSUME calls' = <<>> PROVE StackOK'
<1>1. calls' \in Seq({}) /\ Len(calls') = 0
  OBVIOUS
<1> QED
  BY <1>1 DEF StackOK

LEMMA SameFrames ==
  ASSUME frame' = frame
  PROVE  \A c : FrameHolds(mem, c)' <=> FrameHolds(mem', c)
<1>1. \A s : Place(s)' = Place(s) /\ \A v : Hidden(s, v)' = Hidden(s, v)
  BY DEF Place, Hidden
<1> QED
  BY <1>1 DEF FrameHolds

\* A step that leaves the calls, their frames and the stack pointer alone.
LEMMA StackStays ==
  ASSUME StackOK, UNCHANGED <<calls, frame>>, regs'[14] = regs[14],
         \A n \in 1 .. Len(calls) : FrameHolds(mem', calls[n]),
         stage' = "running" => saved'.sp = regs[14]
  PROVE  StackOK'
<1>1. SP' = SP /\ SP = regs[14]
  BY DEF SP
<1>2. \A n \in 1 .. Len(calls) : FrameHolds(mem, calls[n])'
  BY SameFrames
<1> QED
  BY <1>1, <1>2 DEF StackOK

\* The steps that store nothing.
LEMMA StackUnseen ==
  ASSUME StackOK, UNCHANGED <<calls, frame, mem>>, regs'[14] = regs[14],
         stage' = "running" => saved'.sp = regs[14]
  PROVE  StackOK'
<1>1. \A n \in 1 .. Len(calls) : FrameHolds(mem', calls[n])
  BY DEF StackOK
<1> QED
  BY <1>1, StackStays

LEMMA RunningSP == ASSUME StackOK, calls # <<>>, stage = "running" PROVE saved.sp = regs[14]
  BY DEF StackOK, SP

LEMMA FaultRestores ==
  ASSUME RInv, calls # <<>>, stage = "running", NEW pages, NEW rs \in [0 .. 14 -> Word], Fault(pages, rs)
  PROVE  regs'[14] = regs[14] /\ stage' = "blocked" /\ UNCHANGED <<calls, frame>>
<1>1. regs' = [rs EXCEPT ![14] = saved.sp] /\ 14 \in 0 .. 14
  BY DEF Fault
<1>2. regs'[14] = saved.sp
  BY <1>1
<1> QED
  BY <1>2, RunningSP DEF RInv, Fault

LEMMA ReadersKeepStack ==
  ASSUME RInv, KeepsItsStack, calls # <<>>,
         \/ Begin \/ BeginFault \/ Serve \/ DecodeOperand \/ OperandFault \/ ExecuteFault
         \/ Skip \/ Jump \/ ReturnFault \/ UNCHANGED vars
  PROVE  StackOK'
<1>0. StackOK /\ MachineOK /\ regs \in [0 .. 14 -> Word]
  BY DEF RInv, WInv, MachineOK
<1>1. CASE Begin \/ BeginFault \/ Serve
  BY <1>0, <1>1, StackUnseen DEF Begin, BeginFault, Starting, Serve, SP
<1>2. CASE DecodeOperand
  <2>1. ~Pushing /\ stage = "running"
    BY <1>2 DEF KeepsItsStack, DecodeOperand, Decoding
  <2>2. UNCHANGED <<regs, mem, frame, calls, saved, stage>>
    BY <1>2, <2>1 DEF DecodeOperand
  <2> QED
    BY <1>0, <2>1, <2>2, RunningSP, StackUnseen
<1>3. CASE OperandFault \/ ReturnFault
  <2>1. stage = "running" /\ UNCHANGED mem
    BY <1>3 DEF OperandFault, ReturnFault, Decoding, Decoded
  <2>2. PICK pages : Fault(pages, regs)
    BY <1>3 DEF OperandFault, ReturnFault
  <2> QED
    BY <1>0, <2>1, <2>2, FaultRestores, StackUnseen
<1>4. CASE ExecuteFault
  <2>1. stage = "running" /\ UNCHANGED mem /\ Fault(DestPage, RegsAtSave)
    BY <1>4 DEF ExecuteFault, Computing, Decoded
  <2> QED
    BY <1>0, <2>1, RegsAtSaveTyped, FaultRestores, StackUnseen
<1>5. CASE Skip \/ Jump
  BY <1>0, <1>5, StackUnseen DEF Skip, Jump, Done
<1>6. CASE UNCHANGED vars
  <2>1. UNCHANGED <<regs, mem, frame, calls, saved, stage>>
    BY <1>6 DEF vars
  <2> QED
    BY <1>0, <2>1, RunningSP, StackUnseen
<1> QED
  BY <1>1, <1>2, <1>3, <1>4, <1>5, <1>6

LEMMA ExecuteKeepsStack ==
  ASSUME BitwiseOn(Word), BitwiseOn(Byte), WordPrograms, RInv, KeepsItsStack, calls # <<>>, Execute
  PROVE  StackOK'
<1>0. StackOK /\ MachineOK /\ WInv /\ Computing /\ mem \in [Word -> Byte] /\ regs \in [0 .. 14 -> Word]
  BY DEF RInv, WInv, MachineOK, Execute
<1>1. ~Popping /\ ~(Dest.type = "reg" /\ Dest.reg = 14)
  BY <1>0 DEF KeepsItsStack
<1>2. regs'[14] = regs[14]
  BY <1>1, <1>0 DEF Execute, RegsAtSave
<1>3. stage' = "start" /\ UNCHANGED <<calls, frame>>
  BY DEF Execute, Done
<1>4. DestAddress \in Word
  BY <1>0, DestTyped
<1>5. ASSUME NEW n \in 1 .. Len(calls)
      PROVE  FrameHolds(mem', calls[n])
  <2>1. CallOK(calls[n]) /\ FrameHolds(mem, calls[n])
    BY <1>0, <1>5 DEF StackOK
  <2>2. CASE InMemory(Dest)
    <3>1. PICK v : mem' = Stored(mem, DestAddress, Dest.size, v)
      BY <2>2 DEF Execute, InMemory
    <3>2. DestBytes \cap FrameBytes(calls[n].sp) = {}
      BY <1>0, <1>5, <2>2 DEF KeepsItsStack
    <3>3. FrameBytes(calls[n].sp) \cap (IF Dest.size = 0 THEN {DestAddress} ELSE Pair(DestAddress)) = {}
      BY <3>2 DEF DestBytes
    <3> QED
      BY <1>0, <1>4, <2>1, <3>1, <3>3, FrameStays
  <2>3. CASE ~InMemory(Dest)
    <3>1. mem' = mem
      BY <2>3 DEF Execute, InMemory
    <3> QED
      BY <2>1, <3>1
  <2> QED
    BY <2>2, <2>3
<1> QED
  BY <1>0, <1>2, <1>3, <1>5, StackStays

LEMMA CallFaultKeepsStack ==
  ASSUME BitwiseOn(Word), BitwiseOn(Byte), RInv, KeepsItsStack, calls # <<>>, CallFault
  PROVE  StackOK'
<1>0. StackOK /\ MachineOK /\ Calling /\ stage = "running" /\ mem \in [Word -> Byte]
      /\ regs \in [0 .. 14 -> Word] /\ Len(calls) < 16384
  BY DEF RInv, WInv, MachineOK, CallFault, Calling, Decoded, KeepsItsStack
<1>1. RegsAfterCall \in [0 .. 14 -> Word]
  BY <1>0, FramePushed
<1>2. \E pages : Fault(pages, regs) \/ Fault(pages, RegsAfterCall)
  BY DEF CallFault
<1>3. regs'[14] = regs[14] /\ stage' = "blocked" /\ UNCHANGED <<calls, frame>>
  BY <1>0, <1>1, <1>2, FaultRestores
<1>4. ASSUME NEW n \in 1 .. Len(calls)
      PROVE  FrameHolds(mem', calls[n])
  <2>1. FrameHolds(mem, calls[n])
    BY <1>0, <1>4 DEF StackOK
  <2>2. FrameHolds(PushedByte, calls[n])
    BY <1>0, <2>1, PushKeeps DEF PushedByte
  <2>3. mem' = mem \/ mem' = PushedByte
    BY DEF CallFault
  <2> QED
    BY <2>1, <2>2, <2>3
<1> QED
  BY <1>0, <1>3, <1>4, StackStays

LEMMA CallKeepsStack ==
  ASSUME BitwiseOn(Word), BitwiseOn(Byte), RInv, KeepsItsStack, Call
  PROVE  StackOK'
<1>0. StackOK /\ MachineOK /\ Calling /\ mem \in [Word -> Byte] /\ regs \in [0 .. 14 -> Word]
      /\ Len(calls) < 16384 /\ Position(pos) /\ SP \in Word /\ SP \in Int
  <2>1. Calling
    BY DEF Call
  <2>2. Len(calls) < 16384
    <3>1. CASE calls = <<>>
      <4>1. Len(calls) = 0
        BY <3>1
      <4> QED
        BY <4>1
    <3>2. CASE calls # <<>>
      BY <2>1, <3>2 DEF KeepsItsStack
    <3> QED
      BY <3>1, <3>2
  <2>3. SP \in Word /\ SP \in Int
    BY StackPointer
  <2> QED
    BY <2>1, <2>2, <2>3 DEF RInv, WInv, MachineOK
<1> DEFINE r == [ret |-> pos, sp |-> SP]
           top == Len(calls) + 1
<1>1. PICK S : calls \in Seq(S)
  BY <1>0 DEF StackOK
<1>2. /\ calls' = Append(calls, r) /\ stage' = "start" /\ UNCHANGED frame
      /\ mem' = Pushed(PushedByte, 4, pos % 8) /\ regs' = RegsAfterCall
  BY DEF Call, Done
<1>3. /\ calls' \in Seq(S \cup {r}) /\ Len(calls') = top /\ Len(calls) \in Nat
      /\ calls'[top] = r /\ \A n \in 1 .. Len(calls) : calls'[n] = calls[n]
  BY <1>1, <1>2
<1>4. SP' = Wrap(SP - 4)
  BY <1>0, <1>2 DEF RegsAfterCall, SP
<1>5. ASSUME NEW n \in 1 .. top
      PROVE  /\ CallOK(calls'[n]) /\ SP' = Wrap(calls'[n].sp - 4 * (top - n + 1))
             /\ FrameHolds(mem', calls'[n])
  <2>1. CASE n = top
    <3>1. CallOK(r) /\ r.sp = SP
      BY <1>0 DEF CallOK
    <3>2. FrameHolds(mem', r)
      BY <1>0, <1>2, PushHolds DEF Call
    <3>3. 4 * (top - n + 1) = 4
      BY <1>3, <2>1
    <3> QED
      BY <1>3, <1>4, <2>1, <3>1, <3>2, <3>3
  <2>2. CASE n # top
    <3>1. n \in 1 .. Len(calls) /\ n \in Int
      BY <1>3, <2>2
    <3>2. CallOK(calls[n]) /\ FrameHolds(mem, calls[n]) /\ SP = Wrap(calls[n].sp - 4 * (Len(calls) - n + 1))
      BY <1>0, <3>1 DEF StackOK
    <3>3. FrameHolds(mem', calls[n])
      BY <1>0, <1>2, <3>1, FramesKept
    <3>4. SP' = Wrap(calls[n].sp - 4 * (top - n + 1))
      <4>1. calls[n].sp \in Int
        BY <3>2, CallIs
      <4>2. PICK d \in Int : d = Len(calls) - n + 1
        BY <1>3, <3>1
      <4>3. d + 1 = top - n + 1
        BY <1>3, <3>1, <4>2
      <4>4. Wrap(Wrap(calls[n].sp - 4 * d) - 4) = Wrap(calls[n].sp - 4 * (d + 1))
        BY <4>1, <4>2, StackMoves
      <4> QED
        BY <1>4, <3>2, <4>2, <4>3, <4>4
    <3> QED
      BY <1>3, <3>1, <3>2, <3>3, <3>4
  <2> QED
    BY <2>1, <2>2
<1>6. \A c : FrameHolds(mem, c)' <=> FrameHolds(mem', c)
  BY <1>2, SameFrames
<1>7. Len(calls') <= 16384
  BY <1>0, <1>3
<1> HIDE DEF top
<1> QED
  BY <1>2, <1>3, <1>5, <1>6, <1>7 DEF StackOK

\* The last of the calls.
LEMMA LastCall ==
  ASSUME RInv, calls # <<>>
  PROVE  /\ Last(calls) = calls[Len(calls)] /\ Len(calls) \in Nat /\ Len(calls) >= 1
         /\ CallOK(Last(calls)) /\ FrameHolds(mem, Last(calls)) /\ SP = Wrap(Last(calls).sp - 4)
<1>1. PICK S : calls \in Seq(S)
  BY DEF RInv, StackOK
<1>2. Len(calls) \in Nat /\ Len(calls) >= 1 /\ Len(calls) \in 1 .. Len(calls)
  BY <1>1
<1>3. 4 * (Len(calls) - Len(calls) + 1) = 4
  BY <1>2
<1> QED
  BY <1>2, <1>3 DEF RInv, StackOK, Last

LEMMA ReturnKeepsStack ==
  ASSUME RInv, KeepsItsStack, calls # <<>>, Return
  PROVE  StackOK'
<1>0. StackOK /\ MachineOK /\ regs \in [0 .. 14 -> Word] /\ SP \in Int
  BY StackPointer DEF RInv, WInv, MachineOK
<1>1. frame' = frame
  <2>1. ReturnsInKind
    BY DEF KeepsItsStack, Return
  <2>2. ops[2].o.type = "mem" \/ ops[2].o.type = "obf"
    BY DEF Return, Returning, Popping, OnStack
  <2> QED
    BY <2>1, <2>2 DEF ReturnsInKind, Return
<1>2. calls' = Front(calls) /\ stage' = "start" /\ mem' = mem /\ SP' = Wrap(SP + 4)
  BY <1>0 DEF Return, Done, SP
<1>3. PICK S : calls \in Seq(S)
  BY <1>0 DEF StackOK
<1> DEFINE top == Len(calls) - 1
<1>4. /\ calls' \in Seq(S) /\ Len(calls') = top /\ top \in Nat /\ Len(calls) \in Nat
      /\ \A n \in 1 .. top : calls'[n] = calls[n]
  <2>1. Len(calls) \in Nat /\ Len(calls) >= 1
    BY LastCall
  <2>2. top \in Nat /\ top <= Len(calls)
    BY <2>1
  <2>3. calls' = SubSeq(calls, 1, top)
    BY <1>2 DEF Front
  <2> HIDE DEF top
  <2>4. SubSeq(calls, 1, top) \in Seq(S) /\ Len(SubSeq(calls, 1, top)) = top
        /\ \A n \in 1 .. top : SubSeq(calls, 1, top)[n] = calls[n]
    BY <1>3, <2>1, <2>2
  <2> QED
    BY <2>1, <2>2, <2>3, <2>4
<1>5. ASSUME NEW n \in 1 .. top
      PROVE  /\ CallOK(calls'[n]) /\ SP' = Wrap(calls'[n].sp - 4 * (top - n + 1))
             /\ FrameHolds(mem', calls'[n])
  <2>1. n \in 1 .. Len(calls) /\ n \in Int /\ calls'[n] = calls[n]
    BY <1>4
  <2>2. CallOK(calls[n]) /\ FrameHolds(mem, calls[n]) /\ SP = Wrap(calls[n].sp - 4 * (Len(calls) - n + 1))
    BY <1>0, <2>1 DEF StackOK
  <2>3. SP' = Wrap(calls[n].sp - 4 * (top - n + 1))
    <3>1. calls[n].sp \in Int
      BY <2>2, CallIs
    <3>0. Len(calls) \in Int /\ n \in Int
      <4>1. Len(calls) \in Nat
        BY <1>4
      <4> QED
        BY <4>1, <2>1
    <3>2. PICK d \in Int : d = Len(calls) - n + 1
      <4> HIDE DEF top
      <4>1. Len(calls) - n + 1 \in Int
        BY <3>0
      <4> QED
        BY <4>1
    <3>3. d - 1 = top - n + 1
      BY <1>4, <2>1, <3>2
    <3>4. Wrap(Wrap(calls[n].sp - 4 * d) + 4) = Wrap(calls[n].sp - 4 * (d - 1))
      BY <3>1, <3>2, StackMoves
    <3> QED
      BY <1>2, <2>2, <3>2, <3>3, <3>4
  <2> QED
    BY <1>2, <2>1, <2>2, <2>3
<1>6. \A c : FrameHolds(mem, c)' <=> FrameHolds(mem', c)
  BY <1>1, SameFrames
<1>7. Len(calls') <= 16384
  BY <1>0, <1>4 DEF StackOK
<1> HIDE DEF top
<1> QED
  BY <1>2, <1>4, <1>5, <1>6, <1>7 DEF StackOK

LEMMA StraysKeepStack ==
  ASSUME StackOK, StrayStore \/ StrayCall \/ StrayReturn
  PROVE  StackOK'
  BY StrayIs, StackUnseen

LEMMA RInvNext ==
  ASSUME BitwiseOn(Word), BitwiseOn(Byte), WordPrograms, RInv, RunsItsCode, KeepsItsStack, [Next]_vars
  PROVE  RInv'
<1>1. WInv'
  BY WInvNext DEF RInv
<1>2. CASE calls = <<>> /\ ~Call
  <2>1. calls' = <<>>
    BY <1>2, StrayIs DEF Next, Begin, BeginFault, Starting, Serve, DecodeOperand, OperandFault, Fault, Execute,
                ExecuteFault, Skip, Jump, CallFault, Return, ReturnFault, vars
  <2> QED
    BY <1>1, <2>1, NoFrames DEF RInv
<1>3. CASE Call
  BY <1>1, <1>3, CallKeepsStack DEF RInv
<1>4. CASE calls # <<>> /\ ~Call
  BY <1>1, <1>4, ReadersKeepStack, ExecuteKeepsStack, CallFaultKeepsStack, ReturnKeepsStack,
     StraysKeepStack DEF RInv, Next
<1> QED
  BY <1>2, <1>3, <1>4

\* The two words that a return reads are those of the last call.
LEMMA ReadsItsFrame ==
  ASSUME BitwiseOn(Word), BitwiseOn(Byte), XorUndoes(Word), WordPrograms, RInv, KeepsItsStack,
         calls # <<>>, Return \/ StrayReturn
  PROVE  StackWord(2) = Last(calls).ret \div 8 /\ StackWord(0) = Last(calls).ret % 8
<1> DEFINE c == Last(calls)
<1>1. CallOK(c) /\ FrameHolds(mem, c) /\ SP = Wrap(c.sp - 4) /\ MachineOK
  BY LastCall DEF RInv, WInv
<1>2. c.sp \in Int /\ Wrap(c.sp - 2) \in Word /\ Wrap(c.sp - 4) \in Word
      /\ c.ret \div 8 \in Word /\ c.ret % 8 \in Word
  BY <1>1, CallIs, PositionParts
<1>3. Wrap(SP + 2) = Wrap(c.sp - 2) /\ Wrap(SP + 0) = Wrap(c.sp - 4)
  <2>1. Wrap(Wrap(c.sp - 4) + 2) = Wrap(c.sp - 2) /\ Wrap(Wrap(c.sp - 4) + 0) = Wrap(c.sp - 4)
    BY <1>2, StackMoves
  <2> QED
    BY <1>1, <2>1
<1>4. ReturnsInKind /\ (ops[2].o.type = "mem" \/ ops[2].o.type = "obf")
  BY DEF KeepsItsStack, Return, StrayReturn, Returning, Popping, OnStack
<1>5. \A a : ~Across(a, 1) => Load(a, 1) = WordAt(mem, a)
  BY DEF Load, WordAt
<1>6. ASSUME NEW k, NEW s \in Word, NEW v \in Word, Wrap(SP + k) = s, ~Across(Place(s), 1),
             WordAt(mem, Place(s)) = Hidden(s, v)
      PROVE  StackWord(k) = v
  <2>1. CASE ops[2].o.type = "mem"
    <3>1. frame.obf = 0 /\ ops[2].o.size = 1
      BY <1>4, <2>1 DEF ReturnsInKind
    <3>2. StackWord(k) = WordAt(mem, s)
      BY <1>5, <1>6, <2>1, <3>1 DEF StackWord, Place
    <3> QED
      BY <1>6, <3>1, <3>2 DEF Place, Hidden
  <2>2. CASE ops[2].o.type = "obf"
    <3>1. frame.obf # 0 /\ frame = [addr |-> ops[2].addr, obf |-> ops[2].o.obf] /\ ops[2].o.size = 1
      BY <1>4, <2>2 DEF ReturnsInKind
    <3>2. StackWord(k) = BitXor(WordAt(mem, Wrap(frame.addr + s)), Mask(frame.addr, s, frame.obf))
      BY <1>5, <1>6, <2>2, <3>1 DEF StackWord, Cut, Place
    <3>3. WordAt(mem, Wrap(frame.addr + s)) = BitXor(v, Mask(frame.addr, s, frame.obf))
      BY <1>6, <3>1 DEF Place, Hidden
    <3>4. Mask(frame.addr, s, frame.obf) \in Word
      BY <1>1, <1>6, MaskIsWord DEF MachineOK
    <3> QED
      BY <1>6, <3>2, <3>3, <3>4 DEF XorUndoes
  <2> QED
    BY <1>4, <2>1, <2>2
<1> HIDE DEF c
<1>8. StackWord(2) = c.ret \div 8
  BY <1>1, <1>2, <1>3, <1>6 DEF FrameHolds
<1>9. StackWord(0) = c.ret % 8
  BY <1>1, <1>2, <1>3, <1>6 DEF FrameHolds
<1> QED
  BY <1>8, <1>9 DEF c

LEMMA ReturnGoesBack ==
  ASSUME BitwiseOn(Word), BitwiseOn(Byte), XorUndoes(Word), WordPrograms, RInv, KeepsItsStack,
         calls # <<>>, Return \/ StrayReturn
  PROVE  pos' = Last(calls).ret /\ regs'[14] = Last(calls).sp
<1>1. CallOK(Last(calls)) /\ SP = Wrap(Last(calls).sp - 4) /\ MachineOK /\ regs \in [0 .. 14 -> Word]
  BY LastCall DEF RInv, WInv, MachineOK
<1>2. StackWord(2) = Last(calls).ret \div 8 /\ StackWord(0) = Last(calls).ret % 8
  BY ReadsItsFrame
<1>3. /\ 8 * (Last(calls).ret \div 8) + (Last(calls).ret % 8) = Last(calls).ret
      /\ Last(calls).ret % 8 <= 7 /\ Last(calls).ret % 8 \in Int
  BY <1>1, PositionParts, WordIsInt DEF CallOK
<1>4. Return
  BY <1>2, <1>3 DEF StrayReturn
<1>5. pos' = Last(calls).ret
  BY <1>2, <1>3, <1>4 DEF Return
<1>6. regs'[14] = Last(calls).sp
  <2>1. regs'[14] = Wrap(SP + 4)
    BY <1>1, <1>4 DEF Return, SP
  <2>2. Last(calls).sp \in Int /\ Wrap(Last(calls).sp) = Last(calls).sp
    BY <1>1, CallIs
  <2>3. Wrap(Wrap(Last(calls).sp - 4) + 4) = Wrap(Last(calls).sp)
    BY <2>2, StackMoves
  <2> QED
    BY <1>1, <2>1, <2>2, <2>3
<1> QED
  BY <1>5, <1>6

\* A return goes back to the end of the call it answers, and the stack pointer with it,
\* through clear and obfuscated frames, however deep the calls, and wherever pages were
\* missing, in a call between its two words included: for every program that keeps
\* its stack.
THEOREM ReturnsGoBack ==
  ASSUME BitwiseOn(Word), BitwiseOn(Byte), XorUndoes(Word), WordPrograms, Memories \subseteq [Word -> Byte]
  PROVE  Spec /\ []RunsItsCode /\ []KeepsItsStack => ReturnsToCaller
<1> DEFINE Back == (Return \/ StrayReturn) /\ calls # <<>> => pos' = Last(calls).ret /\ regs'[14] = Last(calls).sp
<1>1. Init => RInv
  <2> SUFFICES ASSUME Init PROVE RInv
    OBVIOUS
  <2>1. WInv
    BY PInvInit, InitTyped DEF WInv
  <2>2. calls = <<>> /\ calls \in Seq({}) /\ Len(calls) = 0
    BY DEF Init
  <2> QED
    BY <2>1, <2>2 DEF RInv, StackOK
<1>2. RInv /\ RunsItsCode /\ KeepsItsStack /\ [Next]_vars => RInv'
  BY RInvNext
<1>3. RInv /\ KeepsItsStack /\ [Next]_vars => [Back]_vars
  BY ReturnGoesBack
<1> QED
  BY <1>1, <1>2, <1>3, PTL DEF Spec, ReturnsToCaller

=============================================================================
