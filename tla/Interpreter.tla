----------------------------- MODULE Interpreter -----------------------------
(***************************************************************************)
(* do_instruction: the interpreter of the webcam, which decodes and runs   *)
(* an instruction over a memory that may be missing at any byte it needs.  *)
(* sub_41da then restores the program counter and the stack pointer, and   *)
(* nothing else, and the instruction is run again from its first bit.      *)
(*                                                                         *)
(* Memory is flat (PagedMemory) but for one thing: a page that this run of *)
(* the instruction has touched is still there, any other one may miss.     *)
(* That an instruction ends in spite of its faults is for FaultLoop.       *)
(*                                                                         *)
(* A flat memory cannot tell which byte is damaged by a word that is       *)
(* stored across two pages (PagedMemory does), and read_nbits is written   *)
(* for a CURRENT_BITS of 0 to 7 (from 9 on most of its shift counts are    *)
(* undefined in C): an instruction that does the one, or sets the other    *)
(* beyond that, is the last one here ("strayed").                          *)
(***************************************************************************)
EXTENDS VmCode, SequencesExt

CONSTANTS
  Programs,   \* functions from bit positions to instructions
  Memories,   \* initial contents of the data, functions from addresses to bytes
  Registers   \* initial values of r0 .. r14

ASSUME RegistersAssumption == Registers \subseteq [0 .. 14 -> Word]

VARIABLES
  prog,     \* the code
  pos,      \* 8 * CURRENT_BYTE + CURRENT_BITS; CURRENT_BYTE is also r15
  regs,     \* r0 .. r14; r14 is the stack pointer
  flags,    \* FLAGS, two sets
  mem,      \* the data
  frame,    \* 0x4142 and 0x4140: where and how the frames of the stack are obfuscated
  saved,    \* SAVED_OFF_DEST, SAVED_OFF_SRC, SAVED_OFF_ADDR
  ops,      \* the operands decoded so far
  touched,  \* the pages that this run of the instruction has used
  stage,    \* "start", "running", "blocked" for a page, "halted", "strayed"
  before,   \* history: the state in which this run of the instruction started
  calls     \* history: the calls that have not returned

vars == <<prog, pos, regs, flags, mem, frame, saved, ops, touched, stage, before, calls>>

Now == [pos |-> pos, regs |-> regs, flags |-> flags, mem |-> mem, frame |-> frame]

SP == regs[14]
Reg(k, p) == IF k = 15 THEN p \div 8 ELSE regs[k]

-----------------------------------------------------------------------------
(* The bits of the code.                                                   *)

\* read_nbits: the bytes it looks at, one too many when n bits end with a byte.
BytesRead(p, n) ==
  LET left == n - (8 - (p % 8))
  IN {Wrap((p \div 8) + k) : k \in 0 .. (IF left <= 0 THEN 0 ELSE IF left < 8 THEN 1 ELSE 2)}

After(p, widths) == WrapPosition(p + Bits(widths))

CodePages(p, widths) ==
  {a \div 16 : a \in UNION {BytesRead(After(p, SubSeq(widths, 1, k - 1)), widths[k]) :
                              k \in DOMAIN widths}}

-----------------------------------------------------------------------------
(* The data.                                                               *)

\* A word at the last byte of a page: sub_4166 translates the addresses of its two bytes.
Across(a, size) == size = 1 /\ a % 16 = 15

\* The pages an access translates.
AccessPages(a, size) ==
  {a \div 16} \cup (IF Across(a, size) THEN {Wrap(a + 1) \div 16} ELSE {})

\* The two bytes of a word across two pages are combined to (high << 8) & low: 0.
Load(a, size) ==
  IF size = 0 THEN mem[a]
  ELSE IF Across(a, size) THEN 0
  ELSE mem[a] + 256 * mem[Wrap(a + 1)]

Stored(m, a, size, v) ==
  IF size = 0 THEN [m EXCEPT ![a] = Low(v)]
  ELSE [m EXCEPT ![a] = Low(v), ![Wrap(a + 1)] = High(v)]

Cut(size, v) == IF size = 0 THEN Low(v) ELSE v

Address(o, p) ==
  CASE o.type = "mem" /\ o.mode = "reg" -> Reg(o.reg, p)
    [] o.type = "mem" /\ o.mode = "imm" -> o.val
    [] OTHER -> Wrap(o.val + Reg(o.reg, p))

InMemory(o) == o.type \in {"mem", "obf"}

\* Slip: an access also touches the word behind it, as read_nbits does with bytes.
DataPagesAhead(o, p) ==
  IF InMemory(o)
    THEN AccessPages(Address(o, p), o.size) \cup {Wrap(Address(o, p) + 2) \div 16} ELSE {}

DataPages(o, p) == IF InMemory(o) THEN AccessPages(Address(o, p), o.size) ELSE {}

Value(o, p) ==
  CASE o.type = "reg" -> Reg(o.reg, p)
    [] o.type = "imm" -> o.val
    [] o.type = "mem" -> Load(Address(o, p), o.size)
    [] o.type = "obf" -> Cut(o.size, BitXor(Load(Address(o, p), o.size), Mask(o.val, Reg(o.reg, p), o.obf)))

-----------------------------------------------------------------------------
(* Flags.                                                                  *)

TestFlags(test, f) ==
  LET Z == "Z" \in f    C == "C" \in f    S == "S" \in f    O == "O" \in f
  IN CASE test = "z" -> Z             [] test = "nz" -> ~Z
       [] test = "c" -> C             [] test = "nc" -> ~C
       [] test = "s" -> S             [] test = "ns" -> ~S
       [] test = "o" -> O             [] test = "no" -> ~O
       [] test = "a" -> ~Z /\ ~C      [] test = "be" -> Z \/ C
       [] test = "g" -> O = S /\ ~Z   [] test = "ge" -> O = S
       [] test = "l" -> O # S         [] test = "le" -> O # S \/ Z
       [] test = "always" -> TRUE     [] OTHER -> FALSE

Flags(zero, carry, sign) ==
  {f \in {"Z", "C", "S"} : (f = "Z" /\ zero) \/ (f = "C" /\ carry) \/ (f = "S" /\ sign)}

\* Slip: the result goes to the other set.
UpdatedFlagsSwapped(i, new) == IF i.uf THEN [flags EXCEPT ![1 - i.cond] = new] ELSE flags

\* sub_4814
UpdatedFlags(i, new) == IF i.uf THEN [flags EXCEPT ![i.cond] = new] ELSE flags

-----------------------------------------------------------------------------
(* An instruction.                                                         *)

\* Where the current instruction begins, or the next one.
Origin == IF stage \in {"running", "halted", "strayed"} THEN saved.pos ELSE pos
Ins == prog[Origin]
Matched == TestFlags(Ins.test, flags[Ins.cond])
Widths == HeadWidths(Ins) \o MoreWidths(Ins)

Init ==
  /\ prog \in Programs
  /\ mem \in Memories
  /\ regs \in Registers
  /\ pos = 0
  /\ flags = [k \in {0, 1} |-> {}]
  /\ frame = [addr |-> 0, obf |-> 0]
  /\ saved = [pos |-> 0, sp |-> SP]
  /\ ops = <<>>
  /\ touched = {}
  /\ stage = "start"
  /\ before = Now
  /\ calls = <<>>

Starting ==
  /\ stage = "start"
  /\ saved' = [pos |-> pos, sp |-> SP]
  /\ before' = Now

\* The head of the instruction, and what a shift or a jump has before its operands.
Begin ==
  /\ Starting
  /\ pos' = After(pos, Widths)
  /\ touched' = CodePages(pos, Widths)
  /\ stage' = IF Ins.op = "end" THEN "halted" ELSE "running"
  /\ UNCHANGED <<prog, regs, flags, mem, frame, ops, calls>>

BeginFault ==
  /\ Starting
  /\ stage' = "blocked"
  /\ UNCHANGED <<prog, pos, regs, flags, mem, frame, ops, touched, calls>>

\* Slip: the stack pointer is not restored.
FaultKeepsStack(pages, rs) ==
  /\ ~(pages \subseteq touched)
  /\ stage' = "blocked"
  /\ pos' = saved.pos
  /\ regs' = rs
  /\ ops' = <<>>
  /\ touched' = {}
  /\ UNCHANGED <<prog, frame, saved, before, calls>>

\* sub_41da when the page is not there, and the registers have come to be rs.  Any
\* page may be gone when it is served.
Fault(pages, rs) ==
  /\ ~(pages \subseteq touched)
  /\ stage' = "blocked"
  /\ pos' = saved.pos
  /\ regs' = [rs EXCEPT ![14] = saved.sp]
  /\ ops' = <<>>
  /\ touched' = {}
  /\ UNCHANGED <<prog, frame, saved, before, calls>>

\* Request 0x51 brings the page, and do_instruction is called again.
Serve ==
  /\ stage = "blocked"
  /\ stage' = "start"
  /\ UNCHANGED <<prog, pos, regs, flags, mem, frame, saved, ops, touched, before, calls>>

-----------------------------------------------------------------------------
(* Operands.                                                               *)

Decoding == stage = "running" /\ Len(ops) < Len(Operands(Ins))
Decoded == stage = "running" /\ Len(ops) = Len(Operands(Ins))

Operand == Operands(Ins)[Len(ops) + 1]
OperandEnd == After(pos, OperandWidths(Operand))
OperandPages == CodePages(pos, OperandWidths(Operand)) \cup DataPages(Operand, OperandEnd)

OnStack(o) == o.reg = 14 /\ (o.type = "obf" \/ (o.type = "mem" /\ o.mode = "reg"))

\* The destination of a mov is on the stack: COND_MATCHED is negated in the code.
Pushing == Ins.op = "mov" /\ ops = <<>> /\ OnStack(Operand) /\ ~Matched

DecodeOperand ==
  /\ Decoding
  /\ LET addr == IF Operand.type = "mem" THEN Address(Operand, OperandEnd) ELSE Operand.val
         value == Value(Operand, OperandEnd)
     IN ops' = Append(ops, [o |-> Operand,
                            addr |-> IF Pushing THEN Wrap(addr - 2) ELSE addr,
                            at |-> Address(Operand, OperandEnd),   \* history: where it was read
                            value |-> value])
  /\ regs' = IF Pushing THEN [regs EXCEPT ![14] = Wrap(@ - 2)] ELSE regs
  /\ pos' = OperandEnd
  /\ touched' = touched \cup OperandPages
  /\ UNCHANGED <<prog, flags, mem, frame, saved, stage, before, calls>>

OperandFault ==
  /\ Decoding
  /\ Fault(OperandPages, regs)
  /\ UNCHANGED <<flags, mem>>

-----------------------------------------------------------------------------
(* Execution.                                                              *)

\* What the instruction does from here on is not followed.
Strays ==
  /\ stage' = "strayed"
  /\ UNCHANGED <<prog, pos, regs, flags, mem, frame, saved, ops, touched, before, calls>>

Done == stage' = "start" /\ ops' = <<>> /\ touched' = {} /\ UNCHANGED <<prog, saved, before>>

Result ==
  CASE Ins.op = "and" -> BitAnd(ops[1].value, ops[2].value)
    [] Ins.op = "or" -> BitOr(ops[1].value, ops[2].value)
    [] Ins.op = "neg" -> Complement(ops[1].value)
    [] Ins.op = "shift" /\ Ins.right -> Shr(ops[1].value, Ins.count)
    [] Ins.op = "shift" /\ ~Ins.right -> Shl(ops[1].value, Ins.count)
    [] Ins.op = "mov" -> ops[2].value

\* and and or only keep the new zero flag; a shift always sets it.
FlagsAfter ==
  CASE Ins.op \in {"and", "or"} ->
         UpdatedFlags(Ins, (flags[Ins.cond] \ {"Z"}) \cup Flags(Result = 0, FALSE, FALSE))
    [] Ins.op = "neg" -> UpdatedFlags(Ins, Flags(Result = 0, FALSE, Sign(Result) = 1))
    [] Ins.op = "shift" ->
         UpdatedFlags(Ins, Flags(TRUE, LastShifted(Ins.right, ops[1].value, Ins.count) = 1, FALSE))
    [] Ins.op = "mov" -> flags

Popping == Ins.op = "mov" /\ OnStack(ops[2].o)
Returning == Popping /\ ops[1].o.type = "reg" /\ ops[1].o.reg = 15
Computing == Ins.op \in {"and", "or", "neg", "shift", "mov"} /\ Decoded /\ Matched /\ ~Returning

\* save_dest comes after the pop, and works out an obfuscated address again.
RegsAtSave == IF Popping THEN [regs EXCEPT ![14] = Wrap(@ + 2)] ELSE regs
Dest == ops[1].o
DestReg == IF Dest.reg = 15 THEN pos \div 8 ELSE RegsAtSave[Dest.reg]
DestAddress == IF Dest.type = "mem" THEN ops[1].addr ELSE Wrap(ops[1].addr + DestReg)
DestPage == IF InMemory(Dest) THEN {DestAddress \div 16} ELSE {}
DestAcross == InMemory(Dest) /\ Across(DestAddress, Dest.size)
DestMerged == IF Dest.size = 0 THEN 256 * High(DestReg) + Low(Result) ELSE Result

Execute ==
  /\ Computing /\ ~DestAcross
  /\ flags' = FlagsAfter
  /\ regs' = IF Dest.type = "reg" /\ Dest.reg # 15
               THEN [RegsAtSave EXCEPT ![Dest.reg] = DestMerged] ELSE RegsAtSave
  /\ pos' = IF Dest.type = "reg" /\ Dest.reg = 15 THEN 8 * DestMerged + (pos % 8) ELSE pos
  /\ mem' = CASE Dest.type = "mem" -> Stored(mem, DestAddress, Dest.size, Result)
              [] Dest.type = "obf" -> Stored(mem, DestAddress, Dest.size,
                                             BitXor(Result, Mask(ops[1].addr, DestReg, Dest.obf)))
              [] OTHER -> mem
  /\ Done
  /\ UNCHANGED <<frame, calls>>

ExecuteFault ==
  /\ Computing
  /\ Fault(DestPage, RegsAtSave)
  /\ flags' = FlagsAfter
  /\ UNCHANGED mem

\* The word goes to the page of its first byte and beyond, before its second byte is
\* brought to the other page.
StrayStore ==
  /\ Computing /\ DestAcross
  /\ Strays

\* The condition does not hold: the operands have been decoded for nothing.
Skip ==
  /\ Decoded /\ ~Matched
  /\ Done
  /\ UNCHANGED <<pos, regs, flags, mem, frame, calls>>

-----------------------------------------------------------------------------
(* Jumps, calls and returns.  A frame is CURRENT_BYTE above CURRENT_BITS.  *)

Target ==
  IF ~Absolute(Ins) THEN Relative(Ins, pos)
  ELSE IF Ins.dst.type = "imm" THEN WrapPosition(8 * ops[1].value + Ins.bits)
  ELSE ops[1].value

Jump ==
  /\ Ins.op = "jmp" /\ Decoded /\ Matched
  /\ pos' = Target
  /\ Done
  /\ UNCHANGED <<regs, flags, mem, frame, calls>>

\* Slip: an obfuscated frame is pushed at the stack pointer.
SlotUnbased(k) == Wrap(SP - k)

Slot(k) == IF frame.obf = 0 THEN Wrap(SP - k) ELSE Wrap(frame.addr + Wrap(SP - k))
Pushed(m, k, v) ==
  Stored(m, Slot(k), 1,
         IF frame.obf = 0 THEN v ELSE BitXor(v, Mask(frame.addr, Wrap(SP - k), frame.obf)))

PushedByte == Pushed(mem, 2, pos \div 8)
RegsAfterCall == [regs EXCEPT ![14] = Wrap(@ - 4)]
Calling == Ins.op = "call" /\ Decoded /\ Matched
SlotAcross == Across(Slot(2), 1) \/ Across(Slot(4), 1)

Call ==
  /\ Calling /\ ~SlotAcross
  /\ mem' = Pushed(PushedByte, 4, pos % 8)
  /\ regs' = RegsAfterCall
  /\ pos' = Target
  /\ calls' = Append(calls, [ret |-> pos, sp |-> SP])
  /\ Done
  /\ UNCHANGED <<flags, frame>>

\* The first word stays pushed, below the stack, when the page of the second one is missing.
CallFault ==
  /\ Calling
  /\ \/ Fault({Slot(2) \div 16}, regs) /\ UNCHANGED mem
     \/ /\ Slot(4) \div 16 # Slot(2) \div 16
        /\ Fault({Slot(4) \div 16}, RegsAfterCall)
        /\ mem' = PushedByte
  /\ UNCHANGED flags

StrayCall ==
  /\ Calling /\ SlotAcross
  /\ Strays

\* mov r15 from the stack.
StackWord(k) ==
  LET o == ops[2].o  at == Wrap(SP + k)
  IN IF o.type = "mem" THEN Load(at, o.size)
     ELSE Cut(o.size, BitXor(Load(Wrap(ops[2].addr + at), o.size), Mask(ops[2].addr, at, o.obf)))

PopAddress(k) == Wrap((IF ops[2].o.type = "mem" THEN 0 ELSE ops[2].addr) + SP + k)
ReturnPages == UNION {AccessPages(PopAddress(k), ops[2].o.size) : k \in {0, 2}}

Return ==
  /\ Decoded /\ Matched /\ Returning
  /\ StackWord(0) <= 7
  /\ pos' = 8 * StackWord(2) + StackWord(0)
  /\ regs' = [regs EXCEPT ![14] = Wrap(@ + 4)]
  /\ frame' = IF ops[2].o.type = "obf" THEN [addr |-> ops[2].addr, obf |-> ops[2].o.obf] ELSE frame
  /\ calls' = IF calls = <<>> THEN calls ELSE Front(calls)
  /\ Done
  /\ UNCHANGED <<flags, mem>>

ReturnFault ==
  /\ Decoded /\ Matched /\ Returning
  /\ Fault(ReturnPages, regs)
  /\ UNCHANGED <<flags, mem>>

\* CURRENT_BITS takes the whole word, as it is.
StrayReturn ==
  /\ Decoded /\ Matched /\ Returning
  /\ StackWord(0) > 7
  /\ Strays

Next ==
  \/ Begin \/ BeginFault \/ Serve
  \/ DecodeOperand \/ OperandFault
  \/ Execute \/ ExecuteFault \/ StrayStore \/ Skip
  \/ Jump \/ Call \/ CallFault \/ StrayCall
  \/ Return \/ ReturnFault \/ StrayReturn

Spec == Init /\ [][Next]_vars

-----------------------------------------------------------------------------
(* Properties.                                                             *)

Byte == 0 .. 255

Position(p) == p \in Nat /\ p < 8 * 65536

\* The variables keep their types: registers, operands and program counters stay words.
TypeOK ==
  /\ Position(pos)
  /\ regs \in [0 .. 14 -> Word]
  /\ flags \in [{0, 1} -> SUBSET {"Z", "C", "S"}]
  /\ \A a \in DOMAIN mem : mem[a] \in Byte
  /\ frame.addr \in Word /\ frame.obf \in 0 .. 63
  /\ Position(saved.pos) /\ saved.sp \in Word
  /\ \A k \in DOMAIN ops : ops[k].value \in Word
  /\ stage \in {"start", "running", "blocked", "halted", "strayed"}

\* An instruction that waits for a page has left no trace: the registers, the flags
\* and the data are those it started with, although it may have updated the flags,
\* popped its source or pushed one half of a frame when the page was found missing
\* (sub_41da restores the program counter and the stack pointer only).  The
\* one exception is the first word of a frame, which lies below the stack.
NoTrace ==
  stage = "blocked" =>
    /\ [Now EXCEPT !.mem = before.mem] = before
    /\ \A a \in DOMAIN mem :
         mem[a] # before.mem[a] => Ins.op = "call" /\ a \in {Slot(2), Wrap(Slot(2) + 1)}

\* A return goes back to the end of the call it answers, with the stack pointer of
\* that time, in clear and in obfuscated frames, whatever faults there were; what it
\* loads for the bit counter is a bit number.
ReturnsToCaller ==
  [][(Return \/ StrayReturn) /\ calls # <<>> =>
       pos' = Last(calls).ret /\ regs'[14] = Last(calls).sp]_vars

\* The pages of an instruction, as far as it has come, with those of its result or of
\* the frame that it pushes or pops.
PagesNeeded ==
  touched \cup
  (IF ~Decoded \/ ~Matched THEN {}
   ELSE IF Ins.op = "call" THEN AccessPages(Slot(2), 1) \cup AccessPages(Slot(4), 1)
   ELSE IF Ins.op = "jmp" THEN {}
   ELSE IF Returning THEN ReturnPages
   ELSE IF InMemory(Dest) THEN AccessPages(DestAddress, Dest.size)
   ELSE {})

\* None of the operands is a word across two pages.
OperandsInPages == \A k \in DOMAIN ops : InMemory(ops[k].o) => ~Across(ops[k].at, ops[k].o.size)

\* The five slots of do_server_init are enough for an instruction, were its code, its
\* operands, its result and its frame all on different pages, unless an operand is a word
\* across two pages: sub_4166 translates twice for it (server.c 443-446), and the
\* instruction may need six pages, one more than there are, and then it never ends.
FitsInTheCache == Cardinality(PagesNeeded) <= IF OperandsInPages THEN 5 ELSE 6

\* The comments on the assembly (server.c 1178-1182) have a mov that is executed
\* and whose destination is on the stack decrement the stack pointer; one that is
\* not executed leaves it alone.
MovToStack == stage = "running" /\ ops # <<>> /\ Ins.op = "mov" /\ OnStack(ops[1].o)
PushWhenExecuted == MovToStack => (SP = Wrap(saved.sp - 2) <=> Matched)

-----------------------------------------------------------------------------
(* The C program that vmdisas.rb generates *)

\* Until an instruction ends, the program is where it began.
Flat == INSTANCE FlatVm WITH
  pc <- Origin,
  r <- [k \in 0 .. 13 |-> regs[k]],
  m <- mem,
  z <- [k \in {0, 1} |-> "Z" \in flags[k]],
  c <- [k \in {0, 1} |-> "C" \in flags[k]]

\* Each instruction takes effect once, as a whole, as in the C program: decoding,
\* faults and restarts do not show.
FlatSpec == Flat!Spec
=============================================================================
