# Verification of the SSTIC 2012 challenge tools

The repository holds the programs written to solve the SSTIC 2012 challenge. Its
centre is a C rewriting of a firmware: `ssticrypt`, a program on the PC, loads
small programs (the three *layers*) into a CY16 microcontroller that poses as a
webcam. The microcontroller runs them on a virtual machine whose 64 KB of memory
stay on the PC: the firmware caches five pages of 16 bytes and gets the other ones
through USB vendor requests. This directory models that system in TLA+, checks
it with TLC and proves what can be proved with TLAPS.

## 1. Inventory

| Component | Source | State | Operations |
|---|---|---|---|
| Page cache | `server.c` `sub_41da`, `do_server_init` | five tags with a *written* bit, five ages, the elected slot | translate (hit or miss), fill |
| Memory accesses | `server.c` `sub_4162`, `sub_4166`, `sub_41a6` | the five 16-byte buffers, `NEW_OFF_SRC` | get / set a byte or a word |
| Paging protocol | `client.c` `vicpwn_handle`, `server.c` `handle_receive_req`, `handle_send_req`, `sub_40e8` | the client's `ram`, `off_src`, the four bytes a reply borrows | requests 0x51 and 0x56, write-back |
| Interpreter | `server.c` `do_instruction`, `decode_operands`, `save_dest` | PC (`CURRENT_BYTE`, `CURRENT_BITS`), stack pointer, registers, `FLAGS`, operand scratch words | seven instructions, restart after a fault |
| Bit reader | `server.c` `read_nbits` | the PC | read 1 to 16 bits |
| Obfuscated operands | `server.c` `sub_484c`, `vmdisas.rb` `calc_obf` | none | a mask from address, register and constant |
| Flags | `server.c` `test_flags`, `update_flags`, `sub_4814` | two sets of four flags | test, update |
| Client session | `client.c` `load_layer`, `set_my_key`, `vicpwn_check` | the client's `ram`, the layer number | load, run, check, next |
| TCP transport | `usb_hook/usb-hook.c`, `netserver.c` | two byte streams for each connection, what the server is reading | open, close, a request with a page, a request with a reply; accept, read a header, read a page, answer |
| Disassembler / compiler | `part2b_vm/vmdisas.rb` | bit position | decode, print, translate to C |
| CY16 emulator | `part2a_rom/code/emul` | registers, flags, memory, breakpoints, undo log | instructions, debugger commands, loader |
| Key search | `part2b_vm/layer*/bflayer*.c` | the counters of `main`, the registers, flags and memory of the layer | try a key: run `f()`, the layer compiled to C and edited; print |
| White-box DES | `part1_wb/code/reverse.py` | tables | find the key |
| Secret file | `part3_secret/*.c` | the candidates and their entropy, the blocks found, two buffers | scan a partition, find a block, copy, check the digest, decrypt |
| ROM tools, logging, tests | `part2a_rom/tools`, `utils.c`, `unit_tests.c` | none | one-shot conversions |

How they interact: the client and the firmware exchange synchronous requests, as
function calls (`usb_control_msg` in `client.c`) or over a TCP connection
(`usb-hook.c` and `netserver.c`). Request 0x51 carries a page to the elected slot
and resumes the virtual machine, which runs until a translation fails: `sub_41da`
then elects a slot, restores the saved PC and `longjmp`s out of the interpreter.
Request 0x56 returns the elected slot, its tag and the address asked for; the
client writes the slot back if its *written* bit is set and goes on with the page
asked for. The virtual machine restarts its instruction from the beginning.

Hard behaviours:

* *Two copies of a page.* A page lives in the client and in a slot, and which copy
  is current depends on one bit. Fill, write-back, reply and access are separate
  steps that must come in the right order.
* *Restart.* An instruction is run again after each of its faults, with whatever
  it has already changed, and it ends only if all its pages are in at once. The
  election has to keep them, with ages that wrap at 2^16.
* *Borrowed bytes.* The reply is 20 bytes from a 16-byte slot: the next slot's first
  four bytes are overwritten and restored by the completion callback.
* *Boundaries.* Words across two pages, page 0xfff0 (which means "no page" to the
  client), boot tags 0xfff1 .. 0xfff5, shift counts of 0 or above 16.
* *Streams.* TCP keeps no message boundaries; both ends take one `read()` for a message,
  and a client may go away in the middle of one.
* *In place.* The searches run the layers' code, which decrypts in place, adds with
  loops over `and` and `xor`, and leaves two sets of flags; a key must be judged as
  if it were the first one.
* *By hand.* What one search prints is copied into the source of the next, registers
  included.
* *Session.* Nothing invalidates the cache between two layers; the client
  decides that a layer is over by looking at its own copy of the memory.

What makes each component correct:

* page cache: a page is in one slot at most; the slot elected is one whose loss is
  harmless; the pages of one instruction end up together;
* memory accesses and protocol: the virtual machine sees a flat memory;
* interpreter: each instruction takes effect once, as in the C program that
  `vmdisas.rb` generates for it;
* session: each layer runs on what the client has loaded, and the client checks
  what the layer has last written;
* transport: requests are handled whole, in order, once, or the server stops; a reply
  is that of the request it follows;
* key search: every key is tried, the good ones are printed and no other;
* secret file: the blocks of a text are found in order, and the secret comes out.

## 2. Plan

| Order | Module | Content | Abstract specification | Proof |
|---|---|---|---|---|
| 1 | `PageCache` | the translation table | | `FaultLoopProofs`, `SessionProofs` |
| 2 | `PagedMemory` | protocol, accesses | `FlatMemory` | `PagedMemoryProofs` |
| 3 | `FaultLoop` | restarts of one instruction | | `FaultLoopProofs` |
| 4 | `VmCode`, `Interpreter` | `do_instruction` over a memory that may be missing | `FlatVm`: one atomic step per instruction, from `vmdisas.rb` | `InterpreterProofs` |
| 5 | `Session` | three layers, the cache between them | | `SessionProofs` |
| 6 | `Words`, `Layer1`, `Layer2`, `Layer3`, `KeyChain` | the three key searches, and what is copied by hand from one to the next | `KeySearch`: what a search promises | `LayerProofs`, `KeyChainProofs` |
| 7 | `CarryLoop` | the additions and subtractions of the layers | numbers | `LayerProofs` |
| 8 | `Transport` | TCP messages cut and joined, one client after the other | | `TransportProofs` |
| 9 | `Blocks` | `findblocks.c`, `extract.c` | | `BlocksProofs` |

All of these are done. Section 8 tells what was left out, and why.

`PagedMemory`, `FaultLoop` and `Session` EXTEND `PageCache`. `Interpreter` and
`FlatVm` EXTEND `VmCode`; `Interpreter` runs over a flat memory whose pages may be
missing, which `PagingIsInvisible` justifies. `KeyChain` composes the three searches
(INSTANCE, over shared variables), twice; the searches compute with whole numbers
what the programs compute with the loops of `CarryLoop`.

## 3. Modules and code

Line numbers are those of `part2a_rom/code/reverse_ssticrypt/server.c` unless
another file is named. `PROJECT.json` gives the lines of every definition.

**`PageCache`**: `tag` and `dirty` are the words `cnta(0..4)` (a page address whose
bit 0 means *written*), `age` the words `cnta(5..9)`, `slot` the pair `BUF_ADDR`,
`OFF_ADDR`. `CacheHit` and `CacheMiss` are the two outcomes of `sub_41da`; `CacheFill`
is what request 0x51 does to the table. The loop of the election is written as the
set of slots it retains (`Candidate`) and its last member (`IsVictim`); `Scan` is the loop
itself, as a fold, and `VictimIsTheScans` says that the two elect the same slot.

**`PagedMemory`**: one action per step of the synchronous exchange. `SendPage`,
`WriteBack` and `Leave` are the body and the condition of the loop of `vicpwn_handle`
(`client.c`); `SendPage` includes `handle_receive_req`, since `usb_control_msg` is a
function call. `PrepareReply` is `handle_send_req`, `SendReply` the copy and the
callback `sub_40e8`. `Access` and `Fault` are the virtual machine, seen only through
`sub_4166` and `sub_41a6`: any byte or word at any address. A word at the last
offset of a page takes two translations and `half` stands between them.

**`FlatMemory`**: the array `m` of the programs that `vmdisas.rb` generates.

**`FaultLoop`**: one instruction as a sequence of accesses. `Touch` is a translation
that succeeds, `Restart` one that fails (`longjmp`), `Serve` the exchange that
brings the page.

**`VmCode`**: what `server.c` and `vmdisas.rb` have in common: the layout of an
instruction (the widths of its fields; an instruction itself is a record), the mask
of the obfuscated operands, shifts, relative targets.

**`Interpreter`**: `pos` is 8 * `CURRENT_BYTE` + `CURRENT_BITS`, `regs` are r0 .. r14,
`flags` the two sets in `FLAGS`, `frame` the words 0x4142 and 0x4140 that an
obfuscated return sets, `saved` the words `SAVED_OFF_*` that `do_instruction` fills
before it reads a bit. `Begin` is the head of `do_instruction`; `DecodeOperand` is
`decode_operands` for one operand, with the push of a `mov`; `Execute` the five
instructions that compute, with the pop and `save_dest`; `Jump`, `Call` and `Return`
the rest of the switch; `Skip` an instruction whose condition does not hold. Each
has a *fault* action next to it, for a translation that fails in the middle of it:
`Fault` is the part of `sub_41da` that restores the PC and the stack pointer.
`touched` are the pages the current run of the instruction has used: these are
still in (that they are is the subject of `FaultLoop`), any other page may be missing.
A word at the last offset of a page takes the two translations of `sub_4166`
(`Across`, `AccessPages`) and is read as 0 (`Load`). `StrayStore`, `StrayCall` and
`StrayReturn` are the last steps of a behaviour ("strayed"): a word stored across two pages, whose
second byte lands in whatever the neighbour slot holds, and a return that puts more
than 7 into `CURRENT_BITS` (see 6). `Return` stores the two words as they were
loaded (1536, 1614). `before`, `calls` and the field `at` of an operand are history for
the properties.

**`FlatVm`**: one atomic action per kind of statement of the C program that
`vmdisas.rb` generates. It has what `vmdisas.rb` translates and nothing else: r0 ..
r13, flags z and c, words, no stack.

**`Session`**: the outer loop of `vicpwn_handle` with `load_layer`, `set_my_key` and
`vicpwn_check`, over `PageCache`. A page is a token that tells who wrote it last. A
layer is its shape: a body that fetches its pages in order and works on its data, a
write of the int at 0x8000 (`SayDone`, by an instruction that `FetchEnd` has fetched and
that a fault sends back to its fetch), a sled of `mov r0, 0xaa` over pages that
nothing has touched (`Slide`), and a jump to 0. The shape is that of
`part2b_vm/layer1/layer1.asm`. A session starts at its beginning (`Init`) or, so that
bodies may be long without being run, at the sled of the first layer, with any
state of the slots that a body may leave (`SledInit`). A run of accesses to one page is
one access.

**`Layer1`, `Layer2`, `Layer3`** over **`Words`**: `f()` and `main()` of `bflayer1.c`,
`bflayer2.c`, `bflayer3.c`. The variables are the registers of the machine under the
names that the C programs have, the scratch words that matter, the flag of the last
test, and the counters of `main()`. An action is a passage of `f()` up to the next
label or test. The programs build the exclusive or in six ways and additions and
subtractions from loops; here these are the operation they amount to, with the
borrow as the loops leave it (`Borrow`). `Candidates`, `Good`, `Tried` and `Reported`
give the abstract view: `Good` works out the keys by running the equations of the
layer backwards, never by running the search.

**`KeySearch`** is what a search promises: the candidates are tried in turn, and what is
printed is the good ones among those that were tried.

**`KeyChain`**: the three programs, one after the other, with the masks of the
obfuscated operands worked out as `calc_obf` does, the constants of the sources, and the
files they are given; `Run` is a step of the program that runs, `Start` the next one
with what was copied into it. `width` tells whether these are the programs (16 bits)
or the same searches on words of 6 bits.

**`CarryLoop`**: the subtraction that follows the first test of `bflayer1.c`, with a word
as its 16 bits: `Pass` is the body of a loop and the jump back, `Load` what stands
between the two loops, `Finish` how the scratch word becomes the flag.

**`Transport`**: `usb_control_msg` (`Send`, `Ask`, `Receive`), `usb_open` and `usb_close` of
`usb-hook.c`; `loop` of `netserver.c` (`Accept`, `ReadHeader`, `ReadPayload`). A direction
of a connection is the sequence of all bytes ever written to it, with how many have
arrived and how many were read. Every byte names its message and its place there.
`ArriveUp` and `ArriveDown` are the network, which cuts what is written anywhere when
`cuts` holds, and nowhere otherwise.

**`Blocks`**: `Scan`, `Search`, `Judge`, `Take` are the loops of `findblocks.c`; `Copy`, `Digest`,
`Extract` the program `extract.c`, which its user runs with the blocks that
`findblocks` has shown, when they have turned out contiguous but for one.

Each module also holds a few operators marked *slip*: plausible mistakes in one
definition, under which the properties named in `PROJECT.json` are violated.

## 4. Runs

| Run | Question | Bounds, and why they are enough |
|---|---|---|
| `paged_bytes` | Is the memory flat, with no page twice in the cache and no write lost? | 2 slots, 3 pages and the top page: every state of the cache evicts. Pages of one byte: the borrowed bytes then cover a whole neighbour slot. |
| `paged_straddle` | What is left of it when words cross a page or the end of the memory? | 2 slots, so that the neighbour of a slot is a slot or the end of the buffers. |
| `words_across_pages` | Finding, see 7. | as above |
| `fault_loop` | Does an instruction on three or four pages end, and how soon? Is the election that of the loop? | 4 slots, from every state of tags and written bits, and ages in every order, wrapped or not, or of only two values. At most six faults are needed for three pages and seven for four; the bound is exact. Fewer slots than pages cannot work, more only help. |
| `session` | Does the sled empty the cache, whatever the body has left in it? Does each layer run once, on what was loaded, and is its last verdict judged? | 3 layers of which the second covers the sled of the first, as in the challenge; 3 slots, so that a slot may hide those behind it, and a sled of five pages, which is just enough for three slots (3 * 4 / 2 - 1) as the fourteen pages of the layers are for five (5 * 6 / 2 - 1); ages that wrap at any page of the sled; up to three accesses in each body, faults included. |
| `interpreter` | Do programs do what `vmdisas.rb` says, faults or not? | two programs with loops, and every pair of instructions over a register, a word and an obfuscated word where the first sets the flags the second tests; two memories that make results zero and not zero. |
| `interpreter_stack` | Does a fault leave a trace, does a return find its call? How many pages can an instruction need? | eight programs: nested calls (one through memory), obfuscated frames, pops, bytes and jumps through a register; frames laid across the boundary of pages 6 and 7, so that each of the two pushes may fault; words across two pages in operands, in a result and in either word of a frame, and a return to no bit number. Both bounds of `FitsInTheCache` are reached: five pages, and six by a `mov` whose code, source and destination all lie across two pages. |
| `push` | Finding, see 7. | one program of two moves |
| `keychain` | Does each search print its keys and no other, and is what was copied what they print and leave? | The real programs with their constants, masks and files, from 8 words below the right key to 8 above in each loop; words of 6 bits with every key, three blocks for layer 2, and for layer 3 blocks encrypted with words that have one key, two and none. |
| `carry` | Do the loops subtract, in at most 16 passes each? | 16-bit words: every pair of the operands that the layers subtract and the extreme ones. The proof is for all pairs. |
| `transport` | What do the two ends make of messages that are cut, and of clients that stop? | 2 connections of 3 calls; headers, pages and replies of two bytes, so that each of them may be cut; one network that cuts and one that does not. |
| `blocks` | Are the blocks found in order, and does the secret come out? | Blocks of 8 bytes, a digest of one: the byte that is missing at the end of each block and the digest that shifts the others are both there. A secret of three blocks among six blocks in every order; three, four or five candidates where four have room; two texts and one secret that is no text. |

`MCKeyChain` extends `KeyChainProofs`: TLC evaluates what its theorems assume of the
constants and the files of the programs. So does `MCBlocks` with `BlocksProofs`. The constants of `interpreter*` and `push` are those of which two of the theorems speak:
`MCInterpreter` has TLC evaluate that the programs with loops and pairs are what
`vmdisas.rb` compiles, and that all programs are what the bits can encode.

`AgeMod` is much smaller than 2^16 everywhere. In `paged_*` ages wrap all the time;
in `fault_loop` and `session` the start values lie on both sides of the wrap, and an
instruction or a sled that ends does not wrap twice. Addresses of programs are small
because the mask of an obfuscated operand takes as many rounds as its register
holds. `CarryLoop` counts passes up to `MaxPasses`, 17, one more than `AtMost16` allows.

`CHECK_DEADLOCK FALSE`: in `paged_*`, `words_across_pages` and `session` the client's loop
ends; in `fault_loop` the instruction ends; in `interpreter*` and `push` the program
meets its end instruction; in `keychain`, `carry` and `blocks` the programs end; in
`transport` the last client goes away, and the server waits for another or has stopped.

**Fairness.** `PagedMemory` has weak fairness on `Exchange`, the client and the
handlers: they are loops and functions that go on by themselves. Nothing is
assumed of the virtual machine there. `FaultLoop` and `Session` have weak fairness
on `Next`: the whole system is one thread of control which alternates between
client and firmware. In `Session` a body of a layer ends because its accesses are
bounded by `MaxWork`; the layers are finite computations. `Interpreter` has no
liveness property: it may fault for ever, which `FaultLoop` excludes. `KeyChain`
and `Blocks` are single programs that run by themselves: weak fairness on
`Next` (in `KeyChain` the user who starts the next search is part of it, in `Blocks` the
one who starts `extract`). In `Transport` the network delivers (`Arrive`), the server
runs (`Serve`) and `read()` returns (`Receive`); nothing makes the client call, stop or
start again.

## 5. What is proved

`PagedMemoryProofs`, for every number of slots, pages and bytes in a page, every set
of byte values and every modulus of the ages, wherever words are placed:

| Theorem | Statement |
|---|---|
| `TypeCorrect` | `Spec => []TypeOK` |
| `OneSlotPerPage` | `Spec => []UniqueResidency` |
| `SpillIsBounded` | `Spec => SpillIsConfined`: what a write across two pages can damage |
| `TopPageIsFatal` | `Spec => TopPageStarves`: page 0xfff0 is waited for for ever |

and, for the same constants, if no word lies across two pages (`NoStraddle`):

| Theorem | Statement |
|---|---|
| `CleanSlotsAreCurrent` | `Spec => []CleanIsCurrent` |
| `NothingIsLost` | `Spec => []NothingLostAtFill` |
| `PagingIsInvisible` | `Spec => Flat!Spec`: the protocol implements a flat memory |

All rest on `CacheAssumption` and `PagedMemoryAssumption` (sizes are positive; the
virtual machine addresses page 0 and not page 0xfff0). Words inside a page are thus
covered by every theorem, for every size of a page. Without `NoStraddle` the last three
theorems are false: a write across two pages damages a slot
that is not marked as written (`SpillIsBounded` says how far), and a word at the end
of the page before 0xfff0 asks for that page.

Neither `TypeOK` nor `UniqueResidency` is inductive. Their invariant `SInv` adds what
an exchange remembers from one step to the next: the page asked for is in no slot
from the fault to its arrival, and for ever if it is 0xfff0 (`WaitsOutside`, without
which `SendPage` could give a page its second slot); the reply is the elected slot
(`ReplyIsSlot`, without which `WriteBack` could put anything in the client's memory);
lines hold bytes once the borrowed ones are put back (`LinesOK`). `SpillIsBounded`
follows since, with one slot per page, the view of the virtual machine at an address
is one byte of one slot (`ViewIsRead`), and two of these change.

`IInv`, for the other theorems, adds that no access is half done, that slots hold
pages of the virtual machine or boot tags (`TagsOK`), that the address asked for is
one of the virtual machine (`WantedOK`, so that the page is sent), and the two
invariants on the contents. Both proofs have one lemma per action; the refinement
shows that the exchange leaves the view of the virtual machine as it is, and that an
access reads or writes it at one address.

`FaultLoopProofs`, for every number of slots, pages and ages:

| Theorem | Statement |
|---|---|
| `ScanElects` | the loop of the election ends with the slot of `IsVictim` (`VictimIsTheScans`), whenever ages are words |
| `FaultsAreFew` | `Spec => []FewFaults`: an instruction is not restarted more than `MaxFaults` times, for the instructions and bounds below |

`Scan` is a fold; it is the last entry of a table with one entry for each turn of the loop
(`ScanTable`), and `Scanned` says what an entry is worth: `r1` is the age of its
victim, which is the last candidate so far.

`FaultsAreFew` has three hypotheses. `StartAgesOK`: ages are words. `InstructionsOK(h, n)`: an
instruction makes at most `n` accesses, to no more pages than there are slots, and
begins with at most `h` accesses to first pages, which it does not write; what comes later is to
these pages or to two data pages. TLC evaluates both on the instructions of the run.
`RoomEnough(h, n)`: `MaxFaults` is at least `FaultBound(h)`, which is
N(N(2h + 3) + 1) + N(2h + 3) for N slots, and so many restarts of `n` accesses do not make an age
wrap a second time. The firmware has room: with 5 slots, heads of 12 accesses and 40 accesses
in all, it comes to 815 restarts and 32641 accesses of 65536. The run `fault_loop` shows a sharper
bound, 7 for its 4 slots, which is exact there; the theorem gives 144 for these, by an argument that does
not depend on the sizes. It does not say that restarts end, which is `InstructionEnds`, but that
they are bounded, which is what makes them end.

The invariant, `LoopInv`, follows a *window*: slots that hold pages of the instruction and are younger
than all the others, the ones accessed in this attempt being younger still (`Window`). No page leaves a
window but by an election inside it, when all that stands outside is hidden behind a written
slot. `Rank` bounds how often this can happen before one more page joins the window: at most the
accesses of the head, once or twice, according to which of the two data pages are in the
window, which of them came last, and what is written there. So a window
grows, with at most `PerPage` faults for each page, until it holds the whole instruction
(`HitRank`, `HeadFault`, `TailFault`). What can undo a window is an age that wraps, or an old slot elected
with the oldest age of all; this happens once for each slot at most (`Old`, `Clock`), and each
time a new window starts (`FreshAffords`). `SpareFor` adds it up.

`SessionProofs`, for every number of slots, pages and layers, bodies of any length and
any number of accesses in them, at boot or in the middle of the first layer:

| Theorem | Statement |
|---|---|
| `TypeCorrect` | `Spec => []TypeOK` |
| `SledsFlush` | `Spec => []SledFlushes`: after a sled nothing written is left in the webcam, nor the first page of the code |
| `WhatRunsWasLoaded` | `Spec => RunsWhatIsLoaded` |
| `VerdictsAreCurrent` | `Spec => VerdictIsCurrent` |
| `LayersAreRunOnce` | `Spec => LayersRunOnce` |

They rest on `SessionAssumption` (a layer has a body, a sled, and data apart from its
code) and on `LayersAssumption`, three facts about the layers which the challenge
satisfies: the sled is at least N(N+1)/2 - 1 pages for N slots (`LongSled`; 14 for
5); the ages of its own pages do not wrap (`SlowAges`; 30 accesses against 65536);
it has no page in common with the sled before it (`SledsApart`; pages 88 to
101, 224 to 237, 96 to 109). Without the last one the webcam could run a page of the
old sled in place of the new one.

The argument is a race (`Race`) between the pages of the sled, which come in one after
the other, and what the body has left. An old page survives an election when its
age has just wrapped, or when it stands behind a written slot, which hides it; a new
page is then thrown out instead. But this delays the race once for each *pair* of slots
and once for each slot: from then on both ages count from the race and the old page is the
older one (`Passed`), or no page is missing behind the new one (`Settled`). `Open` are the
pairs and slots that may still delay; every page that comes closes one of them
and an access opens none, whence the invariant `Owes`: until none is open, the open ones and
the pages that have come are at most N(N+1)/2 - 1 together. When none is open all slots
hold pages of the sled. Around the race, `IInv` follows what each slot may hold
through a layer: pages of its code or the end of the previous sled (`CodeOK`), the key or
the verdict (`KeyOK`), the int at 0x8000 in the client or in a written slot not yet sent
back (`DoneOK`), and nothing but the sled at its end and at the next start (`EndOK`,
`StartOK`).

`InterpreterProofs`, for every set of programs, memories and registers:

| Theorem | Statement |
|---|---|
| `FaultsLeaveNoTrace` | `Spec /\ []RunsItsCode => []NoTrace`: an instruction that faults has changed nothing but the frame below the stack |
| `LayersRunAsTheirC` | `Spec /\ []RunsItsCode /\ []StaysInM => FlatSpec`, for programs that `vmdisas.rb` compiles |
| `FiveSlotsAreEnough` | `Spec /\ []RunsItsCode => []FitsInTheCache`, for all that can be encoded and a memory of 65536 bytes: five pages, or six if an operand is a word across two pages |
| `WordsStayWords` | `Spec /\ []RunsItsCode => []TypeOK`, for all that can be encoded and a memory of 65536 bytes |
| `ReturnsGoBack` | `Spec /\ []RunsItsCode /\ []KeepsItsStack => ReturnsToCaller`, for all that can be encoded and a memory of 65536 bytes |

`RunsItsCode` says that the program counter stays on the instructions of the
program; of anything else the model knows nothing, and TLC would stop there. `FaultsLeaveNoTrace`
assumes that no `and` or `or` has an obfuscated destination indexed by r15
(`NoDestAlongR15`, see 7): the invariant says that what a run has changed so far is the
program counter and, for a `mov`, the stack pointer (`OnlySP`), and that the pages
of a result have been touched when the flags are updated (`DestOK`), so that
no fault comes after that. `LayersRunAsTheirC` assumes the programs to be as the layers are
(`Compiled`: words, registers r0 .. r13, tests of z and c, no `neg` that updates flags,
which clears c in the firmware and not in C) and their words to lie in the array `m` of
the C program, none of them across two pages, where the firmware reads 0 (`StaysInM`: below 65535
and not at the last offset of a page); its invariant `RunOK` says that each decoded
operand has the value and the address that the C program gives it, whatever faults
have come before, and that the program counter is where the widths of the operands put
it. `FiveSlotsAreEnough` counts: an instruction has at most 80 bits and lies on two
pages (`CodeIsNear`). Its source adds one, or two if it is a word across two pages
(`PInv`: what has been touched is the code and the operands read). The destination and the
result add two together and not four, since the result goes to where the first operand
was read or less than 16 bytes away (`NearDest`: the pop of the other operand moves an address
that is indexed by r14, the bits read since then one that is indexed by r15); and the words of a
frame, 2 apart, add two, beside the one operand of a call or the none of a return. `NearDest` rests on
`WInv`, below, for addresses that are words. `WordsStayWords` follows what is 16 bits wide through every step (`WInv`): the
addresses of the operands, beside their values, and the memory, since what a
return loads becomes the program counter and the way frames are obfuscated. That a mask is a
word, too, is an invariant of the rounds of `calc_obf`, whatever their number
(`MaskIsWord`). It assumes that the fields of an instruction are as wide as `read_nbits` reads
them (`WordPrograms`, which TLC evaluates on the programs of the runs, as it does
`PowersAssumption`, the powers of two up to 2^15, of which the provers know nothing), that
`&`, `|` and `^` stay among the words and among the bytes (`BitwiseOn`), and that
all of the memory is there. The memories of the runs have only the bytes their programs
can reach, where TLC would stop at any other.

`ReturnsGoBack` is about programs that keep their stack (`KeepsItsStack`): from the first
call on until its return, only calls and returns move the stack pointer, no result is
stored in the frame of a call that has not returned, a return reads words of the kind that
calls push then, clear or obfuscated in the same way, and fewer than 16384 calls nest,
so that the stack does not come round to its own frames. The programs of the
run `interpreter_stack` are such programs in all of its states. The machine leaves a
great deal to show: that a call may run up to three times, with the stack pointer put back
by each page that is missing, and a frame half written the second time; that what it
pushes is masked with an address that wraps; that two frames 4 * d apart have no byte
in common at any obfuscation (`FramesApart`); and that undoing the mask and putting
the two words together gives the position, bit offset included. The invariant
(`StackOK`) says that the frame of each pending call holds its return position
(`FrameHolds`), that the stack pointer is 4 bytes further down for each one, and that an
instruction that restarts gets the stack pointer it had. It also says that no word of a
frame lies across two pages, since the call would have strayed: so a return
loads what was pushed, whose bit offset is below 8, and `StrayReturn` is not possible
with a call pending. `XorUndoes` is assumed of words, of
which TLC cannot try all pairs.

`TransportProofs`, for every size of header, page and reply, every number of
connections and calls, and wherever TCP cuts what is written:

| Theorem | Statement |
|---|---|
| `SpecTypeOK` | `Spec => []TypeOK` |
| `SpecInOrder` | `Spec => []InOrder`: whole requests, once each and in order |
| `SpecRightReply` | `Spec => []RightReply`: a reply that was read whole is that of the last request, which has been handled |
| `SpecUndisturbed` | `Spec => []Undisturbed`: where nothing is cut the server survives and no reply is misread |

`InOrder` speaks only of what was handled, and says nothing of the bytes that are still
to be read: it is not inductive. The invariant adds that what a client has written
is its requests end to end: each byte has its whole request around it and the next
request follows (`AllWritten`), that no connection has been used ahead of its turn
(`Waiting`), and that what the server has not yet read begins where a request does, or
behind the header of a request 0x51 whose page it waits for (`Reading`). With
these, a read that returns as many bytes as a message has returns that message
(`HeaderIs`, `PageIs`), and the number of the next request handled is the next number
(`HandledNext`). For the replies, `RInv` adds that up to the first one that is
misread each request 0x56 but the one waited for has been handled and answered (`PastOK`)
and the pipe holds the answer to that one or nothing (`PipeOK`), and that without cuts what
has arrived always ends with a request (`UncutOK`). The proofs rest on
`TransportAssumption`: the sizes are positive.

`LayerProofs`, for words of any size, any constants, masks and files of a layer, any
number of rounds and any range of keys (all words, as in the programs, or those around
the right key, as in the runs):

| Theorem | Statement |
|---|---|
| `Layer1Agrees` | `L1!Spec => [](L1!TypeOK /\ L1!ClientAgrees)` |
| `Layer1Finds` | `L1!Spec => Search1!Promise`: layer 1 implements `KeySearch`, without its fairness |
| `Layer2Agrees` | `L2!Spec => [](L2!TypeOK /\ L2!Progress /\ L2!ClientAgrees)` |
| `Layer2Finds` | `L2!Spec => Search2!Promise` |
| `Layer3Decrypts` | `L3!Spec => [](L3!TypeOK /\ L3!Progress)` |
| `Layer3Finds` | `L3!Spec => Search3!Promise` |

`Promise` is the safety part of `KeySearch`: the candidates are tried in turn, none is left
out, and what has been printed is at any time the solutions among those tried. That the
searches end is left to TLC. The solutions (`Good`) are the equations of a layer run
backwards; so each theorem says that `f()`, step by step, with what the key before
has left in the registers, the flags and the memory, accepts a key exactly when these
equations give it. Three things carry that. The arithmetic of words, from quotient and remainder
(`WrapSum`, `WrapMoves`, `Halved`, `Joined`: a sum may be wrapped at any point, and a word
is its two halves). The equations undone: `LowSolved` and `HighSolved` (a word folded on
itself twice is the word again), `Solved2` (the marker gives the last word of the stream,
and that the key), `KeysAre` and `Solved3` (a stream word of layer 3 comes from the
mixed halves `x`, `y` with `x + y * (Half + 1)` equal to it modulo the words, which has none, one
or two solutions). And the invariants `Inv1`, `Inv2`, `Inv3`: what each passage of
`f()` has made of the key so far. `ClientAgrees` says something of the return only, and
`Progress` of the head of a round; the invariants add the steps between: `Round2(m, s, l, h)`
says that `m` words of the block are decrypted, that `r8` stands at `s`, and that the two words
of the stream have moved `l` and `h` times. When a new key is tried nothing of the old one is
in the invariant but what was printed.

The hypotheses: `HalvesOK`, that 2 ^ HalfBits is a number above 1 (the provers know
nothing of powers); `IsXor(Word)`, that `BitXor` is `^` on words: closed, commutative,
associative, its own inverse, and working on each half by itself; and `Layer1OK`, `Layer2OK`,
`Layer3OK`: constants, masks and files are words, the block lies inside the memory, the
right keys are in the range, and the verdict of layer 1 written over the right key does not give
that key again (the client could not tell).

`LayerProofs` also holds what is proved of the loops of `CarryLoop`, which it extends, for every
pair of 16-bit words (`OperandsAssumption` only says that operands are words):

| Theorem | Statement |
|---|---|
| `CarriesTyped` | `Spec => []TypeOK` |
| `LoopsSubtract` | `Spec => []Subtracts`: the difference and the borrow |
| `LoopsEnd` | `Spec => []AtMost16` |

The invariant (`CarryInv`): `sum + addend + 65536 * carry` is constant over the passes of a loop (for the
second loop, given what the first has left), and after n passes the n lowest bits of
`addend` are 0. The first part gives the value; it needs the carry out to be set at most
once, which follows since the sum of the operands is below twice 65536. The second
part bounds the passes. `PassSum` is the half adder over all 16 bits, put together
from four nibbles.

`KeyChainProofs`, for the three programs one after the other, with the constants,
masks and files of the sources, and on words of 6 bits:

| Theorem | Statement |
|---|---|
| `SpecTypeOK` | `Spec => []TypeOK` |
| `SpecProgress` | `Spec => []Progress` |
| `SpecClientAgrees` | `Spec => []ClientAgrees` |
| `PrintsOnlyTheKeys` | `Spec => Search!Promise` |
| `SpecCopied` | `Spec => []Copied`: what is in the source of the next program is all that the one before prints |
| `SpecHandedOver` | `Spec => []HandedOver`: so are the registers that it leaves |

`P16` and `P6` are `LayerProofs` with the constants of the sources and with those of the small
words. `CInv` is the invariant of the search that runs; the searches share variables, but
each one starts from values that satisfy its own (`Starts`). `Honest` says that what is
printed is the solutions among the candidates tried; it follows from `PrintsOnlyTheKeys`,
and when a program has ended it gives what is printed (`PrintedAtExit`). `FoundOK` and `LeftOK`
keep this for the programs that have ended: `Copied` alone is not inductive, since it says nothing of
the program that runs until it ends, nor is `HandedOver`, which has to know that a program
that ends has printed its key, once (`LeftOK`), what `f()` has in r6 and r12 when layer 1
accepts a key (`Leaves1`), and where 0x40 rounds leave r8 and r11 (`Leaves2`).

`SourcesAssumption` (the `OK` hypotheses, for these constants and files; `BitXor` on
all words of 6 bits) and `KeysAssumption` (the equations, run backwards on the files, give the
words of `KEY`) are about constants: TLC evaluates them in the run `keychain`, with masks
worked out by `calc_obf`. `IsXor` for words of 16 bits is a hypothesis of the theorems, since TLC
cannot try all triples of words.

`BlocksProofs`, for every number and size of blocks, every partition, and every cipher of the
kind of `DoRc4`:

| Theorem | Statement |
|---|---|
| `ArraysHold` | `Spec => []TypeOK`: `findblocks` writes one candidate behind its arrays at most, and then stops; whatever `extract` overwrites with the block too many, bytes stay bytes |
| `TextIsFoundInOrder` | `Spec => []FoundInOrder`, if the blocks of the text stand out (`TextStandsOut`) |

`TInv` adds to the types how much is in each buffer at each turn of the loops: `extract`
copies a block for each turn but the excluded one, so that its buffer is full when the digest is
worked out, and not before the block too many (`CopyOK`). `TextStandsOut` is what only the bytes can tell: when the blocks before
it are in the buffer, the next block of a text falls further in entropy than any other
candidate that is left. It speaks of the partition only, and not of the program;
TLC evaluates it on the partitions of the run `blocks` (`MCBlocks`). The theorem then says
that the loops make of it what they should, wherever the blocks are among the others. The
invariant (`FInv`): the candidates are the blocks of high entropy, once each (`ListOK`); those
that were found, and no other, have no entropy left (`LeftOK`); the buffer is the beginning of the
secret (`HeadOK`); and the right candidate is kept once it has been tried, whatever is tried
after it, while before that it falls further than the one that is kept (`BestOK`). That an entropy
is a number needs the recursive function behind `FoldSet` to exist: `SumsExist` takes the
smallest size of set for which it would not (the library's induction theorems take an operator).
`DiskIsLarge` is the pigeonhole principle. All of it rests on `BlocksAssumption`: bytes are
a finite set with 0 that `BitXor` and RC4 do not leave, `c * log(c)` has a value for each count, and a
partition is a sequence of blocks on which those of the secret have places of their own, none of them
the last.

**Only model-checked**, by the runs of section 4:

* all liveness (`FaultServed`, `InstructionEnds`, `Finishes`, `Answered`,
  `SecretComesOut`, `PrintsTheKeys`), which is out of reach of the prover;
* that 7 restarts are enough for 4 slots, in `FewFaults`: `FaultsAreFew` proves the property from a
  larger bound on;
* what `calc_obf` and the equations compute for the files of the challenge, which are the
  assumptions of `KeyChainProofs`;
* that the blocks of the two texts stand out from the others (`TextStandsOut`), and that
  `extract` then makes the secret of them (`SecretComesOut`): what an entropy, a decryption or a
  digest comes to is recursion over data, of which only instances can be checked.

## 6. Abstractions

* `PagedMemory`: the bytes that a slot holds at boot come from the ROM and are
  written back by nobody (the boot tags are no pages); they are `Zero`.
  `NEW_OFF_SRC` after a hit is an address nobody reads. Variables that are dead in
  a phase have a fixed value. Page 0xfff0 is left out of the pages the virtual machine
  addresses; `paged_straddle` reaches it by a word at the end of the page before.
* `Session`: the decryption of the next layer and the comparison of the verdict are a
  choice between accepted and refused. Registers and flags are not reset between
  layers; the model has none.
* `Interpreter`: programs do not write their own code. A word across two pages is
  modelled where it is read; where it is stored (by `save_dest` or a call) the behaviour
  ends, since a flat memory cannot tell which byte of the neighbour slot it
  damages, which is the subject of `paged_straddle` (the pages needed until then count in
  `FitsInTheCache`). It also ends with a return that loads more than 7 for
  `CURRENT_BITS`, which the code takes as it is: `read_nbits` is written for 0 to 7, and from
  9 on most of its shifts are by counts that C leaves undefined (`8 - CURRENT_BITS` wraps at
  2^16). Memory references of type 3, which the code refuses, and shift counts of 0
  and above 15, which are undefined in C, are left out. Instructions are records: which
  bytes `read_nbits` looks at is modelled, what their bits are worth is not.
* `FlatVm`: the generated C sets the zero flag of a shift by its result, the firmware
  always sets it; `z` is free after a shift. `vmdisas.rb` does not wrap addresses;
  the programs checked stay inside the memory.

* `Layer1` .. `Layer3`: scratch words and flags that nobody reads are left out. The
  searches of the programs are cut down to the keys around the right ones in the
  configuration (`Near`), not in the modules; words of 6 bits have every key.
* `Transport`: a byte is its message and its place, not a value. A reply is named by the
  number of requests that the webcam had handled. Resets of a connection (and the signal
  that a write to a closed one raises) are left out, as is a second client that opens
  its connection before the first one has closed its own.
* `Blocks`: blocks of 8 bytes of 3 bits; entropy times the size of a block, in tenths of
  bits, from a table of c * log c; RC4 is a stream that is added, MD5 a sum of one
  byte: external code, modelled as the two programs use it. A text is a secret whose
  whole blocks are uniform: in so small a block nothing else has a low entropy. A
  partition without candidates, on which uninitialised memory is read, is left out.

## 7. Findings and observations

Two runs end in a violation, each of what the repository says of the program:

1. `words_across_pages`: a word read at the last byte of a page is always 0, since
   its halves are combined by `&` (line 446, whose comment says it should be `|`). The
   same property fails for a word written there, which also changes the first byte of
   the page in the next slot (line 437; `sub_4166` is to set a value *at* `addr`, line 423);
   TLC stops at the read. `SpillIsConfined` bounds what such a write can damage.
2. `push`: a `mov` to the stack moves the stack pointer when it is *not* executed (line
   1504), where the assembly in the comments jumps over the decrement in that case
   (lines 1187 and 1189).

Met on the way, and within the properties:

* An instruction may fault for ever once a page it reads first has been written:
  its code, or the word a call goes through, followed by the two pages of a
  frame (at five slots a simulation finds it from about 2 % of the cache states in
  which such a word has been written, from none in which it has not). `InstructionEnds` excludes that case; the layers do not modify their
  code and make no such call.
* A call through memory by code across two pages, with a frame across two pages,
  needs the five slots at once. Five are enough as long as no operand is a word
  across two pages (`FiveSlotsAreEnough`), so the firmware has not one slot too many. With such
  operands an instruction may need six: a `mov` between two of them from code across two
  pages, or the call above through such a word. There are five slots, so it is restarted for
  ever. That its pages fit is necessary for an instruction to end and not sufficient (the
  previous point).
* An ALU instruction updates `FLAGS` before `save_dest`. `NoTrace` holds because its
  destination has been read, so that the page is there; it would not for an
  obfuscated destination indexed by r15, whose address is worked out a second time
  after the PC has moved. No program in the repository does that.
* The first word of a frame stays below the stack when the second one faults.
* `test_flags` of the firmware never holds for test 14, which `vmdisas.rb` prints as
  unconditional.
* The sled drives out of the webcam all that matters, not everything: the slots may
  still hold the last pages of the sled of the layer before, of which
  `RunsWhatIsLoaded` makes an exception (`StillHeld`). A layer that came to these pages
  within a few faults would slide down the old sled. The layers of the challenge do
  not: the sled of layer 1 ends at pages 97 to 101, and layer 2 runs long before
  it gets there. Fourteen pages
  are exactly enough for five slots: with one page less than N(N+1)/2 - 1, `SledFlushes` fails.
* In layer 3 a word of the stream below 255 can be made by two keys, and one word by
  none; `bflayer3.c` rightly prints all that fit. The borrow of a subtraction is also
  set when 0 is subtracted; the layers never test it there.
* `usb_control_msg` takes one `read()` for a reply: the rest of a reply that was cut is
  taken for the beginning of the next one, and the client works with wrong pages.
  `netserver` hangs up on a header that was cut and exits on a page that was
  cut. On one host, where what is written at once arrives at once, none of this
  happens (`Undisturbed`).
* A second client inherits the webcam as the first has left it: cache, program
  counter, elected slot. `netserver` has to be started again with each client.
* `extract.c` copies 258 blocks to where 257 have room: its loop includes `END_BLOCK`, whose
  comment already counts the excluded block. What is overwritten is written again
  before it is used (`SecretComesOut`), or lies behind the two buffers.
* `findblocks.c` looks at `MAX_CANDIDATES` after it has written the candidate too many. When
  no candidate fits, the first one is shown again, with a difference of 0;
  with a text this does not happen (`FoundInOrder`). The last block of the secret cannot be found: its 16 bytes are
  decrypted into the block before, and what the program looks at lies behind the end.

## 8. Not modelled

* **CY16 emulator** (`part2a_rom/code/emul`): the tool with which the ROM was understood,
  with its instruction set, debugger, loader and interfaces. What it runs is machine
  code of the challenge, which is not in the C programs; the properties worth
  stating are about single instructions against a manual that the repository does
  not hold.
* **White-box DES** (`part1_wb/code/reverse.py`): arithmetic on tables of the binary, run once.
* **`bflayer*.orig.c`**: the output of `vmdisas.rb` before the author's edits: the same
  `f()` as in the three programs that are modelled, but one that starts over for ever
  instead of returning, with a `do_init` that is still to be written. What was edited
  into a program (the registers, `ret`, the files, the loops of `main`) is modelled.
* **The bits of an instruction**: `read_nbits` is modelled by the bytes it looks at.
* **The text that `vmdisas.rb` prints**, the ROM tools, the logging and the tests: one-shot
  conversions and output, without state.
