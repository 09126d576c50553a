------------------------------ MODULE Session ------------------------------
(***************************************************************************)
(* The three layers one after the other: vicpwn_handle (client.c) over the *)
(* page cache of the webcam, which nothing empties between two layers.     *)
(*                                                                         *)
(* The client takes a layer for finished when it finds the int at 0x8000   *)
(* not null in its own memory and the webcam asks for address 0.  A layer  *)
(* makes this come true by its own doing: it writes the int, runs through  *)
(* a sled (instructions "mov r0, 0xaa" over SledLength pages that nothing  *)
(* has touched before) and jumps to 0.                                     *)
(*                                                                         *)
(* A page is a token that says who wrote it last: PagedMemory shows that   *)
(* pages move whole, and that one access is one translation.  An access in *)
(* the model stands for a run of accesses to one page.                     *)
(***************************************************************************)
EXTENDS PageCache

CONSTANTS
  NLayers,     \* number of layers (3)
  BodyLength,  \* BodyLength[i]: pages of the code of layer i in front of its sled
  SledLength,  \* pages of a sled
  KeyPage,     \* page of address 0xa000: the key goes in, the verdict comes out
  DonePage,    \* page of address 0x8000
  DataPages,   \* the other pages a layer writes
  MaxWork      \* bound on the accesses of a layer in front of its sled

Layers == 0 .. NLayers - 1
Body(i) == 0 .. BodyLength[i] - 1
CodeLength(i) == BodyLength[i] + SledLength
Code(i) == 0 .. CodeLength(i) - 1

ASSUME SessionAssumption ==
  /\ NLayers \in Nat \ {0}
  /\ BodyLength \in [Layers -> Nat \ {0}]
  /\ SledLength \in Nat \ {0}
  /\ MaxWork \in Nat
  /\ {KeyPage, DonePage} \cup DataPages \subseteq Pages \ {TopPage}
  /\ KeyPage # DonePage /\ DataPages \cap {KeyPage, DonePage} = {}
  /\ \A i \in Layers :
       /\ Code(i) \subseteq Pages \ {TopPage}
       /\ Code(i) \cap (DataPages \cup {KeyPage, DonePage}) = {}

Blank == <<"blank", 0>>
CodeOf(i) == <<"code", i>>
KeyOf(i) == <<"key", i>>
WrittenBy(i) == <<"vm", i>>
DoneBy(i) == <<"done", i>>
Content == {Blank} \cup ({"code", "key", "vm", "done"} \X Layers)

VARIABLES
  ram,     \* the client's memory
  buf,     \* the pages in the slots
  layer,   \* i in vicpwn_handle
  phase,   \* where the synchronous exchange stands
  wanted,  \* the page the webcam has asked for
  at,      \* where the layer is: jumping to 0, in its body, in the instruction that
           \* says it has finished, or in its sled
  far,     \* the furthest page of its code it has fetched
  work,    \* its accesses so far, those that its end requires excepted
  seen,    \* the page read last, with its content
  verdict  \* what vicpwn_check has found in the page of the key

clientVars == <<ram, layer, wanted, verdict>>
vmVars == <<at, far, work, seen>>
vars == <<cacheVars, clientVars, vmVars, buf, phase>>

\* Every variable has the shape the code gives it.
TypeOK ==
  /\ CacheTypeOK
  /\ ram \in [Pages -> Content]
  /\ buf \in [Slots -> Content]
  /\ layer \in Layers
  /\ phase \in {"loop", "run", "reply", "exit"}
  /\ wanted \in Pages
  /\ at \in {"jump", "body", "saying", "sled"}
  /\ far \in UNION {Code(i) : i \in Layers}
  /\ work \in 0 .. MaxWork
  /\ seen \in Pages \X Content
  /\ verdict \in Content

\* Slip: the key is left out.
LoadedWithoutKey(mem, i) ==
  [p \in Pages |-> IF p \in Code(i) THEN CodeOf(i) ELSE mem[p]]

\* load_layer and set_my_key write over what the previous layer has left.
Loaded(mem, i) ==
  [p \in Pages |-> IF p \in Code(i) THEN CodeOf(i)
                   ELSE IF p = KeyPage THEN KeyOf(i)
                   ELSE mem[p]]

\* The webcam boots with a null program counter: it is about to fetch address 0.
Init ==
  /\ CacheInit
  /\ ram = Loaded([p \in Pages |-> Blank], 0)
  /\ buf = [s \in Slots |-> Blank]
  /\ layer = 0
  /\ phase = "loop"
  /\ wanted = 0
  /\ at = "jump" /\ far = 0 /\ work = 0
  /\ seen = <<0, CodeOf(0)>>
  /\ verdict = Blank
-----------------------------------------------------------------------------
(* The client *)

Done == ram[DonePage][1] = "done"

\* Slip: the loop ends as soon as the int is seen.
LayerOverWhenDone == Done

\* The condition of the while loop, negated.  Only a jump to 0 asks for address 0.
LayerOver == Done /\ wanted = 0 /\ at = "jump"

SendPage ==
  /\ phase = "loop"
  /\ ~LayerOver
  /\ CacheFill(wanted)
  /\ buf' = [buf EXCEPT ![slot] = ram[wanted]]
  /\ phase' = "run"
  /\ UNCHANGED <<clientVars, vmVars>>

\* The elected slot comes back with request 0x56.
WriteBack ==
  /\ phase = "reply"
  /\ ram' = IF tag[slot] \notin {TopPage, NoPage} /\ dirty[slot]
              THEN [ram EXCEPT ![tag[slot]] = buf[slot]]
              ELSE ram
  /\ phase' = "loop"
  /\ UNCHANGED <<cacheVars, layer, wanted, verdict, vmVars, buf>>

\* Slip: the int at 0x8000 is not reset.
NextLayerStillDone ==
  /\ phase = "loop"
  /\ LayerOver
  /\ layer < NLayers - 1
  /\ verdict' = ram[KeyPage]
  /\ layer' = layer + 1
  /\ ram' = Loaded(ram, layer + 1)
  /\ UNCHANGED <<cacheVars, wanted, vmVars, buf, phase>>

\* vicpwn_check accepts the verdict and the next layer is loaded.  The webcam is
\* not told: it waits for page 0.
NextLayer ==
  /\ phase = "loop"
  /\ LayerOver
  /\ layer < NLayers - 1
  /\ verdict' = ram[KeyPage]
  /\ layer' = layer + 1
  /\ ram' = Loaded([ram EXCEPT ![DonePage] = Blank], layer + 1)
  /\ UNCHANGED <<cacheVars, wanted, vmVars, buf, phase>>

\* A bad key, or the last layer.
Exit ==
  /\ phase = "loop"
  /\ LayerOver
  /\ verdict' = ram[KeyPage]
  /\ phase' = "exit"
  /\ UNCHANGED <<cacheVars, ram, layer, wanted, vmVars, buf>>
-----------------------------------------------------------------------------
(* The layer *)

\* An access that ends.
Access(p, writes, content) ==
  \E s \in Slots :
    /\ CacheHit(s, p, writes)
    /\ buf' = IF writes THEN [buf EXCEPT ![s] = content] ELSE buf
    /\ seen' = <<p, buf'[s]>>

\* One that does not: the page is asked for.
Fault(p) ==
  /\ \E s \in Slots : CacheMiss(s, p)
  /\ wanted' = p
  /\ phase' = "reply"
  /\ UNCHANGED <<ram, buf, layer, verdict, far, seen>>

JumpToZero ==
  /\ phase = "run" /\ at = "jump"
  /\ Access(0, FALSE, Blank)
  /\ at' = "body" /\ far' = 0 /\ work' = 0
  /\ UNCHANGED <<clientVars, phase>>

\* Code is met in order.
FetchOn ==
  /\ phase = "run" /\ at = "body" /\ far + 1 \in Body(layer)
  /\ Access(far + 1, FALSE, Blank)
  /\ far' = far + 1
  /\ UNCHANGED <<clientVars, at, work, phase>>

\* The layers jump backwards, read and write their data, the key included.
BodyPages == (Body(layer) \cap 0 .. far) \cup DataPages \cup {KeyPage}

Work(p) ==
  /\ phase = "run" /\ at = "body" /\ work < MaxWork
  /\ p \in BodyPages
  /\ \E writes \in BOOLEAN :
       /\ writes => p \notin Body(layer)
       /\ Access(p, writes, WrittenBy(layer))
  /\ work' = work + 1
  /\ UNCHANGED <<clientVars, at, far, phase>>

\* At the end of the body the layer writes the int at 0x8000: the instruction is
\* fetched,
FetchEnd ==
  /\ phase = "run" /\ at = "body" /\ far + 1 \notin Body(layer)
  /\ Access(far, FALSE, Blank)
  /\ at' = "saying"
  /\ UNCHANGED <<clientVars, far, work, phase>>

\* and executed.
SayDone ==
  /\ phase = "run" /\ at = "saying"
  /\ Access(DonePage, TRUE, DoneBy(layer))
  /\ at' = "sled"
  /\ UNCHANGED <<clientVars, far, work, phase>>

\* Slip: the jump is looked for one page too far.
SlideTooFar ==
  /\ phase = "run" /\ at = "sled"
  /\ Access(far + 1, FALSE, Blank)
  /\ far' = far + 1
  /\ at' = IF far + 1 \in Code(layer) THEN "sled" ELSE "jump"
  /\ UNCHANGED <<clientVars, work, phase>>

\* The sled, page after page.
Slide ==
  /\ phase = "run" /\ at = "sled"
  /\ Access(far + 1, FALSE, Blank)
  /\ far' = far + 1
  /\ at' = IF far + 2 \in Code(layer) THEN "sled" ELSE "jump"
  /\ UNCHANGED <<clientVars, work, phase>>

\* The instruction is run again from its fetch on.
AskForPage ==
  /\ phase = "run"
  /\ at' = IF at = "saying" THEN "body" ELSE at
  /\ \/ /\ \/ at = "jump" /\ Fault(0)
           \/ at = "body" /\ far + 1 \in Body(layer) /\ Fault(far + 1)
           \/ at = "body" /\ far + 1 \notin Body(layer) /\ Fault(far)
           \/ at = "saying" /\ Fault(DonePage)
           \/ at = "sled" /\ Fault(far + 1)
        /\ UNCHANGED work
     \/ /\ at = "body" /\ work < MaxWork
        /\ \E p \in BodyPages : Fault(p)
        /\ work' = work + 1

Next ==
  \/ SendPage \/ WriteBack \/ NextLayer \/ Exit
  \/ JumpToZero \/ FetchOn \/ (\E p \in Pages : Work(p))
  \/ FetchEnd \/ SayDone \/ Slide \/ AskForPage

-----------------------------------------------------------------------------
(* The sled alone, whatever the body of the layer has left in the webcam. *)

\* Ages that a long body may leave, wrapped ones included.  The last two accesses are
\* known: the fetch of the end of the body and the write of the int.
CONSTANT LeftAges

ASSUME LeftAgesAssumption == LeftAges \subseteq [Slots -> 0 .. AgeMod - 1]

SledInit ==
  /\ layer = 0
  /\ tag \in [Slots -> Body(0) \cup DataPages \cup {KeyPage, DonePage, NoPage}]
  /\ \A s, t \in Slots : s # t /\ tag[s] = tag[t] => tag[s] = NoPage
  /\ \E code, int \in Slots :
       /\ tag[code] = BodyLength[0] - 1 /\ tag[int] = DonePage
       /\ dirty \in {d \in [Slots -> BOOLEAN] :
                     d[int] /\ \A s \in Slots : tag[s] \in Body(0) \cup {NoPage} => ~d[s]}
       /\ age \in {a \in LeftAges : a[code] = 1 /\ a[int] = 0}
  /\ slot = 0
  /\ ram = Loaded([p \in Pages |-> Blank], 0)
  /\ buf = [s \in Slots |-> IF tag[s] = DonePage THEN DoneBy(0)
                            ELSE IF tag[s] = NoPage THEN Blank
                            ELSE IF dirty[s] THEN WrittenBy(0) ELSE ram[tag[s]]]
  /\ phase = "run"
  /\ wanted = DonePage
  /\ at = "sled" /\ far = BodyLength[0] - 1 /\ work = 0
  /\ seen = <<DonePage, DoneBy(0)>>
  /\ verdict = Blank

\* A session from its beginning, or from the sled of the first layer on.
Spec == (Init \/ SledInit) /\ [][Next]_vars /\ WF_vars(Next)
-----------------------------------------------------------------------------
(* Properties *)

\* The page the virtual machine would see.
View(p) ==
  IF Resident(p) THEN buf[CHOOSE s \in Slots : Matches(s, p)] ELSE ram[p]

\* A sled of N(N+1)/2 - 1 pages, where N is the number of slots, drives out of the
\* webcam the first page of the layer, so that the client is asked for it, and all
\* that the layer has written, so that nothing comes back later over what the client
\* loads then.  The layers of the challenge have just these: 14 pages for 5 slots.
SledFlushes ==
  at = "jump" =>
    /\ wanted # 0 => ~Resident(0)
    /\ phase = "loop" => \A s \in Slots : dirty[s] => tag[s] \in {TopPage, NoPage}

\* The end of the sled of the previous layer, all that the webcam holds when a layer
\* is loaded.
StillHeld == IF layer = 0 THEN {}
             ELSE CodeLength(layer - 1) - NSlots .. CodeLength(layer - 1) - 1

\* What the client has loaded is what the next layer runs on and finds at 0xa000,
\* but for the pages where the previous sled has ended: nothing invalidates them, and
\* a layer that is quick to reach these pages would slide down the old sled.
RunsWhatIsLoaded ==
  [][phase = "run" /\ phase' = "run"
       => /\ seen'[1] \in Code(layer) =>
               \/ seen'[2] = CodeOf(layer)
               \/ seen'[1] \in StillHeld /\ seen'[2] = CodeOf(layer - 1)
          /\ seen'[1] = KeyPage => seen'[2] \in {KeyOf(layer), WrittenBy(layer)}
    ]_vars

\* vicpwn_check judges the last verdict of the layer, not an older copy.
VerdictIsCurrent ==
  [][verdict' # verdict => verdict' = View(KeyPage)]_vars

\* Each layer runs once: its first page is not read before the client has taken note
\* of the end of the previous one, and the client does not before its sled is over.
LayersRunOnce ==
  [][/\ at = "jump" /\ at' = "body" => ram[DonePage] = Blank
     /\ layer' # layer \/ (phase' = "exit" /\ phase # "exit")
          => seen = <<CodeLength(layer) - 1, CodeOf(layer)>>
    ]_vars

\* The session ends: no layer runs for ever because its end has not been seen.
Finishes == <>(phase = "exit")
=============================================================================
