---------------------------- MODULE PagedMemory ----------------------------
(***************************************************************************)
(* The paging protocol between ssticrypt and the webcam: the loop of       *)
(* vicpwn_handle (client.c), the handlers of the vendor requests 0x51 and  *)
(* 0x56 and the memory accesses sub_4166 / sub_41a6 / sub_41da (server.c). *)
(*                                                                         *)
(* The virtual machine is only seen through its accesses, which are        *)
(* arbitrary: a module that extends this one can make it the real one.     *)
(* A byte is an opaque value and an address a pair <<page, offset>>.       *)
(***************************************************************************)
EXTENDS PageCache

CONSTANTS
  PageSize,     \* bytes in a page (16)
  Byte,         \* values of a byte
  Zero,         \* the null byte
  TrailerByte,  \* stands for the bytes of the two offsets that follow a page in a reply
  VmPages,      \* pages the virtual machine addresses; page 0xfff0 is not one
  WordOffsets,  \* offsets at which its programs place words
  DonePage      \* the page of address 0x8000, where a layer says it has finished

Offsets == 0 .. PageSize - 1
LastOffset == PageSize - 1

\* An int, or the two words appended to a page: 4 bytes from the start of a page.
FirstFour == {o \in Offsets : o < 4}

ASSUME PagedMemoryAssumption ==
  /\ PageSize \in Nat \ {0}
  /\ Zero \in Byte
  /\ TrailerByte \notin Byte
  /\ VmPages \subseteq Pages \ {TopPage}
  /\ 0 \in VmPages
  /\ WordOffsets \subseteq Offsets
  /\ DonePage \in Pages

Address == VmPages \X Offsets
WordAddress == VmPages \X WordOffsets

Succ(a) == IF a[2] = LastOffset THEN <<(a[1] + 1) % NPages, 0>>
                                ELSE <<a[1], a[2] + 1>>

Line == [Offsets -> Byte]

VARIABLES
  ram,        \* the client's memory: ram[p] is the line of page p
  buf,        \* buf[s]: the line in slot s; buf[NSlots]: the bytes behind the last slot
  newOffSrc,  \* NEW_OFF_SRC: the address the virtual machine is blocked on
  saved,      \* SAVED_OFF_DEST, SAVED_OFF_SRC: the bytes a reply has overwritten
              \* (null outside of that: the virtual machine reuses the two words)
  half,       \* the second half of a word access that crosses a page boundary
  phase,      \* where the synchronous exchange of requests stands
  offSrc,     \* off_src in the client
  reply,      \* the 20 bytes read by request 0x56
  out         \* the last access of the virtual machine, with the bytes read or written

clientVars == <<ram, offSrc, reply>>
serverVars == <<buf, newOffSrc, saved, half, out>>
vars == <<cacheVars, clientVars, serverVars, phase>>

\* After a hit NEW_OFF_SRC is an address of the webcam's own memory.  Nobody reads
\* it: the virtual machine only gives up at a fault, which overwrites it.
Translated == <<NoPage, 0>>

NothingSaved == [o \in FirstFour |-> Zero]
NoHalf == [kind |-> "none", addr |-> <<0, 0>>, val |-> Zero]
NoReply == [line |-> [o \in Offsets |-> Zero], page |-> NoPage, dirty |-> FALSE]

Phases == {"loop", "run", "send", "sending", "reply", "exit"}

\* Every variable has the shape the code gives it; ages do not leave 16 bits.
TypeOK ==
  /\ CacheTypeOK
  /\ ram \in [Pages -> Line]
  /\ buf \in [0 .. NSlots -> [Offsets -> Byte \cup {TrailerByte}]]
  /\ newOffSrc \in (Pages \X Offsets) \cup {Translated}
  /\ saved \in [FirstFour -> Byte \cup {TrailerByte}]
  /\ half \in [kind : {"none", "get", "set"}, addr : Pages \X Offsets, val : Byte]
  /\ phase \in Phases
  /\ offSrc \in Pages \X Offsets
  /\ reply \in [line : [Offsets -> Byte \cup {TrailerByte}],
                page : Pages \cup {NoPage}, dirty : BOOLEAN]

(***************************************************************************)
(* The client starts with the layer in its memory and the int at 0x8000    *)
(* null; the webcam has just booted.                                       *)
(***************************************************************************)
Init ==
  /\ CacheInit
  /\ ram \in {r \in [Pages -> Line] : \A o \in FirstFour : r[DonePage][o] = Zero}
  /\ buf = [s \in 0 .. NSlots |-> [o \in Offsets |-> Zero]]
  /\ newOffSrc = <<0, 0>>
  /\ saved = NothingSaved
  /\ half = NoHalf
  /\ phase = "loop"
  /\ offSrc = <<0, 0>>
  /\ reply = NoReply
  /\ out = <<>>

-----------------------------------------------------------------------------
(* The client *)

Done == \E o \in FirstFour : ram[DonePage][o] # Zero

\* The loop stops once the layer says so and the webcam asks for address 0.
Leave ==
  /\ phase = "loop"
  /\ Done /\ offSrc = <<0, 0>>
  /\ phase' = "exit"
  /\ UNCHANGED <<cacheVars, clientVars, serverVars>>

\* Slip: page 0xfff0 is sent like any other.
SendEveryPage ==
  /\ phase = "loop"
  /\ ~(Done /\ offSrc = <<0, 0>>)
  /\ offSrc' = <<offSrc[1], 0>>
  /\ CacheFill(offSrc[1])
  /\ buf' = [buf EXCEPT ![slot] = ram[offSrc[1]]]
  /\ phase' = "run"
  /\ UNCHANGED <<ram, reply, newOffSrc, saved, half, out>>

\* Request 0x51: the page asked for goes to the elected slot and the virtual
\* machine is resumed.  Page 0xfff0 is not sent.
SendPage ==
  /\ phase = "loop"
  /\ ~(Done /\ offSrc = <<0, 0>>)
  /\ offSrc' = <<offSrc[1], 0>>
  /\ IF offSrc[1] = TopPage
       THEN /\ phase' = "send"
            /\ UNCHANGED <<cacheVars, buf>>
       ELSE /\ CacheFill(offSrc[1])
            /\ buf' = [buf EXCEPT ![slot] = ram[offSrc[1]]]
            /\ phase' = "run"
  /\ UNCHANGED <<ram, reply, newOffSrc, saved, half, out>>

\* Slips: the test of bit 0 is inverted; off_src is not read from the reply.
WriteBackClean ==
  /\ phase = "reply"
  /\ ram' = IF reply.page \notin {TopPage, NoPage} /\ ~reply.dirty
              THEN [ram EXCEPT ![reply.page] = reply.line]
              ELSE ram
  /\ offSrc' = newOffSrc
  /\ reply' = NoReply
  /\ phase' = "loop"
  /\ UNCHANGED <<cacheVars, serverVars>>

WriteBackOnly ==
  /\ phase = "reply"
  /\ ram' = IF reply.page \notin {TopPage, NoPage} /\ reply.dirty
              THEN [ram EXCEPT ![reply.page] = reply.line]
              ELSE ram
  /\ reply' = NoReply
  /\ phase' = "loop"
  /\ UNCHANGED <<cacheVars, serverVars, offSrc>>

\* The reply of request 0x56 is the elected slot and, in the four bytes behind
\* it, its tag and the address asked for; a written page goes back to the
\* client's memory unless its tag is one of the boot tags 0xfff1 .. 0xfff5.
WriteBack ==
  /\ phase = "reply"
  /\ ram' = IF reply.page \notin {TopPage, NoPage} /\ reply.dirty
              THEN [ram EXCEPT ![reply.page] = reply.line]
              ELSE ram
  /\ offSrc' = newOffSrc
  /\ reply' = NoReply
  /\ phase' = "loop"
  /\ UNCHANGED <<cacheVars, serverVars>>

-----------------------------------------------------------------------------
(* The webcam: request 0x56 *)

\* handle_send_req: the four bytes behind the elected slot are put aside and
\* overwritten by the two offsets.
PrepareReply ==
  /\ phase = "send"
  /\ saved' = [o \in FirstFour |-> buf[slot + 1][o]]
  /\ buf' = [buf EXCEPT ![slot + 1] =
               [o \in Offsets |-> IF o \in FirstFour THEN TrailerByte ELSE @[o]]]
  /\ phase' = "sending"
  /\ UNCHANGED <<cacheVars, clientVars, newOffSrc, half, out>>

\* Slip: the callback does not put the four bytes back.
SendReplyOnly ==
  /\ phase = "sending"
  /\ reply' = [line |-> buf[slot], page |-> tag[slot], dirty |-> dirty[slot]]
  /\ saved' = NothingSaved
  /\ phase' = "reply"
  /\ UNCHANGED <<cacheVars, ram, buf, offSrc, newOffSrc, half, out>>

\* do_susb1_send_int copies the reply and its callback sub_40e8 puts the four
\* bytes back.
SendReply ==
  /\ phase = "sending"
  /\ reply' = [line |-> buf[slot], page |-> tag[slot], dirty |-> dirty[slot]]
  /\ buf' = [buf EXCEPT ![slot + 1] =
               [o \in Offsets |-> IF o \in FirstFour THEN saved[o] ELSE @[o]]]
  /\ saved' = NothingSaved
  /\ phase' = "reply"
  /\ UNCHANGED <<cacheVars, ram, offSrc, newOffSrc, half, out>>

-----------------------------------------------------------------------------
(* The webcam: the accesses of the virtual machine (sub_4166, sub_41a6) *)

GetByte(a) ==
  \E s \in Slots :
    /\ CacheHit(s, a[1], FALSE)
    /\ out' = <<"get", a, <<buf[s][a[2]]>>>>
    /\ UNCHANGED <<buf, half>>

SetByte(a, v) ==
  \E s \in Slots :
    /\ CacheHit(s, a[1], TRUE)
    /\ buf' = [buf EXCEPT ![s][a[2]] = v]
    /\ out' = <<"set", a, <<v>>>>
    /\ UNCHANGED half

\* Inside a page a word takes one translation.
GetWord(a) ==
  /\ a[2] # LastOffset
  /\ \E s \in Slots :
       /\ CacheHit(s, a[1], FALSE)
       /\ out' = <<"get", a, <<buf[s][a[2]], buf[s][a[2] + 1]>>>>
  /\ UNCHANGED <<buf, half>>

SetWord(a, lo, hi) ==
  /\ a[2] # LastOffset
  /\ \E s \in Slots :
       /\ CacheHit(s, a[1], TRUE)
       /\ buf' = [buf EXCEPT ![s][a[2]] = lo, ![s][a[2] + 1] = hi]
  /\ out' = <<"set", a, <<lo, hi>>>>
  /\ UNCHANGED half

\* Slip: the high byte lands one byte further.
SetWordLowTooFar(a, lo, hi) ==
  /\ a[2] = LastOffset
  /\ \E s \in Slots :
       /\ CacheHit(s, a[1], TRUE)
       /\ buf' = [buf EXCEPT ![s][LastOffset] = lo, ![s + 1][1] = hi]
  /\ half' = [kind |-> "set", addr |-> Succ(a), val |-> hi]
  /\ out' = <<>>

\* Across two pages a word takes two.  The first one stores the whole word, and
\* so its high byte in the first byte of the next slot.
GetWordLow(a) ==
  /\ a[2] = LastOffset
  /\ \E s \in Slots : CacheHit(s, a[1], FALSE)
  /\ half' = [kind |-> "get", addr |-> Succ(a), val |-> Zero]
  /\ UNCHANGED <<buf, out>>

SetWordLow(a, lo, hi) ==
  /\ a[2] = LastOffset
  /\ \E s \in Slots :
       /\ CacheHit(s, a[1], TRUE)
       /\ buf' = [buf EXCEPT ![s][LastOffset] = lo, ![s + 1][0] = hi]
  /\ half' = [kind |-> "set", addr |-> Succ(a), val |-> hi]
  /\ out' = <<>>

\* The two bytes read are combined by (ret << 8) & low, which is null.
GetWordHigh ==
  /\ half.kind = "get"
  /\ \E s \in Slots : CacheHit(s, half.addr[1], FALSE)
  /\ out' = <<"get", half.addr, <<Zero, Zero>>>>
  /\ half' = NoHalf
  /\ UNCHANGED buf

SetWordHigh ==
  /\ half.kind = "set"
  /\ \E s \in Slots :
       /\ CacheHit(s, half.addr[1], TRUE)
       /\ buf' = [buf EXCEPT ![s][half.addr[2]] = half.val]
  /\ half' = NoHalf
  /\ out' = <<>>

\* One translation that succeeds.
Access ==
  /\ phase = "run"
  /\ \/ /\ half.kind = "none"
        /\ \/ \E a \in Address : GetByte(a) \/ \E v \in Byte : SetByte(a, v)
           \/ \E a \in WordAddress :
                \/ GetWord(a) \/ GetWordLow(a)
                \/ \E lo, hi \in Byte : SetWord(a, lo, hi) \/ SetWordLow(a, lo, hi)
     \/ GetWordHigh
     \/ SetWordHigh
  /\ newOffSrc' = Translated
  /\ UNCHANGED <<clientVars, saved, phase>>

\* One that fails: the instruction is abandoned and the request returns.
FaultAt(a) ==
  /\ \E s \in Slots : CacheMiss(s, a[1])
  /\ newOffSrc' = a
  /\ half' = NoHalf
  /\ phase' = "send"
  /\ UNCHANGED <<clientVars, buf, saved, out>>

Fault ==
  /\ phase = "run"
  /\ IF half.kind = "none" THEN \E a \in Address : FaultAt(a)
                           ELSE FaultAt(half.addr)

-----------------------------------------------------------------------------
Next ==
  \/ Leave \/ SendPage \/ WriteBack
  \/ PrepareReply \/ SendReply
  \/ Access \/ Fault

Spec == Init /\ [][Next]_vars

\* The client and the handlers of the webcam never stop in the middle of an
\* exchange; nothing is assumed of the virtual machine.
Exchange == Leave \/ SendPage \/ WriteBack \/ PrepareReply \/ SendReply

FairSpec == Spec /\ WF_vars(Exchange)
-----------------------------------------------------------------------------
(* Properties *)

\* The line of slot s, the four bytes a reply borrows included.
ServerLine(s) ==
  [o \in Offsets |-> IF phase = "sending" /\ s = slot + 1 /\ o \in FirstFour
                       THEN saved[o] ELSE buf[s][o]]

\* The memory the virtual machine sees: a page is where the scan finds it, or
\* with the client.
View ==
  [a \in Address |->
     IF Resident(a[1])
       THEN ServerLine(CHOOSE s \in Slots : Matches(s, a[1]))[a[2]]
       ELSE ram[a[1]][a[2]]]

\* No page is in two slots: a write would go to one copy, and the other one
\* could be written back later over it (sub_41da looks the page up before it
\* elects a slot, handle_receive_req does not look).
UniqueResidency ==
  \A s, t \in Slots : tag[s] = tag[t] /\ tag[s] \in VmPages => s = t

\* A slot whose bit 0 is clear may be dropped: the client has the same line.
\* (The client writes back only what the bit of the reply tells it to.)
CleanIsCurrent ==
  \A s \in Slots :
    tag[s] \in VmPages /\ ~dirty[s] => ram[tag[s]] = ServerLine(s)

\* When request 0x51 is about to overwrite the elected slot, the client has
\* what it holds, written or not, and the page it sends is in no slot.
NothingLostAtFill ==
  phase = "loop" =>
    /\ tag[slot] \in VmPages => ram[tag[slot]] = ServerLine(slot)
    /\ ~Resident(offSrc[1])

\* Whatever the pages moved, the virtual machine reads and writes a flat memory.
Flat == INSTANCE FlatMemory WITH mem <- View, out <- out

FlatSpec == Flat!Spec

\* A page fault is served by the page asked for, or the layer is over: the client
\* never keeps the virtual machine waiting, except for page 0xfff0.
FaultServed ==
  \A p \in Pages \ {TopPage} :
    (phase = "send" /\ newOffSrc[1] = p)
      ~> (phase = "exit" \/ (phase = "run" /\ Resident(p)))

\* Page 0xfff0 is "no page" to the client, which then repeats request 0x56 for
\* ever: once it is asked for, neither the layer nor the client gets on.
AwaitsTopPage == phase \notin {"run", "exit"} /\ newOffSrc[1] = TopPage

TopPageStarves == [][AwaitsTopPage => AwaitsTopPage']_vars

\* A word read across two pages is made of the two bytes at its address, and one
\* that is written there changes, of all the bytes of the memory, at most these.
WordAccessIsExact ==
  [][/\ half.kind = "get" /\ half'.kind = "none" /\ phase' = "run"
          => \A a \in Address : Succ(a) = half.addr => out'[3] = <<View[a], View[half.addr]>>
     /\ half.kind # "set" /\ half'.kind = "set"
          => \A b \in Address : View'[b] # View[b] => b = half'.addr \/ Succ(b) = half'.addr
    ]_vars

\* What such a write can damage: the first byte of the page that happens to be
\* in the next slot, and nothing in the client's memory.
SpillIsConfined ==
  [][half.kind # "set" /\ half'.kind = "set"
       => /\ ram' = ram
          /\ \A b \in Address :
               View'[b] # View[b]
                 => \/ Succ(b) = half'.addr
                    \/ \E s \in Slots \ {0} : b = <<tag[s], 0>> /\ age'[s - 1] = 0
    ]_vars
=============================================================================
