------------------------- MODULE PagedMemoryProofs -------------------------
(***************************************************************************)
(* Proofs about PagedMemory, for every number of slots and pages, every    *)
(* page size and every modulus of the ages: wherever words are placed, the *)
(* types, and that no page has two slots; and, provided that no word lies  *)
(* across two pages, that nothing is lost.                                 *)
(***************************************************************************)
EXTENDS PagedMemory, TLAPS

(***************************************************************************)
(* The inductive invariant.  That no page gets two slots depends on the    *)
(* page asked for having stayed out of the cache during the whole exchange *)
(* (page 0xfff0 for ever); that the client's memory keeps holding bytes    *)
(* on the reply being the elected slot, and on the borrowed bytes having   *)
(* been put back.                                                          *)
(***************************************************************************)
LinesOK == \A s \in 0 .. NSlots : ServerLine(s) \in Line

WaitsOutside ==
  /\ phase \in {"send", "sending", "reply", "loop"} =>
       newOffSrc \in Pages \X Offsets /\ ~Resident(newOffSrc[1])
  /\ phase = "loop" => offSrc = newOffSrc

ReplyIsSlot ==
  phase = "reply" =>
    reply = [line |-> buf[slot], page |-> tag[slot], dirty |-> dirty[slot]]

SInv ==
  /\ TypeOK
  /\ LinesOK
  /\ WaitsOutside
  /\ ReplyIsSlot
  /\ UniqueResidency

-----------------------------------------------------------------------------
(* The cache *)

LEMMA AgedType ==
  ASSUME CacheTypeOK
  PROVE  Aged \in [Slots -> 0 .. AgeMod - 1]
<1>1. \A x \in Nat : x % AgeMod \in 0 .. AgeMod - 1
  BY CacheAssumption
<1>2. \A s \in Slots : age[s] + 1 \in Nat
  BY CacheAssumption DEF CacheTypeOK
<1> QED
  BY <1>1, <1>2 DEF Aged

\* A scan that succeeds keeps the slots well formed.
LEMMA CacheHitType ==
  ASSUME CacheTypeOK, NEW s \in Slots, NEW p, NEW w \in BOOLEAN, CacheHit(s, p, w)
  PROVE  CacheTypeOK'
<1>1. dirty' \in [Slots -> BOOLEAN]
  BY DEF CacheTypeOK, CacheHit
<1>2. age' \in [Slots -> 0 .. AgeMod - 1]
  BY AgedType, CacheAssumption DEF CacheHit
<1> QED
  BY <1>1, <1>2 DEF CacheTypeOK, CacheHit, Slots

LEMMA CacheMissType ==
  ASSUME CacheTypeOK, NEW s \in Slots, NEW p, CacheMiss(s, p)
  PROVE  CacheTypeOK'
<1>1. age' \in [Slots -> 0 .. AgeMod - 1]
  BY AgedType, CacheAssumption DEF CacheMiss
<1> QED
  BY <1>1 DEF CacheTypeOK, CacheMiss, Slots

LEMMA CacheFillType ==
  ASSUME CacheTypeOK, NEW p \in Pages, CacheFill(p)
  PROVE  CacheTypeOK'
BY DEF CacheTypeOK, CacheFill, Slots

-----------------------------------------------------------------------------
(* The lines *)

LEMMA PageFacts ==
  /\ 0 \in Slots
  /\ 0 \in Offsets /\ LastOffset \in Offsets
  /\ VmPages \subseteq Pages
  /\ TopPage \in Pages /\ TopPage \notin VmPages
  /\ NoPage \notin Pages
  /\ Byte # {} /\ FirstFour \subseteq Offsets
BY CacheAssumption, PagedMemoryAssumption
   DEF Slots, Offsets, LastOffset, Pages, TopPage, NoPage, FirstFour

\* Outside of a reply a slot holds exactly its line.
LEMMA LineIsBuffer ==
  ASSUME TypeOK, phase # "sending", NEW s \in 0 .. NSlots
  PROVE  ServerLine(s) = buf[s]
BY DEF TypeOK, ServerLine

\* Only an access or a page that arrives changes a line.
LEMMA LinesStay ==
  ASSUME TypeOK, Leave \/ WriteBack \/ PrepareReply \/ SendReply \/ Fault
  PROVE  \A s \in 0 .. NSlots : ServerLine(s)' = ServerLine(s)
<1>1. slot \in Slots /\ slot + 1 \in 0 .. NSlots
  BY CacheAssumption DEF TypeOK, CacheTypeOK, Slots
<1>2. CASE Leave \/ WriteBack
  BY <1>2 DEF ServerLine, Leave, WriteBack, cacheVars, serverVars
<1>3. CASE PrepareReply
  BY <1>1, <1>3 DEF TypeOK, ServerLine, PrepareReply, cacheVars
<1>4. CASE SendReply
  BY <1>1, <1>4 DEF TypeOK, ServerLine, SendReply, cacheVars
<1>5. CASE Fault
  BY <1>5 DEF ServerLine, Fault, FaultAt
<1> QED
  BY <1>2, <1>3, <1>4, <1>5

-----------------------------------------------------------------------------
(* The invariant *)

LEMMA InitSInv == Init => SInv
<1> SUFFICES ASSUME Init PROVE SInv
  OBVIOUS
<1>1. TypeOK
  <2>1. CacheTypeOK
    BY PageFacts, CacheAssumption
       DEF Init, CacheInit, CacheTypeOK, Slots, Oldest
  <2>2. ram \in [Pages -> Line]
    BY DEF Init
  <2>3. buf \in [0 .. NSlots -> [Offsets -> Byte \cup {TrailerByte}]]
    BY PagedMemoryAssumption DEF Init
  <2>4. saved \in [FirstFour -> Byte \cup {TrailerByte}]
    BY PagedMemoryAssumption DEF Init, NothingSaved
  <2>5. /\ newOffSrc \in (Pages \X Offsets) \cup {Translated}
        /\ offSrc \in Pages \X Offsets
        /\ half \in [kind : {"none", "get", "set"}, addr : Pages \X Offsets, val : Byte]
    BY PageFacts, PagedMemoryAssumption DEF Init, NoHalf
  <2>6. reply \in [line : [Offsets -> Byte \cup {TrailerByte}],
                   page : Pages \cup {NoPage}, dirty : BOOLEAN]
    BY PagedMemoryAssumption DEF Init, NoReply
  <2> QED
    BY <2>1, <2>2, <2>3, <2>4, <2>5, <2>6 DEF TypeOK, Init, Phases
<1>2. LinesOK
  BY PagedMemoryAssumption DEF Init, LinesOK, ServerLine, Line
<1>3. \A s \in Slots : tag[s] \in {TopPage, NoPage}
  BY DEF Init, CacheInit
<1>4. UniqueResidency
  BY <1>3, PageFacts DEF UniqueResidency
<1>5. WaitsOutside
  <2>1. ~Resident(0)
    BY <1>3, PageFacts, PagedMemoryAssumption DEF Resident
  <2>2. <<0, 0>> \in Pages \X Offsets
    BY PageFacts, PagedMemoryAssumption
  <2> QED
    BY <2>1, <2>2 DEF WaitsOutside, Init
<1> QED
  BY <1>1, <1>2, <1>4, <1>5 DEF SInv, ReplyIsSlot, Init

LEMMA LeaveKeepsSInv ==
  ASSUME SInv, Leave
  PROVE  SInv'
<1> USE DEF Leave, cacheVars, clientVars, serverVars
<1>1. TypeOK'
  BY DEF SInv, TypeOK, CacheTypeOK, Phases
<1>2. \A s \in 0 .. NSlots : ServerLine(s)' = ServerLine(s)
  BY LinesStay DEF SInv
<1>3. LinesOK'
  BY <1>2 DEF SInv, LinesOK
<1>4. UniqueResidency'
  BY DEF SInv, UniqueResidency
<1>5. WaitsOutside' /\ ReplyIsSlot'
  BY DEF WaitsOutside, ReplyIsSlot
<1> QED
  BY <1>1, <1>3, <1>4, <1>5 DEF SInv

\* Request 0x51 puts the page asked for in the elected slot, and it is in no other
\* one; unless it is page 0xfff0, which is asked for again.
LEMMA SendPageKeepsSInv ==
  ASSUME SInv, SendPage
  PROVE  SInv'
<1> DEFINE p == offSrc[1]
<1>1. /\ phase = "loop" /\ offSrc = newOffSrc /\ offSrc \in Pages \X Offsets
      /\ p \in Pages /\ ~Resident(p)
      /\ offSrc' = <<p, 0>>
      /\ UNCHANGED <<ram, reply, newOffSrc, saved, half, out>>
  BY DEF SendPage, SInv, WaitsOutside
<1>2. slot \in Slots /\ Slots \subseteq 0 .. NSlots /\ ram[p] \in Line
  BY <1>1, CacheAssumption DEF SInv, TypeOK, CacheTypeOK, Slots
<1>3. CASE p = TopPage
  <2>1. phase' = "send" /\ UNCHANGED <<cacheVars, buf>>
    BY <1>3 DEF SendPage
  <2>2. TypeOK'
    BY <1>1, <2>1, PageFacts DEF SInv, TypeOK, CacheTypeOK, cacheVars, Phases
  <2>3. \A s \in 0 .. NSlots : ServerLine(s)' = ServerLine(s)
    BY <1>1, <2>1 DEF ServerLine
  <2>4. LinesOK' /\ UniqueResidency' /\ ReplyIsSlot'
    BY <1>1, <2>1, <2>3 DEF SInv, LinesOK, UniqueResidency, ReplyIsSlot, cacheVars
  <2>5. WaitsOutside'
    BY <1>1, <2>1 DEF SInv, WaitsOutside, Resident, cacheVars
  <2> QED
    BY <2>2, <2>4, <2>5 DEF SInv
<1>4. CASE p # TopPage
  <2>1. /\ CacheFill(p)
        /\ buf' = [buf EXCEPT ![slot] = ram[p]]
        /\ phase' = "run"
    BY <1>4 DEF SendPage
  <2>2. TypeOK'
    <3>1. CacheTypeOK'
      BY <1>1, <2>1, CacheFillType DEF SInv, TypeOK
    <3>2. buf' \in [0 .. NSlots -> [Offsets -> Byte \cup {TrailerByte}]]
      BY <1>2, <2>1 DEF SInv, TypeOK, Line
    <3> QED
      BY <1>1, <2>1, <3>1, <3>2, PageFacts DEF SInv, TypeOK, Phases
  <2>3. LinesOK'
    <3>1. \A s \in 0 .. NSlots : ServerLine(s)' = buf'[s] /\ ServerLine(s) = buf[s]
      BY <1>1, <2>1, <2>2 DEF ServerLine, SInv, TypeOK
    <3>2. \A s \in 0 .. NSlots : buf'[s] = IF s = slot THEN ram[p] ELSE buf[s]
      BY <1>2, <2>1 DEF SInv, TypeOK
    <3> QED
      BY <1>2, <3>1, <3>2 DEF SInv, LinesOK
  <2>4. tag' = [tag EXCEPT ![slot] = p]
    BY <2>1 DEF CacheFill
  <2>6. UniqueResidency'
    BY <1>1, <1>2, <1>4, <2>4 DEF SInv, TypeOK, CacheTypeOK, UniqueResidency, Resident
  <2>7. WaitsOutside' /\ ReplyIsSlot'
    BY <2>1 DEF WaitsOutside, ReplyIsSlot
  <2> QED
    BY <2>2, <2>3, <2>6, <2>7 DEF SInv
<1> QED
  BY <1>3, <1>4

\* The client takes back the elected slot if it is written.
LEMMA WriteBackKeepsSInv ==
  ASSUME SInv, WriteBack
  PROVE  SInv'
<1> USE DEF cacheVars, serverVars
<1>1. slot \in Slots /\ Slots \subseteq 0 .. NSlots
  BY CacheAssumption DEF SInv, TypeOK, CacheTypeOK, Slots
<1>2. /\ reply.line \in Line
      /\ reply.page \in Pages \cup {NoPage}
  BY <1>1, LineIsBuffer DEF SInv, TypeOK, CacheTypeOK, ReplyIsSlot, WriteBack, LinesOK
<1>3. \A s \in 0 .. NSlots : ServerLine(s)' = ServerLine(s)
  BY LinesStay DEF SInv
<1>4. TypeOK'
  <2>1. CacheTypeOK'
    BY DEF SInv, TypeOK, CacheTypeOK, WriteBack
  <2>2. reply' \in [line : [Offsets -> Byte \cup {TrailerByte}],
                    page : Pages \cup {NoPage}, dirty : BOOLEAN]
    BY PagedMemoryAssumption DEF WriteBack, NoReply
  <2>3. offSrc' \in Pages \X Offsets
    BY DEF WriteBack, SInv, WaitsOutside
  <2>4. ram' \in [Pages -> Line]
    BY <1>2 DEF WriteBack, SInv, TypeOK
  <2> QED
    BY <2>1, <2>2, <2>3, <2>4 DEF SInv, TypeOK, WriteBack, Phases
<1>5. LinesOK' /\ UniqueResidency'
  BY <1>3 DEF SInv, LinesOK, UniqueResidency, WriteBack
<1>6. WaitsOutside' /\ ReplyIsSlot'
  BY DEF SInv, WaitsOutside, ReplyIsSlot, Resident, WriteBack
<1> QED
  BY <1>4, <1>5, <1>6 DEF SInv

\* The bytes a reply borrows are saved: no line changes.
LEMMA PrepareReplyKeepsSInv ==
  ASSUME SInv, PrepareReply
  PROVE  SInv'
<1> USE DEF cacheVars, clientVars
<1>1. slot \in Slots /\ slot + 1 \in 0 .. NSlots
  BY CacheAssumption DEF SInv, TypeOK, CacheTypeOK, Slots
<1>2. TypeOK'
  <2>1. CacheTypeOK'
    BY DEF SInv, TypeOK, CacheTypeOK, PrepareReply
  <2>2. saved' \in [FirstFour -> Byte \cup {TrailerByte}]
    BY <1>1, PageFacts DEF SInv, TypeOK, PrepareReply
  <2>3. buf' \in [0 .. NSlots -> [Offsets -> Byte \cup {TrailerByte}]]
    BY <1>1 DEF SInv, TypeOK, PrepareReply
  <2> QED
    BY <2>1, <2>2, <2>3 DEF SInv, TypeOK, PrepareReply, Phases
<1>3. \A s \in 0 .. NSlots : ServerLine(s)' = ServerLine(s)
  BY LinesStay DEF SInv
<1>4. LinesOK' /\ UniqueResidency' /\ WaitsOutside' /\ ReplyIsSlot'
  BY <1>3 DEF SInv, LinesOK, UniqueResidency, WaitsOutside, Resident, ReplyIsSlot, PrepareReply
<1> QED
  BY <1>2, <1>4 DEF SInv

\* They are put back, and what the client receives is the elected slot.
LEMMA SendReplyKeepsSInv ==
  ASSUME SInv, SendReply
  PROVE  SInv'
<1> USE DEF cacheVars
<1>1. slot \in Slots /\ slot + 1 \in 0 .. NSlots /\ Slots \subseteq 0 .. NSlots
  BY CacheAssumption DEF SInv, TypeOK, CacheTypeOK, Slots
<1>2. TypeOK'
  <2>1. CacheTypeOK'
    BY DEF SInv, TypeOK, CacheTypeOK, SendReply
  <2>2. saved' \in [FirstFour -> Byte \cup {TrailerByte}]
    BY PagedMemoryAssumption DEF SendReply, NothingSaved
  <2>3. buf' \in [0 .. NSlots -> [Offsets -> Byte \cup {TrailerByte}]]
    BY <1>1 DEF SInv, TypeOK, SendReply
  <2>4. reply' \in [line : [Offsets -> Byte \cup {TrailerByte}],
                    page : Pages \cup {NoPage}, dirty : BOOLEAN]
    BY <1>1 DEF SInv, TypeOK, CacheTypeOK, SendReply
  <2> QED
    BY <2>1, <2>2, <2>3, <2>4 DEF SInv, TypeOK, SendReply, Phases
<1>3. \A s \in 0 .. NSlots : ServerLine(s)' = ServerLine(s)
  BY LinesStay DEF SInv
<1>4. LinesOK' /\ UniqueResidency' /\ WaitsOutside'
  BY <1>3 DEF SInv, LinesOK, UniqueResidency, WaitsOutside, Resident, SendReply
<1>5. ReplyIsSlot'
  BY <1>1 DEF SInv, TypeOK, CacheTypeOK, Slots, ReplyIsSlot, SendReply
<1> QED
  BY <1>2, <1>4, <1>5 DEF SInv

LEMMA SuccIsAddress ==
  \A a \in Pages \X Offsets : Succ(a) \in Pages \X Offsets
<1>1. \A p \in Pages : (p + 1) % NPages \in Pages
  BY CacheAssumption DEF Pages
<1>2. \A o \in Offsets : o # LastOffset => o + 1 \in Offsets
  BY PagedMemoryAssumption DEF Offsets, LastOffset
<1> QED
  BY <1>1, <1>2, PageFacts DEF Succ

\* A fault, also one between the two halves of a word, elects a slot and touches
\* neither the tags nor the lines.
LEMMA FaultKeepsSInv ==
  ASSUME SInv, Fault
  PROVE  SInv'
<1> USE DEF clientVars
<1>1. PICK a \in Pages \X Offsets : FaultAt(a)
  BY PageFacts DEF Fault, SInv, TypeOK, Address
<1>2. PICK s \in Slots : CacheMiss(s, a[1])
  BY <1>1 DEF FaultAt
<1>3. /\ phase = "run" /\ phase' = "send"
      /\ newOffSrc' = a /\ half' = NoHalf
      /\ UNCHANGED <<ram, offSrc, reply, buf, saved, out, tag, dirty>>
      /\ ~Resident(a[1])
  BY <1>1, <1>2 DEF FaultAt, CacheMiss, Fault
<1>4. TypeOK'
  <2>1. CacheTypeOK'
    BY <1>2, CacheMissType DEF SInv, TypeOK
  <2>2. NoHalf \in [kind : {"none", "get", "set"}, addr : Pages \X Offsets, val : Byte]
    BY PageFacts, PagedMemoryAssumption DEF NoHalf
  <2> QED
    BY <1>3, <2>1, <2>2 DEF SInv, TypeOK, Phases
<1>5. \A t \in 0 .. NSlots : ServerLine(t)' = ServerLine(t)
  BY LinesStay DEF SInv
<1>6. LinesOK' /\ UniqueResidency' /\ WaitsOutside' /\ ReplyIsSlot'
  BY <1>3, <1>5 DEF SInv, LinesOK, UniqueResidency, WaitsOutside, Resident, ReplyIsSlot
<1> QED
  BY <1>4, <1>6 DEF SInv

\* What an access does, whatever it is.
Accesses ==
  /\ \E s \in Slots, p \in Pages, w \in BOOLEAN : CacheHit(s, p, w)
  /\ buf' \in [0 .. NSlots -> Line]
  /\ half' \in [kind : {"none", "get", "set"}, addr : Pages \X Offsets, val : Byte]

\* A word across two pages may write into the slot behind its own: bytes all the same.
LEMMA AccessIs ==
  ASSUME SInv, Access
  PROVE  Accesses
<1> DEFINE Halves == [kind : {"none", "get", "set"}, addr : Pages \X Offsets, val : Byte]
<1>1. phase = "run" /\ half \in Halves /\ NoHalf \in Halves
  BY PageFacts, PagedMemoryAssumption DEF Access, SInv, TypeOK, NoHalf
<1>2. buf \in [0 .. NSlots -> Line]
  <2>1. \A s \in 0 .. NSlots : buf[s] \in Line
    BY <1>1, LineIsBuffer DEF SInv, LinesOK
  <2> QED
    BY <2>1 DEF SInv, TypeOK
<1>3. \A s \in Slots : s \in 0 .. NSlots /\ s + 1 \in 0 .. NSlots
  BY CacheAssumption DEF Slots
<1>4. \A o \in Offsets : o # LastOffset => o + 1 \in Offsets
  BY PagedMemoryAssumption DEF Offsets, LastOffset
<1>5. /\ \A a \in Address : a[1] \in Pages /\ a[2] \in Offsets
      /\ \A a \in WordAddress : a \in Pages \X Offsets /\ a[1] \in Pages /\ a[2] \in Offsets
  BY PageFacts, PagedMemoryAssumption DEF Address, WordAddress
<1>6. \A a \in WordAddress : Succ(a) \in Pages \X Offsets
  BY <1>5, SuccIsAddress
<1>7. ASSUME NEW a \in Address, GetByte(a)
      PROVE  Accesses
  BY <1>1, <1>2, <1>5, <1>7 DEF GetByte, Accesses
<1>8. ASSUME NEW a \in Address, NEW v \in Byte, SetByte(a, v)
      PROVE  Accesses
  <2>1. PICK s \in Slots : CacheHit(s, a[1], TRUE) /\ buf' = [buf EXCEPT ![s][a[2]] = v]
    BY <1>8 DEF SetByte
  <2>2. buf' \in [0 .. NSlots -> Line]
    BY <1>2, <1>3, <1>5, <2>1 DEF Line
  <2> QED
    BY <1>1, <1>5, <1>8, <2>1, <2>2 DEF SetByte, Accesses
<1>9. ASSUME NEW a \in WordAddress, GetWord(a)
      PROVE  Accesses
  BY <1>1, <1>2, <1>5, <1>9 DEF GetWord, Accesses
<1>10. ASSUME NEW a \in WordAddress, GetWordLow(a)
       PROVE  Accesses
  BY <1>2, <1>5, <1>6, <1>10, PagedMemoryAssumption DEF GetWordLow, Accesses
<1>11. ASSUME NEW a \in WordAddress, NEW lo \in Byte, NEW hi \in Byte, SetWord(a, lo, hi)
       PROVE  Accesses
  <2>1. PICK s \in Slots : /\ CacheHit(s, a[1], TRUE)
                           /\ buf' = [buf EXCEPT ![s][a[2]] = lo, ![s][a[2] + 1] = hi]
    BY <1>11 DEF SetWord
  <2>2. a[2] + 1 \in Offsets /\ half' = half
    BY <1>4, <1>5, <1>11 DEF SetWord
  <2>3. buf' \in [0 .. NSlots -> Line]
    BY <1>2, <1>3, <1>5, <2>1, <2>2 DEF Line
  <2> QED
    BY <1>1, <1>5, <2>1, <2>2, <2>3 DEF Accesses
<1>12. ASSUME NEW a \in WordAddress, NEW lo \in Byte, NEW hi \in Byte, SetWordLow(a, lo, hi)
       PROVE  Accesses
  <2>1. PICK s \in Slots : /\ CacheHit(s, a[1], TRUE)
                           /\ buf' = [buf EXCEPT ![s][LastOffset] = lo, ![s + 1][0] = hi]
    BY <1>12 DEF SetWordLow
  <2>2. buf' \in [0 .. NSlots -> Line]
    BY <1>2, <1>3, <2>1, PageFacts DEF Line
  <2>3. half' \in Halves
    BY <1>6, <1>12 DEF SetWordLow
  <2> QED
    BY <1>5, <2>1, <2>2, <2>3 DEF Accesses
<1>13. ASSUME GetWordHigh
       PROVE  Accesses
  BY <1>1, <1>2, <1>13 DEF GetWordHigh, Accesses
<1>14. ASSUME SetWordHigh
       PROVE  Accesses
  <2>1. PICK s \in Slots : /\ CacheHit(s, half.addr[1], TRUE)
                           /\ buf' = [buf EXCEPT ![s][half.addr[2]] = half.val]
    BY <1>14 DEF SetWordHigh
  <2>2. half.addr[1] \in Pages /\ half.addr[2] \in Offsets /\ half.val \in Byte
    BY <1>1
  <2>3. buf' \in [0 .. NSlots -> Line]
    BY <1>2, <1>3, <2>1, <2>2 DEF Line
  <2> QED
    BY <1>1, <1>14, <2>1, <2>2, <2>3 DEF SetWordHigh, Accesses
<1> QED
  BY <1>7, <1>8, <1>9, <1>10, <1>11, <1>12, <1>13, <1>14 DEF Access

LEMMA AccessKeepsSInv ==
  ASSUME SInv, Access
  PROVE  SInv'
<1> USE DEF clientVars
<1>1. /\ phase = "run" /\ phase' = "run"
      /\ newOffSrc' = Translated
      /\ UNCHANGED <<ram, offSrc, reply, saved>>
      /\ Accesses
  BY AccessIs DEF Access
<1>2. PICK s \in Slots, p \in Pages, w \in BOOLEAN : CacheHit(s, p, w)
  BY <1>1 DEF Accesses
<1>3. TypeOK'
  <2>1. CacheTypeOK'
    BY <1>2, CacheHitType DEF SInv, TypeOK
  <2>2. buf' \in [0 .. NSlots -> [Offsets -> Byte \cup {TrailerByte}]]
    BY <1>1 DEF Accesses, Line
  <2> QED
    BY <1>1, <2>1, <2>2 DEF SInv, TypeOK, Accesses, Phases
<1>4. LinesOK'
  <2>1. \A t \in 0 .. NSlots : ServerLine(t)' = [o \in Offsets |-> buf'[t][o]]
    BY <1>1 DEF ServerLine
  <2>2. \A t \in 0 .. NSlots : buf'[t] \in Line
    BY <1>1 DEF Accesses
  <2> QED
    BY <2>1, <2>2 DEF LinesOK, Line
<1>5. UniqueResidency'
  BY <1>2 DEF CacheHit, SInv, UniqueResidency
<1>6. WaitsOutside' /\ ReplyIsSlot'
  BY <1>1 DEF WaitsOutside, ReplyIsSlot
<1> QED
  BY <1>3, <1>4, <1>5, <1>6 DEF SInv

LEMMA NextKeepsSInv ==
  ASSUME SInv, [Next]_vars
  PROVE  SInv'
<1>1. CASE Next
  BY <1>1, LeaveKeepsSInv, SendPageKeepsSInv, WriteBackKeepsSInv, PrepareReplyKeepsSInv,
     SendReplyKeepsSInv, AccessKeepsSInv, FaultKeepsSInv DEF Next
<1>2. CASE UNCHANGED vars
  <2> USE <1>2 DEF vars, cacheVars, clientVars, serverVars
  <2>1. TypeOK' /\ LinesOK'
    BY DEF SInv, TypeOK, CacheTypeOK, LinesOK, ServerLine
  <2>2. WaitsOutside' /\ ReplyIsSlot' /\ UniqueResidency'
    BY DEF SInv, WaitsOutside, Resident, ReplyIsSlot, UniqueResidency
  <2> QED
    BY <2>1, <2>2 DEF SInv
<1> QED
  BY <1>1, <1>2

LEMMA SpecSInv == Spec => []SInv
<1>1. SInv /\ [Next]_vars => SInv'
  BY NextKeepsSInv
<1> QED
  BY <1>1, InitSInv, PTL DEF Spec

\* Every variable keeps its type, whatever the virtual machine accesses, words
\* across two pages and across the end of the memory included.
THEOREM TypeCorrect == Spec => []TypeOK
BY SpecSInv, PTL DEF SInv

\* sub_41da and handle_receive_req never give two slots to a page.
THEOREM OneSlotPerPage == Spec => []UniqueResidency
BY SpecSInv, PTL DEF SInv

-----------------------------------------------------------------------------
(* Words across two pages, and page 0xfff0 *)

\* Where the virtual machine finds the byte at an address.
ViewReads ==
  \A a \in Address :
    /\ \A s \in Slots : tag[s] = a[1] => View[a] = ServerLine(s)[a[2]]
    /\ ~Resident(a[1]) => View[a] = ram[a[1]][a[2]]

LEMMA ViewIsRead == UniqueResidency => ViewReads
<1> SUFFICES ASSUME UniqueResidency, NEW a \in Address
             PROVE  /\ \A s \in Slots : tag[s] = a[1] => View[a] = ServerLine(s)[a[2]]
                    /\ ~Resident(a[1]) => View[a] = ram[a[1]][a[2]]
  BY DEF ViewReads
<1>1. ASSUME NEW s \in Slots, tag[s] = a[1]
      PROVE  View[a] = ServerLine(s)[a[2]]
  <2>1. Resident(a[1])
    BY <1>1 DEF Resident
  <2>2. \A t \in Slots : Matches(t, a[1]) <=> t = s
    BY <1>1, CacheAssumption DEF Matches, UniqueResidency, Address, Slots
  <2>3. (CHOOSE t \in Slots : Matches(t, a[1])) = s
    BY <2>2
  <2> QED
    BY <2>1, <2>3 DEF View
<1>2. ~Resident(a[1]) => View[a] = ram[a[1]][a[2]]
  BY DEF View
<1> QED
  BY <1>1, <1>2

\* The first half of a write across two pages, seen in the slots.
LEMMA SpillIs ==
  ASSUME SInv, [Next]_vars, half.kind # "set", half'.kind = "set"
  PROVE  /\ phase = "run" /\ phase' = "run" /\ ram' = ram
         /\ \E a \in WordAddress, lo, hi \in Byte : SetWordLow(a, lo, hi)
<1>1. half' # half
  OBVIOUS
<1>2. NoHalf.kind = "none"
  BY DEF NoHalf
<1>3. Access
  BY <1>1, <1>2 DEF Next, vars, serverVars, Leave, SendPage, WriteBack, PrepareReply,
                    SendReply, Fault, FaultAt
<1>4. ~GetWordHigh /\ ~SetWordHigh
  BY <1>2 DEF GetWordHigh, SetWordHigh
<1>5. \A a \in Address : ~GetByte(a) /\ \A v \in Byte : ~SetByte(a, v)
  BY <1>1 DEF GetByte, SetByte
<1>6. ASSUME NEW a \in WordAddress
      PROVE  ~GetWord(a) /\ ~GetWordLow(a) /\ \A lo, hi \in Byte : ~SetWord(a, lo, hi)
  <2>1. ~GetWord(a)
    BY <1>1 DEF GetWord
  <2>2. ~GetWordLow(a)
    <3>1. GetWordLow(a) => half' = [kind |-> "get", addr |-> Succ(a), val |-> Zero]
      BY DEF GetWordLow
    <3>2. [kind |-> "get", addr |-> Succ(a), val |-> Zero].kind = "get"
      OBVIOUS
    <3> QED
      BY <3>1, <3>2
  <2>3. \A lo, hi \in Byte : ~SetWord(a, lo, hi)
    BY <1>1 DEF SetWord
  <2> QED
    BY <2>1, <2>2, <2>3
<1>7. \E a \in WordAddress, lo, hi \in Byte : SetWordLow(a, lo, hi)
  BY <1>3, <1>4, <1>5, <1>6 DEF Access
<1> QED
  BY <1>3, <1>7 DEF Access, clientVars

LEMMA SpillView ==
  ASSUME SInv, SInv', [Next]_vars, half.kind # "set", half'.kind = "set",
         NEW b \in Address, View'[b] # View[b]
  PROVE  \/ Succ(b) = half'.addr
         \/ \E s \in Slots \ {0} : b = <<tag[s], 0>> /\ age'[s - 1] = 0
<1>1. /\ phase = "run" /\ phase' = "run" /\ ram' = ram
      /\ \E a \in WordAddress, lo, hi \in Byte : SetWordLow(a, lo, hi)
  BY SpillIs
<1>2. PICK a \in WordAddress, lo \in Byte, hi \in Byte : SetWordLow(a, lo, hi)
  BY <1>1
<1>3. PICK s \in Slots : /\ CacheHit(s, a[1], TRUE)
                         /\ buf' = [buf EXCEPT ![s][LastOffset] = lo, ![s + 1][0] = hi]
  BY <1>2 DEF SetWordLow
<1>4. /\ a[2] = LastOffset /\ half'.addr = Succ(a)
      /\ tag' = tag /\ tag[s] = a[1]
  BY <1>2, <1>3 DEF SetWordLow, CacheHit, Matches
<1>5. age'[s] = 0
  BY <1>3 DEF CacheHit, Aged
<1>6. ViewReads /\ ViewReads'
  <2>1. (UniqueResidency => ViewReads)'
    BY ViewIsRead, PTL
  <2> QED
    BY <2>1, ViewIsRead DEF SInv
<1>7. PICK t \in Slots : tag[t] = b[1]
  <2>1. CASE ~Resident(b[1])
    BY <1>1, <1>4, <1>6, <2>1 DEF ViewReads, Resident
  <2> QED
    BY <2>1 DEF Resident
<1>8. Slots \subseteq 0 .. NSlots
  BY CacheAssumption DEF Slots
<1>9. View[b] = buf[t][b[2]] /\ View'[b] = buf'[t][b[2]]
  <2>1. ServerLine(t) = buf[t] /\ ServerLine(t)' = buf'[t]
    <3>1. t \in 0 .. NSlots /\ phase # "sending" /\ phase' # "sending"
      BY <1>1, <1>7, <1>8
    <3>2. /\ buf \in [0 .. NSlots -> [Offsets -> Byte \cup {TrailerByte}]]
          /\ buf' \in [0 .. NSlots -> [Offsets -> Byte \cup {TrailerByte}]]
      BY DEF SInv, TypeOK
    <3>3. buf[t] = [o \in Offsets |-> buf[t][o]] /\ buf'[t] = [o \in Offsets |-> buf'[t][o]]
      BY <3>1, <3>2
    <3>4. ServerLine(t) = [o \in Offsets |-> buf[t][o]] /\ ServerLine(t)' = [o \in Offsets |-> buf'[t][o]]
      BY <3>1 DEF ServerLine
    <3> QED
      BY <3>3, <3>4
  <2>2. View[b] = ServerLine(t)[b[2]] /\ View'[b] = ServerLine(t)'[b[2]]
    BY <1>4, <1>6, <1>7 DEF ViewReads
  <2> QED
    BY <2>1, <2>2
<1>10. b = <<b[1], b[2]>> /\ b[2] \in Offsets
  BY DEF Address
<1>11. (t = s /\ b[2] = LastOffset) \/ (t = s + 1 /\ b[2] = 0)
  <2>1. buf \in [0 .. NSlots -> [Offsets -> Byte \cup {TrailerByte}]]
    BY DEF SInv, TypeOK
  <2>2. s + 1 \in 0 .. NSlots /\ s + 1 # s
    BY CacheAssumption DEF Slots
  <2>3. LastOffset \in Offsets /\ 0 \in Offsets
    BY PageFacts
  <2> DEFINE mid == [buf EXCEPT ![s][LastOffset] = lo]
  <2>4. mid \in [0 .. NSlots -> [Offsets -> Byte \cup {TrailerByte}]]
    BY <1>8, <2>1, <2>3
  <2>5. buf' = [mid EXCEPT ![s + 1][0] = hi]
    BY <1>3
  <2>6. ASSUME ~(t = s + 1 /\ b[2] = 0)
        PROVE  buf'[t][b[2]] = mid[t][b[2]]
    BY <1>8, <1>10, <2>2, <2>3, <2>4, <2>5, <2>6
  <2>7. ASSUME ~(t = s /\ b[2] = LastOffset)
        PROVE  mid[t][b[2]] = buf[t][b[2]]
    BY <1>8, <1>10, <2>1, <2>3, <2>7
  <2> HIDE DEF mid
  <2>8. buf'[t][b[2]] # buf[t][b[2]]
    BY <1>9
  <2> QED
    BY <2>6, <2>7, <2>8
<1>12. CASE t = s /\ b[2] = LastOffset
  BY <1>4, <1>7, <1>12 DEF Succ
<1>13. CASE t = s + 1 /\ b[2] = 0
  <2>1. t \in Slots \ {0} /\ t - 1 = s
    BY <1>13, CacheAssumption DEF Slots
  <2> QED
    BY <1>5, <1>7, <1>10, <1>13, <2>1
<1> QED
  BY <1>11, <1>12, <1>13

\* sub_4166 changes, of all that the virtual machine sees, at most the byte it is to
\* change and the first byte of the page in the next slot; the client's memory stays.
THEOREM SpillIsBounded == Spec => SpillIsConfined
<1>1. SInv /\ SInv' /\ [Next]_vars =>
        [half.kind # "set" /\ half'.kind = "set"
           => /\ ram' = ram
              /\ \A b \in Address :
                   View'[b] # View[b]
                     => \/ Succ(b) = half'.addr
                        \/ \E s \in Slots \ {0} : b = <<tag[s], 0>> /\ age'[s - 1] = 0]_vars
  BY SpillIs, SpillView
<1> QED
  BY <1>1, SpecSInv, PTL DEF Spec, SpillIsConfined

LEMMA TopPageAgain ==
  ASSUME SInv, [Next]_vars, AwaitsTopPage
  PROVE  AwaitsTopPage'
<1>1. phase \in {"send", "sending", "reply", "loop"} /\ newOffSrc[1] = TopPage
  BY DEF AwaitsTopPage, SInv, TypeOK, Phases
<1>2. TopPage # 0
  BY PagedMemoryAssumption
<1>3. CASE UNCHANGED vars
  BY <1>1, <1>3 DEF AwaitsTopPage, vars, serverVars
<1>4. CASE Leave
  BY <1>1, <1>2, <1>4 DEF Leave, SInv, WaitsOutside
<1>5. CASE SendPage
  BY <1>1, <1>5 DEF SendPage, SInv, WaitsOutside, AwaitsTopPage
<1>6. CASE WriteBack \/ PrepareReply \/ SendReply
  BY <1>1, <1>6 DEF WriteBack, PrepareReply, SendReply, AwaitsTopPage, serverVars
<1>7. CASE Access \/ Fault
  BY <1>1, <1>7 DEF Access, Fault
<1> QED
  BY <1>3, <1>4, <1>5, <1>6, <1>7 DEF Next

\* vicpwn_handle never sends page 0xfff0, and so never gets on once it is asked for.
THEOREM TopPageIsFatal == Spec => TopPageStarves
<1>1. SInv /\ [Next]_vars => [AwaitsTopPage => AwaitsTopPage']_vars
  BY TopPageAgain
<1> QED
  BY <1>1, SpecSInv, PTL DEF Spec, TopPageStarves

-----------------------------------------------------------------------------
(***************************************************************************)
(* The contents of the pages, when no word lies across two of them.        *)
(***************************************************************************)

\* Programs keep their words inside a page: the hypothesis of the theorems.
NoStraddle == LastOffset \notin WordOffsets

(***************************************************************************)
(* The second inductive invariant: the first one, and what the runs        *)
(* check of the contents.  That the elected slot may be overwritten at     *)
(* request 0x51 depends on the reply of request 0x56 having been that slot *)
(* (ReplyIsSlot), and on the page asked for being one that is sent.        *)
(***************************************************************************)
TagsOK == \A s \in Slots : tag[s] \in VmPages \cup {TopPage, NoPage}

WantedOK == phase \in {"send", "sending", "reply", "loop"} => newOffSrc \in Address

IInv ==
  /\ SInv
  /\ TagsOK
  /\ half = NoHalf
  /\ WantedOK
  /\ CleanIsCurrent
  /\ NothingLostAtFill

-----------------------------------------------------------------------------
(* The inductive invariant *)

LEMMA InitIInv == Init => IInv
<1> SUFFICES ASSUME Init PROVE IInv
  OBVIOUS
<1>1. SInv
  BY InitSInv
<1>2. \A s \in Slots : tag[s] \in {TopPage, NoPage}
  BY DEF Init, CacheInit
<1>3. TagsOK /\ CleanIsCurrent
  BY <1>2, PageFacts DEF TagsOK, CleanIsCurrent
<1>4. WantedOK
  BY PageFacts, PagedMemoryAssumption DEF Address, WantedOK, Init
<1>5. NothingLostAtFill
  BY <1>1, <1>2, PageFacts DEF SInv, WaitsOutside, NothingLostAtFill, Init, CacheInit
<1> QED
  BY <1>1, <1>3, <1>4, <1>5 DEF IInv, Init

\* The end of the loop changes nothing that the invariant speaks of.
LEMMA LeaveKeepsIInv ==
  ASSUME IInv, Leave
  PROVE  IInv'
<1> USE DEF Leave, cacheVars, clientVars, serverVars
<1>1. SInv'
  BY LeaveKeepsSInv DEF IInv
<1>2. \A s \in 0 .. NSlots : ServerLine(s)' = ServerLine(s)
  BY LinesStay DEF IInv, SInv
<1>3. CleanIsCurrent'
  BY <1>2, CacheAssumption DEF IInv, CleanIsCurrent, Slots
<1>4. TagsOK' /\ (half = NoHalf)' /\ WantedOK' /\ NothingLostAtFill'
  BY DEF IInv, TagsOK, WantedOK, NothingLostAtFill
<1> QED
  BY <1>1, <1>3, <1>4 DEF IInv

\* Request 0x51 puts the page asked for in the elected slot, whose contents the
\* client has, and it is in no other slot.
LEMMA SendPageKeepsIInv ==
  ASSUME IInv, SendPage
  PROVE  IInv'
<1> DEFINE p == offSrc[1]
<1>1. /\ phase = "loop" /\ offSrc \in Address
      /\ p \in VmPages /\ p # TopPage /\ ~Resident(p)
  BY PageFacts DEF SendPage, IInv, SInv, WaitsOutside, WantedOK, Address
<1>2. /\ CacheFill(p)
      /\ buf' = [buf EXCEPT ![slot] = ram[p]]
      /\ phase' = "run"
      /\ offSrc' = <<p, 0>>
      /\ UNCHANGED <<ram, reply, newOffSrc, saved, half, out>>
  BY <1>1 DEF SendPage
<1>3. slot \in Slots /\ Slots \subseteq 0 .. NSlots
  BY CacheAssumption DEF IInv, SInv, TypeOK, CacheTypeOK, Slots
<1>4. SInv'
  BY SendPageKeepsSInv DEF IInv
<1>5. \A s \in 0 .. NSlots : ServerLine(s)' = IF s = slot THEN ram[p] ELSE ServerLine(s)
  <2>1. \A s \in 0 .. NSlots : ServerLine(s)' = buf'[s]
    BY <1>2, <1>4 DEF ServerLine, SInv, TypeOK
  <2>2. \A s \in 0 .. NSlots : ServerLine(s) = buf[s]
    BY <1>1, LineIsBuffer DEF IInv, SInv
  <2> QED
    BY <1>2, <1>3, <2>1, <2>2 DEF IInv, SInv, TypeOK
<1>6. tag' = [tag EXCEPT ![slot] = p] /\ dirty' = [dirty EXCEPT ![slot] = FALSE]
  BY <1>2 DEF CacheFill
<1>7. TagsOK'
  BY <1>1, <1>3, <1>6 DEF IInv, SInv, TypeOK, CacheTypeOK, TagsOK
<1>8. CleanIsCurrent'
  <2> SUFFICES ASSUME NEW s \in Slots, (tag[s] \in VmPages /\ ~dirty[s])'
               PROVE  (ram[tag[s]] = ServerLine(s))'
    BY DEF CleanIsCurrent, Slots
  <2>1. CASE s = slot
    BY <1>2, <1>3, <1>5, <1>6, <2>1 DEF IInv, SInv, TypeOK, CacheTypeOK
  <2>2. CASE s # slot
    <3>1. tag'[s] = tag[s] /\ dirty'[s] = dirty[s] /\ ServerLine(s)' = ServerLine(s)
      BY <1>3, <1>5, <1>6, <2>2 DEF IInv, SInv, TypeOK, CacheTypeOK
    <3> QED
      BY <1>2, <3>1 DEF IInv, CleanIsCurrent
  <2> QED
    BY <2>1, <2>2
<1>9. WantedOK' /\ NothingLostAtFill' /\ (half = NoHalf)'
  BY <1>2 DEF IInv, WantedOK, NothingLostAtFill
<1> QED
  BY <1>4, <1>7, <1>8, <1>9 DEF IInv

\* The client takes back the elected slot if it is written.
LEMMA WriteBackKeepsIInv ==
  ASSUME IInv, WriteBack
  PROVE  IInv'
<1> USE DEF cacheVars, serverVars
<1>1. slot \in Slots /\ Slots \subseteq 0 .. NSlots
  BY CacheAssumption DEF IInv, SInv, TypeOK, CacheTypeOK, Slots
<1>2. /\ reply.line = ServerLine(slot)
      /\ reply.page = tag[slot]
      /\ reply.dirty = dirty[slot]
  BY <1>1, LineIsBuffer DEF IInv, SInv, ReplyIsSlot, WriteBack
<1>3. \A s \in 0 .. NSlots : ServerLine(s)' = ServerLine(s)
  BY LinesStay DEF IInv, SInv
<1>4. /\ tag[slot] \in VmPages => ram'[tag[slot]] = ServerLine(slot)
      /\ \A s \in Slots : tag[s] \in VmPages /\ ~dirty[s] => ram'[tag[s]] = ram[tag[s]]
  <2>1. CASE tag[slot] \in VmPages /\ dirty[slot]
    <3>1. ram' = [ram EXCEPT ![tag[slot]] = ServerLine(slot)]
      BY <1>2, <2>1, PageFacts DEF WriteBack
    <3> QED
      BY <1>1, <1>2, <2>1, <3>1, PageFacts DEF IInv, SInv, TypeOK, UniqueResidency
  <2>2. CASE ~(tag[slot] \in VmPages /\ dirty[slot])
    <3>1. ram' = ram
      BY <1>1, <1>2, <2>2 DEF WriteBack, IInv, TagsOK
    <3> QED
      BY <1>1, <2>2, <3>1 DEF IInv, CleanIsCurrent
  <2> QED
    BY <2>1, <2>2
<1>5. SInv'
  BY WriteBackKeepsSInv DEF IInv
<1>6. CleanIsCurrent'
  BY <1>1, <1>3, <1>4 DEF IInv, CleanIsCurrent, WriteBack
<1>7. TagsOK' /\ (half = NoHalf)' /\ WantedOK'
  BY DEF IInv, TagsOK, WantedOK, WriteBack
<1>8. NothingLostAtFill'
  BY <1>1, <1>3, <1>4
     DEF IInv, SInv, NothingLostAtFill, WaitsOutside, Resident, WriteBack
<1> QED
  BY <1>5, <1>6, <1>7, <1>8 DEF IInv

\* The bytes a reply borrows are saved, and put back: no line changes.
LEMMA ReplyKeepsIInv ==
  ASSUME IInv, PrepareReply \/ SendReply
  PROVE  IInv'
<1> USE DEF cacheVars, clientVars
<1>1. SInv'
  BY PrepareReplyKeepsSInv, SendReplyKeepsSInv DEF IInv
<1>2. \A s \in Slots : ServerLine(s)' = ServerLine(s)
  BY LinesStay, CacheAssumption DEF IInv, SInv, Slots
<1>3. CleanIsCurrent'
  BY <1>2 DEF IInv, CleanIsCurrent, PrepareReply, SendReply
<1>4. TagsOK' /\ (half = NoHalf)' /\ WantedOK' /\ NothingLostAtFill'
  BY DEF IInv, TagsOK, WantedOK, NothingLostAtFill, PrepareReply, SendReply
<1> QED
  BY <1>1, <1>3, <1>4 DEF IInv

\* A fault elects a slot and touches neither the tags nor the lines.
LEMMA FaultKeepsIInv ==
  ASSUME IInv, Fault
  PROVE  IInv'
<1>1. PICK a \in Address : FaultAt(a)
  BY DEF Fault, IInv, NoHalf
<1>2. /\ phase' = "send"
      /\ newOffSrc' = a /\ half' = NoHalf
      /\ UNCHANGED <<ram, tag, dirty>>
  BY <1>1 DEF FaultAt, CacheMiss, clientVars
<1>3. SInv'
  BY FaultKeepsSInv DEF IInv
<1>4. \A s \in Slots : ServerLine(s)' = ServerLine(s)
  BY LinesStay, CacheAssumption DEF IInv, SInv, Slots
<1>5. CleanIsCurrent'
  BY <1>2, <1>4 DEF IInv, CleanIsCurrent
<1>6. TagsOK' /\ WantedOK' /\ NothingLostAtFill'
  BY <1>2 DEF IInv, TagsOK, WantedOK, NothingLostAtFill
<1> QED
  BY <1>2, <1>3, <1>5, <1>6 DEF IInv

\* What an access that finds page p in slot s does to the lines.
Touches(s, p, w) ==
  /\ CacheHit(s, p, w)
  /\ half' = half
  /\ buf' \in [0 .. NSlots -> [Offsets -> Byte \cup {TrailerByte}]]
  /\ \A t \in (0 .. NSlots) \ {s} : buf'[t] = buf[t]
  /\ buf'[s] \in Line
  /\ w \/ buf'[s] = buf[s]

\* A read leaves the lines alone; a write changes a line of a slot that it marks.
LEMMA AccessKeepsIInv ==
  ASSUME NoStraddle, IInv, Access
  PROVE  IInv'
<1> USE DEF clientVars
<1>1. /\ phase = "run" /\ phase' = "run"
      /\ half = NoHalf
      /\ newOffSrc' = Translated
      /\ UNCHANGED <<ram, offSrc, reply, saved>>
  BY DEF Access, IInv
<1>2. \/ \E a \in Address : GetByte(a) \/ \E v \in Byte : SetByte(a, v)
      \/ \E a \in WordAddress : GetWord(a) \/ \E lo, hi \in Byte : SetWord(a, lo, hi)
  <2>1. \A a \in WordAddress : a[2] # LastOffset
    BY DEF NoStraddle, WordAddress
  <2> QED
    BY <1>1, <2>1
       DEF Access, NoHalf, GetWordLow, SetWordLow, GetWordHigh, SetWordHigh
<1>3. \E s \in Slots, p \in VmPages, w \in BOOLEAN : Touches(s, p, w)
  <2>1. \A s \in 0 .. NSlots : buf[s] \in Line
    BY <1>1, LineIsBuffer DEF IInv, SInv, LinesOK
  <2>2. \A a \in Address : a[1] \in VmPages /\ a[2] \in Offsets
    BY DEF Address
  <2>3. \A a \in WordAddress : a[1] \in VmPages /\ a[2] \in Offsets
    BY PagedMemoryAssumption DEF WordAddress
  <2>4. \A o \in Offsets : o # LastOffset => o + 1 \in Offsets
    BY PagedMemoryAssumption DEF Offsets, LastOffset
  <2>5. Slots \subseteq 0 .. NSlots
    BY CacheAssumption DEF Slots
  <2>6. buf \in [0 .. NSlots -> [Offsets -> Byte \cup {TrailerByte}]]
    BY DEF IInv, SInv, TypeOK
  <2>7. ASSUME NEW a \in Address, GetByte(a)
        PROVE  \E s \in Slots : Touches(s, a[1], FALSE)
    BY <2>1, <2>2, <2>5, <2>6, <2>7 DEF GetByte, Touches
  <2>8. ASSUME NEW a \in Address, NEW v \in Byte, SetByte(a, v)
        PROVE  \E s \in Slots : Touches(s, a[1], TRUE)
    <3>1. PICK s \in Slots : CacheHit(s, a[1], TRUE) /\ buf' = [buf EXCEPT ![s][a[2]] = v]
      BY <2>8 DEF SetByte
    <3>2. half' = half /\ a[2] \in Offsets
      BY <2>2, <2>8 DEF SetByte
    <3> QED
      BY <2>1, <2>5, <2>6, <3>1, <3>2 DEF Touches, Line
  <2>9. ASSUME NEW a \in WordAddress, GetWord(a)
        PROVE  \E s \in Slots : Touches(s, a[1], FALSE)
    BY <2>1, <2>3, <2>5, <2>6, <2>9 DEF GetWord, Touches
  <2>10. ASSUME NEW a \in WordAddress, NEW lo \in Byte, NEW hi \in Byte, SetWord(a, lo, hi)
         PROVE  \E s \in Slots : Touches(s, a[1], TRUE)
    <3>1. PICK s \in Slots : /\ CacheHit(s, a[1], TRUE)
                             /\ buf' = [buf EXCEPT ![s][a[2]] = lo, ![s][a[2] + 1] = hi]
      BY <2>10 DEF SetWord
    <3>2. half' = half /\ a[2] \in Offsets /\ a[2] + 1 \in Offsets
      BY <2>3, <2>4, <2>10 DEF SetWord
    <3> QED
      BY <2>1, <2>5, <2>6, <3>1, <3>2 DEF Touches, Line
  <2> QED
    BY <1>2, <2>2, <2>3, <2>7, <2>8, <2>9, <2>10
<1>4. PICK s \in Slots, p \in VmPages, w \in BOOLEAN : Touches(s, p, w)
  BY <1>3
<1>5. /\ CacheHit(s, p, w)
      /\ half' = half
      /\ tag' = tag
      /\ dirty' = [dirty EXCEPT ![s] = @ \/ w]
  BY <1>4 DEF Touches, CacheHit
<1>6. Slots \subseteq 0 .. NSlots
  BY CacheAssumption DEF Slots
<1>7. SInv'
  BY AccessKeepsSInv DEF IInv
<1>8. \A t \in 0 .. NSlots : ServerLine(t) = buf[t] /\ ServerLine(t)' = buf'[t]
  BY <1>1, <1>7 DEF IInv, SInv, TypeOK, ServerLine
<1>9. CleanIsCurrent'
  <2>1. \A t \in Slots : ~dirty'[t] => ~dirty[t] /\ buf'[t] = buf[t]
    BY <1>4, <1>5, <1>6 DEF IInv, SInv, TypeOK, CacheTypeOK, Touches
  <2> QED
    BY <1>1, <1>5, <1>6, <1>8, <2>1 DEF IInv, CleanIsCurrent
<1>10. TagsOK' /\ (half = NoHalf)'
  BY <1>1, <1>5 DEF IInv, TagsOK
<1>11. WantedOK' /\ NothingLostAtFill'
  BY <1>1 DEF WantedOK, NothingLostAtFill
<1> QED
  BY <1>7, <1>9, <1>10, <1>11 DEF IInv

LEMMA NextKeepsIInv ==
  ASSUME NoStraddle, IInv, [Next]_vars
  PROVE  IInv'
<1>1. CASE Next
  BY <1>1, LeaveKeepsIInv, SendPageKeepsIInv, WriteBackKeepsIInv, ReplyKeepsIInv,
     AccessKeepsIInv, FaultKeepsIInv DEF Next
<1>2. CASE UNCHANGED vars
  <2> USE <1>2 DEF vars, cacheVars, clientVars, serverVars
  <2>1. SInv'
    BY NextKeepsSInv DEF IInv
  <2>2. TagsOK' /\ (half = NoHalf)' /\ WantedOK'
    BY DEF IInv, TagsOK, WantedOK
  <2>3. CleanIsCurrent' /\ NothingLostAtFill'
    BY DEF IInv, CleanIsCurrent, NothingLostAtFill, ServerLine, Resident
  <2> QED
    BY <2>1, <2>2, <2>3 DEF IInv
<1> QED
  BY <1>1, <1>2

\* The invariant of every behaviour: the theorems below are its consequences.
THEOREM Inductive ==
  ASSUME NoStraddle
  PROVE  Spec => []IInv
<1>1. Init => IInv
  BY InitIInv
<1>2. IInv /\ [Next]_vars => IInv'
  BY NextKeepsIInv
<1> QED
  BY <1>1, <1>2, PTL DEF Spec

\* The client has what is in every slot that is not marked as written.
THEOREM CleanSlotsAreCurrent ==
  ASSUME NoStraddle
  PROVE  Spec => []CleanIsCurrent
BY Inductive, PTL DEF IInv

\* What request 0x51 overwrites is safe with the client.
THEOREM NothingIsLost ==
  ASSUME NoStraddle
  PROVE  Spec => []NothingLostAtFill
BY Inductive, PTL DEF IInv

-----------------------------------------------------------------------------
(* The refinement *)

LEMMA ViewIsFunction ==
  /\ View = [a \in Address |-> View[a]]
  /\ View' = [a \in Address |-> View'[a]]
BY DEF View

\* Both readings, before and after a step.
LEMMA ViewBeforeAndAfter ==
  ASSUME IInv, IInv'
  PROVE  ViewReads /\ ViewReads'
<1>1. (UniqueResidency => ViewReads)'
  BY ViewIsRead, PTL
<1> QED
  BY <1>1, ViewIsRead DEF IInv, SInv

\* Steps that move no page.
LEMMA SameView ==
  ASSUME IInv, IInv', tag' = tag,
         \A s \in Slots : ServerLine(s)' = ServerLine(s),
         \A p \in VmPages : ~Resident(p) => ram'[p] = ram[p]
  PROVE  View' = View
<1>1. ASSUME NEW a \in Address
      PROVE  View'[a] = View[a]
  <2>1. CASE Resident(a[1])
    <3>1. PICK s \in Slots : tag[s] = a[1]
      BY <2>1 DEF Resident
    <3>2. View[a] = ServerLine(s)[a[2]] /\ View'[a] = ServerLine(s)'[a[2]]
      BY <3>1, ViewBeforeAndAfter DEF ViewReads
    <3> QED
      BY <3>2
  <2>2. CASE ~Resident(a[1])
    <3>1. View[a] = ram[a[1]][a[2]] /\ View'[a] = ram'[a[1]][a[2]]
      BY <2>2, ViewBeforeAndAfter DEF ViewReads, Resident
    <3> QED
      BY <2>2, <3>1 DEF Address
  <2> QED
    BY <2>1, <2>2
<1> QED
  BY <1>1 DEF View

\* The exchange of two pages.
LEMMA SendPageSameView ==
  ASSUME IInv, IInv', SendPage
  PROVE  View' = View
<1> DEFINE p == offSrc[1]
<1>1. /\ phase = "loop" /\ phase' = "run"
      /\ tag' = [tag EXCEPT ![slot] = p]
      /\ buf' = [buf EXCEPT ![slot] = ram[p]]
      /\ ram' = ram
      /\ ~Resident(p)
  BY PageFacts DEF IInv, SInv, SendPage, WaitsOutside, WantedOK, Address, CacheFill
<1>2. slot \in Slots /\ Slots \subseteq 0 .. NSlots
  BY CacheAssumption DEF IInv, SInv, TypeOK, CacheTypeOK, Slots
<1>3. \A s \in Slots : ServerLine(s) = buf[s]
  BY <1>1, <1>2, LineIsBuffer DEF IInv, SInv
<1>4. \A s \in Slots : ServerLine(s)' = buf'[s]
  BY <1>1, <1>2 DEF IInv, SInv, TypeOK, ServerLine
<1>5. /\ tag'[slot] = p
      /\ buf'[slot] = ram[p]
      /\ \A s \in Slots : s # slot => tag'[s] = tag[s] /\ buf'[s] = buf[s]
  BY <1>1, <1>2 DEF IInv, SInv, TypeOK, CacheTypeOK
<1>6. ASSUME NEW a \in Address
      PROVE  View'[a] = View[a]
  <2>1. CASE a[1] = p
    <3>1. View[a] = ram[p][a[2]]
      BY <1>1, <2>1, ViewBeforeAndAfter DEF ViewReads
    <3>2. \A s \in Slots : s = slot => View'[a] = buf'[s][a[2]]
      <4> SUFFICES ASSUME NEW s \in Slots, s = slot
                   PROVE  View'[a] = buf'[s][a[2]]
        OBVIOUS
      <4>1. tag'[s] = a[1]
        BY <1>5, <2>1
      <4>2. View'[a] = ServerLine(s)'[a[2]]
        BY <4>1, ViewBeforeAndAfter DEF ViewReads
      <4> QED
        BY <1>4, <4>2
    <3> QED
      BY <1>2, <1>5, <3>1, <3>2
  <2>2. CASE a[1] # p /\ \E s \in Slots \ {slot} : tag[s] = a[1]
    <3>1. PICK s \in Slots \ {slot} : tag[s] = a[1]
      BY <2>2
    <3>2. View[a] = ServerLine(s)[a[2]] /\ View'[a] = ServerLine(s)'[a[2]]
      BY <1>5, <3>1, ViewBeforeAndAfter DEF ViewReads
    <3> QED
      BY <1>3, <1>4, <1>5, <3>1, <3>2
  <2>3. CASE a[1] # p /\ tag[slot] = a[1] /\ \A s \in Slots \ {slot} : tag[s] # a[1]
    <3>1. View[a] = ServerLine(slot)[a[2]]
      BY <1>2, <2>3, ViewBeforeAndAfter DEF ViewReads
    <3>2. ram[a[1]] = ServerLine(slot)
      BY <1>1, <2>3 DEF IInv, NothingLostAtFill, Address
    <3>3. View'[a] = ram'[a[1]][a[2]]
      BY <1>5, <2>3, ViewBeforeAndAfter DEF ViewReads, Resident
    <3> QED
      BY <1>1, <3>1, <3>2, <3>3
  <2>4. CASE a[1] # p /\ \A s \in Slots : tag[s] # a[1]
    <3>1. View[a] = ram[a[1]][a[2]]
      BY <2>4, ViewBeforeAndAfter DEF ViewReads, Resident
    <3>2. View'[a] = ram'[a[1]][a[2]]
      BY <1>5, <2>4, ViewBeforeAndAfter DEF ViewReads, Resident
    <3> QED
      BY <1>1, <3>1, <3>2
  <2> QED
    BY <1>2, <2>1, <2>2, <2>3, <2>4
<1> QED
  BY <1>6 DEF View

\* What an access in slot s shows of the memory, before and after.
LEMMA AccessView ==
  ASSUME IInv, IInv', phase = "run", phase' = "run", ram' = ram, tag' = tag,
         NEW s \in Slots, NEW p \in VmPages, tag[s] = p,
         \A t \in Slots \ {s} : buf'[t] = buf[t]
  PROVE  \A a \in Address :
           /\ a[1] = p => View[a] = buf[s][a[2]] /\ View'[a] = buf'[s][a[2]]
           /\ a[1] # p => View'[a] = View[a]
<1>1. Slots \subseteq 0 .. NSlots
  BY CacheAssumption DEF Slots
<1>2. \A t \in Slots : ServerLine(t) = buf[t] /\ ServerLine(t)' = buf'[t]
  BY <1>1 DEF IInv, SInv, TypeOK, ServerLine
<1> SUFFICES ASSUME NEW a \in Address
             PROVE  /\ a[1] = p => View[a] = buf[s][a[2]] /\ View'[a] = buf'[s][a[2]]
                    /\ a[1] # p => View'[a] = View[a]
  OBVIOUS
<1>3. CASE a[1] = p
  BY <1>2, <1>3, ViewBeforeAndAfter DEF ViewReads
<1>4. CASE a[1] # p /\ \E t \in Slots \ {s} : tag[t] = a[1]
  <2>1. PICK t \in Slots \ {s} : tag[t] = a[1]
    BY <1>4
  <2>2. View[a] = ServerLine(t)[a[2]] /\ View'[a] = ServerLine(t)'[a[2]]
    BY <2>1, ViewBeforeAndAfter DEF ViewReads
  <2> QED
    BY <1>2, <1>4, <2>1, <2>2
<1>5. CASE a[1] # p /\ \A t \in Slots : tag[t] # a[1]
  BY <1>5, ViewBeforeAndAfter DEF ViewReads, Resident
<1> QED
  BY <1>3, <1>4, <1>5

LEMMA AccessIsFlat ==
  ASSUME NoStraddle, IInv, IInv', Access
  PROVE  Flat!Next
<1>1. /\ phase = "run" /\ phase' = "run" /\ ram' = ram
      /\ half = NoHalf /\ half' = NoHalf
  BY DEF Access, IInv, clientVars
<1>2. \A a \in WordAddress : a[2] # LastOffset
  BY DEF NoStraddle, WordAddress
<1>3. \/ \E a \in Address : GetByte(a) \/ \E v \in Byte : SetByte(a, v)
      \/ \E a \in WordAddress : GetWord(a) \/ \E lo, hi \in Byte : SetWord(a, lo, hi)
  BY <1>1, <1>2 DEF Access, NoHalf, GetWordLow, SetWordLow, GetWordHigh, SetWordHigh
<1>4. \A a \in WordAddress : /\ a \in Address
                             /\ Succ(a) = <<a[1], a[2] + 1>>
                             /\ Succ(a) \in Address
  <2>1. \A o \in WordOffsets : o # LastOffset => o \in Offsets /\ o + 1 \in Offsets
    BY PagedMemoryAssumption DEF Offsets, LastOffset
  <2>2. \A a \in WordAddress : a[1] \in VmPages /\ a[2] \in WordOffsets /\ a = <<a[1], a[2]>>
    BY DEF WordAddress
  <2>3. \A a \in WordAddress : Succ(a) = <<a[1], a[2] + 1>>
    BY <1>2 DEF Succ
  <2> QED
    BY <1>2, <2>1, <2>2, <2>3 DEF Address
<1>5. /\ buf \in [0 .. NSlots -> [Offsets -> Byte \cup {TrailerByte}]]
      /\ Slots \subseteq 0 .. NSlots
  BY CacheAssumption DEF IInv, SInv, TypeOK, Slots
<1>6. ASSUME NEW a \in Address, GetByte(a)
      PROVE  Flat!GetByte(a)
  <2>1. PICK s \in Slots : tag[s] = a[1] /\ tag' = tag /\ out' = <<"get", a, <<buf[s][a[2]]>>>>
    BY <1>6 DEF GetByte, CacheHit, Matches
  <2>2. buf' = buf /\ a[1] \in VmPages
    BY <1>6 DEF GetByte, Address
  <2>3. \A b \in Address : View'[b] = View[b] /\ View[a] = buf[s][a[2]]
    BY <1>1, <2>1, <2>2, AccessView
  <2> QED
    BY <2>1, <2>3 DEF Flat!GetByte, View
<1>7. ASSUME NEW a \in Address, NEW v \in Byte, SetByte(a, v)
      PROVE  Flat!SetByte(a, v)
  <2>1. PICK s \in Slots : /\ tag[s] = a[1] /\ tag' = tag
                           /\ buf' = [buf EXCEPT ![s][a[2]] = v]
    BY <1>7 DEF SetByte, CacheHit, Matches
  <2>2. out' = <<"set", a, <<v>>>> /\ a[1] \in VmPages /\ a[2] \in Offsets
    BY <1>7 DEF SetByte, Address
  <2>3. \A b \in Address :
          /\ b[1] = a[1] => View[b] = buf[s][b[2]] /\ View'[b] = buf'[s][b[2]]
          /\ b[1] # a[1] => View'[b] = View[b]
    BY <1>1, <1>5, <2>1, <2>2, AccessView
  <2>4. \A b \in Address : View'[b] = IF b = a THEN v ELSE View[b]
    <3>1. \A b \in Address : b = <<b[1], b[2]>> /\ b[2] \in Offsets
      BY DEF Address
    <3>2. \A o \in Offsets : buf'[s][o] = IF o = a[2] THEN v ELSE buf[s][o]
      BY <1>5, <2>1, <2>2
    <3> QED
      BY <2>3, <3>1, <3>2
  <2>5. View' = [View EXCEPT ![a] = v]
    BY <2>4, ViewIsFunction
  <2> QED
    BY <2>2, <2>5 DEF Flat!SetByte
<1>8. ASSUME NEW a \in WordAddress, GetWord(a)
      PROVE  Flat!GetWord(a)
  <2>1. PICK s \in Slots : /\ tag[s] = a[1] /\ tag' = tag
                           /\ out' = <<"get", a, <<buf[s][a[2]], buf[s][a[2] + 1]>>>>
    BY <1>8 DEF GetWord, CacheHit, Matches
  <2>2. buf' = buf /\ a[1] \in VmPages
    BY <1>4, <1>8 DEF GetWord, Address
  <2>3. \A b \in Address :
          /\ View'[b] = View[b]
          /\ b[1] = a[1] => View[b] = buf[s][b[2]]
    BY <1>1, <2>1, <2>2, AccessView
  <2>4. View[a] = buf[s][a[2]] /\ View[Succ(a)] = buf[s][a[2] + 1]
    BY <1>4, <2>3
  <2> QED
    BY <2>1, <2>3, <2>4 DEF Flat!GetWord, View
<1>9. ASSUME NEW a \in WordAddress, NEW lo \in Byte, NEW hi \in Byte, SetWord(a, lo, hi)
      PROVE  Flat!SetWord(a, lo, hi)
  <2>1. PICK s \in Slots : /\ tag[s] = a[1] /\ tag' = tag
                           /\ buf' = [buf EXCEPT ![s][a[2]] = lo, ![s][a[2] + 1] = hi]
    BY <1>9 DEF SetWord, CacheHit, Matches
  <2>2. out' = <<"set", a, <<lo, hi>>>> /\ a[1] \in VmPages
    BY <1>4, <1>9 DEF SetWord, Address
  <2>3. \A b \in Address :
          /\ b[1] = a[1] => View[b] = buf[s][b[2]] /\ View'[b] = buf'[s][b[2]]
          /\ b[1] # a[1] => View'[b] = View[b]
    BY <1>1, <1>5, <2>1, <2>2, AccessView
  <2>4. \A b \in Address : View'[b] = IF b = Succ(a) THEN hi ELSE IF b = a THEN lo ELSE View[b]
    <3>1. \A b \in Address : b = <<b[1], b[2]>> /\ b[2] \in Offsets
      BY DEF Address
    <3>2. /\ a = <<a[1], a[2]>> /\ a[2] \in Offsets
          /\ Succ(a) = <<a[1], a[2] + 1>> /\ a[2] + 1 \in Offsets
      BY <1>4 DEF Address
    <3>3. \A o \in Offsets :
            buf'[s][o] = IF o = a[2] + 1 THEN hi ELSE IF o = a[2] THEN lo ELSE buf[s][o]
      BY <1>5, <2>1, <3>2
    <3> QED
      BY <2>3, <3>1, <3>2, <3>3
  <2>5. View' = [View EXCEPT ![a] = lo, ![Succ(a)] = hi]
    BY <1>4, <2>4, ViewIsFunction
  <2> QED
    BY <2>2, <2>5 DEF Flat!SetWord
<1> QED
  BY <1>3, <1>6, <1>7, <1>8, <1>9 DEF Flat!Next

LEMMA StepIsFlat ==
  ASSUME NoStraddle, IInv, IInv', [Next]_vars
  PROVE  [Flat!Next]_<<View, out>>
<1>1. CASE Access
  BY <1>1, AccessIsFlat
<1>2. CASE SendPage
  BY <1>2, SendPageSameView DEF SendPage
<1>3. CASE Leave \/ WriteBack \/ PrepareReply \/ SendReply \/ Fault \/ UNCHANGED vars
  <2>1. tag' = tag /\ out' = out
    BY <1>3 DEF Leave, WriteBack, PrepareReply, SendReply, Fault, FaultAt, CacheMiss,
                vars, cacheVars, clientVars, serverVars
  <2>2. \A s \in Slots : ServerLine(s)' = ServerLine(s)
    <3>1. CASE UNCHANGED vars
      BY <3>1 DEF ServerLine, vars, cacheVars, serverVars
    <3>2. CASE ~UNCHANGED vars
      BY <1>3, <3>2, LinesStay, CacheAssumption DEF IInv, SInv, Slots
    <3> QED
      BY <3>1, <3>2
  <2>3. \A p \in VmPages : ~Resident(p) => ram'[p] = ram[p]
    <3>1. CASE WriteBack
      BY <3>1 DEF WriteBack, IInv, SInv, ReplyIsSlot, TypeOK, CacheTypeOK, Resident
    <3>2. CASE ~WriteBack
      BY <1>3, <3>2 DEF Leave, PrepareReply, SendReply, Fault, FaultAt, vars, clientVars
    <3> QED
      BY <3>1, <3>2
  <2> QED
    BY <2>1, <2>2, <2>3, SameView
<1> QED
  BY <1>1, <1>2, <1>3 DEF Next

\* The pages may move as they like: what the virtual machine reads and writes is
\* a flat memory, the one vmdisas.rb compiles its programs for.
THEOREM PagingIsInvisible ==
  ASSUME NoStraddle
  PROVE  Spec => FlatSpec
<1>1. Init => Flat!Init
  <2> SUFFICES ASSUME Init PROVE Flat!Init
    OBVIOUS
  <2>1. \A a \in Address : a[1] \in VmPages /\ a[2] \in Offsets
    BY DEF Address
  <2>2. \A p \in VmPages : ~Resident(p)
    BY PageFacts DEF Init, CacheInit, Resident
  <2>3. \A a \in Address : ram[a[1]][a[2]] \in Byte
    BY <2>1, PageFacts DEF Init, Line
  <2>4. View \in [Address -> Byte]
    BY <2>1, <2>2, <2>3 DEF View
  <2> QED
    BY <2>4 DEF Init, Flat!Init
<1>2. IInv /\ IInv' /\ [Next]_vars => [Flat!Next]_<<View, out>>
  BY StepIsFlat
<1> QED
  BY <1>1, <1>2, Inductive, PTL DEF Spec, FlatSpec, Flat!Spec, Flat!flatVars
=============================================================================
