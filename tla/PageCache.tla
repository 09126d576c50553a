---------------------------- MODULE PageCache ----------------------------
(***************************************************************************)
(* The translation table of the webcam firmware, sub_41da in server.c.     *)
(*                                                                         *)
(* The virtual machine that runs inside the webcam addresses a memory of   *)
(* NPages pages that lives in the client.  The webcam holds NSlots of      *)
(* them.  For each slot it keeps a word at cnta(i), the page it holds with *)
(* bit 0 saying "written", and a word at cnta(5+i), its age.  Every        *)
(* translation ages all the slots; a hit rejuvenates its slot; a miss      *)
(* elects the slot that the next 0x51 request will overwrite.              *)
(*                                                                         *)
(* In the firmware NSlots = 5, NPages = 2^12 and AgeMod = 2^16.            *)
(***************************************************************************)
EXTENDS Integers

CONSTANTS
  NSlots,   \* number of 16-byte buffers at 0x4000
  NPages,   \* number of pages of the address space of the virtual machine
  AgeMod    \* ages are counted modulo AgeMod

ASSUME CacheAssumption ==
  /\ NSlots \in Nat \ {0}
  /\ NPages \in Nat \ {0}
  /\ AgeMod \in Nat \ {0, 1}

VARIABLES
  tag,      \* tag[s]: page whose bytes slot s holds (the word at cnta(s), bit 0 off)
  dirty,    \* dirty[s]: bit 0 of the word at cnta(s)
  age,      \* age[s]: the word at cnta(5 + s)
  slot      \* the slot that BUF_ADDR and OFF_ADDR designate

cacheVars == <<tag, dirty, age, slot>>

Slots == 0 .. NSlots - 1
Pages == 0 .. NPages - 1

\* Page 0xfff0: the client takes it for "no page" and never sends it.
TopPage == NPages - 1

\* The boot tags 0xfff2 and 0xfff4 are no multiple of 16: they match no page.
NoPage == NPages

Oldest == AgeMod - 1

CacheTypeOK ==
  /\ tag \in [Slots -> Pages \cup {NoPage}]
  /\ dirty \in [Slots -> BOOLEAN]
  /\ age \in [Slots -> 0 .. AgeMod - 1]
  /\ slot \in Slots

(***************************************************************************)
(* do_server_init writes the tags 0xfff1 .. 0xfff5: bit 0 is set in every  *)
(* other slot, and slot 0 really designates page 0xfff0.                   *)
(***************************************************************************)
CacheInit ==
  /\ tag = [s \in Slots |-> IF s = 0 THEN TopPage ELSE NoPage]
  /\ dirty = [s \in Slots |-> s % 2 = 0]
  /\ age = [s \in Slots |-> Oldest]
  /\ slot = 0

\* Slips of the scan, to show that the properties notice them: the last slot is
\* forgotten, or bit 0 takes part in the comparison.
ResidentButLast(p) == \E s \in Slots \ {NSlots - 1} : tag[s] = p
ResidentClean(p) == \E s \in Slots : tag[s] = p /\ ~dirty[s]

Resident(p) == \E s \in Slots : tag[s] = p

\* Slip: the ages do not wrap.
AgedForEver == [s \in Slots |-> age[s] + 1]

\* All the ages, one translation later.
Aged == [s \in Slots |-> (age[s] + 1) % AgeMod]

\* The scan stops at the first slot whose tag matches.
Matches(s, p) ==
  /\ tag[s] = p
  /\ \A t \in Slots : t < s => tag[t] # p

\* Slips: of two slots of the same age the first one is retained; the youngest
\* slot is retained.
CandidateStrict(ages, s) ==
  \A t \in Slots : t < s => IF dirty[t] THEN FALSE ELSE ages[t] < ages[s]

CandidateYoungest(ages, s) ==
  \A t \in Slots : t < s => IF dirty[t] THEN ages[s] = Oldest
                                        ELSE ages[t] >= ages[s]

(***************************************************************************)
(* The slots the scan retains, one after the other.  r1 is the greatest    *)
(* age met so far, and 0xffff for the rest of the scan once a written slot *)
(* has been passed.  The last one retained is the victim, so that between  *)
(* slots of the same age the later one is taken.                           *)
(***************************************************************************)
Candidate(ages, s) ==
  \A t \in Slots : t < s => IF dirty[t] THEN ages[s] = Oldest
                                        ELSE ages[t] <= ages[s]

IsVictim(ages, s) ==
  /\ Candidate(ages, s)
  /\ \A t \in Slots : t > s => ~Candidate(ages, t)

\* Slip: a write does not mark its slot.
CacheHitUnmarked(s, p, writes) ==
  /\ Matches(s, p)
  /\ age' = [Aged EXCEPT ![s] = 0]
  /\ UNCHANGED <<tag, dirty, slot>>

\* sub_41da finds page p in slot s; writes tells whether (v1 & 6) = 0.
CacheHit(s, p, writes) ==
  /\ Matches(s, p)
  /\ dirty' = [dirty EXCEPT ![s] = @ \/ writes]
  /\ age' = [Aged EXCEPT ![s] = 0]
  /\ UNCHANGED <<tag, slot>>

\* Slip: the victim keeps its age.
CacheMissStillOld(s, p) ==
  /\ ~Resident(p)
  /\ IsVictim(Aged, s)
  /\ age' = Aged
  /\ slot' = s
  /\ UNCHANGED <<tag, dirty>>

\* sub_41da does not find page p and elects slot s for it.
CacheMiss(s, p) ==
  /\ ~Resident(p)
  /\ IsVictim(Aged, s)
  /\ age' = [Aged EXCEPT ![s] = 0]
  /\ slot' = s
  /\ UNCHANGED <<tag, dirty>>

\* handle_receive_req: the page sent by the client takes the elected slot.
CacheFill(p) ==
  /\ tag' = [tag EXCEPT ![slot] = p]
  /\ dirty' = [dirty EXCEPT ![slot] = FALSE]
  /\ UNCHANGED <<age, slot>>

--------------------------------------------------------------------------
(* The scan of sub_41da, iteration by iteration *)

\* The greatest age and the slot retained before iteration i.
Scan(ages) ==
  LET step[i \in 0 .. NSlots] ==
        IF i = 0
          THEN [r1 |-> ages[0], victim |-> 0]
          ELSE LET s == i - 1
                   before == step[s]
                   taken == before.r1 <= ages[s]
               IN [victim |-> IF taken THEN s ELSE before.victim,
                   r1 |-> IF dirty[s] THEN Oldest
                          ELSE IF taken THEN ages[s] ELSE before.r1]
  IN step[NSlots]

\* The slot elected is the one the loop of sub_41da ends with, and only that one.
VictimIsTheScans ==
  \A s \in Slots : IsVictim(Aged, s) <=> s = Scan(Aged).victim
==========================================================================
