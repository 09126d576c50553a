----------------------------- MODULE FaultLoop -----------------------------
(***************************************************************************)
(* One instruction of the virtual machine, as its page accesses: it is run *)
(* from the start again after each page fault (do_instruction saves its    *)
(* program counter, sub_41da restores it and longjmps), so that it ends    *)
(* only if all its pages are in the webcam at once.  The cache starts in   *)
(* any state that earlier instructions may have left.                      *)
(***************************************************************************)
EXTENDS PageCache, Sequences

CONSTANTS
  Instructions,  \* sequences of accesses [page, write]
  FirstPages,    \* the pages read ahead of the others: code, and what a call goes through
  MaxFaults,     \* bound on the page faults of an instruction
  StartAges      \* the ages earlier instructions may have left

VARIABLES
  ins,   \* the accesses of the instruction
  at,    \* the next one
  waiting, \* the page fault being served, or NoPage
  faults,  \* how many there have been, up to MaxFaults + 1
  firstWritten \* one of the first pages was in a written slot

loopVars == <<cacheVars, ins, at, waiting, faults, firstWritten>>

PagesOf(i) == {i[k].page : k \in DOMAIN i}

\* Earlier pages are in at most one slot, written or not.  What the slots hold
\* besides the pages of the instruction makes no difference.
Init ==
  /\ ins \in Instructions
  /\ tag \in [Slots -> PagesOf(ins) \cup {NoPage}]
  /\ \A s, t \in Slots : s # t /\ tag[s] = tag[t] => tag[s] = NoPage
  /\ dirty \in [Slots -> BOOLEAN]
  /\ age \in StartAges
  /\ slot = 0
  /\ at = 1
  /\ waiting = NoPage
  /\ faults = 0
  /\ firstWritten = \E s \in Slots : dirty[s] /\ tag[s] \in FirstPages

Ended == at > Len(ins)

Touch ==
  /\ ~Ended /\ waiting = NoPage
  /\ \E s \in Slots : CacheHit(s, ins[at].page, ins[at].write)
  /\ at' = at + 1
  /\ UNCHANGED <<ins, waiting, faults, firstWritten>>

\* The longjmp: the first access comes next.
Restart ==
  /\ ~Ended /\ waiting = NoPage
  /\ \E s \in Slots : CacheMiss(s, ins[at].page)
  /\ waiting' = ins[at].page
  /\ at' = 1
  /\ faults' = IF faults > MaxFaults THEN faults ELSE faults + 1
  /\ UNCHANGED <<ins, firstWritten>>

\* The client takes the elected slot back if it is written and sends the page.
Serve ==
  /\ waiting # NoPage
  /\ CacheFill(waiting)
  /\ waiting' = NoPage
  /\ UNCHANGED <<ins, at, faults, firstWritten>>

Next == Touch \/ Restart \/ Serve

Spec == Init /\ [][Next]_loopVars /\ WF_loopVars(Next)

-----------------------------------------------------------------------------
\* No instruction faults for ever: two of its pages never keep taking each
\* other's slot, whatever was written before.  It does happen when one of the
\* pages it reads first has been written (code that was modified, or a table of
\* subroutines): the written slot is then touched in every attempt ahead of the
\* last pages, hides the slots behind it, and the last pages fight for the
\* slots in front of it.
InstructionEnds == firstWritten \/ <>Ended

\* And it ends soon.
FewFaults == ~firstWritten => faults <= MaxFaults
=============================================================================
