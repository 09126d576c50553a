----------------------------- MODULE MCFaultLoop -----------------------------
EXTENDS FaultLoopProofs

R(p) == [page |-> p, write |-> FALSE]
W(p) == [page |-> p, write |-> TRUE]

\* Page 0 is code.  An instruction on two memory operands reads the destination,
\* goes on decoding, reads the source and writes the destination; a call pushes
\* two words; a return pops two.
ThreePageInstructions == {
  <<R(0), R(2), R(0), R(3), W(2)>>,
  <<R(0), R(2), R(2), R(3), W(3)>>,
  <<R(0), W(2), W(3)>>,
  <<R(0), R(2), R(3)>> }

\* The same, by code that crosses into page 1 (or a call through page 1).
FourPageInstructions == {
  <<R(0), R(1), R(2), R(1), R(3), W(2)>>,
  <<R(0), R(1), W(2), W(3)>> }

EveryInstruction == ThreePageInstructions \cup FourPageInstructions

\* Slots accessed in any order, and so long ago that the ages of some of them have
\* wrapped; slots of one age.
Orders == {f \in [Slots -> 1 .. NSlots] : \A s, t \in Slots : s # t => f[s] # f[t]}
Wrapped == {[s \in Slots |-> (f[s] + AgeMod - 3) % AgeMod] : f \in Orders}
Ties == [Slots -> {1, 2}]
AnyAges == Orders \cup Wrapped \cup Ties

\* The instructions and the ages are as FaultsAreFew wants them.
ASSUME InstructionsAssumption == InstructionsOK(2, 6) /\ StartAgesOK
==============================================================================
