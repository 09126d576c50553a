---------------------------- MODULE MCCarryLoop -----------------------------
EXTENDS CarryLoop

Bits(n) == [i \in Idx |-> (n \div 2 ^ i) % 2]

\* The constants of the layers, the ends of the range, and words whose sums carry
\* through every bit.
MCOperands == {Bits(n) : n \in
  {0, 1, 2, 255, 256, \h0010, \h0040, \h0539, \h5555, \h6b14, \h7fff, \h8000, \h8001,
   \haaaa, \hae4d, \hbe92, \hff00, \hfffe, \hffff}}
=============================================================================
