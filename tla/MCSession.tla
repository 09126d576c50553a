----------------------------- MODULE MCSession -----------------------------
EXTENDS SessionProofs

\* As in the challenge, the code of layer 1 covers the sled of layer 0, so that it
\* may run into pages that the webcam still holds.
ShortLongShort == [i \in Layers |-> IF i = 1 THEN SledLength + 1 ELSE 1]

\* Each slot accessed a moment ago or so long ago that its age wraps at some page of
\* the sled.
LateAges ==
  {f \in [Slots -> {0, 1} \cup {AgeMod - 2 * k - 1 : k \in 0 .. SledLength}] :
     \E s, t \in Slots : f[s] = 0 /\ f[t] = 1}
=============================================================================
