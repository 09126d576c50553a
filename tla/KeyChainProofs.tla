--------------------------- MODULE KeyChainProofs ---------------------------
(***************************************************************************)
(* Proofs about KeyChain: what is proved of each search for any constants, *)
(* applied to the constants and the files of the programs and to words of  *)
(* 6 bits, and what follows when the searches run one after the other.     *)
(***************************************************************************)
EXTENDS KeyChain, TLAPS

\* The constants of the three programs, and those of the small words.  CarryLoop, of which
\* LayerProofs also speaks, has no part in this.
P16 == INSTANCE LayerProofs WITH
  HalfBits <- 8,
  Operands <- {}, minuend <- 0, subtrahend <- 0, sum <- 0, addend <- 0, carry <- 0, passes <- 0,
  flag <- 0,
  FirstKey1 <- <<Window(0)[1] - Near, Window(0)[2] - Near>>,
  LastKey1 <- <<Window(0)[1] + Near, Window(0)[2] + Near>>,
  LowMix <- \h9577, HighGoal <- \hae4d,
  LowShift <- \h0539, LowGoal <- \h6b14,
  Verdict <- <<\hdead, \hbeef>>,
  FirstKey2 <- Window(1)[2] - Near, LastKey2 <- Window(1)[2] + Near,
  Rounds2 <- \h40, Start2 <- \h50, Mask2 <- Mask2, Marker <- \hbe92, Refused <- \hffff,
  Lo2 <- Lo2, Blobs2 <- {Blob},
  FirstKey3 <- Window(2)[2] - Near, LastKey3 <- Window(2)[2] + Near,
  Rounds3 <- \h10, Start3 <- 4, Mask3 <- Mask3, Lo3 <- Lo3, Blobs3 <- {Blah}

P6 == INSTANCE LayerProofs WITH
  HalfBits <- 3,
  Operands <- {}, minuend <- 0, subtrahend <- 0, sum <- 0, addend <- 0, carry <- 0, passes <- 0,
  flag <- 0,
  FirstKey1 <- <<0, 0>>, LastKey1 <- <<63, 63>>,
  LowMix <- 23, HighGoal <- 45, LowShift <- 57, LowGoal <- 20,
  Verdict <- <<53, 47>>,
  FirstKey2 <- 0, LastKey2 <- 63, Rounds2 <- 4, Start2 <- 10, Mask2 <- Mask6,
  Marker <- 50, Refused <- 63, Lo2 <- 61, Blobs2 <- Blobs2,
  FirstKey3 <- 0, LastKey3 <- 63, Rounds3 <- 3, Start3 <- 4, Mask3 <- Mask6,
  Text <- Text6, Lo3 <- 45, Blobs3 <- Blobs3

\* The constants and the files are words where words are expected, the blocks do not
\* go over the end of the memory, and the right keys are among those that are tried.
\* BitXor is ^ on all words of 6 bits; on words of 16 bits, which are too many to try,
\* that is a hypothesis of the theorems.
ASSUME SourcesAssumption ==
  /\ P16!HalvesOK /\ P16!Layer1OK /\ P16!Layer2OK /\ P16!Layer3OK
  /\ P6!HalvesOK /\ P6!Layer1OK /\ P6!Layer2OK /\ P6!Layer3OK
  /\ P6!IsXor(P6!Word)
  /\ 2 ^ 8 = 256

\* The equations, run backwards on the files, give the words of KEY.
ASSUME KeysAssumption ==
  /\ L1!TheKey = Window(0)
  /\ L2!TheKey(Blob) = Window(1)[2] /\ Lo2 = Window(0)[2]
  /\ L3!TheKeys(Blah) = {Window(2)[2]} /\ Lo3 = Window(1)[2]

-----------------------------------------------------------------------------

LEMMA Same16Layer1 ==
  /\ (L1!Init <=> P16!L1!Init) /\ (L1!Next <=> P16!L1!Next) /\ (L1!TypeOK <=> P16!L1!TypeOK)
  /\ (L1!ClientAgrees <=> P16!L1!ClientAgrees) /\ L1!Candidates = P16!L1!Candidates
  /\ L1!Good = P16!L1!Good /\ L1!Tried = P16!L1!Tried /\ L1!Reported = P16!L1!Reported
  /\ L1!TheKey = P16!L1!TheKey
BY DEF L1!Next, P16!L1!Next, L1!Init, P16!L1!Init, L1!TypeOK, P16!L1!TypeOK,
       L1!ClientAgrees, P16!L1!ClientAgrees, L1!Candidates, P16!L1!Candidates, L1!Good,
       P16!L1!Good, L1!Tried, P16!L1!Tried, L1!Reported, P16!L1!Reported, L1!TheKey,
       P16!L1!TheKey, L1!Try, P16!L1!Try, L1!Low1, P16!L1!Low1, L1!High1, P16!L1!High1,
       L1!TestHigh, P16!L1!TestHigh, L1!ShiftLow, P16!L1!ShiftLow, L1!TestLow,
       P16!L1!TestLow, L1!WriteVerdict, P16!L1!WriteVerdict, L1!Report, P16!L1!Report,
       L1!MixLow, P16!L1!MixLow, L1!MixHigh, P16!L1!MixHigh, L1!NewKey, P16!L1!NewKey,
       L1!TheLow, P16!L1!TheLow, L1!Spread, P16!L1!Spread, L1!Number, P16!L1!Number,
       L1!Columns, P16!L1!Columns, L1!Fold, P16!L1!Fold, L1!Word, P16!L1!Word, L1!Low,
       P16!L1!Low, L1!High, P16!L1!High, L1!ToHigh, P16!L1!ToHigh, L1!Wrap, P16!L1!Wrap,
       L1!WordBase, P16!L1!WordBase, L1!Half, P16!L1!Half

LEMMA Same16Layer2 ==
  /\ (L2!Init <=> P16!L2!Init) /\ (L2!Next <=> P16!L2!Next) /\ (L2!TypeOK <=> P16!L2!TypeOK)
  /\ (L2!Progress <=> P16!L2!Progress) /\ (L2!ClientAgrees <=> P16!L2!ClientAgrees)
  /\ L2!Candidates = P16!L2!Candidates /\ L2!Good = P16!L2!Good /\ L2!Tried = P16!L2!Tried
  /\ L2!Reported = P16!L2!Reported /\ L2!Slots = P16!L2!Slots /\ L2!LastSlot = P16!L2!LastSlot
  /\ \A b : L2!TheKey(b) = P16!L2!TheKey(b)
BY DEF L2!Next, P16!L2!Next, L2!Init, P16!L2!Init, L2!TypeOK, P16!L2!TypeOK, L2!Progress,
       P16!L2!Progress, L2!ClientAgrees, P16!L2!ClientAgrees, L2!Candidates,
       P16!L2!Candidates, L2!Good, P16!L2!Good, L2!Tried, P16!L2!Tried, L2!Reported,
       P16!L2!Reported, L2!TheKey, P16!L2!TheKey, L2!Slots, P16!L2!Slots, L2!LastSlot,
       P16!L2!LastSlot, L2!Try, P16!L2!Try, L2!DecryptLow, P16!L2!DecryptLow, L2!AdvanceLow,
       P16!L2!AdvanceLow, L2!DecryptHigh, P16!L2!DecryptHigh, L2!LowerHigh,
       P16!L2!LowerHigh, L2!CountRound, P16!L2!CountRound, L2!StepBack, P16!L2!StepBack,
       L2!CheckMarker, P16!L2!CheckMarker, L2!LoopBack, P16!L2!LoopBack, L2!Report,
       P16!L2!Report, L2!Copy, P16!L2!Copy, L2!Decrypt, P16!L2!Decrypt, L2!Less,
       P16!L2!Less, L2!MoreRounds, P16!L2!MoreRounds, L2!Plain, P16!L2!Plain, L2!Moved,
       P16!L2!Moved, L2!Complement, P16!L2!Complement, L2!Borrow, P16!L2!Borrow, L2!Word,
       P16!L2!Word, L2!Wrap, P16!L2!Wrap, L2!WordBase, P16!L2!WordBase, L2!Half, P16!L2!Half

LEMMA Same16Layer3 ==
  /\ (L3!Init <=> P16!L3!Init) /\ (L3!Next <=> P16!L3!Next) /\ (L3!TypeOK <=> P16!L3!TypeOK)
  /\ (L3!Progress <=> P16!L3!Progress) /\ L3!Candidates = P16!L3!Candidates
  /\ L3!Good = P16!L3!Good /\ L3!Tried = P16!L3!Tried /\ L3!Reported = P16!L3!Reported
  /\ L3!Slots = P16!L3!Slots /\ \A b : L3!TheKeys(b) = P16!L3!TheKeys(b)
BY DEF L3!Next, P16!L3!Next, L3!Init, P16!L3!Init, L3!TypeOK, P16!L3!TypeOK, L3!Progress,
       P16!L3!Progress, L3!Candidates, P16!L3!Candidates, L3!Good, P16!L3!Good, L3!Tried,
       P16!L3!Tried, L3!Reported, P16!L3!Reported, L3!TheKeys, P16!L3!TheKeys, L3!Slots,
       P16!L3!Slots, L3!Try, P16!L3!Try, L3!Mix, P16!L3!Mix, L3!SumKey, P16!L3!SumKey,
       L3!Decrypt, P16!L3!Decrypt, L3!Advance, P16!L3!Advance, L3!LoopBack, P16!L3!LoopBack,
       L3!Report, P16!L3!Report, L3!Copy, P16!L3!Copy, L3!MixHigh, P16!L3!MixHigh, L3!Sum,
       P16!L3!Sum, L3!MoreRounds, P16!L3!MoreRounds, L3!Streams, P16!L3!Streams, L3!KeysOf,
       P16!L3!KeysOf, L3!Mixed, P16!L3!Mixed, L3!Borrow, P16!L3!Borrow, L3!Word,
       P16!L3!Word, L3!Low, P16!L3!Low, L3!High, P16!L3!High, L3!ToHigh, P16!L3!ToHigh,
       L3!Wrap, P16!L3!Wrap, L3!WordBase, P16!L3!WordBase, L3!Half, P16!L3!Half

LEMMA Same6Layer1 ==
  /\ (S1!Init <=> P6!L1!Init) /\ (S1!Next <=> P6!L1!Next) /\ (S1!TypeOK <=> P6!L1!TypeOK)
  /\ (S1!ClientAgrees <=> P6!L1!ClientAgrees) /\ S1!Candidates = P6!L1!Candidates
  /\ S1!Good = P6!L1!Good /\ S1!Tried = P6!L1!Tried /\ S1!Reported = P6!L1!Reported
  /\ S1!TheKey = P6!L1!TheKey
BY DEF S1!Next, P6!L1!Next, S1!Init, P6!L1!Init, S1!TypeOK, P6!L1!TypeOK, S1!ClientAgrees,
       P6!L1!ClientAgrees, S1!Candidates, P6!L1!Candidates, S1!Good, P6!L1!Good, S1!Tried,
       P6!L1!Tried, S1!Reported, P6!L1!Reported, S1!TheKey, P6!L1!TheKey, S1!Try, P6!L1!Try,
       S1!Low1, P6!L1!Low1, S1!High1, P6!L1!High1, S1!TestHigh, P6!L1!TestHigh, S1!ShiftLow,
       P6!L1!ShiftLow, S1!TestLow, P6!L1!TestLow, S1!WriteVerdict, P6!L1!WriteVerdict,
       S1!Report, P6!L1!Report, S1!MixLow, P6!L1!MixLow, S1!MixHigh, P6!L1!MixHigh,
       S1!NewKey, P6!L1!NewKey, S1!TheLow, P6!L1!TheLow, S1!Spread, P6!L1!Spread, S1!Number,
       P6!L1!Number, S1!Columns, P6!L1!Columns, S1!Fold, P6!L1!Fold, S1!Word, P6!L1!Word,
       S1!Low, P6!L1!Low, S1!High, P6!L1!High, S1!ToHigh, P6!L1!ToHigh, S1!Wrap, P6!L1!Wrap,
       S1!WordBase, P6!L1!WordBase, S1!Half, P6!L1!Half

LEMMA Same6Layer2 ==
  /\ (S2!Init <=> P6!L2!Init) /\ (S2!Next <=> P6!L2!Next) /\ (S2!TypeOK <=> P6!L2!TypeOK)
  /\ (S2!Progress <=> P6!L2!Progress) /\ (S2!ClientAgrees <=> P6!L2!ClientAgrees)
  /\ S2!Candidates = P6!L2!Candidates /\ S2!Good = P6!L2!Good /\ S2!Tried = P6!L2!Tried
  /\ S2!Reported = P6!L2!Reported /\ S2!Slots = P6!L2!Slots /\ S2!LastSlot = P6!L2!LastSlot
  /\ \A b : S2!TheKey(b) = P6!L2!TheKey(b)
BY DEF S2!Next, P6!L2!Next, S2!Init, P6!L2!Init, S2!TypeOK, P6!L2!TypeOK, S2!Progress,
       P6!L2!Progress, S2!ClientAgrees, P6!L2!ClientAgrees, S2!Candidates, P6!L2!Candidates,
       S2!Good, P6!L2!Good, S2!Tried, P6!L2!Tried, S2!Reported, P6!L2!Reported, S2!TheKey,
       P6!L2!TheKey, S2!Slots, P6!L2!Slots, S2!LastSlot, P6!L2!LastSlot, S2!Try, P6!L2!Try,
       S2!DecryptLow, P6!L2!DecryptLow, S2!AdvanceLow, P6!L2!AdvanceLow, S2!DecryptHigh,
       P6!L2!DecryptHigh, S2!LowerHigh, P6!L2!LowerHigh, S2!CountRound, P6!L2!CountRound,
       S2!StepBack, P6!L2!StepBack, S2!CheckMarker, P6!L2!CheckMarker, S2!LoopBack,
       P6!L2!LoopBack, S2!Report, P6!L2!Report, S2!Copy, P6!L2!Copy, S2!Decrypt,
       P6!L2!Decrypt, S2!Less, P6!L2!Less, S2!MoreRounds, P6!L2!MoreRounds, S2!Plain,
       P6!L2!Plain, S2!Moved, P6!L2!Moved, S2!Complement, P6!L2!Complement, S2!Borrow,
       P6!L2!Borrow, S2!Word, P6!L2!Word, S2!Wrap, P6!L2!Wrap, S2!WordBase, P6!L2!WordBase,
       S2!Half, P6!L2!Half

LEMMA Same6Layer3 ==
  /\ (S3!Init <=> P6!L3!Init) /\ (S3!Next <=> P6!L3!Next) /\ (S3!TypeOK <=> P6!L3!TypeOK)
  /\ (S3!Progress <=> P6!L3!Progress) /\ S3!Candidates = P6!L3!Candidates
  /\ S3!Good = P6!L3!Good /\ S3!Tried = P6!L3!Tried /\ S3!Reported = P6!L3!Reported
  /\ S3!Slots = P6!L3!Slots /\ \A b : S3!TheKeys(b) = P6!L3!TheKeys(b)
BY DEF S3!Next, P6!L3!Next, S3!Init, P6!L3!Init, S3!TypeOK, P6!L3!TypeOK, S3!Progress,
       P6!L3!Progress, S3!Candidates, P6!L3!Candidates, S3!Good, P6!L3!Good, S3!Tried,
       P6!L3!Tried, S3!Reported, P6!L3!Reported, S3!TheKeys, P6!L3!TheKeys, S3!Slots,
       P6!L3!Slots, S3!Try, P6!L3!Try, S3!Mix, P6!L3!Mix, S3!SumKey, P6!L3!SumKey,
       S3!Decrypt, P6!L3!Decrypt, S3!Advance, P6!L3!Advance, S3!LoopBack, P6!L3!LoopBack,
       S3!Report, P6!L3!Report, S3!Copy, P6!L3!Copy, S3!MixHigh, P6!L3!MixHigh, S3!Sum,
       P6!L3!Sum, S3!MoreRounds, P6!L3!MoreRounds, S3!Streams, P6!L3!Streams, S3!KeysOf,
       P6!L3!KeysOf, S3!Mixed, P6!L3!Mixed, S3!Borrow, P6!L3!Borrow, S3!Word, P6!L3!Word,
       S3!Low, P6!L3!Low, S3!High, P6!L3!High, S3!ToHigh, P6!L3!ToHigh, S3!Wrap, P6!L3!Wrap,
       S3!WordBase, P6!L3!WordBase, S3!Half, P6!L3!Half

-----------------------------------------------------------------------------
(***************************************************************************)
(* The inductive invariant: that of the search that runs.  The searches    *)
(* share variables; each one starts from its own initial values, and       *)
(* depends on nothing that the one before has left.                        *)
(***************************************************************************)
Inv16 ==
  /\ program = 1 => P16!Inv1
  /\ program = 2 => P16!Inv2
  /\ program = 3 => P16!Inv3

Inv6 ==
  /\ program = 1 => P6!Inv1
  /\ program = 2 => P6!Inv2
  /\ program = 3 => P6!Inv3

CInv ==
  /\ width \in {6, 16} /\ program \in 1 .. 3
  /\ width = 16 => Inv16
  /\ width = 6 => Inv6

LEMMA InitCInv == Init => CInv
<1> SUFFICES ASSUME Init PROVE CInv
  OBVIOUS
<1>1. program = 1 /\ width \in {6, 16}
  BY DEF Init
<1>2. width = 16 => P16!Inv1
  BY Same16Layer1, SourcesAssumption, P16!InitInv1 DEF Init
<1>3. width = 6 => P6!Inv1
  BY Same6Layer1, SourcesAssumption, P6!InitInv1 DEF Init
<1> QED
  BY <1>1, <1>2, <1>3 DEF CInv, Inv16, Inv6

\* The step that a search takes is one of its own.
LEMMA Steps ==
  ASSUME Run
  PROVE  /\ width' = width /\ program' = program /\ found' = found
         /\ program = 1 => UNCHANGED Others1
         /\ program = 2 => UNCHANGED Others2
         /\ program = 3 => UNCHANGED Others3
         /\ width = 16 => /\ program = 1 => P16!L1!Next
                          /\ program = 2 => P16!L2!Next
                          /\ program = 3 => P16!L3!Next
         /\ width = 6 => /\ program = 1 => P6!L1!Next
                         /\ program = 2 => P6!L2!Next
                         /\ program = 3 => P6!L3!Next
<1>1. /\ width = 16 => /\ program = 1 => L1!Next
                       /\ program = 2 => L2!Next
                       /\ program = 3 => L3!Next
      /\ width = 6 => /\ program = 1 => S1!Next
                      /\ program = 2 => S2!Next
                      /\ program = 3 => S3!Next
  BY DEF Run
<1> QED
  BY <1>1, Same16Layer1, Same16Layer2, Same16Layer3, Same6Layer1, Same6Layer2, Same6Layer3 DEF Run

LEMMA RunCInv ==
  ASSUME P16!IsXor(P16!Word), CInv, Run
  PROVE  CInv'
<1>1. /\ width' = width /\ program' = program /\ width \in {6, 16} /\ program \in 1 .. 3
  BY Steps DEF CInv
<1>2. CASE width = 16
  <2>1. CASE program = 1
    <3>1. P16!Inv1 /\ P16!L1!Next
      BY <1>2, <2>1, Steps DEF CInv, Inv16
    <3>2. P16!Inv1'
      BY <3>1, SourcesAssumption, P16!Next1
    <3> QED
      BY <1>1, <1>2, <2>1, <3>2 DEF CInv, Inv16
  <2>2. CASE program = 2
    <3>1. P16!Inv2 /\ P16!L2!Next
      BY <1>2, <2>2, Steps DEF CInv, Inv16
    <3>2. P16!Inv2'
      BY <3>1, SourcesAssumption, P16!Next2
    <3> QED
      BY <1>1, <1>2, <2>2, <3>2 DEF CInv, Inv16
  <2>3. CASE program = 3
    <3>1. P16!Inv3 /\ P16!L3!Next
      BY <1>2, <2>3, Steps DEF CInv, Inv16
    <3>2. P16!Inv3'
      BY <3>1, SourcesAssumption, P16!Next3
    <3> QED
      BY <1>1, <1>2, <2>3, <3>2 DEF CInv, Inv16
  <2> QED
    BY <1>1, <2>1, <2>2, <2>3
<1>3. CASE width = 6
  <2>1. CASE program = 1
    <3>1. P6!Inv1 /\ P6!L1!Next
      BY <1>3, <2>1, Steps DEF CInv, Inv6
    <3>2. P6!Inv1'
      BY <3>1, SourcesAssumption, P6!Next1
    <3> QED
      BY <1>1, <1>3, <2>1, <3>2 DEF CInv, Inv6
  <2>2. CASE program = 2
    <3>1. P6!Inv2 /\ P6!L2!Next
      BY <1>3, <2>2, Steps DEF CInv, Inv6
    <3>2. P6!Inv2'
      BY <3>1, SourcesAssumption, P6!Next2
    <3> QED
      BY <1>1, <1>3, <2>2, <3>2 DEF CInv, Inv6
  <2>3. CASE program = 3
    <3>1. P6!Inv3 /\ P6!L3!Next
      BY <1>3, <2>3, Steps DEF CInv, Inv6
    <3>2. P6!Inv3'
      BY <3>1, SourcesAssumption, P6!Next3
    <3> QED
      BY <1>1, <1>3, <2>3, <3>2 DEF CInv, Inv6
  <2> QED
    BY <1>1, <2>1, <2>2, <2>3
<1> QED
  BY <1>1, <1>2, <1>3

LEMMA NewInvs ==
  /\ (L2!Init => P16!Inv2)' /\ (L3!Init => P16!Inv3)'
  /\ (S2!Init => P6!Inv2)' /\ (S3!Init => P6!Inv3)'
<1>1. L2!Init => P16!Inv2
  BY Same16Layer2, SourcesAssumption, P16!InitInv2
<1>2. L3!Init => P16!Inv3
  BY Same16Layer3, SourcesAssumption, P16!InitInv3
<1>3. S2!Init => P6!Inv2
  BY Same6Layer2, SourcesAssumption, P6!InitInv2
<1>4. S3!Init => P6!Inv3
  BY Same6Layer3, SourcesAssumption, P6!InitInv3
<1> QED
  BY <1>1, <1>2, <1>3, <1>4, PTL

\* A program that is started is in its initial state.
LEMMA Starts ==
  ASSUME Start, CInv
  PROVE  /\ width' = width /\ program' = program + 1 /\ program \in 1 .. 2
         /\ width = 16 => /\ program = 1 => L2!Init'
                          /\ program = 2 => L3!Init'
         /\ width = 6 => /\ program = 1 => S2!Init'
                         /\ program = 2 => S3!Init'
<1>1. /\ Blob \in [L2!Slots -> P16!Word] /\ Blah \in [L3!Slots -> P16!Word]
      /\ Blobs2 \subseteq [S2!Slots -> P6!Word] /\ Blobs3 \subseteq [S3!Slots -> P6!Word]
  BY SourcesAssumption, Same16Layer2, Same16Layer3, Same6Layer2, Same6Layer3
     DEF P16!Layer2OK, P16!Layer3OK, P6!Layer2OK, P6!Layer3OK
<1>2. width' = width /\ program' = program + 1 /\ program \in 1 .. 2
  BY DEF Start, CInv
<1>3. CASE width = 16 /\ program = 1
  <2>1. blob' = Blob /\ k2' = Window(1)[2] - Near
    BY <1>3 DEF Start
  <2>2. block' = [s \in L2!Slots |-> 0]
    BY <1>1, <2>1 DEF Start
  <2>3. L2!Init'
    BY <2>1, <2>2 DEF Start, L2!Init, L2!Slots
  <2> QED
    BY <1>2, <1>3, <2>3
<1>4. CASE width = 16 /\ program = 2
  <2>1. blob' = Blah /\ k2' = Window(2)[2] - Near
    BY <1>4 DEF Start
  <2>2. block' = [s \in L3!Slots |-> 0]
    BY <1>1, <2>1 DEF Start
  <2>3. L3!Init'
    BY <2>1, <2>2 DEF Start, L3!Init, L3!Slots
  <2> QED
    BY <1>2, <1>4, <2>3
<1>5. CASE width = 6 /\ program = 1
  <2>1. blob' \in Blobs2 /\ k2' = 0
    BY <1>5 DEF Start
  <2>2. block' = [s \in S2!Slots |-> 0]
    BY <1>1, <2>1 DEF Start
  <2>3. S2!Init'
    BY <2>1, <2>2 DEF Start, S2!Init, S2!Slots
  <2> QED
    BY <1>2, <1>5, <2>3
<1>6. CASE width = 6 /\ program = 2
  <2>1. blob' \in Blobs3 /\ k2' = 0
    BY <1>6 DEF Start
  <2>2. block' = [s \in S3!Slots |-> 0]
    BY <1>1, <2>1 DEF Start
  <2>3. S3!Init'
    BY <2>1, <2>2 DEF Start, S3!Init, S3!Slots
  <2> QED
    BY <1>2, <1>6, <2>3
<1> QED
  BY <1>2, <1>3, <1>4, <1>5, <1>6 DEF CInv

LEMMA StartCInv == ASSUME CInv, Start PROVE CInv'
<1>1. /\ width' = width /\ program' = program + 1 /\ program \in 1 .. 2 /\ width \in {6, 16}
  BY Starts DEF CInv
<1>2. width = 16 => /\ program = 1 => P16!Inv2'
                    /\ program = 2 => P16!Inv3'
  BY Starts, NewInvs
<1>3. width = 6 => /\ program = 1 => P6!Inv2'
                   /\ program = 2 => P6!Inv3'
  BY Starts, NewInvs
<1> QED
  BY <1>1, <1>2, <1>3 DEF CInv, Inv16, Inv6

LEMMA StutterCInv == ASSUME CInv, UNCHANGED vars PROVE CInv'
<1>1. UNCHANGED <<width, program>> /\ UNCHANGED own
  BY DEF vars
<1>2. /\ UNCHANGED P16!L1!vars /\ UNCHANGED P16!L2!vars /\ UNCHANGED P16!L3!vars
      /\ UNCHANGED P6!L1!vars /\ UNCHANGED P6!L2!vars /\ UNCHANGED P6!L3!vars
  BY <1>1 DEF own, P16!L1!vars, P16!L2!vars, P16!L3!vars, P6!L1!vars, P6!L2!vars, P6!L3!vars
<1>3. /\ (program = 1 /\ P16!Inv1 => P16!Inv1') /\ (program = 2 /\ P16!Inv2 => P16!Inv2')
      /\ (program = 3 /\ P16!Inv3 => P16!Inv3')
  BY <1>2, P16!Stutter1, P16!Stutter2, P16!Stutter3
<1>4. /\ (program = 1 /\ P6!Inv1 => P6!Inv1') /\ (program = 2 /\ P6!Inv2 => P6!Inv2')
      /\ (program = 3 /\ P6!Inv3 => P6!Inv3')
  BY <1>2, P6!Stutter1, P6!Stutter2, P6!Stutter3
<1> QED
  BY <1>1, <1>3, <1>4 DEF CInv, Inv16, Inv6

LEMMA SpecCInv ==
  ASSUME P16!IsXor(P16!Word)
  PROVE  Spec => []CInv
<1>1. CInv /\ [Next]_vars => CInv'
  BY RunCInv, StartCInv, StutterCInv DEF Next
<1> QED
  BY <1>1, InitCInv, PTL DEF Spec

LEMMA Currents ==
  ASSUME NEW l1, NEW l2, NEW l3, NEW s1, NEW s2, NEW s3
  PROVE  /\ width = 16 => /\ program = 1 => Current(l1, l2, l3, s1, s2, s3) = l1
                          /\ program = 2 => Current(l1, l2, l3, s1, s2, s3) = l2
                          /\ program = 3 => Current(l1, l2, l3, s1, s2, s3) = l3
         /\ width = 6 => /\ program = 1 => Current(l1, l2, l3, s1, s2, s3) = s1
                         /\ program = 2 => Current(l1, l2, l3, s1, s2, s3) = s2
                         /\ program = 3 => Current(l1, l2, l3, s1, s2, s3) = s3
  BY DEF Current

LEMMA SafeCInv ==
  ASSUME P16!IsXor(P16!Word), CInv
  PROVE  TypeOK /\ Progress /\ ClientAgrees
<1>1. /\ P16!Inv1 => L1!TypeOK /\ L1!ClientAgrees
      /\ P16!Inv2 => L2!TypeOK /\ L2!Progress /\ L2!ClientAgrees
      /\ P16!Inv3 => L3!TypeOK /\ L3!Progress
  BY P16!Safe1, P16!Safe2, P16!Safe3, SourcesAssumption, Same16Layer1, Same16Layer2, Same16Layer3
<1>2. /\ P6!Inv1 => S1!TypeOK /\ S1!ClientAgrees
      /\ P6!Inv2 => S2!TypeOK /\ S2!Progress /\ S2!ClientAgrees
      /\ P6!Inv3 => S3!TypeOK /\ S3!Progress
  BY P6!Safe1, P6!Safe2, P6!Safe3, SourcesAssumption, Same6Layer1, Same6Layer2, Same6Layer3
<1>3. width \in {6, 16} /\ program \in 1 .. 3
  BY DEF CInv
<1>4. CASE width = 16
  <2>1. CASE program = 1
    <3>1. L1!TypeOK /\ L1!ClientAgrees
      BY <1>1, <1>4, <2>1 DEF CInv, Inv16
    <3>2. TypeOK
      BY <1>3, <1>4, <2>1, <3>1, Currents DEF TypeOK
    <3>3. Progress
      BY <1>4, <2>1, <3>1, Currents DEF Progress
    <3>4. ClientAgrees
      BY <1>4, <2>1, <3>1, Currents DEF ClientAgrees
    <3> QED
      BY <3>2, <3>3, <3>4
  <2>2. CASE program = 2
    <3>1. L2!TypeOK /\ L2!Progress /\ L2!ClientAgrees
      BY <1>1, <1>4, <2>2 DEF CInv, Inv16
    <3>2. TypeOK
      BY <1>3, <1>4, <2>2, <3>1, Currents DEF TypeOK
    <3>3. Progress
      BY <1>4, <2>2, <3>1, Currents DEF Progress
    <3>4. ClientAgrees
      BY <1>4, <2>2, <3>1, Currents DEF ClientAgrees
    <3> QED
      BY <3>2, <3>3, <3>4
  <2>3. CASE program = 3
    <3>1. L3!TypeOK /\ L3!Progress
      BY <1>1, <1>4, <2>3 DEF CInv, Inv16
    <3>2. TypeOK
      BY <1>3, <1>4, <2>3, <3>1, Currents DEF TypeOK
    <3>3. Progress
      BY <1>4, <2>3, <3>1, Currents DEF Progress
    <3>4. ClientAgrees
      BY <1>4, <2>3, <3>1, Currents DEF ClientAgrees
    <3> QED
      BY <3>2, <3>3, <3>4
  <2> QED
    BY <1>3, <2>1, <2>2, <2>3
<1>5. CASE width = 6
  <2>1. CASE program = 1
    <3>0. width # 16
      BY <1>5
    <3>1. S1!TypeOK /\ S1!ClientAgrees
      BY <1>2, <1>5, <2>1 DEF CInv, Inv6
    <3>2. TypeOK
      BY <1>3, <2>1, <3>0, <3>1 DEF Current, TypeOK
    <3>3. Progress
      BY <2>1, <3>0, <3>1 DEF Current, Progress
    <3>4. ClientAgrees
      BY <2>1, <3>0, <3>1 DEF Current, ClientAgrees
    <3> QED
      BY <3>2, <3>3, <3>4
  <2>2. CASE program = 2
    <3>0. width # 16 /\ program # 1
      BY <1>5, <2>2
    <3>1. S2!TypeOK /\ S2!Progress /\ S2!ClientAgrees
      BY <1>2, <1>5, <2>2 DEF CInv, Inv6
    <3>2. TypeOK
      BY <1>3, <2>2, <3>0, <3>1 DEF Current, TypeOK
    <3>3. Progress
      <4>1. Current(TRUE, L2!Progress, L3!Progress, TRUE, S2!Progress, S3!Progress) = S2!Progress
        BY <1>5, <2>2, <3>0 DEF Current
      <4> QED
        BY <3>1, <4>1 DEF Progress
    <3>4. ClientAgrees
      BY <2>2, <3>0, <3>1 DEF Current, ClientAgrees
    <3> QED
      BY <3>2, <3>3, <3>4
  <2>3. CASE program = 3
    <3>0. width # 16 /\ program # 1 /\ program # 2
      BY <1>5, <2>3
    <3>1. S3!TypeOK /\ S3!Progress
      BY <1>2, <1>5, <2>3 DEF CInv, Inv6
    <3>2. TypeOK
      BY <1>3, <2>3, <3>0, <3>1 DEF Current, TypeOK
    <3>3. Progress
      BY <2>3, <3>0, <3>1 DEF Current, Progress
    <3>4. ClientAgrees
      BY <2>3, <3>0, <3>1 DEF Current, ClientAgrees
    <3> QED
      BY <3>2, <3>3, <3>4
  <2> QED
    BY <1>3, <2>1, <2>2, <2>3
<1> QED
  BY <1>3, <1>4, <1>5

\* The three programs keep words in their registers, with the masks and the files of the
\* sources, for every key that they try.
THEOREM SpecTypeOK ==
  ASSUME P16!IsXor(P16!Word)
  PROVE  Spec => []TypeOK
<1>1. CInv => TypeOK
  BY SafeCInv
<1> QED
  BY <1>1, SpecCInv, PTL

\* The decryptions in place start from the file for every key, and go over each word of
\* the block once (f() of bflayer2.c and bflayer3.c).
THEOREM SpecProgress ==
  ASSUME P16!IsXor(P16!Word)
  PROVE  Spec => []Progress
<1>1. CInv => Progress
  BY SafeCInv
<1> QED
  BY <1>1, SpecCInv, PTL

\* What f() returns, an edit of the author, and what the client of the machine sees in
\* the memory are the same verdict, on every path and for every key.
THEOREM SpecClientAgrees ==
  ASSUME P16!IsXor(P16!Word)
  PROVE  Spec => []ClientAgrees
<1>1. CInv => ClientAgrees
  BY SafeCInv
<1> QED
  BY <1>1, SpecCInv, PTL

-----------------------------------------------------------------------------
(***************************************************************************)
(* The searches one after the other implement module KeySearch.            *)
(***************************************************************************)

Count == Current(L1!Candidates, L2!Candidates, L3!Candidates,
                 S1!Candidates, S2!Candidates, S3!Candidates)
GoodOnes == Current(L1!Good, L2!Good, L3!Good, S1!Good, S2!Good, S3!Good)
Place == Current(L1!Tried, L2!Tried, L3!Tried, S1!Tried, S2!Tried, S3!Tried)
Out == Current(L1!Reported, L2!Reported, L3!Reported, S1!Reported, S2!Reported, S3!Reported)

Shows(c, g, n, p) == Count = c /\ GoodOnes = g /\ Place = n /\ Out = p

LEMMA SearchIs ==
  /\ Search!Fresh <=> GoodOnes \subseteq 0 .. Count - 1 /\ Place = 0 /\ Out = {}
  /\ Search!Try <=> /\ Place < Count /\ Place' = Place + 1
                    /\ Out' = Out \union ({Place} \intersect GoodOnes)
                    /\ Count' = Count /\ GoodOnes' = GoodOnes
  /\ Search!AnotherSearch <=> Place = Count /\ Search!Fresh'
  /\ UNCHANGED Search!vars <=> UNCHANGED <<Count, GoodOnes, Place, Out>>
BY DEF Search!Fresh, Search!Try, Search!AnotherSearch, Search!vars, Count, GoodOnes, Place, Out

LEMMA Shown16 ==
  width = 16 =>
    /\ program = 1 => Shows(P16!L1!Candidates, P16!L1!Good, P16!L1!Tried, P16!L1!Reported)
    /\ program = 2 => Shows(P16!L2!Candidates, P16!L2!Good, P16!L2!Tried, P16!L2!Reported)
    /\ program = 3 => Shows(P16!L3!Candidates, P16!L3!Good, P16!L3!Tried, P16!L3!Reported)
<1> SUFFICES ASSUME width = 16
             PROVE  /\ program = 1 => Shows(L1!Candidates, L1!Good, L1!Tried, L1!Reported)
                    /\ program = 2 => Shows(L2!Candidates, L2!Good, L2!Tried, L2!Reported)
                    /\ program = 3 => Shows(L3!Candidates, L3!Good, L3!Tried, L3!Reported)
  BY Same16Layer1, Same16Layer2, Same16Layer3
<1>1. program = 1 => Shows(L1!Candidates, L1!Good, L1!Tried, L1!Reported)
  BY DEF Shows, Count, GoodOnes, Place, Out, Current
<1>2. program = 2 => Shows(L2!Candidates, L2!Good, L2!Tried, L2!Reported)
  BY DEF Shows, Count, GoodOnes, Place, Out, Current
<1>3. program = 3 => Shows(L3!Candidates, L3!Good, L3!Tried, L3!Reported)
  BY DEF Shows, Count, GoodOnes, Place, Out, Current
<1> QED
  BY <1>1, <1>2, <1>3

LEMMA Shown6 ==
  width = 6 =>
    /\ program = 1 => Shows(P6!L1!Candidates, P6!L1!Good, P6!L1!Tried, P6!L1!Reported)
    /\ program = 2 => Shows(P6!L2!Candidates, P6!L2!Good, P6!L2!Tried, P6!L2!Reported)
    /\ program = 3 => Shows(P6!L3!Candidates, P6!L3!Good, P6!L3!Tried, P6!L3!Reported)
<1> SUFFICES ASSUME width = 6
             PROVE  /\ program = 1 => Shows(S1!Candidates, S1!Good, S1!Tried, S1!Reported)
                    /\ program = 2 => Shows(S2!Candidates, S2!Good, S2!Tried, S2!Reported)
                    /\ program = 3 => Shows(S3!Candidates, S3!Good, S3!Tried, S3!Reported)
  BY Same6Layer1, Same6Layer2, Same6Layer3
<1>1. program = 1 => Shows(S1!Candidates, S1!Good, S1!Tried, S1!Reported)
  BY DEF Shows, Count, GoodOnes, Place, Out, Current
<1>2. program = 2 => Shows(S2!Candidates, S2!Good, S2!Tried, S2!Reported)
  BY DEF Shows, Count, GoodOnes, Place, Out, Current
<1>3. program = 3 => Shows(S3!Candidates, S3!Good, S3!Tried, S3!Reported)
  BY DEF Shows, Count, GoodOnes, Place, Out, Current
<1> QED
  BY <1>1, <1>2, <1>3

LEMMA ShownAgain ==
  /\ (width = 16 /\ program = 1
        => Shows(P16!L1!Candidates, P16!L1!Good, P16!L1!Tried, P16!L1!Reported))'
  /\ (width = 16 /\ program = 2
        => Shows(P16!L2!Candidates, P16!L2!Good, P16!L2!Tried, P16!L2!Reported))'
  /\ (width = 16 /\ program = 3
        => Shows(P16!L3!Candidates, P16!L3!Good, P16!L3!Tried, P16!L3!Reported))'
  /\ (width = 6 /\ program = 1
        => Shows(P6!L1!Candidates, P6!L1!Good, P6!L1!Tried, P6!L1!Reported))'
  /\ (width = 6 /\ program = 2
        => Shows(P6!L2!Candidates, P6!L2!Good, P6!L2!Tried, P6!L2!Reported))'
  /\ (width = 6 /\ program = 3
        => Shows(P6!L3!Candidates, P6!L3!Good, P6!L3!Tried, P6!L3!Reported))'
<1>1. width = 16 /\ program = 1
        => Shows(P16!L1!Candidates, P16!L1!Good, P16!L1!Tried, P16!L1!Reported)
  BY Shown16
<1>2. width = 16 /\ program = 2
        => Shows(P16!L2!Candidates, P16!L2!Good, P16!L2!Tried, P16!L2!Reported)
  BY Shown16
<1>3. width = 16 /\ program = 3
        => Shows(P16!L3!Candidates, P16!L3!Good, P16!L3!Tried, P16!L3!Reported)
  BY Shown16
<1>4. width = 6 /\ program = 1
        => Shows(P6!L1!Candidates, P6!L1!Good, P6!L1!Tried, P6!L1!Reported)
  BY Shown6
<1>5. width = 6 /\ program = 2
        => Shows(P6!L2!Candidates, P6!L2!Good, P6!L2!Tried, P6!L2!Reported)
  BY Shown6
<1>6. width = 6 /\ program = 3
        => Shows(P6!L3!Candidates, P6!L3!Good, P6!L3!Tried, P6!L3!Reported)
  BY Shown6
<1> QED
  BY <1>1, <1>2, <1>3, <1>4, <1>5, <1>6, PTL

\* A step of the search that runs tries a candidate, or does not show.
LEMMA SearchRun ==
  ASSUME P16!IsXor(P16!Word), CInv, Run \/ UNCHANGED vars
  PROVE  Search!Try \/ UNCHANGED Search!vars
<1>1. width' = width /\ program' = program /\ width \in {6, 16} /\ program \in 1 .. 3
  BY Steps DEF CInv, vars
<1>2. CASE UNCHANGED vars
  <2>1. /\ UNCHANGED P16!L1!vars /\ UNCHANGED P16!L2!vars /\ UNCHANGED P16!L3!vars
        /\ UNCHANGED P6!L1!vars /\ UNCHANGED P6!L2!vars /\ UNCHANGED P6!L3!vars
    BY <1>2 DEF vars, own, P16!L1!vars, P16!L2!vars, P16!L3!vars, P6!L1!vars, P6!L2!vars,
                P6!L3!vars
  <2>2. /\ P16!Inv1 => UNCHANGED P16!Search1!vars
        /\ P16!Inv2 => UNCHANGED P16!Search2!vars
        /\ P16!Inv3 => UNCHANGED P16!Search3!vars
    BY <2>1, P16!Stutter1, P16!Stutter2, P16!Stutter3
  <2>3. /\ P6!Inv1 => UNCHANGED P6!Search1!vars
        /\ P6!Inv2 => UNCHANGED P6!Search2!vars
        /\ P6!Inv3 => UNCHANGED P6!Search3!vars
    BY <2>1, P6!Stutter1, P6!Stutter2, P6!Stutter3
  <2>4. CASE width = 16 /\ program = 1
    <3>1. UNCHANGED P16!Search1!vars
      BY <2>2, <2>4 DEF CInv, Inv16
    <3>2. /\ Shows(P16!L1!Candidates, P16!L1!Good, P16!L1!Tried, P16!L1!Reported)
          /\ Shows(P16!L1!Candidates, P16!L1!Good, P16!L1!Tried, P16!L1!Reported)'
      BY <1>1, <2>4, Shown16, ShownAgain
    <3> QED
      BY <3>1, <3>2, SearchIs DEF Shows, P16!Search1!vars
  <2>5. CASE width = 16 /\ program = 2
    <3>1. UNCHANGED P16!Search2!vars
      BY <2>2, <2>5 DEF CInv, Inv16
    <3>2. /\ Shows(P16!L2!Candidates, P16!L2!Good, P16!L2!Tried, P16!L2!Reported)
          /\ Shows(P16!L2!Candidates, P16!L2!Good, P16!L2!Tried, P16!L2!Reported)'
      BY <1>1, <2>5, Shown16, ShownAgain
    <3> QED
      BY <3>1, <3>2, SearchIs DEF Shows, P16!Search2!vars
  <2>6. CASE width = 16 /\ program = 3
    <3>1. UNCHANGED P16!Search3!vars
      BY <2>2, <2>6 DEF CInv, Inv16
    <3>2. /\ Shows(P16!L3!Candidates, P16!L3!Good, P16!L3!Tried, P16!L3!Reported)
          /\ Shows(P16!L3!Candidates, P16!L3!Good, P16!L3!Tried, P16!L3!Reported)'
      BY <1>1, <2>6, Shown16, ShownAgain
    <3> QED
      BY <3>1, <3>2, SearchIs DEF Shows, P16!Search3!vars
  <2>7. CASE width = 6 /\ program = 1
    <3>1. UNCHANGED P6!Search1!vars
      BY <2>3, <2>7 DEF CInv, Inv6
    <3>2. /\ Shows(P6!L1!Candidates, P6!L1!Good, P6!L1!Tried, P6!L1!Reported)
          /\ Shows(P6!L1!Candidates, P6!L1!Good, P6!L1!Tried, P6!L1!Reported)'
      BY <1>1, <2>7, Shown6, ShownAgain
    <3> QED
      BY <3>1, <3>2, SearchIs DEF Shows, P6!Search1!vars
  <2>8. CASE width = 6 /\ program = 2
    <3>1. UNCHANGED P6!Search2!vars
      BY <2>3, <2>8 DEF CInv, Inv6
    <3>2. /\ Shows(P6!L2!Candidates, P6!L2!Good, P6!L2!Tried, P6!L2!Reported)
          /\ Shows(P6!L2!Candidates, P6!L2!Good, P6!L2!Tried, P6!L2!Reported)'
      BY <1>1, <2>8, Shown6, ShownAgain
    <3> QED
      BY <3>1, <3>2, SearchIs DEF Shows, P6!Search2!vars
  <2>9. CASE width = 6 /\ program = 3
    <3>1. UNCHANGED P6!Search3!vars
      BY <2>3, <2>9 DEF CInv, Inv6
    <3>2. /\ Shows(P6!L3!Candidates, P6!L3!Good, P6!L3!Tried, P6!L3!Reported)
          /\ Shows(P6!L3!Candidates, P6!L3!Good, P6!L3!Tried, P6!L3!Reported)'
      BY <1>1, <2>9, Shown6, ShownAgain
    <3> QED
      BY <3>1, <3>2, SearchIs DEF Shows, P6!Search3!vars
  <2> QED
    BY <1>1, <2>4, <2>5, <2>6, <2>7, <2>8, <2>9
<1>3. CASE Run
  <2>4. CASE width = 16 /\ program = 1
    <3>1. P16!Search1!Try \/ UNCHANGED P16!Search1!vars
      BY <1>3, <2>4, Steps, SourcesAssumption, P16!Step1 DEF CInv, Inv16
    <3>2. /\ Shows(P16!L1!Candidates, P16!L1!Good, P16!L1!Tried, P16!L1!Reported)
          /\ Shows(P16!L1!Candidates, P16!L1!Good, P16!L1!Tried, P16!L1!Reported)'
      BY <1>1, <2>4, Shown16, ShownAgain
    <3> QED
      BY <3>1, <3>2, SearchIs DEF Shows, P16!Search1!vars, P16!Search1!Try
  <2>5. CASE width = 16 /\ program = 2
    <3>1. P16!Search2!Try \/ UNCHANGED P16!Search2!vars
      BY <1>3, <2>5, Steps, SourcesAssumption, P16!Step2 DEF CInv, Inv16
    <3>2. /\ Shows(P16!L2!Candidates, P16!L2!Good, P16!L2!Tried, P16!L2!Reported)
          /\ Shows(P16!L2!Candidates, P16!L2!Good, P16!L2!Tried, P16!L2!Reported)'
      BY <1>1, <2>5, Shown16, ShownAgain
    <3> QED
      BY <3>1, <3>2, SearchIs DEF Shows, P16!Search2!vars, P16!Search2!Try
  <2>6. CASE width = 16 /\ program = 3
    <3>1. P16!Search3!Try \/ UNCHANGED P16!Search3!vars
      BY <1>3, <2>6, Steps, SourcesAssumption, P16!Step3 DEF CInv, Inv16
    <3>2. /\ Shows(P16!L3!Candidates, P16!L3!Good, P16!L3!Tried, P16!L3!Reported)
          /\ Shows(P16!L3!Candidates, P16!L3!Good, P16!L3!Tried, P16!L3!Reported)'
      BY <1>1, <2>6, Shown16, ShownAgain
    <3> QED
      BY <3>1, <3>2, SearchIs DEF Shows, P16!Search3!vars, P16!Search3!Try
  <2>7. CASE width = 6 /\ program = 1
    <3>1. P6!Search1!Try \/ UNCHANGED P6!Search1!vars
      BY <1>3, <2>7, Steps, SourcesAssumption, P6!Step1 DEF CInv, Inv6
    <3>2. /\ Shows(P6!L1!Candidates, P6!L1!Good, P6!L1!Tried, P6!L1!Reported)
          /\ Shows(P6!L1!Candidates, P6!L1!Good, P6!L1!Tried, P6!L1!Reported)'
      BY <1>1, <2>7, Shown6, ShownAgain
    <3> QED
      BY <3>1, <3>2, SearchIs DEF Shows, P6!Search1!vars, P6!Search1!Try
  <2>8. CASE width = 6 /\ program = 2
    <3>1. P6!Search2!Try \/ UNCHANGED P6!Search2!vars
      BY <1>3, <2>8, Steps, SourcesAssumption, P6!Step2 DEF CInv, Inv6
    <3>2. /\ Shows(P6!L2!Candidates, P6!L2!Good, P6!L2!Tried, P6!L2!Reported)
          /\ Shows(P6!L2!Candidates, P6!L2!Good, P6!L2!Tried, P6!L2!Reported)'
      BY <1>1, <2>8, Shown6, ShownAgain
    <3> QED
      BY <3>1, <3>2, SearchIs DEF Shows, P6!Search2!vars, P6!Search2!Try
  <2>9. CASE width = 6 /\ program = 3
    <3>1. P6!Search3!Try \/ UNCHANGED P6!Search3!vars
      BY <1>3, <2>9, Steps, SourcesAssumption, P6!Step3 DEF CInv, Inv6
    <3>2. /\ Shows(P6!L3!Candidates, P6!L3!Good, P6!L3!Tried, P6!L3!Reported)
          /\ Shows(P6!L3!Candidates, P6!L3!Good, P6!L3!Tried, P6!L3!Reported)'
      BY <1>1, <2>9, Shown6, ShownAgain
    <3> QED
      BY <3>1, <3>2, SearchIs DEF Shows, P6!Search3!vars, P6!Search3!Try
  <2> QED
    BY <1>1, <2>4, <2>5, <2>6, <2>7, <2>8, <2>9
<1> QED
  BY <1>2, <1>3

LEMMA NewSearches ==
  /\ (L2!Init => P16!Search2!Fresh)' /\ (L3!Init => P16!Search3!Fresh)'
  /\ (S2!Init => P6!Search2!Fresh)' /\ (S3!Init => P6!Search3!Fresh)'
<1>1. L2!Init => P16!Search2!Fresh
  BY Same16Layer2, SourcesAssumption, P16!Fresh2
<1>2. L3!Init => P16!Search3!Fresh
  BY Same16Layer3, SourcesAssumption, P16!Fresh3
<1>3. S2!Init => P6!Search2!Fresh
  BY Same6Layer2, SourcesAssumption, P6!Fresh2
<1>4. S3!Init => P6!Search3!Fresh
  BY Same6Layer3, SourcesAssumption, P6!Fresh3
<1> QED
  BY <1>1, <1>2, <1>3, <1>4, PTL

LEMMA SearchIsAgain ==
  (Search!Fresh <=> GoodOnes \subseteq 0 .. Count - 1 /\ Place = 0 /\ Out = {})'
<1>1. Search!Fresh <=> GoodOnes \subseteq 0 .. Count - 1 /\ Place = 0 /\ Out = {}
  BY SearchIs
<1> QED
  BY <1>1, PTL

\* When a program ends all its candidates have been tried, and the next one is another
\* search.
LEMMA SearchStart ==
  ASSUME CInv, Start
  PROVE  Search!AnotherSearch
<1>1. width' = width /\ program' = program + 1 /\ program \in 1 .. 2 /\ width \in {6, 16}
  BY Starts DEF CInv
<1>2. pc = "exit"
  BY DEF Start
<1>3. /\ P16!L1!Tried = P16!L1!Candidates /\ P16!L2!Tried = P16!L2!Candidates
      /\ P6!L1!Tried = P6!L1!Candidates /\ P6!L2!Tried = P6!L2!Candidates
  BY <1>2 DEF P16!L1!Tried, P16!L2!Tried, P6!L1!Tried, P6!L2!Tried
<1>4. Place = Count
  BY <1>1, <1>3, Shown16, Shown6 DEF Shows
<1>5. Search!Fresh'
  <2>1. CASE width = 16 /\ program = 1
    <3>1. P16!Search2!Fresh'
      BY <2>1, Starts, NewSearches
    <3>2. Shows(P16!L2!Candidates, P16!L2!Good, P16!L2!Tried, P16!L2!Reported)'
      BY <1>1, <2>1, ShownAgain
    <3> QED
      BY <3>1, <3>2, SearchIsAgain DEF Shows, P16!Search2!Fresh
  <2>2. CASE width = 16 /\ program = 2
    <3>1. P16!Search3!Fresh'
      BY <2>2, Starts, NewSearches
    <3>2. Shows(P16!L3!Candidates, P16!L3!Good, P16!L3!Tried, P16!L3!Reported)'
      BY <1>1, <2>2, ShownAgain
    <3> QED
      BY <3>1, <3>2, SearchIsAgain DEF Shows, P16!Search3!Fresh
  <2>3. CASE width = 6 /\ program = 1
    <3>1. P6!Search2!Fresh'
      BY <2>3, Starts, NewSearches
    <3>2. Shows(P6!L2!Candidates, P6!L2!Good, P6!L2!Tried, P6!L2!Reported)'
      BY <1>1, <2>3, ShownAgain
    <3> QED
      BY <3>1, <3>2, SearchIsAgain DEF Shows, P6!Search2!Fresh
  <2>4. CASE width = 6 /\ program = 2
    <3>1. P6!Search3!Fresh'
      BY <2>4, Starts, NewSearches
    <3>2. Shows(P6!L3!Candidates, P6!L3!Good, P6!L3!Tried, P6!L3!Reported)'
      BY <1>1, <2>4, ShownAgain
    <3> QED
      BY <3>1, <3>2, SearchIsAgain DEF Shows, P6!Search3!Fresh
  <2> QED
    BY <1>1, <2>1, <2>2, <2>3, <2>4
<1> QED
  BY <1>4, <1>5, SearchIs

LEMMA SearchInit ==
  ASSUME Init
  PROVE  Search!Fresh
<1>1. program = 1 /\ width \in {6, 16}
  BY DEF Init
<1>2. CASE width = 16
  <2>1. P16!Search1!Fresh
    BY <1>2, Same16Layer1, SourcesAssumption, P16!Fresh1 DEF Init
  <2>2. Shows(P16!L1!Candidates, P16!L1!Good, P16!L1!Tried, P16!L1!Reported)
    BY <1>1, <1>2, Shown16
  <2> QED
    BY <2>1, <2>2, SearchIs DEF Shows, P16!Search1!Fresh
<1>3. CASE width = 6
  <2>1. P6!Search1!Fresh
    BY <1>3, Same6Layer1, SourcesAssumption, P6!Fresh1 DEF Init
  <2>2. Shows(P6!L1!Candidates, P6!L1!Good, P6!L1!Tried, P6!L1!Reported)
    BY <1>1, <1>3, Shown6
  <2> QED
    BY <2>1, <2>2, SearchIs DEF Shows, P6!Search1!Fresh
<1> QED
  BY <1>1, <1>2, <1>3

\* The three programs implement the search of module KeySearch, one after the other: no
\* candidate is left out, none is judged on what another one has left, and what is
\* printed is the solutions of the equations among those that have been tried.
THEOREM PrintsOnlyTheKeys ==
  ASSUME P16!IsXor(P16!Word)
  PROVE  Spec => Search!Promise
<1>1. CInv /\ [Next]_vars => [Search!Next]_Search!vars
  BY SearchRun, SearchStart DEF Next, Search!Next
<1>2. Init => Search!Fresh
  BY SearchInit
<1> QED
  BY <1>1, <1>2, SpecCInv, PTL DEF Spec, Search!Promise

-----------------------------------------------------------------------------
(***************************************************************************)
(* What has been copied by hand.                                           *)
(***************************************************************************)

\* What has been printed is the solutions among the candidates tried.
Honest ==
  /\ Place \in Nat /\ GoodOnes \subseteq 0 .. Count - 1
  /\ Out = GoodOnes \intersect (0 .. Place - 1)

LEMMA FreshHonest == Search!Fresh => Honest
<1> SUFFICES ASSUME Search!Fresh PROVE Honest
  OBVIOUS
<1>1. GoodOnes \subseteq 0 .. Count - 1 /\ Place = 0 /\ Out = {}
  BY SearchIs
<1>2. 0 .. 0 - 1 = {} /\ 0 \in Nat
  OBVIOUS
<1> QED
  BY <1>1, <1>2 DEF Honest

LEMMA SpecHonest ==
  ASSUME P16!IsXor(P16!Word)
  PROVE  Spec => []Honest
<1>1. Honest /\ [Search!Next]_Search!vars => Honest'
  <2> SUFFICES ASSUME Honest, [Search!Next]_Search!vars PROVE Honest'
    OBVIOUS
  <2>1. CASE Search!Try
    <3>1. /\ Place \in Nat /\ Place' = Place + 1
          /\ Out' = Out \union ({Place} \intersect GoodOnes)
          /\ Count' = Count /\ GoodOnes' = GoodOnes
      BY <2>1, SearchIs DEF Honest
    <3>2. 0 .. Place' - 1 = (0 .. Place - 1) \union {Place} /\ Place' \in Nat
      BY <3>1
    <3> QED
      BY <3>1, <3>2 DEF Honest
  <2>2. CASE Search!AnotherSearch
    <3>1. (Search!Fresh => Honest)'
      BY FreshHonest, PTL
    <3> QED
      BY <2>2, <3>1, SearchIs
  <2>3. CASE UNCHANGED Search!vars
    BY <2>3, SearchIs DEF Honest
  <2> QED
    BY <2>1, <2>2, <2>3 DEF Search!Next
<1> QED
  BY <1>1, FreshHonest, PrintsOnlyTheKeys, PTL DEF Search!Promise

\* A program of the sources that has ended has printed its key.
LEMMA PrintedAtExit ==
  ASSUME CInv, Honest, width = 16, pc = "exit"
  PROVE  /\ program = 1 => printed = {Window(0)}
         /\ program = 2 => printed = {Window(1)[2]}
         /\ program = 3 => printed = {Window(2)[2]}
<1>1. ASSUME Place = Count PROVE Out = GoodOnes
  <2>1. GoodOnes \subseteq 0 .. Count - 1 /\ Out = GoodOnes \intersect (0 .. Count - 1)
    BY <1>1 DEF Honest
  <2> QED
    BY <2>1
<1>2. CASE program = 1
  <2>1. P16!L1!Reported = P16!L1!Good
    <3>1. P16!L1!Tried = P16!L1!Candidates
      BY DEF P16!L1!Tried
    <3> QED
      BY <1>1, <1>2, <3>1, Shown16 DEF Shows
  <2> DEFINE First == <<Window(0)[1] - Near, Window(0)[2] - Near>>
             Last == <<Window(0)[1] + Near, Window(0)[2] + Near>>
  <2>2. printed \subseteq (First[1] .. Last[1]) \X (First[2] .. Last[2])
    BY <1>2 DEF CInv, Inv16, P16!Inv1
  <2>3. \A c \in First[1] .. Last[1], d \in First[2] .. Last[2] :
          P16!L1!Number(<<c, d>>) = P16!L1!Number(P16!L1!TheKey) <=> <<c, d>> = P16!L1!TheKey
    BY P16!Numbers1, SourcesAssumption
  <2>4. {P16!L1!Number(k) : k \in printed} = {P16!L1!Number(P16!L1!TheKey)}
    BY <2>1 DEF P16!L1!Reported, P16!L1!Good
  <2>5. \A k \in printed : k = P16!L1!TheKey
    <3> HIDE DEF First, Last
    <3> TAKE k \in printed
    <3>1. PICK c \in First[1] .. Last[1], d \in First[2] .. Last[2] : k = <<c, d>>
      BY <2>2
    <3>2. P16!L1!Number(k) = P16!L1!Number(P16!L1!TheKey)
      BY <2>4
    <3> QED
      BY <2>3, <3>1, <3>2
  <2>6. printed # {}
    BY <2>4
  <2> QED
    BY <1>2, <2>5, <2>6, Same16Layer1, KeysAssumption
<1>3. CASE program = 2
  <2>1. P16!L2!Reported = P16!L2!Good
    <3>1. P16!L2!Tried = P16!L2!Candidates
      BY DEF P16!L2!Tried
    <3> QED
      BY <1>1, <1>3, <3>1, Shown16 DEF Shows
  <2> DEFINE first == Window(1)[2] - Near
             right == P16!L2!TheKey(blob)
  <2>2. /\ printed \subseteq first .. Window(1)[2] + Near /\ blob = Blob
    BY <1>3 DEF CInv, Inv16, P16!Inv2, P16!L2!TypeOK
  <2>3. first \in Int /\ right \in Int /\ right = Window(1)[2]
    <3>1. right = Window(1)[2]
      BY <2>2, KeysAssumption, Same16Layer2
    <3>2. Window(1)[2] = \hf63d
      BY DEF Window, KEY
    <3>3. first \in P16!Word
      BY SourcesAssumption DEF P16!Layer2OK
    <3> QED
      BY <3>1, <3>2, <3>3, SourcesAssumption, P16!WrapOf
  <2>4. {k - first : k \in printed} = {right - first}
    BY <2>1 DEF P16!L2!Reported, P16!L2!Good
  <2> HIDE DEF first, right
  <2>5. \A k \in printed : k \in Int /\ k = right
    <3> TAKE k \in printed
    <3>1. k \in Int /\ k - first = right - first
      BY <2>2, <2>4
    <3> QED
      BY <2>3, <3>1
  <2>6. printed # {}
    BY <2>4
  <2> QED
    BY <1>3, <2>3, <2>5, <2>6
<1>4. CASE program = 3
  <2>1. P16!L3!Reported = P16!L3!Good
    <3>1. P16!L3!Tried = P16!L3!Candidates
      BY DEF P16!L3!Tried
    <3> QED
      BY <1>1, <1>4, <3>1, Shown16 DEF Shows
  <2> DEFINE first == Window(2)[2] - Near
             right == Window(2)[2]
  <2>2. /\ printed \subseteq first .. Window(2)[2] + Near /\ blob = Blah
    BY <1>4 DEF CInv, Inv16, P16!Inv3, P16!L3!TypeOK
  <2>3. first \in Int /\ right \in Int /\ P16!L3!TheKeys(blob) = {right}
    <3>1. P16!L3!TheKeys(blob) = {right}
      BY <2>2, KeysAssumption, Same16Layer3
    <3>2. right = \h8937
      BY DEF Window, KEY
    <3>3. first \in P16!Word
      BY SourcesAssumption DEF P16!Layer3OK
    <3> QED
      BY <3>1, <3>2, <3>3, SourcesAssumption, P16!WrapOf
  <2>4. {k - first : k \in printed} = {right - first}
    BY <2>1, <2>3 DEF P16!L3!Reported, P16!L3!Good
  <2> HIDE DEF first, right
  <2>5. \A k \in printed : k \in Int /\ k = right
    <3> TAKE k \in printed
    <3>1. k \in Int /\ k - first = right - first
      BY <2>2, <2>4
    <3> QED
      BY <2>3, <3>1
  <2>6. printed # {}
    BY <2>4
  <2> QED
    BY <1>4, <2>5, <2>6 DEF right
<1> QED
  BY <1>2, <1>3, <1>4

LEMMA AppendIs ==
  ASSUME NEW S, NEW s \in Seq(S), NEW e \in S
  PROVE  /\ Append(s, e) \in Seq(S) /\ Len(Append(s, e)) = Len(s) + 1 /\ Len(s) \in Nat
         /\ \A n \in 1 .. Len(s) : Append(s, e)[n] = s[n]
         /\ Append(s, e)[Len(s) + 1] = e
  OBVIOUS

\* The keys that the programs before have printed.
FoundOK ==
  width = 16 =>
    /\ found \in Seq({{Window(0)}, {Window(1)[2]}}) /\ Len(found) = program - 1
    /\ program > 1 => found[1] = {Window(0)}
    /\ program > 2 => found[2] = {Window(1)[2]}

LEMMA FoundStays == ASSUME CInv, Honest, FoundOK, [Next]_vars PROVE FoundOK'
<1>1. CASE Run
  BY <1>1, Steps DEF FoundOK
<1>2. CASE Start
  <2>1. /\ width' = width /\ program' = program + 1 /\ program \in 1 .. 2
        /\ pc = "exit" /\ found' = Append(found, printed)
    BY <1>2, Starts DEF Start
  <2>2. CASE width = 16 /\ program = 1
    <3>1. printed = {Window(0)}
      BY <2>1, <2>2, PrintedAtExit
    <3>2. found \in Seq({{Window(0)}, {Window(1)[2]}}) /\ Len(found) = 0
      BY <2>2 DEF FoundOK
    <3>3. /\ found' \in Seq({{Window(0)}, {Window(1)[2]}}) /\ Len(found') = 1
          /\ found'[1] = {Window(0)}
      BY <2>1, <3>1, <3>2, AppendIs
    <3> QED
      BY <2>1, <2>2, <3>3 DEF FoundOK
  <2>3. CASE width = 16 /\ program = 2
    <3>1. printed = {Window(1)[2]}
      BY <2>1, <2>3, PrintedAtExit
    <3>2. /\ found \in Seq({{Window(0)}, {Window(1)[2]}}) /\ Len(found) = 1
          /\ found[1] = {Window(0)}
      BY <2>3 DEF FoundOK
    <3>3. /\ found' \in Seq({{Window(0)}, {Window(1)[2]}}) /\ Len(found') = 2
          /\ found'[1] = {Window(0)} /\ found'[2] = {Window(1)[2]}
      BY <2>1, <3>1, <3>2, AppendIs
    <3> QED
      BY <2>1, <2>3, <3>3 DEF FoundOK
  <2> QED
    BY <2>1, <2>2, <2>3 DEF FoundOK
<1>3. CASE UNCHANGED vars
  BY <1>3 DEF FoundOK, vars
<1> QED
  BY <1>1, <1>2, <1>3 DEF Next

\* What was copied by hand from one program to the next, and into extract.c and
\* test_key.c, is what the programs print, all of it and nothing else.
THEOREM SpecCopied ==
  ASSUME P16!IsXor(P16!Word)
  PROVE  Spec => []Copied
<1>1. Init => FoundOK
  BY DEF Init, FoundOK
<1>2. CInv /\ Honest /\ FoundOK => Copied
  <2> SUFFICES ASSUME CInv, Honest, FoundOK, width = 16 PROVE Copied
    BY DEF Copied
  <2>1. /\ program \in 1 .. 3 /\ Len(found) = program - 1
        /\ program > 1 => found[1] = {Window(0)}
        /\ program > 2 => found[2] = {Window(1)[2]}
    BY DEF FoundOK, CInv
  <2>2. Len(found) >= 1 => found[1] = {Window(0)} /\ Lo2 = Window(0)[2]
    BY <2>1, KeysAssumption
  <2>3. Len(found) >= 2 => found[2] = {Window(1)[2]} /\ Lo3 = Window(1)[2]
    BY <2>1, KeysAssumption
  <2>4. program = 3 /\ pc = "exit" => printed = {Window(2)[2]}
    BY PrintedAtExit
  <2> QED
    BY <2>2, <2>3, <2>4 DEF Copied
<1>3. CInv /\ Honest /\ FoundOK /\ [Next]_vars => FoundOK'
  BY FoundStays
<1> QED
  BY <1>1, <1>2, <1>3, SpecCInv, SpecHonest, PTL DEF Spec

-----------------------------------------------------------------------------
(***************************************************************************)
(* The registers that one program leaves to the next.                      *)
(***************************************************************************)

LEMMA Ints16 == \A w \in P16!Word : w \in Int
  BY SourcesAssumption, P16!WrapOf

RegistersOK == width = 16 => r6 \in Int /\ r8 \in Int /\ r11 \in Int /\ r12 \in Int

LEMMA Typed16 ==
  /\ (CInv /\ width = 16 /\ program = 1 => P16!L1!TypeOK)'
  /\ (CInv /\ width = 16 /\ program = 2 => P16!L2!TypeOK)'
<1>1. CInv /\ width = 16 /\ program = 1 => P16!Inv1
  BY DEF CInv, Inv16
<1>2. CInv /\ width = 16 /\ program = 2 => P16!Inv2
  BY DEF CInv, Inv16
<1>3. P16!Inv1 => P16!L1!TypeOK
  BY P16!Safe1
<1>4. P16!Inv2 => P16!L2!TypeOK
  BY P16!Safe2, SourcesAssumption
<1> QED
  BY <1>1, <1>2, <1>3, <1>4, PTL

LEMMA RegistersStay ==
  ASSUME P16!IsXor(P16!Word), CInv, RegistersOK, [Next]_vars
  PROVE  RegistersOK'
<1>1. CInv'
  BY RunCInv, StartCInv, StutterCInv DEF Next
<1>2. CASE Run
  <2>1. /\ width' = width /\ program' = program /\ program \in 1 .. 3
        /\ program = 1 => UNCHANGED Others1
        /\ program = 2 => UNCHANGED Others2
        /\ program = 3 => UNCHANGED Others3
    BY <1>2, Steps DEF CInv
  <2>2. SUFFICES ASSUME width = 16
                 PROVE  r6' \in Int /\ r8' \in Int /\ r11' \in Int /\ r12' \in Int
    BY <2>1 DEF RegistersOK
  <2>3. CASE program = 1
    <3>1. P16!L1!TypeOK'
      BY <1>1, <2>1, <2>2, <2>3, Typed16
    <3>2. r6' \in Int /\ r8' \in Int /\ r12' \in Int
      BY <3>1, P16!Words1, Ints16 DEF P16!L1!TypeOK
    <3> QED
      BY <2>1, <2>2, <2>3, <3>2 DEF Others1, RegistersOK
  <2>4. CASE program = 2
    <3>1. P16!L2!TypeOK'
      BY <1>1, <2>1, <2>2, <2>4, Typed16
    <3>2. r8' \in Int /\ r11' \in Int
      BY <3>1, P16!Words2, Ints16 DEF P16!L2!TypeOK
    <3> QED
      BY <2>1, <2>2, <2>4, <3>2 DEF Others2, RegistersOK
  <2>5. CASE program = 3
    BY <2>1, <2>2, <2>5 DEF Others3, RegistersOK
  <2> QED
    BY <2>1, <2>3, <2>4, <2>5
<1>3. CASE Start
  BY <1>3 DEF Start, RegistersOK
<1>4. CASE UNCHANGED vars
  BY <1>4 DEF RegistersOK, vars, own
<1> QED
  BY <1>2, <1>3, <1>4 DEF Next

\* The words of the sources that the next two lemmas are about.
LEMMA EntryWords ==
  /\ Window(0)[1] = Entry2.r12 /\ Entry2.r6 = \h6b14
  /\ Entry3.r8 = \h14e /\ Entry3.r11 = \h9cc3 /\ Lo2 = \h94e3
  BY DEF Window, KEY, Entry2, Entry3, Lo2

\* bflayer1 prints a pair: it is the key, and f() has left the words of the first goal.
LEMMA Leaves1 ==
  ASSUME CInv, Run, width = 16, program = 1, printed' # printed
  PROVE  /\ printed' = printed \union {Window(0)}
         /\ r6 = Entry2.r6 /\ r12 = Entry2.r12
<1>1. P16!Inv1 /\ P16!L1!Next
  BY Steps DEF CInv, Inv16
<1>2. P16!L1!Report
  BY <1>1, P16!Prints1
<1>3. pc = "return" /\ ret = 1 /\ printed' = printed \union {<<k1, k2>>}
  BY <1>2 DEF P16!L1!Report
<1>4. r12 = k1 /\ <<k1, k2>> = P16!L1!TheKey /\ r6 = \h6b14
  BY <1>1, <1>3 DEF P16!Inv1
<1>5. <<k1, k2>> = Window(0)
  BY <1>4, Same16Layer1, KeysAssumption
<1>6. k1 = Window(0)[1]
  BY <1>5
<1> QED
  BY <1>3, <1>4, <1>5, <1>6, EntryWords

\* bflayer2 prints a word: it is the key, and f() has left r8 on the last word of the
\* block and r11 where 0x40 rounds have moved it.
LEMMA Leaves2 ==
  ASSUME CInv, Run, width = 16, program = 2, printed' # printed
  PROVE  /\ printed' = printed \union {Window(1)[2]}
         /\ r8 = Entry3.r8 /\ r11 = Entry3.r11
<1>1. P16!Inv2 /\ P16!L2!Next
  BY Steps DEF CInv, Inv16
<1>2. P16!L2!Report
  BY <1>1, P16!Prints2
<1>3. pc = "return" /\ ret = 1 /\ printed' = printed \union {k2}
  BY <1>2 DEF P16!L2!Report
<1>4. P16!Judged2 /\ P16!L2!TypeOK
  BY <1>1, <1>3 DEF P16!Inv2
<1>5. k2 = P16!L2!TheKey(blob) /\ blob = Blob
  BY <1>3, <1>4 DEF P16!Judged2, P16!L2!TypeOK
<1>6. k2 = Window(1)[2]
  BY <1>5, Same16Layer2, KeysAssumption
<1>7. r8 = \h14e
  BY <1>4 DEF P16!Judged2, P16!L2!LastSlot
<1>8. r11 = \h9cc3
  <2>1. P16!L2!Moved(\h40) = 2016
    BY DEF P16!L2!Moved
  <2>2. P16!WordBase = 65536
    BY SourcesAssumption DEF P16!WordBase, P16!Half
  <2>3. r11 = (Lo2 + 2016) % 65536
    BY <1>4, <2>1, <2>2 DEF P16!Judged2, P16!Wrap
  <2> QED
    BY <2>3, EntryWords
<1> QED
  BY <1>3, <1>6, <1>7, <1>8, EntryWords

Leftover == [r6 : Int, r8 : Int, r11 : Int, r12 : Int]
FromLayer1(regs) == regs.r6 = Entry2.r6 /\ regs.r12 = Entry2.r12
FromLayer2(regs) == regs.r8 = Entry3.r8 /\ regs.r11 = Entry3.r11

\* As many lists of registers as programs have printed their key, each one from its own.
LeftOK ==
  /\ width = 6 => left = <<>>
  /\ width = 16 =>
       /\ left \in Seq(Leftover)
       /\ program = 1 => \/ printed = {} /\ Len(left) = 0
                         \/ /\ printed = {Window(0)} /\ Len(left) = 1
                            /\ FromLayer1(left[1])
       /\ program = 2 => /\ FromLayer1(left[1])
                         /\ \/ printed = {} /\ Len(left) = 1
                            \/ /\ printed = {Window(1)[2]} /\ Len(left) = 2
                               /\ FromLayer2(left[2])
       /\ program = 3 => Len(left) >= 2 /\ FromLayer1(left[1]) /\ FromLayer2(left[2])

LEMMA LeftRun ==
  ASSUME CInv, RegistersOK, LeftOK, Run
  PROVE  LeftOK'
<1> DEFINE regs == [r6 |-> r6, r8 |-> r8, r11 |-> r11, r12 |-> r12]
<1>1. width' = width /\ program' = program /\ width \in {6, 16} /\ program \in 1 .. 3
  BY Steps DEF CInv
<1>2. CASE width = 6
  <2>1. width # 16
    BY <1>2
  <2>2. left' = left
    BY <2>1 DEF Run
  <2> QED
    BY <1>1, <1>2, <2>1, <2>2 DEF LeftOK
<1>3. CASE width = 16
  <2>1. left' = IF printed' # printed THEN Append(left, regs) ELSE left
    BY <1>3 DEF Run, Keep
  <2>2. left \in Seq(Leftover) /\ regs \in Leftover
    BY <1>3 DEF LeftOK, RegistersOK, Leftover
  <2>3. CASE printed' = printed
    BY <1>1, <1>3, <2>1, <2>3 DEF LeftOK
  <2>4. CASE printed' # printed
    <3> HIDE DEF regs
    <3>1. left' = Append(left, regs)
      BY <2>1, <2>4
    <3>2. /\ left' \in Seq(Leftover) /\ Len(left') = Len(left) + 1 /\ Len(left) \in Nat
          /\ \A n \in 1 .. Len(left) : left'[n] = left[n]
          /\ left'[Len(left) + 1] = regs
      BY <2>2, <3>1, AppendIs
    <3>3. CASE program = 1
      <4>1. printed' = printed \union {Window(0)} /\ FromLayer1(regs)
        BY <1>3, <2>4, <3>3, Leaves1 DEF FromLayer1, regs
      <4>2. printed = {} /\ Len(left) = 0
        BY <1>3, <2>4, <3>3, <4>1 DEF LeftOK
      <4> QED
        BY <1>1, <1>3, <3>2, <3>3, <4>1, <4>2 DEF LeftOK
    <3>4. CASE program = 2
      <4>1. printed' = printed \union {Window(1)[2]} /\ FromLayer2(regs)
        BY <1>3, <2>4, <3>4, Leaves2 DEF FromLayer2, regs
      <4>2. printed = {} /\ Len(left) = 1 /\ FromLayer1(left[1])
        BY <1>3, <2>4, <3>4, <4>1 DEF LeftOK
      <4> QED
        BY <1>1, <1>3, <3>2, <3>4, <4>1, <4>2 DEF LeftOK
    <3>5. CASE program = 3
      <4>1. Len(left) >= 2 /\ FromLayer1(left[1]) /\ FromLayer2(left[2])
        BY <1>3, <3>5 DEF LeftOK
      <4>2. left'[1] = left[1] /\ left'[2] = left[2] /\ Len(left') >= 2
        BY <3>2, <4>1
      <4> QED
        BY <1>1, <1>3, <3>2, <3>5, <4>1, <4>2 DEF LeftOK
    <3> QED
      BY <1>1, <3>3, <3>4, <3>5
  <2> QED
    BY <2>3, <2>4
<1> QED
  BY <1>1, <1>2, <1>3

LEMMA LeftStart ==
  ASSUME CInv, Honest, LeftOK, Start
  PROVE  LeftOK'
<1>1. /\ width' = width /\ program' = program + 1 /\ program \in 1 .. 2 /\ width \in {6, 16}
      /\ pc = "exit" /\ left' = left /\ printed' = {}
  BY Starts DEF Start, CInv
<1>2. CASE width = 6
  BY <1>1, <1>2 DEF LeftOK
<1>3. CASE width = 16 /\ program = 1
  <2>1. printed # {}
    BY <1>1, <1>3, PrintedAtExit
  <2> QED
    BY <1>1, <1>3, <2>1 DEF LeftOK
<1>4. CASE width = 16 /\ program = 2
  <2>1. printed # {}
    BY <1>1, <1>4, PrintedAtExit
  <2> QED
    BY <1>1, <1>4, <2>1 DEF LeftOK
<1> QED
  BY <1>1, <1>2, <1>3, <1>4

\* The registers that f() of bflayer2.c and of bflayer3.c starts with, copied from a run
\* of the machine, are those that the layer before leaves when its key is the right one.
THEOREM SpecHandedOver ==
  ASSUME P16!IsXor(P16!Word)
  PROVE  Spec => []HandedOver
<1>1. Init => RegistersOK /\ LeftOK
  <2> SUFFICES ASSUME Init PROVE RegistersOK /\ LeftOK
    OBVIOUS
  <2>1. /\ program = 1 /\ left = <<>> /\ r11 = 0
        /\ width = 16 => printed = {} /\ r6 = 0 /\ r8 = 0 /\ r12 = 0
    BY Same16Layer1 DEF Init, P16!L1!Init
  <2> QED
    BY <2>1 DEF RegistersOK, LeftOK
<1>2. CInv /\ RegistersOK /\ [Next]_vars => RegistersOK'
  BY RegistersStay
<1>3. CInv /\ Honest /\ RegistersOK /\ LeftOK /\ [Next]_vars => LeftOK'
  <2>1. UNCHANGED vars /\ LeftOK => LeftOK'
    BY DEF LeftOK, vars, own
  <2> QED
    BY <2>1, LeftRun, LeftStart DEF Next
<1>4. CInv /\ LeftOK => HandedOver
  <2> SUFFICES ASSUME CInv, LeftOK PROVE HandedOver
    OBVIOUS
  <2>1. CASE width = 6
    <3>1. Len(left) = 0
      BY <2>1 DEF LeftOK
    <3> QED
      BY <3>1 DEF HandedOver
  <2>2. CASE width = 16
    BY <2>2 DEF LeftOK, HandedOver, FromLayer1, FromLayer2, CInv
  <2> QED
    BY <2>1, <2>2 DEF CInv
<1> QED
  BY <1>1, <1>2, <1>3, <1>4, SpecCInv, SpecHonest, PTL DEF Spec
=============================================================================
