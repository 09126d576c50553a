---------------------------- MODULE BlocksProofs ----------------------------
(***************************************************************************)
(* For every number and size of blocks, every partition and every cipher   *)
(* of the kind of DoRc4: findblocks leaves its arrays by one candidate at  *)
(* most, and the blocks of a text are found in order, if each of them      *)
(* stands out behind those that come before it.                            *)
(*                                                                         *)
(* The first invariant says how much is in each buffer at each turn of the *)
(* loops. The second one says that the buffer holds the beginning of the   *)
(* secret, that the blocks found, and no other candidates, have no entropy *)
(* left, and that the right candidate is kept once it has been tried.      *)
(***************************************************************************)
EXTENDS Blocks, FiniteSetTheorems, WellFoundedInduction, TLAPS

-----------------------------------------------------------------------------
(***************************************************************************)
(* Entropies are numbers: the sum over all bytes is a recursive function   *)
(* of the set of those that have been counted, which exists for the sets   *)
(* of each size, or there would be a smallest size without it.             *)
(***************************************************************************)

LEMMA Smallest ==
  ASSUME NEW T, T \subseteq Nat, T # {}
  PROVE  \E x \in T : \A y \in T : x <= y
<1>1. PICK x \in T : \A y \in T : <<y, x>> \notin OpToRel(<, Nat)
  BY NatLessThanWellFounded, WFMin, Zenon
<1>2. \A y \in T : ~(y < x)
  BY <1>1 DEF OpToRel
<1> QED
  BY <1>2

Counted(bytes, v) == CLogC[Cardinality({j \in DOMAIN bytes : bytes[j] = v})]

\* Of a set of bytes, the sum, given those of the smaller ones.
SumFrom(sums, bytes, s) ==
  IF s = {} THEN 0 ELSE LET v == CHOOSE x \in s : TRUE IN sums[s \ {v}] + Counted(bytes, v)

Small(n) == {s \in SUBSET Byte : Cardinality(s) <= n}

LEMMA SmallerSet ==
  ASSUME NEW n \in Nat, NEW s \in Small(n), s # {}
  PROVE  LET v == CHOOSE x \in s : TRUE
         IN  v \in Byte /\ n - 1 \in Nat /\ s \ {v} \in Small(n - 1) /\ s \ {v} \in Small(n)
<1> DEFINE v == CHOOSE x \in s : TRUE
<1>1. v \in s /\ s \subseteq Byte /\ IsFiniteSet(s) /\ Cardinality(s) <= n
  BY BlocksAssumption, FS_Subset DEF Small
<1> HIDE DEF v
<1>2. /\ Cardinality(s) \in Nat /\ Cardinality(s \ {v}) \in Nat
      /\ Cardinality(s \ {v}) = Cardinality(s) - 1
  BY <1>1, FS_RemoveElement, FS_CardinalityType
<1>3. v \in Byte /\ n - 1 \in Nat /\ s \ {v} \in SUBSET Byte /\ Cardinality(s \ {v}) <= n - 1
  BY <1>1, <1>2
<1>4. v \in Byte /\ n - 1 \in Nat /\ s \ {v} \in Small(n - 1) /\ s \ {v} \in Small(n)
  BY <1>2, <1>3 DEF Small
<1> QED
  BY <1>4 DEF v

LEMMA SumsExist ==
  ASSUME NEW bytes
  PROVE  \E sums : sums = [s \in SUBSET Byte |-> SumFrom(sums, bytes, s)]
<1> DEFINE Part(n, sums) == sums = [s \in Small(n) |-> SumFrom(sums, bytes, s)]
           T == {n \in Nat : \A sums : ~Part(n, sums)}
<1>1. T = {}
  <2> SUFFICES ASSUME T # {} PROVE FALSE
    OBVIOUS
  <2>1. PICK n \in T : \A m \in T : n <= m
    <3>1. T \subseteq Nat
      OBVIOUS
    <3> HIDE DEF T
    <3> QED
      BY <3>1, Smallest
  <2>2. n \in Nat
    OBVIOUS
  <2>3. CASE n = 0
    <3> DEFINE g == [s \in Small(0) |-> 0]
    <3>1. \A s \in Small(0) : s = {}
      <4> SUFFICES ASSUME NEW s \in Small(0), s # {} PROVE FALSE
        OBVIOUS
      <4>1. 0 - 1 \in Nat
        BY SmallerSet
      <4> QED
        BY <4>1
    <3>2. g = [s \in Small(0) |-> SumFrom(g, bytes, s)]
      BY <3>1 DEF SumFrom
    <3> QED
      BY <2>3, <3>2
  <2>4. CASE n # 0
    <3>1. n - 1 \in Nat /\ n - 1 \notin T
      BY <2>1, <2>2, <2>4
    <3>2. PICK g : g = [s \in Small(n - 1) |-> SumFrom(g, bytes, s)]
      BY <3>1
    <3> DEFINE h == [s \in Small(n) |-> SumFrom(g, bytes, s)]
    <3>3. ASSUME NEW s \in Small(n)
          PROVE  SumFrom(g, bytes, s) = SumFrom(h, bytes, s)
      <4>1. CASE s = {}
        BY <4>1 DEF SumFrom
      <4>2. CASE s # {}
        <5> DEFINE v == CHOOSE x \in s : TRUE
        <5>1. s \ {v} \in Small(n - 1) /\ s \ {v} \in Small(n)
          BY <2>2, <4>2, SmallerSet
        <5>2. h[s \ {v}] = g[s \ {v}]
          <6> HIDE DEF v
          <6> QED
            BY <3>2, <5>1
        <5>3. SumFrom(g, bytes, s) = g[s \ {v}] + Counted(bytes, v)
              /\ SumFrom(h, bytes, s) = h[s \ {v}] + Counted(bytes, v)
          <6> HIDE DEF h
          <6> QED
            BY <4>2 DEF SumFrom
        <5> HIDE DEF h, v
        <5> QED
          BY <5>2, <5>3
      <4> QED
        BY <4>1, <4>2
    <3>4. h = [s \in Small(n) |-> SumFrom(h, bytes, s)]
      BY <3>3
    <3> QED
      BY <2>1, <3>4
  <2> QED
    BY <2>3, <2>4
<1>2. Cardinality(Byte) \in Nat /\ Small(Cardinality(Byte)) = SUBSET Byte
  BY BlocksAssumption, FS_CardinalityType, FS_Subset DEF Small
<1>3. PICK sums : Part(Cardinality(Byte), sums)
  BY <1>1, <1>2
<1> QED
  BY <1>2, <1>3

LEMMA SumIsInt ==
  ASSUME NEW bytes, \A v \in Byte : Counted(bytes, v) \in Int,
         NEW sums, sums = [s \in SUBSET Byte |-> SumFrom(sums, bytes, s)]
  PROVE  sums[Byte] \in Int
<1> DEFINE T == {n \in Nat : \E s \in Small(n) : sums[s] \notin Int}
<1>1. T = {}
  <2> SUFFICES ASSUME T # {} PROVE FALSE
    OBVIOUS
  <2>1. PICK n \in T : \A m \in T : n <= m
    <3>1. T \subseteq Nat
      OBVIOUS
    <3> HIDE DEF T
    <3> QED
      BY <3>1, Smallest
  <2>2. PICK s \in Small(n) : sums[s] \notin Int
    BY <2>1
  <2>3. n \in Nat /\ sums[s] = SumFrom(sums, bytes, s)
    BY <2>2 DEF Small
  <2>4. s # {}
    BY <2>2, <2>3 DEF SumFrom
  <2> DEFINE v == CHOOSE x \in s : TRUE
  <2>5. v \in Byte /\ n - 1 \in Nat /\ s \ {v} \in Small(n - 1)
    BY <2>2, <2>3, <2>4, SmallerSet
  <2>6. sums[s] = sums[s \ {v}] + Counted(bytes, v)
    BY <2>3, <2>4 DEF SumFrom
  <2> HIDE DEF v
  <2>7. sums[s \ {v}] \notin Int
    BY <2>2, <2>5, <2>6
  <2>8. n - 1 \in T
    BY <2>5, <2>7
  <2> HIDE DEF T
  <2> QED
    BY <2>1, <2>3, <2>8
<1>2. Cardinality(Byte) \in Nat /\ Byte \in Small(Cardinality(Byte))
  BY BlocksAssumption, FS_CardinalityType DEF Small
<1> QED
  BY <1>1, <1>2

LEMMA EntropyIsInt ==
  ASSUME NEW bytes \in [1 .. BlockSize -> Byte]
  PROVE  Entropy(bytes) \in Int
<1>1. ASSUME NEW v \in Byte
      PROVE  Counted(bytes, v) \in Int
  <2> DEFINE at == {j \in DOMAIN bytes : bytes[j] = v}
  <2>1. at \in SUBSET (1 .. BlockSize) /\ BlockSize \in Nat
    BY BlocksAssumption
  <2> HIDE DEF at
  <2>2. IsFiniteSet(1 .. BlockSize) /\ Cardinality(1 .. BlockSize) = BlockSize
    BY <2>1, BlocksAssumption, FS_Interval
  <2>3. IsFiniteSet(at) /\ Cardinality(at) <= Cardinality(1 .. BlockSize)
    BY <2>1, <2>2, FS_Subset
  <2>4. Cardinality(at) \in 0 .. BlockSize
    BY <2>1, <2>2, <2>3, FS_CardinalityType
  <2>5. CLogC[Cardinality(at)] \in Int
    BY <2>4, BlocksAssumption
  <2> QED
    BY <2>5 DEF at, Counted
<1> DEFINE sums == CHOOSE sums : sums = [s \in SUBSET Byte |-> SumFrom(sums, bytes, s)]
<1>2. sums = [s \in SUBSET Byte |-> SumFrom(sums, bytes, s)]
  BY SumsExist
<1>3. Entropy(bytes) = CLogC[Len(bytes)] - sums[Byte]
  BY DEF Entropy, FoldSet, MapThenFoldSet, SumFrom, Counted
<1> HIDE DEF sums
<1>4. sums[Byte] \in Int
  BY <1>1, <1>2, SumIsInt
<1>5. Len(bytes) = BlockSize /\ CLogC[BlockSize] \in Int
  BY BlocksAssumption
<1> QED
  BY <1>3, <1>4, <1>5

-----------------------------------------------------------------------------
(***************************************************************************)
(* Bytes stay bytes.                                                       *)
(***************************************************************************)

\* A block of the partition.
Block == [1 .. BlockSize -> Byte]

LEMMA Sizes ==
  /\ BlockSize \in Nat /\ BlockSize > 0 /\ Md5Len \in Nat /\ Md5Len > 0 /\ Md5Len < BlockSize
  /\ BlockCount \in Nat /\ BlockCount > 0 /\ MaxCandidates \in Nat
  /\ Direct \in Nat /\ Direct > 0 /\ Direct < BlockCount /\ Threshold \in Nat
  BY BlocksAssumption

LEMMA Multiples ==
  ASSUME NEW n \in Nat, n < BlockCount
  PROVE  /\ n * BlockSize \in Nat /\ (n + 1) * BlockSize = n * BlockSize + BlockSize
         /\ (n + 1) * BlockSize <= BlockCount * BlockSize /\ (n + 1) * BlockSize \in Nat
         /\ BlockCount * BlockSize \in Nat
<1>1. PICK m \in Nat : BlockCount = n + 1 + m
  <2>1. BlockCount - n - 1 \in Nat /\ BlockCount = n + 1 + (BlockCount - n - 1)
    BY Sizes
  <2> QED
    BY <2>1
<1>2. BlockCount * BlockSize = n * BlockSize + BlockSize + m * BlockSize
  BY <1>1, Sizes
<1>3. n * BlockSize \in Nat /\ m * BlockSize \in Nat
  BY Sizes
<1>4. (n + 1) * BlockSize = n * BlockSize + BlockSize
  BY Sizes
<1> QED
  BY <1>2, <1>3, <1>4, Sizes

LEMMA FileSizes ==
  /\ SecretSize = (BlockCount - 1) * BlockSize + Md5Len
  /\ BlockCount * BlockSize = (BlockCount - 1) * BlockSize + BlockSize
  /\ (BlockCount - 1) * BlockSize \in Nat /\ BlockCount * BlockSize \in Nat /\ SecretSize \in Nat
  /\ SecretSize <= BlockCount * BlockSize /\ BlockSize <= BlockCount * BlockSize
<1>1. BlockCount - 1 \in Nat /\ BlockCount - 1 < BlockCount /\ BlockCount - 1 + 1 = BlockCount
  BY Sizes
<1>2. /\ (BlockCount - 1) * BlockSize \in Nat
      /\ (BlockCount - 1 + 1) * BlockSize = (BlockCount - 1) * BlockSize + BlockSize
  BY <1>1, Multiples
<1> QED
  BY <1>1, <1>2, Sizes DEF SecretSize

LEMMA PartOf ==
  ASSUME NEW s \in Seq(Byte), NEW m \in Nat, NEW n \in Nat, m <= n, n <= Len(s)
  PROVE  SubSeq(s, m + 1, n) \in Seq(Byte) /\ Len(SubSeq(s, m + 1, n)) = n - m
  OBVIOUS

LEMMA ConcatOf ==
  ASSUME NEW s \in Seq(Byte), NEW t \in Seq(Byte)
  PROVE  s \o t \in Seq(Byte) /\ Len(s \o t) = Len(s) + Len(t)
  OBVIOUS

LEMMA BlockIsSeq ==
  /\ \A b \in Block : b \in Seq(Byte) /\ Len(b) = BlockSize
  /\ \A s \in Seq(Byte) : Len(s) = BlockSize => s \in Block
<1>1. ASSUME NEW b \in Block
      PROVE  b \in Seq(Byte) /\ Len(b) = BlockSize
  BY Sizes DEF Block
<1>2. ASSUME NEW s \in Seq(Byte), Len(s) = BlockSize
      PROVE  s \in Block
  BY <1>2 DEF Block
<1> QED
  BY <1>1, <1>2

LEMMA ZerosAreBytes ==
  ASSUME NEW n \in Nat
  PROVE  Zeros(n) \in Seq(Byte) /\ Len(Zeros(n)) = n
  BY BlocksAssumption DEF Zeros

LEMMA Rc4Type ==
  ASSUME NEW src \in Seq(Byte), Len(src) <= BlockCount * BlockSize
  PROVE  DoRc4(src) \in Seq(Byte) /\ Len(DoRc4(src)) = Len(src)
<1>1. Len(src) \in Nat /\ BlockCount * BlockSize \in Nat
  BY FileSizes
<1>2. ASSUME NEW j \in 1 .. Len(src)
      PROVE  BitXor(IF j < Len(src) THEN BitXor(src[j], src[j + 1]) ELSE src[j], Stream[j]) \in Byte
  <2>1. src[j] \in Byte /\ j \in Nat
    OBVIOUS
  <2>2. j < Len(src) => BitXor(src[j], src[j + 1]) \in Byte
    <3> SUFFICES ASSUME j < Len(src) PROVE BitXor(src[j], src[j + 1]) \in Byte
      OBVIOUS
    <3>1. src[j + 1] \in Byte
      OBVIOUS
    <3> QED
      BY <2>1, <3>1, BlocksAssumption
  <2>3. Stream[j] \in Byte
    <3>1. j \in 1 .. BlockCount * BlockSize
      BY <1>1
    <3> QED
      BY <3>1, BlocksAssumption
  <2> QED
    BY <2>1, <2>2, <2>3, BlocksAssumption
<1> QED
  BY <1>1, <1>2 DEF DoRc4

LEMMA DecryptedType ==
  ASSUME NEW block \in Block, i \in Nat, i < BlockCount,
         bufIn \in Seq(Byte), Len(bufIn) = i * BlockSize
  PROVE  Decrypted(block) \in Block
<1> DEFINE plain == DoRc4(SkipMd5(bufIn \o block)) \o Zeros(Md5Len)
<1>1. /\ i * BlockSize \in Nat /\ (i + 1) * BlockSize = i * BlockSize + BlockSize
      /\ (i + 1) * BlockSize \in Nat /\ (i + 1) * BlockSize <= BlockCount * BlockSize
      /\ BlockCount * BlockSize \in Nat
  BY Multiples
<1>2. PICK n \in Nat : n = (i + 1) * BlockSize
  BY <1>1
<1>3. bufIn \o block \in Seq(Byte) /\ Len(bufIn \o block) = n
  <2>1. block \in Seq(Byte) /\ Len(block) = BlockSize
    BY BlockIsSeq
  <2> QED
    BY <1>1, <1>2, <2>1, ConcatOf
<1>4. SkipMd5(bufIn \o block) \in Seq(Byte) /\ Len(SkipMd5(bufIn \o block)) = n - Md5Len
  <2>1. Md5Len <= n
    BY <1>1, <1>2, Sizes
  <2> QED
    BY <1>3, <2>1, PartOf, Sizes DEF SkipMd5
<1>5. /\ DoRc4(SkipMd5(bufIn \o block)) \in Seq(Byte)
      /\ Len(DoRc4(SkipMd5(bufIn \o block))) = n - Md5Len
  <2>1. n - Md5Len <= BlockCount * BlockSize
    BY <1>1, <1>2, Sizes
  <2> QED
    BY <1>4, <2>1, Rc4Type
<1>6. plain \in Seq(Byte) /\ Len(plain) = n
  <2>1. n - Md5Len + Md5Len = n /\ Md5Len \in Nat
    BY Sizes
  <2>2. Zeros(Md5Len) \in Seq(Byte) /\ Len(Zeros(Md5Len)) = Md5Len
    BY <2>1, ZerosAreBytes
  <2> DEFINE head == DoRc4(SkipMd5(bufIn \o block))
             tail == Zeros(Md5Len)
  <2>3. head \in Seq(Byte) /\ tail \in Seq(Byte) /\ Len(head) = n - Md5Len /\ Len(tail) = Md5Len
    BY <1>5, <2>2
  <2> HIDE DEF head, tail
  <2>4. head \o tail \in Seq(Byte) /\ Len(head \o tail) = Len(head) + Len(tail)
    BY <2>3, ConcatOf
  <2> QED
    BY <2>1, <2>3, <2>4 DEF head, tail
<1>7. Decrypted(block) = SubSeq(plain, i * BlockSize + 1, n)
  BY <1>2 DEF Decrypted
<1> HIDE DEF plain
<1>8. Decrypted(block) \in Seq(Byte) /\ Len(Decrypted(block)) = BlockSize
  <2>1. PICK m \in Nat : m = i * BlockSize
    BY <1>1
  <2>2. m <= n /\ n - m = BlockSize
    BY <1>1, <1>2, <2>1, Sizes
  <2>3. SubSeq(plain, m + 1, n) \in Seq(Byte) /\ Len(SubSeq(plain, m + 1, n)) = n - m
    BY <1>6, <2>2, PartOf
  <2> QED
    BY <1>7, <2>1, <2>2, <2>3
<1> QED
  BY <1>8, BlockIsSeq

-----------------------------------------------------------------------------
(* The inductive invariant of the types.                                   *)

\* How many blocks extract has copied, or tried to, when it comes to block n.
Copied(n) == IF n > EXCLUDED THEN n - START - 1 ELSE n - START
Room(n) == IF n < BlockCount THEN n ELSE BlockCount

DiskOK ==
  /\ disk.blocks \in Seq(Block) /\ IsInjective(disk.where)
  /\ disk.where \in [1 .. BlockCount -> 1 .. Len(disk.blocks) - 1]

CandidatesOK ==
  /\ candidates \in Seq(1 .. Len(disk.blocks)) /\ left \in Seq(Nat)
  /\ Len(left) = Len(candidates)
  /\ Len(candidates) <= MaxCandidates + (IF stage = "end" THEN 1 ELSE 0)
  /\ candidates = <<>> \/ best \in 1 .. Len(candidates)
  /\ stage = "scan" => best = 1
  /\ k \in 0 .. Len(candidates) /\ drop \in Nat

BuffersOK ==
  /\ {bufIn, bufOut, output} \subseteq Seq(Byte)
  /\ Len(bufIn) <= BlockCount * BlockSize /\ Len(bufOut) = BlockCount * BlockSize

\* Where the counter is, and how far the blocks found and copied have got by then.
ScanOK == stage = "scan" => i \in 0 .. Len(disk.blocks) /\ found = <<>> /\ bufIn = <<>>
SearchOK ==
  stage = "search" =>
    /\ candidates # <<>>
    /\ i \in 0 .. BlockCount - 1 /\ Len(found) = i /\ Len(bufIn) = i * BlockSize
CopyOK ==
  stage = "copy" =>
    /\ Contiguous
    /\ i \in START .. END + 1 /\ Len(bufIn) = Room(Copied(i)) * BlockSize
DigestOK == stage = "digest" => Len(bufIn) = BlockCount * BlockSize

\* The inductive invariant of ArraysHold.
TInv ==
  /\ disk \in Disks /\ DiskOK
  /\ stage \in {"scan", "search", "copy", "digest", "end"}
  /\ i \in 0 .. Len(disk.blocks) + 1
  /\ found \in Seq(1 .. Len(disk.blocks)) /\ Len(found) <= BlockCount
  /\ CandidatesOK /\ BuffersOK /\ ScanOK /\ SearchOK /\ CopyOK /\ DigestOK

\* There are more blocks than those of the secret, as they all have places of their own.
LEMMA DiskIsLarge ==
  ASSUME DiskOK
  PROVE  /\ Len(disk.blocks) \in Nat /\ BlockCount < Len(disk.blocks)
         /\ START \in 1 .. Len(disk.blocks) - 1
<1>1. Len(disk.blocks) \in Nat /\ Len(disk.blocks) - 1 \in Int
  BY DEF DiskOK
<1>2. START \in 1 .. Len(disk.blocks) - 1
  BY Sizes DEF DiskOK, START
<1>3. \A n \in Nat : n > 0 => IsFiniteSet(1 .. n) /\ Cardinality(1 .. n) = n
  BY FS_Interval
<1>3b. /\ IsFiniteSet(1 .. BlockCount) /\ Cardinality(1 .. BlockCount) = BlockCount
       /\ IsFiniteSet(1 .. Len(disk.blocks) - 1)
       /\ Cardinality(1 .. Len(disk.blocks) - 1) = Len(disk.blocks) - 1
  <2>1. Len(disk.blocks) - 1 \in Nat /\ Len(disk.blocks) - 1 > 0
    BY <1>1, <1>2
  <2> QED
    BY <1>3, <2>1, Sizes
<1>4. ~(Len(disk.blocks) - 1 < BlockCount)
  <2> SUFFICES ASSUME Len(disk.blocks) - 1 < BlockCount PROVE FALSE
    OBVIOUS
  <2>1. \E m, n \in 1 .. BlockCount : m # n /\ disk.where[m] = disk.where[n]
    BY <1>3b, FS_PigeonHole DEF DiskOK
  <2> QED
    BY <2>1 DEF DiskOK, IsInjective
<1> QED
  BY <1>1, <1>2, <1>4, Sizes

LEMMA TypesFollow == TInv => TypeOK
<1> SUFFICES ASSUME TInv PROVE TypeOK
  OBVIOUS
<1> QED
  BY DEF TInv, CandidatesOK, BuffersOK, TypeOK

LEMMA TInvInit == Init => TInv
<1> SUFFICES ASSUME Init PROVE TInv
  OBVIOUS
<1>1. disk \in Disks /\ DiskOK
  BY BlocksAssumption DEF Init, DiskOK, Block
<1>2. Len(disk.blocks) \in Nat
  BY <1>1, DiskIsLarge
<1>3. BuffersOK
  BY FileSizes, ZerosAreBytes DEF Init, BuffersOK
<1>4. CandidatesOK
  BY <1>2, Sizes DEF Init, CandidatesOK
<1> QED
  BY <1>1, <1>2, <1>3, <1>4, Sizes DEF Init, TInv, ScanOK, SearchOK, CopyOK, DigestOK

LEMMA Appended ==
  ASSUME NEW S, NEW s \in Seq(S), NEW e \in S
  PROVE  Append(s, e) \in Seq(S) /\ Len(Append(s, e)) = Len(s) + 1 /\ Len(s) \in Nat
  OBVIOUS

LEMMA SameDisk ==
  ASSUME TInv, disk' = disk
  PROVE  disk' \in Disks /\ DiskOK'
  BY DEF TInv, DiskOK

LEMMA ScanTyped == ASSUME TInv, Scan PROVE TInv'
<1>1. /\ DiskOK /\ CandidatesOK /\ stage = "scan" /\ best = 1 /\ Len(candidates) <= MaxCandidates
      /\ i \in Nat /\ i < Len(disk.blocks) /\ Len(disk.blocks) \in Nat
      /\ Len(candidates) \in Nat
  <2>1. DiskOK /\ CandidatesOK /\ ScanOK /\ stage = "scan" /\ i < Len(disk.blocks)
    BY DEF TInv, Scan
  <2>2. Len(disk.blocks) \in Nat
    BY <2>1, DiskIsLarge
  <2> QED
    BY <2>1, <2>2, Sizes DEF CandidatesOK, ScanOK
<1>2. i + 1 \in 1 .. Len(disk.blocks)
  BY <1>1
<1> DEFINE e == Entropy(disk.blocks[i + 1])
<1>3. e \in Int
  BY <1>1, <1>2, EntropyIsInt DEF DiskOK, Block
<1> HIDE DEF e
<1>4. /\ candidates' \in Seq(1 .. Len(disk.blocks)) /\ left' \in Seq(Nat)
      /\ Len(left') = Len(candidates') /\ Len(candidates') \in Nat
      /\ Len(candidates') \in Len(candidates) .. Len(candidates) + 1
      /\ candidates' = <<>> \/ 1 <= Len(candidates')
  <2>1. candidates \in Seq(1 .. Len(disk.blocks)) /\ left \in Seq(Nat) /\ Len(left) = Len(candidates)
    BY <1>1 DEF CandidatesOK
  <2>2. CASE e > Threshold
    <3>1. candidates' = Append(candidates, i + 1) /\ left' = Append(left, e) /\ e \in Nat
      BY <1>3, <2>2, Sizes DEF Scan, e
    <3> QED
      BY <1>1, <1>2, <2>1, <3>1, Appended
  <2>3. CASE ~(e > Threshold)
    <3>1. candidates' = candidates /\ left' = left
      BY <2>3 DEF Scan, e
    <3> QED
      BY <1>1, <2>1, <3>1
  <2> QED
    BY <2>2, <2>3
<1>5. /\ i' = i + 1 /\ stage' = IF Len(candidates') > MaxCandidates THEN "end" ELSE "scan"
      /\ disk' = disk /\ k' = k /\ best' = best /\ drop' = drop /\ found' = found
      /\ bufIn' = bufIn /\ bufOut' = bufOut /\ output' = output
  BY DEF Scan
<1>6. CandidatesOK'
  <2>1. k \in 0 .. Len(candidates) /\ drop \in Nat
    BY <1>1 DEF CandidatesOK
  <2> QED
    BY <1>1, <1>4, <1>5, <2>1, Sizes DEF CandidatesOK
<1>7. disk' \in Disks /\ DiskOK'
  BY <1>5, SameDisk
<1>8. BuffersOK'
  BY <1>5 DEF TInv, BuffersOK
<1>9. found = <<>> /\ bufIn = <<>> /\ Len(found) = 0
  BY <1>1 DEF TInv, ScanOK
<1> QED
  BY <1>1, <1>5, <1>6, <1>7, <1>8, <1>9, Sizes DEF TInv, ScanOK, SearchOK, CopyOK, DigestOK

LEMMA SearchTyped == ASSUME TInv, Search PROVE TInv'
<1>1. /\ stage = "scan" /\ stage' = "search" /\ i' = 0 /\ k' = 0 /\ best' = 1 /\ drop' = 0
      /\ disk' = disk /\ candidates' = candidates /\ left' = left /\ found' = found
      /\ bufIn' = bufIn /\ bufOut' = bufOut /\ output' = output /\ candidates # <<>>
  BY DEF Search
<1>2. disk' \in Disks /\ DiskOK' /\ Len(disk.blocks) \in Nat
  BY <1>1, SameDisk, DiskIsLarge DEF TInv
<1>3. BuffersOK'
  BY <1>1 DEF TInv, BuffersOK
<1>4. CandidatesOK'
  BY <1>1 DEF TInv, CandidatesOK
<1>5. found = <<>> /\ bufIn = <<>>
  BY <1>1 DEF TInv, ScanOK
<1>6. SearchOK'
  <2>1. 0 \in 0 .. BlockCount - 1 /\ 0 * BlockSize = 0
    BY Sizes
  <2> QED
    BY <1>1, <1>5, <2>1 DEF SearchOK
<1> QED
  BY <1>1, <1>2, <1>3, <1>4, <1>5, <1>6, Sizes DEF TInv, ScanOK, CopyOK, DigestOK

LEMMA Searching ==
  ASSUME TInv, stage = "search"
  PROVE  /\ i \in Nat /\ i < BlockCount /\ bufIn \in Seq(Byte) /\ Len(bufIn) = i * BlockSize
         /\ Len(candidates) \in Nat /\ Len(candidates) >= 1
         /\ \A n \in 1 .. Len(candidates) :
              candidates[n] \in 1 .. Len(disk.blocks) /\ disk.blocks[candidates[n]] \in Block
<1>1. SearchOK /\ BuffersOK /\ CandidatesOK /\ DiskOK
  BY DEF TInv
<1>2. candidates \in Seq(1 .. Len(disk.blocks)) /\ candidates # <<>>
  BY <1>1 DEF CandidatesOK, SearchOK
<1>3. Len(candidates) \in Nat /\ Len(candidates) >= 1
  BY <1>2
<1>4. \A n \in 1 .. Len(candidates) : candidates[n] \in 1 .. Len(disk.blocks)
  BY <1>2
<1>5. \A n \in 1 .. Len(disk.blocks) : disk.blocks[n] \in Block
  BY <1>1 DEF DiskOK
<1> QED
  BY <1>1, <1>3, <1>4, <1>5, Sizes DEF SearchOK, BuffersOK

LEMMA JudgeTyped == ASSUME TInv, Judge PROVE TInv'
<1>1. stage = "search" /\ k \in Nat /\ k < Len(candidates) /\ CandidatesOK
  BY DEF TInv, Judge, CandidatesOK
<1>2. k + 1 \in 1 .. Len(candidates) /\ Len(candidates) \in Nat
  BY <1>1, Searching
<1> DEFINE fall == left[k + 1] - Entropy(Decrypted(disk.blocks[candidates[k + 1]]))
<1>3. fall \in Int
  <2>1. Decrypted(disk.blocks[candidates[k + 1]]) \in Block
    BY <1>1, <1>2, Searching, DecryptedType
  <2>2. Entropy(Decrypted(disk.blocks[candidates[k + 1]])) \in Int
    BY <2>1, EntropyIsInt DEF Block
  <2>3. left[k + 1] \in Nat
    BY <1>1, <1>2 DEF CandidatesOK
  <2> QED
    BY <2>2, <2>3
<1> HIDE DEF fall
<1>4. /\ disk' = disk /\ stage' = stage /\ i' = i /\ candidates' = candidates /\ left' = left
      /\ found' = found /\ bufIn' = bufIn /\ bufOut' = bufOut /\ output' = output /\ k' = k + 1
  BY DEF Judge
<1>5. best' \in 1 .. Len(candidates) /\ drop' \in Nat
  <2>1. drop \in Nat /\ best \in 1 .. Len(candidates)
    BY <1>1, <1>2 DEF CandidatesOK
  <2>2. \/ best' = k + 1 /\ drop' = fall /\ fall > drop
        \/ best' = best /\ drop' = drop
    BY DEF Judge, fall
  <2> QED
    BY <1>2, <1>3, <2>1, <2>2
<1>6. CandidatesOK'
  BY <1>1, <1>2, <1>4, <1>5 DEF CandidatesOK
<1>7. disk' \in Disks /\ DiskOK'
  BY <1>4, SameDisk
<1>8. BuffersOK'
  BY <1>4 DEF TInv, BuffersOK
<1>9. SearchOK'
  BY <1>1, <1>4 DEF TInv, SearchOK
<1> QED
  BY <1>1, <1>4, <1>6, <1>7, <1>8, <1>9 DEF TInv, ScanOK, CopyOK, DigestOK

LEMMA Emptied ==
  ASSUME NEW s \in Seq(Nat), NEW n
  PROVE  [s EXCEPT ![n] = 0] \in Seq(Nat) /\ Len([s EXCEPT ![n] = 0]) = Len(s)
<1>1. PICK m \in Nat : m = Len(s) /\ s \in [1 .. m -> Nat]
  OBVIOUS
<1>2. [s EXCEPT ![n] = 0] \in [1 .. m -> Nat]
  BY <1>1
<1>3. \A t \in [1 .. m -> Nat] : t \in Seq(Nat) /\ Len(t) = m
  BY <1>1
<1> QED
  BY <1>1, <1>2, <1>3

LEMMA TakeTyped == ASSUME TInv, Take PROVE TInv'
<1>1. stage = "search" /\ CandidatesOK /\ DiskOK /\ found \in Seq(1 .. Len(disk.blocks)) /\ Len(found) = i
  BY DEF TInv, Take, SearchOK
<1>2. best \in 1 .. Len(candidates) /\ Len(candidates) \in Nat /\ Len(candidates) >= 1
  BY <1>1, Searching DEF CandidatesOK
<1>3. candidates[best] \in 1 .. Len(disk.blocks) /\ disk.blocks[candidates[best]] \in Block
  BY <1>1, <1>2, Searching
<1>4. /\ disk' = disk /\ candidates' = candidates /\ bufOut' = bufOut /\ output' = output
      /\ found' = Append(found, candidates[best]) /\ left' = [left EXCEPT ![best] = 0]
      /\ best' = 1 /\ drop' = 0 /\ k' = 0
  BY DEF Take, Taken
<1>5. i \in Nat /\ i < BlockCount /\ bufIn \in Seq(Byte) /\ Len(bufIn) = i * BlockSize
  BY <1>1, Searching
<1>6. found' \in Seq(1 .. Len(disk.blocks)) /\ Len(found') = i + 1
  BY <1>1, <1>3, <1>4, Appended
<1>7. disk' \in Disks /\ DiskOK'
  BY <1>4, SameDisk
<1>8. left' \in Seq(Nat) /\ Len(left') = Len(candidates)
  <2>1. left \in Seq(Nat) /\ Len(left) = Len(candidates)
    BY <1>1 DEF CandidatesOK
  <2>2. [left EXCEPT ![best] = 0] \in Seq(Nat) /\ Len([left EXCEPT ![best] = 0]) = Len(left)
    BY <2>1, Emptied
  <2> QED
    BY <1>4, <2>1, <2>2
<1>9. stage' \in {"search", "copy", "end"}
  BY <1>1 DEF Take
<1>10. CandidatesOK'
  BY <1>1, <1>2, <1>4, <1>8, <1>9, Sizes DEF CandidatesOK
<1>11. Len(disk.blocks) \in Nat /\ BlockCount < Len(disk.blocks) /\ START \in 1 .. Len(disk.blocks) - 1
  BY <1>1, DiskIsLarge
<1>12. CASE i + 1 < BlockCount
  <2>1. i' = i + 1 /\ bufIn' = bufIn \o disk.blocks[candidates[best]] /\ stage' = "search"
    BY <1>1, <1>12 DEF Take
  <2>2. bufIn' \in Seq(Byte) /\ Len(bufIn') = i * BlockSize + BlockSize
    BY <1>3, <1>5, <2>1, BlockIsSeq, ConcatOf
  <2>3. Len(bufIn') = (i + 1) * BlockSize /\ Len(bufIn') <= BlockCount * BlockSize
    BY <1>5, <2>2, Multiples
  <2>4. BuffersOK'
    BY <1>4, <2>2, <2>3 DEF TInv, BuffersOK
  <2>5. SearchOK'
    <3>1. candidates # <<>> /\ i + 1 \in 0 .. BlockCount - 1
      BY <1>1, <1>5, <1>12, Sizes DEF TInv, SearchOK
    <3> QED
      BY <1>4, <1>6, <2>1, <2>3, <3>1 DEF SearchOK
  <2>6. i' \in 0 .. Len(disk.blocks) + 1 /\ i + 1 <= BlockCount
    BY <1>5, <1>11, <1>12, <2>1, Sizes
  <2>7. Len(found') <= BlockCount /\ found' \in Seq(1 .. Len(disk.blocks))'
    BY <1>4, <1>6, <2>6
  <2> QED
    BY <1>4, <1>7, <1>10, <2>1, <2>4, <2>5, <2>6, <2>7 DEF TInv, ScanOK, CopyOK, DigestOK
<1>13. CASE ~(i + 1 < BlockCount)
  <2>1. i' = START /\ bufIn' = <<>> /\ stage' = IF Contiguous THEN "copy" ELSE "end"
    BY <1>1, <1>13 DEF Take, START
  <2>2. BuffersOK'
    <3>1. <<>> \in Seq(Byte) /\ Len(<<>>) = 0
      OBVIOUS
    <3> QED
      BY <1>4, <2>1, <3>1, FileSizes DEF TInv, BuffersOK
  <2>3. CopyOK'
    <3> SUFFICES ASSUME stage' = "copy"
                 PROVE  /\ Contiguous'
                        /\ i' \in (START .. END + 1)' /\ Len(bufIn') = Room(Copied(i))' * BlockSize
      BY DEF CopyOK
    <3>1. Contiguous' /\ START' = START /\ END' = END
      BY <1>4, <2>1 DEF Contiguous, START, END
    <3>2. START \in START .. END + 1
      BY <1>11, Sizes DEF END
    <3>3. Room(Copied(i))' = 0
      <4>1. ~(START > START + Direct) /\ START - START = 0
        BY <1>11, Sizes
      <4>2. Copied(i)' = 0
        BY <2>1, <3>1, <4>1 DEF Copied, EXCLUDED
      <4> QED
        BY <4>2, Sizes DEF Room
    <3>4. Len(bufIn') = 0 /\ 0 * BlockSize = 0
      BY <2>1, Sizes
    <3> QED
      BY <2>1, <3>1, <3>2, <3>3, <3>4
  <2>4. i' \in 0 .. Len(disk.blocks) + 1 /\ i + 1 <= BlockCount
    BY <1>5, <1>11, <2>1, Sizes
  <2> QED
    BY <1>4, <1>6, <1>7, <1>10, <2>1, <2>2, <2>3, <2>4 DEF TInv, ScanOK, SearchOK, DigestOK
<1> QED
  BY <1>12, <1>13

\* While extract copies.
LEMMA Copying ==
  ASSUME TInv, stage = "copy"
  PROVE  /\ START \in Nat /\ i \in Nat /\ START <= i /\ i <= END + 1 /\ END = START + BlockCount + 1
         /\ END <= Len(disk.blocks) /\ Len(disk.blocks) \in Nat
<1>1. CopyOK /\ DiskOK
  BY DEF TInv
<1>2. Len(disk.blocks) \in Nat /\ START \in 1 .. Len(disk.blocks) - 1
  BY <1>1, DiskIsLarge
<1>3. disk.where[BlockCount] = START + BlockCount /\ disk.where[BlockCount] \in 1 .. Len(disk.blocks) - 1
  <2>1. BlockCount \in 1 .. BlockCount /\ ~(BlockCount <= Direct)
    BY Sizes
  <2>2. disk.where[BlockCount] = START + BlockCount - 0
    BY <1>1, <2>1 DEF CopyOK, Contiguous, START
  <2> QED
    BY <1>1, <1>2, <2>1, <2>2, Sizes DEF DiskOK
<1>4. i \in START .. END + 1
  BY <1>1 DEF CopyOK
<1> QED
  BY <1>2, <1>3, <1>4, Sizes DEF END

LEMMA CopyTyped == ASSUME TInv, Copy PROVE TInv'
<1>1. stage = "copy" /\ i <= END /\ BuffersOK /\ DiskOK /\ Contiguous
      /\ Len(bufIn) = Room(Copied(i)) * BlockSize
  BY DEF TInv, Copy, CopyOK
<1>2. /\ START \in Nat /\ i \in Nat /\ START <= i /\ END = START + BlockCount + 1
      /\ END <= Len(disk.blocks) /\ Len(disk.blocks) \in Nat
  BY <1>1, Copying
<1>3. /\ disk' = disk /\ stage' = stage /\ k' = k /\ candidates' = candidates /\ left' = left
      /\ best' = best /\ drop' = drop /\ found' = found /\ output' = output /\ i' = i + 1
  BY DEF Copy
<1>4. disk' \in Disks /\ DiskOK' /\ CandidatesOK' /\ Contiguous'
      /\ START' = START /\ END' = END /\ EXCLUDED' = EXCLUDED
  BY <1>1, <1>3, SameDisk DEF TInv, CandidatesOK, Contiguous, START, END, EXCLUDED
<1>5. disk.blocks[i] \in Seq(Byte) /\ Len(disk.blocks[i]) = BlockSize
  <2>1. i \in 1 .. Len(disk.blocks)
    BY <1>1, <1>2, DiskIsLarge
  <2> QED
    BY <1>1, <2>1, BlockIsSeq DEF DiskOK
<1>6. Copied(i) \in Nat /\ EXCLUDED \in Nat
      /\ Copied(i)' = IF i = EXCLUDED THEN Copied(i) ELSE Copied(i) + 1
  BY <1>2, <1>3, <1>4, Sizes DEF Copied, EXCLUDED
<1>7. /\ bufIn' \in Seq(Byte) /\ Len(bufIn') = Room(Copied(i))' * BlockSize
      /\ Len(bufIn') <= BlockCount * BlockSize
      /\ bufOut' \in Seq(Byte) /\ Len(bufOut') = BlockCount * BlockSize
  <2>0. /\ bufIn \in Seq(Byte) /\ bufOut \in Seq(Byte) /\ Len(bufOut) = BlockCount * BlockSize
        /\ Len(bufIn) <= BlockCount * BlockSize
    BY <1>1 DEF BuffersOK
  <2>1. CASE i = EXCLUDED
    <3>1. bufIn' = bufIn /\ bufOut' = bufOut /\ Copied(i)' = Copied(i)
      BY <1>6, <2>1 DEF Copy
    <3> QED
      BY <1>1, <2>0, <3>1 DEF Room
  <2>2. CASE i # EXCLUDED /\ Copied(i) < BlockCount
    <3>1. /\ Len(bufIn) = Copied(i) * BlockSize
          /\ Copied(i) * BlockSize \in Nat
          /\ (Copied(i) + 1) * BlockSize = Copied(i) * BlockSize + BlockSize
          /\ (Copied(i) + 1) * BlockSize <= BlockCount * BlockSize /\ BlockCount * BlockSize \in Nat
      BY <1>1, <1>6, <2>2, Multiples DEF Room
    <3>2. Len(bufIn) < BlockCount * BlockSize
      BY <3>1, Sizes
    <3>3. bufIn' = bufIn \o disk.blocks[i] /\ bufOut' = bufOut
      BY <2>2, <3>2 DEF Copy
    <3>4. bufIn' \in Seq(Byte) /\ Len(bufIn') = Len(bufIn) + BlockSize
      BY <1>5, <2>0, <3>3, ConcatOf
    <3>5. Room(Copied(i))' = Copied(i) + 1
      BY <1>6, <2>2, Sizes DEF Room
    <3> QED
      BY <2>0, <3>1, <3>3, <3>4, <3>5
  <2>3. CASE i # EXCLUDED /\ ~(Copied(i) < BlockCount)
    <3>1. Len(bufIn) = BlockCount * BlockSize /\ BlockCount * BlockSize \in Nat
      BY <1>1, <2>3, FileSizes DEF Room
    <3>2. ~(Len(bufIn) < BlockCount * BlockSize)
      BY <3>1
    <3>3. /\ bufIn' = bufIn
          /\ bufOut' \in {bufOut, disk.blocks[i] \o SubSeq(bufOut, BlockSize + 1, Len(bufOut))}
      BY <2>3, <3>2 DEF Copy
    <3>4. Room(Copied(i))' = BlockCount
      BY <1>6, <2>3, Sizes DEF Room
    <3> DEFINE rest == SubSeq(bufOut, BlockSize + 1, Len(bufOut))
    <3>5. rest \in Seq(Byte) /\ Len(rest) = Len(bufOut) - BlockSize
      <4>1. Len(bufOut) \in Nat /\ BlockSize <= Len(bufOut)
        BY <2>0, FileSizes
      <4> QED
        BY <2>0, <4>1, PartOf, Sizes
    <3> HIDE DEF rest
    <3>6. disk.blocks[i] \o rest \in Seq(Byte) /\ Len(disk.blocks[i] \o rest) = BlockSize + Len(rest)
      BY <1>5, <3>5, ConcatOf
    <3>7. BlockSize + Len(rest) = BlockCount * BlockSize
      BY <2>0, <3>1, <3>5, Sizes
    <3> QED
      BY <2>0, <3>1, <3>3, <3>4, <3>6, <3>7 DEF rest
  <2> QED
    BY <2>1, <2>2, <2>3
<1>8. BuffersOK'
  BY <1>1, <1>3, <1>7 DEF BuffersOK
<1>9. CopyOK'
  <2>1. i + 1 \in START .. END + 1
    BY <1>1, <1>2, Sizes
  <2> QED
    BY <1>3, <1>4, <1>7, <2>1 DEF CopyOK
<1>10. i' \in 0 .. Len(disk.blocks) + 1
  BY <1>1, <1>2, <1>3, Sizes
<1> QED
  BY <1>1, <1>3, <1>4, <1>8, <1>9, <1>10 DEF TInv, ScanOK, SearchOK, DigestOK

LEMMA DigestTyped == ASSUME TInv, Digest PROVE TInv'
<1>1. stage = "copy" /\ i > END /\ DiskOK /\ Len(bufIn) = Room(Copied(i)) * BlockSize
  BY DEF TInv, Digest, CopyOK
<1>2. /\ START \in Nat /\ i \in Nat /\ START <= i /\ i <= END + 1 /\ END = START + BlockCount + 1
      /\ END <= Len(disk.blocks) /\ Len(disk.blocks) \in Nat
  BY <1>1, Copying
<1>3. Room(Copied(i)) = BlockCount
  <2>1. i = START + BlockCount + 2 /\ i > START + Direct /\ i - START - 1 = BlockCount + 1
    BY <1>1, <1>2, Sizes
  <2>2. Copied(i) = BlockCount + 1
    BY <2>1 DEF Copied, EXCLUDED
  <2> QED
    BY <2>2, Sizes DEF Room
<1>4. /\ disk' = disk /\ i' = i /\ k' = k /\ candidates' = candidates /\ left' = left /\ best' = best
      /\ drop' = drop /\ found' = found /\ bufIn' = bufIn /\ bufOut' = bufOut /\ output' = output
      /\ stage' \in {"digest", "end"}
  BY DEF Digest
<1>5. disk' \in Disks /\ DiskOK'
  BY <1>4, SameDisk
<1>6. BuffersOK'
  BY <1>4 DEF TInv, BuffersOK
<1>7. CandidatesOK'
  <2>1. CandidatesOK /\ Len(candidates) \in Nat /\ Len(candidates) <= MaxCandidates
    <3>1. CandidatesOK /\ stage # "end"
      BY <1>1 DEF TInv
    <3> QED
      BY <3>1, Sizes DEF CandidatesOK
  <2> QED
    BY <1>4, <2>1, Sizes DEF CandidatesOK
<1> QED
  BY <1>1, <1>3, <1>4, <1>5, <1>6, <1>7 DEF TInv, ScanOK, SearchOK, CopyOK, DigestOK

LEMMA ExtractTyped == ASSUME TInv, Extract PROVE TInv'
<1>1. stage = "digest" /\ BuffersOK /\ Len(bufIn) = BlockCount * BlockSize
  BY DEF TInv, Extract, DigestOK
<1> DEFINE size == (BlockCount - 1) * BlockSize
           plain == DoRc4(SubSeq(bufIn, Md5Len + 1, SecretSize))
           rest == SubSeq(bufOut, Len(plain) + 1, Len(bufOut))
<1>2. /\ disk' = disk /\ i' = i /\ k' = k /\ candidates' = candidates /\ left' = left /\ best' = best
      /\ drop' = drop /\ found' = found /\ bufIn' = bufIn /\ stage' = "end"
      /\ bufOut' = plain \o rest
      /\ output' = SubSeq(bufOut', 1, SecretSize - Md5Len)
  BY DEF Extract
<1>3. /\ size \in Nat /\ SecretSize = size + Md5Len /\ SecretSize \in Nat
      /\ SecretSize <= BlockCount * BlockSize /\ BlockCount * BlockSize = size + BlockSize
      /\ BlockCount * BlockSize \in Nat
  BY FileSizes
<1> HIDE DEF size
<1>4. plain \in Seq(Byte) /\ Len(plain) = size
  <2>1. bufIn \in Seq(Byte) /\ Md5Len <= SecretSize /\ SecretSize - Md5Len = size
    BY <1>1, <1>3, Sizes DEF BuffersOK
  <2>2. /\ SubSeq(bufIn, Md5Len + 1, SecretSize) \in Seq(Byte)
        /\ Len(SubSeq(bufIn, Md5Len + 1, SecretSize)) = size
    BY <1>1, <1>3, <2>1, PartOf, Sizes
  <2>3. size <= BlockCount * BlockSize
    BY <1>3, Sizes
  <2> QED
    BY <2>2, <2>3, Rc4Type
<1> HIDE DEF plain
<1>5. rest \in Seq(Byte) /\ Len(rest) = BlockCount * BlockSize - size
  <2>1. bufOut \in Seq(Byte) /\ Len(bufOut) = BlockCount * BlockSize
    BY <1>1 DEF BuffersOK
  <2>2. size <= Len(bufOut) /\ Len(bufOut) \in Nat
    BY <1>3, <2>1, Sizes
  <2> QED
    BY <1>3, <1>4, <2>1, <2>2, PartOf
<1> HIDE DEF rest
<1>6. bufOut' \in Seq(Byte) /\ Len(bufOut') = BlockCount * BlockSize
  <2>1. plain \o rest \in Seq(Byte) /\ Len(plain \o rest) = Len(plain) + Len(rest)
    BY <1>4, <1>5, ConcatOf
  <2> QED
    BY <1>2, <1>3, <1>4, <1>5, <2>1
<1>7. output' \in Seq(Byte)
  <2>1. SecretSize - Md5Len = size /\ 0 <= size /\ size <= Len(bufOut') /\ 0 \in Nat
    BY <1>3, <1>6, Sizes
  <2>2. SubSeq(bufOut', 0 + 1, size) \in Seq(Byte)
    BY <1>3, <1>6, <2>1, PartOf
  <2> QED
    BY <1>2, <2>1, <2>2
<1>8. disk' \in Disks /\ DiskOK'
  BY <1>2, SameDisk
<1>9. BuffersOK'
  BY <1>1, <1>2, <1>6, <1>7 DEF BuffersOK
<1>10. CandidatesOK'
  <2>1. CandidatesOK /\ Len(candidates) \in Nat /\ Len(candidates) <= MaxCandidates
    <3>1. CandidatesOK /\ stage # "end"
      BY <1>1 DEF TInv
    <3> QED
      BY <3>1, Sizes DEF CandidatesOK
  <2> QED
    BY <1>2, <2>1, Sizes DEF CandidatesOK
<1> QED
  BY <1>2, <1>8, <1>9, <1>10 DEF TInv, ScanOK, SearchOK, CopyOK, DigestOK

LEMMA TInvNext == TInv /\ [Next]_vars => TInv'
<1> SUFFICES ASSUME TInv, [Next]_vars PROVE TInv'
  OBVIOUS
<1>1. CASE Scan
  BY <1>1, ScanTyped
<1>2. CASE Search
  BY <1>2, SearchTyped
<1>3. CASE Judge
  BY <1>3, JudgeTyped
<1>4. CASE Take
  BY <1>4, TakeTyped
<1>5. CASE Copy
  BY <1>5, CopyTyped
<1>6. CASE Digest
  BY <1>6, DigestTyped
<1>7. CASE Extract
  BY <1>7, ExtractTyped
<1>8. CASE UNCHANGED vars
  <2>1. Copied(i)' = Copied(i) /\ START' = START /\ END' = END /\ Contiguous' = Contiguous
    BY <1>8 DEF vars, Copied, EXCLUDED, START, END, Contiguous
  <2> QED
    BY <1>8, <2>1 DEF vars, TInv, DiskOK, CandidatesOK, BuffersOK, ScanOK, SearchOK, CopyOK, DigestOK, Room
<1> QED
  BY <1>1, <1>2, <1>3, <1>4, <1>5, <1>6, <1>7, <1>8 DEF Next

\* findblocks writes at most one candidate behind its arrays, and then stops; its counters
\* and the blocks found stay in range, and the buffers of both programs hold bytes, wherever
\* the blocks of the secret are and whatever the block copied too many overwrites.
THEOREM ArraysHold == Spec => []TypeOK
  BY TInvInit, TInvNext, TypesFollow, PTL DEF Spec

-----------------------------------------------------------------------------
(***************************************************************************)
(* The blocks of a text are found in order.                                *)
(***************************************************************************)

IsText(d) ==
  \A n \in 1 .. BlockCount - 1 :
    Entropy(SubSeq(d.plain, (n - 1) * BlockSize + 1, n * BlockSize)) <= TextEntropy

\* The first n blocks of the secret, end to end.
Beginning(d, n) ==
  [j \in 1 .. n * BlockSize |->
     d.blocks[d.where[(j - 1) \div BlockSize + 1]][((j - 1) % BlockSize) + 1]]

\* What Decrypted is when n blocks are in the buffer.
Opened(head, n, block) ==
  SubSeq(DoRc4(SkipMd5(head \o block)) \o Zeros(Md5Len), n * BlockSize + 1, (n + 1) * BlockSize)

\* How far the entropy of block b falls when it is tried as block n of the secret.
Fall(d, n, b) == Entropy(d.blocks[b]) - Entropy(Opened(Beginning(d, n - 1), n - 1, d.blocks[b]))

\* The blocks that findblocks takes for candidates.
Likely(d) == {b \in 1 .. Len(d.blocks) : Entropy(d.blocks[b]) > Threshold}

\* Where the first n blocks of the secret are.
Places(d, n) == {d.where[m] : m \in 1 .. n}

\* What is left to the entropies to tell: behind the blocks that come before it, the next
\* block of a text falls further than any other candidate.
TextStandsOut ==
  \A d \in Disks : IsText(d) =>
    \A n \in 1 .. BlockCount - 1 :
      /\ d.where[n] \in Likely(d) /\ Fall(d, n, d.where[n]) > 0
      /\ \A b \in Likely(d) \ Places(d, n) : Fall(d, n, b) < Fall(d, n, d.where[n])

-----------------------------------------------------------------------------
(* The beginning of the secret in the buffer.                              *)

LEMMA Divided ==
  ASSUME NEW n \in Nat, NEW r \in 0 .. BlockSize - 1
  PROVE  (n * BlockSize + r) \div BlockSize = n /\ (n * BlockSize + r) % BlockSize = r
<1>1. PICK a \in Int : a = n * BlockSize + r
  BY Sizes
<1>2. PICK q \in Int, s \in 0 .. BlockSize - 1 :
        q = a \div BlockSize /\ s = a % BlockSize /\ a = BlockSize * q + s
  <2>1. /\ a \div BlockSize \in Int /\ a % BlockSize \in 0 .. BlockSize - 1
        /\ a = BlockSize * (a \div BlockSize) + (a % BlockSize)
    BY Sizes
  <2> QED
    BY <2>1
<1>3. ASSUME NEW x \in Int, NEW y \in Int, x * BlockSize < y * BlockSize
      PROVE  x < y
  <2> SUFFICES ASSUME y <= x PROVE FALSE
    OBVIOUS
  <2>1. PICK e \in Nat : x = y + e
    <3>1. x - y \in Nat /\ x = y + (x - y)
      OBVIOUS
    <3> QED
      BY <3>1
  <2>2. x * BlockSize = y * BlockSize + e * BlockSize
    BY <2>1, Sizes
  <2>3. e * BlockSize \in Nat /\ y * BlockSize \in Int
    BY Sizes
  <2> QED
    BY <1>3, <2>2, <2>3
<1>4. q * BlockSize < (n + 1) * BlockSize /\ n * BlockSize < (q + 1) * BlockSize
  BY <1>1, <1>2, Sizes
<1>5. q < n + 1 /\ n < q + 1
  BY <1>3, <1>4
<1>6. q = n
  BY <1>5
<1>7. s = r
  BY <1>1, <1>2, <1>6, Sizes
<1> QED
  BY <1>1, <1>2, <1>6, <1>7

LEMMA BeginningGrows ==
  ASSUME DiskOK, NEW n \in Nat, n < BlockCount
  PROVE  /\ Beginning(disk, 0) = <<>>
         /\ Beginning(disk, n) \o disk.blocks[disk.where[n + 1]] = Beginning(disk, n + 1)
<1> DEFINE Cell(j) == disk.blocks[disk.where[(j - 1) \div BlockSize + 1]][((j - 1) % BlockSize) + 1]
<1>1. PICK size \in Nat : size = n * BlockSize /\ (n + 1) * BlockSize = size + BlockSize
  BY Multiples
<1>2. PICK block \in Block : block = disk.blocks[disk.where[n + 1]]
  <2>1. n + 1 \in 1 .. BlockCount
    BY Sizes
  <2>2. disk.where[n + 1] \in 1 .. Len(disk.blocks)
    <3>1. disk.where \in [1 .. BlockCount -> 1 .. Len(disk.blocks) - 1]
      BY DEF DiskOK
    <3>2. disk.where[n + 1] \in 1 .. Len(disk.blocks) - 1
      BY <2>1, <3>1
    <3>3. Len(disk.blocks) \in Nat
      BY DiskIsLarge
    <3> QED
      BY <3>2, <3>3
  <2> QED
    BY <2>2 DEF DiskOK
<1>3. ASSUME NEW r \in 1 .. BlockSize
      PROVE  Cell(size + r) = block[r]
  <2>1. r - 1 \in 0 .. BlockSize - 1 /\ size + r - 1 = size + (r - 1) /\ r - 1 + 1 = r
    BY Sizes
  <2>2. (size + r - 1) \div BlockSize = n /\ (size + r - 1) % BlockSize = r - 1
    BY <1>1, <2>1, Divided
  <2> QED
    BY <1>2, <2>1, <2>2
<1>4. /\ Beginning(disk, n) = [j \in 1 .. size |-> Cell(j)]
      /\ Beginning(disk, n + 1) = [j \in 1 .. size + BlockSize |-> Cell(j)]
  BY <1>1 DEF Beginning
<1>5. Beginning(disk, 0) = <<>>
  <2>1. 0 * BlockSize = 0
    BY Sizes
  <2>2. Beginning(disk, 0) = [j \in 1 .. 0 |-> Cell(j)]
    BY <2>1 DEF Beginning
  <2> HIDE DEF Cell
  <2> QED
    BY <2>2
<1> HIDE DEF Cell
<1>6. [j \in 1 .. size |-> Cell(j)] \o block = [j \in 1 .. size + BlockSize |-> Cell(j)]
  <2> DEFINE s == [j \in 1 .. size |-> Cell(j)]
             t == [j \in 1 .. size + BlockSize |-> Cell(j)]
  <2>1. \E S : s \in Seq(S) /\ block \in Seq(S)
    <3> DEFINE S == {Cell(j) : j \in 1 .. size} \cup Byte
    <3>1. s \in Seq(S)
      OBVIOUS
    <3>2. block \in [1 .. BlockSize -> S] /\ BlockSize \in Nat
      BY Sizes DEF Block
    <3>3. block \in Seq(S)
      BY <3>2
    <3> QED
      BY <3>1, <3>3
  <2>2. Len(s) = size /\ Len(block) = BlockSize
    BY BlockIsSeq
  <2>3. s \o block = [j \in 1 .. size + BlockSize |-> IF j <= size THEN s[j] ELSE block[j - size]]
    BY <2>1, <2>2, Sizes
  <2>4. ASSUME NEW j \in 1 .. size + BlockSize
        PROVE  (IF j <= size THEN s[j] ELSE block[j - size]) = Cell(j)
    <3>1. CASE j <= size
      BY <3>1
    <3>2. CASE ~(j <= size)
      <4>1. j - size \in 1 .. BlockSize /\ size + (j - size) = j
        BY <3>2, Sizes
      <4> QED
        BY <1>3, <3>2, <4>1
    <3> QED
      BY <3>1, <3>2
  <2>5. [j \in 1 .. size + BlockSize |-> IF j <= size THEN s[j] ELSE block[j - size]] = t
    <3> HIDE DEF s
    <3> QED
      BY <2>4
  <2> QED
    BY <2>3, <2>5
<1> QED
  BY <1>2, <1>4, <1>5, <1>6

LEMMA WhenTried ==
  ASSUME NEW b, i \in Nat, bufIn = Beginning(disk, i)
  PROVE  Entropy(disk.blocks[b]) - Entropy(Decrypted(disk.blocks[b])) = Fall(disk, i + 1, b)
<1>1. Decrypted(disk.blocks[b]) = Opened(bufIn, i, disk.blocks[b])
  BY DEF Decrypted, Opened
<1>2. i + 1 - 1 = i
  OBVIOUS
<1> QED
  BY <1>1, <1>2 DEF Fall

-----------------------------------------------------------------------------
(* The inductive invariant of the search.                                  *)

\* The candidates are the blocks of high entropy, once each.
ListOK ==
  /\ \A n \in 1 .. Len(candidates) : candidates[n] \in Likely(disk)
  /\ \A m, n \in 1 .. Len(candidates) : m # n => candidates[m] # candidates[n]
  /\ stage = "scan" =>
       /\ \A n \in 1 .. Len(candidates) :
            candidates[n] <= i /\ left[n] = Entropy(disk.blocks[candidates[n]])
       /\ \A b \in Likely(disk) : b <= i => \E n \in 1 .. Len(candidates) : candidates[n] = b
  /\ stage = "search" =>
       \A b \in Likely(disk) : \E n \in 1 .. Len(candidates) : candidates[n] = b

\* Those that have been found, and no other, have no entropy left.
LeftOK ==
  stage = "search" => \A n \in 1 .. Len(candidates) :
    left[n] = IF candidates[n] \in Places(disk, i) THEN 0 ELSE Entropy(disk.blocks[candidates[n]])

OrderOK == \A n \in 1 .. BlockCount - 1 : n <= Len(found) => found[n] = disk.where[n]

HeadOK == stage = "search" => bufIn = Beginning(disk, i)

\* The right candidate is kept once it has been tried, and until then it falls further
\* than any other.
BestOK ==
  stage = "search" /\ i + 1 < BlockCount => \A n \in 1 .. Len(candidates) :
    candidates[n] = disk.where[i + 1] =>
      /\ n <= k => best = n /\ drop = Fall(disk, i + 1, candidates[n])
      /\ n > k => drop < Fall(disk, i + 1, candidates[n])

\* The inductive invariant of TextIsFoundInOrder. The candidates are listed in any case,
\* the rest is true of a text.
FInv == TInv /\ ListOK /\ (IsText(disk) => LeftOK /\ OrderOK /\ HeadOK /\ BestOK)

LEMMA LikelyIsInt ==
  ASSUME DiskOK, NEW b \in Likely(disk)
  PROVE  /\ b \in 1 .. Len(disk.blocks) /\ disk.blocks[b] \in Block
         /\ Entropy(disk.blocks[b]) \in Nat /\ Entropy(disk.blocks[b]) # 0
<1>1. b \in 1 .. Len(disk.blocks) /\ Entropy(disk.blocks[b]) > Threshold
  BY DEF Likely
<1>2. disk.blocks[b] \in Block
  BY <1>1 DEF DiskOK
<1>3. Entropy(disk.blocks[b]) \in Int
  BY <1>2, EntropyIsInt DEF Block
<1> QED
  BY <1>1, <1>2, <1>3, Sizes

LEMMA FInvInit == Init => FInv
<1> SUFFICES ASSUME Init PROVE FInv
  OBVIOUS
<1>1. TInv
  BY TInvInit
<1>2. candidates = <<>> /\ stage = "scan" /\ i = 0 /\ Len(candidates) = 0 /\ Len(found) = 0
  BY DEF Init
<1>3. \A b \in Likely(disk) : ~(b <= 0)
  BY <1>1, LikelyIsInt DEF TInv
<1>4. ListOK
  BY <1>2, <1>3 DEF ListOK
<1>5. LeftOK /\ HeadOK /\ BestOK
  BY <1>2 DEF LeftOK, HeadOK, BestOK
<1>6. OrderOK
  BY <1>2 DEF OrderOK
<1> QED
  BY <1>1, <1>4, <1>5, <1>6 DEF FInv

LEMMA ScanFinds == ASSUME FInv, Scan PROVE FInv'
<1>1. TInv /\ ListOK /\ DiskOK /\ CandidatesOK /\ ScanOK /\ stage = "scan" /\ TInv'
  BY ScanTyped DEF FInv, TInv, Scan
<1>2. i \in Nat /\ i < Len(disk.blocks) /\ Len(disk.blocks) \in Nat /\ found = <<>>
  BY <1>1, DiskIsLarge DEF Scan, ScanOK
<1>3. disk' = disk /\ i' = i + 1 /\ found' = <<>> /\ stage' \in {"scan", "end"}
  BY <1>2 DEF Scan
<1>4. /\ candidates \in Seq(1 .. Len(disk.blocks)) /\ left \in Seq(Nat)
      /\ Len(left) = Len(candidates) /\ Len(candidates) \in Nat
  BY <1>1 DEF CandidatesOK
<1>5. i + 1 \in 1 .. Len(disk.blocks)
  BY <1>2
<1>6. /\ \A n \in 1 .. Len(candidates) :
           /\ candidates[n] \in Likely(disk) /\ candidates[n] <= i
           /\ left[n] = Entropy(disk.blocks[candidates[n]])
      /\ \A m, n \in 1 .. Len(candidates) : m # n => candidates[m] # candidates[n]
      /\ \A b \in Likely(disk) : b <= i => \E n \in 1 .. Len(candidates) : candidates[n] = b
  BY <1>1 DEF ListOK
<1>7. \A b \in Likely(disk) : b \in Nat
  BY <1>1, LikelyIsInt
<1>8. /\ \A n \in 1 .. Len(candidates') :
           /\ candidates'[n] \in Likely(disk) /\ candidates'[n] <= i + 1
           /\ left'[n] = Entropy(disk.blocks[candidates'[n]])
      /\ \A m, n \in 1 .. Len(candidates') : m # n => candidates'[m] # candidates'[n]
      /\ \A b \in Likely(disk) : b <= i + 1 => \E n \in 1 .. Len(candidates') : candidates'[n] = b
  <2>1. CASE Entropy(disk.blocks[i + 1]) > Threshold
    <3> DEFINE e == Entropy(disk.blocks[i + 1])
    <3>1. candidates' = Append(candidates, i + 1) /\ left' = Append(left, e)
      BY <2>1 DEF Scan
    <3>2. i + 1 \in Likely(disk)
      BY <1>5, <2>1 DEF Likely
    <3>3. e \in Nat
      BY <1>1, <3>2, LikelyIsInt
    <3> HIDE DEF e
    <3>4. PICK size \in Nat : size = Len(candidates)
      BY <1>4
    <3>5. /\ Len(candidates') = size + 1
          /\ candidates'[size + 1] = i + 1 /\ left'[size + 1] = e
          /\ \A n \in 1 .. size : candidates'[n] = candidates[n] /\ left'[n] = left[n]
      BY <1>4, <1>5, <3>1, <3>3, <3>4
    <3>6. ASSUME NEW n \in 1 .. size + 1
          PROVE  /\ candidates'[n] \in Likely(disk) /\ candidates'[n] <= i + 1
                 /\ left'[n] = Entropy(disk.blocks[candidates'[n]])
      <4>1. CASE n = size + 1
        BY <1>2, <3>2, <3>5, <4>1 DEF e
      <4>2. CASE n # size + 1
        <5>1. n \in 1 .. size
          BY <3>4, <4>2
        <5> QED
          BY <1>2, <1>6, <1>7, <3>4, <3>5, <5>1
      <4> QED
        BY <4>1, <4>2
    <3>7. ASSUME NEW m \in 1 .. size + 1, NEW n \in 1 .. size + 1, m # n
          PROVE  candidates'[m] # candidates'[n]
      <4>1. \A l \in 1 .. size + 1 : l # size + 1 => l \in 1 .. size /\ candidates'[l] # i + 1
        <5> SUFFICES ASSUME NEW l \in 1 .. size + 1, l # size + 1
                     PROVE  l \in 1 .. size /\ candidates'[l] # i + 1
          OBVIOUS
        <5>1. l \in 1 .. size
          BY <3>4
        <5>2. candidates'[l] \in Nat /\ candidates'[l] <= i
          BY <1>6, <1>7, <3>4, <3>5, <5>1
        <5> QED
          BY <1>2, <5>1, <5>2
      <4>2. CASE m = size + 1 \/ n = size + 1
        BY <3>5, <3>7, <4>1, <4>2
      <4>3. CASE m # size + 1 /\ n # size + 1
        BY <1>6, <3>4, <3>5, <3>7, <4>1, <4>3
      <4> QED
        BY <4>2, <4>3
    <3>8. ASSUME NEW b \in Likely(disk), b <= i + 1
          PROVE  \E n \in 1 .. size + 1 : candidates'[n] = b
      <4>1. CASE b = i + 1
        <5>1. size + 1 \in 1 .. size + 1
          BY <3>4
        <5> QED
          BY <3>5, <4>1, <5>1
      <4>2. CASE b # i + 1
        <5>1. b <= i
          BY <1>2, <1>7, <3>8, <4>2
        <5>2. PICK n \in 1 .. size : candidates[n] = b
          BY <1>6, <3>4, <5>1
        <5>3. n \in 1 .. size + 1
          BY <3>4, <5>2
        <5> QED
          BY <3>5, <5>2, <5>3
      <4> QED
        BY <4>1, <4>2
    <3> QED
      BY <3>5, <3>6, <3>7, <3>8
  <2>2. CASE ~(Entropy(disk.blocks[i + 1]) > Threshold)
    <3>1. candidates' = candidates /\ left' = left
      BY <2>2 DEF Scan
    <3>2. i + 1 \notin Likely(disk)
      BY <2>2 DEF Likely
    <3>3. \A n \in 1 .. Len(candidates) : candidates[n] <= i + 1
      BY <1>2, <1>6, <1>7
    <3>4. \A b \in Likely(disk) : b <= i + 1 => b <= i
      BY <1>2, <1>7, <3>2
    <3> QED
      BY <1>6, <3>1, <3>3, <3>4
  <2> QED
    BY <2>1, <2>2
<1>9. ListOK'
  BY <1>3, <1>8 DEF ListOK
<1>10. LeftOK' /\ HeadOK' /\ BestOK'
  BY <1>3 DEF LeftOK, HeadOK, BestOK
<1>11. OrderOK'
  <2>1. Len(found') = 0
    BY <1>3
  <2> QED
    BY <2>1 DEF OrderOK
<1> QED
  BY <1>1, <1>9, <1>10, <1>11 DEF FInv

LEMMA SearchFinds == ASSUME TextStandsOut, FInv, Search PROVE FInv'
<1>1. TInv /\ ListOK /\ CandidatesOK /\ ScanOK /\ disk \in Disks /\ DiskOK /\ TInv'
  BY SearchTyped DEF FInv, TInv
<1>2. /\ stage = "scan" /\ i = Len(disk.blocks) /\ found = <<>> /\ bufIn = <<>>
      /\ stage' = "search" /\ i' = 0 /\ k' = 0 /\ drop' = 0
      /\ disk' = disk /\ candidates' = candidates /\ left' = left /\ found' = found /\ bufIn' = bufIn
  BY <1>1 DEF Search, ScanOK
<1>3. ListOK'
  <2>1. \A b \in Likely(disk) : b <= Len(disk.blocks)
    BY <1>1, DiskIsLarge, LikelyIsInt
  <2> QED
    BY <1>1, <1>2, <2>1 DEF ListOK
<1>4. LeftOK'
  <2>1. Places(disk, 0) = {}
    BY DEF Places
  <2> QED
    BY <1>1, <1>2, <2>1 DEF ListOK, LeftOK
<1>5. OrderOK'
  <2>1. Len(found') = 0
    BY <1>2
  <2> QED
    BY <2>1 DEF OrderOK
<1>6. HeadOK'
  BY <1>1, <1>2, BeginningGrows, Sizes DEF HeadOK
<1>7. ASSUME IsText(disk) PROVE BestOK'
  <2>1. 0 + 1 = 1 /\ 1 \in 1 .. BlockCount - 1
    BY Sizes
  <2>2. Fall(disk, 1, disk.where[1]) > 0
    BY <1>1, <1>7, <2>1 DEF TextStandsOut
  <2>3. \A n \in 1 .. Len(candidates) : ~(n <= 0)
    BY <1>1 DEF CandidatesOK
  <2> QED
    BY <1>2, <2>1, <2>2, <2>3 DEF BestOK
<1> QED
  BY <1>1, <1>2, <1>3, <1>4, <1>5, <1>6, <1>7 DEF FInv

\* The falls of a text that is searched.
LEMMA NextFalls ==
  ASSUME TextStandsOut, FInv, IsText(disk), stage = "search", i + 1 < BlockCount
  PROVE  /\ i \in Nat /\ disk.where[i + 1] \in Likely(disk)
         /\ disk.where[i + 1] \notin Places(disk, i)
         /\ \A b \in Likely(disk) : Fall(disk, i + 1, b) \in Int
         /\ Fall(disk, i + 1, disk.where[i + 1]) > 0
         /\ \A b \in Likely(disk) : b \notin Places(disk, i) /\ b # disk.where[i + 1]
                                      => Fall(disk, i + 1, b) < Fall(disk, i + 1, disk.where[i + 1])
         /\ Places(disk, i + 1) = Places(disk, i) \cup {disk.where[i + 1]}
<1>1. TInv /\ DiskOK /\ disk \in Disks /\ bufIn = Beginning(disk, i)
  BY DEF FInv, TInv, HeadOK
<1>2. i \in Nat /\ i < BlockCount /\ i + 1 \in 1 .. BlockCount - 1 /\ i + 1 \in 1 .. BlockCount
      /\ bufIn \in Seq(Byte) /\ Len(bufIn) = i * BlockSize
  BY <1>1, Searching, Sizes
<1>3. disk.where[i + 1] \notin Places(disk, i)
  <2> SUFFICES ASSUME NEW m \in 1 .. i PROVE disk.where[m] # disk.where[i + 1]
    BY DEF Places
  <2>1. m \in 1 .. BlockCount /\ m # i + 1
    BY <1>2, Sizes
  <2>2. disk.where \in [1 .. BlockCount -> 1 .. Len(disk.blocks) - 1] /\ IsInjective(disk.where)
    BY <1>1 DEF DiskOK
  <2>3. DOMAIN disk.where = 1 .. BlockCount
    BY <2>2
  <2> QED
    BY <1>2, <2>1, <2>2, <2>3 DEF IsInjective
<1>4. ASSUME NEW b \in Likely(disk)
      PROVE  Fall(disk, i + 1, b) \in Int
  <2>1. disk.blocks[b] \in Block /\ Entropy(disk.blocks[b]) \in Int
    BY <1>1, LikelyIsInt
  <2>2. Decrypted(disk.blocks[b]) \in Block
    BY <1>2, <2>1, DecryptedType
  <2>3. Entropy(Decrypted(disk.blocks[b])) \in Int
    BY <2>2, EntropyIsInt DEF Block
  <2>4. Entropy(disk.blocks[b]) - Entropy(Decrypted(disk.blocks[b])) = Fall(disk, i + 1, b)
    BY <1>1, <1>2, WhenTried
  <2> QED
    BY <2>1, <2>3, <2>4
<1>5. Places(disk, i + 1) = Places(disk, i) \cup {disk.where[i + 1]}
  <2>1. 1 .. i + 1 = (1 .. i) \cup {i + 1}
    BY <1>2
  <2> QED
    BY <2>1 DEF Places
<1>6. /\ disk.where[i + 1] \in Likely(disk) /\ Fall(disk, i + 1, disk.where[i + 1]) > 0
      /\ \A b \in Likely(disk) \ Places(disk, i + 1) :
           Fall(disk, i + 1, b) < Fall(disk, i + 1, disk.where[i + 1])
  BY <1>1, <1>2 DEF TextStandsOut
<1> QED
  BY <1>2, <1>3, <1>4, <1>5, <1>6

LEMMA JudgeFinds == ASSUME TextStandsOut, FInv, Judge PROVE FInv'
<1>1. TInv /\ ListOK /\ CandidatesOK /\ TInv' /\ stage = "search"
  BY JudgeTyped DEF FInv, TInv, Judge
<1>2. /\ disk' = disk /\ stage' = stage /\ i' = i /\ candidates' = candidates /\ left' = left
      /\ found' = found /\ bufIn' = bufIn /\ k' = k + 1
  BY DEF Judge
<1>3. ListOK'
  BY <1>1, <1>2 DEF ListOK
<1>4. ASSUME IsText(disk) PROVE LeftOK' /\ OrderOK' /\ HeadOK'
  BY <1>2, <1>4 DEF FInv, LeftOK, OrderOK, HeadOK
<1>5. ASSUME IsText(disk), i + 1 < BlockCount,
             NEW n \in 1 .. Len(candidates), candidates[n] = disk.where[i + 1]
      PROVE  /\ n <= k + 1 => best' = n /\ drop' = Fall(disk, i + 1, candidates[n])
             /\ n > k + 1 => drop' < Fall(disk, i + 1, candidates[n])
  <2> DEFINE c == k + 1
             b == candidates[c]
             fall == left[c] - Entropy(Decrypted(disk.blocks[b]))
             F(x) == Fall(disk, i + 1, x)
             right == candidates[n]
  <2>1. /\ k \in Nat /\ c \in 1 .. Len(candidates) /\ Len(candidates) \in Nat /\ n \in Nat
        /\ drop \in Nat
    <3>1. k \in Nat /\ k < Len(candidates) /\ Len(candidates) \in Nat /\ drop \in Nat
      BY <1>1, Searching DEF Judge, CandidatesOK
    <3> QED
      BY <3>1
  <2>2. /\ i \in Nat /\ right \in Likely(disk) /\ right \notin Places(disk, i)
        /\ F(right) \in Int /\ b \in Likely(disk) /\ F(b) \in Int
        /\ b \notin Places(disk, i) /\ b # right => F(b) < F(right)
    BY <1>1, <1>5, <2>1, NextFalls DEF ListOK
  <2>3. left[c] = IF b \in Places(disk, i) THEN 0 ELSE Entropy(disk.blocks[b])
    BY <1>1, <1>5, <2>1 DEF FInv, LeftOK
  <2>4. Entropy(disk.blocks[b]) \in Nat /\ Entropy(disk.blocks[b]) # 0
    BY <1>1, <2>2, LikelyIsInt DEF TInv
  <2>5. b \notin Places(disk, i) => left[c] # 0 /\ fall = F(b)
    <3>1. bufIn = Beginning(disk, i)
      BY <1>1, <1>5 DEF FInv, HeadOK
    <3>2. Entropy(disk.blocks[b]) - Entropy(Decrypted(disk.blocks[b])) = F(b)
      BY <2>2, <3>1, WhenTried
    <3> QED
      BY <2>3, <2>4, <3>2
  <2>6. b \in Places(disk, i) => left[c] = 0
    BY <2>3
  <2>7. IF left[c] # 0 /\ fall > drop THEN best' = c /\ drop' = fall ELSE best' = best /\ drop' = drop
    BY DEF Judge
  <2>8. /\ n <= k => best = n /\ drop = F(right)
        /\ n > k => drop < F(right)
    BY <1>1, <1>5 DEF FInv, BestOK
  <2>9. n # c => right # b
    BY <1>1, <2>1 DEF ListOK
  <2>10. n = c => right = b
    OBVIOUS
  <2> HIDE DEF c, b, fall, F, right
  <2>11. CASE n = c
    <3>1. fall = F(right) /\ left[c] # 0 /\ drop < F(right)
      BY <2>1, <2>2, <2>5, <2>8, <2>10, <2>11 DEF c
    <3>2. best' = c /\ drop' = F(right)
      BY <2>1, <2>2, <2>7, <3>1
    <3> QED
      BY <2>1, <2>11, <3>2 DEF c, F, right
  <2>12. CASE n # c
    <3>1. left[c] # 0 => fall = F(b) /\ F(b) < F(right)
      BY <2>2, <2>5, <2>6, <2>9, <2>12
    <3>2. CASE n <= k
      <4>1. best' = n /\ drop' = F(right)
        BY <2>2, <2>7, <2>8, <3>1, <3>2
      <4> QED
        BY <2>1, <3>2, <4>1 DEF F, right
    <3>3. CASE n > k
      <4>1. drop' < F(right)
        BY <2>2, <2>7, <2>8, <3>1, <3>3
      <4>2. n > c
        BY <2>1, <2>12, <3>3 DEF c
      <4> QED
        BY <2>1, <4>1, <4>2 DEF F, right, c
    <3> QED
      BY <2>1, <3>2, <3>3
  <2> QED
    BY <2>11, <2>12
<1>6. ASSUME IsText(disk) PROVE BestOK'
  BY <1>2, <1>5, <1>6 DEF BestOK
<1> QED
  BY <1>1, <1>2, <1>3, <1>4, <1>6 DEF FInv

LEMMA TakeFinds == ASSUME TextStandsOut, FInv, Take PROVE FInv'
<1>1. TInv /\ ListOK /\ CandidatesOK /\ DiskOK /\ TInv' /\ stage = "search" /\ k = Len(candidates)
  BY TakeTyped DEF FInv, TInv, Take
<1>2. /\ disk' = disk /\ candidates' = candidates /\ found' = Append(found, candidates[best])
      /\ left' = [left EXCEPT ![best] = 0] /\ k' = 0 /\ drop' = 0
  BY DEF Take, Taken
<1>3. /\ i \in Nat /\ i < BlockCount /\ Len(candidates) \in Nat /\ best \in 1 .. Len(candidates)
      /\ Len(found) = i /\ candidates[best] \in 1 .. Len(disk.blocks)
      /\ found \in Seq(1 .. Len(disk.blocks))
  <2>1. Len(candidates) \in Nat /\ Len(candidates) >= 1 /\ i \in Nat /\ i < BlockCount
    BY <1>1, Searching
  <2>2. best \in 1 .. Len(candidates) /\ candidates[best] \in 1 .. Len(disk.blocks)
    BY <1>1, <2>1 DEF CandidatesOK
  <2> QED
    BY <1>1, <2>1, <2>2 DEF TInv, SearchOK
<1>4. /\ Len(found') = i + 1 /\ found'[i + 1] = candidates[best]
      /\ \A n \in 1 .. i : found'[n] = found[n]
  BY <1>2, <1>3
<1>5. stage' # "scan"
  BY <1>1 DEF Take
<1>6. ListOK'
  <2>1. stage' = "search" => \A b \in Likely(disk) : \E n \in 1 .. Len(candidates) : candidates[n] = b
    BY <1>1 DEF ListOK
  <2> QED
    BY <1>1, <1>2, <1>5, <2>1 DEF ListOK
<1>7. CASE i + 1 < BlockCount
  <2>1. stage' = "search" /\ i' = i + 1 /\ bufIn' = bufIn \o disk.blocks[candidates[best]]
    BY <1>1, <1>7 DEF Take
  <2> SUFFICES ASSUME IsText(disk) PROVE LeftOK' /\ OrderOK' /\ HeadOK' /\ BestOK'
    BY <1>1, <1>2, <1>6 DEF FInv
  <2>2. candidates[best] = disk.where[i + 1]
    <3>1. disk.where[i + 1] \in Likely(disk)
      BY <1>1, <1>7, NextFalls
    <3>2. PICK n \in 1 .. Len(candidates) : candidates[n] = disk.where[i + 1]
      BY <1>1, <3>1 DEF ListOK
    <3>3. n <= k
      BY <1>1, <1>3, <3>2
    <3>4. best = n
      BY <1>1, <1>7, <3>2, <3>3 DEF FInv, BestOK
    <3> QED
      BY <3>2, <3>4
  <2>3. OrderOK'
    <3> SUFFICES ASSUME NEW n \in 1 .. BlockCount - 1, n <= i + 1
                 PROVE  found'[n] = disk.where[n]
      BY <1>2, <1>4 DEF OrderOK
    <3>1. CASE n = i + 1
      BY <1>4, <2>2, <3>1
    <3>2. CASE n # i + 1
      <4>1. n \in 1 .. i /\ n <= Len(found)
        BY <1>3, <3>2
      <4> QED
        BY <1>4, <4>1 DEF FInv, OrderOK
    <3> QED
      BY <3>1, <3>2
  <2>4. HeadOK'
    <3>1. bufIn = Beginning(disk, i)
      BY <1>1 DEF FInv, HeadOK
    <3>2. Beginning(disk, i) \o disk.blocks[disk.where[i + 1]] = Beginning(disk, i + 1)
      BY <1>1, <1>3, BeginningGrows
    <3> QED
      BY <1>2, <2>1, <2>2, <3>1, <3>2 DEF HeadOK
  <2>5. LeftOK'
    <3> SUFFICES ASSUME NEW n \in 1 .. Len(candidates)
                 PROVE  left'[n] = IF candidates[n] \in Places(disk, i + 1) THEN 0
                                   ELSE Entropy(disk.blocks[candidates[n]])
      BY <1>2, <2>1 DEF LeftOK
    <3>1. Places(disk, i + 1) = Places(disk, i) \cup {disk.where[i + 1]}
      BY <1>1, <1>7, NextFalls
    <3>2. left \in Seq(Nat) /\ n \in DOMAIN left
      <4>1. left \in Seq(Nat) /\ Len(left) = Len(candidates)
        BY <1>1 DEF CandidatesOK
      <4> QED
        BY <4>1
    <3>3. left[n] = IF candidates[n] \in Places(disk, i) THEN 0
                    ELSE Entropy(disk.blocks[candidates[n]])
      BY <1>1 DEF FInv, LeftOK
    <3>4. CASE n = best
      <4>1. left'[n] = 0
        BY <1>2, <3>2, <3>4
      <4> QED
        BY <2>2, <3>1, <3>4, <4>1
    <3>5. CASE n # best
      <4>1. left'[n] = left[n]
        BY <1>2, <3>2, <3>5
      <4>2. candidates[n] # disk.where[i + 1]
        BY <1>1, <1>3, <2>2, <3>5 DEF ListOK
      <4> QED
        BY <3>1, <3>3, <4>1, <4>2
    <3> QED
      BY <3>4, <3>5
  <2>6. BestOK'
    <3> SUFFICES ASSUME i + 1 + 1 < BlockCount, NEW n \in 1 .. Len(candidates),
                        candidates[n] = disk.where[i + 1 + 1]
                 PROVE  ~(n <= 0) /\ 0 < Fall(disk, i + 1 + 1, candidates[n])
      BY <1>2, <2>1 DEF BestOK
    <3>1. i + 1 + 1 \in 1 .. BlockCount - 1
      BY <1>3, Sizes
    <3>2. Fall(disk, i + 1 + 1, disk.where[i + 1 + 1]) > 0
      BY <1>1, <3>1 DEF TextStandsOut, TInv
    <3>3. Fall(disk, i + 1 + 1, candidates[n]) > 0 /\ ~(n <= 0)
      BY <1>3, <3>2
    <3>4. 0 < Fall(disk, i + 1 + 1, candidates[n])
      BY <3>3
    <3> QED
      BY <3>3, <3>4
  <2> QED
    BY <2>3, <2>4, <2>5, <2>6
<1>8. CASE ~(i + 1 < BlockCount)
  <2>1. stage' \in {"copy", "end"}
    BY <1>8 DEF Take
  <2>2. LeftOK' /\ HeadOK' /\ BestOK'
    BY <2>1 DEF LeftOK, HeadOK, BestOK
  <2>3. ASSUME IsText(disk), NEW n \in 1 .. BlockCount - 1
        PROVE  found'[n] = disk.where[n]
    <3>1. n \in 1 .. i /\ n <= Len(found)
      BY <1>3, <1>8, Sizes
    <3> QED
      BY <1>4, <2>3, <3>1 DEF FInv, OrderOK
  <2>4. IsText(disk) => OrderOK'
    BY <1>2, <2>3 DEF OrderOK
  <2> QED
    BY <1>1, <1>2, <1>6, <2>2, <2>4 DEF FInv
<1> QED
  BY <1>7, <1>8

\* Nothing is sought any more.
LEMMA LaterFinds ==
  ASSUME FInv, TInv', stage \in {"copy", "digest"}, stage' \in {"copy", "digest", "end"},
         disk' = disk, candidates' = candidates, found' = found
  PROVE  FInv'
<1>1. ListOK' /\ LeftOK' /\ HeadOK' /\ BestOK'
  BY DEF FInv, ListOK, LeftOK, HeadOK, BestOK
<1>2. IsText(disk) => OrderOK'
  BY DEF FInv, OrderOK
<1> QED
  BY <1>1, <1>2 DEF FInv

LEMMA FInvNext == ASSUME TextStandsOut PROVE FInv /\ [Next]_vars => FInv'
<1> SUFFICES ASSUME FInv, [Next]_vars PROVE FInv'
  OBVIOUS
<1>0. TInv /\ TInv'
  BY TInvNext DEF FInv
<1>1. CASE Scan
  BY <1>1, ScanFinds
<1>2. CASE Search
  BY <1>2, SearchFinds
<1>3. CASE Judge
  BY <1>3, JudgeFinds
<1>4. CASE Take
  BY <1>4, TakeFinds
<1>5. CASE Copy
  BY <1>0, <1>5, LaterFinds DEF Copy
<1>6. CASE Digest
  BY <1>0, <1>6, LaterFinds DEF Digest
<1>7. CASE Extract
  BY <1>0, <1>7, LaterFinds DEF Extract
<1>8. CASE UNCHANGED vars
  BY <1>0, <1>8 DEF vars, FInv, ListOK, LeftOK, OrderOK, HeadOK, BestOK
<1> QED
  BY <1>1, <1>2, <1>3, <1>4, <1>5, <1>6, <1>7, <1>8 DEF Next

\* The blocks of a text are found in the order of the secret, all but the last one, in
\* whatever order the disk has them among the other candidates, when each of them stands
\* out behind those that come before it.
THEOREM TextIsFoundInOrder ==
  ASSUME TextStandsOut
  PROVE  Spec => []FoundInOrder
<1>1. FInv => FoundInOrder
  BY DEF FInv, FoundInOrder, IsText, OrderOK
<1> QED
  BY <1>1, FInvInit, FInvNext, PTL DEF Spec
=============================================================================
