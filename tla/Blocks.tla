------------------------------- MODULE Blocks -------------------------------
(***************************************************************************)
(* The secret file, whose blocks are somewhere on a partition.             *)
(*                                                                         *)
(* findblocks.c keeps the blocks of high entropy and looks, for each block *)
(* of the secret in turn, for the one whose entropy falls most when it is  *)
(* decrypted there.  extract.c copies the blocks that it has shown, which  *)
(* are contiguous but for one, checks their digest and decrypts them.      *)
(***************************************************************************)
EXTENDS Integers, SequencesExt

CONSTANTS
  BlockSize, Md5Len, BlockCount, MaxCandidates,
  Direct,        \* the blocks of the secret before the one that is excluded
  Byte, BitXor(_, _),
  Stream,        \* what RC4 adds to each byte
  Md5(_),
  CLogC,         \* CLogC[c]: c * log(c)
  Threshold,     \* the entropy of a candidate (7.8)
  TextEntropy,   \* and of a block of text, at most
  Disks          \* the partitions: [blocks, plain, where]

ASSUME BlocksAssumption ==
  /\ {BlockSize, Md5Len, BlockCount, MaxCandidates} \subseteq Nat \ {0}
  /\ Md5Len < BlockSize /\ Direct \in 1 .. BlockCount - 1
  /\ IsFiniteSet(Byte) /\ 0 \in Byte
  /\ \A a, b \in Byte : BitXor(a, b) \in Byte
  /\ \A j \in 1 .. BlockCount * BlockSize : Stream[j] \in Byte
  /\ \A c \in 0 .. BlockSize : CLogC[c] \in Int
  /\ Threshold \in Nat
  /\ \A d \in Disks :
       /\ d.blocks \in Seq([1 .. BlockSize -> Byte])
       /\ d.where \in [1 .. BlockCount -> 1 .. Len(d.blocks) - 1] /\ IsInjective(d.where)

VARIABLES
  disk,        \* the partition, and what is secret: the file and where its blocks are
  stage,       \* "scan", "search", "copy", "digest" or "end"
  i, k,        \* the counters of the loops
  candidates, left,      \* candidates, candidates_entropy
  best, drop,  \* block_found (0 for the first candidate by default), entropy_diff
  found,       \* found_blocks, and what is printed
  bufIn, bufOut,
  output       \* the file written by extract

vars == <<disk, stage, i, k, candidates, left, best, drop, found, bufIn, bufOut, output>>

Zeros(n) == [j \in 1 .. n |-> 0]
SecretSize == (BlockCount - 1) * BlockSize + Md5Len

\* log(size) - sum of c * log(c) / size, times size.
Entropy(bytes) ==
  CLogC[Len(bytes)]
    - FoldSet(LAMBDA v, sum : sum + CLogC[Cardinality({j \in DOMAIN bytes : bytes[j] = v})], 0, Byte)

DoRc4(src) ==
  [j \in 1 .. Len(src) |->
     BitXor(IF j < Len(src) THEN BitXor(src[j], src[j + 1]) ELSE src[j], Stream[j])]

SkipMd5(bytes) == SubSeq(bytes, Md5Len + 1, Len(bytes))

Init ==
  /\ disk \in Disks
  /\ stage = "scan" /\ i = 0 /\ k = 0
  /\ candidates = <<>> /\ left = <<>> /\ best = 1 /\ drop = 0 /\ found = <<>>
  /\ bufIn = <<>> /\ bufOut = Zeros(BlockCount * BlockSize) /\ output = <<>>

-----------------------------------------------------------------------------
(* findblocks *)

\* Slip: the limit is looked at before the candidate is counted.
ScanLate ==
  /\ stage = "scan" /\ i < Len(disk.blocks)
  /\ LET e == Entropy(disk.blocks[i + 1])
     IN IF e > Threshold
          THEN candidates' = Append(candidates, i + 1) /\ left' = Append(left, e)
          ELSE UNCHANGED <<candidates, left>>
  /\ i' = i + 1
  /\ stage' = IF Len(candidates) > MaxCandidates THEN "end" ELSE "scan"
  /\ UNCHANGED <<disk, k, best, drop, found, bufIn, bufOut, output>>

\* One block of the partition.  The candidate too many has been written behind the
\* arrays when the program stops.
Scan ==
  /\ stage = "scan" /\ i < Len(disk.blocks)
  /\ LET e == Entropy(disk.blocks[i + 1])
     IN IF e > Threshold
          THEN candidates' = Append(candidates, i + 1) /\ left' = Append(left, e)
          ELSE UNCHANGED <<candidates, left>>
  /\ i' = i + 1
  /\ stage' = IF Len(candidates') > MaxCandidates THEN "end" ELSE "scan"
  /\ UNCHANGED <<disk, k, best, drop, found, bufIn, bufOut, output>>

\* Without any candidate, blocks that are not initialised would be tried: left out.
Search ==
  /\ stage = "scan" /\ i = Len(disk.blocks) /\ candidates # <<>>
  /\ stage' = "search" /\ i' = 0 /\ k' = 0 /\ best' = 1 /\ drop' = 0
  /\ UNCHANGED <<disk, candidates, left, found, bufIn, bufOut, output>>

\* Slip: the blocks are judged where the digest was not taken off.
DecryptedWithMd5(block) ==
  SubSeq(DoRc4(bufIn \o block), i * BlockSize + 1, (i + 1) * BlockSize)

\* What is decrypted of block i, when it is the given one: its last Md5Len bytes are
\* still to come.
Decrypted(block) ==
  LET plain == DoRc4(SkipMd5(bufIn \o block)) \o Zeros(Md5Len)
  IN SubSeq(plain, i * BlockSize + 1, (i + 1) * BlockSize)

\* One candidate for block i; those that have been found have no entropy left.
Judge ==
  /\ stage = "search" /\ k < Len(candidates)
  /\ LET fall == left[k + 1] - Entropy(Decrypted(disk.blocks[candidates[k + 1]]))
     IN IF left[k + 1] # 0 /\ fall > drop
          THEN best' = k + 1 /\ drop' = fall
          ELSE UNCHANGED <<best, drop>>
  /\ k' = k + 1
  /\ UNCHANGED <<disk, stage, i, candidates, left, found, bufIn, bufOut, output>>

Taken(b) == [left EXCEPT ![b] = 0]

\* The end of the secret, where findblocks stops: its user goes on with extract when
\* the blocks have turned out to be contiguous.
Contiguous ==
  \A n \in 1 .. BlockCount :
    disk.where[n] = disk.where[1] + n - (IF n <= Direct THEN 1 ELSE 0)

Take ==
  /\ stage = "search" /\ k = Len(candidates)
  /\ found' = Append(found, candidates[best])
  /\ left' = Taken(best)
  /\ best' = 1 /\ drop' = 0 /\ k' = 0
  /\ IF i + 1 < BlockCount
       THEN i' = i + 1 /\ bufIn' = bufIn \o disk.blocks[candidates[best]] /\ stage' = stage
       ELSE /\ i' = disk.where[1] /\ bufIn' = <<>>
            /\ stage' = IF Contiguous THEN "copy" ELSE "end"
  /\ UNCHANGED <<disk, candidates, bufOut, output>>

-----------------------------------------------------------------------------
(* extract *)

START == disk.where[1]
END == START + BlockCount + 1
EXCLUDED == START + Direct

\* Slip: no block is left out.
CopyAll ==
  /\ stage = "copy" /\ i <= END
  /\ bufIn' = IF Len(bufIn) < BlockCount * BlockSize THEN bufIn \o disk.blocks[i] ELSE bufIn
  /\ i' = i + 1
  /\ UNCHANGED <<disk, stage, k, candidates, left, best, drop, found, bufOut, output>>

\* The loop copies a block more than bufIn has room for; what follows bufIn in memory
\* may be bufOut.
Copy ==
  /\ stage = "copy" /\ i <= END
  /\ IF i = EXCLUDED THEN UNCHANGED <<bufIn, bufOut>>
     ELSE IF Len(bufIn) < BlockCount * BlockSize
       THEN bufIn' = bufIn \o disk.blocks[i] /\ bufOut' = bufOut
       ELSE /\ bufIn' = bufIn
            /\ bufOut' \in {bufOut, disk.blocks[i] \o SubSeq(bufOut, BlockSize + 1, Len(bufOut))}
  /\ i' = i + 1
  /\ UNCHANGED <<disk, stage, k, candidates, left, best, drop, found, output>>

\* The digest of the file is at its head.
Digest ==
  /\ stage = "copy" /\ i > END
  /\ stage' = IF Md5(SubSeq(bufIn, Md5Len + 1, SecretSize)) = SubSeq(bufIn, 1, Md5Len)
                THEN "digest" ELSE "end"
  /\ UNCHANGED <<disk, i, k, candidates, left, best, drop, found, bufIn, bufOut, output>>

Extract ==
  /\ stage = "digest"
  /\ LET plain == DoRc4(SubSeq(bufIn, Md5Len + 1, SecretSize))
     IN /\ bufOut' = plain \o SubSeq(bufOut, Len(plain) + 1, Len(bufOut))
        /\ output' = SubSeq(bufOut', 1, SecretSize - Md5Len)
  /\ stage' = "end"
  /\ UNCHANGED <<disk, i, k, candidates, left, best, drop, found, bufIn>>

Next == Scan \/ Search \/ Judge \/ Take \/ Copy \/ Digest \/ Extract

\* Two programs that run by themselves.
Spec == Init /\ [][Next]_vars /\ WF_vars(Next)

-----------------------------------------------------------------------------
(* Properties *)

\* Every variable has its type, and at most one candidate is written behind the
\* arrays of findblocks, which then stops.
TypeOK ==
  /\ stage \in {"scan", "search", "copy", "digest", "end"}
  /\ i \in 0 .. Len(disk.blocks) + 1 /\ k \in 0 .. Len(candidates)
  /\ candidates \in Seq(1 .. Len(disk.blocks)) /\ left \in Seq(Nat)
  /\ Len(left) = Len(candidates)
  /\ Len(candidates) <= MaxCandidates + (IF stage = "end" THEN 1 ELSE 0)
  /\ candidates = <<>> \/ best \in 1 .. Len(candidates)
  /\ drop \in Nat
  /\ found \in Seq(1 .. Len(disk.blocks)) /\ Len(found) <= BlockCount
  /\ {bufIn, bufOut, output} \subseteq Seq(Byte)
  /\ Len(bufIn) <= BlockCount * BlockSize /\ Len(bufOut) = BlockCount * BlockSize

\* When the secret is a text, its blocks are found in order, in spite of the bytes
\* that are missing or wrong at the end of what is decrypted; but for the last one,
\* of which only the bytes behind the secret are ever looked at.
FoundInOrder ==
  (\A n \in 1 .. BlockCount - 1 :
     Entropy(SubSeq(disk.plain, (n - 1) * BlockSize + 1, n * BlockSize)) <= TextEntropy)
    => \A n \in 1 .. BlockCount - 1 : n <= Len(found) => found[n] = disk.where[n]

\* The secret comes out of extract once its blocks are contiguous, although the loop
\* copies one block too many.
SecretComesOut ==
  stage = "search" /\ Contiguous ~> stage = "end" /\ output = disk.plain
=============================================================================
