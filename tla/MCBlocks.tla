------------------------------ MODULE MCBlocks ------------------------------
EXTENDS BlocksProofs

Xors == <<
  <<0, 1, 2, 3, 4, 5, 6, 7>>,
  <<1, 0, 3, 2, 5, 4, 7, 6>>,
  <<2, 3, 0, 1, 6, 7, 4, 5>>,
  <<3, 2, 1, 0, 7, 6, 5, 4>>,
  <<4, 5, 6, 7, 0, 1, 2, 3>>,
  <<5, 4, 7, 6, 1, 0, 3, 2>>,
  <<6, 7, 4, 5, 2, 3, 0, 1>>,
  <<7, 6, 5, 4, 3, 2, 1, 0>> >>
XorBytes(a, b) == Xors[a + 1][b + 1]

\* c * log2(c), in tenths.
CLogCs == [c \in 0 .. 8 |-> <<0, 0, 20, 48, 80, 116, 155, 197, 240>>[c + 1]]

Streams == [j \in 1 .. 24 |-> (j * j * 5 + 3 * j + (j \div 3)) % 8]

\* What made the secret: the inverse of DoRc4, with a digest at the head.
SumOf(bytes) == <<FoldLeft(LAMBDA sum, b : (sum * 3 + b) % 8, 1, bytes)>>

Encrypted(plain) ==
  LET chain == FoldRight(LAMBDA j, c :
                           <<XorBytes(XorBytes(plain[j], Streams[j]), IF c = <<>> THEN 0 ELSE c[1])>> \o c,
                         [j \in 1 .. Len(plain) |-> j], <<>>)
  IN SumOf(chain) \o chain

\* Two texts, as plain as so small a block must be, and bytes that are no text.
Texts ==
  {<<2, 2, 2, 2, 2, 2, 2, 2, 2, 2, 2, 2, 2, 2, 2, 2>>,
   <<1, 1, 1, 1, 1, 1, 1, 1, 6, 6, 6, 6, 6, 6, 6, 6>>,
   <<5, 1, 7, 3, 0, 1, 6, 1, 1, 0, 1, 2, 7, 3, 5, 1>>}

Part(cipher, n) == SubSeq(cipher, (n - 1) * 8 + 1, n * 8)

\* The blocks of the secret, the last one with what follows it on the disk, and others.
Pieces(plain, slack) ==
  LET c == Encrypted(plain)
  IN <<Part(c, 1), Part(c, 2), <<c[17]>> \o slack>>
Noise == <<3, 6, 0, 5, 1, 7, 2, 4>>
Other == <<7, 1, 2, 0, 4, 6, 5, 1>>
Pointers == <<1, 0, 2, 0, 0, 0, 0, 0>>
Slacks == {<<0, 0, 0, 0, 0, 0, 0>>, <<4, 0, 6, 2, 5, 3, 1>>}

Orders == {p \in [1 .. 5 -> 1 .. 5] : \A a, b \in 1 .. 5 : a # b => p[a] # p[b]}

\* Every order of five blocks, of which three, four or five are candidates, before a
\* last one.
AllDisks ==
  UNION {LET all == Pieces(t, s) \o <<Noise, b>>
         IN {[blocks |-> [n \in 1 .. 6 |-> IF n = 6 THEN Pointers ELSE all[p[n]]], plain |-> t,
              where |-> [n \in 1 .. 3 |-> CHOOSE w \in 1 .. 5 : p[w] = n]] : p \in Orders} :
         t \in Texts, s \in Slacks, b \in {Pointers, Other}}

\* What TextIsFoundInOrder is for: each block of the two texts stands out on these disks.
ASSUME TextAssumption == TextStandsOut
=============================================================================
