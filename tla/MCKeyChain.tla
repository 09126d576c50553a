------------------------------ MODULE MCKeyChain -----------------------------
EXTENDS KeyChainProofs, Bitwise

\* A table of the bytes, that TLC works out once.
XorBytes == [a \in 0 .. 255 |-> [b \in 0 .. 255 |-> a ^^ b]]
XorWords(a, b) == XorBytes[a % 256][b % 256] + 256 * XorBytes[a \div 256][b \div 256]

Block(start, words) ==
  [s \in {start + 2 * n : n \in 0 .. Len(words) - 1} |-> words[(s - start) \div 2 + 1]]

\* input/data/blob, in words.
MCBlob == Block(80, <<
  \h4861, \he8e9, \h2758, \h92bc, \hd16e, \h7da3, \hed78, \h849c, \h1fca, \h65cb,
  \h968a, \h5ca8, \h4e2c, \h8cd5, \h8f72, \h8f80, \h04fe, \h84aa, \h0f28, \h2f26,
  \h4f9c, \h178d, \he742, \hb719, \h38bd, \h18b4, \hcc7d, \h5d25, \h4ea7, \h1268,
  \hb4ee, \h64dc, \h136f, \h9f79, \h174d, \h3289, \h20a0, \hcdbb, \h10f1, \h3aa1,
  \hd221, \h5d4d, \hd0c8, \h8414, \h9660, \h193a, \hcd24, \h8f53, \ha5b5, \h676b,
  \hbed1, \h66c6, \h8cf1, \hf76d, \ha276, \had0c, \heb89, \h9edb, \h5a49, \h31d0,
  \h61d7, \hec71, \h6bd3, \h54cc, \h9f9f, \hd783, \h5eda, \haf7d, \h0ff9, \hd507,
  \h7538, \h1063, \h5ae7, \h615d, \h3699, \h2666, \he698, \h7c9b, \he8a9, \h351d,
  \h5282, \h7539, \h700b, \h2a0e, \h95b2, \hcaf3, \hf7e8, \hee11, \h2f0c, \he123,
  \h8048, \h9eb5, \h88d7, \hc73d, \h3c88, \h7497, \h1608, \h7539, \hcbe6, \he180,
  \hd665, \hb63d, \hb880, \h399e, \h3924, \h0579, \h8feb, \h53fd, \h9759, \h8bca,
  \h4979, \h2653, \h96ae, \heb84, \h4d7a, \h64b4, \hcafe, \hd5a8, \h39fc, \h612e,
  \h1619, \h64c2, \h2315, \hd81e, \he996, \h4734, \h8fa5, \hc466 >>)

\* input/data/blah.
MCBlah == Block(4, <<
  \h64ba, \h5413, \h7097, \h0e73, \h62fa, \h1961, \h5756, \h3138, \hc9c3, \h3652,
  \h3d5b, \haf6e, \h5606, \hb749, \h4d0f, \hac54 >>)

\* "V29vdCAhISBTbWVsbHMgZ29vZCA6KQ==".
MCText == Block(4, <<
  \h3256, \h7639, \h4364, \h6841, \h5349, \h5442, \h5762, \h7356, \h4862, \h674d,
  \h325a, \h7639, \h435a, \h3641, \h514b, \h3d3d >>)

\* Words of 6 bits: no two words of the masks, of the text and of the second and
\* the third block of layer 2 are the same.
MCMask6 == [s \in {2 * n : n \in 2 .. 12} |-> (5 * s * s + 11 * s + 3) % 64]
Slots2 == {10 + 2 * n : n \in 0 .. 7}
MCBlobs2 == {[s \in Slots2 |-> (f[1] * s + f[2]) % 64] : f \in {<<0, 0>>, <<1, 0>>, <<3, 1>>}}
MCText6 == [s \in {4, 6, 8} |-> (7 * s + 3) % 64]

\* The text encrypted with words that have one key, two and none, and a block that
\* is no encryption of it.
Encrypted(w) ==
  [s \in {4, 6, 8} |-> XorWords(XorWords(MCText6[s], MCMask6[s]), w)]
MCBlobs3 ==
  {Encrypted(w) : w \in {0, 6, 7, 40, 62, 63}} \union {[s \in {4, 6, 8} |-> s]}
=============================================================================
