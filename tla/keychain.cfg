\* The constants and the files of the programs, with the keys around the right ones;
\* and words of 6 bits, with every key.
SPECIFICATION Spec
CONSTANTS
  BitXor <- XorWords
  Near = 8
  Blob <- MCBlob
  Blah <- MCBlah
  Text <- MCText
  Mask6 <- MCMask6
  Text6 <- MCText6
  Blobs2 <- MCBlobs2
  Blobs3 <- MCBlobs3
INVARIANTS
  TypeOK
  Progress
  ClientAgrees
  Copied
  HandedOver
PROPERTY
  PrintsTheKeys
CHECK_DEADLOCK FALSE
