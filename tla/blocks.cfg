CONSTANTS
  BlockSize = 8
  Md5Len = 1
  BlockCount = 3
  MaxCandidates = 4
  Direct = 1
  Byte = {0, 1, 2, 3, 4, 5, 6, 7}
  BitXor <- XorBytes
  Stream <- Streams
  Md5 <- SumOf
  CLogC <- CLogCs
  Threshold = 150
  TextEntropy = 0
  Disks <- AllDisks
SPECIFICATION Spec
INVARIANTS
  TypeOK
  FoundInOrder
PROPERTIES
  SecretComesOut
CHECK_DEADLOCK FALSE
