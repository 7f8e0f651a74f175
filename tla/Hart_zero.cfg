SPECIFICATION Spec
CONSTANTS
  ByteMod = 2
  WordMod = 16
  Banks <- RomAndRam
  BitAnd <- ByteAnd
  BitOr <- ByteOr
  PageSize = 8
  NumPages = 2
  MaxPte = 1
  NumRegs = 2
  Offsets <- NoOffset
  Fetches <- SomeFetches
  Results <- SomeResults
  InitVal = 1
  Programs <- OneFile
INVARIANT ZeroIsZero
CHECK_DEADLOCK FALSE
