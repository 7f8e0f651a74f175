SPECIFICATION Spec
CONSTANTS
  ByteMod = 2
  WordMod = 16
  Banks <- RomAndRam
  BitAnd <- ByteAnd
  BitOr <- ByteOr
  PageSize = 4
  NumPages = 4
  MaxPte = 2
  NumRegs = 2
  Offsets <- NoOffset
  Fetches <- SomeFetches
  Results <- SomeResults
  InitVal = 1
  Programs <- OneFile
VIEW StateView
INVARIANT TypeOK
PROPERTIES
  RomKept
  RefusedKeepsAll
  WritesNeedRight
  ZeroLostBySwapOnly
  RefinesMachine
CHECK_DEADLOCK FALSE
