\* The stores of a function to its stack frame.
CONSTANTS
  XLen = 16
  WordMod = 65536
  BitAnd <- WordAnd
  BitOr <- WordOr
  BitXor <- WordXor
  Instructions <- FrameAccesses
SPECIFICATION Spec
INVARIANT ImmediatesKept
CHECK_DEADLOCK FALSE
