\* Every format at every offset, every operation at the edges of its operands.
CONSTANTS
  XLen = 16
  WordMod = 65536
  BitAnd <- WordAnd
  BitOr <- WordOr
  BitXor <- WordXor
  Instructions <- Program
SPECIFICATION Spec
INVARIANTS TypeOK OffsetsDecoded ComparisonsDecided ShiftsDone SwapsRead RestDone
CHECK_DEADLOCK FALSE
