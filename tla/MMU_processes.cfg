\* Two processes share the TLB: every switch flushes it.
CONSTANTS
  MaxPages = 2
  MaxPte = 2
  MaxTlb = 1
  MaxProc = 2
  RefMod = 2
  StatMod = 1
  ReqPages <- TwoPages
  ReqAccess <- FetchModes
SPECIFICATION Spec
INVARIANTS TLBCoherent FramesConsistent
PROPERTIES MappingStable RefinesPageMap
