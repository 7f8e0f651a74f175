\* One refusal on the way through the page tables.
CONSTANTS
  MaxPages = 2
  MaxPte = 1
  MaxTlb = 1
  MaxProc = 2
  RefMod = 2
  StatMod = 1
  ReqPages <- TwoPages
  ReqAccess <- FetchUser
SPECIFICATION Spec
INVARIANT DocumentedCodes
