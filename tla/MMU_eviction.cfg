\* One process with more pages than slots and than frames, and its statistics.
CONSTANTS
  MaxPages = 2
  MaxPte = 3
  MaxTlb = 2
  MaxProc = 1
  RefMod = 2
  StatMod = 2
  ReqPages <- FourPages
  ReqAccess <- FetchOnly
SPECIFICATION Spec
INVARIANTS TypeOK EntriesAllocated TLBCoherent TLBUnique GrantedIsCached PageHitsReconcile
