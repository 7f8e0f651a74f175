\* Every kind of instruction, trap and return, and nested traps.
CONSTANTS
  WordMod = 16
  CounterMod = 1
  StartupAddr = 0
  Fetchable <- InMemory
  Targets <- TwoTargets
  DataAddrs <- MisalignedData
  Vectors <- VectoredAndDirect
  Causes <- FiveCauses
  Opcodes <- Zero
SPECIFICATION Spec
INVARIANTS TypeOK PendingExclusive NoPendingWhileRunning
PROPERTIES RefinesFlow NextInTurn
