\* Writes to every kind of register.
CONSTANTS
  WordMod = 8
  CounterMod = 1
  StartupAddr = 0
  Fetchable <- TwoWords
  Targets <- OneTarget
  DataAddrs <- MisalignedData
  Vectors <- Base
  Causes <- IllegalOrRefused
  Opcodes <- Zero
SPECIFICATION Spec
INVARIANT OnlyReadOnlyThrows
