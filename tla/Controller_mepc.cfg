\* A refused load.
CONSTANTS
  WordMod = 16
  CounterMod = 1
  StartupAddr = 0
  Fetchable <- InMemory
  Targets <- OneTarget
  DataAddrs <- MisalignedData
  Vectors <- Base
  Causes <- IllegalOrRefused
  Opcodes <- Zero
SPECIFICATION Spec
PROPERTY EpcIsPc
