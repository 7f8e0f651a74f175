\* The sequencer under the fairness of the main loop, with counters of two
\* bits, in two halves of one bit each.
CONSTANTS
  WordMod = 8
  CounterMod = 2
  StartupAddr = 0
  Fetchable <- TwoWords
  Targets <- OneTarget
  DataAddrs <- MisalignedData
  Vectors <- Base
  Causes <- IllegalOrRefused
  Opcodes <- Zero
SPECIFICATION FairSpec
PROPERTIES TrapsDelivered ReturnsDelivered CountersExact
