CONSTANTS
  HalfWord = 1
  One = 2
  LongMax = 4
  NaN = NaN
  PosInf = PosInf
  NegInf = NegInf
  NodeCount = 2
  DataType <- StoreTypes
  Scale <- StoreScales
  Writable = {1, 2}
  Unit <- StoreUnits
  Register <- StoreRegisters
  Enabled = FALSE
  RegisterBase = 10
  OffsetSpace = 4
  LegalUnits = {1, 2}
  TcpSlave = 255
  Device <- NoRegisters
  PlantDriven <- NoRegisters
  BackoffInitial = 1
  BackoffMax = 3
  EventCount = 2
  NoRow = NoRow
  OtherLocks = {"shared", "reserved"}
  RowCap = 2
  Source <- StoreSources
  Condition <- StoreConditions
  Threshold <- StoreThresholds
  EmitMayFail = TRUE
  PersistEvery = 2
  ClientValues <- StoreClients
  Interrupts = {"signal", "crash"}
  NoValue = NoValue

SPECIFICATION FairSpec

INVARIANTS
  NotifiedHasHistory
  OneRowPerActivation
  LatchFollowsCondition

PROPERTIES
  SnapshotAtomic
  RestoresSnapshot
  LastValuesStored
  NotifiedIsDurable
  TransactionClosed
  PersistenceResumes
