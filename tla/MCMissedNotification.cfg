CONSTANTS
  HalfWord = 1
  One = 2
  LongMax = 4
  NaN = NaN
  PosInf = PosInf
  NegInf = NegInf
  NodeCount = 1
  DataType <- LiveStoreTypes
  Scale <- LiveStoreOnes
  Writable = {1}
  Unit <- LiveStoreOnes
  Register <- LiveStoreRegisters
  Enabled = FALSE
  RegisterBase = 10
  OffsetSpace = 4
  LegalUnits = {1, 2}
  TcpSlave = 255
  Device <- NoRegisters
  PlantDriven <- NoRegisters
  BackoffInitial = 1
  BackoffMax = 3
  EventCount = 2
  NoRow = NoRow
  OtherLocks = {"shared"}
  RowCap = 2
  Source <- LiveStoreSources
  Condition <- StoreConditions
  Threshold <- LiveStoreThresholds
  EmitMayFail = FALSE
  PersistEvery = 2
  ClientValues <- LiveStoreClients
  Interrupts = {"signal"}
  NoValue = NoValue

SPECIFICATION Spec

INVARIANT
  OneNotificationPerTransition
