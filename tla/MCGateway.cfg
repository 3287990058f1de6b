CONSTANTS
  HalfWord = 1
  One = 1
  LongMax = 4
  NaN = NaN
  PosInf = PosInf
  NegInf = NegInf
  NodeCount = 2
  DataType <- WholeTypes
  Scale <- WholeOnes
  Writable = {1}
  Unit <- WholeOnes
  Register <- WholeRegisters
  Enabled = TRUE
  RegisterBase = 10
  OffsetSpace = 4
  LegalUnits = {1, 2}
  TcpSlave = 255
  Device <- WholeDevice
  PlantDriven <- NoRegisters
  BackoffInitial = 1
  BackoffMax = 2
  EventCount = 2
  NoRow = NoRow
  OtherLocks = {"shared", "reserved"}
  RowCap = 2
  Source <- LiveStoreSources
  Condition <- StoreConditions
  Threshold <- WholeThresholds
  EmitMayFail = FALSE
  PersistEvery = 2
  ClientValues <- WholeClients
  Interrupts = {"signal"}
  NoValue = NoValue

SPECIFICATION FairSpec

PROPERTIES
  MailboxSpec
  StopsEventually
  NoEventStarves
