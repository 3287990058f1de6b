CONSTANTS
  HalfWord = 1
  One = 1
  LongMax = 4
  NaN = NaN
  PosInf = PosInf
  NegInf = NegInf
  NodeCount = 4
  DataType <- ModbusTypes
  Scale <- ModbusScales
  Writable = {1, 2, 3, 4}
  Unit <- ModbusUnits
  Register <- ModbusRegisters
  Enabled = TRUE
  RegisterBase = 10
  OffsetSpace = 4
  LegalUnits = {1, 2}
  TcpSlave = 255
  Device <- ModbusDevice
  PlantDriven <- ModbusPlant
  BackoffInitial = 1
  BackoffMax = 3
  EventCount = 0
  NoRow = NoRow
  OtherLocks = {}
  RowCap = 2
  Source <- NoEvents
  Condition <- NoEvents
  Threshold <- NoEvents
  EmitMayFail = FALSE
  PersistEvery = 0
  ClientValues <- ModbusClients
  Interrupts = {"crash"}
  NoValue = NoValue

SPECIFICATION FairSpec

INVARIANTS
  TypeOK
  CacheCoherent
  RetryWindow

PROPERTIES
  ReadsOwnRegisters
  CommandsStayOnNode
  MailboxSpec
  AllNodesPolled
