CONSTANTS
  HalfWord = 1
  One = 1
  LongMax = 4
  NaN = NaN
  PosInf = PosInf
  NegInf = NegInf
  NodeCount = 4
  DataType <- LiveTypes
  Scale <- ModbusScales
  Writable = {1}
  Unit <- LiveUnits
  Register <- LiveRegisters
  Enabled = TRUE
  RegisterBase = 10
  OffsetSpace = 4
  LegalUnits = {1, 2}
  TcpSlave = 255
  Device <- ModbusDevice
  PlantDriven <- NoRegisters
  BackoffInitial = 1
  BackoffMax = 3
  EventCount = 0
  NoRow = NoRow
  OtherLocks = {}
  RowCap = 2
  Source <- NoEvents
  Condition <- NoEvents
  Threshold <- NoEvents
  EmitMayFail = FALSE
  PersistEvery = 0
  ClientValues <- LiveClients
  Interrupts = {}
  NoValue = NoValue

SPECIFICATION Spec

PROPERTY
  CommittedOnNextTick
