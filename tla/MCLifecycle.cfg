CONSTANTS
  Templates = {"first", "second", "broken"}
  Template <- EditedTemplates
  TableCount = 3
  ColumnCount = 2
  FoundVersions = {0, 1, 3}
  Null = Null
  NoRow = NoRow
  HalfWord = 2
  One = 2
  LongMax = 4
  NaN = NaN
  PosInf = PosInf
  NegInf = NegInf
  NodeType <- EditedTypes
  Samples <- FewSamples
  ClockCap = 1

SPECIFICATION FairSpec

INVARIANTS
  LifeTypeOK
  SchemaComplete
  ServedIsRecorded
  RestoredIsStored

PROPERTIES
  NewerUntouched
  ConfigurationAtomic
  NoForgetting
  StartsEventually
  StopHonoured
