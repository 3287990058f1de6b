CONSTANTS
  Templates = {"first"}
  Template <- EditedTemplates
  TableCount = 7
  ColumnCount = 9
  FoundVersions = {1}
  Null = Null
  NoRow = NoRow
  HalfWord = 2
  One = 2
  LongMax = 4
  NaN = NaN
  PosInf = PosInf
  NegInf = NegInf
  NodeType <- EditedTypes
  Samples <- FewSamples
  ClockCap = 1

SPECIFICATION FairSpec

PROPERTY
  MigratesEventually
