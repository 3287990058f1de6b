CONSTANTS
  HalfWord = 2
  One = 2
  LongMax = 12
  NaN = NaN
  PosInf = PosInf
  NegInf = NegInf
  Scales <- MCScales
  Samples <- MCSamples

SPECIFICATION Spec

INVARIANTS
  CodecTypeOK
  IntegersSurvive
  NearestRepresentable
  RestoreExact

PROPERTY
  WriteBackKeepsRegisters

CHECK_DEADLOCK FALSE
