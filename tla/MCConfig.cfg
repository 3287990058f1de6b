CONSTANTS
  PlantSections <- MCPlants
  AssetSections <- MCAssets
  NodeSections <- MCNodes
  EventSections <- MCEvents
  MaxAssets = 3
  MaxNodes = 2
  MaxEvents = 2
  MaxText = 2
  MaxUnit = 2
  UShortMax = 3
  UIntMax = 5
  ULongMax = 7
  NotNumber = NotNumber
  NaN = NaN

SPECIFICATION Spec

INVARIANTS
  ConfigTypeOK
  LoaderIsExact
  EventWatchesOwnAsset
  AcceptedIsServed
  TreeAsWritten

CHECK_DEADLOCK FALSE
