SPECIFICATION Spec
CONSTANTS
  None = None
  Catalog <- MCCatalog
  GrisMara = None
  Labor <- MCLabor
  Zones <- MCZones
  Rosario = "rosario"
  SinkPrices = {}
  RawNames <- MCRawNames
  Resolves <- MCResolves
  Sintered = {}
  Tables <- MCTables
  PerTrip = 6
  Tabs = {one, two}
  Messages <- MCMessages
  Notes <- MCNotes
  Spelled <- MCSpelled
  Overlaps <- MCOverlaps
  Begins <- MCBegins
  Slab = 300
  Sheets <- MCSheets
  Zone = "rosario"
  ZoneReadings <- MCZoneReadings
  TipReadings <- MCTipReadings
  Rereadings <- MCRereadings
  Corrections <- MCCorrections
  MaxMessages = 5
INVARIANTS PricesHold DocumentsHold DrawingsHold
PROPERTIES NewDrawingStartsAgain
SYMMETRY TabSymmetry
CHECK_DEADLOCK FALSE
