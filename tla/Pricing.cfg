SPECIFICATION Spec
CONSTANTS
  None = None
  Catalog <- MCCatalog
  GrisMara = "mara"
  Labor <- MCLabor
  Zones <- MCZones
  Rosario = "rosario"
  SinkPrices <- MCSinkPrices
  Inputs <- MCInputs
  Phrases <- MCPhrases
  PieceLists <- MCPieceLists
  Patches <- MCPatches
  Main = "quote"
  Siblings = {"other"}
  PlanAttached = FALSE
  MaxCalls = 5
INVARIANTS PricesHold FamilyRespected CalculatorAccepted
PROPERTIES Paso1IsPriced RecalculationsKeep
CHECK_DEADLOCK FALSE
