SPECIFICATION RoutesSpec
CONSTANTS
  Patterns <- MCPatterns
  Paths <- MCPaths
  Names = {"a", "b"}
  Given <- MCGiven
  MaxCalls = 3
INVARIANTS LookupAgrees EndpointsStay GuardsApply IdFoundByName
CHECK_DEADLOCK FALSE
