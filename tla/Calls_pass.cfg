CONSTANTS
  None = None
  Undef = Undef
  Array = Array
  Broken = Broken
  Marker = "afast"
  TagWidth = 1
  Layers <- MCLayers
  Values <- MCValues
  Unsafe <- MCUnsafe
  Trials <- PassApis
  MaxNow = 4
SPECIFICATION Spec
INVARIANTS ArgumentsArrive PreflightSound AnswerArrives CacheHonest OrdinaryArrives TypesDeclared
CHECK_DEADLOCK FALSE
