CONSTANTS
  None = None
  Undef = Undef
  Array = Array
  Broken = Broken
  Marker = "afast"
  TagWidth = 1
  Layers <- MCLayers
  Values <- MCValues
  Unsafe <- MCUnsafe
  Trials <- TsNegatives
  MaxNow = 4
SPECIFICATION Spec
INVARIANT AnswerArrives
CHECK_DEADLOCK FALSE
