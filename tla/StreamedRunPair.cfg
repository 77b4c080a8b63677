CONSTANTS
  Price = 1
  MaxFrames = 3
  Labels <- MCLabels
  Frames <- MCFramesUnpaired
  Documents <- MCDocuments
  HeaderIds <- MCHeaderIds
  LegacyRows <- MCNoLegacy
SPECIFICATION Spec
PROPERTIES ShareIsOfOneBlock
CHECK_DEADLOCK FALSE
