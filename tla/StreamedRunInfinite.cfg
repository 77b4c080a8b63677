CONSTANTS
  Price = 1
  MaxFrames = 3
  Labels <- MCLabels
  Frames <- MCFrames
  Documents <- MCDocuments
  HeaderIds <- MCHeaderIds
  LegacyRows <- MCLegacyInfinite
SPECIFICATION Spec
INVARIANTS UntrustedIsOffered
CHECK_DEADLOCK FALSE
