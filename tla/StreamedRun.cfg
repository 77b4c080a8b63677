CONSTANTS
  Price = 1
  MaxFrames = 3
  Labels <- MCLabels
  Frames <- MCFrames
  Documents <- MCDocuments
  HeaderIds <- MCHeaderIds
  LegacyRows <- MCLegacy
SPECIFICATION Spec
INVARIANTS OnTheRecordOnce OffTheListIsWhole
PROPERTIES RecordIsTheWire LabelsAreTrue LedgerAgreesWithReport AuditOnlyAdds
CHECK_DEADLOCK FALSE
