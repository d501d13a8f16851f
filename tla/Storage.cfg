SPECIFICATION FairSpec
CONSTANTS
  k1 = k1
  Keys = {k1}
  Global = Global
  Absent = Absent
  Foreign = Foreign
  Invalid = Invalid
  NoKey = NoKey
  Settings <- MCAll
  MaxWrites = 3
INVARIANTS
  TypeOK
  InCallOrder
  ClosedIsDrained
PROPERTIES
  VisibleIsWritten
  ReopenShowsAcknowledged
  WritesSettle
  CloseEnds
