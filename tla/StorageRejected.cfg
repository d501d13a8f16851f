SPECIFICATION Spec
CONSTANTS
  k1 = k1
  Keys = {k1}
  Global = Global
  Absent = Absent
  Foreign = Foreign
  Invalid = Invalid
  NoKey = NoKey
  Settings <- MCNew
  MaxWrites = 1
INVARIANTS
  RejectedLeavesNoTrace
