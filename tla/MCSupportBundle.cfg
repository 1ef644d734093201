CONSTANTS
  Result = {plain, captured}
  Captured = {captured}
  Absent = Absent
  Partial = Partial
SPECIFICATION Spec
INVARIANTS
  TypeOK
  AcceptedIsWhole
  WrittenIsAccepted
