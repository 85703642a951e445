SPECIFICATION Spec
CONSTANTS
  W = 5
  Ids = {0, 1, 7}
  Names = {n1, n2, n3}
  MaxFields = 3
SYMMETRY Interchangeable
INVARIANTS FieldsApart OtherBitsKept FieldsHold
CHECK_DEADLOCK FALSE
