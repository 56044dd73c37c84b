SPECIFICATION Spec
CONSTANTS
  UnitsPerSecond <- MCUnitsPerSecond
  MaxI64 = 200000
  Schemas <- MCSchemas
  ValuesOf <- MCValuesOf
  Tables <- MCTables
  Absent = Absent
INVARIANT TextFitsType
INVARIANT RustKeepsValues
INVARIANT BindingsReadAlike
INVARIANT DatesAreRight
INVARIANT NamesAgree
INVARIANT NamesAreWhole
\* A call returns and nothing follows.
CHECK_DEADLOCK FALSE
