\* Two threads decode projections of two leaves, with errors and panics.
CONSTANTS
  Threads = {t1, t2}
  Schemas = {s1, s2}
  MaxLeaves = 2
  MaxRecords = 2
  Absent = Absent
SPECIFICATION Spec
INVARIANTS
  DecodedByOwnSchema
  SchemaActive
  StackRestored
