SPECIFICATION Spec
CONSTANTS
  Names <- ThreeNames
  Default = "default"
  Callers = {c1, c2}
  Slot <- Collide
  budget = 12
  MaxTables = 4
INVARIANTS TablesServed 
SYMMETRY Symmetry
CHECK_DEADLOCK FALSE
