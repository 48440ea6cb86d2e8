\* Burst longer than the table, so that the row runs off its end.
CONSTANTS
  Max = 5
  MaxBurst = 7

SPECIFICATION Spec

INVARIANTS
  TypeOK
  RowTakesLowest

CHECK_DEADLOCK TRUE
