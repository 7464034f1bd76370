SPECIFICATION Spec
CONSTANTS
  MaxUint = 4
  Days <- MCDays
INVARIANTS
  TypeOK
  DailyTotalBounded
  WindowIsExact
PROPERTY
  StepDiscipline
