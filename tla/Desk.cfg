SPECIFICATION Spec
CONSTANTS
  Ids = {1, 2}
  Repeats = {0, 1}
  MaxTime = 2
  MaxCreates = 1
  MaxArmings = 2
  MaxMishaps = 1
  ReportIds = {1, 2}
  Writers = {w1, w2}
  Cap = 1
  MaxUpsets = 2
  Schedules = {"s", "t"}
  Ceiling = 2
  MaxFailures = 1
  MaxDays = 2
  Runs = {"r1", "r2"}
  Projects = {"p", "q"}
  STEPS <- MCSteps
CHECK_DEADLOCK FALSE
INVARIANTS
  RemInv
  ReportsInv
  InstInv
PROPERTIES
  DeskConcludes
