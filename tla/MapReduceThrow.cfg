SPECIFICATION Spec
CONSTANTS
  MaxIterations = 1
  MaxSteps = 1
  MaxTasks = 2
  MayThrow = TRUE
INVARIANTS NoDanglingReference
