SPECIFICATION FairSpec
CONSTANTS
  MaxIterations = 2
  MaxSteps = 3
  MaxTasks = 2
  MayThrow = TRUE
INVARIANTS TerminalInfoComplete CancelStopsSoon AnswersFromAll SubTasksEndFirst
PROPERTIES StreamEnds
