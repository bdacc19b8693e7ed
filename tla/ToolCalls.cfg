SPECIFICATION FairAll
CONSTANTS
  MaxCalls = 3
  Registries = {{}, {3}}
  MayHang = {3}
  MaxDeps = 2
  ShellCalls = {1, 2}
  Endless = {2}
INVARIANTS ResultsMatchCalls NoFalseTimeout LevelsSound DependenciesFirst NothingLeftBehind
PROPERTIES ExecuteReturnsAll
