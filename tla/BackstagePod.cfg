SPECIFICATION Spec
CONSTANTS
  Names <- MCNames
  Keys <- MCKeys
  Dirs <- MCDirs
  Inputs <- MCInputs
INVARIANTS
  TypeOK
  ConfigArgsMounted
  ConfigArgsInOrder
  SamePod
  
  ImageEverywhere
  
  FailsAsModelled
  PanicsOnlyWithoutBackend
  SpecWins
CHECK_DEADLOCK FALSE
