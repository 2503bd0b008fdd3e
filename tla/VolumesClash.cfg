SPECIFICATION Spec
CONSTANTS
  Names <- MCNames
  Keys <- MCKeys
  Dirs <- MCDirs
  Inputs <- MCInputs
INVARIANT EachItemMounted
CHECK_DEADLOCK FALSE
