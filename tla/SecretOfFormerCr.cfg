SPECIFICATION Spec
CONSTANTS
  cfg = cfg
  v1 = v1
  v2 = v2
  pw1 = pw1
  pw2 = pw2
  Specs <- DbSpecs
  Apps = {1, 2}
  ConfigMaps = {cfg}
  CmValues = {v1}
  Passwords = {pw1}
  Nothing = Nothing
  RawOverlay <- Overlays
  DefaultFiles <- DbFiles
  IsOpenShift = FALSE
  OwnsRuntime = TRUE
  LaggingKinds = {}
  Scenarios <- TwoCrs
INVARIANTS
  DbSecretGenerated
CHECK_DEADLOCK FALSE
