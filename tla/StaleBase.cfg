SPECIFICATION Spec
CONSTANTS
  cfg = cfg
  v1 = v1
  v2 = v2
  pw1 = pw1
  pw2 = pw2
  Specs <- PodSpecs
  Apps = {1, 2}
  ConfigMaps = {cfg}
  CmValues = {v1}
  Passwords = {pw1}
  Nothing = Nothing
  RawOverlay <- Overlays
  DefaultFiles <- PodFiles
  IsOpenShift = FALSE
  OwnsRuntime = TRUE
  LaggingKinds = {"deployment", "service"}
  Scenarios <- TwoEdits
INVARIANTS
  SyncedWithConfiguration
CHECK_DEADLOCK FALSE
