SPECIFICATION Spec
CONSTANTS
  cfg = cfg
  v1 = v1
  v2 = v2
  pw1 = pw1
  pw2 = pw2
  Specs <- RouteSpecs
  Apps = {1, 2}
  ConfigMaps = {cfg}
  CmValues = {v1, v2}
  Passwords = {pw1}
  Nothing = Nothing
  RawOverlay <- Overlays
  DefaultFiles <- NoRouteFile
  IsOpenShift = TRUE
  OwnsRuntime = TRUE
  LaggingKinds = {"deployment", "route"}
  Scenarios <- Routes
INVARIANTS
  SettledInSync
  DeployedMeansApplied
CHECK_DEADLOCK FALSE
