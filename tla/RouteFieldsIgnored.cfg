SPECIFICATION Spec
CONSTANT Inputs <- MCInputs
INVARIANT RouteSpecHonoured
