SPECIFICATION Spec
CONSTANT Inputs <- MCInputs
INVARIANTS
  TypeOK
  
  ReferencesClosed
  SameCredentials
  AppliedNotCleaned
  SortedForReconcile
  ComputesClosedForm
