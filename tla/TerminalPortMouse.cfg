SPECIFICATION Spec
CONSTANTS
  Scenarios <- EditAndPreference
INVARIANTS
  InStep
