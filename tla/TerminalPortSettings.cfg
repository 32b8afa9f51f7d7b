SPECIFICATION Spec
CONSTANTS
  Scenarios <- SettingsEdits
INVARIANTS
  DrawTracked
