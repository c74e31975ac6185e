SPECIFICATION Spec
CONSTANTS
  Columns <- TableColumns
  Servers = {1, 2}
  Forms <- TwoForms
  Modulus = 7200
  Horizon = 2
  MaxRows = 1
  MaxEdits = 1
PROPERTY AlwaysDueRuns
