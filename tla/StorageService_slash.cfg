SPECIFICATION Spec
CONSTANTS
  f1 = f1
  f2 = f2
  Names <- MCNames
  None = None
  DirForms <- Slashed
  MaxUploads = 1
  MaxFaults = 0
  MaxCrashes = 0
INVARIANT Restartable
