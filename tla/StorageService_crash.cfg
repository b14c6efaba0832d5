SPECIFICATION Spec
CONSTANTS
  f1 = f1
  f2 = f2
  Names <- MCNames
  None = None
  DirForms <- Plain
  MaxUploads = 2
  MaxFaults = 3
  MaxCrashes = 2
SYMMETRY Symmetry
INVARIANTS
  DurableUploads
  BytesOfEntriesExist
  MemoryMatchesDisk
  NoResidue
PROPERTIES
  NoOverwrite
  OnlyOwnRemoved
  ImplementsStore
