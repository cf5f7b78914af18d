SPECIFICATION Spec
CONSTANTS
  Keys = {1, 2, 3}
  Hash <- Collisions
  Size = 2
  Empty = 0
  Threads = {t1, t2, t3}
SYMMETRY ThreadSymmetry
INVARIANTS
  UniqueKeys
  CallsFindTheirKey
  InsertFailsOnlyWhenFull
PROPERTIES
  EntriesStay
