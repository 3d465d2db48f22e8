SPECIFICATION Spec
CONSTANTS
  Changes = {c, d, f}
  TopupChanges = {f}
  Tasks = {t1, t2}
  MaxStray = 1
SYMMETRY Symmetry
INVARIANTS
  CompleteMeansBackedUp
  TornOnlyByOverlap
PROPERTIES
  RemoteKeepsBackedUp
