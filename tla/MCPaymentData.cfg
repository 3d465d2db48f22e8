SPECIFICATION MCSpec
CONSTANTS
  Own = {o1, o2}
  Foreign = {f1}
  Notes = {n1}
  Offers = {p1}
  Threads = {t1, t2}
  Openers = {node, handler}
  Recorded <- MCRecorded
  Claims <- MCClaims
  Errors = {"none", "Unknown"}
  MaxConfigs = 3
  Blank = Blank
  None = None
SYMMETRY Symmetry
INVARIANTS
  InvoiceHasInfo
  HiddenIsLabelled
  LabelIsRight
  ReadsWhatWasStored
  OnlyRacesFail
PROPERTIES
  LabelStays
