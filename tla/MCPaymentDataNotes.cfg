SPECIFICATION MCSpec
CONSTANTS
  Own = {}
  Foreign = {f1}
  Notes = {n1}
  Offers = {}
  Threads = {t1}
  Openers = {node}
  Recorded <- MCRecorded
  Claims <- MCClaims
  Errors = {"none", "Unknown"}
  MaxConfigs = 3
  Blank = Blank
  None = None
PROPERTIES
  NotesStay
