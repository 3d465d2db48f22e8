SPECIFICATION FairSpec
CONSTANTS
  Changes = {c}
  TopupChanges = {}
  Tasks = {t1, t2}
  MaxStray = 1
PROPERTIES
  RemoteCatchesUp
