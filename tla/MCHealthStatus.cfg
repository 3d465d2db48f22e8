SPECIFICATION FairSpec
CONSTANTS
  Tasks = {t1, t2}
  Statuses = {ok, bad}
  None = None
INVARIANTS
  KeptIsTold
PROPERTIES
  CallsAreNews
  AppLearns
