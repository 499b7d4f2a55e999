SPECIFICATION Spec
CONSTANTS
  Thread = {t1, t2}
  Driver = {d1, d2}
  MaxCounter = 2
  DisableAlone = FALSE
  InitAnytime = FALSE
  RegisterEarly = FALSE
INVARIANT TablesFollowCounter
