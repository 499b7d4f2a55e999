SPECIFICATION Spec
CONSTANTS
  Thread = {t1}
  Driver = {d1, d2}
  MaxCounter = 2
  DisableAlone = TRUE
  InitAnytime = FALSE
  RegisterEarly = TRUE
INVARIANT GatesFollowCounter
