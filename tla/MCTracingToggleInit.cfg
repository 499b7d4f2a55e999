SPECIFICATION Spec
CONSTANTS
  Thread = {t1}
  Driver = {d1}
  MaxCounter = 2
  DisableAlone = TRUE
  InitAnytime = TRUE
  RegisterEarly = FALSE
PROPERTY InterceptsStay
