SPECIFICATION Spec
CONSTANTS
  Thread = {t1, t2, t3}
  Driver = {d1, d2}
  MaxCounter = 2
  DisableAlone = TRUE
  InitAnytime = FALSE
  RegisterEarly = FALSE
SYMMETRY Symmetry
INVARIANTS TypeOK TablesFollowCounter GatesFollowCounter GateNeedsCallback
PROPERTY InterceptsStay
