SPECIFICATION FairSpec
CONSTANTS
  Thread = {t1, t2}
  Tracer = {r1, r2}
  Array = {a1, a2, a3}
  Callback = {none}
  NoCallback = none
  EmptyArray = empty
  Null = null
  NoThread = noThread
  NoTracer = noTracer
  NoStore = noStore
  StoreBuffer = FALSE
  ControlInCallbacks = FALSE
PROPERTIES DestroyReturns
