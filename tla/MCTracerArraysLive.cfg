SPECIFICATION FairSpec
CONSTANTS
  Thread = {t1, t2}
  Tracer = {r1}
  Array = {a1, a2, a3, a4}
  Callback = {none}
  NoCallback = none
  EmptyArray = empty
  Null = null
  NoThread = noThread
  NoTracer = noTracer
  NoStore = noStore
  StoreBuffer = TRUE
  ControlInCallbacks = FALSE
PROPERTIES DestroyReturns DisabledFallsSilent CallsReturnWhenQuiet
