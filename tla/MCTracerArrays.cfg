SPECIFICATION Spec
CONSTANTS
  Thread = {t1, t2}
  Tracer = {r1, r2}
  Array = {a1, a2, a3, a4}
  Callback = {none, cb}
  NoCallback = none
  EmptyArray = empty
  Null = null
  NoThread = noThread
  NoTracer = noTracer
  NoStore = noStore
  StoreBuffer = FALSE
  ControlInCallbacks = TRUE
SYMMETRY Symmetry
INVARIANTS TypeOK PinnedArrayLive InHandTracersHeld InHandCallbacksCurrent ArraysAccounted ActiveArrayCurrent
PROPERTY ImplementsRegistry
