SPECIFICATION Spec
CONSTANTS
  Thread = {t1, t2}
  Handle = {h1, h2, h3, h4}
  None = None
  Kinds = {"context", "queue", "list", "clone", "immediate", "pool", "event", "counterEvent", "fence", "module", "buildLog", "kernel", "image", "sampler", "physicalMem"}
SYMMETRY Symmetry
INVARIANTS TypeOK ValidWhileLive DependentsAreChildren DestroysAreLegal ListCallsAreLegal
PROPERTY ImplementsDriverObjects
