SPECIFICATION SpecWithGaps
CONSTANTS
  Thread = {t1}
  Handle = {h1, h2, h3}
  None = None
  Kinds = {"context", "queue"}
INVARIANT ValidWhileLive
