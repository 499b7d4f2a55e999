SPECIFICATION SpecWithGaps
CONSTANTS
  Thread = {t1, t2}
  Driver = {d1, d2}
  Native = {n1, n2}
  Wrapper = {w1, w2, w3}
  None = None
  Kinds = {"imageViewExt"}
  Recycle = FALSE
INVARIANT ArgumentsTranslated
