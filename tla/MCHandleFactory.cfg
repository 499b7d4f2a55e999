SPECIFICATION Spec
CONSTANTS
  Thread = {t1, t2}
  Driver = {d1, d2}
  Native = {n1, n2, n3}
  Wrapper = {w1, w2, w3, w4}
  None = None
  Kinds = {"context", "image", "imageViewExp", "sampler"}
  Recycle = FALSE
SYMMETRY Symmetry
INVARIANTS TypeOK HandlesResolve NothingLeftBehind ArgumentsTranslated NoStaleArguments
