SPECIFICATION Spec
CONSTANTS
  s1 = s1
  s2 = s2
  f1 = f1
  f2 = f2
  f3 = f3
  NULL = NULL
  Srcs <- TwoSrcs
  Formats <- ThreeFormats
  Accepts <- Tastes
  Keeps = {s2}
  Filters = {{f1}, {f2, f3}}
INVARIANT TypeOK
INVARIANT NegotiatedByListeners
PROPERTY ToldWhatItOffered
PROPERTY CallsEnd
