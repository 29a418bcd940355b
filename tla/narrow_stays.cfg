SPECIFICATION Spec
CONSTANTS
  s1 = s1
  s2 = s2
  f1 = f1
  f2 = f2
  f3 = f3
  NULL = NULL
  Srcs <- TwoSrcs
  Formats <- TwoFormats
  Accepts <- Narrow
  Keeps = {}
  Filters = {{f1}}
INVARIANT IntersectionOfListeners
