CONSTANTS
  Heads = {h1, h2}
  Elements = {e1, e2, e3}
  NULL = null
  Debug <- BothBuilds
SPECIFICATION Spec
INVARIANT LinksInverse
PROPERTIES IsQueue EndsAreEnds
