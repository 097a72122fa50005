SPECIFICATION FairSpec
CONSTANTS
  Wxids = {x1}
  Conns = {c1, c2}
  Objects = {o1, o2}
  Nobody = Nobody
  Circle = 2
  Expires = 2
  Workers = {w1, w2}
INVARIANTS TypeOK SlotsInSync RouteLive
PROPERTY SilentRemoved
