SPECIFICATION Spec
CONSTANTS
  Writers = {w1, w2}
  Feeds = {f1, f2}
  Products = {p1, p2}
  Names = {n1, n2}
  NoWriter = NoWriter
PROPERTIES
  ActiveProductRemains
