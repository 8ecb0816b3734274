SPECIFICATION DedupSpec
CONSTANTS
  Ids = {m1, m2, m3, m4, m5}
  Capacity = 3
  Undefined = Undefined
PROPERTY
  RefinesWindow
