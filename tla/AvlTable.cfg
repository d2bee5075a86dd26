SPECIFICATION Spec
CONSTANTS
  Maps = {M}  Sets = {}  Plain = {}  Keys = {1, 2}  Memory = {n1, n2}  Items = {i1, i2}  Handles = {h1}
  NULL = NULL
INVARIANTS InsertReports
CHECK_DEADLOCK FALSE
