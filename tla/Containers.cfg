SPECIFICATION Spec
CONSTANTS
  Lists = {A, B}  Stacks = {S}  Links = {l1, l2, l3}  Holders = {c1}
  Vecs = {x, y}  Vals = {a, b}  RAW = RAW  DEF_RESERVE = 1  STEP = 2  MaxCap = 4
  Maps = {M}  Sets = {N}  Plain = {P}  Keys = {1, 2}  Memory = {n1, n2}  Items = {i1, i2}  Handles = {h1}
  Strings = {s1, s2}  Texts <- SomeTexts  Words <- SomeWords  MaxCalls = 4  UShortBits = 4  HashBits = 23
  Variants = {v1, v2, v3}  Types = {num, txt, lst}  SizeOf <- Sizes  MaxTypes = 3
  Functors = {f1, f2, f3}  MaxMoves = 1
  Blocks = {b1, b2, b3}  PoolTypes <- TypeList  PoolSizes <- SizeList
  NULL = NULL
SYMMETRY Symmetry
INVARIANTS ListRight IterationsComplete VectorRight TableCounts TextsKept RepalceRight SearchRight ObjectsRight
CHECK_DEADLOCK FALSE
