SPECIFICATION MCSpec
CONSTANTS
  Blocks = {b1, b2, b3}
  Null = Null
  Limit = 1
  MaxAllocs = 4
  c1 = c1
  c2 = c2
  c3 = c3
  None = None
  Subjects = {"strings"}
  AnyToC = TRUE
INVARIANT StringsKeepValues
