SPECIFICATION MCSpec
CONSTANTS
  W = 2
  Sizes = {1, 3, 4, 5}
  Avoid = {"extend", "assign", "null"}
  Subjects = {"anyfrag"}
INVARIANT AddedIsThere
CHECK_DEADLOCK FALSE
