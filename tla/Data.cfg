SPECIFICATION MCSpec
CONSTANTS
  W = 2
  Sizes = {1, 3, 4, 5}
  Avoid = {"extend", "assign", "null"}
  Subjects = {"plain", "ragged", "whole", "word", "lists", "vectors"}
INVARIANT BitsExact
INVARIANT CleanComparisons
INVARIANT WahExact
INVARIANT ListsExact
INVARIANT ListNodesExact
INVARIANT VectorsExact
CHECK_DEADLOCK FALSE
