\* Every allocation may fail; a memory of three pages.
SPECIFICATION Spec
CONSTANT NPages = 3
INVARIANTS FreedOnce WholePredictors
CHECK_DEADLOCK FALSE
