SPECIFICATION Spec
CONSTANT Attempts = 1
CHECK_DEADLOCK FALSE
INVARIANT NoneLeftIsTrue
