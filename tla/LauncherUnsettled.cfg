\* The validator may exit, or be ended by anybody's signal, at any time.
SPECIFICATION Spec
CONSTANT Tries = 3
INVARIANT FailureReported
CHECK_DEADLOCK FALSE
