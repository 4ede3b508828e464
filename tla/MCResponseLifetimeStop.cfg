SPECIFICATION Spec
CONSTANT Callers = {c1}
INVARIANT ReturnReleases
CHECK_DEADLOCK FALSE
