CONSTANT FileWords = {16384, 16385}
SPECIFICATION Spec
INVARIANT LramIsSpent
CHECK_DEADLOCK FALSE
