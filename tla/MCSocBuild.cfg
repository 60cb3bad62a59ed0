CONSTANT FileWords = {16384, 16385}
SPECIFICATION Spec
INVARIANT RaisesOnlyWhenUnbuildable
INVARIANT WindowsDisjoint
INVARIANT ResetIsMapped
INVARIANT LramSharedOut
INVARIANT ArenaAsConfigured
INVARIANT MemoriesClocked
INVARIANT BootsAnImage
CHECK_DEADLOCK FALSE
