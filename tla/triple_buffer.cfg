SPECIFICATION FairSpec
CONSTANT MaxFrames = 5
INVARIANTS NeverTorn
PROPERTIES KeepsPromise
CHECK_DEADLOCK FALSE
