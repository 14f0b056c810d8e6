CONSTANT MaxQueued = 3
SPECIFICATION Spec
INVARIANTS CancelStops TrapsOnlyAcrossThreads
PROPERTIES NeverMessagedAfterCancel SettlesAfterCancel
CHECK_DEADLOCK FALSE
