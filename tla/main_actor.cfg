CONSTANT MaxTaps = 4
SPECIFICATION Spec
PROPERTIES NumbersNeverGoBack EveryTapShown
CHECK_DEADLOCK FALSE
