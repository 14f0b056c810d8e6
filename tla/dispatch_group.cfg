CONSTANT MaxNum = 3
SPECIFICATION Spec
INVARIANTS ReportsAreTrue SerialInOrder
PROPERTY BothNotified
CHECK_DEADLOCK FALSE
