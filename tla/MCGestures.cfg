\* Three fingers and a mouse, three presses.
CONSTANTS
    f1 = f1
    f2 = f2
    f3 = f3
    m = m
    Finger = {f1, f2, f3}
    Mouse = {m}
    MaxPress = 3
SPECIFICATION GesturesSpec
CHECK_DEADLOCK FALSE
INVARIANTS
    OneOutcome
    RestsClean
PROPERTIES
    PinchNeverPans
    LongPressAnswered
