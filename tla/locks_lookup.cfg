SPECIFICATION LockSpec
CONSTANTS
    User = {u1, u2}
    Ops <- AllOps
CHECK_DEADLOCK FALSE
PROPERTIES
    CallsReturn
