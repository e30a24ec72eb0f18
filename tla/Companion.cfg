SPECIFICATION Spec
CONSTANTS
    Servers = {1, 2, 3}
    Ports = {p1, p2}
    None = None
    MaxPushes = 1
    MaxClicks = 2
    Troubles = 1
SYMMETRY PortSymmetry
INVARIANTS OpenTabIsServed ClicksInOrder
CHECK_DEADLOCK FALSE
