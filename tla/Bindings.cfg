CONSTANTS
    Handles = {h1, h2, h3}
    Objects = {o1, o2}
    MaxInside = 1
    Locals = {s1, s2, s3, s4}
    Values = {v1, v2}
    MaxReleased = 2
    Guards = {g1, g2}
    Fills = {"0", " ", "*"}
    NULL = NULL
SPECIFICATION BindingsSpec
INVARIANTS
    Protection
    UndoneOnce
PROPERTIES
    ObjectsLiveWhileHeld
CHECK_DEADLOCK FALSE
