SPECIFICATION Spec
CONSTANTS
    x = x
    y = y
    a = a
    b = b
    c = c
    Services <- SharedDatabase
    Created <- TwoThenOne
    Links <- LaterOnly
    Outcomes <- OneFails
    Retimed = {b}
    Loops = {l1, l2}
    Callers = {c1}
    CallerSweeps = {y}
    None = None
PROPERTIES
    StopEndsEveryLoop
    DueIsServed
CHECK_DEADLOCK FALSE
