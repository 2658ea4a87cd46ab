SPECIFICATION Spec
CONSTANTS
    Threads = {"t1", "t2", "t3"}
    Clients = {"c1", "c2"}
    Uses <- MCUses
INVARIANTS GettersAnswered
CONSTRAINT InScope
CHECK_DEADLOCK FALSE
