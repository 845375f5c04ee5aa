SPECIFICATION Spec
CONSTANTS
    l = l
    f = f
    w1 = w1
    w2 = w2
    disk1 = disk1
    disk2 = disk2
    None = None
    Sessions = {l, f}
    Setups <- Disturbed
INVARIANTS SessionIsolation CountedOnce
