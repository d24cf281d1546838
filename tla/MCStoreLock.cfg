SPECIFICATION Spec
CONSTANTS
    p1 = p1
    p2 = p2
    p3 = p3
    a = a
    b = b
    c = c
    d = d
    e = e
    Processes = {p1, p2, p3}
    Callers = {a, b, c, d, e}
    Home <- MCHome
INVARIANTS
    TypeOK
    Exclusion
    RegistryAgrees
    RefusedIffConflict
PROPERTIES
    ImplementsRWLock
