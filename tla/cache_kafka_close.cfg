SPECIFICATION Spec
CONSTANTS
    Callers = {c1, c2}
    Closer = closer
    Keys = {k1, k2}
    None = None
    Providers = {"kafka"}
    MaxClients = 3
SYMMETRY CallerSymmetry
INVARIANT NoneLeaked
