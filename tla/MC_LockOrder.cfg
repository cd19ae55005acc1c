CONSTANTS
    a1 = a1
    a2 = a2
    None = None
    Apps <- MCApps

SPECIFICATION Spec

SYMMETRY SymmApps

INVARIANT NoCircularWait
