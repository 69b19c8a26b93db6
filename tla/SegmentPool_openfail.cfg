SPECIFICATION Spec
CONSTANTS
    Threads = {t1, t2, t3}
    Count = 3
    Limits = {0, 1, 2}
SYMMETRY Symmetry
INVARIANT NobodyStranded
