SPECIFICATION Spec
CONSTANTS
    Names = {s1, s2}
    Callers = {c1, c2}
    MaxProviders = 3
    None = None
INVARIANT TypeOK
PROPERTY ImplementsTracerCache
