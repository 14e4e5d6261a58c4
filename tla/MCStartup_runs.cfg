CONSTANTS
    Servers = {s1, s2}
    Tools = {t1}
    Migrations = 2
    None = None
SYMMETRY Symmetry
SPECIFICATION StartSpec
INVARIANT
    SchemaIsComplete
PROPERTY
    LoneStartSucceeds
    RootIsKept
