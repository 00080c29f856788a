SPECIFICATION Spec
CONSTANTS
    a = a
    b = b
    c = c
    u = u
    Rows <- MCRows
    Unsaved = {u}
    ToOne = {"boss"}
    ToMany = {"team"}
    Links <- MCLinks
    TypeAllows = {a, c, u}
    EdgeScoped = {"team"}
    EdgeAllows <- MCEdgeAllows
    Selections <- MCSelections
    RowSets = {{a, b}, {a, u}}
    OwnLoads <- MCOwnLoads
    Backends = {"sqlalchemy", "django", "tortoise"}
    Shared = {"sqlalchemy", "django"}
    Fields = {"f", "g"}
    MaxLoads = 3
INVARIANTS
    RootsAreReadable
    RelationsReadAsScoped
    MarksAreTrue
CHECK_DEADLOCK FALSE
