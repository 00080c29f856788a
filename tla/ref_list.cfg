SPECIFICATION Spec
CONSTANTS
    NotLoaded = NotLoaded
    Rows = {1, 2, 3, 4}
    Hidden = {3}
    Denied <- MCDenied
    Lists <- MCLists
    Starts = {{}, {1, 3}, {1, 2, 4}}
    Backends = {"sqlalchemy", "sqlalchemy_async", "django", "tortoise"}
    MaxOthers = 1
INVARIANTS
    ListEndsAsAsked
    ForbiddenRowsStay
    LossesComeLast
CHECK_DEADLOCK FALSE
