SPECIFICATION Spec
CONSTANTS
    Null = Null
    None = None
    Rows = {1, 2, 3, 4, 5}
    Columns = {"k", "d"}
    Table <- MCTable
    Allowed = {1, 2, 3, 4}
    Fields = {"f", "g", "h"}
    OperationOf <- MCOperationOf
    Async = {"p"}
    Backends = {"sqlalchemy", "django", "tortoise"}
    Requests <- MCRequests
INVARIANTS
    GroupsAreTheFieldsOwn
CHECK_DEADLOCK FALSE
