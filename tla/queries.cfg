SPECIFICATION AskSpec
CONSTANTS
    NullValue = NullValue
    NoRow = NoRow
    Unscoped = Unscoped
    IntColumns = {"id", "age"}
    MaxDepth = 2
    MaxBranches = 2
    MaxInList = 2
    NoValue = NoValue
    MaxRemembered = 2
    OrderTables <- MCOrderTables
    Terms <- MCTerms
    Orders <- MCOrders
    OtherQueries = {"q1", "q2"}
    OtherOrder <- MCOtherOrder
    RelationFields <- MCRelationFields
    Computed <- MCComputed
    RowRelations = {"author", "tags"}
    Planned0 <- MCPlanned
    Settings <- MCSettings
    MaxStatements = 2
    Null = Null
    None = None
    Rows = {1, 2, 3, 4, 5}
    Columns = {"k", "d"}
    Table <- MCTable
    Allowed = {1, 2, 3, 4}
    Fields = {"f", "g", "h"}
    OperationOf <- MCOperationOf
    Async = {"p"}
    Backends = {"sqlalchemy", "django", "tortoise"}
    Requests <- MCRequests
INVARIANTS
    PositiveFiltersMeanTheSame
    HiddenRowsDoNotShow
    OrdersAsAsked
    EveryLazyLoadIsReported
    ProbesCountTheirResolver
    UndisturbedGroupsAreExact
    AggregatesAgree
CHECK_DEADLOCK FALSE
