SPECIFICATION OrderSpec
CONSTANTS
    NoValue = NoValue
    MaxRemembered = 2
    OrderTables <- MCOrderTables
    Terms <- MCTerms
    Orders <- MCOrders
    OtherQueries = {"q1", "q2"}
    OtherOrder <- MCOtherOrder
INVARIANTS
    OrdersAreTheSameOnAll
CHECK_DEADLOCK FALSE
