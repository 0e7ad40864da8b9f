SPECIFICATION Spec
CONSTANTS
    Orders <- AllOrders
    MaxDepth = 64
    MaxI64 = 9
    MaxU64 = 19
INVARIANTS
    ChangeIsNotHidden
    GraphCheckIsExact
PROPERTIES
    ComparisonIsExact
