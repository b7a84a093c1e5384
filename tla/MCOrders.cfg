SPECIFICATION MarketSpec
CONSTANTS
    p1 = p1
    s1 = s1
    Products <- MCProducts
    Suppliers <- MCSuppliers
    SupplierOf <- MCSupplierOf
    MaxOrders = 3
    MaxOrderQuantity = 1
    Durations = {1}
    Units = {1}
    PayWindow = 1
    MaxTime = 2
    MaxCrashes = 0
    Shelf = 1
    OrdersWhileListed = 1
INVARIANTS
    TypeOK
    StockConserved
    FamiliesAreFlat
    FamilyHoldsQuantity
    AccessFollowsLease
    OpenRenewalsAreGood
    LeaseIsPaidFor
PROPERTIES
    PaidTimeIsKept
    StockIsALedger
