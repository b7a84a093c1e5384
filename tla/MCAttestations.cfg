SPECIFICATION OnSaleSpec
CONSTANTS
    p1 = p1
    s1 = s1
    Products <- MCProducts
    Suppliers <- MCSuppliers
    SupplierOf <- MCSupplierOf
    MaxOrders = 3
    MaxOrderQuantity = 1
    Durations = {1}
    Units = {1}
    PayWindow = 1
    MaxTime = 2
    MaxCrashes = 1
    BatchSize = 1
    MaxAttempts = 2
    MaxRequeues = 1
    MaxFaults = 1
    MaxRows = 2
INVARIANTS
    AttestationsStayTrue
    ConfirmedIsOnChain
CHECK_DEADLOCK FALSE
