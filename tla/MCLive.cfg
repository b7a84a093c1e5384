SPECIFICATION LiveSpec
CONSTANTS
    p1 = p1
    s1 = s1
    Products <- MCProducts
    Suppliers <- MCSuppliers
    SupplierOf <- MCSupplierOf
    MaxOrders = 2
    MaxOrderQuantity = 1
    Durations = {1}
    Units = {1}
    PayWindow = 1
    MaxTime = 3
    MaxCrashes = 1
    MaxRequests = 2
    BatchSize = 1
    MaxAttempts = 2
    MaxRequeues = 1
    MaxFaults = 1
PROPERTIES
    JobsCatchUp
    LateMoneyGoesBack
    RequestsEnd
    RowsSettle
CHECK_DEADLOCK FALSE
