SPECIFICATION InUseSpec
CONSTANTS
    p1 = p1
    s1 = s1
    Products <- MCProducts
    Suppliers <- MCSuppliers
    SupplierOf <- MCSupplierOf
    MaxOrders = 2
    MaxOrderQuantity = 1
    Durations = {1}
    Units = {1}
    PayWindow = 1
    MaxTime = 2
    MaxCrashes = 0
    MaxRequests = 1
INVARIANTS
    AutomaticRefundsAreUnused
