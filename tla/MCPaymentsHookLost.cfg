SPECIFICATION OnSaleFairSpec
CONSTANTS
    p1 = p1
    s1 = s1
    Products <- MCProducts
    Suppliers <- MCSuppliers
    SupplierOf <- MCSupplierOf
    MaxOrders = 1
    MaxOrderQuantity = 1
    Durations = {1}
    Units = {1}
    PayWindow = 1
    MaxTime = 1
    MaxCrashes = 1
    MaxRequests = 2
PROPERTIES
    RefundedOrdersClose
