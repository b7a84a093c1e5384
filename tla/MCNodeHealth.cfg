SPECIFICATION TwoNodesSpec
CONSTANTS
    n1 = n1
    n2 = n2
    p1 = p1
    Nodes <- MCNodes
    Products <- MCProducts
    ProductOf <- MCProductOf
    MaxEvents = 2
    MaxDisturbances = 1
INVARIANTS
    TypeOK
PROPERTIES
    ReportingNodesSell
    SilentProductsAreBlocked
    BlockedSuppliersAreTold
