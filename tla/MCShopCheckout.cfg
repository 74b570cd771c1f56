\* Two products, no admin: concurrent checkouts of two customers.
SPECIFICATION Spec
CONSTANTS
    a = a
    b = b
    plush = plush
    bear = bear
    r1 = r1
    r2 = r2
    r3 = r3
    Users <- TwoUsers
    Products <- TwoProducts
    SeedProducts <- TwoProducts
    Requests <- TwoRequests
    Prices <- OnePrice
    InitialStocks = {1}
    ProductInputs <- NoInputs
    MaximumQuantity = 1
    MaxRows = 4
SYMMETRY Symmetry2
INVARIANTS
    TypeOK
    SoldUnitsAreOrdered
    TransactionIsolated
    AnswersAreTruthful
PROPERTIES
    FailedCheckoutKeepsCart
    ImplementsLedger
CHECK_DEADLOCK FALSE
