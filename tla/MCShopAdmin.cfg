\* One customer in several tabs, an admin writing products meanwhile.
SPECIFICATION LiveSpec
CONSTANTS
    a = a
    b = b
    plush = plush
    bear = bear
    r1 = r1
    r2 = r2
    r3 = r3
    Users <- OneUser
    Products <- OneProduct
    SeedProducts = {}
    Requests <- TwoRequests
    Prices <- TwoPrices
    InitialStocks = {2}
    ProductInputs <- Inputs
    MaximumQuantity = 3
    MaxRows = 3
INVARIANTS
    StockConserved
    NoResale
    PaidOncePerApproval
PROPERTIES
    CheckoutTerminates
CHECK_DEADLOCK FALSE
