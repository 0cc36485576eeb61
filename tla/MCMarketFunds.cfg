CONSTANTS
    a1 = a1
    a2 = a2
    c1 = c1
    c2 = c2
    Accounts <- MCAccounts
    ClientOrderIds <- MCClientOrderIds
    DenomSeq <- MCDenomPair
    OrderSizes <- MCFillSizes
    SendAmounts = {2}
    InitialFunds = 3
    Scale = 100
    IDWidth = 16
    MaxOrderID = 3
    MaxMatchesPerBlock = 2
SPECIFICATION Spec
SYMMETRY MCSymmetry
INVARIANTS
    NoOverfill
PROPERTIES
    DriverProgress
