CONSTANTS
    a1 = a1
    a2 = a2
    c1 = c1
    c2 = c2
    Accounts <- MCAccounts
    ClientOrderIds <- MCClientOrderIds
    DenomSeq <- MCDenomPair
    OrderSizes <- MCStarveSizes
    SendAmounts = {}
    InitialFunds = 3
    Scale = 100
    IDWidth = 16
    MaxOrderID = 3
    MaxMatchesPerBlock = 1
INIT Init
NEXT Next
PROPERTIES
    MatchesEventuallyExecuted
