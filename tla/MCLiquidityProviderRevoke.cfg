CONSTANTS
    lp1 = lp1
    lpmodule = lpmodule
    nobody = nobody
    Addresses <- MCAddresses
    LPModule = lpmodule
    Blocked = {lpmodule}
    Existing <- MCExisting
    Denoms = {"eeur", "ejpy"}
    Credits <- MCCredits
    MintRequests <- MCMintRequests
    MaxLayers = 2
    MaxGranted = 2
SPECIFICATION Spec
PROPERTIES
    RevokeLeavesBaseAccount
