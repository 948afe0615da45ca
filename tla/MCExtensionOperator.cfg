\* A checkout page whose final control reads "Confirm order".
CONSTANTS
    Products = {p1}
    Details = {x1}
    Installations = {i1}
    NoProduct = NoProduct
    NoSnapshot = NoSnapshot
    NoInstallation = NoInstallation
    ProposalTtl = 1
    PermitTtl = 1
    ContinuationTtl = 1
    ChallengeTtl = 1
    GrantTtl = 1
    TaskTtl = 1
    Reports = {}
    MaxNow = 0
    MaxContinuations = 1
    MaxCommands = 2
    Extension = i1
    Handlers = {h1}
    NoHandler = NoHandler
    Labels = {"confirm order"}
    MaxFaults = 0
SPECIFICATION ExtensionSpec
PROPERTY OperatorNeverSubmits
CHECK_DEADLOCK FALSE
