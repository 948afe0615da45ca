\* The checkout is observed again while the approval page is open.
CONSTANTS
    Products = {p1}
    Details = {x1, x2}
    Installations = {i1}
    NoProduct = NoProduct
    NoSnapshot = NoSnapshot
    NoInstallation = NoInstallation
    ProposalTtl = 1
    PermitTtl = 1
    ContinuationTtl = 1
    ChallengeTtl = 1
    GrantTtl = 1
    TaskTtl = 2
    Reports = {"navigating"}
    MaxNow = 1
    MaxContinuations = 0
    MaxCommands = 0
SPECIFICATION Spec
SYMMETRY Symmetry
PROPERTIES
    ApprovedWhatWasShown
