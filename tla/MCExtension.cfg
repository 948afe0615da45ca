\* Two handlers at a time, one approval window, one fault or expiry while an
\* execution is under way, and the operator in between.
CONSTANTS
    Products = {p1}
    Details = {x1}
    Installations = {i1}
    NoProduct = NoProduct
    NoSnapshot = NoSnapshot
    NoInstallation = NoInstallation
    ProposalTtl = 1
    PermitTtl = 1
    ContinuationTtl = 1
    ChallengeTtl = 1
    GrantTtl = 1
    TaskTtl = 1
    Reports = {}
    MaxNow = 1
    MaxContinuations = 1
    MaxCommands = 2
    Extension = i1
    Handlers = {h1, h2}
    NoHandler = NoHandler
    Labels = {"place order", "pay now"}
    MaxFaults = 1
SPECIFICATION ExtensionSpec
SYMMETRY Symmetry
CONSTRAINT Explored
INVARIANTS
    ExtensionTypeOK
    OrderedOnceClaimed
    FailedMeansNoOrder
    GrantIsHeld
    WindowBehindPhase
    OperatorInOrder
CHECK_DEADLOCK FALSE
