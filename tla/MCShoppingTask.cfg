\* One product seen with two kinds of evidence, up to the end of its execution:
\* observations, approvals, progress reports, restarts, claims and expiries in
\* every order; and two products, reviewed, confirmed and restarted against
\* stale pages and approval windows, up to the first execution.
CONSTANTS
    Products = {p1, p2}
    Details = {x1, x2}
    Installations = {i1}
    NoProduct = NoProduct
    NoSnapshot = NoSnapshot
    NoInstallation = NoInstallation
    ProposalTtl = 1
    PermitTtl = 1
    ContinuationTtl = 1
    ChallengeTtl = 1
    GrantTtl = 1
    TaskTtl = 2
    Reports = {"navigating"}
    MaxNow = 1
    MaxContinuations = 1
    MaxCommands = 1
SPECIFICATION Spec
SYMMETRY Symmetry
CONSTRAINT ExploredTasks
INVARIANTS
    TypeOK
    SealInvariant
PROPERTIES
    ExecutesWhatWasSealed
    OneAttemptOneEnd
    SealSpec
