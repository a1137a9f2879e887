SPECIFICATION Spec
CONSTANTS
    store = store
    beta = beta
    claude = claude
    standalone = standalone
    user = user
    refresh = refresh
    Packages = {store, beta}
    PackageLabel <- MCPackageLabel
    Versions = {1}
    NameRank <- ReleaseOrder
    Standalone = standalone
    Users = {user}
    Refresh = refresh
INVARIANTS
    TypeOK
    LeavesNoOrphan
    LabelCovered
