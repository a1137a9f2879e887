SPECIFICATION Spec
CONSTANTS
    store = store
    beta = beta
    claude = claude
    standalone = standalone
    user = user
    refresh = refresh
    Packages = {}
    PackageLabel <- MCPackageLabel
    Versions = {1, 2}
    NameRank <- StringOrder
    Standalone = standalone
    Users = {user}
    Refresh = refresh
PROPERTIES
    UpdatesKeepBlocked
