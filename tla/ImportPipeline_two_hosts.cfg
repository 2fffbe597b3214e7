\* Two hosts race for two readable documents; two calls throw, one host dies.
CONSTANTS
    Jobs = {j1, j2}
    Hosts = {h1, h2}
    NoJob = NoJob
    Refused = {}
    Unreadable = {}
    PageSize = 2
    MaxFailures = 2
    MaxCrashes = 1
SYMMETRY HostAndJobSymmetry
SPECIFICATION Spec
INVARIANTS TypeOK RowHasFile CopiesArePaidFor
PROPERTY ServiceSpec
