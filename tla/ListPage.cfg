\* Two tabs, two rows, three requests.
CONSTANTS
    Tabs = {t1, t2}
    Items = {i1, i2}
    Requests = {r1, r2, r3}
SYMMETRY Symmetry
SPECIFICATION Spec
INVARIANTS TypeOK BoxDriftsByUnsharedChanges LoaderFollowsRequests
