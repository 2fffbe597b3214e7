\* Two pages, two lists, three rows, two requests, one reload.
CONSTANTS
    Pages = {p1, p2}
    Lists = {casheBackWages, inPersonWages}
    Rows = {w1, w2, w3}
    Requests = {r1, r2}
    NoRequest = NoRequest
    MaxReloads = 1
SYMMETRY Symmetry
SPECIFICATION Spec
INVARIANTS TypeOK LostRowsWereUnseen SuccessMeansSaved
\* All rows added, all forms sent: the admin is done.
CHECK_DEADLOCK FALSE
