\* The scope of a run, which the foreach of an earlier run may send through as well.
CONSTANTS
    Owner = later
    Guests = {earlier}
    MaxCommands = 3
    MaxDepth = 1
    MaxWork = 4
    Aggregates = {a1, a2}
SYMMETRY AggregateSymmetry
SPECIFICATION Spec
INVARIANTS TypeOK AllOrNothing OkIsDurable ThrowLeavesNothing DispatchedBeforeCommit
\* The scope ends.
CHECK_DEADLOCK FALSE
