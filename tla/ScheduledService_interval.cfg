\* What the comment on the delay promises.
CONSTANTS
    Threads = {t1}
    Timers = {k1, k2}
    Null = Null
    MaxLate = 0
SPECIFICATION Spec
INVARIANT OnlyPositiveIntervals
CHECK_DEADLOCK FALSE
