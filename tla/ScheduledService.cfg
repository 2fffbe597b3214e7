\* One service, every order of timer, handler and host, with up to two late handlers.
CONSTANTS
    Threads = {t1, t2, t3}
    Timers = {k1, k2, k3}
    Null = Null
    MaxLate = 2
SPECIFICATION FairSpec
INVARIANTS TypeOK RunsPayForLateness CrashHasACause StillScheduled SendsThroughOwnScope
PROPERTY RunsAgain
\* The process ends.
CHECK_DEADLOCK FALSE
