\* Four hosts: enough for an overtaken run, the one that overtook it, the one that
\* run's DEL lets in, and a fourth.
CONSTANTS
    Hosts = {h1, h2, h3, h4}
    MaxOverruns = 2
    MaxFailures = 1
    MaxCrashes = 1
SPECIFICATION Spec
INVARIANTS TypeOK OverrunsPayForOverlaps
