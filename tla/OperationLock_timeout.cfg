\* Two hosts, one of which dies: is the lock released at the timeout?
CONSTANTS
    Hosts = {h1, h2}
    MaxOverruns = 1
    MaxFailures = 0
    MaxCrashes = 1
SPECIFICATION FairSpec
PROPERTY ReleasedAtTimeout
