\* Three hosts deployed at once, two migrations, any prior state of the stores.
CONSTANTS
    Servers = {h1, h2, h3}
    Migrations = 2
    MaxFailedStarts = 1
SPECIFICATION FairStartup
INVARIANTS StartupTypeOK ServingIsReady LossesAreBounded
PROPERTY EventuallyServing
\* All hosts serve.
CHECK_DEADLOCK FALSE
