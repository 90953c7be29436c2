SPECIFICATION FairSpec
CONSTANTS
    Threads = {t1, t2}
    Hosts = {h1, h2}
    NoHost = none
    Limits = {1, 2}
    MinInterval = 1
    MaxInterval = 2
    HostInterval = 1
    Successes = 1
    Window = 1
    ActiveWindow = 1
    MinimumHosts = 2
    HostPercent = 10
    Delays = {2}
    Backoff = 1
    Tasks = 2
INVARIANTS SlotsSpaced CooldownsHonoured
PROPERTIES LoginSettled FailedPoolEnds
CHECK_DEADLOCK FALSE
