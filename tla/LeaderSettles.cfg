\* Outages of a Redis that may lose its keys; two processes, one machine.
CONSTANTS
    a = a
    b = b
    c = c
    h1 = h1
    h2 = h2
    Proc = {a, b}
    Host = {h1}
    HostOf <- OneHost
    Lease = 3
    Poll = 1
    Slack = 1
    Cap = 2
    Configured = TRUE
    Faults = {"outage", "flush"}
    NoOne = NoOne
    Orphan = Orphan
SPECIFICATION FairSpec
PROPERTY SettlesOnOneLeader
