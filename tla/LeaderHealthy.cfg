\* Redis always answers; three processes on two machines.
CONSTANTS
    a = a
    b = b
    c = c
    h1 = h1
    h2 = h2
    Proc = {a, b, c}
    Host = {h1, h2}
    HostOf <- TwoHosts
    Lease = 3
    Poll = 1
    Slack = 1
    Cap = 2
    Configured = TRUE
    Faults = {"crash", "workerCrash", "stop"}
    NoOne = NoOne
    Orphan = Orphan
SPECIFICATION Spec
INVARIANT SingleLeader
PROPERTY ImplementsSoleLeader
