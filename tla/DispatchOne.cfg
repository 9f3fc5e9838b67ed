\* One process, an alert raised and resolved twice, every fault.
CONSTANTS
    p1 = p1
    p2 = p2
    post = post
    r1 = r1
    r2 = r2
    mail1 = mail1
    mail2 = mail2
    phone = phone
    Proc = {p1}
    Request = {post, r1, r2}
    Creator = post
    Email = {mail1}
    Sms = {}
    Workers = 1
    MaxAttempts = 2
    MaxTries = 2
    CopyCap = 5
    Faults = {"crash", "dbError", "logError", "lostAck"}
    NoSite = NoSite
SPECIFICATION Spec
INVARIANTS OneResolutionJob CopiesWithinAttempts
PROPERTIES DoneStaysDone ImplementsDurableJobs
SYMMETRY ResolversAlike
