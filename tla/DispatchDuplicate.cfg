\* One process, a crash and the recovery after it.
CONSTANTS
    p1 = p1
    p2 = p2
    post = post
    r1 = r1
    r2 = r2
    mail1 = mail1
    mail2 = mail2
    phone = phone
    Proc = {p1}
    Request = {r1}
    Creator = post
    Email = {mail1}
    Sms = {phone}
    Workers = 1
    MaxAttempts = 2
    MaxTries = 1
    CopyCap = 2
    Faults = {"crash"}
    NoSite = NoSite
SPECIFICATION Spec
INVARIANT NoDuplicate
