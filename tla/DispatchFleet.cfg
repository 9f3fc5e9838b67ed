\* Two processes that crash, stop and start; the alert is there already.
CONSTANTS
    p1 = p1
    p2 = p2
    post = post
    r1 = r1
    r2 = r2
    mail1 = mail1
    mail2 = mail2
    phone = phone
    Proc = {p1, p2}
    Request = {post}
    Creator = post
    Email = {mail1}
    Sms = {phone}
    Workers = 1
    MaxAttempts = 2
    MaxTries = 1
    CopyCap = 1
    Faults = {"crash", "logError"}
    NoSite = NoSite
SPECIFICATION FairSpec
INVARIANTS NoForgottenJob DoneMeansReached
PROPERTY JobsSettle
