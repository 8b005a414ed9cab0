SPECIFICATION Spec
CONSTANTS
    phone1 = phone1
    phone2 = phone2
    mail = mail
    pw = pw
    pw2 = pw2
    Handlers = {x1, x2}
    Names = {phone1, phone2, mail, blank}
    NoName = NoName
    Blank = blank
    Secrets = {pw, pw2}
    NoSecret = NoSecret
    Jobs <- AllJobs
    NoJob = NoJob
    NoRow = NoRow
    Founder <- Invited
    MaxAttempts = 2
    MaxJobs = 3
    MaxAborts = 1
INVARIANTS
    TablesConsistent
    ReuseEndsTheLogin
    CodesAreCounted
PROPERTIES
    EndedStaysEnded
