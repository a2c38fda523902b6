CONSTANTS
    Contact = {k1, k2}
    NoContact = NoContact
    Request = {r1}
    Ops = {"add", "remove", "launch", "schedule"}
    World = {"add", "nophone", "retry", "reject", "elsewhere"}
    DailyLimit = 1
    BatchSize = 2
    MaxAttempts = 2
    MaxJobs = 1
    MaxRestarts = 0
SPECIFICATION FairSpec
PROPERTIES
    RunningEnds
