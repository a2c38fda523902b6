CONSTANTS
    Contact = {k1}
    NoContact = NoContact
    Request = {r1}
    Ops = {"add", "launch", "pause", "resume"}
    World = {"reply"}
    DailyLimit = 1
    BatchSize = 2
    MaxAttempts = 2
    MaxJobs = 1
    MaxRestarts = 0
SPECIFICATION FairSpec
PROPERTIES
    RunningEnds
