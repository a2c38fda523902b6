CONSTANTS
    Contact = {k1, k2}
    NoContact = NoContact
    Request = {r1}
    Ops = {"add", "remove", "launch", "schedule", "pause", "resume", "cancel"}
    World = {"add", "reply"}
    DailyLimit = 1
    BatchSize = 2
    MaxAttempts = 2
    MaxJobs = 1
    MaxRestarts = 1
SPECIFICATION Spec
SYMMETRY Interchangeable
INVARIANTS
    PublishedOnce
    WithinDailyLimit
    StrandedBounded
