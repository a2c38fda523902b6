CONSTANTS
    Contact = {k1}
    NoContact = NoContact
    Request = {r1}
    Ops = {"add", "launch"}
    World = {"add", "delivered", "read", "failed", "reply", "retry", "reject", "optout", "elsewhere", "nophone", "unavailable", "quota"}
    DailyLimit = 1
    BatchSize = 1
    MaxAttempts = 2
    MaxJobs = 1
    MaxRestarts = 1
SPECIFICATION Spec
INVARIANTS
    CampaignTypeOK
    

    
