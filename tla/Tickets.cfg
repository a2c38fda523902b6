CONSTANTS
    Agent = {a1}
    NoAgent = NoAgent
    Admin = Admin
    Dept = {d1}
    NoDept = NoDept
    Member <- Members
    Task = {r1}
    Prompt = Prompt
    Edits = {"status", "due"}
    AutoAssign = TRUE
    AutoSla = TRUE
    MaxLevel = 1
SPECIFICATION FairSpec
INVARIANTS
    TicketTypeOK
    StampsAgree
    
PROPERTIES
    ManualDueKept
    TableKept
    
