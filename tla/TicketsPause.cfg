CONSTANTS
    Agent = {a1, a2}
    NoAgent = NoAgent
    Admin = Admin
    Dept = {d1, d2}
    NoDept = NoDept
    Member <- Members
    Task = {r1}
    Prompt = Prompt
    Edits = {"status", "due"}
    AutoAssign = TRUE
    AutoSla = TRUE
    MaxLevel = 2
SPECIFICATION Spec
INVARIANTS
    TransferRearms
