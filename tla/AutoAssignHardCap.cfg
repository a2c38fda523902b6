CONSTANTS
    c1 = c1
    c2 = c2
    c3 = c3
    a1 = a1
    a2 = a2
    Conv = {c1, c2}
    Agent = {a1}
    NoAgent = NoAgent
    NoConv = NoConv
    Worker = {w1, w2}
    Limit <- OneAgentLimit
    Tiers <- OneAgentTiers
    Qualified <- OneAgentQualified
    Callers = {"webhook", "online"}
    MaxRestarts = 0
SPECIFICATION Spec
SYMMETRY Executions
INVARIANTS
    LimitIsHardCap
