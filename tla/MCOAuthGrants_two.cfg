\* Two users' grants side by side on the deployed server.
SPECIFICATION ServeSpec
CONSTANTS
    t1 = t1
    t2 = t2
    alice = alice
    bob = bob
    read = read
    send = send
    Thread = {t1, t2}
    Client = {c1}
    Verifier = {v1}
    Scope <- MCScope
    Required <- MCRequired
    Grant <- TwoGrants
    Session = {s1, s2}
    Code = {k1, k2}
    Token = {r1, r2}
    CodeTTL = 1
    AccessTTL = 1
    RefreshTTL = 1
    MaxTime = 1
    Root = Root
SYMMETRY IdSymmetry
INVARIANTS
    GrantsMatchSession
    ToolsWithinConsent
    OnlyReuseRevokes
PROPERTY
    ContractKept
