\* A raced authorization code, under fair threads.
SPECIFICATION FairSpec
CONSTANTS
    t1 = t1
    t2 = t2
    alice = alice
    bob = bob
    read = read
    send = send
    Thread = {t1, t2}
    Client = {c1}
    Verifier = {v1}
    Scope <- MCScope
    Required <- ReadOnly
    Grant <- OneGrant
    Session = {s1}
    Code = {k1}
    Token = {r1, r2}
    CodeTTL = 1
    AccessTTL = 1
    RefreshTTL = 2
    MaxTime = 1
    Root = Root
CHECK_DEADLOCK FALSE
PROPERTIES
    RacingReuseRevokes
