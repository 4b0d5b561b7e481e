\* One grant under two concurrent threads, with crashes, expiry and cleanup.
SPECIFICATION Spec
CONSTANTS
    t1 = t1
    t2 = t2
    alice = alice
    bob = bob
    read = read
    send = send
    Thread = {t1, t2}
    Client = {c1, c2}
    Verifier = {v1}
    Scope <- MCScope
    Required <- ReadOnly
    Grant <- OneGrant
    Session = {s1}
    Code = {k1}
    Token = {r1, r2, r3}
    CodeTTL = 1
    AccessTTL = 1
    RefreshTTL = 2
    MaxTime = 2
    Root = Root
SYMMETRY IdSymmetry
INVARIANTS
    TypeOK
    CodeSpentOnce
    UnspentCodeHasLiveSession
    LateRequestsRefused
