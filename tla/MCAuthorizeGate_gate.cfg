\* Two threads, three forms (two at a time), two attempts to a window, and three buckets for four keys.
SPECIFICATION Spec
CONSTANTS
    chat = chat
    Thread = {t1, t2}
    Address = {a1}
    User = {u1}
    Client = {chat}
    Query = {q1}
    ClientOf <- OneClient
    Form = {f1, f2, f3}
    FormTTL = 2
    MaxForms = 2
    MaxBuckets = 3
    AuthorizeLimit = 2
    AuthorizeWindow = 2
    RegisterLimit = 1
    RegisterWindow = 3
    MaxTime = 3
SYMMETRY IdSymmetry
INVARIANTS
    TypeOK
    StoresBounded
    FormSpentOnce
    TriesBounded
    AttemptsCostForms
PROPERTY
    WindowsStand
