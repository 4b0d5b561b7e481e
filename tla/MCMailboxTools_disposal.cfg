\* Two calls move, trash, delete and empty; each message can be copied.
SPECIFICATION Spec
CONSTANTS
    inbox = inbox
    trash = trash
    m1 = m1
    m2 = m2
    Call = {c1, c2}
    Folder = {inbox, trash}
    Message = {m1, m2}
    Trash = trash
    Enabled <- Disposal
    Start <- Apart
    MaxUid = 4
SYMMETRY CallSymmetry
INVARIANTS
    NothingLost
