\* Two calls move, copy and mark while folders are created, renamed and deleted.
SPECIFICATION Spec
CONSTANTS
    inbox = inbox
    trash = trash
    m1 = m1
    m2 = m2
    Call = {c1, c2}
    Folder = {inbox, trash}
    Message = {m1}
    Trash = trash
    Enabled <- Filing
    Start <- Alone
    MaxUid = 3
SYMMETRY CallSymmetry
INVARIANTS
    TypeOK
    NothingLost
