\* A move on an account whose user has marked another message \Deleted.
SPECIFICATION SharedSpec
CONSTANTS
    inbox = inbox
    trash = trash
    m1 = m1
    m2 = m2
    Call = {c1}
    Folder = {inbox, trash}
    Message = {m1, m2}
    Trash = trash
    Enabled <- MoveOnly
    Start <- Together
    MaxUid = 4
PROPERTY MovesDestroyNothing
