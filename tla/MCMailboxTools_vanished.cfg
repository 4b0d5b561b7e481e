\* Two moves of one message.
SPECIFICATION Spec
CONSTANTS
    inbox = inbox
    trash = trash
    m1 = m1
    m2 = m2
    Call = {c1, c2}
    Folder = {inbox, trash}
    Message = {m1}
    Trash = trash
    Enabled <- MoveOnly
    Start <- Alone
    MaxUid = 3
PROPERTY MovedMailArrives
