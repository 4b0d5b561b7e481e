\* One read of an unread message.
SPECIFICATION Spec
CONSTANTS
    inbox = inbox
    trash = trash
    m1 = m1
    m2 = m2
    Call = {c1}
    Folder = {inbox, trash}
    Message = {m1}
    Trash = trash
    Enabled <- ReadOnly
    Start <- Alone
    MaxUid = 1
PROPERTY ReadOnlyToolsChangeNothing
