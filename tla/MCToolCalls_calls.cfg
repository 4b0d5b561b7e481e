SPECIFICATION Spec
CONSTANTS
    Call = {c1, c2}
    Msg = {m1}
    Ask <- MCAsk
    Line <- MCLine
    SizeOf <- MCSizeOf
    MaxBytes = 4
    Backups = 2
    Unlocked = Unlocked
    Enabled = {"send_email", "list_emails"}
    Retries = 1
SYMMETRY Symmetry
CHECK_DEADLOCK FALSE
INVARIANTS
    TypeOK
    LogTypeOK
    RefusedCallsIdle
    DoubleSendNeedsDoubt
    AnswersAudited
    TrailHonest
    NewestKept
    FilesBounded
    BackupsKept
