--------------------------- MODULE MCMailboxTools ---------------------------
(* Small instances of MailboxTools for TLC.                                *)
EXTENDS MailboxTools, TLC

CONSTANTS inbox, trash, m1, m2

Apart == <<[folder |-> inbox, msg |-> m1], [folder |-> trash, msg |-> m2]>>
Together == <<[folder |-> inbox, msg |-> m1], [folder |-> inbox, msg |-> m2]>>
Alone == <<[folder |-> inbox, msg |-> m1]>>

Disposal == {"move_email", "move_to_trash", "empty_trash", "delete_email_permanent"}
Filing == FolderTools \cup {"move_email", "copy_email", "mark_read_state", "read_email"}
MoveOnly == {"move_email"}
ReadOnly == {"read_email"}

CallSymmetry == Permutations(Call)
=============================================================================
