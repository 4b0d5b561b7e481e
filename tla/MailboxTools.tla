---------------------------- MODULE MailboxTools ----------------------------
(***************************************************************************)
(* The tools that change a mailbox (write_tools.py), and read_email, which *)
(* is declared not to.  A tool call opens an IMAP session of its own and   *)
(* issues one command after another; other calls, and the user's own mail  *)
(* client, act on the same account between any two commands.               *)
(*                                                                         *)
(* The IMAP server is external: every command is one atomic step of it, and*)
(* a UID COPY or UID STORE of a UID that is gone answers OK and does       *)
(* nothing.  UIDs are drawn from one ascending counter, so a UID is never  *)
(* used again, in its own folder or another.  A session whose selected     *)
(* folder is renamed or deleted gets no further command answered.          *)
(***************************************************************************)
EXTENDS Naturals, Sequences

CONSTANTS
    Call,        \* concurrent tool calls (server threads)
    Folder,      \* folder names
    Message,     \* what a message is, apart from where it is filed
    Trash,       \* config.trash_folder
    Enabled,     \* tools whose ACTION_* flag is on
    Start,       \* the messages filed at first: [folder, msg], by UID
    MaxUid       \* bound: UIDs the server hands out

Movers == {"move_email", "move_to_trash"}
Copiers == Movers \cup {"copy_email"}
Destroyers == {"delete_email_permanent", "empty_trash", "delete_folder"}
FolderTools == {"create_folder", "rename_folder", "delete_folder"}
Tool == Copiers \cup Destroyers \cup FolderTools \cup {"mark_read_state", "read_email"}

ASSUME MailboxAssumption ==
    /\ Trash \in Folder
    /\ Enabled \subseteq Tool
    /\ Start \in Seq([folder: Folder, msg: Message])
    /\ \A m \in Message : \E u \in 1..Len(Start) : Start[u].msg = m
    /\ MaxUid \in Nat

VARIABLES
    folders,     \* folders that exist
    mail,        \* the messages filed, keyed by UID
    next,        \* the next UID
    call,        \* what each call is about to do
    doomed,      \* history: messages a destroying tool was pointed at
    marked       \* history: messages the user's mail client has marked

vars == <<folders, mail, next, call, doomed, marked>>

Copy == [folder: Folder, msg: Message, deleted: BOOLEAN, seen: BOOLEAN]

Step == {"fetch_uid", "list_target", "copy", "mark",
         "expunge", "search", "store_seen", "fetch_body", "create", "rename",
         "delete"}

Idle == [pc |-> "idle"]

Working == [pc: Step, tool: Tool, src: Folder, dst: Folder, uids: SUBSET Nat]

Filed(folder) == {u \in DOMAIN mail : mail[u].folder = folder}

At(c, step) == call[c].pc = step

Goto(c, step) == call' = [call EXCEPT ![c].pc = step]

Finish(c) == call' = [call EXCEPT ![c] = Idle]

(* The calls that have a folder selected, which is not how folders are     *)
(* created, renamed and deleted.                                           *)
Selecting(folder) ==
    {c \in Call : call[c] # Idle /\ call[c].tool \notin FolderTools /\ call[c].src = folder}

(* c's call ends, and the sessions that had its folder selected with it.   *)
FinishAndDrop(c) ==
    call' = [k \in Call |-> IF k \in Selecting(call[c].src) \cup {c} THEN Idle ELSE call[k]]

-----------------------------------------------------------------------------
(* The mail there is when the server starts, unread and not marked.        *)
Init ==
    /\ folders = Folder
    /\ mail = [u \in 1..Len(Start) |->
                 [folder |-> Start[u].folder, msg |-> Start[u].msg,
                  deleted |-> FALSE, seen |-> FALSE]]
    /\ next = Len(Start) + 1
    /\ call = [c \in Call |-> Idle]
    /\ doomed = {}
    /\ marked = {}

FirstStep(tool) ==
    CASE tool = "empty_trash" -> "search"
      [] tool = "read_email" -> "fetch_body"
      [] tool = "create_folder" -> "create"
      [] tool = "rename_folder" -> "list_target"
      [] tool = "delete_folder" -> "delete"
      [] OTHER -> "fetch_uid"

(* A call that the scope and the ACTION_* flag of its tool allow opens its *)
(* session and issues its first command, which finds the folder: SELECT    *)
(* (_select_folder), or LIST for a folder to rename or delete.             *)
Begin(c, tool, src, dst, uids) ==
    /\ At(c, "idle")
    /\ tool \in Enabled
    /\ tool # "create_folder" => src \in folders
    /\ call' = [call EXCEPT ![c] = [pc |-> FirstStep(tool), tool |-> tool,
                                    src |-> src, dst |-> dst, uids |-> uids]]
    /\ UNCHANGED <<folders, mail, next, doomed>>

(* The arguments each tool takes: a UID that is filed in the folder when   *)
(* the call arrives (any other only earns an error), a target.             *)
BeginCopy(c) == \E src, dst \in Folder : \E u \in Filed(src) :
    \/ \E tool \in {"copy_email", "move_email"} : Begin(c, tool, src, dst, {u})
    \/ Begin(c, "move_to_trash", src, Trash, {u})

BeginOnUid(c) == \E src \in Folder : \E u \in Filed(src) :
    \E tool \in {"delete_email_permanent", "mark_read_state", "read_email"} :
        Begin(c, tool, src, src, {u})

BeginOnFolder(c) == \E src, dst \in Folder :
    \/ Begin(c, "empty_trash", Trash, Trash, {})
    \/ Begin(c, "rename_folder", src, dst, {})
    \/ \E tool \in {"create_folder", "delete_folder"} : Begin(c, tool, src, src, {})

(* _ensure_uid_exists *)
FetchUid(c) ==
    /\ At(c, "fetch_uid")
    /\ call[c].uids \subseteq Filed(call[c].src)
    /\ Goto(c, CASE call[c].tool \in Copiers -> "list_target"
                 [] call[c].tool = "mark_read_state" -> "store_seen"
                 [] OTHER -> "mark")
    /\ UNCHANGED <<folders, mail, next, doomed>>

(* _ensure_folder_exists of a copy's target, _ensure_folder_absent of a    *)
(* rename's                                                                *)
ListTarget(c) ==
    /\ At(c, "list_target")
    /\ \/ call[c].tool \in Copiers /\ call[c].dst \in folders /\ Goto(c, "copy")
       \/ call[c].tool = "rename_folder" /\ call[c].dst \notin folders /\ Goto(c, "rename")
    /\ UNCHANGED <<folders, mail, next, doomed>>

(* A bug: go on to mark the original though the COPY answered NO.          *)
CopyUid_IgnoreStatus(c) ==
    LET found == call[c].uids \cap Filed(call[c].src) IN
    /\ At(c, "copy")
    /\ \/ (found = {} \/ call[c].dst \notin folders) /\ UNCHANGED <<mail, next>>
       \/ \E u \in found :
            /\ call[c].dst \in folders
            /\ next <= MaxUid
            /\ mail' = [v \in DOMAIN mail \cup {next} |->
                          IF v = next THEN [mail[u] EXCEPT !.folder = call[c].dst]
                                      ELSE mail[v]]
            /\ next' = next + 1
    /\ IF call[c].tool \in Movers THEN Goto(c, "mark") ELSE Finish(c)
    /\ UNCHANGED <<folders, doomed>>

(* A bug: "if is_move" is lost, and a copy marks its original as well.     *)
CopyUid_AlwaysMarks(c) ==
    LET found == call[c].uids \cap Filed(call[c].src) IN
    /\ At(c, "copy")
    /\ call[c].dst \in folders
    /\ \/ found = {} /\ UNCHANGED <<mail, next>>
       \/ \E u \in found :
            /\ next <= MaxUid
            /\ mail' = [v \in DOMAIN mail \cup {next} |->
                          IF v = next THEN [mail[u] EXCEPT !.folder = call[c].dst]
                                      ELSE mail[v]]
            /\ next' = next + 1
    /\ Goto(c, "mark")
    /\ UNCHANGED <<folders, doomed>>

(* UID COPY keeps the flags of the message, \Deleted among them.           *)
CopyUid(c) ==
    LET found == call[c].uids \cap Filed(call[c].src) IN
    /\ At(c, "copy")
    /\ call[c].dst \in folders
    /\ \/ found = {} /\ UNCHANGED <<mail, next>>
       \/ \E u \in found :
            /\ next <= MaxUid
            /\ mail' = [v \in DOMAIN mail \cup {next} |->
                          IF v = next THEN [mail[u] EXCEPT !.folder = call[c].dst]
                                      ELSE mail[v]]
            /\ next' = next + 1
    /\ IF call[c].tool \in Movers THEN Goto(c, "mark") ELSE Finish(c)
    /\ UNCHANGED <<folders, doomed>>

(* uid search None ALL: an empty trash is not marked, but it is expunged.  *)
Search(c) ==
    LET ids == Filed(call[c].src) IN
    /\ At(c, "search")
    /\ call' = [call EXCEPT ![c].pc = IF ids = {} THEN "expunge" ELSE "mark",
                            ![c].uids = ids]
    /\ UNCHANGED <<folders, mail, next, doomed>>

(* A bug: STORE on 1:* instead of the UID.                                 *)
MarkDeleted_WholeFolder(c) ==
    LET found == Filed(call[c].src) IN
    /\ At(c, "mark")
    /\ mail' = [u \in DOMAIN mail |->
                  IF u \in found THEN [mail[u] EXCEPT !.deleted = TRUE] ELSE mail[u]]
    /\ doomed' = IF call[c].tool \in Destroyers
                 THEN doomed \cup {mail[u].msg : u \in found} ELSE doomed
    /\ Goto(c, "expunge")
    /\ UNCHANGED <<folders, next>>

(* UID STORE +FLAGS (\Deleted)                                             *)
MarkDeleted(c) ==
    LET found == call[c].uids \cap Filed(call[c].src) IN
    /\ At(c, "mark")
    /\ mail' = [u \in DOMAIN mail |->
                  IF u \in found THEN [mail[u] EXCEPT !.deleted = TRUE] ELSE mail[u]]
    /\ doomed' = IF call[c].tool \in Destroyers
                 THEN doomed \cup {mail[u].msg : u \in found} ELSE doomed
    /\ Goto(c, "expunge")
    /\ UNCHANGED <<folders, next>>

(* EXPUNGE: whatever is marked in the selected folder, by whomever.        *)
Expunge(c) ==
    /\ At(c, "expunge")
    /\ mail' = [u \in {v \in DOMAIN mail :
                         ~(mail[v].folder = call[c].src /\ mail[v].deleted)} |-> mail[u]]
    /\ Finish(c)
    /\ UNCHANGED <<folders, next, doomed>>

(* mark_read_state with is_read true or false                              *)
StoreSeen(c) ==
    /\ At(c, "store_seen")
    /\ \E is_read \in BOOLEAN :
         mail' = [u \in DOMAIN mail |->
                    IF u \in call[c].uids \cap Filed(call[c].src)
                    THEN [mail[u] EXCEPT !.seen = is_read] ELSE mail[u]]
    /\ Finish(c)
    /\ UNCHANGED <<folders, next, doomed>>

(* read_email: UID FETCH (RFC822) of the selected folder, which implies    *)
(* the \Seen flag.                                                         *)
FetchBody(c) ==
    /\ At(c, "fetch_body")
    /\ call[c].uids \subseteq Filed(call[c].src)
    /\ mail' = [u \in DOMAIN mail |->
                  IF u \in call[c].uids THEN [mail[u] EXCEPT !.seen = TRUE] ELSE mail[u]]
    /\ Finish(c)
    /\ UNCHANGED <<folders, next, doomed>>

CreateFolder(c) ==
    /\ At(c, "create")
    /\ call[c].src \notin folders
    /\ folders' = folders \cup {call[c].src}
    /\ Finish(c)
    /\ UNCHANGED <<mail, next, doomed>>

RenameFolder(c) ==
    /\ At(c, "rename")
    /\ call[c].src \in folders
    /\ call[c].dst \notin folders
    /\ folders' = (folders \ {call[c].src}) \cup {call[c].dst}
    /\ mail' = [u \in DOMAIN mail |->
                  IF u \in Filed(call[c].src)
                  THEN [mail[u] EXCEPT !.folder = call[c].dst] ELSE mail[u]]
    /\ FinishAndDrop(c)
    /\ UNCHANGED <<next, doomed>>

(* The server's DELETE takes the folder's messages with it.                *)
DeleteFolder(c) ==
    /\ At(c, "delete")
    /\ call[c].src \in folders
    /\ folders' = folders \ {call[c].src}
    /\ doomed' = doomed \cup {mail[u].msg : u \in Filed(call[c].src)}
    /\ mail' = [u \in DOMAIN mail \ Filed(call[c].src) |-> mail[u]]
    /\ FinishAndDrop(c)
    /\ UNCHANGED next

(* The call ends with an error at any step, because a check failed, the    *)
(* server answered NO, or the connection was lost before the command took  *)
(* effect or after it (at the step that follows); nothing is undone.       *)
Fail(c) ==
    /\ ~At(c, "idle")
    /\ Finish(c)
    /\ UNCHANGED <<folders, mail, next, doomed>>

(* The user's own mail client marks a message \Deleted, or unmarks it.     *)
MailClientMarks(u) ==
    /\ mail' = [mail EXCEPT ![u].deleted = ~@]
    /\ marked' = marked \cup {mail[u].msg}
    /\ UNCHANGED <<folders, next, call, doomed>>

ToolStep(c) ==
    \/ BeginCopy(c) \/ BeginOnUid(c) \/ BeginOnFolder(c)
    \/ FetchUid(c) \/ ListTarget(c)
    \/ CopyUid(c) \/ Search(c) \/ MarkDeleted(c) \/ Expunge(c)
    \/ StoreSeen(c) \/ FetchBody(c)
    \/ CreateFolder(c) \/ RenameFolder(c) \/ DeleteFolder(c)
    \/ Fail(c)

(* Only the tools act on the account.                                      *)
Next == UNCHANGED marked /\ \E c \in Call : ToolStep(c)

Spec == Init /\ [][Next]_vars

(* The user's mail client is open on it as well.                           *)
SharedNext == Next \/ \E u \in DOMAIN mail : MailClientMarks(u)

SharedSpec == Init /\ [][SharedNext]_vars

-----------------------------------------------------------------------------
(* Mail is filed in folders that exist, under UIDs handed out.             *)
WellTyped ==
    /\ folders \subseteq Folder
    /\ next \in Nat
    /\ DOMAIN mail \subseteq Nat
    /\ mail \in [DOMAIN mail -> Copy]
    /\ \A u \in DOMAIN mail : u < next /\ mail[u].folder \in folders
    /\ call \in [Call -> Working \cup {Idle}]
    /\ doomed \subseteq Message /\ marked \subseteq Message

(* A call is only at the steps of its tool, it holds UIDs handed out       *)
(* before, and one UID if it copies.                                       *)
CallsMatchTools ==
    \A c \in Call : call[c] # Idle =>
        /\ At(c, "fetch_uid") =>
             call[c].tool \in Copiers \cup {"delete_email_permanent", "mark_read_state"}
        /\ At(c, "copy") => call[c].tool \in Copiers
        /\ At(c, "search") => call[c].tool = "empty_trash"
        /\ At(c, "mark") =>
             call[c].tool \in Movers \cup {"delete_email_permanent", "empty_trash"}
        /\ \A u \in call[c].uids : u < next
        /\ call[c].tool \in Copiers => \E u \in call[c].uids : call[c].uids = {u}

(* Types: mail is filed in folders that exist, under UIDs handed out, and  *)
(* every call holds what the commands of its tool need and is at a step    *)
(* that its tool has: a copy never gets to the STORE of a move.            *)
TypeOK == WellTyped /\ CallsMatchTools

(* Copy-then-mark-then-expunge never loses mail: a message that no         *)
(* destroying tool was pointed at has a copy that no EXPUNGE will take,    *)
(* whichever calls race, fail half-way or are tried again.                 *)
NothingLost ==
    \A m \in Message \ doomed :
        \E u \in DOMAIN mail : mail[u].msg = m /\ ~mail[u].deleted

(* With the user's mail client open beside the tools, an EXPUNGE also      *)
(* takes what the client has marked, but nothing else: a message neither   *)
(* destroyed nor ever marked there keeps its copy.                         *)
OnlyMarkedLost ==
    \A m \in Message \ (doomed \cup marked) :
        \E u \in DOMAIN mail : mail[u].msg = m /\ ~mail[u].deleted

(* A move goes on to mark its original only when the copy is filed: a UID  *)
(* that is missing ends the call with NotFoundError.                       *)
MovedMailArrives ==
    [][\A c \in Call : At(c, "copy") /\ call'[c].pc = "mark" =>
         \E u \in DOMAIN mail' \ DOMAIN mail : mail'[u].folder = call[c].dst]_vars

(* move_email and move_to_trash are annotated destructiveHint False: the   *)
(* EXPUNGE of a move to another folder makes no message but the one moved  *)
(* disappear from the account, unless a destroying tool condemned it.      *)
MovesDestroyNothing ==
    [][\A c \in Call : Expunge(c) /\ call[c].tool \in Movers /\ call[c].dst # call[c].src =>
         \A u \in DOMAIN mail :
           (/\ mail[u].msg \notin doomed
            /\ \A w \in call[c].uids \cap DOMAIN mail : mail[w].msg # mail[u].msg) =>
           \E v \in DOMAIN mail' : mail'[v].msg = mail[u].msg]_vars

(* read_email is annotated readOnlyHint True.                              *)
ReadOnlyToolsChangeNothing ==
    [][\A c \in Call : call[c] # Idle /\ call'[c] # call[c] =>
         (call[c].tool = "read_email" => UNCHANGED <<folders, mail>>)]_vars

-----------------------------------------------------------------------------
(* Why nothing is lost: the parts of an inductive invariant.               *)

(* The folder a session has selected exists.                               *)
SelectedExists ==
    \A c \in Call : call[c] # Idle /\ call[c].tool \notin FolderTools
                      => call[c].src \in folders

(* A move is about to mark this copy.                                      *)
Targeted(u) ==
    \E c \in Call : /\ At(c, "mark") /\ call[c].tool \in Movers
                      /\ u \in call[c].uids /\ mail[u].folder = call[c].src

(* Every message has a copy that is neither marked nor about to be: what a *)
(* COPY has just filed is known to no other call.                          *)
EachHasSpare ==
    \A m \in Message \ (doomed \cup marked) :
        \E u \in DOMAIN mail : mail[u].msg = m /\ ~mail[u].deleted /\ ~Targeted(u)

IInv ==
    /\ WellTyped
    /\ SelectedExists
    /\ CallsMatchTools
    /\ EachHasSpare
=============================================================================
