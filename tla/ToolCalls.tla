----------------------------- MODULE ToolCalls -----------------------------
(***************************************************************************)
(* A tools/call request from the accepted bearer token to the answer: the  *)
(* dispatch and its checks (tool_controller.py), the sending of mail       *)
(* (send_tools.py) through the SMTP and IMAP adapters, and the audit lines *)
(* of the call, written through AuditLog.  Every request has a thread of   *)
(* its own; a backend may fail at any step, a client may stop waiting and  *)
(* ask again, and the server may crash.  What the mailbox tools do to the  *)
(* mailbox is MailboxTools' subject.                                       *)
(***************************************************************************)
EXTENDS AuditLog

CONSTANTS
    Msg,          \* the messages the client has to send
    Ask,          \* the requests it may make
    Enabled,      \* the flags of config.action_flags that are on
    Retries       \* imap_max_retries

VARIABLES
    call,         \* the calls: request, progress, and what the client heard
    sent          \* history: how often the SMTP server took each message

callVars == <<call, sent>>
vars == <<call, sent, files, writer, trail, rotations, cut, fragments>>

-----------------------------------------------------------------------------
Senders == {"send_email", "send_mail"}

(* The flag a tool is tried against; two tools are aliases, two read with  *)
(* another tool's, and the sender's identity is always given.              *)
FlagOf(tool) ==
    CASE tool = "search_mail"                                     -> "search_emails"
      [] tool = "get_recent_mail"                                 -> "list_emails"
      [] tool \in {"get_email_headers", "get_email_attachment"}   -> "read_email"
      [] tool = "send_mail"                                       -> "send_email"
      [] OTHER                                                    -> tool

Tool == Senders \cup
    {"list_folders", "search_emails", "search_mail", "list_emails", "get_recent_mail",
     "read_email", "get_email_headers", "get_email_attachment", "get_sender_identity",
     "mark_read_state", "move_email", "copy_email", "delete_email_permanent",
     "move_to_trash", "empty_trash", "create_folder", "rename_folder", "delete_folder"}

(* Stands for every name that is no tool.                                  *)
NoTool == "no_such_tool"

(* What may be wrong with a request: types, and what the controller checks *)
(* of the strings itself (_search_mail_criteria); a session without a      *)
(* sender; values (addresses, attachments, UIDs, ...); or a header the     *)
(* message builder refuses.                                                *)
Flaw == {"types", "sender", "values", "header"}

Request == [tool: Tool \cup {NoTool}, msg: Msg, flaws: SUBSET Flaw,
            override: BOOLEAN, append: BOOLEAN]

Refusal == {"invalid_input", "permission_disabled", "invalid_session"}
Answer  == Refusal \cup {"result", "not_found", "backend_unavailable"}
Event   == Answer \cup {"sender_identity_override"}

(* The client knows neither that the mail went out nor that it did not.    *)
Doubt == {"backend_unavailable", "nothing"}

ASSUME CallsAssumption ==
    /\ IsFiniteSet(Call)
    /\ Ask \subseteq Request
    /\ Ask # {}
    /\ Line = [call: Call, event: Event]
    /\ Retries \in Nat

Step == {"idle", "dispatch", "override", "check", "smtp", "submit", "imap",
         "command", "note", "reply", "done"}

Idle(ask) == [pc |-> "idle", ask |-> ask, tries |-> 0, sent |-> FALSE,
              outcome |-> "result", heard |-> "waiting"]

At(c, step) == call[c].pc = step

Becomes(c, row) == call' = [call EXCEPT ![c] = row]

Goto(c, step) == Becomes(c, [call[c] EXCEPT !.pc = step])

(* The tool has returned or raised: the audit line is next.                *)
Conclude(c, code) == Becomes(c, [call[c] EXCEPT !.pc = "note", !.outcome = code])

(* The connection closes; a client that still waits hears what it carried. *)
Told(c, news) ==
    [call[c] EXCEPT !.pc = "done",
                    !.heard = IF @ = "waiting" THEN news ELSE @]

Init ==
    /\ call = [c \in Call |-> Idle(CHOOSE ask \in Ask : TRUE)]
    /\ sent = [m \in Msg |-> 0]
    /\ LogInit

(* A client asks for the same message again only when no earlier call of   *)
(* it is awaited or was answered with success.                             *)
MayAsk(ask) ==
    ask.tool \in Senders =>
        \A d \in Call :
            \/ call[d].pc = "idle"
            \/ call[d].ask.tool \notin Senders
            \/ call[d].ask.msg # ask.msg
            \/ call[d].heard \notin {"waiting", "result"}

Begin(c) ==
    /\ At(c, "idle")
    /\ \E ask \in Ask :
         /\ MayAsk(ask)
         /\ Becomes(c, [Idle(ask) EXCEPT !.pc = "dispatch"])
    /\ UNCHANGED <<sent, logVars>>

-----------------------------------------------------------------------------
(* The checks made before anything is sent or connected, in their order.   *)
FirstRefusal(ask) ==
    IF ask.tool \notin Tool \/ "types" \in ask.flaws
    THEN "invalid_input"
    ELSE IF ask.tool # "get_sender_identity" /\ FlagOf(ask.tool) \notin Enabled
    THEN "permission_disabled"
    ELSE IF "sender" \in ask.flaws /\ ask.tool \in Senders \cup {"get_sender_identity"}
    THEN "invalid_session"
    ELSE IF "values" \in ask.flaws /\ ask.tool \notin Senders
    THEN "invalid_input"
    ELSE "none"

(* A name that is no tool is answered at once, without an audit line.      *)
Dispatch(c) ==
    /\ At(c, "dispatch")
    /\ LET ask == call[c].ask IN
         \/ /\ ask.tool \notin Tool
            /\ Becomes(c, [call[c] EXCEPT !.pc = "reply", !.outcome = FirstRefusal(ask)])
         \/ /\ ask.tool \in Tool
            /\ FirstRefusal(ask) # "none"
            /\ Conclude(c, FirstRefusal(ask))
         \/ /\ FirstRefusal(ask) = "none"
            /\ \/ ask.tool = "get_sender_identity" /\ Conclude(c, "result")
               \/ ask.tool \in Senders /\ Goto(c, IF ask.override THEN "override" ELSE "check")
               \/ ask.tool \notin Senders \cup {"get_sender_identity"} /\ Goto(c, "imap")
    /\ UNCHANGED <<sent, logVars>>

(* Mutant of CheckMail: attachments and addresses are not looked at.       *)
CheckMail_HeadersOnly(c) ==
    /\ At(c, "check")
    /\ IF "header" \in call[c].ask.flaws THEN Conclude(c, "backend_unavailable") ELSE Goto(c, "smtp")
    /\ UNCHANGED <<sent, logVars>>

(* The attachments and the addresses, then the building of the message,    *)
(* whose ValueError no one expects.                                        *)
CheckMail(c) ==
    /\ At(c, "check")
    /\ LET flaws == call[c].ask.flaws IN
         \/ "values" \in flaws /\ Conclude(c, "invalid_input")
         \/ "values" \notin flaws /\ "header" \in flaws /\ Conclude(c, "backend_unavailable")
         \/ flaws \cap {"values", "header"} = {} /\ Goto(c, "smtp")
    /\ UNCHANGED <<sent, logVars>>

SmtpConnect(c) ==
    /\ At(c, "smtp")
    /\ Goto(c, "submit") \/ Conclude(c, "backend_unavailable")
    /\ UNCHANGED <<sent, logVars>>

(* The SMTP server took the message, for some recipients at least.         *)
Took(c) == sent' = [sent EXCEPT ![call[c].ask.msg] = @ + 1]

(* What follows a submission that was answered.                            *)
Submitted(c) ==
    [call[c] EXCEPT !.sent = TRUE, !.pc = IF call[c].ask.append THEN "imap" ELSE "note"]

(* Mutant of Submit: a submission that raised is not told from the others. *)
Submit_Unread(c) ==
    /\ At(c, "submit")
    /\ \/ Took(c) /\ Becomes(c, Submitted(c))
       \/ UNCHANGED sent /\ Becomes(c, [Submitted(c) EXCEPT !.sent = FALSE])
    /\ UNCHANGED logVars

(* Answered; refused or lost; or taken, and the answer lost.               *)
Submit(c) ==
    /\ At(c, "submit")
    /\ \/ Took(c) /\ Becomes(c, Submitted(c))
       \/ UNCHANGED sent /\ Conclude(c, "backend_unavailable")
       \/ /\ Took(c)
          /\ Becomes(c, [call[c] EXCEPT !.sent = TRUE, !.pc = "note",
                                        !.outcome = "backend_unavailable"])
    /\ UNCHANGED logVars

(* Mutant of ImapConnect: the count is tested after the next try.          *)
ImapConnect_OnceMore(c) ==
    /\ At(c, "imap")
    /\ LET tried == [call[c] EXCEPT !.tries = @ + 1] IN
         \/ Becomes(c, [tried EXCEPT !.pc = "command"])
         \/ Becomes(c, [tried EXCEPT !.pc = "note", !.outcome = "backend_unavailable"])
         \/ call[c].tries <= Retries /\ Becomes(c, tried)
    /\ UNCHANGED <<sent, logVars>>

(* One login: success, a TLS error or the last failure, or one more try.   *)
ImapConnect(c) ==
    /\ At(c, "imap")
    /\ LET tried == [call[c] EXCEPT !.tries = @ + 1] IN
         \/ Becomes(c, [tried EXCEPT !.pc = "command"])
         \/ Becomes(c, [tried EXCEPT !.pc = "note", !.outcome = "backend_unavailable"])
         \/ call[c].tries < Retries /\ Becomes(c, tried)
    /\ UNCHANGED <<sent, logVars>>

(* Mutant of AppendSent: a failed append starts the sending over.          *)
AppendSent_Restart(c) ==
    /\ At(c, "command")
    /\ call[c].ask.tool \in Senders
    /\ \/ Conclude(c, "result")
       \/ Becomes(c, [call[c] EXCEPT !.pc = "smtp", !.tries = 0])
    /\ UNCHANGED <<sent, logVars>>

(* APPEND to the sent folder.  Nobody reads whether it answered OK or NO.  *)
AppendSent(c) ==
    /\ At(c, "command")
    /\ call[c].ask.tool \in Senders
    /\ Conclude(c, "result") \/ Conclude(c, "backend_unavailable")
    /\ UNCHANGED <<sent, logVars>>

(* The commands of a mailbox tool, as far as the call is concerned.        *)
MailboxCommands(c) ==
    /\ At(c, "command")
    /\ call[c].ask.tool \notin Senders
    /\ \E code \in {"result", "not_found", "invalid_input", "backend_unavailable"} :
         Conclude(c, code)
    /\ UNCHANGED <<sent, logVars>>

-----------------------------------------------------------------------------
(* The line the call writes next.                                          *)
LineOf(c) ==
    [call |-> c,
     event |-> IF At(c, "override") THEN "sender_identity_override" ELSE call[c].outcome]

BeginLine(c) ==
    /\ At(c, "override") \/ At(c, "note")
    /\ BeginWrite(c, LineOf(c))
    /\ UNCHANGED callVars

Rotate == (UnlinkOldest \/ ShiftUp) /\ UNCHANGED callVars

EndLine(c) ==
    /\ AppendLine
    /\ writer.by = c
    /\ Goto(c, IF At(c, "override") THEN "check" ELSE "reply")
    /\ UNCHANGED sent

(* Mutant of LineFails: logging is best effort.                            *)
LineFails_Ignored(c) ==
    /\ WriteCut
    /\ writer.by = c
    /\ Goto(c, IF At(c, "override") THEN "check" ELSE "reply")
    /\ UNCHANGED sent

(* The logger raises.  A success or an override line is caught by          *)
(* call_tool, which turns to the failure line; a failure line is not, and  *)
(* the connection closes without an answer.                                *)
LineFails(c) ==
    /\ WriteCut
    /\ writer.by = c
    /\ IF At(c, "override") \/ call[c].outcome = "result"
       THEN Conclude(c, "backend_unavailable")
       ELSE Becomes(c, Told(c, "nothing"))
    /\ UNCHANGED sent

Reply(c) ==
    /\ At(c, "reply")
    /\ Becomes(c, Told(c, call[c].outcome))
    /\ UNCHANGED <<sent, logVars>>

(* The client's own timeout; the thread goes on.                           *)
GiveUp(c) ==
    /\ call[c].pc \notin {"idle", "done"}
    /\ call[c].heard = "waiting"
    /\ Becomes(c, [call[c] EXCEPT !.heard = "nothing"])
    /\ UNCHANGED <<sent, logVars>>

(* Every thread dies with the server, one of them perhaps while it writes. *)
Crash ==
    /\ \E c \in Call : call[c].pc \notin {"idle", "done"}
    /\ call' = [c \in Call |-> IF At(c, "idle") THEN call[c] ELSE Told(c, "nothing")]
    /\ IF writer = Unlocked THEN UNCHANGED logVars ELSE WriteCut
    /\ UNCHANGED sent

Next ==
    \/ \E c \in Call :
         \/ Begin(c) \/ Dispatch(c) \/ CheckMail(c)
         \/ SmtpConnect(c) \/ Submit(c)
         \/ ImapConnect(c) \/ AppendSent(c) \/ MailboxCommands(c)
         \/ BeginLine(c) \/ EndLine(c) \/ LineFails(c)
         \/ Reply(c) \/ GiveUp(c)
    \/ Rotate
    \/ Crash

Spec == Init /\ [][Next]_vars

-----------------------------------------------------------------------------
Row == [pc: Step, ask: Ask, tries: 0..(Retries + 1), sent: BOOLEAN,
        outcome: Answer, heard: Answer \cup {"waiting", "nothing"}]

TypeOK ==
    /\ call \in [Call -> Row]
    /\ sent \in [Msg -> Nat]

Asked(c) == call[c].ask.tool \in Senders /\ ~At(c, "idle")

(* "If any attachment is invalid or blocked, no email is sent": nor is one *)
(* by a call with any other flaw, nor by one that was told a refusal.      *)
RefusedCallsIdle ==
    \A c \in Call :
        call[c].sent => /\ call[c].ask.flaws \cap Flaw = {}
                        /\ "send_email" \in Enabled
                        /\ call[c].heard \notin Refusal

(* A message goes out twice only when the client was left in doubt between *)
(* the two: nothing in the server sends a second time on its own.          *)
DoubleSendNeedsDoubt ==
    \A m \in Msg :
        sent[m] <= 1 + Cardinality({c \in Call : /\ Asked(c)
                                                 /\ call[c].ask.msg = m
                                                 /\ call[c].heard \in Doubt})

(* What the caller of a tool is told, the audit file was told before, even *)
(* when the disk fails under the logger: an answer has a line that can be  *)
(* read, but for at most one answer for each fragment a failing disk left, *)
(* whose line was appended to it.  (A name that is no tool has no line.)   *)
AnswersAudited ==
    Cardinality({c \in Call :
        /\ call[c].ask.tool \in Tool
        /\ call[c].heard \in Answer
        /\ \A i \in 1..Len(trail) :
              trail[i] # [line |-> [call |-> c, event |-> call[c].heard], legible |-> TRUE]})
    <= fragments

(* A success line of a sending call stands for a message that went out, a  *)
(* refusal line for one that did not.                                      *)
TrailHonest ==
    \A i \in 1..Len(trail) :
        LET c == trail[i].line.call IN
        call[c].ask.tool \in Senders =>
            /\ trail[i].line.event = "result" => call[c].sent
            /\ trail[i].line.event \in Refusal => ~call[c].sent
-----------------------------------------------------------------------------
(* Why: the parts of an inductive invariant.                               *)

Unflawed(ask) ==
    /\ ask.tool \in Senders
    /\ FirstRefusal(ask) = "none"
    /\ ask.flaws \cap {"values", "header"} = {}

(* How far a call has come tells what it has passed and done.              *)
Sensible(row) ==
    /\ row.pc \in {"idle", "dispatch", "override", "check", "smtp", "submit"} =>
         ~row.sent /\ row.tries = 0 /\ row.outcome = "result"
    /\ row.pc = "idle" => row.heard = "waiting"
    /\ row.pc \in {"override", "check", "smtp", "submit"} =>
         row.ask.tool \in Senders /\ FirstRefusal(row.ask) = "none"
    /\ row.pc \in {"smtp", "submit"} \/ row.sent => Unflawed(row.ask)
    /\ row.ask.tool \in Senders =>
         /\ row.pc \in {"imap", "command"} => row.sent
         /\ row.pc \in {"note", "reply"} /\ row.outcome = "result" => row.sent
    /\ row.sent => row.outcome \in {"result", "backend_unavailable"}
    /\ row.heard \in Answer => row.pc = "done" /\ row.heard = row.outcome
    /\ row.pc = "imap" => row.tries <= Retries

Progress == \A c \in Call : Sensible(call[c])

(* A line under way is the line its call stands at; a refusal is only      *)
(* written at the end; an answer of a tool follows its line.               *)
LinesMatchCalls ==
    /\ writer # Unlocked =>
         /\ At(writer.by, "override") \/ At(writer.by, "note")
         /\ writer.line = LineOf(writer.by)
    /\ \A i \in 1..Len(trail) :
         LET c == trail[i].line.call IN
         /\ ~At(c, "idle")
         /\ trail[i].line.event = "result" /\ call[c].ask.tool \in Senders => call[c].sent
         /\ trail[i].line.event \in Refusal =>
              (At(c, "reply") \/ At(c, "done")) /\ ~call[c].sent
    /\ \A c \in Call :
         call[c].ask.tool \in Tool /\ (At(c, "reply") \/ call[c].heard \in Answer) =>
             \E i \in 1..Len(trail) : trail[i].line = [call |-> c, event |-> call[c].outcome]

(* No two calls of one message are awaited or answered with success, and   *)
(* each call sends once.                                                   *)
SendsCounted ==
    /\ \A c, d \in Call :
         c # d /\ Asked(c) /\ Asked(d) /\ call[c].ask.msg = call[d].ask.msg =>
             call[c].heard \notin {"waiting", "result"} \/ call[d].heard \notin {"waiting", "result"}
    /\ \A m \in Msg :
         sent[m] = Cardinality({c \in Call : call[c].sent /\ call[c].ask.msg = m})

CallsInv ==
    /\ LogInv
    /\ HolesCounted
    /\ FragmentsCounted
    /\ TypeOK
    /\ Progress
    /\ LinesMatchCalls
    /\ SendsCounted
=============================================================================
