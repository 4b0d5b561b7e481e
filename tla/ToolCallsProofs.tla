-------------------------- MODULE ToolCallsProofs --------------------------
(***************************************************************************)
(* Proofs about ToolCalls, for any number of calls, messages and requests, *)
(* any number of login attempts and any size of the log.  Every step of a  *)
(* call is a step of the log or leaves it alone (DrivesTheLog), so what    *)
(* AuditLogProofs shows of the log holds here; the rest of CallsInv ties   *)
(* the calls to the lines.                                                 *)
(***************************************************************************)
EXTENDS ToolCalls, AuditLogProofs

(* What a step that writes no line may make of a call.                     *)
Calm(old, new) ==
    /\ new.pc # "idle"
    /\ old.pc # "idle" => new.ask = old.ask
    /\ old.sent => new.sent
    /\ old.pc \in {"override", "note"} => new.pc = old.pc /\ new.outcome = old.outcome
    /\ old.pc \in {"reply", "done"} =>
         new.pc \in {"reply", "done"} /\ new.sent = old.sent /\ new.outcome = old.outcome
    /\ new.pc = "reply" => old.pc = "reply" \/ new.ask.tool \notin Tool
    /\ new.heard \in Answer => old.heard \in Answer \/ old.pc = "reply"
    /\ old.heard = "waiting" \/ new.heard = old.heard

LEMMA IdleRow ==
    ASSUME NEW ask \in Ask
    PROVE  /\ Idle(ask) \in Row
           /\ [Idle(ask) EXCEPT !.pc = "dispatch"] \in Row
           /\ Sensible(Idle(ask))
           /\ Sensible([Idle(ask) EXCEPT !.pc = "dispatch"])
<1>1. 0 \in 0..(Retries + 1) /\ 0 <= Retries
  BY CallsAssumption
<1>2. /\ "idle" \in Step /\ "dispatch" \in Step /\ "result" \in Answer
      /\ "waiting" \notin Answer
  BY DEF Step, Answer, Refusal
<1> QED
  BY <1>1, <1>2 DEF Idle, Row, Sensible

LEMMA AskTypes ==
    ASSUME NEW ask \in Ask
    PROVE  ask.msg \in Msg /\ ask.append \in BOOLEAN /\ ask.override \in BOOLEAN
BY CallsAssumption DEF Request

(* One call moves on: the others keep their rows.                          *)
LEMMA OneMoves ==
    ASSUME TypeOK, Progress, NEW c \in Call, NEW row \in Row, Sensible(row), Becomes(c, row)
    PROVE  /\ call' \in [Call -> Row]
           /\ Progress'
           /\ call'[c] = row
           /\ \A d \in Call : d # c => call'[d] = call[d]
<1>1. /\ call' \in [Call -> Row]
      /\ call'[c] = row
      /\ \A d \in Call : d # c => call'[d] = call[d]
  BY DEF Becomes, TypeOK
<1>2. ASSUME NEW d \in Call PROVE Sensible(call'[d])
  BY <1>1 DEF Progress
<1> QED
  BY <1>1, <1>2 DEF Progress

LEMMA BeginMoves ==
    ASSUME TypeOK, Progress, NEW c \in Call, Begin(c)
    PROVE  \E row \in Row : Sensible(row) /\ Calm(call[c], row) /\ Becomes(c, row)
<1>1. PICK ask \in Ask : Becomes(c, [Idle(ask) EXCEPT !.pc = "dispatch"])
  BY DEF Begin
<1>2. call[c].pc = "idle" /\ ~call[c].sent /\ call[c].heard = "waiting"
  BY DEF Begin, At, TypeOK, Progress, Sensible
<1> DEFINE row == [Idle(ask) EXCEPT !.pc = "dispatch"]
<1>3. "waiting" \notin Answer
  BY DEF Answer, Refusal
<1>4. Calm(call[c], row)
  BY <1>2, <1>3 DEF Calm, Idle
<1> QED
  BY <1>1, <1>4, IdleRow

LEMMA DispatchMoves ==
    ASSUME TypeOK, Progress, NEW c \in Call, Dispatch(c)
    PROVE  \E row \in Row : Sensible(row) /\ Calm(call[c], row) /\ Becomes(c, row)
<1>1. call[c] \in Row /\ Sensible(call[c]) /\ call[c].pc = "dispatch"
  BY DEF TypeOK, Progress, Dispatch, At
<1>2. FirstRefusal(call[c].ask) \in Refusal \cup {"none"}
  BY DEF FirstRefusal, Refusal
<1>3. ASSUME NEW code \in Refusal \cup {"result"}, Conclude(c, code),
             code = "result" => call[c].ask.tool \notin Senders
      PROVE  \E row \in Row : Sensible(row) /\ Calm(call[c], row) /\ Becomes(c, row)
  <2> DEFINE row == [call[c] EXCEPT !.pc = "note", !.outcome = code]
  <2>1. row \in Row /\ Sensible(row) /\ Calm(call[c], row)
    BY <1>1, <1>3 DEF Row, Step, Answer, Refusal, Sensible, Calm
  <2> QED
    BY <2>1, <1>3 DEF Conclude
<1>4. ASSUME NEW step \in {"override", "check", "imap"}, Goto(c, step),
             FirstRefusal(call[c].ask) = "none", step = "imap" <=> call[c].ask.tool \notin Senders
      PROVE  \E row \in Row : Sensible(row) /\ Calm(call[c], row) /\ Becomes(c, row)
  <2> DEFINE row == [call[c] EXCEPT !.pc = step]
  <2>1. row \in Row
    BY <1>1, <1>4 DEF Row, Step
  <2>2. /\ row.pc = step /\ row.sent = call[c].sent /\ row.ask = call[c].ask
        /\ row.tries = call[c].tries /\ row.heard = call[c].heard /\ row.outcome = call[c].outcome
    BY <1>1 DEF Row
  <2>3. /\ ~call[c].sent /\ call[c].tries = 0 /\ call[c].heard \notin Answer /\ 0 <= Retries
        /\ call[c].outcome = "result"
    BY <1>1, CallsAssumption DEF Sensible
  <2> HIDE DEF row
  <2>4. Sensible(row) /\ Calm(call[c], row)
    BY <1>1, <1>4, <2>2, <2>3 DEF Sensible, Calm
  <2> QED
    BY <2>1, <2>4, <1>4 DEF Goto, row
<1>7. ASSUME call[c].ask.tool \notin Tool,
             Becomes(c, [call[c] EXCEPT !.pc = "reply", !.outcome = FirstRefusal(call[c].ask)])
      PROVE  \E row \in Row : Sensible(row) /\ Calm(call[c], row) /\ Becomes(c, row)
  <2> DEFINE row == [call[c] EXCEPT !.pc = "reply", !.outcome = FirstRefusal(call[c].ask)]
  <2>1. FirstRefusal(call[c].ask) = "invalid_input" /\ call[c].ask.tool \notin Senders
    BY <1>7 DEF FirstRefusal, Tool
  <2>2. row = [call[c] EXCEPT !.pc = "reply", !.outcome = "invalid_input"]
    BY <2>1
  <2> HIDE DEF row
  <2>3. row \in Row /\ Sensible(row)
    BY <1>1, <2>1, <2>2 DEF Row, Step, Answer, Refusal, Sensible
  <2>4. Calm(call[c], row)
    BY <1>1, <1>7, <2>2 DEF Row, Sensible, Calm
  <2> QED
    BY <2>3, <2>4, <1>7 DEF row
<1>5. CASE FirstRefusal(call[c].ask) # "none"
  BY <1>2, <1>3, <1>5, <1>7 DEF Dispatch, Refusal
<1>6. CASE FirstRefusal(call[c].ask) = "none"
  <2>1. "get_sender_identity" \notin Senders
    BY DEF Senders
  <2>2. call[c].ask.tool \in Tool
    BY <1>6 DEF FirstRefusal
  <2> QED
    BY <1>3, <1>4, <1>6, <2>1, <2>2 DEF Dispatch
<1> QED
  BY <1>5, <1>6

LEMMA CheckMoves ==
    ASSUME TypeOK, Progress, NEW c \in Call, CheckMail(c)
    PROVE  \E row \in Row : Sensible(row) /\ Calm(call[c], row) /\ Becomes(c, row)
<1>1. call[c] \in Row /\ Sensible(call[c]) /\ call[c].pc = "check"
  BY DEF TypeOK, Progress, CheckMail, At
<1>2. /\ ~call[c].sent /\ call[c].tries = 0 /\ call[c].heard \notin Answer
      /\ call[c].ask.tool \in Senders /\ FirstRefusal(call[c].ask) = "none"
  BY <1>1 DEF Sensible
<1>3. ASSUME NEW code \in {"invalid_input", "backend_unavailable"}, Conclude(c, code)
      PROVE  \E row \in Row : Sensible(row) /\ Calm(call[c], row) /\ Becomes(c, row)
  <2> DEFINE row == [call[c] EXCEPT !.pc = "note", !.outcome = code]
  <2>1. row \in Row
    BY <1>1, <1>3 DEF Row, Step, Answer, Refusal
  <2>2. Sensible(row) /\ Calm(call[c], row)
    BY <1>1, <1>2, <1>3 DEF Row, Sensible, Calm
  <2> QED
    BY <2>1, <2>2, <1>3 DEF Conclude
<1>4. ASSUME Goto(c, "smtp"), call[c].ask.flaws \cap {"values", "header"} = {}
      PROVE  \E row \in Row : Sensible(row) /\ Calm(call[c], row) /\ Becomes(c, row)
  <2> DEFINE row == [call[c] EXCEPT !.pc = "smtp"]
  <2>1. row \in Row
    BY <1>1 DEF Row, Step
  <2>2. row.outcome = "result"
    BY <1>1 DEF Sensible, Row
  <2>3. Sensible(row) /\ Calm(call[c], row)
    BY <1>1, <1>2, <1>4, <2>2 DEF Row, Sensible, Unflawed, Calm
  <2> QED
    BY <2>1, <2>3, <1>4 DEF Goto
<1> QED
  BY <1>3, <1>4 DEF CheckMail

LEMMA ConnectMoves ==
    ASSUME TypeOK, Progress, NEW c \in Call, SmtpConnect(c)
    PROVE  \E row \in Row : Sensible(row) /\ Calm(call[c], row) /\ Becomes(c, row)
<1>1. call[c] \in Row /\ Sensible(call[c]) /\ call[c].pc = "smtp"
  BY DEF TypeOK, Progress, SmtpConnect, At
<1>2. /\ ~call[c].sent /\ call[c].tries = 0 /\ call[c].heard \notin Answer
      /\ call[c].ask.tool \in Senders /\ FirstRefusal(call[c].ask) = "none"
      /\ Unflawed(call[c].ask) /\ call[c].outcome = "result"
  BY <1>1 DEF Sensible
<1>3. CASE Conclude(c, "backend_unavailable")
  <2> DEFINE row == [call[c] EXCEPT !.pc = "note", !.outcome = "backend_unavailable"]
  <2>1. row \in Row /\ Sensible(row) /\ Calm(call[c], row)
    BY <1>1, <1>2 DEF Row, Step, Answer, Sensible, Calm
  <2> QED
    BY <2>1, <1>3 DEF Conclude
<1>4. CASE Goto(c, "submit")
  <2> DEFINE row == [call[c] EXCEPT !.pc = "submit"]
  <2>1. row \in Row /\ Sensible(row) /\ Calm(call[c], row)
    BY <1>1, <1>2 DEF Row, Step, Sensible, Calm
  <2> QED
    BY <2>1, <1>4 DEF Goto
<1> QED
  BY <1>3, <1>4 DEF SmtpConnect

LEMMA SubmitMoves ==
    ASSUME TypeOK, Progress, NEW c \in Call, Submit(c)
    PROVE  \E row \in Row : Sensible(row) /\ Calm(call[c], row) /\ Becomes(c, row)
<1>1. call[c] \in Row /\ Sensible(call[c]) /\ call[c].pc = "submit"
  BY DEF TypeOK, Progress, Submit, At
<1>2. /\ ~call[c].sent /\ call[c].tries = 0 /\ call[c].heard \notin Answer
      /\ call[c].ask.tool \in Senders /\ Unflawed(call[c].ask)
      /\ call[c].outcome = "result" /\ 0 <= Retries
  BY <1>1, CallsAssumption DEF Sensible
<1>3. CASE Conclude(c, "backend_unavailable")
  <2> DEFINE row == [call[c] EXCEPT !.pc = "note", !.outcome = "backend_unavailable"]
  <2>1. row \in Row /\ Sensible(row) /\ Calm(call[c], row)
    BY <1>1, <1>2 DEF Row, Step, Answer, Sensible, Calm
  <2> QED
    BY <2>1, <1>3 DEF Conclude
<1>4. CASE Becomes(c, Submitted(c))
  <2> DEFINE row == Submitted(c)
  <2>1. row \in Row
    BY <1>1 DEF Row, Step, Submitted
  <2>2. /\ row.pc \in {"imap", "note"} /\ row.sent /\ row.ask = call[c].ask
        /\ row.tries = 0 /\ row.heard = call[c].heard /\ row.outcome = "result"
    BY <1>1, <1>2 DEF Row, Submitted
  <2> HIDE DEF row
  <2>3. Sensible(row) /\ Calm(call[c], row)
    BY <1>1, <1>2, <2>2 DEF Sensible, Calm
  <2> QED
    BY <2>1, <2>3, <1>4 DEF row
<1>5. CASE Becomes(c, [call[c] EXCEPT !.sent = TRUE, !.pc = "note",
                                      !.outcome = "backend_unavailable"])
  <2> DEFINE row == [call[c] EXCEPT !.sent = TRUE, !.pc = "note",
                                    !.outcome = "backend_unavailable"]
  <2>1. row \in Row /\ Sensible(row) /\ Calm(call[c], row)
    BY <1>1, <1>2 DEF Row, Step, Answer, Sensible, Calm
  <2> QED
    BY <2>1, <1>5
<1> QED
  BY <1>3, <1>4, <1>5 DEF Submit

LEMMA ImapMoves ==
    ASSUME TypeOK, Progress, NEW c \in Call, ImapConnect(c)
    PROVE  \E row \in Row : Sensible(row) /\ Calm(call[c], row) /\ Becomes(c, row)
<1>1. call[c] \in Row /\ Sensible(call[c]) /\ call[c].pc = "imap"
  BY DEF TypeOK, Progress, ImapConnect, At
<1>2. /\ call[c].heard \notin Answer /\ call[c].tries <= Retries
      /\ call[c].ask.tool \in Senders => call[c].sent
      /\ call[c].sent => Unflawed(call[c].ask)
      /\ call[c].sent => call[c].outcome \in {"result", "backend_unavailable"}
  BY <1>1 DEF Sensible
<1>3. /\ call[c].tries + 1 \in 0..(Retries + 1)
      /\ call[c].tries < Retries => call[c].tries + 1 <= Retries
  BY <1>1, <1>2, CallsAssumption DEF Row
<1>4. CASE Becomes(c, [[call[c] EXCEPT !.tries = @ + 1] EXCEPT !.pc = "command"])
  <2> DEFINE row == [[call[c] EXCEPT !.tries = @ + 1] EXCEPT !.pc = "command"]
  <2>1. row \in Row /\ Sensible(row) /\ Calm(call[c], row)
    BY <1>1, <1>2, <1>3 DEF Row, Step, Sensible, Calm
  <2> QED
    BY <2>1, <1>4
<1>5. CASE Becomes(c, [[call[c] EXCEPT !.tries = @ + 1]
                       EXCEPT !.pc = "note", !.outcome = "backend_unavailable"])
  <2> DEFINE row == [[call[c] EXCEPT !.tries = @ + 1]
                     EXCEPT !.pc = "note", !.outcome = "backend_unavailable"]
  <2>1. row \in Row /\ Sensible(row) /\ Calm(call[c], row)
    BY <1>1, <1>2, <1>3 DEF Row, Step, Answer, Sensible, Calm
  <2> QED
    BY <2>1, <1>5
<1>6. CASE call[c].tries < Retries /\ Becomes(c, [call[c] EXCEPT !.tries = @ + 1])
  <2> DEFINE row == [call[c] EXCEPT !.tries = @ + 1]
  <2>1. row \in Row /\ Sensible(row) /\ Calm(call[c], row)
    BY <1>1, <1>2, <1>3, <1>6 DEF Row, Step, Sensible, Calm
  <2> QED
    BY <2>1, <1>6
<1> QED
  BY <1>4, <1>5, <1>6 DEF ImapConnect

LEMMA CommandMoves ==
    ASSUME TypeOK, Progress, NEW c \in Call, AppendSent(c) \/ MailboxCommands(c)
    PROVE  \E row \in Row : Sensible(row) /\ Calm(call[c], row) /\ Becomes(c, row)
<1>1. call[c] \in Row /\ Sensible(call[c]) /\ call[c].pc = "command"
  BY DEF TypeOK, Progress, AppendSent, MailboxCommands, At
<1>2. /\ call[c].heard \notin Answer
      /\ call[c].ask.tool \in Senders <=> call[c].sent
      /\ call[c].sent => Unflawed(call[c].ask)
  BY <1>1 DEF Sensible, Unflawed
<1>3. PICK code \in {"result", "not_found", "invalid_input", "backend_unavailable"} :
        /\ Conclude(c, code)
        /\ call[c].sent => code \in {"result", "backend_unavailable"}
  BY <1>2 DEF AppendSent, MailboxCommands
<1> DEFINE row == [call[c] EXCEPT !.pc = "note", !.outcome = code]
<1>4. row \in Row
  BY <1>1 DEF Row, Step, Answer, Refusal
<1>5. Sensible(row) /\ Calm(call[c], row)
  BY <1>1, <1>2, <1>3 DEF Row, Sensible, Calm
<1> QED
  BY <1>3, <1>4, <1>5 DEF Conclude

LEMMA ToldRow ==
    ASSUME TypeOK, Progress, NEW c \in Call, ~At(c, "idle"),
           NEW news \in {"nothing", call[c].outcome}
    PROVE  /\ Told(c, news) \in Row /\ Sensible(Told(c, news))
           /\ Told(c, news).pc = "done" /\ Told(c, news).sent = call[c].sent
           /\ Told(c, news).ask = call[c].ask /\ Told(c, news).outcome = call[c].outcome
           /\ Told(c, news).heard = IF call[c].heard = "waiting" THEN news ELSE call[c].heard
<1>1. call[c] \in Row /\ Sensible(call[c]) /\ call[c].pc # "idle"
  BY DEF TypeOK, Progress, At
<1>2. "nothing" \notin Answer /\ "waiting" \notin Answer /\ "done" \in Step
  BY DEF Answer, Refusal, Step
<1>3. Told(c, news) \in Row
  BY <1>1, <1>2 DEF Told, Row
<1>4. /\ Told(c, news).pc = "done" /\ Told(c, news).sent = call[c].sent
      /\ Told(c, news).ask = call[c].ask /\ Told(c, news).outcome = call[c].outcome
      /\ Told(c, news).heard = IF call[c].heard = "waiting" THEN news ELSE call[c].heard
  BY <1>1 DEF Told, Row
<1>5. Told(c, news).heard \in Answer => Told(c, news).heard = call[c].outcome
  BY <1>1, <1>2, <1>4 DEF Sensible
<1> QED
  BY <1>1, <1>2, <1>3, <1>4, <1>5 DEF Sensible

LEMMA ReplyMoves ==
    ASSUME TypeOK, Progress, NEW c \in Call, Reply(c) \/ GiveUp(c)
    PROVE  \E row \in Row : Sensible(row) /\ Calm(call[c], row) /\ Becomes(c, row)
<1>1. CASE Reply(c)
  <2> DEFINE row == Told(c, call[c].outcome)
  <2>1. ~At(c, "idle") /\ call[c].pc = "reply"
    BY <1>1 DEF Reply, At
  <2>2. /\ row \in Row /\ Sensible(row) /\ row.pc = "done" /\ row.sent = call[c].sent
        /\ row.ask = call[c].ask /\ row.outcome = call[c].outcome
        /\ call[c].heard = "waiting" \/ row.heard = call[c].heard
    BY <2>1, ToldRow
  <2> HIDE DEF row
  <2>3. Calm(call[c], row)
    BY <2>1, <2>2 DEF Calm
  <2> QED
    BY <2>2, <2>3, <1>1 DEF Reply, row
<1>2. CASE GiveUp(c)
  <2> DEFINE row == [call[c] EXCEPT !.heard = "nothing"]
  <2>1. /\ call[c] \in Row /\ Sensible(call[c]) /\ call[c].pc # "idle"
        /\ call[c].heard = "waiting"
    BY <1>2 DEF TypeOK, Progress, GiveUp
  <2>2. "nothing" \notin Answer
    BY DEF Answer, Refusal
  <2>3. row \in Row /\ Sensible(row) /\ Calm(call[c], row)
    BY <2>1, <2>2 DEF Row, Sensible, Calm
  <2> QED
    BY <2>3, <1>2 DEF GiveUp
<1> QED
  BY <1>1, <1>2

-----------------------------------------------------------------------------
LEMMA TrailEntries ==
    ASSUME LogTypeOK
    PROVE  /\ Len(trail) \in Nat
           /\ \A i \in 1..Len(trail) : trail[i].line \in Line /\ trail[i].line.call \in Call
<1> DEFINE Entry == [line: Line, legible: BOOLEAN]
<1>1. trail \in Seq(Entry)
  BY DEF LogTypeOK
<1>2. ASSUME NEW i \in 1..Len(trail) PROVE trail[i] \in Entry
  <2> HIDE DEF Entry
  <2> QED
    BY <1>1
<1>3. \A e \in Entry : e.line \in Line /\ e.line.call \in Call
  BY CallsAssumption
<1> HIDE DEF Entry
<1> QED
  BY <1>1, <1>2, <1>3

(* No line is written: what the trail says of the calls stays true.        *)
LEMMA CalmKeepsLines ==
    ASSUME LogTypeOK, TypeOK, Progress, LinesMatchCalls, NEW c \in Call, NEW row \in Row,
           Sensible(row), Calm(call[c], row), Becomes(c, row), UNCHANGED logVars
    PROVE  LinesMatchCalls'
<1>1. /\ call' \in [Call -> Row] /\ call'[c] = row
      /\ \A d \in Call : d # c => call'[d] = call[d]
  BY OneMoves
<1>2. /\ writer' = writer /\ trail' = trail
      /\ writer # Unlocked => writer.by \in Call
      /\ \A i \in 1..Len(trail) : trail[i].line.call \in Call
  BY TrailEntries DEF logVars, LogTypeOK, Writing
<1>3. writer # Unlocked =>
        /\ call'[writer.by].pc = call[writer.by].pc
        /\ call'[writer.by].outcome = call[writer.by].outcome
        /\ call[writer.by].pc \in {"override", "note"}
        /\ writer.line = LineOf(writer.by)
  BY <1>1, <1>2 DEF LinesMatchCalls, At, Calm
<1>4. writer' # Unlocked =>
        /\ At(writer.by, "override")' \/ At(writer.by, "note")'
        /\ writer'.line = LineOf(writer.by)'
  BY <1>2, <1>3 DEF At, LineOf
<1>5. ASSUME NEW i \in 1..Len(trail')
      PROVE  LET d == trail'[i].line.call IN
             /\ call'[d].pc # "idle"
             /\ trail'[i].line.event = "result" /\ call'[d].ask.tool \in Senders => call'[d].sent
             /\ trail'[i].line.event \in Refusal =>
                  (call'[d].pc = "reply" \/ call'[d].pc = "done") /\ ~call'[d].sent
  <2> DEFINE d == trail[i].line.call
  <2>1. /\ d \in Call /\ trail'[i] = trail[i] /\ i \in 1..Len(trail)
    BY <1>2
  <2>2. /\ call[d].pc # "idle"
        /\ trail[i].line.event = "result" /\ call[d].ask.tool \in Senders => call[d].sent
        /\ trail[i].line.event \in Refusal =>
              (call[d].pc = "reply" \/ call[d].pc = "done") /\ ~call[d].sent
    BY <2>1 DEF LinesMatchCalls, At
  <2>3. CASE d = c
    BY <2>1, <2>2, <2>3, <1>1 DEF Calm
  <2>4. CASE d # c
    BY <2>1, <2>2, <2>4, <1>1
  <2> QED
    BY <2>3, <2>4
<1>6. ASSUME NEW d \in Call, call'[d].ask.tool \in Tool,
             call'[d].pc = "reply" \/ call'[d].heard \in Answer
      PROVE  \E i \in 1..Len(trail') : trail'[i].line = [call |-> d, event |-> call'[d].outcome]
  <2>1. call[d].pc = "reply" \/ call[d].heard \in Answer
    BY <1>1, <1>6 DEF Calm
  <2>3. call[d].pc \in {"reply", "done"}
    BY <2>1 DEF Progress, Sensible
  <2>5. call[d].ask.tool \in Tool
    BY <1>1, <1>6, <2>3 DEF Calm
  <2>2. \E i \in 1..Len(trail) : trail[i].line = [call |-> d, event |-> call[d].outcome]
    BY <2>1, <2>5 DEF LinesMatchCalls, At
  <2>4. call'[d].outcome = call[d].outcome
    BY <1>1, <2>3 DEF Calm
  <2> QED
    BY <1>2, <2>2, <2>4
<1> QED
  BY <1>4, <1>5, <1>6 DEF LinesMatchCalls, At

(* The lock is taken for the line the call stands at.                      *)
LEMMA BeginLineKeepsLines ==
    ASSUME LogTypeOK, TypeOK, LinesMatchCalls, NEW c \in Call, BeginLine(c)
    PROVE  LinesMatchCalls'
<1>1. /\ call' = call /\ trail' = trail /\ writer'.by = c /\ writer'.line = LineOf(c)
      /\ At(c, "override") \/ At(c, "note")
  BY DEF BeginLine, BeginWrite, callVars
<1>2. LineOf(c)' = LineOf(c) /\ (At(c, "override")' <=> At(c, "override"))
      /\ (At(c, "note")' <=> At(c, "note"))
  BY <1>1 DEF LineOf, At
<1> QED
  BY <1>1, <1>2 DEF LinesMatchCalls, At, LineOf

LEMMA RotateKeepsLines ==
    ASSUME LogTypeOK, LinesMatchCalls, Rotate
    PROVE  LinesMatchCalls'
<1>1. /\ call' = call /\ trail' = trail /\ writer # Unlocked /\ writer \in Writing
      /\ writer'.by = writer.by /\ writer'.line = writer.line
  BY DEF Rotate, UnlinkOldest, ShiftUp, callVars, LogTypeOK, Writing
<1> QED
  BY <1>1 DEF LinesMatchCalls, At, LineOf

(* The write ends, with the line or without it: no call loses what it sent *)
(* or leaves its end, and a call is only told what the trail holds.        *)
LEMMA WriteKeepsLines ==
    ASSUME LogTypeOK, TypeOK, Progress, LinesMatchCalls, writer # Unlocked, writer' = Unlocked,
           LineWritten \/ UNCHANGED trail,
           call' \in [Call -> Row],
           \A d \in Call :
             /\ call'[d].ask = call[d].ask /\ call'[d].sent = call[d].sent
             /\ call[d].pc # "idle" => call'[d].pc # "idle"
             /\ call[d].pc \in {"reply", "done"} => call'[d].pc \in {"reply", "done"},
           \A d \in Call :
             call'[d].pc = "reply" \/ call'[d].heard \in Answer =>
               /\ call'[d].outcome = call[d].outcome
               /\ \/ call[d].pc = "reply" \/ call[d].heard \in Answer
                  \/ d = writer.by /\ LineWritten /\ call[d].pc = "note",
           call[writer.by].pc = "note" /\ call[writer.by].outcome \in Refusal =>
               call'[writer.by].pc \in {"reply", "done"}
    PROVE  LinesMatchCalls'
<1> DEFINE b == writer.by
<1>1. /\ b \in Call /\ writer.line \in Line
      /\ At(b, "override") \/ At(b, "note")
      /\ writer.line = LineOf(b)
  BY DEF LogTypeOK, Writing, LinesMatchCalls
<1>2. /\ Len(trail) \in Nat
      /\ \A i \in 1..Len(trail) : trail[i].line \in Line /\ trail[i].line.call \in Call
  BY TrailEntries
<1>3. /\ writer.line.call = b
      /\ writer.line.event = IF At(b, "override") THEN "sender_identity_override"
                             ELSE call[b].outcome
  BY <1>1 DEF LineOf
(* Every line of the new trail is an old one or the one just written.      *)
<1>4. /\ \A i \in 1..Len(trail) : i \in 1..Len(trail') /\ trail'[i] = trail[i]
      /\ \A i \in 1..Len(trail') :
           \/ i \in 1..Len(trail) /\ trail'[i] = trail[i]
           \/ LineWritten /\ trail'[i].line = writer.line
      /\ LineWritten => \E i \in 1..Len(trail') : trail'[i].line = writer.line
  <2>1. CASE UNCHANGED trail /\ ~LineWritten
    BY <2>1, <1>2
  <2>2. CASE LineWritten
    <3> DEFINE e == [line |-> writer.line, legible |-> ~Live.torn]
    <3>1. trail' = Append(trail, e) /\ e.line = writer.line
      BY <2>2 DEF LineWritten
    <3>2. trail \in Seq([line: Line, legible: BOOLEAN])
      BY DEF LogTypeOK
    <3> HIDE DEF e
    <3>3. /\ Len(trail') = Len(trail) + 1 /\ trail'[Len(trail) + 1] = e
          /\ \A i \in 1..Len(trail) : trail'[i] = trail[i]
      BY <3>1, <3>2
    <3> QED
      BY <3>1, <3>3, <1>2, <2>2
  <2> QED
    BY <2>1, <2>2
<1> HIDE DEF b
<1>5. ASSUME NEW i \in 1..Len(trail')
      PROVE  LET d == trail'[i].line.call IN
             /\ call'[d].pc # "idle"
             /\ trail'[i].line.event = "result" /\ call'[d].ask.tool \in Senders => call'[d].sent
             /\ trail'[i].line.event \in Refusal =>
                  (call'[d].pc = "reply" \/ call'[d].pc = "done") /\ ~call'[d].sent
  <2> DEFINE d == trail'[i].line.call
  <2>1. CASE i \in 1..Len(trail) /\ trail'[i] = trail[i]
    <3>1. d \in Call
      BY <2>1, <1>2
    <3>2. /\ call[d].pc # "idle"
          /\ trail[i].line.event = "result" /\ call[d].ask.tool \in Senders => call[d].sent
          /\ trail[i].line.event \in Refusal =>
                (call[d].pc = "reply" \/ call[d].pc = "done") /\ ~call[d].sent
      BY <2>1 DEF LinesMatchCalls, At
    <3> QED
      BY <2>1, <3>1, <3>2
  <2>2. CASE LineWritten /\ trail'[i].line = writer.line
    <3>1. d = b
      BY <2>2, <1>3
    <3>2. call[b].pc \in {"override", "note"} /\ Sensible(call[b])
      BY <1>1 DEF At, Progress
    <3>3. CASE call[b].pc = "override"
      <4>1. trail'[i].line.event = "sender_identity_override"
        BY <2>2, <1>3, <3>3 DEF At
      <4> QED
        BY <3>1, <3>3, <4>1, <1>1 DEF Refusal
    <3>4. CASE call[b].pc = "note"
      <4>1. trail'[i].line.event = call[b].outcome
        BY <2>2, <1>3, <3>4 DEF At
      <4>2. call[b].outcome = "result" /\ call[b].ask.tool \in Senders => call[b].sent
        BY <3>2, <3>4 DEF Sensible
      <4>3. call[b].outcome \in Refusal => ~call[b].sent
        BY <3>2 DEF Sensible, Refusal
      <4> QED
        BY <3>1, <3>4, <4>1, <4>2, <4>3, <1>1 DEF b
    <3> QED
      BY <3>2, <3>3, <3>4
  <2> QED
    BY <2>1, <2>2, <1>4
<1>6. ASSUME NEW d \in Call, call'[d].ask.tool \in Tool,
             call'[d].pc = "reply" \/ call'[d].heard \in Answer
      PROVE  \E i \in 1..Len(trail') : trail'[i].line = [call |-> d, event |-> call'[d].outcome]
  <2>1. CASE call[d].pc = "reply" \/ call[d].heard \in Answer
    <3>1. PICK i \in 1..Len(trail) : trail[i].line = [call |-> d, event |-> call[d].outcome]
      BY <2>1, <1>6 DEF LinesMatchCalls, At
    <3> QED
      BY <3>1, <1>4, <1>6
  <2>2. CASE d = b /\ LineWritten /\ call[d].pc = "note"
    <3>1. writer.line = [call |-> d, event |-> call[d].outcome]
      BY <2>2, <1>1 DEF LineOf, At
    <3> QED
      BY <3>1, <2>2, <1>4, <1>6
  <2> QED
    BY <2>1, <2>2, <1>6 DEF b
<1> QED
  BY <1>5, <1>6 DEF LinesMatchCalls, At

(* Where the writing call stands.                                          *)
LEMMA WriterStands ==
    ASSUME LogTypeOK, TypeOK, Progress, LinesMatchCalls, writer # Unlocked
    PROVE  /\ writer.by \in Call
           /\ call[writer.by] \in Row /\ Sensible(call[writer.by])
           /\ call[writer.by].pc \in {"override", "note"}
           /\ call[writer.by].heard \notin Answer
BY DEF LogTypeOK, Writing, TypeOK, Progress, LinesMatchCalls, At, Sensible

(* Steps that end a write leave who sent what alone.                       *)
Bookkeeping(old, new) ==
    /\ new.sent = old.sent /\ new.ask = old.ask
    /\ old.pc # "idle" => new.pc # "idle"
    /\ old.pc = "idle" => new = old
    /\ old.heard = "waiting" \/ new.heard = old.heard

LEMMA EndLineKeeps ==
    ASSUME LogTypeOK, TypeOK, Progress, LinesMatchCalls, NEW c \in Call, EndLine(c)
    PROVE  /\ call' \in [Call -> Row] /\ Progress' /\ LinesMatchCalls' /\ sent' = sent
           /\ \A d \in Call : Bookkeeping(call[d], call'[d])
<1>1. /\ writer # Unlocked /\ writer' = Unlocked /\ LineWritten /\ writer.by = c
      /\ sent' = sent
  BY DEF EndLine, AppendLine
<1>2. /\ call[c] \in Row /\ Sensible(call[c]) /\ call[c].pc \in {"override", "note"}
      /\ call[c].heard \notin Answer
  BY <1>1, WriterStands
<1> DEFINE row == [call[c] EXCEPT !.pc = IF call[c].pc = "override" THEN "check" ELSE "reply"]
<1>3. Becomes(c, row)
  BY DEF EndLine, Goto, At
<1>4. /\ row \in Row /\ row.pc = (IF call[c].pc = "override" THEN "check" ELSE "reply")
      /\ row.sent = call[c].sent /\ row.ask = call[c].ask /\ row.tries = call[c].tries
      /\ row.outcome = call[c].outcome /\ row.heard = call[c].heard
  BY <1>2 DEF Row, Step
<1> HIDE DEF row
<1>5. Sensible(row)
  BY <1>2, <1>4 DEF Sensible
<1>6. /\ call' \in [Call -> Row] /\ Progress' /\ call'[c] = row
      /\ \A d \in Call : d # c => call'[d] = call[d]
  BY <1>3, <1>4, <1>5, OneMoves
<1>7. \A d \in Call : Bookkeeping(call[d], call'[d])
  BY <1>2, <1>4, <1>6 DEF Bookkeeping
<1>8. LinesMatchCalls'
  <2>1. \A d \in Call :
          /\ call'[d].ask = call[d].ask /\ call'[d].sent = call[d].sent
          /\ call[d].pc # "idle" => call'[d].pc # "idle"
          /\ call[d].pc \in {"reply", "done"} => call'[d].pc \in {"reply", "done"}
    BY <1>2, <1>4, <1>6
  <2>2. \A d \in Call :
          call'[d].pc = "reply" \/ call'[d].heard \in Answer =>
            /\ call'[d].outcome = call[d].outcome
            /\ \/ call[d].pc = "reply" \/ call[d].heard \in Answer
               \/ d = writer.by /\ LineWritten /\ call[d].pc = "note"
    BY <1>1, <1>2, <1>4, <1>6
  <2>3. call[writer.by].pc = "note" /\ call[writer.by].outcome \in Refusal =>
          call'[writer.by].pc \in {"reply", "done"}
    BY <1>1, <1>4, <1>6
  <2> QED
    BY <1>1, <1>6, <2>1, <2>2, <2>3, WriteKeepsLines
<1> QED
  BY <1>1, <1>6, <1>7, <1>8

LEMMA LineFailsKeeps ==
    ASSUME LogTypeOK, TypeOK, Progress, LinesMatchCalls, NEW c \in Call, LineFails(c)
    PROVE  /\ call' \in [Call -> Row] /\ Progress' /\ LinesMatchCalls' /\ sent' = sent
           /\ \A d \in Call : Bookkeeping(call[d], call'[d])
<1>1. /\ writer # Unlocked /\ writer' = Unlocked /\ writer.by = c /\ sent' = sent
      /\ LineWritten \/ UNCHANGED trail
  BY DEF LineFails, WriteCut, AppendCut
<1>2. /\ call[c] \in Row /\ Sensible(call[c]) /\ call[c].pc \in {"override", "note"}
      /\ call[c].heard \notin Answer
  BY <1>1, WriterStands
<1>3. PICK row \in Row :
        /\ Becomes(c, row) /\ Sensible(row)
        /\ row.sent = call[c].sent /\ row.ask = call[c].ask
        /\ row.heard = call[c].heard \/ call[c].heard = "waiting"
        /\ row.heard \notin Answer
        /\ row.pc \in {"note", "done"}
        /\ call[c].pc = "note" /\ call[c].outcome \in Refusal => row.pc = "done"
  <2>1. CASE At(c, "override") \/ call[c].outcome = "result"
    <3> DEFINE row == [call[c] EXCEPT !.pc = "note", !.outcome = "backend_unavailable"]
    <3>1. row \in Row
      BY <1>2 DEF Row, Step, Answer
    <3>2. /\ row.pc = "note" /\ row.outcome = "backend_unavailable" /\ row.heard = call[c].heard
          /\ row.sent = call[c].sent /\ row.ask = call[c].ask /\ row.tries = call[c].tries
      BY <1>2 DEF Row
    <3>3. Becomes(c, row)
      BY <2>1 DEF LineFails, Conclude
    <3> HIDE DEF row
    <3>4. Sensible(row)
      BY <1>2, <3>2 DEF Sensible
    <3>5. call[c].pc = "note" => call[c].outcome \notin Refusal
      BY <2>1 DEF At, Refusal
    <3> QED
      BY <1>2, <3>1, <3>2, <3>3, <3>4, <3>5
  <2>2. CASE ~(At(c, "override") \/ call[c].outcome = "result")
    <3>1. ~At(c, "idle")
      BY <1>2 DEF At
    <3>2. "nothing" \notin Answer
      BY DEF Answer, Refusal
    <3>3. Becomes(c, Told(c, "nothing"))
      BY <2>2 DEF LineFails
    <3> QED
      BY <1>2, <3>1, <3>2, <3>3, ToldRow
  <2> QED
    BY <2>1, <2>2
<1>6. /\ call' \in [Call -> Row] /\ Progress' /\ call'[c] = row
      /\ \A d \in Call : d # c => call'[d] = call[d]
  BY <1>3, OneMoves
<1>7. \A d \in Call : Bookkeeping(call[d], call'[d])
  BY <1>2, <1>3, <1>6 DEF Bookkeeping
<1>8. LinesMatchCalls'
  <2>1. \A d \in Call :
          /\ call'[d].ask = call[d].ask /\ call'[d].sent = call[d].sent
          /\ call[d].pc # "idle" => call'[d].pc # "idle"
          /\ call[d].pc \in {"reply", "done"} => call'[d].pc \in {"reply", "done"}
    BY <1>2, <1>3, <1>6
  <2>2. \A d \in Call :
          call'[d].pc = "reply" \/ call'[d].heard \in Answer =>
            /\ call'[d].outcome = call[d].outcome
            /\ call[d].pc = "reply" \/ call[d].heard \in Answer
    BY <1>3, <1>6
  <2>3. call[writer.by].pc = "note" /\ call[writer.by].outcome \in Refusal =>
          call'[writer.by].pc \in {"reply", "done"}
    BY <1>1, <1>3, <1>6
  <2> QED
    BY <1>1, <1>6, <2>1, <2>2, <2>3, WriteKeepsLines
<1> QED
  BY <1>1, <1>6, <1>7, <1>8

LEMMA CrashKeeps ==
    ASSUME LogTypeOK, TypeOK, Progress, LinesMatchCalls, Crash
    PROVE  /\ call' \in [Call -> Row] /\ Progress' /\ LinesMatchCalls' /\ sent' = sent
           /\ \A d \in Call : Bookkeeping(call[d], call'[d])
<1>1. /\ call' = [c \in Call |-> IF At(c, "idle") THEN call[c] ELSE Told(c, "nothing")]
      /\ sent' = sent
  BY DEF Crash
<1>2. ASSUME NEW d \in Call
      PROVE  /\ call'[d] \in Row /\ Sensible(call'[d]) /\ call'[d].pc # "reply"
             /\ Bookkeeping(call[d], call'[d])
             /\ call'[d].outcome = call[d].outcome
             /\ call'[d].heard \in Answer => call[d].heard \in Answer
             /\ call[d].pc # "idle" => call'[d].pc = "done"
  <2>0. "nothing" \notin Answer
    BY DEF Answer, Refusal
  <2>1. CASE At(d, "idle")
    BY <2>1, <1>1 DEF TypeOK, Progress, Bookkeeping, At
  <2>2. CASE ~At(d, "idle")
    <3>1. call'[d] = Told(d, "nothing") /\ call[d].pc # "idle"
      BY <2>2, <1>1 DEF At
    <3> QED
      BY <2>2, <3>1, <2>0, ToldRow DEF Bookkeeping
  <2> QED
    BY <2>1, <2>2
<1>3. call' \in [Call -> Row]
  BY <1>1, <1>2
<1>4. Progress'
  BY <1>2 DEF Progress
<1>5. LinesMatchCalls'
  <2>1. \A d \in Call :
          /\ call'[d].ask = call[d].ask /\ call'[d].sent = call[d].sent
          /\ call[d].pc # "idle" => call'[d].pc # "idle"
          /\ call[d].pc \in {"reply", "done"} => call'[d].pc \in {"reply", "done"}
    BY <1>2 DEF Bookkeeping
  <2>2. \A d \in Call :
          call'[d].pc = "reply" \/ call'[d].heard \in Answer =>
            call'[d].outcome = call[d].outcome /\ call[d].heard \in Answer
    BY <1>2
  <2>3. CASE writer # Unlocked
    <3>1. writer' = Unlocked /\ (LineWritten \/ UNCHANGED trail)
      BY <2>3 DEF Crash, WriteCut, AppendCut
    <3>2. call'[writer.by].pc = "done"
      BY <2>3, <1>2, WriterStands
    <3> QED
      BY <2>1, <2>2, <2>3, <3>1, <3>2, <1>3, WriteKeepsLines
  <2>4. CASE writer = Unlocked
    <3>1. writer' = writer /\ trail' = trail
      BY <2>4 DEF Crash, logVars
    <3>2. ASSUME NEW i \in 1..Len(trail')
          PROVE  LET d == trail'[i].line.call IN
                 /\ call'[d].pc # "idle"
                 /\ trail'[i].line.event = "result" /\ call'[d].ask.tool \in Senders =>
                      call'[d].sent
                 /\ trail'[i].line.event \in Refusal =>
                      (call'[d].pc = "reply" \/ call'[d].pc = "done") /\ ~call'[d].sent
      <4>1. trail[i].line.call \in Call
        BY <3>1, TrailEntries
      <4>2. LET d == trail[i].line.call IN
            /\ call[d].pc # "idle"
            /\ trail[i].line.event = "result" /\ call[d].ask.tool \in Senders => call[d].sent
            /\ trail[i].line.event \in Refusal =>
                 (call[d].pc = "reply" \/ call[d].pc = "done") /\ ~call[d].sent
        BY <3>1 DEF LinesMatchCalls, At
      <4> QED
        BY <2>1, <3>1, <4>1, <4>2
    <3>3. ASSUME NEW d \in Call, call'[d].ask.tool \in Tool,
                 call'[d].pc = "reply" \/ call'[d].heard \in Answer
          PROVE  \E i \in 1..Len(trail') :
                   trail'[i].line = [call |-> d, event |-> call'[d].outcome]
      BY <2>1, <2>2, <3>1, <3>3 DEF LinesMatchCalls
    <3> QED
      BY <2>4, <3>1, <3>2, <3>3 DEF LinesMatchCalls, At
  <2> QED
    BY <2>3, <2>4
<1> QED
  BY <1>1, <1>2, <1>3, <1>4, <1>5

-----------------------------------------------------------------------------
(* Every step of the calls writes to the log as the logger does.           *)
LEMMA DrivesTheLog ==
    ASSUME TypeOK, [Next]_vars
    PROVE  [LogNext]_logVars
<1>1. CASE UNCHANGED vars
  BY <1>1 DEF vars, logVars
<1>2. ASSUME NEW c \in Call, BeginLine(c) PROVE LogNext
  <2>1. LineOf(c) \in Line
    BY <1>2, CallsAssumption DEF LineOf, Event, TypeOK, Row
  <2> QED
    BY <1>2, <2>1 DEF BeginLine, LogNext
<1>3. ASSUME NEW c \in Call, EndLine(c) \/ LineFails(c) PROVE LogNext
  BY <1>3 DEF EndLine, LineFails, LogNext
<1>4. ASSUME NEW c \in Call,
             \/ Begin(c) \/ Dispatch(c) \/ CheckMail(c) \/ SmtpConnect(c) \/ Submit(c)
             \/ ImapConnect(c) \/ AppendSent(c) \/ MailboxCommands(c) \/ Reply(c) \/ GiveUp(c)
      PROVE  UNCHANGED logVars
  BY <1>4 DEF Begin, Dispatch, CheckMail, SmtpConnect, Submit, ImapConnect, AppendSent,
              MailboxCommands, Reply, GiveUp
<1>5. CASE Rotate
  BY <1>5 DEF Rotate, LogNext
<1>6. CASE Crash
  BY <1>6 DEF Crash, LogNext
<1> QED
  BY <1>1, <1>2, <1>3, <1>4, <1>5, <1>6 DEF Next

(* Of the steps that write no line, only Submit sends.                     *)
LEMMA OnlySubmitSends ==
    ASSUME TypeOK, NEW c \in Call,
           \/ Dispatch(c) \/ CheckMail(c) \/ SmtpConnect(c) \/ ImapConnect(c)
           \/ AppendSent(c) \/ MailboxCommands(c) \/ Reply(c) \/ GiveUp(c)
    PROVE  sent' = sent /\ call'[c].sent = call[c].sent
<1> DEFINE Same == call'[c].sent = call[c].sent
<1>1. c \in DOMAIN call /\ call[c] \in Row
  BY DEF TypeOK
<1>2. ASSUME NEW step, Goto(c, step) PROVE Same
  BY <1>1, <1>2 DEF Goto, Becomes, Row
<1>3. ASSUME NEW code, Conclude(c, code) PROVE Same
  BY <1>1, <1>3 DEF Conclude, Becomes, Row
<1>4. ASSUME NEW news, Becomes(c, Told(c, news)) PROVE Same
  BY <1>1, <1>4 DEF Told, Becomes, Row
<1>5. CASE Dispatch(c)
  <2>1. ASSUME NEW code, Becomes(c, [call[c] EXCEPT !.pc = "reply", !.outcome = code])
        PROVE  Same
    BY <1>1, <2>1 DEF Becomes, Row
  <2> QED
    BY <1>2, <1>3, <1>5, <2>1 DEF Dispatch
<1>6. CASE CheckMail(c)
  BY <1>2, <1>3, <1>6 DEF CheckMail
<1>7. CASE SmtpConnect(c)
  BY <1>2, <1>3, <1>7 DEF SmtpConnect
<1>8. CASE ImapConnect(c)
  <2> DEFINE tried == [call[c] EXCEPT !.tries = @ + 1]
  <2>1. tried.sent = call[c].sent
    BY <1>1 DEF Row
  <2>2. DOMAIN tried = DOMAIN call[c] /\ "sent" \in DOMAIN call[c]
    BY <1>1 DEF Row
  <2>3. \/ Becomes(c, [tried EXCEPT !.pc = "command"])
        \/ Becomes(c, [tried EXCEPT !.pc = "note", !.outcome = "backend_unavailable"])
        \/ Becomes(c, tried)
    BY <1>8 DEF ImapConnect
  <2>5. sent' = sent
    BY <1>8 DEF ImapConnect
  <2> HIDE DEF tried
  <2>4. /\ [tried EXCEPT !.pc = "command"].sent = call[c].sent
        /\ [tried EXCEPT !.pc = "note", !.outcome = "backend_unavailable"].sent = call[c].sent
    BY <2>1, <2>2
  <2> QED
    BY <1>1, <2>1, <2>3, <2>4, <2>5 DEF Becomes
<1>9. CASE AppendSent(c) \/ MailboxCommands(c)
  BY <1>3, <1>9 DEF AppendSent, MailboxCommands
<1>10. CASE Reply(c)
  BY <1>4, <1>10 DEF Reply
<1>11. CASE GiveUp(c)
  BY <1>1, <1>11 DEF GiveUp, Becomes, Row
<1> QED
  BY <1>5, <1>6, <1>7, <1>8, <1>9, <1>10, <1>11
     DEF Dispatch, CheckMail, SmtpConnect, ImapConnect, AppendSent, MailboxCommands, Reply, GiveUp

(* Nothing is sent and nobody begins: the counts stand.                    *)
LEMMA CountStands ==
    ASSUME Progress, SendsCounted, sent' = sent,
           \A d \in Call :
             /\ call'[d].sent = call[d].sent
             /\ call[d].pc = "idle" => call'[d].pc = "idle"
             /\ call[d].pc # "idle" => call'[d].ask = call[d].ask
             /\ call[d].heard = "waiting" \/ call'[d].heard = call[d].heard
    PROVE  SendsCounted'
<1>1. \A d \in Call : call[d].sent => call[d].pc # "idle"
  BY DEF Progress, Sensible
<1>2. ASSUME NEW c \in Call, NEW d \in Call, c # d,
             call'[c].ask.tool \in Senders, call'[c].pc # "idle",
             call'[d].ask.tool \in Senders, call'[d].pc # "idle",
             call'[c].ask.msg = call'[d].ask.msg
      PROVE  call'[c].heard \notin {"waiting", "result"} \/ call'[d].heard \notin {"waiting", "result"}
  <2>1. call[c].heard \notin {"waiting", "result"} \/ call[d].heard \notin {"waiting", "result"}
    BY <1>2 DEF SendsCounted, Asked, At
  <2> QED
    BY <2>1
<1>3. ASSUME NEW m \in Msg
      PROVE  {c \in Call : call'[c].sent /\ call'[c].ask.msg = m} =
             {c \in Call : call[c].sent /\ call[c].ask.msg = m}
  BY <1>1
<1>4. ASSUME NEW m \in Msg
      PROVE  sent'[m] = Cardinality({c \in Call : call'[c].sent /\ call'[c].ask.msg = m})
  BY <1>3 DEF SendsCounted
<1> QED
  BY <1>2, <1>4 DEF SendsCounted, Asked, At

(* A client that begins is in doubt about every earlier call of the        *)
(* message, or was refused.                                                *)
LEMMA CountBegins ==
    ASSUME TypeOK, Progress, SendsCounted, NEW c \in Call, Begin(c)
    PROVE  SendsCounted'
<1>1. PICK ask \in Ask : MayAsk(ask) /\ Becomes(c, [Idle(ask) EXCEPT !.pc = "dispatch"])
  BY DEF Begin
<1> DEFINE row == [Idle(ask) EXCEPT !.pc = "dispatch"]
<1>2. row \in Row /\ Sensible(row)
  BY IdleRow
<1>3. row.ask = ask /\ ~row.sent
  BY DEF Idle
<1>4. call'[c] = row /\ \A d \in Call : d # c => call'[d] = call[d]
  BY <1>1, <1>2, OneMoves
<1>5. ~call[c].sent /\ sent' = sent
  BY DEF Begin, At, Progress, Sensible
<1> HIDE DEF row
<1>6. ASSUME NEW d \in Call, d # c,
             row.ask.tool \in Senders, call[d].ask.tool \in Senders, call[d].pc # "idle",
             row.ask.msg = call[d].ask.msg
      PROVE  call[d].heard \notin {"waiting", "result"}
  BY <1>1, <1>3, <1>6 DEF MayAsk
<1>7. ASSUME NEW d \in Call, NEW e \in Call, d # e,
             call'[d].ask.tool \in Senders, call'[d].pc # "idle",
             call'[e].ask.tool \in Senders, call'[e].pc # "idle",
             call'[d].ask.msg = call'[e].ask.msg
      PROVE  call'[d].heard \notin {"waiting", "result"} \/ call'[e].heard \notin {"waiting", "result"}
  <2>1. CASE d # c /\ e # c
    BY <1>4, <1>7, <2>1 DEF SendsCounted, Asked, At
  <2>2. CASE d = c
    BY <1>4, <1>6, <1>7, <2>2
  <2>3. CASE e = c
    BY <1>4, <1>6, <1>7, <2>3
  <2> QED
    BY <2>1, <2>2, <2>3
<1>8. ASSUME NEW m \in Msg
      PROVE  sent'[m] = Cardinality({d \in Call : call'[d].sent /\ call'[d].ask.msg = m})
  <2>1. {d \in Call : call'[d].sent /\ call'[d].ask.msg = m} =
        {d \in Call : call[d].sent /\ call[d].ask.msg = m}
    BY <1>3, <1>4, <1>5
  <2> QED
    BY <2>1, <1>5 DEF SendsCounted
<1> QED
  BY <1>7, <1>8 DEF SendsCounted, Asked, At

(* The SMTP server takes a message: one more call has sent it.             *)
LEMMA CountSubmits ==
    ASSUME TypeOK, Progress, SendsCounted, NEW c \in Call, Submit(c)
    PROVE  SendsCounted'
<1>1. call[c] \in Row /\ call[c].pc = "submit" /\ ~call[c].sent /\ c \in DOMAIN call
  BY DEF TypeOK, Progress, Sensible, Submit, At
<1>2. /\ call'[c].pc # "idle" /\ call'[c].ask = call[c].ask /\ call'[c].heard = call[c].heard
      /\ \A d \in Call : d # c => call'[d] = call[d]
      /\ \/ sent' = sent /\ ~call'[c].sent
         \/ Took(c) /\ call'[c].sent
  <2> DEFINE old == call[c]
             lost == [old EXCEPT !.pc = "note", !.outcome = "backend_unavailable"]
             taken == [old EXCEPT !.sent = TRUE, !.pc = "note", !.outcome = "backend_unavailable"]
             good == [old EXCEPT !.sent = TRUE, !.pc = IF old.ask.append THEN "imap" ELSE "note"]
  <2>1. \/ Took(c) /\ Becomes(c, good)
        \/ sent' = sent /\ Becomes(c, lost)
        \/ Took(c) /\ Becomes(c, taken)
    BY DEF Submit, Submitted, Conclude
  <2>2. /\ good.pc # "idle" /\ good.ask = old.ask /\ good.heard = old.heard /\ good.sent
        /\ lost.pc # "idle" /\ lost.ask = old.ask /\ lost.heard = old.heard /\ ~lost.sent
        /\ taken.pc # "idle" /\ taken.ask = old.ask /\ taken.heard = old.heard /\ taken.sent
    BY <1>1 DEF Row
  <2> HIDE DEF good, lost, taken
  <2> QED
    BY <1>1, <2>1, <2>2 DEF Becomes, TypeOK
<1>3. ASSUME NEW d \in Call, NEW e \in Call, d # e,
             call'[d].ask.tool \in Senders, call'[d].pc # "idle",
             call'[e].ask.tool \in Senders, call'[e].pc # "idle",
             call'[d].ask.msg = call'[e].ask.msg
      PROVE  call'[d].heard \notin {"waiting", "result"} \/ call'[e].heard \notin {"waiting", "result"}
  <2>1. \A f \in Call : /\ call'[f].ask = call[f].ask /\ call'[f].heard = call[f].heard
                        /\ call[f].pc = "idle" => call'[f].pc = "idle"
    BY <1>1, <1>2
  <2> QED
    BY <1>3, <2>1 DEF SendsCounted, Asked, At
<1> DEFINE m0 == call[c].ask.msg
           By(m) == {d \in Call : call[d].sent /\ call[d].ask.msg = m}
           ByNow(m) == {d \in Call : call'[d].sent /\ call'[d].ask.msg = m}
<1>4. ASSUME NEW m \in Msg PROVE IsFiniteSet(By(m)) /\ sent[m] = Cardinality(By(m))
  BY CallsAssumption, FS_Subset DEF SendsCounted
<1>5. ASSUME NEW m \in Msg PROVE sent'[m] = Cardinality(ByNow(m))
  <2>1. CASE sent' = sent /\ ~call'[c].sent
    <3>1. ByNow(m) = By(m)
      BY <1>1, <1>2, <2>1
    <3> QED
      BY <3>1, <2>1, <1>4
  <2>2. CASE Took(c) /\ call'[c].sent
    <3>1. CASE m = m0
      <4>1. ByNow(m) = By(m) \cup {c} /\ c \notin By(m)
        BY <1>1, <1>2, <2>2, <3>1
      <4>2. sent'[m] = sent[m] + 1
        BY <2>2, <3>1 DEF Took, TypeOK
      <4>3. Cardinality(By(m) \cup {c}) = Cardinality(By(m)) + 1
        BY <1>4, <4>1, FS_AddElement
      <4> QED
        BY <4>1, <4>2, <4>3, <1>4
    <3>2. CASE m # m0
      <4>1. ByNow(m) = By(m)
        BY <1>1, <1>2, <2>2, <3>2
      <4>2. sent'[m] = sent[m]
        BY <2>2, <3>2 DEF Took, TypeOK
      <4> QED
        BY <4>1, <4>2, <1>4
    <3> QED
      BY <3>1, <3>2
  <2> QED
    BY <2>1, <2>2, <1>2
<1> QED
  BY <1>3, <1>5 DEF SendsCounted, Asked, At

-----------------------------------------------------------------------------
LEMMA CallsStart == Init => CallsInv
<1> SUFFICES ASSUME Init PROVE CallsInv
  OBVIOUS
<1>1. LogInv /\ HolesCounted /\ FragmentsCounted
  BY LogStarts, HolesStart, FragmentsStart DEF Init
<1> DEFINE first == CHOOSE ask \in Ask : TRUE
<1>2. first \in Ask
  BY CallsAssumption
<1> HIDE DEF first
<1>3. \A c \in Call : call[c] = Idle(first) /\ call[c] \in Row /\ Sensible(call[c])
  BY <1>2, IdleRow DEF Init, first
<1>4. call = [c \in Call |-> Idle(first)]
  BY DEF Init, first
<1>5. TypeOK
  BY <1>3, <1>4 DEF Init, TypeOK
<1>6. Progress
  BY <1>3 DEF Progress
<1>7. /\ writer = Unlocked /\ Len(trail) = 0
      /\ \A c \in Call : call[c].pc = "idle" /\ ~call[c].sent /\ call[c].heard \notin Answer
  BY <1>3 DEF Init, LogInit, Idle, Answer, Refusal
<1>8. LinesMatchCalls
  BY <1>7 DEF LinesMatchCalls, At
<1>9. SendsCounted
  <2>1. ASSUME NEW m \in Msg
        PROVE  sent[m] = Cardinality({c \in Call : call[c].sent /\ call[c].ask.msg = m})
    <3>1. {c \in Call : call[c].sent /\ call[c].ask.msg = m} = {}
      BY <1>7
    <3> QED
      BY <3>1, FS_EmptySet DEF Init
  <2> QED
    BY <1>7, <2>1 DEF SendsCounted, Asked, At
<1> QED
  BY <1>1, <1>5, <1>6, <1>8, <1>9 DEF CallsInv

(* A call's own step that writes no line.                                  *)
LEMMA QuietStep ==
    ASSUME CallsInv, NEW c \in Call,
           \/ Begin(c) \/ Dispatch(c) \/ CheckMail(c) \/ SmtpConnect(c) \/ Submit(c)
           \/ ImapConnect(c) \/ AppendSent(c) \/ MailboxCommands(c) \/ Reply(c) \/ GiveUp(c)
    PROVE  call' \in [Call -> Row] /\ Progress' /\ LinesMatchCalls' /\ SendsCounted'
<1>1. LogTypeOK /\ TypeOK /\ Progress /\ LinesMatchCalls /\ SendsCounted
  BY DEF CallsInv, LogInv
<1>2. UNCHANGED logVars
  BY DEF Begin, Dispatch, CheckMail, SmtpConnect, Submit, ImapConnect, AppendSent,
         MailboxCommands, Reply, GiveUp
<1>3. PICK row \in Row : Sensible(row) /\ Calm(call[c], row) /\ Becomes(c, row)
  BY <1>1, BeginMoves, DispatchMoves, CheckMoves, ConnectMoves, SubmitMoves, ImapMoves,
     CommandMoves, ReplyMoves
<1>4. /\ call' \in [Call -> Row] /\ Progress' /\ call'[c] = row
      /\ \A d \in Call : d # c => call'[d] = call[d]
  BY <1>1, <1>3, OneMoves
<1>5. LinesMatchCalls'
  BY <1>1, <1>2, <1>3, CalmKeepsLines
<1>6. SendsCounted'
  <2>1. CASE Begin(c)
    BY <1>1, <2>1, CountBegins
  <2>2. CASE Submit(c)
    BY <1>1, <2>2, CountSubmits
  <2>3. CASE \/ Dispatch(c) \/ CheckMail(c) \/ SmtpConnect(c) \/ ImapConnect(c)
             \/ AppendSent(c) \/ MailboxCommands(c) \/ Reply(c) \/ GiveUp(c)
    <3>1. sent' = sent /\ call'[c].sent = call[c].sent
      BY <1>1, <2>3, OnlySubmitSends
    <3>2. call[c].pc # "idle"
      BY <2>3 DEF Dispatch, CheckMail, SmtpConnect, ImapConnect, AppendSent,
                  MailboxCommands, Reply, GiveUp, At
    <3>3. \A d \in Call :
            /\ call'[d].sent = call[d].sent
            /\ call[d].pc = "idle" => call'[d].pc = "idle"
            /\ call[d].pc # "idle" => call'[d].ask = call[d].ask
            /\ call[d].heard = "waiting" \/ call'[d].heard = call[d].heard
      BY <1>3, <1>4, <3>1, <3>2 DEF Calm
    <3> QED
      BY <1>1, <3>1, <3>3, CountStands
  <2> QED
    BY <2>1, <2>2, <2>3
<1> QED
  BY <1>4, <1>5, <1>6

(* A step of the logger.                                                   *)
LEMMA WritingStep ==
    ASSUME CallsInv, Rotate \/ Crash \/ (\E c \in Call : BeginLine(c) \/ EndLine(c) \/ LineFails(c))
    PROVE  call' \in [Call -> Row] /\ Progress' /\ LinesMatchCalls' /\ SendsCounted'
<1>1. LogTypeOK /\ TypeOK /\ Progress /\ LinesMatchCalls /\ SendsCounted
  BY DEF CallsInv, LogInv
<1>2. CASE Rotate \/ (\E c \in Call : BeginLine(c))
  <2>1. call' = call /\ sent' = sent
    BY <1>2 DEF Rotate, BeginLine, callVars
  <2>2. LinesMatchCalls'
    BY <1>1, <1>2, RotateKeepsLines, BeginLineKeepsLines
  <2>3. call' \in [Call -> Row] /\ Progress'
    BY <1>1, <2>1 DEF TypeOK, Progress
  <2>4. SendsCounted'
    BY <1>1, <2>1, CountStands
  <2> QED
    BY <2>2, <2>3, <2>4
<1>3. CASE Crash \/ (\E c \in Call : EndLine(c) \/ LineFails(c))
  <2>1. /\ call' \in [Call -> Row] /\ Progress' /\ LinesMatchCalls' /\ sent' = sent
        /\ \A d \in Call : Bookkeeping(call[d], call'[d])
    BY <1>1, <1>3, CrashKeeps, EndLineKeeps, LineFailsKeeps
  <2>2. SendsCounted'
    BY <1>1, <2>1, CountStands DEF Bookkeeping
  <2> QED
    BY <2>1, <2>2
<1> QED
  BY <1>2, <1>3

LEMMA CallsStep ==
    ASSUME CallsInv, [Next]_vars
    PROVE  CallsInv'
<1>1. /\ LogInv /\ HolesCounted /\ FragmentsCounted /\ LogTypeOK
      /\ TypeOK /\ Progress /\ LinesMatchCalls /\ SendsCounted
  BY DEF CallsInv, LogInv
<1>2. LogInv' /\ HolesCounted' /\ FragmentsCounted'
  <2>1. [LogNext]_logVars
    BY <1>1, DrivesTheLog
  <2> QED
    BY <1>1, <2>1, LogStep, HolesStep, FragmentsStep
<1>3. CASE UNCHANGED vars
  <2>1. call' = call /\ sent' = sent /\ writer' = writer /\ trail' = trail
    BY <1>3 DEF vars
  <2>2. TypeOK' /\ Progress' /\ LinesMatchCalls' /\ SendsCounted'
    BY <1>1, <2>1 DEF TypeOK, Progress, LinesMatchCalls, SendsCounted, At, Asked, LineOf
  <2> QED
    BY <1>2, <2>2 DEF CallsInv
<1>4. CASE Next
  <2>1. call' \in [Call -> Row] /\ Progress' /\ LinesMatchCalls' /\ SendsCounted'
    BY <1>4, QuietStep, WritingStep DEF Next
  <2>2. sent' \in [Msg -> Nat]
    <3>1. ASSUME NEW c \in Call, Took(c) PROVE sent' \in [Msg -> Nat]
      <4> DEFINE m == call[c].ask.msg
      <4>1. m \in Msg
        BY <1>1, AskTypes DEF TypeOK, Row
      <4>2. sent' = [sent EXCEPT ![m] = @ + 1] /\ sent \in [Msg -> Nat]
        BY <1>1, <3>1 DEF Took, TypeOK
      <4> HIDE DEF m
      <4>3. sent[m] + 1 \in Nat
        BY <4>1, <4>2
      <4> QED
        BY <4>1, <4>2, <4>3
    <3>2. \/ sent' = sent
          \/ \E c \in Call : Took(c)
      BY <1>4 DEF Next, Begin, Dispatch, CheckMail, SmtpConnect, Submit, ImapConnect,
                  AppendSent, MailboxCommands, BeginLine, EndLine, LineFails, Reply, GiveUp,
                  Rotate, Crash, callVars
    <3> QED
      BY <1>1, <3>1, <3>2 DEF TypeOK
  <2> QED
    BY <1>2, <2>1, <2>2 DEF CallsInv, TypeOK
<1> QED
  BY <1>3, <1>4

(* The invariant holds in every state of every run.                        *)
THEOREM CallsInvariant == Spec => []CallsInv
<1>1. Init => CallsInv
  BY CallsStart
<1>2. CallsInv /\ [Next]_vars => CallsInv'
  BY CallsStep
<1> QED
  BY <1>1, <1>2, PTL DEF Spec

(* Every call stays within its steps, tries no login more than Retries + 1 *)
(* times.                                                                  *)
THEOREM CallsTyped == Spec => []TypeOK
<1>1. CallsInv => TypeOK
  BY DEF CallsInv
<1> QED
  BY <1>1, CallsInvariant, PTL

(* The log file and its backups keep their shape under the calls' threads. *)
THEOREM LogTyped == Spec => []LogTypeOK
<1>1. CallsInv => LogTypeOK
  BY DEF CallsInv, LogInv
<1> QED
  BY <1>1, CallsInvariant, PTL

(* send_email: a call with a flaw, of a disabled tool, or that was told a   *)
(* refusal has sent nothing.                                               *)
THEOREM RefusalsSendNothing == Spec => []RefusedCallsIdle
<1>1. ASSUME CallsInv PROVE RefusedCallsIdle
  <2>1. ASSUME NEW c \in Call, call[c].sent
        PROVE  /\ call[c].ask.flaws \cap Flaw = {}
               /\ "send_email" \in Enabled
               /\ call[c].heard \notin Refusal
    <3>1. /\ Sensible(call[c]) /\ call[c] \in Row
          /\ Unflawed(call[c].ask) /\ call[c].outcome \in {"result", "backend_unavailable"}
      BY <1>1, <2>1 DEF CallsInv, Progress, TypeOK, Sensible
    <3>2. /\ call[c].ask.tool \in Senders
          /\ FlagOf(call[c].ask.tool) = "send_email"
          /\ call[c].ask.tool # "get_sender_identity"
      BY <3>1 DEF Unflawed, FlagOf, Senders
    <3>3. /\ "types" \notin call[c].ask.flaws /\ "send_email" \in Enabled
          /\ "sender" \notin call[c].ask.flaws
      BY <3>1, <3>2 DEF Unflawed, FirstRefusal
    <3>4. call[c].ask.flaws \cap Flaw = {}
      BY <3>1, <3>3 DEF Unflawed, Flaw
    <3>5. call[c].heard \notin Refusal
      BY <3>1 DEF Sensible, Answer, Refusal
    <3> QED
      BY <3>3, <3>4, <3>5
  <2> QED
    BY <2>1 DEF RefusedCallsIdle
<1> QED
  BY <1>1, CallsInvariant, PTL

(* The server never sends one message twice of its own accord: between two *)
(* sendings stands an answer that left the client in doubt.                *)
THEOREM SendsOncePerDoubt == Spec => []DoubleSendNeedsDoubt
<1>1. ASSUME CallsInv PROVE DoubleSendNeedsDoubt
  <2>1. ASSUME NEW m \in Msg
        PROVE  sent[m] <= 1 + Cardinality({c \in Call : /\ Asked(c)
                                                        /\ call[c].ask.msg = m
                                                        /\ call[c].heard \in Doubt})
    <3> DEFINE S == {c \in Call : call[c].sent /\ call[c].ask.msg = m}
               D == {c \in Call : Asked(c) /\ call[c].ask.msg = m /\ call[c].heard \in Doubt}
    <3>1. sent[m] = Cardinality(S)
      BY <1>1 DEF CallsInv, SendsCounted
    <3>2. IsFiniteSet(D) /\ Cardinality(D) \in Nat /\ IsFiniteSet(S)
      BY CallsAssumption, FS_Subset, FS_CardinalityType
    <3>3. \A c \in S : Asked(c) /\ call[c].heard \in {"waiting", "result"} \cup Doubt
      <4>1. ASSUME NEW c \in S PROVE Asked(c) /\ call[c].heard \in {"waiting", "result"} \cup Doubt
        <5>1. Sensible(call[c]) /\ call[c] \in Row /\ call[c].sent
          BY <1>1 DEF CallsInv, Progress, TypeOK
        <5>2. call[c].ask.tool \in Senders /\ call[c].pc # "idle"
          BY <5>1 DEF Sensible, Unflawed
        <5>3. call[c].heard \in {"waiting", "result"} \cup Doubt
          BY <5>1 DEF Sensible, Row, Doubt
        <5> QED
          BY <5>2, <5>3 DEF Asked, At
      <4> QED
        BY <4>1
    <3>4. \A c, d \in S \ D : c = d
      BY <1>1, <3>3 DEF CallsInv, SendsCounted
    <3> HIDE DEF S, D
    <3>5. Cardinality(S) <= 1 + Cardinality(D)
      <4>1. CASE S \subseteq D
        BY <3>2, <4>1, FS_Subset, FS_CardinalityType
      <4>2. CASE ~(S \subseteq D)
        <5>1. PICK e \in S : e \notin D
          BY <4>2
        <5>2. S \subseteq D \cup {e}
          BY <3>4, <5>1
        <5>3. IsFiniteSet(D \cup {e}) /\ Cardinality(D \cup {e}) = Cardinality(D) + 1
          BY <3>2, <5>1, FS_AddElement
        <5>4. Cardinality(S) <= Cardinality(D \cup {e})
          BY <5>2, <5>3, FS_Subset
        <5> QED
          BY <5>3, <5>4, <3>2
      <4> QED
        BY <4>1, <4>2
    <3> QED
      BY <3>1, <3>5 DEF D
  <2> QED
    BY <2>1 DEF DoubleSendNeedsDoubt
<1> QED
  BY <1>1, CallsInvariant, PTL

(* call_tool: no answer of a tool leaves the server before its audit line  *)
(* is there, and readable but for one line a fragment.  A caller that was  *)
(* told without such a line has a spoilt line of its own.                  *)
THEOREM AnswersFollowLines == Spec => []AnswersAudited
<1>1. ASSUME CallsInv PROVE AnswersAudited
  <2> DEFINE LineFor(c) == [call |-> c, event |-> call[c].heard]
             Blind == {c \in Call : /\ call[c].ask.tool \in Tool
                                   /\ call[c].heard \in Answer
                                   /\ \A i \in 1..Len(trail) :
                                        trail[i] # [line |-> LineFor(c), legible |-> TRUE]}
             Spot(c) == CHOOSE i \in Spoilt : trail[i].line = LineFor(c)
  <2>1. LogTypeOK /\ FragmentsCounted
    BY <1>1 DEF CallsInv, LogInv
  <2>2. /\ IsFiniteSet(Spoilt) /\ Cardinality(Spoilt) \in Nat
        /\ Cardinality(Spoilt) <= fragments /\ fragments \in Nat
    BY <2>1, SpoiltCounts DEF FragmentsCounted, LogTypeOK
  <2>3. ASSUME NEW c \in Blind PROVE Spot(c) \in Spoilt /\ trail[Spot(c)].line = LineFor(c)
    <3>1. call[c].heard = call[c].outcome
      BY <1>1 DEF CallsInv, Progress, Sensible
    <3>2. PICK i \in 1..Len(trail) : trail[i].line = LineFor(c)
      BY <1>1, <3>1 DEF CallsInv, LinesMatchCalls
    <3>3. trail[i] \in [line: Line, legible: BOOLEAN]
      <4> DEFINE Entry == [line: Line, legible: BOOLEAN]
      <4>1. trail \in Seq(Entry)
        BY <2>1 DEF LogTypeOK
      <4> HIDE DEF Entry
      <4>2. trail[i] \in Entry
        BY <4>1
      <4> QED
        BY <4>2 DEF Entry
    <3>4. trail[i] # [line |-> LineFor(c), legible |-> TRUE]
      OBVIOUS
    <3>5. i \in Spoilt
      BY <3>2, <3>3, <3>4 DEF Spoilt
    <3> QED
      BY <3>2, <3>5
  <2>4. \A c, d \in Blind : LineFor(c) = LineFor(d) => c = d
    OBVIOUS
  <2> HIDE DEF LineFor, Blind, Spot
  <2>5. [c \in Blind |-> Spot(c)] \in Injection(Blind, Spoilt)
    BY <2>3, <2>4 DEF Injection, IsInjective
  <2>6. IsFiniteSet(Blind) /\ Cardinality(Blind) <= Cardinality(Spoilt)
    BY <2>2, <2>5, FS_Injection
  <2>7. Cardinality(Blind) <= fragments
    BY <2>2, <2>6, FS_CardinalityType
  <2> QED
    BY <2>7 DEF AnswersAudited, Blind, LineFor
<1> QED
  BY <1>1, CallsInvariant, PTL

(* The lines about sending are true of what was sent.                      *)
THEOREM TrailIsHonest == Spec => []TrailHonest
<1>1. CallsInv => TrailHonest
  BY DEF CallsInv, LinesMatchCalls, TrailHonest
<1> QED
  BY <1>1, CallsInvariant, PTL

(* What the files keep, for any number of backups and any limit: the       *)
(* newest lines, without a gap.                                            *)
THEOREM LogKeepsNewest == Spec => []NewestKept
<1>1. CallsInv => NewestKept
  BY DEF CallsInv, LogInv
<1> QED
  BY <1>1, CallsInvariant, PTL

(* No file outgrows the limit, whatever is cut short and left behind.      *)
THEOREM LogStaysSmall == Spec => []FilesBounded
<1>1. CallsInv => FilesBounded
  BY DEF CallsInv, LogInv
<1> QED
  BY <1>1, CallsInvariant, PTL

(* A rotation cut short costs one backup at most, not the rest of them.    *)
THEOREM LogKeepsBackups == Spec => []BackupsKept
<1>1. ASSUME CallsInv PROVE BackupsKept
  BY <1>1 DEF CallsInv, HolesCounted, BackupsKept
<1> QED
  BY <1>1, CallsInvariant, PTL
=============================================================================
