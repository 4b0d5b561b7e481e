------------------------- MODULE MailboxToolsProofs -------------------------
(***************************************************************************)
(* Proofs that the mailbox tools never lose mail, for any number of calls, *)
(* folders, messages and UIDs and any set of enabled tools, and what they  *)
(* can lose when the user's mail client is open beside them.               *)
(*                                                                         *)
(* The argument: a mover marks its original only after a COPY, and what    *)
(* the COPY filed has a UID that no other call can be holding; so whatever *)
(* copy was safe before, there is one now (EachHasSpare).                  *)
(***************************************************************************)
EXTENDS MailboxTools, SequenceTheorems, TLAPS

(* The mail there is at first is unmarked, and no call is under way.       *)
LEMMA InitIInv == Init => IInv
<1> SUFFICES ASSUME Init PROVE IInv
  OBVIOUS
<1> DEFINE n == Len(Start)
<1>1. n \in Nat /\ \A u \in 1..n : Start[u] \in [folder: Folder, msg: Message]
  <2>1. Start \in Seq([folder: Folder, msg: Message])
    BY MailboxAssumption
  <2> QED
    BY <2>1, LenProperties, ElementOfSeq
<1>2. \A c \in Call : call[c] = Idle
  BY DEF Init
<1>3. /\ DOMAIN mail = 1..n
      /\ \A u \in 1..n : mail[u] = [folder |-> Start[u].folder, msg |-> Start[u].msg,
                                    deleted |-> FALSE, seen |-> FALSE]
  BY DEF Init
<1>4. WellTyped
  <2>1. \A u \in 1..n : mail[u] \in Copy /\ u \in Nat /\ u < next /\ mail[u].folder \in folders
    BY <1>1, <1>3 DEF Init, Copy
  <2>2. mail \in [DOMAIN mail -> Copy]
    BY <1>3, <2>1 DEF Init
  <2> QED
    BY <1>1, <1>3, <2>1, <2>2 DEF Init, WellTyped
<1>5. SelectedExists /\ CallsMatchTools
  BY <1>2 DEF SelectedExists, CallsMatchTools
<1>6. EachHasSpare
  <2>1. \A u : ~Targeted(u)
    BY <1>2 DEF Targeted, At, Idle
  <2>2. \A m \in Message : \E u \in 1..n : mail[u].msg = m /\ ~mail[u].deleted
    BY <1>3, MailboxAssumption
  <2> QED
    BY <1>3, <2>1, <2>2 DEF EachHasSpare
<1> QED
  BY <1>4, <1>5, <1>6 DEF IInv

-----------------------------------------------------------------------------
(* A call that is under way holds a tool's arguments.                      *)
LEMMA Shapes ==
    ASSUME IInv, NEW c \in Call, call[c].pc # "idle"
    PROVE  /\ call[c] \in Working
           /\ call[c] # Idle
BY DEF IInv, WellTyped, Idle

(* Idle is not a step.                                                     *)
LEMMA WorkingNotIdle == ASSUME NEW w \in Working PROVE w.pc \in Step /\ w # Idle
BY DEF Working, Idle, Step

(* A call that goes on keeps its arguments.                                *)
LEMMA MoveTypes ==
    ASSUME IInv, NEW c \in Call, call[c].pc # "idle", NEW step \in Step, Goto(c, step)
    PROVE  /\ call' \in [Call -> Working \cup {Idle}]
           /\ call'[c] \in Working
           /\ call'[c].pc = step /\ call'[c].tool = call[c].tool
           /\ call'[c].src = call[c].src /\ call'[c].dst = call[c].dst
           /\ call'[c].uids = call[c].uids
           /\ \A k \in Call : k # c => call'[k] = call[k]
<1>1. call[c] \in Working /\ call \in [Call -> Working \cup {Idle}]
  BY Shapes DEF IInv, WellTyped
<1>2. [call[c] EXCEPT !.pc = step] \in Working
  BY <1>1 DEF Working
<1>3. call' = [call EXCEPT ![c] = [call[c] EXCEPT !.pc = step]]
  BY <1>1 DEF Goto
<1> QED
  BY <1>1, <1>2, <1>3 DEF Working

(* Calls that end, of their own accord or because their folder is gone.    *)
LEMMA EndTypes ==
    ASSUME IInv, NEW c \in Call, Finish(c) \/ FinishAndDrop(c)
    PROVE  /\ call' \in [Call -> Working \cup {Idle}]
           /\ call'[c] = Idle
           /\ \A k \in Call : call'[k] = call[k] \/ call'[k] = Idle
BY DEF IInv, WellTyped, Finish, FinishAndDrop

(* A copy that was spare, of a message that is not doomed, still is.       *)
LEMMA SpareFrame ==
    ASSUME IInv, UNCHANGED marked, doomed \subseteq doomed',
           \A u \in DOMAIN mail :
             mail[u].msg \notin doomed' /\ ~mail[u].deleted /\ ~Targeted(u) =>
               u \in DOMAIN mail' /\ mail'[u].msg = mail[u].msg
                 /\ ~mail'[u].deleted /\ ~Targeted(u)'
    PROVE  EachHasSpare'
<1> SUFFICES ASSUME NEW m \in Message, m \notin doomed' \cup marked'
             PROVE  \E u \in DOMAIN mail' : mail'[u].msg = m /\ ~mail'[u].deleted /\ ~Targeted(u)'
  BY DEF EachHasSpare
<1>1. PICK u \in DOMAIN mail : mail[u].msg = m /\ ~mail[u].deleted /\ ~Targeted(u)
  BY DEF IInv, EachHasSpare
<1> QED
  BY <1>1

(* No copy becomes a target when no call takes up marking, and copies stay *)
(* in their folders.                                                       *)
LEMMA TargetFrame ==
    ASSUME NEW u \in DOMAIN mail, u \in DOMAIN mail', ~Targeted(u),
           mail'[u].folder = mail[u].folder,
           \A k \in Call : call'[k] = call[k] \/ call'[k].pc # "mark"
    PROVE  ~Targeted(u)'
BY DEF Targeted, At
-----------------------------------------------------------------------------
(* A call begins: it is far from marking anything.                         *)
LEMMA BeginStep ==
    ASSUME IInv, UNCHANGED marked, NEW c \in Call, NEW tool \in Tool,
           NEW src \in Folder, NEW dst \in Folder,
           NEW uids \in SUBSET DOMAIN mail, Begin(c, tool, src, dst, uids),
           tool \in Copiers => \E u \in uids : uids = {u}
    PROVE  IInv'
<1> DEFINE w == [pc |-> FirstStep(tool), tool |-> tool,
                 src |-> src, dst |-> dst, uids |-> uids]
<1>1. /\ UNCHANGED <<folders, mail, next, doomed>>
      /\ tool # "create_folder" => src \in folders
      /\ call' = [call EXCEPT ![c] = w]
  BY DEF Begin
<1>2. FirstStep(tool) \in Step /\ FirstStep(tool) \notin {"mark", "copy"}
      /\ (FirstStep(tool) = "search" => tool = "empty_trash")
      /\ (FirstStep(tool) = "fetch_uid" =>
             tool \in Copiers \cup {"delete_email_permanent", "mark_read_state"})
  BY DEF FirstStep, Step, Tool, Copiers, Movers, Destroyers, FolderTools
<1>3. w \in Working
  BY <1>2 DEF IInv, WellTyped, Working
<1>4. /\ call' \in [Call -> Working \cup {Idle}]
      /\ call'[c] = w
      /\ \A k \in Call : k # c => call'[k] = call[k]
  BY <1>1, <1>3 DEF IInv, WellTyped
<1>5. WellTyped'
  BY <1>1, <1>4 DEF IInv, WellTyped
<1>6. SelectedExists'
  BY <1>1, <1>4 DEF IInv, SelectedExists, FolderTools
<1>7. CallsMatchTools'
  <2>1. \A u \in uids : u < next'
    BY <1>1 DEF IInv, WellTyped
  <2> QED
    BY <1>1, <1>2, <1>4, <2>1 DEF IInv, CallsMatchTools, At
<1>8. \A u \in DOMAIN mail : ~Targeted(u) => ~Targeted(u)'
  <2>1. \A k \in Call : call'[k] = call[k] \/ call'[k].pc # "mark"
    BY <1>2, <1>4
  <2> QED
    BY <1>1, <2>1, TargetFrame
<1>9. EachHasSpare'
  BY <1>1, <1>8, SpareFrame
<1> QED
  BY <1>5, <1>6, <1>7, <1>9 DEF IInv

(* The three ways a call begins.                                           *)
LEMMA BeginSteps ==
    ASSUME IInv, UNCHANGED marked, NEW c \in Call, BeginCopy(c) \/ BeginOnUid(c) \/ BeginOnFolder(c)
    PROVE  IInv'
<1> USE MailboxAssumption DEF Tool, Copiers, Movers, Destroyers, FolderTools
<1>1. CASE BeginCopy(c)
  <2>1. PICK src \in Folder, dst \in Folder, u \in DOMAIN mail :
          \/ \E tool \in {"copy_email", "move_email"} : Begin(c, tool, src, dst, {u})
          \/ Begin(c, "move_to_trash", src, Trash, {u})
    BY <1>1 DEF BeginCopy, Filed
  <2>2. {u} \in SUBSET DOMAIN mail /\ \E v \in {u} : {u} = {v}
    OBVIOUS
  <2> QED
    BY <2>1, <2>2, BeginStep
<1>2. CASE BeginOnUid(c)
  <2>1. PICK src \in Folder, u \in DOMAIN mail :
          \E tool \in {"delete_email_permanent", "mark_read_state", "read_email"} :
            Begin(c, tool, src, src, {u})
    BY <1>2 DEF BeginOnUid, Filed
  <2>2. {u} \in SUBSET DOMAIN mail /\ \E v \in {u} : {u} = {v}
    OBVIOUS
  <2> QED
    BY <2>1, <2>2, BeginStep
<1>3. CASE BeginOnFolder(c)
  <2>1. PICK src \in Folder, dst \in Folder :
          \/ Begin(c, "empty_trash", Trash, Trash, {})
          \/ Begin(c, "rename_folder", src, dst, {})
          \/ \E tool \in {"create_folder", "delete_folder"} : Begin(c, tool, src, src, {})
    BY <1>3 DEF BeginOnFolder
  <2>2. {} \in SUBSET DOMAIN mail
    OBVIOUS
  <2> QED
    BY <2>1, <2>2, BeginStep
<1> QED
  BY <1>1, <1>2, <1>3

(* A call that goes on to a step its tool has, with nothing else changed:  *)
(* only a destroying tool gets to the marking step this way.               *)
LEMMA GotoStep ==
    ASSUME IInv, UNCHANGED marked, NEW c \in Call, call[c].pc # "idle",
           NEW step \in Step \ {"search", "fetch_uid"},
           Goto(c, step), UNCHANGED <<folders, mail, next, doomed>>,
           step = "copy" => call[c].tool \in Copiers,
           step = "mark" => call[c].tool \in {"delete_email_permanent", "empty_trash"}
    PROVE  IInv'
<1>1. /\ call' \in [Call -> Working \cup {Idle}]
      /\ call'[c] \in Working
      /\ call'[c].pc = step /\ call'[c].tool = call[c].tool
      /\ call'[c].src = call[c].src /\ call'[c].dst = call[c].dst
      /\ call'[c].uids = call[c].uids
      /\ \A k \in Call : k # c => call'[k] = call[k]
  BY MoveTypes
<1>2. call[c] # Idle
  BY Shapes
<1>3. WellTyped'
  BY <1>1 DEF IInv, WellTyped
<1>4. SelectedExists'
  BY <1>1, <1>2 DEF IInv, SelectedExists
<1>5. CallsMatchTools'
  BY <1>1, <1>2 DEF IInv, CallsMatchTools, At
<1>6. \A u \in DOMAIN mail : ~Targeted(u) => ~Targeted(u)'
  BY <1>1 DEF Targeted, At, Movers
<1>7. EachHasSpare'
  BY <1>6, SpareFrame
<1> QED
  BY <1>3, <1>4, <1>5, <1>7 DEF IInv

(* The UID is there: copiers look at the target next, the others mark.     *)
LEMMA FetchUidStep ==
    ASSUME IInv, UNCHANGED marked, NEW c \in Call, FetchUid(c) PROVE IInv'
<1> DEFINE step == CASE call[c].tool \in Copiers -> "list_target"
                     [] call[c].tool = "mark_read_state" -> "store_seen"
                     [] OTHER -> "mark"
<1>1. call[c].pc = "fetch_uid" /\ Goto(c, step) /\ UNCHANGED <<folders, mail, next, doomed>>
  BY DEF FetchUid, At
<1>2. call[c].tool \in Copiers \cup {"delete_email_permanent", "mark_read_state"}
  BY <1>1, Shapes DEF IInv, CallsMatchTools, At
<1>3. step \in Step \ {"search", "fetch_uid", "copy"}
      /\ (step = "mark" => call[c].tool = "delete_email_permanent")
  BY <1>2 DEF Step, Copiers, Movers
<1> QED
  BY <1>1, <1>3, GotoStep

(* The target folder is there, or not there for a rename.                  *)
LEMMA ListTargetStep ==
    ASSUME IInv, UNCHANGED marked, NEW c \in Call, ListTarget(c) PROVE IInv'
<1>1. call[c].pc = "list_target" /\ UNCHANGED <<folders, mail, next, doomed>>
  BY DEF ListTarget, At
<1>2. \/ call[c].tool \in Copiers /\ Goto(c, "copy")
      \/ Goto(c, "rename")
  BY DEF ListTarget
<1>3. {"copy", "rename"} \subseteq Step \ {"search", "fetch_uid"}
  BY DEF Step
<1> QED
  BY <1>1, <1>2, <1>3, GotoStep

(* COPY files a new copy of the one UID the call holds, if it is there,    *)
(* and a mover then takes aim at the original.                             *)
LEMMA CopyUidStep ==
    ASSUME IInv, UNCHANGED marked, NEW c \in Call, CopyUid(c) PROVE IInv'
<1> DEFINE r == call[c]
           found == r.uids \cap Filed(r.src)
<1>1. r.pc = "copy" /\ r \in Working /\ r # Idle /\ UNCHANGED <<folders, doomed>>
  BY Shapes DEF CopyUid, At
<1>2. r.tool \in Copiers /\ \E x \in r.uids : r.uids = {x}
  BY <1>1 DEF IInv, CallsMatchTools, At
<1>3. r.dst \in folders /\ r.dst \in Folder
  BY <1>1 DEF CopyUid, Working
<1>4. /\ call' \in [Call -> Working \cup {Idle}]
      /\ \A k \in Call : k # c => call'[k] = call[k]
      /\ \/ call'[c] = Idle
         \/ /\ call'[c] \in Working
            /\ call'[c].pc = "mark" /\ call'[c].tool = r.tool /\ r.tool \in Movers
            /\ call'[c].src = r.src /\ call'[c].dst = r.dst /\ call'[c].uids = r.uids
  <2>1. CASE r.tool \in Movers /\ Goto(c, "mark")
    <3>1. "mark" \in Step
      BY DEF Step
    <3> QED
      BY <1>1, <2>1, <3>1, MoveTypes
  <2>2. CASE Finish(c)
    BY <2>2 DEF IInv, WellTyped, Finish
  <2> QED
    BY <2>1, <2>2 DEF CopyUid
<1>5. next \in Nat /\ next \notin DOMAIN mail
  BY DEF IInv, WellTyped
<1>6. SelectedExists'
  BY <1>1, <1>4 DEF IInv, SelectedExists
<1>7. ASSUME next' \in Nat, next <= next' PROVE CallsMatchTools'
  <2>1. \A k \in Call : call[k] # Idle => \A u \in call[k].uids : u < next'
    <3> SUFFICES ASSUME NEW k \in Call, call[k] # Idle, NEW u \in call[k].uids
                 PROVE  u < next'
      OBVIOUS
    <3>1. call[k] \in Working /\ u < next
      BY DEF IInv, WellTyped, CallsMatchTools
    <3>2. u \in Nat
      BY <3>1 DEF Working
    <3> QED
      BY <1>5, <1>7, <3>1, <3>2
  <2> QED
    BY <1>1, <1>2, <1>4, <2>1 DEF IInv, CallsMatchTools, At, Idle, Copiers
<1>8. CASE found = {} /\ UNCHANGED <<mail, next>>
  <2>1. WellTyped'
    BY <1>1, <1>4, <1>8 DEF IInv, WellTyped
  <2>2. CallsMatchTools'
    BY <1>5, <1>7, <1>8
  <2>3. \A u \in DOMAIN mail : ~Targeted(u) => ~Targeted(u)'
    BY <1>1, <1>4, <1>8 DEF Targeted, At, Idle, Filed
  <2>4. EachHasSpare'
    BY <1>1, <1>8, <2>3, SpareFrame
  <2> QED
    BY <1>6, <2>1, <2>2, <2>4 DEF IInv
<1>9. CASE \E u \in found :
             /\ mail' = [v \in DOMAIN mail \cup {next} |->
                           IF v = next THEN [mail[u] EXCEPT !.folder = r.dst] ELSE mail[v]]
             /\ next' = next + 1
  <2>1. PICK x \in found :
             /\ mail' = [v \in DOMAIN mail \cup {next} |->
                           IF v = next THEN [mail[x] EXCEPT !.folder = r.dst] ELSE mail[v]]
             /\ next' = next + 1
    BY <1>9
  <2>2. x \in DOMAIN mail /\ mail[x] \in Copy /\ r.uids = {x}
    BY <1>2 DEF Filed, IInv, WellTyped
  <2>3. [mail[x] EXCEPT !.folder = r.dst] \in Copy
        /\ [mail[x] EXCEPT !.folder = r.dst].folder = r.dst
        /\ [mail[x] EXCEPT !.folder = r.dst].msg = mail[x].msg
        /\ [mail[x] EXCEPT !.folder = r.dst].deleted = mail[x].deleted
    BY <1>3, <2>2 DEF Copy
  <2>4. /\ DOMAIN mail' = DOMAIN mail \cup {next}
        /\ mail'[next] \in Copy /\ mail'[next].folder = r.dst
        /\ mail'[next].msg = mail[x].msg /\ mail'[next].deleted = mail[x].deleted
        /\ \A v \in DOMAIN mail : mail'[v] = mail[v]
    BY <1>5, <2>1, <2>3
  <2>5. WellTyped'
    <3>1. \A v \in DOMAIN mail' : mail'[v] \in Copy /\ v \in Nat /\ v < next'
                                    /\ mail'[v].folder \in folders
      BY <1>3, <1>5, <2>1, <2>4 DEF IInv, WellTyped
    <3>2. mail' \in [DOMAIN mail' -> Copy]
      BY <2>1, <2>4, <3>1
    <3>3. DOMAIN mail' \subseteq Nat
      BY <3>1
    <3>4. next' = next + 1
      BY <2>1
    <3>5. next' \in Nat
      BY <1>5, <3>4
    <3> QED
      BY <1>1, <1>4, <3>1, <3>2, <3>3, <3>5 DEF IInv, WellTyped
  <2>6. CallsMatchTools'
    BY <1>5, <1>7, <2>1
  <2>7. PICK n \in Nat : n = next
    BY <1>5
  <2>8. ~Targeted(n)'
    <3>1. \A k \in Call : call'[k] # Idle => n \notin call'[k].uids
      BY <1>1, <1>4, <1>5, <2>7 DEF IInv, CallsMatchTools
    <3>2. \A k \in Call : call'[k].pc = "mark" => call'[k] # Idle
      BY DEF Idle
    <3> QED
      BY <3>1, <3>2 DEF Targeted, At
  <2>9. \A u \in DOMAIN mail : u # x /\ ~Targeted(u) => ~Targeted(u)'
    BY <1>4, <2>2, <2>4 DEF Targeted, At, Idle
  <2>10. EachHasSpare'
    <3> SUFFICES ASSUME NEW m \in Message, m \notin doomed \cup marked
                 PROVE  \E u \in DOMAIN mail' : mail'[u].msg = m /\ ~mail'[u].deleted
                                                  /\ ~Targeted(u)'
      BY <1>1 DEF EachHasSpare
    <3>1. PICK u \in DOMAIN mail : mail[u].msg = m /\ ~mail[u].deleted /\ ~Targeted(u)
      BY DEF IInv, EachHasSpare
    <3>2. CASE u = x
      <4>1. n \in DOMAIN mail' /\ mail'[n].msg = m /\ ~mail'[n].deleted
        BY <2>4, <2>7, <3>1, <3>2
      <4> QED
        BY <2>8, <4>1
    <3>3. CASE u # x
      BY <2>4, <2>9, <3>1, <3>3
    <3> QED
      BY <3>2, <3>3
  <2> QED
    BY <1>6, <2>5, <2>6, <2>10 DEF IInv
<1> QED
  BY <1>8, <1>9 DEF CopyUid

(* empty_trash has read the UIDs it will mark; it is no mover.             *)
LEMMA SearchStep ==
    ASSUME IInv, UNCHANGED marked, NEW c \in Call, Search(c) PROVE IInv'
<1> DEFINE r == call[c]
           w == [r EXCEPT !.pc = IF Filed(r.src) = {} THEN "expunge" ELSE "mark",
                          !.uids = Filed(r.src)]
<1>1. r.pc = "search" /\ r \in Working /\ r # Idle
      /\ UNCHANGED <<folders, mail, next, doomed>>
  BY Shapes DEF Search, At
<1>2. r.tool = "empty_trash"
  BY <1>1 DEF IInv, CallsMatchTools, At
<1>3. Filed(r.src) \in SUBSET Nat /\ \A u \in Filed(r.src) : u < next
  BY DEF IInv, WellTyped, Filed
<1>4. /\ w \in Working /\ w.tool = r.tool /\ w.src = r.src
      /\ w.pc \in {"expunge", "mark"} /\ w.uids = Filed(r.src)
  BY <1>1, <1>3 DEF Working, Step
<1>5. call' = [call EXCEPT ![c] = w]
  BY <1>1 DEF Search, IInv, WellTyped
<1>6. /\ call' \in [Call -> Working \cup {Idle}]
      /\ call'[c] = w
      /\ \A k \in Call : k # c => call'[k] = call[k]
  BY <1>4, <1>5 DEF IInv, WellTyped
<1>7. WellTyped'
  BY <1>1, <1>6 DEF IInv, WellTyped
<1>8. SelectedExists'
  BY <1>1, <1>4, <1>6 DEF IInv, SelectedExists
<1>9. CallsMatchTools'
  <2>1. w.tool = "empty_trash" /\ w.pc \notin {"fetch_uid", "copy", "search"}
        /\ w.tool \notin Copiers /\ \A u \in w.uids : u < next'
    BY <1>1, <1>2, <1>3, <1>4 DEF Copiers, Movers
  <2>2. \A k \in Call : call'[k] = w \/ call'[k] = call[k]
    BY <1>6
  <2> HIDE DEF w
  <2> QED
    BY <1>1, <2>1, <2>2 DEF IInv, CallsMatchTools, At
<1>10. \A u \in DOMAIN mail : ~Targeted(u) => ~Targeted(u)'
  BY <1>1, <1>2, <1>4, <1>6 DEF Targeted, At, Movers
<1>11. EachHasSpare'
  BY <1>1, <1>10, SpareFrame
<1> QED
  BY <1>7, <1>8, <1>9, <1>11 DEF IInv

(* Marking hits the targets of a mover, or dooms what it hits.             *)
LEMMA MarkDeletedStep ==
    ASSUME IInv, UNCHANGED marked, NEW c \in Call, MarkDeleted(c) PROVE IInv'
<1> DEFINE r == call[c]
           found == r.uids \cap Filed(r.src)
<1>1. r.pc = "mark" /\ r \in Working /\ r # Idle /\ UNCHANGED <<folders, next>>
  BY Shapes DEF MarkDeleted, At
<1>2. r.tool \in Movers \cup Destroyers
  BY <1>1 DEF IInv, CallsMatchTools, At, Destroyers
<1>3. /\ DOMAIN mail' = DOMAIN mail
      /\ \A u \in DOMAIN mail :
           /\ mail'[u] \in Copy
           /\ mail'[u].folder = mail[u].folder /\ mail'[u].msg = mail[u].msg
           /\ u \notin found => mail'[u] = mail[u]
      /\ mail' \in [DOMAIN mail -> Copy]
  BY DEF MarkDeleted, IInv, WellTyped, Copy
<1>4. /\ doomed' \subseteq Message /\ doomed \subseteq doomed'
      /\ r.tool \in Destroyers => \A u \in found : mail[u].msg \in doomed'
  <2>1. \A u \in DOMAIN mail : mail[u].msg \in Message
    BY DEF IInv, WellTyped, Copy
  <2> QED
    BY <2>1 DEF MarkDeleted, IInv, WellTyped, Filed
<1>5. /\ call' \in [Call -> Working \cup {Idle}]
      /\ call'[c] \in Working
      /\ call'[c].pc = "expunge" /\ call'[c].tool = r.tool
      /\ call'[c].src = r.src /\ call'[c].dst = r.dst /\ call'[c].uids = r.uids
      /\ \A k \in Call : k # c => call'[k] = call[k]
  <2>1. "expunge" \in Step /\ Goto(c, "expunge")
    BY DEF Step, MarkDeleted
  <2> QED
    BY <1>1, <2>1, MoveTypes
<1>6. WellTyped'
  BY <1>1, <1>3, <1>4, <1>5 DEF IInv, WellTyped
<1>7. SelectedExists'
  BY <1>1, <1>5 DEF IInv, SelectedExists
<1>8. CallsMatchTools'
  BY <1>1, <1>5 DEF IInv, CallsMatchTools, At
<1>9. \A u \in DOMAIN mail : ~Targeted(u) => ~Targeted(u)'
  BY <1>3, <1>5 DEF Targeted, At
<1>10. \A u \in found : Targeted(u) \/ mail[u].msg \in doomed'
  BY <1>1, <1>2, <1>4 DEF Targeted, At, Filed
<1>11. EachHasSpare'
  BY <1>3, <1>4, <1>9, <1>10, SpareFrame
<1> QED
  BY <1>6, <1>7, <1>8, <1>11 DEF IInv

(* Calls end and some copies go: none of them spare, or all of them of     *)
(* doomed messages.                                                        *)
LEMMA RemoveStep ==
    ASSUME IInv, UNCHANGED marked, NEW c \in Call, Finish(c) \/ FinishAndDrop(c),
           SelectedExists', folders' \subseteq Folder, next' = next,
           doomed \subseteq doomed', doomed' \subseteq Message,
           DOMAIN mail' \subseteq DOMAIN mail,
           mail' \in [DOMAIN mail' -> Copy],
           \A u \in DOMAIN mail' : /\ mail'[u].folder = mail[u].folder
                                    /\ mail'[u].msg = mail[u].msg
                                    /\ mail'[u].deleted = mail[u].deleted
                                    /\ mail[u].folder \in folders',
           \A u \in DOMAIN mail : mail[u].deleted \/ mail[u].msg \in doomed'
                                   \/ u \in DOMAIN mail'
    PROVE  IInv'
<1>1. /\ call' \in [Call -> Working \cup {Idle}]
      /\ \A k \in Call : call'[k] = call[k] \/ call'[k] = Idle
  BY EndTypes
<1>2. WellTyped'
  BY <1>1 DEF IInv, WellTyped
<1>3. CallsMatchTools'
  BY <1>1 DEF IInv, CallsMatchTools, At
<1>4. \A u \in DOMAIN mail' : ~Targeted(u) => ~Targeted(u)'
  BY <1>1 DEF Targeted, At, Idle
<1>5. EachHasSpare'
  BY <1>4, SpareFrame
<1> QED
  BY <1>2, <1>3, <1>5 DEF IInv

(* When folders stay, so do the selected ones.                             *)
LEMMA SelectedFrame ==
    ASSUME IInv, NEW c \in Call, Finish(c) \/ FinishAndDrop(c), folders \subseteq folders'
    PROVE  SelectedExists'
BY EndTypes DEF IInv, SelectedExists

(* EXPUNGE takes what is marked.                                           *)
LEMMA ExpungeStep ==
    ASSUME IInv, UNCHANGED marked, NEW c \in Call, Expunge(c) PROVE IInv'
<1>1. Finish(c) /\ UNCHANGED <<folders, next, doomed>>
  BY DEF Expunge
<1>2. /\ DOMAIN mail' \subseteq DOMAIN mail
      /\ \A u \in DOMAIN mail' : mail'[u] = mail[u]
      /\ \A u \in DOMAIN mail : mail[u].deleted \/ u \in DOMAIN mail'
      /\ mail' \in [DOMAIN mail' -> Copy]
  BY DEF Expunge, IInv, WellTyped
<1> QED
  BY <1>1, <1>2, SelectedFrame, RemoveStep DEF IInv, WellTyped

(* The \Seen flag says nothing of where a message is.                      *)
LEMMA SeenStep ==
    ASSUME IInv, UNCHANGED marked, NEW c \in Call, StoreSeen(c) \/ FetchBody(c) PROVE IInv'
<1>1. Finish(c) /\ UNCHANGED <<folders, next, doomed>>
  BY DEF StoreSeen, FetchBody
<1>2. /\ DOMAIN mail' = DOMAIN mail
      /\ mail' \in [DOMAIN mail -> Copy]
      /\ \A u \in DOMAIN mail : /\ mail'[u].folder = mail[u].folder
                                 /\ mail'[u].msg = mail[u].msg
                                 /\ mail'[u].deleted = mail[u].deleted
  <2>1. mail \in [DOMAIN mail -> Copy]
    BY DEF IInv, WellTyped
  <2>2. PICK b \in BOOLEAN, U \in SUBSET Nat :
          mail' = [u \in DOMAIN mail |->
                     IF u \in U THEN [mail[u] EXCEPT !.seen = b] ELSE mail[u]]
    <3>1. CASE StoreSeen(c)
      <4>1. call[c].uids \cap Filed(call[c].src) \in SUBSET Nat
        BY DEF Filed, IInv, WellTyped
      <4> QED
        BY <3>1, <4>1 DEF StoreSeen
    <3>2. CASE FetchBody(c)
      <4>1. call[c].uids \in SUBSET Nat
        BY <3>2, Shapes DEF FetchBody, At, Working
      <4> QED
        BY <3>2, <4>1 DEF FetchBody
    <3> QED
      BY <3>1, <3>2
  <2>3. \A u \in DOMAIN mail : [mail[u] EXCEPT !.seen = b] \in Copy
    BY <2>1 DEF Copy
  <2> QED
    BY <2>1, <2>2, <2>3 DEF Copy
<1> QED
  BY <1>1, <1>2, SelectedFrame, RemoveStep DEF IInv, WellTyped

(* A failure undoes nothing and does nothing.                              *)
LEMMA FailStep ==
    ASSUME IInv, UNCHANGED marked, NEW c \in Call, Fail(c) PROVE IInv'
<1>1. Finish(c) /\ UNCHANGED <<folders, mail, next, doomed>>
  BY DEF Fail
<1> QED
  BY <1>1, SelectedFrame, RemoveStep DEF IInv, WellTyped

(* A new folder is empty.                                                  *)
LEMMA CreateFolderStep ==
    ASSUME IInv, UNCHANGED marked, NEW c \in Call, CreateFolder(c) PROVE IInv'
<1>1. /\ Finish(c) /\ UNCHANGED <<mail, next, doomed>>
      /\ folders \subseteq folders' /\ folders' \subseteq Folder
  <2>1. call[c].src \in Folder
    BY Shapes DEF CreateFolder, At, Working
  <2> QED
    BY <2>1 DEF CreateFolder, IInv, WellTyped
<1> QED
  BY <1>1, SelectedFrame, RemoveStep DEF IInv, WellTyped

(* DELETE dooms what the folder holds.                                     *)
LEMMA DeleteFolderStep ==
    ASSUME IInv, UNCHANGED marked, NEW c \in Call, DeleteFolder(c) PROVE IInv'
<1> DEFINE f == call[c].src
<1>1. FinishAndDrop(c) /\ next' = next /\ folders' = folders \ {f}
  BY DEF DeleteFolder
<1>2. SelectedExists'
  BY <1>1 DEF IInv, SelectedExists, FinishAndDrop, Selecting
<1>3. /\ DOMAIN mail' = DOMAIN mail \ Filed(f)
      /\ \A u \in DOMAIN mail' : mail'[u] = mail[u]
      /\ mail' \in [DOMAIN mail' -> Copy]
  BY DEF DeleteFolder, IInv, WellTyped
<1>4. /\ doomed \subseteq doomed' /\ doomed' \subseteq Message
      /\ \A u \in Filed(f) : mail[u].msg \in doomed'
  <2>1. \A u \in DOMAIN mail : mail[u].msg \in Message
    BY DEF IInv, WellTyped, Copy
  <2> QED
    BY <2>1 DEF DeleteFolder, IInv, WellTyped, Filed
<1>5. \A u \in DOMAIN mail' : mail[u].folder \in folders'
  BY <1>1, <1>3 DEF IInv, WellTyped, Filed
<1> QED
  BY <1>1, <1>2, <1>3, <1>4, <1>5, RemoveStep DEF IInv, WellTyped

(* RENAME carries the folder's mail to a name that did not exist, so that  *)
(* no session can have it selected and none of its mail becomes a target.  *)
LEMMA RenameFolderStep ==
    ASSUME IInv, UNCHANGED marked, NEW c \in Call, RenameFolder(c) PROVE IInv'
<1> DEFINE f == call[c].src
           g == call[c].dst
<1>1. FinishAndDrop(c) /\ UNCHANGED <<next, doomed>>
      /\ g \notin folders /\ folders' = (folders \ {f}) \cup {g}
  BY DEF RenameFolder
<1>2. g \in Folder
  BY Shapes DEF RenameFolder, At, Working
<1>3. SelectedExists'
  BY <1>1 DEF IInv, SelectedExists, FinishAndDrop, Selecting
<1>4. /\ DOMAIN mail' = DOMAIN mail
      /\ mail' \in [DOMAIN mail -> Copy]
      /\ \A u \in DOMAIN mail :
           /\ mail'[u].msg = mail[u].msg /\ mail'[u].deleted = mail[u].deleted
           /\ \/ mail'[u].folder = mail[u].folder /\ mail[u].folder # f
              \/ mail'[u].folder = g
  <2>1. \A u \in DOMAIN mail : mail[u] \in Copy
    BY DEF IInv, WellTyped
  <2>2. \A u \in DOMAIN mail : [mail[u] EXCEPT !.folder = g] \in Copy
                                /\ [mail[u] EXCEPT !.folder = g].folder = g
                                /\ [mail[u] EXCEPT !.folder = g].msg = mail[u].msg
                                /\ [mail[u] EXCEPT !.folder = g].deleted = mail[u].deleted
    BY <1>2, <2>1 DEF Copy
  <2>3. mail' = [u \in DOMAIN mail |->
                   IF u \in Filed(f) THEN [mail[u] EXCEPT !.folder = g] ELSE mail[u]]
    BY DEF RenameFolder
  <2> QED
    BY <2>1, <2>2, <2>3 DEF Filed
<1>5. /\ call' \in [Call -> Working \cup {Idle}]
      /\ \A k \in Call : call'[k] = call[k] \/ call'[k] = Idle
  BY <1>1, EndTypes
<1>6. WellTyped'
  <2>1. \A u \in DOMAIN mail' : u < next' /\ mail'[u].folder \in folders'
    BY <1>1, <1>4 DEF IInv, WellTyped
  <2>2. folders' \subseteq Folder
    BY <1>1, <1>2 DEF IInv, WellTyped
  <2> QED
    BY <1>1, <1>4, <1>5, <2>1, <2>2 DEF IInv, WellTyped
<1>7. CallsMatchTools'
  BY <1>1, <1>5 DEF IInv, CallsMatchTools, At
<1>8. \A u \in DOMAIN mail : ~Targeted(u) => ~Targeted(u)'
  <2>1. \A k \in Call : call[k].pc = "mark" /\ call[k].tool \in Movers => call[k].src # g
    <3>1. \A k \in Call : call[k].pc = "mark" => call[k] # Idle
      BY DEF Idle
    <3> QED
      BY <1>1, <3>1 DEF IInv, SelectedExists, Movers, FolderTools
  <2> QED
    BY <1>4, <1>5, <2>1 DEF Targeted, At, Idle
<1>9. EachHasSpare'
  BY <1>1, <1>4, <1>8, SpareFrame
<1> QED
  BY <1>3, <1>6, <1>7, <1>9 DEF IInv

-----------------------------------------------------------------------------
(* Every step of the tools preserves IInv: one lemma per action.           *)
LEMMA NextIInv == IInv /\ [Next]_vars => IInv'
<1> SUFFICES ASSUME IInv, [Next]_vars PROVE IInv'
  OBVIOUS
<1>1. ASSUME NEW c \in Call, ToolStep(c), UNCHANGED marked PROVE IInv'
  <2>1. CASE BeginCopy(c) \/ BeginOnUid(c) \/ BeginOnFolder(c)
    BY <1>1, <2>1, BeginSteps
  <2>2. CASE FetchUid(c)
    BY <1>1, <2>2, FetchUidStep
  <2>3. CASE ListTarget(c)
    BY <1>1, <2>3, ListTargetStep
  <2>4. CASE CopyUid(c)
    BY <1>1, <2>4, CopyUidStep
  <2>5. CASE Search(c)
    BY <1>1, <2>5, SearchStep
  <2>6. CASE MarkDeleted(c)
    BY <1>1, <2>6, MarkDeletedStep
  <2>7. CASE Expunge(c)
    BY <1>1, <2>7, ExpungeStep
  <2>8. CASE StoreSeen(c) \/ FetchBody(c)
    BY <1>1, <2>8, SeenStep
  <2>9. CASE CreateFolder(c)
    BY <1>1, <2>9, CreateFolderStep
  <2>10. CASE RenameFolder(c)
    BY <1>1, <2>10, RenameFolderStep
  <2>11. CASE DeleteFolder(c)
    BY <1>1, <2>11, DeleteFolderStep
  <2>12. CASE Fail(c)
    BY <1>1, <2>12, FailStep
  <2> QED
    BY <1>1, <2>1, <2>2, <2>3, <2>4, <2>5, <2>6, <2>7, <2>8, <2>9, <2>10, <2>11, <2>12
       DEF ToolStep
<1>2. CASE UNCHANGED vars
  BY <1>2 DEF vars, IInv, WellTyped, SelectedExists, CallsMatchTools, EachHasSpare,
              Targeted, At
<1> QED
  BY <1>1, <1>2 DEF Next

(* What the user marks in the mail client is in nobody's way: the message  *)
(* leaves those that must keep a spare copy, and every other copy is as it *)
(* was.                                                                    *)
LEMMA MailClientStep ==
    ASSUME IInv, NEW u \in DOMAIN mail, MailClientMarks(u) PROVE IInv'
<1>1. /\ UNCHANGED <<folders, next, call, doomed>>
      /\ marked' = marked \cup {mail[u].msg}
  BY DEF MailClientMarks
<1>2. mail[u] \in Copy /\ [mail[u] EXCEPT !.deleted = ~@] \in Copy
      /\ mail' = [mail EXCEPT ![u] = [mail[u] EXCEPT !.deleted = ~@]]
  BY DEF MailClientMarks, IInv, WellTyped, Copy
<1>3. /\ DOMAIN mail' = DOMAIN mail
      /\ mail' \in [DOMAIN mail -> Copy]
      /\ \A v \in DOMAIN mail : mail'[v].folder = mail[v].folder
      /\ \A v \in DOMAIN mail : v # u => mail'[v] = mail[v]
  BY <1>2 DEF IInv, WellTyped, Copy
<1>4. WellTyped'
  BY <1>1, <1>2, <1>3 DEF IInv, WellTyped, Copy
<1>5. SelectedExists' /\ CallsMatchTools'
  BY <1>1 DEF IInv, SelectedExists, CallsMatchTools, At
<1>6. EachHasSpare'
  <2> SUFFICES ASSUME NEW m \in Message, m \notin doomed' \cup marked'
               PROVE  \E v \in DOMAIN mail' :
                        mail'[v].msg = m /\ ~mail'[v].deleted /\ ~Targeted(v)'
    BY DEF EachHasSpare
  <2>1. PICK v \in DOMAIN mail : mail[v].msg = m /\ ~mail[v].deleted /\ ~Targeted(v)
    BY <1>1 DEF IInv, EachHasSpare
  <2>2. v # u
    BY <1>1, <2>1
  <2>3. ~Targeted(v)'
    BY <1>1, <1>3, <2>1, <2>2 DEF Targeted, At
  <2> QED
    BY <1>3, <2>1, <2>2, <2>3
<1> QED
  BY <1>4, <1>5, <1>6 DEF IInv

(* IInv is an invariant of the account the mail client shares.             *)
THEOREM SharedInductive == SharedSpec => []IInv
<1>1. Init => IInv
  BY InitIInv
<1>2. IInv /\ [SharedNext]_vars => IInv'
  BY NextIInv, MailClientStep DEF SharedNext
<1> QED
  BY <1>1, <1>2, PTL DEF SharedSpec

(* With the user's mail client open beside the tools, however they race    *)
(* and fail, only messages a destroying tool was pointed at or the client  *)
(* has marked can be lost.                                                 *)
THEOREM OnlyMarkedMailLost == SharedSpec => []OnlyMarkedLost
<1>1. IInv => OnlyMarkedLost
  BY DEF IInv, EachHasSpare, OnlyMarkedLost
<1> QED
  BY <1>1, SharedInductive, PTL

-----------------------------------------------------------------------------
(* Alone on the account, the tools keep IInv, and nothing is ever marked.  *)
THEOREM Inductive == Spec => [](IInv /\ marked = {})
<1>1. Init => IInv /\ marked = {}
  BY InitIInv DEF Init
<1>2. IInv /\ marked = {} /\ [Next]_vars => (IInv /\ marked = {})'
  <2>1. marked = {} /\ [Next]_vars => marked' = {}
    BY DEF Next, vars
  <2> QED
    BY <2>1, NextIInv
<1> QED
  BY <1>1, <1>2, PTL DEF Spec

(* Mail is only ever filed in folders that exist, and every call holds     *)
(* what its tool takes.                                                    *)
THEOREM MailboxTypes == Spec => []TypeOK
<1>1. IInv => TypeOK
  BY DEF IInv, TypeOK
<1> QED
  BY <1>1, Inductive, PTL

(* However the tools race, fail half-way or are tried again, a message no  *)
(* destroying tool was pointed at has a copy no EXPUNGE will take.         *)
THEOREM NoMailLost == Spec => []NothingLost
<1>1. IInv /\ marked = {} => NothingLost
  BY DEF IInv, EachHasSpare, NothingLost
<1> QED
  BY <1>1, Inductive, PTL

(* On an account only the tools act on, the EXPUNGE of a move leaves a     *)
(* copy of every message no destroying tool was pointed at: what is said   *)
(* of move_email and move_to_trash by destructiveHint False.               *)
THEOREM MovesAloneDestroyNothing == Spec => MovesDestroyNothing
<1>1. ASSUME IInv, marked = {}, NEW c \in Call, Expunge(c),
             NEW u \in DOMAIN mail, mail[u].msg \notin doomed
      PROVE  \E v \in DOMAIN mail' : mail'[v].msg = mail[u].msg
  <2>1. mail[u].msg \in Message
    BY <1>1 DEF IInv, WellTyped, Copy
  <2>2. PICK v \in DOMAIN mail : mail[v].msg = mail[u].msg /\ ~mail[v].deleted
    BY <1>1, <2>1 DEF IInv, EachHasSpare
  <2>3. v \in DOMAIN mail' /\ mail'[v] = mail[v]
    BY <1>1, <2>2 DEF Expunge
  <2> QED
    BY <2>2, <2>3
<1>2. IInv /\ marked = {} =>
        \A c \in Call : Expunge(c) /\ call[c].tool \in Movers
                          /\ call[c].dst # call[c].src =>
          \A u \in DOMAIN mail :
            (/\ mail[u].msg \notin doomed
             /\ \A w \in call[c].uids \cap DOMAIN mail : mail[w].msg # mail[u].msg) =>
            \E v \in DOMAIN mail' : mail'[v].msg = mail[u].msg
  BY <1>1
<1> QED
  BY <1>2, Inductive, PTL DEF MovesDestroyNothing
=============================================================================
