------------------------- MODULE OAuthGrantsProofs -------------------------
(***************************************************************************)
(* Proofs about OAuthGrants, for any number of threads, clients, sessions *)
(* and credentials and any positive TTLs: IInv is inductive, and the       *)
(* safety properties of the grant store are parts of it or follow from it. *)
(* One lemma per action; each names what the action does to the state and *)
(* then takes the parts of IInv one by one.                                *)
(***************************************************************************)
EXTENDS OAuthGrants, TLAPS

(* No request is in flight and no row exists: every part of IInv is vacuous*)
(* but the types.                                                          *)
LEMMA InitIInv == Init => IInv
<1> SUFFICES ASSUME Init PROVE IInv
  OBVIOUS
<1>1. DOMAIN sessions = {} /\ DOMAIN codes = {} /\ DOMAIN tokens = {} /\ DOMAIN issued = {}
  BY DEF Init
<1>2. TypeOK
  BY <1>1 DEF Init, TypeOK, Requests, Idle
<1>3. access = {} /\ \A t \in Thread : req[t].pc = "idle"
  BY DEF Init, Idle
<1> QED
  BY <1>1, <1>2, <1>3
  DEF IInv, GrantsMatchSession, RequestsMatchSession, HistoryMatches,
      OneCodePerSession, CodeSpentFirst, OneIssuer, CodeSpentOnce,
      RotatedFirst, StaleMeetsRevoked, LateRequestsRefused, Busy, Held, Trades, Spent

(* Requests that end, normally or in a crash, disturb nothing: covers a    *)
(* refusal, the end of a tool call, Crash and a stuttering step.           *)
LEMMA RequestsEnd ==
    ASSUME IInv,
           UNCHANGED <<now, sessions, codes, tokens, access, issued>>,
           req' \in [Thread -> Requests],
           \A u \in Thread : req'[u] = req[u] \/ req'[u].pc = "idle"
    PROVE  IInv'
<1>1. TypeOK'
  BY DEF IInv, TypeOK
<1>2. GrantsMatchSession' /\ CodeSpentOnce' /\ RotatedFirst'
  BY DEF IInv, GrantsMatchSession, CodeSpentOnce, RotatedFirst, Busy
<1>3. RequestsMatchSession'
  BY DEF IInv, RequestsMatchSession, Busy, Held
<1>4. HistoryMatches'
  BY DEF IInv, HistoryMatches, Busy, Trades
<1>5. OneCodePerSession'
  BY DEF IInv, OneCodePerSession, Busy, Revoked
<1>6. CodeSpentFirst'
  BY DEF IInv, CodeSpentFirst, Busy, Trades, Spent
<1>7. OneIssuer'
  BY DEF IInv, OneIssuer, Busy
<1>8. StaleMeetsRevoked' /\ LateRequestsRefused'
  BY DEF IInv, StaleMeetsRevoked, LateRequestsRefused, Busy, Revoked
<1> QED
  BY <1>1, <1>2, <1>3, <1>4, <1>5, <1>6, <1>7, <1>8 DEF IInv

(* Frames: parts of IInv that a step leaves alone because it starts or     *)
(* moves no request that the part is about.                                *)
LEMMA OneCodeFrame ==
    ASSUME IInv, UNCHANGED <<sessions, issued>>,
           \A u \in Thread : req'[u] = req[u] \/ req'[u].pc # "save_code"
    PROVE  OneCodePerSession'
BY DEF IInv, OneCodePerSession, Busy, Revoked

(* OneIssuer, when no code is spent or saved and nothing starts to issue.  *)
LEMMA OneIssuerFrame ==
    ASSUME IInv, UNCHANGED <<codes, issued>>,
           \A u \in Thread : req'[u] = req[u] \/ req'[u].pc # "issue"
    PROVE  OneIssuer' /\ CodeSpentOnce'
BY DEF IInv, OneIssuer, CodeSpentOnce, Busy

(* RotatedFirst, when no token is saved or marked, nothing is issued, and  *)
(* only a code starts to be issued for.                                    *)
LEMMA RotatedFrame ==
    ASSUME IInv, UNCHANGED tokens, DOMAIN issued' = DOMAIN issued,
           \A k \in DOMAIN issued : issued'[k].parent = issued[k].parent,
           \A u \in Thread : \/ req'[u] = req[u]
                             \/ req'[u].pc # "issue"
                             \/ req'[u].cred \in Code
    PROVE  RotatedFirst'
<1>1. \A c \in Code : c \notin DOMAIN tokens
  BY IdAssumption DEF IInv, TypeOK
<1> QED
  BY <1>1 DEF IInv, RotatedFirst, Busy

(* A request that only moves on, holding what it held.                     *)
LEMMA MoveTypes ==
    ASSUME IInv, NEW t \in Thread, NEW label,
           \/ label \in Trades /\ req[t].pc \in Trades
           \/ label = "authorized" /\ req[t].pc = "load_session",
           Goto(t, label)
    PROVE  /\ req' \in [Thread -> Requests]
           /\ req'[t] = [req[t] EXCEPT !.pc = label]
           /\ req'[t].pc = label
           /\ \A u \in Thread : u # t => req'[u] = req[u]
<1>1. req[t] \in Requests /\ req \in [Thread -> Requests]
  BY DEF IInv, TypeOK
<1>2. req[t] \in Trading \cup Calling
  BY <1>1 DEF Requests, Saving, Coding, Trading, Calling, Idle, Trades
<1>3. [req[t] EXCEPT !.pc = label] \in Requests /\ [req[t] EXCEPT !.pc = label].pc = label
  BY <1>2 DEF Requests, Trading, Calling, Trades
<1> QED
  BY <1>1, <1>3 DEF Goto

(* A request that ends leaves its thread idle.                             *)
LEMMA ReplyTypes ==
    ASSUME IInv, NEW t \in Thread, Reply(t)
    PROVE  /\ req' \in [Thread -> Requests]
           /\ req'[t].pc = "idle"
           /\ \A u \in Thread : u # t => req'[u] = req[u]
BY DEF IInv, TypeOK, Reply, Requests, Idle

(* What a request holds follows from the step it is at.                    *)
LEMMA Shapes ==
    ASSUME IInv, NEW t \in Thread
    PROVE  /\ req[t].pc = "save_session" => req[t] \in Saving
           /\ req[t].pc = "save_code" => req[t] \in Coding
           /\ req[t].pc \in Trades => req[t] \in Trading
           /\ req[t].pc \in {"load_session", "authorized"} => req[t] \in Calling
BY DEF IInv, TypeOK, Requests, Saving, Coding, Trading, Calling, Idle, Trades

-----------------------------------------------------------------------------
(* The authorize request.  It holds nothing stored when it begins.         *)
LEMMA BeginAuthorizeStep ==
    ASSUME IInv, NEW t \in Thread, NEW client \in Client, NEW verifier \in Verifier,
           NEW grant \in Grant, BeginAuthorize(t, client, verifier, grant)
    PROVE  IInv'
<1>1. UNCHANGED <<now, sessions, codes, tokens, access, issued>>
  BY DEF BeginAuthorize
<1>2. /\ req' \in [Thread -> Requests]
      /\ req'[t].pc = "save_session"
      /\ \A u \in Thread : u # t => req'[u] = req[u]
  BY DEF BeginAuthorize, IInv, TypeOK, Requests, Saving
<1>3. TypeOK'
  BY <1>1, <1>2 DEF IInv, TypeOK
<1>4. GrantsMatchSession' /\ CodeSpentOnce' /\ RotatedFirst'
  BY <1>1, <1>2, RotatedFrame DEF IInv, GrantsMatchSession, CodeSpentOnce
<1>5. RequestsMatchSession'
  BY <1>1, <1>2 DEF IInv, RequestsMatchSession, Busy, Held
<1>6. HistoryMatches'
  BY <1>1, <1>2 DEF IInv, HistoryMatches, Busy, Trades
<1>7. OneCodePerSession'
  BY <1>1, <1>2 DEF IInv, OneCodePerSession, Busy, Revoked
<1>8. CodeSpentFirst'
  BY <1>1, <1>2 DEF IInv, CodeSpentFirst, Busy, Trades, Spent
<1>9. OneIssuer'
  BY <1>1, <1>2 DEF IInv, OneIssuer, Busy
<1>10. StaleMeetsRevoked' /\ LateRequestsRefused'
  BY <1>1, <1>2 DEF IInv, StaleMeetsRevoked, LateRequestsRefused, Busy, Revoked
<1> QED
  BY <1>3, <1>4, <1>5, <1>6, <1>7, <1>8, <1>9, <1>10 DEF IInv

(* A fresh session: no row and no credential is tied to it yet.            *)
LEMMA SaveSessionStep ==
    ASSUME IInv, NEW t \in Thread, SaveSession(t)
    PROVE  IInv'
<1> DEFINE r == req[t]
<1>1. PICK s \in Session \ DOMAIN sessions :
        /\ sessions' = Put(sessions, s, [grant |-> r.grant, revoked |-> FALSE])
        /\ req' = [req EXCEPT ![t] = [pc |-> "save_code", client |-> r.client,
                                      verifier |-> r.verifier,
                                      grant |-> r.grant, session |-> s]]
  BY DEF SaveSession
<1>2. UNCHANGED <<now, codes, tokens, access, issued>>
  BY DEF SaveSession
<1>3. r \in Saving
  BY Shapes DEF SaveSession
<1>4. /\ DOMAIN sessions' = DOMAIN sessions \cup {s}
      /\ sessions'[s] = [grant |-> r.grant, revoked |-> FALSE]
      /\ \A x \in DOMAIN sessions : sessions'[x] = sessions[x]
      /\ sessions' = [x \in DOMAIN sessions' |-> sessions'[x]]
  BY <1>1 DEF Put
<1>5. /\ req' \in [Thread -> Requests]
      /\ req'[t].pc = "save_code"
      /\ req'[t].session = s
      /\ req'[t].grant = r.grant
      /\ \A u \in Thread : u # t => req'[u] = req[u]
  BY <1>1, <1>3 DEF IInv, TypeOK, Requests, Saving, Coding
<1>6. TypeOK'
  <2>1. sessions'[s] \in SessionRow
    BY <1>3, <1>4 DEF Saving, SessionRow
  <2>2. sessions' \in [DOMAIN sessions' -> SessionRow] /\ DOMAIN sessions' \subseteq Session
    BY <1>1, <1>4, <2>1 DEF IInv, TypeOK
  <2> QED
    BY <1>2, <1>5, <2>2 DEF IInv, TypeOK
<1>7. GrantsMatchSession'
  BY <1>2, <1>4 DEF IInv, GrantsMatchSession
<1>8. RequestsMatchSession'
  BY <1>4, <1>5 DEF IInv, RequestsMatchSession, Busy, Held
<1>9. HistoryMatches'
  BY <1>2, <1>4, <1>5 DEF IInv, HistoryMatches, Busy, Trades
<1>10. OneCodePerSession'
  <2>1. \A k \in DOMAIN issued : issued[k].session # s
    BY <1>1 DEF IInv, HistoryMatches
  <2>2. \A u \in Thread : Busy(u, {"save_code"}) => req[u].session \in DOMAIN sessions
    BY DEF IInv, RequestsMatchSession, Busy, Held
  <2>3. \A u \in Thread : Busy(u, {"save_code"})' /\ u # t =>
          /\ Busy(u, {"save_code"})
          /\ req'[u].session = req[u].session
          /\ req'[u].session # s
    BY <1>1, <1>5, <2>2 DEF Busy
  <2>4. ~Revoked(s)'
    BY <1>4 DEF Revoked
  <2>5. \A u \in Thread : Busy(u, {"save_code"})' /\ u # t => ~Revoked(req[u].session)'
    BY <1>4, <2>3 DEF IInv, OneCodePerSession, Revoked
  <2>6. \A u \in Thread : Busy(u, {"save_code"})' =>
          \A k \in DOMAIN issued' : issued'[k].session # req'[u].session
    BY <1>2, <1>5, <2>1, <2>3 DEF IInv, OneCodePerSession
  <2>7. \A u, v \in Thread : Busy(u, {"save_code"})' /\ Busy(v, {"save_code"})'
          /\ req'[u].session = req'[v].session => u = v
    BY <1>5, <2>3 DEF IInv, OneCodePerSession
  <2>8. \A u \in Thread : Busy(u, {"save_code"})' => ~Revoked(req[u].session)'
    BY <1>5, <2>4, <2>5 DEF Revoked
  <2> QED
    BY <1>2, <2>6, <2>7, <2>8 DEF IInv, OneCodePerSession
<1>11. CodeSpentFirst'
  BY <1>2, <1>4, <1>5 DEF IInv, CodeSpentFirst, Busy, Trades, Spent
<1>12. OneIssuer' /\ CodeSpentOnce' /\ RotatedFirst'
  BY <1>2, <1>5, OneIssuerFrame, RotatedFrame
<1>13. StaleMeetsRevoked' /\ LateRequestsRefused'
  BY <1>1, <1>4, <1>5 DEF IInv, StaleMeetsRevoked, LateRequestsRefused, Busy, Revoked
<1> QED
  BY <1>6, <1>7, <1>8, <1>9, <1>10, <1>11, <1>12, <1>13 DEF IInv

(* The code of a session is its first credential, so nothing that needs a  *)
(* spent code can refer to this one.                                       *)
LEMMA SaveCodeStep ==
    ASSUME IInv, NEW t \in Thread, SaveCode(t)
    PROVE  IInv'
<1> DEFINE r == req[t]
<1>1. PICK c \in Code \ DOMAIN issued :
        /\ codes' = Put(codes, c, [client |-> r.client, verifier |-> r.verifier,
                                   grant |-> r.grant, session |-> r.session,
                                   exp |-> now + CodeTTL, used |-> FALSE])
        /\ issued' = Put(issued, c, [session |-> r.session, parent |-> Root, uses |-> 0])
  BY DEF SaveCode
<1>2. UNCHANGED <<now, sessions, tokens, access>>
  BY DEF SaveCode
<1>3. r \in Coding /\ r.pc = "save_code"
  BY Shapes DEF SaveCode
<1>4. /\ req' \in [Thread -> Requests]
      /\ req'[t].pc = "idle"
      /\ \A u \in Thread : u # t => req'[u] = req[u]
  BY ReplyTypes DEF SaveCode
<1>5. /\ DOMAIN codes' = DOMAIN codes \cup {c}
      /\ codes'[c] = [client |-> r.client, verifier |-> r.verifier,
                      grant |-> r.grant, session |-> r.session,
                      exp |-> now + CodeTTL, used |-> FALSE]
      /\ \A x \in DOMAIN codes : x # c => codes'[x] = codes[x]
      /\ codes' = [x \in DOMAIN codes' |-> codes'[x]]
  BY <1>1 DEF Put
<1>6. /\ DOMAIN issued' = DOMAIN issued \cup {c}
      /\ issued'[c] = [session |-> r.session, parent |-> Root, uses |-> 0]
      /\ \A x \in DOMAIN issued : issued'[x] = issued[x]
      /\ issued' = [x \in DOMAIN issued' |-> issued'[x]]
  BY <1>1 DEF Put
<1>7. c \notin DOMAIN codes
  BY <1>1 DEF IInv, HistoryMatches
<1>8. TypeOK'
  <2>1. codes'[c] \in CodeRow /\ issued'[c] \in IssuedRow
    BY <1>3, <1>5, <1>6, TTLAssumption DEF IInv, TypeOK, Coding, CodeRow, IssuedRow
  <2>2. codes' \in [DOMAIN codes' -> CodeRow] /\ DOMAIN codes' \subseteq Code
    BY <1>1, <1>5, <2>1 DEF IInv, TypeOK
  <2>3. issued' \in [DOMAIN issued' -> IssuedRow] /\ DOMAIN issued' \subseteq Credential
    BY <1>1, <1>6, <2>1 DEF IInv, TypeOK, Credential
  <2> QED
    BY <1>2, <1>4, <2>2, <2>3 DEF IInv, TypeOK
<1>9. GrantsMatchSession'
  BY <1>2, <1>3, <1>5, <1>7 DEF IInv, GrantsMatchSession, RequestsMatchSession, Busy, Held
<1>10. RequestsMatchSession'
  BY <1>2, <1>4 DEF IInv, RequestsMatchSession, Busy, Held
<1>11. HistoryMatches'
  <2>1. r.session \in DOMAIN sessions
    BY <1>3 DEF IInv, RequestsMatchSession, Busy, Held
  <2>2. \A x \in DOMAIN codes' :
          x \in DOMAIN issued' /\ issued'[x].session = codes'[x].session
    BY <1>5, <1>6, <1>7 DEF IInv, HistoryMatches
  <2>3. \A x \in DOMAIN issued' :
          issued'[x].session \in DOMAIN sessions' /\ issued'[x].parent \in DOMAIN issued' \cup {Root}
    BY <1>2, <1>6, <2>1 DEF IInv, HistoryMatches
  <2> QED
    BY <1>2, <1>4, <1>6, <2>2, <2>3 DEF IInv, HistoryMatches, Busy, Trades
<1>12. OneCodePerSession'
  BY <1>1, <1>2, <1>3, <1>4, <1>6 DEF IInv, OneCodePerSession, Busy, Revoked
<1>13. CodeSpentFirst'
  <2>1. \A k \in DOMAIN issued : issued[k].session # r.session
    BY <1>3 DEF IInv, OneCodePerSession, Busy
  <2>2. ~Revoked(r.session)
    BY <1>3 DEF IInv, OneCodePerSession, Busy
  <2>3. \A s \in Session : s # r.session /\ Spent(s) => Spent(s)'
    BY <1>5, <1>7 DEF Spent
  <2>4. \A s \in DOMAIN sessions' : sessions'[s].revoked => Spent(s)'
    BY <1>2, <2>2, <2>3 DEF IInv, TypeOK, CodeSpentFirst, Revoked
  <2>5. (\A k \in DOMAIN tokens : Spent(tokens[k].session))'
    <3> SUFFICES ASSUME NEW k \in DOMAIN tokens'
                 PROVE  Spent(tokens[k].session)'
      OBVIOUS
    <3>1. tokens[k].session # r.session /\ tokens[k].session \in Session
      BY <1>2, <2>1 DEF IInv, TypeOK, TokenRow, HistoryMatches
    <3> QED
      BY <1>2, <2>3, <3>1 DEF IInv, CodeSpentFirst
  <2>6. (\A u \in Thread : Busy(u, Trades \ {"mark_code_used"}) => Spent(req[u].session))'
    <3> SUFFICES ASSUME NEW u \in Thread, Busy(u, Trades \ {"mark_code_used"})'
                 PROVE  Spent(req[u].session)'
      OBVIOUS
    <3>1. req'[u] = req[u] /\ req[u].pc \in Trades \ {"mark_code_used"}
      BY <1>4 DEF Busy, Trades
    <3>2. req[u].session # r.session /\ req[u].session \in Session
      BY <2>1, <3>1, Shapes DEF IInv, HistoryMatches, Busy, Trading
    <3> QED
      BY <2>3, <3>1, <3>2 DEF IInv, CodeSpentFirst, Busy
  <2> QED
    BY <2>4, <2>5, <2>6 DEF CodeSpentFirst
<1>14. OneIssuer' /\ CodeSpentOnce'
  <2>1. \A k \in DOMAIN issued : issued[k].parent # c
    BY <1>1, IdAssumption DEF IInv, HistoryMatches, Credential
  <2>2. OneIssuer'
    <3>1. (\A k \in DOMAIN issued :
             issued[k].parent \in DOMAIN codes => codes[issued[k].parent].used)'
      <4> SUFFICES ASSUME NEW k \in DOMAIN issued', issued'[k].parent \in DOMAIN codes'
                   PROVE  codes'[issued'[k].parent].used
        OBVIOUS
      <4>1. k # c
        BY <1>1, <1>5, <1>6, IdAssumption DEF IInv, TypeOK, Credential
      <4>2. k \in DOMAIN issued /\ issued'[k] = issued[k] /\ issued[k].parent # c
        BY <1>6, <2>1, <4>1
      <4> QED
        BY <1>5, <4>2 DEF IInv, OneIssuer
    <3>2. \A u \in Thread : Busy(u, {"issue"})' => Busy(u, {"issue"}) /\ req'[u] = req[u]
      BY <1>4 DEF Busy
    <3>3. \A u \in Thread : Busy(u, {"issue"}) => req[u].cred # Root
      BY IdAssumption, Shapes DEF Busy, Trades, Trading
    <3> QED
      BY <1>6, <3>1, <3>2, <3>3 DEF IInv, OneIssuer
  <2>3. CodeSpentOnce'
    BY <1>1, <1>6, IdAssumption DEF IInv, CodeSpentOnce, Credential
  <2> QED
    BY <2>2, <2>3
<1>16. RotatedFirst'
  <2>1. Root \notin DOMAIN tokens
    BY IdAssumption DEF IInv, TypeOK, Credential
  <2> QED
    BY <1>1, <1>2, <1>4, <1>6, <2>1 DEF IInv, RotatedFirst, Busy
<1>15. StaleMeetsRevoked' /\ LateRequestsRefused'
  BY <1>2, <1>4 DEF IInv, StaleMeetsRevoked, LateRequestsRefused, Busy, Revoked
<1> QED
  BY <1>8, <1>9, <1>10, <1>11, <1>12, <1>13, <1>14, <1>15, <1>16 DEF IInv

-----------------------------------------------------------------------------
(* The token requests.                                                     *)

(* Counting a presentation changes no session and no parent.               *)
LEMMA PresentedHistory ==
    ASSUME IInv, NEW k \in DOMAIN issued, Presented(k)
    PROVE  /\ DOMAIN issued' = DOMAIN issued
           /\ issued' \in [DOMAIN issued' -> IssuedRow]
           /\ \A x \in DOMAIN issued : /\ issued'[x].session = issued[x].session
                                       /\ issued'[x].parent = issued[x].parent
<1>1. issued \in [DOMAIN issued -> IssuedRow] /\ issued[k] \in IssuedRow
  BY DEF IInv, TypeOK
<1>2. issued' = [issued EXCEPT ![k] = [issued[k] EXCEPT !.uses =
                     IF issued[k].uses = 2 THEN 2 ELSE issued[k].uses + 1]]
  BY DEF Presented
<1>3. [issued[k] EXCEPT !.uses = IF issued[k].uses = 2 THEN 2 ELSE issued[k].uses + 1]
        = [session |-> issued[k].session, parent |-> issued[k].parent,
           uses |-> IF issued[k].uses = 2 THEN 2 ELSE issued[k].uses + 1]
  BY <1>1 DEF IssuedRow
<1>4. (IF issued[k].uses = 2 THEN 2 ELSE issued[k].uses + 1) \in 0..2
  BY <1>1 DEF IssuedRow
<1> QED
  BY <1>1, <1>2, <1>3, <1>4 DEF IssuedRow

(* A credential is presented and the request is refused, or starts trading *)
(* with the session and the grant of a stored row.                         *)
LEMMA PresentStep ==
    ASSUME IInv, NEW t \in Thread, NEW k \in DOMAIN issued, Presented(k),
           req[t].pc = "idle",
           UNCHANGED <<now, sessions, codes, tokens, access>>,
           NEW r \in Trading,
           req' = [req EXCEPT ![t] = r],
           r.cred = k,
           r.session = issued[k].session,
           r.grant = sessions[r.session].grant,
           \/ r.pc = "revoke_session" /\ Spent(r.session)
           \/ r.pc = "mark_code_used" /\ k \in Code /\ ~r.stale
           \/ /\ r.pc = "check_session" /\ k \in Token /\ Spent(r.session)
              /\ r.stale => Revoked(r.session)
    PROVE  IInv'
<1>1. /\ DOMAIN issued' = DOMAIN issued
      /\ issued' \in [DOMAIN issued' -> IssuedRow]
      /\ \A x \in DOMAIN issued : /\ issued'[x].session = issued[x].session
                                  /\ issued'[x].parent = issued[x].parent
  BY PresentedHistory
<1>2. /\ req' \in [Thread -> Requests]
      /\ req'[t] = r
      /\ \A u \in Thread : u # t => req'[u] = req[u]
  BY DEF IInv, TypeOK, Requests
<1>3. TypeOK'
  BY <1>1, <1>2 DEF IInv, TypeOK
<1>4. GrantsMatchSession'
  BY DEF IInv, GrantsMatchSession
<1>5. RequestsMatchSession'
  BY <1>2 DEF IInv, RequestsMatchSession, HistoryMatches, Busy, Held
<1>6. HistoryMatches'
  <2>1. \A u \in Thread : Busy(u, Trades)' =>
          req'[u].cred \in DOMAIN issued' /\ issued'[req'[u].cred].session = req'[u].session
    BY <1>1, <1>2 DEF IInv, HistoryMatches, Busy
  <2>2. \A u \in Thread :
          /\ Busy(u, {"mark_code_used"})' => req'[u].cred \in Code
          /\ Busy(u, {"check_session", "rotate"})' => req'[u].cred \in Token
    BY <1>2 DEF IInv, HistoryMatches, Busy
  <2> QED
    BY <1>1, <2>1, <2>2 DEF IInv, HistoryMatches
<1>7. OneCodePerSession'
  BY <1>1, <1>2 DEF IInv, OneCodePerSession, Busy, Revoked
<1>8. CodeSpentFirst'
  BY <1>2 DEF IInv, CodeSpentFirst, Busy, Trades, Spent
<1>9. OneIssuer'
  BY <1>1, <1>2 DEF IInv, OneIssuer, Busy
<1>10. CodeSpentOnce' /\ RotatedFirst'
  BY <1>1, <1>2, RotatedFrame DEF IInv, CodeSpentOnce
<1>11. StaleMeetsRevoked' /\ LateRequestsRefused'
  BY <1>2 DEF IInv, StaleMeetsRevoked, LateRequestsRefused, Busy, Revoked
<1> QED
  BY <1>3, <1>4, <1>5, <1>6, <1>7, <1>8, <1>9, <1>10, <1>11 DEF IInv

(* A presentation that is refused leaves the requests alone.               *)
LEMMA PresentRefused ==
    ASSUME IInv, NEW k \in DOMAIN issued, Presented(k),
           UNCHANGED <<now, sessions, codes, tokens, access, req>>
    PROVE  IInv'
<1>1. /\ DOMAIN issued' = DOMAIN issued
      /\ issued' \in [DOMAIN issued' -> IssuedRow]
      /\ \A x \in DOMAIN issued : /\ issued'[x].session = issued[x].session
                                  /\ issued'[x].parent = issued[x].parent
  BY PresentedHistory
<1>2. TypeOK' /\ GrantsMatchSession' /\ RequestsMatchSession'
  BY <1>1 DEF IInv, TypeOK, GrantsMatchSession, RequestsMatchSession, Busy
<1>3. HistoryMatches'
  BY <1>1 DEF IInv, HistoryMatches, Busy
<1>4. OneCodePerSession' /\ CodeSpentFirst'
  BY <1>1 DEF IInv, OneCodePerSession, CodeSpentFirst, Busy, Revoked, Spent
<1>5. OneIssuer' /\ CodeSpentOnce' /\ RotatedFirst'
  BY <1>1, RotatedFrame DEF IInv, OneIssuer, CodeSpentOnce, Busy
<1>6. StaleMeetsRevoked' /\ LateRequestsRefused'
  BY DEF IInv, StaleMeetsRevoked, LateRequestsRefused, Busy, Revoked
<1> QED
  BY <1>2, <1>3, <1>4, <1>5, <1>6 DEF IInv

(* Trading what a stored row says: the request has the fields of the row.  *)
LEMMA TradeShape ==
    ASSUME NEW k \in Credential, NEW row, NEW label \in Trades,
           row.client \in Client, row.grant \in Grant, row.session \in Session
    PROVE  /\ Trade(k, row, label) \in Trading
           /\ Trade(k, row, label).pc = label
           /\ Trade(k, row, label).cred = k
           /\ Trade(k, row, label).session = row.session
           /\ Trade(k, row, label).grant = row.grant
           /\ Trade(k, row, label).stale = Dead(k)
<1>1. Dead(k) \in BOOLEAN
  BY DEF Dead
<1> QED
  BY <1>1 DEF Trade, Trading, Trades

(* The code row read is of the session's only code: if it is spent, the    *)
(* session is; if not, the session cannot have been revoked.               *)
LEMMA BeginExchangeStep ==
    ASSUME IInv, NEW t \in Thread, NEW c \in Code, NEW client \in Client,
           NEW verifier \in Verifier, BeginExchange(t, c, client, verifier)
    PROVE  IInv'
<1>1. /\ req[t].pc = "idle" /\ c \in DOMAIN issued /\ Presented(c)
      /\ UNCHANGED <<now, sessions, codes, tokens, access>>
  BY DEF BeginExchange
<1>2. c \in DOMAIN codes =>
        /\ codes[c] \in CodeRow
        /\ codes[c].session = issued[c].session
        /\ codes[c].session \in DOMAIN sessions
        /\ codes[c].grant = sessions[codes[c].session].grant
  BY DEF IInv, TypeOK, HistoryMatches, GrantsMatchSession
<1>3. CASE CodeReused(c) /\ req' = [req EXCEPT ![t] = Trade(c, codes[c], "revoke_session")]
  <2> DEFINE r == Trade(c, codes[c], "revoke_session")
  <2>1. r \in Trading /\ r.cred = c /\ r.session = codes[c].session
        /\ r.grant = codes[c].grant /\ r.pc = "revoke_session"
    BY <1>2, <1>3, TradeShape DEF CodeRow, Credential, CodeReused, Trades
  <2>2. Spent(codes[c].session)
    BY <1>1, <1>3 DEF IInv, OneCodePerSession, HistoryMatches, TypeOK, Spent, CodeReused
  <2> HIDE DEF r
  <2> QED
    BY <1>1, <1>2, <1>3, <2>1, <2>2, PresentStep DEF r, CodeReused
<1>4. CASE /\ CodeAccepted(c, client, verifier)
           /\ req' = [req EXCEPT ![t] = Trade(c, codes[c], "mark_code_used")]
  <2> DEFINE r == Trade(c, codes[c], "mark_code_used")
  <2>3. ~Revoked(codes[c].session)
    BY <1>2, <1>4 DEF CodeAccepted, IInv, CodeSpentFirst, Spent, Revoked
  <2>4. \A x \in DOMAIN issued : issued[x].parent # c
    BY <1>4 DEF CodeAccepted, IInv, OneIssuer
  <2>1. ~Dead(c)
    BY <1>2, <1>4, <2>3, <2>4, IdAssumption DEF Dead, CodeAccepted, CodeRow, IInv, TypeOK
  <2>2. r \in Trading /\ r.cred = c /\ r.session = codes[c].session
        /\ r.grant = codes[c].grant /\ r.pc = "mark_code_used" /\ ~r.stale
    BY <1>2, <1>4, <2>1, TradeShape DEF CodeRow, Credential, CodeAccepted, Trades
  <2> HIDE DEF r
  <2> QED
    BY <1>1, <1>2, <1>4, <2>2, PresentStep DEF r, CodeAccepted
<1>5. CASE UNCHANGED req
  BY <1>1, <1>5, PresentRefused
<1> QED
  BY <1>3, <1>4, <1>5 DEF BeginExchange

(* A refresh token row is of a spent session, revoked or not.              *)
LEMMA BeginRefreshStep ==
    ASSUME IInv, NEW t \in Thread, NEW k \in Token, NEW client \in Client,
           BeginRefresh(t, k, client)
    PROVE  IInv'
<1>1. /\ req[t].pc = "idle" /\ k \in DOMAIN issued /\ Presented(k)
      /\ UNCHANGED <<now, sessions, codes, tokens, access>>
  BY DEF BeginRefresh
<1>2. k \in DOMAIN tokens =>
        /\ tokens[k] \in TokenRow
        /\ tokens[k].session = issued[k].session
        /\ tokens[k].session \in DOMAIN sessions
        /\ tokens[k].grant = sessions[tokens[k].session].grant
        /\ Spent(tokens[k].session)
  BY DEF IInv, TypeOK, HistoryMatches, GrantsMatchSession, CodeSpentFirst
<1>3. CASE TokenReused(k) /\ req' = [req EXCEPT ![t] = Trade(k, tokens[k], "revoke_session")]
  <2> DEFINE r == Trade(k, tokens[k], "revoke_session")
  <2>1. r \in Trading /\ r.cred = k /\ r.session = tokens[k].session
        /\ r.grant = tokens[k].grant /\ r.pc = "revoke_session"
    BY <1>2, <1>3, TradeShape DEF TokenRow, Credential, TokenReused, Trades
  <2> HIDE DEF r
  <2> QED
    BY <1>1, <1>2, <1>3, <2>1, PresentStep DEF r, TokenReused
<1>4. CASE /\ TokenAccepted(k, client)
           /\ req' = [req EXCEPT ![t] = Trade(k, tokens[k], "check_session")]
  <2> DEFINE r == Trade(k, tokens[k], "check_session")
  <2>3. \A x \in DOMAIN issued : issued[x].parent # k
    BY <1>4 DEF TokenAccepted, IInv, RotatedFirst
  <2>2. Dead(k) => Revoked(tokens[k].session)
    BY <1>2, <1>4, <2>3, IdAssumption DEF Dead, TokenAccepted, TokenRow, IInv, TypeOK
  <2>1. r \in Trading /\ r.cred = k /\ r.session = tokens[k].session
        /\ r.grant = tokens[k].grant /\ r.pc = "check_session"
        /\ (r.stale => Revoked(r.session))
    BY <1>2, <1>4, <2>2, TradeShape DEF TokenRow, Credential, TokenAccepted, Trades
  <2> HIDE DEF r
  <2> QED
    BY <1>1, <1>2, <1>4, <2>1, PresentStep DEF r, TokenAccepted
<1>5. CASE UNCHANGED req
  BY <1>1, <1>5, PresentRefused
<1> QED
  BY <1>3, <1>4, <1>5 DEF BeginRefresh

(* The compare-and-set.  On success the session's only code is spent now,  *)
(* and no other thread can be issuing for it; on failure the code was      *)
(* spent before, or its row is gone.                                       *)
LEMMA MarkCodeUsedStep ==
    ASSUME IInv, NEW t \in Thread, MarkCodeUsed(t)
    PROVE  IInv'
<1> DEFINE r == req[t]
           c == r.cred
<1>1. r.pc = "mark_code_used" /\ UNCHANGED <<now, sessions, tokens, access, issued>>
  BY DEF MarkCodeUsed
<1>2. r \in Trading /\ c \in Code /\ c \in DOMAIN issued /\ issued[c].session = r.session
      /\ ~r.stale
  BY <1>1, Shapes DEF IInv, HistoryMatches, LateRequestsRefused, Busy, Trades
<1>3. \A x \in DOMAIN codes : codes[x].session = r.session => x = c
  BY <1>2 DEF IInv, TypeOK, OneCodePerSession, HistoryMatches
<1>4. CASE c \in DOMAIN codes /\ ~codes[c].used
            /\ codes' = [codes EXCEPT ![c].used = TRUE] /\ Goto(t, "issue")
  <2>1. /\ req' \in [Thread -> Requests]
        /\ req'[t] = [r EXCEPT !.pc = "issue"]
        /\ req'[t].pc = "issue"
        /\ \A u \in Thread : u # t => req'[u] = req[u]
    BY <1>1, <1>4, MoveTypes DEF Trades
  <2>2. req'[t].cred = c /\ req'[t].session = r.session /\ req'[t].grant = r.grant
        /\ req'[t].stale = r.stale
    BY <1>2, <2>1 DEF Trading
  <2>3. codes[c] \in CodeRow
    BY <1>4 DEF IInv, TypeOK
  <2>4. /\ DOMAIN codes' = DOMAIN codes
        /\ codes' \in [DOMAIN codes -> CodeRow]
        /\ codes'[c].used
        /\ codes'[c].session = codes[c].session
        /\ codes'[c].grant = codes[c].grant
        /\ \A x \in DOMAIN codes : x # c => codes'[x] = codes[x]
    BY <1>4, <2>3 DEF IInv, TypeOK, CodeRow
  <2>5. TypeOK'
    BY <1>1, <2>1, <2>4 DEF IInv, TypeOK
  <2>6. GrantsMatchSession'
    <3>1. \A x \in DOMAIN codes' :
            /\ codes'[x].session \in DOMAIN sessions
            /\ codes'[x].grant = sessions[codes'[x].session].grant
      BY <2>4 DEF IInv, GrantsMatchSession
    <3> QED
      BY <1>1, <3>1 DEF IInv, GrantsMatchSession
  <2>7. RequestsMatchSession'
    BY <1>1, <2>1, <2>2 DEF IInv, RequestsMatchSession, Busy, Held
  <2>8. HistoryMatches'
    <3>1. \A x \in DOMAIN codes' : x \in DOMAIN issued /\ issued[x].session = codes'[x].session
      BY <2>4 DEF IInv, HistoryMatches
    <3>2. \A u \in Thread : Busy(u, Trades)' =>
            req'[u].cred \in DOMAIN issued /\ issued[req'[u].cred].session = req'[u].session
      BY <1>2, <2>1, <2>2 DEF IInv, HistoryMatches, Busy
    <3>3. \A u \in Thread :
            /\ Busy(u, {"mark_code_used"})' => req'[u].cred \in Code
            /\ Busy(u, {"check_session", "rotate"})' => req'[u].cred \in Token
      BY <2>1 DEF IInv, HistoryMatches, Busy
    <3> QED
      BY <1>1, <3>1, <3>2, <3>3 DEF IInv, HistoryMatches
  <2>9. OneCodePerSession'
    BY <1>1, <2>1, OneCodeFrame
  <2>10. \A s \in Session : Spent(s) => Spent(s)'
    BY <2>4 DEF Spent
  <2>11. \A x \in DOMAIN codes' : codes'[x].session = r.session => codes'[x].used
    BY <1>3, <2>4
  <2>12. CodeSpentFirst'
    <3>1. (\A s \in DOMAIN sessions : sessions[s].revoked => Spent(s))'
      BY <1>1, <2>10 DEF IInv, TypeOK, CodeSpentFirst
    <3>2. (\A k \in DOMAIN tokens : Spent(tokens[k].session))'
      BY <1>1, <2>4 DEF IInv, CodeSpentFirst, Spent
    <3>3. (\A u \in Thread : Busy(u, Trades \ {"mark_code_used"}) => Spent(req[u].session))'
      <4> SUFFICES ASSUME NEW u \in Thread, Busy(u, Trades \ {"mark_code_used"})'
                   PROVE  Spent(req[u].session)'
        OBVIOUS
      <4>1. CASE u = t
        BY <2>2, <2>11, <4>1 DEF Spent
      <4>2. CASE u # t
        BY <2>1, <2>4, <4>2 DEF IInv, CodeSpentFirst, Busy, Spent
      <4> QED
        BY <4>1, <4>2
    <3> QED
      BY <3>1, <3>2, <3>3 DEF CodeSpentFirst
  <2>13. OneIssuer'
    <3>1. \A k \in DOMAIN issued : issued[k].parent # c
      BY <1>4 DEF IInv, OneIssuer
    <3>2. \A u \in Thread : Busy(u, {"issue"}) => req[u].cred # c
      BY <1>2, <1>4 DEF IInv, CodeSpentFirst, HistoryMatches, Busy, Trades, Spent
    <3>3. \A k \in DOMAIN issued' :
            issued'[k].parent \in DOMAIN codes' => codes'[issued'[k].parent].used
      BY <1>1, <2>4, <3>1 DEF IInv, OneIssuer
    <3>6. \A u \in Thread : u # t /\ Busy(u, {"issue"})' =>
            Busy(u, {"issue"}) /\ req'[u].cred = req[u].cred /\ req[u].cred # c
      BY <2>1, <3>2 DEF Busy
    <3>4. \A u \in Thread : Busy(u, {"issue"})' /\ req'[u].cred \in Code =>
            \A k \in DOMAIN issued' : issued'[k].parent # req'[u].cred
      <4> SUFFICES ASSUME NEW u \in Thread, Busy(u, {"issue"})', req'[u].cred \in Code
                   PROVE  \A k \in DOMAIN issued : issued[k].parent # req'[u].cred
        BY <1>1
      <4>1. CASE u = t
        BY <2>2, <3>1, <4>1
      <4>2. CASE u # t
        BY <3>6, <4>2 DEF IInv, OneIssuer
      <4> QED
        BY <4>1, <4>2
    <3>5. \A u, v \in Thread : Busy(u, {"issue"})' /\ Busy(v, {"issue"})'
            /\ req'[u].cred \in Code /\ req'[u].cred = req'[v].cred => u = v
      BY <2>2, <3>6 DEF IInv, OneIssuer
    <3> QED
      BY <3>3, <3>4, <3>5 DEF OneIssuer
  <2>14. CodeSpentOnce' /\ RotatedFirst'
    BY <1>1, <1>2, <2>1, <2>2, RotatedFrame DEF IInv, CodeSpentOnce
  <2>15. StaleMeetsRevoked' /\ LateRequestsRefused'
    BY <1>1, <1>2, <2>1, <2>2 DEF IInv, StaleMeetsRevoked, LateRequestsRefused, Busy, Revoked
  <2> QED
    BY <2>5, <2>6, <2>7, <2>8, <2>9, <2>12, <2>13, <2>14, <2>15 DEF IInv
<1>5. CASE (c \in DOMAIN codes => codes[c].used) /\ UNCHANGED codes /\ Goto(t, "revoke_session")
  <2>1. /\ req' \in [Thread -> Requests]
        /\ req'[t] = [r EXCEPT !.pc = "revoke_session"]
        /\ req'[t].pc = "revoke_session"
        /\ \A u \in Thread : u # t => req'[u] = req[u]
    BY <1>1, <1>5, MoveTypes DEF Trades
  <2>2. req'[t].cred = c /\ req'[t].session = r.session /\ req'[t].grant = r.grant
    BY <1>2, <2>1 DEF Trading
  <2>3. Spent(r.session)
    BY <1>3, <1>5 DEF Spent
  <2>4. TypeOK' /\ GrantsMatchSession' /\ CodeSpentOnce'
    BY <1>1, <1>5, <2>1 DEF IInv, TypeOK, GrantsMatchSession, CodeSpentOnce
  <2>5. RequestsMatchSession'
    BY <1>1, <2>1, <2>2 DEF IInv, RequestsMatchSession, Busy, Held
  <2>9. HistoryMatches'
    <3>1. \A u \in Thread : Busy(u, Trades)' =>
            req'[u].cred \in DOMAIN issued /\ issued[req'[u].cred].session = req'[u].session
      BY <1>2, <2>1, <2>2 DEF IInv, HistoryMatches, Busy
    <3>2. \A u \in Thread :
            /\ Busy(u, {"mark_code_used"})' => req'[u].cred \in Code
            /\ Busy(u, {"check_session", "rotate"})' => req'[u].cred \in Token
      BY <2>1 DEF IInv, HistoryMatches, Busy
    <3> QED
      BY <1>1, <1>5, <3>1, <3>2 DEF IInv, HistoryMatches
  <2>6. OneCodePerSession' /\ OneIssuer' /\ RotatedFirst'
    BY <1>1, <1>5, <2>1, OneCodeFrame, OneIssuerFrame, RotatedFrame
  <2>7. CodeSpentFirst'
    <3>1. \A u \in Thread : Busy(u, Trades \ {"mark_code_used"})' =>
            \A x \in DOMAIN codes : codes[x].session = req'[u].session => codes[x].used
      BY <2>1, <2>2, <2>3 DEF IInv, CodeSpentFirst, Busy, Spent
    <3> QED
      BY <1>1, <1>5, <3>1 DEF IInv, CodeSpentFirst, Spent
  <2>8. StaleMeetsRevoked' /\ LateRequestsRefused'
    BY <1>1, <2>1 DEF IInv, StaleMeetsRevoked, LateRequestsRefused, Busy, Revoked
  <2> QED
    BY <2>4, <2>5, <2>6, <2>7, <2>8, <2>9 DEF IInv
<1> QED
  BY <1>4, <1>5 DEF MarkCodeUsed

(* The new token's session is spent, because the issuing thread's is.      *)
LEMMA IssueTokensStep ==
    ASSUME IInv, NEW t \in Thread, IssueTokens(t)
    PROVE  IInv'
<1> DEFINE r == req[t]
<1>1. PICK k \in Token \ DOMAIN issued :
         /\ tokens' = Put(tokens, k, [client |-> r.client, grant |-> r.grant,
                                      session |-> r.session,
                                      exp |-> now + RefreshTTL,
                                      revoked |-> FALSE])
         /\ issued' = Put(issued, k, [session |-> r.session, parent |-> r.cred,
                                      uses |-> 0])
  BY DEF IssueTokens
<1>2. r \in Trading /\ r.pc = "issue"
  BY Shapes DEF IssueTokens, Trades
<1>3. /\ UNCHANGED <<now, sessions, codes>>
      /\ access' = access \cup {[session |-> r.session, grant |-> r.grant,
                                 exp |-> now + AccessTTL]}
  BY DEF IssueTokens
<1>4. /\ req' \in [Thread -> Requests]
      /\ req'[t].pc = "idle"
      /\ \A u \in Thread : u # t => req'[u] = req[u]
  BY ReplyTypes DEF IssueTokens
<1>5. /\ DOMAIN tokens' = DOMAIN tokens \cup {k}
      /\ tokens'[k] = [client |-> r.client, grant |-> r.grant,
                       session |-> r.session, exp |-> now + RefreshTTL,
                       revoked |-> FALSE]
      /\ \A x \in DOMAIN tokens : x # k => tokens'[x] = tokens[x]
      /\ tokens' = [x \in DOMAIN tokens' |-> tokens'[x]]
  BY <1>1 DEF Put
<1>6. /\ DOMAIN issued' = DOMAIN issued \cup {k}
      /\ issued'[k] = [session |-> r.session, parent |-> r.cred, uses |-> 0]
      /\ \A x \in DOMAIN issued : issued'[x] = issued[x]
      /\ issued' = [x \in DOMAIN issued' |-> issued'[x]]
  BY <1>1 DEF Put
<1>7. TypeOK'
  <2>1. tokens'[k] \in TokenRow /\ issued'[k] \in IssuedRow
    BY <1>2, <1>5, <1>6, TTLAssumption DEF IInv, TypeOK, Trading, TokenRow, IssuedRow
  <2>2. tokens' \in [DOMAIN tokens' -> TokenRow] /\ issued' \in [DOMAIN issued' -> IssuedRow]
    BY <1>5, <1>6, <2>1 DEF IInv, TypeOK
  <2>3. access' \subseteq Bearer
    BY <1>2, <1>3, TTLAssumption DEF IInv, TypeOK, Trading, Bearer
  <2>4. DOMAIN tokens' \subseteq Token /\ DOMAIN issued' \subseteq Credential
    BY <1>1, <1>5, <1>6 DEF IInv, TypeOK, Credential
  <2> QED
    BY <1>3, <1>4, <2>2, <2>3, <2>4 DEF IInv, TypeOK
<1>8. r.cred \in DOMAIN issued /\ r.session \in DOMAIN sessions
      /\ issued[r.cred].session = r.session /\ r.grant = sessions[r.session].grant
      /\ Spent(r.session)
  BY <1>2 DEF IInv, HistoryMatches, RequestsMatchSession, CodeSpentFirst, Busy, Held, Trades
<1>9. k \notin DOMAIN tokens
  BY <1>1 DEF IInv, HistoryMatches
<1>10. GrantsMatchSession'
  BY <1>3, <1>5, <1>8, <1>9 DEF IInv, GrantsMatchSession
<1>11. RequestsMatchSession'
  BY <1>3, <1>4 DEF IInv, RequestsMatchSession, Busy, Held
<1>12. HistoryMatches'
  <2>1. \A x \in DOMAIN issued' :
          /\ issued'[x].session \in DOMAIN sessions'
          /\ issued'[x].parent \in DOMAIN issued' \cup {Root}
    BY <1>3, <1>6, <1>8 DEF IInv, HistoryMatches
  <2>2. \A x \in DOMAIN tokens' :
          x \in DOMAIN issued' /\ issued'[x].session = tokens'[x].session
    BY <1>5, <1>6, <1>9 DEF IInv, HistoryMatches
  <2>3. \A x \in DOMAIN codes' :
          x \in DOMAIN issued' /\ issued'[x].session = codes'[x].session
    BY <1>3, <1>6 DEF IInv, HistoryMatches
  <2> QED
    BY <1>4, <1>6, <2>1, <2>2, <2>3 DEF IInv, HistoryMatches, Busy, Trades
<1>13. OneCodePerSession'
  BY <1>1, <1>2, <1>3, <1>4, <1>6, <1>8, IdAssumption
  DEF IInv, OneCodePerSession, Busy, Revoked
<1>14. CodeSpentFirst'
  BY <1>2, <1>3, <1>4, <1>5, <1>8, <1>9 DEF IInv, CodeSpentFirst, Busy, Trades, Spent
<1>15. OneIssuer'
  <2>1. r.cred \in DOMAIN codes => codes[r.cred].used
    BY <1>8 DEF IInv, HistoryMatches, Spent
  <2> QED
    BY <1>1, <1>2, <1>3, <1>4, <1>6, <2>1 DEF IInv, OneIssuer, Busy
<1>16. CodeSpentOnce'
  BY <1>1, <1>2, <1>6 DEF IInv, OneIssuer, CodeSpentOnce, Busy
<1>18. RotatedFirst'
  <2>1. \A x \in DOMAIN issued : issued[x].parent # k
    BY <1>1, IdAssumption DEF IInv, HistoryMatches, Credential
  <2>2. \A u \in Thread : Busy(u, {"issue"}) => req[u].cred # k
    BY <1>1 DEF IInv, HistoryMatches, Busy, Trades
  <2>3. r.cred # k /\ (r.cred \in DOMAIN tokens => tokens[r.cred].revoked)
    BY <1>2, <2>2 DEF IInv, RotatedFirst, Busy
  <2>4. \A x \in DOMAIN issued' :
          issued'[x].parent \in DOMAIN tokens' => tokens'[issued'[x].parent].revoked
    BY <1>5, <1>6, <2>1, <2>3 DEF IInv, RotatedFirst
  <2>5. \A u \in Thread : Busy(u, {"issue"})' => Busy(u, {"issue"}) /\ req'[u] = req[u]
    BY <1>4 DEF Busy
  <2>6. \A u \in Thread : Busy(u, {"issue"})' /\ req'[u].cred \in DOMAIN tokens'
          => tokens'[req'[u].cred].revoked
    BY <1>5, <2>2, <2>5 DEF IInv, RotatedFirst
  <2> QED
    BY <2>4, <2>6 DEF RotatedFirst
<1>17. StaleMeetsRevoked' /\ LateRequestsRefused'
  BY <1>3, <1>4 DEF IInv, StaleMeetsRevoked, LateRequestsRefused, Busy, Revoked
<1> QED
  BY <1>7, <1>10, <1>11, <1>12, <1>13, <1>14, <1>15, <1>16, <1>17, <1>18 DEF IInv

(* Only spent sessions are revoked: the revoking thread read a spent code  *)
(* or a refresh token.                                                     *)
LEMMA RevokeSessionStep ==
    ASSUME IInv, NEW t \in Thread, RevokeSession(t)
    PROVE  IInv'
<1> DEFINE s == req[t].session
<1>1. req[t].pc = "revoke_session" /\ UNCHANGED <<now, codes, tokens, access, issued>>
  BY DEF RevokeSession
<1>2. req[t] \in Trading /\ s \in DOMAIN sessions /\ Spent(s) /\ req[t].cred \in DOMAIN issued
      /\ issued[req[t].cred].session = s
  BY <1>1, Shapes
  DEF IInv, RequestsMatchSession, CodeSpentFirst, HistoryMatches, Busy, Held, Trades
<1>3. /\ req' \in [Thread -> Requests]
      /\ req'[t].pc = "idle"
      /\ \A u \in Thread : u # t => req'[u] = req[u]
  BY ReplyTypes DEF RevokeSession
<1>4. sessions \in [DOMAIN sessions -> SessionRow]
  BY DEF IInv, TypeOK
<1>5. /\ DOMAIN sessions' = DOMAIN sessions
      /\ sessions' \in [DOMAIN sessions -> SessionRow]
      /\ \A x \in DOMAIN sessions : sessions'[x].grant = sessions[x].grant
      /\ \A x \in DOMAIN sessions : x # s => sessions'[x] = sessions[x]
      /\ sessions'[s].revoked
  BY <1>2, <1>4 DEF RevokeSession, SessionRow
<1>6. TypeOK'
  BY <1>1, <1>3, <1>5 DEF IInv, TypeOK
<1>7. GrantsMatchSession'
  BY <1>1, <1>5 DEF IInv, GrantsMatchSession
<1>8. RequestsMatchSession'
  BY <1>3, <1>5 DEF IInv, RequestsMatchSession, Busy, Held
<1>9. HistoryMatches'
  BY <1>1, <1>3, <1>5 DEF IInv, HistoryMatches, Busy, Trades
<1>10. OneCodePerSession'
  <2>1. \A u \in Thread : Busy(u, {"save_code"})' =>
          Busy(u, {"save_code"}) /\ req'[u] = req[u] /\ req[u].session # s
    BY <1>2, <1>3 DEF IInv, OneCodePerSession, Busy
  <2> QED
    BY <1>1, <1>5, <2>1 DEF IInv, OneCodePerSession, Revoked
<1>11. CodeSpentFirst'
  BY <1>1, <1>2, <1>3, <1>5 DEF IInv, CodeSpentFirst, Busy, Trades, Spent
<1>12. OneIssuer' /\ CodeSpentOnce' /\ RotatedFirst'
  BY <1>1, <1>3, OneIssuerFrame, RotatedFrame
<1>13. StaleMeetsRevoked' /\ LateRequestsRefused'
  BY <1>3, <1>5 DEF IInv, StaleMeetsRevoked, LateRequestsRefused, Busy, Revoked
<1> QED
  BY <1>6, <1>7, <1>8, <1>9, <1>10, <1>11, <1>12, <1>13 DEF IInv

(* get_session again: a request stale on arrival stops here.               *)
LEMMA CheckSessionStep ==
    ASSUME IInv, NEW t \in Thread, CheckSession(t)
    PROVE  IInv'
<1> DEFINE r == req[t]
<1>1. r.pc = "check_session" /\ UNCHANGED <<now, sessions, codes, tokens, access, issued>>
  BY DEF CheckSession
<1>2. r.cred \in DOMAIN issued /\ issued[r.cred].session = r.session /\ Spent(r.session)
  BY <1>1 DEF IInv, HistoryMatches, CodeSpentFirst, Busy, Trades
<1>3. CASE ~Revoked(r.session) /\ Goto(t, "rotate")
  <2>1. /\ req' \in [Thread -> Requests]
        /\ req'[t] = [r EXCEPT !.pc = "rotate"]
        /\ req'[t].pc = "rotate"
        /\ \A u \in Thread : u # t => req'[u] = req[u]
    BY <1>1, <1>3, MoveTypes DEF Trades
  <2>2. r \in Trading
    BY <1>1, Shapes DEF Trades
  <2>3. req'[t].cred = r.cred /\ req'[t].session = r.session /\ req'[t].grant = r.grant
        /\ req'[t].stale = r.stale
    BY <2>1, <2>2 DEF Trading
  <2>4. TypeOK' /\ GrantsMatchSession'
    BY <1>1, <2>1 DEF IInv, TypeOK, GrantsMatchSession
  <2>5. RequestsMatchSession'
    BY <1>1, <2>1, <2>3 DEF IInv, RequestsMatchSession, Busy, Held
  <2>6. HistoryMatches'
    <3>1. \A u \in Thread : Busy(u, Trades)' =>
            req'[u].cred \in DOMAIN issued /\ issued[req'[u].cred].session = req'[u].session
      BY <1>2, <2>1, <2>3 DEF IInv, HistoryMatches, Busy
    <3>2. r.cred \in Token
      BY <1>1 DEF IInv, HistoryMatches, Busy
    <3>3. \A u \in Thread :
            /\ Busy(u, {"mark_code_used"})' => req'[u].cred \in Code
            /\ Busy(u, {"check_session", "rotate"})' => req'[u].cred \in Token
      BY <2>1, <2>3, <3>2 DEF IInv, HistoryMatches, Busy
    <3> QED
      BY <1>1, <3>1, <3>3 DEF IInv, HistoryMatches
  <2>7. OneCodePerSession' /\ OneIssuer' /\ CodeSpentOnce' /\ RotatedFirst'
    BY <1>1, <2>1, OneCodeFrame, OneIssuerFrame, RotatedFrame
  <2>8. CodeSpentFirst'
    <3>1. \A u \in Thread : Busy(u, Trades \ {"mark_code_used"})' =>
            \A x \in DOMAIN codes : codes[x].session = req'[u].session => codes[x].used
      BY <1>2, <2>1, <2>3 DEF IInv, CodeSpentFirst, Busy, Spent
    <3> QED
      BY <1>1, <3>1 DEF IInv, CodeSpentFirst, Spent
  <2>9. StaleMeetsRevoked' /\ LateRequestsRefused'
    BY <1>1, <1>3, <2>1, <2>3 DEF IInv, StaleMeetsRevoked, LateRequestsRefused, Busy, Revoked
  <2> QED
    BY <2>4, <2>5, <2>6, <2>7, <2>8, <2>9 DEF IInv
<1>4. CASE Reply(t)
  BY <1>1, <1>4, ReplyTypes, RequestsEnd
<1> QED
  BY <1>3, <1>4 DEF CheckSession, Revoked

(* Marking a token revoked changes no session, no grant and no history.    *)
LEMMA RevokeOldTokenStep ==
    ASSUME IInv, NEW t \in Thread, RevokeOldToken(t)
    PROVE  IInv'
<1> DEFINE r == req[t]
<1>1. r.pc = "rotate" /\ UNCHANGED <<now, sessions, codes, access, issued>>
  BY DEF RevokeOldToken
<1>2. /\ req' \in [Thread -> Requests]
      /\ req'[t] = [r EXCEPT !.pc = "issue"]
      /\ req'[t].pc = "issue"
      /\ \A u \in Thread : u # t => req'[u] = req[u]
  BY <1>1, MoveTypes DEF RevokeOldToken, Trades
<1>3. r \in Trading /\ r.cred \in Token
  BY <1>1, Shapes DEF IInv, HistoryMatches, Busy, Trades
<1>4. req'[t].cred = r.cred /\ req'[t].session = r.session /\ req'[t].grant = r.grant
      /\ req'[t].stale = r.stale
  BY <1>2, <1>3 DEF Trading
<1>15. r.cred \in DOMAIN issued /\ issued[r.cred].session = r.session /\ Spent(r.session)
  BY <1>1 DEF IInv, HistoryMatches, CodeSpentFirst, Busy, Trades
<1>5. tokens \in [DOMAIN tokens -> TokenRow]
  BY DEF IInv, TypeOK
<1>6. /\ DOMAIN tokens' = DOMAIN tokens
      /\ tokens' \in [DOMAIN tokens -> TokenRow]
      /\ \A x \in DOMAIN tokens : /\ tokens'[x].session = tokens[x].session
                                  /\ tokens'[x].grant = tokens[x].grant
  BY <1>5 DEF RevokeOldToken, TokenRow
<1>7. TypeOK'
  BY <1>1, <1>2, <1>6 DEF IInv, TypeOK
<1>8. GrantsMatchSession'
  BY <1>1, <1>6 DEF IInv, GrantsMatchSession
<1>9. RequestsMatchSession'
  BY <1>1, <1>2, <1>4 DEF IInv, RequestsMatchSession, Busy, Held
<1>10. HistoryMatches'
  <2>1. \A u \in Thread : Busy(u, Trades)' =>
          req'[u].cred \in DOMAIN issued /\ issued[req'[u].cred].session = req'[u].session
    BY <1>2, <1>4, <1>15 DEF IInv, HistoryMatches, Busy
  <2>2. \A u \in Thread :
          /\ Busy(u, {"mark_code_used"})' => req'[u].cred \in Code
          /\ Busy(u, {"check_session", "rotate"})' => req'[u].cred \in Token
    BY <1>2 DEF IInv, HistoryMatches, Busy
  <2> QED
    BY <1>1, <1>6, <2>1, <2>2 DEF IInv, HistoryMatches
<1>11. OneCodePerSession'
  BY <1>1, <1>2, OneCodeFrame
<1>12. CodeSpentFirst'
  <2>1. \A u \in Thread : Busy(u, Trades \ {"mark_code_used"})' =>
          \A x \in DOMAIN codes : codes[x].session = req'[u].session => codes[x].used
    BY <1>2, <1>4, <1>15 DEF IInv, CodeSpentFirst, Busy, Spent
  <2> QED
    BY <1>1, <1>6, <2>1 DEF IInv, CodeSpentFirst, Spent
<1>13. OneIssuer' /\ CodeSpentOnce'
  <2>1. \A u \in Thread : Busy(u, {"issue"})' /\ req'[u].cred \in Code =>
          Busy(u, {"issue"}) /\ req'[u] = req[u]
    BY <1>2, <1>3, <1>4, IdAssumption DEF Busy
  <2>2. \A u \in Thread : Busy(u, {"issue"})' /\ u # t => Busy(u, {"issue"}) /\ req'[u] = req[u]
    BY <1>2 DEF Busy
  <2> QED
    BY <1>1, <1>3, <1>4, <2>1, <2>2, IdAssumption DEF IInv, OneIssuer, CodeSpentOnce
<1>16. RotatedFirst'
  <2>1. \A x \in DOMAIN tokens : tokens[x].revoked \/ x = r.cred => tokens'[x].revoked
    BY <1>5 DEF RevokeOldToken, TokenRow
  <2> QED
    BY <1>1, <1>2, <1>4, <1>6, <2>1 DEF IInv, RotatedFirst, Busy
<1>14. StaleMeetsRevoked' /\ LateRequestsRefused'
  BY <1>1, <1>2, <1>4 DEF IInv, StaleMeetsRevoked, LateRequestsRefused, Busy, Revoked
<1> QED
  BY <1>7, <1>8, <1>9, <1>10, <1>11, <1>12, <1>13, <1>14, <1>16 DEF IInv

-----------------------------------------------------------------------------
(* The bearer-authenticated request.                                       *)

(* Frames for a step of a bearer request: it is about none of the trades.  *)
LEMMA BearerFrame ==
    ASSUME IInv, NEW t \in Thread,
           UNCHANGED <<now, sessions, codes, tokens, access, issued>>,
           req' \in [Thread -> Requests],
           req'[t].pc \in {"load_session", "authorized"},
           \A u \in Thread : u # t => req'[u] = req[u]
    PROVE  /\ TypeOK' /\ GrantsMatchSession' /\ HistoryMatches'
           /\ OneCodePerSession' /\ CodeSpentFirst'
           /\ OneIssuer' /\ CodeSpentOnce' /\ RotatedFirst'
<1>1. TypeOK' /\ GrantsMatchSession'
  BY DEF IInv, TypeOK, GrantsMatchSession
<1>2. HistoryMatches'
  BY DEF IInv, HistoryMatches, Busy, Trades
<1>3. OneCodePerSession' /\ OneIssuer' /\ CodeSpentOnce' /\ RotatedFirst'
  BY OneCodeFrame, OneIssuerFrame, RotatedFrame
<1>4. CodeSpentFirst'
  BY DEF IInv, CodeSpentFirst, Busy, Trades, Spent
<1> QED
  BY <1>1, <1>2, <1>3, <1>4

(* A bearer token carries the grant of its session, so the scopes it needs *)
(* are the session's; it is stale only if the session is revoked by now.   *)
LEMMA BeginBearerStep ==
    ASSUME IInv, NEW t \in Thread, NEW a \in access, NEW required \in Required,
           BeginBearer(t, a, required)
    PROVE  IInv'
<1> DEFINE r == [pc |-> "load_session", required |-> required, grant |-> a.grant,
                 session |-> a.session, stale |-> DeadBearer(a)]
<1>1. /\ UNCHANGED <<now, sessions, codes, tokens, access, issued>>
      /\ required \subseteq a.grant.scopes
      /\ req' = [req EXCEPT ![t] = r]
  BY DEF BeginBearer
<1>8. now < a.exp
  BY DEF BeginBearer
<1>2. a \in Bearer /\ a.session \in DOMAIN sessions
      /\ a.grant = sessions[a.session].grant
  BY DEF IInv, TypeOK, GrantsMatchSession
<1>3. r \in Calling
  BY <1>2 DEF IInv, TypeOK, Bearer, Calling, DeadBearer
<1>9. DeadBearer(a) => Revoked(a.session)
  BY <1>2, <1>8 DEF DeadBearer, Bearer, IInv, TypeOK
<1>7. r.stale => Revoked(a.session)
  BY <1>9
<1>4. /\ req' \in [Thread -> Requests]
      /\ req'[t] = r
      /\ \A u \in Thread : u # t => req'[u] = req[u]
  BY <1>1, <1>3 DEF IInv, TypeOK, Requests
<1>5. RequestsMatchSession'
  BY <1>1, <1>2, <1>4 DEF IInv, RequestsMatchSession, Busy, Held
<1>6. StaleMeetsRevoked' /\ LateRequestsRefused'
  BY <1>1, <1>4, <1>7 DEF IInv, StaleMeetsRevoked, LateRequestsRefused, Busy, Revoked
<1> QED
  BY <1>1, <1>4, <1>5, <1>6, BearerFrame DEF IInv

(* A bearer request goes on only with a live session, so it is not stale.  *)
LEMMA LoadSessionStep ==
    ASSUME IInv, NEW t \in Thread, LoadSession(t)
    PROVE  IInv'
<1> DEFINE r == req[t]
<1>1. r.pc = "load_session" /\ UNCHANGED <<now, sessions, codes, tokens, access, issued>>
  BY DEF LoadSession
<1>2. CASE ~Revoked(r.session) /\ Goto(t, "authorized")
  <2>1. /\ req' \in [Thread -> Requests]
        /\ req'[t] = [r EXCEPT !.pc = "authorized"]
        /\ req'[t].pc = "authorized"
        /\ \A u \in Thread : u # t => req'[u] = req[u]
    BY <1>1, <1>2, MoveTypes
  <2>2. r \in Calling
    BY <1>1, Shapes
  <2>3. req'[t].session = r.session /\ req'[t].grant = r.grant
        /\ req'[t].stale = r.stale /\ req'[t].required = r.required
    BY <2>1, <2>2 DEF Calling
  <2>4. RequestsMatchSession'
    BY <1>1, <2>1, <2>3 DEF IInv, RequestsMatchSession, Busy, Held
  <2>5. StaleMeetsRevoked' /\ LateRequestsRefused'
    BY <1>1, <1>2, <2>1, <2>3 DEF IInv, StaleMeetsRevoked, LateRequestsRefused, Busy, Revoked
  <2> QED
    BY <1>1, <2>1, <2>4, <2>5, BearerFrame DEF IInv
<1>3. CASE Reply(t)
  BY <1>1, <1>3, ReplyTypes, RequestsEnd
<1> QED
  BY <1>2, <1>3 DEF LoadSession, Revoked

-----------------------------------------------------------------------------
(* The clock, housekeeping and crashes.  No part of IInv reads the clock.  *)
LEMMA TickStep ==
    ASSUME IInv, Tick
    PROVE  IInv'
<1>1. now' \in Nat /\ UNCHANGED <<sessions, codes, tokens, access, req, issued>>
  BY DEF Tick, IInv, TypeOK
<1> QED
  BY <1>1
  DEF IInv, TypeOK, GrantsMatchSession, RequestsMatchSession, HistoryMatches,
      OneCodePerSession, CodeSpentFirst, OneIssuer, CodeSpentOnce,
      RotatedFirst, StaleMeetsRevoked, LateRequestsRefused, Busy, Revoked, Spent

(* Deleting expired rows only makes "every stored code" and "every stored  *)
(* token" easier.                                                          *)
LEMMA CleanupStep ==
    ASSUME IInv, CleanupExpired
    PROVE  IInv'
<1>1. UNCHANGED <<now, sessions, access, req, issued>>
  BY DEF CleanupExpired
<1>2. /\ DOMAIN codes' \subseteq DOMAIN codes
      /\ \A c \in DOMAIN codes' : codes'[c] = codes[c]
      /\ codes' = [c \in DOMAIN codes' |-> codes'[c]]
  BY DEF CleanupExpired
<1>3. /\ DOMAIN tokens' \subseteq DOMAIN tokens
      /\ \A k \in DOMAIN tokens' : tokens'[k] = tokens[k]
      /\ tokens' = [k \in DOMAIN tokens' |-> tokens'[k]]
  BY DEF CleanupExpired
<1>4. TypeOK'
  BY <1>1, <1>2, <1>3 DEF IInv, TypeOK
<1>5. GrantsMatchSession' /\ RequestsMatchSession'
  BY <1>1, <1>2, <1>3 DEF IInv, GrantsMatchSession, RequestsMatchSession, Busy
<1>6. HistoryMatches'
  BY <1>1, <1>2, <1>3 DEF IInv, HistoryMatches, Busy
<1>7. OneCodePerSession'
  BY <1>1, OneCodeFrame
<1>8. CodeSpentFirst'
  BY <1>1, <1>2, <1>3 DEF IInv, CodeSpentFirst, Busy, Spent
<1>9. OneIssuer' /\ CodeSpentOnce' /\ RotatedFirst'
  BY <1>1, <1>2, <1>3 DEF IInv, OneIssuer, CodeSpentOnce, RotatedFirst, Busy
<1>10. StaleMeetsRevoked' /\ LateRequestsRefused'
  BY <1>1 DEF IInv, StaleMeetsRevoked, LateRequestsRefused, Busy, Revoked
<1> QED
  BY <1>4, <1>5, <1>6, <1>7, <1>8, <1>9, <1>10 DEF IInv

-----------------------------------------------------------------------------
(* Every step of the system preserves IInv: one lemma per action.          *)
LEMMA NextIInv ==
    ASSUME IInv, [Next]_vars
    PROVE  IInv'
<1>1. ASSUME NEW t \in Thread, Arrive(t)
      PROVE  IInv'
  <2>1. CASE \E client \in Client, verifier \in Verifier, grant \in Grant :
               BeginAuthorize(t, client, verifier, grant)
    BY <2>1, BeginAuthorizeStep
  <2>2. CASE \E c \in Code, client \in Client, verifier \in Verifier :
               BeginExchange(t, c, client, verifier)
    BY <2>2, BeginExchangeStep
  <2>3. CASE \E k \in Token, client \in Client : BeginRefresh(t, k, client)
    BY <2>3, BeginRefreshStep
  <2>4. CASE \E a \in access, required \in Required : BeginBearer(t, a, required)
    BY <2>4, BeginBearerStep
  <2> QED
    BY <1>1, <2>1, <2>2, <2>3, <2>4 DEF Arrive
<1>2. ASSUME NEW t \in Thread, Continue(t)
      PROVE  IInv'
  <2>1. CASE ToolCall(t)
    BY <2>1, ReplyTypes, RequestsEnd DEF ToolCall
  <2> QED
    BY <1>2, <2>1, SaveSessionStep, SaveCodeStep, MarkCodeUsedStep, IssueTokensStep,
       RevokeSessionStep, CheckSessionStep, RevokeOldTokenStep, LoadSessionStep
    DEF Continue
<1>3. CASE Crash
  <2>1. /\ req' \in [Thread -> Requests]
        /\ \A u \in Thread : req'[u].pc = "idle"
    BY <1>3 DEF Crash, Requests, Idle
  <2> QED
    BY <1>3, <2>1, RequestsEnd DEF Crash
<1>4. CASE UNCHANGED vars
  <2>1. req' \in [Thread -> Requests]
    BY <1>4 DEF vars, IInv, TypeOK
  <2> QED
    BY <1>4, <2>1, RequestsEnd DEF vars
<1> QED
  BY <1>1, <1>2, <1>3, <1>4, TickStep, CleanupStep DEF Next, Serve

(* IInv is an invariant of the grant store.                                *)
THEOREM Inductive == Spec => []IInv
<1>1. Init => IInv
  BY InitIInv
<1>2. IInv /\ [Next]_vars => IInv'
  BY NextIInv
<1> QED
  BY <1>1, <1>2, PTL DEF Spec

-----------------------------------------------------------------------------
(* Every row of the store, every request and every history entry keeps its *)
(* type.                                                                   *)
THEOREM TypeCorrect == Spec => []TypeOK
BY Inductive, PTL DEF IInv

(* A code, refresh token or bearer token names a stored session and        *)
(* carries exactly what that session's user consented to.                  *)
THEOREM GrantsMatch == Spec => []GrantsMatchSession
BY Inductive, PTL DEF IInv

(* A tool only runs with scopes consented to for the session it runs for.  *)
THEOREM WithinConsent == Spec => []ToolsWithinConsent
<1>1. IInv => ToolsWithinConsent
  BY DEF IInv, RequestsMatchSession, ToolsWithinConsent, Busy, Held
<1> QED
  BY <1>1, Inductive, PTL

(* However many requests race for an authorization code, one is given      *)
(* tokens for it.                                                          *)
THEOREM SpentOnce == Spec => []CodeSpentOnce
BY Inductive, PTL DEF IInv

(* exchange_code may leave the session unread: an unspent code's session   *)
(* was never revoked.                                                      *)
THEOREM UnspentIsLive == Spec => []UnspentCodeHasLiveSession
<1>1. IInv => UnspentCodeHasLiveSession
  BY DEF IInv, CodeSpentFirst, UnspentCodeHasLiveSession, Spent, Revoked
<1> QED
  BY <1>1, Inductive, PTL

(* A request that arrives with a dead credential never gets to a token or  *)
(* a tool, whatever runs beside it.                                        *)
THEOREM LateRefused == Spec => []LateRequestsRefused
BY Inductive, PTL DEF IInv

=============================================================================
