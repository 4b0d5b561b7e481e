----------------------- MODULE GrantRefinementProofs -----------------------
(***************************************************************************)
(* The deployed OAuth service keeps its contract, for any number of        *)
(* threads, sessions, codes and tokens.  Beside the invariant of           *)
(* OAuthGrantsProofs the proof needs CallsFollowOpening, which also shows  *)
(* that on the deployed server only reuse costs a session.                 *)
(***************************************************************************)
EXTENDS GrantRefinement, OAuthGrantsProofs

Maps == [Contract!Next]_Contract!contractVars

-----------------------------------------------------------------------------
(* Calls under way are as before when no request that changed was one or   *)
(* has become one.                                                         *)
LEMMA CallsStand ==
    ASSUME \A u \in Thread :
               \/ req'[u] = req[u]
               \/ req[u].pc # "authorized" /\ req'[u].pc # "authorized"
    PROVE  RunningCalls' = RunningCalls
BY DEF RunningCalls

LEMMA Stutters ==
    ASSUME UNCHANGED <<sessions, codes>>, RunningCalls' = RunningCalls
    PROVE  Maps
<1>1. ConsentTerms' = ConsentTerms /\ OpenedConsents' = OpenedConsents
        /\ RevokedConsents' = RevokedConsents
  BY DEF ConsentTerms, OpenedConsents, RevokedConsents
<1> QED
  BY <1>1 DEF Maps, Contract!contractVars

(* CallsFollowOpening is kept by whatever adds no credential and moves one *)
(* thread to where it belongs.                                             *)
LEMMA FollowFrame ==
    ASSUME CallsFollowOpening, UNCHANGED <<codes, sessions, tokens, access>>,
           \A u \in Thread :
               \/ req'[u] = req[u]
               \/ req'[u].pc \in {"idle", "save_session", "save_code"}
               \/ /\ req'[u].pc \in {"check_session", "rotate", "issue", "revoke_session",
                                     "load_session", "authorized"}
                  /\ req'[u].session \in OpenedConsents
               \/ req'[u].pc = "mark_code_used" /\ req'[u].cred \in DOMAIN codes
    PROVE  CallsFollowOpening'
<1>1. OpenedConsents' = OpenedConsents
  BY DEF OpenedConsents
<1> QED
  BY <1>1 DEF CallsFollowOpening, Busy

(* A code that is spent and stored has opened its session.                 *)
LEMMA SpentOpens ==
    ASSUME IInv, NEW c \in DOMAIN codes, codes[c].used
    PROVE  codes[c].session \in OpenedConsents
BY DEF IInv, GrantsMatchSession, OpenedConsents

-----------------------------------------------------------------------------
LEMMA AuthorizeMaps ==
    ASSUME IInv, CallsFollowOpening, NEW t \in Thread, NEW client \in Client,
           NEW verifier \in Verifier, NEW grant \in Grant,
           BeginAuthorize(t, client, verifier, grant)
    PROVE  CallsFollowOpening' /\ Maps
<1>1. /\ req[t].pc = "idle" /\ req'[t].pc = "save_session"
      /\ \A u \in Thread : u # t => req'[u] = req[u]
      /\ UNCHANGED <<sessions, codes, tokens, access>>
  BY DEF BeginAuthorize, IInv, TypeOK
<1>2. RunningCalls' = RunningCalls
  BY <1>1, CallsStand
<1> QED
  BY <1>1, <1>2, FollowFrame, Stutters

LEMMA SaveSessionMaps ==
    ASSUME IInv, CallsFollowOpening, NEW t \in Thread, SaveSession(t)
    PROVE  CallsFollowOpening' /\ Maps
<1>1. PICK s \in Session \ DOMAIN sessions :
        /\ sessions' = Put(sessions, s, [grant |-> req[t].grant, revoked |-> FALSE])
        /\ req' = [req EXCEPT ![t] = [pc |-> "save_code", client |-> req[t].client,
                                      verifier |-> req[t].verifier,
                                      grant |-> req[t].grant, session |-> s]]
  BY DEF SaveSession
<1>2. /\ req[t].pc = "save_session" /\ req'[t].pc = "save_code"
      /\ \A u \in Thread : u # t => req'[u] = req[u]
      /\ UNCHANGED <<codes, tokens, access>>
  BY <1>1 DEF SaveSession, IInv, TypeOK
<1>3. RunningCalls' = RunningCalls
  BY <1>2, CallsStand
<1>4. /\ DOMAIN sessions' = DOMAIN sessions \cup {s}
      /\ sessions'[s].grant = req[t].grant /\ sessions'[s].revoked = FALSE
      /\ \A x \in DOMAIN sessions : sessions'[x] = sessions[x]
  BY <1>1 DEF Put
<1>5. \A c \in DOMAIN codes : codes[c].session # s
  BY <1>1 DEF IInv, GrantsMatchSession
<1>6. OpenedConsents' = OpenedConsents
  BY <1>2, <1>4, <1>5 DEF OpenedConsents
<1>7. RevokedConsents' = RevokedConsents
  BY <1>4 DEF RevokedConsents
<1>8. ConsentTerms' = [x \in DOMAIN ConsentTerms \cup {s} |->
                           IF x = s THEN req[t].grant ELSE ConsentTerms[x]]
  BY <1>1, <1>4 DEF ConsentTerms
<1>9. req[t].grant \in Grant
  BY <1>2, Shapes DEF Saving
<1>10. s \notin DOMAIN ConsentTerms
  BY <1>1 DEF ConsentTerms
<1>11. Contract!Give(s)
  BY <1>3, <1>6, <1>7, <1>8, <1>9, <1>10 DEF Contract!Give
<1>12. CallsFollowOpening'
  BY <1>2, <1>6 DEF CallsFollowOpening, Busy
<1> QED
  BY <1>1, <1>11, <1>12 DEF Maps, Contract!Next

LEMMA SaveCodeMaps ==
    ASSUME IInv, CallsFollowOpening, NEW t \in Thread, SaveCode(t)
    PROVE  CallsFollowOpening' /\ Maps
<1>1. PICK c \in Code \ DOMAIN issued :
        codes' = Put(codes, c, [client |-> req[t].client, verifier |-> req[t].verifier,
                                grant |-> req[t].grant, session |-> req[t].session,
                                exp |-> now + CodeTTL, used |-> FALSE])
  BY DEF SaveCode
<1>2. /\ req[t].pc = "save_code" /\ req'[t].pc = "idle"
      /\ \A u \in Thread : u # t => req'[u] = req[u]
      /\ UNCHANGED <<sessions, tokens, access>>
  BY DEF SaveCode, Reply, Idle, IInv, TypeOK
<1>3. RunningCalls' = RunningCalls
  BY <1>2, CallsStand
<1>4. c \notin DOMAIN codes
  BY <1>1 DEF IInv, HistoryMatches
<1>5. /\ DOMAIN codes' = DOMAIN codes \cup {c} /\ codes'[c].used = FALSE
      /\ \A x \in DOMAIN codes : codes'[x] = codes[x]
  BY <1>1, <1>4 DEF Put
<1>6. OpenedConsents' = OpenedConsents
  BY <1>2, <1>4, <1>5 DEF OpenedConsents
<1>7. ConsentTerms' = ConsentTerms /\ RevokedConsents' = RevokedConsents
  BY <1>2 DEF ConsentTerms, RevokedConsents
<1>8. CallsFollowOpening'
  BY <1>2, <1>5, <1>6 DEF CallsFollowOpening, Busy
<1> QED
  BY <1>3, <1>6, <1>7, <1>8 DEF Maps, Contract!contractVars

LEMMA ExchangeMaps ==
    ASSUME IInv, CallsFollowOpening, NEW t \in Thread, NEW c \in Code,
           NEW client \in Client, NEW verifier \in Verifier,
           BeginExchange(t, c, client, verifier)
    PROVE  CallsFollowOpening' /\ Maps
<1>1. req[t].pc = "idle" /\ UNCHANGED <<sessions, codes, tokens, access>>
  BY DEF BeginExchange
<1>2. CASE CodeReused(c) /\ req' = [req EXCEPT ![t] = Trade(c, codes[c], "revoke_session")]
  <2>1. /\ req'[t].pc = "revoke_session" /\ req'[t].session = codes[c].session
        /\ \A u \in Thread : u # t => req'[u] = req[u]
    BY <1>2 DEF Trade, IInv, TypeOK
  <2>2. codes[c].session \in OpenedConsents
    BY <1>2, SpentOpens DEF CodeReused
  <2>3. RunningCalls' = RunningCalls
    BY <1>1, <2>1, CallsStand
  <2> QED
    BY <1>1, <2>1, <2>2, <2>3, FollowFrame, Stutters
<1>3. CASE /\ CodeAccepted(c, client, verifier)
           /\ req' = [req EXCEPT ![t] = Trade(c, codes[c], "mark_code_used")]
  <2>1. /\ req'[t].pc = "mark_code_used" /\ req'[t].cred = c
        /\ \A u \in Thread : u # t => req'[u] = req[u]
    BY <1>3 DEF Trade, IInv, TypeOK
  <2>2. c \in DOMAIN codes
    BY <1>3 DEF CodeAccepted
  <2>3. RunningCalls' = RunningCalls
    BY <1>1, <2>1, CallsStand
  <2> QED
    BY <1>1, <2>1, <2>2, <2>3, FollowFrame, Stutters
<1>4. CASE UNCHANGED req
  BY <1>1, <1>4, CallsStand, FollowFrame, Stutters
<1> QED
  BY <1>2, <1>3, <1>4 DEF BeginExchange

LEMMA MarkMaps ==
    ASSUME IInv, CallsFollowOpening, NEW t \in Thread, MarkCodeUsed(t)
    PROVE  CallsFollowOpening' /\ Maps
<1> DEFINE c == req[t].cred
           s == req[t].session
<1>1. /\ req[t].pc = "mark_code_used" /\ UNCHANGED <<sessions, tokens, access>>
      /\ req[t] \in Trading
  BY Shapes DEF MarkCodeUsed, Trades
<1>2. c \in DOMAIN codes /\ codes[c].session = s /\ c \in Code
  BY <1>1 DEF CallsFollowOpening, IInv, HistoryMatches, Busy, Trades
<1>3. s \in DOMAIN sessions
  BY <1>2 DEF IInv, GrantsMatchSession
<1>4. CASE ~codes[c].used /\ codes' = [codes EXCEPT ![c].used = TRUE] /\ Goto(t, "issue")
  <2>1. /\ req'[t].pc = "issue" /\ req'[t].session = s
        /\ \A u \in Thread : u # t => req'[u] = req[u]
    BY <1>4, <1>1 DEF Goto, IInv, TypeOK, Trading
  <2>2. /\ DOMAIN codes' = DOMAIN codes /\ codes'[c].used /\ codes'[c].session = s
        /\ \A x \in DOMAIN codes : x # c => codes'[x] = codes[x]
    BY <1>2, <1>4 DEF IInv, TypeOK, CodeRow
  <2>3. OpenedConsents' = OpenedConsents \cup {s}
    BY <1>1, <1>2, <1>3, <1>4, <2>2 DEF OpenedConsents
  <2>4. \A x \in DOMAIN codes : codes[x].session = s => x = c
    BY <1>2 DEF IInv, OneCodePerSession, HistoryMatches, TypeOK
  <2>5. s \notin OpenedConsents
    BY <1>4, <2>4 DEF OpenedConsents
  <2>6. RunningCalls' = RunningCalls
    BY <1>1, <2>1, CallsStand
  <2>7. ConsentTerms' = ConsentTerms /\ RevokedConsents' = RevokedConsents
          /\ s \in DOMAIN ConsentTerms
    BY <1>1, <1>3 DEF ConsentTerms, RevokedConsents
  <2>8. Contract!Open(s)
    BY <2>3, <2>5, <2>6, <2>7 DEF Contract!Open
  <2>9. s \in Session
    BY <1>1 DEF Trading
  <2>10. CallsFollowOpening'
    BY <1>1, <2>1, <2>2, <2>3 DEF CallsFollowOpening, Busy
  <2> QED
    BY <2>8, <2>9, <2>10 DEF Maps, Contract!Next
<1>5. CASE codes[c].used /\ UNCHANGED codes /\ Goto(t, "revoke_session")
  <2>1. /\ req'[t].pc = "revoke_session" /\ req'[t].session = s
        /\ \A u \in Thread : u # t => req'[u] = req[u]
    BY <1>5, <1>1 DEF Goto, IInv, TypeOK, Trading
  <2>2. s \in OpenedConsents
    BY <1>2, <1>5, SpentOpens
  <2>3. RunningCalls' = RunningCalls
    BY <1>1, <2>1, CallsStand
  <2> QED
    BY <1>1, <1>5, <2>1, <2>2, <2>3, FollowFrame, Stutters
<1> QED
  BY <1>2, <1>4, <1>5 DEF MarkCodeUsed

LEMMA IssueMaps ==
    ASSUME IInv, CallsFollowOpening, NEW t \in Thread, IssueTokens(t)
    PROVE  CallsFollowOpening' /\ Maps
<1> DEFINE r == req[t]
<1>1. PICK k \in Token \ DOMAIN issued :
        tokens' = Put(tokens, k, [client |-> r.client, grant |-> r.grant,
                                  session |-> r.session, exp |-> now + RefreshTTL,
                                  revoked |-> FALSE])
  BY DEF IssueTokens
<1>2. /\ r.pc = "issue" /\ req'[t].pc = "idle"
      /\ \A u \in Thread : u # t => req'[u] = req[u]
      /\ UNCHANGED <<sessions, codes>>
      /\ access' = access \cup {[session |-> r.session, grant |-> r.grant,
                                 exp |-> now + AccessTTL]}
  BY DEF IssueTokens, Reply, Idle, IInv, TypeOK
<1>3. RunningCalls' = RunningCalls
  BY <1>2, CallsStand
<1>4. r.session \in OpenedConsents /\ OpenedConsents' = OpenedConsents
  BY <1>2 DEF CallsFollowOpening, Busy, OpenedConsents
<1>5. \A x \in DOMAIN tokens' : tokens'[x].session \in OpenedConsents
  BY <1>1, <1>4 DEF Put, CallsFollowOpening
<1>6. \A a \in access' : a.session \in OpenedConsents
  BY <1>2, <1>4 DEF CallsFollowOpening
<1>7. CallsFollowOpening'
  BY <1>2, <1>4, <1>5, <1>6 DEF CallsFollowOpening, Busy
<1> QED
  BY <1>2, <1>3, <1>7, Stutters

LEMMA RevokeMaps ==
    ASSUME IInv, CallsFollowOpening, NEW t \in Thread, RevokeSession(t)
    PROVE  CallsFollowOpening' /\ Maps
<1> DEFINE s == req[t].session
<1>1. /\ req[t].pc = "revoke_session" /\ req'[t].pc = "idle"
      /\ \A u \in Thread : u # t => req'[u] = req[u]
      /\ UNCHANGED <<codes, tokens, access>>
      /\ sessions' = [k \in DOMAIN sessions |->
                        IF k = s THEN [sessions[k] EXCEPT !.revoked = TRUE] ELSE sessions[k]]
  BY DEF RevokeSession, Reply, Idle, IInv, TypeOK
<1>2. s \in OpenedConsents
  BY <1>1 DEF CallsFollowOpening, Busy
<1>3. s \in DOMAIN sessions /\ s \in Session
  BY <1>2 DEF OpenedConsents, IInv, TypeOK
<1>4. /\ DOMAIN sessions' = DOMAIN sessions
      /\ \A x \in DOMAIN sessions : sessions'[x].grant = sessions[x].grant
      /\ \A x \in DOMAIN sessions : x # s => sessions'[x] = sessions[x]
      /\ sessions'[s].revoked = TRUE
  <2>1. \A x \in DOMAIN sessions : sessions[x] \in SessionRow
    BY DEF IInv, TypeOK
  <2> QED
    BY <1>1, <1>3, <2>1 DEF SessionRow
<1>5. ConsentTerms' = ConsentTerms
  BY <1>4 DEF ConsentTerms
<1>6. OpenedConsents' = OpenedConsents
  BY <1>1, <1>4 DEF OpenedConsents
<1>7. RevokedConsents' = RevokedConsents \cup {s}
  BY <1>3, <1>4 DEF RevokedConsents
<1>8. RunningCalls' = RunningCalls
  BY <1>1, CallsStand
<1>9. Contract!Revoke(s)
  BY <1>2, <1>5, <1>6, <1>7, <1>8 DEF Contract!Revoke
<1>10. CallsFollowOpening'
  BY <1>1, <1>6 DEF CallsFollowOpening, Busy
<1> QED
  BY <1>3, <1>9, <1>10 DEF Maps, Contract!Next

LEMMA RefreshMaps ==
    ASSUME IInv, CallsFollowOpening, NEW t \in Thread, NEW k \in Token,
           NEW client \in Client, BeginRefresh(t, k, client)
    PROVE  CallsFollowOpening' /\ Maps
<1>1. req[t].pc = "idle" /\ UNCHANGED <<sessions, codes, tokens, access>>
  BY DEF BeginRefresh
<1>2. ASSUME NEW label \in {"revoke_session", "check_session"},
             k \in DOMAIN tokens, req' = [req EXCEPT ![t] = Trade(k, tokens[k], label)]
      PROVE  CallsFollowOpening' /\ Maps
  <2>1. /\ req'[t].pc = label /\ req'[t].session = tokens[k].session
        /\ \A u \in Thread : u # t => req'[u] = req[u]
    BY <1>2 DEF Trade, IInv, TypeOK
  <2>2. tokens[k].session \in OpenedConsents
    BY <1>2 DEF CallsFollowOpening
  <2>3. RunningCalls' = RunningCalls
    BY <1>1, <2>1, CallsStand
  <2>4. CallsFollowOpening'
    BY <1>1, <2>1, <2>2, FollowFrame
  <2> QED
    BY <1>1, <2>3, <2>4, Stutters
<1>3. CASE UNCHANGED req
  BY <1>1, <1>3, CallsStand, FollowFrame, Stutters
<1> QED
  BY <1>2, <1>3 DEF BeginRefresh, TokenReused, TokenAccepted

(* A trade that moves on with what it holds, or is answered.               *)
LEMMA TradeMaps ==
    ASSUME IInv, CallsFollowOpening, NEW t \in Thread,
           \/ CheckSession(t)
           \/ RevokeOldToken(t)
    PROVE  CallsFollowOpening' /\ Maps
<1>1. /\ req[t].pc \in {"check_session", "rotate"}
      /\ UNCHANGED <<sessions, codes, access>>
  BY DEF CheckSession, RevokeOldToken
<1>2. req[t] \in Trading /\ req[t].session \in OpenedConsents
  BY <1>1, Shapes DEF CallsFollowOpening, Busy, Trades
<1>3. /\ \/ req'[t].pc = "idle"
         \/ req'[t].pc \in {"rotate", "issue"} /\ req'[t].session = req[t].session
      /\ \A u \in Thread : u # t => req'[u] = req[u]
  BY <1>2 DEF CheckSession, RevokeOldToken, Goto, Reply, Idle, IInv, TypeOK, Trading
<1>4. RunningCalls' = RunningCalls
  BY <1>1, <1>3, CallsStand
<1>5. OpenedConsents' = OpenedConsents
  BY <1>1 DEF OpenedConsents
<1>6. \A k \in DOMAIN tokens' : tokens'[k].session \in OpenedConsents
  <2>1. CASE UNCHANGED tokens
    BY <2>1 DEF CallsFollowOpening
  <2>2. CASE tokens' = [k \in DOMAIN tokens |->
                           IF k = req[t].cred THEN [tokens[k] EXCEPT !.revoked = TRUE]
                                              ELSE tokens[k]]
    <3>1. \A k \in DOMAIN tokens : tokens[k] \in TokenRow
      BY DEF IInv, TypeOK
    <3>2. \A k \in DOMAIN tokens : tokens'[k].session = tokens[k].session
      BY <2>2, <3>1 DEF TokenRow
    <3> QED
      BY <2>2, <3>2 DEF CallsFollowOpening
  <2> QED
    BY <2>1, <2>2 DEF CheckSession, RevokeOldToken
<1>7. CallsFollowOpening'
  BY <1>1, <1>2, <1>3, <1>5, <1>6 DEF CallsFollowOpening, Busy
<1> QED
  BY <1>1, <1>4, <1>7, Stutters

LEMMA BearerMaps ==
    ASSUME IInv, CallsFollowOpening, NEW t \in Thread, NEW a \in access,
           NEW required \in Required, BeginBearer(t, a, required)
    PROVE  CallsFollowOpening' /\ Maps
<1>1. /\ req[t].pc = "idle" /\ req'[t].pc = "load_session" /\ req'[t].session = a.session
      /\ \A u \in Thread : u # t => req'[u] = req[u]
      /\ UNCHANGED <<sessions, codes, tokens, access>>
  BY DEF BeginBearer, IInv, TypeOK
<1>2. a.session \in OpenedConsents
  BY DEF CallsFollowOpening
<1>3. RunningCalls' = RunningCalls
  BY <1>1, CallsStand
<1>4. CallsFollowOpening'
  BY <1>1, <1>2, FollowFrame
<1> QED
  BY <1>1, <1>3, <1>4, Stutters

LEMMA LoadMaps ==
    ASSUME IInv, CallsFollowOpening, NEW t \in Thread, LoadSession(t)
    PROVE  CallsFollowOpening' /\ Maps
<1> DEFINE s == req[t].session
<1>1. /\ req[t].pc = "load_session" /\ UNCHANGED <<sessions, codes, tokens, access>>
      /\ req[t] \in Calling
  BY Shapes DEF LoadSession
<1>2. s \in OpenedConsents
  BY <1>1 DEF CallsFollowOpening, Busy
<1>3. CASE Reply(t)
  <2>1. req'[t].pc = "idle" /\ \A u \in Thread : u # t => req'[u] = req[u]
    BY <1>3, ReplyTypes
  <2>2. RunningCalls' = RunningCalls
    BY <1>1, <2>1, CallsStand
  <2> QED
    BY <1>1, <2>1, <2>2, FollowFrame, Stutters
<1>4. CASE s \in DOMAIN sessions /\ ~sessions[s].revoked /\ Goto(t, "authorized")
  <2>1. /\ req'[t].pc = "authorized" /\ req'[t].session = s /\ req'[t].required = req[t].required
        /\ \A u \in Thread : u # t => req'[u] = req[u]
    BY <1>4, <1>1 DEF Goto, IInv, TypeOK, Calling
  <2>2. CallsFollowOpening'
    BY <1>1, <1>2, <2>1, FollowFrame
  <2>3. RunningCalls' = [RunningCalls EXCEPT ![t] = [under |-> s, needs |-> req[t].required]]
    BY <2>1 DEF RunningCalls
  <2>4. RunningCalls[t] = Contract!NoCall
    BY <1>1 DEF RunningCalls, Contract!NoCall
  <2>5. s \in OpenedConsents \ RevokedConsents
    BY <1>2, <1>4 DEF RevokedConsents
  <2>6. req[t].required \in Required /\ req[t].required \subseteq ConsentTerms[s].scopes
    BY <1>1, <1>4 DEF Calling, IInv, RequestsMatchSession, Busy, Held, ConsentTerms
  <2>7. ConsentTerms' = ConsentTerms /\ OpenedConsents' = OpenedConsents
          /\ RevokedConsents' = RevokedConsents
    BY <1>1 DEF ConsentTerms, OpenedConsents, RevokedConsents
  <2>8. Contract!BeginCall(t, s)
    BY <2>3, <2>4, <2>5, <2>6, <2>7 DEF Contract!BeginCall
  <2> QED
    BY <1>1, <2>2, <2>8 DEF Maps, Contract!Next, Calling
<1> QED
  BY <1>3, <1>4 DEF LoadSession

(* Calls that end, one by one or in a crash.                               *)
LEMMA EndMaps ==
    ASSUME IInv, CallsFollowOpening, UNCHANGED <<sessions, codes, tokens, access>>,
           \A u \in Thread : req'[u] = req[u] \/ req'[u].pc = "idle"
    PROVE  CallsFollowOpening' /\ Maps
<1>1. CallsFollowOpening'
  BY FollowFrame
<1>2. \A u \in Thread : RunningCalls'[u] \in {RunningCalls[u], Contract!NoCall}
  BY DEF RunningCalls, Contract!NoCall
<1>3. RunningCalls' \in [Thread -> {RunningCalls[u] : u \in Thread} \cup {Contract!NoCall}]
  BY <1>2 DEF RunningCalls
<1>4. ConsentTerms' = ConsentTerms /\ OpenedConsents' = OpenedConsents
        /\ RevokedConsents' = RevokedConsents
  BY DEF ConsentTerms, OpenedConsents, RevokedConsents
<1>5. Contract!EndCalls
  BY <1>2, <1>3, <1>4 DEF Contract!EndCalls
<1> QED
  BY <1>1, <1>5 DEF Maps, Contract!Next

-----------------------------------------------------------------------------
LEMMA ServeMaps ==
    ASSUME IInv, CallsFollowOpening, [Serve \/ Crash]_vars
    PROVE  CallsFollowOpening' /\ Maps
<1>1. ASSUME NEW t \in Thread, Arrive(t)
      PROVE  CallsFollowOpening' /\ Maps
  BY <1>1, AuthorizeMaps, ExchangeMaps, RefreshMaps, BearerMaps DEF Arrive
<1>2. ASSUME NEW t \in Thread, Continue(t)
      PROVE  CallsFollowOpening' /\ Maps
  <2>1. CASE ToolCall(t)
    <3>1. req'[t].pc = "idle" /\ \A u \in Thread : u # t => req'[u] = req[u]
      BY <2>1, ReplyTypes DEF ToolCall
    <3> QED
      BY <2>1, <3>1, EndMaps DEF ToolCall
  <2> QED
    BY <1>2, <2>1, SaveSessionMaps, SaveCodeMaps, MarkMaps, IssueMaps, RevokeMaps,
       TradeMaps, LoadMaps DEF Continue
<1>3. CASE Tick
  BY <1>3, EndMaps DEF Tick
<1>4. CASE Crash
  <2>1. \A u \in Thread : req'[u].pc = "idle"
    BY <1>4 DEF Crash, Idle
  <2> QED
    BY <1>4, <2>1, EndMaps DEF Crash
<1>5. CASE UNCHANGED vars
  BY <1>5, EndMaps DEF vars
<1> QED
  BY <1>1, <1>2, <1>3, <1>4, <1>5 DEF Serve

LEMMA InitMaps ==
    Init => CallsFollowOpening /\ Contract!Init
<1> SUFFICES ASSUME Init PROVE CallsFollowOpening /\ Contract!Init
  OBVIOUS
<1>1. /\ DOMAIN sessions = {} /\ DOMAIN codes = {} /\ DOMAIN tokens = {} /\ access = {}
      /\ \A t \in Thread : req[t].pc = "idle"
  BY DEF Init, Idle
<1>2. OpenedConsents = {} /\ RevokedConsents = {}
  BY <1>1 DEF OpenedConsents, RevokedConsents
<1>3. ConsentTerms = << >>
  BY <1>1 DEF ConsentTerms
<1>4. RunningCalls = [t \in Thread |-> Contract!NoCall]
  BY <1>1 DEF RunningCalls, Contract!NoCall
<1> QED
  BY <1>1, <1>2, <1>3, <1>4 DEF CallsFollowOpening, Busy, Contract!Init

(* The deployed server implements the contract: a grant is opened once, a  *)
(* call begins only under an open one and within its terms, and what is    *)
(* revoked stays revoked.                                                  *)
THEOREM KeepsContract == ServeSpec => ContractKept
<1>1. Init => IInv /\ CallsFollowOpening /\ Contract!Init
  BY InitIInv, InitMaps
<1>2. /\ IInv /\ CallsFollowOpening /\ [Serve \/ Crash]_vars
      => IInv' /\ CallsFollowOpening' /\ [Contract!Next]_Contract!contractVars
  BY NextIInv, ServeMaps DEF Next, Maps
<1> QED
  BY <1>1, <1>2, PTL DEF ServeSpec, ContractKept, Contract!Spec

-----------------------------------------------------------------------------
(* Only reuse costs a session, on the deployed server: UsesCounted keeps   *)
(* the presentations of each credential beside what became of it.          *)
Counted == UsesCounted /\ OnlyReuseRevokes

(* Labels of a request that has nothing to account for.                    *)
Plain == {"idle", "save_session", "save_code", "issue", "load_session", "authorized"}

-----------------------------------------------------------------------------
LEMMA IssuedRows ==
    ASSUME IInv
    PROVE  \A k \in DOMAIN issued : issued[k] \in IssuedRow /\ issued[k].uses \in 0..2
BY DEF IInv, TypeOK, IssuedRow

(* A presentation counts, the first and the second time.                   *)
LEMMA PresentedCounts ==
    ASSUME IInv, NEW k \in DOMAIN issued, Presented(k)
    PROVE  /\ DOMAIN issued' = DOMAIN issued
           /\ \A x \in DOMAIN issued : /\ issued'[x].session = issued[x].session
                                       /\ issued[x].uses > 0 => issued'[x].uses > 0
                                       /\ issued[x].uses = 2 => issued'[x].uses = 2
           /\ issued'[k].uses > 0
           /\ issued[k].uses > 0 => issued'[k].uses = 2
<1>1. \A x \in DOMAIN issued : issued[x] \in IssuedRow /\ issued[x].uses \in 0..2
  BY IssuedRows
<1>2. /\ DOMAIN issued' = DOMAIN issued
      /\ \A x \in DOMAIN issued : x # k => issued'[x] = issued[x]
  BY DEF Presented
<1>3. issued'[k] = [issued[k] EXCEPT !.uses = IF @ = 2 THEN 2 ELSE @ + 1]
  BY DEF Presented
<1>4. /\ issued'[k].session = issued[k].session
      /\ issued'[k].uses = IF issued[k].uses = 2 THEN 2 ELSE issued[k].uses + 1
  BY <1>1, <1>3 DEF IssuedRow
<1> QED
  BY <1>1, <1>2, <1>4

(* Rows that only gain credentials and presentations keep every account of *)
(* the requests that stay as they are or turn to something plain.          *)
LEMMA CountFrame ==
    ASSUME IInv, Counted,
           \A x \in DOMAIN issued : /\ x \in DOMAIN issued'
                                    /\ issued'[x].session = issued[x].session
                                    /\ issued[x].uses > 0 => issued'[x].uses > 0
                                    /\ issued[x].uses = 2 => issued'[x].uses = 2,
           \A c \in DOMAIN codes' : codes'[c].used =>
               c \in DOMAIN codes /\ codes[c].used,
           \A k \in DOMAIN tokens' : tokens'[k].revoked =>
               (k \in DOMAIN tokens /\ tokens[k].revoked)
                 \/ (k \in DOMAIN issued /\ issued[k].uses > 0),
           \A s \in DOMAIN sessions' : sessions'[s].revoked =>
               (s \in DOMAIN sessions /\ sessions[s].revoked) \/ Twice(s),
           \A u \in Thread :
               \/ req'[u] = req[u]
               \/ req'[u].pc \in Plain
               \/ /\ req'[u].pc \in {"check_session", "rotate"}
                  /\ issued'[req'[u].cred].uses > 0
               \/ req'[u].pc = "revoke_session" /\ Twice(req[u].session)'
               \/ /\ req'[u].pc = "mark_code_used"
                  /\ issued'[req'[u].cred].uses > 0
                  /\ ~CodeReused(req[u].cred)'
                  /\ \A v \in Thread :
                       v # u /\ req'[v].pc = "mark_code_used" /\ req'[v].cred = req'[u].cred
                         => issued'[req'[u].cred].uses = 2
    PROVE  Counted'
<1>1. \A s : Twice(s) => Twice(s)'
  BY DEF Twice
<1>2. OnlyReuseRevokes'
  <2>1. \A s \in DOMAIN sessions : sessions[s].revoked => Twice(s)
    BY DEF Counted, OnlyReuseRevokes, Twice
  <2>2. \A s \in DOMAIN sessions' : sessions'[s].revoked => Twice(s)'
    BY <1>1, <2>1
  <2> QED
    BY <2>2 DEF OnlyReuseRevokes, Twice
<1>3. \A c \in DOMAIN codes' : codes'[c].used => issued'[c].uses > 0
  BY DEF Counted, UsesCounted, IInv, HistoryMatches
<1>4. \A k \in DOMAIN tokens' : tokens'[k].revoked => issued'[k].uses > 0
  BY DEF Counted, UsesCounted, IInv, HistoryMatches
<1>5. \A t \in Thread : Busy(t, Trades) => req[t].cred \in DOMAIN issued
  BY DEF IInv, HistoryMatches
<1>6. ASSUME NEW t \in Thread
      PROVE  /\ Busy(t, {"mark_code_used", "check_session", "rotate"})' =>
                  issued'[req'[t].cred].uses > 0
             /\ Busy(t, {"mark_code_used"})' /\ CodeReused(req[t].cred)' =>
                  issued'[req'[t].cred].uses = 2
             /\ Busy(t, {"revoke_session"})' => Twice(req[t].session)'
  <2>1. CASE req'[t] = req[t]
    <3>1. CodeReused(req[t].cred)' => CodeReused(req[t].cred)
      BY <2>1 DEF CodeReused
    <3> QED
      BY <2>1, <3>1, <1>1, <1>5 DEF Busy, Trades, Counted, UsesCounted
  <2>2. CASE req'[t] # req[t]
    BY <2>2 DEF Busy, Plain
  <2> QED
    BY <2>1, <2>2
<1>7. ASSUME NEW t \in Thread, NEW u \in Thread, t # u,
             req'[t].pc = "mark_code_used", req'[u].pc = "mark_code_used",
             req'[t].cred = req'[u].cred
      PROVE  issued'[req'[t].cred].uses = 2
  <2>1. CASE req'[t] = req[t] /\ req'[u] = req[u]
    BY <1>7, <2>1, <1>5 DEF Busy, Trades, Counted, UsesCounted
  <2>2. CASE req'[t] # req[t]
    BY <1>7, <2>2 DEF Plain
  <2>3. CASE req'[u] # req[u]
    BY <1>7, <2>3 DEF Plain
  <2> QED
    BY <2>1, <2>2, <2>3
<1>8. UsesCounted'
  BY <1>3, <1>4, <1>6, <1>7 DEF UsesCounted, Busy
<1> QED
  BY <1>2, <1>8 DEF Counted

-----------------------------------------------------------------------------
(* Steps that present, spend and revoke nothing.                           *)
LEMMA PlainStep ==
    ASSUME IInv, Counted, UNCHANGED <<codes, tokens, issued>>,
           \A s \in DOMAIN sessions' : sessions'[s].revoked =>
               s \in DOMAIN sessions /\ sessions[s].revoked,
           \A u \in Thread : \/ req'[u] = req[u]
                             \/ req'[u].pc \in Plain
                             \/ /\ req[u].pc = "check_session" /\ req'[u].pc = "rotate"
                                /\ req'[u].cred = req[u].cred
    PROVE  Counted'
<1>1. ASSUME NEW u \in Thread, req[u].pc = "check_session"
      PROVE  issued[req[u].cred].uses > 0
  BY <1>1 DEF Counted, UsesCounted, Busy
<1>2. \A u \in Thread : \/ req'[u] = req[u]
                        \/ req'[u].pc \in Plain
                        \/ /\ req'[u].pc \in {"check_session", "rotate"}
                           /\ issued'[req'[u].cred].uses > 0
  BY <1>1
<1> QED
  BY <1>2, CountFrame

LEMMA ArrivalCounts ==
    ASSUME IInv, Counted, NEW t \in Thread,
           \/ \E client \in Client, verifier \in Verifier, grant \in Grant :
                BeginAuthorize(t, client, verifier, grant)
           \/ \E a \in access, required \in Required : BeginBearer(t, a, required)
    PROVE  Counted'
<1>1. /\ UNCHANGED <<codes, tokens, issued, sessions>>
      /\ req'[t].pc \in {"save_session", "load_session"}
      /\ \A u \in Thread : u # t => req'[u] = req[u]
  BY DEF BeginAuthorize, BeginBearer, IInv, TypeOK
<1> QED
  BY <1>1, PlainStep DEF Plain

LEMMA SaveSessionCounts ==
    ASSUME IInv, Counted, NEW t \in Thread, SaveSession(t)
    PROVE  Counted'
<1>1. PICK s \in Session \ DOMAIN sessions :
        /\ sessions' = Put(sessions, s, [grant |-> req[t].grant, revoked |-> FALSE])
        /\ req' = [req EXCEPT ![t] = [pc |-> "save_code", client |-> req[t].client,
                                      verifier |-> req[t].verifier,
                                      grant |-> req[t].grant, session |-> s]]
  BY DEF SaveSession
<1>2. /\ req'[t].pc = "save_code" /\ UNCHANGED <<codes, tokens, issued>>
      /\ \A u \in Thread : u # t => req'[u] = req[u]
  BY <1>1 DEF SaveSession, IInv, TypeOK
<1>3. \A x \in DOMAIN sessions' : sessions'[x].revoked =>
          x \in DOMAIN sessions /\ sessions[x].revoked
  BY <1>1 DEF Put
<1> QED
  BY <1>2, <1>3, PlainStep DEF Plain

LEMMA SaveCodeCounts ==
    ASSUME IInv, Counted, NEW t \in Thread, SaveCode(t)
    PROVE  Counted'
<1>1. PICK c \in Code \ DOMAIN issued :
        /\ codes' = Put(codes, c, [client |-> req[t].client, verifier |-> req[t].verifier,
                                   grant |-> req[t].grant, session |-> req[t].session,
                                   exp |-> now + CodeTTL, used |-> FALSE])
        /\ issued' = Put(issued, c, [session |-> req[t].session, parent |-> Root,
                                     uses |-> 0])
  BY DEF SaveCode
<1>2. /\ req'[t].pc = "idle" /\ UNCHANGED <<sessions, tokens>>
      /\ \A u \in Thread : u # t => req'[u] = req[u]
  BY DEF SaveCode, Reply, Idle, IInv, TypeOK
<1>3. \A x \in DOMAIN issued : x \in DOMAIN issued' /\ issued'[x] = issued[x]
  BY <1>1 DEF Put
<1>4. \A x \in DOMAIN codes' : codes'[x].used => x \in DOMAIN codes /\ codes[x].used
  BY <1>1 DEF Put
<1>5. \A u \in Thread : req'[u] = req[u] \/ req'[u].pc \in Plain
  BY <1>2 DEF Plain
<1> QED
  BY <1>2, <1>3, <1>4, <1>5, CountFrame

LEMMA IssueCounts ==
    ASSUME IInv, Counted, NEW t \in Thread, IssueTokens(t)
    PROVE  Counted'
<1> DEFINE r == req[t]
<1>1. PICK k \in Token \ DOMAIN issued :
        /\ tokens' = Put(tokens, k, [client |-> r.client, grant |-> r.grant,
                                     session |-> r.session, exp |-> now + RefreshTTL,
                                     revoked |-> FALSE])
        /\ issued' = Put(issued, k, [session |-> r.session, parent |-> r.cred, uses |-> 0])
  BY DEF IssueTokens
<1>2. /\ req'[t].pc = "idle" /\ UNCHANGED <<sessions, codes>>
      /\ \A u \in Thread : u # t => req'[u] = req[u]
  BY DEF IssueTokens, Reply, Idle, IInv, TypeOK
<1>3. \A x \in DOMAIN issued : x \in DOMAIN issued' /\ issued'[x] = issued[x]
  BY <1>1 DEF Put
<1>4. \A x \in DOMAIN tokens' : tokens'[x].revoked => x \in DOMAIN tokens /\ tokens[x].revoked
  BY <1>1 DEF Put
<1>5. \A u \in Thread : req'[u] = req[u] \/ req'[u].pc \in Plain
  BY <1>2 DEF Plain
<1> QED
  BY <1>2, <1>3, <1>4, <1>5, CountFrame

-----------------------------------------------------------------------------
LEMMA ExchangeCounts ==
    ASSUME IInv, Counted, NEW t \in Thread, NEW c \in Code, NEW client \in Client,
           NEW verifier \in Verifier, BeginExchange(t, c, client, verifier)
    PROVE  Counted'
<1>1. /\ c \in DOMAIN issued /\ Presented(c)
      /\ UNCHANGED <<sessions, codes, tokens>>
  BY DEF BeginExchange
<1>2. /\ DOMAIN issued' = DOMAIN issued
      /\ \A x \in DOMAIN issued : /\ issued'[x].session = issued[x].session
                                  /\ issued[x].uses > 0 => issued'[x].uses > 0
                                  /\ issued[x].uses = 2 => issued'[x].uses = 2
      /\ issued'[c].uses > 0
      /\ issued[c].uses > 0 => issued'[c].uses = 2
  BY <1>1, PresentedCounts
<1>3. CASE CodeReused(c) /\ req' = [req EXCEPT ![t] = Trade(c, codes[c], "revoke_session")]
  <2>1. /\ req'[t].pc = "revoke_session" /\ req'[t].session = codes[c].session
        /\ \A u \in Thread : u # t => req'[u] = req[u]
    BY <1>3 DEF Trade, IInv, TypeOK
  <2>2. c \in DOMAIN codes /\ issued[c].uses > 0 /\ issued[c].session = codes[c].session
    BY <1>3 DEF CodeReused, Counted, UsesCounted, IInv, HistoryMatches
  <2>3. Twice(req[t].session)'
    BY <1>1, <1>2, <2>1, <2>2 DEF Twice
  <2> QED
    BY <1>1, <1>2, <2>1, <2>3, CountFrame
<1>4. CASE /\ CodeAccepted(c, client, verifier)
           /\ req' = [req EXCEPT ![t] = Trade(c, codes[c], "mark_code_used")]
  <2>1. /\ req'[t].pc = "mark_code_used" /\ req'[t].cred = c
        /\ \A u \in Thread : u # t => req'[u] = req[u]
    BY <1>4 DEF Trade, IInv, TypeOK
  <2>2. ~CodeReused(req[t].cred)'
    BY <1>1, <1>4, <2>1 DEF CodeAccepted, CodeReused
  <2>3. ASSUME NEW v \in Thread, v # t, req'[v].pc = "mark_code_used", req'[v].cred = c
        PROVE  issued'[c].uses = 2
    BY <1>2, <2>1, <2>3 DEF Counted, UsesCounted, Busy
  <2> QED
    BY <1>1, <1>2, <2>1, <2>2, <2>3, CountFrame
<1>5. CASE UNCHANGED req
  BY <1>1, <1>2, <1>5, CountFrame
<1> QED
  BY <1>3, <1>4, <1>5 DEF BeginExchange

LEMMA RefreshCounts ==
    ASSUME IInv, Counted, NEW t \in Thread, NEW k \in Token, NEW client \in Client,
           BeginRefresh(t, k, client)
    PROVE  Counted'
<1>1. /\ k \in DOMAIN issued /\ Presented(k)
      /\ UNCHANGED <<sessions, codes, tokens>>
  BY DEF BeginRefresh
<1>2. /\ DOMAIN issued' = DOMAIN issued
      /\ \A x \in DOMAIN issued : /\ issued'[x].session = issued[x].session
                                  /\ issued[x].uses > 0 => issued'[x].uses > 0
                                  /\ issued[x].uses = 2 => issued'[x].uses = 2
      /\ issued'[k].uses > 0
      /\ issued[k].uses > 0 => issued'[k].uses = 2
  BY <1>1, PresentedCounts
<1>3. CASE TokenReused(k) /\ req' = [req EXCEPT ![t] = Trade(k, tokens[k], "revoke_session")]
  <2>1. /\ req'[t].pc = "revoke_session" /\ req'[t].session = tokens[k].session
        /\ \A u \in Thread : u # t => req'[u] = req[u]
    BY <1>3 DEF Trade, IInv, TypeOK
  <2>2. k \in DOMAIN tokens /\ issued[k].uses > 0 /\ issued[k].session = tokens[k].session
    BY <1>3 DEF TokenReused, Counted, UsesCounted, IInv, HistoryMatches
  <2>3. Twice(req[t].session)'
    BY <1>1, <1>2, <2>1, <2>2 DEF Twice
  <2> QED
    BY <1>1, <1>2, <2>1, <2>3, CountFrame
<1>4. CASE req' = [req EXCEPT ![t] = Trade(k, tokens[k], "check_session")]
  <2>1. /\ req'[t].pc = "check_session" /\ req'[t].cred = k
        /\ \A u \in Thread : u # t => req'[u] = req[u]
    BY <1>4 DEF Trade, IInv, TypeOK
  <2> QED
    BY <1>1, <1>2, <2>1, CountFrame
<1>5. CASE UNCHANGED req
  BY <1>1, <1>2, <1>5, CountFrame
<1> QED
  BY <1>3, <1>4, <1>5 DEF BeginRefresh

-----------------------------------------------------------------------------
(* The compare-and-set: the winner spends a code that was presented, and   *)
(* whoever else still holds it makes the second presentation.              *)
LEMMA MarkCounts ==
    ASSUME IInv, CallsFollowOpening, Counted, NEW t \in Thread, MarkCodeUsed(t)
    PROVE  Counted'
<1> DEFINE c == req[t].cred
           s == req[t].session
<1>1. /\ req[t].pc = "mark_code_used" /\ UNCHANGED <<sessions, tokens, issued>>
      /\ req[t] \in Trading
  BY Shapes DEF MarkCodeUsed, Trades
<1>2. /\ c \in DOMAIN codes /\ c \in DOMAIN issued
      /\ issued[c].session = s /\ issued[c].uses > 0
  BY <1>1 DEF CallsFollowOpening, IInv, HistoryMatches, Busy, Trades, Counted, UsesCounted
<1>3. CASE ~codes[c].used /\ codes' = [codes EXCEPT ![c].used = TRUE] /\ Goto(t, "issue")
  <2>1. req'[t].pc = "issue" /\ \A u \in Thread : u # t => req'[u] = req[u]
    BY <1>3, <1>1 DEF Goto, IInv, TypeOK, Trading
  <2>2. DOMAIN codes' = DOMAIN codes /\ \A x \in DOMAIN codes : x # c => codes'[x] = codes[x]
    BY <1>3
  <2>3. \A x \in DOMAIN codes' : codes'[x].used => issued'[x].uses > 0
    BY <1>1, <1>2, <2>2 DEF Counted, UsesCounted
  <2>4. ASSUME NEW u \in Thread, Busy(u, {"mark_code_used"})', CodeReused(req[u].cred)'
        PROVE  issued'[req'[u].cred].uses = 2
    <3>1. u # t /\ req'[u] = req[u] /\ req[u].pc = "mark_code_used"
      BY <2>1, <2>4 DEF Busy
    <3>2. CASE req[u].cred = c
      BY <1>1, <3>1, <3>2 DEF Counted, UsesCounted, Busy
    <3>3. CASE req[u].cred # c
      <4>1. CodeReused(req[u].cred)
        BY <2>2, <2>4, <3>1, <3>3 DEF CodeReused
      <4> QED
        BY <1>1, <3>1, <4>1 DEF Counted, UsesCounted, Busy
    <3> QED
      BY <3>2, <3>3
  <2>5. UsesCounted'
    <3>1. \A k \in DOMAIN tokens' : tokens'[k].revoked => issued'[k].uses > 0
      BY <1>1 DEF Counted, UsesCounted
    <3>2. ASSUME NEW u \in Thread
          PROVE  /\ Busy(u, {"mark_code_used", "check_session", "rotate"})' =>
                      issued'[req'[u].cred].uses > 0
                 /\ Busy(u, {"revoke_session"})' => Twice(req[u].session)'
      BY <1>1, <2>1 DEF Counted, UsesCounted, Busy, Twice
    <3>3. ASSUME NEW u \in Thread, NEW v \in Thread, u # v,
                 req'[u].pc = "mark_code_used", req'[v].pc = "mark_code_used",
                 req'[u].cred = req'[v].cred
          PROVE  issued'[req'[u].cred].uses = 2
      BY <1>1, <2>1, <3>3 DEF Counted, UsesCounted, Busy
    <3> QED
      BY <2>3, <2>4, <3>1, <3>2, <3>3 DEF UsesCounted, Busy
  <2>6. OnlyReuseRevokes'
    BY <1>1 DEF Counted, OnlyReuseRevokes
  <2> QED
    BY <2>5, <2>6 DEF Counted
<1>4. CASE codes[c].used /\ UNCHANGED codes /\ Goto(t, "revoke_session")
  <2>1. /\ req'[t].pc = "revoke_session" /\ req'[t].session = s
        /\ \A u \in Thread : u # t => req'[u] = req[u]
    BY <1>4, <1>1 DEF Goto, IInv, TypeOK, Trading
  <2>2. issued[c].uses = 2
    BY <1>1, <1>2, <1>4 DEF CodeReused, Counted, UsesCounted, Busy
  <2>3. Twice(req[t].session)'
    BY <1>1, <1>2, <2>1, <2>2 DEF Twice
  <2> QED
    BY <1>1, <1>4, <2>1, <2>3, CountFrame
<1> QED
  BY <1>2, <1>3, <1>4 DEF MarkCodeUsed

LEMMA RotateCounts ==
    ASSUME IInv, Counted, NEW t \in Thread, RevokeOldToken(t)
    PROVE  Counted'
<1>1. /\ req[t].pc = "rotate" /\ UNCHANGED <<sessions, codes, issued>>
      /\ req[t] \in Trading
  BY Shapes DEF RevokeOldToken, Trades
<1>2. req'[t].pc = "issue" /\ \A u \in Thread : u # t => req'[u] = req[u]
  BY <1>1 DEF RevokeOldToken, Goto, IInv, TypeOK, Trading
<1>3. req[t].cred \in DOMAIN issued /\ issued[req[t].cred].uses > 0
  BY <1>1 DEF Counted, UsesCounted, Busy, IInv, HistoryMatches, Trades
<1>4. \A k \in DOMAIN tokens' : tokens'[k].revoked =>
        \/ k \in DOMAIN tokens /\ tokens[k].revoked
        \/ k \in DOMAIN issued /\ issued[k].uses > 0
  BY <1>3 DEF RevokeOldToken
<1>5. \A u \in Thread : req'[u] = req[u] \/ req'[u].pc \in Plain
  BY <1>2 DEF Plain
<1> QED
  BY <1>1, <1>4, <1>5, CountFrame

LEMMA RevokeCounts ==
    ASSUME IInv, Counted, NEW t \in Thread, RevokeSession(t)
    PROVE  Counted'
<1>1. /\ req[t].pc = "revoke_session" /\ UNCHANGED <<codes, tokens, issued>>
      /\ req'[t].pc = "idle" /\ \A u \in Thread : u # t => req'[u] = req[u]
  BY DEF RevokeSession, Reply, Idle, IInv, TypeOK
<1>2. Twice(req[t].session)
  BY <1>1 DEF Counted, UsesCounted, Busy
<1>3. \A x \in DOMAIN sessions' : sessions'[x].revoked =>
        (x \in DOMAIN sessions /\ sessions[x].revoked) \/ Twice(x)
  BY <1>2 DEF RevokeSession
<1>4. \A u \in Thread : req'[u] = req[u] \/ req'[u].pc \in Plain
  BY <1>1 DEF Plain
<1> QED
  BY <1>1, <1>3, <1>4, CountFrame

LEMMA OnwardCounts ==
    ASSUME IInv, Counted, NEW t \in Thread,
           CheckSession(t) \/ LoadSession(t) \/ ToolCall(t)
    PROVE  Counted'
<1>1. /\ UNCHANGED <<sessions, codes, tokens, issued>>
      /\ req[t].pc \in {"check_session", "load_session", "authorized"}
  BY DEF CheckSession, LoadSession, ToolCall
<1>2. req[t].pc = "check_session" => req[t] \in Trading
  BY Shapes DEF Trades
<1>3. req[t].pc = "load_session" => req[t] \in Calling
  BY Shapes
<1>4. \/ req'[t].pc \in Plain
      \/ /\ req[t].pc = "check_session" /\ req'[t].pc = "rotate"
         /\ req'[t].cred = req[t].cred
  BY <1>1, <1>2, <1>3
     DEF CheckSession, LoadSession, ToolCall, Goto, Reply, Idle, IInv, TypeOK,
         Trading, Calling, Plain
<1>5. \A u \in Thread : u # t => req'[u] = req[u]
  BY DEF CheckSession, LoadSession, ToolCall, Goto, Reply, IInv, TypeOK
<1> QED
  BY <1>1, <1>4, <1>5, PlainStep

-----------------------------------------------------------------------------
LEMMA ServeCounts ==
    ASSUME IInv, CallsFollowOpening, Counted, [Serve \/ Crash]_vars
    PROVE  Counted'
<1>1. ASSUME NEW t \in Thread, Arrive(t)
      PROVE  Counted'
  BY <1>1, ArrivalCounts, ExchangeCounts, RefreshCounts DEF Arrive
<1>2. ASSUME NEW t \in Thread, Continue(t)
      PROVE  Counted'
  BY <1>2, SaveSessionCounts, SaveCodeCounts, MarkCounts, IssueCounts, RevokeCounts,
     RotateCounts, OnwardCounts DEF Continue
<1>3. CASE Tick \/ UNCHANGED vars
  BY <1>3, PlainStep DEF Tick, vars
<1>4. CASE Crash
  <2>1. \A u \in Thread : req'[u].pc \in Plain
    BY <1>4 DEF Crash, Idle, Plain
  <2> QED
    BY <1>4, <2>1, PlainStep DEF Crash
<1> QED
  BY <1>1, <1>2, <1>3, <1>4 DEF Serve

(* On the deployed server a session is revoked only after one of its       *)
(* credentials was presented twice: no refusal on another ground, no race  *)
(* and no crash ever costs a user the session.                             *)
THEOREM ReuseOnly == ServeSpec => []OnlyReuseRevokes
<1>1. Init => Counted
  BY DEF Init, Idle, Counted, UsesCounted, OnlyReuseRevokes, Busy
<1>2. Init => IInv /\ CallsFollowOpening
  BY InitIInv, InitMaps
<1>3. /\ IInv /\ CallsFollowOpening /\ Counted /\ [Serve \/ Crash]_vars
      => IInv' /\ CallsFollowOpening' /\ Counted'
  BY NextIInv, ServeMaps, ServeCounts DEF Next
<1>4. Counted => OnlyReuseRevokes
  BY DEF Counted
<1> QED
  BY <1>1, <1>2, <1>3, <1>4, PTL DEF ServeSpec
=============================================================================
