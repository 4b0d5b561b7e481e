---------------------------- MODULE OAuthGrants ----------------------------
(***************************************************************************)
(* The life of an authorization grant: the credential session saved by an *)
(* authorize request, the one-time authorization code bound to it, the    *)
(* rotating refresh tokens and the bearer tokens derived from it           *)
(* (oauth.py: OAuthStore and OAuthService).                                *)
(*                                                                         *)
(* The HTTP server runs one thread per request.  A store method takes the *)
(* store lock and commits before it returns, so each method is one atomic *)
(* step; a handler that calls several methods is several steps, and other *)
(* handlers run in between.  What a handler has read is kept in req[t].    *)
(* A crash loses every req[t] and no committed row.                        *)
(***************************************************************************)
EXTENDS Naturals

CONSTANTS
    Thread,       \* request-handling threads
    Client,       \* registered OAuth clients (rows of oauth_clients)
    Verifier,     \* a redirect URI together with a PKCE verifier
    Scope,        \* config.oauth.required_scopes
    Required,     \* the scope sets TOOL_SCOPES asks: {} of an unknown tool
    Grant,        \* what users consent to: [subject, scopes] records
    Session,      \* session ids, codes and refresh tokens the service can
    Code,         \*   draw; secrets.token_urlsafe never repeats a draw
    Token,
    CodeTTL, AccessTTL, RefreshTTL,
    MaxTime,      \* bound: the clock stops here
    Root          \* the parent of a code: no credential was traded for it

Credential == Code \cup Token

(* The configuration loader refuses a TTL that is not positive.            *)
ASSUME TTLAssumption ==
    /\ CodeTTL \in Nat \ {0}
    /\ AccessTTL \in Nat \ {0}
    /\ RefreshTTL \in Nat \ {0}
    /\ MaxTime \in Nat

ASSUME IdAssumption ==
    /\ Code \cap Token = {}
    /\ Root \notin Credential

VARIABLES
    now,          \* int(time.time())
    sessions,     \* credential_sessions, keyed by session_id
    codes,        \* authorization_codes, keyed by code
    tokens,       \* refresh_tokens, keyed by token hash
    access,       \* bearer tokens signed so far (held by clients only)
    req,          \* the request each thread is serving
    issued        \* history: every code and refresh token ever saved

vars == <<now, sessions, codes, tokens, access, req, issued>>

-----------------------------------------------------------------------------
(* Tables are functions whose domain is the set of primary keys present.   *)

Put(table, key, row) ==
    [k \in DOMAIN table \cup {key} |-> IF k = key THEN row ELSE table[k]]

SessionRow == [grant: Grant, revoked: BOOLEAN]

CodeRow == [client: Client, verifier: Verifier, grant: Grant,
            session: Session, exp: Nat, used: BOOLEAN]

TokenRow == [client: Client, grant: Grant, session: Session,
             exp: Nat, revoked: BOOLEAN]

Bearer == [session: Session, grant: Grant, exp: Nat]

(* uses counts presentations of the credential; 2 stands for two or more.  *)
IssuedRow == [session: Session, parent: Credential \cup {Root}, uses: 0..2]

(* What a handler holds between two store calls.  stale is a history       *)
(* field: the credential was already dead when the request arrived (Dead   *)
(* and DeadBearer below, which no guard of a handler reads).               *)
Saving == [pc: {"save_session"}, client: Client, verifier: Verifier, grant: Grant]

Coding == [pc: {"save_code"}, client: Client, verifier: Verifier, grant: Grant,
           session: Session]

Trading == [pc: {"mark_code_used", "check_session", "rotate", "issue",
                 "revoke_session"},
            cred: Credential, client: Client, grant: Grant, session: Session,
            stale: BOOLEAN]

Calling == [pc: {"load_session", "authorized"}, required: Required,
            grant: Grant, session: Session, stale: BOOLEAN]

Idle == [pc |-> "idle"]

Requests == Saving \cup Coding \cup Trading \cup Calling \cup {Idle}

Revoked(s) == s \in DOMAIN sessions /\ sessions[s].revoked

Goto(t, label) == req' = [req EXCEPT ![t].pc = label]

Reply(t) == req' = [req EXCEPT ![t] = Idle]

Presented(k) ==
    issued' = [issued EXCEPT ![k].uses = IF @ = 2 THEN 2 ELSE @ + 1]

-----------------------------------------------------------------------------
Init ==
    /\ now = 0
    /\ sessions = << >>
    /\ codes = << >>
    /\ tokens = << >>
    /\ access = {}
    /\ req = [t \in Thread |-> Idle]
    /\ issued = << >>

(* authorize_with_credentials, once the query is valid, the client and its *)
(* redirect URI are registered and the mail server took the password.  An  *)
(* authorize request that is refused changes nothing.                      *)
BeginAuthorize(t, client, verifier, grant) ==
    /\ req[t].pc = "idle"
    /\ grant.scopes # {}
    /\ grant.scopes \subseteq Scope
    /\ req' = [req EXCEPT ![t] = [pc |-> "save_session", client |-> client,
                                  verifier |-> verifier, grant |-> grant]]
    /\ UNCHANGED <<now, sessions, codes, tokens, access, issued>>

SaveSession(t) ==
    /\ req[t].pc = "save_session"
    /\ \E s \in Session \ DOMAIN sessions :
         /\ sessions' = Put(sessions, s, [grant |-> req[t].grant, revoked |-> FALSE])
         /\ req' = [req EXCEPT ![t] = [pc |-> "save_code", client |-> req[t].client,
                                       verifier |-> req[t].verifier,
                                       grant |-> req[t].grant, session |-> s]]
    /\ UNCHANGED <<now, codes, tokens, access, issued>>

SaveCode(t) ==
    /\ req[t].pc = "save_code"
    /\ \E c \in Code \ DOMAIN issued :
         /\ codes' = Put(codes, c, [client |-> req[t].client,
                                    verifier |-> req[t].verifier,
                                    grant |-> req[t].grant,
                                    session |-> req[t].session,
                                    exp |-> now + CodeTTL,
                                    used |-> FALSE])
         /\ issued' = Put(issued, c, [session |-> req[t].session,
                                      parent |-> Root, uses |-> 0])
    /\ Reply(t)
    /\ UNCHANGED <<now, sessions, tokens, access>>

-----------------------------------------------------------------------------
(* History: k is no longer worth anything.  It was traded for another      *)
(* credential, its row is gone, marked or expired, or its session revoked. *)
Dead(k) ==
    \/ \E x \in DOMAIN issued : issued[x].parent = k
    \/ k \notin DOMAIN codes \cup DOMAIN tokens
    \/ k \in DOMAIN codes /\ (codes[k].used \/ codes[k].exp <= now)
    \/ k \in DOMAIN tokens /\ (tokens[k].revoked \/ tokens[k].exp <= now)
    \/ Revoked(issued[k].session)

Trade(k, row, label) ==
    [pc |-> label, cred |-> k, client |-> row.client, grant |-> row.grant,
     session |-> row.session, stale |-> Dead(k)]

CodeReused(c) == c \in DOMAIN codes /\ codes[c].used

(* Mutant of CodeAccepted: the code is good for the second it expires in.  *)
CodeAccepted_LastSecond(c, client, verifier) ==
    /\ c \in DOMAIN codes
    /\ ~codes[c].used
    /\ now <= codes[c].exp
    /\ client = codes[c].client
    /\ verifier = codes[c].verifier

CodeAccepted(c, client, verifier) ==
    /\ c \in DOMAIN codes
    /\ ~codes[c].used
    /\ now < codes[c].exp
    /\ client = codes[c].client
    /\ verifier = codes[c].verifier

(* exchange_code up to its first store write: get_code and the checks.  A  *)
(* code that is unknown, expired, or presented with another client,        *)
(* redirect URI or verifier is refused.                                    *)
BeginExchange(t, c, client, verifier) ==
    /\ req[t].pc = "idle"
    /\ c \in DOMAIN issued
    /\ Presented(c)
    /\ \/ /\ CodeReused(c)
          /\ req' = [req EXCEPT ![t] = Trade(c, codes[c], "revoke_session")]
       \/ /\ CodeAccepted(c, client, verifier)
          /\ req' = [req EXCEPT ![t] = Trade(c, codes[c], "mark_code_used")]
       \/ ~CodeReused(c) /\ ~CodeAccepted(c, client, verifier) /\ UNCHANGED req
    /\ UNCHANGED <<now, sessions, codes, tokens, access>>

(* Mutants of MarkCodeUsed: an UPDATE without "AND used = 0"; one that      *)
(* never sets the column; a lost race refused but not treated as reuse.    *)
MarkCodeUsed_NoCompare(t) ==
    LET c == req[t].cred IN
    /\ req[t].pc = "mark_code_used"
    /\ c \in DOMAIN codes
    /\ codes' = [codes EXCEPT ![c].used = TRUE]
    /\ Goto(t, "issue")
    /\ UNCHANGED <<now, sessions, tokens, access, issued>>

MarkCodeUsed_NoSet(t) ==
    /\ req[t].pc = "mark_code_used"
    /\ Goto(t, "issue")
    /\ UNCHANGED <<now, sessions, codes, tokens, access, issued>>

MarkCodeUsed_RefuseOnly(t) ==
    LET c == req[t].cred IN
    /\ req[t].pc = "mark_code_used"
    /\ IF c \in DOMAIN codes /\ ~codes[c].used
       THEN codes' = [codes EXCEPT ![c].used = TRUE] /\ Goto(t, "issue")
       ELSE UNCHANGED codes /\ Reply(t)
    /\ UNCHANGED <<now, sessions, tokens, access, issued>>

(* UPDATE ... WHERE code = ? AND used = 0, and the test of its rowcount.   *)
MarkCodeUsed(t) ==
    LET c == req[t].cred IN
    /\ req[t].pc = "mark_code_used"
    /\ \/ /\ c \in DOMAIN codes
          /\ ~codes[c].used
          /\ codes' = [codes EXCEPT ![c].used = TRUE]
          /\ Goto(t, "issue")
       \/ /\ c \in DOMAIN codes => codes[c].used
          /\ UNCHANGED codes
          /\ Goto(t, "revoke_session")
    /\ UNCHANGED <<now, sessions, tokens, access, issued>>

(* Mutant of IssueTokens: the scopes signed are not those of the grant.    *)
IssueTokens_OwnGrant(t) ==
    LET r == req[t] IN
    /\ r.pc = "issue"
    /\ \E k \in Token \ DOMAIN issued, g \in Grant :
         /\ tokens' = Put(tokens, k, [client |-> r.client, grant |-> g,
                                      session |-> r.session,
                                      exp |-> now + RefreshTTL,
                                      revoked |-> FALSE])
         /\ issued' = Put(issued, k, [session |-> r.session, parent |-> r.cred,
                                      uses |-> 0])
         /\ access' = access \cup {[session |-> r.session, grant |-> g,
                                    exp |-> now + AccessTTL]}
    /\ Reply(t)
    /\ UNCHANGED <<now, sessions, codes>>

(* Both exchanges end the same way: sign a bearer token, save a refresh    *)
(* token.  Signing changes nothing on the server, so the two are one step. *)
IssueTokens(t) ==
    LET r == req[t] IN
    /\ r.pc = "issue"
    /\ \E k \in Token \ DOMAIN issued :
         /\ tokens' = Put(tokens, k, [client |-> r.client, grant |-> r.grant,
                                      session |-> r.session,
                                      exp |-> now + RefreshTTL,
                                      revoked |-> FALSE])
         /\ issued' = Put(issued, k, [session |-> r.session, parent |-> r.cred,
                                      uses |-> 0])
    /\ access' = access \cup {[session |-> r.session, grant |-> r.grant,
                               exp |-> now + AccessTTL]}
    /\ Reply(t)
    /\ UNCHANGED <<now, sessions, codes>>

(* Mutant of RevokeSession: INSERT OR REPLACE of the two columns at hand.  *)
RevokeSession_Replace(t) ==
    /\ req[t].pc = "revoke_session"
    /\ sessions' = Put(sessions, req[t].session, [revoked |-> TRUE])
    /\ Reply(t)
    /\ UNCHANGED <<now, codes, tokens, access, issued>>

(* UPDATE credential_sessions SET revoked = 1: no row, no change.          *)
RevokeSession(t) ==
    LET s == req[t].session IN
    /\ req[t].pc = "revoke_session"
    /\ sessions' = [k \in DOMAIN sessions |->
                        IF k = s THEN [sessions[k] EXCEPT !.revoked = TRUE]
                                 ELSE sessions[k]]
    /\ Reply(t)
    /\ UNCHANGED <<now, codes, tokens, access, issued>>

-----------------------------------------------------------------------------
(* Mutant of TokenReused: a late refresh is taken for reuse.               *)
TokenReused_OrExpired(k) ==
    k \in DOMAIN tokens /\ (tokens[k].revoked \/ tokens[k].exp <= now)

TokenReused(k) == k \in DOMAIN tokens /\ tokens[k].revoked

TokenAccepted(k, client) ==
    /\ k \in DOMAIN tokens
    /\ ~tokens[k].revoked
    /\ now < tokens[k].exp
    /\ client = tokens[k].client

(* exchange_refresh_token up to get_session.                               *)
BeginRefresh(t, k, client) ==
    /\ req[t].pc = "idle"
    /\ k \in DOMAIN issued
    /\ Presented(k)
    /\ \/ /\ TokenReused(k)
          /\ req' = [req EXCEPT ![t] = Trade(k, tokens[k], "revoke_session")]
       \/ /\ TokenAccepted(k, client)
          /\ req' = [req EXCEPT ![t] = Trade(k, tokens[k], "check_session")]
       \/ ~TokenReused(k) /\ ~TokenAccepted(k, client) /\ UNCHANGED req
    /\ UNCHANGED <<now, sessions, codes, tokens, access>>

CheckSession(t) ==
    LET s == req[t].session IN
    /\ req[t].pc = "check_session"
    /\ \/ s \in DOMAIN sessions /\ ~sessions[s].revoked /\ Goto(t, "rotate")
       \/ (s \notin DOMAIN sessions \/ Revoked(s)) /\ Reply(t)
    /\ UNCHANGED <<now, sessions, codes, tokens, access, issued>>

(* revoke_refresh_token: unconditional, and nobody looks at its rowcount.  *)
RevokeOldToken(t) ==
    /\ req[t].pc = "rotate"
    /\ tokens' = [k \in DOMAIN tokens |->
                      IF k = req[t].cred THEN [tokens[k] EXCEPT !.revoked = TRUE]
                                         ELSE tokens[k]]
    /\ Goto(t, "issue")
    /\ UNCHANGED <<now, sessions, codes, access, issued>>

-----------------------------------------------------------------------------
(* History: the bearer token has expired, or its session is revoked.       *)
DeadBearer(a) == a.exp <= now \/ Revoked(a.session)

(* Mutant of BeginBearer: "missing" scopes are not refused.                *)
BeginBearer_NoScopes(t, a, required) ==
    /\ req[t].pc = "idle"
    /\ a \in access
    /\ now < a.exp
    /\ req' = [req EXCEPT ![t] = [pc |-> "load_session", required |-> required,
                                  grant |-> a.grant, session |-> a.session,
                                  stale |-> DeadBearer(a)]]
    /\ UNCHANGED <<now, sessions, codes, tokens, access, issued>>

(* TokenSigner.verify: a signed, unexpired token with the tool's scopes.   *)
BeginBearer(t, a, required) ==
    /\ req[t].pc = "idle"
    /\ a \in access
    /\ now < a.exp
    /\ required \subseteq a.grant.scopes
    /\ req' = [req EXCEPT ![t] = [pc |-> "load_session", required |-> required,
                                  grant |-> a.grant, session |-> a.session,
                                  stale |-> DeadBearer(a)]]
    /\ UNCHANGED <<now, sessions, codes, tokens, access, issued>>

(* Mutant of LoadSession: "session is None" is tested, revoked is not.     *)
LoadSession_ExistsOnly(t) ==
    LET s == req[t].session
        live == /\ s \in DOMAIN sessions
                /\ req[t].grant.subject = sessions[s].grant.subject
    IN  /\ req[t].pc = "load_session"
        /\ \/ live /\ Goto(t, "authorized")
           \/ ~live /\ Reply(t)
        /\ UNCHANGED <<now, sessions, codes, tokens, access, issued>>

(* authenticate_bearer after verify: the session row is read once, and the *)
(* tool runs with its credentials however long the call takes.             *)
LoadSession(t) ==
    LET s == req[t].session
        live == /\ s \in DOMAIN sessions
                /\ ~sessions[s].revoked
                /\ req[t].grant.subject = sessions[s].grant.subject
    IN  /\ req[t].pc = "load_session"
        /\ \/ live /\ Goto(t, "authorized")
           \/ ~live /\ Reply(t)
        /\ UNCHANGED <<now, sessions, codes, tokens, access, issued>>

ToolCall(t) ==
    /\ req[t].pc = "authorized"
    /\ Reply(t)
    /\ UNCHANGED <<now, sessions, codes, tokens, access, issued>>

-----------------------------------------------------------------------------
CleanupExpired ==
    /\ codes' = [c \in {x \in DOMAIN codes : codes[x].exp > now} |-> codes[c]]
    /\ tokens' = [k \in {x \in DOMAIN tokens : tokens[x].exp > now} |-> tokens[k]]
    /\ UNCHANGED <<now, sessions, access, req, issued>>

Tick ==
    /\ now < MaxTime
    /\ now' = now + 1
    /\ UNCHANGED <<sessions, codes, tokens, access, req, issued>>

(* The process dies and restarts: SQLite keeps every committed row.        *)
Crash ==
    /\ req' = [t \in Thread |-> Idle]
    /\ UNCHANGED <<now, sessions, codes, tokens, access, issued>>

(* The steps that continue a request already begun.                        *)
Continue(t) ==
    \/ SaveSession(t) \/ SaveCode(t)
    \/ MarkCodeUsed(t) \/ IssueTokens(t) \/ RevokeSession(t)
    \/ CheckSession(t) \/ RevokeOldToken(t)
    \/ LoadSession(t) \/ ToolCall(t)

Arrive(t) ==
    \/ \E client \in Client, verifier \in Verifier, grant \in Grant :
         BeginAuthorize(t, client, verifier, grant)
    \/ \E c \in Code, client \in Client, verifier \in Verifier :
         BeginExchange(t, c, client, verifier)
    \/ \E k \in Token, client \in Client : BeginRefresh(t, k, client)
    \/ \E a \in access, required \in Required : BeginBearer(t, a, required)

Serve == (\E t \in Thread : Arrive(t) \/ Continue(t)) \/ Tick

Next == Serve \/ CleanupExpired \/ Crash

Spec == Init /\ [][Next]_vars

(* The deployed server: cleanup_expired has no caller outside the tests.   *)
(* Threads are scheduled fairly, so a request that can go on does go on.   *)
ServeSpec == Init /\ [][Serve \/ Crash]_vars

FairSpec == Init /\ [][Serve]_vars /\ \A t \in Thread : WF_vars(Continue(t))

-----------------------------------------------------------------------------
(* Every table row, every history entry and every request is well formed:  *)
(* what sqlite's columns and the dataclasses of oauth.py declare.          *)
TypeOK ==
    /\ now \in Nat
    /\ DOMAIN sessions \subseteq Session
    /\ sessions \in [DOMAIN sessions -> SessionRow]
    /\ DOMAIN codes \subseteq Code
    /\ codes \in [DOMAIN codes -> CodeRow]
    /\ DOMAIN tokens \subseteq Token
    /\ tokens \in [DOMAIN tokens -> TokenRow]
    /\ access \subseteq Bearer
    /\ DOMAIN issued \subseteq Credential
    /\ issued \in [DOMAIN issued -> IssuedRow]
    /\ req \in [Thread -> Requests]

(* The tables have no foreign keys: that a code, a refresh token and a     *)
(* bearer token always name a stored session, with what its user consented *)
(* to, rests on the order of the two saves in authorize_with_credentials   *)
(* and on every issuing path copying the grant it was given.               *)
GrantsMatchSession ==
    /\ \A c \in DOMAIN codes :
         /\ codes[c].session \in DOMAIN sessions
         /\ codes[c].grant = sessions[codes[c].session].grant
    /\ \A k \in DOMAIN tokens :
         /\ tokens[k].session \in DOMAIN sessions
         /\ tokens[k].grant = sessions[tokens[k].session].grant
    /\ \A a \in access :
         /\ a.session \in DOMAIN sessions
         /\ a.grant = sessions[a.session].grant

(* authenticate_bearer compares the subject of the token with the session, *)
(* never its scopes; all the same a tool only runs with scopes that the    *)
(* user of the session it runs for consented to.                           *)
ToolsWithinConsent ==
    \A t \in Thread : req[t].pc = "authorized" =>
        /\ req[t].session \in DOMAIN sessions
        /\ req[t].required \subseteq sessions[req[t].session].grant.scopes

(* exchange_code reads the code in one store call and spends it in another;*)
(* however many requests race between the two, at most one is given tokens.*)
CodeSpentOnce ==
    \A x, y \in DOMAIN issued :
        issued[x].parent \in Code /\ issued[x].parent = issued[y].parent => x = y

(* exchange_code, unlike exchange_refresh_token, never looks at the        *)
(* session: it may trade a code only because an unspent code's session     *)
(* cannot have been revoked.                                               *)
UnspentCodeHasLiveSession ==
    \A c \in DOMAIN codes : ~codes[c].used => ~Revoked(codes[c].session)

(* A request that arrives with a dead credential (traded, marked, expired, *)
(* cleaned up, or of a revoked session: Dead, DeadBearer) is never on its  *)
(* way to a token or a tool, whatever the other threads do while it runs.  *)
LateRequestsRefused ==
    \A t \in Thread :
        req[t].pc \in {"mark_code_used", "rotate", "issue", "authorized"} =>
            ~req[t].stale

(* A session dies only of reuse: one of its credentials was presented      *)
(* twice.  A wrong client, a wrong verifier, an expired code or a crash    *)
(* never costs the user the session.  (Of the deployed server: see         *)
(* ServeSpec.)                                                             *)
OnlyReuseRevokes ==
    \A s \in DOMAIN sessions : sessions[s].revoked =>
        \E k \in DOMAIN issued : issued[k].session = s /\ issued[k].uses = 2

(* A refresh token is traded at most once, as the second presentation in   *)
(* test_refresh_token_rotation_and_storage_redaction is answered.          *)
RefreshTokenSpentOnce ==
    \A x, y \in DOMAIN issued :
        issued[x].parent \in Token /\ issued[x].parent = issued[y].parent => x = y

(* A code that one request spent while another was about to spend it is    *)
(* reuse like any other: the session ends up revoked.                      *)
RacingReuseRevokes ==
    \A t \in Thread, s \in Session :
        (/\ req[t].pc = "mark_code_used"
         /\ req[t].session = s
         /\ req[t].cred \in DOMAIN codes
         /\ codes[req[t].cred].used) ~> Revoked(s)

-----------------------------------------------------------------------------
(* Why the safety properties hold: the parts of an inductive invariant.    *)
(* They say nothing a client can observe; OAuthGrantsProofs uses them.     *)

Busy(t, labels) == req[t].pc \in labels

Held == {"save_code", "mark_code_used", "check_session", "rotate", "issue",
         "revoke_session", "load_session", "authorized"}

Trades == {"mark_code_used", "check_session", "rotate", "issue", "revoke_session"}

(* A thread holds a stored session, with the grant of that session.        *)
RequestsMatchSession ==
    /\ \A t \in Thread : Busy(t, Held) =>
         /\ req[t].session \in DOMAIN sessions
         /\ req[t].grant = sessions[req[t].session].grant
    /\ \A t \in Thread : Busy(t, {"load_session", "authorized"}) =>
         req[t].required \subseteq req[t].grant.scopes

(* The history agrees with the tables and with what threads hold.          *)
HistoryMatches ==
    /\ \A c \in DOMAIN codes :
         c \in DOMAIN issued /\ issued[c].session = codes[c].session
    /\ \A k \in DOMAIN tokens :
         k \in DOMAIN issued /\ issued[k].session = tokens[k].session
    /\ \A k \in DOMAIN issued :
         /\ issued[k].session \in DOMAIN sessions
         /\ issued[k].parent \in DOMAIN issued \cup {Root}
    /\ \A t \in Thread : Busy(t, Trades) =>
         /\ req[t].cred \in DOMAIN issued
         /\ issued[req[t].cred].session = req[t].session
    /\ \A t \in Thread :
         /\ Busy(t, {"mark_code_used"}) => req[t].cred \in Code
         /\ Busy(t, {"check_session", "rotate"}) => req[t].cred \in Token

(* A session has one code ever, and a session about to be given its code   *)
(* has no credential yet and is held by one thread.                        *)
OneCodePerSession ==
    /\ \A x, y \in DOMAIN issued \cap Code :
         issued[x].session = issued[y].session => x = y
    /\ \A t \in Thread : Busy(t, {"save_code"}) =>
         /\ ~Revoked(req[t].session)
         /\ \A k \in DOMAIN issued : issued[k].session # req[t].session
    /\ \A t, u \in Thread :
         Busy(t, {"save_code"}) /\ Busy(u, {"save_code"})
           /\ req[t].session = req[u].session => t = u

Spent(s) == \A c \in DOMAIN codes : codes[c].session = s => codes[c].used

(* Whatever comes after the code of a session comes after its spending.    *)
CodeSpentFirst ==
    /\ \A s \in DOMAIN sessions : sessions[s].revoked => Spent(s)
    /\ \A k \in DOMAIN tokens : Spent(tokens[k].session)
    /\ \A t \in Thread :
         Busy(t, Trades \ {"mark_code_used"}) => Spent(req[t].session)

(* The one thread that may issue tokens for a code has not done so yet.    *)
OneIssuer ==
    /\ \A k \in DOMAIN issued :
         issued[k].parent \in DOMAIN codes => codes[issued[k].parent].used
    /\ \A t \in Thread : Busy(t, {"issue"}) /\ req[t].cred \in Code =>
         \A k \in DOMAIN issued : issued[k].parent # req[t].cred
    /\ \A t, u \in Thread :
         Busy(t, {"issue"}) /\ Busy(u, {"issue"}) /\ req[t].cred \in Code
           /\ req[t].cred = req[u].cred => t = u

(* A token is marked before anything is issued for it: what was traded for *)
(* another token, or is about to be, reads revoked.                        *)
RotatedFirst ==
    /\ \A k \in DOMAIN issued :
         issued[k].parent \in DOMAIN tokens => tokens[issued[k].parent].revoked
    /\ \A t \in Thread : Busy(t, {"issue"}) /\ req[t].cred \in DOMAIN tokens =>
         tokens[req[t].cred].revoked

(* A stale request still on its way has a revoked session before it.       *)
StaleMeetsRevoked ==
    \A t \in Thread :
        Busy(t, {"check_session", "load_session"}) /\ req[t].stale
          => Revoked(req[t].session)

(* Of the deployed server: what was spent was presented, what was met a    *)
(* second time was presented twice, and a race for a code takes two.       *)
Twice(s) == \E k \in DOMAIN issued : issued[k].session = s /\ issued[k].uses = 2

UsesCounted ==
    /\ \A c \in DOMAIN codes : codes[c].used => issued[c].uses > 0
    /\ \A k \in DOMAIN tokens : tokens[k].revoked => issued[k].uses > 0
    /\ \A t \in Thread :
         /\ Busy(t, {"mark_code_used", "check_session", "rotate"}) =>
              issued[req[t].cred].uses > 0
         /\ Busy(t, {"mark_code_used"}) /\ CodeReused(req[t].cred) =>
              issued[req[t].cred].uses = 2
         /\ Busy(t, {"revoke_session"}) => Twice(req[t].session)
    /\ \A t, u \in Thread :
         Busy(t, {"mark_code_used"}) /\ Busy(u, {"mark_code_used"})
           /\ req[t].cred = req[u].cred /\ t # u => issued[req[t].cred].uses = 2

IInv ==
    /\ TypeOK
    /\ GrantsMatchSession
    /\ RequestsMatchSession
    /\ HistoryMatches
    /\ OneCodePerSession
    /\ CodeSpentFirst
    /\ OneIssuer
    /\ CodeSpentOnce
    /\ RotatedFirst
    /\ StaleMeetsRevoked
    /\ LateRequestsRefused
=============================================================================
