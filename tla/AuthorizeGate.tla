---------------------------- MODULE AuthorizeGate ----------------------------
(***************************************************************************)
(* What stands before a password is tried: the single-use form tokens of  *)
(* the authorize page (server.py: AuthorizeCsrfStore), the attempt         *)
(* counters (OAuthRateLimiter) and the order in which an authorize POST    *)
(* passes them.                                                            *)
(*                                                                         *)
(* Both stores live in memory, each under a lock of its own.  consume and  *)
(* _check read the clock before they take the lock, so a request may act   *)
(* on a time between its previous step and now.                            *)
(***************************************************************************)
EXTENDS Naturals, FiniteSets

CONSTANTS
    Thread,          \* request-handling threads
    Address, User,   \* client addresses; IMAP usernames as check_authorize
                     \*   normalises them, "-" for a blank one included
    Client,          \* registered clients
    Query,           \* valid authorize queries
    ClientOf,        \* the client_id of each query
    Form,            \* csrf tokens; secrets.token_urlsafe never repeats one
    FormTTL,         \* authorization_code_ttl_seconds
    MaxForms,        \* authorize_csrf_max_tokens
    MaxBuckets,      \* rate_limit_max_buckets
    AuthorizeLimit, AuthorizeWindow,
    RegisterLimit, RegisterWindow,
    MaxTime          \* bound: the clock stops here

(* The configuration loader refuses a setting that is not positive.        *)
ASSUME SettingsAssumption ==
    /\ FormTTL \in Nat \ {0}
    /\ MaxForms \in Nat \ {0}
    /\ MaxBuckets \in Nat \ {0}
    /\ AuthorizeLimit \in Nat \ {0}
    /\ AuthorizeWindow \in Nat \ {0}
    /\ RegisterLimit \in Nat \ {0}
    /\ RegisterWindow \in Nat \ {0}
    /\ MaxTime \in Nat

ASSUME QueryAssumption == ClientOf \in [Query -> Client]

VARIABLES
    now,             \* time.monotonic()
    forms,           \* AuthorizeCsrfStore._tokens
    buckets,         \* OAuthRateLimiter._buckets
    req,             \* the request each thread is serving
    shown,           \* the forms browsers hold, with their signed cookies
    tried            \* history: the attempts on each username let through
                     \*   to the mail server since the last restart

vars == <<now, forms, buckets, req, shown, tried>>

-----------------------------------------------------------------------------
Key == ({"register", "address"} \X Address)
         \cup ({"client"} \X Client) \cup ({"user"} \X User)

Counting == {"register", "address", "client", "user"}

(* passed counts the POSTs a form let through; 2 stands for two or more.   *)
ShownRow == [query: Query, passed: 0..2]

(* prompt and late count the windows opened by attempts that read the      *)
(* clock at the time they were counted, or before it.                      *)
TriedRow == [count: Nat, prompt: Nat, late: Nat]

Untried == [count |-> 0, prompt |-> 0, late |-> 0]

Idle == [pc |-> "idle"]

(* since: the time of the request's previous step.  matches: the hidden    *)
(* field repeats the token of the cookie.                                  *)
Posting == [pc: {"consume", "address", "client", "user", "verify"},
            form: Form, query: Query, matches: BOOLEAN,
            address: Address, user: User, since: Nat]

Registering == [pc: {"register"}, address: Address, since: Nat]

Requests == Posting \cup Registering \cup {Idle}

Put(table, key, row) ==
    [k \in DOMAIN table \cup {key} |-> IF k = key THEN row ELSE table[k]]

Keep(table, keys) == [k \in keys |-> table[k]]

(* _sweep_expired: a form lives through its last tick, a bucket does not.  *)
SweptForms(at) == Keep(forms, {f \in DOMAIN forms : at <= forms[f].exp})

SweptBuckets(at) == Keep(buckets, {k \in DOMAIN buckets : at < buckets[k].reset})

(* What time.monotonic() may have returned before the lock was taken.      *)
ClockRead(t) == req[t].since..now

Goto(t, label) == req' = [req EXCEPT ![t].pc = label, ![t].since = now]

Reply(t) == req' = [req EXCEPT ![t] = Idle]

-----------------------------------------------------------------------------
Init ==
    /\ now = 0
    /\ forms = << >>
    /\ buckets = << >>
    /\ req = [t \in Thread |-> Idle]
    /\ shown = << >>
    /\ tried = [u \in User |-> Untried]

(* Mutant of IssueForm: the cap is compared with > instead of >=.          *)
IssueForm_Overfull(query, form) ==
    /\ form \notin DOMAIN shown
    /\ LET live == SweptForms(now) IN
         IF Cardinality(DOMAIN live) > MaxForms
         THEN /\ forms' = live
              /\ UNCHANGED shown
         ELSE /\ forms' = Put(live, form, [query |-> query, exp |-> now + FormTTL])
              /\ shown' = Put(shown, form, [query |-> query, passed |-> 0])
    /\ UNCHANGED <<now, buckets, req, tried>>

(* A GET of the authorize page: the token is stored, unless the store is   *)
(* full, and then sent to the browser.                                     *)
IssueForm(query, form) ==
    /\ form \notin DOMAIN shown
    /\ LET live == SweptForms(now) IN
         IF Cardinality(DOMAIN live) >= MaxForms
         THEN /\ forms' = live
              /\ UNCHANGED shown
         ELSE /\ forms' = Put(live, form, [query |-> query, exp |-> now + FormTTL])
              /\ shown' = Put(shown, form, [query |-> query, passed |-> 0])
    /\ UNCHANGED <<now, buckets, req, tried>>

(* An authorize POST whose cookie is signed for its query.                 *)
BeginPost(t, form, query, matches, address, user) ==
    /\ req[t].pc = "idle"
    /\ form \in DOMAIN shown
    /\ shown[form].query = query
    /\ req' = [req EXCEPT ![t] = [pc |-> "consume", form |-> form,
                                  query |-> query, matches |-> matches,
                                  address |-> address, user |-> user,
                                  since |-> now]]
    /\ UNCHANGED <<now, forms, buckets, shown, tried>>

BeginRegister(t, address) ==
    /\ req[t].pc = "idle"
    /\ req' = [req EXCEPT ![t] = [pc |-> "register", address |-> address,
                                  since |-> now]]
    /\ UNCHANGED <<now, forms, buckets, shown, tried>>

Passed(form) ==
    shown' = [shown EXCEPT ![form].passed = IF @ = 2 THEN 2 ELSE @ + 1]

(* Mutant of Consume: get instead of pop, so that a form can pay twice.    *)
Consume_NoPop(t) ==
    /\ req[t].pc = "consume"
    /\ \E at \in ClockRead(t) :
         LET live == SweptForms(at)
             form == req[t].form
         IN  /\ forms' = live
             /\ IF /\ form \in DOMAIN live
                   /\ live[form].query = req[t].query
                   /\ req[t].matches
                THEN Goto(t, "address") /\ Passed(form)
                ELSE Reply(t) /\ UNCHANGED shown
    /\ UNCHANGED <<now, buckets, tried>>

(* consume takes the token out of the store before anything is compared:   *)
(* a POST that is refused here has spent the form all the same.            *)
Consume(t) ==
    /\ req[t].pc = "consume"
    /\ \E at \in ClockRead(t) :
         LET live == SweptForms(at)
             form == req[t].form
         IN  /\ forms' = Keep(live, DOMAIN live \ {form})
             /\ IF /\ form \in DOMAIN live
                   /\ live[form].query = req[t].query
                   /\ req[t].matches
                THEN Goto(t, "address") /\ Passed(form)
                ELSE Reply(t) /\ UNCHANGED shown
    /\ UNCHANGED <<now, buckets, tried>>

-----------------------------------------------------------------------------
Limit(key) == IF key[1] = "register" THEN RegisterLimit ELSE AuthorizeLimit

Window(key) == IF key[1] = "register" THEN RegisterWindow ELSE AuthorizeWindow

(* Mutant of KeyOf: the username's bucket is keyed with the client.        *)
KeyOf_ClientTwice(r) ==
    CASE r.pc \in {"register", "address"} -> <<r.pc, r.address>>
      [] r.pc \in {"client", "user"} -> <<r.pc, ClientOf[r.query]>>

KeyOf(r) ==
    CASE r.pc \in {"register", "address"} -> <<r.pc, r.address>>
      [] r.pc = "client" -> <<"client", ClientOf[r.query]>>
      [] r.pc = "user" -> <<"user", r.user>>

Bucket(table, key, at) ==
    IF key \in DOMAIN table THEN table[key]
                            ELSE [count |-> 0, reset |-> at + Window(key)]

(* Mutant of Admits: the limit is compared with > instead of >=.           *)
Admits_Inclusive(table, key, at) ==
    /\ Bucket(table, key, at).count <= Limit(key)
    /\ key \in DOMAIN table \/ Cardinality(DOMAIN table) < MaxBuckets

(* _check lets the attempt through.                                        *)
Admits(table, key, at) ==
    /\ Bucket(table, key, at).count < Limit(key)
    /\ key \in DOMAIN table \/ Cardinality(DOMAIN table) < MaxBuckets

(* Mutant of Counted: every attempt starts the window anew.                *)
Counted_Renews(table, key, at) ==
    Put(table, key, [count |-> Bucket(table, key, at).count + 1,
                     reset |-> at + Window(key)])

Counted(table, key, at) ==
    Put(table, key, [Bucket(table, key, at) EXCEPT !.count = @ + 1])

(* check_authorize goes on from one bucket to the next; a registration is  *)
(* counted once, and then stored or refused for what it holds.             *)
Advance(t) ==
    CASE req[t].pc = "address" -> Goto(t, "client")
      [] req[t].pc = "client" -> Goto(t, "user")
      [] req[t].pc = "user" -> Goto(t, "verify")
      [] req[t].pc = "register" -> Reply(t)

Try(r, opens, at) ==
    [count  |-> r.count + 1,
     prompt |-> IF opens /\ at = now THEN r.prompt + 1 ELSE r.prompt,
     late   |-> IF opens /\ at < now THEN r.late + 1 ELSE r.late]

LetThrough(t, opens, at) ==
    tried' = IF req[t].pc = "user"
             THEN [tried EXCEPT ![req[t].user] = Try(@, opens, at)]
             ELSE tried

(* One _check: a refusal leaves the buckets counted before it as they are. *)
Check(t) ==
    /\ req[t].pc \in Counting
    /\ \E at \in ClockRead(t) :
         LET live == SweptBuckets(at)
             key == KeyOf(req[t])
         IN  IF Admits(live, key, at)
             THEN /\ buckets' = Counted(live, key, at)
                  /\ Advance(t)
                  /\ LetThrough(t, key \notin DOMAIN live, at)
             ELSE /\ buckets' = live
                  /\ Reply(t)
                  /\ UNCHANGED tried
    /\ UNCHANGED <<now, forms, shown>>

(* authorize_with_credentials: the mail server is asked.  What it saves    *)
(* when the password is right is BeginAuthorize of OAuthGrants.            *)
Verify(t) ==
    /\ req[t].pc = "verify"
    /\ Reply(t)
    /\ UNCHANGED <<now, forms, buckets, shown, tried>>

Tick ==
    /\ now < MaxTime
    /\ now' = now + 1
    /\ UNCHANGED <<forms, buckets, req, shown, tried>>

(* A restart forgets both stores; browsers keep their forms and cookies.   *)
Restart ==
    /\ forms' = << >>
    /\ buckets' = << >>
    /\ req' = [t \in Thread |-> Idle]
    /\ tried' = [u \in User |-> Untried]
    /\ UNCHANGED <<now, shown>>

Next ==
    \/ \E query \in Query, form \in Form : IssueForm(query, form)
    \/ \E t \in Thread, form \in Form, query \in Query, matches \in BOOLEAN,
          address \in Address, user \in User :
            BeginPost(t, form, query, matches, address, user)
    \/ \E t \in Thread, address \in Address : BeginRegister(t, address)
    \/ \E t \in Thread : Consume(t) \/ Check(t) \/ Verify(t)
    \/ Tick
    \/ Restart

Spec == Init /\ [][Next]_vars

-----------------------------------------------------------------------------
(* The stores, the requests and the history keep their types.              *)
TypeOK ==
    /\ now \in 0..MaxTime
    /\ DOMAIN forms \subseteq Form
    /\ \A f \in DOMAIN forms : forms[f] \in [query: Query, exp: Nat]
    /\ DOMAIN buckets \subseteq Key
    /\ \A k \in DOMAIN buckets : buckets[k] \in [count: Nat, reset: Nat]
    /\ req \in [Thread -> Requests]
    /\ DOMAIN shown \subseteq Form
    /\ \A f \in DOMAIN shown : shown[f] \in ShownRow
    /\ tried \in [User -> TriedRow]

(* Neither store outgrows its setting, whatever the interleaving of sweeps *)
(* and inserts by threads with different ideas of the time.                *)
StoresBounded ==
    /\ IsFiniteSet(DOMAIN forms) /\ Cardinality(DOMAIN forms) <= MaxForms
    /\ IsFiniteSet(DOMAIN buckets) /\ Cardinality(DOMAIN buckets) <= MaxBuckets

(* A form lets one POST through to the counters and the password check,    *)
(* however many are sent at once, also across a restart.                   *)
FormSpentOnce == \A f \in DOMAIN shown : shown[f].passed <= 1

(* A full bucket is no lock-out without end: a window, once opened, is     *)
(* neither put off by further attempts nor cut short before its time, and  *)
(* forgets no attempt.                                                     *)
WindowsStand ==
    [][Restart \/ \A k \in DOMAIN buckets : now < buckets[k].reset =>
         /\ k \in DOMAIN buckets'
         /\ buckets'[k].reset = buckets[k].reset
         /\ buckets'[k].count >= buckets[k].count]_vars

(* Passwords are tried at a bounded rate: in n windows since the server    *)
(* started a username is let through n + 1 limits at most, and one more    *)
(* limit for each window that a thread opened with a clock read before it  *)
(* waited for the lock.                                                    *)
TriesBounded ==
    \A u \in User :
        tried[u].count * AuthorizeWindow
          <= AuthorizeLimit * (now + AuthorizeWindow + tried[u].late * AuthorizeWindow)

(* Every attempt in a bucket was paid for with a form of its own.          *)
AttemptsCostForms ==
    \A k \in DOMAIN buckets : k[1] # "register" =>
       buckets[k].count <= Cardinality({f \in DOMAIN shown : shown[f].passed > 0})

-----------------------------------------------------------------------------
(* Why the safety properties hold: the parts of an inductive invariant.    *)

(* A stored form is on show and has let nothing through.                   *)
StoredFormsUnspent ==
    \A f \in DOMAIN forms : f \in DOMAIN shown /\ shown[f].passed = 0

(* A thread posts a form that is on show.                                  *)
PostedFormsShown ==
    \A t \in Thread :
        req[t].pc \notin {"idle", "register"} => req[t].form \in DOMAIN shown

(* No bucket counts beyond its limit or reaches further than its window.   *)
BucketsInReach ==
    \A k \in DOMAIN buckets :
        buckets[k].count <= Limit(k) /\ buckets[k].reset <= now + Window(k)

(* The bucket open for a username counts what its window let through.      *)
TriesCounted ==
    \A u \in User : LET k == <<"user", u>> IN
        IF k \in DOMAIN buckets
        THEN tried[u].count + AuthorizeLimit
               <= AuthorizeLimit * (tried[u].prompt + tried[u].late) + buckets[k].count
        ELSE tried[u].count <= AuthorizeLimit * (tried[u].prompt + tried[u].late)

(* Windows opened promptly follow one another without overlap.             *)
WindowsApart ==
    \A u \in User : LET k == <<"user", u>> IN
        \/ tried[u].prompt * AuthorizeWindow <= now
        \/ /\ k \in DOMAIN buckets
           /\ tried[u].prompt * AuthorizeWindow <= buckets[k].reset

(* Forms that let a POST through, and the POSTs a bucket of a kind has yet *)
(* to count: both together stand for what the forms have paid for.         *)
Level == {"address", "client", "user"}

Paid == {f \in DOMAIN shown : shown[f].passed > 0}

UpTo(level) ==
    CASE level = "address" -> {"address"}
      [] level = "client"  -> {"address", "client"}
      [] level = "user"    -> Level

Ahead(level) == {t \in Thread : req[t].pc \in UpTo(level)}

AttemptsPrepaid ==
    /\ IsFiniteSet(Paid)
    /\ \A level \in Level :
         IsFiniteSet(Ahead(level)) /\ Cardinality(Ahead(level)) <= Cardinality(Paid)
    /\ \A k \in DOMAIN buckets : k[1] # "register" =>
         buckets[k].count + Cardinality(Ahead(k[1])) <= Cardinality(Paid)

IInv ==
    /\ TypeOK
    /\ StoresBounded
    /\ FormSpentOnce
    /\ StoredFormsUnspent
    /\ PostedFormsShown
    /\ BucketsInReach
    /\ TriesCounted
    /\ WindowsApart
=============================================================================
