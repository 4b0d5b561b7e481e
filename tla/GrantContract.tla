--------------------------- MODULE GrantContract ---------------------------
(***************************************************************************)
(* What the OAuth service promises of a consent, without codes, tokens,    *)
(* clocks or requests in pieces: a user consents once; the client opens    *)
(* the grant, once; while it is open, and only then, a tool call begins    *)
(* under it, with rights the consent names; a grant that was opened may be *)
(* revoked, and then stays so.                                             *)
(***************************************************************************)
CONSTANTS
    Caller,       \* whoever runs tools
    Consent,      \* the sessions that may come to be
    Terms,        \* what users consent to
    Needs         \* the scopes tools need

VARIABLES
    terms,        \* the terms of each consent given
    opened,       \* the consents that have been opened
    revoked,      \* those that have been revoked
    running       \* the tool calls under way

contractVars == <<terms, opened, revoked, running>>

NoCall == [under |-> "no consent"]

Init ==
    /\ terms = << >>
    /\ opened = {} /\ revoked = {}
    /\ running = [t \in Caller |-> NoCall]

Give(s) ==
    /\ s \notin DOMAIN terms
    /\ \E g \in Terms :
         terms' = [x \in DOMAIN terms \cup {s} |-> IF x = s THEN g ELSE terms[x]]
    /\ UNCHANGED <<opened, revoked, running>>

Open(s) ==
    /\ s \in DOMAIN terms \ opened
    /\ opened' = opened \cup {s}
    /\ UNCHANGED <<terms, revoked, running>>

Revoke(s) ==
    /\ s \in opened
    /\ revoked' = revoked \cup {s}
    /\ UNCHANGED <<terms, opened, running>>

BeginCall(t, s) ==
    /\ running[t] = NoCall
    /\ s \in opened \ revoked
    /\ \E needs \in Needs :
         /\ needs \subseteq terms[s].scopes
         /\ running' = [running EXCEPT ![t] = [under |-> s, needs |-> needs]]
    /\ UNCHANGED <<terms, opened, revoked>>

(* Calls end, on their own or all together.                                *)
EndCalls ==
    /\ running' \in [Caller -> {running[t] : t \in Caller} \cup {NoCall}]
    /\ \A t \in Caller : running'[t] \in {running[t], NoCall}
    /\ UNCHANGED <<terms, opened, revoked>>

Next ==
    \/ \E s \in Consent : Give(s) \/ Open(s) \/ Revoke(s)
    \/ \E t \in Caller, s \in Consent : BeginCall(t, s)
    \/ EndCalls

Spec == Init /\ [][Next]_contractVars
=============================================================================
