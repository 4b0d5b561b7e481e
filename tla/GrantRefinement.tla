-------------------------- MODULE GrantRefinement --------------------------
(***************************************************************************)
(* OAuthGrants, as deployed, keeps GrantContract: how rows and requests    *)
(* stand for consents and calls.                                           *)
(***************************************************************************)
EXTENDS OAuthGrants

ConsentTerms == [s \in DOMAIN sessions |-> sessions[s].grant]

(* A consent is opened when its code is spent.                             *)
OpenedConsents == {s \in DOMAIN sessions :
                      \E c \in DOMAIN codes : codes[c].session = s /\ codes[c].used}

RevokedConsents == {s \in DOMAIN sessions : sessions[s].revoked}

(* A call is under way once authenticate_bearer has answered.              *)
RunningCalls ==
    [t \in Thread |->
        IF req[t].pc = "authorized"
        THEN [under |-> req[t].session, needs |-> req[t].required]
        ELSE [under |-> "no consent"]]

Contract == INSTANCE GrantContract WITH
    Caller <- Thread, Consent <- Session, Terms <- Grant, Needs <- Required,
    terms <- ConsentTerms, opened <- OpenedConsents,
    revoked <- RevokedConsents, running <- RunningCalls

(* No interleaving of requests and crashes lets a call begin under a       *)
(* consent that is unopened or revoked or does not name its scopes, opens  *)
(* one twice, revokes one unopened, revives one or changes its terms.      *)
ContractKept == Contract!Spec

-----------------------------------------------------------------------------
(* Why: whoever may bring a session to an end or to a tool comes after the *)
(* spending of its code, and a code about to be spent is still there.      *)
CallsFollowOpening ==
    /\ \A a \in access : a.session \in OpenedConsents
    /\ \A k \in DOMAIN tokens : tokens[k].session \in OpenedConsents
    /\ \A t \in Thread :
         /\ Busy(t, {"check_session", "rotate", "issue", "revoke_session",
                     "load_session", "authorized"}) => req[t].session \in OpenedConsents
         /\ Busy(t, {"mark_code_used"}) => req[t].cred \in DOMAIN codes
=============================================================================
