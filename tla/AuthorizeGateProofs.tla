------------------------ MODULE AuthorizeGateProofs ------------------------
(***************************************************************************)
(* Proofs about AuthorizeGate, for any number of threads, addresses, users *)
(* and forms, any positive settings and any wait for the locks: IInv is    *)
(* inductive, and what the gate promises is part of it or follows from it. *)
(***************************************************************************)
EXTENDS AuthorizeGate, FiniteSetTheorems, TLAPS

(* A store under its cap stays so when entries are dropped, and when one   *)
(* is added to fewer than the cap.                                         *)
LEMMA Shrinks ==
    ASSUME NEW S, NEW T \in SUBSET S, NEW n \in Nat,
           IsFiniteSet(S), Cardinality(S) <= n
    PROVE  IsFiniteSet(T) /\ Cardinality(T) <= n
BY FS_Subset, FS_CardinalityType

LEMMA Grows ==
    ASSUME NEW S, NEW x, NEW n \in Nat, IsFiniteSet(S), Cardinality(S) < n
    PROVE  IsFiniteSet(S \cup {x}) /\ Cardinality(S \cup {x}) <= n
<1>1. Cardinality(S) \in Nat
  BY FS_CardinalityType
<1>2. /\ IsFiniteSet(S \cup {x})
      /\ Cardinality(S \cup {x}) =
           IF x \in S THEN Cardinality(S) ELSE Cardinality(S) + 1
  BY FS_AddElement
<1> QED
  BY <1>1, <1>2

(* Both limits and both windows are positive numbers.                      *)
LEMMA Settings ==
    \A k : Limit(k) \in Nat \ {0} /\ Window(k) \in Nat \ {0}
BY SettingsAssumption DEF Limit, Window

(* Nothing is stored, shown, tried or in flight.                           *)
LEMMA InitIInv == Init => IInv
<1> SUFFICES ASSUME Init PROVE IInv
  OBVIOUS
<1>1. DOMAIN forms = {} /\ DOMAIN buckets = {} /\ DOMAIN shown = {}
  BY DEF Init
<1>2. TypeOK
  BY <1>1, SettingsAssumption
  DEF Init, TypeOK, Requests, Idle, TriedRow, Untried
<1>3. StoresBounded
  BY <1>1, FS_EmptySet, SettingsAssumption DEF StoresBounded
<1>4. \A t \in Thread : req[t].pc = "idle"
  BY DEF Init, Idle
<1>5. TriesCounted /\ WindowsApart
  BY <1>1, SettingsAssumption DEF Init, TriesCounted, WindowsApart, Untried
<1> QED
  BY <1>1, <1>2, <1>3, <1>4, <1>5
  DEF IInv, FormSpentOnce, StoredFormsUnspent, PostedFormsShown, BucketsInReach

(* What a request holds follows from the step it is at.                    *)
LEMMA Shapes ==
    ASSUME TypeOK, NEW t \in Thread
    PROVE  /\ req[t].pc = "register" => req[t] \in Registering
           /\ req[t].pc \notin {"idle", "register"} => req[t] \in Posting
BY DEF TypeOK, Requests, Posting, Registering, Idle

(* The clock read of a request is a time up to now.                        *)
LEMMA ClockReads ==
    ASSUME TypeOK, NEW t \in Thread, req[t].pc # "idle", NEW at \in ClockRead(t)
    PROVE  at \in Nat /\ at <= now /\ now \in Nat
<1>1. req[t].since \in Nat /\ now \in Nat
  BY Shapes, SettingsAssumption DEF TypeOK, Posting, Registering
<1> QED
  BY <1>1 DEF ClockRead

(* A POST that moves on keeps its form; a request that ends is idle.       *)
LEMMA GotoStep ==
    ASSUME TypeOK, NEW t \in Thread, req[t].pc \notin {"idle", "register"},
           NEW label \in {"address", "client", "user", "verify"}, Goto(t, label)
    PROVE  /\ req' \in [Thread -> Requests]
           /\ req'[t].pc = label
           /\ req'[t].form = req[t].form
           /\ \A u \in Thread : u # t => req'[u] = req[u]
<1>1. req[t] \in Posting /\ req \in [Thread -> Requests] /\ now \in Nat
  BY Shapes, SettingsAssumption DEF TypeOK
<1>2. req' = [req EXCEPT ![t] = [req[t] EXCEPT !.pc = label, !.since = now]]
  BY <1>1 DEF Goto
<1>3. [req[t] EXCEPT !.pc = label, !.since = now] \in Posting
  BY <1>1 DEF Posting
<1>4. /\ [req[t] EXCEPT !.pc = label, !.since = now].pc = label
      /\ [req[t] EXCEPT !.pc = label, !.since = now].form = req[t].form
  BY <1>1 DEF Posting
<1> QED
  BY <1>1, <1>2, <1>3, <1>4 DEF Requests

LEMMA ReplyStep ==
    ASSUME TypeOK, NEW t \in Thread, Reply(t)
    PROVE  /\ req' \in [Thread -> Requests]
           /\ req'[t].pc = "idle"
           /\ \A u \in Thread : u # t => req'[u] = req[u]
BY DEF TypeOK, Reply, Requests, Idle

(* The parts of IInv that only speak of the counters, and those that only  *)
(* speak of the forms, survive a step that leaves these alone.             *)
LEMMA CountersFrame ==
    ASSUME IInv, UNCHANGED <<now, buckets, tried>>
    PROVE  BucketsInReach' /\ TriesCounted' /\ WindowsApart'
BY DEF IInv, BucketsInReach, TriesCounted, WindowsApart

LEMMA FormsFrame ==
    ASSUME IInv, UNCHANGED <<forms, shown>>
    PROVE  FormSpentOnce' /\ StoredFormsUnspent'
BY DEF IInv, FormSpentOnce, StoredFormsUnspent

LEMMA StoresFrame ==
    ASSUME IInv, UNCHANGED <<forms, buckets>>
    PROVE  StoresBounded'
BY DEF IInv, StoresBounded

-----------------------------------------------------------------------------
(* A new form, or a store swept and still full.                            *)
LEMMA IssueFormStep ==
    ASSUME IInv, NEW query \in Query, NEW form \in Form, IssueForm(query, form)
    PROVE  IInv'
<1> DEFINE live == SweptForms(now)
<1>1. /\ TypeOK /\ now \in Nat /\ form \notin DOMAIN shown
      /\ UNCHANGED <<now, buckets, req, tried>>
  BY SettingsAssumption DEF IInv, TypeOK, IssueForm
<1>2. /\ DOMAIN live \subseteq DOMAIN forms
      /\ \A f \in DOMAIN live : live[f] = forms[f]
  BY DEF SweptForms, Keep
<1>3. IsFiniteSet(DOMAIN live) /\ Cardinality(DOMAIN live) <= MaxForms
  BY <1>2, Shrinks, SettingsAssumption DEF IInv, StoresBounded
<1> HIDE DEF live
<1>4. CASE Cardinality(DOMAIN live) >= MaxForms
  <2>1. forms' = live /\ UNCHANGED shown
    BY <1>4 DEF IssueForm, live
  <2>2. TypeOK'
    BY <1>1, <1>2, <2>1 DEF TypeOK
  <2>3. StoresBounded'
    BY <1>1, <1>3, <2>1 DEF IInv, StoresBounded
  <2>4. FormSpentOnce' /\ StoredFormsUnspent' /\ PostedFormsShown'
    BY <1>1, <1>2, <2>1
    DEF IInv, FormSpentOnce, StoredFormsUnspent, PostedFormsShown
  <2> QED
    BY <1>1, <2>2, <2>3, <2>4, CountersFrame DEF IInv
<1>5. CASE ~(Cardinality(DOMAIN live) >= MaxForms)
  <2> DEFINE row == [query |-> query, exp |-> now + FormTTL]
             mark == [query |-> query, passed |-> 0]
  <2>1. forms' = Put(live, form, row) /\ shown' = Put(shown, form, mark)
    BY <1>5 DEF IssueForm, live
  <2>2. row \in [query: Query, exp: Nat] /\ mark \in ShownRow /\ mark.passed = 0
    BY <1>1, SettingsAssumption DEF ShownRow
  <2> HIDE DEF row, mark
  <2>3. /\ DOMAIN forms' = DOMAIN live \cup {form}
        /\ \A f \in DOMAIN forms' : forms'[f] = IF f = form THEN row ELSE live[f]
    BY <2>1 DEF Put
  <2>4. /\ DOMAIN shown' = DOMAIN shown \cup {form}
        /\ \A f \in DOMAIN shown' : shown'[f] = IF f = form THEN mark ELSE shown[f]
    BY <2>1 DEF Put
  <2>5. TypeOK'
    BY <1>1, <1>2, <2>2, <2>3, <2>4 DEF TypeOK
  <2>6. Cardinality(DOMAIN live) < MaxForms
    BY <1>3, <1>5, FS_CardinalityType, SettingsAssumption
  <2>7. StoresBounded'
    <3>1. /\ IsFiniteSet(DOMAIN live \cup {form})
          /\ Cardinality(DOMAIN live \cup {form}) <= MaxForms
      BY <1>3, <2>6, Grows, SettingsAssumption
    <3> QED
      BY <1>1, <2>3, <3>1 DEF IInv, StoresBounded
  <2>8. FormSpentOnce' /\ StoredFormsUnspent'
    BY <1>1, <1>2, <2>2, <2>3, <2>4 DEF IInv, FormSpentOnce, StoredFormsUnspent
  <2>9. PostedFormsShown'
    BY <1>1, <2>4 DEF IInv, PostedFormsShown
  <2> QED
    BY <1>1, <2>5, <2>7, <2>8, <2>9, CountersFrame DEF IInv
<1> QED
  BY <1>4, <1>5

(* A request that begins.                                                  *)
LEMMA BeginPostStep ==
    ASSUME IInv, NEW t \in Thread, NEW form \in Form, NEW query \in Query,
           NEW matches \in BOOLEAN, NEW address \in Address, NEW user \in User,
           BeginPost(t, form, query, matches, address, user)
    PROVE  IInv'
<1>1. now \in Nat /\ form \in DOMAIN shown /\ UNCHANGED <<now, forms, buckets, shown, tried>>
  BY SettingsAssumption DEF IInv, TypeOK, BeginPost
<1>2. /\ req' \in [Thread -> Requests]
      /\ req'[t].form = form
      /\ \A u \in Thread : u # t => req'[u] = req[u]
  BY <1>1 DEF IInv, TypeOK, BeginPost, Requests, Posting
<1>3. TypeOK'
  BY <1>1, <1>2 DEF IInv, TypeOK
<1>4. PostedFormsShown'
  BY <1>1, <1>2 DEF IInv, PostedFormsShown
<1> QED
  BY <1>1, <1>3, <1>4, CountersFrame, FormsFrame, StoresFrame DEF IInv

LEMMA BeginRegisterStep ==
    ASSUME IInv, NEW t \in Thread, NEW address \in Address, BeginRegister(t, address)
    PROVE  IInv'
<1>1. now \in Nat /\ UNCHANGED <<now, forms, buckets, shown, tried>>
  BY SettingsAssumption DEF IInv, TypeOK, BeginRegister
<1>2. /\ req' \in [Thread -> Requests]
      /\ req'[t].pc = "register"
      /\ \A u \in Thread : u # t => req'[u] = req[u]
  BY <1>1 DEF IInv, TypeOK, BeginRegister, Requests, Registering
<1>3. TypeOK'
  BY <1>1, <1>2 DEF IInv, TypeOK
<1>4. PostedFormsShown'
  BY <1>1, <1>2 DEF IInv, PostedFormsShown
<1> QED
  BY <1>1, <1>3, <1>4, CountersFrame, FormsFrame, StoresFrame DEF IInv

(* The form leaves the store whatever comes of the POST, and only a form   *)
(* that was still stored, hence had let nothing through, lets it through.  *)
LEMMA ConsumeStep ==
    ASSUME IInv, NEW t \in Thread, Consume(t)
    PROVE  IInv'
<1>1. /\ TypeOK /\ req[t].pc = "consume" /\ UNCHANGED <<now, buckets, tried>>
      /\ req[t].form \in DOMAIN shown
  BY DEF IInv, Consume, PostedFormsShown
<1>2. PICK at \in ClockRead(t) :
        LET live == SweptForms(at)
            form == req[t].form
        IN  /\ forms' = Keep(live, DOMAIN live \ {form})
            /\ IF /\ form \in DOMAIN live
                  /\ live[form].query = req[t].query
                  /\ req[t].matches
               THEN Goto(t, "address") /\ Passed(form)
               ELSE Reply(t) /\ UNCHANGED shown
  BY DEF Consume
<1>3. /\ DOMAIN SweptForms(at) \subseteq DOMAIN forms
      /\ \A f \in DOMAIN SweptForms(at) : SweptForms(at)[f] = forms[f]
  BY DEF SweptForms, Keep
<1>4. /\ DOMAIN forms' \subseteq DOMAIN forms
      /\ \A f \in DOMAIN forms' : forms'[f] = forms[f]
      /\ req[t].form \notin DOMAIN forms'
  BY <1>2, <1>3 DEF Keep
<1>5. StoresBounded'
  BY <1>1, <1>4, Shrinks, SettingsAssumption DEF IInv, StoresBounded
<1>6. CASE Goto(t, "address") /\ Passed(req[t].form) /\ req[t].form \in DOMAIN forms
  <2>1. /\ req' \in [Thread -> Requests]
        /\ req'[t].form = req[t].form
        /\ \A u \in Thread : u # t => req'[u] = req[u]
    BY <1>1, <1>6, GotoStep
  <2>2. shown[req[t].form].passed = 0 /\ shown[req[t].form] \in ShownRow
    BY <1>1, <1>6 DEF IInv, StoredFormsUnspent, TypeOK
  <2>3. /\ DOMAIN shown' = DOMAIN shown
        /\ \A f \in DOMAIN shown : f # req[t].form => shown'[f] = shown[f]
        /\ shown'[req[t].form] = [shown[req[t].form] EXCEPT !.passed = 1]
    BY <1>1, <1>6, <2>2 DEF Passed
  <2>4. shown'[req[t].form].passed = 1 /\ shown'[req[t].form] \in ShownRow
    BY <2>2, <2>3 DEF ShownRow
  <2>5. TypeOK'
    BY <1>1, <1>4, <2>1, <2>3, <2>4 DEF TypeOK
  <2>6. FormSpentOnce' /\ StoredFormsUnspent'
    <3>1. ASSUME NEW f \in DOMAIN shown' PROVE shown'[f].passed <= 1
      <4>1. CASE f = req[t].form
        BY <2>4, <4>1
      <4>2. CASE f # req[t].form
        BY <2>3, <4>2 DEF IInv, FormSpentOnce
      <4> QED
        BY <4>1, <4>2
    <3>2. \A f \in DOMAIN forms' : f \in DOMAIN shown' /\ shown'[f].passed = 0
      BY <1>4, <2>3 DEF IInv, StoredFormsUnspent
    <3> QED
      BY <3>1, <3>2 DEF FormSpentOnce, StoredFormsUnspent
  <2>7. PostedFormsShown'
    BY <1>1, <2>1, <2>3 DEF IInv, PostedFormsShown
  <2> QED
    BY <1>1, <1>5, <2>5, <2>6, <2>7, CountersFrame DEF IInv
<1>7. CASE Reply(t) /\ UNCHANGED shown
  <2>1. /\ req' \in [Thread -> Requests]
        /\ req'[t].pc = "idle"
        /\ \A u \in Thread : u # t => req'[u] = req[u]
    BY <1>1, <1>7, ReplyStep
  <2>2. TypeOK'
    BY <1>1, <1>4, <1>7, <2>1 DEF TypeOK
  <2>3. FormSpentOnce' /\ StoredFormsUnspent'
    BY <1>4, <1>7 DEF IInv, FormSpentOnce, StoredFormsUnspent
  <2>4. PostedFormsShown'
    BY <1>7, <2>1 DEF IInv, PostedFormsShown
  <2> QED
    BY <1>1, <1>5, <2>2, <2>3, <2>4, CountersFrame DEF IInv
<1> QED
  BY <1>2, <1>3, <1>6, <1>7

-----------------------------------------------------------------------------
(* The counters.  A window more is worth a limit more.                     *)
LEMMA Distribute ==
    \A a, b \in Nat : a * (b + 1) = a * b + a /\ (b + 1) * a = b * a + a /\ a * b \in Nat
OBVIOUS

(* Sweeping keeps what has not ended by the time it is given.              *)
LEMMA Sweeping ==
    ASSUME TypeOK, NEW at \in Nat
    PROVE  /\ DOMAIN SweptBuckets(at) \subseteq DOMAIN buckets
           /\ \A k \in DOMAIN SweptBuckets(at) : SweptBuckets(at)[k] = buckets[k]
           /\ \A k \in DOMAIN buckets \ DOMAIN SweptBuckets(at) : buckets[k].reset <= at
BY DEF SweptBuckets, Keep, TypeOK

(* Once a username has no bucket, all its windows are over and accounted   *)
(* for.                                                                    *)
LEMMA WindowsOver ==
    ASSUME IInv, NEW at \in Nat, at <= now, NEW u \in User,
           <<"user", u>> \notin DOMAIN SweptBuckets(at)
    PROVE  /\ tried[u].count <= AuthorizeLimit * (tried[u].prompt + tried[u].late)
           /\ tried[u].prompt * AuthorizeWindow <= now
<1> DEFINE k == <<"user", u>>
           allowed == AuthorizeLimit * (tried[u].prompt + tried[u].late)
           apart == tried[u].prompt * AuthorizeWindow
<1>1. /\ tried[u].count \in Nat /\ allowed \in Nat /\ apart \in Nat /\ now \in Nat
      /\ AuthorizeLimit \in Nat
  BY SettingsAssumption, Distribute DEF IInv, TypeOK, TriedRow
<1>2. k \in DOMAIN buckets =>
        /\ buckets[k].reset <= at
        /\ buckets[k].count <= AuthorizeLimit
        /\ buckets[k] \in [count: Nat, reset: Nat]
  BY Sweeping DEF IInv, BucketsInReach, Limit, TypeOK
<1>3. IF k \in DOMAIN buckets
      THEN tried[u].count + AuthorizeLimit <= allowed + buckets[k].count
      ELSE tried[u].count <= allowed
  BY DEF IInv, TriesCounted
<1>4. apart <= now \/ (k \in DOMAIN buckets /\ apart <= buckets[k].reset)
  BY DEF IInv, WindowsApart
<1> HIDE DEF allowed, apart, k
<1>5. tried[u].count <= allowed
  BY <1>1, <1>2, <1>3
<1>6. apart <= now
  BY <1>1, <1>2, <1>4
<1> QED
  BY <1>5, <1>6 DEF allowed, apart

(* What one check does to a bucket it admits an attempt to.                *)
LEMMA Admission ==
    ASSUME TypeOK, BucketsInReach, NEW at \in Nat, at <= now, NEW key \in Key,
           Admits(SweptBuckets(at), key, at),
           buckets' = Counted(SweptBuckets(at), key, at)
    PROVE  /\ DOMAIN buckets' = DOMAIN SweptBuckets(at) \cup {key}
           /\ \A k \in DOMAIN SweptBuckets(at) : k # key => buckets'[k] = buckets[k]
           /\ buckets'[key] \in [count: Nat, reset: Nat]
           /\ buckets'[key].count <= Limit(key)
           /\ buckets'[key].reset <= now + Window(key)
           /\ key \in DOMAIN SweptBuckets(at) =>
                /\ buckets'[key].count = buckets[key].count + 1
                /\ buckets'[key].reset = buckets[key].reset
           /\ key \notin DOMAIN SweptBuckets(at) =>
                /\ buckets'[key].count = 1
                /\ buckets'[key].reset = at + Window(key)
<1> DEFINE live == SweptBuckets(at)
           b == Bucket(live, key, at)
<1>1. now \in Nat /\ Limit(key) \in Nat /\ Window(key) \in Nat
  BY Settings, SettingsAssumption DEF TypeOK
<1>2. CASE key \in DOMAIN live
  <2>1. b = buckets[key] /\ key \in DOMAIN buckets
    BY <1>2, Sweeping DEF Bucket
  <2>2. b \in [count: Nat, reset: Nat] /\ b.reset <= now + Window(key)
    BY <2>1 DEF TypeOK, BucketsInReach
  <2> QED
    BY <1>1, <1>2, <2>1, <2>2, Sweeping DEF Counted, Put, Admits
<1>3. CASE key \notin DOMAIN live
  <2>1. b = [count |-> 0, reset |-> at + Window(key)]
    BY <1>3 DEF Bucket
  <2>2. b \in [count: Nat, reset: Nat] /\ b.reset <= now + Window(key)
    BY <1>1, <2>1
  <2> QED
    BY <1>1, <1>3, <2>1, <2>2, Sweeping DEF Counted, Put, Admits
<1> QED
  BY <1>2, <1>3

(* A check that lets an attempt pass opens or fills one bucket; the        *)
(* account of a username changes only with its own bucket.                 *)
LEMMA AdmittedStep ==
    ASSUME IInv, NEW t \in Thread, req[t].pc \in Counting,
           NEW at \in Nat, at <= now,
           Admits(SweptBuckets(at), KeyOf(req[t]), at),
           buckets' = Counted(SweptBuckets(at), KeyOf(req[t]), at),
           Advance(t),
           LetThrough(t, KeyOf(req[t]) \notin DOMAIN SweptBuckets(at), at),
           UNCHANGED <<now, forms, shown>>
    PROVE  IInv'
<1> DEFINE live == SweptBuckets(at)
           key == KeyOf(req[t])
<1>1. /\ TypeOK /\ BucketsInReach /\ now \in Nat /\ AuthorizeLimit \in Nat
      /\ AuthorizeWindow \in Nat
  BY SettingsAssumption DEF IInv, TypeOK
<1>2. /\ key \in Key
      /\ req[t].pc = "user" => req[t].user \in User /\ key = <<"user", req[t].user>>
      /\ req[t].pc # "user" => \A u \in User : key # <<"user", u>>
  <2>1. CASE req[t].pc \in {"register", "address"}
    BY <1>1, <2>1, Shapes DEF KeyOf, Key, Posting, Registering
  <2>2. CASE req[t].pc = "client"
    BY <1>1, <2>2, Shapes, QueryAssumption DEF KeyOf, Key, Posting
  <2>3. CASE req[t].pc = "user"
    BY <1>1, <2>3, Shapes DEF KeyOf, Key, Posting
  <2> QED
    BY <2>1, <2>2, <2>3 DEF Counting
<1> HIDE DEF key
<1>3. /\ DOMAIN live \subseteq DOMAIN buckets
      /\ \A k \in DOMAIN live : live[k] = buckets[k]
  BY <1>1, Sweeping
<1>4. /\ DOMAIN buckets' = DOMAIN live \cup {key}
      /\ \A k \in DOMAIN live : k # key => buckets'[k] = buckets[k]
      /\ buckets'[key] \in [count: Nat, reset: Nat]
      /\ buckets'[key].count <= Limit(key)
      /\ buckets'[key].reset <= now + Window(key)
      /\ key \in DOMAIN live =>
           /\ buckets'[key].count = buckets[key].count + 1
           /\ buckets'[key].reset = buckets[key].reset
      /\ key \notin DOMAIN live =>
           /\ buckets'[key].count = 1
           /\ buckets'[key].reset = at + Window(key)
  <2>1. Admits(live, key, at) /\ buckets' = Counted(live, key, at)
    BY DEF key
  <2> QED
    BY <1>1, <1>2, <2>1, Admission
<1>5. /\ req' \in [Thread -> Requests]
      /\ req'[t].pc # "idle" => req[t].pc # "register" /\ req'[t].form = req[t].form
      /\ \A u \in Thread : u # t => req'[u] = req[u]
  <2>1. CASE req[t].pc = "register"
    BY <1>1, <2>1, ReplyStep DEF Advance
  <2>2. CASE req[t].pc # "register"
    <3>1. PICK label \in {"address", "client", "user", "verify"} : Goto(t, label)
      BY <2>2 DEF Advance, Counting
    <3> QED
      BY <1>1, <2>2, <3>1, GotoStep DEF Counting
  <2> QED
    BY <2>1, <2>2
<1>6. /\ req[t].pc = "user" =>
           tried' = [tried EXCEPT ![req[t].user] =
                       Try(tried[req[t].user], key \notin DOMAIN live, at)]
      /\ req[t].pc # "user" => tried' = tried
  BY <1>1 DEF LetThrough, key, TypeOK
<1> HIDE DEF live
<1>7. \A u \in User : Try(tried[u], key \notin DOMAIN live, at) \in TriedRow
  BY <1>1 DEF Try, TypeOK, TriedRow
<1>8. tried' \in [User -> TriedRow]
  BY <1>1, <1>2, <1>6, <1>7 DEF TypeOK
<1>9. TypeOK'
  BY <1>1, <1>2, <1>3, <1>4, <1>5, <1>8 DEF TypeOK
<1>10. StoresBounded'
  <2>1. IsFiniteSet(DOMAIN live) /\ Cardinality(DOMAIN live) <= MaxBuckets
    BY <1>3, Shrinks, SettingsAssumption DEF IInv, StoresBounded
  <2>2. key \in DOMAIN live \/ Cardinality(DOMAIN live) < MaxBuckets
    BY DEF Admits, key, live
  <2>3. CASE key \in DOMAIN live
    <3>1. DOMAIN buckets' = DOMAIN live
      BY <1>4, <2>3
    <3> QED
      BY <2>1, <3>1 DEF IInv, StoresBounded
  <2>4. CASE Cardinality(DOMAIN live) < MaxBuckets
    <3>1. IsFiniteSet(DOMAIN live \cup {key}) /\ Cardinality(DOMAIN live \cup {key}) <= MaxBuckets
      BY <2>1, <2>4, Grows, SettingsAssumption
    <3> QED
      BY <1>4, <3>1 DEF IInv, StoresBounded
  <2> QED
    BY <2>2, <2>3, <2>4
<1>11. PostedFormsShown'
  BY <1>5 DEF IInv, PostedFormsShown, Counting
<1>12. BucketsInReach'
  BY <1>3, <1>4 DEF IInv, BucketsInReach
<1>13. ASSUME NEW u \in User
       PROVE  /\ IF <<"user", u>> \in DOMAIN buckets'
                 THEN tried'[u].count + AuthorizeLimit
                        <= AuthorizeLimit * (tried'[u].prompt + tried'[u].late)
                             + buckets'[<<"user", u>>].count
                 ELSE tried'[u].count
                        <= AuthorizeLimit * (tried'[u].prompt + tried'[u].late)
              /\ \/ tried'[u].prompt * AuthorizeWindow <= now
                 \/ /\ <<"user", u>> \in DOMAIN buckets'
                    /\ tried'[u].prompt * AuthorizeWindow <= buckets'[<<"user", u>>].reset
  <2> DEFINE k == <<"user", u>>
             allowed == AuthorizeLimit * (tried[u].prompt + tried[u].late)
             apart == tried[u].prompt * AuthorizeWindow
  <2>1. /\ tried[u].count \in Nat /\ tried[u].prompt \in Nat /\ tried[u].late \in Nat
        /\ allowed \in Nat /\ apart \in Nat
    BY <1>1, Distribute DEF TypeOK, TriedRow
  <2>2. k \notin DOMAIN live => tried[u].count <= allowed /\ apart <= now
    BY WindowsOver DEF live
  <2>3. k \in DOMAIN live =>
          /\ k \in DOMAIN buckets
          /\ tried[u].count + AuthorizeLimit <= allowed + buckets[k].count
          /\ apart <= now \/ apart <= buckets[k].reset
          /\ buckets[k] \in [count: Nat, reset: Nat]
    BY <1>1, <1>3 DEF IInv, TriesCounted, WindowsApart, TypeOK
  <2>4. CASE k # key
    <3>1. tried'[u] = tried[u]
      BY <1>1, <1>2, <1>6, <2>4 DEF TypeOK
    <3>2. /\ k \in DOMAIN buckets' <=> k \in DOMAIN live
          /\ k \in DOMAIN live => buckets'[k] = buckets[k]
      BY <1>4, <2>4
    <3> QED
      BY <2>2, <2>3, <3>1, <3>2
  <2>5. CASE k = key /\ k \in DOMAIN live
    <3>1. req[t].pc = "user" /\ req[t].user = u
      BY <1>2, <2>5
    <3>2. tried'[u] = [count |-> tried[u].count + 1, prompt |-> tried[u].prompt,
                       late |-> tried[u].late]
      BY <1>1, <1>6, <2>5, <3>1 DEF Try, TypeOK
    <3>3. /\ tried'[u].count = tried[u].count + 1
          /\ tried'[u].prompt = tried[u].prompt
          /\ tried'[u].late = tried[u].late
      BY <3>2
    <3>4. AuthorizeLimit * (tried'[u].prompt + tried'[u].late) = allowed
            /\ tried'[u].prompt * AuthorizeWindow = apart
      BY <3>3
    <3> HIDE DEF allowed, apart, k
    <3>5. tried[u].count + 1 + AuthorizeLimit <= allowed + (buckets[k].count + 1)
      BY <1>1, <2>1, <2>3, <2>5
    <3> QED
      BY <1>4, <2>3, <2>5, <3>3, <3>4, <3>5 DEF k
  <2>6. CASE k = key /\ k \notin DOMAIN live
    <3>1. req[t].pc = "user" /\ req[t].user = u /\ Window(k) = AuthorizeWindow
      BY <1>2, <2>6 DEF Window
    <3>2. tried'[u] = Try(tried[u], TRUE, at)
      BY <1>1, <1>6, <2>6, <3>1 DEF TypeOK
    <3>3. /\ tried'[u].count = tried[u].count + 1
          /\ tried'[u].prompt = IF at = now THEN tried[u].prompt + 1 ELSE tried[u].prompt
          /\ tried'[u].late = IF at < now THEN tried[u].late + 1 ELSE tried[u].late
      BY <3>2 DEF Try
    <3>4. AuthorizeLimit * (tried'[u].prompt + tried'[u].late) = allowed + AuthorizeLimit
      <4>1. tried'[u].prompt + tried'[u].late = (tried[u].prompt + tried[u].late) + 1
        BY <1>1, <2>1, <3>3
      <4> QED
        BY <1>1, <2>1, <4>1, Distribute
    <3>5. tried'[u].prompt * AuthorizeWindow = IF at = now THEN apart + AuthorizeWindow ELSE apart
      BY <1>1, <2>1, <3>3, Distribute
    <3> HIDE DEF allowed, apart, k
    <3>6. tried[u].count + 1 + AuthorizeLimit <= (allowed + AuthorizeLimit) + 1
      BY <1>1, <2>1, <2>2, <2>6
    <3>7. \/ tried'[u].prompt * AuthorizeWindow <= now
          \/ tried'[u].prompt * AuthorizeWindow <= at + AuthorizeWindow
      BY <1>1, <2>1, <2>2, <2>6, <3>5
    <3> QED
      BY <1>4, <2>6, <3>1, <3>3, <3>4, <3>6, <3>7 DEF k
  <2> QED
    BY <2>4, <2>5, <2>6
<1>14. TriesCounted' /\ WindowsApart'
  BY <1>13 DEF TriesCounted, WindowsApart
<1> QED
  BY <1>9, <1>10, <1>11, <1>12, <1>14, FormsFrame DEF IInv

(* A refused attempt: the sweep is all that is left of it.                 *)
LEMMA RefusedStep ==
    ASSUME IInv, NEW t \in Thread, NEW at \in Nat, at <= now,
           buckets' = SweptBuckets(at), Reply(t),
           UNCHANGED <<now, forms, shown, tried>>
    PROVE  IInv'
<1>1. TypeOK /\ now \in Nat
  BY SettingsAssumption DEF IInv, TypeOK
<1>2. /\ DOMAIN buckets' \subseteq DOMAIN buckets
      /\ \A k \in DOMAIN buckets' : buckets'[k] = buckets[k]
  BY <1>1, Sweeping
<1>3. /\ req' \in [Thread -> Requests]
      /\ req'[t].pc = "idle"
      /\ \A u \in Thread : u # t => req'[u] = req[u]
  BY <1>1, ReplyStep
<1>4. TypeOK'
  BY <1>1, <1>2, <1>3 DEF TypeOK
<1>5. StoresBounded'
  BY <1>2, Shrinks, SettingsAssumption DEF IInv, StoresBounded
<1>6. PostedFormsShown'
  BY <1>3 DEF IInv, PostedFormsShown
<1>7. BucketsInReach'
  BY <1>2 DEF IInv, BucketsInReach
<1>8. \A u \in User : <<"user", u>> \notin DOMAIN buckets' =>
        /\ tried[u].count <= AuthorizeLimit * (tried[u].prompt + tried[u].late)
        /\ tried[u].prompt * AuthorizeWindow <= now
  BY WindowsOver
<1>9. TriesCounted'
  BY <1>2, <1>8 DEF IInv, TriesCounted
<1>10. WindowsApart'
  BY <1>2, <1>8 DEF IInv, WindowsApart
<1> QED
  BY <1>4, <1>5, <1>6, <1>7, <1>9, <1>10, FormsFrame DEF IInv

LEMMA CheckStep ==
    ASSUME IInv, NEW t \in Thread, Check(t)
    PROVE  IInv'
<1>1. PICK at \in ClockRead(t) :
        LET live == SweptBuckets(at)
            key == KeyOf(req[t])
        IN  IF Admits(live, key, at)
            THEN /\ buckets' = Counted(live, key, at)
                 /\ Advance(t)
                 /\ LetThrough(t, key \notin DOMAIN live, at)
            ELSE /\ buckets' = live
                 /\ Reply(t)
                 /\ UNCHANGED tried
  BY DEF Check
<1>2. req[t].pc \in Counting /\ UNCHANGED <<now, forms, shown>>
  BY DEF Check
<1>3. at \in Nat /\ at <= now
  BY <1>2, ClockReads DEF IInv, Counting
<1>4. CASE Admits(SweptBuckets(at), KeyOf(req[t]), at)
  BY <1>1, <1>2, <1>3, <1>4, AdmittedStep
<1>5. CASE ~Admits(SweptBuckets(at), KeyOf(req[t]), at)
  BY <1>1, <1>2, <1>3, <1>5, RefusedStep
<1> QED
  BY <1>4, <1>5

-----------------------------------------------------------------------------
(* The end of a request, and a stuttering step.                            *)
LEMMA VerifyStep ==
    ASSUME IInv, NEW t \in Thread, Verify(t)
    PROVE  IInv'
<1>1. /\ req' \in [Thread -> Requests]
      /\ req'[t].pc = "idle"
      /\ \A u \in Thread : u # t => req'[u] = req[u]
      /\ UNCHANGED <<now, forms, buckets, shown, tried>>
  BY ReplyStep DEF IInv, Verify
<1>2. TypeOK' /\ PostedFormsShown'
  BY <1>1 DEF IInv, TypeOK, PostedFormsShown
<1> QED
  BY <1>1, <1>2, CountersFrame, FormsFrame, StoresFrame DEF IInv

LEMMA StutterStep ==
    ASSUME IInv, UNCHANGED vars
    PROVE  IInv'
<1>1. TypeOK' /\ PostedFormsShown'
  BY DEF vars, IInv, TypeOK, PostedFormsShown
<1> QED
  BY <1>1, CountersFrame, FormsFrame, StoresFrame DEF vars, IInv

(* Time only brings the ends of windows nearer.                            *)
LEMMA TickStep ==
    ASSUME IInv, Tick
    PROVE  IInv'
<1>1. /\ now \in Nat /\ now' = now + 1 /\ now' \in 0..MaxTime
      /\ UNCHANGED <<forms, buckets, req, shown, tried>>
  BY SettingsAssumption DEF IInv, TypeOK, Tick
<1>2. TypeOK' /\ PostedFormsShown'
  BY <1>1 DEF IInv, TypeOK, PostedFormsShown
<1>3. BucketsInReach'
  <2> SUFFICES ASSUME NEW k \in DOMAIN buckets
               PROVE  buckets[k].count <= Limit(k) /\ buckets[k].reset <= now + 1 + Window(k)
    BY <1>1 DEF BucketsInReach
  <2>1. Window(k) \in Nat /\ buckets[k].reset \in Nat
    BY Settings DEF IInv, TypeOK
  <2> QED
    BY <1>1, <2>1 DEF IInv, BucketsInReach
<1>4. TriesCounted'
  BY <1>1 DEF IInv, TriesCounted
<1>5. WindowsApart'
  <2>1. \A u \in User : tried[u].prompt * AuthorizeWindow \in Nat
    BY SettingsAssumption, Distribute DEF IInv, TypeOK, TriedRow
  <2> SUFFICES ASSUME NEW u \in User
               PROVE  \/ tried[u].prompt * AuthorizeWindow <= now + 1
                      \/ /\ <<"user", u>> \in DOMAIN buckets
                         /\ tried[u].prompt * AuthorizeWindow <= buckets[<<"user", u>>].reset
    BY <1>1 DEF WindowsApart
  <2> DEFINE apart == tried[u].prompt * AuthorizeWindow
  <2>2. \/ apart <= now
        \/ <<"user", u>> \in DOMAIN buckets /\ apart <= buckets[<<"user", u>>].reset
    BY DEF IInv, WindowsApart
  <2>3. apart \in Nat
    BY <2>1
  <2> HIDE DEF apart
  <2>4. \/ apart <= now + 1
        \/ <<"user", u>> \in DOMAIN buckets /\ apart <= buckets[<<"user", u>>].reset
    BY <1>1, <2>2, <2>3
  <2> QED
    BY <2>4 DEF apart
<1> QED
  BY <1>1, <1>2, <1>3, <1>4, <1>5, FormsFrame, StoresFrame DEF IInv

(* A restart forgets what the properties are about, except the forms on    *)
(* show, none of which is stored any more.                                 *)
LEMMA RestartStep ==
    ASSUME IInv, Restart
    PROVE  IInv'
<1>1. /\ DOMAIN forms' = {} /\ DOMAIN buckets' = {} /\ UNCHANGED <<now, shown>>
      /\ \A t \in Thread : req'[t].pc = "idle"
      /\ now \in Nat
  BY SettingsAssumption DEF Restart, Idle, IInv, TypeOK
<1>2. TypeOK'
  BY <1>1 DEF IInv, TypeOK, Restart, Requests, Idle, TriedRow, Untried
<1>3. StoresBounded'
  BY <1>1, FS_EmptySet, SettingsAssumption DEF StoresBounded
<1>4. TriesCounted' /\ WindowsApart'
  BY <1>1, SettingsAssumption DEF Restart, TriesCounted, WindowsApart, Untried
<1> QED
  BY <1>1, <1>2, <1>3, <1>4
  DEF IInv, FormSpentOnce, StoredFormsUnspent, PostedFormsShown, BucketsInReach

LEMMA Inductive == IInv /\ [Next]_vars => IInv'
<1> SUFFICES ASSUME IInv, [Next]_vars PROVE IInv'
  OBVIOUS
<1>1. CASE \E query \in Query, form \in Form : IssueForm(query, form)
  BY <1>1, IssueFormStep
<1>2. CASE \E t \in Thread, form \in Form, query \in Query, matches \in BOOLEAN,
              address \in Address, user \in User :
                BeginPost(t, form, query, matches, address, user)
  BY <1>2, BeginPostStep
<1>3. CASE \E t \in Thread, address \in Address : BeginRegister(t, address)
  BY <1>3, BeginRegisterStep
<1>4. CASE \E t \in Thread : Consume(t) \/ Check(t) \/ Verify(t)
  BY <1>4, ConsumeStep, CheckStep, VerifyStep
<1>5. CASE Tick
  BY <1>5, TickStep
<1>6. CASE Restart
  BY <1>6, RestartStep
<1>7. CASE UNCHANGED vars
  BY <1>7, StutterStep
<1> QED
  BY <1>1, <1>2, <1>3, <1>4, <1>5, <1>6, <1>7 DEF Next

LEMMA Invariance == Spec => []IInv
BY InitIInv, Inductive, PTL DEF Spec

-----------------------------------------------------------------------------
(* The stores, the requests and the history keep their types.              *)
THEOREM GateTypes == Spec => []TypeOK
<1>1. IInv => TypeOK
  BY DEF IInv
<1> QED
  BY <1>1, Invariance, PTL

(* Neither AuthorizeCsrfStore nor OAuthRateLimiter outgrows its cap.       *)
THEOREM CapsHold == Spec => []StoresBounded
<1>1. IInv => StoresBounded
  BY DEF IInv
<1> QED
  BY <1>1, Invariance, PTL

(* consume lets one POST through per form.                                 *)
THEOREM FormsSpentOnce == Spec => []FormSpentOnce
<1>1. IInv => FormSpentOnce
  BY DEF IInv
<1> QED
  BY <1>1, Invariance, PTL

(* A bigger number of windows is a bigger number of ticks.                 *)
LEMMA Scale ==
    \A a, b, c \in Nat : a <= b => a * c <= b * c /\ c * a <= c * b
OBVIOUS

(* check_authorize bounds the rate at which a username is tried.           *)
THEOREM RateHolds == Spec => []TriesBounded
<1>1. ASSUME IInv PROVE TriesBounded
  <2> SUFFICES ASSUME NEW u \in User
               PROVE  tried[u].count * AuthorizeWindow
                        <= AuthorizeLimit
                             * (now + AuthorizeWindow + tried[u].late * AuthorizeWindow)
    BY DEF TriesBounded
  <2> DEFINE c == tried[u].count
             p == tried[u].prompt
             l == tried[u].late
             k == <<"user", u>>
  <2>1. /\ c \in Nat /\ p \in Nat /\ l \in Nat /\ now \in Nat
        /\ AuthorizeLimit \in Nat /\ AuthorizeWindow \in Nat
    BY <1>1, SettingsAssumption DEF IInv, TypeOK, TriedRow
  <2>2. k \in DOMAIN buckets =>
          /\ buckets[k] \in [count: Nat, reset: Nat]
          /\ buckets[k].count <= AuthorizeLimit
          /\ buckets[k].reset <= now + AuthorizeWindow
    BY <1>1 DEF IInv, TypeOK, BucketsInReach, Limit, Window
  <2>3. c <= AuthorizeLimit * (p + l)
    <3>1. IF k \in DOMAIN buckets
          THEN c + AuthorizeLimit <= AuthorizeLimit * (p + l) + buckets[k].count
          ELSE c <= AuthorizeLimit * (p + l)
      BY <1>1 DEF IInv, TriesCounted
    <3> DEFINE allowed == AuthorizeLimit * (p + l)
    <3>2. allowed \in Nat
      BY <2>1, Distribute
    <3> HIDE DEF allowed, c, p, l, k
    <3>3. IF k \in DOMAIN buckets THEN c + AuthorizeLimit <= allowed + buckets[k].count
                                  ELSE c <= allowed
      BY <3>1 DEF allowed
    <3>4. c <= allowed
      BY <2>1, <2>2, <3>2, <3>3
    <3> QED
      BY <3>4 DEF allowed
  <2>4. p * AuthorizeWindow <= now + AuthorizeWindow
    <3> DEFINE apart == p * AuthorizeWindow
    <3>1. apart <= now \/ (k \in DOMAIN buckets /\ apart <= buckets[k].reset)
      BY <1>1 DEF IInv, WindowsApart
    <3>2. apart \in Nat
      BY <2>1, Distribute
    <3> HIDE DEF apart, p, k
    <3>3. apart <= now + AuthorizeWindow
      BY <2>1, <2>2, <3>1, <3>2
    <3> QED
      BY <3>3 DEF apart
  <2> HIDE DEF c, p, l
  <2>5. c * AuthorizeWindow <= (AuthorizeLimit * (p + l)) * AuthorizeWindow
    BY <2>1, <2>3, Scale, Distribute
  <2>6. (AuthorizeLimit * (p + l)) * AuthorizeWindow
          = AuthorizeLimit * (p * AuthorizeWindow + l * AuthorizeWindow)
    BY <2>1
  <2>7. p * AuthorizeWindow \in Nat /\ l * AuthorizeWindow \in Nat
    BY <2>1, Distribute
  <2>8. p * AuthorizeWindow + l * AuthorizeWindow
          <= now + AuthorizeWindow + l * AuthorizeWindow
    BY <2>1, <2>4, <2>7
  <2>9. AuthorizeLimit * (p * AuthorizeWindow + l * AuthorizeWindow)
          <= AuthorizeLimit * (now + AuthorizeWindow + l * AuthorizeWindow)
    BY <2>1, <2>7, <2>8, Scale
  <2> DEFINE lhs == c * AuthorizeWindow
             mid == AuthorizeLimit * (p * AuthorizeWindow + l * AuthorizeWindow)
             rhs == AuthorizeLimit * (now + AuthorizeWindow + l * AuthorizeWindow)
  <2>10. lhs <= mid /\ mid <= rhs
    BY <2>5, <2>6, <2>9
  <2>11. lhs \in Nat /\ mid \in Nat /\ rhs \in Nat
    BY <2>1, <2>7, Distribute
  <2> HIDE DEF lhs, mid, rhs
  <2>12. lhs <= rhs
    BY <2>10, <2>11
  <2> QED
    BY <2>12 DEF lhs, rhs, c, l
<1> QED
  BY <1>1, Invariance, PTL

(* No lock-out is put off: _check never moves the end of a window, nor     *)
(* drops it early, nor forgets an attempt.                                 *)
THEOREM LockoutsEnd == Spec => WindowsStand
<1> DEFINE Stands ==
      Restart \/ \A k \in DOMAIN buckets : now < buckets[k].reset =>
        /\ k \in DOMAIN buckets'
        /\ buckets'[k].reset = buckets[k].reset
        /\ buckets'[k].count >= buckets[k].count
<1>1. ASSUME IInv, [Next]_vars PROVE [Stands]_vars
  <2>1. ASSUME UNCHANGED buckets PROVE Stands
    BY <1>1, <2>1 DEF IInv, TypeOK
  <2>2. ASSUME NEW t \in Thread, Check(t) PROVE Stands
    <3>1. PICK at \in ClockRead(t) :
            LET live == SweptBuckets(at)
                key == KeyOf(req[t])
            IN  IF Admits(live, key, at)
                THEN buckets' = Counted(live, key, at)
                ELSE buckets' = live
      BY <2>2 DEF Check
    <3>2. /\ TypeOK /\ at \in Nat /\ at <= now /\ now \in Nat
      BY <1>1, <2>2, ClockReads DEF IInv, Check, Counting
    <3> SUFFICES ASSUME NEW k \in DOMAIN buckets, now < buckets[k].reset
                 PROVE  /\ k \in DOMAIN buckets'
                        /\ buckets'[k].reset = buckets[k].reset
                        /\ buckets'[k].count >= buckets[k].count
      OBVIOUS
    <3>3. buckets[k].count \in Nat /\ buckets[k].reset \in Nat
      BY <3>2 DEF TypeOK
    <3>4. k \in DOMAIN SweptBuckets(at) /\ SweptBuckets(at)[k] = buckets[k]
      BY <3>2, <3>3, Sweeping
    <3>5. CASE buckets' = SweptBuckets(at)
      BY <3>3, <3>4, <3>5
    <3>6. CASE buckets' = Counted(SweptBuckets(at), KeyOf(req[t]), at)
      <4>1. k \in DOMAIN buckets'
        BY <3>4, <3>6 DEF Counted, Put
      <4>2. CASE k # KeyOf(req[t])
        BY <3>3, <3>4, <3>6, <4>1, <4>2 DEF Counted, Put
      <4>3. CASE k = KeyOf(req[t])
        <5>1. buckets'[k] = [buckets[k] EXCEPT !.count = @ + 1]
          BY <3>4, <3>6, <4>1, <4>3 DEF Counted, Put, Bucket
        <5>2. buckets[k] \in [count: Nat, reset: Nat]
          BY <3>2 DEF TypeOK
        <5> QED
          BY <3>3, <4>1, <5>1, <5>2
      <4> QED
        BY <4>2, <4>3
    <3> QED
      BY <3>1, <3>5, <3>6
  <2> HIDE DEF Stands
  <2>3. Restart => Stands
    BY DEF Stands
  <2> QED
    BY <1>1, <2>1, <2>2, <2>3
    DEF Next, vars, IssueForm, BeginPost, BeginRegister, Consume, Verify, Tick
<1> QED
  BY <1>1, Invariance, PTL DEF Spec, WindowsStand

-----------------------------------------------------------------------------
(* Attempts and forms.  Nothing is owed for a step that passes no form,    *)
(* lets no POST start towards the counters and counts none.                *)
LEMMA PrepaidFrame ==
    ASSUME IInv, AttemptsPrepaid, Paid' = Paid,
           \A t \in Thread : req'[t].pc = req[t].pc \/ req'[t].pc \notin Level,
           \A k \in DOMAIN buckets' : k[1] # "register" =>
               k \in DOMAIN buckets /\ buckets'[k].count = buckets[k].count
    PROVE  AttemptsPrepaid'
<1>1. \A level \in Level : Ahead(level)' \subseteq Ahead(level)
  BY DEF Ahead, UpTo, Level
<1>2. \A level \in Level :
        /\ IsFiniteSet(Ahead(level)')
        /\ Cardinality(Ahead(level)') \in Nat /\ Cardinality(Ahead(level)) \in Nat
        /\ Cardinality(Ahead(level)') <= Cardinality(Ahead(level))
  BY <1>1, FS_Subset, FS_CardinalityType DEF AttemptsPrepaid
<1>3. Cardinality(Paid) \in Nat
  BY FS_CardinalityType DEF AttemptsPrepaid
<1>4. \A level \in Level : Cardinality(Ahead(level)') <= Cardinality(Paid)
  BY <1>2, <1>3 DEF AttemptsPrepaid
<1>5. ASSUME NEW k \in DOMAIN buckets', k[1] # "register"
      PROVE  buckets'[k].count + Cardinality(Ahead(k[1])') <= Cardinality(Paid)
  <2>1. k \in DOMAIN buckets /\ buckets'[k].count = buckets[k].count
    BY <1>5
  <2>2. k \in Key /\ buckets[k].count \in Nat
    BY <2>1 DEF IInv, TypeOK
  <2>3. k[1] \in Level
    BY <1>5, <2>2 DEF Key, Level
  <2>4. buckets[k].count + Cardinality(Ahead(k[1])) <= Cardinality(Paid)
    BY <1>5, <2>1 DEF AttemptsPrepaid
  <2> QED
    BY <1>2, <1>3, <2>1, <2>2, <2>3, <2>4
<1> QED
  BY <1>2, <1>4, <1>5 DEF AttemptsPrepaid

(* A form that lets its POST through pays for one attempt of each kind.    *)
LEMMA FormPays ==
    ASSUME IInv, AttemptsPrepaid, NEW t \in Thread, Consume(t)
    PROVE  AttemptsPrepaid'
<1>1. /\ TypeOK /\ req[t].pc = "consume" /\ UNCHANGED buckets
  BY DEF IInv, Consume
<1>2. CASE Reply(t) /\ UNCHANGED shown
  <2>1. /\ req'[t].pc = "idle"
        /\ \A u \in Thread : u # t => req'[u] = req[u]
    BY <1>1, <1>2, ReplyStep
  <2>2. Paid' = Paid
    BY <1>2 DEF Paid
  <2> QED
    BY <1>1, <2>1, <2>2, PrepaidFrame DEF Level
<1>3. CASE Goto(t, "address") /\ Passed(req[t].form) /\ req[t].form \in DOMAIN forms
  <2> DEFINE f == req[t].form
  <2>1. /\ req'[t].pc = "address"
        /\ \A u \in Thread : u # t => req'[u] = req[u]
    BY <1>1, <1>3, GotoStep
  <2>2. f \in DOMAIN shown /\ shown[f].passed = 0 /\ shown[f] \in ShownRow
    BY <1>3 DEF IInv, StoredFormsUnspent, TypeOK
  <2>3. /\ DOMAIN shown' = DOMAIN shown
        /\ \A g \in DOMAIN shown : g # f => shown'[g] = shown[g]
        /\ shown'[f].passed = 1
    <3>1. shown'[f] = [shown[f] EXCEPT !.passed = 1]
      BY <1>3, <2>2 DEF Passed
    <3> QED
      BY <1>3, <2>2, <3>1 DEF Passed, ShownRow
  <2>4. Paid' = Paid \cup {f} /\ f \notin Paid
    BY <2>2, <2>3 DEF Paid
  <2>5. /\ IsFiniteSet(Paid') /\ Cardinality(Paid') = Cardinality(Paid) + 1
        /\ Cardinality(Paid) \in Nat
    BY <2>4, FS_AddElement, FS_CardinalityType DEF AttemptsPrepaid
  <2>6. ASSUME NEW level \in Level
        PROVE  /\ IsFiniteSet(Ahead(level)')
               /\ Cardinality(Ahead(level)') = Cardinality(Ahead(level)) + 1
               /\ Cardinality(Ahead(level)) \in Nat
    <3>1. Ahead(level)' = Ahead(level) \cup {t} /\ t \notin Ahead(level)
      BY <1>1, <2>1 DEF Ahead, UpTo, Level
    <3> QED
      BY <3>1, FS_AddElement, FS_CardinalityType DEF AttemptsPrepaid
  <2>7. \A level \in Level : Cardinality(Ahead(level)') <= Cardinality(Paid')
    BY <2>5, <2>6 DEF AttemptsPrepaid
  <2>8. ASSUME NEW k \in DOMAIN buckets, k[1] # "register"
        PROVE  buckets[k].count + Cardinality(Ahead(k[1])') <= Cardinality(Paid')
    <3>1. k \in Key /\ buckets[k].count \in Nat
      BY <1>1 DEF TypeOK
    <3>2. k[1] \in Level
      BY <2>8, <3>1 DEF Key, Level
    <3>3. buckets[k].count + Cardinality(Ahead(k[1])) <= Cardinality(Paid)
      BY <2>8 DEF AttemptsPrepaid
    <3> QED
      BY <2>5, <2>6, <3>1, <3>2, <3>3
  <2> QED
    BY <1>1, <2>5, <2>6, <2>7, <2>8 DEF AttemptsPrepaid
<1> QED
  BY <1>2, <1>3 DEF Consume, SweptForms, Keep

(* An attempt that is counted is one of those its bucket had yet to count. *)
LEMMA CountSpends ==
    ASSUME IInv, AttemptsPrepaid, NEW t \in Thread, Check(t)
    PROVE  AttemptsPrepaid'
<1>1. PICK at \in ClockRead(t) :
        LET live == SweptBuckets(at)
            key == KeyOf(req[t])
        IN  IF Admits(live, key, at)
            THEN buckets' = Counted(live, key, at) /\ Advance(t)
            ELSE buckets' = live /\ Reply(t)
  BY DEF Check
<1>2. /\ req[t].pc \in Counting /\ UNCHANGED shown /\ TypeOK /\ BucketsInReach
      /\ Paid' = Paid
  BY DEF Check, IInv, Paid
<1>3. at \in Nat /\ at <= now
  BY <1>2, ClockReads DEF Counting
<1> DEFINE live == SweptBuckets(at)
           key == KeyOf(req[t])
<1>4. /\ DOMAIN live \subseteq DOMAIN buckets
      /\ \A k \in DOMAIN live : live[k] = buckets[k]
  BY <1>2, <1>3, Sweeping
<1>5. CASE buckets' = live /\ Reply(t)
  <2>1. /\ req'[t].pc = "idle"
        /\ \A u \in Thread : u # t => req'[u] = req[u]
    BY <1>2, <1>5, ReplyStep
  <2> QED
    BY <1>2, <1>4, <1>5, <2>1, PrepaidFrame DEF Level
<1>6. CASE Admits(live, key, at) /\ buckets' = Counted(live, key, at) /\ Advance(t)
  <2>1. CASE req[t].pc = "register"
    <3>1. /\ req'[t].pc = "idle"
          /\ \A u \in Thread : u # t => req'[u] = req[u]
      BY <1>2, <1>6, <2>1, ReplyStep DEF Advance
    <3>2. key[1] = "register"
      BY <2>1 DEF KeyOf
    <3>3. \A k \in DOMAIN buckets' : k[1] # "register" =>
            k \in DOMAIN buckets /\ buckets'[k].count = buckets[k].count
      BY <1>4, <1>6, <3>2 DEF Counted, Put
    <3> QED
      BY <1>2, <3>1, <3>3, PrepaidFrame DEF Level
  <2>2. CASE req[t].pc \in Level
    <3> DEFINE own == req[t].pc
    <3>1. PICK next \in {"client", "user", "verify"} :
            /\ Goto(t, next)
            /\ own = "address" => next = "client"
            /\ own = "client" => next = "user"
            /\ own = "user" => next = "verify"
      BY <1>6, <2>2 DEF Advance, Level
    <3>2. /\ req'[t].pc = next
          /\ \A u \in Thread : u # t => req'[u] = req[u]
      BY <1>2, <2>2, <3>1, GotoStep DEF Level
    <3>3. req[t] \in Posting
      BY <1>2, <2>2, Shapes DEF Level
    <3>4. key \in Key /\ key[1] = own
      BY <2>2, <3>3, QueryAssumption DEF KeyOf, Key, Posting, Level
    <3>5. /\ DOMAIN buckets' = DOMAIN live \cup {key}
          /\ \A k \in DOMAIN live : k # key => buckets'[k] = buckets[k]
          /\ key \in DOMAIN live => buckets'[key].count = buckets[key].count + 1
          /\ key \notin DOMAIN live => buckets'[key].count = 1
      BY <1>2, <1>3, <1>6, <3>4, Admission
    <3>6. ASSUME NEW level \in Level
          PROVE  /\ IsFiniteSet(Ahead(level)')
                 /\ Cardinality(Ahead(level)') \in Nat /\ Cardinality(Ahead(level)) \in Nat
                 /\ Cardinality(Ahead(level)') <= Cardinality(Ahead(level))
                 /\ level = own => Cardinality(Ahead(level)') = Cardinality(Ahead(level)) - 1
      <4>1. Ahead(level)' \subseteq Ahead(level)
        BY <2>2, <3>1, <3>2 DEF Ahead, UpTo, Level
      <4>2. level = own => Ahead(level)' = Ahead(level) \ {t} /\ t \in Ahead(level)
        BY <2>2, <3>1, <3>2 DEF Ahead, UpTo, Level
      <4>3. IsFiniteSet(Ahead(level))
        BY DEF AttemptsPrepaid
      <4>4. /\ IsFiniteSet(Ahead(level)') /\ Cardinality(Ahead(level)) \in Nat
            /\ Cardinality(Ahead(level)') <= Cardinality(Ahead(level))
        BY <4>1, <4>3, FS_Subset, FS_CardinalityType
      <4>5. Cardinality(Ahead(level)') \in Nat
        BY <4>4, FS_CardinalityType
      <4>6. level = own => Cardinality(Ahead(level)') = Cardinality(Ahead(level)) - 1
        BY <4>2, <4>3, FS_RemoveElement
      <4> QED
        BY <4>4, <4>5, <4>6
    <3>7. Cardinality(Paid) \in Nat
      BY FS_CardinalityType DEF AttemptsPrepaid
    <3>8. \A level \in Level : Cardinality(Ahead(level)') <= Cardinality(Paid)
      BY <3>6, <3>7 DEF AttemptsPrepaid
    <3>9. ASSUME NEW k \in DOMAIN buckets', k[1] # "register"
          PROVE  buckets'[k].count + Cardinality(Ahead(k[1])') <= Cardinality(Paid)
      <4>1. CASE k \in DOMAIN live
        <5>1. k \in DOMAIN buckets /\ k \in Key /\ buckets[k].count \in Nat
          BY <1>2, <1>4, <4>1 DEF TypeOK
        <5>2. k[1] \in Level
          BY <3>9, <5>1 DEF Key, Level
        <5>3. buckets[k].count + Cardinality(Ahead(k[1])) <= Cardinality(Paid)
          BY <3>9, <5>1 DEF AttemptsPrepaid
        <5>4. CASE k = key
          BY <3>4, <3>5, <3>6, <3>7, <4>1, <5>1, <5>2, <5>3, <5>4
        <5>5. CASE k # key
          BY <3>5, <3>6, <3>7, <4>1, <5>1, <5>2, <5>3, <5>5
        <5> QED
          BY <5>4, <5>5
      <4>2. CASE k \notin DOMAIN live
        <5>1. k = key /\ buckets'[k].count = 1 /\ k[1] = own
          BY <3>4, <3>5, <3>9, <4>2
        <5>2. Cardinality(Ahead(own)) <= Cardinality(Paid)
          BY <2>2 DEF AttemptsPrepaid
        <5> QED
          BY <2>2, <3>6, <3>7, <5>1, <5>2
      <4> QED
        BY <4>1, <4>2
    <3> QED
      BY <1>2, <3>6, <3>8, <3>9 DEF AttemptsPrepaid
  <2> QED
    BY <1>2, <2>1, <2>2 DEF Counting, Level
<1> QED
  BY <1>1, <1>5, <1>6

LEMMA PrepaidStep ==
    ASSUME IInv, AttemptsPrepaid, [Next]_vars
    PROVE  AttemptsPrepaid'
<1>1. ASSUME NEW query \in Query, NEW form \in Form, IssueForm(query, form)
      PROVE  AttemptsPrepaid'
  <2>1. form \notin DOMAIN shown /\ UNCHANGED <<buckets, req>>
    BY <1>1 DEF IssueForm
  <2>2. CASE UNCHANGED shown
    BY <2>1, <2>2, PrepaidFrame DEF Paid
  <2>3. CASE shown' = Put(shown, form, [query |-> query, passed |-> 0])
    <3>1. Paid' = Paid
      BY <2>1, <2>3 DEF Paid, Put
    <3> QED
      BY <2>1, <3>1, PrepaidFrame
  <2> QED
    BY <1>1, <2>2, <2>3 DEF IssueForm
<1>2. ASSUME NEW t \in Thread, req'[t].pc \notin Level, UNCHANGED <<buckets, shown>>,
             \A u \in Thread : u # t => req'[u] = req[u]
      PROVE  AttemptsPrepaid'
  <2>1. Paid' = Paid
    BY <1>2 DEF Paid
  <2> QED
    BY <1>2, <2>1, PrepaidFrame
<1>3. ASSUME NEW t \in Thread, NEW form \in Form, NEW query \in Query,
             NEW matches \in BOOLEAN, NEW address \in Address, NEW user \in User,
             BeginPost(t, form, query, matches, address, user)
      PROVE  AttemptsPrepaid'
  <2>1. req'[t].pc = "consume" /\ \A u \in Thread : u # t => req'[u] = req[u]
    BY <1>3 DEF BeginPost, IInv, TypeOK
  <2> QED
    BY <1>2, <1>3, <2>1 DEF BeginPost, Level
<1>4. ASSUME NEW t \in Thread, NEW address \in Address, BeginRegister(t, address)
      PROVE  AttemptsPrepaid'
  <2>1. req'[t].pc = "register" /\ \A u \in Thread : u # t => req'[u] = req[u]
    BY <1>4 DEF BeginRegister, IInv, TypeOK
  <2> QED
    BY <1>2, <1>4, <2>1 DEF BeginRegister, Level
<1>5. ASSUME NEW t \in Thread, Verify(t)
      PROVE  AttemptsPrepaid'
  <2>1. req'[t].pc = "idle" /\ \A u \in Thread : u # t => req'[u] = req[u]
    BY <1>5, ReplyStep DEF Verify, IInv
  <2> QED
    BY <1>2, <1>5, <2>1 DEF Verify, Level
<1>6. CASE Restart
  <2>1. DOMAIN buckets' = {} /\ (\A u \in Thread : req'[u].pc = "idle") /\ Paid' = Paid
    BY <1>6 DEF Restart, Idle, Paid
  <2> QED
    BY <2>1, PrepaidFrame DEF Level
<1>7. CASE Tick \/ UNCHANGED vars
  <2>1. UNCHANGED <<buckets, req, shown>> /\ Paid' = Paid
    BY <1>7 DEF Tick, vars, Paid
  <2> QED
    BY <2>1, PrepaidFrame
<1> QED
  BY <1>1, <1>3, <1>4, <1>5, <1>6, <1>7, FormPays, CountSpends DEF Next

(* No attempt is counted, nor a password tried after it, that a form of    *)
(* its own has not paid for: consume comes before the counters, and pops.  *)
THEOREM AttemptsPaid == Spec => []AttemptsCostForms
<1>1. Init => AttemptsPrepaid
  <2> SUFFICES ASSUME Init PROVE AttemptsPrepaid
    OBVIOUS
  <2>1. Paid = {} /\ DOMAIN buckets = {}
    BY DEF Init, Paid
  <2>2. \A level \in Level : Ahead(level) = {}
    BY DEF Init, Idle, Ahead, UpTo, Level
  <2> QED
    BY <2>1, <2>2, FS_EmptySet DEF AttemptsPrepaid
<1>2. IInv /\ AttemptsPrepaid /\ [Next]_vars => AttemptsPrepaid'
  BY PrepaidStep
<1>3. IInv /\ AttemptsPrepaid => AttemptsCostForms
  <2> SUFFICES ASSUME IInv, AttemptsPrepaid, NEW k \in DOMAIN buckets, k[1] # "register"
               PROVE  buckets[k].count <= Cardinality(Paid)
    BY DEF AttemptsCostForms, Paid
  <2>1. k \in Key /\ buckets[k].count \in Nat
    BY DEF IInv, TypeOK
  <2>2. k[1] \in Level
    BY <2>1 DEF Key, Level
  <2>3. Cardinality(Ahead(k[1])) \in Nat /\ Cardinality(Paid) \in Nat
    BY <2>2, FS_CardinalityType DEF AttemptsPrepaid
  <2>4. buckets[k].count + Cardinality(Ahead(k[1])) <= Cardinality(Paid)
    BY DEF AttemptsPrepaid
  <2> QED
    BY <2>1, <2>3, <2>4
<1> QED
  BY <1>1, <1>2, <1>3, Invariance, PTL DEF Spec
=============================================================================
