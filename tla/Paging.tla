------------------------------- MODULE Paging -------------------------------
(***************************************************************************)
(* A client walks a folder page by page with list_emails (read_tools.py),  *)
(* newest mail first.  Every page is a session of its own: SELECT tells    *)
(* how many messages there are, sequence numbers are counted back from     *)
(* that, and FETCH asks for them.  Between pages, and between SELECT and   *)
(* FETCH, mail arrives and other sessions expunge.                         *)
(***************************************************************************)
EXTENDS Integers, Sequences, FiniteSets, SequencesExt

CONSTANTS
    MaxUid,       \* bound on the UIDs handed out
    MaxNews,      \* bound on the flag answers the server sends with a page
    MaxLimit      \* MAX_RESULTS

ASSUME PagingAssumption == MaxUid \in Nat /\ MaxNews \in Nat /\ MaxLimit \in Nat \ {0}

VARIABLES
    box,          \* the UIDs in the folder; a later message has a higher one
    newest,       \* the highest UID handed out
    limit,        \* the page size of the walk; 0 when there is none
    offset,       \* the offset of the next page
    view,         \* the messages FETCH is to ask for, once SELECT has answered
    page,         \* the UIDs of the last page, as returned
    seen,         \* the UIDs the walk has returned so far
    start,        \* history: the folder when the walk began
    gone          \* history: messages expunged since

folderVars == <<box, newest>>
walkVars == <<limit, offset, start>>
pagingVars == <<box, newest, limit, offset, view, page, seen, start, gone>>

-----------------------------------------------------------------------------
PagingInit ==
    /\ box = {}
    /\ newest = 0
    /\ limit = 0 /\ offset = 0
    /\ view = {} /\ page = << >> /\ seen = {}
    /\ start = {} /\ gone = 0

(* The sequence number of a message.                                       *)
Number(uid) == Cardinality({v \in box : v <= uid})

(* Mutant of PageRange: the last message before the offset is left out.    *)
PageRange_OffByOne ==
    LET endSequence == Cardinality(box) - offset - 1
        startSequence == endSequence - limit + 1
    IN {u \in box : startSequence <= Number(u) /\ Number(u) <= endSequence}

(* The window of sequence numbers; no number is below 1.                   *)
PageRange ==
    LET endSequence == Cardinality(box) - offset
        startSequence == endSequence - limit + 1
    IN {u \in box : startSequence <= Number(u) /\ Number(u) <= endSequence}

Arrive ==
    /\ newest < MaxUid
    /\ newest' = newest + 1
    /\ box' = box \cup {newest'}
    /\ UNCHANGED <<walkVars, view, page, seen, gone>>

Expunge(u) ==
    /\ box' = box \ {u}
    /\ gone' = IF limit = 0 THEN 0 ELSE gone + 1
    /\ UNCHANGED <<newest, walkVars, view, page, seen>>

(* Mutant of StartWalk: limit > MAX_RESULTS is not tested.                 *)
StartWalk_AnyLimit ==
    /\ limit = 0
    /\ limit' \in 1..(MaxLimit + 1)
    /\ start' = box
    /\ UNCHANGED <<folderVars, offset, view, page, seen, gone>>

StartWalk ==
    /\ limit = 0
    /\ limit' \in 1..MaxLimit
    /\ start' = box
    /\ UNCHANGED <<folderVars, offset, view, page, seen, gone>>

(* SELECT.  Nothing is fetched from an empty folder or beyond its end.     *)
SelectFolder ==
    /\ limit # 0
    /\ view = {}
    /\ IF offset >= Cardinality(box)
       THEN page' = << >> /\ UNCHANGED view
       ELSE view' = PageRange /\ UNCHANGED page
    /\ UNCHANGED <<folderVars, walkVars, seen, gone>>

(* The server numbers what the session sees, and mail that arrives since   *)
(* comes last; of the numbers only the order counts.  The answer to FETCH  *)
(* carries the header, news of a message's flags does not.  A server gives *)
(* each header once, and expunges nothing of the session's view while it   *)
(* answers (RFC 3501, 7.4.1).                                              *)
SequenceNumber(uid) == Cardinality({v \in view \cup box : v <= uid})

FetchAnswer(uid, header) ==
    [uid |-> uid, number |-> SequenceNumber(uid), header |-> header]

FetchAnswers(answered, news) ==
    {FetchAnswer(u, TRUE) : u \in answered} \cup {FetchAnswer(u, FALSE) : u \in news}

(* Mutant of NewestFirst: the answers are only turned round.               *)
NewestFirst_Reversed(answers) ==
    LET records == SelectSeq(answers, LAMBDA a : a.header)
    IN [i \in 1..Len(records) |-> Reverse(records)[i].uid]

(* The stable sort of _email_summaries_from_fetch: by number, the highest  *)
(* first, and answers of one number in the order they came.                *)
Precedes(answers, j, k) ==
    \/ answers[j].number > answers[k].number
    \/ answers[j].number = answers[k].number /\ j <= k

(* _email_summaries_from_fetch: answers without a header are passed over.  *)
NewestFirst(answers) ==
    LET records == {k \in DOMAIN answers : answers[k].header}
        rank(k) == Cardinality({j \in records : Precedes(answers, j, k)})
    IN [i \in 1..Cardinality(records) |-> answers[CHOOSE k \in records : rank(k) = i].uid]

(* FETCH.  The server answers in any order, for what has been expunged     *)
(* since SELECT or not, and has news of any message in between.  The       *)
(* client asks for the next page.                                          *)
FetchPage ==
    /\ view # {}
    /\ \E answered \in SUBSET view, news \in SUBSET box :
         /\ view \cap box \subseteq answered
         /\ Cardinality(news) <= MaxNews
         /\ \E answers \in SetToSeqs(FetchAnswers(answered, news)) :
              page' = NewestFirst(answers)
    /\ seen' = seen \cup ToSet(page')
    /\ offset' = offset + limit
    /\ view' = {}
    /\ UNCHANGED <<folderVars, limit, start, gone>>

(* The session breaks before the answer; the client asks again.            *)
FetchFails ==
    /\ view # {}
    /\ view' = {}
    /\ UNCHANGED <<folderVars, walkVars, page, seen, gone>>

EndWalk ==
    /\ limit # 0
    /\ view = {}
    /\ limit' = 0 /\ offset' = 0 /\ seen' = {} /\ start' = {} /\ gone' = 0
    /\ page' = << >>
    /\ UNCHANGED <<folderVars, view>>

PagingNext ==
    \/ Arrive
    \/ \E u \in box : Expunge(u)
    \/ StartWalk \/ SelectFolder \/ FetchPage \/ FetchFails \/ EndWalk

PagingSpec == PagingInit /\ [][PagingNext]_pagingVars

-----------------------------------------------------------------------------
PagingTypeOK ==
    /\ newest \in Nat
    /\ box \subseteq 1..newest
    /\ limit \in 0..MaxLimit
    /\ offset \in Nat
    /\ view \subseteq 1..newest /\ seen \subseteq 1..newest /\ start \subseteq 1..newest
    /\ gone \in Nat
    /\ limit = 0 => offset = 0 /\ view = {} /\ seen = {} /\ start = {} /\ gone = 0

(* How many messages are at least as new.                                  *)
Depth(uid) == Cardinality(box) + 1 - Number(uid)

(* Messages of the start that the walk has left behind unseen, when it has *)
(* come as deep as n and has seen s.                                       *)
LeftBehind(n, s) == {u \in start \cap box : u \notin s /\ Depth(u) <= n}

(* Arriving mail never hides a message from the walk, whatever its timing; *)
(* each message expunged under it may hide one.  At the end of the folder  *)
(* all depths are below the offset: nothing else is missing.               *)
SkipsBounded == Cardinality(LeftBehind(offset, seen)) <= gone

(* A page is newest first and names no message twice, in whatever order    *)
(* the server has answered and whatever else it had to tell: the numbers   *)
(* sorted by are those of the UIDs returned.                               *)
PageNewestFirst == \A i, j \in 1..Len(page) : i < j => page[i] > page[j]

(* Why: once SELECT has fixed the window, the same holds for the messages  *)
(* it will return.                                                         *)
WindowCloses ==
    view # {} => Cardinality(LeftBehind(offset + limit, seen \cup view)) <= gone

PagingInv == PagingTypeOK /\ SkipsBounded /\ WindowCloses
=============================================================================
