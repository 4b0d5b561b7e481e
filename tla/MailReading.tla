---------------------------- MODULE MailReading ----------------------------
(***************************************************************************)
(* The reading tools beside each other on one folder: pages (Paging),      *)
(* searches (MailSearch), messages and their attachments (MailContent) and *)
(* folder names (FolderNames), and what the controller adds to their       *)
(* answers.  Every call is a session of its own; none of them changes what *)
(* they read, so that between two calls only the folder moves.             *)
(***************************************************************************)
EXTENDS Paging, MailSearch, MailContent, FolderNames

CONSTANTS
    Fields,       \* the fields search_mail is called with, the query first
    Mail,         \* messages a UID may stand for
    MaxParts,     \* bound on their parts
    MaxHeaders,   \* bound on the length of a header block
    MaxChars,     \* the values of max_chars
    Folder        \* names of folders the account may have

ASSUME ReadingAssumption ==
    /\ MaxParts \in Nat /\ MaxHeaders \in Nat /\ MaxChars \subseteq Nat \ {0}
    /\ \A fields \in Fields : SearchMailCriteria(fields) \in Tree
    /\ Mail \subseteq Seq(Part)
    /\ \A name \in Folder : name \in Seq(ToSet(name))

VARIABLES
    told,         \* the last answer of a reading tool other than list_emails
    offer         \* the message read_email was last told of, and its listing

readingVars == <<told, offer>>
vars == <<box, newest, limit, offset, view, page, seen, start, gone, told, offer>>

-----------------------------------------------------------------------------
Nothing == [tool |-> "none"]

Init == PagingInit /\ told = Nothing /\ offer = Nothing

Failure(code) == [tool |-> "failed", code |-> code]

Tell(answer) == told' = answer

(* Bound: one question at a time, and none while a walk is under way.  An  *)
(* attachment is asked for after a listing, and the folder may move before.*)
MayAsk == limit = 0 /\ told = Nothing /\ offer = Nothing
MayAskMore == limit = 0 /\ told = Nothing /\ offer # Nothing

(* Bound: no walk begins before it is.                                     *)
MayMove == told = Nothing /\ (offer # Nothing => limit' = limit)

(* The answers that come of the connection and of SELECT, in any tool.     *)
ReadFails ==
    /\ MayAsk
    /\ Tell(Failure("not_found")) \/ Tell(Failure("backend_unavailable"))
    /\ UNCHANGED <<pagingVars, offer>>

Limited(uids, count) == SubSeq(uids, 1, IF Len(uids) > count THEN count ELSE Len(uids))

(* search_emails, also on behalf of search_mail: a limit or a tree that is *)
(* refused stops it before it connects; the server answers in an order of  *)
(* its own.                                                                *)
Search(criteria, count) ==
    IF count = 0 \/ count > MaxLimit \/ ~WellFormed[criteria]
    THEN Tell(Failure("invalid_input"))
    ELSE \E ids \in SetToSeqs(Selected(Compile[criteria], box)) :
           Tell([tool |-> "search_emails", criteria |-> criteria, count |-> count,
                 matches |-> Meaning(criteria, box), uids |-> Limited(ids, count)])

SearchEmails ==
    /\ MayAsk
    /\ \E criteria \in Tree, count \in 0..(MaxLimit + 1) : Search(criteria, count)
    /\ UNCHANGED <<pagingVars, offer>>

SearchMail ==
    /\ MayAsk
    /\ \E fields \in Fields, count \in 1..MaxLimit : Search(SearchMailCriteria(fields), count)
    /\ UNCHANGED <<pagingVars, offer>>

(* Mutant of Truncated: more than was asked for, of what has been cut.     *)
Truncated_More(body, count) == Len(body) > count

(* The controller's out["truncated"], computed of the body already cut.    *)
Truncated(body, count) == Len(body) >= count

(* Bound: the message asked for is the one that came last; it may be gone. *)
Fetched == newest \in box

(* What keeps read_email from an answer.                                   *)
Unreadable(mail) ==
    CASE ~Fetched          -> "not_found"
      [] Undecodable(mail) -> "backend_unavailable"
      [] Unlistable(mail)  -> "invalid_input"
      [] OTHER             -> "no"

(* read_email, and the flag call_tool's dispatch adds.                     *)
ReadEmail ==
    /\ MayAsk
    /\ \E mail \in Mail, count \in MaxChars :
         \/ /\ Unreadable(mail) # "no"
            /\ Tell(Failure(Unreadable(mail)))
            /\ UNCHANGED offer
         \/ /\ Unreadable(mail) = "no"
            /\ LET body == Limited(Body(mail), count) IN
                 Tell([tool |-> "read_email", mail |-> mail, body |-> body,
                       truncated |-> Truncated(body, count)])
            /\ offer' = [tool |-> "read_email", uid |-> newest, mail |-> mail,
                         listing |-> Listing(mail)]
    /\ UNCHANGED pagingVars

(* get_email_headers; of the headers only their length tells.              *)
GetEmailHeaders ==
    /\ MayAsk
    /\ \E size \in 0..MaxHeaders, count \in MaxChars :
         LET headers == [i \in 1..size |-> i] IN
         IF ~Fetched THEN Tell(Failure("not_found"))
         ELSE Tell([tool |-> "get_email_headers", headers |-> Limited(headers, count),
                    whole |-> headers, truncated |-> Len(headers) > count])
    /\ UNCHANGED <<pagingVars, offer>>

(* get_email_attachment of the message last read; it may be gone by now.   *)
GetEmailAttachment ==
    /\ MayAskMore
    /\ \E id \in 1..(MaxParts + 1) :
         Tell([tool |-> "get_email_attachment", id |-> id,
               is |-> IF offer.uid \in box THEN Retrieved(offer.mail, id) ELSE "not_found",
               there |-> offer.uid \in box])
    /\ UNCHANGED <<pagingVars, offer>>

(* list_folders gives a name, which a client then has a tool open.         *)
ListFolders ==
    /\ MayAsk
    /\ \E name \in Folder, quoted \in BOOLEAN :
         /\ MustQuote(name) => quoted
         /\ Tell([tool |-> "list_folders", folder |-> name,
                  name |-> ParseListFolderName(ListLine(name, quoted)), opens |-> {name}])
    /\ UNCHANGED <<pagingVars, offer>>

OpenFolder ==
    /\ told.tool = "list_folders"
    /\ Tell(IF Given(told.name) = << >> THEN Failure("invalid_input")
            ELSE [told EXCEPT !.tool = "opened",
                              !.opens = Opened(EncodeMailboxName(Given(told.name)), Folder)])
    /\ UNCHANGED <<pagingVars, offer>>

(* The client has taken note of the answer, or turns to something else.    *)
(* Bound: only the listings of messages of several parts are followed up.  *)
Noted ==
    /\ told # Nothing
    /\ told' = Nothing
    /\ \/ offer' = Nothing
       \/ offer # Nothing /\ Len(offer.mail) > 1 /\ UNCHANGED offer
    /\ UNCHANGED pagingVars

Move == MayMove /\ PagingNext /\ UNCHANGED readingVars

Next ==
    \/ Move
    \/ SearchEmails \/ SearchMail
    \/ ReadEmail \/ GetEmailHeaders \/ GetEmailAttachment
    \/ ListFolders \/ OpenFolder
    \/ ReadFails \/ Noted

Spec == Init /\ [][Next]_vars

-----------------------------------------------------------------------------
(* A search gives the messages its criteria describe and no others, as     *)
(* many as there are or as were asked for: not, or and nested and survive  *)
(* the way through the words of the protocol.                              *)
SearchExact ==
    told.tool = "search_emails" =>
        /\ ToSet(told.uids) \subseteq told.matches
        /\ \/ Len(told.uids) = Cardinality(told.matches)
           \/ Len(told.uids) = told.count /\ told.count < Cardinality(told.matches)

(* An attachment listed as retrievable is given out by the call that       *)
(* follows, unless the message has gone; one listed as blocked, or not     *)
(* listed, never is.                                                       *)
OffersHold ==
    told.tool = "get_email_attachment" =>
        LET offered == told.id \in DOMAIN offer.listing /\ offer.listing[told.id]
        IN told.is = "result" <=> told.there /\ offered

(* Whoever is shown less than the message has is told so, in the body and  *)
(* in the headers.                                                         *)
CutIsTold ==
    /\ told.tool = "read_email" /\ Len(told.body) < Len(Body(told.mail)) => told.truncated
    /\ told.tool = "get_email_headers" => (told.truncated <=> told.headers # told.whole)

(* Of an HTML body whose tags nest, all that lies outside the invisible    *)
(* containers is shown, as far as it is not cut, and nothing inside them.  *)
HiddenStaysHidden ==
    told.tool = "read_email" /\ BodyPart(told.mail) # 0 =>
        LET part == told.mail[BodyPart(told.mail)] IN
        part.type = "text/html" /\ Nests(part.text) =>
            /\ ToSet(told.body) \subseteq Visible(part.text)
            /\ ToSet(told.body) = Visible(part.text) \/ told.truncated

(* The name list_folders gives a folder opens that folder, whatever        *)
(* quotes, backslashes and blanks it holds; blanks at its ends excepted,   *)
(* which the tools take off.                                               *)
NamesOpen ==
    told.tool = "opened" /\ told.folder = Strip(told.folder) => told.opens = {told.folder}
=============================================================================
