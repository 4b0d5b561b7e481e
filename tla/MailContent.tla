---------------------------- MODULE MailContent ----------------------------
(***************************************************************************)
(* What the reading tools make of one message (read_tools.py): the body    *)
(* read_email shows, the attachments it lists, and what                    *)
(* get_email_attachment gives out under the policy of attachments.py.      *)
(*                                                                         *)
(* A message is its parts in the order of walk(); the identifier of a part *)
(* is its place there.  The text of a part is a sequence of tokens, each   *)
(* one unit long; blank text stands as the empty one.                      *)
(***************************************************************************)
EXTENDS Integers, Sequences, FiniteSets, SequencesExt, Sorting

CONSTANT MaxSize      \* attachment_policy.max_bytes

(* Python's parser decodes every part that is not a container, lower-cases *)
(* the type and takes the blanks off a file name; so is it here.           *)
Type == {"text/plain", "text/html", "script", "other", "malformed"}
Name == {"none", "good", "script", "bad"}

Part == [multi: BOOLEAN, type: Type, attached: BOOLEAN, name: Name,
         charset: {"known", "unknown"}, text: Seq([kind: {"data", "start", "end", "startend"},
                                                   tag: {"", "head", "svg", "meta", "p"}])]

BlockedTypes == {"text/html", "script"}

Size(part) == Len(part.text)

-----------------------------------------------------------------------------
(* _SimpleMarkdownHTMLParser; headings, bold and line breaks are left out. *)
IgnoredContainer == {"head", "svg"}

(* Mutant of StartEnd: a tag closed at once counts as an opened one.       *)
StartEnd_Opens(depth, tag) == IF tag \in IgnoredContainer THEN depth + 1 ELSE depth

StartEnd(depth, tag) == depth

(* _ignored_depth after a token.                                           *)
Deeper(depth, token) ==
    CASE token.kind = "start" /\ token.tag \in IgnoredContainer -> depth + 1
      [] token.kind = "end" /\ token.tag \in IgnoredContainer   -> IF depth > 0 THEN depth - 1 ELSE 0
      [] token.kind = "startend"                                -> StartEnd(depth, token.tag)
      [] OTHER                                                  -> depth

(* The places of the data _html_to_markdown keeps.                         *)
Markdown(text) ==
    LET depth[i \in 0..Len(text)] == IF i = 0 THEN 0 ELSE Deeper(depth[i - 1], text[i])
    IN Ascending({i \in 1..Len(text) : text[i].kind = "data" /\ depth[i] = 0})

(* The places shown of a part's text.                                      *)
ShownOf(part) ==
    IF part.type = "text/html" THEN Markdown(part.text) ELSE [i \in DOMAIN part.text |-> i]

(* _extract_plain_text looks at the parts one by one and stops at the      *)
(* first plain text; decoding takes a charset Python knows.                *)
Plain(mail) == {k \in DOMAIN mail : mail[k].type = "text/plain" /\ mail[k].text # << >>}
Html(mail)  == {k \in DOMAIN mail : mail[k].type = "text/html" /\ mail[k].text # << >>}

First(places) == CHOOSE k \in places : \A j \in places : k <= j

(* The part the body comes from; 0 when there is none.                     *)
BodyPart(mail) ==
    CASE Len(mail) = 1 /\ ~mail[1].multi -> 1
      [] OTHER -> IF Plain(mail) # {} THEN First(Plain(mail))
                  ELSE IF Html(mail) # {} THEN First(Html(mail)) ELSE 0

Undecodable(mail) ==
    \E k \in DOMAIN mail :
        /\ mail[k].charset = "unknown" /\ mail[k].text # << >>
        /\ \A j \in Plain(mail) : k <= j

Body(mail) == IF BodyPart(mail) = 0 THEN << >> ELSE ShownOf(mail[BodyPart(mail)])

-----------------------------------------------------------------------------
IsAttachment(part) == ~part.multi /\ (part.attached \/ part.name # "none")

(* policy_block_reason *)
PolicyBlocks(part) == part.type \in BlockedTypes \/ part.name = "script"

(* _attachment_summaries: what is offered.  The type is only looked at     *)
(* when the name is valid, and a malformed one then fails read_email.      *)
Unlistable(mail) ==
    \E k \in DOMAIN mail :
        IsAttachment(mail[k]) /\ mail[k].name # "bad" /\ mail[k].type = "malformed"

Retrievable(part) == part.name # "bad" /\ ~PolicyBlocks(part) /\ Size(part) <= MaxSize

Listing(mail) ==
    [k \in {j \in DOMAIN mail : IsAttachment(mail[j])} |-> Retrievable(mail[k])]

(* Mutant of Allowed: the bound itself is refused.                         *)
Allowed_Exclusive(part) ==
    part.name # "bad" /\ part.type # "malformed" /\ ~PolicyBlocks(part) /\ Size(part) < MaxSize

(* validate_attachment_allowed *)
Allowed(part) ==
    part.name # "bad" /\ part.type # "malformed" /\ ~PolicyBlocks(part) /\ Size(part) <= MaxSize

(* _find_attachment, then the policy: the answer to get_email_attachment.  *)
Retrieved(mail, id) ==
    IF id \notin DOMAIN mail THEN "not_found"
    ELSE IF ~IsAttachment(mail[id]) THEN "not_found"
    ELSE IF Allowed(mail[id]) THEN "result" ELSE "invalid_input"

-----------------------------------------------------------------------------
(* The text of a document whose tags nest: a container holds all there is  *)
(* between a start tag and the end tag that balances it.                   *)
Level(text, i, tag) ==
    Cardinality({j \in 1..i : text[j] = [kind |-> "start", tag |-> tag]})
    - Cardinality({j \in 1..i : text[j] = [kind |-> "end", tag |-> tag]})

(* The places of the start tags and of the end tags that balance them.     *)
Pairs(text) ==
    {p \in (DOMAIN text) \X (DOMAIN text) :
        LET tag == text[p[1]].tag IN
        /\ p[1] < p[2]
        /\ text[p[1]].kind = "start"
        /\ text[p[2]] = [kind |-> "end", tag |-> tag]
        /\ Level(text, p[2], tag) = Level(text, p[1], tag) - 1
        /\ \A k \in p[1]..(p[2] - 1) : Level(text, k, tag) >= Level(text, p[1], tag)}

Visible(text) ==
    LET hiding == {p \in Pairs(text) : text[p[1]].tag \in IgnoredContainer}
    IN {k \in DOMAIN text :
           text[k].kind = "data" /\ ~\E p \in hiding : p[1] < k /\ k < p[2]}

(* Every tag but the void ones is closed, the inner one first.             *)
Nests(text) ==
    LET pairs == Pairs(text) IN
    /\ {i \in DOMAIN text : text[i].kind = "start" /\ text[i].tag # "meta"} = {p[1] : p \in pairs}
    /\ {j \in DOMAIN text : text[j].kind = "end"} = {p[2] : p \in pairs}
    /\ \A p, q \in pairs : ~(p[1] < q[1] /\ q[1] < p[2] /\ p[2] < q[2])
=============================================================================
