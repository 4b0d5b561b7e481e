--------------------------- MODULE MCMailReading ---------------------------
(* Instance of MailReading: trees of up to three levels over a flag and a  *)
(* criterion with a value, messages of one part and of three, HTML of up   *)
(* to four tokens, folder names of up to three characters.                 *)
EXTENDS MailReading, TLC

MCTrait == [SEEN |-> {2, 4, 5}, FROM |-> {3, 4, 5}]

MCLeaves == {Leaf("SEEN"), Leaf("FROM"), Leaf("malformed")}

Over(trees) ==
    {And(<<a>>) : a \in trees} \cup {And(<<a, b>>) : a, b \in trees}
        \cup {Or(<<a, b>>) : a, b \in trees} \cup {Not(a) : a \in trees}

Level1 == {Leaf("SEEN"), Leaf("FROM")} \cup Over({Leaf("SEEN"), Leaf("FROM")})

MCFields == {<<"FROM">>, <<"FROM", "SEEN">>, <<"FROM", "FROM", "SEEN">>}

Trees ==
    MCLeaves \cup Level1 \cup Over(Level1) \cup Over(MCLeaves)
        \cup {And(<< >>), Or(<<Leaf("SEEN")>>), Not(And(<<Leaf("SEEN"), Leaf("malformed")>>))}
        \cup {SearchMailCriteria(fields) : fields \in MCFields}

MCNesting ==
    [c \in Trees |-> IF c \in MCLeaves THEN 0 ELSE IF Parts(c) \subseteq MCLeaves THEN 1 ELSE 2]

Token(kind, tag) == [kind |-> kind, tag |-> tag]
Tokens ==
    {Token("data", ""), Token("start", "meta"), Token("startend", "svg")}
        \cup {Token(k, t) : k \in {"start", "end"}, t \in {"head", "svg", "p"}}

Documents == {d \in UNION {[1..n -> Tokens] : n \in 0..4} : Nests(d)}

Data(n) == [i \in 1..n |-> Token("data", "")]

Whole(type, text) ==
    [multi |-> FALSE, type |-> type, attached |-> FALSE, name |-> "none",
     charset |-> "known", text |-> text]

Container == [Whole("other", << >>) EXCEPT !.multi = TRUE]

Attachment(type, name, n) == [Whole(type, Data(n)) EXCEPT !.attached = TRUE, !.name = name]

Bodies ==
    {Container, Whole("text/plain", << >>), Whole("text/plain", Data(2)),
     Whole("text/html", <<Token("start", "head"), Token("data", ""), Token("end", "head"),
                          Token("data", "")>>),
     [Whole("text/plain", Data(1)) EXCEPT !.charset = "unknown"],
     [Whole("text/plain", Data(1)) EXCEPT !.name = "good"]}

Attachments ==
    {Attachment("other", name, n) : name \in Name, n \in {2, 3}}
    \cup {Attachment(type, "good", 1) : type \in {"script", "text/html", "malformed"}}
    \cup {Attachment("malformed", "bad", 1)}

MCMail ==
    {<<Whole("text/html", d)>> : d \in Documents}
        \cup {<<Whole("text/plain", Data(n))>> : n \in 0..3}
        \cup {<<[Whole("text/plain", Data(1)) EXCEPT !.charset = "unknown"]>>}
        \cup {<<Container, a, b>> : a \in Bodies, b \in Bodies \cup Attachments}
        \cup {<<Container, a, b>> : a \in Attachments, b \in {Whole("text/plain", Data(2))}}

MCFolder == UNION {[1..n -> {"x", Blank, Quote, Backslash}] : n \in 1..3}
=============================================================================
