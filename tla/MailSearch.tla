----------------------------- MODULE MailSearch -----------------------------
(***************************************************************************)
(* The criteria of search_emails and search_mail: how a tree of and, or,   *)
(* not and leaves becomes the arguments of UID SEARCH (_compile_criteria,  *)
(* read_tools.py), and how an IMAP server reads them again.                *)
(*                                                                         *)
(* A leaf is a record [type |-> k], k a criterion of Trait or "malformed"  *)
(* for one whose type, fields or value are refused.  Which of the words a  *)
(* criterion is spelled with is left out: a flag is one word, any other    *)
(* one two, its name and a value quoted so that it stays one word.         *)
(***************************************************************************)
EXTENDS Integers, Sequences, FiniteSets, SequencesExt

CONSTANTS
    Trait,        \* for each criterion, the UIDs of the messages it is true of
    Flags,        \* the criteria that take no value
    Nesting       \* for each tree a client may send, and its parts, how deep it is

Criterion == DOMAIN Trait
Tree == DOMAIN Nesting

Leaf(k)  == [type |-> k]
And(cs)  == [and |-> cs]
Or(cs)   == [or |-> cs]
Not(c)   == [not |-> c]

Has(c, key) == key \in DOMAIN c

(* The trees a tree is made of.                                            *)
Parts(c) ==
    CASE Has(c, "and") -> ToSet(c.and)
      [] Has(c, "or")  -> ToSet(c.or)
      [] Has(c, "not") -> {c.not}
      [] OTHER         -> {}

(* An object with more keys than one counts as a malformed leaf, for it is *)
(* refused.  No tree is a part of itself, and no criterion is spelled like *)
(* a word of the grammar.                                                  *)
ASSUME SearchAssumption ==
    /\ \A c \in Tree :
          /\ DOMAIN c \in {{"and"}, {"or"}, {"not"}, {"type"}}
          /\ Has(c, "and") => c.and \in Seq(Tree)
          /\ Has(c, "or")  => c.or \in Seq(Tree)
          /\ Nesting[c] \in Nat
          /\ \A part \in Parts(c) : part \in Tree /\ Nesting[part] < Nesting[c]
    /\ Flags \subseteq Criterion
    /\ Criterion \cap {"OR", "NOT", "(", ")"} = {}

-----------------------------------------------------------------------------
(* _compile_criteria, first half: what is refused, anywhere in the tree.   *)
WellFormed[c \in Tree] ==
    CASE Has(c, "and") -> c.and # << >> /\ \A i \in DOMAIN c.and : WellFormed[c.and[i]]
      [] Has(c, "or")  -> Len(c.or) = 2 /\ \A i \in DOMAIN c.or : WellFormed[c.or[i]]
      [] Has(c, "not") -> WellFormed[c.not]
      [] OTHER         -> c.type \in Criterion

(* Mutant of Group: the parentheses are left out.                          *)
Group_Bare(words) == words

(* _criteria_group: a single argument stands for itself.                   *)
Group(words) ==
    IF Len(words) = 1 THEN words ELSE <<"(">> \o words \o <<")">>

(* _compile_criteria, second half: the words sent for a tree that is not   *)
(* refused.  A conjunction is its parts side by side.                      *)
Compile[c \in Tree] ==
    IF ~WellFormed[c] THEN << >>
    ELSE CASE Has(c, "and") -> FlattenSeq([i \in DOMAIN c.and |-> Compile[c.and[i]]])
           [] Has(c, "or")  -> <<"OR">> \o Group(Compile[c.or[1]]) \o Group(Compile[c.or[2]])
           [] Has(c, "not") -> <<"NOT">> \o Group(Compile[c.not])
           [] OTHER -> IF c.type \in Flags THEN <<c.type>> ELSE <<c.type, "value">>

(* _search_mail_criteria: the fields given beside the query; "unread" only *)
(* counts when it is true.                                                 *)
SearchMailCriteria(fields) ==
    IF Len(fields) = 1 THEN Leaf(fields[1]) ELSE And([i \in DOMAIN fields |-> Leaf(fields[i])])

-----------------------------------------------------------------------------
(* The server reads the words from place p on: one search key, or all keys *)
(* side by side up to a closing parenthesis or the end.  What it has read  *)
(* selects some of uids and ends before the place next.                    *)
Found(set, next) == [uids |-> set, next |-> next]

ReadKey(words, uids, p, read) ==
    CASE words[p] = "OR" ->
           LET first == read[<<"key", p + 1>>]
               second == read[<<"key", first.next>>]
           IN Found(first.uids \cup second.uids, second.next)
      [] words[p] = "NOT" ->
           LET key == read[<<"key", p + 1>>] IN Found(uids \ key.uids, key.next)
      [] words[p] = "(" ->
           LET keys == read[<<"keys", p + 1>>] IN Found(keys.uids, keys.next + 1)
      [] OTHER ->
           Found(uids \cap Trait[words[p]], IF words[p] \in Flags THEN p + 1 ELSE p + 2)

ReadKeys(words, uids, p, read) ==
    IF words[p] = ")" THEN Found(uids, p)
    ELSE LET key == read[<<"key", p>>]
             rest == read[<<"keys", key.next>>]
         IN Found(key.uids \cap rest.uids, rest.next)

Reading(words, uids) ==
    LET read[at \in {"key", "keys"} \X Nat] ==
            IF at[2] \notin DOMAIN words THEN Found(uids, at[2])
            ELSE IF at[1] = "key" THEN ReadKey(words, uids, at[2], read)
            ELSE ReadKeys(words, uids, at[2], read)
    IN read

(* What UID SEARCH selects.                                                *)
Selected(words, uids) == Reading(words, uids)[<<"keys", 1>>].uids

-----------------------------------------------------------------------------
(* What a tree means.                                                      *)
Meaning(tree, uids) ==
    LET meant[c \in Tree] ==
            CASE Has(c, "and") -> {u \in uids : \A i \in DOMAIN c.and : u \in meant[c.and[i]]}
              [] Has(c, "or")  -> UNION {meant[c.or[i]] : i \in DOMAIN c.or}
              [] Has(c, "not") -> uids \ meant[c.not]
              [] OTHER         -> uids \cap Trait[c.type]
    IN meant[tree]
=============================================================================
