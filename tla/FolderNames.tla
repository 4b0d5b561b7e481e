---------------------------- MODULE FolderNames ----------------------------
(***************************************************************************)
(* A folder's name on its way through the adapter (imap_adapter.py): the   *)
(* server's LIST line is parsed into the name list_folders returns, and    *)
(* the name a client gives is quoted again for SELECT.  Names and lines    *)
(* are sequences of characters.                                            *)
(***************************************************************************)
EXTENDS Integers, Sequences, SequencesExt

Quote == "\""
Backslash == "\\"
Blank == " "

(* str.replace *)
Replaced(name, char, by) ==
    FlattenSeq([i \in DOMAIN name |-> IF name[i] = char THEN by ELSE <<name[i]>>])

(* Mutant of EncodeMailboxName: the two replacements are swapped.          *)
EncodeMailboxName_Swapped(name) ==
    LET escaped == Replaced(name, Quote, <<Backslash, Quote>>)
    IN <<Quote>> \o Replaced(escaped, Backslash, <<Backslash, Backslash>>) \o <<Quote>>

(* encode_imap_quoted_string *)
EncodeMailboxName(name) ==
    LET escaped == Replaced(name, Backslash, <<Backslash, Backslash>>)
    IN <<Quote>> \o Replaced(escaped, Quote, <<Backslash, Quote>>) \o <<Quote>>

(* str.strip *)
Strip(line) ==
    LET inked == {i \in DOMAIN line : line[i] # Blank}
    IN IF inked = {} THEN << >>
       ELSE SubSeq(line, CHOOSE i \in inked : \A j \in inked : i <= j,
                         CHOOSE i \in inked : \A j \in inked : i >= j)

(* _unescape_quoted_mailbox: a backslash stands for the character after it.*)
Unescape(name) ==
    LET escapes[i \in 0..Len(name)] ==
            IF i = 0 THEN FALSE ELSE ~escapes[i - 1] /\ name[i] = Backslash
    IN FlattenSeq([i \in DOMAIN name |->
           IF escapes[i] /\ i < Len(name) THEN << >> ELSE <<name[i]>>])

(* _parse_list_folder_name: what follows the last blank and quote, or the  *)
(* last blank.                                                             *)
ParseListFolderName(line) ==
    LET value == Strip(line)
        quotes == {i \in 1..(Len(value) - 1) : value[i] = Blank /\ value[i + 1] = Quote}
        blanks == {i \in DOMAIN value : value[i] = Blank}
        last(S) == CHOOSE i \in S : \A j \in S : i >= j
    IN IF Last(value) = Quote /\ quotes # {}
       THEN Unescape(SubSeq(value, last(quotes) + 2, Len(value) - 1))
       ELSE SubSeq(value, last(blanks) + 1, Len(value))

(* _validate_nonempty_single_line: the name a tool uses.                   *)
Given(name) == Strip(name)

-----------------------------------------------------------------------------
(* The server: a quoted name, a line of its LIST answer, and the folder it *)
(* opens for a word, among those it has.                                   *)
Quoted(name) ==
    <<Quote>> \o FlattenSeq([i \in DOMAIN name |->
        IF name[i] \in {Quote, Backslash} THEN <<Backslash, name[i]>> ELSE <<name[i]>>])
    \o <<Quote>>

(* A bare name is one character long at least.                             *)
MustQuote(name) ==
    name = << >> \/ \E i \in DOMAIN name : name[i] \in {Blank, Quote, Backslash}

ListLine(name, quoted) ==
    <<"(", ")", Blank, Quote, "/", Quote, Blank>>
        \o (IF quoted THEN Quoted(name) ELSE name)

Opened(word, folders) == {name \in folders : Quoted(name) = word}
=============================================================================
