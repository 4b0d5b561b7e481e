# imap-smtp-mcp in TLA+

imap-smtp-mcp is an HTTP server that lets an MCP client work with a mail
account: OAuth in front (authorize form, code, refresh and bearer tokens), mail
tools behind (IMAP and SMTP). This directory specifies the parts of it that
hold state or act in several steps, checks them with TLC and proves the main
properties with TLAPS. Paths below are relative to `src/src/imap_smtp_mcp/`.

## The system

| Component | State it keeps | Operations | Hard about it | Correct when |
|---|---|---|---|---|
| Grant store and OAuth service (`oauth.py`) | SQLite tables `credential_sessions`, `authorization_codes`, `refresh_tokens`, `oauth_clients`; bearer tokens live with the clients only | authorize, exchange code, refresh, authenticate bearer, cleanup | one thread per request; each store method is atomic under the store lock, each handler calls several; a crash loses requests but no row | a code is traded once, reuse costs the session and nothing else does, grants never exceed or mix up consent |
| Authorize gate (`server.py` `OAuthRateLimiter`, `AuthorizeCsrfStore`) | in-memory buckets and single-use tokens, each with a cap | issue, consume, count | window arithmetic, caps, checks that consume before later checks fail | a form token works once, for its query, in time; no window lets more than its limit through |
| HTTP server (`server.py`) | none of its own but the two above | routing, bodies, answers | one thread per request, all lost in a crash | - |
| Tool controller (`tool_controller.py`), capabilities | none | types, flags, dispatch, audit | audit after the side effect; a flag computed from a text already cut | only enabled tools act, each answer is audited, what is cut is said to be |
| Write tools (`write_tools.py`) | none; the mailbox is the IMAP server's | ten tools, each a short sequence of IMAP commands | no transaction around the commands; other calls and the user's mail client in between; a connection may drop anywhere | no mail is lost that nobody asked to destroy |
| Read tools (`read_tools.py`) | none | list, search, read, headers, attachment | pages counted in sequence numbers of another session; criteria flattened into words; two places that apply one attachment policy; a fetch with a side effect | reading changes nothing, pages miss nothing, a search means what was asked, an offer holds |
| Send tools (`send_tools.py`), SMTP adapter | none | check, submit, optionally append to the sent folder | two servers, no transaction, answers lost | a refused message has not gone out; no message goes out twice without the client's doubt |
| Attachment policy (`attachments.py`) | none | names, types, sizes | applied when listing and when giving out | both agree |
| IMAP adapter | none | connect with retries, session, LIST lines, quoting | retry loop; quoting both ways | a listed name opens its folder |
| Audit logger (`audit.py`) | log files and their rotated backups | write a line, rotate | threads on one file, crash or error between renames, torn lines | what is left are the newest lines, within the bounds |
| Configuration loader (`config.py`) | immutable configuration | load | bounds between settings | a bad setting stops the start |

A request passes the components in this order: HTTP server, (authorize gate),
OAuth service, grant store; a tool call goes from `authenticate_bearer` to the
tool controller and from there to one service, which opens an IMAP or SMTP
session of its own. The only state shared between requests is the grant store,
the authorize gate, the audit files and the mail account itself.

## What is modelled

### OAuthGrants (`oauth.py`, `server.py` threads)

The variables are the tables, as functions from primary keys to rows:
`sessions`, `codes`, `tokens`; the bearer tokens signed (`access`); the clock;
and `req[t]`, what thread `t` has read and is about to do. `issued` is a history
variable: every credential ever saved, the credential it was traded for and how
often it has been presented. `stale` is another: whether the credential a thread
came with was dead on arrival (`Dead`, `DeadBearer`: traded before, marked or
revoked, expired, cleaned up, or of a revoked session). It is taken from the tables
and `issued` alone, whatever the handler then decides.

One store call is one action, because every store method holds the lock until
it has committed. A handler is the sequence of its store calls, with the values
it read kept in `req[t]`:

- authorize: `BeginAuthorize` (validation), `SaveSession`, `SaveCode`
- code exchange: `BeginExchange` (`get_code` and the checks after it),
  `MarkCodeUsed` (the compare-and-set and the test of its result), then
  `IssueTokens` or `RevokeSession`
- refresh: `BeginRefresh`, `CheckSession`, `RevokeOldToken`, `IssueTokens`;
  or `RevokeSession` on reuse
- bearer: `BeginBearer` (`TokenSigner.verify`), `LoadSession`, `ToolCall`
- `CleanupExpired`, `Tick`, `Crash`

Abstracted: PKCE verifier and redirect URI are one value; signatures,
hashes and encryption are perfect; random ids are fresh; signing and saving the
refresh token are one step, for signing changes nothing on the server and a
token signed for a response never sent is in nobody's hands.
`Spec` includes `CleanupExpired` although nothing in the server calls it (only
the tests do); `ServeSpec` is the server as deployed, without it. The
difference matters for one property, `OnlyReuseRevokes`: were `cleanup_expired`
run between a request's checks and its compare-and-set, the missing row would
be taken for reuse.

### GrantContract and GrantRefinement

`GrantContract` says what the OAuth service promises of a consent, without
codes, tokens, clocks or half-done requests: a consent is given with its terms,
opened at most once, revoked only once it was opened and never revived, and a
tool call begins only under a consent that is open, not revoked and names the
scopes the tool needs. `GrantRefinement` maps `OAuthGrants` onto it: a consent
is a session row, it is opened by the spending of its code, and a call runs
from the answer of `authenticate_bearer` on. Calls under way are allowed to end
after a revocation, which is what the code does (it reads the credentials
once, before the tool). The mapping is meant for `ServeSpec`; `cleanup_expired`
deletes spent codes and revoked sessions and would close consents again.

### MailboxTools (`write_tools.py`, `read_email`)

`mail` maps UIDs to messages with a folder and the flags `\Deleted` and
`\Seen`; `folders` are the folders that exist; `call[c]` is the command that
call `c` issues next. One IMAP command is one action: `Begin` is the SELECT (or the
LIST that finds the folder of a rename or delete), then `FetchUid`,
`ListTarget`, `CopyUid`, `MarkDeleted`, `Expunge` and so on, as each tool
issues them. `Fail` ends a call before any command, which is also how a failure
after a command shows: the effect is there, the rest of the call is not.
`doomed` is a history variable: the messages that `delete_email_permanent`,
`empty_trash` or `delete_folder` were pointed at. So is `marked`: the messages
the user's own mail client has ever marked.

The IMAP server is not in the repository. It is modelled as the code uses it
and as RFC 3501 describes it: commands are atomic, COPY keeps flags, UID COPY
and UID STORE of an absent UID answer OK and do nothing, EXPUNGE removes every
marked message of the selected folder. Assumptions beyond that: a session whose
selected folder is renamed or deleted gets nothing more done, UIDs are
never used again (UIDVALIDITY does not change under a call), and RENAME of
INBOX is like any other rename. Search, listing, headers and attachments change
nothing and have no action; neither has a call refused before its first command.
`TypeOK` says, beside the types, that a call is only at commands its tool has
(`CallsMatchTools`): a copy, for one, never comes to the STORE of a move.
`Spec` is the tools alone; `SharedSpec` adds a mail client of the
user that marks messages and unmarks them.

### AuthorizeGate (`server.py`)

`forms` is the store of form tokens and `buckets` that of the attempt counters;
`shown` is what browsers hold (a token and the cookie signed for its query),
which survives a `Restart` that empties both stores. A GET is one step,
`IssueForm`, for it makes one store call. An authorize POST is `BeginPost` (the
cookie is right), `Consume`, three times `Check` (address, client, username, in
that order) and `Verify`; a registration is `BeginRegister` and one `Check`.
`consume` and `_check` read the clock before they take the lock, so both act on
any time between the request's previous step and now (`ClockRead`). The
comparison of the hidden field with the cookie is part of `Consume`: it follows
the pop and touches no store. `tried` is a history variable: attempts let
through per username, and windows opened promptly and by late threads.

A POST refused before `Consume` (unknown client, wrong cookie, oversized body)
changes nothing and has no action. Usernames are those `check_authorize` counts
under, stripped and in lower case. Client registration's row and the session an
authorization saves are not part of this module; the latter is
`BeginAuthorize` of `OAuthGrants`.

### ToolCalls (`tool_controller.py`, `send_tools.py`, `smtp_adapter.py`, `imap_adapter.py`) and AuditLog (`audit.py`)

A `tools/call` from the accepted bearer token to the answer. `call[c]` is the
request a thread works on, how far it is, and what its client has heard; `sent`
counts how often the SMTP server took each message. `Dispatch` makes the
checks of `call_tool` and `_dispatch` in their order; a sending call then goes
through the line about the sender's identity (`override`), `CheckMail`,
`SmtpConnect`, `Submit`, and, when a copy is wanted, `ImapConnect` and
`AppendSent`; the mailbox tools go through `ImapConnect` and
`MailboxCommands`, whose effect on the mailbox is `MailboxTools`' subject.
A name that is no tool (`NoTool`) is answered at once and has no audit line:
`call_tool` raises before its `try`. (Its test for arguments that are no object
never fails, for the server passes `{}` in their place.) Every other ending writes
an audit line before the answer (`BeginLine`, `EndLine`, `LineFails`): a success that cannot be written becomes a failure, a failure
that cannot be written ends the connection without an answer. A backend fails
at any step, also after it has acted (`Submit` may take the message and lose
the answer); `GiveUp` is the client's timeout, which the thread does not notice;
`Crash` ends all threads, one perhaps in the middle of a line.

`AuditLog` is the file of one user and its backups: `BeginWrite` takes the lock
and tests the size, `UnlinkOldest` and one `ShiftUp` per number rotate,
`AppendLine` writes. `WriteCut` is an error or a crash anywhere in between; an
append that is cut leaves the whole line, a fragment, an empty file or nothing.
The next line is appended to a fragment and cannot be read (`legible`);
`fragments` is a history variable, the number of fragments so far. A thread whose
line is spoilt that way notices nothing, so `AnswersAudited` allows one answer
without a readable line for each fragment, and no more.
`ToolCalls` extends `AuditLog`, and calls run its steps with their own.

A message counts as sent when any recipient was taken: `sendmail` returns the
recipients that were refused and the code drops them. `APPEND` answered NO is a
success too, for `imaplib` returns it and nobody looks. The client is assumed
to ask for a message again only when its earlier calls for it were answered
with something other than success or not at all (`MayAsk`).

### MailReading, with Paging, MailSearch, MailContent and FolderNames (`read_tools.py`, `attachments.py`, `imap_adapter.py`)

`Paging` is a client's walk through a folder with `list_emails`: every page is
a session of its own, SELECT tells a count, the window of sequence numbers is
counted back from it, and FETCH asks for the window. Mail arrives and is
expunged between any two of these. As in RFC 3501, sequence numbers stand still
between SELECT and FETCH, and the server may or may not answer for a message
expunged meanwhile. An answer is a record of a UID, its sequence number and whether
it has the header: what the server sends is those asked for, each once, and news of
the flags of any message of the folder, in any order (`FetchAnswers`). News is
passed over, for it has no header, and the rest is sorted by number, stably
(`NewestFirst`). That each header is sent once, and that nothing is expunged while
FETCH is answered (which RFC 3501 forbids), is assumed of the server: the code
looks at neither. Its fallback for an answer without a number is not modelled,
since no IMAP server sends such an answer.

`MailSearch` is `_compile_criteria`: trees of `and`, `or`, `not` and leaves to
the words of UID SEARCH, and the search-key grammar of RFC 3501 that reads them
back; `Meaning` is the tree read directly. The trees are the domain of
`Nesting`, which says how deep each is: a part lies less deep than what it is
a part of, as in any JSON value, so `WellFormed`, `Compile` and `Meaning` are
recursive functions that come to an end. `MailContent` is one message: the
choice of the body, the HTML parser's counting of invisible containers, the
listing of attachments and the policy as listing and retrieval apply it.
`FolderNames` takes a name, character by character, from the server's quoted
LIST line through `_parse_list_folder_name` to the client and back through
`encode_mailbox_name`; a server may leave the quotes off a name of at least one
character that needs none (`MustQuote`). These three are pure (`Sorting` has the ascending
sequence of a set that `Markdown` keeps the text by); `MailReading` puts them beside the
walks on one folder, with the limit tests, the errors and the `truncated` flags,
so that a message may be gone between its listing and the call for its
attachment.

Met while modelling, each as the code has it, and no property denies it: a
search returns the first UIDs of the server's answer, usually the oldest, and
does not say that there were more; a charset Python does not know makes
`read_email` fail as `backend_unavailable`; an attachment with a malformed
content type makes it fail as `invalid_input` for the whole message; a text
attachment may be taken for the body; an unclosed `<head>` hides the rest of
the body; a folder name with a blank at an end is parsed as the empty name or
stripped by the tools and cannot be opened; of exactly `max_chars` characters
`truncated` is true although nothing was cut; a FETCH answer that
puts its UID after the header block is dropped from a page. The reason `undecodable_payload`
is out of reach: Python decodes every part that is not a container.

## Runs

| Run | Asks | Result |
|---|---|---|
| `grants_race` | two threads, one session id, one code, short TTLs, cleanup and crashes: `TypeOK`, `CodeSpentOnce`, `UnspentCodeHasLiveSession`, `LateRequestsRefused` | hold |
| `grants_two` | two users with different scopes on the deployed server: `GrantsMatchSession`, `ToolsWithinConsent`, `OnlyReuseRevokes`, and `ContractKept`: the service implements `GrantContract` | hold |
| `grants_live` | `RacingReuseRevokes` under fair threads | holds |
| `grants_double_refresh` | can a refresh token be traded twice? | `RefreshTokenSpentOnce` is violated |
| `gate` | two threads, three forms (two stored at a time), three buckets for four keys, an authorize limit of two and a registration limit of one: `TypeOK`, `StoresBounded`, `FormSpentOnce`, `TriesBounded`, `AttemptsCostForms`, `WindowsStand` | hold |
| `mailbox_disposal` | two calls move, trash, delete and empty; two messages, four UIDs: `NothingLost` | holds |
| `mailbox_filing` | two calls move, copy, read and mark while folders come and go; one message, three UIDs: `TypeOK`, `NothingLost` | hold |
| `mailbox_collateral` | does a move to another folder destroy a message other than the one it moves? | `MovesDestroyNothing` is violated |
| `mailbox_vanished` | does a move that goes on have its copy filed? | `MovedMailArrives` is violated |
| `mailbox_peek` | does `read_email` leave the mailbox alone? | `ReadOnlyToolsChangeNothing` is violated |
| `calls` | two calls, of tools or of a name that is none, one message, three log files; backends, disk, client and server fail anywhere: `RefusedCallsIdle` (a call that refuses has not sent), `DoubleSendNeedsDoubt`, `AnswersAudited` (a readable line comes before the answer, but for one answer per fragment), `TrailHonest`, `NewestKept`, `FilesBounded`, `BackupsKept`, `TypeOK`, `LogTypeOK` | hold |
| `reads` | five UIDs, pages of up to two; searches, messages, attachments and folder names beside them: `SkipsBounded` (a walk misses no more than was expunged under it), `PageNewestFirst`, `SearchExact`, `OffersHold`, `CutIsTold`, `HiddenStaysHidden`, `NamesOpen`, `PagingTypeOK` | hold |

The violated properties are disagreements between the code and what the
repository says of it:

1. `exchange_refresh_token` (`oauth.py:639`) revokes the presented token without
   comparing, unlike `mark_code_used`; two concurrent refreshes are both
   answered and the reuse `docs/security_operations.md:24` speaks of goes unseen.
2. `move_email` and `move_to_trash` end with a plain EXPUNGE
   (`write_tools.py:124`): a message of the source folder other than the one moved,
   which the user's mail client has merely marked, goes with it, although the tools are annotated as not destructive (`tool_controller.py:459`).
3. A move whose message another call has moved since the UID was looked up
   copies nothing and reports success (`write_tools.py:117`);
   `tests/test_milestone5.py:311` expects a missing UID to be `NotFoundError`.
4. `read_email` sets `\Seen` (`read_tools.py:535`) and is annotated read-only
   (`tool_controller.py:462`).

### Bounds

Two threads (calls) are what a race on one row (message) takes; every handler
fits once and a retry fits after it. TTLs of one tick on a clock of `MaxTime`
ticks put every expiry before, between and after the steps of a request.
`Session`, `Code` and `Token` bound how many ids are drawn: a grant with a
rotation after it, or two grants. `uses` counts to two, for "more than once".
`MaxUid` bounds the copies: at two messages and four UIDs both can be copied or
one twice.

In `gate` an authorize limit of two lets two attempts into one bucket, so that a
form that paid twice would show. The clock passes the end of a window and of a form's life, and both
stores fill up. With one address and one client the late windows
`TriesBounded` allows for are opened but not needed to keep the bound; two of
each, too large for a routine run, break the bound without that term. The
theorem covers every instance. Thread, id and call sets are symmetric (safety
runs only).

In `calls` the requests are those with nothing wrong, each flaw the code tests
for, pairs of flaws that tell the order of the tests, a tool of each other
kind, and a name that is no tool; one flag is off. Two calls are what a retry after a doubtful answer takes,
and what two threads on one log take. Lines of two and three bytes against a
limit of four make a line fit beside another, not fit, or be written after
fragments, so that all three files fill and rotate more than once; one retry
tells a right count from one too many. Calls are
finite, so the run may stop (`CHECK_DEADLOCK FALSE`).

In `reads` five UIDs and pages of two give walks of three pages with arrivals
and expunges between them; with each page comes at most one piece of news
(`MaxNews`), which can stand anywhere among the answers. Criteria are all trees of two levels over a flag and
a criterion with a value, and of three levels with at most two operands; messages have
one part, or three with every pair of body and attachment the code tells apart;
HTML bodies are all that nest, of up to four tokens; folder names are all of up
to three characters over a letter, the blank, the quote and the backslash. The
client asks one question at a time and none during a walk, the message read is
the newest, and only listings of messages of several parts are followed up: the
tools share no state but the folder, so questions asked at once would add
states and no behaviour.

### Fairness

Only `grants_live` needs it: weak fairness of each thread's next step. A
request thread runs until it has answered; it waits for nothing but the store
lock, which every method gives up. Arrivals, the clock and crashes are not fair,
and `FairSpec` has no crash: a crash drops the request that saw the reuse.

## Proofs

`OAuthGrantsProofs` proves, for any number of threads, clients, grants and ids
and any TTLs, the type invariant and `GrantsMatchSession`, `ToolsWithinConsent`,
`CodeSpentOnce`, `UnspentCodeHasLiveSession` and `LateRequestsRefused` of
`Spec`. None of them is inductive alone. `IInv` adds why they hold:
what threads hold agrees with the tables and the history (`RequestsMatchSession`,
`HistoryMatches`); a session only ever has one code (`OneCodePerSession`), so a
spent code speaks for its session; everything that comes after a code
(refresh tokens, revocation) comes after its spending (`CodeSpentFirst`); one
thread at a time is issuing for a code (`OneIssuer`); a refresh token something was
traded for is revoked (`RotatedFirst`); and a stale request that is still under way
has a revoked session before it (`StaleMeetsRevoked`). There is one lemma per action
and one step per conjunct the action can disturb. The assumptions are that TTLs
are positive, as `config.py` enforces, and that codes, tokens and `Root` differ.

`MailboxToolsProofs` proves `TypeOK` and `NothingLost` of the tools for any
number of calls, folders, messages and UIDs and any set of enabled tools. The
invariant is `EachHasSpare`: each message neither doomed nor marked has an unmarked copy at
which no move is taking aim. A COPY takes aim at the original only
when it has filed a new copy, whose UID no call can hold yet; a rename brings
no mail into a folder that a session has selected. The assumption is that
every message is filed somewhere at first.

It also proves `OnlyMarkedLost` of `SharedSpec`, where the mail client marks what it
likes: `EachHasSpare` asks nothing of a message once `marked`, and marking one
message takes aim at no other. No run checks it: with the client beside two calls
an instance as large as that of `mailbox_disposal` is out of proportion. Of `Spec`,
where `marked` stays empty, it proves `MovesDestroyNothing`: the loss
`mailbox_collateral` finds comes of the mail client, and of no race of the tools
among themselves.

`AuthorizeGateProofs` proves `TypeOK`, `StoresBounded`, `FormSpentOnce`,
`TriesBounded`, `WindowsStand` and `AttemptsCostForms` for any settings the configuration loader
accepts, any number of threads and any wait for the locks. A stored form has let
nothing through (`StoredFormsUnspent`), so the pop makes it single-use. The rate
bound rests on an account per username: an open bucket counts what its window
let through (`TriesCounted`), and windows opened promptly do not overlap
(`WindowsApart`). The forms that let a POST through cover what a bucket has
counted and the POSTs it has yet to count (`AttemptsPrepaid`).

`ToolCallsProofs` proves every property of `calls`, for any number of calls,
messages and requests, any flags, any number of retries, and a log of any line sizes,
limit and number of backups. `CallsInv` says what each step has behind it
(`Progress`), that the line being written is the one its call stands at and that
an answer of a tool follows its line (`LinesMatchCalls`), and that each call sends once
and no two calls of a message are awaited or successful (`SendsCounted`).
`AuditLogProofs` has the log's half: a rename never meets a file under the new
number, an append only happens where the line fits (`WriterOnCourse`), each
rotation cut short accounts for at most one hole in the numbers (`HolesCounted`),
and each spoilt line for a fragment of its own (`FragmentsCounted`): answers
without a readable line are no more than spoilt lines, for each has a line.
The assumption is that `Line` is what calls write and has sizes.

`PagingProofs` proves `PagingTypeOK`, `SkipsBounded` and `PageNewestFirst` for
folders and limits of any size. The invariant of the second adds `WindowCloses`:
from SELECT to FETCH the bound
already holds for the depth the page will reach, counting its messages as seen.
Arrivals push what was left behind deeper, never past the offset; an expunge
brings up one message at most (`OneGone`, `OneMore`). A page is in order because the
numbers sorted by are those of messages that stand in one folder in the order of
their UIDs: the ranks of the answers that have a header are 1 to their number, each
once (`RanksSort`), so that the answers come out by falling numbers (`NewestFirstIs`)
and thus by falling UIDs (`PageIs`).

`MailReadingProofs` proves the properties of `reads` for `MailReading`'s `Spec`,
for folders, limits and names of any size, messages of any number of parts, HTML
of any number of tokens and search trees of any depth. The assumptions are those
of the modules: names and messages are sequences, the trees are such as JSON
can spell, and no criterion is spelled like a word of the search grammar.

- Walks: a step of `MailReading` is a step of `Paging` or leaves its variables
  alone (`ReadingIsPaging`), so what `PagingProofs` shows holds among the
  other tools (`WalksAmongTools`).
- Answers: whatever a step tells is one of eight kinds (`Telling`), and what a
  tool told is still true of it at any later state (`FolderTold`, `OfferKept`,
  `MailTold`). Each property then follows from what a pure function computes.
- Pure functions: they are recursive functions, and the provers know no
  induction. Each is shown to exist and to be unique by a rank that falls
  (`Recursion`, `SameFunction`), and each induction is a least counterexample
  (`LeastNatural`, `Upward`, `Growing`, `TreeInduction`).
- `NamesOpen` (`ListedFoldersOpen`): escaping and reading again cancel out
  character by character, and an escaped name has no quote that ends it early.
- `HiddenStaysHidden` (`HiddenIsNotShown`): in a text whose tags nest, the pairs
  of invisible containers that are open at a token are as many as the depth
  the parser has counted.
- `SearchExact` (`SearchesAreExact`): the server's reading of a word depends only
  on words further on (`Left` falls), so it is well defined. By induction over the
  tree, its words are read as keys that select what it means, wherever they stand
  in a longer search (`AsKeys`), and in parentheses, or as the single word they
  are, as one key (`AsKey`); `Means` joins the two, for a word that stands for
  itself must be a flag.

`GrantRefinementProofs` proves that `ServeSpec` implements `GrantContract`: each
action is an action of the contract or a stutter under the mapping. It
rests on `IInv` and on `CallsFollowOpening`: whoever may end a session or begin
a call comes after the spending of its code, and a code about to be spent is
still stored.

It also proves `OnlyReuseRevokes` of `ServeSpec` (`ReuseOnly`). `UsesCounted` keeps
the presentations beside what became of them: what was spent was presented
once, two threads about to spend one code are two presentations, and whoever
is about to revoke a session has met a credential of it a second time. It needs
that a code about to be spent is still stored, which `CallsFollowOpening` has and
which `cleanup_expired` would break.

The invariants were checked by TLC on the runs' instances before they were
proved. Every property that a run finds to hold has a theorem but one:
`RacingReuseRevokes` is liveness under fairness, which the prover cannot treat.
It is only model-checked; of the four violated properties, `MovesDestroyNothing` is
proved of the tools alone.

## Left to do

- A refinement with `cleanup_expired`, should the server come to call it.

## Not modelled

- Client registration: one row that nothing changes afterwards, and redirect URI
  patterns, which are string matching. Clients are constants.
- Metadata documents, the authorize form's HTML and its signed cookie, startup
  validation: formatting or one pass of checks, without state.
- Parsing of the environment (`config.py`): its bounds are the assumptions on the
  constants.
- Redaction and layout of audit lines and of error texts; tool schemas and descriptions.
- `compute_json_body_limit`, a formula used once at start, and
  `resolve_configured_folders`, which nothing in the server calls.
- The scripts, which are development helpers outside the server.
