# A TLA+ model of appleid-autoshare

The program hands out shared Apple ID accounts one at a time. It polls two upstream
sources, keeps what they list in Redis for a minute, and gives a verified browser
session one account per single-use ticket; the session reports how the account did,
which ranks it for everybody else. The state that matters lives in Redis and is touched
by concurrent asyncio handlers, one command at a time; the page in front of it keeps its
own idea of that state and survives reloads and failing requests. Beside the program the
repository holds the tooling its coding agents work with (`.trellis/`, `.codex/`): a task
store, a journal and hooks, all of them separate processes on shared files without locks.
All three are modelled here.

## Inventory

| Part | Source | State | Operations | Hard about it |
|---|---|---|---|---|
| Session gate | `app/api.py`, `app/services/store.py` | Redis keys `session`, `ticket`, `session-shown`, `session-feedback`, `account-quality` | verify, reveal-ticket, reveal, feedback | each handler is a sequence of awaits; keys expire on their own; requests die half way; Redis restarts empty |
| Account ranking | `store.py:196-211` | none | choose the best unseen account | two rank tables, read while verdicts change |
| Aggregator | `app/services/aggregator.py`, lifespan in `api.py` | poll tasks, `_stopping`, `source` slices in Redis | start, stop, poll | late writes, failing sources, shutdown against running tasks |
| Pool reads | `store.py:60-110` | none | `/readyz`, reveal | the clock is read before the slices |
| Pool merge | `store.py:97-107`, `aggregator.py:16-23` | none | deduplicate, sort | spellings, ties, equal time stamps |
| Rate limits | `store.py:234-267`, `api.py` | `rate` counters | charge address, charge session | window edges, late charges, key lives |
| Source adapters | `app/adapters/` | none | fetch, parse, filter, pair | untrusted bodies, nested elements |
| Turnstile | `app/services/turnstile.py` | none | verify | what counts as a yes |
| Settings | `app/config.py` | none | read and validate the environment | constraints between values |
| Browser checks, cookie, headers | `app/api.py`, `app/security.py` | none | admit or refuse a request | settings that contradict them |
| Browser client | `static/app.js` | `state`, `sessionStorage` | verify, reveal, copy, acknowledge, judge, sign out, retry, restore | what happens between two answers; reloads; lost answers; a session that is over behind a living page |
| Page assets | `static/` | none | | |
| Task store | `.trellis/scripts/common/task_store.py`, `active_task.py`, `task.py` | task directories, `task.json`, session files | create, start, finish, archive, link, unlink, set | no locks; several files per command; killed half way |
| Task listing | `common/tasks.py`, `task.py` | none | list | recursion over links nobody checks |
| Auto-commit | `common/safe_commit.py`, `task_store.py`, `add_session.py` | files, index, HEAD | commits after archive and add_session | one index shared by all commands; failing git |
| Journal | `add_session.py`, `common/developer.py` | `journal-N.md`, `index.md` | init, add_session | rewriting in place, limits, two at once |
| Session identity | `active_task.py`, `.codex/hooks/` | session files, Cursor tickets | resolve a context key | several sources of identity, fallbacks |
| Task references | `common/paths.py`, `task_utils.py`, `active_task.py`, hooks | none | normalise, resolve | read differently in different places |
| Context views | `common/session_context.py`, hooks | none | four views, summary | each counts for itself |
| Update hint | `session_context.py` | marker file | compare versions | prereleases, malformed versions |
| Configuration | `common/config.py`, `trellis_config.py`, `packages_context.py` | none | read YAML, packages in scope | two copies of one reader |
| Workflow guide | `common/workflow_phase.py`, hooks | none | breadcrumb, summary, index, step | four scanners of one text |
| CLI adapter, queues, getters, context entries, Linear hook | `.trellis/scripts/` | none or append-only | | |

Interaction: the handlers share nothing in memory; they meet in Redis. The aggregator
writes slices, `/readyz` and reveal read them. A reveal consumes what reveal-ticket
stored, feedback depends on what reveal marked, ranking on what feedback recorded. The
page calls the handlers and remembers, in its own storage, what it believes of them.
Agents' commands meet on the disk: archive moves what another window's session file
points to, writes what link reads, and commits through the index add_session uses too.

What makes the parts correct: a ticket pays once; a session is not given an account
twice and is told "exhausted" only when it is; one report per account, from a session
that was shown it; nothing stale is served, nothing fresh is withheld; pollers survive
failures and stop when told; limits limit, and only those who exceed them; the page
judges only what the visitor has tried and loses no progress; task links agree at both
ends, pointers lead to tasks that are there, an archive that says it committed did, the
journal and its index tell of the same sessions, and a command acts on its own window's
session.

`PROJECT.json` lists the hazards line by line, with the properties that address each.

## Modules

| Module | Models |
|---|---|
| `AccountRanking` | the sort key of `select_account_for_session` as operators |
| `RevealGate` | the four handlers over the Redis keys |
| `GateLedger` | what the gate promises: sessions, tickets, payments and reports without keys, clocks or requests |
| `RevealGateRefinement` | the mapping under which `RevealGate` implements `GateLedger` |
| `RevealGateInvariant`, `RevealGateProofs` | the inductive invariant of `RevealGate`, its proof and what follows, the refinement included |
| `SourcePool`, `SourcePoolProofs` | poll loops, their lifecycle, the slices, and the reads of the pool; its invariant and proof |
| `RateWindow`, `RateWindowProofs` | the two fixed-window counters a request charges; their invariant and proof |
| `PoolMerge` | the deduplication and the sort, as operators |
| `SourcePages` | what the adapters take from a source's answer |
| `GateSettings` | which settings start, and how the gate then treats a request |
| `RelayClient`, `RelayClientProofs` | the page, its storage and its requests; its invariant and proof |
| `TaskStore` | task directories and session pointers under the commands of `task.py` |
| `TaskList` | what `task.py list` prints of them (extends `TaskStore`) |
| `TaskStoreProofs` | the proofs about both |
| `AutoCommit`, `CommitProofs` | paths and git commands of the commits, over files, index and HEAD; their invariant and proof |
| `SessionJournal` | journal files and index |
| `SessionIdentity` | which context key a command or a hook arrives at |
| `SessionProofs` | the proofs about both, and of the types of all parts |
| `TaskRefs`, `ContextViews`, `VersionOrder`, `ConfigYaml`, `AgentGuide` | the rules of the scripts that decide without changing anything |
| `MCRevealGate`, `MCSourcePool`, `MCRateWindow` | instances for TLC |
| `MCWorkflow` | the stateful parts of the tooling for TLC |
| `Rules`, `RuleProofs` | one input of one rule and what each rule promises; the proofs for all inputs |
| `MCRules` | the inputs of the rules, of the relay and of the tooling, for TLC |

### RevealGate

A worker is a request in flight, with a program counter at the command it is about to
send. **One action is one Redis command** together with the code up to the next await,
so every interleaving asyncio permits is there and no finer one. `StartVerify`,
`StartTicket`, `StartReveal` and `StartFeedback` begin a handler; `Abort` ends one early,
standing for a 429, a 503 after a Redis error or timeout, the death of the process and
the pool that is `None`. `RedisRestart` empties Redis (`docker-compose.yml` turns both
kinds of persistence off). A response may reach the client or be lost: `held` and
`delivered` say which, so a client can only present what it received.

Redis expiry is modelled by instants: a key holds the instant it dies at and is there
while `Alive`. `SADD` on a missing key creates one with `NoExpiry`, and `EXPIRE` on one
that is gone does nothing, as in Redis. The HMAC digests are taken to be injective and
tokens never drawn twice. A reveal without a session cookie is refused, and a
reveal-ticket without one opens a session on the spot, so a session can exist without
Turnstile: that is the code's (and its tests') behaviour, and the model has it
(`StartTicketWithoutCookie`).

A reveal reads any non-empty pool (`ReadPool`); `SourcePool` and `PoolMerge` say how
pools come about. Recency and id break ties in the ranking: since a pool can carry any
time stamps the tie falls either way. Four verdicts and three intents are distinguished
by the rank tables; `expert` is ranked like `other_app`, so the runs use two intents.

Client and server share one clock here because Redis and the app run on one host; a
clock that steps back is not modelled.

**Refinement.** `GateLedger` has sessions that open and end once, tickets that are
issued, redeemed and spent, what each session was paid and which accounts are locked.
`RevealGateRefinement` maps: a session is "new" until its token is stored, "open" while
its key is alive; a ticket is "redeemed" from the GETDEL that took it until its reveal
answers. A restart, or a second that passes, ends several sessions and tickets at
once, which the ledger's `Lapse` allows; most commands are stutters. `KeepsLedger`
says that every step is one of the ledger's or a stutter.

### SourcePool

All instants are relative to now: a slice has an `age`, validity left (`valid`) and key
life left (`left`), a reader knows how long ago it read its `current` (`lag`). The
code's `fetched_at > current` becomes `age < lag` and `valid_until <= current` becomes
`valid + lag <= 0`. No clock grows, so there is no bound on time and liveness is checked
on infinite behaviours. What is assumed of time: a runnable task runs within the second,
and a Redis command is open for at most `Latency` seconds (the client's timeouts). A
fetch has no bound: httpx limits each read, not the whole; `FetchMax` is the time a
fetch takes when it is not a slow one. `Start` is the lifespan's
startup (`start()` called once per process), `Stop` and `StopDone` are the two halves of
`stop()`, `Crash` kills the process at any point.

A slice stands for a non-empty list; `PoolMerge` deals with the contents. One reader is
enough, since readers change nothing.

### PoolMerge, SourcePages, GateSettings

`PoolMerge` is `build_fresh_pool` on two listings: one account per id, the first of the
freshest, and the freshest on top. A name's folded form and its id are one number,
because `public_account_id` digests the same `strip().lower()` the loop uses as its key.
The aggregator's `rebuild_pool` / `deduplicate_accounts` is the same algorithm, used
only by tests.

`SourcePages` has the bytes `BaseAdapter` accepts (status, declared length, chunks), the
health rules of the JSON listing, and the pairing of usernames with passwords in the
cards of an HTML page. A body is accepted exactly when the status is 200, the declared
length is absent or a number within the limit, and the chunks together are. Elements are
numbered in document order with the element they stand in.

`GateSettings` has `validated()` as a predicate on settings and shows that the accepted
ones make true what `RevealGate`, `SourcePool` and `RateWindow` assume of the constants
that are settings, that clients behind a trusted proxy are told apart, and that
in production foreign sites are kept out, the page is let in, and Turnstile decides.
`Latency` and `FetchMax` are not settings; where a property needs a bound of theirs, it
names it (`Brisk`, `Punctual`).

### RateWindow

Each request charges its address and then its session, reading the clock before each.
`validated()` relates the window to nothing, so a charge may be sent any number of
windows after its clock was read. `WindowLimit` is stated of punctual charges (`Punctual`,
`Latency <= Window`): the default window of 60 seconds and the client's socket timeout of
2 seconds make them so, an accepted window of one second does not, and there the key can
die before the last charge of its window. `RefusalEarned` needs no such premise.

### RelayClient

`page` is what the page holds in memory, `saved` its sessionStorage item, `tasks` the
async functions that await something, `server` the session as far as answers tell. A
task runs from one answer to the next; whatever the visitor does in between acts on the
same state, as in the browser's event loop. Each request may be served or not, and its
answer may be lost: `Serve` and the failing continuations are independent. `Expire`
ends the session or restarts Redis at any time. A copy is a task too: it awaits the
clipboard, which may answer whenever it likes or never, and then takes its step on the
page as that is by then (`CopyDone`), even if it shows another account or none.

Reductions: the widget and its token are forgotten once an account is shown (its errors
are in `Overlay`, which stands for whatever replaces the recovery panel by nothing or by
a reload button); requests of a page that has been left are not served after the reload;
the server's side of overlapping requests is `RevealGate`'s. Wider than the code: the
button of the instruction may be pressed again for one account. Not there: a page without
sessionStorage, and flags that only change wording. `MaxTasks`, `MaxCopies` and `Unticks`
bound what the run explores; the theorems hold for any values of theirs.

### The tooling

`TaskStore`: every command is a process, started from a window; one action is one read
or write of a file. Killed commands leave what they had written. `use`, chosen at the
beginning, says which tasks, windows and commands a behaviour has, whether commands are
killed, which accesses the disk may refuse (`faults`: `task.json` not written, which the
commands do not look at; a session file cut short; a file not deleted), and whether
`create`, `link` and `unlink` are only asked for what makes sense (no directory created
twice, no task linked to itself, no unlink of what is not linked), which is what the
properties about links assume (`Tidy`). Rings of more than one task are possible all the
same. `TaskList` prints what can be reached from the tasks without a parent: the
smallest set that is closed under the children of its members.

`AutoCommit`: git is its three trees, a path is a whole task directory; each git command
is a step, and `use` says which may fail (`ls-files`, `add`, `rm`, `commit`), whether
`.trellis` is ignored and whether archives may leave the commit to somebody else. The
properties name the uses they are claimed of. `SessionJournal`: a file is its number of
lines and the sessions in it; `index.md` is truncated and written in two steps; `killed`
remembers whether a run was ever killed, which is when journal and index may part.
`SessionIdentity`: keys are found in the payload, in the environment, in the tickets a
Cursor hook leaves, or by the fallback to the only session file; ids are abstract. Which
platform a hook takes itself for follows its payload, then the `*_PROJECT_DIR` variables
it was left by its own agent or its host's (any of them may be set), then its directory.

`TaskRefs`, `ContextViews`, `VersionOrder`, `ConfigYaml` and `AgentGuide` are operators
over small structures: a reference is a sequence of names, a project a handful of tasks,
a document a tree of keys, `workflow.md` a sequence of lines. Where the code has a rule
twice (in the commands and in a hook), both are there and are shown to agree, or the
property says how far they do.

## Runs

| Run | Question | Bounds |
|---|---|---|
| `gate_race` | do the promises of the gate hold when requests of one session overlap, and does it implement the ledger? | 1 session, 2 tickets, 2 accounts, 2 requests in flight, session TTL 2, ticket TTL 1, 2 seconds |
| `gate_sessions` | what about several sessions and the ranking? | 2 sessions, 2 tickets, 2 accounts, 2 verdicts, 2 intents, 1 request at a time, 2 seconds |
| `gate_repeat` (violated) | can a session be given an account twice? | as `gate_race`, 3 seconds |
| `gate_conflict` (violated) | does a 409 mean the verdict is in? | as `gate_race`, 3 seconds |
| `pool` | is what is served fresh, and what is fresh served; do polling, stopping and recovery go on? | intervals 1 and 6, freshness 5, key life 7, latency 1, fetch 1 |
| `pool_ready` (violated) | is "not ready" only said when no slice is unexpired? | as `pool` |
| `rate` | do the limits limit, and nobody else? | 3 requests, 2 sessions, 1 address, limits 2 (address) and 1 (session), window 2, latency 1, 4 seconds |
| `client` | does the page keep its busy flag, its retries and its progress right, and settle? | 2 accounts, at most 2 requests, or a request and a copy, at once; boxes are not unticked |
| `client_retry` (violated) | does every failure offer a way on? | as `client` |
| `client_locked` (violated) | does a recorded verdict always lead on? | as `client` |
| `workflow` | do the agents' commands keep tasks, commits, journal and sessions sound? | per part, below |
| `rules` | are the stateless rules right? | per rule, in `MCRules` |

**One run for the parts of the tooling.** `MCWorkflow` is a sum, not a product: the
parts share no variable, so a behaviour takes one of them (`part`) with the bounds that
suit it, and the variables of the others are `Off`. `store` is taken in six ways
(`StoreUses`), one command at a time in each: 2 tasks and 2 windows, any command killed
anywhere; 2 tasks and 1 window, killed, and a session file may not be written; 1 task and
2 windows, killed, and neither file may; 1 task and 1 window, killed, and a session file
may not be deleted; 3 tasks, linked with care and killed, so that a task can have a parent
and a child; 3 tasks, linked and unlinked, none killed. `commit` is taken in five (`TheCommitUses`): two commits at
once, and one at a time below an ignored directory with failing `add` and `commit`, or
with failing commits, or with a failing `ls-files`, or with failing `add` and `rm` and
archives that do not commit. `journal`: one run at a time, killed or not, sessions of 2
and 6 lines against a limit of 6. `identity`: two windows, two tickets, and tasks of its
own (`Errands`); a ticket is good until the clock moves (`TTL`), since only whether one is
still good is ever asked. That a pointer leads to a task that is there
is claimed of single commands, since two at once can break it (see below).

**One run for the rules.** `MCRules` chooses one input of one rule; the pages and the
workflow documents grow element by element, everything else is one choice. Pages have up
to six elements of nine kinds, listings two sources with up to two of three spellings,
settings all combinations of the times and of the protections at and beside their
limits, references up to three names in every tree of seven directories, projects every
parent relation on three tasks, versions up to two prerelease parts, documents two keys
on two levels, workflow documents four parts.

Why these are enough: the promises of the gate concern one session and one account or
ticket at a time, and two requests are what it takes to interfere; a second account is
needed for the scan to have a choice, a second ticket for two reveals. The TTLs keep the
order of the defaults (ticket < session) and two seconds let both expire. The sources
of `pool` keep the proportions of the defaults: one interval leaves room within
the freshness, the other exceeds it. The proofs lift the bounds of the gate, the pool, the
limits and the page altogether. On the page, two tasks are what it takes to cross: a
retry, which runs without the busy flag, beside what a button began, or a copy that awaits
the clipboard beside a replacement; one account on the screen and one to replace it.
The proof covers more requests at once, and boxes that are unticked.

`ExhaustedMeansShown` and `FailedIsLastResort` are in the run with two sessions since
only another session can rate an account before it is shown. `NoRepeatInSession` would
hold there because one request at a time leaves no overlap, and is violated in
`gate_repeat`.

Deadlock is not checked in `rate`, which ends when every request is answered, in
`rules`, which ends when an input is chosen, and in `workflow`, whose counts of edits
and sessions run out. Symmetry is used where only safety is checked.

Each property has a mutant in `PROJECT.json`: a definition such as `ShortOnceDeath` or
`StubbornTurn`, marked "mutant" where it stands, that replaces the definition after it
and makes TLC report that property as violated.

### Fairness

`SourcePool` and `RelayClient` state liveness. `SourcePool!FairSpec` assumes weak
fairness of each poll loop (the event loop runs ready tasks, Redis commands time out, a
fetch ends because each read has a timeout and the body a size limit), of a read under
way, of `stop()` once its tasks have ended, and strong fairness of time, since any
number of reads may fit in a second but seconds do pass. Nothing makes the process
start, stop or crash, and nothing makes a source answer: `ComesBack` takes "stops
failing" as its premise.

`RelayClient!FairSpec` assumes that each request in flight comes to its end: a browser
answers a `fetch` or breaks it off. (It is the weak fairness of each task's `Proceed`,
written out: a request in flight can always proceed, and only that or a reload changes
it.) Nothing makes the visitor act or the clipboard answer. `Settles` says the page does
not stay busy; `client_retry` is what "settled" may look like.

### What the violated runs show

- `gate_repeat`: two reveals of one session both find an account unseen and both mark
  and deliver it. The documentation promises no repeats within a session (README.md:25).
- `gate_conflict`: the feedback key is set, the verdict's own SET fails, the client is
  told 503 and then 409 (FRONTEND_API.md:181) although the verdict was never recorded.
- `pool_ready`: the clock is read, the second ends, the source renews its slice, and the
  read rejects it as coming from the future, although /readyz promises readiness with
  an unexpired slice (README.md:85). `NoneMeansRenewed` says this is the only way.
- `client_retry`: a verification that meets a 429, a 503 or a lost connection leaves the
  loading view with nothing to press (PRODUCT.md:41 promises a direct retry).
- `client_locked`: the verdict is in, the replacement fails, the page is loaded again:
  the account is back, locked, without the retry (PRODUCT.md:22).

### Disagreements seen while modelling that no run is about

The gate and the pool:

- README.md:160 gives "Reveal 503" as the sign of missing slices, while the code answers
  200 with `exhausted`; README.md:26 gives one order of ranking, while for the intents
  other than `target_app` accounts rated `shadowrocket_missing` come before unknown
  ones, as FRONTEND_API.md:130 suggests.
- Concurrent reports of several sessions on one account leave the verdict of whichever
  SET came last; nothing documents which should win.
- A card nested in a card: the username of the outer is paired with the password of the
  inner one, since `find_all` is recursive and `_has_nested_card` (dom_source.py:43) is
  never called; README.md:20 and tests/test_adapters.py:95 speak of one card. A marker
  that is an attribute of the card itself is not seen. `SourcePages` has both.
- A rate window of one second passes validation while a charge may take two (the socket
  timeout), so a key can die before its last charge; `WindowLimit` names the premise.
- `UPSTREAM_TIMEOUT=nan` passes validation; a blank `TURNSTILE_EXPECTED_HOSTNAME`
  passes the validation for production, and verify() then does not compare
  (turnstile.py:48); a `PUBLIC_ORIGIN` with capitals or its default port is accepted and
  refuses every browser; the development default keeps a `__Host-` cookie without
  `Secure`, which browsers drop. `GateSound` states what holds beside these.

The page:

- A slow clipboard: the copy awaits and then marks whichever account is on the screen
  (app.js:1069, :1251). An account that came meanwhile has a step nobody took, and can be
  judged without its password having been copied.
- A verdict sent for one account whose answer arrives when another is shown locks the
  other (app.js:801): `FeedbackTaken` does, so no property speaks of which verdict a lock
  stands for. Only the failing branch looks at the account, and of what that branch keeps
  for a retry `RetriesSameAccount` speaks.
- The session may be over while the cookie lives: feedback is then refused with a 403
  each time it is retried, and loading the page restores the same account.
- A verdict whose answer is lost was recorded, and its retry meets a 409, which the page
  treats as a failure to be retried.
- A copy hides the recovery, and an error of the widget replaces a retry by a reload.

The tooling:

- Two commands at once: start writes the pointer of a task archive is moving
  (active_task.py:558); a status set between another command's read and write is lost
  (task_store.py:748). One window's finish names another window's task when it falls
  back to the only session file (active_task.py:579); start succeeds without an
  identity though workflow.md:76 says otherwise.
- A `task.json` that cannot be written, or a session file that cannot be deleted: the
  commands do not look (task_store.py:483, :502; active_task.py:263). An archive then
  moves a task that is not marked completed, or one that a pointer still names. The
  properties of `TaskStore` name the faults they exclude, and hold for the others.
- Tasks linked into a ring all have a parent and are not listed (task.py:248). A command
  killed between the two writes of a link, and the reverse link made then, lets the
  textual view of `session_context.py` recurse without end; `ContextViews` assumes links
  that agree at both ends, and `LinksAgree` is claimed where nothing is killed.
- A failing `git ls-files` counts as "was not tracked" (task_store.py:572), and then a
  failed add or commit is reported as success with the source still in HEAD, although the
  comment says whichever step failed is covered. A failed `git rm` is not looked at.
- git: a commit takes along what was staged before (task_store.py:614), phantom
  deletions (:592), a false failure (:606); `git add` on an ignored directory stages its
  tracked files (safe_commit.py:251). `AutoCommit` has these steps, and its properties
  are stated for the uses in which they hold.
- The journal: of two sessions added at once one may be missing from the index
  (add_session.py:186); a killed rewrite leaves a torn index (:372), and a run killed
  after the append a session without a row, whose number the next one takes again; init
  killed half way is not finished by the next (developer.py:76).
- An agent started in the shell of another inherits its `CLAUDE_PROJECT_DIR` or
  `CURSOR_PROJECT_DIR`, and its hook takes itself for the other's
  (inject-workflow-state.py:98): it then misses its own session, and with a late payload
  announces the host's task though the window has one. `RightTask` has this as a case.
- References: a relative one outside `.trellis` gets a pointer only when something
  shadows it, and one with ".." leaves a pointer archive does not recognise.
  `get_codex_dispatch_mode` folds case and blanks, the hook and `workflow_phase.py`
  compare exactly. `filter_platform` takes `[workflow-state:…]` tags for markers.
  Comments after the items of a list are not stripped. Versions that differ in leading
  zeros compare as equal and end the comparison.

## Proofs

Every theorem holds for all values of the constants that satisfy the named assumptions
of its module; TLC evaluates those on its instances. Assumptions on constants say that
limits, lives and sizes are numbers in the order `config.py` asks for, and that `None` and
other marks are nobody's name. "One at a time" is the hypothesis `Single` (there is one
process), as in the runs: with two, TLC finds each of those properties violated.

| Module | Theorems |
|---|---|
| `RevealGateProofs` | `TypeOK`, `TicketPaysOneReveal`, `DeliveredIsShown`, `NoRepeatAfterDelivery`, `ExhaustedMeansShown`, `ReportLocksAccount`, `ReportedIsShown`, `FailedIsLastResort`; `KeepsLedger`: `RevealGate` implements `GateLedger` |
| `SourcePoolProofs` | `TypeOK`, `ServedIsFresh`, `NoGap`, `NoneMeansRenewed`, and `NoStoreAfterStop` as an action property |
| `RateWindowProofs` | `TypeOK`, `WindowLimit` (of punctual charges), `RefusalEarned` (of all) |
| `RelayClientProofs` | `TypeOK`, `ReloadKeepsProgress`, `OneAtATime`, and `RetriesSameAccount` as an action property, for any number of requests and copies at once |
| `TaskStoreProofs` | `TypeOK` for any number of commands; for one at a time `PointersLive`, `MissingChildIsDone`, `ParentIsActive`, `LinksAgree`, `ListEnds` |
| `CommitProofs` | `ArchiveCommitted`, `CommittedOnce`, and `NothingBundled` as an action property |
| `SessionProofs` | `RightSession`, `RightTask`; for one run at a time `JournalSound`; `PartTypes`; that `MCWorkflow` implements `TaskStore` |
| `RuleProofs` | for every member of `Inputs`: `PagesSound`, `PoolsMerged`, `GateSound`, `VersionsOrdered`, `ViewsSound`, `RefsSound` |

None of the properties of the state machines is inductive; each proof rests on an
inductive invariant, and TLC checked its parts on the instances before they were proved.
The rules have no steps: their theorems say that a property holds of an input, whichever
member of `Inputs` it is.

**The gate** (`RevealGateInvariant`):

- `RequestShape`: what a request's fields hold at each of its commands;
- `SessionCustody`, `TicketCustody`: a token being stored belongs to one request and no
  client has it yet; a ticket that paid is gone from Redis for good and belongs to one
  request or one delivery. This is what makes GETDEL sufficient;
- `KeyLives`: a session never has more than its TTL to live, so a shown or feedback key
  written or renewed now dies no earlier. `Remembers` follows an account from the SADD
  through the EXPIRE, and through a restart that ends the session with it;
- `ScanFacts`: each account of the pool is still to be read, collected, being rated, or
  remembered as shown; none collected was delivered before the reveal began;
- `ScanOrder`: one candidate per account, and the choice is one of the best.

The proof takes the conjuncts one at a time: a lemma per conjunct and per group of
actions, with lemmas on what a step can do to keys (`Alive` only becomes false with
time, tokens are drawn once) cited in between; `Invariance` puts them together.

**The refinement** goes through the same invariant: per command, a lemma says which
step of the ledger it is, or that nothing the ledger speaks of changes. The commands
that matter are the store of a session, the store of a ticket, the GETDEL (redeem), the
delivery (pay), the claim of a report (lock) and what time or a restart takes away.

**The pool**: `SliceAges` (age and validity of a slice add up to the freshness),
`LoopsFollowPhase` (which loops run in which phase, and how long a Redis command is
open), `SteadyInTime` (while nothing goes wrong, the key's age is bounded by
`Underway`, what the loop has spent since its store), and `ReadFollowsOrder` (what a
read has passed over was stored to since it began). `NoGap` follows because `Interval +
FetchMax + 2 * Latency` is within the freshness for the sources it is claimed of.

**The limits**: `OpenInTime` (a charge is sent at most `Latency` after its clock was
read); for punctual charges `CountersLive` (a counter that counts lives to the end of the
next window, which is later than any charge of its own) and `PassedAreCounted` (it counts
those it let pass); without that premise `CountedAreCharged` (it counts no more than those
who charged it) and `BeyondMeansCrowded`, from which `RefusalEarned` follows.

**The page**: `SavedTracks`: there is a saved item exactly when an account is shown, it
is that account with its steps, and its lock can only be behind while a replacement is
under way, which saves when it ends. `Alone` is `OneAtATime` with what makes it
inductive: a verification runs under the busy flag it raised. Tasks of the buttons begin
only while the flag is down and raise it, retries and copies do not raise it and leave
it alone when they end (`Finally`), and a reload ends all of them; so the flag is up
exactly while one of the buttons' tasks runs. `RetriesSameAccount` is shown action by
action: a verdict kept for a retry stands in `recovery`, every action that shows another
account clears it (`ShowAccount`, `RevealView`), and only a failed verdict on the
account that is still shown puts one there.

**The task store** (`TaskStoreProofs`): `Shape` adds to the types what a command knows
of its two tasks at each of its steps (`FieldsSet`). `PointerInv`: from the moment
archive has gone over a session file until it moves the directory, that file does not
name its task (`Cleared`); `shutil.move` is then the only step that takes a directory
away, and it comes last. The three properties of links share `LinkInv`: no task is in
both places (`Apart`); a listed child is active with a readable record, or archived and
completed (`ChildrenKnown`); a parent that is named is active and lists the task, except
between the two writes of an unlink (`ParentsKnown`); what a command has in its hands is
what the files still say, and every task that names an archive's task as its parent is
one that the archive has yet to free (`InHand`, with `Freeing`), which holds because
nobody else writes and no write is refused (`Tidy`). `ChildrenAgree` says that both ends
of a link agree except between the two writes that make or undo it. `ListEnds` follows
without induction: the tasks that are not below themselves are closed under children,
because the only parent of a task on a ring is on the ring, and the tasks at the top are
among them.

**The commits** (`CommitProofs`): `Committing` has one conjunct per question. `Away`: an
archive's task has left `tasks/` and nobody brings it back. `OnceInv`: a task's
directory is in one place, the index does not have it in the archive before it is there,
and where the use is sound (`Sound`, the premise of the property) the index has it in
its old place only while the archive that moved it has yet to take it out (`Leaving`).
`ScopeInv`: where commits do not fail, index and commit are equal until a command stages
something, and then differ on the paths it chose and the old place of its task
(`ScopeOf`). `OutInv`, `AloneInv` and `PairInv` carry "ok means gone": after a `git rm`
that did not fail the source is out of the index; alone, an archive whose source was not
tracked had nothing of it in the last commit; and of two, a deletion in the index that
is not in the commit belongs to one that has yet to look at that path and commit
(`Deleted`, `Unstaged`), since the two archive different tasks, and if one wrote the
other's task as a child, that other still finds the children it wrote itself
(`KeptApart`). Where `ls-files` may fail and nothing else does, "not tracked" says
nothing, and "ok means gone" rests on the `add` and the commit that were made after it
(`ListInv`).

**Keys and tickets** (`SessionProofs`): tickets carry keys of Cursor windows
(`TicketsOwn`), and a session file belongs to a window that can find its key again, by
its environment or a ticket (`SessionsOwn`); `Setting` is what windows are. A key that is
found is some window's own, so the fallback can only announce another's task when that is
the only file. A hook takes the platform of its window or of its host, and a host has
none of its own: so the key a late payload leads to is the window's or the host's.

**The journal** (`SessionProofs`): `Knows` says what a run knows at each step: the file it
chose is there or is to be made and has room for the session, and, once it is appended,
the session and all the rows it will write can be read in journal files. `PageSound` says
the same of the rows on the disk. Every step is shown to keep the invariant, a crash
included: a cut write leaves some of the rows. `WholeInv` is kept as long as nothing was
killed: the number a run read is still one more than what the index counts, the sessions
of the journal files are those up to it, and the index it will write has their rows
(`Counts`); from it follows that both tell of the same sessions after each run.

**The rules** (`RuleProofs`): `Inputs` has bodies in any chunks, pages of any size,
slices of any number and length, settings with any numbers, versions with any components
and any text a hint may read, projects with any finite number of tasks, layouts of any
finite number of directories, and any reference in any tree of directories. Induction is
over a set of numbers in place of a predicate (`Induction`, from the well-foundedness of
`<`), and `Recursion` shows that what a rule defines by recursion up to a length is a
function with the values the recursion gives it. The bytes taken from a body never fall,
so it is refused exactly when all its chunks exceed the limit. On a page, of two
elements around a third one is around the other (`AroundNested`); so of two cards that
pair one password the inner lies in the outer, which then has two usernames for it and
pairs neither. The loop of the merge keeps, of the accounts so far, the first of the
freshest for each id (`StepKeeps`); a finite set of accounts can be sorted
(`SortingExists`), so the pool is one of those orders. Two versions are compared at the
first place where they differ, or by their lengths; the sign found there decides, from
which antisymmetry and transitivity follow.

The views are printed from the top, level by level. Where links agree, a task is printed
on a level as often as its parent on the level above (`SumAbove`, a sum of zeros and
ones), so it is on one level at most (`OneLevel`). There are more levels than tasks, and a
level that has a task has all levels above it filled with others, so the last one is empty
(`LastLevelEmpty`) and the recursion of the view ends; the tasks on no level are those from
which the top is not reached (`HiddenAreOffLevels`), and the other views count them.

A reference is followed name by name (`WalkIs`). One without "." and ".." leads to the
directory of its own name or to none (`PlainPlace`), and what start finds has no "." in it
and no ".." unless one was typed (`FoundIs`); so the pointer it stores resolves to what it
found, in the commands and in the hook (`PointerIs`). What archive moves is three names
deep whatever was typed, because `is_within_tasks_dir` looks at where the path ends.

`Inputs` asks of a project that no task is called by one of the marks the model uses for
pointers, and that no status is the hook's own word "stale"; of a tree, that the
agent's directories are there, that no task is called ".trellis" and that nothing is
called by the mark of a path that leads nowhere; of a page, that elements come after the
one they stand in. Every input of the run for these rules is a member.

Only model-checked: the gate's `NoRepeatInSession` and `ConflictMeansRecorded` are
refuted, so there is nothing to prove; liveness (`PollsGoOn`, `StopEnds`, `ComesBack`,
`Settles`) is out of the prover's reach; `GuidesSound`, whose documents are parsed by
operators that recurse over data (`RECURSIVE`).

## Not modelled

- Page assets, styles and sound: no state the program decides by. The security headers
  other than the script sources are constants.
- The CLI adapter: tables of command lines, imported by nothing in the repository. The
  task context entries (`task_context.py`): appends to and lists of JSONL files that no
  command decides by. Queues, developer getters, wrappers of git and logging: filters
  and wrappers without state. The Linear hook: an example that calls a service.
- A Redis command that times out in the client and is executed after later ones: a
  command takes effect before its request goes on or not at all.
- A clock that steps back; several app processes behind one Redis (the documentation
  deploys one).
- The output of git and the wording of the context views; sub-second time.
