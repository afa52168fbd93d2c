# A verification project for Excel Generator

Excel Generator turns uploaded documents into tables: a Django backend
(`src/backend`) extracts text, asks a language model for structured output,
keeps it in chat sessions and exports it as CSV or XLSX; a Next.js frontend
(`src/frontend`) drives it. This directory holds TLA+ models of the parts where
requests, threads, browser tabs and restarts meet, the TLC runs that check them
and the TLAPS proofs about them. `PROJECT.json` lists the components, runs,
mutants, source lines of every definition, findings, hazards and theorems.

To check a run: `tlc -config ChatSummary.cfg MCChatSummary`. To check the proofs
of a module: `tlapm ChatSummaryProofs.tla`.

## The system

What the models rest on, read from `config/settings.py` and the deployment
script: the database is PostgreSQL in autocommit (no `ATOMIC_REQUESTS`), so a
request is a sequence of statements between which any other request may run,
and only what the code puts in `transaction.atomic()` is one step. There is no
`CACHES` setting, so the cache is the one Django keeps in the memory of the
server process; a deployment restarts gunicorn and thereby empties it. Time in
the models is a clock that may advance between any two steps.

| Part | State | Operations | What makes it hard | What makes it correct |
|---|---|---|---|---|
| Chat history summary (`chat_sessions/services.py`, `llm/views.py`) | session row with summary and watermark, messages, refresh pool | send and stream a turn, refresh in the request or on the pool, append, delete a session | summaries written from stale reads, messages stamped before they are visible, a pool that lags, restarts | the summary covers a prefix of the history, prompts lose nothing, refreshes only advance |
| `llm_generate` (`llm/views.py`) | idempotency record in the cache, sessions, outputs, history rows | claim the key, run the workflow, store, complete or release, replay | expiry during a long call, failing steps, retries, restarts | one run at a time, replays are the original, no repeated work |
| Rate limiting (`api/decorators.py`) | one counter per client, view and window | count, admit or refuse | counting is three cache calls, the clock goes on | the limit holds, nobody is refused early |
| Accounts (`authentication/`) | the `auth_users` row: status, nonce, password | register, re-register, resend, verify, Google, reset and change password | mails fail after the nonce is saved, threads hold old rows | the last link works, links work once, verified is for good |
| Sessions of a user (`authentication/`, `frontend/src/lib/auth.ts`, `api.ts`) | `session_version`, blacklist in the cache, tokens in browser storage | sign in, refresh, call, sign out, change password | tabs share storage, answers come late or never, the blacklist is lost at a restart | nothing survives a sign-out, a live session is not refused |
| Artifact history and exports (`artifact_history/`, `api/views.py`) | history row, export row, export directory | download with a cached file, heal a stale row, delete | rows and files change separately; racing first downloads; deletions half done | whole files only, recovery, no unexplained orphan |
| Output refinement (`llm/services/refinement_service.py`, `generation_service.py`) | candidates of one request, the schema's fragment, the prompt | ask, judge, ask again, stop early, explain | counters and early exits, the schema changes meanwhile, two interfaces of the provider | the best candidate is returned, one schema per request |
| Output tables (`llm/services/export_service.py`, `file_processing/services/export_service.py`) | stored tables of an output | make tables of any output, validate, map, name sheets, quote formulas | headers and names are normalised twice, by different code | cells under their header, names apart, nothing lost that needs no mending |
| Custom schemas (`custom_schemas/`, `useCustomSchemas.ts`, `useCustomSchemaManager.ts`) | rows per owner; list, form, dialog and spinners of the page | create, rename, delete, list | the quota is counted before the insert, answers overtake each other | names unique, the quota passed by few at most, the list is the rows |
| Monitoring service and repositories (`monitoring/`) | two caches, Redis or memory, series of buckets, alert state | record, snapshot, probe, alert | threads share fields without a lock, Redis fails for one of them | bounded staleness, buckets cover the window, no silent outage |
| Monitoring page (`app/monitoring`, `services/monitoring.ts`) | load, event stream, polling, retry | open, install, hide, leave | the stream arrives after the page changed its mind | no stream lost, none trusted in vain |
| Convert page (`useConvertFlow.ts`) | what is shown, conversions and downloads in flight | convert, follow up, download, reset | answers come late | what is shown comes from one conversion |
| History page (`useHistoryFiles.ts`, `useSessionResume.ts`, `useSessionThinkingLogs.ts`, session views) | list, dialog, selection, details | load all, rename, delete, select | other tabs change the rows, answers come late | no deleted or doubled session, details of the selection |
| Login attempts (`authentication/login/`) | a counter in the cache | check, count, reset | check and count are far apart, counting is three cache calls | the limit bounds the guesses, refusals are earned |
| Upload and extraction (`file_processing/`, `api/views.py`) | one file, its temporary copy, the pages read | validate by extension, libmagic and content; read by layer, text or OCR; clean up | libraries fail half way and another way of reading takes over; the process is killed | what is answered is what the file is, page by page; no copy stays unexplained |

The components meet in few places: `llm_generate` and the chat turns append to
the same sessions; downloads read what `llm_generate` archived; every
authenticated call goes through the session model's `Authenticate`; the rate
limit, the blacklist and the idempotency key share one cache, under disjoint
keys; the views of the accounts are recorded in the metrics. No property needs
two of them at once, so they are modelled apart.

## Modules

`MCx` instantiates `x` for TLC, `xProofs` holds its theorems. Small components
share a run: `MCConvert`, `MCAccount`, `MCRateLimiter` and `MCSession` extend
several modules, a variable `which` says at the start of a behaviour of which of
them it is, and the others stand still. Nothing is claimed of their
interleaving, for they share no state; where their types are checked together they are one
invariant, `MCTypeOK`, the conjunction of theirs.

| Run module | Modules |
|---|---|
| `MCChatSummary` | ChatSummary |
| `MCConvert` | Upload, GenerateRequest (with IdempotentKey), Refinement, ConvertFlow, ExportTables, HistoryExport |
| `MCAccount` | Account, MonitoringStats, CustomSchemas |
| `MCRateLimiter` | RateLimiter, LoginAttempts, RealtimeSeries, ReadinessAlerts, Dashboard |
| `MCSession` | Session, HistoryPage |

### ChatSummary

One session. A message is its `created_at` stamp and a summary text is the set
of messages it was written from: whether a summary is right is then a statement
about sets, and what the model writes is left out. A turn is `Load` of the row,
reading the history, building the prompt (with a refresh in the request, or one
queued for the pool), the provider's answer and the append under the row's lock.
The stamp of a user message is drawn before the commit, so a message can become
visible behind younger ones; `Overlap` bounds by how many. Storing a summary is
the compare-and-set of the code on watermark and summary. A pool thread takes a
task, asks the provider and stores. `FollowUpMessage` is the append that
`llm_generate` does, `DeleteSession` and `Restart` (which loses the queue) are
the environment.

`ChatSummaryInv` is the inductive invariant in named parts, `ChatSummaryProofs`
proves it.

* `SummaryCoversPrefix`: the watermark counts exactly the summarised messages
  and they are the oldest, however late a message became visible.
* `PromptComplete`, `RepeatsOnlyRecent`: a prompt loses no message and repeats
  one only within the recent window, also after a lost compare-and-set.
* `RefreshAdvances` (action property): no older summary is put back.
* `RefreshProgress` (liveness): a refresh given to the pool is not lost.

### GenerateRequest and IdempotentKey

Requests with one `Idempotency-Key` of one user. The cache record is
`absent`, `in_progress` or `completed`, with payload hash and expiry; a payload
is its own hash. A request looks the key up, tries `cache.add`, looks again, and
if it holds the lock runs the workflow step by step: resolve the session, ask
the provider, attach the prompt, store the output, archive, complete; every step
may fail as in the code and release the key. `IdempotentKey` is the abstract
promise (claim, produce at most once, give up); `PromiseKept` is its
specification under the refinement mapping at the end of `GenerateRequest`.

* `OneRunAtATime`, `LockHasRunner`, `ReplayIsOriginal`, `OutputsApart`, and the
  refinement `PromiseKept`.

### RateLimiter

One client and view, several windows. A request reads the clock, then
`cache.add`, `cache.incr` and `cache.add` again, each its own step. Time has
`Second` ticks to a second, for what happens within one. `slow` are the windows
in which a request was counted more than a second after reading the clock.

* `WindowLimit`: a window without such a request admits exactly its first
  `MaxRequests`. The code keeps an entry a second longer than its window, which
  is what makes this true; a slower request can find the entry gone and starts
  the count over, so slow windows are left out, visibly, in the statement.
* `RefusedAtLimit`: nobody is refused early, for any delay.

### LoginAttempts

The wrong passwords of one e-mail address. A login asks whether the address is
locked, tries the password, and on a failure calls `cache.add`, `cache.incr` and,
when that raises, `cache.set`, each its own step; a success deletes the entry,
which also expires and goes with the server.

* `AttemptsLimited`. `RefusalEarned`: a refusal means `LoginLimit` failures were
  counted within the window, since the last success. `GuessesBounded`: in the
  life of an entry fewer than `LoginLimit` and the logins that run at once are
  counted, those that had passed the check when the limit was reached. The
  statement leaves out entries that were written over: a failure whose entry
  expired between its `add` and its `incr` sets the count to 1 whatever others
  have counted since, and reopens an address they had locked.

### Account

One e-mail address: registration, re-registration in a transaction that keeps
the row locked while it mails, resending, the mailed link, Google sign-in,
reset and change of the password. Each thread holds the `User` object it read.
A nonce is a fresh number and a link is its nonce.

* `LastLinkWorks`: when no mail is under way the last mailed link verifies
  (one sender); `LinkUsedOnce`; action properties `VerifiedForGood` and
  `ReregistrationSparesVerified`. The latter is about registering again; the
  password a first registration writes is in the row before any link exists.

### Session

One user, any number of browsers and requests of each. A pair of tokens is its
claims: session version and time of issue. The ghost `since` says how often the
user had signed out when the credentials the pair descends from were checked.
Browser storage is shared by tabs, answers may be lost, and the server restarts
and forgets its blacklist.

* `SignedOutStaysOut`: a pair the server still takes descends from credentials
  checked after the last sign-out.
* `RetiredStaysRetired`: a blacklisted refresh token buys nothing while the
  server process lives. `RefusedOnlyWhenOver`: tabs that refresh together do not
  sign each other out.

### HistoryExport

One history record and one format. Each download writes at most one file, under
a fresh token, so a file is known by the request that makes it. A download loads
the record, resolves the row, writes its own file (in two steps, between which a
worker may die), is validated by `full_clean()`, inserts, looks up the winner
when it lost, and opens; a cached file that is missing makes it delete the row
and start over, once. A deletion reads the rows, removes the file, and deletes
the record with the cascade in one transaction.

* `WholeFilesOnly`, `WinnersFileStays`, `DeletedIsForgotten`.
* `UndisturbedSucceeds`: a request that overlapped no other and met no failure
  does not answer 500, whatever half-done deletions or missing files it finds.
* `OrphansAreExplained`: a file without a row was left by a request that was
  disturbed.

### Refinement

One `llm_generate` request between its validation and its output: the schema's
fragment, the prompt cut to its budget (whole, sampled or summarised), the
provider over `/responses` or chat completions, the loop over candidates and the
reasoning. A candidate is its errors and warnings, sizes stand for text. A
document is its size, whether it has tables that can be cut to a sample, and
whether a summary names anything of it (its `filename`, `format`, `user_prompt`
or the tables of its `extracted`). The owner may edit or delete the schema at any step.

* `RefinementSound`: `BestReturned` (no candidate is better, the last of the
  best, a valid one if there was one), `StopsForAReason`, `OneSchemaPerRun`, and
  `DocumentIsShown`: the first prompt shows the document or names it, unless it
  is too long and a summary names nothing of it. Of such a document the prompt may
  have sizes only (`_prompt_budget`, or the number of items of a list).

### ConvertFlow

One convert page: conversions and downloads in flight, answers in any order,
aborts, reset. What is shown is known by the conversion it came from.

* `PageTrue`. `PageConsistent`: output, upload and session shown are of the last
  conversion, and the page is busy exactly while that one is.
  `DownloadsFaithful`: follow-ups go to the session of the output shown, and a
  saved file holds the output that was shown when it was asked for.

### ExportTables

The pure part, from an output of any shape (canonical, direct table, several
sheets, one object) to the sheets of a file. Texts are sequences over a small
alphabet because their trimming, case, numbering, quoting and cutting is what
matters. One character stands for those a formula may begin with, and some values
for texts that begin so; such a value is written negated, for its text behind an
apostrophe.

* `ExportFaithful`: `NamesApart` (sheet and file names differ without case, fit,
  are not empty); `CellsInPlace` (a value stands in its row under its header, the
  headers written are the stored ones or those behind an apostrophe, no two meet
  but by that apostrophe, and nothing written is taken for a formula);
  `OrdinaryKept` (an output that needs no mending is never refused and keeps
  every value).

### Upload

One POST of a file to `upload()`. A file is a record of what the code and its
libraries look at: its extension, what it really is, what libmagic calls it
(anything at all, or an exception), what the client claims, its size, and by
kind its pages, sheets, rows, or the page hints of a Word file. The steps are
those of `process_upload`: `Receive`, `Validate`, `Save`, then by extension
`ParseFile`, or for a PDF `CheckPdf`, `ReadLayer` (pdfplumber, page by page),
`Augment` (OCR of the pages without text) and `ReadWhole` (the whole document
again, by PyPDF2's text or by OCR), and `RemoveTemp`. `work` is "whole" in the
call of `process_pdf` inside the `try` and "again" in the one of its `except`. A
library may fail at every step, `poppler` may make images of some pages only,
of one page or of the whole document, and `Killed` ends the process anywhere. A
cell of a sheet is a number, and a negative one is the text `null` or `nullxN`
that the parser also writes for the blanks a row ends in.

* `UploadTrue`, of an answer 200. `AnsweredAsItIs`: the file is of its
  extension's kind, can be read, is not locked, and is within the limits of size,
  pages and sheets, whatever libmagic and the client say. `PagesInPlace`: what is
  listed as a page was read of it, in order. `NoPageLost`: every page is listed,
  or the text was enough and every page with text is. Both except a document read
  as images of which `poppler` left pages out (`PagesSkipped`): those that follow
  are then numbered too low, and `PagesInPlace` says that they still come in
  order. `LayerIsKept`: OCR replaces
  no text of the layer. `MetadataIsTrue`: `ocr_metadata` is of what OCR has read.
  `CsvCellsKept`: a cell is under the header of its column. `SheetRowsKept`: a row
  can be told from what is parsed of it, blanks included, unless its last cell is
  a text like the marker of blanks.
  And of any end, `LeftoversExplained`: a temporary file is left only by a failed
  write or removal or a kill.

### HistoryPage

The sessions of a user in the database, other tabs, and one page: the list with
`loadAll`, the dialog of a rename or delete, the selection in the address and the
two hooks that fetch details of the selected session.
A rename's answer carries the title its own request stored, which may be older
than the newest; the browser's buttons may lead the address back to a session
that was deleted since.

* `HistoryTrue`: no session twice, none that this page deleted, no title the
  server has not seen; details and spinners belong to the selection; a rename
  never revives a deleted session.

### CustomSchemas

The rows of one user, requests of the page and of other tabs with the database
statements as steps, and the page, from its opening: it shows nothing and asks
for the list. Every request of the page waits for a token before it sets its
flag, so a button can be pressed again; there may be no token (`NoToken`), and
any request may fail. The ghost `unseen` has the rows no list has told the page
of since it was opened, or since a reload without a token emptied it.

* `SchemasTrue`: names stay apart and the quota is passed by fewer rows than
  there are requests (`LimitNearlyKept`; it can be passed, see below); when all
  requests are answered and none was entangled with another, the page shows
  exactly the rows but the unseen ones (`ShownAreRows`): all rows, once a list
  has reached it.

### MonitoringStats and RealtimeSeries

`MonitoringStats` has the threads of a process between their calls: recording a
request, the stats cache of the service, the snapshot cache of the Redis
repository, the switch to memory. `RealtimeSeries` is the arithmetic of the
buckets, in Redis and in memory.

* `BoundedStaleness`, `FreshUnlessRaced`: an answer holds what both caches may
  not keep back any more, and what was recorded before it was asked unless an
  answer was being built meanwhile.
* `SeriesCoverWindow`: both series hold all requests of the window, but for one
  bucket, and none older than the buckets reach.

### ReadinessAlerts

Threads that answer readiness and snapshot probes and alert the operators.

* `NoSilentOutage`: a result that is not sent has an alert of its own status,
  begun less than a cooldown ago.

### Dashboard

The monitoring page: loads, the stream they open, polling, retries, hiding and
leaving.

* `StreamsTrue`: an open stream is held or about to be handed over; a page that
  does not poll has a live stream, unless it ended before it was handed over.

## Runs

| Run | Instance | Shows |
|---|---|---|
| `chat_summary` | 2 requests, 1 pool thread, 8 stamps, `Keep` 3, `Refresh` 2, `Overlap` 2, queue of 1, faults | the safety properties; every path: refresh in the request, on the pool, conflict, provider failure, client gone, restart, late stamps; 1.2 million states |
| `chat_summary_progress` | 2 requests, 2 pool threads, 10 stamps, `Threshold` 4, no faults | `RefreshProgress` |
| `convert` | 2 requests, a payload inside and one outside the session, `TTL` 2, runs of at most 1, 3 ticks, 2 outputs, 2 server processes; refinements of up to 3 candidates; 3 conversions and 2 downloads; documents within the budget and beyond it, with and without tables and names; every small output with up to 3 tables or headers, formulas among them; 3 accesses to one history record; files of every content under every extension and MIME type, documents of up to 4 pages any of which `poppler` may leave out, rows of up to 3 cells, markers of blanks among them | the properties of its six modules and the refinement `PromiseKept` |
| `generate_slow` | the same with runs longer than `TTL` | violation: two runs at a time |
| `rate_limit` | 3 requests, limit 1, 2 windows of 2 seconds of 2 ticks, any delay; 2 logins, limit 2, window of 2 over 4 seconds; buckets of 2 in a window of 5 seconds over 9 seconds; 2 probes, cooldown 2; 3 streams | the properties of its five modules; 2.0 million states |
| `account` | 3 threads (one sends, one verifies), 2 passwords, 5 nonces; 1 recorder, 2 readers, caches of 1 second, 3 seconds, Redis failing; a quota of 2 schemas, 2 requests at a time, 3 beside the first load | the properties of its three modules; 2.4 million states |
| `account_resends` | 2 senders | violation: a mail that fails puts back a nonce that was replaced |
| `account_double_verify` | 2 verifiers | violation: one link accepted twice |
| `account_google` | one account | violation: a Google user cannot set a password |
| `session` | 1 browser, 2 requests, 2 sign-outs, 1 restart, 3 seconds, access tokens of 1 and refresh tokens of 2; 2 sessions on a page, 2 changes by other tabs, 2 effects | the properties of its two modules; 2.4 million states |
| `history_race` | 2 downloads | violation: the loser of a race gets 500 |
| `history_short` | 2 sessions, batches of 1 | violation: a list that loads all sessions stops after one batch |

### Bounds

* *Two requests* are enough for a race between a request and another, and the
  pool thread, the deletion and the restart interleave with both. Three accesses
  to a history record, each a download or a deletion: one leaves a row, one
  fails to delete it half way, one heals it. A fourth, to heal it beside the
  third, is more than the shared run can carry; `HistoryExport` by itself, with
  four interchangeable accesses, satisfies the same invariants (300 000 states).
* *Stamps, nonces, outputs, times, sign-outs, boots* only grow; their bounds
  are in the guards that draw them. 8 stamps with `Keep` 3 and `Refresh` 2 allow
  refreshes that follow each other, conflict, and have messages appear late
  behind them; 5 nonces allow a registration, two resends and a verification;
  3 seconds allow both tokens to expire and others to be issued.
* *`Buckets` 2* with any delay lets a request of the first window count in the
  second and after the entry is gone.
* *`MaxSchemas` 2* and two requests at a time: from two rows every create is at
  the limit, from one the two pass it in every order; from one also, when the
  first load fails, a schema can be made beside one that is not shown. Three
  requests (`MaxAsked`) beside the first load let a deleted row be saved anew.
  Names are interchangeable, so the first rows have the same ones in every
  initial state, and four let the limit be passed by two. No form or dialog is
  opened when no request is left: it could ask nothing (`OpensForNothing`).
* *`MaxSheetName` 3* makes every name that is cut meet another or its number;
  names have up to four characters. Headers of up to three, rows of up to three.
* *`MaxPages` 3* with documents of up to 4 pages: every choice of pages with and
  without text, so that a limit is met and passed, some pages are read by OCR and
  some are not, and text is enough or not (`EnoughText` 1 a page, pages with 0, 1
  or 4 characters). `MaxFileSize` 2 and `Overhead` 1: a body may be too much with
  and without the file being so.
* *`PageSize` 2 with 2 sessions*: loading takes one batch in `session`, where the
  list is to be complete; `history_short` has two.
* *3 seconds* of metrics exceed the two caches of one second by one, so an answer
  can be too old; *9 seconds* of buckets of 2 pass a window of 5 with its
  rounding twice.
* *Probes*: two, and the clock as far as the cooldown: what one keeps may be
  changed by the other at every step. *Streams*: three, one held, one that ends
  and one that is being opened.
* Symmetry is used where only invariants and action properties are checked;
  never with `RefreshProgress`.
* `CHECK_DEADLOCK FALSE` everywhere: with their counters used up all models stop.
* The theorems do not have these bounds: they hold for every value of the
  constants.

### Fairness

Only `chat_summary_progress` needs fairness: a pool thread that has a task runs
it (`WF` of `TaskStart` and `TaskEnd`), which is what `ThreadPoolExecutor` does
as long as the process lives; the run has no restarts and a provider that
answers. Clients owe nothing: no action of a request is fair.

### Assumptions that matter

* `Overlap < Keep`: fewer messages than the window of recent ones are committed
  between the stamp of a message and its commit. The code does not enforce it; it
  is the time of one short transaction. It is tight: with `Overlap = Keep`
  `SummaryCoversPrefix` fails.
* `Longest < TTL`: a workflow ends before its key expires, by default after 300
  seconds (`llm/views.py:101`). The code does not limit a workflow to that, which
  may call the model several times; `generate_slow` shows what then happens.
* One server process. With several, each has its own cache, and idempotency,
  rate limits and the blacklist hold per process only.
* The cache keeps what is put into it until it expires. Django's memory cache
  drops a third of its entries when it has more than `MAX_ENTRIES`, 300 by default:
  a lock of a key, a counter or a blacklisted token among them is then gone before
  its time, as after a restart. No model has that, and what rests on entries that
  stay (`OneRunAtATime`, `WindowLimit`, `AttemptsLimited`, `RetiredStaysRetired`)
  is claimed of a cache with room.

## Findings

1. `generate_slow`: the lock of a key is not renewed, a run that outlasts it
   runs beside its retry.
2. `account_resends`: a failed mail writes back a nonce read earlier, and
   invalidates a link another request mailed meanwhile.
3. `account_double_verify`: a link posted twice at the same time is accepted
   twice, and the second password wins.
4. `account_google`: an account made by Google sign-in has an empty password,
   which counts as usable, so setting one asks for a current password that does
   not exist.
5. `history_race`: the Django model validates the unique constraint itself before
   inserting, and raises a `ValidationError` where the service expects an
   `IntegrityError`: of two first downloads one fails and leaves its file.
6. `history_short`: `session_list` answers the length of the batch as `count`,
   and the hook that loads all sessions stops there.

Each is quoted with the test or message it contradicts in `PROJECT.json`.

What else was met while modelling, where no run contradicts a promise:

* Schemas: two creations at once pass the limit; two with one name end in a
  `ValidationError` of `full_clean()`, which the view does not turn into an
  answer; an update saves the whole row and so brings back one deleted after it
  was read. On the page a saved schema closes whatever form is open by then, and
  a list read before a save shows the schema twice or not at all. After a
  first load that failed, a schema that is made is shown alone, as if it were the
  only one, and takes the message of the failure away.
* Alerts: two probes that judge at the same time both send (`MONITORING.md:131`
  promises one within the cooldown; it is a promise of the single thread).
* Metrics: a reader that finds the stats cache fresh may read it after it was
  dropped and fail on an assertion.
* Monitoring page: hidden while its stream is being opened, it keeps the stream
  (`MONITORING.md:68`); a stream that ends before it is installed freezes the
  figures until the page is hidden or refreshed.
* Refinement: the provider failing in a later iteration loses the candidates at
  hand; the prompt of a repair may be cut until nothing of the document is left,
  and already the first one, of a long list or of an object without the keys a
  summary keeps, may hold nothing but sizes.
* Convert page: the message of a download that ends after a reset is shown.
* Tables: of an object row, keys that need trimming or differ by case only lose
  cells; headers `a, a, a_2` stay doubled, and the download answers 400. Headers
  are told apart before they are quoted, so `=a` and `'=a` are one header in the
  file.
* Uploads: of a CSV with headers `a, a, a_1` a column is lost, because a numbered
  header may be one the file has; cells beyond the header are dropped, and a CSV
  of a header alone is refused as empty. The pages of a docx are estimated with
  manual and rendered breaks in one count, which may refuse a document within the
  limit. When OCR of one page fails, a document whose layer is short is read again
  as a whole, and a second failure answers 500 although most of its text was read.
  A page `poppler` makes no image of, in a document read as images, is lost without
  a word, and the pages behind it are numbered too low. A row of a sheet that ends
  in the text `null` or `nullx3` reads like one that ends in blanks.
  `save_temp_file` is called before the `try`, so a write that fails leaves part of
  a file, and nothing ever clears that directory.

## Proofs

| Module | Theorems | Argument |
|---|---|---|
| `ChatSummaryProofs` | `TypeCorrect`, `SummaryIsPrefix`, `PromptsComplete`, `PromptsRepeatOnlyRecent`, `RefreshesAdvance` | `IInv` of `ChatSummaryInv`. That a stored summary covers a prefix is not inductive alone: it needs that every summary a request, a task or the queue holds is one too (`Coverage`), and that what is a prefix stays one when a late message appears (`Settled`: at least `Keep` messages follow it, and by `Lateness` no message can come in before those). `Fits` relates a request's snapshot to the history it read, for the prompt. |
| `RecordProofs` | `RunsAlone`, `LocksAreReleased`, `ReplaysAreOriginal`, `NoRepeatedWork`, `KeyIsIdempotent` | `HoldsLock`: who runs holds a record that cannot have expired, by `Longest < TTL`. `KeyIsIdempotent` is the refinement of `IdempotentKey`, one abstract step or a stutter per step. |
| | `RefinementIsSound` (of `Refinement`) | `RefineInv` says of every turn of the loop what `RefinementSound` says of its end: `BestSoFar` (the best is the last of the best), `ValidFound`, `OneFragment` (every prompt was built from the fragment that was read), and `Stuck`: no candidate since the last improvement was better, which is a `Plateau` once the count reaches the patience. What a first prompt holds follows from what was built for it (`DocumentIsShown`), which the invariant keeps until it is sent. Any answers, number of iterations, patience, sizes and documents. |
| | `WholeFiles`, `WinnersFileIsKept`, `DeletedHasNoRow` (of `HistoryExport`) | `OnlySettled`: the maker of a file that is recorded, or that a request took from the row, is past writing and does not go back; so nobody opens or removes somebody's unfinished or recorded file. |
| | `UndisturbedNeverFails`, `OrphansHaveAReason` (of `HistoryExport`) | `SoleInv`: a request nothing disturbs is alone from its load to its end, so what it looked at has not changed when it acts (`Alone`); where its own file is at each step (`OwnFile`); and who takes a row away has read it and seen its file go (`TakesWhatItRead`), so what is left without a row had a disturbed maker or a failed removal. Any number of downloads and deletions. |
| `LimitsProofs` | `LimitHolds`, `NobodyRefusedEarly` | In a window without a slow request the entry equals the ghost count (`Exact`) and outlives the window by a second. The other one needs only that the entry is never ahead (`NeverAhead`). Any delay, limit and number of requests. |
| | `AttemptsAreLimited` (of `LoginAttempts`) | `RoomLeft`: the failures counted and the logins in flight together stay below the limit and all logins, so a login that passed the check cannot count past it. `CountsAll`: an entry that nobody wrote over counts every failure of its life. `CountedLately`: the failures counted are the last there were, none older than the entry. Any number of logins, limit and window. |
| `SessionProofs` | `NoSessionOutlivesSignOut`, `RetiredTokensStayRetired`, `RefusalsMeanOver` | `Versioned`: the version counts sign-outs, and every pair carries the version its sign-in found. `Listed`: blacklist entries are exactly the retired claims and last as long as the token. Any number of browsers, which the run bounds by one. |
| | `HistoryStaysTrue` (of `HistoryPage`) | `HistInv`: what is true of the list shown is true of the answers gathered so far (`ListsApart`), which are gathered only while no change is under way and nothing was deleted; titles only grow; the active requests of the two hooks are of the last effect and of the session followed (`LastEffectOnly`). `FilteredFacts` says what filtering keeps of a list. Any number of sessions, changes, renames and selections, any page size. |
| `AccountProofs` | `TypeCorrect`, `VerifiedStays`, `VerifiedPasswordSpared` | `LockHeld` and `DraftFollows`: a re-registration that has written holds the row's lock, nobody else writes meanwhile, so what it commits has the row's status, and the password of a row that is verified. `Transactions`: nothing else is in a transaction. Any number of threads that register, verify, sign in or change passwords. |
| | `UsedOnceByOneVerifier`, `LastLinkOfOneSender` | Under `OneVerifier` and `OneSender`, without which they are false (`account_double_verify`, `account_resends`). `UsedOnVerified`: once a nonce was used the account is verified and no other check that passed is left. `LastKept`: the nonce of the last link that was mailed is in the row, in the draft, or in the row that was read and will be put back; what is being mailed is in the row or the draft. Any number of threads of every other kind. |
| `MonitoringProofs` | `AlertTypeCorrect`, `OutagesReported` | `StatusAlerted`: the last status and the time of the last alert are written in different steps, and yet the alert of the last status was begun no earlier than any alert whose time is kept, or about to be kept, was judged. `NotAhead`: no time is of the future. Any number of probes, any cooldown. |
| | `StatsAreBoundedlyStale`, `StatsAreFreshUnlessRaced` (of `MonitoringStats`) | `StaleInv` bounds the age of whatever a call takes from a cache or a repository, from where it took it to its answer (`SnapshotsHold`, `AnswersHold`, `HitIsRecent`), and `MemoryIsLate`: who reads the memory has given up Redis. `FreshInv`: a counted request is found by every query that begins, and one whose recorder is done is in every snapshot that may still be kept (`CountedIsFound`, `RecordedIsShown`). Any number of recorders and readers, any cache lifetimes and stalls. |
| | `SeriesAlwaysCoverWindow` (of `RealtimeSeries`) | `InItsBucket`: a request is in the bucket of its time, or in the one before if its time is the very start of a bucket, and never in a future one. `KeptOrOld`: the queue misses only requests that have left the window, unless it was full. Any window, step and capacity. |
| `PagesProofs` | `DashTypeCorrect`, `StreamsStayTrue` | `NoneHeldWhileOpening` and `HandOverKnown`: a load opens a stream only while none is held, and one about to be installed is open or known to have ended. Any number of streams. |
| | `PageStaysTrue` (of `ConvertFlow`) | `PageInv`: while a conversion runs no output is shown (`NothingWhileConverting`), each download under way is of a conversion that is over and asks for that one's file (`DownloadsOfShown`), and no conversion is used before its turn. Any number of conversions and downloads. |
| | `SchemasStayTrue` (of `CustomSchemas`) | Each request counts the rows before it adds one, so `RoomKept` counts with the rows what the requests that have counted may still add: a new row, or one that was deleted since. `OneEach`, `Agrees` and `DueRight`: while nothing is entangled, page and rows differ only by the rows no list has told it of and by changes that are done and not yet answered, and each answer puts its change right, be it of a row the page does not show. Any limit and any number of requests. |
| `FilesProofs` | `ExportsAreFaithful` (of `ExportTables`) | `ExportInv`: the tables are `Build` of the output, the sheets `MapOutput` of tables that passed `Valid`, their names `Names` of those tables, and a refusal has its reason. Three parts, for any number of tables, rows, keys and values: **cells** (`BuiltHolds`): headers that are apart name one column each, so mapping a row to its headers when it is stored and back when it is written loses and moves nothing; an apostrophe can make two headers one only where one of them has it already (`HeadersAreTold`, `AlikeQuoted`), and nothing it is put before is a formula any more; **names** (`NamesNamed`): numbers that are written alike are equal (`DecimalInjective`), so two numbered candidates of a base are never like the same name, and of one more candidate than there are names one is free (`SomeFree`, by pigeonhole), and cutting, trimming and cleaning keep a name sound; **ordinary outputs** (`TabulatedKept`): their tables have `Fixed` headers, which are not mended and are never refused, and every value has its cell. |
| | `UploadsAreTrue` (of `Upload`) | `UploadInv`: after validation the file is fit (`FileFits`), and an answer's content has one of four forms: the layer, with no page empty (`ByLayer`); the layer with images of OCR in empty places (`ByBoth`); the text, when there is enough (`OfText`); OCR of the images there are (`ByScan`), which come in the order of their pages, so an image's place is its page or a lower number. Each form puts its pages in place, by `InOrderFacts`, an induction over the numbers that are listed. `FitIsIntact`: the checks of validation and parser together leave of every extension only its kinds. `HeadersDiffer` and `MarkedIsKnown` say of rows that numbered headers are apart and that the blanks a row ends in are known from their marker, if its last cell is no text like one. Any number of pages, rows and headers, any limits, and any answer of libmagic. |

The theorems rest on the named assumptions on the constants, which TLC
evaluates, and three of them on a hypothesis of their own, which the code does
not enforce: `Longest < TTL`, `OneVerifier` and `OneSender`.

`Decimal`, `Names`, `WithKeys`, `AllKeys` and `InOrder` are recursive functions over data.
The induction theorems of the library take the predicate as a parameter, which no
prover here can instantiate, so `FilesProofs` makes its own of the
well-founded order of the naturals: a set that has 0 and the successor of each of
its naturals has them all (`SetInduction`, `StrongInduction`), and a recursion
that says what comes next has values (`Iterates`). Each recursion is met through
one lemma that says its equation holds, and each induction is about a set of
naturals defined for it. `ExportTablesAssumption` says what an output is: an object
has each key once, rows of the canonical shape are objects, and there are fewer
tables than would need a number longer than a sheet name may be (31 characters).
`UploadAssumption` says that what is posted is a file and that limits are numbers.

Only model-checked:

* `RefreshProgress`, which is liveness under fairness;
* `MCTypeOK`, the types of the modules of a joint run together: the joint
  specification belongs to the run only. The type invariants of its modules that
  an argument needs are part of the inductive invariants above.

## What is abstracted, and what is not modelled

* Chat: other messages of the user's other sessions, the text of messages and
  prompts, the injection of file context; the provider never answers nothing.
  The watermark never moves back, but `last_message_at` may; it only orders the
  list of sessions.
* Generate: the existing session is the only one that can be deleted; a failed
  archive is swallowed as in the code. Two prompts may be stored for one output
  when a run fails after attaching: the code accepts that.
* Accounts: expiry of links and the throttles of requests (a link that expired is
  one nobody uses); a crash between saving a nonce and mailing it, which nothing
  in the code recovers and the user repairs by asking again.
* Sessions: the password itself; the cryptography of tokens (a token is its
  claims).
* Exports: the contents of files; one format, as rows and files of two formats
  share nothing.
* Rate limiting: `Retry-After` is computed but no property is about it.
* Metrics: percentiles, sampling, the order of routes and a limit on their number
  (`max_routes_per_snapshot`, by default none), expiry of Redis keys.
* Refinement: which checks a candidate fails, and the text of reasonings.
* Tables: summary and `document_info`, and the text of CSV and XLSX.
* Pages: what is typed into forms, searching and grouping; signing out under
  way is `Session`'s, and of the pages only `CustomSchemas` has it, as a token
  that is missing.
* Uploads: what OCR reads and how its text is cleaned, the normalisation of
  cells, names of sheets, and the wording of refusals. That a file's name is its
  own (`uuid4`) is why requests are modelled one by one.
* Rendering, configuration: `PROJECT.json` gives the reason for each.

## Plan

The client of the provider cached per signature, and the container of the
monitoring service, both created without a lock, are not modelled yet.
