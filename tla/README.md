# TLA+ verification of the agent memory server

The server keeps two kinds of memory for LLM agents in Redis: *working memory*, one JSON
document per session that clients PUT and GET whole, and *long-term memory*, records with an
embedding that are deduplicated, merged, searched and forgotten. Almost everything that makes
it hard happens in background tasks, run by Docket workers (at least once, maybe late) or as
asyncio tasks inside the server: they read shared Redis state, wait seconds for an LLM, and
write to what clients have changed meanwhile. This directory models that part.

Paths below are relative to `agent_memory_server/`.

## 1. The system

| Component | State | Operations | Hard behaviour | What makes it correct | Status |
|---|---|---|---|---|---|
| Session (`working_memory.py`) | one JSON document and TTL per session key | PUT, DELETE, expiry, `update_working_memory_items` | tasks record work on a session that was rewritten meanwhile; WATCH retries | a mark is on the content that the task took up; the update is one compare-and-mark; retries end | modelled, proved |
| Session keys and listing (`utils/keys.py`, `working_memory_index.py`, `working_memory.py` 272-440, 835-943) | search index | key building, lookup through the index, listing, delete, reconstruction from long-term memory | names that make one key; a key resolved in one step and used in the next; a missing index | different sessions have different keys; an answer is of the namespace and user asked for | modelled, proved |
| Storage migration (`working_memory.py` 28-270, `cli.py` 123-285) | type of each key, status flag, countdown | startup scan, lazy conversion, countdown, bulk command | readers of one key, servers that start late, batches read long before they are written | complete means no string left; conversion undoes no write and brings nothing deleted back | modelled, proved |
| Trailing extraction (`long_term_memory.py` 202-465, 2102-2197) | `extraction_pending` and `extraction_debounce` keys, Docket's queue, marks on messages | schedule, delayed run, LLM, mark, index | superseding, late workers, redelivery, errors between mark and index | runs only after a quiet period; skipped only when superseded; nothing marked unseen; everything extracted in the end | modelled, safety proved |
| Long-term store (`long_term_memory.py` 837-2096, 2328-2676; `memory_vector_db.py`) | one hash per record | create, deduplicate by id / hash / meaning, compact, PATCH, mark, access, forget, delete | searches and the writes that follow interleave with other operations; delete-before-add; strategy tasks queued with the records of then | no fact lost, pins stay, vectors match texts | modelled, proved |
| Forgetting policy (`long_term_memory.py` 2486-2676, `utils/recency.py`) | a list read at the start of a pass | select, delete | combined thresholds, budget, memories changed after the list was read | no memory is chosen while a staler one stays | modelled, proved |
| Search and listing (`memory_vector_db.py` 719-1217, `api.py` 717-822) | none | pages in five modes, fallback to fewer filters | pages while memories come and go; `total` and `next_offset` differ by mode | pages reach every match; nobody sees what is not theirs | partly, proved |
| Summary views and tasks (`summary_views.py`, `tasks.py`) | view, stored summaries, Task record | full, periodic and single-partition run, delete, status update | late, overlapping and redelivered runs; pages fetched while memories come and go; read-modify-write of the Task; updates that fail | SUCCESS is fresh, RUNNING has an execution, requests end | modelled, safety proved |
| Promotion (`long_term_memory.py` 2102-2325) | reads the session, writes the store | one task per PUT | between all of the above | — | in three modules, not composed |
| Token budgets (`api.py` 102-372, 445-458) | none | truncation on GET, summarization on PUT | boundaries of the split | a message is kept or in the summary | partly, proved |
| Authentication (`auth.py`, `cli.py` 913-1277) | token records and their list; cached key set | token add, list, show, remove; verify; JWKS cache | commands that die half way, a list of bytes, TTLs, SCAN while records come and go; threads without the lock | what is accepted is valid, what is valid is accepted, withdrawn keys expire | modelled, proved |
| MCP server (`mcp.py`) | the request being handled | connect, call a tool | one attribute for all connections | a tool works in its caller's namespace and for the right user | partly, proved |
| Client library (`agent_memory_client/client.py`) | none but the calls in progress | read-rebuild-PUT methods, tool calls, paging | lost updates, timeouts with late effects, lost answers | the session is the conversation; results tell the truth | partly, proved |
| HTTP layer, extraction strategies (text), LLM clients, schema, other clients | — | — | no protocol of their own | — | see "Not modelled" |

How they interact: a client GETs a session and PUTs a whole new one; the server may leave out
old messages on the way out and summarize them on the way in. A PUT replaces the session and
queues a promotion. The promotion schedules
a delayed extraction through the pending key and the queue, indexes the session's own memories
(and messages, if configured) into the long-term store, and records `persisted_at` on the
session's items with `update_working_memory_items`. A delayed extraction reads the session twice, calls
the LLM, records `discrete_memory_extracted` on the items in the same way, and indexes what was
found. Indexing deduplicates against the store and queues the strategy task, with the records as they
were indexed, which it writes back with their mark. Compaction and forgetting run periodically. Summary refreshes read the store and
write summaries. The migration sits under every read of a session, and so does the lookup of a
session's key. API, MCP server and command line are three ways in, to the same functions. They
share no locks: Redis commands, scripts and MULTI/EXEC are the only atomic steps.

Each hazard we know of is listed in `PROJECT.json`, at its line, with the properties that
cover it, what they assume, or the reason none does.

## 2. Modules

Every command sent to Redis and every LLM call is a step of its own, except where nothing else
can tell two of them apart. Payloads are model values; time is counted in ticks. Definitions
named after a mutation ("Mutant: ...") are plausible bugs of the definition that follows; they
are part of no specification and serve to see that the properties notice.

**AtomicItemUpdate** is the promise of `update_working_memory_items` in six actions: a task
begins with the items it read, and later, in one step, marks exactly those that are still as
it read them, or nothing.

**WorkingMemory** is one session. `items[i]` is the stored item `i`: its content, and the set of
marks tasks left on it. *Content* stands for all fields that tasks do not write. A mark stands for all the fields a task
writes at once (`persisted_at`, the strategy and the curation fields that
promotion takes over from the store; or `discrete_memory_extracted`). `SetWorkingMemory` /
`SetExpire` are the two commands of a PUT; clients send new items or items as some GET returned
them. `DropSession` is DELETE or expiry. A task goes through `ReadSession`, `FinishWork`,
`CheckExists` and, for a key that is missing, `LookUpKey`, then rounds of `WatchKey`, `ReadWatched`
and `Exec` or `ExecWatchError`; `AbortTask` is an error or a dying worker anywhere. `dirty[t]` is what
WATCH observes. `taken` is what tasks came back from. For a promotion that is work done: the item is
indexed. For an extraction it is less: an error of the LLM is only logged (`long_term_memory.py`
800-802), and the LLM is asked about a second read of the session (724), so its mark says that
the content was taken up. What becomes of it there is the subject of Extraction.

**Extraction** is the extraction schedule of one session. Runs are numbered in the order they
were scheduled; the pending key holds such a number for the timestamp the code puts there.
`Put`, `Promote`, `Schedule` lead to a queued run; `CheckPending`, `CheckDebounce`,
`ReadMessages`, `Extract`, `Mark`, `SetDebounce`, `ClearPending`, `Index` are
`run_delayed_extraction` line by line, `Fail` an exception in it, `Crash` the death of its process. `Tick`
lets all timers run. The constants `UseDocket`, `CalmClient`, `ClientRewrites`, `Failures`,
`Crashes` and `PromptWorker` select the environment.

**SummaryRefresh** is one view over memories in versions, each in one partition (`GroupOf`). A request
creates a Task and queues a refresh. An execution gets and sets the Task's status in two
commands, fetches page by page (`FetchFirst`, `FetchNext`), saves one result per partition and
reports. `ahead` is what the listing has at or after the offset of the next page; memories that are added,
edited or deleted between two pages move across it, and those that slip past are `missed`. A result is what the
partition was computed from and its text: the LLM's answer, the fixed text that stands in for it when the LLM
fails or answers nothing, or none for no memories. A message in Docket's stream is delivered again after a crash, or
beside a late execution (`DeliverAgain`), so that executions of one task race on its record. Status
updates fail (`FailUpdate`) or are refused, executions die (`Crash`) or are cancelled by Docket's Timeout
(`TimeOut`). `setBack` counts what other runs saved from an older fetch, `cut` the tasks an execution of which ended
with nobody left to record it. All that disturbs is counted in `upsets`.

**LongTermStore** is the records of one owner. A text is the set of facts it states, so that
*nothing is lost* can be said of merges: the LLM is taken to merge without dropping facts, or to answer nothing. Any unpinned
records may be near each other in meaning (embeddings and thresholds are abstracted); equal texts of one session have
equal hashes. Up to `|Ops|` operations are in flight, each with its program counter. An indexing
task carries one record (a batch is several tasks): `src` is what it was submitted with, which Docket delivers again,
`mem` what it has made of it. The check for the same id sees the stored record only from its own session, or from
none (`Found`); an id posted from elsewhere is a `"stray"` and is written over. Once added, the record is queued
for the strategy task as it is then (`queued`), and `MarkQueued` writes it back later; the task is still redelivered until `Ack`.
What an operation raises about or dies of is not stored; what it had deleted to store it anew (`gone`) is lost.
A record a late HSET leaves on a deleted key is a *fragment* without text, which no search returns. Forgetting takes any
set of unpinned records here. `together`, chosen at the start, is a set out of `Overlaps`, whose kinds of operation may then
overlap, or none (`alone`): then all of `Kinds` occur one at a time, a strategy task right after the operation
that queued it. `"repeat"` lets Docket deliver an indexing task again whose record is stored already.

**Forgetting** is the choice that LongTermStore leaves open: a pass lists the first `PassLimit`
memories, applies the thresholds and the budget (`Selections`), and deletes in a later step what
it chose; meanwhile memories are stored, used and pinned. `Staler` is all that is said of the
recency score: it grows with both dates.

**Migration** has the strings and documents, the servers that count strings when they start,
callers of `get_working_memory` (TYPE, GET, script, DECR, SET, DEL), and the command
`migrate-working-memory` (`Bulk...`): SCAN, a transaction that reads a batch, one that writes it,
the fallback that deletes and sets key by key, the status at the end. Its SCAN also matches the two
keys that the migration keeps for itself (`OwnKeys`), strings as well; it makes documents of them (`garbled`), which nobody can read
or count down any more (`SkipCount`). A session is the number of its
last write. SCAN is taken to count each key once; counting one twice only delays completion. Strings
that do not parse stay strings and are not counted down; they are left out.

**SessionDirectory** is how a session is found. Sessions are stored under `Key`, the sequence
of the names a session has; `Ask` is a GET, a DELETE or a listing, which goes through `LookUnderKey`, `ResolveKey`
(the one session the index finds), `FetchResolved` or `RemoveKey`, and, where configured,
`Reconstruct`. Between any two of them sessions come and go, and the index may be dropped and
created again.

**TokenAuth** is the stored tokens. The commands of the command line are sequences of Redis
commands (`AddToken`, `SetExpiry`, `EnterInList`; `ListTokens`, `ShowListed`; `FindToken`,
`RemoveRecord`, `RemoveFromList`) that may stop anywhere (`Interrupt`). Redis answers bytes, and a key made from bytes
is not the one made from text (`Found`): the list's own hashes lead to no record, and only a whole hash given by the caller does. A request collects the
records (`ScanTokens`) and reads them one by one (`MatchToken`). `TokenTick` is the clock and Redis'
TTLs. `met` and `steady` record which valid records a request could have found.

**JwtKeys** is the cache of an issuer's keys, read by threads that do not hold the lock and
refilled by one that does, in two assignments (`StoreKeys`, `StampCache`). The time that is
compared and stamped is the one a thread read at its start.

**TokenBudget** is pure: `Truncated` is what GET shows of a session, `Stored` and `Summarized` are
what PUT keeps and what it puts into the summary, for any sizes, window and budgets.

**SessionClient** extends it: clients in a method of the client library (`Call`), each of which
GETs the session, makes a new one (`NewSession`) and PUTs it. `ApplyPut` is the server with its
budget; `GiveUp` is the client's timeout, after which the PUT may still be applied;
`RefusePut` an error. `said` is what clients added in the order it was stored, `raced` whether a PUT
replaced a session its client had not read.

**ToolCalls** resolves a model's calls one after the other: `Route` parses and finds the tool,
`OpenSession` and `Serve` are its requests, `Refuse` and `LoseAnswer` what may happen to them.
Memories become searchable later (`IndexQueued`). Namespace and user come from the call, the
conversation or the client, as each tool takes them.

**MemorySearch** is one search after another over memories that come and go. `Page` is the
database in its five modes, each with its own meaning of `total` and `next_offset`; `Relaxes` and
`Fallback` are the second query with fewer filters; `GoesOn` and `NextOffset` are the callers: the client's
generator, the model's search tool, a caller that follows `next_offset`, the command line, the memory prompt.

**McpServer** is the scope of MCP tool calls: `Connect` and `Disconnect` set and clear the one
remembered request, `CallTool` injects a namespace and applies the defaults of the tool.

**MCServer** and **MCClients** put parts that share no state into one specification each: a
variable `active`, chosen at the start, names the part that moves, and the others stay in a fixed
initial state. The states of such a run are the disjoint union of the parts' states, and each
property speaks of its own part. The other `MC*` modules add symmetry sets; `*Proofs` hold the theorems.

## 3. Runs

All bounds are CONSTANTS in the cfg files. `CHECK_DEADLOCK FALSE` stands where the bounded
environment ends: no runs, versions, ids, calls or crashes are left and everything is done.

| Run | Question | Bounds, and why they are enough |
|---|---|---|
| `wm_race` | Are marks on what tasks took up, does the transaction implement `AtomicItemUpdate`, do tasks end? | one item, two contents, two versions: edit, delete and send again all occur; a promotion and an extraction; two attempts, so the first retry and giving up occur (the code has 10). The proofs lift all of these. |
| `extraction_calm` | With a prompt worker and a client that pauses during extraction and debounce: is a run only skipped for a newer one, and is every message extracted? | 3 messages and 4 runs, so that a run is superseded, a later conversation starts after it, messages are removed and sent again. |
| `extraction_faults` | With errors, crashes, late workers and messages at any time: quiet period, and memories lost to failures only? | 3 messages, 3 runs, so that two runs overlap and a third supersedes. |
| `extraction_skipped` | Does the docstring's "superseded by a newer one" hold? **Violated.** | 2 messages |
| `summary` | Runs of one view that overlap, are late, redelivered, cancelled or cut off: SUCCESS is fresh, RUNNING has an execution, requests end. | 2 partitions with one memory each (one can be saved without the other) in pages of 1, so that each is on a page of its own and can slip past the offset; one task with 2 executions, so that they race on its record or one of them is of no task; a change of a memory; 2 upsets, so that one can meet what another left |
| `store` | Nothing lost, one operation at a time or two that overlap, failing, dying and redelivered, but not between a deletion and the addition it is for; one at a time: pins stay, vectors match. | 4 ids, so that records can be merged, and merged again with a new one; 2 facts; 2 sessions, so that equal texts can have different hashes; two overlapping of create, compact, access and deletion of fragments, or creations redelivered when they are done; one crash |
| `store_retry_unpins` | Does "an idempotent retry of a POST cannot unpin" hold? **Violated.** | 1 id, 1 crash |
| `server` | Tokens, JWT keys, session directory, forgetting and migration, each alone: ten properties. | tokens: 2 records of one token (one can expire and be met first), 2 command lines, 3 ticks; keys: 2 threads, so one waits while the other fetches, 4 ticks for a duration of 1; directory: 2 namespaces and users, 2 stores, so that a session found goes and another comes; forgetting: 3 memories, 3 days, a limit of 2, policies with each threshold set and unset; migration: 2 strings, 2 callers, 2 servers, 2 writes, batches of 1 |
| `clients` | The client's methods, a model's tool calls, searches and MCP calls, each alone: ten properties. | session: 3 messages for a window of 2 (truncated on GET, summarized on PUT) or the default, 2 clients, 4 calls, a late PUT; tools: 2 calls, so that one finds what the other stored; searches: 3 memories in pages of 1; MCP: 2 connections, 2 calls |
| `session_misread` | Is a session created only "if it doesn't exist"? **Violated.** | 2 clients, 3 calls |
| `token_list` | Does `token list` unlist only what is "expired or deleted"? **Violated.** | 1 token |
| `migration_twice` | Does complete mean migrated with overlapping callers? **Violated.** | 3 keys, 2 callers, 1 server |

### Fairness

`wm_race`: a coroutine that was started is run on (`WF` of `UpdateItems` and `FinishWork`); no
fairness for clients, so `TasksEnd` holds against a client that never stops writing, because attempts are
counted. `extraction_calm`: promotions, scheduled runs and time go on (`WF`); the client and
failures need not. `summary`: a worker goes on with an execution it has (`WF` of
`ExecStep`), and upsets are finitely many. A message that nobody executes is delivered (`SF` of
`Deliver`, for each task): other runs may take an execution whenever one is free, so it is not free all the time,
but the stream is read in order and every message has its turn. The other runs state safety and action properties only.

### What the switches show

The passing runs state their environment in constants. Flipping one shows that it is needed, and what
the code does outside of it. TLC finds each of these in seconds to a few minutes:

- `extraction_calm` with `CalmClient = FALSE`: `EveryMessageExtracted` fails. A message that
  arrives during the post-extraction debounce schedules nothing; only a later PUT would.
- `extraction_faults` with `UseDocket = FALSE`: `QuietPeriod` fails. In-process runs sleep and go ahead
  without a pending key. With `ClientRewrites = TRUE`: `OnlyFailuresLoseMemories` fails. The
  session is read once for the marks and once for the LLM.
- `store` with `DeletesFinish = FALSE`: `NothingLost` and `CuratedStaysPinned` fail. Indexing deletes the stored record, and
  a merge its sources, before the new one is stored; an error in between loses both, and so does an empty answer of
  the LLM, without any error. With `OneCompaction = FALSE` `NothingLost` fails too: two compactions delete
  each other's survivor.
- `store` with `{"create", "compact", "repeat"}` in `Overlaps`: `NothingLost` fails. A task that is delivered again when
  it is done deletes the record it stored, the one a compaction has just chosen to spare, and is then dropped in favour of
  the copy that the compaction deletes next. With
  `{"create", "overwrite"}`: it fails. Two tasks with records of one id both find nothing stored, and the later
  addition replaces the earlier record.
- `store` with `{"create", "patch", "mark"}` in `Overlaps`: `VectorTracksText` and `NothingLost` fail. PATCH and the
  strategy task write whole records they read earlier; the strategy task those it was queued with, so a PATCH between
  queueing and start is undone. That is why a strategy task counts as overlapping as soon as anything
  comes between the two.
- `store` with `"stray"` in `Kinds`: `CuratedStaysPinned` fails. The check for the same id asks for the session of the
  incoming record, so a record posted with a known id from another session replaces the stored one with its pin.
- `server` with `FirstScanFails = TRUE`: `CompleteMeansMigrated` fails. DECR of a counter
  nobody stored gives -1, and the migration is complete. With `BulkOverlaps = TRUE`: `MigrationKeepsWrites`
  fails. The command writes a batch over sessions that were written, or deleted, since it read them.
- `clients` with `SummaryBudget = 1`: `SessionIsConversation` fails. The summary stops at the first
  old message that does not fit, and the ones between it and those kept are in neither; the proof assumes
  room for them (`RoomForSummaries`, section 4). With
  `ReadsFail = TRUE`: it fails as well; see `session_misread`.
- `clients` with `<<"tool", "semantic">>`, or with `"next"` or `"cli"` and a ranked mode, in `ReliablePaging`:
  `PagesReachAll` fails. Ranked searches fetch no more than they return, so their `next_offset`
  is never set and their `total` never more than what was fetched; server-side recency skips the offset within one page of
  matches. A deletion between two pages moves a match into a page already read, whatever the caller.
- `clients` with `"promptAny"` in `Fronts` (`long_term_search: true` in a prompt): `ScopeIsKept` fails. The server
  searches the user's memories of every namespace.
- `McpServer` without `single` in `ScopeOfTheConnection`: it fails. A tool call takes the namespace of the client
  that connected last, or none once any client has left.
- `SessionDirectory` with a namespace named like a user: `SessionsKeepApart` fails; so it would for names with colons, which the code allows.

Seen on the way, and in the modules as the code has them: the explicit argument `namespace: null` keeps the MCP
server from putting one in; `create_long_term_memories` takes the configured namespace but never the URL's; reading a session and
compacting take neither, nor a default user; `set_working_memory` gives its
user to every memory in it. A session put together from long-term memory mixes the messages of all sessions
of that name that the request does not tell apart, and takes the first that an unordered listing
returns. The model's search tool ignores the namespace and user of the conversation,
and its tools for working memory report errors as successes of the call. A forgetting pass
looks at the first memories of the index only, up to its limit. Compaction walks the
reply of FT.AGGREGATE in steps of two and leaves every second group of duplicates for a later one (`EverySecond`).

`SuccessIsFresh`, `RunningHasExecution` and `RequestsEnd` except what no run can have true. A memory can slip between two
pages of an unordered listing (`missed`); a slow run of another request saves older results over newer ones
(`setBack`); and an execution is cut off without a word when Docket's Timeout cancels it (`CancelledError` passes
by `except Exception`), when Redis fails the update to RUNNING or FAILED, or when a late execution dies after another
one has acknowledged its message (`cut`). A late execution may also turn SUCCESS into FAILED: it writes the
status that it was allowed to write when it read the record.

### Disagreements between code and documentation

`extraction_skipped`: `run_delayed_extraction` deletes the pending key (line 446) whichever run it names;
the next run then skips itself as "superseded by a newer one" though there is none.
`store_retry_unpins`: `deduplicate_by_id` deletes the stored record, with its pin, before the new one is
written (line 1888), so a redelivered task unpins. `migration_twice`: the countdown
(`working_memory.py` 261) also counts a key that another caller converted. `session_misread`:
`get_working_memory` reports any error as a missing session (line 597), and the client's
get-or-create then replaces the session by an empty one. `token_list`: the Redis client returns bytes
(`utils/redis.py` 95-117), so `token list` looks up `auth_token:b'...'`, takes each token for "expired or deleted" (`cli.py` 1045) and
unlists it. Nothing but the list is lost: requests are verified by SCAN. `token show` and `token remove` raise for
the first characters of a hash (1124, 1233).

Three more that no run of its own shows. `refresh_summary_view` promises that "any failure is reflected in the
Task record as FAILED" (`summary_views.py` 680-682), but when the LLM fails, a fixed text is saved over the earlier
summary and SUCCESS follows (533-554; `Texts`). The strategy task's write is said to be one where "only
`discrete_memory_extracted` moves" (`extraction.py` 386-387); it writes all fields as they were queued. The
table of allowed transitions leaves nothing after SUCCESS or FAILED (`tasks.py` 38-44), but the check reads in one
command and writes in another.

## 4. Proofs

TLC checks the instances above; TLAPS proves the following for all values of the constants, from the
ASSUMEs in the modules.

**WorkingMemoryProofs.** `Invariance: Spec => []IInv`, where `IInv` is `TypeOK`, `MarkedWasTakenUp`
and three facts without which neither is preserved: `WorkBeforeRecording` (a task that is in
`update_working_memory_items` has come back from all it read), `WatchedChoice` (as long as
nothing was written since its WATCH, the items a task chose are still as it read them), and
`RoundsLeft` (inside a round, at most `MaxAttempts` were begun). From it `TypeCorrect`, `MarksAreEarned`,
and `Refinement: Spec => UpdatesAreAtomic`: every step of the transaction is a step of
`AtomicItemUpdate` or a stutter, the EXEC being its `Commit` because of `WatchedChoice`. Assumed:
promotions and extractions are different tasks, `MaxAttempts` is positive, `None` is no item.

**ExtractionProofs.** `TrailingEdge: UseDocket` implies `Spec => QuietPeriod`, for any debounce, client,
worker and failures. Its invariant relates the timers: `due` of the pending run and the ticks
since the last scheduling always add up to `Debounce` (`PendingWaits`). `MarkedIsCovered:
~ClientRewrites` implies `Spec => []OnlyFailuresLoseMemories`, with either backend: what a run read is
still in the session (`ReadIsPresent`), and what it is about to mark it either holds or is
lost (`CoveredBeforeMarked`). `SkippingIsSuperseding` (with Docket, a client that waits, a prompt
worker, no failures or crashes): the run an extraction gives way to is always the last one scheduled
(`WorkerIsLast`, `PendingIsLast`), so it is `Spec => []SkippedWasSuperseded`. `ExtractionTypeCorrect` needs
only that runs are bounded.

**MigrationProofs.** `KeepsWrites`: `~BulkOverlaps` implies `Spec => MigrationKeepsWrites`, with overlapping
callers and the bulk command too: nobody
writes a string, so what a caller read is what a string still holds (`HeldIsStored`), and what the
command holds is the last write as long as clients leave its keys alone (`BatchIsStored`). It covers deletions: no
conversion brings a session back.
`LazyMigrationKeepsWrites` says the same, without that assumption, of all steps but the command's.
`MigrationCompletes` (finitely many keys, no overlaps, a first scan that succeeds): `Spec =>
[]CompleteMeansMigrated`, since `remaining` is at least the number of strings that nobody is
about to count down (`CountCovers`), and what is about to be counted down is counted once
(`CallersTellTheTruth`, `CommandCovers`). `MigrationTypes` is `Spec => []TypeOK`, under the assumptions of `MigrationCompletes`.

**SummaryRefreshProofs.** For any memories, partitions, pages, tasks and executions, and with all failures; assumed are
only `BoundsAssumption` and `GroupsAssumption`. `SummaryTypeCorrect` rests on `Typed` (`Control`, `Loop`, `Memory`,
`Results`), which says that a run between pages lists only what is there, and that one of a task was not asked for one
partition. `RunningIsTrue: Spec => []RunningHasExecution`: executions of one task read and write its record in any
order, so it is not enough that some execution is under way. `Attended` says that a RUNNING task that is not cut has an
execution that will record its end (`WillTell`: in its loop, or past it with an update that its read allows), or that
nobody has passed the update to RUNNING since the last crash and the message is there (`WillBegin`). `SuccessIsTrue: Spec =>
[]SuccessIsFresh` has the invariant `Truth`: what a request is owed is there, in its version or a later one (`OwedIsThere`), and
each execution of its task carries every such memory along: it is still ahead of the offset, then
fetched, then in the result of its partition, unless it is missed or set back (`Accounted`).

**ServerProofs** has the parts of MCServer. Tokens: `TokensDecide: TokenSpec => []OnlyValidTokensAccepted` and `ValidTokensPass: TokenSpec =>
[]ValidTokensWork`: of the records a request has yet to read, each has expired or was valid at some moment of
the request (`ComparedWasMet`), and those of its token that stayed valid are all among them
(`SteadyIsCompared`), so that the search ends with one of them or with an expired one. JWT keys, for any number of
threads: `KeysFollowTheIssuer: JwtSpec => []WithdrawnKeysExpire` and `KeysBecomeKnown: JwtSpec => []PublishedKeysWork`.
The cached keys were the published ones at some moment at or after the time they are stamped with
(`CacheInv`), which the lock makes an invariant of two assignments (`LockInv`), and a thread only uses
them for a time it compared with that stamp.

Sessions: `SessionsStayApart: DirectorySpec => SessionsKeepApart` rests on
`KeyIsInjective`: keys of one, two or three parts determine who they are of, because namespaces and users are
different. `AnswersAreTheirs: DirectorySpec => []AnswersAreCovered`: a session is
stored under its own key (`StoredUnderKey`), and the key a request holds is that of somebody its request
covers (`KeyIsCovered`), whoever is stored there by now.
Forgetting: `PassesAreMonotone: ForgettingSpec => ForgettingIsMonotone`: whatever is past the
thresholds makes everything staler past them too (all four combinations), and the budget keeps a
set that no spared memory is fresher than.

`PartsKeepToThemselves: ServerSpec => TokenSpec /\ JwtSpec /\ DirectorySpec /\ ForgettingSpec /\ Spec`: what
TLC checks is each part and nothing else, so all of the above, and MigrationProofs, hold of it. `ServerTypes:
ServerSpec => []ServerTypeOK` follows from it and the types of each part (`TokenTypes`, `JwtTypes`, `DirectoryTypes`,
`ForgettingTypes`, `MigrationTypes`); it assumes what the run sets for the migration (`~Overlaps`, `~FirstScanFails`) and that
there are finitely many keys and readers.

**SearchProofs.** For any index, number of memories, page size, callers and modes.
`SearchesKeepTheirScope: SearchSpec => []ScopeIsKept` assumes that no prompt is asked for with `long_term_search =
True` (`"promptAny" \notin Fronts`; section 3 says what happens then): each caller sends the filters it means, and
both queries keep them. `OnlyNothingIsRelaxed: SearchSpec => []RelaxedOnlyIfNone`: a search is relaxed only after
an answer with `total = 0`, and in each mode that relaxes such an answer means that nothing matched.

The paging theorems need to know what a deletion or an insertion does to the view a caller pages through: `Chosen`
of the smaller index is a subsequence of `Chosen` of the larger one, which is shown by induction along a recursive
function. `Ahead(v, n)` is what lies beyond the first `n` of a view. `PagesDoNotRepeat: SearchSpec =>
[]NothingTwice` has the invariant `GotIsBehind`: while none is created, nothing that was shown is ahead
of the offset, since deletions move matches towards the front only; a search that goes
over to the relaxed filters has shown nothing before. `PagesReachEverything: SearchSpec => []PagesReachAll` has
`SteadyIsAhead`: while none is deleted, each match that was there when the search began was shown or is ahead of the
offset, since creations move matches towards the end only, and a caller of `ReliablePaging` stops only
with nothing ahead.

**ClientProofs.** MCP: `ToolsKeepTheirScope: McpSpec => []ScopeOfTheConnection`: while connections do not
overlap, the remembered request is that of the one that is open (`RemembersTheOpen`). Tool calls:
`ToolResultsAreTrue: ToolSpec => []ResultsAreTrue`: the call under way is the one after those that
have results (`CallsInTurn`), and a change that reaches the server had good arguments (`SentIsGood`).
`ConversationsFindTheirs: ToolSpec => ConversationFindsItsMemories`: all that is stored or queued is in the
conversation's namespace (`StoredInItsSpace`), where the search looks if that is the client's.

Sessions: `ConversationIsKept: ClientSpec => []SessionIsConversation`, for any number of clients, sizes, windows,
failures and late PUTs. `SessionInv` has each client wait for the one PUT it has sent (which gives `ClientTypes: ClientSpec
=> []ClientTypeOK`) and says what PUTs are made of. `ConversationIsTold` says that the session, and each PUT
that no write has made stale, *tell* the conversation: messages are the end of all that was said, with what the PUT adds,
and the context is what comes before. It is an invariant because a write makes every other PUT on its way stale,
and because a stored session whose messages were summarized still tells what it told (`TellsApplied`). The latter
needs that the summary stops at no message before those that are kept: sessions are *light*, that is, all
messages but the last take no more than one summary has room for (`SessionsAreLight`). Two assumptions:

- `~ReadsFail`: no GET fails unnoticed; otherwise see `session_misread`. Under the same assumption
  `MissingIsCreated: ClientSpec => []CreatesOnlyMissing`, the property which that run finds violated.
- `RoomForSummaries`: 70% of the default window (`DefaultLimit`), and a message cut to fit, take no more than
  `SummaryBudget`. With the defaults of the code that is 11,200 tokens of some 120,000 (`api.py` 115, 271-281;
  `config.py` 91-96, 343, 443). A generation model with a small window breaks it, and the property then fails, see
  section 3. It is needed for the context of whole sessions (`window = None`) only.

`NewestStays: ClientSpec => NewestIsKept` needs neither: PUT keeps the last message whatever the budget (`StoredIs`), and what a
method adds comes last (`Made`). `ClientPartsAreApart: ClientsSpec => ClientSpec /\ ToolSpec /\ SearchSpec /\ McpSpec` and
`ClientsTypes: ClientsSpec => []ClientsTypeOK` are the composition, as in ServerProofs. Assumed of constants:
`BudgetAssumption`, `ClientAssumption`, `SearchAssumption`, `ToolAssumption`, `McpAssumption`, and that `Absent` is neither a session
nor a message (`AbsenceAssumption`).

**LongTermStoreProofs.** For any ids, facts, operations and crashes; of the constants it is assumed that
`Facts` is finite, that kinds are kinds (`KindsAssumption`), and that `Absent` is nothing else (`AbsentAssumption`).
`StoreTypeCorrect: Spec => []TypeOK` needs nothing more; its invariant `TypeInv` says of every slot what
its stage holds (`Proper`).

`NothingIsLost: Orderly => (Spec => []NothingLost)` and `VectorsTrackTexts` (`VectorTracksText`). `Orderly` says that what
overlaps only creates, reads, compacts and deletes fragments, one compaction at a time, and that what was deleted to be
stored anew is stored (`DeletesFinish`). Section 3 says how each is needed. The run sets the same, but also has creations overlap with
repeated deliveries; that part is model-checked only. `NothingLost` alone is not inductive. `SafetyInv` adds:

- where operations are: one at a time if `alone` (`OneByOne`), one compaction that sweeps (`OneSweep`), what a
  slot holds at its stage (`AllStaged`);
- ids: overlapping operations store under ids that are not stored yet and that no other names (`Apart`), and a record past
  the check for its id replaces nothing (`Fresh`);
- what was read still holds: a merge carries the facts of what it deletes, a listed record
  has the text it was listed with, an edit of a pin writes the text that is stored (`AsRead`);
- what is queued is as it is stored, because nothing else happens until its strategy task is over (`Queue`);
- a sweep: of what it is about to delete (`Marked`), each fact is also in a record it spares or in a
  merge on its way (`Safe`), for all that is stored (`StoredIsSafe`), for the record a duplicate refers to
  (`TouchedIsSafe`), and for what an overlapping operation holds and may yet drop (`KnownIsSafe`). Without this a duplicate
  could be dropped in favour of a record that goes next.

`CuratedIsPinned: Spec => []CuratedStaysPinned` needs less of what overlaps, since it speaks of operations one at a time, of all
kinds and failing; it assumes `DeletesFinish` and that no id is posted again from a session that does not see its record
(`"stray" \notin Kinds`). Its invariant `AloneInv` adds what operations have read of pins (`PinsRead`): a record to be
replaced is as pinned as the one that replaces it, a duplicate's pin is on the record it refers to or will
be set, and nothing pinned is to be merged, swept or forgotten. Overlapping operations do unpin, see
`store_retry_unpins`.

Every safety invariant and every action property of the passing runs is thus a theorem, under the assumptions
named. Model-checked only: liveness (`TasksEnd`, `EveryMessageExtracted`, `RequestsEnd`), which rests on
fairness and is out of the prover's reach; that the switched-off environments of section 3 break what they are said to
break; and the runs that find a violation.

Recursive functions (`Chosen`, `Total`) and the choice of a greatest number (`Largest`) are reasoned about by induction
over an initial segment of the naturals, stated for sets (`BoundedInduction` of SearchProofs, from the
well-foundedness of `<`) since the library's induction theorems take an operator. No module with a theorem uses a RECURSIVE
operator.

## 5. Plan

Order of work so far: the session and its update protocol, since every task ends in it; the
extraction schedule; the store; summary views; migration; then what surrounds them: keys and listing,
authentication, forgetting, budgets and clients, search, MCP. What is left, in order:

1. Theorems: `NothingLost` with overlapping overwrites of different ids, and with creations redelivered when they are done.
2. An abstract store (facts owed, facts pinned; say, pin, retract, forget) that LongTermStore
   implements, replacing its history variables as the statement of what is promised.
3. Promotion composed with the store: a session's memory is indexed, then marked; a retry after
   giving up indexes it again; a PUT that summarizes what the promotion has not seen.
4. The summary-view calls of the client, polling a Task that SummaryRefresh moves.

## 6. Not modelled

- Text: prompts, topics, entities, query optimization, embeddings, distances, the weights of the recency ranking. Where a
  result depends on them, the models take any result.
- Construction of index schemas and filter expressions, tag encoding, the vector database factory: no state, one caller.
- `migrations.py` (fields added to stored records) and the command that removes a deprecated sorted set: one-off
  rewrites, run before the server serves.
- bcrypt, JWT signatures and claims; bearer tokens reach the model after parsing.
- HTTP validation and rendering, tool schemas, command-line output; process start and shutdown.
- The LangChain adapter and the JavaScript and Java clients: the requests of the Python client in other languages.
- Names with colons, and namespaces named like users: the keys collide then (see section 3), and nothing else is changed by it.
