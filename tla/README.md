# WebHub, verified

TLA+ models of WebHub's API service, the TLC runs that check them on small
instances and the proofs that hold for every instance. Source paths are relative
to `src/services/api/src/webhub/` unless they start with another directory.

    tlc -workers 2 -config Ledger_retry.cfg MCAgentTurnLedger.tla
    tlapm AgentTurnLedgerProofs.tla

`PROJECT.json` holds the runs, the source lines of every definition, the hazards,
and for every property a mutation of the model that the property detects.

## 1. The system

WebHub is a single-process FastAPI service over one SQLite database, with a
Next.js front end and an optional browser extension. One event loop runs every
request and every background task, so control changes hands only at an `await`;
SQLite serialises the transactions. What makes the system hard is everything that
may happen between two transactions of one task: other tasks, the loss of the
client, an exception, the death of the process, and the clock.

| Part | State it keeps | Operations | Hard behaviour | Correct when |
| --- | --- | --- | --- | --- |
| Turn ledger (`agent/turns.py`) | `agent_turn_runs`: state, request hash, conversation, assistant message, lease token, expiry | claim, bind, renew, checkpoint, finish, fence, close, replay | retries racing the executor and each other; leases that lapse under a live executor; crash at every await | one execution per turn id; receipt and transcript agree; every turn settles |
| Agent runner (`agent/langgraph_runner.py`) | journal in memory, provider stream | prepare, first checkpoint, bind provider, stream, tool results, finish / error / cancel | a maintenance task shares the journal; client lost at any yield | what was shown is stored; a complete row is whole |
| Chat (`chat/service`) | conversations, messages with version and status | append, update with expected version, delete, draft confirmation | deletion under a running turn | no orphan rows, receipts survive as tombstones |
| Spaces (`spaces/service.py`) | spaces with version, members with positions, batch receipts | add, remove, reorder, batch | repeated batches, concurrent edits | a batch is applied once; positions stay dense |
| Metadata backfill (`ingestion/backfill.py`, `worker.py`) | runs and items with leases, counters, provider fuse; pending token of a Site | start, acquire, claim, record, defer, finish, release | coordinators that die; stale consumers; provider outage | counters equal the items; one item per origin; the fuse stops provider calls; every run ends |
| Analysis (`ingestion/service.py`, `worker.py`) | analysis columns of a Site; in-memory queues | claim, analyse, commit, schedule, follow up, shut down | user edits during a model call; queues at their bound | no edit is overwritten; no site stays pending |
| Bookmark import (`bookmarks/`) | jobs, runs, chunks, candidates, decisions | upload, parse, stage, seal, finalise, classify, apply | crash while parsing, repeated chunks, stale previews | sequence gapless, replay exact, apply all-or-nothing |
| Library (`library/`) | sites, categories, tags with versions and positions | create, update, bulk, merge, reclassify | optimistic locking over several rows | a stale plan changes nothing |
| Semantic index (`search/`) | vectors with content digests | backfill pass, status, search | text that changes during embedding | a stale vector is never taken for fresh |
| Admission (`auth/rate_limit.py`, `bookmarks/admission.py`) | sliding windows, reservations | reserve, fail, release, reset | concurrent attempts, eviction at capacity | never more than the bound in a window |
| Web client, extension | view state | send, retry, stop | duplicated and lost requests | source of the inputs above |

The runner drives the ledger; the ledger writes the transcript through the chat
service inside its own transactions; deletion of a conversation reaches back into
the ledger. The API lifespan sweeps stale turns before serving and resumes
backfills. Import, analysis and backfill meet in the rows of a Site.

`PROJECT.json` lists every part with its status and every hazard at its line,
those no property covers included, with the reason.

## 2. Modules

| Module | What it is |
| --- | --- |
| `TurnReceipt` | What the ledger promises: accepted, published, executed and settled at most once; receipt and transcript settle together; deletion takes a transcript and never a receipt. |
| `AgentTurnLedger` | The ledger, its executors, sweeps and environment. |
| `AgentTurnLedgerTypes`, `AgentTurnLedgerProofs`, `AgentTurnLedgerRefinement` | Its proofs: types; the inductive invariant and the safety theorems; the refinement of `TurnReceipt`. |
| `AgentTurnLedgerJournal` | What the journal of an execution saves against what its client saw, proved. |
| `BackfillPlan` | What a metadata backfill promises: targets frozen once, each ending once, a run that is over with its last target. |
| `MetadataBackfill` | One account's backfill run, its items, the pending claims on Sites, the coordinators and consumers of several processes. |
| `MetadataBackfillProofs` | Counters, exclusion of origins, provider fuse, the refinement of `BackfillPlan`, types and claims, proved. |
| `AnalysisQueue` | The in-memory scheduling of analyses in one process: the account queue, the automatic sweep, callers that wait. |
| `AnalysisQueueProofs` | One fetch per site, maps that agree, owed enrichments, the strongest request first, answers: proved. |
| `BookmarkImport` | Upload, parse, preview, decisions and confirmation of an import. |
| `BookmarkImportProofs` | All its safety properties: types, quota, preview, confirmation, the number announced, completeness: proved. |
| `LibrarySpaces` | Sites, Categories, Tags and Spaces under concurrent requests; merge, reclassification, enrichment and Space batches. |
| `LibrarySpacesProofs` | All its properties: types, places, versions that are current when they are claimed, the merge, batches that happen once: proved. |
| `MC...` | Symmetry, files, libraries and loads of the small instances. |

Sites are what ties the parts together. `MetadataBackfill` and `AnalysisQueue` share
the claim of a Site (`_claim_analysis`, `_commit_analysis`): each models its own side
in full and the other's as an analysis that claims and ends (`ForeignClaim`,
`ForeignEnd`). `LibrarySpaces` takes the commit of an enrichment and the rows an
import writes as requests of its own (`Enrich`, `ImportSite`, `ImportInto`), so that
every writer of a Site, a Category or a Space meets every other there.

### AgentTurnLedger

**State.** `run` is `agent_turn_runs` (one row per turn id), `msg` the assistant
row each request may create, `convs` and `gone` the conversations. In the process:
`pc`, where each request and the sweeper are; `close`, the capability that
`finish_claimed_turn` works with; `todo`, the candidates of a sweep; `jr`, the
`AgentTurnJournal`; `lease`, the token a request was granted. `sent`, `shown`,
`told`, `owner`, `calls` and `wrote` record what the environment has seen; no
guard reads them.

**Actions.** One per transaction or per await of the code:

| Actions | Code |
| --- | --- |
| `Arrive`, `Visit`, `Restart` | entry of `chat` and `run`; requests of the account for other turns; `lifespan` |
| `SweepNext`, `SweepDone` | the loop of `close_expired_turns`, `_fence_expired_turn` |
| `LoadRun`, `LoadAssistant`, `CloseTurn` | the two reads and the terminal transaction of `finish_claimed_turn` |
| `ClaimRead`, `ClaimInsert`, `ClaimFence`, `ClaimSettle` | the four transactions of `claim_turn` |
| `ProtocolError` | `_durable_protocol_error` |
| `Prepare` | `_prepare_conversation` with `bind_turn_messages_in_session` |
| `OpenJournal`, `BindProvider`, `SaveToolResult` | the forced checkpoints of `run` |
| `CallProvider`, `StreamText`, `ToolResult`, `ShowToolResult`, `EndStream`, `ProviderError`, `NoticeLostLease` | the graph stream |
| `FinishTurn`, `CloseJournal` | `journal.finish` and `close` in the three exits |
| `Heartbeat`, `TakeSnapshot`, `SaveSnapshot`, `MaintenanceError` | `_maintenance_loop`; the lock is `saving` |
| `DeleteConversation` | `delete_conversation` |
| `Disconnect`, `Raise`, `StorageError`, `Crash`, `Tick` | cancellation, exceptions, `SQLITE_BUSY`, process death, time |

An action whose statement may be refused (a lost lease, a moved version) contains
the refusal as an alternative that raises, and `Raise` and `Cancelled` say where
the exception handlers of the code send the process. The parameter `cut` covers a
client that is lost while a commit is in flight: the row is written and the
coroutine never learns it.

**Time.** `left` is the number of ticks until `lease_expires_at`. Every statement
compares with a `utc_now()` read up to `Delay` ticks before, so a renewal, a fence
and a checkpoint may each be judged with a clock that is late; the comparisons
(`>=` for holders, `<=` for sweeps, both true at the boundary) are the code's.

**Tokens.** A lease token is 32 random bytes drawn together with an attempt; it is
the attempt's number in the model, so equal tokens mean the same attempt.

**Reports.** `told` is what a request told its client. A settled turn is replayed
with the state of its receipt, except that a body the route rejects is always
answered "error" (`Replayed`; `agent/routes.py:232-240`), also when its receipt lost
the client and was swept as aborted. A turn that failed before it had a journal is
answered with an unsaved error once `finish_claimed_turn` returns, whether or not it
closed the turn: this is "failed", which names no stored outcome.

**What is abstracted.** The user message and the assistant message are one pair
(they are written in one transaction). Text and tool results are counted. A journal
takes `TextCap` deltas, the `MAX_PERSISTED_AGENT_TEXT` of the code: `AddText` drops
what exceeds it, while the client still receives it, so the stored reply of a very
long answer is cut without a mark. `tools` counts the results a row took in: a later
result may remove one it supersedes (`agent/turns.py:692-705`), and results beyond
the budget are summarised or dropped (196-200). The idempotency keys of
`append_message` are not modelled, since the binding already refuses a second
pair. `_fence_expired_turn` reloads the row it fenced and `finish_claimed_turn`
loads the message before it compares the token; both reads have no effect the
later read does not have and are merged with it. The order among sweep candidates
read in one statement is free. The row id space is the set of requests: each
execution creates at most one pair.

**Not covered.** A maintenance task that failed after the terminal commit makes
`journal.close` raise after the finish chunk (`agent/langgraph_runner.py:1240`);
the chunk order of a stream is not modelled. Nor is the formatting of a replay:
it reports a state, and what it shows of the settled row is left out.

### MetadataBackfill

**State.** `run` is the row of `site_metadata_backfill_runs` with its lease, fuse and
counters, `item` its frozen targets, `site` the analysis columns of the Sites;
`coord` and `task` are the coordinators (`_run_metadata_backfill`) and consumers
(`_consume_metadata_backfill`) of the processes.

| Actions | Code |
| --- | --- |
| `Start`, `Resume` | `start_metadata_backfill`, `resume_metadata_backfills` |
| `Acquire`, `Release` | `acquire_run_lease`, `release_run_lease` and the loop around the task group |
| `ClaimNext` | `claim_next_item` with its renewal, its recovery of expired items and the end of a stopped run |
| `Needs`, `Intent`, `ClaimSite`, `Fetch`, `Snapshot`, `Permit`, `Call`, `Returned` | the path of one item through `_process_metadata_item` and `_analyze_site`, cut where it awaits |
| `Record`, `Refuse` | `record_provider_result` and what follows when it refuses |
| `Apply`, `Miss`, `Finish`, `Defer`, `ReleaseItem`, `Unclaim`, `Fuse`, `Crashed` | the commit on the Site and the transactions that end or give back an item |
| `HeartbeatEnds`, `StorageError`, `Stop`, `Crash` | the item heartbeat that loses its lease, a refused statement, shutdown, death |
| `Lapse`, `LapseItem`, `CoolDown`, `Wake`, `Age` | the clock |
| `Edit`, `Delete`, `ForeignClaim`, `ForeignEnd` | the user and other analyses |

**Abstractions.** A timestamp is kept as what it is compared for: leases, cooldowns
and `available_at` are Booleans that the clock turns. Tokens and claim stamps come
from a finite pool of unused values. `attempt_count` is the identity of the consumer
that made the attempt. Outcome `limited` is folded into `complete`. The process-local
`_ACTIVE_CLAIMS` refuses nothing the stamp in the `UPDATE` does not. The order of
items within one statement is free. One run is modelled; a later run of the account
starts from rows this one no longer touches.

### AnalysisQueue

**State.** `acct` is the `_AccountQueue` (its maps and the deque, by site), `auto`
the sweep's registry entry, `worker` the consumers and the sweep's tasks, `caller`
the handlers inside `analyze_and_wait`, `site` the analysis columns, `service` the
life of the worker. `owed` and `announced` record what requests were promised.

| Actions | Code |
| --- | --- |
| `Save`, `List`, `SaveBatch`, `AnalyzeMissing`, `Imported` | the requests that call `schedule_analysis` and `ensure_auto_backfill` |
| `Spawn`, `Take`, `Start`, `Return`, `Refused`, `Cancelled`, `AccountEnds`, `AccountFinished` | `_run_account`, its consumers and its done-callback |
| `Lease`, `Discover`, `Idles`, `DiscoveryFails`, `SweepPass`, `SweepFinished` | `_run_auto_backfill`, its tasks and its done-callback |
| `Ask`, `Join`, `JoinSweep`, `AskQueue`, `Check`, `Poll`, `PollDeadline`, `TurnedAway` | `analyze_and_wait` |
| `Stop`, `Down` | `shutdown` |
| `Commit`, `Edit`, `ForeignClaims`, `ForeignEnds` | rows that appear, change or go; other processes |

A task that has returned and its done-callback are two actions, because other
handlers run in between. The intent and the bulk flag of an entry are one order
(none, metadata, bulk, own). `Start` merges the permit and the claim of the row.
Other sites and other accounts appear only as the load the limits are compared with
(`Elsewhere`). The semaphore of the model calls and the FIFO order of permits are
left out; a stopped service stays stopped.

### BookmarkImport

**State.** `up` is the account's one upload, `job`, `run`, `preview` and `dec` the
import tables, `task` the detached parse tasks, `tab` what browsers hold, `litter` the
bytes interrupted uploads left, `library` the identity URLs of the account's Sites.

| Actions | Code |
| --- | --- |
| `Reserve`, `Measure`, `Stream`, `UploadFails` | the upload slot and the quota (`admission.py`, `upload_storage.py`) |
| `CreateImport`, `PublishUpload`, `QueueImport`, `Reply` | the intake of `routes.py` and `persistence` |
| `BeginParse`, `AppendChunk`, `SealRun`, `PublishPreview` | `run_parse` and the transactions it calls |
| `ParseError`, `FailRun`, `ParseLost` | its failure paths, and the two failures nothing records |
| `Look`, `Decide`, `KeepAll`, `CheckApply`, `CommitApply` | preview, decisions, `apply_import` |
| `EditLibrary`, `Crash` | the reader's own edits; process death |

Which page is the root of a site and which is above which (`SiteOf`, `HomeOf`,
`Above`) are constants: the URL identities of `similarity.py`. A file is a size and
the sequence of its chunks, each the set of pages it mentions. A merge group whose
existing homepage was deleted since the preview writes neither the homepage nor its
pages; `NothingLost` says so.

### LibrarySpaces

**State.** `site`, `label` (Categories and Tags) and `space` are the tables with
versions, positions and who chose a category or a tag (`by`, `tby`); `run` the
similarity run, `receipt` the batch receipts, `draft`, `talk` and `told` the drafts,
transcript and answers; `req` the request each tab has in flight. What is written on
a Site has two revisions: `rev` of what a user edits, which a version stands for, and
`text` of the texts and images an analysis writes, which it does not.

SQLite, as the API opens it, reads outside a transaction until the first write takes
the writer lock. A handler is therefore some reading steps, whose results wait in
`req`, and one writing step; a handler that locks first, or whose version claim makes
each earlier read current, is one step. `Refuse` stands for every 4xx, failed
constraint, lost client and crash before the commit.

| Actions | Code |
| --- | --- |
| `CreateSite`, `EditSite`, `TagSite`, `MoveSite`, `ReaddressSite`, `ReorderSites`, `AskDelete`/`Delete` | `library/service/sites.py` |
| `CreateName`, `RenameCategory`, `DeleteCategory`, `RenameTag`, `DeleteTag` | Categories and Tags |
| `ImportSite`, `ImportInto` | one candidate of `bookmarks/apply.py` |
| `Scan`, `Recommend`, `Decide`, `AskMerge`/`Merge` | `library/similarity.py` |
| `AskReclassify`/`Reclassify`, `AskEnrich`/`Enrich`, `Describe` | `library/reclassify.py`; the commits of `ingestion/service.py` with and without the model |
| `CreateSpace`, `AskSpace` with `AddMember`, `RemoveMember`, `ReorderMembers`, `RenameSpace`, `DeleteSpace` | `spaces/service.py` |
| `Propose`, `AskBatch`, `ReadReceipt` ... `KeepReceipt`, `AskNote` ... `AppendNote` | `create_batch`, its recoveries, and the confirmation recorded in the transcript |

Names, summaries, flags and images are their revisions; listings are left out.
Positions and receipts have unique indexes in the database; the model has none of the
former, and `PlacesDistinct` shows they are never needed. Reordering moves one item to
the front. `readdress` models the omitted-taxonomy form of the edit. The kinds of
similarity are one key per Site, the ranking inside a group a constant order. An
import of several candidates is several steps here and one locked transaction in the
code. A tool's proposal and the assistant message that keeps it are one step.

## 3. Runs

`CHECK_DEADLOCK FALSE` in the ledger, backfill, import and library runs: requests,
edits and faults are bounded and a settled system rightly stops. `queue_joins` and
`queue_retarget` check deadlock, with `Quiet` for the state where all is done.

| Run | Question | Bounds | Distinct states |
| --- | --- | --- | --- |
| `ledger_retry` | Two requests for one turn id, with equal, different or invalid bodies, in any interleaving with expiry, fencing, crash, a storage error and deletion | 1 turn, 2 requests, 2 bodies, 1 conversation, 2 claim rounds, 1 fault | 1.0 M |
| `ledger_execution` | One executor with its maintenance task, clocks up to one tick late, three deltas, of which the journal takes two, a tool result and sweeps by other requests: is what was shown stored, and does the turn settle? | 1 turn, 1 request, `Lease` 2, `Delay` 1, `TextCap` 2, 1 fault | 0.41 M |
| `ledger_turns` | Two turns whose transcripts share a conversation; refinement of `TurnReceipt` | 2 turns, 2 requests, no fault | 0.32 M |
| `backfill_lease` | Do the published counters stay the state of the items when two processes take the run over from each other? | 2 processes of 1 consumer, 2 items, 1 fault | 0.41 M |
| `backfill_fuse` | Do origins exclude each other, and does a stopped run stay stopped? | 1 process of 2 consumers, 3 items of 2 origins, 2 provider failures | 0.32 M |
| `backfill_ends` | Does a run end, implement `BackfillPlan` and leave no claim? | 1 item, 1 fault, 1 edit, 1 deletion, 1 foreign claim | 0.07 M |
| `backfill_deleted` | Does it end when the Site of an open item is deleted? (violated) | 1 item, 1 deletion | small |
| `queue_joins` | Is work done once, the strongest request honoured, and every caller answered? | 1 site, 1 consumer, 2 sweep tasks, 1 caller, 2 requests, 1 event; limits 1 + 1 of 3 | 0.18 M |
| `queue_retarget` | Is a retargeted site analysed? (violated) | 1 site, 1 consumer, 1 sweep task, no caller | small |
| `import_apply` | Quota, preview, decisions, confirmation of an import with retries, a crash and an edit | 1 key, 3 files, 4 URLs of 2 sites, 2 tabs, 2 uploads, 2 faults, 1 crash, 1 edit, 2 choices | 0.15 M |
| `library_edits` | Everything that writes a library, interleaved between its reads and its commit | 4 sites, 3 categories, 2 tags, 3 spaces, 3 batches, 2 tabs, 3 requests | 0.71 M |
| `library_texts` | Is a merge refused when the texts it was decided on have changed? (violated) | as `library_edits` | small |

*Why these bounds.*

- Ledger. A second request is all a retry needs: a third finds the same row in the
  same states. `Lease = 1` lets a lease lapse between any two steps; `Lease = 2` with
  `Delay = 1` makes holders and sweeps disagree about the same instant. Two deltas let
  one arrive during a checkpoint of the other, and the third is one beyond the cap. The
  safety properties of `ledger_execution` also held with a second tool result, which is
  pending when the first was shown (0.84 M states), and its liveness with a second fault,
  a cap of one and two deltas (0.40 M). This liveness is about one turn, since a second
  passes any affordable bound: it shows that a turn is settled without a retry, and not
  that a candidate whose fence fails leaves the sweep to the others.
- Backfill. Two processes are one holder and one successor; two items let one be at
  work while the other waits or was left running. The fuse needs two consumers, so
  that one result is late, and three items of two origins, so that an origin is both
  busy and free. Liveness is a question about one item: the run ends with the last.
- Queue. A site is in one place or it is not: the registries only meet in a single
  site, so one site with two sweep tasks and a consumer shows each pair of them. The
  limits are low enough for the queue, its overflow slot and the process to be full,
  by the load of the sites not modelled. The safety properties also held on an
  instance of two sites (2.25 M states).
- Import. The files are two chunks that share a page, a deep page without its
  homepage, and an empty export; two tabs are one that decides and one that is stale.
- Library. The first library has one group of alike Sites across Spaces; the drafts
  are one that joins a Space, one that makes one, and one made late. Three requests
  are one that is read, one that commits in between and one that follows. Two tabs are
  exchangeable (`Tabs`).

*Properties* are stated with what they say of the code at the end of each module.
`ShownIsDurable` does not claim that streamed *text* is durable: the code saves text
every two seconds and a crash may lose the last of it; `CompleteIsWhole` says that a
complete row was cut at the cap and nowhere else. `ToldIsTrue` holds a report against
the turn for good: the outcome told for a valid body is the outcome of the turn; a
protocol error is told only of a turn that reached neither a provider nor a transcript;
and a request that held its turn and told of a failure does not find it completed.
`DecidedOnCurrent` covers what versions and names stand for; what they do not, the texts
of an analysis, is `TextsDecidedOnCurrent`, which is false. `AtMostOneExecution` counts
the starts of the agent graph. `NoOrphanClaim` says what it says up to one fault: a storage error during an
analysis and another in the handler that cleans up after it leave a claim until it is
stale, which the sweep then takes up. `AnsweredWhileUp` allows a caller whose sweep
failed to be lost (below). `ProjectionKept` asks that the library did not change since
the preview. `ClaimSeesMembers` exempts Sites deleted since, which cascade out of a
Space without a new version.

*Fairness.*

- `AgentTurnLedger`: time passes, a dead process is started again, the account sends
  some request now and then (`Visit`), and the event loop runs what is runnable. A
  provider stream ends, because every provider call has a timeout and the graph a
  recursion limit. No heartbeat, no client that stays and no retry of the same turn is
  assumed. Without `Visit` the property is false, and so it is of the code: nothing
  but a request or a restart sweeps.
- `MetadataBackfill`: a process is started again and runs its coordinator and each
  consumer; leases, cooldowns and delays run out; another analysis ends, at the latest
  when the sweep takes up its stale claim.
- `AnalysisQueue`: the loop never idles while a task is ready (one weak fairness over
  all of them, so no order among tasks is assumed), and an analysis elsewhere ends.
- `BookmarkImport`: the loop runs an upload and a parse to their ends while the
  process is up. Nothing is assumed of the reader.

*Findings.* Three runs are violated because the program is:

- `backfill_deleted`: `item_execution_intent` (`ingestion/backfill.py:899`) joins the
  item with its Site, so a deleted Site yields no intent; the worker gives the item
  back, and the next claim does the same. `db/models/metadata_backfill.py:244` calls
  deletion "a terminal skipped outcome"; the branch that would skip it is not reached.
- `queue_retarget`: a PATCH that changes the address during the analysis of the old
  page joins that analysis (`ingestion/worker.py:933`); it is no longer current and
  stores nothing, no follow-up is left, and the site waits for a list request, which
  `library/routes.py:81-83` says it will not have to.
- `library_texts`: the fingerprint and the member check of a merge compare ids, versions
  and addresses (`library/similarity.py:115-123`, 1196-1215), and an analysis writes
  summary, description and images without a new version (`ingestion/service.py:1002-1026`,
  1096-1165). A merge decided on the texts a scan kept and showed is applied after they
  changed; `README.md:226` of the repository says that a stale page or any change of a
  member refuses the whole batch (页面陈旧或任一成员变化时整批拒绝).

*Observed without a run of their own.* Seen in the models or while writing them; they
are kept here because the properties are stated around them.

- A full backfill whose item lacks only the summary (enriched before summaries
  existed), or whose page and model fields were filled by an analysis that was then
  cancelled, is given back at every attempt (`Stuck`).
- At shutdown the done-callback of an account drops it before its queued completions
  are cancelled: their callers wait for ever (`ingestion/worker.py:289`). A failed
  sweep leaves its joined callers in the same way.
- A retried upload whose first attempt failed between creating the job and queueing it
  is answered as a replay: it queues the job and starts no parse
  (`bookmarks/routes.py:278-285`; the comment above it says "A replayed upload already
  has its run.").
- The parse task writes no checkpoint for a file without events, so an empty export
  fails as invalid although the persistence layer accepts it.
- A crash leaves a job `parsing` for good: `recover_finalizing_parse_run` and the
  replay of chunks have no caller. Files of interrupted uploads stay and count.
- A deletion reads the Spaces it will count before it takes the lock; a member added in
  between goes without a new version of its Space (listed as a known risk in
  `ITERATION_QUEUE.md`).
- A confirmation superseded between its check and its record is recorded; one refused
  leaves an applied batch unrecorded. Reclassification ignores `category_is_manual`.
  A source id made from a host (`.` to `_`) may be that of another host.

## 4. Proofs

Everything below is proved for every value of the constants that satisfies the named
assumptions; TLC evaluates those on each instance.

### The turn ledger

For every set of turns, requests, conversations and bodies, every lease, delay and
fault bound that satisfies `LedgerAssumption` (the named values differ, at least one
turn, `Delay < Lease`):

| Theorem | Says |
| --- | --- |
| `TypeCorrect` | `Spec => []TypeOK` |
| `ExecutedOnce` | `Spec => []AtMostOneExecution` |
| `ReceiptsMatch` | `Spec => []ReceiptMatchesTranscript` |
| `NoOrphans` | `Spec => []NoOrphanTranscript` |
| `ToldOnce` | `Spec => []ToldIsTrue` |
| `SettledForGood` | `Spec => TerminalIsFinal` |
| `Implements` | `Spec => ImplementsReceipt`: every step of the ledger is a step of `TurnReceipt` or a stutter |
| `ShownStaysDurable` | `Spec => []ShownIsDurable` |
| `CompletedWhole` | `Spec => []CompleteIsWhole` |
| `CleanIsSaved` | `Spec => []JournalInSync` |
| `OnlyTheLeaseWrites` | `Spec => ContentUnderLease` |

`TypeInv` is `TypeOK` split by what actions touch, with two facts that are not
types but are needed for them: the sweeper is never inside a request, and a process
about to load a message has one to load.

None of the safety properties is inductive. `LedgerInv` adds what the code relies on:

- `RunOK`: a row that was never claimed has no owner, execution or message; a bound
  message means one written pair; a claimed row has drawn a token.
- `OwnerOK`: a request that works under a lease is the one the turn was granted to,
  with the *first* token. That is the core of the argument. Fencing replaces the
  token and hands out closing capabilities only, so no second executor can exist;
  `calls` is still 0 before `CallProvider` and can be raised by that request alone.
- `BoundOK`, `TaleOK`: every row is bound to its turn, in the conversation the
  receipt names, with the receipt's story.
- `CloserOK`: a capability is at most as recent as the row's token; it is a fence
  (token 2 or later) or the first token in the hands of its owner; what it read of
  the assistant row is still true *if* its token is still current.

The step lemmas are one per action (`PrepareInv`, `CloseTurnInv`, ...), most of them
through `MoveInv` (a process moves and the story of every turn stays) or `SettleInv`
(a running turn and its row settle together).

`ToldOnce` rests on a second inductive invariant, `WordInv`. `TurnWord` says that a turn
with an invalid body reached neither provider nor transcript and does not complete;
`OrderWord`, that whoever holds or reads a settling turn has its body, and only a valid
body is executed; `ToldWord`, that what was told agrees with the row, and that an owner
who told of a failure works on the turn no more. Its last part is that every process
about to close a turn closes it as something other than complete: only the journal of
the owner, who has told nothing yet, completes one. `Progress` is what all steps but the
terminal ones do to the words; `WordMove` carries them across it.

`CompletedWhole` holds for every cap, zero included.

The refinement (`AgentTurnLedgerRefinement`) classifies the steps once, in
`StepEffect`: a step keeps every turn (`Still`), forgets a conversation (`Forgets`)
or moves one turn (`Accepts`, `Publishes`, `Calls`, `Settles`). `MovesMove` and
`ForgetsForget` turn the effects into the actions of `TurnReceipt` under the mapping
that `TLC` checks in `ledger_turns`.

The journal (`AgentTurnLedgerJournal`) needs an invariant of its own, `JournalInv`, on
top of `LedgerInv`. It follows the content through its four places: what was streamed is
what the journal holds (`HeldOK`); the journal holds no less than the snapshot its
maintenance task is saving, and that no less than the row (`SnapOK`); the row holds no
less than what was shown, and everything once it is complete (`RowOK`). The last rests
on `KnownOK`, that an executor knows the version of a row that is streaming, and on
`SeenOK`, that a closer which read a streaming row writes on the row as it is: so a
checkpoint that arrives late finds another version and changes nothing.

### The backfill

Under `BackfillAssumption` (finitely many targets, a mode, positive limits, consumers
that belong to a process, `None` and `Foreign` apart from the tokens) and
`EnoughTokens` (a fresh uuid or timestamp exists: the tokens are infinitely many, or
more than can be in use at once):

| Theorem | Says |
| --- | --- |
| `Types` | `Spec => []TypeOK` |
| `ClaimsKnown` | `Spec => []NoOrphanClaim` |
| `CountersRight` | `Spec => []CountersMatchItems` |
| `OriginsApart` | `Spec => []OneRunningPerOrigin` |
| `FuseStays` | `Spec => FuseHolds` |
| `RunImplementsPlan` | `Spec => RunsPlan`, the refinement of `BackfillPlan` |

Every step has one of four effects on run and items, each of which is shown to keep the
invariant once: it starts the run; it leaves every item in its state (`Keeps`); it moves
items between the queue and the consumers, of a run that was not told to stop
(`Reshuffles`); or it ends items, and the run with the last of them (`Settles`). The
first three stutter in `BackfillPlan` or freeze it, the last is `Settle`.

`BackfillInv` is `RunInv` and `TaskRows`. The counters are moved and never recounted, so
they are only right if the rows a statement moves were all in the state it takes them
from: `RunInv` therefore carries the counters as those of the states (`Counts`) beside
`CountersMatchItems`' total, and `ShiftCounts` is the lemma about `_adjust_run_counts`.
The counters also decide when the run is over, which is why the refinement needs them
(`CountsTell`). A stopped run is never given new work because each transaction that
requeues or claims reads `stop` first; a signal that stops a run finds an item at work,
whose end then closes the run. `TaskRows` says that a task that is past its claim names
a target and an outcome, so that what it finishes is a row of the plan.

`Types` needs two facts that are not types. `Paged`: a task that reached `apply` has
fetched its page, so that the status it stores is one of a page. `FuseAtLimit`: a run
that was not stopped has fewer failures than the fuse allows, so that counting one more
stays in range. That a lease or a claim is new is a counting argument over what is in
use (`RunTokensLeft`, `StampsLeft`).

`ClaimsKnown` proves more than its property: the claim on a Site nobody changed is
always the one in the row of its item (`Known`), which stays known until a task leaves it
or a stopped run gives it back. That a target is not given up with its claim is the hard
part, and the reason for `ClaimInv`. A task at work that still holds its item has the
claim of the Site (`HeldBy`), so that the status it stores ends it; a task that is about
to finish or defer its item leaves no claim, unless the run was stopped or is no longer
its process's (`LeftBy`). A task that starts on an item may find a claim there: only
after a fault, and then it may take the claim over (`FoundBy`). To know that the fault
came first one has to know what cannot happen before it: while all is calm every item at
work is held by a task of the process that holds the run, nothing has lapsed, and only
tasks between the claim and its end have claims (`CalmWork`). That no two processes have
one lease token is `RunLeases`. A step is then a matter of where it sends its task
(`Moves`) and of what it does not gain: leases (`HoldStays`) and claims (`OwnStays`).

### The analysis queue

For any finite library and any callers, consumers, sweepers and loads, under
`QueueLimits` (positive limits), `FiniteLibrary`, `Workers` (consumers, sweepers and
other processes are apart) and `InitialStatus`:

| Theorem | Says |
| --- | --- |
| `Types` | `Spec => []TypeOK`, with the claims in the rows |
| `OneFetch` | `Spec => []NoDoubleFetch` |
| `MapsAgree` | `Spec => []QueueAgrees` |
| `NothingOwedIsLost` | `Spec => []NoLostEnrichment` |
| `TheForegroundWins` | `Spec => ForegroundWins` |
| `AnswersAreEnrichments` | `Spec => AnswerIsEnrichment` |

`QueueInv` ties the registries to the workers. `Agrees` says of one account that an entry
is queued once, with what is wanted of it, or runs, never both; `Leases` that the sweep
keeps follow-ups of its own sites only; `WorkOK` that a worker works on an entry nobody
else works on, and that an entry that runs has its worker; `TaskOK` that no worker is
left when its task is over, which is why a new task may start with all of them. `ClaimOK`
gives every claim in a row to the worker that is busy with it. `WaitOK` and `LevelOK`
carry the last two theorems: a caller that joined has `own` recorded for its site, in the
queue or in what runs; a running metadata pass is never raised (it gets a follow-up), so
a busy worker whose entry enriches enriches. `OwedOK` is `NoLostEnrichment`.

The loop of `schedule_analysis` is a function over the turns; `PlacedKeeps` is one turn
and `LoopDone` its induction, over the numbers that fail (`NatSet`), so that no operator
is passed to an induction theorem. `ScheduledFacts` is what all five requests, the
caller and the follow-up of a lease use; the steps that end work go through `Resolved`
(what callers hear), `RowLeft` (no claim stays) and `ConsumerLeavesKeeps` or
`SweeperLeavesKeeps`.

### The import

Under `ContentAssumption` (a file has a size and a sequence of finite chunks of pages),
`SiteAssumption` (a page belongs to a site, a root to its own), `LimitsAssumption` (the
quota is a positive number), `LibraryAssumption` (what the library holds at first are
pages) and `NoneAssumption`; there may be any number of keys:

| Theorem | Says |
| --- | --- |
| `PreviewsWhole` | `Spec => []PreviewIsWhole` |
| `AppliedOnceAsSeen` | `Spec => AppliedAsSeen` |
| `CandidatesKept` | `Spec => NothingLost` |
| `ProjectionIsKept` | `Spec => ProjectionKept` |
| `QuotaIsKept` | `Spec => []QuotaKept` |
| `Types` | `Spec => []TypeOK` |

`ImportInv` is needed because none of the first four is inductive. A job's version *is* the rank
of its state, so a request that holds a version knows the state (`JobOK`); a task past
its start belongs to a job that parses and a run that is open, and has its version
(`TaskOK`), which is why a second parse cannot add to a published preview; a run holds
the chunks it checkpointed and a preview is what its run held (`RunOK`); the version
of the choices a tab read identifies the choices (`TabOK`), so that equal versions at
the confirmation mean equal choices.

The quota is checked when an upload is measured, long before its bytes become a file,
and against a number that is read once. `DiskInv` says why that is enough: while the
upload streams, the number it read is still what is on disk, because the account has one
upload at a time and only uploads and crashes add bytes; when it publishes, what it
holds is the size of the file the job was made for, so a hard link moves its bytes from
one term of the sum to the other; and what a crash between the link and the removal of
the staged name counts twice is what `litter.shared` takes off. The step that puts a
file in place has to say that the sum over the stored files grows by that file
(`OneMoreFile`), every other step that it stays (`SameFiles`).

`ProjectionKept` compares the count of a set with a difference of sums. With the library
the preview was made with, what is written is the pages of no merged group and the page
of each group that makes one; the two are disjoint and no two groups make the same page,
because the page of a group is of its own site (`CanonicalIsOfSite`). `OneMoreGroup` says
what merging one more group takes off, `GroupsTake` adds this up over any set of groups.

Both sums are folds of the community modules, which take the elements in the order of
`CHOOSE`. `SumsExist` shows, for a finite set, that the function a fold chooses exists,
`SumsAre` that any element may be taken first, `SumsAgree` that only the terms matter,
all three by `SetInduct`: a set of parts that has every part all of whose smaller parts
it has is the set of all parts. It is stated with sets, since the provers cannot
instantiate the library's induction rules, and follows from `WFMin` and the
well-foundedness of strict inclusion.

### The library

Under `LibraryAssumption` (a default category, finitely many Sites in an order, plans
whose new Space is of one operation), `NoneAssumption` and `FirstAssumption` (the first
library keeps the unique and foreign keys of its tables, and a Space that an operation
derives the id of is not there yet):

| Theorem | Says |
| --- | --- |
| `Types` | `Spec => []TypeOK` |
| `PlacesAreDistinct` | `Spec => []PlacesDistinct` |
| `ClaimsSeeMembers` | `Spec => ClaimSeesMembers` |
| `DecisionsAreCurrent` | `Spec => DecidedOnCurrent` |
| `MergesKeepPlaces` | `Spec => MergeKeepsPlaces` |
| `BatchesHappenOnce` | `Spec => BatchOnce` |

`DecisionsAreCurrent` is about what a version or a name stands for: name, flags, address,
place, category, tags. It says nothing of the texts of an analysis.

`LibInv` is what makes optimistic locking right. `LookOK` says of a look at a Space,
however old, that at its version the members are those it saw but for deleted Sites;
`ShownOK` says the same of versions of Sites and what was shown at them. Every draft, the
scan and every request in flight carries one of the two (`DraftsOK`, `RunOK`, `ReqsOK`).
`MergeOK` adds that one version of a run has one set of choices, `BatchOK` that a batch
about to write holds a place after all members, if its version is still current.

A step then has only to say what it does to the rows. `SiteStep` and `SpaceStep` say it:
rows keep their keys, nothing that left comes back, versions never go down, and a row
whose version stays shows what it showed (a renamed category or tag is why `SiteStep`
speaks of names, and why the code bumps the Sites of a renamed one). `LooksStay`,
`ShownStays` and `RequestStays` carry everything seen across such a step, once for all
actions; each action has a lemma that its rows move so (`MoveSiteStep`, `DeleteStep`,
`WriteIntoStep`, ...).

Distinct places need more than arithmetic. `AfterAll` says that a place after the largest
of a finite set is after all of it, `MovedRows` that a group moved to the end of a
category gets places apart from each other and from what was there (the number of moved
Sites ahead of one tells them apart, `CountsMore`), `ReorderedIs` and `EnrolledIs` the
same for a reordering and for a batch. In a merge two groups may hand a place to their
keepers in one Space: `MergedMembersAre` shows that the places stay apart because groups
have no Site in common and the Space had each place once.

`OnceInv` carries the batches. It adds to the types of receipts, answers and transcript
(`Rows`) and the records of the requests (`Shapes`) that every answer given is a receipt
(`AnswersAreReceipts`), and that a request about to record a batch has its receipt and
has seen no such record in the part of the transcript it read (`NotesKnow`).

### Only model-checked

Liveness (`EveryTurnSettles`, `RunEndsUnlessStuck`, `ParseSettles`, `AnsweredWhileUp`,
`AnnouncedIsSwept`): no prover here reasons about fairness. Every invariant, every action
property and both refinements that the passing runs check are theorems. `OneRunningPerOrigin`
is checked with two consumers of one process and no fault; it also held, with `TypeOK`
and `FuseHolds`, on the instance of `backfill_lease`, where a lost lease leaves an item
at work behind.

## 5. Plan

Done: the ledger, the backfill, the analysis queue, the import, the library with its
Spaces. Next, in this order:

1. **Admission**: the sliding-window limiter of `auth/rate_limit.py` with pending
   reservations and evicted keys, and a proof of its bound for every clock.
2. **SemanticIndex**: one pass per account, digests that detect a stale vector.
3. A stream guard module for the order of the chunks a client sees
   (`agent/langgraph_runner.py:1240`).
4. Rank fusion as a pure operator against a reference definition.

## 6. Not modelled, and why

Page fetching, DNS pinning and HTML extraction, bookmark parsing and normalisation,
prompts and read-only tools, encryption and sessions, provider connectivity checks, the
UI stream encoding, migrations, the web client and the extension: input/output and text
processing with little protocol state. Where they matter to a protocol they appear as
inputs of an action (a provider that fails, a client that goes away, a body the route
rejects, a page that is `complete` or `failed`).

Left out of modules that exist: the rate window, the global slots and the free-disk
test of an upload, which only refuse; categories and tags suggested to an import; the
offline classifier; link races of several processes over one upload directory (the
program is one process by design); the other kinds of draft confirmation, which write
the same record after another check; chunk order and replay formatting of a turn. The
following are simpler or freer in the models than in the code, and no property is
true because of the difference:

- Backfill. In full mode one consumer runs (`ingestion/worker.py:742-746`); the model
  allows any number. `Eligible` also takes Sites that changed after their analysis,
  which the code leaves to another sweep (`ingestion/service.py:298-320`), `Snapshot` the batch that stops because no
  provider is configured (1374-1378), and `Apply` refuses for edits, not for drafts of
  the model that are invalid (807-808, 907-948).
- Import. Every site with two pages is a group; the code keeps pages of another fetch
  policy, sensitive URLs and shared authorities out (`library/similarity.py:311-320`). A
  site has one homepage; the code folds `www` and the schemes, takes the oldest Site and
  the most frequent scheme (387-392, 173-193). A URL that parsing
  accepted and the confirmation does not is skipped and the job ends as
  `completed_with_errors` (`bookmarks/queries.py:738`); the model's URLs stay accepted.
- Library. `ReorderMembers` renumbers the members of the moment; the code has read its
  rows before the version claim that makes them current (`spaces/service.py:1169-1221`).
  `ReadSpace` leaves out the check for a Space of the same name (818-836), which only
  refuses.

The limiter and the semantic index are protocols a model could state; they are in the
plan, and their components are listed as not modelled.
