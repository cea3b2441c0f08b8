# LangRAG in TLA+

LangRAG turns group chats into newsletters and answers questions over them. The
code is a FastAPI process (REST API, scheduler, agent), a batch worker process
and an MCP server process over one MongoDB, all asyncio programs whose steps
interleave at every `await`. This directory holds TLA+ modules of the parts whose
correctness depends on state that outlives one call, TLC configurations that
check them on small instances, and TLAPS proofs, for every instance, of what
matters most. Paths are relative to the repository; its Python packages live
under `src/`.

## Inventory

| Part | State | Operations | Interacts with |
| --- | --- | --- | --- |
| Scheduler (`scheduler/`, `db/scheduled_newsletters.py`, `api/schedules.py`) | schedules; in-memory date jobs; change stream | create, update, toggle, delete, mark complete, trigger; watch, reconcile, fire, run | MongoDB change streams, APScheduler, orchestrator |
| Batch queue (`db/batch_jobs.py`, `background_jobs/`, `api/async_batch_orchestration.py`) | job status; worker tasks | create, cancel; poll, claim, process, record, notify | orchestrator, webhooks, mail |
| Orchestrator (`graphs/multi_chat_consolidator`) and chat pipeline (`graphs/single_chat_analyzer`, `graphs/subgraphs`) | graph state; a directory of files per dates | fan out, analyse, aggregate, consolidate, select, deliver | run tracking, extraction, models, delivery |
| Run tracking and archive (`db/run_tracker.py`, `db/repositories/runs.py`, `newsletters.py`) | run documents, rows of source data, newsletters | create, start, stage, complete, store | orchestrator; readers are the agent, the knowledge base, the next edition |
| Extraction (`core/ingestion/extractors`, `db/repositories/extraction_cache.py`) | cache of parent and chunk documents; output file | look up, assemble, fetch, store, expire | homeserver |
| Session and keys (`beeper.py`, `core/ingestion/decryption`) | encryption store, its backup and worker copies; key file | log in, copy, open; sync, merge, decrypt | orchestrator, homeserver |
| Preprocessing (`preprocessors/whatsapp.py`, `utils/llm/batch`) | sender map, translation cache | parse, translate, separate | batch APIs of three providers |
| Ranking and merging (`core/retrieval`) | none | merge, rank, diversify, categorise | model providers |
| Links and pictures (`link_enricher.py`, `image_extraction.py`, `associate_images.py`) | files, picture documents, media directory | search, insert; download, describe, record | model providers, gallery |
| Progress (`api/sse`, `useNewsletterStream.ts`) | queue per run and their registry; the hook's status | emit, drain, sweep, reconnect | orchestrator, browser |
| Agent (`agent/`, `api/agent_chat.py`) | checkpointed thread; memories | model and tool loop, interrupt, resume, summarise, recall, remember, forget | scheduler, newsletters, knowledge base |
| RAG admission (`rag/concurrency`, `rag/quota`) | slots per process; hit window; daily counters | acquire, release; allow; reserve | RAG API, MCP tools |
| Conversations (`api/rag_conversation.py`, `rag/conversation`) | sessions and messages | chat, stream, session CRUD, evaluate | admission, retrieval |
| Knowledge base (`rag/ingestion`, `rag/chunking`, `rag/retrieval`) | chunks | ingest, refresh, retrieve | model providers |
| Accounts and keys (`api/auth.py`, `google_oauth.py`, `admin_users.py`, `podcast_consumers.py`, `rag/mcp/auth_context.py`) | users and epochs; tokens and keys | sign up, log in, reset, disable; ask, exchange, resolve | every API |
| LLM providers (`utils/llm`) | none | call, retry | everything above |

`PROJECT.json` lists every part with its status, and those not modelled with the
reason.

What is hard, and what makes each part correct:

- **Scheduler.** Four actors write one job set from two views of the collection,
  and the callback writes back what the watcher then reads. Correct: the job set
  mirrors the collection once the watcher has caught up; a mark is in the
  future; a due schedule runs.
- **Batch queue.** Workers and polls race for a job, a client races its end, a
  worker dies in the middle. Correct: one run and one honest notification per
  job; every queued job is settled.
- **Newsletter runs.** Nodes are skipped when their file exists, in a directory
  that failed, dead and concurrent runs share; stores fail softly or hard; a run
  stops for a selection and goes on in another request. Correct: documents move
  forward, completed means delivered, a successful chat has its rows, a mail and
  an edition are made of one run's messages.
- **Extraction, session, keys.** Entries, directories and a file are replaced in
  steps without a transaction. Correct: a window is returned whole; no login is
  lost and no worker opens another run's; what was readable stays so.
- **Preprocessing, merging, enrichment.** Answers of models are matched by
  position or id; maps are carried between chunks and runs. Correct: replies,
  names, translations, discussions and bullets are neither lost nor mixed up.
- **Progress.** A bounded queue whose producer and consumer outlive each other.
  Correct: an outcome comes last, and the user learns one.
- **Agent.** Nodes run again on resume and decisions are matched by position.
  Correct: what is deleted was approved, every call is answered, memories belong
  to their user.
- **Knowledge base.** Check and act across awaits; a slot that is released by a
  generator that may never start; answers stored after they were streamed.
  Correct: slots, quotas and rates hold; titles and answers are on record; what
  was ingested can be found.
- **Accounts and keys.** A request reads an account or a key long before it acts
  on it. Correct: a session and a key end when access ends.

`PROJECT.json`, `hazards`, has each of these at the line where it bites, with the
property that covers it.

## Modules

| Module | What it is |
| --- | --- |
| `NewsletterScheduler` | the collection, its requests, the change stream, the watcher, the reconciles, the job set, the callback, the process |
| `BatchJobs`, `SoleProcessing` | the queue, its workers and cancellation; what it promises: begun once by one task, told once |
| `RunTracking`, `RunRecord` | run documents and rows; what the documents promise: a status that moves forward |
| `NewsletterArchive` | the newsletters in MongoDB and their three readers |
| `ChatPipeline` | the nodes of one chat over the shared directory |
| `NewsletterRun` | the orchestrator around them: consolidation, delivery, selection, crash |
| `Extraction`, `BeeperSession`, `Decryption` | a chat's messages and their cache; the login and its copies; the keys |
| `Parsing`, `Translation`, `DiscussionSelection` | the preprocessing of a chat and the choice of its discussions |
| `LinkEnrichment`, `Images` | the link subgraph; the picture nodes |
| `ProgressStream` | queue, registry, endpoint and browser hook |
| `AgentTurn`, `AgentMemory` | the loop of model and tools with approval; what the agent remembers |
| `RagAdmission`, `Conversation`, `KnowledgeBase` | who is let in; how a question is answered; what can be found |
| `Accounts`, `ApiKeys` | users and cookies; a consumer's keys and their use |
| `LlmCall` | one provider call under the retry decorator |
| `MCNewsletterScheduler`, `MCBatchJobs`, `MCRagAdmission`, `MCNewsletterRun`, `MCServices`, `MCKnowledge`, `MCAgentTurn`, `MCLlmCall` | instances for TLC |
| `NewsletterSchedulerProofs`, `BatchJobsProofs`, `RagAdmissionProofs`, `NewsletterRunProofs`, `PipelineProofs`, `ConversationProofs`, `UserProofs`, `ServicesProofs` | theorems and proofs |

`NewsletterRun` EXTENDS `ChatPipeline`, `NewsletterArchive` and `RunTracking`: these
four act on the same run documents, files and newsletters, and are checked
together. `MCServices` and `MCKnowledge` put components that share no variable
side by side: the first state says which one runs (`component`), and every other
keeps its state. Interleaving them would multiply the states and reach no new
one of any of them.

A definition whose comment begins with "Slip" is not part of a model: it is the
plausible mistake that a property is shown to catch (`PROJECT.json`, `mutants`).
Each definition of a model has its source lines in `PROJECT.json`, `map`. A step is
what the code does between two awaits that matter.

### NewsletterScheduler

- `doc` is the collection reduced to the four fields the scheduler reads (enabled,
  next_run, run_time, interval_days). `update`, `toggle` and `mark_complete` read
  and then write, so each is two actions: `UpdateRead`, `ToggleRead` or
  `ExternalMarkRead`, then `EditWrite`, with at most one such request in flight.
- `stream` and `batch` are the events the server and the driver hold. An update
  event gets its document when it is delivered (`updateLookup`), which may be a
  later document or none. A write while no stream is open is announced to nobody.
- `watcher` follows `_change_stream_watcher`: open the stream, reconcile, apply
  events; on an error wait and start over. `recon` and `snap` are
  `_reconcile_jobs_from_db`, run by the watcher and by `POST /trigger`.
- `jobs` is APScheduler's job set. `Fire` is its documented behaviour for a date
  job with `misfire_grace_time` and `max_instances` of one.
- `exec` and `mark` are `_execute_schedule_by_id`; `up`, `Start`, `Crash` the process.
- `now` counts slots of an hour or more. `Tick` waits until nothing short is
  under way (`Settled`): store calls, deliveries and the back-off of the watcher
  end within a slot, while a run or an outage may last. `MarkedDateIsFuture` and
  liveness rest on it and are to be read with it.

### BatchJobs

`status` is the stored status and `queue` the created_at order. `Poll` is one round
of `worker_loop`; several polls may take one job until somebody claims it. `Claim`
is the `find_one_and_update` of `claim_job`, `Process` the workflow with its two
results, `RecordResult` `complete_job` or `fail_job`, `Notify` webhook and mail,
`HandleError` the except branch. `ClaimRaises` and `RecordRaises` are store calls
that raise, applied or not. `CancelRead` and `CancelWrite` are the endpoint;
`Shutdown`, `Exit`, `Crash` and `Restart` the process.

### RunTracking, NewsletterArchive, ChatPipeline, NewsletterRun

`record` is the status of each run document; the tracker's calls on it swallow
errors (`MaxFaults`), the stores of rows (`saved`) raise them. `paper` holds the
original, enriched and translated version of each newsletter; `Readings` is what
the knowledge base, the agent and the next edition's history make of it.
`ChatPipeline` has one action per node: skipped when `file` is there and neither
its own flag nor the run forces it, else executed, with its file written before
its rows; two nodes read the file back for their rows, and if they cannot, the rows
are left out and the chat goes on (`LeaveRowsOut`). The content of a file is the run whose
extraction it comes from, so a file kept by a later run is told apart, and a death while
writing leaves `Torn`. `NewsletterRun` dispatches the chats, gathers them, runs the five
nodes of the consolidation with their skips, and the output actions (`todo`); the
selection ends phase 1 in a file, and `GeneratePhase2` ends as it does in the code.
`Crash` ends what the process was running and leaves files and documents.

### Extraction, BeeperSession, Decryption

`Extraction`: one extractor looks its key up, assembles chunks, tries windows that
overlap, else pages through the server, writes its file and then the entry:
chunks removed, inserted one by one, the parent flipped last. The TTL monitor
removes chunks and parents on their own. `BeeperSession`: `BackUp`, `LogIn`,
`Install` and the failing refresh (`RefreshFails`), then `CopyStores` and the opening
and closing by workers. `Decryption`: a keyring maps a session to the first index
it reads; the device's keys, the backup's (merged with the file every process
shares, keeping the lower index) and an export, then the verdict on each message.

### Parsing, Translation, DiscussionSelection, LinkEnrichment, Images

Each follows one function of the pipeline from input to output with what it keeps
between runs: the sender map and the ids of replies, the translation cache by
content hash and the batch requests answered one by one, the model's groups of
discussions and the ranked list, the links and the bullets merged by position,
the picture documents and files. An item of the merged list is the set of
discussions it was made of, and the list is sorted as `list.sort` does it, of
equals the first first. A ranking is any sequence of entries, as the code checks
neither ids nor ranks. A link is its scheme, host and path, its query, and how it
is spelled; the code tells links apart by the first of these (`KeyOf`), a reader by
the first two (`PageOf`). A parsing may also fail, and then nothing of it is kept.
What a model answers is any of a small set, good and bad. `Images` runs overlap
freely and every call in them may fail.

### ProgressStream

`stream` is the queue of a run, whether it is registered, and what was sent;
`run` the workflow and its endpoint; `conn` a connection; `ui` the hook. Events of
nodes are emitted while the endpoint drains; the outcome is emitted into the
queue when the task is done and the queue drained again. A lost connection is
answered by posting again, which is another run. The hook's timer may give up while
a request is on its way; the model has the late answer too.

### AgentTurn, AgentMemory

`history` is the thread's messages. A turn alternates model and tools until the
model calls none; over budget calls get a refusal each. `delete_schedule` interrupts;
what the node did is discarded and done again on resume, and the n-th interrupt
of the node gets the n-th decision. `AgentMemory` has the memories of all users
with their ids in order of drawing, the questions of one node of tools and the
decisions on them, matched by position (a question may be another tool's, which
has nothing to ask about when the node runs again), the extractor that runs after
the turn, deletion by the API and expiry.

### RagAdmission, Conversation, KnowledgeBase

`RagAdmission`: `in_flight` is the counter of each process and `pc` where each
request is. A stream holds its slot from the handler (`TryAcquire`) through the
response object (`offered`) to the generator's `finally` (`Release`); `Vanish` is a
client gone before its first step. A public search passes `Allow`, then `Reserve`
on the caller's row, for a keyless caller the shared row, and the row of all
embeddings. `Restart` clears what is memory; `Tick` and `Midnight` are the clocks.
`Conversation` takes a question through `rag_chat`, `rag_chat_stream` or `rag_query`:
stored, titled, retrieved, refused or answered, grounded, stored, evaluated; its
client may leave, its owner delete the session. `KnowledgeBase` cuts a source into
pieces with overlap, stores them in calls that may tear, and retrieves some.

### Accounts, ApiKeys, LlmCall

`Accounts`: each request first reads an account and then writes it or makes a
cookie of what it read; epochs move with resets and disablings. `ApiKeys`: a token
is asked for, mailed, exchanged once (consume, revoke the key that was on the
record, issue, record), and a request resolves its bearer, waits, resolves it again when
that was long ago (`Reauth`) and runs the tool. `LlmCall`: per provider method, which of
its errors it turns into `LLMError` before the decorator sees them.

## Runs

| Run | Checks | Shows |
| --- | --- | --- |
| `scheduler` | `TypeOK`, `JobsMirrorDocs`, `MarkedDateIsFuture`, `DueRunsAndAdvances` | the job set mirrors the collection after any mixture of requests, lost events, failing store calls, reconnects, crashes, a trigger and the end of a run; marks are in the future; a due schedule with its job in place gets a new date (393,280 states) |
| `scheduler_catch_up` | `OverdueCatchesUp`, violated | a date missed by more than the grace is never made up |
| `scheduler_in_sync` | `JobSetInSync`, violated | a manual trigger can leave stale jobs |
| `batch_safety` | `TypeOK`, `ToldWhatWasRecorded`, `ImplementsSoleProcessing`, `QueuedIsSettled` | one run and one honest notification per job; a queued job ends or a fault orphaned it (179,955 states) |
| `batch_final` | `FinalStatusIsFinal`, violated | cancellation and completion overwrite each other |
| `newsletter_run` | `TypeOK`, `CorpusIsComplete`, `CompletedMeansDelivered`, `MailIsOfItsRun`, `EditionsAreOfOneText`, `ImplementsRunRecord` | documents, rows, mails and editions of two runs over one directory, with a fault and a crash (1,390,251 states) |
| `rag_safety` | `KnowledgeTypeOK`, `SlotsAreAccountedFor`, `QuotaIsNeverOversold`, `EmbeddingsAreBounded`, `EveryWindowIsWithinRate`, `TitleIsOfFirstQuestion`, `AnswersAreOnRecord`, `IngestedTextIsSearchable` | slots, quotas, breaker and rate; titles and answers on record; ingested text can be found (1,696,622 states) |
| `rag_disconnect` | `DisconnectReleasesSlot`, violated | an early disconnect leaks a slot |
| `services` | `ServicesTypeOK` and one or two properties per component, below | the components a run and the API rest on (690,649 states) |
| `link_pages` | `EveryPageIsOffered`, violated | a link is dropped for another that differs from it in its query |
| `agent_approval` | `DeletesAreApproved`, violated | a decision given for one deletion answers another |
| `llm_retry` | `TransientFailuresAreRetried`, violated | the retry decorator never retries a provider method |

The properties of `services`: `EndedWindowsAreComplete` (extraction),
`WorkersOpenTheirSession`, `InstalledSessionSurvives` (session),
`ReadableStaysReadable` (keys), `TranslationsAreCurrent`, `RepliesResolve`,
`NamesAreKept` (preprocessing), `MergingLosesNothing` (selection),
`EnrichmentKeepsBullets` (links), `PicturesAreServable` (pictures),
`OutcomesComeLast`, `UserLearnsOutcome` (progress), `DeletesAreApproved`,
`EveryCallIsAnswered` (agent), `MemoriesAreTheirUsers` (memory),
`SessionsEndWithAccess` (accounts), `AccessIsBounded` (keys of consumers). Each is
stated with the code it is about above its definition. `LlmCall` runs there too;
its one property is the violated one.

Deadlock is checked in `newsletter_run`, whose end is a step of its own
(`Finished`). Every other bounded instance stops when its requests, faults and
time are used up.

### Bounds, and why they are enough

- *Scheduler.* One schedule: the actors share no state between schedules except
  the dropping of all jobs, which for one schedule is the dropping of its job.
  Two clock times, so that an edit moves a date both ways; days of two slots, four
  slots of time, so that a run crosses midnight; a grace of 0 (1 in
  `scheduler_catch_up`). One edit beside the writes of the runs, a trigger, two
  faults of any kind (stream, store, crash), three pending events: an event is
  overtaken by another, a reconnect follows a reconnect, a store call fails after
  another. One unparsable run_time. The three safety properties are proved for
  any number of edits.
- *Batch.* Two jobs, two workers of one slot, one cancelling client, two faults: a
  job is polled by both workers and again by one whose claim it waits for. The
  theorems hold for any number of slots.
- *Newsletter run.* Two runs over one directory, one fault, one crash: a digest and
  its re-run, plain or forced; a selection and a digest after it; one chat, forced
  again; one chat by two runs at once; three chats of which one may fail, and one
  chat after. The second run sees every state of files the first can leave.
- *Knowledge base.* One request per REST surface, two searches, one key and two
  addresses, caps and limits of 1, a window of two ticks in three, one midnight,
  one restart: every check is at its boundary. Two questions of one session and
  its deletion; a source whose segments are shorter than, as long as and longer
  than a piece, republished once, ingested three times.
- *Services.* Two actors wherever the code may run two at once, one failure or
  crash each (two for the session, so that one follows another), and the smallest
  sizes at which a boundary lies inside: chunks of one message, requests of one
  message, a queue of two, one event per stage, one reconnect, a budget of two
  calls, a summary at three messages, one memory recalled, one picture per
  discussion. `MCServices` gives the inputs (chats, groupings, answers) and what
  each is there for. A ranking has two entries, also of an item that is made up
  or named twice, with a rank of 1 or the default of 999. The network fails twice,
  so that a connection can be lost unnoticed after the hook has given up. A
  message asks the user about one memory or one other thing.

### Preconditions

Some properties hold only while the program is used in a certain way. Each such
condition is a constant that the runs set, or a conjunct of the property, and its
other value was seen to violate it:

| Constant | Meaning | Without it |
| --- | --- | --- |
| `WhileOpen = FALSE` | windows are extracted after they ended | a window cached while open is served short for its TTL |
| `RunsOverlap = FALSE` | newsletter runs do not overlap | worker copies are replaced under open workers |
| `ParsersOverlap = FALSE` | nor do their preprocessings | two runs overwrite each other's sender map |
| `DecryptorsOverlap = FALSE` | nor do their key syncs | a merge of the key file loses the other's keys |
| `LongStages = FALSE` | no stage outlasts the staleness limit | the queue of a running workflow is swept |
| `AnswersFirst`, `AwaitsTools = TRUE` | the user decides before writing on, and stays while tools run | tool calls without an answer stay in the thread |
| `DistinctIds = TRUE` | the model's ids differ within a chat | two discussions become one |
| `PrefixOf` | no two chats' names are the same in ids | discussions of both with one id become one |
| one ingester | a source is ingested by one request at a time | both store their chunks |
| one `MaxDeletes` | one deletion per message | `agent_approval` |
| one `MaxQuestions` | the calls of a message ask the user one question (a memory to forget, a schedule to delete) | the decision about a schedule that is gone when the node runs again deletes a memory nobody agreed to delete |
| `~GaveUpTooEarly` in `UserLearnsOutcome` | the hook does not give up while its last request is on its way | the late answer starts the display again with no timer to watch it, and the next loss goes unnoticed |
| `~full` in `UserLearnsOutcome` | the queue takes every event | an outcome that is dropped is never told |

`PublicMode` of `ApiKeys` is not one of them: `AccessIsBounded` holds and is proved
in both modes, and the run takes the one that has the internal tools.

`DueRunsAndAdvances` has its exceptions in its formula: the owner disables or
deletes the schedule, the process dies, the run_time cannot be parsed, the
watcher's own reconcile failed between dropping the jobs and listing the documents
(it waits and tries again), or a store call raised at one of three places, which
the variable `failed` records: `get_by_id` before the run, the last `mark_complete`
after it, and `list_all` in a manual trigger that has dropped the jobs. In these
three the code leaves the schedule overdue until an event, a reconnect or a
restart registers it again. `JobsMirrorDocs` leaves out the time between a manual
trigger and the watcher's next reconcile (`drift`).

`CorpusIsComplete` leaves out the rows of a node that could not read back the file
it had just written (`unread`): `extract_messages` and `separate_discussions` log
this and go on without the rows, although the comment there
(`single_chat_analyzer/graph.py`, 309) says "Fail-hard". Without the exception the
property fails.

`EditionsAreOfOneText` says nothing of concurrent runs and of one chat that is
forced, and `MailIsOfItsRun` nothing of a run in a used directory unless it is
forced and mails a digest: both fail there.

### Fairness

`NewsletterScheduler` assumes that the event loop runs what is ready (the steps
of the watcher, of reconciles, of a callback, the write half of a request, and
due jobs) and that the process is started again when down. A callback's fairness
includes the end of a run: `run_scheduled_newsletter` either returns or raises.
`BatchJobs` assumes it of worker loops, restarts, tasks and the write half of a
cancellation (compose restarts the process, `restart: unless-stopped`).
`ProgressStream` assumes it of a workflow's, an endpoint's and a reader's steps
and of the hook's timeout: all are ready coroutines or timers. Requests, faults,
disconnects and the clock are never forced. Weak fairness is enough everywhere: no
step is disabled again and again by another actor. The other modules state safety
only and assume none.

## Findings

`PROJECT.json`, `findings`, quotes the lines. Seven have a run of
their own:

1. *No catch-up after an hour* (`newsletter_scheduler.py`, 170): comments promise
   that past dates fire on registration; past the misfire grace they are dropped.
2. *The manual trigger can leave stale jobs* (196).
3. *Final statuses are replaced* (`async_batch_orchestration.py`, 192).
4. *An early disconnect leaks a slot* (`rag_conversation.py`, 164).
5. *Approval by position* (`schedule_tools.py`, 148): the decision about one
   deletion can fire another.
6. *Links that differ in their query are one* (`link_enricher.py`, 292): the key
   that duplicates are found by is scheme, host and path, while the test says that
   different URLs are kept.
7. *Nothing is retried* (`openai_provider.py`, 243): the methods replace the errors
   the decorator around them looks for.

The others were met while modelling; a precondition above or a comment of the
module says where the model has them: rows left out when a file cannot be read
back (`single_chat_analyzer/graph.py`, 297), discussions with one id
(`consolidation_nodes.py`, 367), unanswered tool calls (`agent/graph.py`, 211), the
two refresh flags nobody sets (`newsletter_gen.py`, 291), a history flag nobody
reads (`newsletter_history_loader.py`, 57), editions that are never completed
(`newsletters.py`, 185), a second live key (`podcast_consumers.py`, 191), two
admins who disable each other (`admin_users.py`, 10), the sparse index
(`indexes.py`, 341), messages of no session (`rag_conversations.py`, 186), the
description cache (`image_describer.py`, 86), phase 2 (`newsletter_gen.py`, 1098),
originals cached as translations (`whatsapp.py`, 502), queues swept while
watched (`progress_queue.py`, 167), worker copies by position (`graph.py`, 332)
and double ingestion (`pipeline.py`, 74).

Smaller things a maintainer may want to know, all of them in the models:

- `fail_run` has no caller, so the document of a run that failed or stopped for a
  selection stays `running`; an unforced retry leaves nothing under its own id.
- A torn file is taken for a finished one by the next unforced run.
- A lost progress connection starts another run; a run's error may overtake
  events that are still queued.
- A memory tool that ran before an interrupt runs again on resume, and `forget`
  says `deleted` whatever it matched.
- `tool_call_count` is never reset between turns.
- A refused chat request leaves its question without an answer, and two first
  messages at once leave a session without a title.
- The approval of a `delete_schedule` can also answer a `forget` of the same message
  (5. above for memories).
- The ranking model's ids and ranks are not checked: one it makes up is featured
  like any other, and a discussion it names twice is ranked twice.
- The summary of a thread cuts by the number of messages, so it may keep the answer
  of a tool without the call it answers (`summarizer.py`, 79). `EveryCallIsAnswered`
  is about calls without an answer only.
- Groups of discussions formed without embeddings may drop some.
- A torn key file makes later syncs fail until it is removed.

## Proofs

`tlapm` checks all eight proof modules. The constants are assumed only what the
named ASSUMEs beside their declarations say, and TLC evaluates these in every run:
numbers are numbers, caps are positive, "none" is no id and no document, windows
are not empty, pictures are finitely many, the chats of a request are chats, the
contents of a file are told apart, there is room for the first administrator. The theorems
hold for any number of actors, any bounds and any inputs. A theorem whose property needs
one of the preconditions above has it as a hypothesis, which is named here. For each, the
invariant of the property alone is not inductive; what is added is named too.

- **`NewsletterSchedulerProofs`**: `TypeCorrect`, `MarkedInFuture`, `MirrorsDocs`.
  Between the read and the write of a mark its date waits in `mark`; `MarkInv` adds
  that a waiting date is in the future, which `Settled` preserves, and that a
  callback is under way only while the process is up. For `MirrorsDocs`,
  `MirrorInv` says that the last event pending for a schedule, or the look-up of a
  delivered one, speaks of the document as it is (`NewsIsCurrent`), and that a
  schedule of which nothing is pending has its job, or is in a listing that a
  reconcile still works through (`JobsFollow`).
- **`BatchJobsProofs`**: `TypeCorrect`, `OneOwner`, `QueuedUntouched`,
  `ReportsAreHonest` and `Refinement` (`Spec => Promise!Spec`). `Ownership` is
  inductive: a queued or new job is untouched, a job has one owner at most, and an
  owner has told nobody yet. Each step maps to `Begin`, `Tell`, `Drop` or a stutter.
- **`RagAdmissionProofs`**: `TypeCorrect`, `SlotsAccounted`, `QuotaHolds`,
  `EmbeddingsBounded`, `RateHolds`. Cardinalities of sets of requests move by one
  with each step; `GrantsAreCounted` and `EmbeddingsAreReserved` strengthen the two
  that follow `SlotsAccounted`. For `RateHolds`: the entries of a bucket rise, so
  pruning the expired ones drops a prefix; hence the searches let through since
  any moment still in the window are no more than the entries after it, which
  `Allow` keeps within the rate.
- **`NewsletterRunProofs`**, in the order of the module:
  - `RunsImplementRecord` (`Spec => Document!Spec`), `CompletedIsDelivered` and
    `CorpusComplete`. `RunFits` relates, for one run, the status of its document
    to the node it is at, and what is left to do to what was delivered. A step
    changes one run (`OnlyOf`), so a lemma about one run suffices, except for
    `Crash`, which only stops runs. `CorpusInv` says of each chat that a node which
    was executed and could read back its file has its rows stored, or is about to
    store them, or its chat has ended badly, and that nothing was executed before the run
    had its id.
  - `RunTypes`. A digest takes its content from files, so its type needs that they
    are there: `ReadyInv` says for each node of a chat and of the digest which file
    it has found or written. No file is ever removed, so no other run and no
    crash takes that away.
  - `OneText`. `EditionInv`: a run that is not concurrent is alone while it is alive;
    a file is there if one made of it is; hence a node that executes finds none
    behind it, and what the node after it stores is made of the original's text.
    With a chat's ranking and enrichment exempt from refresh this fails for a
    forced chat, which is why the property leaves that case out.
  - `OwnMail`. `MailInv`: for a run alone in a directory that was empty, every file is
    its own (`CleanFiles`, `CleanDigest`); for a forced run, what the next node of a
    chat reads is its own (`ForcedFiles`); for both, so is what the next node of the
    digest reads, and it is about chats that succeeded (`OwnInput`), which nothing
    takes back. `Drawn` survives the merge, the selection by ids and the copies.
- **`PipelineProofs`**: nine components a run uses.
  - `OwnSessions`, `SessionSurvives`. While one run refreshes (`OneRefresh`), what is
    being installed is the login just made (`TempIsFresh`), the store is the run's
    own from then on and so are the copies made of it.
  - `PicturesStayServable`. `ImagesInv`: before a run records anything it has copied
    all that it got (`Copied`), it shows no more than the limits allow (`FewShown`),
    and a picture has a discussion only by a run that is done. The limits are cuts
    of sorted lists; that a cut keeps no more than its length is counted from the
    least element, which exists by well-foundedness.
  - `OutcomeIsLast`. `StreamInv`: what the queue holds after what was sent is what
    was accepted, the outcome is accepted after the task is done, and nothing
    after it; a reader has read a prefix of what was sent.
  - `EndedComplete`. `ExtractionInv`: whoever writes the entry of a window that ended
    writes the same chunks and the same parent, so the chunks on record are some of
    that window's, and as many of them as the parent counts are all; a readable
    file of downloaded events holds the window.
  - `FinishedIsCurrent`. `TranslationInv`: an output has of every message the version
    that was read, in English unless it is still wanted (`OutputFits`); what the
    cache holds is of its message; the requests leave no wanted message out.
  - `StaysReadable`, if extractions do not overlap (`~DecryptorsOverlap`). `KeysInv`: a
    ring about to be written reads all that any extraction read (`ReadsAll`), and so
    does a key file that is whole; no ring reads a session from before the backup
    does, so a merge loses nothing.
  - `BulletsKept`. `EnrichmentInv`: the links collected hold those of every discussion,
    the file has one link of each scheme, host and path (`EachKeyOnce`), and every
    edition, in memory or in the file, has the bullets of the original. `LinksUpTo` is
    shown to be what its definition says.
  - `NothingIsLost`, if the model's ids differ (`DistinctIds`) and no two chats have
    one prefix (`OwnPrefixes`). Sorting keeps the elements (`SortKeeps`): the number
    of those before an element is an injection into 0..n-1, hence onto. What the
    model grouped and what it did not are all the discussions; the ids name one each.
  - `RepliesPoint`, `NamesStay`. What the recursive functions that cut and number a
    chat compute is shown by induction over the index (`AllUpTo`, from
    well-foundedness, for sets). `ParsingInv`: the messages parsed come from different
    events of the chunks done, with their references (`ComeFrom`),
    and the numbers of a map differ and have a bound (`NameMaps`), so that a new
    one, above the highest, is another. Without overlap and lapses, a map under way
    extends the stored one. `RepliesPoint` holds with overlapping parsers too.
- **`ConversationProofs`**: `TitleOfFirstQuestion`, `AnswersOnRecord`. `InquiryFits`
  says what a request at each await has put on record and holds in its hands,
  `RecordFits` that a stored answer has its evidence, which later steps leave as it
  was; a first message stays first. A session's id is never drawn again.
  `ConversationTypes` adds that the evidence of every request and message is what
  one retrieval found. The text that is cut into pieces is here too, with an
  induction like that of `Parsing`:
  - `ReportsAreTrue`, `TextIsSearchable` of `KnowledgeBase`. Of the pieces, each is a
    range of the text no longer than allowed and each segment lies in one
    (`PiecesFit`). `BaseInv`: a chunk bears the number of its ingestion, and the
    chunks of a successful one are all its pieces. `TextIsSearchable` has as its
    hypothesis that a source has one ingester; then the chunks on record are of one
    ingestion, and there are none while it works (`AloneInv`). `BaseTypes` needs of
    the report that its ingestion was begun.
- **`UserProofs`**, of the agent: `MemoriesStayTheirUsers`, `DeletesApproved`,
  `CallsAnswered`, `MemoryTypes`, `TurnTypes`. `MemoryInv`: turns and history speak
  only of ids that were drawn, so an id drawn later is none that a user agreed to;
  and under the hypothesis `MaxQuestions =< 1` of the theorem, the one decision of a
  node is about the one question that it asks (`QuestionFits`). `ApprovalInv`: a decision
  that waits is about the deletion of the message under way; with two deletions in one
  message it is not, so the theorem has `MaxDeletes =< 1` as its hypothesis and
  `agent_approval` shows the other case. `ThreadInv`: the thread is whole batches up to
  the one the turn works on, whose answers stand in order. `TurnBounded`: a node has asked
  no more often than there are deletions before its place (`DeletionsCounted`).
- **`UserProofs`**, of access: `SessionsEnd`, `AccountsKeepTheirIds`, `AccessBounded`,
  `RevokedForGood`, `AccountsTypes`, `ApiKeysTypes`. What a request read of an
  account, and what a cookie holds, is *valid*: of an account that is gone, or of an
  earlier epoch, or nothing that a session depends on changed since. Ids are drawn
  and unique, so an account made again at an address is not the old one. A record of a key
  was read at a time at which the key was valid (`ReadBeforeStopped`), an exchange that
  issues has revoked the key that was on the record before (`PriorKeysAreRevoked`), a
  tool's use is in the past and within `Reauth` and one read of it, and a stopped key
  stays so. The epoch of an account counts its disablings and the changes of its password
  (`KeptAccount`); the keys issued, the redeemed tokens and the one not redeemed yet are
  no more than were mailed (`KeysTyped`), so a token gives one key even to two requests at
  once.
- **`ServicesProofs`**: `ServicesTypes`, the types of all fourteen components of
  `MCServices`, from a theorem for each: a component takes the steps of its own
  specification or stays as it is, so the composition implements each of them
  (`StreamAsPart` and the like). Where a type bounds something, its proof says why:
  - `StreamTypes`: a full queue drops the event (`QueueKept`), that of the outcome
    too, and a failure is told past the queue (`FarewellKept`).
  - `LlmTypes`: a call that waits has an attempt left, and the delay, a power of two,
    is cut at its maximum (`DelayBounded`).
  - `ParsingTypes`: what is left of a chunk after cleaning is no longer than the
    chunk (`CleanShort`).
  - `SelectionTypes` and `RerankingPermutes`, the result of the diversity reranker, of
    any entries, checked or not: the scores of those left have a greatest one
    (`GreatestInt`), so there is a best one to take; each place is taken once, and after
    as many steps as there are entries every place is (`TakenExists`, `DiversePermutes`).
- **`RagAdmissionProofs`** ends with `KnowledgeTypes`, the same for `MCKnowledge`.

Only model-checked:

- liveness (`DueRunsAndAdvances`, `QueuedIsSettled`, `UserLearnsOutcome`): the prover
  has no ENABLED and no fairness;
- the violations.

Every other property of the runs is stated by a theorem.

## Not modelled, and why

- Content: what a newsletter or an answer says, scores, prompts, rendering. A
  model's answer is any of a small set.
- `rag/cache/query_embedding_cache.py`: a map of one process whose operations have
  no await between their reads and writes.
- Observability: written, never read back. The database layer: thin wrappers; what
  it guarantees (atomic updates, unique indexes) is used everywhere.
- The user interface apart from the stream hook, and deployment files.
- Agent API keys, access requests, login throttling; the count of open SSE
  connections of the MCP server; the room-id file; cryptography; transcription,
  headers and embeddings of a source; the off-line evaluation gate and the
  conversation graph that no surface invokes.
- Explicit nulls in a PATCH body and a listing of more than 1000 schedules.

## Plan

Done: every part whose correctness depends on interleaving, failure or order has a
module, a property and a mutant, and the proofs above.

Left, most important first:

1. Larger instances of `newsletter_run`: two faults, a third run.
2. The agent's API keys and access requests beside `ApiKeys`; the MCP connection
   count beside `RagAdmission`.
