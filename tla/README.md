# A verification of the Aivyx engine

TLA+ models, TLC runs and TLAPS proofs for the Aivyx engine, the Rust workspace
under `crates/`. The models are translated from the code; where a document or a
comment says something else, that is recorded as a finding. `PROJECT.json` is
the machine-readable side of this file: it names the source lines behind every
definition, the runs, a mutation of the code for every property, the findings,
the hazards and the theorems.

Paths below are relative to `crates/`; `engine.rs` means
`aivyx-task/src/engine.rs`, `delegation.rs` means `aivyx-team/src/delegation.rs`.

## 1. The system

Aivyx runs LLM agents behind an HTTP and WebSocket server and a command line.
The agent loop, memory, encryption, the audit log and the configuration format
live in other repositories (git dependencies of `Cargo.toml`); this repository
holds what coordinates agents over time.

| Component | State it keeps | Operations | Correct when |
|---|---|---|---|
| Task engine (`aivyx-task`: engine, dag, types; `routes/tasks.rs`, `cmd/task.rs`) | a mission per key `task:{id}` of the encrypted `tasks.db`, and a private copy in each execution | create, execute (sequential, streamed, DAG), reflect, approve, retry, resume, cancel, delete | steps start after their prerequisites, retries are bounded, a mission ends exactly once and with the status its steps deserve |
| Planner (`planner.rs`) | none | text to plan, text to verdict | plans have the shape the engine relies on |
| Team delegation (`delegation.rs`, `job_tracker.rs`, `verify.rs`) | specialist pool, delegation tracker, job tracker, team context strings | delegate_task (foreground, background, fallback), query_agent, verify_output, collect_results | one conversation per specialist, no result lost, context only grows, every call ends |
| WebSocket connection (`routes/ws.rs`) | a channel of outgoing messages, one of approval answers, a cancellation token | authenticate, message, cancel, approval, ping, close | one live turn, answers reach their request, everything is released |
| Agent-to-agent protocol (`routes/a2a.rs`) | a stream of events, push notification settings, in memory | tasks/send, sendSubscribe, get, cancel, push notifications | what a stream says last agrees with the mission |
| Scheduler (`scheduler.rs`, `routes/schedules.rs`, `cmd/schedule.rs`) | the configuration file with `last_run_at` per schedule | tick; create, delete, enable, disable | each occurrence runs once, edits persist |
| Channels (`channels/*.rs`) | update offset, rate limits, a session per user | poll, handle a message, /new, stop, restart | each update is dealt with, sessions are not lost |
| Chat and session routes (`routes/chat.rs`, `routes/sessions.rs`) | the session store | chat, streamed chat, audio, images, list, delete | a turn is kept, none replaces another |
| Voice (`routes/ws_voice.rs`) | bounded queues, a token per utterance | configure, audio, end of utterance, interrupt | an interruption is obeyed, a lost connection ends |
| Team messages and spawning (`message_bus.rs`, `message_tools.rs`, `spawn.rs`) | broadcast channels, a read buffer, two counters | send, read, broadcast, review, spawn | no message lost within capacity, limits hold |
| Team policy (`nonagon.rs`, `suggest.rs`, `decompose.rs`, `capability_delegation.rs`, `memory_sharing.rs`) | none | roles, scopes, suggestions, parallel groups | tables agree, groups respect dependencies |
| Tenants, API keys, bearer token (`aivyx-tenant`, `routes/tenants.rs`, `routes/admin.rs`, `tenant_auth.rs`) | tenant records, buckets of keys, a hash in memory | create, suspend, delete, issue, revoke, rotate, look up | a void token is refused, a revocation holds, memory and store agree |
| Request limits (`startup.rs`, `middleware/*.rs`, `app_state.rs`) | failures per address, a limiter per tier and address | authenticate, count, limit | no window exceeds its limit |
| Data directory and its editors (`routes/config.rs` and seven more, most of `cmd/`, `genesis`, `backup`) | configuration, profiles, teams, skills, databases; a copy in memory | create, change, delete; commit, back up, restore | what is shown is what was edited last |
| Reports (`aivyx-billing`, `feedback.rs`, `skill_scoring.rs`, `workflow.rs`, capability audit, SSO roles) | none of their own | totals, budgets, scores, stages, warnings | results agree with reference definitions |
| The rest | read once, or nothing | see `PROJECT.json` | |

How they meet: a route or a command opens `tasks.db`, builds a `TaskEngine`
and, for create and resume, spawns a background task that opens the file again
and executes the mission. A mission's step is one agent turn. A lead agent's
turn calls the delegation tools, which run specialists' turns, in the
background if asked. WebSocket connections, the scheduler and channels start
turns of their own; chat requests, channels and voice share the session store.
Every route but the public ones passes the middleware of `Admission` and
`Access` first. All of this runs on one multi-threaded tokio runtime, and the
commands run in separate processes on the same files.

What is hard, and therefore modelled: private copies saved over each other;
crashes between two saves; retries that survive a restart; a batch of steps
finishing in any order; calls that overlap inside the lock-protected pools;
results read under two locks; channels at their capacity; a cancelled turn that
is still there; tasks waiting for each other's channel ends; a configuration
held across long awaits; checks and counts with an await between them; a whole
file or bucket written back from an old copy; updates delivered again after a
crash; a directory replaced while it is in use. The hazards are listed at their lines in
`PROJECT.json`, each with the properties that guard it or the reason why none
does.

## 2. Modules

| Module | What it is |
|---|---|
| `Mission` | data of the task engine: steps, missions, `ready_steps`, `validate_dag`, `skip_downstream`, revisions, all non-recursive |
| `MissionEngine` | one mission: the store, executors, handlers, faults; extends `Mission` |
| `MissionContract` | what a mission promises: planned, executing, one end, work kept |
| `MCMission` | plans, callers and budgets for TLC |
| `MissionProofs` | proofs about `Mission`, `MissionEngine`, its contract and `AgentProtocol` |
| `Delegation`, `MCDelegation` | one team run and its instance |
| `WsConnection`, `WsConnectionProofs` | one connection: reader, writer, turns, forwarders; proofs about it |
| `AgentProtocol`, `MCAgentProtocol` | the A2A routes on top of `MissionEngine` (extends it); with the missions of `MCMission` |
| `Scheduler`, `SchedulerProofs` | the scheduler and whoever else changes the schedules; proofs about it |
| `SessionStore`, `Sessions` | the store of conversations; the chat handlers on it |
| `Channels`, `MCChannels` | Telegram bots and their manager, together with `Sessions` |
| `Voice`, `MCVoice` | a voice connection, on the same `SessionStore` |
| `ConversationProofs` | proofs about `Channels` with `Sessions`, and about `Voice` |
| `TeamTalk`, `TeamPolicy`, `MCTeamTalk` | messages and spawning of a team; its pure decisions |
| `TeamProofs` | proofs about `Delegation` and `TeamTalk` |
| `Access`, `MCAccess`, `AccessProofs` | tenants, API keys and the bearer token; proofs about them |
| `Admission`, `Reports`, `MCAdmission`, `AdmissionProofs` | the layers before a handler and their limits; what is computed from records; proofs |
| `Settings`, `MCSettings`, `SettingsProofs` | the data directory and all its editors; proofs |

### 2.1 MissionEngine

*State.* `stored` is the record under `task:{id}`; `copy[e]` is the local
`Mission` of an executing call, `pc[e]` where it is, `cur[e]` the sequential
step it is on, `inflight[e]` its JoinSet. `cancelling` is the copy of a cancel
handler between load and save; `answering` says that the handler which spawned
an execution has not yet dropped its own handle of the store.

*Actions.* `Create`, `Resume`, `Answer`, `CancelLoad`/`CancelSave` and `Delete`
are the handlers; `OpenStore`, `Load`, `Begin`, `Dispatch` the head of
`execute_mission`; `StartStep`, `TurnCompletes`, `TurnRejects`, `TurnFails`,
`ResolveApproval`, `FinishSequential` the sequential loop with `Revise` for a
rejected reflection; `StartBatch`, `JoinOk`, `JoinErr`, `SaveBatch`, `FailDag`,
`FinishDag`, `DagDeadlock` the DAG loop; `Abort`, `Crash`, `Restart` the faults.
Each save of the whole copy is a step of its own, because whatever happens
between two of them is what a test does not reach. An attempt that succeeds or
fails is a choice, as is the verdict of a review.

*The lock on the store.* `EncryptedStore` is outside this repository. It wraps
redb (`Cargo.lock` pins 2.6.3), which locks the file it opens: a second open
fails while a handle exists. `aivyx-engine-cli/src/cmd/server.rs:71-82` drops a
store before another is opened for that reason, and
`aivyx-integration-tests/tests/stress_test.rs` shares one handle. On the other
hand `routes/memory.rs` opens stores per request. `StoreIsExclusive` is
therefore a constant: properties that need the lock are checked with it, those
that do not are checked without it, where more interleavings exist.

*Contract.* `MissionContract` has three variables: a status, the set of steps
and the completed ones. `MissionEngine!Promise` maps the stored record to it.
`ImplementsContract` is the refinement: its safety part (`Promise!Spec`) for every
plan, and that a mission does not stay in execution (`Promise!Ends`) for the plans
that are `Executable`. The others stay Executing for ever without any fault:
nothing looks at a plan before its mission is stored, and then `validate_dag`
refuses a cyclic DAG (engine.rs:160), the index of a review target that is not there
panics (engine.rs:184), and a gate without a channel is refused again and again.

### 2.2 Delegation

A call of a tool, or the background job it spawned, is a process `d` with a
program counter; the pool's mutex (`poolLock`), a specialist's mutex (`busy`),
the trackers and the lock on the context strings (`writer`) are taken and
released as in the code, one await a step. `Lookup`, `SetupOk`/`SetupErr`,
`Register` are `get_or_create`; `StartTurn`, `TurnOk`, `Retry`, `TurnErr`,
`Panic` the retry loop with its fallback; `Push`, `RecordWork`, `LockContexts`,
`RewriteContext`, `UnlockContexts`, `FinishJob` what follows a turn.
`StartCollect`, `PollDone`, `PollTimeout`, `ReadTracker`, `ListJobs` are
`collect_results`. The text of the context is the number of entries of
completed work it shows, which is all its users can tell apart.

### 2.3 WsConnection

The reader loop is `reader` and the Handler actions, the writer task `writer`
with `Deliver`, `WriterFails`, `WriterEnds`; a turn is `pc[t]` with
`EmitToken`, `Forward`, `Ask`, `LockAnswers`, `TakeAnswer`, `AnswersClosed`,
`AgentReturns`, `ReportEnd`. A send waits for room unless the receiver has
gone; a channel closes when its last sender is dropped, which is why
`WriterEnds` asks for all live turns to be over and `AnswersClosed` for the
handler to have returned. `GiveUp` is the agent's own reaction to a cancelled
token while it awaits an answer; it may happen and need not. The client may
answer what it was shown (`ClientAnswers`) and send any other approval frame, a
second answer, an unsolicited one or one for a task (`ClientAnswersUnasked`): the
handler forwards all of them without a look at the request they name. The history
`strayed` says that there was such a frame, or that a turn was cancelled while it
waited, so that its answer finds another request.

### 2.4 Scheduler

A writer of the configuration is the ticker or an editor; each holds a copy
(`image`) between its load and its save. `Tick` decides what is due, `Fire` and
`TurnEnds` run the agents while time may pass, `EndTick` saves. `Covered` is
the interval `is_due` searches. The clock is discrete; a sleep ends when it
should, and a tick may take any time. `runs` counts how often each occurrence
was run for, `stale`, `overwritten` and `lost` say when a copy was older than
the file, saved nevertheless, or never saved.

### 2.5 AgentProtocol

The engine's actions with a stream of events beside them: `SendSubscribe`
creates a mission and follows it, `Perform` is any step of an execution with the
event that step sends when it ends the call (`Final`), `PerformAborts` an error
or a panic, `CrashWithStreams` a crash, which also forgets streams and push
settings. `HandleTaskGet` is what tasks/get answers. The module replaces the
engine alone in the run with faults, so that every property of that run is
checked with missions from both kinds of routes.

### 2.6 Sessions, Channels, Voice

A conversation is the sequence of the names of its turns, so that losing,
repeating or mixing turns shows. `SessionStore` has what a load gives (nothing
when the session is too old) and a save, whose failure is only logged.
In `Sessions` a request is `step[r]`: `Ask`, `Prepare`, `CreateAgent`,
`Restore`, `RunTurn`, with `CutOff` for a client that leaves; each handler is
the combination of those its code goes through. `Channels` adds Telegram
(`arrived`, `confirmed`), the manager (`StartAll`, `StopAll`) and a task per
bot: `Verify`, `GetUpdates`, then for each update `Ignore`, `Refuse`,
`SpecialCommand` or `HandleMessage`, `BeginTurn`, `FinishTurn`, `Reply`. The
poll after a batch confirms it, so what is between is delivered again after a
restart. `Voice` has the reader (`phase`), the writer, and for each utterance a
pipeline (`stage`), its agent and the task that speaks (`voice`), joined by
queues that are their lengths. The queue to the client tells apart what belongs to
the utterances that are `Watched`; the writer sends it whatever was interrupted
(`SendMessage`), and `tooLate` counts what it sends of a cancelled one.

### 2.7 TeamTalk and TeamPolicy

`inbox[a]` is what agent `a`'s receiver still holds, `buffer[a]` what the tool has
taken from it and not handed over, `accepted[a]` the history of what was put
into it. A send without a receiver fails, a mailbox at its
capacity drops its oldest. `SendMessage`, `RequestPeerReview`, `ReadMessages`
with its filters (`Partition` is its loop over the buffer) are the tools on the bus.
A spawn is `BeginSpawn`, which reads the count, `RegisterSpawn` or `SpawnFails`, and
`FinishSpawn`, which raises it. From the registration to its end the call holds a
receiver that nobody reads (`holding`): a message sent meanwhile is accepted and
lost with it, in nobody's `accepted`. Nothing keeps a delegation from naming the
lead: `Namesake` is the agent that creates, with a counter and a receiver of its own.
`TeamPolicy` has no state: tables, scores and groups as functions, evaluated
by TLC against reference statements (ASSUME in `MCTeamTalk`).

### 2.8 Access and Admission

In `Access` a request is a token with an operation: `LookupKey`, `CheckTenant`,
`CompareBearer` are the middlewares, the rest the handlers, a step for each
transaction of a store (`LoadBucket`, `SaveBucket`; `StoreToken`, `SwapHash`).
`dead` collects requests whose token was void when they arrived.
`Admission` puts the layers in their order: fault injection, the count of
failures (`IsRateLimited`, `FailAuthentication`: the lock is released in
between), then the tier's limiter, which is modelled as the library `governor`
computes it, by the time at which an address has its whole quota again.

### 2.9 Settings

Handlers of the server, the tick of its scheduler and commands edit entries of one
directory. All of them load a file, check, change the copy and write the file back; they differ in the file, the check and in whether the copy in
memory is replaced. So an action is the name of the handler or command with
those differences (`Adds`, `Alters`, `Removes`, `Writes`, `Erases`, `Runs`), and
`Save`, `Swap`, `Fails`, `CutOff` are shared. `Tick` keeps its copy while agents run
and saves it even if nothing was due; what it decides is in `Scheduler`. A database takes single
records and is opened by one process at a time (`CanOpen`). `Genesis`/`Commit`,
`BeginBackup`/`CreateBackup`, `BeginRestore`/`Restore`/`RestoreCut` work on
the directory. `made` is what the last edit of each entry meant it to be;
`Shown` and `Printed` are what the handlers and the commands that list and show
read; `disturbed` the files two edits of which overlapped.

## 3. Runs

| Run | What it shows |
|---|---|
| `interleaved` | without a lock, created and resumed executions, a cancel, a delete and a fault at every step: order, completion, revision chains and justified failures hold for every record that is or may be stored |
| `single` | with the lock, missions of both protocols, two executors, crashes, resumes, cancel, delete: attempts bounded, no DAG deadlock without a fault, an end is final, also for who was told of it, every call returns |
| `undisturbed` | one execution without faults implements the contract: its safety for every plan, its liveness for those that can be carried out |
| `delegation` | two overlapping calls of all kinds and a collect |
| `ws` | two turns, approvals, cancels, late, repeated and unasked answers, a lost connection: answers go to their requests unless one strayed |
| `scheduler` | ticks of any length with an editor, a crash or a failed save |
| `access` | two requests with any token and operation, crashes, cut connections: void tokens refused, revocations kept, memory and store agree |
| `admission` | two requests of an address at a time over five ticks: wrong tokens and requests per window bounded |
| `channels` | a user who is allowed and one who is not, polls, restarts, `/new`, chat requests and deletions: nothing skipped, conversations kept, every update dealt with |
| `voice` | a second utterance during the first: what was queued and one piece more at most is heard of the first, a lost connection ends |
| `team` | messages, full mailboxes, two agents of one name and two overlapping spawns |
| `settings` | two requests or a tick of the scheduler, a command, restarts, genesis, backup and restore: what is shown is what was last edited |

### Configurations that end in a counterexample

These are no runs of `PROJECT.json`; each shows a disagreement between the code
and what its documents or comments say, and the findings quote those. Run one
with `tlc -config X.cfg M`.

| Configuration | Module | Violated | What happens |
|---|---|---|---|
| `MissionCrashed` | `MCMission` | `CompletedMeansNoFailure` | a crash between the two saves of a failed DAG ends in Completed after a resume |
| `MissionGated` | `MCMission` | `EveryCallReturns` | an approval gate that is refused is refused again for ever |
| `DelegationStale` | `MCDelegation` | `TurnsSeeFinishedWork` | a new specialist's first turn may miss work recorded while it was created |
| `WsConnectionClosed` | `WsConnection` | `ClosedEndsWaiting` | handler, writer and a waiting turn wait for each other after the connection is lost |
| `WsConnectionAnswers` | `WsConnection` | `AnswersMatch` | an unasked answer resolves a turn's request |
| `SchedulerEdits` | `Scheduler` | `EditsKept` | a tick undoes what was changed while its agents ran |
| `AccessDeleted` | `MCAccess` | `DeletedStays` | an unsuspend makes a deleted tenant active |
| `AdmissionRestores` | `MCAdmission` | `WindowRestores` | after a silent window an address does not have its quota again |
| `AgentProtocolTold` | `MCAgentProtocol` | `ToldIsTrue` | the stream of a failed mission ends with completed |
| `ChannelsTwoBots` | `MCChannels` | `ConversationsKept` | a user of two bots of a platform loses a turn |
| `TeamTalkSpawned` | `MCTeamTalk` | `AcceptedIsHeard` | a message to a name that is being spawned is accepted and lost |
| `VoiceStuck` | `MCVoice` | `ReaderGoesOn` | one chunk more than the channel holds stops the reader |

Further disagreements (functions never called, statuses not looked at) follow
from reading alone. One of them is worth knowing when reading
`MissionEngine`: with the lock, the background task of `create_task` may find
the store still open in its handler, log an error and end, and the mission
stays Planned.

### Bounds

* `interleaved`: two executors, four sequential and two DAG plans of up to
  three steps, one retry, one resume, one cancel. Two executors and a handler
  are the smallest number that can save over each other in every order; a third
  executor repeats what one of the two may do. Six steps leave room for two
  revisions. Executors are symmetric, and no liveness is checked there.
* `single`: the plans include a diamond, a cycle (rejected) and a review of a
  step that is not there (a panic); two faults are enough for a crash during
  the recovery from a crash. `Counted` bounds the history of attempts.
* `undisturbed`: two retries, nested reviews of depth two, DAGs of up to five
  steps with independent lanes, so that a batch holds several steps and a
  failure has dependents at a distance; and the plans that are not `Executable`:
  a cycle, a review of a step that is not there, a gate. Of these the run shows
  that they keep the safety part, and `MissionGated` that a gate does not end.
* `delegation`: two calls, two agents; every kind of request is offered, so a
  call may meet itself, the fallback of the other, a review or a query.
* `ws`: two turns with an approval and a token each. All channels have
  capacity one instead of 64 and 4: full channels are then the rule. A channel
  of capacity 4 fills only after five answers that nobody waits for.
* `scheduler`: two schedules, two adjacent occurrences, the period two and the
  window three units, six units in all. Occurrences one unit apart make the
  first-run window miss one when a tick is long; the clock stops at its bound
  and the scheduler goes on ticking there, so that liveness is not cut off.

* `access`: two requests, four in all, one tenant, two keys in different
  buckets, one crash or cut connection. Two requests overlap in every order; the
  other two make the key, suspend the tenant or rotate the token. Keys in one
  bucket overwrite each other (a hazard: `Distinct` in section 4).
* `admission`: one address, since nothing is shared between addresses; two
  requests at a time, two failures, a window of three of five ticks and quotas
  of one to three, so that windows fill, slide and empty.
* `channels`: a bot with a text, a medium and a `/new` of a user it allows and a
  text of one it does not, one chat request, one
  message a minute, two starts of the server: a batch is cut off at each of its
  updates and delivered again.
* `voice`: two utterances, a sentence, channels of one place and two outgoing
  messages: an interruption meets the answer at every stage, every queue is full as
  a rule, and the most that may come too late (three pieces) is more than one. The
  theorem has it for the 128 places of the code.
* `team`: the lead, a second agent of its name, a specialist that may appear early
  or late, mailboxes of one, two accepted messages, a text each, a limit of one spawn
  and two overlapping calls.
* `settings`: two requests and a command, two edits or ticks after the first state.
  Two that overlap are enough for one to write back what the other replaced, and a
  swap or a tick may be one of them. The first state is an
  empty directory, what genesis leaves, or a full one.

### Fairness

* `MissionEngine`: weak fairness of each executor (a spawned task is polled, an
  agent turn ends in a response or an error), of the rest of a handler once it
  has begun, and of a restart. None for creating, resuming, cancelling,
  deleting or for faults.
* `Delegation`: weak fairness of each call and of `collect_results`; tokio's
  mutexes are served in order.
* `WsConnection`: weak fairness of handler and writer; strong fairness of a
  turn and of its forwarder, as senders that wait for room in a tokio channel
  are served in order and pings could otherwise starve them. The client reads
  while it is connected; it owes no answer, and the agent owes no reaction to a
  cancel.
* `Scheduler`: weak fairness of the ticks, of a restart and of time. None for
  editors, crashes and failed saves.
* `AgentProtocol`: that of `MissionEngine`, and an event is sent: the channel of
  a stream holds more events than a mission causes.
* `Channels`: weak fairness of a bot's task; its turns and polls end. None for
  the client, restarts or chat requests.
* `Voice`: weak fairness of the reader once the client has gone, of the writer,
  pipelines and speakers, and of an agent's end. None for the client.

## 4. Proofs

Every invariant and every action property that a run checks is also a theorem;
only liveness is left to TLC. All theorems hold for every value of the constants
that satisfies the named assumptions, which TLC evaluates in the runs:

* `PlansAssumption`: plans as `parse_plan_response` builds them.
* `RequestsAssumption`: only delegate_task has retries and a fallback; in
  `Admission`, requests are finitely many.
* `TimeAssumption` of `Scheduler`: occurrences are positive times.
* `TokenAssumption` of `Access`: API keys are strings of their own and no
  bearer tokens, which are numbers there.
* `AgentAssumption` of `AgentProtocol`: the task that tasks/send spawns is one of
  those that execute missions.
* `NoneAssumption` and its like: None is no value of another kind; the others
  give the types of bounds.

Some theorems are about less than every instance, because the code keeps the
property only there; each says so in its ASSUME:

* `StoreIsExclusive`: the lock on the task store (2.1).
* `StreamsOnlySequential`: `execute_mission_stream` is given no DAG. The code
  ignores dependencies there (a finding).
* `Distinct`: the hashes of API keys have distinct prefixes. Of two keys in one
  bucket, one may vanish or be restored by a save of the other (a hazard).
* `Calm`: no fault, cancel or delete. A crash between the two saves of a failed
  DAG ends in Completed (`MissionCrashed`), which the contract forbids.
* `Apart`: one bot, and chat requests whose sessions are no user's. Two bots of a
  platform lose a turn (`ChannelsTwoBots`).

### The task engine

* `MissionProofs!TypeCorrect`. `TypeOK` is not inductive: that `cur` and
  `inflight` name steps the copy has is needed to see that completing or
  failing one yields a mission again. `TypeInv` adds it (`IndicesOK`).
* `MissionProofs!CompletionCorrect` and `OrderCorrect`, for any number of
  executors and with or without the lock. `OrderInv` says of every record that
  can reach the store (`RecordOK`): its steps are in order, a completed
  sequential mission has completed all, and of each executor that the
  prerequisites of the step it is on are complete in its own copy. It works
  without any statement about who else runs, because every save writes a whole
  record that is right by itself. `OrderCorrect` assumes
  `StreamsOnlySequential`, that `execute_mission_stream` is given no DAG; the
  code ignores dependencies there (a finding), so the theorem would be false
  without it. The lemmas before it say what each operator of `Mission`
  (`MarkShape`, `CompleteShape`, `RetryShape`, `FailShape`, `ReviseShape`)
  keeps of a sequence of steps.
* `MissionProofs!RevisionsKept`, without any assumption. `RevisionChain` is
  inductive over records once every copy and the record a cancel is about to
  save are included (`ChainInv`): each operator either keeps kind, target,
  result and depth of every step (`Kept`) or, as `Revise`, appends retry and
  review behind all of them.
* `MissionProofs!FailuresJustified`, given `StreamsOnlySequential`. A step that
  is started again must have attempts left, so `SoundInv` adds that a record
  that has not ended, and the copy of any executor, is a DAG or has no used-up
  step (`AttemptsLeft`): a sequential mission ends with the step that used up
  its attempts, an ended mission is not loaded, and a DAG starts Pending steps
  only.
* `MissionProofs!ExclusionCorrect` and `EndCorrect`, given
  `StoreIsExclusive`: at most one call works on the mission, and then the
  status a mission ended with stays. `LockInv` adds to the exclusion that a
  working copy agrees with the store on whether the mission has ended.
* `MissionProofs!AttemptsCorrect`, given both assumptions. `CountInv`
  says of the record that tells (the copy of the one call at work, the store
  when nobody works, the draft of a cancel) that of the attempts at a step all
  but one for each fault have been counted in it as failed, and but for one
  more where the step is done with or under way (`CountOK`). A fault that loses
  a copy pays for the attempts the store does not know of (`CountFault`).
* `MissionProofs!ValidDagExact`, about operators alone. `ValidDag` is the loop of
  `validate_dag` (Kahn's algorithm); the theorem says that it accepts a plan
  exactly when its dependencies are steps of the plan and no step reaches itself
  along them (`Acyclic`: every set of steps that is not empty has one with no
  dependency in it). One direction needs that each round of the loop takes a
  step while there is one left, and rounds are as many as steps; the other that
  the last member of a circle to be taken would have been taken before its
  dependency. `DownstreamIs` says that what `skip_downstream` skips is the least
  set that is closed under dependence.
* `MissionProofs!DagsProgress` (`NoDagDeadlock`), given `StoreIsExclusive`.
  `DagInv` adds to `LockInv` that, as long as no fault has happened, a DAG under
  way is acyclic, no Pending step of it depends on a failed or skipped one, and
  the steps Running are those in its JoinSet (`DagSteps`); and that a DAG which is
  stored while nobody works is untouched or at an end (`StoredFresh`), so that a
  resume starts from nothing else. In such a DAG with Pending steps left
  and none in flight, a Pending step none of whose dependencies is Pending is
  ready, and acyclicity gives one.
* `MissionProofs!EngineImplementsContract`, given `StoreIsExclusive` and `Calm`:
  `Spec => Promise!Spec`. `ContractInv` joins `DagInv` and `OrderInv` and adds
  that an executor's copy has the status of the store and differs from it only by
  steps of the batch under way that have finished, and that a step is skipped only
  where one has failed (`ContractOK`): so a save never takes back a completed
  step, and a mission that ends Completed has no step left out. Each step of the engine is then a step
  of the contract (`Works`, `Ends`) or none (`Keeps`). The contract's fairness is
  not in this theorem: `undisturbed` checks it with TLC.
* `MissionProofs!ProtocolImplementsEngine` and `EndIsFinalCorrect`. Each step of
  `AgentProtocol` is one of `MissionEngine` or leaves its variables alone, so what is
  proved of the engine holds of missions that come through the protocol.
  `EndInv` adds to `LockInv` that the mission somebody works on or cancels is in
  the store (`Present`): "completed" is sent with the save that ends it, and
  nothing loads a mission that has ended in order to go on with it.

### Teams

* `TeamProofs!TypeCorrect`, `ConversationCorrect`, `CollectCorrect`,
  `WaitCorrect`. `PoolInv` ties each call's specialist to the pool's entry of
  its agent, or to the held lock while it is being created; `ResultInv` ties
  job status, tracker and program counter together, which is what makes it safe
  to read results and running jobs under two locks: a job leaves the running
  ones only after its result is in the tracker.
* `TeamProofs!ContextCorrect` (`ContextGrows`). `ContextInv` bounds each context,
  the contexts a lock holder has still to rewrite and the one a specialist is
  created with by the work that is complete: a context is then only replaced by
  one that shows as much or more.
* `TeamProofs!TalkTypeCorrect`, `SpawnsLimited` and `SpeaksLimited`. `SpawnInv`
  adds the calls between the check of the counter and its increment.
  `SpeakInv` compares the texts accepted with the counter, which never goes down.
* `TeamProofs!MessagesKept` (`LatestKept`), for what was accepted while an agent
  heard; that each accepted message has an agent that hears it is false
  (`TeamTalkSpawned`). `KeptInv` says of each agent that its
  receiver holds the latest of what was accepted, that what it no longer holds,
  unless dropped for age, was read or is buffered (`InboxOK`), and that a message
  is in one place only (`PlacesOK`). The step that matters is the loop
  of read_messages: `PartitionKeeps` says that the two halves have each message
  of the buffer once, in one of them.

### Connections, requests and keys

* `WsConnectionProofs!TypeCorrect`, `OnlyNewestTurn`,
  `AnswersMatchTheirRequests` and `ReportComesLast`. The handler keeps the token
  of its newest turn only, so `TurnsInv` adds to `NewestTurnOnly` that turns start in order. For
  the answers, `AnswersInv` follows a request from the outgoing channel to the
  client, over the wire and into the channel of answers: unless an answer
  strayed (the client sent one nobody had asked for, or a turn was
  cancelled while it waited), at most one request or answer is on that way
  (`OneUnderWay`), and it is the one the waiting turn asked for (`AllOwed`). By
  `OnlyNewestTurn` there is only one such turn, so the first answer in the
  channel is the right one. After the handler has returned without an answer in
  the channel nothing is resolved any more (`Silent`).
* `AdmissionProofs!TypeCorrect`, `GuessesLimited`, `QuotaRespected`. The check of
  the failures and the count are apart, so `GuessInv` adds the requests that
  are between the two to the failures on record. For the tiers,
  `QuotaInv` relates the limiter's one number (the time at which it is full
  again) to the requests let through since any earlier moment: k requests since
  then have moved it k times its step, so more than the quota would
  have had to pass a refusal.
* `AccessProofs!TypeCorrect`. `TypeInv` adds what a request carries at each of its
  steps (`Carries`): a key's record, a draft, a token.
* `AccessProofs!TokensCorrect` (`TokensAgree`). `TokenInv` says that the rotation
  which has the store open has stored the newest token, so what it puts in
  memory is what the store holds.
* `AccessProofs!KeysCorrect` (`KeysOnlyRevoked`), given `Distinct`. `KeyInv` says that
  a bucket has one record at most (`OneRecord`), and of each draft that it is the
  first record of a key nobody else saves, or the revoked form of the record that
  is there (`DraftOK`): two revocations of a key that overlap save the same.
* `AccessProofs!VoidRefused` (`VoidTokensRefused`), given `Distinct`. `DeadInv` says that
  a token void on arrival is void as long as its request is on the way, which
  needs both invariants before: a revoked key stays revoked and the hash in
  memory never goes back.

### Conversations

* `ConversationProofs!TypeCorrect`. `ChannelInv` adds that a task which handles an
  update has taken one, and never more than have arrived.
* `ConversationProofs!NoUpdateLost` (`NothingSkipped`). `HandledInv`: all that a
  channel has taken is handled but for the one it is busy with, and the next
  poll confirms what was taken.
* `ConversationProofs!ConversationsContinue` (`ConversationsKept`), given `Apart`.
  `TalkInv`: the conversation a turn goes on from is the saved one, unless that
  was too old or was deleted meanwhile; and a chat request has no session before
  its turn ends.
* `ConversationProofs!VoiceTypeCorrect` and `CancelCorrect` (`StopsAfterCancel`).
  `PlayInv` says that nothing has begun of an utterance that was not spoken
  (`StagesOK`), and adds up what was sent of a cancelled one, what the queue still
  holds of it (`Pieces`) and the piece its pipeline or speaker will queue before it
  looks at the token again (`Committed`): no step makes the sum more than the queue's
  length and one (`HeardOK`). The bound is no better than the queue is long: up to
  128 messages in the code (a finding).

`Channels` and `Voice` share a proof module and the names of `SessionStore`,
nothing else: no proof about one uses an assumption of the other.

### Scheduler and data directory

* `SchedulerProofs!TypeCorrect`, `RunsAtMostOnce` and `NothingSkipped`. Neither
  property is inductive, because what the file says of the last run is older
  than the runs while a tick lasts. `RunInv` says where the truth is
  (`HistoryOK`): between ticks in the file, during a tick in the scheduler's
  copy, unless that is stale; and that even a stale copy leads to no second run
  of what its tick has still to run. `FreshOK` is what an editor needs: a
  copy that is not stale is the file with the editor's change.
* `SettingsProofs!TypeCorrect` and `ReloadsWhatWasWritten`. `ReloadInv` follows a
  configuration from the save to the swap: what is on disk of an initialized
  directory was written, and so was the copy of whoever is about to swap. No
  edit needs the proviso about overlapping edits here.
* `SettingsProofs!EditsAreKept` (`KeptWhenAlone`). `KeepInv` says of each entry that
  the disk has what its last edit meant, or its file was disturbed; and of a
  configuration that was not, that whoever is about to save it has the only
  copy, which is the file but for the entry being edited, and that what the server
  lists plugins from agrees with it unless a swap is due (`ConfigAlone`).
  `TaskOK` ties each kind of step to the entries it can be about.

### What is not proved

Checked by TLC only: liveness (`EveryCallReturns`, `CallsEnd`, `CollectEnds`,
`TurnsEndUnlessAwaiting`, `ReleasedUnlessAwaited`, `RunsEventually`,
`UpdatesHandled`, `ConnectionEnds`) and the fairness of the contract in
`ImplementsContract`, which are beyond the prover, as ENABLED is; and the reference
statements about `TeamPolicy` and `Reports`, which are folds and recursive
functions over data.

The library's induction theorems cannot be used here, because they take an
operator as a parameter. Where an induction is needed (the rounds of
`ValidDag`, the values of `Partition`), the proofs take the least member of the set of
counterexamples instead (`LeastMember`). That works for a recursive
function whose equation follows from its definition once its range is known; it
was not tried on the folds of `TeamPolicy` and `Reports`. `skip_downstream`
is stated as the closure that its loop computes, and not as the loop.

## 5. What is left out

* Text: prompts, plans as JSON, verdicts, progress events, the audit log, the
  layout of reports. They are written behind the state they describe.
* The agent loop and the stores of the git dependencies, except for the outcome
  of a turn, a single transaction and the lock on a file.
* The content of an entry of the data directory: an edit is a number, and two
  edits of one entry differ whatever they change. Names are checked by
  each handler and then play no further part.
* Expiry of API keys and quotas of tenants: no route sets the one, and nothing
  reads the other.
* The session a WebSocket turn saves: as in `Sessions`, before it is answered.

Not modelled, because nothing in the repository calls or keeps it:
`task_recovery.rs`, the server's `backup.rs`, the cache of SSO sessions, budgets
at the time of a request. Not modelled, because it keeps no state of its own:
read-only routes, the HTTP shell, argument parsing and terminal output.
External: the agent, memory, crypto, config and audit crates, Telegram, the
providers of speech. `PROJECT.json` has the reason for each.

## 6. State of the plan

Done: the inventory; the task engine with its contract and protocol; delegation,
team messages, WebSocket, channels, voice, scheduler, admission, access and the data
directory, each with its runs, and with its invariants and action properties proved;
the pure decisions against reference statements.

Worth doing next, in this order:

1. Theorems about the pure decisions: that the parallel groups of `TeamPolicy`
   respect dependencies for every decomposition, that attenuation never adds a
   scope, that the totals of `Reports` agree with their reference for any ledger.
   The method of `Partition` applies to those that are recursive functions.
2. `ConversationsKept` for several bots of different platforms, whose users are
   apart: `Apart` allows one.
3. What `DagInv` says without a fault extended to resumes after one, to see
   which crashes leave a DAG that deadlocks.
4. Properties for the hazards that have none (`PROJECT.json` says why each has none).
