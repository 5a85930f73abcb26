# Verification of hagent

TLA+ models of the program that decides which agent works on what, with which model, and what becomes of the result:
the life of a run, the dispatcher, the stage barriers and the queue of remote model calls; and of the services around
it: verifier, failover, router, delegation, chat, shared memory, accounts, scheduled work, the command line, OAuth
connections, the issue board with its comments and annotations, and the migration of the database at every start.
TLC checks all of them on small instances; every safety property that a passing run checks is also proved, by TLAPS,
for every value of the constants, and the liveness properties are checked by TLC.

hagent is a Python program around one SQLite database. A server process (`hagent serve`) runs a web application, an
APScheduler with interval jobs, a dispatcher loop and a thread pool; a daemon (`hagent daemon start`) and every CLI
call are further processes on the same database. Nothing but rows of the database and three in-process locks
coordinates them, so the questions worth asking are about transactions that interleave, processes that die between two
of them, and decisions taken on rows that have changed since they were read.

## 1. Inventory

| Component | State | Operations | Modelled in |
|---|---|---|---|
| Run engine (`engine.py`) | `runs`, `issues.status`, timeline; `_queue_lock` (one per process) | `queue_issue_run`, the claim in `run_issue`, `process_queued_run_by_id`, `_finish`, `cancel_issue` | RunLifecycle |
| Requests (`web.py`, `cli.py`) | none of their own | assign, status, review, run, retry, rerun, continue, approve, reject, cancel | RunLifecycle; for sub-issues and parents StageBarrier |
| Recovery (`recovery.py`) | `runs.owner_pid`, `owner_started`, `resumed_from` | `recover_interrupted_runs` at start-up and every minute, in every process that runs the scheduler | RunLifecycle |
| Idle sweeps (`orchestration.py`, `scheduler.py`) | none of their own | `reconcile_orphaned_issues`, `requeue_idle_issues` | RunLifecycle; the parent's sweep also in StageBarrier |
| Dispatcher (`dispatcher.py`) | `_inflight`, `_executor`, `_lock` | `dispatch_pending` from the loop thread and from the scheduler, `_execute` in the pool | Dispatcher |
| Stage barriers (`orchestration.py`, end of `_finish`) | sub-issues, `stage_completed` and `verification_deferred` events | `after_issue_finished`, `fire_ready_stages`, deferral of a coordinator | StageBarrier |
| Remote workers (`worker_api.py`, `worker.py`, `adapters/remote_worker.py`) | `worker_jobs`, `workers` | enqueue and wait, claim, complete, time out | WorkerQueue |
| Verifier (`engine.py:302-442`) | review issues, `verification_*` events | independent check of a finished run, rework, giving up | Verifier |
| Provider health and failover (`provider_health.py`, `engine.py:706-853`) | cooldowns and the runtimes of agents | switch to a backup, fail back, periodic probes | Providers |
| Router (`router.py`) | policies of the workspace and of projects | route, fall back, settle the backup | Routing |
| Delegation (`engine.py:961-1008`, `mcp_bridge.py`) | one budget per run | calls of teammates, below API and CLI runtimes | Delegation |
| Chat (`web.py`) | threads, messages, `pending` | send, turn, backlog, `message_user` | Chat |
| Shared memory (`memory.py`) | memories, revisions, settings | remember, update, supersede, forget, import | SharedMemory |
| Accounts (`auth.py`) | users, tokens; `_token_cache`, `_failures` in the server | gate, login, logout, revocation, throttle | Accounts, Logins |
| Autopilots (`scheduler.py`, `triggers.py`) | triggers, scheduler jobs | sync, fire, work through issues | Autopilots |
| Command line (`warm.py`, `remote.py`, `remote_api.py`) | `warm.json`, a warm process, `_run_lock` | where a command runs, and when it falls back | Commands |
| Connections (`connections_web.py`, `connections.py`) | one JSON cell per connection | OAuth sign-in, test, use, disconnect | Connections |
| Issues and comments (`models.py`, `keys.py`, `tenancy.py`) | issues with numbers and parents, comments | create, move, answer, upload, delete | Board |
| Annotations (`cli.py`, `engine.py`) | labels, values, subscribers, lessons and their mirror on disk | set, unset, learn, delete a skill | Annotations |
| Database start-up (`db.py`) | the schema | `init_db` in every process, at every start | Migration |
| Adapters, worktrees, terminal, icons, catalogues | files, processes, HTTP | pure I/O, static data | not modelled |

How they interact. A request or a sweep inserts a `PENDING` run (`queue_issue_run`). A dispatch pass selects it, and a
pool thread claims it with one conditional `UPDATE`. The adapter runs for minutes; `_finish` writes the result with
another conditional `UPDATE`, moves the issue to review, and looks at follow-up runs, at sub-issues and at the parent
(`after_issue_finished`), which may insert a run of the parent. `cancel_issue` may strike at any time and does not
stop the thread. If the process dies, another one finds the row with a dead owner, marks it failed and inserts a
continuation. A runtime that is bound to a worker device inserts a job instead of starting a program and polls its
row, while a process on the device polls the server over HTTP, performs the job and reports.

What is hard. (a) All of these are several transactions long, and the ORM session keeps its copy of an issue between
them: an assignment to an attribute that equals the copy writes nothing, any other writes by primary key without
looking at the row. (b) A process can be killed between any two commits. (c) The same jobs run in several processes.
(d) The dispatcher takes its decision on three earlier queries. (e) A stage is announced by whoever happens to finish
last. (f) Between the server and a worker device requests and replies get lost, and either side may die. (g) Runs, chat
turns, memory sessions and health checks hold rows for minutes and write what they decided on long ago. (h) A whole
JSON cell, or the schema itself, is written back from a copy. (i) What a server keeps in memory (tokens, failures, jobs)
trails the rows that commands change.
`PROJECT.json` lists each hazard with its line and with the property that covers it, or the reason why none does.

What makes the components correct:

* engine: one RUNNING run per issue; outcomes are final; a running coordinator is not killed by a reassignment; no run
  of a gated agent without an approval; an executing thread and its row agree; what was queued starts;
* recovery: no run taken from a live process, an interrupted run continued once and only a bounded number of times,
  and no interrupted work forgotten;
* dispatcher: limits of each agent and of the pool respected, no starvation, no slot lost;
* stages: every stage announced to its coordinator, in the end, whatever the interleaving;
* remote workers: a call performed at most once, answered only with its own good result, and never left waiting;
* verifier: work is not sent back for ever; failover: the owner's choice of a runtime is not lost, and an agent comes
  home; router and delegation: spend cap and delegation limit kept; chat: one turn per thread, every message answered;
* memory: the audit trail is complete; accounts: a revocation is noticed in time, guesses are limited; autopilots: each
  live trigger has its job; commands: executed once; connections: a sign-in state is used once;
* board and annotations: keys name one issue, parents form trees, counts and notes agree with the rows; migration: no
  row is lost, and who is up finds the schema it needs.

## 2. The modules

| Module | Models | Instance | Proofs |
|---|---|---|---|
| `RunLifecycle` | engine, requests, recovery, sweeps | `MCRunLifecycle` | `RunLifecycle_proofs` |
| `Dispatcher` | dispatch passes, slots, pool | `MCDispatcher` | `Dispatcher_proofs` |
| `StageBarrier` | sub-issues, stages and their coordinator | `MCStageBarrier` | `StageBarrier_proofs` |
| `RemoteCalls` | what a remote call promises its caller (abstract) | through `WorkerQueue` | `WorkerQueue_proofs` |
| `WorkerQueue` | the job queue of worker devices; implements `RemoteCalls` | `MCWorkerQueue` | `WorkerQueue_proofs` |
| `Verifier` | the check of a finished run, its review issue and the rework | `MCServices`, `MCServiceLiveness` | `Agents_proofs` |
| `Providers` | runtimes of agents, failover of a run, health check | `MCServices`, `MCServiceLiveness` | `Agents_proofs` |
| `Routing` | policies and the choice of a runtime | `MCServices` | `Agents_proofs` |
| `Delegation` | the tree of calls below a run | `MCServices` | `Agents_proofs` |
| `Chat` | threads, senders and turns | `MCServices`, `MCServiceLiveness` | `Server_proofs` |
| `SharedMemory` | memories under sessions with stale rows | `MCServices` | `Agents_proofs` |
| `Accounts` | users, tokens, the cache and the gate | `MCServices` | `Server_proofs` |
| `Logins` | the throttle of logins | `MCServices` | `Server_proofs` |
| `Autopilots` | triggers, jobs and firings | `MCServices` | `Agents_proofs` |
| `Commands` | warm process, remote server, fallback | `MCServices` | `Server_proofs` |
| `Connections` | the OAuth sign-in and its JSON cell | `MCServices` | `Server_proofs` |
| `Board` | issues, numbers, parents, comments | `MCServices` | `Issues_proofs` |
| `Annotations` | labels, values, subscribers, lessons | `MCServices` | `Issues_proofs` |
| `Migration` | `init_db` by several processes | `MCServices` | `Server_proofs` |

### RunLifecycle

One action is one database transaction, or one read whose result a later transaction of the same thread uses. A thread
between the two carries what it read in `op[t]`: the issue, the agent, the run, and `skip`, which is TRUE if the
session's copy of the issue already has the status the later write assigns (`OrmWrite` then leaves the column alone).

| Code | Model |
|---|---|
| `issues.status`, `assignee_agent_id` | `issueStatus`, `assignee` |
| rows of `runs`, in the order of `created_at` | `nRuns`, `run` (issue, agent, `resumed_from`), `runStatus`, `owner` |
| a thread inside `run_issue` or `_finish` | `exec[r]`: "run" (adapter at work), "post" (first commit of `_finish` done), "reopen" (about to write IN_PROGRESS) |
| `_queue_lock` | `queueLock`, one per process |
| `owner_is_alive` | `owner[r] \in Procs`; a crash turns the owner into `Gone` |
| assign, status, review, run, retry, continue, approve, reject, cancel | the actions of `OwnerStep` |
| `queue_issue_run` | `QueueRead`, `QueueInsert` |
| `process_queued_run_by_id`, claim of `run_issue` | `PickRun`, `ClaimRun`, `ClaimLost` |
| `_finish` | `FinishRun` or `FinishLate`, `AfterFinish`, `ReopenForFollowup` |
| `recover_interrupted_runs` | `RecoverRun`, `RecoverDecide`, then `ResumeRun` or `AbandonIssue` |
| `reconcile_orphaned_issues` | `ReconcileRead`, `RetireIssue` |
| `requeue_idle_issues` | `RequeueIdle`, then the queue or `BlockIdle` |
| an exception, e.g. "database is locked" | `SessionFails` |
| a killed process | `Crash` |

`approved` is a history variable: the runs somebody approved. `SendBack` is one step although the code goes through
`queue_issue_run`: the autoflush of its own status change opens the write transaction before the queue is read. A
request that loads an issue or a run and updates it at once (a status change, an approval, a rejection) is one step
too: the few statements in between are not taken apart. Outside this module: issues with sub-issues (StageBarrier) and
agents with a verifier (Verifier).

### Dispatcher

A pass reads the pending rows in order (`ReadPending`), the running counts (`ReadRunning`) and the busy issues with
the held agents (`ReadBusy`), takes `_lock` (`StartPlacing`), decides row by row (`PlaceRow`) and releases the lock
(`EndPass`). `work[r]` is the run's place in `_inflight` and in the pool: submitted, running, done but not popped yet,
none. The rest of the program queues, withdraws and directly executes runs (`Queue`, `Withdraw`, `DirectStart`). A
member of `Runs` stands for a stream of runs with the same issue, agent and priority of which one is alive at a time,
so new urgent work can keep coming; the order of `created_at` among pending runs is the relation `older`, and the sort of
the pass is `InOrder`. Waiting is counted in levels of `AGING_SECONDS`. The heartbeat, the `data_version`
watcher (here a pass may start at any moment), `shutdown_dispatcher` and `explain_queue` are left out.

### StageBarrier

One parent, its coordinator and its sub-issues. `Group(s)` at the time of an announcement is the signature of the
`stage_completed` event, `fired` the set of the events, `lastDeferred` says that the latest event of the parent's
timeline is `verification_deferred`. The steps of a handler are in `op[t].at`: "fire" (about to read in
`fire_ready_stages`), "insert", "note" (record the event), "resume" and "wake" (the blocked coordinator),
"post"/"failed", "reopen" and "defer" (the end of `_finish`). Done and cancelled are one status, "closed", since
nothing here distinguishes them. `excused` is a history variable, explained with the property below.

### WorkerQueue and RemoteCalls

| Code | Model |
|---|---|
| rows of `worker_jobs` | `nJobs`, `status` ("deleted" once the weekly clean-up took the row) |
| `RemoteWorkerRuntime.run` | `Enqueue`, `ReadAnswer` (the polling loop), `Expire` (the deadline), `Close` (the last look), `Abandon` (its commit); `caller` |
| `run_worker` on the device | `StartPoll`, `Reply`, `Report`; `client` |
| `claim` with `_claim_one` | `ReadCandidates`, then `TryClaim` for each candidate in turn |
| `complete` | `ReadJob`, `Store`: the check and the write are apart, and the write has no condition |
| a broken connection, a killed process | `Disconnect` (the server goes on, nobody gets its reply), `HandlerFails`, `CallerDies` |

All jobs and worker processes of the module belong to one device name; the queues of different names share nothing. A
request is a record in `handler[h]` from its arrival to its reply, so several may be in progress, the abandoned ones
included. `starts` and `result` are history variables: how often a worker began a job and how that ended. They are the
variables of `RemoteCalls`, together with the call as its caller sees it (`CallSeen`): there a call is begun at most
once, has one result, is answered only with a good one, and may fail at any time, also while the worker is at it. Left
out: the heartbeat (`is_online` refuses a call before anything is written), the types a worker offers, tokens and the
limit of five candidates.

### The services

Each of the following modules stands by itself: they share no variable, and what one needs of another (a run that
finishes, a runtime that fails, a command that commits) is an action of its own environment. In all of them a handler
is cut where its session reads and where it commits, a session keeps what it has loaded, and history variables (named
as such at their declaration) remember what the rows do not show.

| Module | Code | Model |
|---|---|---|
| Verifier | the passes `_run_verifier_pass` of all runs of one issue | `work[r]` with its review `review[r]`: `CreateReview`, `LaunchReview`, `FinishReview`, `Judge`, `Accept`, `Reject`, `SendWorkBack`, `CloseReview` |
| | owner, dispatcher, a dying process | assignment, status, approval and cancellation of the review, a run that the dispatcher claims |
| Providers | `_run_with_failover` | `StartRun`, then `CallSucceeds`, `CallLimited`, `CallBroken`, `CallFails`, `RunStops` on the rows it loaded |
| | `check_provider_health`, `restore_recovered_runtime`, `ensure_provider_monitor_agents` | `CheckStep`, with `ProbeSucceeds` for the probe that answers |
| | the pages and commands for agents and runtimes | `CreateAgent`, `UpdateAgent`, `CliUpdateAgent`, `ArchiveAgent`, `RestoreAgent`, `CreateRuntime`, `ArchiveRuntime`, `DeleteRuntime` |
| Routing | `set_policy`; `route`; `_resolve_backup_and_failback`; the calls | `SetPolicyRead`, `SetPolicyCommit`; `RouteCall`, `RouteFails`; `ResolveBackup`; `CallSucceedsOn`, `CallFailsOn`, `RouteAgain` |
| Delegation | `execute_agent`, one row of `call` for each | `BeginCall`, `OfferTools`, `CallReturns`, `RuntimeFails`, `AfterPrimary`, `AfterBackup` |
| | `_tool_delegate`, the bridge, its stub | `AskDelegate` (the look at the budget), `CountDelegate`, `AnswerDelegate`, `StubTimesOut` |
| Chat | `chat_send_message`, `_complete_chat_turn`, `_tool_message_user`, restart | `SendRead`, `SendCommit`; `TurnStep`, `TurnFails`; `MessageUser`; `Restart` |
| SharedMemory | `MemoryService.remember`, `update`, `supersede`, `forget`, `import_data`, `finish_session` | `Ask...` and `FinishMemorySession` begin, `LookUp`, `Merge`, `StoreNew`, `MarkSuperseded`, `CommitUpdate`, `CommitForget` do the work |
| Accounts | the gate: `authenticate_secret` with `_token_cache` | `CheckToken`, `LookUpToken`, `CacheToken`, `Serve` |
| | login, logout, the auth commands | `LoginRight`, `LoginIssue`, `Logout`, `ClearCaches`; `CreateUser`, `RemoveUserRead`, `RemoveUserCommit`, `SetPassword`, `CreateToken`, `RevokeToken` |
| Logins | `login_blocked`, the check of the password, `record_failure` | `AskLogin`, `LoginFails`, `LoginSucceeds` |
| Autopilots | `sync_scheduler_jobs` of several requests | `ListJobs`, `RemoveJobs` or `RemoveFails`, `ReadTriggers`, `AddJobs` |
| | `run_autopilot_once` | `Fire`, `Skip`, `ListTargets`, `CreateTarget`, `StartCreated`, `RunTarget`, `EndTarget`, `EndFiring` |
| Commands | `warm.try_forward`, `serve_forever`, `warm start`, `warm stop`, `remote_api` | `ReadState`, `ConnectWarm`, `TakeCommand`, `RunWarm`, `ReplyWarm`, `RunDirectly`; `StartWarm` to `KillWarm`; `StopWarm`, `RemoveState`; `TakeRemoteLock`, `RemoteBusy`, `RemoteTimesOut` |
| Connections | the pages, Google's callback, a tool call | `ConnectGoogle`, `GoogleStart`; `GoogleCallback`, `ClaimState`, `ExchangeCode`, `SaveTokens`; `CallTool`, `EndCall`; `TestConnection`, `TestWrites`; `Revoke`, `Disconnect` |
| Board | the flush hooks of `models.py`, `resolve_issue_ref`, the issue and comment commands | `CreateIssue`, `MoveIssue`, `AddComment`, `Answer`, `DeleteComment`, each with its `...Commit`; `LockedOut`, `WriterEnds` |
| Annotations | label, property, metadata, subscriber commands; `_learn_from_mistake` | one pair of a look and a `...Commit` each; the mirror on disk is `LookForNotes`, `WriteHeading`, `AppendNote` |
| Migration | `init_db`, `_migrate_schema`, the rebuild of a table, the default workspace | `BeginInit`, `Look`, `Add`, `SkillRows`, `CreateCopy`, `CopyRows`, `DropOld`, `RenameCopy`, `NumberIssues`, `CommitSchema`, `LookForDefault`, `InsertDefault`; `Again` after an error, `NoSuchColumn`, `Killed` |

In Migration `draft` is the database as the open write transaction of `holder` has left it, and `db` what is committed.
The driver of Python opens a transaction at the first INSERT or UPDATE, so a CREATE or ALTER before it is committed by
itself: that is why a rebuild can be interrupted after its CREATE and why the order of the statements matters.

`MCServices` composes them for TLC. Since they share no state, an interleaving of two of them shows nothing that each
does not show alone: a behaviour picks a `focus` and only that service moves. The others stay in one fixed initial
state, so `VIEW LookedAt` (the variables of the focus) tells apart exactly the states that differ. That nothing is
lost by this is a theorem: `ServicesRefine` says that every behaviour of the composition is one of each service.

## 3. What TLC checks

| Run | Instance | Checks |
|---|---|---|
| RunSafety | a server and a daemon, 1 issue, a free and a gated agent, 2 runs; requests in the server, claims, executions and recovery in both | `TypeOK`, `OneRunningPerIssue`, `ExecutionMatchesRow`, `ApprovalNotBypassed`, `EndedRunsStay`, `RunningCancelledOnlyWithIssue` |
| RunResume | server (request thread, background thread) and a second recovering process, 3 runs, a Job Portal issue | `ResumesBounded`, `ResumedAtMostOnce`, `QueuedOncePerPair` |
| RunLiveness | one server with a request and a background thread, 2 runs | `OrphanIsRecovered`, `PendingStarts`, `IdleIssueIsPickedUp` |
| RunLateResult | as RunSafety | finds a violation of `LateResultsPreserveClosed` |
| DispatchTimer | 2 streams of runs of one agent with limit 1, pool of 2, one thread making passes | `TypeOK`, `AgentWithinLimit`, `NoStarvation`, `SlotsComeBack` |
| DispatchLoop | the same with two threads making passes | finds a violation of `AgentWithinLimit` |
| StageLiveness | two stages of one sub-issue, two threads | `TypeOK`, `AnnouncedWhenAllClosed` |
| StageForgotten | a stage of two sub-issues and a second stage, two threads | finds a violation of `NoStageForgotten` |
| WorkerCalls | 2 jobs, 2 worker processes with one token, 2 requests at a time | `TypeOK`, `RaisedIsSettled`, `Implements` |
| WorkerLiveness | 2 jobs, 1 worker process, 2 requests at a time | `CallsEnd` |
| Services | each of the fourteen services by itself, bounds below | `ServicesTypeOK` and a property per service (two for SharedMemory), see below |
| ServiceLiveness | chat, failover and verifier, with fairness | `MessagesAnswered`, `ComesHome`, `ReworkBounded` |

Deadlock is not checked: a project in which everything is done and nobody asks for anything is at rest, and a full
table of runs (the bound) stops the rest of the model.

**Bounds.** `MaxRuns` is the size of the runs table; when it is full an insert fails (`TableFull`). Two runs are what a
conflict between two claims, a reassignment, a late result next to a follow-up, or a run and its retry needs; three let a
continuation be interrupted in its turn, which is what a bound on the chain is about (`MAX_RESUMES` is 1 instead of 3, so
that giving up is reached). Every property of RunLifecycle speaks of one issue, and no transaction touches two, so
the runs have one. A server and a daemon are enough for every pair of claim, finish, recovery and request to interleave;
requests that queue in two processes at once are left to the proofs, which hold for any number of them. In the
dispatcher two streams on two issues of one agent are the smallest case in which limits and aging matter. Two
stages let one finish while the other is being announced; three sub-issues with two threads are too many for a
liveness check. Two jobs, two workers and two requests let claims race, a report meet the poll of a client that was
restarted, and one job be passed over for the next; with one worker process two requests still overlap, since a
disconnected one stays at the server. WorkerCalls uses the symmetry of workers and requests; it checks no
liveness.

*Services* has about 760,000 distinct states. Two requests, sessions, commands or starting processes at a time are
what every race of a look with a commit needs; they, the two facts, lessons and runtimes are the model values of
`Pair`, and no definition names or orders them, so `SYMMETRY Exchange` may exchange them (all places at once, for each
behaviour has one focus). The bounds on operations (`MaxMemoryOps`, `MaxBoardEdits`, `MaxAnnotations`, `MaxSettings`,
`MaxPilotEdits`, ...) leave room for a command that decides, one that overtakes it and one that trips over the result,
with one fault. Three constants of the code are smaller than in the code so that they are reached: `InitAttempts` is 2
(5), `MaxFailures` 2 (5), `MAX_VERIFIER_RETRIES` 2 (3); `CacheTTL` and `FailureWindow` are 1 and 2 ticks, and the
clock goes on until entries have expired. A team of four with one CLI, a gated agent and backups, and three calls,
lets a delegated call be tried again and outlive its stub. Single services were also run once with larger bounds,
without an error: two sign-ins (`MaxFlows` 2), three memories, two owners of policies, three attempts of `init_db`,
two issues of an autopilot, five edits of the board. *ServiceLiveness* (395,000 states) needs no symmetry; three
messages and one fault are enough for a message to arrive before, during and after the last look of a turn.


**Fairness.** In RunLifecycle the background jobs are interval jobs and the dispatcher loop, so every job is tried
again and again; a thread serves several jobs in turn and each is only enabled between the others, hence strong
fairness of `QueueStep`, `DispatchStep`, `RecoveryStep` and `SweepStep` for each thread. Adapters return or time out:
weak fairness of `ExecuteStep`. `<>[][HealthyStep \/ ...]_vars` says that killing processes and failing transactions
end at some point (no system recovers under an endless series of kills); the owner's requests never have to end. In
the Dispatcher passes are repeated by the timer, the pool has a worker for each slot, time goes by and quotas reset.
`<>[][~DirectStart /\ ~HoldAgent]` excludes only that somebody starts runs by hand, or that a provider runs out, for
ever. In StageBarrier, strong fairness of `FinishParentRun(t, TRUE)` says that a coordinator that is run again and
again succeeds at some time. In WorkerQueue the server works on its requests (weak fairness of `HandlerStep`), callers
poll their row (weak fairness), and a worker process polls and its assistant returns (strong fairness of `WorkerStep`,
as all requests the server can take may be in progress for a while); deadlines are not assumed to save a call, so
`Expire` has no fairness and `CallsEnd` speaks of behaviours in which from some time on nothing breaks and no deadline
passes. In ServiceLiveness each step of a chat turn is weakly fair (the background task of the server goes on and its
runtime answers or fails; whether it fails is left open), the health check is weakly fair (an interval job), and a
probe of a runtime succeeds if it is made again and again (strong fairness of `ProbeSucceeds`: no provider is out of
order for ever). Nothing is assumed about what users do.

**Properties, and why they are stated as they are.**

* `ExecutionMatchesRow` is the meeting point of claim, finish, cancel and recovery: a RUNNING row has a thread behind it
  or a dead owner, so recovery never takes a run that is being executed by a live process.
* `ApprovalNotBypassed` looks along the chain of continuations: `ResumeRun` inserts PENDING even for a gated agent, which
  is right only because some run of the chain was approved.
* `QueuedOncePerPair` excludes continuations, which recovery inserts without the lock, and is checked where one
  process queues: `_queue_lock` promises no more.
* `IdleIssueIsPickedUp` is what saves work whose process died between the two commits of recovery.
* `AnnouncedWhenAllClosed` has the form "if in the end the issues are left alone, then ...". `excused` marks what no
  handler follows: a sub-issue closed through `cancel_issue`, a coordinator whose run failed, a parent that was closed or
  that the sweep gave up on; the next handler that moves a sub-issue of an open parent clears it.

* `Implements` needs the condition in the UPDATE of the claim, and that a reply nobody waits for starts nothing. It holds
  although `Store` and `Abandon` overwrite each other's status.
* `RaisedIsSettled` is about the window between the last look and the commit of `Abandon`: whatever happens in it, no job
  stays pending or running for a caller that has raised.
* `CallsEnd` names the one way a call can hang without its deadline, `Lost`: the server claimed the job and the reply or
  the report went astray. A lost poll, a failed request or a crash of another worker never delays a call for ever.

The properties of the services (run Services; a `~` marks what a race the code does not exclude would break: each such
case is excluded by a history variable that records precisely this race, and is listed below under "Found, not run"):

* `OneTurnPerThread` (Chat): a thread's provider session is used by one turn at a time (~ two first sends that overlap).
  `MessagesAnswered`: every message is covered by a reply once the owner stops, if no turn died.
* `AuditKeepsContents`, `SupersededIsReplaced` (SharedMemory): no content a memory ever had is lost to its revisions, and
  a superseded memory leads to a current one (~ two operations on one row).
* `RevokedIsNoticed` (Accounts): from the end of a token to the last request it opens passes less than `_CACHE_TTL`,
  although a lookup may take arbitrarily long: the entry counts from the time before the lookup.
* `FailuresBounded` (Logins): passwords tried within the window exceed the limit only by those checked at the same time.
* `HomeKept`, `ComesHome` (Providers): through switches, double failovers, probes and stale sessions an agent either
  is on the runtime its owner chose or remembers it, and in the end it returns (~ an edit, or a home that is cleared
  under a run).
* `ReworkBounded` (Verifier), `BudgetKept` (Delegation, ~ two threads between look and count), `SpendCapKept`
  (Routing; the failback runtime is deliberately outside): limits that hold across interleaved passes, nested calls
  and policy changes.
* `TriggersHaveJobs` (Autopilots): after any overlap of synchronizations each live cron trigger and each system task
  has its job (~ a failed synchronization, or a command, which does not reach the scheduler; the tasks of the server
  can be missing only while this excludes every trigger).
* `CommandsRunOnce` (Commands): falling back never repeats a command, and a command is never dropped silently
  (~ the process that had begun it ended, or its reply was too large).
* `StateUsedOnce` (Connections): a state of a sign-in is traded for a code at most once (~ a stale write put it back).
* `BoardConsistent` (Board), `LessonsOnRecord` (Annotations): relations between rows that no constraint of the database
  keeps (~ overlapping commands; the count of lessons and the absence of phantom notes hold even then).
* `UpgradeIsSafe` (Migration): through any overlap of starts, retries and kills no row of a rebuilt table is lost, and a
  process that is up finds the complete schema.

Every property of a passing run has a mutant in the modules, a copy of a definition with a plausible bug in it, marked
`Fault:`, which no specification uses. TLC refutes the property when the mutant takes the definition's place.

### Findings

* **A late result can reopen an issue its owner closed** (`engine.py:252-254`, run RunLateResult). `_finish` checks the
  status of the issue, looks for a follow-up run and then writes IN_PROGRESS unconditionally. The changelog
  (CHANGELOG.md:29) says that late results preserve owner-closed issues.
* **The limit of an agent can be exceeded** (`dispatcher.py:111-149`, run DispatchLoop). In a server both the dispatch
  loop and the scheduler job make passes, and a pass decides under `_lock` on what it read before. README.md:93
  promises that `max_concurrent_tasks` is respected.
* **A stage completed by cancelling its last task wakes nobody** (`engine.py:445`, run StageForgotten). README.md:106
  counts cancelled among the finished states.
* Without a run, since it is a matter of wording: README.md:197 says that an issue interrupted three times in a row is
  blocked; with `MAX_RESUMES = 3` the code blocks it at the fourth interruption (`recovery.py:94`).

### Found, not run

Behaviours met while modelling; the models contain them (as a guard of a property, or as an action), but no run is
dedicated to them.

* *Migration.* A process that is killed, or locked out, right after the CREATE of a rebuild leaves
  `autopilot_triggers_new` behind, and later starts fail with "already exists" (db.py:179). A stale inspector leads to
  "no such column: author" (db.py:232), which is not among the errors that are retried, contrary to the comment at
  db.py:61-62. Two processes may each insert a workspace named "default" (db.py:243-246).
* *Engine.* A list the runner has read reopens work delivered meanwhile (scheduler.py:70). A coordinator blocked for its
  unstaged sub-issues is not woken when the last one closes between the check and the write (engine.py:257). A failed
  `git worktree add` falls back to the shared directory without a word (worktrees.py:81-83).
* *Verifier.* A review that never ran, waited for an approval or was claimed by the dispatcher counts as a rejection
  (engine.py:340-354); a pass writes DONE over whatever the owner set (369); rework is queued on an issue closed
  meanwhile (412).
* *Providers.* A home is forgotten when a recovery clears it under a run that holds the row; a runtime may be deleted
  while a run holds it.
* *Delegation and routing.* The failback runtime is called although the delegation limit ended the backup
  (engine.py:808-822, against the comment at 761-763) and is not priced against a cap (712-723); a call that ends at an
  archived backup leaves its memory session open (771-774); delegated calls pass no project, so its policy does not apply
  (986-997); `route config` without `--max-cost-usd` clears the cap; two threads may pass the budget together.
* *Connections.* A test or tool call that read the cell earlier puts a claimed state back (connections_web.py:188-200,
  263); a grant survives when a disconnection races a callback.
* *SharedMemory.* A stale holder rewrites a forgotten row; superseding with unchanged content merges a memory into itself
  (memory.py:253); the duplicate test takes expired rows for duplicates (203-219).
* *Accounts.* Two commands together remove the last owner (auth.py:170); a login that checked the old password gets its
  session after `set_password` (423-429).
* *Chat.* A message stored after the last look is not answered until the next one (web.py:1403); after a restart a
  thread may stay pending without a turn (1351); two overlapping first sends start two turns (1399).
* *Commands.* A command is executed twice when its warm process ends after it began, or its reply exceeds 4 MiB
  (warm.py:95-99); two `warm start` leave an orphan (242); `warm stop` removes the file of a newer process (266); a
  command timed out at the server goes on in the warm process (remote_api.py:62).
* *Autopilots.* Concurrent synchronizations can drop the system jobs (scheduler.py:140); triggers edited by a command
  never reach the scheduler; a crash leaves a firing "running", or an issue created and not queued (119-120).
* *Board and annotations.* Overlapping commands make duplicate numbers, cycles of parents and orphaned replies
  (models.py:379, tenancy.py:94-105, cli.py:581-594), double values and subscribers, a lesson learnt twice
  (engine.py:541-545) or orphaned by the deletion of its skill, and a heading that truncates another's note (494-503).
* *Hazards without a property*: requests that queue one pair in two processes (engine.py:64), the shutdown of the pool
  (dispatcher.py:203), a deferral that overwrites a status (engine.py:258), a stage event for a run of another thread
  or lost between two commits (orchestration.py:90-94), a sweep over stale candidates (orchestration.py:187), giving
  up on an issue closed meanwhile (recovery.py:95), the thread of a cancelled run that goes on (engine.py:447), a lock
  order in the server (web.py:1057), the unconditional write of a late report (worker_api.py:122), the poll of a
  deleted job (remote_worker.py:46).

## 4. What is proved

All proofs hold for every number of processes, threads, issues, agents and rows, from the assumptions stated in the
modules (`IdsAssumption`, `ThreadAssumption`, `BoundAssumption`; `RunsAssumption`, `LimitsAssumption`,
`PassersAssumption`; `WorkerAssumption`; one `...Assumption` in each of the services; `FocusAssumption`), and likewise
for every number of commands, tokens, calls, runtimes, sign-ins, writers, sessions and starting processes. The
assumptions give the bounds a type, say that the sets that are counted are finite (login requests, annotators,
lessons, starting processes), and keep the values that stand for "nobody" out of the sets of names. Each theorem whose
name ends in `TypeCorrect` states that the type invariant of its module holds in every reachable state.

| Module | Theorem | Establishes |
|---|---|---|
| `RunLifecycle_proofs` | `TypeCorrect` | `Spec => []TypeOK` |
| | `SerializedRuns` | `Spec => []OneRunningPerIssue` |
| | `RowsMatchExecution` | `Spec => []ExecutionMatchesRow` |
| | `ApprovalHolds` | `Spec => []ApprovalNotBypassed` |
| | `EndedRunsNeverChange` | `Spec => EndedRunsStay` |
| | `CoordinatorsAreKept` | `Spec => RunningCancelledOnlyWithIssue` |
| | `InterruptedRunsResumeOnce` | `Spec => []ResumedAtMostOnce` |
| | `ResumesStayBounded` | `Spec => []ResumesBounded` |
| | `QueueLockHolds` | `OneQueueingProcess` implies `Spec => []QueuedOncePerPair` |
| `Dispatcher_proofs` | `TypeCorrect` | `Spec => []TypeOK` |
| | `PoolWithinCap` | `Spec => []InflightWithinCap` |
| | `OnePasserKeepsLimits` | `Passers = {t}` implies `Spec => []AgentWithinLimit` |
| `StageBarrier_proofs` | `StagesTypeCorrect` | `Spec => []TypeOK` |
| `WorkerQueue_proofs` | `TypeCorrect` | `Spec => []TypeOK` |
| | `RaisedSettled` | `Spec => []RaisedIsSettled` |
| | `QueueImplements` | `Spec => Implements`, that is, WorkerQueue implements RemoteCalls |
| `Server_proofs` | `Noticed`, `AccountsTypeCorrect` | `AccountsSpec => []RevokedIsNoticed` |
| | `LoginsAreThrottled`, `RecentIsWhatIsLeft`, `LoginsTypeCorrect` | `LoginsSpec => []FailuresBounded`, `LoginsSpec => []RecentIsRest` |
| | `RunOnce`, `CommandsTypeCorrect` | `CommandsSpec => []CommandsRunOnce` |
| | `ClaimedOnce`, `ConnectionsTypeCorrect` | `ConnectionsSpec => []StateUsedOnce` |
| | `UpgradesAreSafe`, `MigrationTypeCorrect` | `MigrationSpec => []UpgradeIsSafe` |
| | `OneTurnAtATime`, `ChatTypeCorrect` | `ChatSpec => []OneTurnPerThread` |
| `Agents_proofs` | `HomesAreKept`, `ProvidersTypeCorrect` | `ProvidersSpec => []HomeKept` |
| | `ReworkEnds`, `VerifierTypeCorrect` | `VerifierSpec => []ReworkBounded` |
| | `CapIsKept`, `RoutingTypeCorrect` | `RoutingSpec => []SpendCapKept` |
| | `BudgetIsKept`, `DelegationTypeCorrect` | `DelegationSpec => []BudgetKept` |
| | `JobsFollowTriggers`, `AutopilotsTypeCorrect` | `AutopilotsSpec => []TriggersHaveJobs` |
| | `AuditsKeepContents`, `SupersededAreReplaced`, `MemoryTypeCorrect` | `MemorySpec => []AuditKeepsContents`, `MemorySpec => []SupersededIsReplaced` |
| `Issues_proofs` | `BoardStaysConsistent`, `BoardTypeCorrect` | `BoardSpec => []BoardConsistent` |
| | `LessonsAreOnRecord`, `AnnotationsTypeCorrect` | `AnnotationsSpec => []LessonsOnRecord` |
| `Services_proofs` | `ServicesTypeCorrect`, `ServicesKeepTheirPromises` | `ServicesSpec => []ServicesTypeOK`, and all the invariants of the services for `ServicesSpec` |

The argument for the rows. `OneRunningPerIssue` and `ExecutionMatchesRow` are not inductive: a claim must know that
the row it takes exists, and `FinishRun` that the thread it belongs to still owns the row. `RowInv` adds to `TypeOK`
that rows beyond `nRuns` are blank (`UnusedRows`) and that a row which is executed has a live owner
(`ExecutingOwned`). Then `ClaimRun` is the only step that makes a row RUNNING and its guard excludes another one;
every step that ends a RUNNING row either is the executing thread's own, or a cancellation (the thread goes on with a
cancelled row), or a recovery, whose guard needs an owner that is gone, which an executing row does not have.

The argument for recovery. A thread between `RecoverRun` and the insert holds the only right to continue its run.
`RecoveryInv` says that what such threads hold is a failed row which nobody else holds and from which no row
continues. `RecoverRun` establishes it, since the row was RUNNING a moment ago and so nobody's; `ResumeRun` uses it.

The argument for chains of continuations. `ResumeDepth` and `ResumeChain` are functions defined by recursion along
`resumed_from`. `Backwards` says that a row continues an earlier row, so the recursion ends; from it the lemmas derive
the equation of each row (`Equations`) and that a step which inserts no row leaves every chain as it is, both by
looking at the least row for which they could fail (`LeastNumber`). Then `DepthInv` and `ApprovalInv` say what a
recovering thread knows of the run it holds: its chain is shorter than `MAX_RESUMES`, its agent is the agent of the
row, and, as the row has been running, somebody of its chain was approved if the agent is gated.

The argument for the queue lock. `LockInv`: a thread that has found no active run of a pair holds the lock of its
process, and the pair has none until the thread inserts one. `OneQueueingProcess` (all threads that queue belong to
one process, which the code does not enforce and RunResume satisfies) makes that lock the only one; with two processes
the property fails, which is why the theorem has the hypothesis and the hazard is listed without a property.

The argument for the pool. The size of `_inflight` is looked at and the run inserted under one `_lock`, hence in one
step of the model (`PlaceRow`); no other step adds a run (`PoolInv`).

The argument for an agent's limit, with one thread making passes. The pass counts RUNNING rows after it has read the
queue, so a run of the pool that becomes RUNNING in between is missed by one query and found by the other. `Counted`
says so: between the count and the lock, what is engaged (submitted or claimed) and not on the pass's list is within
what it has counted; once it holds the lock and has added the runs of its list that are in the pool, all that is engaged
is. Runs then start only below the limit. That nothing queued is missing from the list is a lemma of its own
(`EveryoneListed`): `Ordered` makes the pending runs a strict total order, so by counting predecessors each has one place
in `InOrder(Pending)`. With a second passer `Counted` fails, as the other pass submits what is on no list of this one.

The argument for the job queue. That a job is begun at most once is part of the type (`starts` is 0 or 1) and not
inductive. `IInv` follows a job from hand to hand: an unclaimed job is in no client and no request (`Unclaimed`); a
claimed one is in at most one reply, and not begun while it is there (`HandedOut`); a worker that works on it is alone
and there is no result yet (`Working`); a report carries the result there is (`Requests`), so a row that is done has a
good one (`Results`). `ClaimInv` is the step at which the condition of the UPDATE is used: the claimed row was
pending, hence nobody's. For the refinement each step is mapped: `Enqueue` to `Call`, a reply with a job to `Start`,
`Report` to `Perform`, `ReadAnswer` to `Answer` or `Fail`, the end of the other callers to `Fail`, and everything else
to a stutter.

The arguments for the services.

* *Commands.* `CommandInv` follows a command: as long as nobody has begun it, it has not run (`Untouched`); what waits
  for a warm process knows which (`Asked`); and unless the process ended under it, a command that is being run there
  has not run yet and its process is alive, and one that is being answered has run once (`Uncut`). So whoever falls
  back does so before the command was begun.
* *Connections.* `StateUsedOnce` needs that a claimed state is out of the cell unless somebody put it back
  (`ClaimedIsOut`), and that a callback carries the state of the copy it compares the cell with (`CallbackFlow`).
* *Accounts.* `CacheHonest`: an entry that says valid expires at most `CacheTTL` after the end of its token.
  `RequestHonest`: a lookup that found the token valid began before its end. A request accepted from the cache or
  after a lookup is within the bound by either; that the time is taken before the lookup is what makes it inductive.
* *Migration.* `MigrationInv` says for each starter what it may rely on wherever it is (`Examining`, `Rebuilding`,
  `Holding`, `Initialised`), that a transaction only moves the schema forward (`Forward(db, draft)`), and that what is
  committed has all its rows. What an inspector has cached may be stale, but in one direction only: a shape that is
  still old is old in the cache too and not yet passed (`Rebuilding`), so no table that needs a rebuild is skipped,
  and a table that needs none is rebuilt from its own rows or ends in an error.
* *Verifier, Routing, Delegation.* `ReworkInv`: automatic rework is counted in the transaction that decides on it.
  `CapInv`: the runtime and its fallback were priced against the cap that the call keeps, and the backup against the
  one it read later. `DelegationInv`: without contention at most one call is between the look and the count
  (`Looking`), and then there is room for one more; `Cardinality(Delegated) <= budget.used` carries it through backups
  and abandoned calls.
* *Chat.* `TurnInv`: a thread that no two requests found quiet together has at most one turn, is pending as long as
  the turn is under way, and is found quiet by at most one request, when it has no turn. `pending` is cleared only in
  the step that ends the turn.
* *Logins.* The failures of a name are in the order of the clock (`Chronological`), so those that are out of the
  window are the first ones (`RecentIsRest`, by induction over the list) and a tick or a prune only shortens what is
  left; a request that passes the check finds less than the limit. The sum of failures and requests being checked is
  then bounded by a count of finite sets.
* *Providers.* `HomeInv`: the owner's runtime is the agent's runtime or its recorded home, and a row that a run holds
  is stale only as far as another failover made it so (`Stale`): it names the same two runtimes, and if it has a home,
  that is still the home. So whichever session writes last, the home survives.
* *Autopilots.* `JobInv`: each job that is owed is there, or some request under way is going to add it (`Coming`): it
  has not read the triggers yet, or has read this one. The invariant that TLC checks speaks only of moments without
  requests, and is this one there.
* *SharedMemory.* `RowsStay` ties sessions to rows: what a session holds does not vanish, and a copy that is
  superseded belongs to a row that is superseded or deleted. Supersession is a statement about every set of memories:
  a step can close a ring only by the row it marks, and that row then is replaced by itself, or was changed under an
  operation (`raced`).
* *Board.* That the parents form trees is stated by walks up; the inductive form is that the issues have ranks which
  fall along the parents (`Ranked`). A walk from any issue then ends before it has passed all issues, by a pigeonhole
  over the ranks (`TreesOfRanks`). A writer that nobody outran still finds what it had read: the number free, the
  parent permitted, the comment there, and what it is to delete closed under replies (`StillSo`).
* *Annotations.* `LooksHold` says the same of annotators; `CountIsOfRows` is carried by one row more or less
  (`OneMoreLesson`); `EntriesWereLearned` counts the notes that are still to be written, so the mirror never runs ahead.
* *The type invariants* that are not inductive have a strengthening of their own: `AdminsInv`, `TwiceInv` (a command
  is executed at most twice: once in the warm process that ended, once by whoever fell back), `CellInv` (a connected
  cell holds a grant), `ReviewInv` (no more rejections than passes that have judged), `RouteInv`, `PathInv` (nobody is
  asked from below to do what it is doing itself), `PilotInv`, `DefaultInv` (no more default workspaces than starting
  processes), `StageInv` (only sub-issues that exist are announced).
* *All services.* `ServicesRefine`: in a step of the composition the service in focus takes one of its steps and each
  other one stutters. What is proved of a service therefore holds of the whole.

Where data is defined by recursion the proofs use that definition on one row, walk or list at a time, and the
induction is over a number: the least counterexample (`LeastNumber`, from the well-foundedness of the naturals). The
model is written for this in a few places: `Recent` is the rest of a list after `Outdated`, a count of lessons is the
`Cardinality` of `LessonRows`, `Export` is a set of rows of which the import takes some in order, and the chat keeps
`latest`, the thread with the latest message, up to date where a message is stored.

Only model-checked: the liveness properties (`OrphanIsRecovered`, `PendingStarts`, `IdleIssueIsPickedUp`,
`NoStarvation`, `SlotsComeBack`, `AnnouncedWhenAllClosed`, `CallsEnd`, `MessagesAnswered`, `ComesHome`), since the
prover does not handle fairness and ENABLED. The three runs that expect a violation show that a statement is false, so
there is nothing to prove.

## 5. What the models leave out

Prompts, outputs, tokens, transcripts and events that no decision reads; archived agents outside Providers; the
cooldown of the sweep and `provider_wait_until` in RunLifecycle (the sweep may come at any time); failures caused by a
usage limit, which `_consecutive_failures` skips. SQLite serializes writers, so one commit is one step.

Not modelled, since it is I/O around at most one guard, or data: adapters (a run returns, raises or is late), worktrees
and the terminal, skills, icons, avatars and catalogues, the rendering of pages and the text of commands, search and
ranking of memories, embeddings, redaction, password hashes and CSRF, encryption of secrets, connections other than
Google's, MCP servers, cron arithmetic, `handbook` generation, the score of the router, the heartbeat of workers and of
the dispatcher, its shutdown and `explain_queue`. Most lines of `cli.py` and `web.py` edit one row or print it.

## 6. Running it

`tlc -config RunSafety.cfg MCRunLifecycle` and likewise for the other configurations: `Run*.cfg` belong to
`MCRunLifecycle`, `Dispatch*.cfg` to `MCDispatcher`, `Stage*.cfg` to `MCStageBarrier`, `Worker*.cfg` to `MCWorkerQueue`,
`Services.cfg` to `MCServices`, `ServiceLiveness.cfg` to `MCServiceLiveness`. Each ends within four minutes. To look at
one service only, leave its name alone in `Focus`. `tlapm RunLifecycle_proofs.tla`, and likewise for the other modules
whose name ends in `_proofs`, check the proofs.

## 7. Plan

Order: the life of a run, then what decides when it starts, then what follows from its end, then what happens inside
it, then the services around it. Written: all modules of section 2. What would come next, in this order:

| Step | Content |
|---|---|
| 1 | StageBarrier: crashes between the commits of an announcement; the waiting coordinator with unstaged sub-issues |
| 2 | an abstract queue (a run is submitted, started at most once, ended at most once) implemented by RunLifecycle, and proved to be |
| 3 | safety parts of the liveness properties, proved: a stage that is closed and not announced has a handler under way, or was excused; a message that is not covered has a turn that has not looked yet |
| 4 | composition of Verifier with RunLifecycle: the verdict of a pass against the claim of a review run by the dispatcher |
