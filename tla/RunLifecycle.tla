---------------------------- MODULE RunLifecycle ----------------------------
(***************************************************************************)
(* The life of a run: queueing, approval, the atomic claim, execution, the *)
(* finish, cancellation, recovery after a crash and the two idle sweeps,   *)
(* as several processes perform them over one SQLite database              *)
(* (hagent/engine.py, recovery.py, orchestration.py and the handlers of    *)
(* web.py and cli.py that call them).                                      *)
(*                                                                         *)
(* Every action is one database transaction, or one read whose result a    *)
(* later transaction of the same thread uses.  A thread that has read and  *)
(* not yet written keeps what it read in op[t]; anything may happen in     *)
(* between.  The ORM writes an attribute only when the new value differs   *)
(* from the session's loaded copy, and then without looking at the row     *)
(* again: OrmWrite.                                                        *)
(*                                                                         *)
(* Scope: issues without sub-issues and agents without a verifier.  A      *)
(* request that reads an issue and updates it at once, without a lock or a *)
(* commit in between, is one action.                                       *)
(***************************************************************************)
EXTENDS Naturals, FiniteSets

CONSTANTS
    Issues,            \* issue ids
    Agents,            \* agent ids, none of them archived
    GatedAgents,       \* agents with require_run_approval
    PortalIssues,      \* issues of the "Job Portal" project
    Procs,             \* operating-system processes sharing the database
    Threads,           \* threads of those processes that run handlers or jobs
    ProcOf,            \* the process of a thread
    Duties,            \* what a thread may be asked to do (a set of Duty)
    None, Gone,        \* no value / an owner whose process no longer exists
    MaxRuns,           \* bound: rows the runs table can hold
    MAX_RESUMES, MAX_IDLE_RETRIES

Duty == {"request", "dispatch", "recovery", "sweep"}

ASSUME IdsAssumption ==
    /\ None \notin Issues \cup Agents \cup Procs \cup Threads
    /\ Gone \notin Procs \cup {None}
    /\ GatedAgents \subseteq Agents
    /\ PortalIssues \subseteq Issues
ASSUME ThreadAssumption ==
    /\ ProcOf \in [Threads -> Procs]
    /\ Duties \in [Threads -> SUBSET Duty]
ASSUME BoundAssumption ==
    /\ MaxRuns \in Nat \ {0}
    /\ MAX_RESUMES \in Nat
    /\ MAX_IDLE_RETRIES \in Nat \ {0}

VARIABLES
    issueStatus,  \* Issue.status
    assignee,     \* Issue.assignee_agent_id
    nRuns,        \* runs are numbered in the order of created_at
    run,          \* the columns of a run that never change
    runStatus,    \* Run.status, "none" for a row not inserted yet
    owner,        \* Run.owner_pid and owner_started
    exec,         \* how far the thread that executes a claimed run has come
    op,           \* what a handler or job has read and not yet written
    queueLock,    \* the holder of engine._queue_lock, one lock per process
    approved      \* history: the runs a person approved

vars == <<issueStatus, assignee, nRuns, run, runStatus, owner, exec, op,
          queueLock, approved>>

-----------------------------------------------------------------------------
(* Values *)

IssueStatus == {"backlog", "todo", "in_progress", "in_review", "blocked",
                "done", "cancelled"}
RunStatus == {"pending", "waiting_approval", "running", "completed", "failed",
              "cancelled", "rejected"}

WaitingStatuses == {"pending", "waiting_approval"}
ActiveRunStatuses == WaitingStatuses \cup {"running"}
ClosedStatuses == {"done", "cancelled"}
AutoStartStatuses == {"todo", "in_progress"}
NonTerminalStatuses == {"backlog", "todo", "in_progress", "blocked"}

RunIds == 1 .. MaxRuns
RunRow == [issue : Issues \cup {None}, agent : Agents \cup {None},
           from : 0 .. MaxRuns]
NoRow == [issue |-> None, agent |-> None, from |-> 0]

\* kind: the next write of the thread; skip: the session's copy of the issue has
\* the status that write assigns, so the ORM will leave the column alone.
OpKind == {"idle", "queue", "insert", "claim", "recover", "resume",
           "abandon", "retire", "giveup"}
Op == [kind : OpKind, issue : Issues \cup {None}, agent : Agents \cup {None},
       run : 0 .. MaxRuns, skip : BOOLEAN]
Idle == [kind |-> "idle", issue |-> None, agent |-> None, run |-> 0, skip |-> FALSE]

TypeOK ==
    /\ issueStatus \in [Issues -> IssueStatus]
    /\ assignee \in [Issues -> Agents \cup {None}]
    /\ nRuns \in 0 .. MaxRuns
    /\ run \in [RunIds -> RunRow]
    /\ runStatus \in [RunIds -> RunStatus \cup {"none"}]
    /\ owner \in [RunIds -> Procs \cup {None, Gone}]
    /\ exec \in [RunIds -> {"off", "run", "post", "reopen"}]
    /\ op \in [Threads -> Op]
    /\ queueLock \in [Procs -> Threads \cup {None}]
    /\ approved \subseteq RunIds

Init ==
    /\ issueStatus = [i \in Issues |-> "backlog"]
    /\ assignee = [i \in Issues |-> None]
    /\ nRuns = 0
    /\ run = [r \in RunIds |-> NoRow]
    /\ runStatus = [r \in RunIds |-> "none"]
    /\ owner = [r \in RunIds |-> None]
    /\ exec = [r \in RunIds |-> "off"]
    /\ op = [t \in Threads |-> Idle]
    /\ queueLock = [p \in Procs |-> None]
    /\ approved = {}

-----------------------------------------------------------------------------
(* Queries and writes shared by the handlers *)

RunsOf(i) == {r \in 1 .. nRuns : run[r].issue = i}
HasActiveRun(i) == \E r \in RunsOf(i) : runStatus[r] \in ActiveRunStatuses
HasFollowupRun(r) ==
    \E q \in RunsOf(run[r].issue) \ {r} : runStatus[q] \in ActiveRunStatuses
ActiveRunOf(i, a) ==
    \E r \in RunsOf(i) : run[r].agent = a /\ runStatus[r] \in ActiveRunStatuses

\* The latest run of the issue has one of these statuses.
LastRunIn(i, statuses) ==
    \E r \in RunsOf(i) : /\ runStatus[r] \in statuses
                         /\ \A q \in RunsOf(i) : q <= r

\* How many of the issue's most recent runs failed in a row (failures caused by the
\* usage limit of a provider, which the code skips, do not happen here).
ConsecutiveFailures(i) ==
    Cardinality({r \in RunsOf(i) :
                   \A q \in RunsOf(i) : q >= r => runStatus[q] = "failed"})

\* How many interruptions lie behind a run: the length of its resumed_from chain.
ResumeDepth(r) ==
    LET depth[q \in RunIds] ==
            IF run[q].from = 0 THEN 0 ELSE 1 + depth[run[q].from]
    IN  depth[r]

\* issue.status = s at the end of the operation of thread t.
OrmWrite(t, s) ==
    IF op[t].skip THEN issueStatus ELSE [issueStatus EXCEPT ![op[t].issue] = s]

Ready(t, duty) == op[t].kind = "idle" /\ duty \in Duties[t]
Begin(t, kind, i, a, r, skip) ==
    op' = [op EXCEPT ![t] = [kind |-> kind, issue |-> i, agent |-> a, run |-> r,
                             skip |-> skip]]
Done(t) == op' = [op EXCEPT ![t] = Idle]

-----------------------------------------------------------------------------
(* Requests of a person: web.py and cli.py *)

BeginQueue(t, i, a, seen) == Begin(t, "queue", i, a, 0, seen = "in_progress")

\* start_agent_run: nothing to do without an agent or on a closed issue.
StartAgentRun(t, i, a, seen) ==
    IF a = None \/ seen \in ClosedStatuses
    THEN UNCHANGED op
    ELSE BeginQueue(t, i, a, seen)

UnchangedRuns == UNCHANGED <<nRuns, run, runStatus, owner, exec, approved>>

\* Assigning from the web also takes the issue out of Backlog; from the CLI it
\* does not, and --no-start only assigns.
Assign(t, i, a, promote, start) ==
    /\ Ready(t, "request")
    /\ assignee' = [assignee EXCEPT ![i] = a]
    /\ issueStatus' = IF promote /\ issueStatus[i] = "backlog"
                      THEN [issueStatus EXCEPT ![i] = "todo"] ELSE issueStatus
    /\ IF start THEN StartAgentRun(t, i, a, issueStatus'[i])
                ELSE UNCHANGED op
    /\ UnchangedRuns /\ UNCHANGED queueLock

WebAssign(t, i, a) == Assign(t, i, a, TRUE, TRUE)
CliAssign(t, i, a, start) == Assign(t, i, a, FALSE, start)
Unassign(t, i) == Assign(t, i, None, FALSE, FALSE)

\* A status change starts the assignee when it moves the issue into Todo or In Progress.
ChangeStatus(t, i, s, start) ==
    /\ Ready(t, "request")
    /\ issueStatus' = [issueStatus EXCEPT ![i] = s]
    /\ IF start /\ s # issueStatus[i] /\ s \in AutoStartStatuses
       THEN StartAgentRun(t, i, assignee[i], s)
       ELSE UNCHANGED op
    /\ UnchangedRuns /\ UNCHANGED <<assignee, queueLock>>

CliStatus(t, i, s, start) == ChangeStatus(t, i, s, start)
WebStatus(t, i, s) ==
    /\ issueStatus[i] # "in_review" /\ s # "in_review"
    /\ ChangeStatus(t, i, s, TRUE)

ReviewApprove(i) ==
    /\ issueStatus[i] = "in_review"
    /\ issueStatus' = [issueStatus EXCEPT ![i] = "done"]
    /\ UnchangedRuns /\ UNCHANGED <<assignee, op, queueLock>>

\* Run now, rerun: the assignee, whatever the issue's status.
RunNow(t, i) ==
    /\ Ready(t, "request")
    /\ assignee[i] # None
    /\ BeginQueue(t, i, assignee[i], issueStatus[i])
    /\ UnchangedRuns /\ UNCHANGED <<issueStatus, assignee, queueLock>>

RetryRun(t, r) ==
    /\ Ready(t, "request")
    /\ runStatus[r] \in {"failed", "cancelled"}
    /\ BeginQueue(t, run[r].issue, run[r].agent, issueStatus[run[r].issue])
    /\ UnchangedRuns /\ UNCHANGED <<issueStatus, assignee, queueLock>>

\* `hagent issue continue`: the agent of the latest completed or checkpointed run.
ContinueRun(t, r) ==
    /\ Ready(t, "request")
    /\ runStatus[r] \in {"completed", "failed"}
    /\ BeginQueue(t, run[r].issue, run[r].agent, issueStatus[run[r].issue])
    /\ UnchangedRuns /\ UNCHANGED <<issueStatus, assignee, queueLock>>

ApproveRun(r) ==
    /\ runStatus[r] = "waiting_approval"
    /\ runStatus' = [runStatus EXCEPT ![r] = "pending"]
    /\ approved' = approved \cup {r}
    /\ issueStatus' = [issueStatus EXCEPT ![run[r].issue] = "in_progress"]
    /\ UNCHANGED <<assignee, nRuns, run, owner, exec, op, queueLock>>

RejectRun(r) ==
    /\ runStatus[r] = "waiting_approval"
    /\ runStatus' = [runStatus EXCEPT ![r] = "rejected"]
    /\ UNCHANGED <<issueStatus, assignee, nRuns, run, owner, exec, op,
                   queueLock, approved>>

CancelIssue(i) ==
    /\ runStatus' = [r \in RunIds |->
                       IF r \in RunsOf(i) /\ runStatus[r] \in ActiveRunStatuses
                       THEN "cancelled" ELSE runStatus[r]]
    /\ issueStatus' = [issueStatus EXCEPT ![i] = "cancelled"]
    /\ UNCHANGED <<assignee, nRuns, run, owner, exec, op, queueLock, approved>>

-----------------------------------------------------------------------------
(* engine.queue_issue_run *)

\* Replace the obsolete queued runs of other agents and insert a run; a running
\* coordinator is preserved.  from is the run it resumes, or 0.
InsertRun(i, a, st, from, superseded) ==
    /\ nRuns < MaxRuns
    /\ nRuns' = nRuns + 1
    /\ run' = [run EXCEPT ![nRuns + 1] = [issue |-> i, agent |-> a, from |-> from]]
    /\ runStatus' = [r \in RunIds |-> IF r = nRuns + 1 THEN st
                                      ELSE IF r \in superseded THEN "cancelled"
                                      ELSE runStatus[r]]

\* Fault: superseding takes the running coordinator with it.
Superseded_TakesRunning(i, a) ==
    {r \in RunsOf(i) : run[r].agent # a /\ runStatus[r] \in ActiveRunStatuses}

Superseded(i, a) ==
    {r \in RunsOf(i) : run[r].agent # a /\ runStatus[r] \in WaitingStatuses}

\* Fault: the approval flag of the agent is not looked at.
FirstStatus_Ungated(a) == "pending"

FirstStatus(a) == IF a \in GatedAgents THEN "waiting_approval" ELSE "pending"

\* Fault: the lock is not waited for.
QueueRead_NoLock(t) ==
    /\ op[t].kind = "queue"
    /\ IF ActiveRunOf(op[t].issue, op[t].agent)
       THEN Done(t) /\ UNCHANGED queueLock
       ELSE /\ op' = [op EXCEPT ![t].kind = "insert"]
            /\ queueLock' = [queueLock EXCEPT ![ProcOf[t]] = t]
    /\ UnchangedRuns /\ UNCHANGED <<issueStatus, assignee>>

\* Take the lock of this process and look for an active run of the pair.  If
\* there is one it is returned and the lock released.
QueueRead(t) ==
    /\ op[t].kind = "queue"
    /\ queueLock[ProcOf[t]] = None
    /\ IF ActiveRunOf(op[t].issue, op[t].agent)
       THEN Done(t) /\ UNCHANGED queueLock
       ELSE /\ op' = [op EXCEPT ![t].kind = "insert"]
            /\ queueLock' = [queueLock EXCEPT ![ProcOf[t]] = t]
    /\ UnchangedRuns /\ UNCHANGED <<issueStatus, assignee>>

QueueInsert(t) ==
    LET i == op[t].issue
        a == op[t].agent
    IN  /\ op[t].kind = "insert"
        /\ InsertRun(i, a, FirstStatus(a), 0, Superseded(i, a))
        /\ issueStatus' = IF a \in GatedAgents THEN issueStatus
                          ELSE OrmWrite(t, "in_progress")
        /\ Done(t)
        /\ queueLock' = [queueLock EXCEPT ![ProcOf[t]] = None]
        /\ UNCHANGED <<assignee, owner, exec, approved>>

\* Send back from review.  The autoflush of its own status change opens the write
\* transaction before queue_issue_run reads, so nothing comes in between.
SendBack(t, i) ==
    LET a == assignee[i]
        queues == a # None /\ ~ActiveRunOf(i, a)
    IN  /\ Ready(t, "request")
        /\ issueStatus[i] = "in_review"
        /\ issueStatus' = [issueStatus EXCEPT ![i] = "in_progress"]
        /\ a # None => queueLock[ProcOf[t]] = None
        /\ IF queues THEN InsertRun(i, a, FirstStatus(a), 0, Superseded(i, a))
                     ELSE UNCHANGED <<nRuns, run, runStatus>>
        /\ UNCHANGED <<assignee, owner, exec, op, queueLock, approved>>

-----------------------------------------------------------------------------
(* engine.process_queued_run_by_id, run_issue and _finish *)

PickRun(t, r) ==
    /\ Ready(t, "dispatch")
    /\ runStatus[r] = "pending"
    /\ Begin(t, "claim", run[r].issue, run[r].agent, r,
             issueStatus[run[r].issue] = "in_progress")
    /\ UnchangedRuns /\ UNCHANGED <<issueStatus, assignee, queueLock>>

\* Fault: the claim does not exclude another running run of the issue.
Claimable_NoExclusion(r) ==
    /\ runStatus[r] = "pending"
    /\ issueStatus[run[r].issue] \notin ClosedStatuses

\* Fault: the claim requires a status that starts work by itself.
Claimable_AutoStartOnly(r) ==
    /\ runStatus[r] = "pending"
    /\ \A q \in RunsOf(run[r].issue) : runStatus[q] # "running"
    /\ issueStatus[run[r].issue] \in AutoStartStatuses

\* The WHERE clause of the claim.
Claimable(r) ==
    /\ runStatus[r] = "pending"
    /\ \A q \in RunsOf(run[r].issue) : runStatus[q] # "running"
    /\ issueStatus[run[r].issue] \notin ClosedStatuses

ClaimRun(t) ==
    LET r == op[t].run
    IN  /\ op[t].kind = "claim"
        /\ Claimable(r)
        /\ runStatus' = [runStatus EXCEPT ![r] = "running"]
        /\ owner' = [owner EXCEPT ![r] = ProcOf[t]]
        /\ exec' = [exec EXCEPT ![r] = "run"]
        /\ issueStatus' = OrmWrite(t, "in_progress")
        /\ Done(t)
        /\ UNCHANGED <<assignee, nRuns, run, queueLock, approved>>

ClaimLost(t) ==
    /\ op[t].kind = "claim"
    /\ ~Claimable(op[t].run)
    /\ Done(t)
    /\ UnchangedRuns /\ UNCHANGED <<issueStatus, assignee, queueLock>>

\* Fault: the status of the run is written to the issue.
ReviewStatus_OfRun(i) == "completed"

\* The status a successful run leaves its issue in.
ReviewStatus(i) == IF i \in PortalIssues THEN "done" ELSE "in_review"

\* Fault: the result is written whatever became of the run meanwhile.
FinishRun_NoWhere(r, ok) ==
    /\ exec[r] = "run"
    /\ runStatus' = [runStatus EXCEPT ![r] = IF ok THEN "completed" ELSE "failed"]
    /\ exec' = [exec EXCEPT ![r] = "post"]
    /\ UNCHANGED <<issueStatus, assignee, nRuns, run, owner, op, queueLock, approved>>

\* The adapter returned (ok) or raised: the first transaction of _finish.
FinishRun(r, ok) ==
    LET i == run[r].issue
    IN  /\ exec[r] = "run"
        /\ runStatus[r] = "running"
        /\ runStatus' = [runStatus EXCEPT ![r] = IF ok THEN "completed" ELSE "failed"]
        /\ issueStatus' = IF ok /\ issueStatus[i] \notin ClosedStatuses
                          THEN [issueStatus EXCEPT ![i] = ReviewStatus(i)]
                          ELSE issueStatus
        /\ exec' = [exec EXCEPT ![r] = "post"]
        /\ UNCHANGED <<assignee, nRuns, run, owner, op, queueLock, approved>>

\* The result of a run that is no longer RUNNING changes nothing.
FinishLate(r) ==
    /\ exec[r] = "run"
    /\ runStatus[r] # "running"
    /\ exec' = [exec EXCEPT ![r] = "off"]
    /\ UNCHANGED <<issueStatus, assignee, nRuns, run, runStatus, owner, op,
                   queueLock, approved>>

\* _finish refreshes the issue and asks whether another run was queued meanwhile.
AfterFinish(r) ==
    LET i == run[r].issue
        reopen == /\ issueStatus[i] \notin ClosedStatuses \cup {"in_progress"}
                  /\ HasFollowupRun(r)
    IN  /\ exec[r] = "post"
        /\ exec' = [exec EXCEPT ![r] = IF reopen THEN "reopen" ELSE "off"]
        /\ UNCHANGED <<issueStatus, assignee, nRuns, run, runStatus, owner, op,
                       queueLock, approved>>

ReopenForFollowup(r) ==
    /\ exec[r] = "reopen"
    /\ issueStatus' = [issueStatus EXCEPT ![run[r].issue] = "in_progress"]
    /\ exec' = [exec EXCEPT ![r] = "off"]
    /\ UNCHANGED <<assignee, nRuns, run, runStatus, owner, op, queueLock, approved>>

-----------------------------------------------------------------------------
(* recovery.recover_interrupted_runs *)

\* Fault: every owner but the recovering process itself is taken for dead.
OwnerIsAlive_Never(r) == FALSE

OwnerIsAlive(r) == owner[r] \in Procs

\* Fault: every process recovers the rows it listed, also one another process won.
RecoverRun_NotAtomic(t, r) ==
    /\ Ready(t, "recovery")
    /\ runStatus[r] \in {"running", "failed"}
    /\ owner[r] = Gone
    /\ runStatus' = [runStatus EXCEPT ![r] = "failed"]
    /\ Begin(t, "recover", run[r].issue, run[r].agent, r, FALSE)
    /\ UNCHANGED <<issueStatus, assignee, nRuns, run, owner, exec, queueLock, approved>>

\* Fault: a run whose issue was closed meanwhile is left alone.
RecoverRun_OpenOnly(t, r) ==
    /\ Ready(t, "recovery")
    /\ runStatus[r] = "running" /\ owner[r] = Gone
    /\ issueStatus[run[r].issue] \notin ClosedStatuses
    /\ runStatus' = [runStatus EXCEPT ![r] = "failed"]
    /\ Begin(t, "recover", run[r].issue, run[r].agent, r, FALSE)
    /\ UNCHANGED <<issueStatus, assignee, nRuns, run, owner, exec, queueLock, approved>>

\* Only one of several recovering processes changes the row.
RecoverRun(t, r) ==
    /\ Ready(t, "recovery")
    /\ runStatus[r] = "running"
    /\ ~OwnerIsAlive(r)
    /\ runStatus' = [runStatus EXCEPT ![r] = "failed"]
    /\ Begin(t, "recover", run[r].issue, run[r].agent, r, FALSE)
    /\ UNCHANGED <<issueStatus, assignee, nRuns, run, owner, exec, queueLock, approved>>

\* Fault: one resume too many.
RecoverDecide_OffByOne(t) ==
    LET i == op[t].issue
        next == IF ResumeDepth(op[t].run) > MAX_RESUMES THEN "abandon" ELSE "resume"
    IN  /\ op[t].kind = "recover"
        /\ op' = [op EXCEPT ![t] =
                    IF issueStatus[i] \in ClosedStatuses THEN Idle
                    ELSE [@ EXCEPT !.kind = next, !.skip = issueStatus[i] = "blocked"]]
        /\ UnchangedRuns /\ UNCHANGED <<issueStatus, assignee, queueLock>>

\* After the commit: skip a closed issue, give up a chain that is too long.
RecoverDecide(t) ==
    LET i == op[t].issue
        next == IF ResumeDepth(op[t].run) >= MAX_RESUMES THEN "abandon" ELSE "resume"
    IN  /\ op[t].kind = "recover"
        /\ op' = [op EXCEPT ![t] =
                    IF issueStatus[i] \in ClosedStatuses THEN Idle
                    ELSE [@ EXCEPT !.kind = next, !.skip = issueStatus[i] = "blocked"]]
        /\ UnchangedRuns /\ UNCHANGED <<issueStatus, assignee, queueLock>>

ResumeRun(t) ==
    /\ op[t].kind = "resume"
    /\ InsertRun(op[t].issue, op[t].agent, "pending", op[t].run, {})
    /\ Done(t)
    /\ UNCHANGED <<issueStatus, assignee, owner, exec, queueLock, approved>>

AbandonIssue(t) ==
    /\ op[t].kind = "abandon"
    /\ issueStatus' = OrmWrite(t, "blocked")
    /\ Done(t)
    /\ UnchangedRuns /\ UNCHANGED <<assignee, queueLock>>

-----------------------------------------------------------------------------
(* orchestration.reconcile_orphaned_issues and requeue_idle_issues *)

ReconcileRead(t, i) ==
    /\ Ready(t, "sweep")
    /\ issueStatus[i] \in NonTerminalStatuses
    /\ ~HasActiveRun(i)
    /\ LastRunIn(i, {"cancelled", "rejected"})
    /\ Begin(t, "retire", i, None, 0, FALSE)
    /\ UnchangedRuns /\ UNCHANGED <<issueStatus, assignee, queueLock>>

RetireIssue(t) ==
    /\ op[t].kind = "retire"
    /\ issueStatus' = OrmWrite(t, "cancelled")
    /\ Done(t)
    /\ UnchangedRuns /\ UNCHANGED <<assignee, queueLock>>

\* Fault: the sweep looks at Todo only.
RequeueIdle_TodoOnly(t, i) ==
    /\ Ready(t, "sweep")
    /\ issueStatus[i] = "todo"
    /\ assignee[i] # None
    /\ ~HasActiveRun(i)
    /\ BeginQueue(t, i, assignee[i], issueStatus[i])
    /\ UnchangedRuns /\ UNCHANGED <<issueStatus, assignee, queueLock>>

\* The cooldown has passed and a provider of the agent is available.  The sweep
\* retires cancelled and rejected work before it looks for idle work.
RequeueIdle(t, i) ==
    /\ Ready(t, "sweep")
    /\ issueStatus[i] \in AutoStartStatuses
    /\ assignee[i] # None
    /\ ~HasActiveRun(i)
    /\ IF ConsecutiveFailures(i) >= MAX_IDLE_RETRIES
       THEN Begin(t, "giveup", i, None, 0, FALSE)
       ELSE BeginQueue(t, i, assignee[i], issueStatus[i])
    /\ UnchangedRuns /\ UNCHANGED <<issueStatus, assignee, queueLock>>

BlockIdle(t) ==
    /\ op[t].kind = "giveup"
    /\ issueStatus' = OrmWrite(t, "blocked")
    /\ Done(t)
    /\ UnchangedRuns /\ UNCHANGED <<assignee, queueLock>>

-----------------------------------------------------------------------------
(* An exception (the database stayed locked for too long) rolls back what a handler
   or job was about to write; leaving the with block releases the queue lock. *)

SessionFails(t) ==
    /\ op[t].kind # "idle"
    /\ Done(t)
    /\ queueLock' = IF queueLock[ProcOf[t]] = t
                    THEN [queueLock EXCEPT ![ProcOf[t]] = None] ELSE queueLock
    /\ UnchangedRuns /\ UNCHANGED <<issueStatus, assignee>>

(* A process ends, whatever its threads were doing, and may be started again.  The
   new process has another (pid, start time): what the old one owned is Gone. *)

Crash(p) ==
    /\ owner' = [r \in RunIds |-> IF owner[r] = p THEN Gone ELSE owner[r]]
    /\ exec' = [r \in RunIds |-> IF owner[r] = p THEN "off" ELSE exec[r]]
    /\ op' = [t \in Threads |-> IF ProcOf[t] = p THEN Idle ELSE op[t]]
    /\ queueLock' = [queueLock EXCEPT ![p] = None]
    /\ UNCHANGED <<issueStatus, assignee, nRuns, run, runStatus, approved>>

-----------------------------------------------------------------------------

OwnerStep ==
    \/ \E t \in Threads, i \in Issues :
         \/ \E a \in Agents : WebAssign(t, i, a)
         \/ \E a \in Agents, start \in BOOLEAN : CliAssign(t, i, a, start)
         \/ Unassign(t, i)
         \/ \E s \in IssueStatus : WebStatus(t, i, s)
         \/ \E s \in IssueStatus, start \in BOOLEAN : CliStatus(t, i, s, start)
         \/ SendBack(t, i)
         \/ RunNow(t, i)
    \/ \E t \in Threads, r \in RunIds : RetryRun(t, r) \/ ContinueRun(t, r)
    \/ \E i \in Issues : ReviewApprove(i) \/ CancelIssue(i)
    \/ \E r \in RunIds : ApproveRun(r) \/ RejectRun(r)

QueueStep(t) == QueueRead(t) \/ QueueInsert(t)
DispatchStep(t) == (\E r \in RunIds : PickRun(t, r)) \/ ClaimRun(t) \/ ClaimLost(t)
ExecuteStep(r) ==
    \/ \E ok \in BOOLEAN : FinishRun(r, ok)
    \/ FinishLate(r) \/ AfterFinish(r) \/ ReopenForFollowup(r)
RecoveryStep(t) ==
    \/ \E r \in RunIds : RecoverRun(t, r)
    \/ RecoverDecide(t) \/ ResumeRun(t) \/ AbandonIssue(t)
SweepStep(t) ==
    \/ \E i \in Issues : ReconcileRead(t, i) \/ RequeueIdle(t, i)
    \/ RetireIssue(t) \/ BlockIdle(t)

HealthyStep ==
    \/ OwnerStep
    \/ \E t \in Threads :
         QueueStep(t) \/ DispatchStep(t) \/ RecoveryStep(t) \/ SweepStep(t)
    \/ \E r \in RunIds : ExecuteStep(r)

Next ==
    \/ HealthyStep
    \/ \E t \in Threads : SessionFails(t)
    \/ \E p \in Procs : Crash(p)

Spec == Init /\ [][Next]_vars

\* The bound of the model stands in for a failing insert: there is no row left.
TableFull(t) ==
    /\ nRuns = MaxRuns
    /\ op[t].kind \in {"insert", "resume"}
    /\ SessionFails(t)

\* Background jobs are started again and again, adapters return or time out, and from
\* some point on no process is killed and no write fails but for a full table.  A
\* thread serves several jobs in turn, so each job is enabled again and again rather
\* than all the time: strong fairness.
Fairness ==
    /\ \A t \in Threads : /\ SF_vars(QueueStep(t)) /\ SF_vars(DispatchStep(t))
                          /\ SF_vars(RecoveryStep(t)) /\ SF_vars(SweepStep(t))
                          /\ WF_vars(TableFull(t))
    /\ \A r \in RunIds : WF_vars(ExecuteStep(r))
    /\ <>[][HealthyStep \/ \E t \in Threads : TableFull(t)]_vars

FairSpec == Spec /\ Fairness

-----------------------------------------------------------------------------
(* Safety *)

\* Runs on one issue are serialized: at most one of its rows is RUNNING, whatever
\* processes claim at the same time (the NOT EXISTS of the claim in run_issue).
OneRunningPerIssue ==
    \A q, r \in 1 .. nRuns :
        /\ run[q].issue = run[r].issue
        /\ runStatus[q] = "running" /\ runStatus[r] = "running"
        => q = r

\* Recovery never takes a run from a process that is alive, and no row says RUNNING
\* without a thread behind it unless its process is gone: an executing run is RUNNING
\* or was cancelled, and a RUNNING row of a live process is being executed.
ExecutionMatchesRow ==
    \A r \in RunIds :
        /\ exec[r] = "run" => runStatus[r] \in {"running", "cancelled"}
        /\ runStatus[r] = "running" => (exec[r] = "run" \/ owner[r] = Gone)

\* Every run in the resumed_from chain of r, r included.
ResumeChain(r) ==
    LET chain[q \in RunIds] ==
            IF run[q].from = 0 THEN {q} ELSE {q} \cup chain[run[q].from]
    IN  chain[r]

\* A run of an agent that requires approval gets as far as the queue only if a person
\* approved it, or approved a run it continues after an interruption.
ApprovalNotBypassed ==
    \A r \in 1 .. nRuns :
        /\ run[r].agent \in GatedAgents
        /\ runStatus[r] \in {"pending", "running", "completed", "failed"}
        => ResumeChain(r) \cap approved # {}

\* An interrupted run is continued at most once, however many processes recover at the
\* same time, and only a run that was marked failed is continued.
ResumedAtMostOnce ==
    \A q, r \in 1 .. nRuns :
        run[r].from # 0 =>
            /\ runStatus[run[r].from] = "failed"
            /\ run[q].from = run[r].from => q = r

\* recovery.MAX_RESUMES bounds the continuations of one piece of work, also when the
\* continuations are interrupted in their turn.
ResumesBounded == \A r \in 1 .. nRuns : ResumeDepth(r) <= MAX_RESUMES

\* Within one process the queue lock keeps the requests and the idle sweep from queueing
\* the same agent twice on an issue.  (A resumed run is inserted without the lock.)
QueuedOncePerPair ==
    \A q, r \in 1 .. nRuns :
        /\ run[q].issue = run[r].issue /\ run[q].agent = run[r].agent
        /\ run[q].from = 0 /\ run[r].from = 0
        /\ runStatus[q] \in ActiveRunStatuses /\ runStatus[r] \in ActiveRunStatuses
        => q = r

\* A run that has ended stays as it ended: a late result, a second approval or a recovery
\* never overwrites a cancellation, a rejection or an outcome.
EndedRunsStay ==
    [][\A r \in RunIds :
         runStatus[r] \in {"completed", "failed", "cancelled", "rejected"} =>
            runStatus'[r] = runStatus[r]]_vars

\* Reassigning an issue never stops its running coordinator: a RUNNING run is cancelled
\* only together with its issue.
RunningCancelledOnlyWithIssue ==
    [][\A r \in RunIds :
         runStatus[r] = "running" /\ runStatus'[r] = "cancelled" =>
            issueStatus'[run[r].issue] = "cancelled"]_vars

\* Late results preserve owner-closed issues: no step of a finishing run changes the
\* status of an issue that is done or cancelled.
LateResultsPreserveClosed ==
    [][\A r \in RunIds :
         /\ exec[r] # "off" /\ exec'[r] # exec[r]
         /\ issueStatus[run[r].issue] \in ClosedStatuses
         => issueStatus'[run[r].issue] = issueStatus[run[r].issue]]_vars

-----------------------------------------------------------------------------
(* Liveness, under FairSpec *)

\* A run whose process is gone does not stay RUNNING, and with it its issue does not
\* stay occupied (recover_interrupted_runs).
OrphanIsRecovered ==
    \A r \in RunIds :
        (runStatus[r] = "running" /\ owner[r] = Gone) ~> runStatus[r] # "running"

\* A queued run starts or is withdrawn unless its issue is closed.
PendingStarts ==
    \A r \in RunIds :
        runStatus[r] = "pending"
            ~> \/ runStatus[r] # "pending"
               \/ issueStatus[run[r].issue] \in ClosedStatuses

\* The issue calls for work, has an agent and no run (and the table has room for one).
IdleIssue(i) ==
    /\ issueStatus[i] \in AutoStartStatuses
    /\ assignee[i] # None
    /\ ~HasActiveRun(i)
    /\ nRuns < MaxRuns

\* Work never lies idle: also when a process died between marking a run interrupted and
\* queueing its continuation, the issue gets a run or is moved (requeue_idle_issues).
IdleIssueIsPickedUp == \A i \in Issues : IdleIssue(i) ~> ~IdleIssue(i)
=============================================================================
