---------------------------- MODULE StageBarrier ----------------------------
(***************************************************************************)
(* Sub-issues in stages and the coordinator that owns their parent         *)
(* (hagent/orchestration.py: fire_ready_stages, after_issue_finished; the  *)
(* end of engine._finish; the handlers that move sub-issues).              *)
(*                                                                         *)
(* One parent issue, assigned to one agent without approval or verifier.   *)
(* The parent's runs are those of RunLifecycle seen from here: at most one *)
(* is queued or running.                                                   *)
(* A handler that moved a sub-issue, or an engine thread that finished a   *)
(* run of the parent, goes through several transactions; what it read in   *)
(* an earlier one is in op[t].                                             *)
(***************************************************************************)
EXTENDS Naturals, FiniteSets

CONSTANTS
    Children,     \* sub-issues the parent has or may get
    StageOf,      \* Issue.stage, 0 for a sub-issue outside the stages
    Threads,      \* handlers and engine threads
    MaxIdleRetries

ASSUME StageAssumption == StageOf \in [Children -> Nat] /\ MaxIdleRetries \in Nat

VARIABLES
    exists,        \* the sub-issues created so far
    childStatus,   \* their status
    parentStatus,  \* Issue.status of the parent
    parentRun,     \* its active run
    failures,      \* how many of its latest runs failed in a row, up to MaxIdleRetries
    fired,         \* the signatures of its stage_completed events
    lastDeferred,  \* its latest timeline event is verification_deferred
    op,            \* what a thread is about to do and what it has read
    excused        \* history: since the last handler began, something happened
                   \* after which nobody looks at the stages

vars == <<exists, childStatus, parentStatus, parentRun, failures, fired,
          lastDeferred, op, excused>>

ChildStatus == {"open", "in_review", "closed"}   \* open: not finished
\* closed stands for done and cancelled, which no handler here tells apart
ParentStatus == {"todo", "in_progress", "in_review", "blocked", "closed"}
FinishedStatuses == {"in_review", "closed"}
ClosedStatuses == {"closed"}
AutoStartStatuses == {"todo", "in_progress"}

Step == {"idle", "fire", "insert", "note", "resume", "wake",
         "post", "failed", "reopen", "defer"}
\* self: for the parent itself, not for a sub-issue; seen: the session's copy of the
\* parent's status; group: the sub-issues of the stage to announce.
Op == [at : Step, self : BOOLEAN, seen : ParentStatus, group : SUBSET Children]
Idle == [at |-> "idle", self |-> FALSE, seen |-> "todo", group |-> {}]

TypeOK ==
    /\ exists \subseteq Children
    /\ childStatus \in [Children -> ChildStatus]
    /\ parentStatus \in ParentStatus
    /\ parentRun \in {"none", "pending", "running"}
    /\ failures \in 0..MaxIdleRetries
    /\ fired \subseteq SUBSET exists
    /\ lastDeferred \in BOOLEAN
    /\ op \in [Threads -> Op]
    /\ excused \in BOOLEAN

Init ==
    /\ exists = {}
    /\ childStatus = [c \in Children |-> "open"]
    /\ parentStatus = "todo"
    /\ parentRun = "none"
    /\ failures = 0
    /\ fired = {}
    /\ lastDeferred = FALSE
    /\ op = [t \in Threads |-> Idle]
    /\ excused = FALSE

-----------------------------------------------------------------------------

Group(s) == {c \in exists : StageOf[c] = s}
Announced(s) == Group(s) \in fired
Ready(s) ==
    /\ s # 0 /\ Group(s) # {}
    /\ \A c \in Group(s) : childStatus[c] \in FinishedStatuses
    /\ ~Announced(s)
ReadyStages == {s \in {StageOf[c] : c \in exists} : Ready(s)}
FirstReady == CHOOSE s \in ReadyStages : \A q \in ReadyStages : s <= q

HasUnfinishedChildren == \E c \in exists : childStatus[c] \notin ClosedStatuses

Free(t) == op[t].at = "idle"
Goto(t, at) == op' = [op EXCEPT ![t].at = at]
End(t) == op' = [op EXCEPT ![t] = Idle]

\* queue_issue_run for the parent's agent, by a session with this copy of its status.
QueueParentRun(seen) ==
    IF parentRun = "none"
    THEN /\ parentRun' = "pending"
         /\ parentStatus' = IF seen = "in_progress" THEN parentStatus ELSE "in_progress"
         /\ lastDeferred' = FALSE
    ELSE UNCHANGED <<parentRun, parentStatus, lastDeferred>>

-----------------------------------------------------------------------------
(* Sub-issues *)

AddChild(c) ==
    /\ c \notin exists
    /\ exists' = exists \cup {c}
    /\ UNCHANGED <<childStatus, parentStatus, parentRun, failures, fired, lastDeferred,
                   op, excused>>

\* A status change, an approval on review, or the end of the sub-issue's own run.
MoveChild(t, c, s) ==
    /\ Free(t)
    /\ c \in exists /\ childStatus[c] # s
    /\ childStatus' = [childStatus EXCEPT ![c] = s]
    /\ op' = IF s \in FinishedStatuses THEN [op EXCEPT ![t].at = "fire"] ELSE op
    /\ excused' = (excused /\ (s \notin FinishedStatuses \/ parentStatus \in ClosedStatuses))
    /\ UNCHANGED <<exists, parentStatus, parentRun, failures, fired, lastDeferred>>

\* engine.cancel_issue (the Cancel button, `issue cancel-task`) and the sweep that
\* retires cancelled work do not look at the parent.
CancelTask(c) ==
    /\ c \in exists /\ childStatus[c] # "closed"
    /\ childStatus' = [childStatus EXCEPT ![c] = "closed"]
    /\ excused' = TRUE
    /\ UNCHANGED <<exists, parentStatus, parentRun, failures, fired, lastDeferred, op>>

-----------------------------------------------------------------------------
(* after_issue_finished and fire_ready_stages *)

FireRead(t) ==
    LET quiet == \/ parentStatus \in ClosedStatuses
                 \/ parentRun # "none"
                 \/ ReadyStages = {}
    IN  /\ op[t].at = "fire"
        /\ IF ~quiet THEN op' = [op EXCEPT ![t].at = "insert", ![t].seen = parentStatus,
                                           ![t].group = Group(FirstReady)]
           ELSE IF parentStatus = "blocked" /\ ~op[t].self THEN Goto(t, "resume")
           ELSE End(t)
        /\ UNCHANGED <<exists, childStatus, parentStatus, parentRun, failures, fired,
                       lastDeferred, excused>>

\* Whatever run queue_issue_run returns, the stage will be taken for announced.
InsertStageRun(t) ==
    /\ op[t].at = "insert"
    /\ QueueParentRun(op[t].seen)
    /\ op' = [op EXCEPT ![t].at = "note",
                        ![t].seen = IF parentRun = "none" THEN "in_progress" ELSE @]
    /\ UNCHANGED <<exists, childStatus, failures, fired, excused>>

NoteStage(t) ==
    /\ op[t].at = "note"
    /\ fired' = fired \cup {op[t].group}
    /\ lastDeferred' = FALSE
    /\ IF op[t].seen = "blocked" /\ ~op[t].self
       THEN op' = [op EXCEPT ![t] = [Idle EXCEPT !.at = "resume"]]
       ELSE End(t)
    /\ UNCHANGED <<exists, childStatus, parentStatus, parentRun, failures, excused>>

\* A coordinator that this session saw blocked, waiting for its sub-issues, is resumed
\* when all are closed.
ResumeRead(t) ==
    /\ op[t].at = "resume"
    /\ IF lastDeferred /\ ~HasUnfinishedChildren /\ parentRun = "none"
       THEN op' = [op EXCEPT ![t].at = "wake", ![t].seen = "blocked"] ELSE End(t)
    /\ UNCHANGED <<exists, childStatus, parentStatus, parentRun, failures, fired,
                   lastDeferred, excused>>

Wake(t) ==
    /\ op[t].at = "wake"
    /\ QueueParentRun(op[t].seen)
    /\ End(t)
    /\ UNCHANGED <<exists, childStatus, failures, fired, excused>>

-----------------------------------------------------------------------------
(* The parent and its runs *)

\* The owner closes the parent: its stages are not looked at.
CloseParent ==
    /\ parentStatus \notin ClosedStatuses
    /\ parentStatus' = "closed"
    /\ lastDeferred' = FALSE
    /\ excused' = TRUE
    /\ UNCHANGED <<exists, childStatus, parentRun, failures, fired, op>>

\* The owner starts the parent again.
RestartParent(t) ==
    /\ Free(t)
    /\ parentStatus # "todo"
    /\ parentStatus' = "todo"
    /\ lastDeferred' = FALSE
    /\ op' = [op EXCEPT ![t].at = "wake"]
    /\ UNCHANGED <<exists, childStatus, parentRun, failures, fired, excused>>

\* engine.cancel_issue for the parent.
CancelParent ==
    /\ parentStatus \notin ClosedStatuses
    /\ parentStatus' = "closed"
    /\ parentRun' = "none"
    /\ failures' = IF parentRun = "none" THEN failures ELSE 0
    /\ lastDeferred' = FALSE
    /\ excused' = TRUE
    /\ UNCHANGED <<exists, childStatus, fired, op>>

StartParentRun ==
    /\ parentRun = "pending" /\ parentStatus \notin ClosedStatuses
    /\ parentRun' = "running"
    /\ parentStatus' = "in_progress"
    /\ lastDeferred' = FALSE
    /\ UNCHANGED <<exists, childStatus, failures, fired, op, excused>>

\* Fault: the count of failures in a row is not cut off.
OneMoreFailure_NoLimit(n) == n + 1

\* _consecutive_failures stops counting at the limit.
OneMoreFailure(n) == IF n < MaxIdleRetries THEN n + 1 ELSE n

\* The first transaction of _finish.
FinishParentRun(t, ok) ==
    /\ parentRun = "running" /\ Free(t)
    /\ parentRun' = "none"
    /\ lastDeferred' = FALSE
    /\ parentStatus' = IF ok /\ parentStatus \notin ClosedStatuses
                       THEN "in_review" ELSE parentStatus
    /\ op' = [op EXCEPT ![t].at = IF ok THEN "post" ELSE "failed", ![t].self = ok]
    /\ failures' = IF ok THEN 0 ELSE OneMoreFailure(failures)
    /\ excused' = (excused \/ ~ok)
    /\ UNCHANGED <<exists, childStatus, fired>>

\* What the thread reads next: the parent is closed, has a new run, or waits for its
\* sub-issues.
AfterFinishRead(t, otherwise) ==
    /\ op[t].at \in {"post", "failed"}
    /\ LET next == IF parentRun # "none" THEN "reopen"
                   ELSE IF op[t].at = "failed" THEN "idle"
                   ELSE IF HasUnfinishedChildren THEN "defer"
                   ELSE otherwise
       IN  IF parentStatus \in ClosedStatuses \/ next = "idle" THEN End(t)
           ELSE op' = [op EXCEPT ![t].at = next,
                          ![t].seen = IF next = "fire" THEN @ ELSE parentStatus]
    /\ UNCHANGED <<exists, childStatus, parentStatus, parentRun, failures, fired,
                   lastDeferred, excused>>

\* Fault: a finished coordinator does not look for stages that ended while it was busy.
AfterFinish_NoFire(t) == AfterFinishRead(t, "idle")

AfterFinish(t) == AfterFinishRead(t, "fire")

\* The session writes the status only where it differs from its own copy.
ReopenParent(t) ==
    /\ op[t].at = "reopen"
    /\ parentStatus' = IF op[t].seen = "in_progress" THEN parentStatus ELSE "in_progress"
    /\ End(t)
    /\ UNCHANGED <<exists, childStatus, parentRun, failures, fired, lastDeferred, excused>>

DeferParent(t) ==
    /\ op[t].at = "defer"
    /\ parentStatus' = IF op[t].seen = "blocked" THEN parentStatus ELSE "blocked"
    /\ lastDeferred' = TRUE
    /\ End(t)
    /\ UNCHANGED <<exists, childStatus, parentRun, failures, fired, excused>>

\* requeue_idle_issues, for the parent: it is run again, or blocked after too many
\* failures in a row.
Idling == parentStatus \in AutoStartStatuses /\ parentRun = "none" /\ ~HasUnfinishedChildren

SweepParent ==
    /\ Idling /\ failures < MaxIdleRetries
    /\ QueueParentRun(parentStatus)
    /\ UNCHANGED <<exists, childStatus, failures, fired, op, excused>>

SweepGivesUp ==
    /\ Idling /\ failures = MaxIdleRetries
    /\ parentStatus' = "blocked"
    /\ lastDeferred' = FALSE
    /\ excused' = TRUE
    /\ UNCHANGED <<exists, childStatus, parentRun, failures, fired, op>>

-----------------------------------------------------------------------------

ThreadStep(t) ==
    \/ FireRead(t) \/ InsertStageRun(t) \/ NoteStage(t) \/ ResumeRead(t) \/ Wake(t)
    \/ AfterFinish(t) \/ ReopenParent(t) \/ DeferParent(t)

ProjectStep ==    \* of threads, runs and the sweep
    \/ \E t \in Threads : ThreadStep(t) \/ \E ok \in BOOLEAN : FinishParentRun(t, ok)
    \/ StartParentRun \/ SweepParent \/ SweepGivesUp

UserStep ==
    \/ \E c \in Children : AddChild(c) \/ CancelTask(c)
    \/ \E t \in Threads : \/ \E c \in Children, s \in ChildStatus : MoveChild(t, c, s)
                          \/ RestartParent(t)
    \/ CloseParent \/ CancelParent

Next == ProjectStep \/ UserStep

Spec == Init /\ [][Next]_vars

\* Threads finish what they began, queued runs start, a run succeeds in the end if the
\* parent is run again and again, and the sweep comes round.
Fairness ==
    /\ \A t \in Threads : WF_vars(ThreadStep(t))
    /\ WF_vars(StartParentRun)
    /\ SF_vars(\E t \in Threads : FinishParentRun(t, TRUE))
    /\ SF_vars(SweepParent)

FairSpec == Spec /\ Fairness

-----------------------------------------------------------------------------

\* Every stage all of whose sub-issues are finished was announced.
AllAnnounced == ReadyStages = {}
AllClosed == exists # {} /\ ~HasUnfinishedChildren

\* When all sub-issues are closed, the last of them by a handler, the coordinator is told
\* of every stage, one after the other, also of those that ended while it was busy or in
\* the middle of another announcement (after_issue_finished, test
\* a_stage_that_finishes_while_the_parent_is_busy_fires_after_it_finishes), if in
\* the end the issues are left alone, and no run of the coordinator fails and nobody
\* cancels or closes anything after the last handler.
AnnouncedWhenAllClosed ==
    <>[][ProjectStep]_vars =>
        ((AllClosed /\ ~excused) ~> (AllAnnounced \/ ~AllClosed \/ excused))

\* When every issue in a stage is finished (in review, done or cancelled) the parent's
\* agent gets a run: nothing is at work, so nobody is left to announce a finished stage.
NoStageForgotten ==
    /\ \A t \in Threads : Free(t)
    /\ parentRun = "none"
    /\ parentStatus \notin ClosedStatuses \cup AutoStartStatuses
    => AllAnnounced
=============================================================================
