------------------------------ MODULE Verifier ------------------------------
(***************************************************************************)
(* The second opinion on a finished run (_run_verifier_pass of engine.py).  *)
(*                                                                         *)
(* The thread that finished a run of an agent with a verifier creates a     *)
(* review issue, runs the verifier on it, and applies its verdict to the    *)
(* issue, which may have gone on meanwhile: the owner, the dispatcher and   *)
(* the passes of other runs act on the same rows.  Here is one issue; its   *)
(* agents all have the same verifier.                                       *)
(***************************************************************************)
EXTENDS Naturals, Sequences, FiniteSets

CONSTANTS
    Assignees,               \* agents the issue may be assigned to
    MAX_VERIFIER_RETRIES,  \* rejections after which a human decides
    MaxWork,               \* bound: runs of the issue
    MaxOwnerActs           \* bound: interventions of the owner

ASSUME VerifierAssumption ==
    /\ {MaxWork, MaxOwnerActs} \subseteq Nat
    /\ MAX_VERIFIER_RETRIES \in Nat \ {0}

VARIABLES
    issueStatus,  \* Issue.status
    assignee,     \* Issue.assignee
    gated,        \* require_run_approval of the verifier
    work,         \* the issue's runs in the order of created_at
    review,       \* run -> the pass of the thread that finished it, its review issue and run
    rejections,   \* verification_failed events since the last assigned or verification_passed
    sentBack,     \* history: rework the passes have decided on since then
    ownerActs     \* the number of interventions

verifierVars == <<issueStatus, assignee, gated, work, review, rejections, sentBack, ownerActs>>

WorkRow == [agent : Assignees, status : {"pending", "running", "completed", "failed", "cancelled"}]
NoReview == [at |-> "none", issue |-> "none", run |-> "none", by |-> "pass", passed |-> FALSE]
ReviewRow ==
    [at : {"none", "finished", "opened", "queued", "reviewing", "judging", "deciding", "sendBack",
           "closing", "over"},
     issue : {"none", "open", "done", "cancelled"},
     run : {"none", "waiting", "pending", "running", "completed", "failed", "cancelled"},
     by : {"pass", "dispatcher"}, passed : BOOLEAN]

Slots == 1 .. MaxWork
Runs == DOMAIN work

VerifierTypeOK ==
    /\ issueStatus \in {"todo", "in_progress", "in_review", "done", "cancelled"}
    /\ assignee \in Assignees /\ gated \in BOOLEAN
    /\ work \in Seq(WorkRow) /\ Len(work) <= MaxWork
    /\ review \in [Slots -> ReviewRow]
    /\ rejections \in 0 .. MaxWork /\ sentBack \in 0 .. MaxWork
    /\ ownerActs \in 0 .. MaxOwnerActs

VerifierInit ==
    /\ issueStatus = "todo" /\ assignee \in Assignees /\ gated \in BOOLEAN
    /\ work = <<>>
    /\ review = [r \in Slots |-> NoReview]
    /\ rejections = 0 /\ sentBack = 0 /\ ownerActs = 0

Closed == issueStatus \in {"done", "cancelled"}
Active == {r \in Runs : work[r].status \in {"pending", "running"}}

\* queue_issue_run: an active run of the agent stands, else the queued runs of others are
\* replaced by a new one.
Queued(agent) ==
    IF \E r \in Active : work[r].agent = agent THEN work
    ELSE Append([r \in Runs |-> IF work[r].status = "pending" THEN [work[r] EXCEPT !.status = "cancelled"]
                                ELSE work[r]],
                [agent |-> agent, status |-> "pending"])

-----------------------------------------------------------------------------
(* The issue and its owner *)

OwnerActs == ownerActs < MaxOwnerActs /\ Len(work) < MaxWork /\ ownerActs' = ownerActs + 1

\* Assigning resets the count of rejections and starts a run unless the issue is closed.
AssignWork(agent) ==
    /\ OwnerActs
    /\ assignee' = agent
    /\ rejections' = 0 /\ sentBack' = 0
    /\ IF Closed THEN UNCHANGED <<issueStatus, work>>
       ELSE work' = Queued(agent) /\ issueStatus' = IF work' = work THEN issueStatus ELSE "in_progress"
    /\ UNCHANGED <<gated, review>>

\* Run now opens the issue again, whatever its status, unless the agent has an active run.
RunWork ==
    /\ OwnerActs
    /\ work' = Queued(assignee)
    /\ issueStatus' = IF work' = work THEN issueStatus ELSE "in_progress"
    /\ UNCHANGED <<assignee, gated, review, rejections, sentBack>>

\* Send back, for an issue in review.
SendBackByHand ==
    /\ OwnerActs /\ issueStatus = "in_review"
    /\ work' = Queued(assignee)
    /\ issueStatus' = "in_progress"
    /\ UNCHANGED <<assignee, gated, review, rejections, sentBack>>

\* The owner approves the work, or cancels the issue and with it its runs.
CloseIssue(status) ==
    /\ OwnerActs
    /\ issueStatus' = status
    /\ work' = IF status = "done" THEN work
               ELSE [r \in Runs |-> IF r \in Active THEN [work[r] EXCEPT !.status = "cancelled"] ELSE work[r]]
    /\ UNCHANGED <<assignee, gated, review, rejections, sentBack>>

StartWork(r) ==
    /\ r \in Runs /\ work[r].status = "pending" /\ ~Closed
    /\ \A q \in Runs : work[q].status # "running"
    /\ work' = [work EXCEPT ![r].status = "running"]
    /\ issueStatus' = "in_progress"
    /\ UNCHANGED <<assignee, gated, review, rejections, sentBack, ownerActs>>

\* _finish, in the thread that goes on to the pass; after a failure there is none.
FinishWork(r, status) ==
    /\ r \in Runs /\ work[r].status = "running"
    /\ work' = [work EXCEPT ![r].status = status]
    /\ issueStatus' = IF status = "failed" \/ Closed THEN issueStatus ELSE "in_review"
    /\ review' = IF status = "failed" THEN review ELSE [review EXCEPT ![r].at = "finished"]
    /\ UNCHANGED <<assignee, gated, rejections, sentBack, ownerActs>>

-----------------------------------------------------------------------------
(* The pass *)

beside == <<assignee, gated, work, ownerActs>>

\* Nothing is reviewed for an issue that is closed or goes on; a run that was queued meanwhile
\* keeps it in progress.
OpenReview(r) ==
    /\ review[r].at = "finished"
    /\ review' = IF Closed \/ Active # {} THEN [review EXCEPT ![r].at = "over"]
                 ELSE [review EXCEPT ![r].at = "opened", ![r].issue = "open"]
    /\ issueStatus' = IF ~Closed /\ Active # {} THEN "in_progress" ELSE issueStatus
    /\ UNCHANGED <<beside, rejections, sentBack>>

\* run_issue queues the verifier's run, which opens a review issue cancelled before ...
QueueReview(r) ==
    /\ review[r].at = "opened"
    /\ review' = IF gated THEN [review EXCEPT ![r].at = "queued", ![r].run = "waiting"]
                 ELSE [review EXCEPT ![r].at = "queued", ![r].run = "pending", ![r].issue = "open"]
    /\ UNCHANGED <<issueStatus, beside, rejections, sentBack>>

\* ... and claims it, unless it waits for approval or is no longer pending: then the run is
\* returned as it is.
ClaimReview(r) ==
    /\ review[r].at = "queued"
    /\ review' = IF review[r].run = "pending" /\ review[r].issue = "open"
                 THEN [review EXCEPT ![r].at = "reviewing", ![r].run = "running"]
                 ELSE [review EXCEPT ![r].at = "judging"]
    /\ UNCHANGED <<issueStatus, beside, rejections, sentBack>>

\* The dispatcher takes any pending run.
DispatchReview(r) ==
    /\ review[r].run = "pending" /\ review[r].issue = "open"
    /\ review' = [review EXCEPT ![r].run = "running", ![r].by = "dispatcher"]
    /\ UNCHANGED <<issueStatus, beside, rejections, sentBack>>

\* The verifier answers or fails.
FinishReview(r, status, passed) ==
    /\ review[r].run = "running"
    /\ passed => status = "completed"
    /\ review' = [review EXCEPT ![r].run = status, ![r].passed = passed,
                                ![r].at = IF review[r].by = "pass" THEN "judging" ELSE @]
    /\ UNCHANGED <<issueStatus, beside, rejections, sentBack>>

\* The owner approves the waiting run of the verifier, or cancels the review issue.
ApproveReview(r) ==
    /\ review[r].run = "waiting" /\ OwnerActs
    /\ review' = [review EXCEPT ![r].run = "pending"]
    /\ UNCHANGED <<issueStatus, assignee, gated, work, rejections, sentBack>>

CancelReview(r) ==
    /\ review[r].issue = "open" /\ OwnerActs
    /\ review' = [review EXCEPT ![r].issue = "cancelled",
                    ![r].run = IF @ \in {"waiting", "pending", "running"} THEN "cancelled" ELSE @,
                    ![r].at = IF @ = "reviewing" THEN "judging" ELSE @]
    /\ UNCHANGED <<issueStatus, assignee, gated, work, rejections, sentBack>>

\* The verdict is dropped if the issue was closed or has a newer run that was not cancelled.
Judge(r) ==
    /\ review[r].at = "judging"
    /\ LET newer == \E q \in Runs : q > r /\ work[q].status # "cancelled"
       IN  review' = IF Closed \/ newer \/ Active # {}
                     THEN [review EXCEPT ![r].at = "over", ![r].issue = "cancelled"]
                     ELSE [review EXCEPT ![r].at = "deciding"]
    /\ UNCHANGED <<issueStatus, beside, rejections, sentBack>>

Passed(r) == review[r].run = "completed" /\ review[r].passed

\* The status is written by primary key, whatever happened since the look.
Accept(r) ==
    /\ review[r].at = "deciding" /\ Passed(r)
    /\ issueStatus' = "done"
    /\ rejections' = 0 /\ sentBack' = 0
    /\ review' = [review EXCEPT ![r].at = "closing"]
    /\ UNCHANGED beside

\* Fault: the rejections are counted before this one is recorded.
Reject_CountsBefore(r) ==
    /\ review[r].at = "deciding" /\ ~Passed(r)
    /\ rejections' = rejections + 1
    /\ IF rejections >= MAX_VERIFIER_RETRIES
       THEN /\ issueStatus' = "in_review"
            /\ review' = [review EXCEPT ![r].at = "closing"]
            /\ UNCHANGED sentBack
       ELSE /\ issueStatus' = "in_progress"
            /\ review' = [review EXCEPT ![r].at = "sendBack"]
            /\ sentBack' = sentBack + 1
    /\ UNCHANGED beside

\* Event, count and status are one transaction: the event is flushed before the count.
Reject(r) ==
    /\ review[r].at = "deciding" /\ ~Passed(r)
    /\ rejections' = rejections + 1
    /\ IF rejections' >= MAX_VERIFIER_RETRIES
       THEN /\ issueStatus' = "in_review"
            /\ review' = [review EXCEPT ![r].at = "closing"]
            /\ UNCHANGED sentBack
       ELSE /\ issueStatus' = "in_progress"
            /\ review' = [review EXCEPT ![r].at = "sendBack"]
            /\ sentBack' = sentBack + 1
    /\ UNCHANGED beside

\* The rework is queued for the current assignee; the status is written unless the copy that
\* was refreshed just before said in progress.
SendWorkBack(r) ==
    /\ review[r].at = "sendBack" /\ Len(work) < MaxWork
    /\ work' = Queued(assignee)
    /\ issueStatus' \in IF work' = work THEN {issueStatus} ELSE {issueStatus, "in_progress"}
    /\ review' = [review EXCEPT ![r].at = "closing"]
    /\ UNCHANGED <<assignee, gated, rejections, sentBack, ownerActs>>

CloseReview(r) ==
    /\ review[r].at = "closing"
    /\ review' = [review EXCEPT ![r].at = "over", ![r].issue = "done"]
    /\ UNCHANGED <<issueStatus, beside, rejections, sentBack>>

VerifierNext ==
    \/ \E a \in Assignees : AssignWork(a)
    \/ RunWork \/ SendBackByHand
    \/ \E status \in {"done", "cancelled"} : CloseIssue(status)
    \/ \E r \in Slots :
         \/ StartWork(r) \/ FinishWork(r, "completed") \/ FinishWork(r, "failed")
         \/ OpenReview(r) \/ QueueReview(r) \/ ClaimReview(r) \/ DispatchReview(r)
         \/ \E status \in {"completed", "failed"}, passed \in BOOLEAN : FinishReview(r, status, passed)
         \/ ApproveReview(r) \/ CancelReview(r)
         \/ Judge(r) \/ Accept(r) \/ Reject(r) \/ SendWorkBack(r) \/ CloseReview(r)

VerifierSpec == VerifierInit /\ [][VerifierNext]_verifierVars

-----------------------------------------------------------------------------

\* However passes, owner and dispatcher interleave, work is sent back automatically fewer than
\* three times between an assignment or a passed check and the next ("It does not keep retrying
\* indefinitely", docs/ORCHESTRATION_RECOVERY.md:27-29; the comment on give_up).
ReworkBounded == sentBack < MAX_VERIFIER_RETRIES
=============================================================================
