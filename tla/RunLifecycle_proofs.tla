------------------------ MODULE RunLifecycle_proofs ------------------------
(***************************************************************************)
(* Theorems about RunLifecycle, for any number of issues, agents,          *)
(* processes, threads and runs.                                            *)
(***************************************************************************)
EXTENDS RunLifecycle, NaturalsInduction, WellFoundedInduction, TLAPS

-----------------------------------------------------------------------------
(* Type correctness *)

\* The record a handler keeps between its read and its write is an Op.
LEMMA BeginType ==
    ASSUME op \in [Threads -> Op], NEW t, NEW kind \in OpKind,
           NEW i \in Issues \cup {None}, NEW a \in Agents \cup {None},
           NEW r \in 0 .. MaxRuns, NEW skip \in BOOLEAN,
           Begin(t, kind, i, a, r, skip)
    PROVE  op' \in [Threads -> Op]
BY DEF Begin, Op

\* A thread at rest is a value of the type.
LEMMA IdleType == Idle \in Op
<1>1. "idle" \in OpKind /\ 0 \in 0 .. MaxRuns /\ FALSE \in BOOLEAN
  BY BoundAssumption DEF OpKind
<1> QED
  BY <1>1 DEF Idle, Op

\* Ending an operation keeps the type of op.
LEMMA DoneType ==
    ASSUME op \in [Threads -> Op], NEW t, Done(t)
    PROVE  op' \in [Threads -> Op]
BY IdleType DEF Done

\* Beginning to queue a run keeps the type of op.
LEMMA BeginQueueType ==
    ASSUME op \in [Threads -> Op], NEW t, NEW i \in Issues \cup {None},
           NEW a \in Agents \cup {None}, NEW seen, BeginQueue(t, i, a, seen)
    PROVE  op' \in [Threads -> Op]
<1>1. (seen = "in_progress") \in BOOLEAN
  OBVIOUS
<1>2. "queue" \in OpKind /\ 0 \in 0 .. MaxRuns
  BY BoundAssumption DEF OpKind
<1> QED
  BY <1>1, <1>2, BeginType DEF BeginQueue

\* The ORM's write of a status keeps the type of issueStatus.
LEMMA OrmWriteType ==
    ASSUME TypeOK, NEW t \in Threads, NEW s \in IssueStatus
    PROVE  OrmWrite(t, s) \in [Issues -> IssueStatus]
BY DEF OrmWrite, TypeOK

\* A row inserted into the table is a row, whatever it supersedes.
LEMMA InsertRunType ==
    ASSUME TypeOK, NEW i \in Issues \cup {None}, NEW a \in Agents \cup {None},
           NEW st \in RunStatus, NEW from \in 0 .. MaxRuns, NEW superseded,
           InsertRun(i, a, st, from, superseded)
    PROVE  /\ nRuns' \in 0 .. MaxRuns
           /\ run' \in [RunIds -> RunRow]
           /\ runStatus' \in [RunIds -> RunStatus \cup {"none"}]
<1>1. nRuns' \in 0 .. MaxRuns
  BY BoundAssumption DEF InsertRun, TypeOK
<1>2. [issue |-> i, agent |-> a, from |-> from] \in RunRow
  BY DEF RunRow
<1>3. run' \in [RunIds -> RunRow]
  BY <1>2 DEF InsertRun, TypeOK
<1>4. "cancelled" \in RunStatus
  BY DEF RunStatus
<1>5. runStatus' \in [RunIds -> RunStatus \cup {"none"}]
  BY <1>4 DEF InsertRun, TypeOK
<1> QED
  BY <1>1, <1>3, <1>5

\* A new run starts in a status runs have.
LEMMA FirstStatusType ==
    ASSUME NEW a
    PROVE  FirstStatus(a) \in RunStatus /\ FirstStatus(a) \in WaitingStatuses
BY DEF FirstStatus, RunStatus, WaitingStatuses

\* 0, for no run, is an index.
LEMMA ZeroIndex == 0 \in 0 .. MaxRuns
BY BoundAssumption

\* What the actions read from the rows they use is typed.
LEMMA Fields ==
    ASSUME TypeOK
    PROVE  /\ \A t \in Threads : /\ op[t].issue \in Issues \cup {None}
                                 /\ op[t].agent \in Agents \cup {None}
                                 /\ op[t].run \in 0 .. MaxRuns
           /\ \A r \in RunIds : /\ run[r].issue \in Issues \cup {None}
                                /\ run[r].agent \in Agents \cup {None}
                                /\ r \in 0 .. MaxRuns
<1>1. \A o \in Op : /\ o.issue \in Issues \cup {None}
                    /\ o.agent \in Agents \cup {None}
                    /\ o.run \in 0 .. MaxRuns
  BY DEF Op
<1>2. \A o \in RunRow : o.issue \in Issues \cup {None} /\ o.agent \in Agents \cup {None}
  BY DEF RunRow
<1>3. \A r \in RunIds : r \in 0 .. MaxRuns
  BY BoundAssumption DEF RunIds
<1> QED
  BY <1>1, <1>2, <1>3 DEF TypeOK

\* Changing the kind of the operation of a thread.
LEMMA KindType ==
    ASSUME op \in [Threads -> Op], NEW t \in Threads, NEW kind \in OpKind,
           op' = [op EXCEPT ![t].kind = kind]
    PROVE  op' \in [Threads -> Op]
<1>1. [op[t] EXCEPT !.kind = kind] \in Op
  BY DEF Op
<1> QED
  BY <1>1

\* The type invariant holds at first.
LEMMA TypeInit == Init => TypeOK
<1> SUFFICES ASSUME Init PROVE TypeOK
  OBVIOUS
<1>2. NoRow \in RunRow /\ nRuns \in 0 .. MaxRuns
  BY BoundAssumption DEF Init, NoRow, RunRow
<1> QED
  BY IdleType, <1>2 DEF Init, TypeOK, IssueStatus

\* Every step preserves the type invariant.
LEMMA TypeNext == TypeOK /\ [Next]_vars => TypeOK'
<1> SUFFICES ASSUME TypeOK, [Next]_vars PROVE TypeOK'
  OBVIOUS
<1>a. op \in [Threads -> Op]
  BY DEF TypeOK
<1> USE Fields
<1>1. ASSUME NEW t \in Threads, NEW i \in Issues, NEW a \in Agents \cup {None},
             NEW promote \in BOOLEAN, NEW start \in BOOLEAN,
             Assign(t, i, a, promote, start)
      PROVE  TypeOK'
  <2>1. op' \in [Threads -> Op]
    BY <1>1, <1>a, BeginQueueType DEF Assign, StartAgentRun
  <2> QED
    BY <1>1, <2>1 DEF Assign, UnchangedRuns, TypeOK, IssueStatus
<1>2. ASSUME NEW t \in Threads, NEW i \in Issues, NEW s \in IssueStatus,
             NEW start \in BOOLEAN, ChangeStatus(t, i, s, start)
      PROVE  TypeOK'
  <2>1. op' \in [Threads -> Op]
    BY <1>2, <1>a, BeginQueueType DEF ChangeStatus, StartAgentRun, TypeOK
  <2> QED
    BY <1>2, <2>1 DEF ChangeStatus, UnchangedRuns, TypeOK
<1>3. ASSUME NEW i \in Issues, ReviewApprove(i)
      PROVE  TypeOK'
  BY <1>3 DEF ReviewApprove, UnchangedRuns, TypeOK, IssueStatus
<1>4. ASSUME NEW t \in Threads, NEW i \in Issues, RunNow(t, i)
      PROVE  TypeOK'
  <2>1. op' \in [Threads -> Op]
    BY <1>4, <1>a, BeginQueueType DEF RunNow, TypeOK
  <2> QED
    BY <1>4, <2>1 DEF RunNow, UnchangedRuns, TypeOK
<1>5. ASSUME NEW t \in Threads, NEW r \in RunIds, RetryRun(t, r) \/ ContinueRun(t, r)
      PROVE  TypeOK'
  <2>1. op' \in [Threads -> Op]
    BY <1>5, <1>a, BeginQueueType DEF RetryRun, ContinueRun
  <2> QED
    BY <1>5, <2>1 DEF RetryRun, ContinueRun, UnchangedRuns, TypeOK
<1>6. ASSUME NEW r \in RunIds, ApproveRun(r) \/ RejectRun(r)
      PROVE  TypeOK'
  BY <1>6 DEF ApproveRun, RejectRun, TypeOK, IssueStatus, RunStatus
<1>7. ASSUME NEW i \in Issues, CancelIssue(i)
      PROVE  TypeOK'
  BY <1>7 DEF CancelIssue, TypeOK, IssueStatus, RunStatus
<1>8. ASSUME NEW t \in Threads, NEW i \in Issues, SendBack(t, i)
      PROVE  TypeOK'
  <2>1. issueStatus' \in [Issues -> IssueStatus]
    BY <1>8 DEF SendBack, TypeOK, IssueStatus
  <2>2. /\ nRuns' \in 0 .. MaxRuns
        /\ run' \in [RunIds -> RunRow]
        /\ runStatus' \in [RunIds -> RunStatus \cup {"none"}]
    <3>1. CASE UNCHANGED <<nRuns, run, runStatus>>
      BY <3>1 DEF TypeOK
    <3>2. CASE InsertRun(i, assignee[i], FirstStatus(assignee[i]), 0,
                         Superseded(i, assignee[i]))
      <4>1. assignee[i] \in Agents \cup {None} /\ i \in Issues \cup {None}
        BY DEF TypeOK
      <4> QED
        BY <3>2, <4>1, InsertRunType, FirstStatusType, ZeroIndex
    <3> QED
      BY <1>8, <3>1, <3>2 DEF SendBack
  <2> QED
    BY <1>8, <2>1, <2>2 DEF SendBack, TypeOK
<1>9. ASSUME NEW t \in Threads, QueueRead(t)
      PROVE  TypeOK'
  <2>1. op' \in [Threads -> Op]
    BY <1>9, <1>a, DoneType, KindType DEF QueueRead, OpKind
  <2>2. queueLock' \in [Procs -> Threads \cup {None}]
    BY <1>9 DEF QueueRead, TypeOK
  <2> QED
    BY <1>9, <2>1, <2>2 DEF QueueRead, UnchangedRuns, TypeOK
<1>10. ASSUME NEW t \in Threads, QueueInsert(t)
       PROVE  TypeOK'
  <2>1. op' \in [Threads -> Op]
    BY <1>10, <1>a, DoneType DEF QueueInsert
  <2>2. issueStatus' \in [Issues -> IssueStatus]
    BY <1>10, OrmWriteType DEF QueueInsert, TypeOK, IssueStatus
  <2>3. /\ nRuns' \in 0 .. MaxRuns
        /\ run' \in [RunIds -> RunRow]
        /\ runStatus' \in [RunIds -> RunStatus \cup {"none"}]
    <3>1. InsertRun(op[t].issue, op[t].agent, FirstStatus(op[t].agent), 0,
                    Superseded(op[t].issue, op[t].agent))
      BY <1>10 DEF QueueInsert
    <3> QED
      BY <3>1, InsertRunType, FirstStatusType, ZeroIndex
  <2>4. queueLock' \in [Procs -> Threads \cup {None}]
    BY <1>10 DEF QueueInsert, TypeOK
  <2> QED
    BY <1>10, <2>1, <2>2, <2>3, <2>4 DEF QueueInsert, TypeOK
<1>11. ASSUME NEW t \in Threads, NEW r \in RunIds, PickRun(t, r)
       PROVE  TypeOK'
  <2>1. (issueStatus[run[r].issue] = "in_progress") \in BOOLEAN
    OBVIOUS
  <2>2. op' \in [Threads -> Op]
    BY <1>11, <1>a, <2>1, BeginType DEF PickRun, OpKind
  <2> QED
    BY <1>11, <2>2 DEF PickRun, UnchangedRuns, TypeOK
<1>12. ASSUME NEW t \in Threads, ClaimRun(t)
       PROVE  TypeOK'
  <2>1. op' \in [Threads -> Op]
    BY <1>12, <1>a, DoneType DEF ClaimRun
  <2>2. issueStatus' \in [Issues -> IssueStatus]
    BY <1>12, OrmWriteType DEF ClaimRun, IssueStatus
  <2>3. owner' \in [RunIds -> Procs \cup {None, Gone}]
    BY <1>12, ThreadAssumption DEF ClaimRun, TypeOK
  <2> QED
    BY <1>12, <2>1, <2>2, <2>3 DEF ClaimRun, TypeOK, RunStatus
<1>13. ASSUME NEW t \in Threads, ClaimLost(t)
       PROVE  TypeOK'
  BY <1>13, <1>a, DoneType DEF ClaimLost, UnchangedRuns, TypeOK
<1>14. ASSUME NEW r \in RunIds, ExecuteStep(r)
       PROVE  TypeOK'
  BY <1>14 DEF ExecuteStep, FinishRun, FinishLate, AfterFinish, ReopenForFollowup,
               ReviewStatus, TypeOK, IssueStatus, RunStatus
<1>15. ASSUME NEW t \in Threads, NEW r \in RunIds, RecoverRun(t, r)
       PROVE  TypeOK'
  <2>1. op' \in [Threads -> Op]
    BY <1>15, <1>a, BeginType DEF RecoverRun, OpKind
  <2> QED
    BY <1>15, <2>1 DEF RecoverRun, TypeOK, RunStatus
<1>16. ASSUME NEW t \in Threads, RecoverDecide(t)
       PROVE  TypeOK'
  <2> DEFINE decided(next) ==
               [op[t] EXCEPT !.kind = next, !.skip = issueStatus[op[t].issue] = "blocked"]
  <2>1. (issueStatus[op[t].issue] = "blocked") \in BOOLEAN /\ op[t] \in Op
    BY <1>a
  <2>2. \A next \in OpKind : decided(next) \in Op
    BY <2>1 DEF Op
  <2>3. "abandon" \in OpKind /\ "resume" \in OpKind
    BY DEF OpKind
  <2>4. \/ op' = [op EXCEPT ![t] = Idle]
        \/ op' = [op EXCEPT ![t] = decided("abandon")]
        \/ op' = [op EXCEPT ![t] = decided("resume")]
    BY <1>16 DEF RecoverDecide
  <2>5. op' \in [Threads -> Op]
    BY <1>a, <2>2, <2>3, <2>4, IdleType
  <2> QED
    BY <1>16, <2>5 DEF RecoverDecide, UnchangedRuns, TypeOK
<1>17. ASSUME NEW t \in Threads, ResumeRun(t)
       PROVE  TypeOK'
  <2>1. op' \in [Threads -> Op]
    BY <1>17, <1>a, DoneType DEF ResumeRun
  <2>2. InsertRun(op[t].issue, op[t].agent, "pending", op[t].run, {})
    BY <1>17 DEF ResumeRun
  <2>3. "pending" \in RunStatus
    BY DEF RunStatus
  <2>4. /\ nRuns' \in 0 .. MaxRuns
        /\ run' \in [RunIds -> RunRow]
        /\ runStatus' \in [RunIds -> RunStatus \cup {"none"}]
    BY <2>2, <2>3, InsertRunType
  <2> QED
    BY <1>17, <2>1, <2>4 DEF ResumeRun, TypeOK
<1>18. ASSUME NEW t \in Threads, AbandonIssue(t) \/ RetireIssue(t) \/ BlockIdle(t)
       PROVE  TypeOK'
  <2>1. op' \in [Threads -> Op]
    BY <1>18, <1>a, DoneType DEF AbandonIssue, RetireIssue, BlockIdle
  <2>2. issueStatus' \in [Issues -> IssueStatus]
    BY <1>18, OrmWriteType DEF AbandonIssue, RetireIssue, BlockIdle, IssueStatus
  <2> QED
    BY <1>18, <2>1, <2>2 DEF AbandonIssue, RetireIssue, BlockIdle, UnchangedRuns, TypeOK
<1>19. ASSUME NEW t \in Threads, NEW i \in Issues, ReconcileRead(t, i)
       PROVE  TypeOK'
  <2>1. op' \in [Threads -> Op]
    BY <1>19, <1>a, BeginType, ZeroIndex DEF ReconcileRead, OpKind
  <2> QED
    BY <1>19, <2>1 DEF ReconcileRead, UnchangedRuns, TypeOK
<1>20. ASSUME NEW t \in Threads, NEW i \in Issues, RequeueIdle(t, i)
       PROVE  TypeOK'
  <2>1. op' \in [Threads -> Op]
    <3>1. CASE Begin(t, "giveup", i, None, 0, FALSE)
      BY <3>1, <1>a, BeginType, ZeroIndex DEF OpKind
    <3>2. CASE BeginQueue(t, i, assignee[i], issueStatus[i])
      BY <3>2, <1>a, BeginQueueType DEF TypeOK
    <3> QED
      BY <1>20, <3>1, <3>2 DEF RequeueIdle
  <2> QED
    BY <1>20, <2>1 DEF RequeueIdle, UnchangedRuns, TypeOK
<1>21. ASSUME NEW t \in Threads, SessionFails(t)
       PROVE  TypeOK'
  BY <1>21, <1>a, DoneType DEF SessionFails, UnchangedRuns, TypeOK
<1>22. ASSUME NEW p \in Procs, Crash(p)
       PROVE  TypeOK'
  BY <1>22, <1>a, IdleType DEF Crash, TypeOK
<1>23. CASE UNCHANGED vars
  BY <1>23 DEF vars, TypeOK
<1>24. ASSUME OwnerStep PROVE TypeOK'
  BY <1>24, <1>1, <1>2, <1>3, <1>4, <1>5, <1>6, <1>7, <1>8
     DEF OwnerStep, WebAssign, CliAssign, Unassign, WebStatus, CliStatus
<1> QED
  BY <1>9, <1>10, <1>11, <1>12, <1>13, <1>14, <1>15, <1>16, <1>17, <1>18, <1>19,
     <1>20, <1>21, <1>22, <1>23, <1>24
     DEF Next, HealthyStep, QueueStep, DispatchStep, RecoveryStep, SweepStep

\* Every reachable state has the types that models.py gives the columns.
THEOREM TypeCorrect == Spec => []TypeOK
BY TypeInit, TypeNext, PTL DEF Spec

-----------------------------------------------------------------------------
(* The rows of the runs table *)

\* Rows that are not inserted yet have no status.
UnusedRows == \A r \in RunIds : r > nRuns => runStatus[r] = "none"

\* A run is executed by a process that exists.
ExecutingOwned == \A r \in RunIds : exec[r] = "run" => owner[r] \in Procs

\* The inductive invariant: OneRunningPerIssue needs UnusedRows when a row is inserted,
\* ExecutionMatchesRow needs ExecutingOwned when recovery takes a run over.
RowInv ==
    /\ UnusedRows
    /\ ExecutingOwned
    /\ ExecutionMatchesRow
    /\ OneRunningPerIssue

\* The steps that change a run.
LEMMA StepCases ==
    ASSUME [Next]_vars
    PROVE  \/ UnchangedRuns
           \/ \E r \in RunIds : ApproveRun(r) \/ RejectRun(r)
           \/ \E i \in Issues : CancelIssue(i)
           \/ \E t \in Threads, i \in Issues : SendBack(t, i)
           \/ \E t \in Threads : QueueInsert(t)
           \/ \E t \in Threads : ClaimRun(t)
           \/ \E r \in RunIds : ExecuteStep(r)
           \/ \E t \in Threads, r \in RunIds : RecoverRun(t, r)
           \/ \E t \in Threads : ResumeRun(t)
           \/ \E p \in Procs : Crash(p)
<1>1. CASE UNCHANGED vars
  BY <1>1 DEF vars, UnchangedRuns
<1>2. CASE OwnerStep
  BY <1>2 DEF OwnerStep, WebAssign, CliAssign, Unassign, Assign, WebStatus, CliStatus,
              ChangeStatus, RunNow, RetryRun, ContinueRun, ReviewApprove
<1>3. CASE \E t \in Threads : \/ QueueStep(t) \/ DispatchStep(t)
                              \/ RecoveryStep(t) \/ SweepStep(t)
  BY <1>3 DEF QueueStep, QueueRead, DispatchStep, PickRun, ClaimLost, RecoveryStep,
              RecoverDecide, AbandonIssue, SweepStep, ReconcileRead, RequeueIdle,
              RetireIssue, BlockIdle
<1>4. CASE \E t \in Threads : SessionFails(t)
  BY <1>4 DEF SessionFails
<1> QED
  BY <1>1, <1>2, <1>3, <1>4 DEF Next, HealthyStep

\* What an insertion does to the rows, whatever it supersedes.
LEMMA InsertRows ==
    ASSUME TypeOK, NEW i, NEW a, NEW st, NEW from, NEW superseded,
           InsertRun(i, a, st, from, superseded)
    PROVE  /\ nRuns' = nRuns + 1
           /\ nRuns + 1 \in RunIds
           /\ run'[nRuns + 1] = [issue |-> i, agent |-> a, from |-> from]
           /\ runStatus'[nRuns + 1] = st
           /\ \A r \in RunIds \ {nRuns + 1} :
                  /\ run'[r] = run[r]
                  /\ runStatus'[r] = runStatus[r]
                     \/ (r \in superseded /\ runStatus'[r] = "cancelled")
<1>1. nRuns \in Nat /\ nRuns + 1 \in RunIds
  BY BoundAssumption DEF InsertRun, TypeOK, RunIds
<1> QED
  BY <1>1 DEF InsertRun, TypeOK

\* The two callers of queue_issue_run supersede waiting runs only.
LEMMA QueuedRows ==
    ASSUME TypeOK, UnusedRows, NEW i \in Issues \cup {None}, NEW a \in Agents \cup {None},
           InsertRun(i, a, FirstStatus(a), 0, Superseded(i, a))
    PROVE  /\ nRuns' = nRuns + 1 /\ nRuns \in Nat /\ nRuns + 1 \in RunIds
           /\ runStatus[nRuns + 1] = "none"
           /\ runStatus'[nRuns + 1] \in WaitingStatuses
           /\ run'[nRuns + 1] = [issue |-> i, agent |-> a, from |-> 0]
           /\ \A r \in RunIds \ {nRuns + 1} :
                  /\ run'[r] = run[r]
                  /\ \/ runStatus'[r] = runStatus[r]
                     \/ runStatus[r] \in WaitingStatuses /\ runStatus'[r] = "cancelled"
<1>1. nRuns \in Nat
  BY DEF TypeOK
<1>2. nRuns + 1 \in RunIds => runStatus[nRuns + 1] = "none"
  BY <1>1 DEF UnusedRows
<1> QED
  BY <1>1, <1>2, InsertRows, FirstStatusType DEF Superseded

\* What a recovery adds to the table.
LEMMA ResumedRows ==
    ASSUME TypeOK, UnusedRows, NEW t \in Threads, ResumeRun(t)
    PROVE  /\ nRuns' = nRuns + 1 /\ nRuns \in Nat /\ nRuns + 1 \in RunIds
           /\ runStatus[nRuns + 1] = "none"
           /\ runStatus'[nRuns + 1] \in WaitingStatuses
           /\ run'[nRuns + 1] = [issue |-> op[t].issue, agent |-> op[t].agent,
                                 from |-> op[t].run]
           /\ \A r \in RunIds \ {nRuns + 1} :
                  run'[r] = run[r] /\ runStatus'[r] = runStatus[r]
<1>1. nRuns \in Nat
  BY DEF TypeOK
<1>2. nRuns + 1 \in RunIds => runStatus[nRuns + 1] = "none"
  BY <1>1 DEF UnusedRows
<1>3. InsertRun(op[t].issue, op[t].agent, "pending", op[t].run, {})
  BY DEF ResumeRun
<1> QED
  BY <1>1, <1>2, <1>3, InsertRows DEF WaitingStatuses

\* A row was inserted, and of the others waiting runs at most were cancelled.
Inserted ==
    /\ nRuns' = nRuns + 1 /\ nRuns \in Nat /\ nRuns + 1 \in RunIds
    /\ runStatus[nRuns + 1] = "none"
    /\ runStatus'[nRuns + 1] \in WaitingStatuses
    /\ \A r \in RunIds \ {nRuns + 1} :
           /\ run'[r] = run[r]
           /\ \/ runStatus'[r] = runStatus[r]
              \/ runStatus[r] \in WaitingStatuses /\ runStatus'[r] = "cancelled"

\* Every action that adds a row adds one that waits, and starts nothing.
LEMMA Insertions ==
    ASSUME TypeOK, UnusedRows, NEW t \in Threads,
           \/ \E i \in Issues : SendBack(t, i)
           \/ QueueInsert(t)
           \/ ResumeRun(t)
    PROVE  Inserted \/ UNCHANGED <<nRuns, run, runStatus>>
<1>1. CASE \E i \in Issues : SendBack(t, i)
  <2>1. PICK i \in Issues : SendBack(t, i)
    BY <1>1
  <2>2. assignee[i] \in Agents \cup {None}
    BY DEF TypeOK
  <2> QED
    BY <2>1, <2>2, QueuedRows DEF SendBack, Inserted
<1>2. CASE QueueInsert(t)
  BY <1>2, Fields, QueuedRows DEF QueueInsert, Inserted
<1>3. CASE ResumeRun(t)
  BY <1>3, ResumedRows DEF Inserted
<1> QED
  BY <1>1, <1>2, <1>3

\* The rows in use are rows of the table.
LEMMA UsedRows == ASSUME TypeOK PROVE 1 .. nRuns \subseteq RunIds /\ nRuns \in Nat
BY BoundAssumption DEF TypeOK, RunIds

\* A step after which no other run is RUNNING keeps the runs of an issue serialized.
LEMMA NoNewRunning ==
    ASSUME TypeOK, TypeOK', UnusedRows, OneRunningPerIssue,
           \A r \in RunIds : runStatus'[r] = "running" =>
                               runStatus[r] = "running" /\ run'[r] = run[r]
    PROVE  OneRunningPerIssue'
<1>1. 1 .. nRuns' \subseteq RunIds
  BY BoundAssumption DEF TypeOK, RunIds
<1>2. \A r \in RunIds : runStatus[r] = "running" => r \in 1 .. nRuns
  BY UsedRows DEF UnusedRows, RunIds
<1> QED
  BY <1>1, <1>2 DEF OneRunningPerIssue

\* Adding a row preserves the invariant.
LEMMA InsertedRowInv ==
    ASSUME TypeOK, TypeOK', RowInv, Inserted, UNCHANGED <<owner, exec>>
    PROVE  RowInv'
<1> USE DEF RowInv, Inserted, WaitingStatuses
<1>1. UnusedRows'
  BY DEF UnusedRows, RunIds
<1>2. ExecutingOwned'
  BY DEF ExecutingOwned
<1>3. ExecutionMatchesRow'
  BY DEF ExecutionMatchesRow
<1>4. OneRunningPerIssue'
  BY NoNewRunning
<1> QED
  BY <1>1, <1>2, <1>3, <1>4

\* The invariant holds at first.
LEMMA RowInit == Init => RowInv
<1> SUFFICES ASSUME Init PROVE RowInv
  OBVIOUS
<1>1. 1 .. nRuns = {}
  BY DEF Init
<1> QED
  BY <1>1 DEF Init, RowInv, UnusedRows, ExecutingOwned, ExecutionMatchesRow,
              OneRunningPerIssue

\* Every step preserves the invariant.
LEMMA RowNext == TypeOK /\ RowInv /\ [Next]_vars => RowInv'
<1> SUFFICES ASSUME TypeOK, RowInv, [Next]_vars PROVE RowInv'
  OBVIOUS
<1> USE DEF RowInv
<1>a. TypeOK'
  BY TypeNext
<1>1. CASE UnchangedRuns
  BY <1>1 DEF UnchangedRuns, UnusedRows, ExecutingOwned, ExecutionMatchesRow,
              OneRunningPerIssue, RunsOf
<1>2. ASSUME NEW r \in RunIds, ApproveRun(r) \/ RejectRun(r)
      PROVE  RowInv'
  <2>1. OneRunningPerIssue'
    BY <1>2, <1>a, NoNewRunning DEF ApproveRun, RejectRun, TypeOK
  <2> QED
    BY <1>2, <2>1 DEF ApproveRun, RejectRun, UnusedRows, ExecutingOwned,
                      ExecutionMatchesRow, TypeOK
<1>3. ASSUME NEW i \in Issues, CancelIssue(i)
      PROVE  RowInv'
  <2>1. \A r \in RunIds :
           \/ runStatus'[r] = runStatus[r]
           \/ runStatus'[r] = "cancelled" /\ r \in RunsOf(i)
    BY <1>3 DEF CancelIssue
  <2>2. OneRunningPerIssue'
    BY <1>3, <1>a, <2>1, NoNewRunning DEF CancelIssue
  <2>3. UNCHANGED <<nRuns, exec, owner>>
    BY <1>3 DEF CancelIssue
  <2>4. UnusedRows'
    BY <2>1, <2>3 DEF UnusedRows, RunsOf, TypeOK
  <2> QED
    BY <2>1, <2>2, <2>3, <2>4 DEF ExecutingOwned, ExecutionMatchesRow
<1>4. ASSUME NEW t \in Threads,
             (\E i \in Issues : SendBack(t, i)) \/ QueueInsert(t) \/ ResumeRun(t)
      PROVE  RowInv'
  <2>1. UNCHANGED <<owner, exec>>
    BY <1>4 DEF SendBack, QueueInsert, ResumeRun
  <2>2. CASE Inserted
    BY <1>a, <2>1, <2>2, InsertedRowInv
  <2>3. CASE UNCHANGED <<nRuns, run, runStatus>>
    BY <2>1, <2>3 DEF UnusedRows, ExecutingOwned, ExecutionMatchesRow, OneRunningPerIssue
  <2> QED
    BY <1>4, <2>2, <2>3, Insertions
<1>5. ASSUME NEW t \in Threads, ClaimRun(t)
      PROVE  RowInv'
  <2> DEFINE r == op[t].run
  <2>1. /\ runStatus' = [runStatus EXCEPT ![r] = "running"]
        /\ owner' = [owner EXCEPT ![r] = ProcOf[t]]
        /\ exec' = [exec EXCEPT ![r] = "run"]
        /\ UNCHANGED <<nRuns, run>>
        /\ runStatus[r] = "pending"
        /\ \A q \in RunsOf(run[r].issue) : runStatus[q] # "running"
    BY <1>5 DEF ClaimRun, Claimable
  <2>2. ProcOf[t] \in Procs
    BY ThreadAssumption
  <2>3. UnusedRows'
    BY <2>1 DEF UnusedRows, TypeOK
  <2>4. ExecutingOwned'
    BY <2>1, <2>2 DEF ExecutingOwned, TypeOK
  <2>5. ExecutionMatchesRow'
    BY <2>1 DEF ExecutionMatchesRow, TypeOK
  <2>6. OneRunningPerIssue'
    BY <2>1, UsedRows DEF OneRunningPerIssue, RunsOf, TypeOK
  <2> QED
    BY <2>3, <2>4, <2>5, <2>6
<1>6. ASSUME NEW r \in RunIds, ExecuteStep(r)
      PROVE  RowInv'
  <2>1. /\ UNCHANGED <<nRuns, run, owner>>
        /\ \A q \in RunIds \ {r} : runStatus'[q] = runStatus[q] /\ exec'[q] = exec[q]
        /\ exec'[r] # "run"
        /\ \/ runStatus'[r] = runStatus[r] /\ (exec[r] = "run" => runStatus[r] # "running")
           \/ runStatus[r] = "running" /\ runStatus'[r] \in {"completed", "failed"}
    BY <1>6 DEF ExecuteStep, FinishRun, FinishLate, AfterFinish, ReopenForFollowup, TypeOK
  <2>2. OneRunningPerIssue'
    BY <1>a, <2>1, NoNewRunning
  <2>3. ExecutionMatchesRow'
    BY <2>1 DEF ExecutionMatchesRow
  <2> QED
    BY <2>1, <2>2, <2>3 DEF UnusedRows, ExecutingOwned
<1>7. ASSUME NEW t \in Threads, NEW r \in RunIds, RecoverRun(t, r)
      PROVE  RowInv'
  <2>1. exec[r] # "run"
    BY <1>7 DEF RecoverRun, OwnerIsAlive, ExecutingOwned
  <2> QED
    BY <1>7, <2>1 DEF RecoverRun, UnusedRows, ExecutingOwned, ExecutionMatchesRow,
                      OneRunningPerIssue, RunIds, TypeOK
<1>8. ASSUME NEW p \in Procs, Crash(p)
      PROVE  RowInv'
  BY <1>8, IdsAssumption DEF Crash, UnusedRows, ExecutingOwned, ExecutionMatchesRow,
                             OneRunningPerIssue
<1> QED
  BY StepCases, <1>1, <1>2, <1>3, <1>4, <1>5, <1>6, <1>7, <1>8

\* The invariant holds throughout.
LEMMA RowsHold == Spec => [](TypeOK /\ RowInv)
<1>1. Init => TypeOK /\ RowInv
  BY TypeInit, RowInit
<1>2. TypeOK /\ RowInv /\ [Next]_vars => (TypeOK /\ RowInv)'
  BY TypeNext, RowNext
<1> QED
  BY <1>1, <1>2, PTL DEF Spec

\* Runs on one issue are serialized, whatever processes claim at the same time.
THEOREM SerializedRuns == Spec => []OneRunningPerIssue
<1>1. TypeOK /\ RowInv => OneRunningPerIssue
  BY DEF RowInv
<1> QED
  BY <1>1, RowsHold, PTL

\* Recovery never takes a run from a live process, and a RUNNING row has a thread or a
\* dead owner.
THEOREM RowsMatchExecution == Spec => []ExecutionMatchesRow
<1>1. TypeOK /\ RowInv => ExecutionMatchesRow
  BY DEF RowInv
<1> QED
  BY <1>1, RowsHold, PTL

-----------------------------------------------------------------------------
(* What a step never does to a run *)

EndedStatuses == {"completed", "failed", "cancelled", "rejected"}

\* No step changes the status of a run that has ended.
LEMMA EndedStep ==
    ASSUME TypeOK, UnusedRows, [Next]_vars, NEW r \in RunIds,
           runStatus[r] \in EndedStatuses
    PROVE  runStatus'[r] = runStatus[r]
<1> USE DEF EndedStatuses
<1>1. CASE UnchangedRuns
  BY <1>1 DEF UnchangedRuns
<1>2. ASSUME NEW q \in RunIds, ApproveRun(q) \/ RejectRun(q)
      PROVE  runStatus'[r] = runStatus[r]
  BY <1>2 DEF ApproveRun, RejectRun, TypeOK
<1>3. ASSUME NEW i \in Issues, CancelIssue(i)
      PROVE  runStatus'[r] = runStatus[r]
  BY <1>3 DEF CancelIssue, ActiveRunStatuses, WaitingStatuses
<1>4. ASSUME NEW t \in Threads,
             (\E i \in Issues : SendBack(t, i)) \/ QueueInsert(t) \/ ResumeRun(t)
      PROVE  runStatus'[r] = runStatus[r]
  BY <1>4, Insertions DEF Inserted, WaitingStatuses
<1>5. ASSUME NEW t \in Threads, ClaimRun(t)
      PROVE  runStatus'[r] = runStatus[r]
  BY <1>5 DEF ClaimRun, Claimable, TypeOK
<1>6. ASSUME NEW q \in RunIds, ExecuteStep(q)
      PROVE  runStatus'[r] = runStatus[r]
  BY <1>6 DEF ExecuteStep, FinishRun, FinishLate, AfterFinish, ReopenForFollowup, TypeOK
<1>7. ASSUME NEW t \in Threads, NEW q \in RunIds, RecoverRun(t, q)
      PROVE  runStatus'[r] = runStatus[r]
  BY <1>7 DEF RecoverRun, TypeOK
<1>8. ASSUME NEW p \in Procs, Crash(p)
      PROVE  runStatus'[r] = runStatus[r]
  BY <1>8 DEF Crash
<1> QED
  BY StepCases, <1>1, <1>2, <1>3, <1>4, <1>5, <1>6, <1>7, <1>8

\* No late result, second approval or recovery changes a run that has ended.
THEOREM EndedRunsNeverChange == Spec => EndedRunsStay
<1>1. TypeOK /\ RowInv /\ [Next]_vars =>
        [\A r \in RunIds :
           runStatus[r] \in {"completed", "failed", "cancelled", "rejected"} =>
             runStatus'[r] = runStatus[r]]_vars
  BY EndedStep DEF RowInv, EndedStatuses
<1> QED
  BY <1>1, RowsHold, PTL DEF Spec, EndedRunsStay

\* A running run is cancelled by CancelIssue alone.
LEMMA RunningStep ==
    ASSUME TypeOK, UnusedRows, [Next]_vars, NEW r \in RunIds,
           runStatus[r] = "running", runStatus'[r] = "cancelled"
    PROVE  issueStatus'[run[r].issue] = "cancelled"
<1>1. \E i \in Issues : CancelIssue(i) /\ r \in RunsOf(i)
  <2>1. ~UnchangedRuns
    BY DEF UnchangedRuns
  <2>2. ~\E q \in RunIds : ApproveRun(q) \/ RejectRun(q)
    BY DEF ApproveRun, RejectRun, TypeOK
  <2>3. ~\E t \in Threads :
           (\E i \in Issues : SendBack(t, i)) \/ QueueInsert(t) \/ ResumeRun(t)
    BY Insertions DEF Inserted, WaitingStatuses
  <2>4. ~\E t \in Threads : ClaimRun(t)
    BY DEF ClaimRun, Claimable, TypeOK
  <2>5. ~\E q \in RunIds : ExecuteStep(q)
    BY DEF ExecuteStep, FinishRun, FinishLate, AfterFinish, ReopenForFollowup, TypeOK
  <2>6. ~\E t \in Threads, q \in RunIds : RecoverRun(t, q)
    BY DEF RecoverRun, TypeOK
  <2>7. ~\E p \in Procs : Crash(p)
    BY DEF Crash
  <2>8. \E i \in Issues : CancelIssue(i)
    BY StepCases, <2>1, <2>2, <2>3, <2>4, <2>5, <2>6, <2>7
  <2> QED
    BY <2>8 DEF CancelIssue
<1> QED
  BY <1>1 DEF CancelIssue, RunsOf, TypeOK

\* A running coordinator is cancelled only together with its issue.
THEOREM CoordinatorsAreKept == Spec => RunningCancelledOnlyWithIssue
<1>1. TypeOK /\ RowInv /\ [Next]_vars =>
        [\A r \in RunIds :
           runStatus[r] = "running" /\ runStatus'[r] = "cancelled" =>
             issueStatus'[run[r].issue] = "cancelled"]_vars
  BY RunningStep DEF RowInv
<1> QED
  BY <1>1, RowsHold, PTL DEF Spec, RunningCancelledOnlyWithIssue

-----------------------------------------------------------------------------
(* Recovery by several processes at once *)

\* The thread marked a run interrupted and may still insert its continuation.
Recovering(t) == op[t].kind \in {"recover", "resume"}

\* A thread that recovers holds a failed run that no row continues and no other thread
\* recovers: this is what the conditional update of the row guarantees, and what makes
\* the insertion that follows it, in another transaction, the only one.
RecoveryInv ==
    /\ \A t \in Threads : Recovering(t) =>
          /\ op[t].run \in 1 .. nRuns
          /\ runStatus[op[t].run] = "failed"
          /\ \A r \in 1 .. nRuns : run[r].from # op[t].run
    /\ \A t, u \in Threads :
          Recovering(t) /\ Recovering(u) /\ op[t].run = op[u].run => t = u
    /\ ResumedAtMostOnce
    /\ \A r \in 1 .. nRuns : run[r].from \in 0 .. nRuns

\* A thread begins to recover a run only by marking it.
LEMMA RecoveringStep ==
    ASSUME TypeOK, [Next]_vars, NEW u \in Threads, Recovering(u)',
           ~\E r \in RunIds : RecoverRun(u, r)
    PROVE  Recovering(u) /\ op'[u].run = op[u].run
<1> USE DEF Recovering
<1>1. CASE UNCHANGED vars
  BY <1>1 DEF vars
<1>2. CASE OwnerStep
  BY <1>2 DEF OwnerStep, WebAssign, CliAssign, Unassign, Assign, WebStatus, CliStatus,
              ChangeStatus, StartAgentRun, RunNow, RetryRun, ContinueRun, BeginQueue,
              Begin, SendBack, ReviewApprove, CancelIssue, ApproveRun, RejectRun, TypeOK
<1>3. ASSUME NEW t \in Threads, QueueStep(t) \/ DispatchStep(t)
      PROVE  Recovering(u) /\ op'[u].run = op[u].run
  <2>1. CASE QueueRead(t)
    <3>1. op'[u] = op[u] \/ op'[u].kind \in {"idle", "insert"}
      BY <2>1 DEF QueueRead, Done, Idle, TypeOK, Op
    <3> QED
      BY <3>1
  <2>2. CASE QueueInsert(t) \/ ClaimRun(t) \/ ClaimLost(t)
    BY <2>2 DEF QueueInsert, ClaimRun, ClaimLost, Done, Idle, TypeOK
  <2>3. CASE \E r \in RunIds : PickRun(t, r)
    BY <2>3 DEF PickRun, Begin, TypeOK
  <2> QED
    BY <1>3, <2>1, <2>2, <2>3 DEF QueueStep, DispatchStep
<1>4. ASSUME NEW t \in Threads, SweepStep(t)
      PROVE  Recovering(u) /\ op'[u].run = op[u].run
  <2>1. CASE RetireIssue(t) \/ BlockIdle(t)
    BY <2>1 DEF RetireIssue, BlockIdle, Done, Idle, TypeOK
  <2>2. CASE \E i \in Issues : ReconcileRead(t, i)
    BY <2>2 DEF ReconcileRead, Begin, TypeOK
  <2>3. CASE \E i \in Issues : RequeueIdle(t, i)
    BY <2>3 DEF RequeueIdle, BeginQueue, Begin, TypeOK
  <2> QED
    BY <1>4, <2>1, <2>2, <2>3 DEF SweepStep
<1>5. ASSUME NEW t \in Threads, RecoveryStep(t)
      PROVE  Recovering(u) /\ op'[u].run = op[u].run
  <2>1. CASE \E r \in RunIds : RecoverRun(t, r)
    BY <2>1 DEF RecoverRun, Begin, TypeOK
  <2>2. CASE RecoverDecide(t)
    <3>1. op' = [op EXCEPT ![t] = op'[t]] /\ op[t].kind = "recover"
      BY <2>2 DEF RecoverDecide, TypeOK
    <3>2. op'[t] = Idle \/ op'[t].run = op[t].run
      BY <2>2 DEF RecoverDecide, TypeOK, Op
    <3> QED
      BY <3>1, <3>2 DEF Idle, TypeOK
  <2>3. CASE ResumeRun(t) \/ AbandonIssue(t)
    BY <2>3 DEF ResumeRun, AbandonIssue, Done, Idle, TypeOK
  <2> QED
    BY <1>5, <2>1, <2>2, <2>3 DEF RecoveryStep
<1>6. ASSUME NEW r \in RunIds, ExecuteStep(r)
      PROVE  Recovering(u) /\ op'[u].run = op[u].run
  BY <1>6 DEF ExecuteStep, FinishRun, FinishLate, AfterFinish, ReopenForFollowup
<1>7. ASSUME NEW t \in Threads, SessionFails(t)
      PROVE  Recovering(u) /\ op'[u].run = op[u].run
  BY <1>7 DEF SessionFails, Done, Idle, TypeOK
<1>8. ASSUME NEW p \in Procs, Crash(p)
      PROVE  Recovering(u) /\ op'[u].run = op[u].run
  BY <1>8 DEF Crash, Idle, TypeOK
<1> QED
  BY <1>1, <1>2, <1>3, <1>4, <1>5, <1>6, <1>7, <1>8 DEF Next, HealthyStep

\* The rows after a step: all are kept, and a new one continues a run only if a thread
\* that recovers that run inserted it.
LEMMA RowsAfterStep ==
    ASSUME TypeOK, UnusedRows, [Next]_vars
    PROVE  /\ nRuns \in Nat
           /\ \A r \in 1 .. nRuns : r \in RunIds /\ run'[r] = run[r]
           /\ \/ nRuns' = nRuns
              \/ /\ nRuns' = nRuns + 1
                 /\ \/ run'[nRuns + 1].from = 0
                    \/ \E t \in Threads : /\ op[t].kind = "resume" /\ op'[t] = Idle
                                          /\ run'[nRuns + 1].from = op[t].run
<1> DEFINE NewRow == /\ nRuns' = nRuns + 1
                     /\ \/ run'[nRuns + 1].from = 0
                        \/ \E t \in Threads : /\ op[t].kind = "resume" /\ op'[t] = Idle
                                              /\ run'[nRuns + 1].from = op[t].run
           Kept == \A r \in 1 .. nRuns : run'[r] = run[r]
<1>1. \A r \in 1 .. nRuns : r \in RunIds \ {nRuns + 1}
  BY UsedRows
<1>2. ASSUME NEW t \in Threads, ResumeRun(t)
      PROVE  NewRow /\ Kept
  <2>1. /\ nRuns' = nRuns + 1
        /\ run'[nRuns + 1] = [issue |-> op[t].issue, agent |-> op[t].agent,
                              from |-> op[t].run]
        /\ \A r \in RunIds \ {nRuns + 1} : run'[r] = run[r]
    BY <1>2, ResumedRows
  <2>2. op[t].kind = "resume" /\ op'[t] = Idle
    BY <1>2 DEF ResumeRun, Done, TypeOK
  <2>3. \A r \in 1 .. nRuns : run'[r] = run[r]
    BY <1>1, <2>1
  <2> QED
    BY <1>2, <2>1, <2>2, <2>3
<1>3. ASSUME NEW i \in Issues \cup {None}, NEW a \in Agents \cup {None},
             InsertRun(i, a, FirstStatus(a), 0, Superseded(i, a))
      PROVE  NewRow /\ Kept
  <2>1. /\ nRuns' = nRuns + 1
        /\ run'[nRuns + 1] = [issue |-> i, agent |-> a, from |-> 0]
        /\ \A r \in RunIds \ {nRuns + 1} : run'[r] = run[r]
    BY <1>3, QueuedRows
  <2> QED
    BY <1>1, <2>1
<1>4. ASSUME NEW t \in Threads, NEW i \in Issues, SendBack(t, i)
      PROVE  (NewRow /\ Kept) \/ UNCHANGED <<nRuns, run>>
  <2>1. assignee[i] \in Agents \cup {None}
    BY DEF TypeOK
  <2> QED
    BY <1>4, <1>3, <2>1 DEF SendBack
<1>5. ASSUME NEW t \in Threads, QueueInsert(t)
      PROVE  NewRow /\ Kept
  BY <1>5, <1>3, Fields DEF QueueInsert
<1>6. (NewRow /\ Kept) \/ UNCHANGED <<nRuns, run>>
  BY StepCases, <1>2, <1>4, <1>5
     DEF UnchangedRuns, ApproveRun, RejectRun, CancelIssue, ClaimRun, ExecuteStep,
         FinishRun, FinishLate, AfterFinish, ReopenForFollowup, RecoverRun, Crash
<1> QED
  BY <1>6, UsedRows

\* The recovery invariant holds at first.
LEMMA RecoveryInit == Init => RecoveryInv
<1> SUFFICES ASSUME Init PROVE RecoveryInv
  OBVIOUS
<1>1. 1 .. nRuns = {}
  BY DEF Init
<1>2. \A t \in Threads : ~Recovering(t)
  BY DEF Init, Idle, Recovering
<1> QED
  BY <1>1, <1>2 DEF RecoveryInv, ResumedAtMostOnce

\* Every step preserves the recovery invariant.
LEMMA RecoveryNext ==
    ASSUME TypeOK, TypeOK', RowInv, RecoveryInv, [Next]_vars
    PROVE  RecoveryInv'
<1>a. UnusedRows
  BY DEF RowInv
<1>b. \A r \in RunIds : runStatus[r] = "failed" => runStatus'[r] = "failed"
  BY <1>a, EndedStep DEF EndedStatuses
<1>c. /\ nRuns \in Nat /\ nRuns' \in Nat /\ 1 .. nRuns \subseteq 1 .. nRuns'
      /\ \A r \in 1 .. nRuns : r \in RunIds /\ run'[r] = run[r]
  BY <1>a, RowsAfterStep
<1>1. ASSUME NEW t \in Threads, NEW r \in RunIds, RecoverRun(t, r)
      PROVE  RecoveryInv'
  <2>1. /\ UNCHANGED <<nRuns, run>>
        /\ op'[t].run = r
        /\ \A u \in Threads \ {t} : op'[u] = op[u]
        /\ runStatus[r] = "running" /\ runStatus'[r] = "failed"
    BY <1>1 DEF RecoverRun, Begin, TypeOK
  <2>2. r \in 1 .. nRuns
    BY <1>a, <1>c, <2>1 DEF UnusedRows, RunIds
  <2>3. \A q \in 1 .. nRuns : run[q].from # r
    BY <2>1, <2>2 DEF RecoveryInv, ResumedAtMostOnce
  <2>4. \A u \in Threads \ {t} : Recovering(u) => op[u].run # r
    BY <2>1 DEF RecoveryInv
  <2>5. \A u \in Threads : Recovering(u)' => u = t \/ Recovering(u)
    BY <2>1 DEF Recovering
  <2>6. ResumedAtMostOnce'
    BY <1>b, <1>c, <2>1 DEF RecoveryInv, ResumedAtMostOnce
  <2> QED
    BY <1>b, <1>c, <2>1, <2>2, <2>3, <2>4, <2>5, <2>6 DEF RecoveryInv
<1>2. CASE ~\E t \in Threads, r \in RunIds : RecoverRun(t, r)
  <2>1. \A u \in Threads : Recovering(u)' => Recovering(u) /\ op'[u].run = op[u].run
    BY <1>2, RecoveringStep
  <2>2. CASE nRuns' = nRuns
    BY <1>b, <1>c, <2>1, <2>2 DEF RecoveryInv, ResumedAtMostOnce
  <2>3. CASE nRuns' = nRuns + 1 /\ run'[nRuns + 1].from = 0
    BY <1>b, <1>c, <2>1, <2>3 DEF RecoveryInv, ResumedAtMostOnce
  <2>4. ASSUME NEW t \in Threads, op[t].kind = "resume", op'[t] = Idle,
               nRuns' = nRuns + 1, run'[nRuns + 1].from = op[t].run
        PROVE  RecoveryInv'
    <3>1. Recovering(t) /\ ~Recovering(t)'
      BY <2>4 DEF Recovering, Idle
    <3>2. /\ op[t].run \in 1 .. nRuns
          /\ runStatus[op[t].run] = "failed"
          /\ \A r \in 1 .. nRuns : run[r].from # op[t].run
      BY <3>1 DEF RecoveryInv
    <3>3. \A u \in Threads : Recovering(u)' => op[u].run # op[t].run
      BY <2>1, <3>1 DEF RecoveryInv
    <3>4. ResumedAtMostOnce'
      BY <1>b, <1>c, <2>4, <3>2 DEF RecoveryInv, ResumedAtMostOnce
    <3> QED
      BY <1>b, <1>c, <2>1, <2>4, <3>2, <3>3, <3>4 DEF RecoveryInv
  <2> QED
    BY <1>a, <2>2, <2>3, <2>4, RowsAfterStep
<1> QED
  BY <1>1, <1>2

\* An interrupted run is continued at most once, and only after it was marked failed.
THEOREM InterruptedRunsResumeOnce == Spec => []ResumedAtMostOnce
<1>1. Init => TypeOK /\ RowInv /\ RecoveryInv
  BY TypeInit, RowInit, RecoveryInit
<1>2. TypeOK /\ RowInv /\ RecoveryInv /\ [Next]_vars => (TypeOK /\ RowInv /\ RecoveryInv)'
  BY TypeNext, RowNext, RecoveryNext
<1>3. RecoveryInv => ResumedAtMostOnce
  BY DEF RecoveryInv
<1> QED
  BY <1>1, <1>2, <1>3, PTL DEF Spec

-----------------------------------------------------------------------------
(* Two threads of one process that queue at the same time *)

\* The threads that hold handlers or sweeps are those that may queue a run.
MayQueue(t) == Duties[t] \cap {"request", "sweep"} # {}

\* What a step does to the operation of a thread.
LEMMA OpStep ==
    ASSUME TypeOK, [Next]_vars, NEW u \in Threads
    PROVE  \/ op'[u] = op[u]
           \/ op'[u] = Idle
           \/ op'[u].kind = "queue" /\ MayQueue(u)
           \/ /\ QueueRead(u) /\ ~ActiveRunOf(op[u].issue, op[u].agent)
              /\ op'[u].kind = "insert"
              /\ op'[u].issue = op[u].issue /\ op'[u].agent = op[u].agent
           \/ op'[u].kind \in {"claim", "retire", "giveup"}
           \/ \E r \in RunIds : RecoverRun(u, r) /\ op'[u].kind = "recover"
           \/ /\ RecoverDecide(u)
              /\ op'[u].kind \in {"resume", "abandon"}
              /\ op'[u].issue = op[u].issue /\ op'[u].agent = op[u].agent
              /\ op'[u].run = op[u].run
<1> DEFINE Queues == op'[u].kind = "queue" /\ MayQueue(u)
<1>a. op \in [Threads -> Op]
  BY DEF TypeOK
<1>b. ASSUME NEW t \in Threads, NEW i, NEW a, NEW seen, BeginQueue(t, i, a, seen)
      PROVE  op'[u] = op[u] \/ (u = t /\ op'[u].kind = "queue")
  BY <1>a, <1>b DEF BeginQueue, Begin
<1>c. \A t \in Threads : Done(t) => op'[u] = op[u] \/ op'[u] = Idle
  BY <1>a DEF Done
<1>1. CASE UNCHANGED vars
  BY <1>1 DEF vars
<1>2. CASE OwnerStep
  <2>1. UNCHANGED op \/ \E t \in Threads : \E i, a, seen :
                          Ready(t, "request") /\ BeginQueue(t, i, a, seen)
    BY <1>2 DEF OwnerStep, WebAssign, CliAssign, Unassign, Assign, WebStatus, CliStatus,
                ChangeStatus, StartAgentRun, RunNow, RetryRun, ContinueRun,
                SendBack, ReviewApprove, CancelIssue, ApproveRun, RejectRun
  <2> QED
    BY <1>b, <2>1 DEF Ready, MayQueue
<1>3. ASSUME NEW t \in Threads, QueueRead(t)
      PROVE  \/ op'[u] = op[u] \/ op'[u] = Idle
             \/ /\ QueueRead(u) /\ ~ActiveRunOf(op[u].issue, op[u].agent)
                /\ op'[u].kind = "insert"
                /\ op'[u].issue = op[u].issue /\ op'[u].agent = op[u].agent
  <2>1. /\ [op[t] EXCEPT !.kind = "insert"].kind = "insert"
        /\ [op[t] EXCEPT !.kind = "insert"].issue = op[t].issue
        /\ [op[t] EXCEPT !.kind = "insert"].agent = op[t].agent
    BY <1>a DEF Op
  <2> QED
    BY <1>3, <1>a, <1>c, <2>1 DEF QueueRead
<1>4. ASSUME NEW t \in Threads,
             \/ QueueInsert(t) \/ ClaimRun(t) \/ ClaimLost(t) \/ ResumeRun(t)
             \/ AbandonIssue(t) \/ RetireIssue(t) \/ BlockIdle(t) \/ SessionFails(t)
      PROVE  op'[u] = op[u] \/ op'[u] = Idle
  BY <1>4, <1>c DEF QueueInsert, ClaimRun, ClaimLost, ResumeRun, AbandonIssue,
                    RetireIssue, BlockIdle, SessionFails
<1>5. ASSUME NEW t \in Threads, NEW r \in RunIds, PickRun(t, r)
      PROVE  op'[u] = op[u] \/ op'[u].kind = "claim"
  BY <1>5, <1>a DEF PickRun, Begin
<1>6. ASSUME NEW t \in Threads, NEW r \in RunIds, RecoverRun(t, r)
      PROVE  op'[u] = op[u] \/ (RecoverRun(u, r) /\ op'[u].kind = "recover")
  BY <1>6, <1>a DEF RecoverRun, Begin
<1>7. ASSUME NEW t \in Threads, RecoverDecide(t)
      PROVE  \/ op'[u] = op[u] \/ op'[u] = Idle
             \/ /\ RecoverDecide(u)
                /\ op'[u].kind \in {"resume", "abandon"}
                /\ op'[u].issue = op[u].issue /\ op'[u].agent = op[u].agent
                /\ op'[u].run = op[u].run
  <2> DEFINE decided(next) ==
               [op[t] EXCEPT !.kind = next, !.skip = issueStatus[op[t].issue] = "blocked"]
  <2>1. op[t] \in Op
    BY <1>a
  <2>2. \/ op' = [op EXCEPT ![t] = Idle]
        \/ op' = [op EXCEPT ![t] = decided("abandon")]
        \/ op' = [op EXCEPT ![t] = decided("resume")]
    BY <1>7 DEF RecoverDecide
  <2>3. \A next : /\ decided(next).kind = next /\ decided(next).issue = op[t].issue
                  /\ decided(next).agent = op[t].agent /\ decided(next).run = op[t].run
    BY <2>1 DEF Op
  <2> HIDE DEF decided
  <2> QED
    BY <1>7, <1>a, <2>2, <2>3
<1>8. ASSUME NEW t \in Threads, NEW i \in Issues, ReconcileRead(t, i)
      PROVE  op'[u] = op[u] \/ op'[u].kind = "retire"
  BY <1>8, <1>a DEF ReconcileRead, Begin
<1>9. ASSUME NEW t \in Threads, NEW i \in Issues, RequeueIdle(t, i)
      PROVE  op'[u] = op[u] \/ op'[u].kind = "giveup" \/ Queues
  <2>1. CASE Begin(t, "giveup", i, None, 0, FALSE)
    BY <1>a, <2>1 DEF Begin
  <2>2. CASE BeginQueue(t, i, assignee[i], issueStatus[i])
    BY <1>9, <1>b, <2>2 DEF RequeueIdle, Ready, MayQueue
  <2> QED
    BY <1>9, <2>1, <2>2 DEF RequeueIdle
<1>10. ASSUME NEW r \in RunIds, ExecuteStep(r)
       PROVE  op' = op
  BY <1>10 DEF ExecuteStep, FinishRun, FinishLate, AfterFinish, ReopenForFollowup
<1>11. ASSUME NEW p \in Procs, Crash(p)
       PROVE  op'[u] = op[u] \/ op'[u] = Idle
  BY <1>11 DEF Crash
<1> QED
  BY <1>1, <1>2, <1>3, <1>4, <1>5, <1>6, <1>7, <1>8, <1>9, <1>10, <1>11
     DEF Next, HealthyStep, QueueStep, DispatchStep, RecoveryStep, SweepStep

\* The steps that take or release a queue lock.
LEMMA LockCases ==
    ASSUME [Next]_vars
    PROVE  \/ UNCHANGED queueLock
           \/ \E t \in Threads : QueueRead(t) \/ QueueInsert(t) \/ SessionFails(t)
           \/ \E p \in Procs : Crash(p)
<1>1. CASE UNCHANGED vars
  BY <1>1 DEF vars
<1>2. CASE OwnerStep
  BY <1>2 DEF OwnerStep, WebAssign, CliAssign, Unassign, Assign, WebStatus, CliStatus,
              ChangeStatus, RunNow, RetryRun, ContinueRun, SendBack, ReviewApprove,
              CancelIssue, ApproveRun, RejectRun
<1>3. CASE \E t \in Threads : DispatchStep(t) \/ RecoveryStep(t) \/ SweepStep(t)
  BY <1>3 DEF DispatchStep, PickRun, ClaimRun, ClaimLost, RecoveryStep, RecoverRun,
              RecoverDecide, ResumeRun, AbandonIssue, SweepStep, ReconcileRead,
              RequeueIdle, RetireIssue, BlockIdle
<1>4. CASE \E r \in RunIds : ExecuteStep(r)
  BY <1>4 DEF ExecuteStep, FinishRun, FinishLate, AfterFinish, ReopenForFollowup
<1> QED
  BY <1>1, <1>2, <1>3, <1>4 DEF Next, HealthyStep, QueueStep

\* A run that a step leaves active was active before, unless the step inserted it.
LEMMA ActiveStep ==
    ASSUME TypeOK, UnusedRows, [Next]_vars, NEW r \in RunIds,
           runStatus'[r] \in ActiveRunStatuses, ~(nRuns' = nRuns + 1 /\ r = nRuns + 1)
    PROVE  runStatus[r] \in ActiveRunStatuses
<1> USE DEF ActiveRunStatuses, WaitingStatuses
<1>1. CASE UnchangedRuns
  BY <1>1 DEF UnchangedRuns
<1>2. ASSUME NEW q \in RunIds, ApproveRun(q) \/ RejectRun(q)
      PROVE  runStatus[r] \in ActiveRunStatuses
  BY <1>2 DEF ApproveRun, RejectRun, TypeOK
<1>3. ASSUME NEW i \in Issues, CancelIssue(i)
      PROVE  runStatus[r] \in ActiveRunStatuses
  BY <1>3 DEF CancelIssue
<1>4. ASSUME NEW t \in Threads,
             (\E i \in Issues : SendBack(t, i)) \/ QueueInsert(t) \/ ResumeRun(t)
      PROVE  runStatus[r] \in ActiveRunStatuses
  BY <1>4, Insertions DEF Inserted
<1>5. ASSUME NEW t \in Threads, ClaimRun(t)
      PROVE  runStatus[r] \in ActiveRunStatuses
  BY <1>5 DEF ClaimRun, Claimable, TypeOK
<1>6. ASSUME NEW q \in RunIds, ExecuteStep(q)
      PROVE  runStatus[r] \in ActiveRunStatuses
  BY <1>6 DEF ExecuteStep, FinishRun, FinishLate, AfterFinish, ReopenForFollowup, TypeOK
<1>7. ASSUME NEW t \in Threads, NEW q \in RunIds, RecoverRun(t, q)
      PROVE  runStatus[r] \in ActiveRunStatuses
  BY <1>7 DEF RecoverRun, TypeOK
<1>8. ASSUME NEW p \in Procs, Crash(p)
      PROVE  runStatus[r] \in ActiveRunStatuses
  BY <1>8 DEF Crash
<1> QED
  BY StepCases, <1>1, <1>2, <1>3, <1>4, <1>5, <1>6, <1>7, <1>8

\* A row is queued work (not a continuation) of the pair, and has not ended.
QueuedWork(r, i, a) ==
    /\ run[r].issue = i /\ run[r].agent = a /\ run[r].from = 0
    /\ runStatus[r] \in ActiveRunStatuses

\* Who has found no active run of a pair holds the lock of its process, and the pair has
\* none until it inserts one.
LockInv ==
    /\ \A t \in Threads : op[t].kind \in {"queue", "insert"} => MayQueue(t)
    /\ \A t \in Threads : op[t].kind = "insert" =>
          /\ queueLock[ProcOf[t]] = t
          /\ \A r \in 1 .. nRuns : ~QueuedWork(r, op[t].issue, op[t].agent)
    /\ QueuedOncePerPair

\* One process takes the requests and runs the sweeps.
OneQueueingProcess ==
    \A t, u \in Threads : MayQueue(t) /\ MayQueue(u) => ProcOf[t] = ProcOf[u]

\* Inserting queued work leaves no other thread about to insert.
LEMMA InsertAlone ==
    ASSUME OneQueueingProcess, TypeOK, LockInv, NEW t \in Threads, NEW u \in Threads,
           op[u].kind = "insert",
           \/ MayQueue(t) /\ queueLock[ProcOf[t]] = None
           \/ op[t].kind = "insert"
    PROVE  u = t
BY IdsAssumption DEF LockInv, OneQueueingProcess

\* A thread that found no run of its pair keeps the lock until it inserts or fails.
LEMMA LockKept ==
    ASSUME TypeOK, LockInv, [Next]_vars, NEW u \in Threads,
           op[u].kind = "insert", op'[u] = op[u]
    PROVE  queueLock'[ProcOf[u]] = u
<1>a. /\ queueLock[ProcOf[u]] = u /\ u # None
      /\ queueLock \in [Procs -> Threads \cup {None}]
      /\ op \in [Threads -> Op]
      /\ \A t \in Threads : ProcOf[t] \in Procs
  BY IdsAssumption, ThreadAssumption DEF LockInv, TypeOK
<1>b. Idle.kind = "idle"
  BY DEF Idle
<1>1. ASSUME NEW t \in Threads, QueueRead(t)
      PROVE  queueLock'[ProcOf[u]] = u
  BY <1>1, <1>a DEF QueueRead
<1>2. ASSUME NEW t \in Threads, QueueInsert(t)
      PROVE  queueLock'[ProcOf[u]] = u
  <2>1. op'[t] = Idle /\ queueLock[ProcOf[t]] = t
    BY <1>2, <1>a DEF QueueInsert, Done, LockInv
  <2>2. queueLock' = [queueLock EXCEPT ![ProcOf[t]] = None]
    BY <1>2 DEF QueueInsert
  <2>3. ProcOf[t] # ProcOf[u]
    BY <1>a, <1>b, <2>1
  <2> QED
    BY <1>a, <2>2, <2>3
<1>3. ASSUME NEW t \in Threads, SessionFails(t)
      PROVE  queueLock'[ProcOf[u]] = u
  <2>1. op'[t] = Idle
    BY <1>3, <1>a DEF SessionFails, Done
  <2>2. t # u
    BY <1>b, <2>1
  <2> QED
    BY <1>3, <1>a, <2>2 DEF SessionFails
<1>4. ASSUME NEW p \in Procs, Crash(p)
      PROVE  queueLock'[ProcOf[u]] = u
  <2>1. ProcOf[u] # p
    BY <1>4, <1>b DEF Crash
  <2> QED
    BY <1>4, <1>a, <2>1 DEF Crash
<1> QED
  BY LockCases, <1>1, <1>2, <1>3, <1>4, <1>a

\* The lock invariant holds at first.
LEMMA LockInit == Init => LockInv
<1> SUFFICES ASSUME Init PROVE LockInv
  OBVIOUS
<1>1. 1 .. nRuns = {} /\ \A t \in Threads : op[t].kind = "idle"
  BY DEF Init, Idle
<1> QED
  BY <1>1 DEF LockInv, QueuedOncePerPair

\* Every step preserves the lock invariant.
LEMMA LockNext ==
    ASSUME OneQueueingProcess, TypeOK, TypeOK', RowInv, RecoveryInv, LockInv, [Next]_vars
    PROVE  LockInv'
<1>a. UnusedRows
  BY DEF RowInv
<1>b. /\ nRuns \in Nat
      /\ \A r \in 1 .. nRuns : r \in RunIds /\ run'[r] = run[r]
      /\ \/ nRuns' = nRuns
         \/ /\ nRuns' = nRuns + 1
            /\ \/ run'[nRuns + 1].from = 0
               \/ \E t \in Threads : /\ op[t].kind = "resume" /\ op'[t] = Idle
                                     /\ run'[nRuns + 1].from = op[t].run
  BY <1>a, RowsAfterStep
<1>c. \A r \in 1 .. nRuns : \A i, a : QueuedWork(r, i, a)' => QueuedWork(r, i, a)
  BY <1>a, <1>b, ActiveStep DEF QueuedWork
<1>d. op \in [Threads -> Op] /\ Idle.kind = "idle"
  BY DEF TypeOK, Idle
<1>1. \A u \in Threads : op'[u].kind \in {"queue", "insert"} => MayQueue(u)
  <2>1. \A u \in Threads : QueueRead(u) => op[u].kind = "queue"
    BY DEF QueueRead
  <2> QED
    BY <1>d, <2>1, OpStep DEF LockInv
<1>2. \A u \in Threads : op'[u].kind = "insert" => queueLock'[ProcOf[u]] = u
  <2> SUFFICES ASSUME NEW u \in Threads, op'[u].kind = "insert"
               PROVE  queueLock'[ProcOf[u]] = u
    OBVIOUS
  <2>1. \/ op'[u] = op[u]
        \/ QueueRead(u) /\ ~ActiveRunOf(op[u].issue, op[u].agent)
    BY <1>d, OpStep
  <2>2. CASE op'[u] = op[u]
    BY <2>2, LockKept
  <2>3. CASE QueueRead(u) /\ ~ActiveRunOf(op[u].issue, op[u].agent)
    BY <2>3, ThreadAssumption DEF QueueRead, TypeOK
  <2> QED
    BY <2>1, <2>2, <2>3
\* No new queued work, or the work of the only thread that could be inserting.
<1>3. CASE \A r \in 1 .. nRuns' : r \notin 1 .. nRuns => run'[r].from # 0
  <2>1. \A r \in 1 .. nRuns' : \A i, a : QueuedWork(r, i, a)' =>
                                r \in 1 .. nRuns /\ QueuedWork(r, i, a)
    BY <1>3, <1>c DEF QueuedWork
  <2>2. ASSUME NEW u \in Threads, op'[u].kind = "insert",
               NEW r \in 1 .. nRuns', QueuedWork(r, op[u].issue, op[u].agent)'
        PROVE  FALSE
    <3>1. op'[u].issue = op[u].issue /\ op'[u].agent = op[u].agent
      BY <1>d, <2>2, OpStep
    <3>2. r \in 1 .. nRuns /\ QueuedWork(r, op[u].issue, op[u].agent)
      BY <2>1, <2>2, <3>1
    <3>3. \/ op'[u] = op[u]
          \/ QueueRead(u) /\ ~ActiveRunOf(op[u].issue, op[u].agent)
      BY <1>d, <2>2, OpStep
    <3> QED
      BY <2>2, <3>2, <3>3 DEF LockInv, ActiveRunOf, RunsOf, QueuedWork
  <2>4. QueuedOncePerPair'
    BY <2>1 DEF LockInv, QueuedOncePerPair, QueuedWork
  <2> QED
    BY <1>1, <1>2, <2>2, <2>4 DEF LockInv
<1>4. ASSUME NEW t \in Threads, NEW i, NEW a,
             \/ MayQueue(t) /\ queueLock[ProcOf[t]] = None
             \/ op[t].kind = "insert",
             \A u \in Threads \ {t} : op'[u] = op[u],
             op'[t].kind # "insert",
             nRuns' = nRuns + 1, run'[nRuns + 1].issue = i, run'[nRuns + 1].agent = a,
             \A r \in 1 .. nRuns : ~QueuedWork(r, i, a)
      PROVE  LockInv'
  <2>1. \A u \in Threads : op'[u].kind # "insert"
    BY <1>4, InsertAlone
  <2>2. QueuedOncePerPair'
    BY <1>4, <1>b, <1>c DEF LockInv, QueuedOncePerPair, QueuedWork
  <2> QED
    BY <1>1, <2>1, <2>2 DEF LockInv
<1>5. ASSUME NEW t \in Threads, NEW i \in Issues, SendBack(t, i)
      PROVE  LockInv'
  <2>1. CASE UNCHANGED <<nRuns, run, runStatus>>
    BY <1>3, <2>1
  <2>2. CASE ~UNCHANGED <<nRuns, run, runStatus>>
    <3>1. assignee[i] \in Agents /\ ~ActiveRunOf(i, assignee[i])
      BY <1>5, <2>2 DEF SendBack, TypeOK
    <3>2. InsertRun(i, assignee[i], FirstStatus(assignee[i]), 0,
                    Superseded(i, assignee[i]))
      BY <1>5, <2>2 DEF SendBack
    <3>3. nRuns' = nRuns + 1 /\ run'[nRuns + 1] = [issue |-> i, agent |-> assignee[i],
                                                  from |-> 0]
      BY <1>a, <3>1, <3>2, QueuedRows
    <3>4. /\ MayQueue(t) /\ op[t].kind = "idle" /\ UNCHANGED op
          /\ queueLock[ProcOf[t]] = None
      BY <1>5, <3>1, IdsAssumption DEF SendBack, Ready, MayQueue
    <3>5. \A r \in 1 .. nRuns : ~QueuedWork(r, i, assignee[i])
      BY <3>1 DEF ActiveRunOf, RunsOf, QueuedWork
    <3> QED
      BY <1>4, <3>3, <3>4, <3>5
  <2> QED
    BY <2>1, <2>2
<1>6. ASSUME NEW t \in Threads, QueueInsert(t)
      PROVE  LockInv'
  <2>1. InsertRun(op[t].issue, op[t].agent, FirstStatus(op[t].agent), 0,
                  Superseded(op[t].issue, op[t].agent))
    BY <1>6 DEF QueueInsert
  <2>2. nRuns' = nRuns + 1 /\ run'[nRuns + 1] = [issue |-> op[t].issue,
                                                agent |-> op[t].agent, from |-> 0]
    BY <1>a, <2>1, Fields, QueuedRows
  <2>3. op[t].kind = "insert" /\ op' = [op EXCEPT ![t] = Idle]
    BY <1>6 DEF QueueInsert, Done
  <2>4. \A r \in 1 .. nRuns : ~QueuedWork(r, op[t].issue, op[t].agent)
    BY <2>3 DEF LockInv
  <2> QED
    BY <1>4, <1>d, <2>2, <2>3, <2>4
<1>7. ASSUME NEW t \in Threads, ResumeRun(t)
      PROVE  LockInv'
  <2>1. op[t].run \in 1 .. nRuns
    BY <1>7 DEF ResumeRun, RecoveryInv, Recovering
  <2>2. nRuns' = nRuns + 1 /\ run'[nRuns + 1] = [issue |-> op[t].issue,
                                       agent |-> op[t].agent, from |-> op[t].run]
    BY <1>7, <1>a, ResumedRows
  <2>3. \A r \in 1 .. nRuns' : r \notin 1 .. nRuns => r = nRuns + 1
    BY <1>b, <2>2
  <2> QED
    BY <1>3, <1>b, <2>1, <2>2, <2>3
<1>8. CASE UNCHANGED nRuns
  BY <1>3, <1>8
<1> QED
  BY StepCases, <1>5, <1>6, <1>7, <1>8
     DEF UnchangedRuns, ApproveRun, RejectRun, CancelIssue, ClaimRun, ExecuteStep,
         FinishRun, FinishLate, AfterFinish, ReopenForFollowup, RecoverRun, Crash

\* Where one process takes the requests and runs the sweeps, its lock keeps them from
\* queueing the same agent twice on an issue.
THEOREM QueueLockHolds == ASSUME OneQueueingProcess PROVE Spec => []QueuedOncePerPair
<1>1. Init => TypeOK /\ RowInv /\ RecoveryInv /\ LockInv
  BY TypeInit, RowInit, RecoveryInit, LockInit
<1>2. /\ TypeOK /\ RowInv /\ RecoveryInv /\ LockInv
      /\ [Next]_vars
      => (TypeOK /\ RowInv /\ RecoveryInv /\ LockInv)'
  BY TypeNext, RowNext, RecoveryNext, LockNext
<1>3. LockInv => QueuedOncePerPair
  BY DEF LockInv
<1> QED
  BY <1>1, <1>2, <1>3, PTL DEF Spec

-----------------------------------------------------------------------------
(* Chains of continuations.  A run continues an earlier one, so what ResumeDepth *)
(* and ResumeChain compute is determined row by row.                             *)

\* A non-empty set of numbers has a least element.
LEMMA LeastNumber ==
    ASSUME NEW S \in SUBSET Nat, S # {}
    PROVE  \E n \in S : \A m \in S : n <= m
<1>1. PICK n \in S : \A m \in S : <<m, n>> \notin OpToRel(<, Nat)
  BY WFMin, NatLessThanWellFounded
<1>2. \A m \in S : ~(m < n)
  BY <1>1 DEF OpToRel
<1>3. n \in Nat /\ \A m \in S : m \in Nat
  OBVIOUS
<1>4. \A m \in S : n <= m
  BY <1>2, <1>3
<1> QED
  BY <1>4

\* A run continues a run inserted before it.
Backwards == \A r \in RunIds : run[r].from < r

\* The functions behind ResumeDepth and ResumeChain.
Depths[q \in RunIds] == IF run[q].from = 0 THEN 0 ELSE 1 + Depths[run[q].from]
Chains[q \in RunIds] == IF run[q].from = 0 THEN {q} ELSE {q} \cup Chains[run[q].from]

\* d is the depth, and c the chain, of each of the first n rows.
SolvesDepth(d, n) ==
    /\ d \in [1 .. n -> Nat]
    /\ \A q \in 1 .. n : d[q] = IF run[q].from = 0 THEN 0 ELSE 1 + d[run[q].from]
SolvesChain(c, n) ==
    /\ c \in [1 .. n -> SUBSET RunIds]
    /\ \A q \in 1 .. n : c[q] = IF run[q].from = 0 THEN {q} ELSE {q} \cup c[run[q].from]

\* What the table says of the row a row continues.
LEMMA FromRows ==
    ASSUME TypeOK, Backwards
    PROVE  MaxRuns \in Nat /\ \A q \in RunIds : /\ q \in 1 .. MaxRuns
                                                /\ run[q].from \in 0 .. (q - 1)
<1>1. \A o \in RunRow : o.from \in 0 .. MaxRuns
  BY DEF RunRow
<1> QED
  BY <1>1, BoundAssumption DEF TypeOK, Backwards, RunIds

\* Any number of rows has depths and chains.
LEMMA Solutions ==
    ASSUME TypeOK, Backwards
    PROVE  \A n \in 0 .. MaxRuns :
              (\E d : SolvesDepth(d, n)) /\ (\E c : SolvesChain(c, n))
<1> DEFINE Bad == {n \in 0 .. MaxRuns :
                     ~((\E d : SolvesDepth(d, n)) /\ (\E c : SolvesChain(c, n)))}
<1>a. MaxRuns \in Nat /\ \A q \in 1 .. MaxRuns : run[q].from \in 0 .. (q - 1)
  BY FromRows DEF RunIds
<1>1. SUFFICES ASSUME Bad # {} PROVE FALSE
  OBVIOUS
<1>2. PICK n \in Bad : \A m \in Bad : n <= m
  <2>1. Bad \subseteq Nat
    OBVIOUS
  <2> HIDE DEF Bad
  <2> QED
    BY <1>1, <2>1, LeastNumber
<1>3. n # 0
  <2>1. SolvesDepth([q \in {} |-> 0], 0) /\ SolvesChain([q \in {} |-> {}], 0)
    BY DEF SolvesDepth, SolvesChain
  <2> QED
    BY <2>1
<1>4. n \in 1 .. MaxRuns /\ n - 1 \in 0 .. MaxRuns /\ n - 1 \notin Bad
  BY <1>2, <1>3, <1>a
<1>5. PICK d : SolvesDepth(d, n - 1)
  BY <1>4
<1>6. PICK c : SolvesChain(c, n - 1)
  BY <1>4
<1> DEFINE dlast == IF run[n].from = 0 THEN 0 ELSE 1 + d[run[n].from]
           clast == IF run[n].from = 0 THEN {n} ELSE {n} \cup c[run[n].from]
           dn == [q \in 1 .. n |-> IF q = n THEN dlast ELSE d[q]]
           cn == [q \in 1 .. n |-> IF q = n THEN clast ELSE c[q]]
<1>b. \A q \in 1 .. n : run[q].from # 0 => /\ run[q].from \in 1 .. (n - 1)
                                           /\ run[q].from \in 1 .. n
                                           /\ run[q].from # n
  BY <1>4, <1>a
<1>c. \A q \in 1 .. n : q # n => q \in 1 .. (n - 1)
  BY <1>4
<1>7. SolvesDepth(dn, n)
  <2>1. dlast \in Nat /\ \A q \in 1 .. (n - 1) : d[q] \in Nat
    BY <1>4, <1>5, <1>b DEF SolvesDepth
  <2>2. \A q \in 1 .. n : q # n => dn[q] = d[q]
    OBVIOUS
  <2>3. dn[n] = dlast
    BY <1>4
  <2>4. dn \in [1 .. n -> Nat]
    BY <1>c, <2>1
  <2> HIDE DEF dn
  <2>5. \A q \in 1 .. n : q # n =>
           dn[q] = IF run[q].from = 0 THEN 0 ELSE 1 + dn[run[q].from]
    BY <1>5, <1>b, <1>c, <2>2 DEF SolvesDepth
  <2>6. dn[n] = IF run[n].from = 0 THEN 0 ELSE 1 + dn[run[n].from]
    BY <1>4, <1>b, <2>2, <2>3
  <2> QED
    BY <2>4, <2>5, <2>6 DEF SolvesDepth
<1>8. SolvesChain(cn, n)
  <2>1. clast \in SUBSET RunIds /\ \A q \in 1 .. (n - 1) : c[q] \in SUBSET RunIds
    BY <1>4, <1>6, <1>b DEF SolvesChain, RunIds
  <2>2. \A q \in 1 .. n : q # n => cn[q] = c[q]
    OBVIOUS
  <2>3. cn[n] = clast
    BY <1>4
  <2>4. cn \in [1 .. n -> SUBSET RunIds]
    BY <1>c, <2>1
  <2> HIDE DEF cn, clast
  <2>5. \A q \in 1 .. n : q # n =>
           cn[q] = IF run[q].from = 0 THEN {q} ELSE {q} \cup cn[run[q].from]
    BY <1>6, <1>b, <1>c, <2>2 DEF SolvesChain
  <2>6. cn[n] = IF run[n].from = 0 THEN {n} ELSE {n} \cup cn[run[n].from]
    <3>1. n \in 1 .. n
      BY <1>4
    <3>2. run[n].from # 0 => cn[run[n].from] = c[run[n].from]
      BY <1>b, <2>2, <3>1
    <3> QED
      BY <2>3, <3>2 DEF clast
  <2> QED
    BY <2>4, <2>5, <2>6 DEF SolvesChain
<1> QED
  BY <1>7, <1>8

\* The depth of a run is one more than that of the run it continues.
LEMMA DepthEquation ==
    ASSUME TypeOK, Backwards, NEW r \in RunIds
    PROVE  /\ ResumeDepth(r) \in Nat
           /\ ResumeDepth(r) = IF run[r].from = 0 THEN 0 ELSE 1 + ResumeDepth(run[r].from)
<1>1. PICK d : SolvesDepth(d, MaxRuns)
  BY Solutions, BoundAssumption
<1>2. d = [q \in RunIds |-> IF run[q].from = 0 THEN 0 ELSE 1 + d[run[q].from]]
  BY <1>1 DEF SolvesDepth, RunIds
<1>3. Depths = [q \in RunIds |-> IF run[q].from = 0 THEN 0 ELSE 1 + Depths[run[q].from]]
  BY <1>2 DEF Depths
<1>4. \A q \in RunIds : ResumeDepth(q) = Depths[q]
  BY DEF ResumeDepth, Depths
<1>5. \A q \in RunIds : run[q].from # 0 => run[q].from \in RunIds
  BY FromRows DEF RunIds
<1>6. \A q \in RunIds :
         ResumeDepth(q) = IF run[q].from = 0 THEN 0 ELSE 1 + ResumeDepth(run[q].from)
  BY <1>3, <1>4, <1>5
<1> DEFINE Bad == {q \in RunIds : ResumeDepth(q) \notin Nat}
<1>7. Bad = {}
  <2>1. SUFFICES ASSUME Bad # {} PROVE FALSE
    OBVIOUS
  <2>2. PICK q \in Bad : \A m \in Bad : q <= m
    <3>1. Bad \subseteq Nat
      BY DEF RunIds
    <3> HIDE DEF Bad
    <3> QED
      BY <2>1, <3>1, LeastNumber
  <2>3. run[q].from # 0 => ResumeDepth(run[q].from) \in Nat
    BY <2>2, <1>5, FromRows
  <2> QED
    BY <2>2, <2>3, <1>6
<1> QED
  BY <1>6, <1>7

\* The chain of a run is the run itself and the chain of the run it continues.
LEMMA ChainEquation ==
    ASSUME TypeOK, Backwards, NEW r \in RunIds
    PROVE  ResumeChain(r) = IF run[r].from = 0 THEN {r} ELSE {r} \cup ResumeChain(run[r].from)
<1>1. PICK c : SolvesChain(c, MaxRuns)
  BY Solutions, BoundAssumption
<1>2. c = [q \in RunIds |-> IF run[q].from = 0 THEN {q} ELSE {q} \cup c[run[q].from]]
  BY <1>1 DEF SolvesChain, RunIds
<1>3. Chains = [q \in RunIds |-> IF run[q].from = 0 THEN {q} ELSE {q} \cup Chains[run[q].from]]
  BY <1>2 DEF Chains
<1>4. \A q \in RunIds : ResumeChain(q) = Chains[q]
  BY DEF ResumeChain, Chains
<1>5. run[r].from # 0 => run[r].from \in RunIds
  BY FromRows DEF RunIds
<1> QED
  BY <1>3, <1>4, <1>5

\* Both equations, of the rows in one state.
Equations ==
    \A r \in RunIds :
        /\ ResumeDepth(r) = IF run[r].from = 0 THEN 0 ELSE 1 + ResumeDepth(run[r].from)
        /\ ResumeChain(r) = IF run[r].from = 0 THEN {r}
                                               ELSE {r} \cup ResumeChain(run[r].from)

\* The equations hold of any table whose chains lead backwards.
LEMMA EquationsHold == TypeOK /\ Backwards => Equations
BY DepthEquation, ChainEquation DEF Equations

\* A step changes neither the depth nor the chain of a row that is there already.
LEMMA ChainsKept ==
    ASSUME TypeOK, TypeOK', Backwards, Backwards', UnusedRows, [Next]_vars
    PROVE  \A r \in 1 .. nRuns : /\ ResumeDepth(r)' = ResumeDepth(r)
                                 /\ ResumeChain(r)' = ResumeChain(r)
<1> DEFINE Bad == {r \in 1 .. nRuns : ~(/\ ResumeDepth(r)' = ResumeDepth(r)
                                        /\ ResumeChain(r)' = ResumeChain(r))}
<1>a. /\ nRuns \in Nat
      /\ \A r \in 1 .. nRuns : r \in RunIds /\ run'[r] = run[r]
  BY RowsAfterStep
<1>1. SUFFICES ASSUME Bad # {} PROVE FALSE
  OBVIOUS
<1>2. PICK r \in Bad : \A m \in Bad : r <= m
  <2>1. Bad \subseteq Nat
    OBVIOUS
  <2> HIDE DEF Bad
  <2> QED
    BY <1>1, <2>1, LeastNumber
<1>3. r \in 1 .. nRuns /\ r \in RunIds /\ run'[r] = run[r]
  BY <1>a
<1>4. run[r].from # 0 => run[r].from \in 1 .. nRuns /\ run[r].from \notin Bad
  BY <1>2, <1>3, <1>a, FromRows
<1>5. Equations /\ Equations'
  BY EquationsHold, PTL
<1>6. CASE run[r].from = 0
  <2>1. /\ ResumeDepth(r) = 0 /\ ResumeDepth(r)' = 0
        /\ ResumeChain(r) = {r} /\ ResumeChain(r)' = {r}
    BY <1>3, <1>5, <1>6 DEF Equations
  <2> QED
    BY <1>2, <2>1
<1>7. CASE run[r].from # 0
  <2>1. PICK q \in 1 .. nRuns : q = run[r].from /\ q \notin Bad
    BY <1>4, <1>7
  <2>2. ResumeDepth(q)' = ResumeDepth(q) /\ ResumeChain(q)' = ResumeChain(q)
    BY <2>1
  <2>3. q = run'[r].from
    BY <1>3, <2>1
  <2>4. ResumeDepth(r) = 1 + ResumeDepth(q) /\ ResumeChain(r) = {r} \cup ResumeChain(q)
    BY <1>3, <1>5, <1>7, <2>1 DEF Equations
  <2>5. ResumeDepth(r)' = 1 + ResumeDepth(q)' /\ ResumeChain(r)' = {r} \cup ResumeChain(q)'
    BY <1>3, <1>5, <1>7, <2>1, <2>3 DEF Equations
  <2> QED
    BY <1>2, <2>2, <2>4, <2>5
<1> QED
  BY <1>6, <1>7

-----------------------------------------------------------------------------
(* How far recovery carries a piece of work, and on whose authority *)

\* What recovery knows of the runs it continues: how deep their chains are ...
DepthInv ==
    /\ Backwards
    /\ \A t \in Threads : op[t].kind = "resume" => ResumeDepth(op[t].run) < MAX_RESUMES
    /\ ResumesBounded

\* ... and that a person approved one of the chain if their agent asks for approval.
ApprovalInv ==
    /\ \A t \in Threads : Recovering(t) => op[t].agent = run[op[t].run].agent
    /\ ApprovalNotBypassed

\* Chains lead backwards at first and after every step.
LEMMA BackwardsInit == Init => Backwards
BY DEF Init, Backwards, NoRow, RunIds

\* A run never goes back.
LEMMA BackwardsNext ==
    ASSUME TypeOK, RowInv, RecoveryInv, Backwards, [Next]_vars
    PROVE  Backwards'
<1>a. UnusedRows /\ nRuns \in Nat
  BY DEF RowInv, TypeOK
<1>1. ASSUME NEW t \in Threads, ResumeRun(t)
      PROVE  Backwards'
  <2>1. op[t].run \in 1 .. nRuns
    BY <1>1 DEF ResumeRun, RecoveryInv, Recovering
  <2>2. /\ run'[nRuns + 1] = [issue |-> op[t].issue, agent |-> op[t].agent,
                              from |-> op[t].run]
        /\ \A r \in RunIds \ {nRuns + 1} : run'[r] = run[r]
    BY <1>1, <1>a, ResumedRows
  <2> QED
    BY <1>a, <2>1, <2>2 DEF Backwards
<1>2. ASSUME NEW i \in Issues \cup {None}, NEW a \in Agents \cup {None},
             InsertRun(i, a, FirstStatus(a), 0, Superseded(i, a))
      PROVE  Backwards'
  <2>1. /\ run'[nRuns + 1] = [issue |-> i, agent |-> a, from |-> 0]
        /\ \A r \in RunIds \ {nRuns + 1} : run'[r] = run[r]
    BY <1>2, <1>a, QueuedRows
  <2> QED
    BY <1>a, <2>1 DEF Backwards, RunIds
<1>3. ASSUME NEW t \in Threads, NEW i \in Issues, SendBack(t, i)
      PROVE  Backwards'
  <2>1. assignee[i] \in Agents \cup {None}
    BY DEF TypeOK
  <2> QED
    BY <1>2, <1>3, <2>1 DEF SendBack, Backwards
<1>4. ASSUME NEW t \in Threads, QueueInsert(t)
      PROVE  Backwards'
  BY <1>2, <1>4, Fields DEF QueueInsert
<1>5. CASE UNCHANGED run
  BY <1>5 DEF Backwards
<1> QED
  BY StepCases, <1>1, <1>3, <1>4, <1>5
     DEF UnchangedRuns, ApproveRun, RejectRun, CancelIssue, ClaimRun, ExecuteStep,
         FinishRun, FinishLate, AfterFinish, ReopenForFollowup, RecoverRun, Crash

\* Recovery continues a run only below the bound, so the chains stay within it.
LEMMA DepthNext ==
    ASSUME TypeOK, TypeOK', RowInv, RecoveryInv, DepthInv, [Next]_vars
    PROVE  DepthInv'
<1>a. /\ UnusedRows /\ Backwards /\ MAX_RESUMES \in Nat
      /\ \A t \in Threads : Recovering(t) => op[t].run \in 1 .. nRuns
  BY BoundAssumption DEF RowInv, DepthInv, RecoveryInv
<1>b. Backwards'
  BY <1>a, BackwardsNext
<1>c. /\ nRuns \in Nat /\ \A r \in 1 .. nRuns : r \in RunIds
      /\ \A r \in 1 .. nRuns : ResumeDepth(r)' = ResumeDepth(r)
  BY <1>a, <1>b, ChainsKept, RowsAfterStep
<1>1. ASSUME NEW u \in Threads, op'[u].kind = "resume"
      PROVE  ResumeDepth(op[u].run)' < MAX_RESUMES
  <2>1. \/ op'[u] = op[u]
        \/ RecoverDecide(u) /\ op'[u].run = op[u].run
    BY <1>1, OpStep DEF Idle
  <2>2. Recovering(u) /\ op'[u].run = op[u].run
    BY <1>1, <2>1 DEF Recovering, RecoverDecide
  <2>3. PICK r \in 1 .. nRuns : r = op[u].run /\ r = op'[u].run
    BY <1>a, <2>2
  <2>4. ResumeDepth(r) < MAX_RESUMES
    <3>1. CASE op'[u] = op[u]
      BY <1>1, <2>3, <3>1 DEF DepthInv
    <3>2. CASE RecoverDecide(u)
      <4>1. op[u] \in Op /\ op \in [Threads -> Op]
        BY DEF TypeOK
      <4>2. ResumeDepth(r) >= MAX_RESUMES =>
              op'[u] = Idle \/ op'[u].kind = "abandon"
        BY <2>3, <3>2, <4>1 DEF RecoverDecide, Op
      <4>3. ~(ResumeDepth(r) >= MAX_RESUMES)
        BY <1>1, <4>2 DEF Idle
      <4>4. ResumeDepth(r) \in Nat
        BY <1>a, <1>c, DepthEquation
      <4> QED
        BY <1>a, <4>3, <4>4
    <3> QED
      BY <2>1, <3>1, <3>2
  <2>5. ResumeDepth(r)' < MAX_RESUMES
    BY <1>c, <2>4
  <2> QED
    BY <2>3, <2>5
<1>2. ResumesBounded'
  <2>1. \A r \in 1 .. nRuns : ResumeDepth(r)' <= MAX_RESUMES
    BY <1>c DEF DepthInv, ResumesBounded
  <2>2. ASSUME NEW n \in RunIds, n = nRuns + 1, n = nRuns'
        PROVE  ResumeDepth(n)' <= MAX_RESUMES
    <3>1. ResumeDepth(n)' = IF run'[n].from = 0 THEN 0 ELSE 1 + ResumeDepth(run[n].from)'
      <4>1. Equations'
        BY <1>b, EquationsHold, PTL
      <4> QED
        BY <4>1 DEF Equations
    <3>2. CASE run'[n].from = 0
      BY <1>a, <3>1, <3>2
    <3>3. ASSUME NEW t \in Threads, op[t].kind = "resume", run'[n].from = op[t].run
          PROVE  ResumeDepth(n)' <= MAX_RESUMES
      <4>1. PICK r \in 1 .. nRuns : r = op[t].run
        BY <1>a, <3>3 DEF Recovering
      <4>2. ResumeDepth(r) < MAX_RESUMES /\ ResumeDepth(r) \in Nat
        BY <1>a, <1>c, <3>3, <4>1, DepthEquation DEF DepthInv
      <4>3. ResumeDepth(r)' < MAX_RESUMES /\ ResumeDepth(r)' \in Nat
        BY <1>c, <4>2
      <4>4. r = run'[n].from /\ r # 0
        BY <3>3, <4>1
      <4>5. ResumeDepth(n)' = 1 + ResumeDepth(r)'
        BY <3>1, <4>4
      <4> QED
        BY <1>a, <4>3, <4>5
    <3>4. \/ run'[n].from = 0
          \/ \E t \in Threads : op[t].kind = "resume" /\ run'[n].from = op[t].run
      BY <1>a, <1>c, <2>2, RowsAfterStep
    <3> QED
      BY <3>2, <3>3, <3>4
  <2>3. \A r \in 1 .. nRuns' :
           \/ r \in 1 .. nRuns
           \/ r \in RunIds /\ r = nRuns + 1 /\ r = nRuns'
    <3>1. 1 .. nRuns' \subseteq RunIds
      BY BoundAssumption DEF TypeOK, RunIds
    <3> QED
      BY <1>a, <1>c, <3>1, RowsAfterStep
  <2> QED
    BY <2>1, <2>2, <2>3 DEF ResumesBounded
<1> QED
  BY <1>b, <1>1, <1>2 DEF DepthInv

\* The bound on resumes holds of every chain of interruptions, in every interleaving.
THEOREM ResumesStayBounded == Spec => []ResumesBounded
<1>1. Init => TypeOK /\ RowInv /\ RecoveryInv /\ DepthInv
  <2> SUFFICES ASSUME Init PROVE DepthInv
    BY TypeInit, RowInit, RecoveryInit
  <2>1. 1 .. nRuns = {} /\ \A t \in Threads : op[t].kind = "idle"
    BY DEF Init, Idle
  <2> QED
    BY <2>1, BackwardsInit DEF DepthInv, ResumesBounded
<1>2. /\ TypeOK /\ RowInv /\ RecoveryInv /\ DepthInv
      /\ [Next]_vars
      => (TypeOK /\ RowInv /\ RecoveryInv /\ DepthInv)'
  BY TypeNext, RowNext, RecoveryNext, DepthNext
<1>3. DepthInv => ResumesBounded
  BY DEF DepthInv
<1> QED
  BY <1>1, <1>2, <1>3, PTL DEF Spec

\* The statuses a run of a gated agent reaches only past a person.
PassedStatuses == {"pending", "running", "completed", "failed"}

\* Only an approval lets a waiting run pass; approvals are not forgotten.
LEMMA PassedStep ==
    ASSUME TypeOK, UnusedRows, [Next]_vars, NEW r \in RunIds,
           runStatus'[r] \in PassedStatuses, ~(nRuns' = nRuns + 1 /\ r = nRuns + 1)
    PROVE  runStatus[r] \in PassedStatuses \/ r \in approved'
<1> USE DEF PassedStatuses
<1>1. CASE UnchangedRuns
  BY <1>1 DEF UnchangedRuns
<1>2. ASSUME NEW q \in RunIds, ApproveRun(q) \/ RejectRun(q)
      PROVE  runStatus[r] \in PassedStatuses \/ r \in approved'
  BY <1>2 DEF ApproveRun, RejectRun, TypeOK
<1>3. ASSUME NEW i \in Issues, CancelIssue(i)
      PROVE  runStatus[r] \in PassedStatuses
  BY <1>3 DEF CancelIssue
<1>4. ASSUME NEW t \in Threads,
             (\E i \in Issues : SendBack(t, i)) \/ QueueInsert(t) \/ ResumeRun(t)
      PROVE  runStatus[r] \in PassedStatuses
  BY <1>4, Insertions DEF Inserted
<1>5. ASSUME NEW t \in Threads, ClaimRun(t)
      PROVE  runStatus[r] \in PassedStatuses
  BY <1>5 DEF ClaimRun, Claimable, TypeOK
<1>6. ASSUME NEW q \in RunIds, ExecuteStep(q)
      PROVE  runStatus[r] \in PassedStatuses
  BY <1>6 DEF ExecuteStep, FinishRun, FinishLate, AfterFinish, ReopenForFollowup, TypeOK
<1>7. ASSUME NEW t \in Threads, NEW q \in RunIds, RecoverRun(t, q)
      PROVE  runStatus[r] \in PassedStatuses
  BY <1>7 DEF RecoverRun, TypeOK
<1>8. ASSUME NEW p \in Procs, Crash(p)
      PROVE  runStatus[r] \in PassedStatuses
  BY <1>8 DEF Crash
<1> QED
  BY StepCases, <1>1, <1>2, <1>3, <1>4, <1>5, <1>6, <1>7, <1>8

\* An approval is never taken back.
LEMMA ApprovedStep == ASSUME [Next]_vars PROVE approved \subseteq approved'
BY StepCases DEF UnchangedRuns, ApproveRun, RejectRun, CancelIssue, SendBack, QueueInsert,
                 ClaimRun, ExecuteStep, FinishRun, FinishLate, AfterFinish,
                 ReopenForFollowup, RecoverRun, ResumeRun, Crash

\* A new row of a gated agent waits for a person, or continues a run recovery holds.
LEMMA NewRow ==
    ASSUME TypeOK, RowInv, [Next]_vars, nRuns' = nRuns + 1,
           NEW n \in RunIds, n = nRuns + 1,
           run'[n].agent \in GatedAgents, runStatus'[n] \in PassedStatuses
    PROVE  \E t \in Threads : /\ op[t].kind = "resume"
                              /\ run'[n].agent = op[t].agent /\ run'[n].from = op[t].run
<1>a. UnusedRows /\ nRuns \in Nat
  BY DEF RowInv, TypeOK
<1>1. ASSUME NEW i \in Issues \cup {None}, NEW a \in Agents \cup {None},
             InsertRun(i, a, FirstStatus(a), 0, Superseded(i, a))
      PROVE  FALSE
  <2>1. run'[n] = [issue |-> i, agent |-> a, from |-> 0] /\ runStatus'[n] = FirstStatus(a)
    BY <1>1, InsertRows
  <2>2. run'[n].agent = a
    BY <2>1
  <2> QED
    BY <2>1, <2>2 DEF FirstStatus, PassedStatuses
<1>2. ASSUME NEW t \in Threads, NEW i \in Issues, SendBack(t, i)
      PROVE  FALSE
  <2>1. assignee[i] \in Agents \cup {None}
    BY DEF TypeOK
  <2> QED
    BY <1>a, <1>1, <1>2, <2>1 DEF SendBack
<1>3. ASSUME NEW t \in Threads, QueueInsert(t)
      PROVE  FALSE
  BY <1>1, <1>3, Fields DEF QueueInsert
<1>4. ASSUME NEW t \in Threads, ResumeRun(t)
      PROVE  /\ op[t].kind = "resume"
             /\ run'[n].agent = op[t].agent /\ run'[n].from = op[t].run
  <2>1. run'[n] = [issue |-> op[t].issue, agent |-> op[t].agent, from |-> op[t].run]
    BY <1>a, <1>4, ResumedRows
  <2> QED
    BY <1>4, <2>1 DEF ResumeRun
<1>5. ~UNCHANGED nRuns
  BY <1>a
<1> QED
  BY <1>2, <1>3, <1>4, <1>5, StepCases
     DEF UnchangedRuns, ApproveRun, RejectRun, CancelIssue, ClaimRun, ExecuteStep,
         FinishRun, FinishLate, AfterFinish, ReopenForFollowup, RecoverRun, Crash

\* A run is in its own chain.
LEMMA OwnChain ==
    ASSUME TypeOK, Backwards, NEW r \in RunIds
    PROVE  r \in ResumeChain(r)
BY ChainEquation

\* No step takes a run of a gated agent past a person.
LEMMA ApprovalNext ==
    ASSUME TypeOK, TypeOK', RowInv, RecoveryInv, Backwards, ApprovalInv, [Next]_vars
    PROVE  ApprovalInv'
<1>a. /\ UnusedRows
      /\ \A t \in Threads : Recovering(t) => /\ op[t].run \in 1 .. nRuns
                                             /\ runStatus[op[t].run] = "failed"
  BY DEF RowInv, RecoveryInv
<1>b. Backwards'
  BY BackwardsNext
<1>c. /\ nRuns \in Nat /\ \A r \in 1 .. nRuns : r \in RunIds /\ run'[r] = run[r]
      /\ \A r \in 1 .. nRuns : ResumeChain(r)' = ResumeChain(r)
  BY <1>a, <1>b, ChainsKept, RowsAfterStep
<1>d. Equations'
  BY <1>b, EquationsHold, PTL
<1>e. approved \subseteq approved'
  BY ApprovedStep
<1>1. ASSUME NEW u \in Threads, Recovering(u)'
      PROVE  op'[u].agent = run'[op'[u].run].agent
  <2>1. CASE \E r \in RunIds : RecoverRun(u, r)
    <3>1. PICK r \in RunIds : RecoverRun(u, r)
      BY <2>1
    <3>2. op'[u].agent = run[r].agent /\ op'[u].run = r /\ run' = run
      BY <3>1 DEF RecoverRun, Begin, TypeOK
    <3> QED
      BY <3>2
  <2>2. CASE ~\E r \in RunIds : RecoverRun(u, r)
    <3>1. Recovering(u) /\ op'[u].run = op[u].run
      BY <1>1, <2>2, RecoveringStep
    <3>2. op'[u].agent = op[u].agent
      BY <1>1, <2>2, OpStep DEF Recovering, Idle
    <3>3. run'[op[u].run] = run[op[u].run]
      BY <1>a, <1>c, <3>1
    <3> QED
      BY <3>1, <3>2, <3>3 DEF ApprovalInv
  <2> QED
    BY <2>1, <2>2
<1>2. ASSUME NEW r \in 1 .. nRuns', run'[r].agent \in GatedAgents,
             runStatus'[r] \in PassedStatuses
      PROVE  ResumeChain(r)' \cap approved' # {}
  <2>1. CASE r \in 1 .. nRuns /\ ~(nRuns' = nRuns + 1 /\ r = nRuns + 1)
    <3>1. runStatus[r] \in PassedStatuses \/ r \in approved'
      BY <1>a, <1>c, <1>2, <2>1, PassedStep
    <3>2. CASE runStatus[r] \in PassedStatuses
      <4>1. ResumeChain(r) \cap approved # {}
        BY <1>c, <1>2, <2>1, <3>2 DEF ApprovalInv, ApprovalNotBypassed, PassedStatuses
      <4> QED
        BY <1>c, <1>e, <2>1, <4>1
    <3>3. CASE r \in approved'
      <4>1. r \in ResumeChain(r)
        BY <1>c, <2>1, OwnChain
      <4> QED
        BY <1>c, <2>1, <3>3, <4>1
    <3> QED
      BY <3>1, <3>2, <3>3
  <2>2. CASE nRuns' = nRuns + 1 /\ r = nRuns + 1
    <3>1. r \in RunIds
      BY <1>2, BoundAssumption DEF TypeOK, RunIds
    <3>2. PICK t \in Threads : /\ op[t].kind = "resume"
                               /\ run'[r].agent = op[t].agent /\ run'[r].from = op[t].run
      BY <1>2, <2>2, <3>1, NewRow
    <3>3. PICK q \in 1 .. nRuns : q = op[t].run
      BY <1>a, <3>2 DEF Recovering
    <3>4. run[q].agent \in GatedAgents /\ runStatus[q] \in PassedStatuses
      BY <1>a, <1>2, <3>2, <3>3 DEF Recovering, ApprovalInv, PassedStatuses
    <3>5. ResumeChain(q) \cap approved # {}
      BY <3>4 DEF ApprovalInv, ApprovalNotBypassed, PassedStatuses
    <3>6. q # 0 /\ q = run'[r].from
      BY <3>2, <3>3
    <3>7. ResumeChain(r)' = {r} \cup ResumeChain(q)'
      BY <1>d, <3>1, <3>6 DEF Equations
    <3> QED
      BY <1>c, <1>e, <3>5, <3>7
  <2> QED
    BY <1>a, <1>c, <1>2, <2>1, <2>2, RowsAfterStep
<1>3. ApprovalNotBypassed'
  BY <1>2 DEF ApprovalNotBypassed, PassedStatuses
<1> QED
  BY <1>1, <1>3 DEF ApprovalInv

\* Whatever the interleaving and the crashes, no run of a gated agent gets past a person.
THEOREM ApprovalHolds == Spec => []ApprovalNotBypassed
<1>1. Init => TypeOK /\ RowInv /\ RecoveryInv /\ Backwards /\ ApprovalInv
  <2> SUFFICES ASSUME Init PROVE ApprovalInv
    BY TypeInit, RowInit, RecoveryInit, BackwardsInit
  <2>1. 1 .. nRuns = {} /\ \A t \in Threads : op[t].kind = "idle"
    BY DEF Init, Idle
  <2> QED
    BY <2>1 DEF ApprovalInv, ApprovalNotBypassed, Recovering
<1>2. /\ TypeOK /\ RowInv /\ RecoveryInv /\ Backwards /\ ApprovalInv
      /\ [Next]_vars
      => (TypeOK /\ RowInv /\ RecoveryInv /\ Backwards /\ ApprovalInv)'
  BY TypeNext, RowNext, RecoveryNext, BackwardsNext, ApprovalNext
<1>3. ApprovalInv => ApprovalNotBypassed
  BY DEF ApprovalInv
<1> QED
  BY <1>1, <1>2, <1>3, PTL DEF Spec
=============================================================================
