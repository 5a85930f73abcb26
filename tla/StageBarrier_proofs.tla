------------------------- MODULE StageBarrier_proofs -------------------------
(*****************************************************************************)
(* Theorems about StageBarrier, for any number of sub-issues, stages,        *)
(* threads and retries.                                                      *)
(*****************************************************************************)
EXTENDS StageBarrier, TLAPS

-----------------------------------------------------------------------------
(* Type correctness *)

StatesTyped ==
    /\ childStatus \in [Children -> ChildStatus]
    /\ parentStatus \in ParentStatus
    /\ parentRun \in {"none", "pending", "running"}
    /\ failures \in 0 .. MaxIdleRetries
    /\ lastDeferred \in BOOLEAN /\ excused \in BOOLEAN
    /\ op \in [Threads -> Op]

\* Only sub-issues that were created are announced, or about to be.
Announces ==
    /\ exists \subseteq Children
    /\ \A g \in fired : g \subseteq exists
    /\ \A t \in Threads : op[t].group \subseteq exists

StageInv == StatesTyped /\ Announces

\* A thread at rest is an Op.
LEMMA IdleOp == Idle \in Op /\ Idle.group = {}
BY DEF Idle, Op, Step, ParentStatus

\* At first no sub-issue is created.
LEMMA StageStart == Init => StageInv
<1> SUFFICES ASSUME Init PROVE StageInv
  OBVIOUS
<1>1. op \in [Threads -> Op] /\ \A t \in Threads : op[t].group = {}
  BY IdleOp DEF Init
<1>2. Announces
  BY <1>1 DEF Init, Announces
<1>3. 0 \in 0 .. MaxIdleRetries
  BY StageAssumption
<1>4. StatesTyped
  BY <1>1, <1>3 DEF Init, StatesTyped, ChildStatus, ParentStatus
<1> QED
  BY <1>2, <1>4 DEF StageInv

\* A thread that goes on keeps a group of sub-issues that exist.
LEMMA GoneOn ==
    ASSUME StageInv, NEW t \in Threads, NEW d \in Op, d.group \subseteq exists, op' = [op EXCEPT ![t] = d],
           UNCHANGED exists
    PROVE  op' \in [Threads -> Op] /\ \A u \in Threads : op'[u].group \subseteq exists'
BY DEF StageInv, StatesTyped, Announces

\* The steps to which a thread can go on.
LEMMA OpFields ==
    ASSUME StageInv, NEW t \in Threads
    PROVE  /\ op[t] \in Op /\ op[t].group \subseteq exists /\ op[t].seen \in ParentStatus
           /\ \A at \in Step : /\ [op[t] EXCEPT !.at = at] \in Op
                               /\ [op[t] EXCEPT !.at = at].group \subseteq exists
           /\ \A at \in Step, seen \in ParentStatus : /\ [op[t] EXCEPT !.at = at, !.seen = seen] \in Op
                                                      /\ [op[t] EXCEPT !.at = at, !.seen = seen].group \subseteq exists
           /\ \A at \in Step, self \in BOOLEAN : /\ [op[t] EXCEPT !.at = at, !.self = self] \in Op
                                                 /\ [op[t] EXCEPT !.at = at, !.self = self].group \subseteq exists
<1>1. op[t] \in Op /\ op[t].group \subseteq exists
  BY DEF StageInv, StatesTyped, Announces
<1> DEFINE o == op[t]
<1> HIDE DEF o
<1>2. o \in Op /\ o.group \subseteq exists
  BY <1>1 DEF o
<1>3. o.seen \in ParentStatus
  BY <1>2 DEF Op
<1>4. ASSUME NEW at \in Step
      PROVE  [o EXCEPT !.at = at] \in Op /\ [o EXCEPT !.at = at].group = o.group
  BY <1>2 DEF Op
<1>5. ASSUME NEW at \in Step, NEW seen \in ParentStatus
      PROVE  [o EXCEPT !.at = at, !.seen = seen] \in Op /\ [o EXCEPT !.at = at, !.seen = seen].group = o.group
  BY <1>2 DEF Op
<1>6. ASSUME NEW at \in Step, NEW self \in BOOLEAN
      PROVE  [o EXCEPT !.at = at, !.self = self] \in Op /\ [o EXCEPT !.at = at, !.self = self].group = o.group
  BY <1>2 DEF Op
<1> QED
  BY <1>2, <1>3, <1>4, <1>5, <1>6 DEF o

\* Idle thread, or one that goes to another step.
LEMMA StepTyped ==
    ASSUME StageInv, NEW t \in Threads, UNCHANGED exists,
           \/ End(t)
           \/ \E at \in Step : \/ Goto(t, at)
                               \/ \E seen \in ParentStatus : op' = [op EXCEPT ![t].at = at, ![t].seen = seen]
                               \/ \E self \in BOOLEAN : op' = [op EXCEPT ![t].at = at, ![t].self = self]
    PROVE  op' \in [Threads -> Op] /\ \A u \in Threads : op'[u].group \subseteq exists'
<1>1. CASE End(t)
  BY <1>1, GoneOn, IdleOp DEF End
<1>2. ASSUME NEW at \in Step, Goto(t, at) PROVE op' \in [Threads -> Op] /\ \A u \in Threads : op'[u].group \subseteq exists'
  <2> DEFINE d == [op[t] EXCEPT !.at = at]
  <2>1. d \in Op /\ d.group \subseteq exists /\ op' = [op EXCEPT ![t] = d]
    BY <1>2, OpFields DEF Goto
  <2> HIDE DEF d
  <2> QED
    BY <2>1, GoneOn
<1>3. ASSUME NEW at \in Step, NEW seen \in ParentStatus, op' = [op EXCEPT ![t].at = at, ![t].seen = seen]
      PROVE  op' \in [Threads -> Op] /\ \A u \in Threads : op'[u].group \subseteq exists'
  <2> DEFINE d == [op[t] EXCEPT !.at = at, !.seen = seen]
  <2>1. d \in Op /\ d.group \subseteq exists /\ op' = [op EXCEPT ![t] = d]
    BY <1>3, OpFields DEF StageInv, StatesTyped
  <2> HIDE DEF d
  <2> QED
    BY <2>1, GoneOn
<1>4. ASSUME NEW at \in Step, NEW self \in BOOLEAN, op' = [op EXCEPT ![t].at = at, ![t].self = self]
      PROVE  op' \in [Threads -> Op] /\ \A u \in Threads : op'[u].group \subseteq exists'
  <2> DEFINE d == [op[t] EXCEPT !.at = at, !.self = self]
  <2>1. d \in Op /\ d.group \subseteq exists /\ op' = [op EXCEPT ![t] = d]
    BY <1>4, OpFields DEF StageInv, StatesTyped
  <2> HIDE DEF d
  <2> QED
    BY <2>1, GoneOn
<1> QED
  BY <1>1, <1>2, <1>3, <1>4

\* enqueue_run() for the parent.
LEMMA Queued ==
    ASSUME StageInv, NEW seen, QueueParentRun(seen)
    PROVE  parentRun' \in {"none", "pending", "running"} /\ parentStatus' \in ParentStatus /\ lastDeferred' \in BOOLEAN
BY DEF StageInv, StatesTyped, QueueParentRun, ParentStatus

\* Every step keeps the types, and announces only what was created.
LEMMA StageNext == StageInv /\ [Next]_vars => StageInv'
<1> SUFFICES ASSUME StageInv, [Next]_vars PROVE StageInv'
  OBVIOUS
<1> USE DEF StageInv
<1>1. CASE UNCHANGED vars
  BY <1>1 DEF vars, StatesTyped, Announces
<1>2. ASSUME NEW t \in Threads, FireRead(t) PROVE StageInv'
  <2>1. UNCHANGED <<exists, childStatus, parentStatus, parentRun, failures, fired, lastDeferred, excused>>
    BY <1>2 DEF FireRead
  <2>2. CASE op' = [op EXCEPT ![t].at = "insert", ![t].seen = parentStatus, ![t].group = Group(FirstReady)]
    <3> DEFINE g == Group(FirstReady)
               d == [op[t] EXCEPT !.at = "insert", !.seen = parentStatus, !.group = g]
    <3>1. g \subseteq exists /\ op' = [op EXCEPT ![t] = d]
      BY <2>2 DEF Group, StatesTyped
    <3> HIDE DEF g
    <3>2. d \in Op
      <4> DEFINE o == op[t]
      <4>1. o \in Op /\ parentStatus \in ParentStatus /\ g \in SUBSET Children
        BY <3>1, OpFields DEF StatesTyped, Announces
      <4>2. d = [o EXCEPT !.at = "insert", !.seen = parentStatus, !.group = g]
        OBVIOUS
      <4> HIDE DEF o, d
      <4> QED
        BY <4>1, <4>2 DEF Op, Step
    <3>2a. d.group \subseteq exists
      BY <3>1, OpFields DEF Op
    <3> HIDE DEF d
    <3> QED
      BY <2>1, <3>1, <3>2, <3>2a, GoneOn DEF StatesTyped, Announces
  <2>3. CASE Goto(t, "resume") \/ End(t)
    BY <2>1, <2>3, StepTyped DEF StatesTyped, Announces, Step
  <2> QED
    BY <1>2, <2>2, <2>3 DEF FireRead
<1>3. ASSUME NEW t \in Threads, InsertStageRun(t) PROVE StageInv'
  <2>1. UNCHANGED <<exists, childStatus, failures, fired, excused>> /\ QueueParentRun(op[t].seen)
        /\ op' = [op EXCEPT ![t].at = "note", ![t].seen = IF parentRun = "none" THEN "in_progress" ELSE @]
    BY <1>3 DEF InsertStageRun
  <2>2. PICK seen \in ParentStatus : op' = [op EXCEPT ![t].at = "note", ![t].seen = seen]
    BY <2>1, OpFields DEF ParentStatus, StatesTyped, Op
  <2>3. op' \in [Threads -> Op] /\ \A u \in Threads : op'[u].group \subseteq exists'
    BY <2>1, <2>2, StepTyped DEF Step
  <2> QED
    BY <2>1, <2>3, Queued DEF StatesTyped, Announces
<1>4. ASSUME NEW t \in Threads, NoteStage(t) PROVE StageInv'
  <2>1. /\ UNCHANGED <<exists, childStatus, parentStatus, parentRun, failures, excused>>
        /\ fired' = fired \cup {op[t].group} /\ lastDeferred' = FALSE
    BY <1>4 DEF NoteStage
  <2>1a. \A g \in fired' : g \subseteq exists
    BY <2>1, OpFields DEF Announces
  <2>2. CASE op' = [op EXCEPT ![t] = [Idle EXCEPT !.at = "resume"]]
    <3>1. [Idle EXCEPT !.at = "resume"] \in Op /\ [Idle EXCEPT !.at = "resume"].group = {}
      BY IdleOp DEF Op, Step
    <3> QED
      BY <2>1, <2>1a, <2>2, <3>1, GoneOn DEF StatesTyped, Announces
  <2>3. CASE End(t)
    BY <2>1, <2>1a, <2>3, StepTyped DEF StatesTyped, Announces
  <2> QED
    BY <1>4, <2>2, <2>3 DEF NoteStage
<1>5. ASSUME NEW t \in Threads, ResumeRead(t) PROVE StageInv'
  <2>1. UNCHANGED <<exists, childStatus, parentStatus, parentRun, failures, fired, lastDeferred, excused>>
        /\ (op' = [op EXCEPT ![t].at = "wake", ![t].seen = "blocked"] \/ End(t))
    BY <1>5 DEF ResumeRead
  <2>2. op' \in [Threads -> Op] /\ \A u \in Threads : op'[u].group \subseteq exists'
    BY <2>1, StepTyped DEF Step, ParentStatus
  <2> QED
    BY <2>1, <2>2 DEF StatesTyped, Announces
<1>6. ASSUME NEW t \in Threads, Wake(t) PROVE StageInv'
  BY <1>6, StepTyped, Queued DEF Wake, StatesTyped, Announces
<1>7. ASSUME NEW t \in Threads, AfterFinish(t) PROVE StageInv'
  <2>1. UNCHANGED <<exists, childStatus, parentStatus, parentRun, failures, fired, lastDeferred, excused>>
    BY <1>7 DEF AfterFinish, AfterFinishRead
  <2>2. End(t) \/ \E at \in Step, seen \in ParentStatus : op' = [op EXCEPT ![t].at = at, ![t].seen = seen]
    <3> DEFINE next == IF parentRun # "none" THEN "reopen"
                       ELSE IF op[t].at = "failed" THEN "idle"
                       ELSE IF HasUnfinishedChildren THEN "defer"
                       ELSE "fire"
    <3>1. \/ End(t)
          \/ op' = [op EXCEPT ![t].at = next, ![t].seen = IF next = "fire" THEN op[t].seen ELSE parentStatus]
      BY <1>7 DEF AfterFinish, AfterFinishRead, StatesTyped
    <3>2. next \in Step /\ (IF next = "fire" THEN op[t].seen ELSE parentStatus) \in ParentStatus
      BY OpFields DEF Step, StatesTyped
    <3> HIDE DEF next
    <3> QED
      BY <3>1, <3>2
  <2>3. op' \in [Threads -> Op] /\ \A u \in Threads : op'[u].group \subseteq exists'
    BY <2>1, <2>2, StepTyped
  <2> QED
    BY <2>1, <2>3 DEF StatesTyped, Announces
<1>8. ASSUME NEW t \in Threads, ReopenParent(t) \/ DeferParent(t) PROVE StageInv'
  BY <1>8, StepTyped DEF ReopenParent, DeferParent, StatesTyped, Announces, ParentStatus
<1>9. ASSUME NEW t \in Threads, NEW ok \in BOOLEAN, FinishParentRun(t, ok) PROVE StageInv'
  <2>1. /\ UNCHANGED <<exists, childStatus, fired>> /\ parentRun' = "none" /\ lastDeferred' = FALSE
        /\ parentStatus' \in ParentStatus /\ failures' \in 0 .. MaxIdleRetries /\ excused' \in BOOLEAN
    BY <1>9, StageAssumption DEF FinishParentRun, OneMoreFailure, StatesTyped, ParentStatus
  <2>2. op' = [op EXCEPT ![t].at = IF ok THEN "post" ELSE "failed", ![t].self = ok]
    BY <1>9 DEF FinishParentRun
  <2>3. op' \in [Threads -> Op] /\ \A u \in Threads : op'[u].group \subseteq exists'
    BY <2>1, <2>2, StepTyped DEF Step
  <2> QED
    BY <2>1, <2>3 DEF StatesTyped, Announces
<1>10. CASE StartParentRun \/ SweepParent \/ SweepGivesUp
  BY <1>10, Queued DEF StartParentRun, SweepParent, SweepGivesUp, Idling, StatesTyped, Announces, ParentStatus
<1>11. ASSUME NEW c \in Children, AddChild(c) \/ CancelTask(c) PROVE StageInv'
  BY <1>11 DEF AddChild, CancelTask, StatesTyped, Announces, ChildStatus
<1>12. ASSUME NEW t \in Threads, NEW c \in Children, NEW s \in ChildStatus, MoveChild(t, c, s) PROVE StageInv'
  <2>1. /\ UNCHANGED <<exists, parentStatus, parentRun, failures, fired, lastDeferred>>
        /\ childStatus' = [childStatus EXCEPT ![c] = s]
        /\ (Goto(t, "fire") \/ op' = op)
        /\ excused' \in BOOLEAN
    BY <1>12 DEF MoveChild, Goto
  <2>2. op' \in [Threads -> Op] /\ \A u \in Threads : op'[u].group \subseteq exists'
    BY <2>1, StepTyped DEF Step, StatesTyped, Announces
  <2> QED
    BY <2>1, <2>2 DEF StatesTyped, Announces
<1>13. ASSUME NEW t \in Threads, RestartParent(t) PROVE StageInv'
  <2>1. /\ UNCHANGED <<exists, childStatus, parentRun, failures, fired, excused>>
        /\ parentStatus' = "todo" /\ lastDeferred' = FALSE /\ Goto(t, "wake")
    BY <1>13 DEF RestartParent, Goto
  <2>2. op' \in [Threads -> Op] /\ \A u \in Threads : op'[u].group \subseteq exists'
    BY <2>1, StepTyped DEF Step
  <2> QED
    BY <2>1, <2>2 DEF StatesTyped, Announces, ParentStatus
<1>14. CASE CloseParent \/ CancelParent
  <2>1. /\ UNCHANGED <<exists, childStatus, fired, op>> /\ parentRun' \in {"none", "pending", "running"}
        /\ parentStatus' = "closed" /\ lastDeferred' = FALSE /\ excused' = TRUE /\ failures' \in {failures, 0}
    BY <1>14 DEF CloseParent, CancelParent, StatesTyped
  <2>2. failures' \in 0 .. MaxIdleRetries
    BY <2>1, StageAssumption DEF StatesTyped
  <2> QED
    BY <2>1, <2>2 DEF StatesTyped, Announces, ParentStatus
<1> QED
  BY <1>1, <1>2, <1>3, <1>4, <1>5, <1>6, <1>7, <1>8, <1>9, <1>10, <1>11, <1>12, <1>13, <1>14
     DEF Next, ProjectStep, UserStep, ThreadStep

\* Type correctness: no sub-issue is announced that was not created, and the states of issues, runs
\* and threads are those the code writes.
THEOREM StagesTypeCorrect == Spec => []TypeOK
<1>1. StageInv => TypeOK
  BY DEF StageInv, StatesTyped, Announces, TypeOK
<1> QED
  BY <1>1, StageStart, StageNext, PTL DEF Spec
=============================================================================
