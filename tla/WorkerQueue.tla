---------------------------- MODULE WorkerQueue -----------------------------
(***************************************************************************)
(* The queue between the server and a worker device                        *)
(* (hagent/adapters/remote_worker.py, worker_api.py, worker.py): callers   *)
(* insert jobs and wait, worker processes that share one name poll for     *)
(* them over HTTP, perform them and report.                                *)
(*                                                                         *)
(* A request is in handler[h] while the server works on it.  Its client    *)
(* may lose the connection or die meanwhile; the server goes on, and       *)
(* nobody receives the reply.  A row that is read and updated by one       *)
(* handler may have been changed in between: only the claim is conditional.*)
(***************************************************************************)
EXTENDS Naturals, FiniteSets

CONSTANTS
    MaxJobs,    \* bound: rows of worker_jobs
    Workers,    \* processes of `hagent worker start` with one token
    Handlers,   \* requests the server can work on at a time
    None

ASSUME WorkerAssumption == MaxJobs \in Nat /\ None \notin Workers

VARIABLES
    nJobs,     \* jobs are numbered in the order of created_at
    status,    \* WorkerJob.status, "none" before and "deleted" after its life
    caller,    \* how far RemoteWorkerRuntime.run has come with the job
    client,    \* what a worker process is doing, and the job it is doing it for
    handler,   \* the requests at the server
    starts,    \* history: how often a worker began to perform a job
    result     \* history: how that ended

vars == <<nJobs, status, caller, client, handler, starts, result>>

Jobs == 1 .. MaxJobs
Outcome == {"good", "bad"}
FinishedStatuses == {"done", "failed", "abandoned"}
WaitingCallers == {"waiting", "late", "closing"}

Client == [at : {"idle", "polling", "working", "reporting"}, job : Jobs \cup {0}]
IdleClient == [at |-> "idle", job |-> 0]

\* todo: the candidates of a claim that are still to be tried; by: who waits for the reply.
Request == [at : {"free", "poll", "claim", "report", "store", "reply"},
            by : Workers \cup {None}, job : Jobs \cup {0}, todo : SUBSET Jobs,
            outcome : Outcome]
NoRequest == [at |-> "free", by |-> None, job |-> 0, todo |-> {}, outcome |-> "good"]

TypeOK ==
    /\ nJobs \in 0 .. MaxJobs
    /\ status \in [Jobs -> {"none", "pending", "running", "deleted"} \cup FinishedStatuses]
    /\ caller \in [Jobs -> {"none", "answered", "raised", "gone"} \cup WaitingCallers]
    /\ client \in [Workers -> Client]
    /\ handler \in [Handlers -> Request]
    /\ starts \in [Jobs -> 0 .. 1]
    /\ result \in [Jobs -> {"none"} \cup Outcome]

Init ==
    /\ nJobs = 0
    /\ status = [j \in Jobs |-> "none"]
    /\ caller = [j \in Jobs |-> "none"]
    /\ client = [w \in Workers |-> IdleClient]
    /\ handler = [h \in Handlers |-> NoRequest]
    /\ starts = [j \in Jobs |-> 0]
    /\ result = [j \in Jobs |-> "none"]

-----------------------------------------------------------------------------
(* The caller: RemoteWorkerRuntime.run *)

\* Finished jobs are deleted after a week; by then nobody is at work on them.
Deletable(j) ==
    /\ status[j] \in FinishedStatuses /\ caller[j] \notin WaitingCallers
    /\ \A w \in Workers : client[w].job # j
    /\ \A h \in Handlers : handler[h].job # j

Enqueue(old) ==
    /\ nJobs < MaxJobs
    /\ \A j \in old : Deletable(j)
    /\ nJobs' = nJobs + 1
    /\ status' = [j \in Jobs |-> IF j = nJobs + 1 THEN "pending"
                                 ELSE IF j \in old THEN "deleted" ELSE status[j]]
    /\ caller' = [caller EXCEPT ![nJobs + 1] = "waiting"]
    /\ UNCHANGED <<client, handler, starts, result>>

UnchangedWork == UNCHANGED <<nJobs, client, handler, starts, result>>

\* Fault: the caller does not look for failures.
ReadAnswer_DoneOnly(j) ==
    /\ caller[j] = "waiting" /\ status[j] = "done"
    /\ caller' = [caller EXCEPT ![j] = "answered"]
    /\ UNCHANGED status /\ UnchangedWork

ReadAnswer(j) ==
    /\ caller[j] = "waiting" /\ status[j] \in {"done", "failed"}
    /\ caller' = [caller EXCEPT ![j] = IF status[j] = "done" THEN "answered" ELSE "raised"]
    /\ UNCHANGED status /\ UnchangedWork

Expire(j) ==
    /\ caller[j] = "waiting"
    /\ caller' = [caller EXCEPT ![j] = "late"]
    /\ UNCHANGED status /\ UnchangedWork

\* A last look: a job that is not finished will be abandoned.
Close(j) ==
    /\ caller[j] = "late"
    /\ caller' = [caller EXCEPT ![j] =
                    IF status[j] \in {"pending", "running"} THEN "closing" ELSE "raised"]
    /\ UNCHANGED status /\ UnchangedWork

\* Fault: a job that was claimed after the last look is left alone.
Abandon_PendingOnly(j) ==
    /\ caller[j] = "closing"
    /\ status' = IF status[j] = "pending" THEN [status EXCEPT ![j] = "abandoned"] ELSE status
    /\ caller' = [caller EXCEPT ![j] = "raised"]
    /\ UnchangedWork

Abandon(j) ==
    /\ caller[j] = "closing"
    /\ status' = [status EXCEPT ![j] = "abandoned"]
    /\ caller' = [caller EXCEPT ![j] = "raised"]
    /\ UnchangedWork

\* The caller's process is killed, or one of its queries fails.
CallerDies(j) ==
    /\ caller[j] \in WaitingCallers
    /\ caller' = [caller EXCEPT ![j] = "gone"]
    /\ UNCHANGED status /\ UnchangedWork

-----------------------------------------------------------------------------
(* The worker process: run_worker *)

StartPoll(w, h) ==
    /\ client[w].at = "idle" /\ handler[h].at = "free"
    /\ client' = [client EXCEPT ![w].at = "polling"]
    /\ handler' = [handler EXCEPT ![h] = [NoRequest EXCEPT !.at = "poll", !.by = w]]
    /\ UNCHANGED <<nJobs, status, caller, starts, result>>

\* execute_job returns a result or an error; the worker reports it, once.
Report(w, h, outcome) ==
    /\ client[w].at = "working" /\ handler[h].at = "free"
    /\ client' = [client EXCEPT ![w].at = "reporting"]
    /\ handler' = [handler EXCEPT ![h] = [NoRequest EXCEPT !.at = "report", !.by = w,
                                             !.job = client[w].job, !.outcome = outcome]]
    /\ result' = [result EXCEPT ![client[w].job] = outcome]
    /\ UNCHANGED <<nJobs, status, caller, starts>>

\* The connection breaks, or the process is killed and started again.
Disconnect(w) ==
    /\ client[w].at # "idle"
    /\ client' = [client EXCEPT ![w] = IdleClient]
    /\ handler' = [h \in Handlers |-> IF handler[h].by = w
                                      THEN [handler[h] EXCEPT !.by = None] ELSE handler[h]]
    /\ UNCHANGED <<nJobs, status, caller, starts, result>>

-----------------------------------------------------------------------------
(* The server: claim and complete *)

UnchangedCalls == UNCHANGED <<nJobs, caller, client, starts, result>>

\* A poll that finds nothing looks again until its deadline.
ReadCandidates(h) ==
    LET pending == {j \in Jobs : status[j] = "pending"}
    IN  /\ handler[h].at = "poll"
        /\ handler' = [handler EXCEPT ![h].at = IF pending = {} THEN "reply" ELSE "claim",
                                      ![h].todo = pending]
        /\ UNCHANGED status /\ UnchangedCalls

First(j, todo) == j \in todo /\ \A k \in todo : j <= k

\* Fault: the claim does not look at the status again.
TryClaim_Unconditional(h) ==
    \E j \in Jobs :
        /\ handler[h].at = "claim" /\ First(j, handler[h].todo)
        /\ status' = [status EXCEPT ![j] = "running"]
        /\ handler' = [handler EXCEPT ![h].at = "reply", ![h].job = j, ![h].todo = {}]
        /\ UnchangedCalls

Claim(h, j) ==
    /\ status[j] = "pending"
    /\ status' = [status EXCEPT ![j] = "running"]
    /\ handler' = [handler EXCEPT ![h].at = "reply", ![h].job = j, ![h].todo = {}]

\* Another poll has been faster, or the caller has given up.
TryNext(h, j) ==
    LET rest == handler[h].todo \ {j}
    IN  /\ status[j] # "pending"
        /\ handler' = [handler EXCEPT ![h].at = IF rest = {} THEN "reply" ELSE "claim",
                                      ![h].todo = rest]
        /\ UNCHANGED status

TryClaim(h) ==
    \E j \in Jobs :
        /\ handler[h].at = "claim" /\ First(j, handler[h].todo)
        /\ Claim(h, j) \/ TryNext(h, j)
        /\ UnchangedCalls

EmptyReply(h) == [NoRequest EXCEPT !.at = "reply", !.by = handler[h].by]

\* A report on a job that is not running is refused.
ReadJob(h) ==
    /\ handler[h].at = "report"
    /\ handler' = [handler EXCEPT ![h] = IF status[handler[h].job] = "running"
                                         THEN [handler[h] EXCEPT !.at = "store"]
                                         ELSE EmptyReply(h)]
    /\ UNCHANGED status /\ UnchangedCalls

Store(h) ==
    /\ handler[h].at = "store"
    /\ status' = [status EXCEPT ![handler[h].job] =
                    IF handler[h].outcome = "good" THEN "done" ELSE "failed"]
    /\ handler' = [handler EXCEPT ![h] = EmptyReply(h)]
    /\ UnchangedCalls

\* The reply to a client that still waits; with a job it begins to work.
Reply(h) ==
    LET w == handler[h].by
        j == handler[h].job
    IN  /\ handler[h].at = "reply"
        /\ handler' = [handler EXCEPT ![h] = NoRequest]
        /\ IF w = None THEN UNCHANGED <<client, starts>>
           ELSE IF j = 0 THEN client' = [client EXCEPT ![w] = IdleClient] /\ UNCHANGED starts
           ELSE /\ client' = [client EXCEPT ![w] = [at |-> "working", job |-> j]]
                /\ starts' = [starts EXCEPT ![j] = @ + 1]
        /\ UNCHANGED <<nJobs, status, caller, result>>

\* The server stops or the request fails: its client gets an error and goes on.
HandlerFails(h) ==
    /\ handler[h].at # "free"
    /\ handler' = [handler EXCEPT ![h] = NoRequest]
    /\ client' = [w \in Workers |-> IF w = handler[h].by THEN IdleClient ELSE client[w]]
    /\ UNCHANGED <<nJobs, status, caller, starts, result>>

-----------------------------------------------------------------------------

WorkerStep(w) ==
    \E h \in Handlers : StartPoll(w, h) \/ \E outcome \in Outcome : Report(w, h, outcome)
HandlerStep(h) == ReadCandidates(h) \/ TryClaim(h) \/ ReadJob(h) \/ Store(h) \/ Reply(h)

HealthyStep ==
    \/ \E old \in SUBSET Jobs : Enqueue(old)
    \/ \E j \in Jobs : ReadAnswer(j) \/ Close(j) \/ Abandon(j)
    \/ \E w \in Workers : WorkerStep(w)
    \/ \E h \in Handlers : HandlerStep(h)

Next ==
    \/ HealthyStep
    \/ \E j \in Jobs : Expire(j) \/ CallerDies(j)
    \/ \E w \in Workers : Disconnect(w)
    \/ \E h \in Handlers : HandlerFails(h)

Spec == Init /\ [][Next]_vars

\* The server works on its requests, the workers keep polling and reporting and their
\* assistants return, the callers look at their jobs.
Fairness ==
    /\ \A h \in Handlers : WF_vars(HandlerStep(h))
    /\ \A w \in Workers : SF_vars(WorkerStep(w))
    /\ \A j \in Jobs : WF_vars(ReadAnswer(j) \/ Close(j) \/ Abandon(j))

FairSpec == Spec /\ Fairness

-----------------------------------------------------------------------------

\* A call that has given up leaves no job behind that a worker could still claim, or that
\* stays running, even if it was claimed between the last look and the update
\* (RemoteWorkerRuntime.run after its deadline).
RaisedIsSettled ==
    \A j \in Jobs : caller[j] = "raised" => status[j] \notin {"pending", "running"}

\* What the caller of run() sees.
CallSeen(j) ==
    CASE caller[j] \in WaitingCallers -> "waiting"
      [] caller[j] \in {"raised", "gone"} -> "failed"
      [] OTHER -> caller[j]

Calls == INSTANCE RemoteCalls WITH call <- [j \in Jobs |-> CallSeen(j)]

\* The queue implements RemoteCalls: a job is performed at most once although polls and
\* replies get lost and several polls race, and a call returns normally only if a worker
\* performed it well (the comment in _claim_one, tests of test_worker.py).
Implements == Calls!Spec

\* The claim or the report of a running job went astray: nobody will finish it.
Lost(j) ==
    /\ status[j] = "running"
    /\ \A w \in Workers : client[w].job # j
    /\ \A h \in Handlers :
         handler[h].job = j => handler[h].at = "reply" /\ handler[h].by = None

\* A call comes to an end, by its deadline if the device has lost the job, and without
\* one if nothing breaks any more: polling workers leave no job lying, whatever polls and
\* reports were lost before (run_worker, RemoteWorkerRuntime.run).
CallsEnd ==
    <>[][HealthyStep]_vars =>
        \A j \in Jobs : caller[j] \in WaitingCallers
                            ~> caller[j] \notin WaitingCallers \/ Lost(j)
=============================================================================
