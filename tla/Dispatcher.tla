----------------------------- MODULE Dispatcher -----------------------------
(***************************************************************************)
(* The dispatcher of one server process (hagent/dispatcher.py): its passes *)
(* over the queued runs, the slots it takes for them, and the thread pool  *)
(* that claims and executes them.                                          *)
(*                                                                         *)
(* A pass reads the queue, the running rows and the busy issues in three   *)
(* queries and decides later, under _lock, on what it read.  The loop      *)
(* thread (_loop) and the scheduler's interval job both make passes.       *)
(* Beside the pool, a request thread may execute a run itself (DirectStart:*)
(* the background tasks of web.py and resume_pending_runs).                *)
(*                                                                         *)
(* A run stands for a stream of runs with the same issue, agent and        *)
(* priority, of which one is alive at a time.                              *)
(***************************************************************************)
EXTENDS Naturals, FiniteSets, Sequences

CONSTANTS
    Runs, Agents, Issues,
    AgentOf, IssueOf,        \* Run.agent_id, Run.issue_id
    PriorityRank,            \* PRIORITY_RANK of the issue's priority
    MaxRank,                 \* bound: the lowest priority has this rank
    MaxConcurrentTasks,      \* Agent.max_concurrent_tasks, at least 1
    MaxParallel,             \* HAGENT_MAX_PARALLEL_RUNS
    QuotaAgents,             \* agents whose providers may all run out of quota
    Passers,                 \* the threads that make dispatch passes
    NoPasser

ASSUME RunsAssumption ==
    /\ IsFiniteSet(Runs)
    /\ AgentOf \in [Runs -> Agents]
    /\ IssueOf \in [Runs -> Issues]
    /\ MaxRank \in Nat
    /\ PriorityRank \in [Runs -> 0 .. MaxRank]
    /\ QuotaAgents \subseteq Agents
ASSUME LimitsAssumption ==
    /\ MaxConcurrentTasks \in [Agents -> Nat \ {0}]
    /\ MaxParallel \in Nat \ {0}
ASSUME PassersAssumption == NoPasser \notin Passers

VARIABLES
    status,    \* Run.status: not in the table, pending or running
    older,     \* the pairs of pending runs of which the first has the earlier created_at
    waited,    \* how many levels its waiting has moved a pending run up
    work,      \* what the pool does with a run: "none" if it is not in _inflight
    direct,    \* runs that request threads execute
    held,      \* agents whose providers are all out of quota
    pass,      \* what a pass has read
    lock       \* the pass that holds _lock

vars == <<status, older, waited, work, direct, held, pass, lock>>

Inflight == {r \in Runs : work[r] # "none"}
RunningOf(a) == {r \in Runs : status[r] = "running" /\ AgentOf[r] = a}

PassState == {"idle", "counting", "checking", "waiting", "placing"}
NoPass == [at |-> "idle", rows |-> <<>>, used |-> [a \in Agents |-> 0],
           busy |-> {}, held |-> {}]

TypeOK ==
    /\ status \in [Runs -> {"absent", "pending", "running"}]
    /\ older \subseteq Runs \X Runs
    /\ waited \in [Runs -> 0 .. MaxRank]
    /\ work \in [Runs -> {"none", "submitted", "running", "done"}]
    /\ direct \subseteq Runs
    /\ held \subseteq QuotaAgents
    /\ pass \in [Passers -> [at : PassState, rows : Seq(Runs),
                             used : [Agents -> Nat], busy : SUBSET Issues,
                             held : SUBSET Agents]]
    /\ lock \in Passers \cup {NoPasser}

Init ==
    /\ status = [r \in Runs |-> "absent"]
    /\ older = {}
    /\ waited = [r \in Runs |-> 0]
    /\ work = [r \in Runs |-> "none"]
    /\ direct = {}
    /\ held = {}
    /\ pass = [t \in Passers |-> NoPass]
    /\ lock = NoPasser

-----------------------------------------------------------------------------
(* The queue as the other parts of the program change it *)

Leaves(r) ==
    /\ older' = {p \in older : p[1] # r /\ p[2] # r}
    /\ waited' = [waited EXCEPT ![r] = 0]

Queue(r) ==
    /\ status[r] = "absent" /\ work[r] = "none" /\ r \notin direct
    /\ status' = [status EXCEPT ![r] = "pending"]
    /\ older' = older \cup {q \in Runs : status[q] = "pending"} \X {r}
    /\ UNCHANGED <<waited, work, direct, held, pass, lock>>

\* Cancelled while it waits or runs, or its issue was closed.  Whoever executes it goes
\* on until its adapter notices.
Withdraw(r) ==
    /\ status[r] # "absent"
    /\ status' = [status EXCEPT ![r] = "absent"]
    /\ Leaves(r)
    /\ UNCHANGED <<work, direct, held, pass, lock>>

\* Fault: the rank is not kept from falling below 0.
Age_NoFloor ==
    /\ waited' = [r \in Runs |-> IF status[r] = "pending" THEN waited[r] + 1 ELSE waited[r]]
    /\ waited' # waited
    /\ UNCHANGED <<status, older, work, direct, held, pass, lock>>

\* AGING_SECONDS go by.
Age ==
    /\ waited' = [r \in Runs |->
                    IF status[r] = "pending" /\ waited[r] < PriorityRank[r]
                    THEN waited[r] + 1 ELSE waited[r]]
    /\ waited' # waited
    /\ UNCHANGED <<status, older, work, direct, held, pass, lock>>

HoldAgent(a) ==
    /\ a \in QuotaAgents \ held
    /\ held' = held \cup {a}
    /\ UNCHANGED <<status, older, waited, work, direct, pass, lock>>
ReleaseAgent(a) ==
    /\ a \in held
    /\ held' = held \ {a}
    /\ UNCHANGED <<status, older, waited, work, direct, pass, lock>>

\* The claim of run_issue: PENDING, and no other run of the issue RUNNING.
Claimable(r) ==
    /\ status[r] = "pending"
    /\ \A q \in Runs : IssueOf[q] = IssueOf[r] => status[q] # "running"

DirectStart(r) ==
    /\ Claimable(r) /\ r \notin direct
    /\ status' = [status EXCEPT ![r] = "running"]
    /\ Leaves(r)
    /\ direct' = direct \cup {r}
    /\ UNCHANGED <<work, held, pass, lock>>

\* A late result leaves a run alone that was withdrawn meanwhile.
DirectFinish(r) ==
    /\ r \in direct
    /\ direct' = direct \ {r}
    /\ status' = [status EXCEPT ![r] = "absent"]
    /\ UNCHANGED <<older, waited, work, held, pass, lock>>

-----------------------------------------------------------------------------
(* The thread pool: _execute *)

\* The pool has as many workers as there can be runs in _inflight.
Claim(r) ==
    /\ work[r] = "submitted"
    /\ Claimable(r)
    /\ status' = [status EXCEPT ![r] = "running"]
    /\ Leaves(r)
    /\ work' = [work EXCEPT ![r] = "running"]
    /\ UNCHANGED <<direct, held, pass, lock>>

ClaimLost(r) ==
    /\ work[r] = "submitted"
    /\ ~Claimable(r)
    /\ work' = [work EXCEPT ![r] = "done"]
    /\ UNCHANGED <<status, older, waited, direct, held, pass, lock>>

\* Fault: the pool thread of a run that was withdrawn does not come back.
Finish_RunningOnly(r) ==
    /\ work[r] = "running" /\ status[r] = "running"
    /\ work' = [work EXCEPT ![r] = "done"]
    /\ status' = [status EXCEPT ![r] = "absent"]
    /\ UNCHANGED <<older, waited, direct, held, pass, lock>>

\* The adapter returns; a late result changes nothing in the row of a withdrawn run.
Finish(r) ==
    /\ work[r] = "running"
    /\ work' = [work EXCEPT ![r] = "done"]
    /\ status' = [status EXCEPT ![r] = "absent"]
    /\ UNCHANGED <<older, waited, direct, held, pass, lock>>

\* The finally clause takes _lock.
Release(r) ==
    /\ work[r] = "done"
    /\ lock = NoPasser
    /\ work' = [work EXCEPT ![r] = "none"]
    /\ UNCHANGED <<status, older, waited, direct, held, pass, lock>>

-----------------------------------------------------------------------------
(* A pass: dispatch_pending *)

\* Fault: waiting does not raise the priority.
EffectiveRank_NoAging(r) == PriorityRank[r]

\* Priority rank after aging: Age stops at 0, the rank of urgent work.
EffectiveRank(r) == PriorityRank[r] - waited[r]

Before(q, r) ==
    \/ EffectiveRank(q) < EffectiveRank(r)
    \/ EffectiveRank(q) = EffectiveRank(r) /\ <<q, r>> \in older

\* The queue in the order in which the pass will look at it: a run comes after those before it.
Ahead(S, r) == {q \in S : Before(q, r)}
InOrder(S) ==
    [n \in 1 .. Cardinality(S) |-> CHOOSE r \in S : Cardinality(Ahead(S, r)) = n - 1]

ReadPending(t) ==
    LET queued == {r \in Runs : status[r] = "pending"}
    IN  /\ pass[t].at = "idle"
        /\ queued # {}
        /\ pass' = [pass EXCEPT ![t] = [NoPass EXCEPT !.at = "counting",
                                                      !.rows = InOrder(queued)]]
        /\ UNCHANGED <<status, older, waited, work, direct, held, lock>>

ReadRunning(t) ==
    /\ pass[t].at = "counting"
    /\ pass' = [pass EXCEPT ![t].at = "checking",
                            ![t].used = [a \in Agents |-> Cardinality(RunningOf(a))]]
    /\ UNCHANGED <<status, older, waited, work, direct, held, lock>>

ReadBusy(t) ==
    /\ pass[t].at = "checking"
    /\ pass' = [pass EXCEPT ![t].at = "waiting",
                            ![t].busy = {IssueOf[r] : r \in {q \in Runs : status[q] = "running"}},
                            ![t].held = held]
    /\ UNCHANGED <<status, older, waited, work, direct, held, lock>>

\* Fault: runs that were started and have not claimed their row yet are forgotten.
StartPlacing_NoInflight(t) ==
    /\ pass[t].at = "waiting"
    /\ lock = NoPasser
    /\ lock' = t
    /\ pass' = [pass EXCEPT ![t].at = "placing"]
    /\ UNCHANGED <<status, older, waited, work, direct, held>>

\* Runs of the list that this process has started already count for their agent and
\* their issue: they may not have claimed their row yet.
StartPlacing(t) ==
    LET listed == {pass[t].rows[n] : n \in 1 .. Len(pass[t].rows)}
        begun == listed \cap Inflight
    IN  /\ pass[t].at = "waiting"
        /\ lock = NoPasser
        /\ lock' = t
        /\ pass' = [pass EXCEPT ![t].at = "placing",
                      ![t].busy = @ \cup {IssueOf[r] : r \in begun},
                      ![t].used = [a \in Agents |->
                          @[a] + Cardinality({r \in begun : AgentOf[r] = a})]]
        /\ UNCHANGED <<status, older, waited, work, direct, held>>

Startable(t, r) ==
    /\ r \notin Inflight
    /\ Cardinality(Inflight) < MaxParallel
    /\ AgentOf[r] \notin pass[t].held
    /\ IssueOf[r] \notin pass[t].busy
    /\ pass[t].used[AgentOf[r]] < MaxConcurrentTasks[AgentOf[r]]

PlaceRow(t) ==
    LET r == Head(pass[t].rows)
    IN  /\ pass[t].at = "placing" /\ pass[t].rows # <<>>
        /\ IF Startable(t, r)
           THEN /\ work' = [work EXCEPT ![r] = "submitted"]
                /\ pass' = [pass EXCEPT ![t].rows = Tail(@),
                                        ![t].busy = @ \cup {IssueOf[r]},
                                        ![t].used[AgentOf[r]] = @ + 1]
           ELSE /\ UNCHANGED work
                /\ pass' = [pass EXCEPT ![t].rows = Tail(@)]
        /\ UNCHANGED <<status, older, waited, direct, held, lock>>

EndPass(t) ==
    /\ pass[t].at = "placing" /\ pass[t].rows = <<>>
    /\ pass' = [pass EXCEPT ![t] = NoPass]
    /\ lock' = NoPasser
    /\ UNCHANGED <<status, older, waited, work, direct, held>>

-----------------------------------------------------------------------------

PassStep(t) ==
    \/ ReadPending(t) \/ ReadRunning(t) \/ ReadBusy(t)
    \/ StartPlacing(t) \/ PlaceRow(t) \/ EndPass(t)
PoolStep(r) == Claim(r) \/ ClaimLost(r) \/ Finish(r)

Next ==
    \/ \E r \in Runs : \/ Queue(r) \/ Withdraw(r) \/ DirectStart(r) \/ DirectFinish(r)
                       \/ PoolStep(r) \/ Release(r)
    \/ Age
    \/ \E a \in Agents : HoldAgent(a) \/ ReleaseAgent(a)
    \/ \E t \in Passers : PassStep(t)

Spec == Init /\ [][Next]_vars

\* The timer keeps making passes, adapters return, time goes by, quotas reset, a thread
\* that waits for _lock gets it in the end; from some point on nobody starts runs by hand
\* and no provider runs out.
Fairness ==
    /\ \A t \in Passers : SF_vars(PassStep(t))
    /\ \A r \in Runs : WF_vars(PoolStep(r)) /\ WF_vars(DirectFinish(r)) /\ SF_vars(Release(r))
    /\ WF_vars(Age)
    /\ \A a \in Agents : WF_vars(ReleaseAgent(a))
    /\ <>[][/\ \A r \in Runs : ~DirectStart(r)
            /\ \A a \in Agents : ~HoldAgent(a)]_vars

FairSpec == Spec /\ Fairness

-----------------------------------------------------------------------------

\* The pool never holds more runs than HAGENT_MAX_PARALLEL_RUNS, whichever threads make
\* passes: a run counts from the moment it is submitted until it is popped.
InflightWithinCap == Cardinality(Inflight) <= MaxParallel

\* The dispatcher respects each agent's max_concurrent_tasks: of the runs it started, no
\* more are RUNNING at once for an agent than the agent allows, although it counts them
\* in two queries before it decides.
AgentWithinLimit ==
    \A a \in Agents :
        Cardinality({r \in RunningOf(a) : work[r] = "running"}) <= MaxConcurrentTasks[a]

\* Old work of low priority is not starved by newer urgent work that keeps coming.
NoStarvation == \A r \in Runs : status[r] = "pending" ~> status[r] # "pending"

\* A slot is given back, also when the claim was lost or the run withdrawn.
SlotsComeBack == \A r \in Runs : work[r] # "none" ~> work[r] = "none"
=============================================================================
