----------------------------- MODULE Providers -----------------------------
(***************************************************************************)
(* Agents and the runtimes they call: what the owner configures (web.py and *)
(* cli.py), the failover of a run (_run_with_failover of engine.py) and the *)
(* periodic health check (provider_health.py).                              *)
(*                                                                         *)
(* A run and the health check work for minutes in one session: the rows     *)
(* they hold stay as they were loaded, and only what they change is         *)
(* written.  A capacity failure moves every agent on the failed runtime to  *)
(* its backup and remembers its home, to which a recovery brings it back.   *)
(***************************************************************************)
EXTENDS Naturals, FiniteSets

CONSTANTS
    Agents,      \* rows of agents, Monitor among them
    Monitor,     \* the row ensure_provider_monitor_agents creates
    Watched,     \* bound: the agents among them that the owner edits and runs
    Runtimes,    \* rows of runtimes
    NoRuntime,   \* NULL
    MaxEdits     \* bound: changes that the owner makes

ASSUME ProvidersAssumption ==
    /\ MaxEdits \in Nat
    /\ Monitor \in Agents /\ Watched \subseteq Agents
    /\ NoRuntime \notin Runtimes

VARIABLES
    agent,     \* Agent: runtime_id, backup_runtime_id, failback_runtime_id, archived
    runtime,   \* Runtime: its row, and whether health_status is limited or error
    run,       \* the run that executes, with the rows it loaded
    check,     \* the health check, with the rows it loaded
    edits,     \* the number of changes
    chosen,    \* history: the runtime that the owner chose last for an agent
    edited,    \* history: agents changed by the owner while away from home or held by a run,
               \* or that named a runtime as it was deleted
    freed      \* history: agents whose home a check has cleared while a run held their row

history == <<chosen, edited, freed>>
providerVars == <<agent, runtime, run, check, edits, history>>

Refs == Runtimes \cup {NoRuntime}
NoRow == [state |-> "none", ill |-> FALSE]
NoAgent == [state |-> "none", primary |-> NoRuntime, backup |-> NoRuntime, failback |-> NoRuntime]
NoRun == [at |-> "idle", agent |-> Monitor, copy |-> NoAgent, primary |-> NoRuntime,
          backup |-> NoRuntime, failback |-> NoRuntime, seen |-> [r \in Runtimes |-> NoRow]]
NoCheck == [todo |-> {}, recovering |-> {}, seen |-> NoRun.seen]

AgentRow == [state : {"none", "live", "archived"}, primary : Refs, backup : Refs, failback : Refs]
RuntimeRow == [state : {"none", "live", "archived", "gone"}, ill : BOOLEAN]

ProvidersTypeOK ==
    /\ agent \in [Agents -> AgentRow]
    /\ \A a \in Agents : agent[a].state # "none" => agent[a].primary \in Runtimes
    /\ runtime \in [Runtimes -> RuntimeRow]
    /\ run.at \in {"idle", "primary", "backup", "failback"}
    /\ run.at # "idle" => run.primary \in Runtimes
    /\ check.todo \subseteq Runtimes
    /\ edits \in 0 .. MaxEdits
    /\ edited \subseteq Agents /\ freed \subseteq Agents

Configured(live) ==
    {NoAgent} \cup [state : {"live"}, primary : live, backup : live \cup {NoRuntime},
                    failback : {NoRuntime}]

\* An office that has been set up, before the first health check.
ProvidersInit ==
    /\ \E live \in SUBSET Runtimes :
         /\ runtime = [r \in Runtimes |-> IF r \in live THEN [NoRow EXCEPT !.state = "live"] ELSE NoRow]
         /\ agent \in [Agents -> Configured(live)]
    /\ agent[Monitor] = NoAgent
    /\ \A a \in Agents : agent[a].state = "live" => agent[a].backup # agent[a].primary
    /\ run = NoRun
    /\ check = NoCheck
    /\ edits = 0
    /\ chosen = [a \in Agents |-> agent[a].primary]
    /\ edited = {} /\ freed = {}

-----------------------------------------------------------------------------
(* What the owner configures *)

Live(r) == r \in Runtimes /\ runtime[r].state = "live"
Exists(r) == r \in Runtimes /\ runtime[r].state \in {"live", "archived"}
Away(a) == agent[a].failback # NoRuntime

Edit == edits < MaxEdits /\ edits' = edits + 1

\* The owner's change of a row that a failover has changed, or that a run holds.
Choose(a, row) ==
    /\ agent' = [agent EXCEPT ![a] = row]
    /\ chosen' = [chosen EXCEPT ![a] = row.primary]
    /\ edited' = IF Away(a) \/ row.failback # NoRuntime \/ (run.at # "idle" /\ run.agent = a)
                 THEN edited \cup {a} ELSE edited
    /\ UNCHANGED freed

CreateRuntime(r) ==
    /\ runtime[r].state = "none" /\ Edit
    /\ runtime' = [runtime EXCEPT ![r].state = "live"]
    /\ UNCHANGED <<agent, run, check, history>>

\* The page offers runtimes that are not archived, and the backup must differ; agent copy takes
\* the runtime of an agent, and no backup.
CreateAgent(a, primary, backup) ==
    /\ agent[a].state = "none" /\ backup # primary /\ Edit
    /\ \/ Live(primary) /\ (backup = NoRuntime \/ Live(backup))
       \/ /\ \E b \in Agents : agent[b].state # "none" /\ agent[b].primary = primary
          /\ Exists(primary) /\ backup = NoRuntime
    /\ Choose(a, [state |-> "live", primary |-> primary, backup |-> backup, failback |-> NoRuntime])
    /\ UNCHANGED <<runtime, run, check>>

\* The form writes the primary and the backup runtime and leaves the home as it is.
UpdateAgent(a, primary, backup) ==
    /\ agent[a].state # "none" /\ Live(primary) /\ backup # primary /\ Edit
    /\ backup = NoRuntime \/ Live(backup)
    /\ Choose(a, [agent[a] EXCEPT !.primary = primary, !.backup = backup])
    /\ UNCHANGED <<runtime, run, check>>

\* The command writes the option that is given; nothing compares the runtimes, and NULL
\* stands for the empty string, which clears a backup or a home.
CliUpdateAgent(a, field, r) ==
    /\ agent[a].state # "none" /\ Edit
    /\ Exists(r) \/ (r = NoRuntime /\ field # "primary")
    /\ Choose(a, [agent[a] EXCEPT ![field] = r])
    /\ UNCHANGED <<runtime, run, check>>

ArchiveAgent(a) ==
    /\ agent[a].state = "live" /\ Edit
    /\ agent' = [agent EXCEPT ![a].state = "archived"]
    /\ UNCHANGED <<runtime, run, check, history>>

RestoreAgent(a) ==
    /\ agent[a].state = "archived"
    /\ agent' = [agent EXCEPT ![a].state = "live"]
    /\ UNCHANGED <<runtime, run, check, edits, history>>

\* A runtime that is only the home of an agent can be archived ...
ArchiveRuntime(r) ==
    /\ Live(r) /\ Edit
    /\ \A a \in Agents : agent[a].state # "none" => r \notin {agent[a].primary, agent[a].backup}
    /\ runtime' = [runtime EXCEPT ![r].state = "archived"]
    /\ UNCHANGED <<agent, run, check, history>>

\* ... and one that is only a backup or a home can be deleted.
DeleteRuntime(r) ==
    /\ Exists(r) /\ Edit
    /\ \A a \in Agents : agent[a].state # "none" => r # agent[a].primary
    /\ runtime' = [runtime EXCEPT ![r].state = "gone"]
    /\ edited' = edited \cup {a \in Agents : r \in {agent[a].backup, agent[a].failback}}
    /\ UNCHANGED <<agent, run, check, chosen, freed>>

-----------------------------------------------------------------------------
(* Failover *)

\* The row a session sees: what it holds, or what is there.
Seen(held, r) == IF held[r].state # "none" THEN held[r] ELSE runtime[r]
Usable(held, r) == r \in Runtimes /\ Seen(held, r).state = "live"

\* is_cooling_down: retry_after of a limited or failed runtime may lie ahead or have passed.
Cooling(held) == SUBSET {r \in Runtimes : Seen(held, r).ill}

\* An attribute is written when it differs from what the session had loaded.
Written(loaded, new, current) == IF new = loaded THEN current ELSE new

\* The health that is there after a write; from limited to limited nothing is written, but
\* from limited to error it is.
Recorded(r, held, ill) ==
    runtime' \in {[runtime EXCEPT ![r].ill = ill]} \cup
                 (IF Seen(held, r).ill = ill THEN {runtime} ELSE {})

\* Fault: each failover takes the failed runtime for the home.
Moved_HomeOverwritten(row, copy, failed) ==
    [row EXCEPT !.primary = Written(copy.primary, copy.backup, @),
                !.backup = Written(copy.backup, failed, @),
                !.failback = failed]

\* An agent of the failed runtime moves to its backup; its home is the runtime of the first
\* failover.
Moved(row, copy, failed) ==
    [row EXCEPT !.primary = Written(copy.primary, copy.backup, @),
                !.backup = Written(copy.backup, failed, @),
                !.failback = IF copy.failback = NoRuntime THEN failed ELSE @]

\* Fault: an agent that has no backup is moved as well.
Affected_AnyBackup(a, copy, failed, held, cooling) ==
    /\ agent[a].state = "live" /\ agent[a].primary = failed
    /\ copy.backup \notin {failed} \cup cooling

\* promote_backups_for_limited_runtime in a session that holds these rows: agents whose backup
\* is limited too, archived or missing stay.
Affected(a, copy, failed, held, cooling) ==
    /\ agent[a].state = "live" /\ agent[a].primary = failed
    /\ copy.backup \notin {failed} \cup cooling /\ Usable(held, copy.backup)

Promoted(failed, held, cooling, copies) ==
    [a \in Agents |-> IF Affected(a, copies[a], failed, held, cooling)
                        THEN Moved(agent[a], copies[a], failed) ELSE agent[a]]

-----------------------------------------------------------------------------
(* A run *)

\* execute_agent loads the runtimes of the agent; a primary that is cooling down is skipped in
\* favour of a usable backup.
StartRun(a) ==
    /\ run.at = "idle" /\ agent[a].state = "live"
    /\ Exists(agent[a].primary)
    /\ LET row == agent[a]
           loaded == [r \in Runtimes |-> IF r \in {row.primary, row.backup, row.failback}
                                         THEN runtime[r] ELSE NoRun.seen[r]]
           backup == IF Exists(row.backup) THEN row.backup ELSE NoRuntime
       IN  \E skip \in {row.primary \in cooling /\ Live(backup) /\ backup \notin cooling :
                          cooling \in Cooling(NoRun.seen)} :
             run' = [at |-> "primary", agent |-> a, copy |-> row, seen |-> loaded,
                     primary |-> IF skip THEN backup ELSE row.primary,
                     backup |-> IF skip THEN row.primary ELSE backup,
                     failback |-> IF Exists(row.failback) THEN row.failback ELSE NoRuntime]
    /\ UNCHANGED <<agent, runtime, check, edits, history>>

Called ==
    CASE run.at = "primary" -> run.primary
      [] run.at = "backup" -> run.backup
      [] run.at = "failback" -> run.failback

\* record_runtime_success: nothing is written where the loaded row says healthy.
CallSucceeds ==
    /\ run.at # "idle"
    /\ IF Seen(run.seen, Called).ill THEN Recorded(Called, run.seen, FALSE) ELSE UNCHANGED runtime
    /\ run' = NoRun
    /\ UNCHANGED <<agent, check, edits, history>>

\* Which runtime is called after a failure.
NextCall ==
    CASE run.at = "primary" /\ Usable(run.seen, run.backup) -> "backup"
      [] run.at = "backup" /\ Usable(run.seen, run.failback) -> "failback"
      [] OTHER -> "idle"

\* The run goes on with what its session holds now.
GoOn(copy) ==
    run' = IF NextCall = "idle" THEN NoRun
           ELSE [run EXCEPT !.at = NextCall, !.copy = copy,
                            !.seen[Called] = [Seen(run.seen, Called) EXCEPT !.ill = TRUE]]

\* handle_capacity_failure, for the agents of the failed runtime.
CallLimited ==
    /\ run.at # "idle"
    /\ Recorded(Called, run.seen, TRUE)
    /\ LET Outcome(cooling) ==
               [agents |-> Promoted(Called, run.seen, cooling, [agent EXCEPT ![run.agent] = run.copy]),
                copy |-> IF Affected(run.agent, run.copy, Called, run.seen, cooling)
                         THEN Moved(run.copy, run.copy, Called) ELSE run.copy]
       IN  \E outcome \in {Outcome(cooling) : cooling \in Cooling(run.seen)} :
             agent' = outcome.agents /\ GoOn(outcome.copy)
    /\ UNCHANGED <<check, edits, history>>

\* record_infrastructure_failure: the provider cannot be reached.
CallBroken ==
    /\ run.at # "idle"
    /\ Recorded(Called, run.seen, TRUE)
    /\ GoOn(run.copy)
    /\ UNCHANGED <<agent, check, edits, history>>

\* The task itself fails: the backup is tried, and no health is recorded.
CallFails ==
    /\ run.at # "idle"
    /\ run' = IF NextCall = "idle" THEN NoRun ELSE [run EXCEPT !.at = NextCall]
    /\ UNCHANGED <<agent, runtime, check, edits, history>>

\* A cancelled run, or one at its delegation limit, starts no other call.
RunStops ==
    /\ run.at # "idle"
    /\ run' = NoRun
    /\ UNCHANGED <<agent, runtime, check, edits, history>>

-----------------------------------------------------------------------------
(* The health check *)

LiveRuntimes == {r \in Runtimes : Live(r)}

\* ensure_provider_monitor_agents: one monitor, with a backup if there are two runtimes.
\* Bound: a monitor that is archived is not followed by a second one; an agent like any other,
\* it would share nothing with the first but the runtimes.
WithMonitor ==
    IF agent[Monitor].state # "none" \/ LiveRuntimes = {} THEN {agent}
    ELSE {[agent EXCEPT ![Monitor] = row] :
            row \in {x \in Configured(LiveRuntimes) \ {NoAgent} :
                       /\ x.backup # x.primary
                       /\ x.backup = NoRuntime <=> LiveRuntimes = {x.primary}}}

\* The lists are read at the start.
CheckStart ==
    /\ check.todo = {}
    /\ agent' \in WithMonitor
    /\ chosen' = IF agent[Monitor].state = "none" THEN [chosen EXCEPT ![Monitor] = agent'[Monitor].primary]
                 ELSE chosen
    /\ LET working == {a \in Agents : agent'[a].state = "live"}
           recovering == {agent'[a].failback : a \in working} \ {NoRuntime}
           todo == LiveRuntimes \cap (recovering \cup {agent'[a].primary : a \in working})
       IN  check' = [todo |-> todo, recovering |-> recovering \cap todo,
                     seen |-> [r \in Runtimes |-> IF r \in todo THEN runtime[r] ELSE NoRow]]
    /\ UNCHANGED <<runtime, run, edits, edited, freed>>

\* The probe of a runtime is over; the session keeps the row as it now is until the last one.
Probed(r, ill) ==
    /\ r \in check.todo
    /\ Recorded(r, check.seen, ill)
    /\ check' = IF check.todo = {r} THEN NoCheck
                ELSE [check EXCEPT !.todo = @ \ {r}, !.recovering = @ \ {r}, !.seen[r].ill = ill]
    /\ UNCHANGED <<run, edits, chosen, edited>>

\* restore_recovered_runtime: all agents whose home this is come back.
Restored(home) ==
    [a \in Agents |->
        LET row == agent[a]
        IN  IF row.state # "live" \/ row.failback # home THEN row
            ELSE IF row.primary = home \/ ~Exists(row.primary)
            THEN [row EXCEPT !.failback = NoRuntime]
            ELSE [row EXCEPT !.primary = home, !.backup = row.primary, !.failback = NoRuntime]]

\* Fault: an agent's home is not looked at after a success.
ProbeSucceeds_NoFailback(r) ==
    /\ Probed(r, FALSE)
    /\ UNCHANGED <<agent, freed>>

\* The agents are brought home right after the probe, if the runtime was some agent's home when
\* the check began.
ProbeSucceeds(r) ==
    /\ Probed(r, FALSE)
    /\ agent' = IF r \in check.recovering THEN Restored(r) ELSE agent
    /\ freed' = IF run.at # "idle" /\ agent'[run.agent].failback # agent[run.agent].failback
                THEN freed \cup {run.agent} ELSE freed

ProbeLimited(r) ==
    /\ Probed(r, TRUE)
    /\ agent' \in {Promoted(r, check.seen, cooling, agent) : cooling \in Cooling(check.seen)}
    /\ UNCHANGED freed

ProbeBroken(r) ==
    /\ Probed(r, TRUE)
    /\ UNCHANGED <<agent, freed>>

CheckStep == CheckStart \/ \E r \in Runtimes : ProbeSucceeds(r) \/ ProbeLimited(r) \/ ProbeBroken(r)

ProvidersNext ==
    \/ \E r \in Runtimes : CreateRuntime(r) \/ ArchiveRuntime(r) \/ DeleteRuntime(r)
    \/ \E a \in Watched :
         \/ \E p \in Runtimes, b \in Refs : CreateAgent(a, p, b) \/ UpdateAgent(a, p, b)
         \/ \E field \in {"primary", "backup", "failback"}, r \in Refs : CliUpdateAgent(a, field, r)
         \/ ArchiveAgent(a) \/ RestoreAgent(a) \/ StartRun(a)
    \/ CallSucceeds \/ CallLimited \/ CallBroken \/ CallFails \/ RunStops
    \/ CheckStep

ProvidersSpec == ProvidersInit /\ [][ProvidersNext]_providerVars

\* The scheduler repeats the check; a provider that is asked for ever answers again and again.
ProvidersFairSpec ==
    /\ ProvidersSpec
    /\ WF_providerVars(CheckStep)
    /\ \A r \in Runtimes : SF_providerVars(ProbeSucceeds(r))

-----------------------------------------------------------------------------

\* Through switches, double failovers, probes and runs that hold stale rows, an agent is on the
\* runtime its owner chose or remembers it as its home, unless its owner edited it meanwhile or a
\* recovery cleared the home under a run that still held the row.
HomeKept ==
    \A a \in Agents \ (edited \cup freed) :
        agent[a].primary = chosen[a] \/ agent[a].failback = chosen[a]

\* An agent comes back from a failover once its home can be called again, unless agent or
\* home is archived or deleted first (restore_recovered_runtime).
ComesHome ==
    \A a \in Agents, r \in Runtimes :
        (agent[a].failback = r /\ agent[a].state = "live" /\ Live(r)) ~>
            (agent[a].failback # r \/ agent[a].state # "live" \/ ~Live(r))
=============================================================================
