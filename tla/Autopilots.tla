----------------------------- MODULE Autopilots -----------------------------
(***************************************************************************)
(* Recurring work (scheduler.py, triggers.py, the autopilot commands and    *)
(* pages): one autopilot with its triggers, the jobs of the scheduler, and  *)
(* the firings that run its agent on issues.                                *)
(*                                                                         *)
(* Jobs are made from the triggers when the server starts and when the page *)
(* adds a trigger; commands change rows only.  A firing loads the matching  *)
(* issues once and then works on them one after the other, for minutes      *)
(* each, in one session.                                                    *)
(***************************************************************************)
EXTENDS Naturals, FiniteSets

CONSTANTS
    Triggers,      \* rows of autopilot_triggers
    Targets,       \* rows of issues of the autopilot's project
    Firings,       \* threads that run run_autopilot_once
    PageRequests,  \* requests that add a trigger
    MaxPilotEdits  \* bound: changes of the autopilot, its triggers and, by others, its issues

ASSUME AutopilotsAssumption == MaxPilotEdits \in Nat

VARIABLES
    pilot,       \* Autopilot: enabled, mode, whether it has a status filter
    trigger,     \* AutopilotTrigger
    jobs,        \* the triggers with a job, and System for the server's own jobs
    page,        \* what a request has read and is about to do
    firing,      \* what a firing is doing, its issues to come and the one it runs
    target,      \* Issue.status
    active,      \* issues with an active run of the agent
    pilotEdits,  \* the number of changes
    drifted      \* history: triggers changed by a command since their job was made,
                 \* and all triggers after a request that failed halfway

pilotVars == <<pilot, trigger, jobs, page, firing, target, active, pilotEdits, drifted>>

System == "system"
OpenStatuses == {"backlog", "todo", "in_progress"}
OtherStatuses == {"in_review", "blocked", "closed"}  \* closed: done or cancelled
NoTrigger == [state |-> "none", enabled |-> TRUE, type |-> "cron"]
Quiet == [at |-> "idle", listed |-> {}, seen |-> {}]
Rest == [at |-> "idle", by |-> "hand", todo |-> {}, current |-> "none"]

AutopilotsTypeOK ==
    /\ pilot \in [enabled : BOOLEAN, mode : {"filter", "create_issue"}, filter : BOOLEAN]
    /\ trigger \in [Triggers -> [state : {"none", "live", "deleted"}, enabled : BOOLEAN,
                                 type : {"cron", "webhook"}]]
    /\ jobs \subseteq Triggers \cup {System}
    /\ \A p \in PageRequests : page[p].at \in {"idle", "list", "remove", "read", "add"}
    /\ \A f \in Firings : firing[f].at \in {"idle", "started", "created", "listed", "running"}
    /\ target \in [Targets -> OpenStatuses \cup OtherStatuses \cup {"none"}]
    /\ active \subseteq Targets /\ pilotEdits \in 0 .. MaxPilotEdits
    /\ drifted \subseteq Triggers

Scheduled(t) == trigger[t].state = "live" /\ trigger[t].enabled /\ trigger[t].type = "cron"
Synced == IF pilot.enabled THEN {t \in Triggers : Scheduled(t)} ELSE {}

AutopilotsInit ==
    /\ pilot \in [enabled : {TRUE}, mode : {"filter", "create_issue"}, filter : BOOLEAN]
    /\ trigger = [t \in Triggers |-> NoTrigger]
    /\ jobs = {System}
    /\ page = [p \in PageRequests |-> Quiet]
    /\ firing = [f \in Firings |-> Rest]
    /\ target \in [Targets -> {"none", "todo"}]
    /\ active = {} /\ pilotEdits = 0 /\ drifted = {}

-----------------------------------------------------------------------------
(* Changes by the owner *)

PilotEdit == pilotEdits < MaxPilotEdits /\ pilotEdits' = pilotEdits + 1
jobState == <<jobs, page, firing>>
issueState == <<target, active>>

\* autopilot update and delete; delete only disables.  The jobs stay as they are, and a change
\* of enabled makes them out of date.
UpdatePilot(new) ==
    /\ PilotEdit
    /\ pilot' = new
    /\ drifted' = IF new.enabled = pilot.enabled THEN drifted ELSE Triggers
    /\ UNCHANGED <<trigger, jobState, issueState>>

\* trigger-add, trigger-update, trigger-delete: configure writes the type that is given.
CommandTrigger(t, row) ==
    /\ PilotEdit
    /\ trigger[t].state = "none" => row.state = "live"
    /\ trigger[t].state # "deleted"
    /\ trigger' = [trigger EXCEPT ![t] = row]
    /\ drifted' = drifted \cup {t}
    /\ UNCHANGED <<pilot, jobState, issueState>>

\* What owner and agents do to an issue of their own accord.
MoveTarget(i, status) ==
    /\ PilotEdit
    /\ target[i] # "none" /\ target[i] # status
    /\ target' = [target EXCEPT ![i] = status]
    /\ UNCHANGED <<pilot, trigger, jobState, active, drifted>>

-----------------------------------------------------------------------------
(* The page that adds a trigger, and sync_scheduler_jobs *)

\* add_autopilot_trigger commits a cron trigger and then synchronizes.
AddTrigger(p, t) ==
    /\ PilotEdit
    /\ page[p].at = "idle" /\ trigger[t].state = "none"
    /\ trigger' = [trigger EXCEPT ![t] = [NoTrigger EXCEPT !.state = "live"]]
    /\ page' = [page EXCEPT ![p].at = "list"]
    /\ UNCHANGED <<pilot, jobs, firing, issueState, drifted>>

pilotRows == <<pilot, trigger, firing, issueState, pilotEdits>>

ListJobs(p) ==
    /\ page[p].at = "list"
    /\ page' = [page EXCEPT ![p].at = "remove", ![p].listed = jobs]
    /\ UNCHANGED <<pilotRows, jobs, drifted>>

RemoveJobs(p) ==
    /\ page[p].at = "remove" /\ page[p].listed \subseteq jobs
    /\ jobs' = jobs \ page[p].listed
    /\ page' = [page EXCEPT ![p].at = "read"]
    /\ UNCHANGED <<pilotRows, drifted>>

\* Another request has removed a listed job: remove_job raises, some jobs are gone already.
RemoveFails(p) ==
    /\ page[p].at = "remove" /\ ~(page[p].listed \subseteq jobs)
    /\ \E gone \in SUBSET (page[p].listed \cap jobs) : jobs' = jobs \ gone
    /\ page' = [page EXCEPT ![p] = Quiet]
    /\ drifted' = Triggers
    /\ UNCHANGED pilotRows

ReadTriggers(p) ==
    /\ page[p].at = "read"
    /\ page' = [page EXCEPT ![p].at = "add", ![p].seen = Synced \cup {System}]
    /\ UNCHANGED <<pilotRows, jobs, drifted>>

\* Fault: the old jobs are removed after the triggers were read.
AddJobs_RemovesLate(p) ==
    /\ page[p].at = "add"
    /\ jobs' = page[p].seen
    /\ page' = [page EXCEPT ![p] = Quiet]
    /\ UNCHANGED <<pilotRows, drifted>>

AddJobs(p) ==
    /\ page[p].at = "add"
    /\ jobs' = jobs \cup page[p].seen
    /\ page' = [page EXCEPT ![p] = Quiet]
    /\ UNCHANGED <<pilotRows, drifted>>

\* start_scheduler in a new process: firings and requests of the old one are gone, and their
\* autopilot_runs stay running for ever.
ServerRestart ==
    /\ PilotEdit
    /\ jobs' = Synced \cup {System}
    /\ page' = [p \in PageRequests |-> Quiet]
    /\ firing' = [f \in Firings |-> Rest]
    /\ active' = {} /\ drifted' = {}
    /\ UNCHANGED <<pilot, trigger, target>>

-----------------------------------------------------------------------------
(* run_autopilot_once *)

elsewhere == <<pilot, trigger, jobs, page, pilotEdits, drifted>>

\* By its job, of which one instance runs at a time, by the URL of a webhook, or by hand.
Fire(f, by) ==
    /\ firing[f].at = "idle" /\ pilot.enabled
    /\ \/ by = "hand"
       \/ by \in jobs \cap Triggers /\ \A g \in Firings : firing[g].at = "idle" \/ firing[g].by # by
       \/ by \in Triggers /\ trigger[by].state = "live" /\ trigger[by].enabled /\ trigger[by].type = "webhook"
    /\ firing' = [firing EXCEPT ![f] = [Rest EXCEPT !.at = "started", !.by = by]]
    /\ UNCHANGED <<elsewhere, issueState>>

\* Skipped while every provider is at its limit, or failed in create_issue mode: no project, ...
Skip(f) ==
    /\ firing[f].at = "started"
    /\ firing' = [firing EXCEPT ![f] = Rest]
    /\ UNCHANGED <<elsewhere, issueState>>

\* create_issue mode: the issue is committed, and then its run is queued, unless that fails.
CreateTarget(f, i) ==
    /\ firing[f].at = "started" /\ pilot.mode = "create_issue"
    /\ target[i] = "none"
    /\ target' = [target EXCEPT ![i] = "todo"]
    /\ firing' = [firing EXCEPT ![f].at = "created", ![f].current = i]
    /\ UNCHANGED <<elsewhere, active>>

StartCreated(f) ==
    /\ firing[f].at = "created"
    /\ LET i == firing[f].current
       IN  IF target[i] = "closed" THEN UNCHANGED <<target, active>>
           ELSE \/ target' = [target EXCEPT ![i] = "in_progress"] /\ active' = active \cup {i}
                \/ UNCHANGED <<target, active>>
    /\ firing' = [firing EXCEPT ![f] = Rest]
    /\ UNCHANGED <<elsewhere>>

\* find_matching_issues: the status filter, or what is not delivered or stopped.
Matching == {i \in Targets : target[i] # "none" /\ (pilot.filter \/ target[i] \in OpenStatuses)}

ListTargets(f) ==
    /\ firing[f].at = "started" /\ pilot.mode = "filter"
    /\ \E listed \in SUBSET Matching :
         /\ ~pilot.filter => listed = Matching
         /\ firing' = [firing EXCEPT ![f].at = "listed", ![f].todo = listed]
    /\ UNCHANGED <<elsewhere, target, active>>

\* run_issue on the next one, whatever it has become: queue_issue_run writes in progress unless
\* the agent has an active run on it.
RunTarget(f, i) ==
    /\ firing[f].at = "listed" /\ i \in firing[f].todo
    /\ firing' = [firing EXCEPT ![f].todo = @ \ {i},
                    ![f].at = IF i \in active THEN "listed" ELSE "running",
                    ![f].current = IF i \in active THEN "none" ELSE i]
    /\ target' = IF i \in active THEN target ELSE [target EXCEPT ![i] = "in_progress"]
    /\ active' = active \cup {i}
    /\ UNCHANGED <<elsewhere>>

\* The run ends; its result is kept from issues that were closed.
EndTarget(f) ==
    /\ firing[f].at = "running"
    /\ LET i == firing[f].current
       IN  /\ active' = active \ {i}
           /\ target' \in IF target[i] = "closed" THEN {target}
                          ELSE {target, [target EXCEPT ![i] = "in_review"]}
    /\ firing' = [firing EXCEPT ![f].at = "listed", ![f].current = "none"]
    /\ UNCHANGED elsewhere

EndFiring(f) ==
    /\ firing[f].at = "listed" /\ firing[f].todo = {}
    /\ firing' = [firing EXCEPT ![f] = Rest]
    /\ UNCHANGED <<elsewhere, issueState>>

\* The run of a created issue is executed by the dispatcher.
EndCreated(i) ==
    /\ i \in active /\ \A f \in Firings : firing[f].current # i
    /\ active' = active \ {i}
    /\ target' \in IF target[i] = "closed" THEN {target} ELSE {target, [target EXCEPT ![i] = "in_review"]}
    /\ UNCHANGED <<elsewhere, firing>>

AutopilotsNext ==
    \/ \E new \in [enabled : BOOLEAN, mode : {"filter", "create_issue"}, filter : {pilot.filter}] :
         UpdatePilot(new)
    \/ \E t \in Triggers :
         \/ \E row \in [state : {"live", "deleted"}, enabled : BOOLEAN, type : {"cron", "webhook"}] :
              CommandTrigger(t, row)
         \/ \E p \in PageRequests : AddTrigger(p, t)
    \/ \E i \in Targets : \/ EndCreated(i)
                          \/ \E status \in {"todo"} \cup OtherStatuses : MoveTarget(i, status)
    \/ \E p \in PageRequests :
         ListJobs(p) \/ RemoveJobs(p) \/ RemoveFails(p) \/ ReadTriggers(p) \/ AddJobs(p)
    \/ ServerRestart
    \/ \E f \in Firings :
         \/ \E by \in Triggers \cup {"hand"} : Fire(f, by)
         \/ Skip(f) \/ StartCreated(f) \/ ListTargets(f) \/ EndTarget(f) \/ EndFiring(f)
         \/ \E i \in Targets : CreateTarget(f, i) \/ RunTarget(f, i)

AutopilotsSpec == AutopilotsInit /\ [][AutopilotsNext]_pilotVars

-----------------------------------------------------------------------------

\* When no request is being served, every trigger that should fire has a job, unless a command
\* changed the trigger, and so have the server's own tasks, unless a synchronization failed
\* (add_autopilot_trigger, sync_scheduler_jobs with several requests at once).
TriggersHaveJobs ==
    (\A p \in PageRequests : page[p].at = "idle") =>
        /\ (Synced \ drifted) \subseteq jobs
        /\ drifted # Triggers => System \in jobs

=============================================================================
