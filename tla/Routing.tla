------------------------------- MODULE Routing -------------------------------
(***************************************************************************)
(* Which runtime a call is given (hagent/router.py, engine.py).  A policy   *)
(* of the workspace or of a project says how runtimes are chosen and what a *)
(* call may cost; the owner changes it from pages and commands while calls  *)
(* are routed, and a call reads it twice: to choose its runtime, and again  *)
(* to settle what it may fall back on.                                      *)
(***************************************************************************)
EXTENDS Naturals

CONSTANTS
    Routes,         \* runtimes
    OwnRoute,       \* the agent's runtime,
    OwnBackup,      \*   its backup runtime
    OwnFailback,    \*   and its failback runtime
    SameProvider,   \* the runtimes of the provider that the policy or the agent fixes,
    SameModel,      \*   of the model that the policy fixes,
    Unfit,          \*   whose capabilities do not cover the model, the context or the latency cap
    PolicyModes,    \* bound: the modes that owners set
    MaxPrice,       \* bound: what a call is estimated to cost
    MaxSettings,    \* bound: changes of the policies
    PolicyOwners,         \* pages and commands that change a policy
    Nothing         \* NULL

ASSUME RoutingAssumption ==
    /\ {OwnRoute, OwnBackup, OwnFailback} \cup SameProvider \cup SameModel \cup Unfit \subseteq Routes
    /\ PolicyModes \subseteq {"auto", "provider_fixed", "model_fixed", "manual"}
    /\ MaxPrice \in Nat /\ MaxSettings \in Nat
    /\ Nothing \notin Routes /\ Nothing \notin Nat

VARIABLES
    price,        \* estimated_cost of a call on a runtime, Nothing if it is not priced
    policies,     \* routing_policies: by whether it belongs to the project, the row of a scope or Unset
    setting,      \* an owner's set_policy: at, the scope (project), found: its copy of the row, values
    settings,     \* how many have been begun
    routed        \* the call: at; project: it knows of one; cap, capNow: the cap when
                  \* it was routed and when it was resolved; primary, fallback, backup, failback

routingVars == <<price, policies, setting, settings, routed>>

Prices == 0 .. MaxPrice \cup {Nothing}
Modes == {"auto", "provider_fixed", "model_fixed", "manual"}
Policies == [mode : Modes, cap : Prices]
DefaultPolicy == [mode |-> "provider_fixed", cap |-> Nothing]
Unset == [mode |-> "none", cap |-> Nothing]
NotSetting == [at |-> "none", project |-> FALSE, found |-> Unset, values |-> Unset]
NotRouted == [at |-> "none", project |-> FALSE, cap |-> Nothing, capNow |-> Nothing,
              primary |-> Nothing, fallback |-> Nothing, backup |-> Nothing, failback |-> Nothing]

Maybe(S) == S \cup {Nothing}

RoutingTypeOK ==
    /\ price \in [Routes -> Prices] /\ settings \in 0 .. MaxSettings
    /\ policies \in [BOOLEAN -> Policies \cup {Unset}]
    /\ setting \in [PolicyOwners -> [at : {"none", "found"}, project : BOOLEAN,
                            found : Policies \cup {Unset}, values : Policies \cup {Unset}]]
    /\ routed.at \in {"none", "routed", "primary", "backup", "failback", "completed", "failed"}
    /\ \A r \in {routed.primary, routed.fallback, routed.backup, routed.failback} : r \in Maybe(Routes)
    /\ routed.at \in {"routed", "primary", "backup", "failback"} => routed.primary # Nothing
    /\ routed.at = "backup" => routed.backup # Nothing

RoutingInit ==
    /\ price \in [Routes -> Prices] /\ settings = 0
    /\ policies = [project \in BOOLEAN |-> Unset]
    /\ setting = [o \in PolicyOwners |-> NotSetting]
    /\ routed = NotRouted

-----------------------------------------------------------------------------
(* Policies *)

\* policy: the row of the project, else the one of the workspace.
PolicyRow(project) == IF project /\ policies[TRUE] # Unset THEN policies[TRUE] ELSE policies[FALSE]
Policy(project) == IF PolicyRow(project) = Unset THEN DefaultPolicy ELSE PolicyRow(project)

\* set_policy looks for the row of its own scope ...
SetPolicyRead(o, project, values) ==
    /\ setting[o].at = "none" /\ settings < MaxSettings
    /\ settings' = settings + 1
    /\ setting' = [setting EXCEPT ![o] = [at |-> "found", project |-> project, found |-> policies[project], values |-> values]]
    /\ UNCHANGED <<price, policies, routed>>

\* ... and writes what differs from the copy it has read, or inserts a row, which the unique index
\* of the scope refuses if there is one by now.  The cap is written even if it is not given.
RowWritten(s) ==
    IF s.found = Unset THEN IF policies[s.project] = Unset THEN s.values ELSE policies[s.project]
    ELSE [mode |-> IF s.values.mode # s.found.mode THEN s.values.mode ELSE policies[s.project].mode,
          cap |-> IF s.values.cap # s.found.cap THEN s.values.cap ELSE policies[s.project].cap]

SetPolicyCommit(o) ==
    /\ setting[o].at = "found"
    /\ policies' = [policies EXCEPT ![setting[o].project] = RowWritten(setting[o])]
    /\ setting' = [setting EXCEPT ![o] = NotSetting]
    /\ UNCHANGED <<price, settings, routed>>

-----------------------------------------------------------------------------
(* A call *)

\* The modes of route; a page or a command may fix the runtime for one call.
Candidates(mode) ==
    CASE mode = "manual" -> {OwnRoute}
      [] mode = "model_fixed" -> SameProvider \cap SameModel
      [] mode = "provider_fixed" -> SameProvider
      [] mode = "auto" -> Routes

\* What is not priced cannot satisfy a cap.
WithinCap(r, cap) == cap = Nothing \/ (price[r] # Nothing /\ price[r] <= cap)

Viable(p) == {r \in Candidates(p.mode) \ Unfit : WithinCap(r, p.cap)}

\* The runtimes a decision lists next: priced, and not dearer than the one chosen or the cap.
Fallbacks(r, p) ==
    {q \in Viable(p) \ {r} : price[q] # Nothing /\
        \/ price[r] = Nothing
        \/ price[q] <= price[r]
        \/ p.cap # Nothing /\ price[q] <= p.cap}

\* _route_primary_runtime.  Which of the viable runtimes ranks first, and which second, depends on
\* ranks of effort, cost and latency that are independent of the price.
RouteCall(project, override) ==
    LET row == Policy(project)
        p == IF override THEN [row EXCEPT !.mode = "manual"] ELSE row
    IN  /\ routed.at = "none"
        /\ \E r \in Viable(p) : \E next \in IF Fallbacks(r, p) = {} THEN {Nothing} ELSE Fallbacks(r, p) :
             routed' = [NotRouted EXCEPT !.at = "routed", !.project = project, !.cap = p.cap, !.primary = r, !.fallback = next]
        /\ UNCHANGED <<price, policies, setting, settings>>

\* Nothing is viable: the call fails if there is a policy by now, else it takes the agent's runtime.
RouteFails(project, override) ==
    LET row == Policy(project)
        p == IF override THEN [row EXCEPT !.mode = "manual"] ELSE row
    IN  /\ routed.at = "none" /\ Viable(p) = {}
        /\ routed' = IF PolicyRow(project) # Unset THEN [NotRouted EXCEPT !.at = "failed"]
                     ELSE [NotRouted EXCEPT !.at = "primary", !.project = project, !.primary = OwnRoute,
                             !.backup = OwnBackup, !.failback = OwnFailback]
        /\ UNCHANGED <<price, policies, setting, settings>>

\* Fault: a cap does not take away the backup that the agent has of its own.
Backup_Kept(p) == IF routed.fallback # Nothing THEN routed.fallback ELSE OwnBackup

\* _resolve_backup_and_failback: the fallback of the decision; without one, under a cap, no backup.
Backup(p) ==
    IF routed.fallback # Nothing THEN routed.fallback
    ELSE IF p.cap # Nothing THEN Nothing
    ELSE OwnBackup

ResolveBackup ==
    /\ routed.at = "routed"
    /\ LET p == Policy(routed.project)
       IN  routed' = [routed EXCEPT !.at = "primary", !.capNow = p.cap, !.backup = Backup(p), !.fallback = Nothing, !.failback = OwnFailback]
    /\ UNCHANGED <<price, policies, setting, settings>>

\* finalize writes what has become of the call into its decision.
CallSucceedsOn(stage) ==
    /\ routed.at = stage
    /\ routed' = [NotRouted EXCEPT !.at = "completed"]
    /\ UNCHANGED <<price, policies, setting, settings>>

CallFailsOn(stage) ==
    /\ routed.at = stage
    /\ routed' = IF stage = "primary" /\ routed.backup # Nothing THEN [routed EXCEPT !.at = "backup"]
                 ELSE IF stage = "backup" THEN [routed EXCEPT !.at = "failback"]
                 ELSE [NotRouted EXCEPT !.at = "failed"]
    /\ UNCHANGED <<price, policies, setting, settings>>

\* The next call; the one a teammate makes when it is asked for help knows of no project.
RouteAgain ==
    /\ routed.at \in {"completed", "failed"} /\ routed' = NotRouted
    /\ UNCHANGED <<price, policies, setting, settings>>

RoutingNext ==
    \/ \E o \in PolicyOwners : \/ SetPolicyCommit(o)
                       \/ \E project \in BOOLEAN, values \in [mode : PolicyModes, cap : Prices] : SetPolicyRead(o, project, values)
    \/ \E project \in BOOLEAN, override \in BOOLEAN : RouteCall(project, override) \/ RouteFails(project, override)
    \/ ResolveBackup
    \/ \E stage \in {"primary", "backup", "failback"} : CallSucceedsOn(stage) \/ CallFailsOn(stage)
    \/ RouteAgain

RoutingSpec == RoutingInit /\ [][RoutingNext]_routingVars

-----------------------------------------------------------------------------

\* Whatever the owner sets meanwhile, a call that finds the same cap both times it reads the
\* policy runs on nothing that is dearer or not priced ("any configured spend cap that forbids an
\* unpriced or more-expensive silent fallback", _resolve_backup_and_failback): its runtime and its
\* backup keep to it, the failback runtime does not.
SpendCapKept ==
    routed.at \in {"primary", "backup"} /\ routed.cap # Nothing /\ routed.capNow = routed.cap
        => WithinCap(IF routed.at = "primary" THEN routed.primary ELSE routed.backup, routed.cap)
=============================================================================
