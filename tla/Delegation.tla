----------------------------- MODULE Delegation -----------------------------
(***************************************************************************)
(* A run whose agent asks its squad for help (hagent/engine.py              *)
(* execute_agent, mcp_bridge.py).  Every call of a teammate is a whole      *)
(* execute_agent of its own, with a primary, a backup and a failback        *)
(* runtime, and all calls below a run share one budget.  An API runtime     *)
(* calls tools in the thread of its call; a CLI runtime calls them through  *)
(* the bridge, in a thread per request, and no longer waits for the answer  *)
(* after three minutes.                                                     *)
(***************************************************************************)
EXTENDS Naturals, FiniteSets

CONSTANTS
    Team,           \* agents
    Lead,           \* the one the run is for
    InSquad,        \* the members of its squad in the beginning
    Gated,          \* agents that require approval of their runs,
    Backed,         \*   with a backup runtime,
    ArchivedBackup, \*   whose backup runtime is archived,
    FailedBack,     \*   with a failback runtime,
    MayBeCli,       \*   some of whose runtimes are CLIs
    MaxCalls,       \* bound: calls of the run, with its own
    Limit,          \* its delegation_limit
    MaxSquadEdits,  \* bound: changes of the squad while the run goes on
    NoAgentHere     \* no agent

ASSUME DelegationAssumption ==
    /\ InSquad \cup Gated \cup Backed \cup ArchivedBackup \cup FailedBack \cup MayBeCli \subseteq Team
    /\ Lead \in Team /\ NoAgentHere \notin Team
    /\ MaxCalls \in Nat \ {0} /\ Limit \in 0 .. 50 /\ MaxSquadEdits \in Nat

VARIABLES
    squad,        \* members, archived: the squad; edits: how often it has changed
    call,         \* the calls of execute_agent, 1 being the run itself
    budget,       \* limit, used: delegation_budget
    stopRun,      \* the run is cancelled
    traveling,    \* live_activity._active: whom an agent is shown to be visiting
    contended    \* history: two threads were between looking at the budget and counting

delegationVars == <<squad, call, budget, stopRun, traveling, contended>>

Calls == 1 .. MaxCalls
\* waits: the call whose answer the thread of this one waits for; path: the agents from the run
\* down to this call; offered: the teammates its runtime was given tools for; session: its
\* memory session.
NoCall == [at |-> "none", agent |-> NoAgentHere, parent |-> 0, path |-> {}, stage |-> "primary",
           cli |-> FALSE, offered |-> {}, waits |-> 0, error |-> "none", session |-> "none"]

DelegationTypeOK ==
    /\ squad.members \subseteq Team /\ squad.archived \in BOOLEAN /\ squad.edits \in 0 .. MaxSquadEdits
    /\ budget.limit = Limit /\ budget.used \in 0 .. MaxCalls
    /\ {stopRun, contended} \subseteq BOOLEAN
    /\ \A a \in Team : traveling[a] \in Team \cup {NoAgentHere}
    /\ \A k \in Calls :
         LET c == call[k]
         IN  /\ c.at \in {"none", "looked", "begun", "thinking", "failed", "returned", "raised"}
             /\ c.stage \in {"primary", "backup", "failback"}
             /\ c.error \in {"none", "error", "limit", "cancelled"}
             /\ c.session \in {"none", "open", "closed"}
             \* nobody is asked from below to do what it is doing itself
             /\ c.at # "none" /\ c.parent # 0 => c.agent \notin call[c.parent].path

DelegationInit ==
    /\ squad = [members |-> InSquad, archived |-> FALSE, edits |-> 0]
    /\ budget = [limit |-> Limit, used |-> 0]
    /\ call = [k \in Calls |-> IF k = 1 THEN [NoCall EXCEPT !.at = "begun", !.agent = Lead] ELSE NoCall]
    /\ stopRun = FALSE /\ contended = FALSE
    /\ traveling = [a \in Team |-> NoAgentHere]

\* The dashboard shows an agent at the teammate it has asked last.
StartDelegation(a, t) == traveling' = [traveling EXCEPT ![a] = t]
EndDelegation(a) == traveling' = [traveling EXCEPT ![a] = NoAgentHere]

Set(k, c) == call' = [call EXCEPT ![k] = c]

-----------------------------------------------------------------------------
(* One call *)

\* Fault: a call that is not handed the budget of its caller starts one of its own.
BudgetFor_Anew(k) == [budget EXCEPT !.used = 0]

\* _tool_delegate hands the budget down.
BudgetFor(k) == budget

\* execute_agent up to the first runtime; _start_memory_session opens a session.
BeginCall(k) ==
    /\ call[k].at = "begun"
    /\ Set(k, [call[k] EXCEPT !.at = "thinking", !.session = "open", !.path = @ \cup {call[k].agent}])
    /\ budget' = BudgetFor(k)
    /\ UNCHANGED <<squad, stopRun, traveling, contended>>

\* _build_agent_tools: teammates of a squad that is not archived, but none that is on the way.
Colleagues(k) ==
    IF Cardinality(call[k].path) < 4 /\ budget.limit > 0 /\ ~squad.archived /\ call[k].agent \in squad.members
    THEN squad.members \ call[k].path
    ELSE {}

\* _execute_with_runtime: the runtime is handed its tools.
OfferTools(k) ==
    /\ call[k].at = "thinking" /\ call[k].offered = {} /\ Colleagues(k) # {}
    /\ \E cli \in {FALSE} \cup {a \in BOOLEAN : call[k].agent \in MayBeCli} : Set(k, [call[k] EXCEPT !.offered = Colleagues(k), !.cli = cli])
    /\ UNCHANGED <<squad, budget, stopRun, traveling, contended>>

\* finish_observers: the memory session is closed.
Finish_(c) == [c EXCEPT !.session = IF @ = "open" THEN "closed" ELSE @, !.waits = 0, !.offered = {}]

CallReturns(k) ==
    /\ call[k].at = "thinking" /\ call[k].waits = 0
    /\ Set(k, [Finish_(call[k]) EXCEPT !.at = "returned"])
    /\ UNCHANGED <<squad, budget, stopRun, traveling, contended>>

FailsWith(k, error) == Set(k, [call[k] EXCEPT !.at = "failed", !.error = error, !.waits = 0, !.offered = {}])

\* The runtime fails, or one of its tools does; a CLI is also stopped when the run is cancelled.
RuntimeFails(k) ==
    /\ call[k].at = "thinking" /\ (call[k].waits # 0 => call[k].cli)
    /\ \/ FailsWith(k, "error")
       \/ stopRun /\ FailsWith(k, "cancelled")
    /\ UNCHANGED <<squad, budget, stopRun, traveling, contended>>

Cancelling(k) == call[k].error = "cancelled" \/ stopRun
Raises(k, error) == Set(k, [Finish_(call[k]) EXCEPT !.at = "raised", !.error = error])
TriesNext(k, stage) ==
    Set(k, [call[k] EXCEPT !.at = "thinking", !.stage = stage, !.error = "none", !.cli = FALSE])

\* _run_with_failover: a limit or a cancellation ends the call; so does an archived backup, but
\* before finish_observers.
AfterPrimary(k) ==
    /\ call[k].at = "failed" /\ call[k].stage = "primary"
    /\ IF call[k].error = "limit" \/ call[k].agent \notin Backed \cup ArchivedBackup \/ Cancelling(k)
       THEN Raises(k, call[k].error)
       ELSE IF call[k].agent \in ArchivedBackup THEN Set(k, [call[k] EXCEPT !.at = "raised", !.error = "error"])
       ELSE TriesNext(k, "backup")
    /\ UNCHANGED <<squad, budget, stopRun, traveling, contended>>

\* _try_backup_then_failback does not tell a limit from any other error.
AfterBackup(k) ==
    /\ call[k].at = "failed" /\ call[k].stage # "primary"
    /\ IF call[k].stage = "backup" /\ call[k].agent \in FailedBack /\ ~Cancelling(k) THEN TriesNext(k, "failback")
       ELSE Raises(k, IF call[k].error = "limit" THEN "error" ELSE call[k].error)
    /\ UNCHANGED <<squad, budget, stopRun, traveling, contended>>

-----------------------------------------------------------------------------
(* The tool a teammate is asked with *)

Free(k) == call[k].at = "thinking" /\ call[k].waits = 0

\* _tool_delegate: a gated teammate is not called.  A used-up budget raises: through an API
\* runtime the call fails, a CLI is told so.
AskDelegate(k, t) ==
    /\ Free(k) /\ t \in call[k].offered \ Gated /\ ~stopRun
    /\ IF budget.used >= budget.limit
       THEN ~call[k].cli /\ FailsWith(k, "limit") /\ UNCHANGED contended
       ELSE \E n \in Calls :
              /\ call[n].at = "none" /\ \A m \in Calls : m < n => call[m].at # "none"
              /\ call' = [call EXCEPT ![k].waits = n,
                            ![n] = [NoCall EXCEPT !.at = "looked", !.agent = t, !.parent = k, !.path = call[k].path]]
              /\ contended' = (contended \/ \E m \in Calls : call[m].at = "looked")
    /\ UNCHANGED <<squad, budget, stopRun, traveling>>

\* The call is counted, and begins unless the run has been cancelled.
CountDelegate(n) ==
    /\ call[n].at = "looked"
    /\ budget' = [budget EXCEPT !.used = @ + 1]
    /\ IF stopRun THEN Set(n, [call[n] EXCEPT !.at = "raised", !.error = "cancelled"]) /\ UNCHANGED traveling
       ELSE /\ Set(n, [call[n] EXCEPT !.at = "begun"])
            /\ StartDelegation(call[call[n].parent].agent, call[n].agent)
    /\ UNCHANGED <<squad, stopRun, contended>>

\* The answer or the exception reaches whoever still waits for it: the exception fails the call
\* of an API runtime, and is a text for a CLI.
AnswerDelegate(n) ==
    LET k == call[n].parent
    IN  /\ call[n].at \in {"returned", "raised"} /\ k # 0 /\ call[k].waits = n
        /\ IF call[n].at = "raised" /\ ~call[k].cli THEN FailsWith(k, call[n].error)
           ELSE Set(k, [call[k] EXCEPT !.waits = 0])
        /\ EndDelegation(call[k].agent)
        /\ UNCHANGED <<squad, budget, stopRun, contended>>

\* mcp_bridge_stub gives up after 180 s; the thread of the bridge goes on with the call.
StubTimesOut(k) ==
    /\ call[k].at = "thinking" /\ call[k].waits # 0 /\ call[k].cli
    /\ Set(k, [call[k] EXCEPT !.waits = 0])
    /\ UNCHANGED <<squad, budget, stopRun, traveling, contended>>

-----------------------------------------------------------------------------
(* The owner *)

CancelRun ==
    /\ ~stopRun /\ stopRun' = TRUE
    /\ UNCHANGED <<squad, call, budget, traveling, contended>>

ChangeSquad(changed) ==
    /\ squad.edits < MaxSquadEdits /\ call[1].at = "thinking"
    /\ squad' = [changed EXCEPT !.edits = @ + 1]
    /\ UNCHANGED <<call, budget, stopRun, traveling, contended>>

AddMember(t) == t \notin squad.members /\ ChangeSquad([squad EXCEPT !.members = @ \cup {t}])
RemoveMember(t) == t \in squad.members /\ ChangeSquad([squad EXCEPT !.members = @ \ {t}])
ArchiveSquad == ~squad.archived /\ ChangeSquad([squad EXCEPT !.archived = TRUE])

DelegationNext ==
    \/ CancelRun \/ ArchiveSquad
    \/ \E t \in Team : AddMember(t) \/ RemoveMember(t)
    \/ \E k \in Calls :
         \/ BeginCall(k) \/ OfferTools(k) \/ CallReturns(k) \/ RuntimeFails(k) \/ AfterPrimary(k) \/ AfterBackup(k)
         \/ \E t \in Team : AskDelegate(k, t)
         \/ CountDelegate(k) \/ AnswerDelegate(k) \/ StubTimesOut(k)

DelegationSpec == DelegationInit /\ [][DelegationNext]_delegationVars

-----------------------------------------------------------------------------

Delegated == {k \in Calls : call[k].parent # 0 /\ call[k].at # "looked"}

\* However the calls are nested, repeated by backups or left behind by a CLI, no more of them
\* begin than the agent's delegation_limit, unless two threads looked at the budget before either
\* had counted ("a configured cost guard", _run_with_failover).
BudgetKept == Cardinality(Delegated) <= budget.limit \/ contended
=============================================================================
