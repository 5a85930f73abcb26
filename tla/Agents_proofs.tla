---------------------------- MODULE Agents_proofs ----------------------------
(*****************************************************************************)
(* Theorems about the agents: the runtimes they move between, the limits on  *)
(* what their runs may use up, the jobs that wake them and the memory they   *)
(* share; for any number of agents, runtimes, calls, prices, triggers,       *)
(* sessions and memories.                                                    *)
(*****************************************************************************)
EXTENDS Providers, Verifier, Delegation, Routing, Autopilots, SharedMemory, FiniteSetTheorems,
        SequenceTheorems, TLAPS

-----------------------------------------------------------------------------
(* Providers *)

Statuses == {"idle", "primary", "backup", "failback"}
Run == [at : Statuses, agent : Agents, copy : AgentRow, primary : Refs, backup : Refs,
        failback : Refs, seen : [Runtimes -> RuntimeRow]]
Check == [todo : SUBSET Runtimes, recovering : SUBSET Runtimes, seen : [Runtimes -> RuntimeRow]]

\* The whole state of a run and of a check, not only the parts ProvidersTypeOK looks at.
ProvidersTypes == ProvidersTypeOK /\ run \in Run /\ check \in Check

\* The constant rows are rows.
LEMMA ConstantRows ==
    /\ NoRow \in RuntimeRow /\ NoRow.state = "none"
    /\ NoAgent \in AgentRow /\ NoAgent.state = "none"
    /\ NoAgent.primary = NoRuntime /\ NoAgent.failback = NoRuntime
    /\ NoRun \in Run /\ NoRun.at = "idle"
    /\ NoRun.seen \in [Runtimes -> RuntimeRow]
    /\ NoCheck \in Check
<1>1. NoRow \in RuntimeRow /\ NoRow.state = "none"
  BY DEF NoRow, RuntimeRow
<1>2. /\ NoAgent \in AgentRow /\ NoAgent.state = "none"
      /\ NoAgent.primary = NoRuntime /\ NoAgent.failback = NoRuntime
  BY DEF NoAgent, AgentRow, Refs
<1>3. NoRun \in Run /\ NoRun.at = "idle" /\ NoRun.seen \in [Runtimes -> RuntimeRow]
  <2>1. [r \in Runtimes |-> NoRow] \in [Runtimes -> RuntimeRow]
    BY <1>1
  <2>2. NoRuntime \in Refs /\ Monitor \in Agents /\ "idle" \in Statuses
    BY ProvidersAssumption DEF Refs, Statuses
  <2> QED
    BY <1>2, <2>1, <2>2 DEF NoRun, Run
<1> QED
  BY <1>1, <1>2, <1>3 DEF NoCheck, Check

\* What is recorded of a runtime leaves its state.
LEMMA RecordedRows ==
    ASSUME runtime \in [Runtimes -> RuntimeRow], NEW r, NEW holding, NEW ill \in BOOLEAN,
           Recorded(r, holding, ill)
    PROVE  /\ runtime' \in [Runtimes -> RuntimeRow]
           /\ \A q \in Runtimes : runtime'[q].state = runtime[q].state
<1>1. \A row \in RuntimeRow : /\ [row EXCEPT !.ill = ill] \in RuntimeRow
                              /\ [row EXCEPT !.ill = ill].state = row.state
  BY DEF RuntimeRow
<1>2. runtime' = runtime \/ runtime' = [runtime EXCEPT ![r].ill = ill]
  BY DEF Recorded
<1> QED
  BY <1>1, <1>2

\* The row a session sees is a row.
LEMMA SeenRow ==
    ASSUME runtime \in [Runtimes -> RuntimeRow], NEW holding \in [Runtimes -> RuntimeRow],
           NEW r \in Runtimes
    PROVE  Seen(holding, r) \in RuntimeRow
BY DEF Seen

\* The fields of a row that was moved.
LEMMA MovedRow ==
    ASSUME NEW row \in AgentRow, NEW copy \in AgentRow, NEW failed \in Refs
    PROVE  /\ Moved(row, copy, failed) \in AgentRow
           /\ Moved(row, copy, failed).state = row.state
           /\ Moved(row, copy, failed).primary
                = IF copy.backup = copy.primary THEN row.primary ELSE copy.backup
           /\ Moved(row, copy, failed).backup = IF failed = copy.backup THEN row.backup ELSE failed
           /\ Moved(row, copy, failed).failback
                = IF copy.failback = NoRuntime THEN failed ELSE row.failback
BY DEF Moved, Written, AgentRow

\* A change of the home, or of the runtimes, of a row.
LEMMA RestoredRows ==
    ASSUME agent \in [Agents -> AgentRow], NEW home \in Runtimes, NEW a \in Agents
    PROVE  LET row == Restored(home)[a]
           IN  /\ row \in AgentRow
               /\ row.state = agent[a].state
               /\ \/ row = agent[a]
                  \/ /\ agent[a].failback = home /\ row.failback = NoRuntime
                     /\ \/ /\ agent[a].primary = home \/ ~Exists(agent[a].primary)
                           /\ row.primary = agent[a].primary /\ row.backup = agent[a].backup
                        \/ row.primary = home /\ row.backup = agent[a].primary
BY DEF Restored, AgentRow, Refs

\* The types hold at first.
LEMMA ProvidersTypesInit == ProvidersInit => ProvidersTypes
<1> SUFFICES ASSUME ProvidersInit PROVE ProvidersTypes
  OBVIOUS
<1>1. PICK live \in SUBSET Runtimes :
        /\ runtime = [r \in Runtimes |-> IF r \in live THEN [NoRow EXCEPT !.state = "live"] ELSE NoRow]
        /\ agent \in [Agents -> Configured(live)]
  BY DEF ProvidersInit
<1>2. [NoRow EXCEPT !.state = "live"] \in RuntimeRow
  BY DEF NoRow, RuntimeRow
<1>3. \A row \in Configured(live) : /\ row \in AgentRow
                                    /\ row.state # "none" => row.primary \in Runtimes
  BY ConstantRows DEF Configured, AgentRow, Refs
<1>4. run.at = "idle" /\ check.todo = {}
  BY ConstantRows DEF ProvidersInit, NoCheck
<1>5. edits \in 0 .. MaxEdits
  BY ProvidersAssumption DEF ProvidersInit
<1>6. runtime \in [Runtimes -> RuntimeRow]
  BY <1>1, <1>2, ConstantRows
<1>7. agent \in [Agents -> AgentRow] /\ \A a \in Agents : agent[a].state # "none" => agent[a].primary \in Runtimes
  BY <1>1, <1>3
<1> QED
  BY <1>4, <1>5, <1>6, <1>7, ConstantRows DEF ProvidersInit, ProvidersTypes, ProvidersTypeOK

\* The part of the types a step that leaves the run and the check alone has to keep.
ProviderRows ==
    /\ agent \in [Agents -> AgentRow]
    /\ \A a \in Agents : agent[a].state # "none" => agent[a].primary \in Runtimes
    /\ runtime \in [Runtimes -> RuntimeRow]

\* What the owner chooses is a row.
LEMMA ChosenRow ==
    ASSUME ProviderRows, NEW a \in Agents, NEW row \in AgentRow,
           row.state # "none" => row.primary \in Runtimes,
           edited \subseteq Agents, Choose(a, row), UNCHANGED runtime
    PROVE  ProviderRows' /\ edited' \subseteq Agents
BY DEF Choose, ProviderRows

\* The owner's changes keep the types.
LEMMA OwnerTypes ==
    ASSUME ProvidersTypes,
           \/ \E r \in Runtimes : CreateRuntime(r) \/ ArchiveRuntime(r) \/ DeleteRuntime(r)
           \/ \E a \in Watched :
                \/ \E p \in Runtimes, b \in Refs : CreateAgent(a, p, b) \/ UpdateAgent(a, p, b)
                \/ \E field \in {"primary", "backup", "failback"}, r \in Refs :
                      CliUpdateAgent(a, field, r)
                \/ ArchiveAgent(a) \/ RestoreAgent(a)
    PROVE  ProvidersTypes'
<1>a. /\ ProviderRows /\ Watched \subseteq Agents /\ edited \subseteq Agents /\ freed \subseteq Agents
      /\ edits \in 0 .. MaxEdits /\ MaxEdits \in Nat
  BY ProvidersAssumption DEF ProvidersTypes, ProvidersTypeOK, ProviderRows
<1>b. ASSUME ProviderRows', edits' \in 0 .. MaxEdits, edited' \subseteq Agents,
             UNCHANGED <<run, check, freed>>
      PROVE  ProvidersTypes'
  BY <1>b DEF ProvidersTypes, ProvidersTypeOK, ProviderRows
<1>c. Edit => edits' \in 0 .. MaxEdits
  BY <1>a DEF Edit
<1>1. ASSUME NEW r \in Runtimes, CreateRuntime(r) \/ ArchiveRuntime(r) \/ DeleteRuntime(r)
      PROVE  ProvidersTypes'
  <2>1. \A st \in {"live", "archived", "gone"} : [runtime[r] EXCEPT !.state = st] \in RuntimeRow
    BY <1>a DEF ProviderRows, RuntimeRow
  <2>2. ProviderRows'
    BY <1>1, <1>a, <2>1 DEF CreateRuntime, ArchiveRuntime, DeleteRuntime, ProviderRows
  <2>3. edits' \in 0 .. MaxEdits /\ edited' \subseteq Agents /\ UNCHANGED <<run, check, freed>>
    BY <1>1, <1>a, <1>c DEF CreateRuntime, ArchiveRuntime, DeleteRuntime, history
  <2> QED
    BY <1>b, <2>2, <2>3
<1>2. ASSUME NEW a \in Watched, NEW p \in Runtimes, NEW b \in Refs,
             CreateAgent(a, p, b) \/ UpdateAgent(a, p, b)
      PROVE  ProvidersTypes'
  <2>1. /\ [state |-> "live", primary |-> p, backup |-> b, failback |-> NoRuntime] \in AgentRow
        /\ [agent[a] EXCEPT !.primary = p, !.backup = b] \in AgentRow
    BY <1>a DEF AgentRow, Refs, ProviderRows
  <2>2. /\ [state |-> "live", primary |-> p, backup |-> b, failback |-> NoRuntime].primary = p
        /\ [agent[a] EXCEPT !.primary = p, !.backup = b].primary = p
    BY <1>a DEF AgentRow, ProviderRows
  <2>3. ProviderRows' /\ edited' \subseteq Agents
    BY <1>2, <1>a, <2>1, <2>2, ChosenRow DEF CreateAgent, UpdateAgent
  <2> QED
    BY <1>2, <1>b, <1>c, <2>3 DEF CreateAgent, UpdateAgent, Choose
<1>3. ASSUME NEW a \in Watched, NEW field \in {"primary", "backup", "failback"}, NEW r \in Refs,
             CliUpdateAgent(a, field, r)
      PROVE  ProvidersTypes'
  <2> DEFINE row == [agent[a] EXCEPT ![field] = r]
  <2>1. agent[a].primary \in Runtimes /\ (field = "primary" => r \in Runtimes)
    BY <1>3, <1>a DEF CliUpdateAgent, Exists, ProviderRows
  <2>2. row \in AgentRow /\ row.primary \in Runtimes
    <3>1. CASE field = "primary"
      BY <1>a, <2>1, <3>1 DEF AgentRow, ProviderRows
    <3>2. CASE field = "backup"
      BY <1>a, <2>1, <3>2 DEF AgentRow, ProviderRows
    <3>3. CASE field = "failback"
      BY <1>a, <2>1, <3>3 DEF AgentRow, ProviderRows
    <3> QED
      BY <3>1, <3>2, <3>3
  <2>3. ProviderRows' /\ edited' \subseteq Agents
    BY <1>3, <1>a, <2>2, ChosenRow DEF CliUpdateAgent
  <2> QED
    BY <1>3, <1>b, <1>c, <2>3 DEF CliUpdateAgent, Choose
<1>4. ASSUME NEW a \in Watched, ArchiveAgent(a) \/ RestoreAgent(a)
      PROVE  ProvidersTypes'
  <2>1. \A st \in {"live", "archived"} :
           /\ [agent[a] EXCEPT !.state = st] \in AgentRow
           /\ [agent[a] EXCEPT !.state = st].primary = agent[a].primary
    BY <1>a DEF AgentRow, ProviderRows
  <2>2. ProviderRows'
    BY <1>4, <1>a, <2>1 DEF ArchiveAgent, RestoreAgent, ProviderRows
  <2>3. edits' \in 0 .. MaxEdits /\ edited' \subseteq Agents /\ UNCHANGED <<run, check, freed>>
    BY <1>4, <1>a, <1>c DEF ArchiveAgent, RestoreAgent, history
  <2> QED
    BY <1>b, <2>2, <2>3
<1> QED
  BY <1>1, <1>2, <1>3, <1>4

\* The agents after a failover are agents.
LEMMA PromotedRows ==
    ASSUME ProviderRows, NEW failed \in Refs, NEW holding, NEW cooling, NEW copies \in [Agents -> AgentRow]
    PROVE  LET after == Promoted(failed, holding, cooling, copies)
           IN  /\ after \in [Agents -> AgentRow]
               /\ \A a \in Agents : after[a].state # "none" => after[a].primary \in Runtimes
<1>1. \A a \in Agents : Moved(agent[a], copies[a], failed) \in AgentRow
  BY MovedRow DEF ProviderRows
<1>2. ASSUME NEW a \in Agents, Affected(a, copies[a], failed, holding, cooling)
      PROVE  Moved(agent[a], copies[a], failed).primary \in Runtimes
  <2>1. agent[a].primary \in Runtimes /\ copies[a].backup \in Runtimes
    BY <1>2 DEF Affected, Usable, ProviderRows
  <2>2. Moved(agent[a], copies[a], failed).primary
          = IF copies[a].backup = copies[a].primary THEN agent[a].primary ELSE copies[a].backup
    BY MovedRow DEF ProviderRows
  <2> QED
    BY <2>1, <2>2
<1> QED
  BY <1>1, <1>2 DEF Promoted, ProviderRows

\* The runtime a run calls is one of those it loaded.
LEMMA CalledType == ASSUME run \in Run, run.at # "idle" PROVE Called \in Refs
BY DEF Called, Run, Statuses

\* The step that a run takes next is a step.
LEMMA NextCallType == NextCall \in Statuses /\ NextCall # "primary"
BY DEF NextCall, Statuses

\* A run that goes on is a run.
LEMMA GoOnType ==
    ASSUME run \in Run, run.at # "idle", run.primary \in Runtimes,
           runtime \in [Runtimes -> RuntimeRow], NEW copy \in AgentRow,
           GoOn(copy)
    PROVE  /\ run' \in Run /\ (run'.at # "idle" => run'.primary \in Runtimes)
           /\ run' = NoRun \/ (run'.agent = run.agent /\ run'.copy = copy)
<1>1. CASE NextCall = "idle"
  BY <1>1, ConstantRows DEF GoOn
<1>2. CASE NextCall # "idle"
  <2>1. run' = [run EXCEPT !.at = NextCall, !.copy = copy,
                           !.seen[Called] = [Seen(run.seen, Called) EXCEPT !.ill = TRUE]]
    BY <1>2 DEF GoOn
  <2>2. Called \in Runtimes => [Seen(run.seen, Called) EXCEPT !.ill = TRUE] \in RuntimeRow
    <3>1. Called \in Runtimes => Seen(run.seen, Called) \in RuntimeRow
      BY SeenRow DEF Run
    <3>2. \A row \in RuntimeRow : [row EXCEPT !.ill = TRUE] \in RuntimeRow
      BY DEF RuntimeRow
    <3> QED
      BY <3>1, <3>2
  <2>3. run' \in Run /\ run'.primary = run.primary
        /\ run'.agent = run.agent /\ run'.copy = copy
    BY <2>1, <2>2, NextCallType DEF Run
  <2> QED
    BY <2>3
<1> QED
  BY <1>1, <1>2

\* What a capacity failure does, with the runtimes that are cooling down.
LEMMA LimitedStep ==
    ASSUME CallLimited
    PROVE  \E cooling :
              /\ agent' = Promoted(Called, run.seen, cooling,
                                   [agent EXCEPT ![run.agent] = run.copy])
              /\ GoOn(IF Affected(run.agent, run.copy, Called, run.seen, cooling)
                      THEN Moved(run.copy, run.copy, Called) ELSE run.copy)
<1> DEFINE agents(cooling) == Promoted(Called, run.seen, cooling,
                                       [agent EXCEPT ![run.agent] = run.copy])
           copy(cooling) == IF Affected(run.agent, run.copy, Called, run.seen, cooling)
                            THEN Moved(run.copy, run.copy, Called) ELSE run.copy
<1>1. PICK cooling \in Cooling(run.seen) :
         LET outcome == [agents |-> agents(cooling), copy |-> copy(cooling)]
         IN  agent' = outcome.agents /\ GoOn(outcome.copy)
  BY DEF CallLimited
<1> HIDE DEF agents, copy
<1>2. agent' = agents(cooling) /\ GoOn(copy(cooling))
  BY <1>1
<1> QED
  BY <1>2 DEF agents, copy

\* The steps of a run keep the types.
LEMMA RunTypes ==
    ASSUME ProvidersTypes,
           \/ \E a \in Watched : StartRun(a)
           \/ CallSucceeds \/ CallLimited \/ CallBroken \/ CallFails \/ RunStops
    PROVE  ProvidersTypes'
<1>a. /\ ProviderRows /\ Watched \subseteq Agents /\ run \in Run
      /\ run.at # "idle" => run.primary \in Runtimes
  BY ProvidersAssumption DEF ProvidersTypes, ProvidersTypeOK, ProviderRows
<1>b. ASSUME ProviderRows', run' \in Run, run'.at # "idle" => run'.primary \in Runtimes,
             UNCHANGED <<check, edits, history>>
      PROVE  ProvidersTypes'
  <2>1. run'.at \in {"idle", "primary", "backup", "failback"}
    BY <1>b DEF Run, Statuses
  <2> QED
    BY <1>b, <2>1 DEF ProvidersTypes, ProvidersTypeOK, ProviderRows, history
<1>1. ASSUME NEW a \in Watched, StartRun(a)
      PROVE  ProvidersTypes'
  <2> DEFINE row == agent[a]
             loaded == [r \in Runtimes |-> IF r \in {row.primary, row.backup, row.failback}
                                           THEN runtime[r] ELSE NoRun.seen[r]]
             backup == IF Exists(row.backup) THEN row.backup ELSE NoRuntime
  <2>1. PICK skip \in BOOLEAN :
          /\ skip => Live(backup)
          /\ run' = [at |-> "primary", agent |-> a, copy |-> row, seen |-> loaded,
                     primary |-> IF skip THEN backup ELSE row.primary,
                     backup |-> IF skip THEN row.primary ELSE backup,
                     failback |-> IF Exists(row.failback) THEN row.failback ELSE NoRuntime]
    BY <1>1 DEF StartRun
  <2>2. /\ row \in AgentRow /\ row.primary \in Runtimes /\ row.backup \in Refs
        /\ row.failback \in Refs /\ NoRuntime \in Refs /\ a \in Agents
    BY <1>1, <1>a DEF StartRun, Exists, ProviderRows, AgentRow, Refs
  <2>3. loaded \in [Runtimes -> RuntimeRow]
    BY <1>a, ConstantRows DEF ProviderRows
  <2>4. backup \in Refs /\ (Live(backup) => backup \in Runtimes)
    BY <2>2 DEF Live
  <2> HIDE DEF row, loaded, backup
  <2>5. run'.primary \in Runtimes /\ run'.at = "primary"
    BY <2>1, <2>2, <2>4
  <2>6. run' \in Run
    BY <2>1, <2>2, <2>3, <2>4 DEF Run, Statuses, Refs
  <2> QED
    BY <1>1, <1>a, <1>b, <2>5, <2>6 DEF StartRun, ProviderRows
<1>2. CASE CallSucceeds
  <2>1. runtime' \in [Runtimes -> RuntimeRow]
    BY <1>2, <1>a, RecordedRows DEF CallSucceeds, ProviderRows
  <2> QED
    BY <1>2, <1>a, <1>b, <2>1, ConstantRows DEF CallSucceeds, ProviderRows
<1>3. CASE CallLimited
  <2>1. runtime' \in [Runtimes -> RuntimeRow]
    BY <1>3, <1>a, RecordedRows DEF CallLimited, ProviderRows
  <2>2. run.copy \in AgentRow /\ run.agent \in Agents /\ run.at # "idle" /\ Called \in Refs
    BY <1>3, <1>a, CalledType DEF Run, CallLimited
  <2>3. PICK cooling :
          /\ agent' = Promoted(Called, run.seen, cooling, [agent EXCEPT ![run.agent] = run.copy])
          /\ GoOn(IF Affected(run.agent, run.copy, Called, run.seen, cooling)
                  THEN Moved(run.copy, run.copy, Called) ELSE run.copy)
    BY <1>3, LimitedStep
  <2>4. [agent EXCEPT ![run.agent] = run.copy] \in [Agents -> AgentRow]
    BY <1>a, <2>2 DEF ProviderRows
  <2>5. ProviderRows'
    BY <1>a, <2>1, <2>2, <2>3, <2>4, PromotedRows DEF ProviderRows
  <2>6. Moved(run.copy, run.copy, Called) \in AgentRow
    BY <2>2, MovedRow
  <2>7. run' \in Run /\ (run'.at # "idle" => run'.primary \in Runtimes)
    BY <1>a, <2>2, <2>3, <2>6, GoOnType DEF ProviderRows
  <2> QED
    BY <1>3, <1>b, <2>5, <2>7 DEF CallLimited
<1>4. CASE CallBroken
  <2>1. runtime' \in [Runtimes -> RuntimeRow]
    BY <1>4, <1>a, RecordedRows DEF CallBroken, ProviderRows
  <2>2. run.copy \in AgentRow
    BY <1>a DEF Run
  <2>3. run' \in Run /\ (run'.at # "idle" => run'.primary \in Runtimes)
    BY <1>4, <1>a, <2>2, GoOnType DEF CallBroken, ProviderRows
  <2> QED
    BY <1>4, <1>a, <1>b, <2>1, <2>3 DEF CallBroken, ProviderRows
<1>5. CASE CallFails
  <2>1. /\ [run EXCEPT !.at = NextCall] \in Run
        /\ [run EXCEPT !.at = NextCall].primary = run.primary
    BY <1>a, NextCallType DEF Run
  <2> QED
    BY <1>5, <1>a, <1>b, <2>1, ConstantRows DEF CallFails, ProviderRows
<1>6. CASE RunStops
  BY <1>6, <1>a, <1>b, ConstantRows DEF RunStops, ProviderRows
<1> QED
  BY <1>1, <1>2, <1>3, <1>4, <1>5, <1>6

\* The steps of a health check keep the types.
LEMMA CheckTypes == ASSUME ProvidersTypes, CheckStep PROVE ProvidersTypes'
<1>a. /\ ProviderRows /\ Monitor \in Agents /\ check \in Check
  BY ProvidersAssumption DEF ProvidersTypes, ProvidersTypeOK, ProviderRows
<1>b. ASSUME ProviderRows', check' \in Check, freed' \subseteq Agents, UNCHANGED <<run, edits, edited>>
      PROVE  ProvidersTypes'
  <2>1. check'.todo \subseteq Runtimes
    BY <1>b DEF Check
  <2> QED
    BY <1>b, <2>1 DEF ProvidersTypes, ProvidersTypeOK, ProviderRows
<1>c. freed \subseteq Agents /\ run.agent \in Agents
  BY DEF ProvidersTypes, ProvidersTypeOK, Run
<1>1. CASE CheckStart
  <2>1. \A row \in Configured(LiveRuntimes) \ {NoAgent} :
           row \in AgentRow /\ row.primary \in Runtimes
    BY DEF Configured, LiveRuntimes, AgentRow, Refs
  <2>2. \/ agent' = agent
        \/ \E row \in Configured(LiveRuntimes) \ {NoAgent} :
              agent' = [agent EXCEPT ![Monitor] = row]
    BY <1>1 DEF CheckStart, WithMonitor
  <2>3. ProviderRows'
    BY <1>1, <1>a, <2>1, <2>2 DEF CheckStart, ProviderRows
  <2>4. check' \in Check
    <3> DEFINE working == {a \in Agents : agent'[a].state = "live"}
               recovering == {agent'[a].failback : a \in working} \ {NoRuntime}
               todo == LiveRuntimes \cap (recovering \cup {agent'[a].primary : a \in working})
               seen == [r \in Runtimes |-> IF r \in todo THEN runtime[r] ELSE NoRow]
    <3>1. check' = [todo |-> todo, recovering |-> recovering \cap todo, seen |-> seen]
      BY <1>1 DEF CheckStart
    <3>2. todo \subseteq Runtimes
      BY DEF LiveRuntimes
    <3>3. seen \in [Runtimes -> RuntimeRow]
      BY <1>a, ConstantRows DEF ProviderRows
    <3> HIDE DEF working, recovering, todo, seen
    <3> QED
      BY <3>1, <3>2, <3>3 DEF Check
  <2> QED
    BY <1>1, <1>b, <1>c, <2>3, <2>4 DEF CheckStart
<1>2. ASSUME NEW r \in Runtimes, NEW ill \in BOOLEAN, Probed(r, ill)
      PROVE  /\ runtime' \in [Runtimes -> RuntimeRow] /\ check' \in Check
             /\ UNCHANGED <<run, edits, chosen, edited>>
  <2>1. runtime' \in [Runtimes -> RuntimeRow]
    BY <1>2, <1>a, RecordedRows DEF Probed, ProviderRows
  <2>2. [check EXCEPT !.todo = @ \ {r}, !.recovering = @ \ {r}, !.seen[r].ill = ill] \in Check
    <3>1. \A row \in RuntimeRow : [row EXCEPT !.ill = ill] \in RuntimeRow
      BY DEF RuntimeRow
    <3>2. [check.seen EXCEPT ![r].ill = ill] \in [Runtimes -> RuntimeRow]
      BY <1>a, <3>1 DEF Check
    <3> QED
      BY <1>a, <3>2 DEF Check
  <2> QED
    BY <1>2, <2>1, <2>2, ConstantRows DEF Probed
<1>3. ASSUME NEW r \in Runtimes, ProbeSucceeds(r)
      PROVE  ProvidersTypes'
  <2>1. /\ runtime' \in [Runtimes -> RuntimeRow] /\ check' \in Check
        /\ UNCHANGED <<run, edits, chosen, edited>>
    BY <1>2, <1>3 DEF ProbeSucceeds
  <2>2. agent' = agent \/ agent' = Restored(r)
    BY <1>3 DEF ProbeSucceeds
  <2>3. \A a \in Agents : /\ Restored(r)[a] \in AgentRow
                          /\ Restored(r)[a].state = agent[a].state
                          /\ Restored(r)[a].primary \in {r, agent[a].primary}
    BY <1>a, RestoredRows DEF ProviderRows
  <2>4. Restored(r) \in [Agents -> AgentRow]
    BY <2>3 DEF Restored
  <2>5. ProviderRows'
    BY <1>a, <2>1, <2>2, <2>3, <2>4 DEF ProviderRows
  <2>6. freed' \subseteq Agents
    BY <1>3, <1>c DEF ProbeSucceeds
  <2> QED
    BY <1>b, <2>1, <2>5, <2>6
<1>4. ASSUME NEW r \in Runtimes, ProbeLimited(r)
      PROVE  ProvidersTypes'
  <2>1. /\ runtime' \in [Runtimes -> RuntimeRow] /\ check' \in Check
        /\ UNCHANGED <<run, edits, chosen, edited>>
    BY <1>2, <1>4 DEF ProbeLimited
  <2>2. ProviderRows'
    BY <1>4, <1>a, <2>1, PromotedRows DEF ProbeLimited, ProviderRows, Refs
  <2> QED
    BY <1>4, <1>b, <1>c, <2>1, <2>2 DEF ProbeLimited
<1>5. ASSUME NEW r \in Runtimes, ProbeBroken(r)
      PROVE  ProvidersTypes'
  <2>1. /\ runtime' \in [Runtimes -> RuntimeRow] /\ check' \in Check
        /\ UNCHANGED <<run, edits, chosen, edited>>
    BY <1>2, <1>5 DEF ProbeBroken
  <2> QED
    BY <1>5, <1>a, <1>b, <1>c, <2>1 DEF ProbeBroken, ProviderRows
<1> QED
  BY <1>1, <1>3, <1>4, <1>5 DEF CheckStep

\* Every step keeps the types.
LEMMA ProvidersTypesNext == ProvidersTypes /\ [ProvidersNext]_providerVars => ProvidersTypes'
<1>1. ProvidersTypes /\ UNCHANGED providerVars => ProvidersTypes'
  BY DEF ProvidersTypes, ProvidersTypeOK, providerVars, history
<1> QED
  BY <1>1, OwnerTypes, RunTypes, CheckTypes DEF ProvidersNext

-----------------------------------------------------------------------------
(* The home of an agent *)

\* A reference to a runtime that was not deleted.
Named(r) == r = NoRuntime \/ Exists(r)

\* Whoever is away has the owner's choice for its home; whoever is not, is there.
AtHome(a) ==
    IF agent[a].failback = NoRuntime THEN agent[a].primary = chosen[a]
                                     ELSE agent[a].failback = chosen[a]

\* An agent names no runtime that is deleted, and one that is not created has no home.
NamesExist(a) ==
    IF agent[a].state = "none" THEN agent[a].failback = NoRuntime
    ELSE /\ Exists(agent[a].primary)
         /\ Named(agent[a].backup) /\ Named(agent[a].failback)

\* A row that a session holds is stale only as far as another session's failover made it so:
\* it names the same two runtimes, and its home, if it has one, is still the home.
Stale(row, copy, home) ==
    /\ {row.primary, row.backup} = {copy.primary, copy.backup}
    /\ IF copy.failback = NoRuntime THEN copy.primary = home ELSE row.failback = copy.failback

HomeInv ==
    /\ chosen \in [Agents -> Refs]
    /\ \A a \in Agents \ (edited \cup freed) : AtHome(a) /\ NamesExist(a)
    /\ run.at # "idle" =>
          /\ agent[run.agent].state # "none"
          /\ run.agent \notin edited \cup freed =>
                Stale(agent[run.agent], run.copy, chosen[run.agent])

\* A failover that acts on such a row leaves the agent at home or its home remembered.
LEMMA MovedHome ==
    ASSUME ProviderRows, NEW a \in Agents, NEW copy \in AgentRow, NEW failed \in Refs, NEW holding,
           NEW cooling, AtHome(a), NamesExist(a), Stale(agent[a], copy, chosen[a]),
           Affected(a, copy, failed, holding, cooling)
    PROVE  LET row == Moved(agent[a], copy, failed)
               moved == Moved(copy, copy, failed)
           IN  /\ row \in AgentRow /\ row.state = "live"
               /\ row.failback = chosen[a] /\ row.failback # NoRuntime
               /\ Exists(row.primary) /\ Named(row.backup) /\ Named(row.failback)
               /\ {row.primary, row.backup} = {agent[a].primary, agent[a].backup}
               /\ copy.failback # NoRuntime => row.failback = agent[a].failback
               /\ Stale(row, moved, chosen[a]) /\ moved.failback # NoRuntime
<1> DEFINE row == Moved(agent[a], copy, failed)
           moved == Moved(copy, copy, failed)
<1>1. /\ agent[a] \in AgentRow /\ agent[a].state = "live" /\ agent[a].primary = failed
      /\ copy.backup # failed /\ copy.backup \in Runtimes
  BY DEF ProviderRows, Affected, Usable
<1>2. /\ row \in AgentRow /\ row.state = agent[a].state
      /\ row.primary = IF copy.backup = copy.primary THEN agent[a].primary ELSE copy.backup
      /\ row.backup = failed
      /\ row.failback = IF copy.failback = NoRuntime THEN failed ELSE agent[a].failback
  <2>1. \A x \in AgentRow :
           /\ Moved(x, copy, failed) \in AgentRow /\ Moved(x, copy, failed).state = x.state
           /\ Moved(x, copy, failed).primary
                = IF copy.backup = copy.primary THEN x.primary ELSE copy.backup
           /\ Moved(x, copy, failed).backup = IF failed = copy.backup THEN x.backup ELSE failed
           /\ Moved(x, copy, failed).failback
                = IF copy.failback = NoRuntime THEN failed ELSE x.failback
    BY MovedRow
  <2> QED
    BY <1>1, <2>1
<1>3. /\ moved.primary = IF copy.backup = copy.primary THEN copy.primary ELSE copy.backup
      /\ moved.backup = failed
      /\ moved.failback = IF copy.failback = NoRuntime THEN failed ELSE copy.failback
  <2>1. moved.primary = IF copy.backup = copy.primary THEN copy.primary ELSE copy.backup
    BY MovedRow
  <2>2. moved.backup = IF failed = copy.backup THEN copy.backup ELSE failed
    BY MovedRow
  <2>3. moved.failback = IF copy.failback = NoRuntime THEN failed ELSE copy.failback
    BY MovedRow
  <2> QED
    BY <1>1, <2>1, <2>2, <2>3
<1>4. copy.primary = failed /\ copy.backup = agent[a].backup
  BY <1>1 DEF Stale
<1>5. Exists(failed) /\ failed # NoRuntime /\ Exists(copy.backup)
  BY <1>1, <1>4, ProvidersAssumption DEF NamesExist, Named, Exists
<1>6. copy.failback # NoRuntime => agent[a].failback = copy.failback
  BY DEF Stale
<1>7. row.failback = chosen[a] /\ row.failback # NoRuntime
  BY <1>2, <1>4, <1>5, <1>6 DEF Stale, AtHome
<1>8. Named(row.failback)
  BY <1>1, <1>2, <1>5 DEF NamesExist, Named
<1>9. Stale(row, moved, chosen[a]) /\ moved.failback # NoRuntime
  BY <1>2, <1>3, <1>4, <1>5, <1>6 DEF Stale
<1> QED
  BY <1>1, <1>2, <1>4, <1>5, <1>6, <1>7, <1>8, <1>9 DEF Named

\* Whether a runtime exists depends on its state alone.
LEMMA SameStates ==
    ASSUME \A q \in Runtimes : runtime'[q].state = runtime[q].state
    PROVE  \A q : Exists(q)' <=> Exists(q)
BY DEF Exists

\* At first no agent is created and nobody is away.
LEMMA HomeInit == ProvidersInit => HomeInv
<1> SUFFICES ASSUME ProvidersInit PROVE HomeInv
  OBVIOUS
<1>1. PICK live \in SUBSET Runtimes :
        /\ runtime = [r \in Runtimes |-> IF r \in live THEN [NoRow EXCEPT !.state = "live"] ELSE NoRow]
        /\ agent \in [Agents -> Configured(live)]
  BY DEF ProvidersInit
<1>2. \A row \in Configured(live) :
         /\ row.failback = NoRuntime /\ row.primary \in Refs
         /\ row.state # "none" => row.primary \in live /\ row.backup \in live \cup {NoRuntime}
  BY ConstantRows DEF Configured, Refs
<1>3. \A r \in live : Exists(r)
  <2>1. [NoRow EXCEPT !.state = "live"].state = "live"
    BY DEF NoRow
  <2> QED
    BY <1>1, <2>1 DEF Exists
<1>4. \A a \in Agents : AtHome(a) /\ NamesExist(a)
  BY <1>1, <1>2, <1>3 DEF ProvidersInit, AtHome, NamesExist, Named
<1>5. chosen \in [Agents -> Refs]
  BY <1>1, <1>2 DEF ProvidersInit
<1> QED
  BY <1>4, <1>5, ConstantRows DEF HomeInv, ProvidersInit

\* A choice of the owner is the agent's home, or the agent is not followed any more.
LEMMA ChosenHome ==
    ASSUME ProvidersTypes, HomeInv, NEW a \in Agents, NEW row \in AgentRow, row.state # "none",
           a \notin edited \cup freed => Exists(row.primary) /\ Named(row.backup),
           Choose(a, row), UNCHANGED <<runtime, run>>
    PROVE  HomeInv'
<1>a. /\ agent' = [agent EXCEPT ![a] = row] /\ chosen' = [chosen EXCEPT ![a] = row.primary]
      /\ edited \subseteq edited' /\ edited' \subseteq edited \cup {a} /\ freed' = freed
      /\ row.failback # NoRuntime \/ (run.at # "idle" /\ run.agent = a) => a \in edited'
      /\ agent \in [Agents -> AgentRow]
  BY DEF Choose, ProvidersTypes, ProvidersTypeOK
<1>b. \A q : Exists(q)' <=> Exists(q)
  BY SameStates
<1>1. chosen' \in [Agents -> Refs]
  BY <1>a DEF HomeInv, AgentRow
<1>2. ASSUME NEW b \in Agents \ (edited' \cup freed')
      PROVE  AtHome(b)' /\ NamesExist(b)'
  <2>1. CASE b = a
    <3>1. /\ agent'[a] = row /\ row.failback = NoRuntime /\ chosen'[a] = row.primary
          /\ Exists(row.primary) /\ Named(row.backup)
      BY <1>a, <1>2, <2>1 DEF HomeInv
    <3> QED
      BY <1>b, <2>1, <3>1 DEF AtHome, NamesExist, Named
  <2>2. CASE b # a
    <3>1. agent'[b] = agent[b] /\ chosen'[b] = chosen[b] /\ AtHome(b) /\ NamesExist(b)
      BY <1>a, <1>2, <2>2 DEF HomeInv
    <3> QED
      BY <1>b, <3>1 DEF AtHome, NamesExist, Named
  <2> QED
    BY <2>1, <2>2
<1>3. run'.at # "idle" =>
          /\ agent'[run'.agent].state # "none"
          /\ run'.agent \notin edited' \cup freed' =>
                Stale(agent'[run'.agent], run'.copy, chosen'[run'.agent])
  BY <1>a DEF HomeInv, ProvidersTypes, Run
<1> QED
  BY <1>1, <1>2, <1>3 DEF HomeInv

\* The owner's changes preserve the invariant.
LEMMA OwnerHome ==
    ASSUME ProvidersTypes, HomeInv,
           \/ \E r \in Runtimes : CreateRuntime(r) \/ ArchiveRuntime(r) \/ DeleteRuntime(r)
           \/ \E a \in Watched :
                \/ \E p \in Runtimes, b \in Refs : CreateAgent(a, p, b) \/ UpdateAgent(a, p, b)
                \/ \E field \in {"primary", "backup", "failback"}, r \in Refs :
                      CliUpdateAgent(a, field, r)
                \/ ArchiveAgent(a) \/ RestoreAgent(a)
    PROVE  HomeInv'
<1>a. /\ ProviderRows /\ Watched \subseteq Agents
  BY ProvidersAssumption DEF ProvidersTypes, ProvidersTypeOK, ProviderRows
<1>1. ASSUME NEW r \in Runtimes, CreateRuntime(r) \/ ArchiveRuntime(r) \/ DeleteRuntime(r)
      PROVE  HomeInv'
  <2>1. /\ UNCHANGED <<agent, run, chosen, freed>> /\ edited \subseteq edited'
        /\ \A q \in Runtimes \ {r} : runtime'[q] = runtime[q]
    BY <1>1, <1>a DEF CreateRuntime, ArchiveRuntime, DeleteRuntime, history, ProviderRows
  <2>2. \A q : q # r /\ Exists(q) => Exists(q)'
    BY <2>1 DEF Exists
  <2>3. CASE CreateRuntime(r) \/ ArchiveRuntime(r)
    <3>1. Exists(r) => Exists(r)'
      BY <1>a, <2>3 DEF CreateRuntime, ArchiveRuntime, Exists, ProviderRows, RuntimeRow
    <3> QED
      BY <2>1, <2>2, <3>1 DEF HomeInv, AtHome, NamesExist, Named
  <2>4. CASE DeleteRuntime(r)
    <3>1. ASSUME NEW a \in Agents \ (edited' \cup freed')
          PROVE  NamesExist(a)'
      <4>1. /\ NamesExist(a) /\ agent' = agent
            /\ agent[a].state # "none" => r \notin {agent[a].primary, agent[a].backup,
                                                    agent[a].failback}
        BY <2>1, <2>4, <3>1 DEF DeleteRuntime, HomeInv
      <4> QED
        BY <2>2, <4>1 DEF NamesExist, Named
    <3> QED
      BY <2>1, <3>1 DEF HomeInv, AtHome
  <2> QED
    BY <1>1, <2>3, <2>4
<1>2. ASSUME NEW a \in Watched, NEW p \in Runtimes, NEW b \in Refs, CreateAgent(a, p, b)
      PROVE  HomeInv'
  <2> DEFINE row == [state |-> "live", primary |-> p, backup |-> b, failback |-> NoRuntime]
  <2>1. /\ row \in AgentRow /\ row.state # "none" /\ row.primary = p /\ row.backup = b
    BY DEF AgentRow, Refs
  <2>2. Exists(p) /\ Named(b)
    BY <1>2 DEF CreateAgent, Live, Exists, Named
  <2>3. Choose(a, row) /\ UNCHANGED <<runtime, run>>
    BY <1>2 DEF CreateAgent
  <2> HIDE DEF row
  <2> QED
    BY <1>a, <2>1, <2>2, <2>3, ChosenHome
<1>3. ASSUME NEW a \in Watched, NEW p \in Runtimes, NEW b \in Refs, UpdateAgent(a, p, b)
      PROVE  HomeInv'
  <2> DEFINE row == [agent[a] EXCEPT !.primary = p, !.backup = b]
  <2>1. /\ row \in AgentRow /\ row.state # "none" /\ row.primary = p /\ row.backup = b
    <3>1. agent[a] \in AgentRow /\ agent[a].state # "none" /\ p \in Refs
      BY <1>3, <1>a DEF UpdateAgent, ProviderRows, Refs
    <3> QED
      BY <3>1 DEF AgentRow
  <2>2. Exists(p) /\ Named(b)
    BY <1>3 DEF UpdateAgent, Live, Exists, Named
  <2>3. Choose(a, row) /\ UNCHANGED <<runtime, run>>
    BY <1>3 DEF UpdateAgent
  <2> HIDE DEF row
  <2> QED
    BY <1>a, <2>1, <2>2, <2>3, ChosenHome
<1>4. ASSUME NEW a \in Watched, NEW field \in {"primary", "backup", "failback"}, NEW r \in Refs,
             CliUpdateAgent(a, field, r)
      PROVE  HomeInv'
  <2> DEFINE row == [agent[a] EXCEPT ![field] = r]
  <2>1. Named(r) /\ (field = "primary" => Exists(r)) /\ agent[a].state # "none"
    BY <1>4 DEF CliUpdateAgent, Named
  <2>2. /\ row \in AgentRow /\ row.state # "none"
        /\ row.primary = IF field = "primary" THEN r ELSE agent[a].primary
        /\ row.backup = IF field = "backup" THEN r ELSE agent[a].backup
    <3>1. CASE field = "primary"
      BY <1>a, <2>1, <3>1 DEF AgentRow, ProviderRows
    <3>2. CASE field = "backup"
      BY <1>a, <2>1, <3>2 DEF AgentRow, ProviderRows
    <3>3. CASE field = "failback"
      BY <1>a, <2>1, <3>3 DEF AgentRow, ProviderRows
    <3> QED
      BY <3>1, <3>2, <3>3
  <2>3. a \notin edited \cup freed => Exists(row.primary) /\ Named(row.backup)
    BY <1>a, <2>1, <2>2 DEF HomeInv, NamesExist
  <2>4. Choose(a, row) /\ UNCHANGED <<runtime, run>>
    BY <1>4 DEF CliUpdateAgent
  <2> HIDE DEF row
  <2> QED
    BY <1>a, <2>2, <2>3, <2>4, ChosenHome
<1>5. ASSUME NEW a \in Watched, ArchiveAgent(a) \/ RestoreAgent(a)
      PROVE  HomeInv'
  <2>1. PICK st \in {"live", "archived"} :
          agent' = [agent EXCEPT ![a].state = st] /\ agent[a].state # "none"
    BY <1>5 DEF ArchiveAgent, RestoreAgent
  <2>2. /\ [agent[a] EXCEPT !.state = st].state = st
        /\ [agent[a] EXCEPT !.state = st].primary = agent[a].primary
        /\ [agent[a] EXCEPT !.state = st].backup = agent[a].backup
        /\ [agent[a] EXCEPT !.state = st].failback = agent[a].failback
    BY <1>a DEF ProviderRows, AgentRow
  <2>3. \A b \in Agents : /\ agent'[b].primary = agent[b].primary
                          /\ agent'[b].backup = agent[b].backup
                          /\ agent'[b].failback = agent[b].failback
                          /\ agent'[b].state # "none" <=> agent[b].state # "none"
    BY <1>a, <2>1, <2>2 DEF ProviderRows
  <2>4. UNCHANGED <<runtime, run, chosen, edited, freed>> /\ run.agent \in Agents
    BY <1>5 DEF ArchiveAgent, RestoreAgent, history, ProvidersTypes, Run
  <2>5. \A b \in Agents : AtHome(b) /\ NamesExist(b) => AtHome(b)' /\ NamesExist(b)'
    BY <2>3, <2>4 DEF AtHome, NamesExist, Named, Exists
  <2>6. Stale(agent[run.agent], run.copy, chosen[run.agent])
          => Stale(agent'[run.agent], run.copy, chosen[run.agent])
    BY <2>3, <2>4 DEF Stale
  <2> QED
    BY <2>3, <2>4, <2>5, <2>6 DEF HomeInv
<1> QED
  BY <1>1, <1>2, <1>3, <1>4, <1>5

\* A step that leaves the agents and the state of every runtime, and no new row with the run.
LEMMA QuietHome ==
    ASSUME HomeInv, UNCHANGED <<agent, chosen, edited, freed>>,
           \A q \in Runtimes : runtime'[q].state = runtime[q].state,
           run'.at # "idle" => /\ run.at # "idle"
                               /\ run'.agent = run.agent /\ run'.copy = run.copy
    PROVE  HomeInv'
<1>1. \A q : Exists(q)' <=> Exists(q)
  BY SameStates
<1>2. \A a \in Agents : AtHome(a) /\ NamesExist(a) => AtHome(a)' /\ NamesExist(a)'
  BY <1>1 DEF AtHome, NamesExist, Named
<1> QED
  BY <1>2 DEF HomeInv

\* A failover that a run causes moves its own agent, by the row it holds, and others.
LEMMA LimitedHome == ASSUME ProvidersTypes, HomeInv, CallLimited PROVE HomeInv'
<1>a. /\ ProviderRows /\ run \in Run /\ run.at # "idle" /\ run.agent \in Agents /\ run.copy \in AgentRow
      /\ run.primary \in Runtimes /\ Called \in Refs
  BY CalledType DEF ProvidersTypes, ProvidersTypeOK, ProviderRows, Run, CallLimited
<1>b. \A q \in Runtimes : runtime'[q].state = runtime[q].state
  BY <1>a, RecordedRows DEF CallLimited, ProviderRows
<1>c. \A q : Exists(q)' <=> Exists(q)
  BY <1>b, SameStates
<1> DEFINE copies == [agent EXCEPT ![run.agent] = run.copy]
           affected(a, cooling) == Affected(a, copies[a], Called, run.seen, cooling)
<1>1. PICK cooling :
        /\ agent' = Promoted(Called, run.seen, cooling, copies)
        /\ GoOn(IF Affected(run.agent, run.copy, Called, run.seen, cooling)
                THEN Moved(run.copy, run.copy, Called) ELSE run.copy)
  BY LimitedStep
<1>2. \A a \in Agents : agent'[a] = IF affected(a, cooling)
                                    THEN Moved(agent[a], copies[a], Called) ELSE agent[a]
  BY <1>1 DEF Promoted
<1>3. copies[run.agent] = run.copy /\ \A a \in Agents \ {run.agent} : copies[a] = agent[a]
  BY <1>a DEF ProviderRows
<1>4. UNCHANGED <<chosen, edited, freed>>
  BY DEF CallLimited, history
<1>5. ASSUME NEW a \in Agents \ (edited \cup freed)
      PROVE  Stale(agent[a], copies[a], chosen[a]) /\ copies[a] \in AgentRow
  <2>1. CASE a = run.agent
    BY <1>a, <1>3, <1>5, <2>1 DEF HomeInv
  <2>2. CASE a # run.agent
    BY <1>a, <1>3, <1>5, <2>2 DEF HomeInv, AtHome, Stale, ProviderRows
  <2> QED
    BY <2>1, <2>2
<1>6. ASSUME NEW a \in Agents \ (edited \cup freed)
      PROVE  AtHome(a)' /\ NamesExist(a)'
  <2>1. AtHome(a) /\ NamesExist(a)
    BY <1>6 DEF HomeInv
  <2>2. CASE affected(a, cooling)
    <3>1. /\ agent'[a].failback = chosen[a] /\ agent'[a].failback # NoRuntime
          /\ agent'[a].state = "live"
          /\ Exists(agent'[a].primary) /\ Named(agent'[a].backup) /\ Named(agent'[a].failback)
      BY <1>a, <1>2, <1>5, <2>1, <2>2, MovedHome
    <3> QED
      BY <1>4, <1>c, <3>1 DEF AtHome, NamesExist, Named
  <2>3. CASE ~affected(a, cooling)
    BY <1>2, <1>4, <1>c, <2>1, <2>3 DEF AtHome, NamesExist, Named
  <2> QED
    BY <2>2, <2>3
<1>7. ASSUME run'.at # "idle"
      PROVE  /\ agent'[run'.agent].state # "none"
             /\ run'.agent \notin edited' \cup freed' =>
                   Stale(agent'[run'.agent], run'.copy, chosen'[run'.agent])
  <2> DEFINE a == run.agent
             copy == IF Affected(a, run.copy, Called, run.seen, cooling)
                     THEN Moved(run.copy, run.copy, Called) ELSE run.copy
  <2>1. copy \in AgentRow
    BY <1>a, MovedRow
  <2>2. run'.agent = a /\ run'.copy = copy
    <3>1. runtime \in [Runtimes -> RuntimeRow]
      BY <1>a DEF ProviderRows
    <3> HIDE DEF copy
    <3> QED
      BY <1>1, <1>7, <1>a, <2>1, <3>1, GoOnType, ConstantRows DEF copy
  <2>3. agent'[a].state # "none"
    <3>1. agent[a].state # "none" /\ agent[a] \in AgentRow
      BY <1>a DEF HomeInv, ProviderRows
    <3>2. \A x \in AgentRow : Moved(x, run.copy, Called).state = x.state
      BY <1>a, MovedRow
    <3> QED
      BY <1>2, <1>3, <1>a, <3>1, <3>2
  <2>4. ASSUME a \notin edited \cup freed
        PROVE  Stale(agent'[a], copy, chosen[a])
    <3>1. AtHome(a) /\ NamesExist(a) /\ Stale(agent[a], run.copy, chosen[a])
      BY <1>a, <2>4 DEF HomeInv
    <3>2. CASE affected(a, cooling)
      <4>1. Stale(Moved(agent[a], run.copy, Called), Moved(run.copy, run.copy, Called), chosen[a])
        BY <1>3, <1>a, <3>1, <3>2, MovedHome
      <4> QED
        BY <1>2, <1>3, <1>a, <3>2, <4>1
    <3>3. CASE ~affected(a, cooling)
      BY <1>2, <1>3, <1>a, <3>1, <3>3
    <3> QED
      BY <3>2, <3>3
  <2> QED
    BY <1>4, <2>2, <2>3, <2>4
<1> QED
  BY <1>4, <1>6, <1>7 DEF HomeInv

\* The steps of a run preserve the invariant.
LEMMA RunHome ==
    ASSUME ProvidersTypes, HomeInv,
           \/ \E a \in Watched : StartRun(a)
           \/ CallSucceeds \/ CallLimited \/ CallBroken \/ CallFails \/ RunStops
    PROVE  HomeInv'
<1>a. /\ ProviderRows /\ Watched \subseteq Agents /\ run \in Run
      /\ run.at # "idle" => run.primary \in Runtimes
  BY ProvidersAssumption DEF ProvidersTypes, ProvidersTypeOK, ProviderRows
<1>b. NoRun.at = "idle"
  BY ConstantRows
<1>1. ASSUME NEW a \in Watched, StartRun(a)
      PROVE  HomeInv'
  <2>1. /\ run'.agent = a /\ run'.copy = agent[a] /\ agent[a].state = "live" /\ a \in Agents
        /\ UNCHANGED <<agent, runtime, chosen, edited, freed>>
    BY <1>1, <1>a DEF StartRun, history
  <2>2. a \notin edited \cup freed => Stale(agent[a], agent[a], chosen[a])
    BY <2>1 DEF HomeInv, AtHome, Stale
  <2> QED
    BY <2>1, <2>2 DEF HomeInv, AtHome, NamesExist, Named, Exists
<1>2. CASE CallSucceeds
  <2>1. \A q \in Runtimes : runtime'[q].state = runtime[q].state
    BY <1>2, <1>a, RecordedRows DEF CallSucceeds, ProviderRows
  <2> QED
    BY <1>2, <1>b, <2>1, QuietHome DEF CallSucceeds, history
<1>3. CASE CallBroken
  <2>1. \A q \in Runtimes : runtime'[q].state = runtime[q].state
    BY <1>3, <1>a, RecordedRows DEF CallBroken, ProviderRows
  <2>2. run' = NoRun \/ (run'.agent = run.agent /\ run'.copy = run.copy)
    BY <1>3, <1>a, GoOnType DEF CallBroken, ProviderRows, Run
  <2> QED
    BY <1>3, <1>b, <2>1, <2>2, QuietHome DEF CallBroken, history
<1>4. CASE CallFails
  <2>1. run' = NoRun \/ (run'.agent = run.agent /\ run'.copy = run.copy)
    BY <1>4, <1>a DEF CallFails, Run
  <2> QED
    BY <1>4, <1>b, <2>1, QuietHome DEF CallFails, history
<1>5. CASE RunStops
  BY <1>5, <1>b, QuietHome DEF RunStops, history
<1> QED
  BY <1>1, <1>2, <1>3, <1>4, <1>5, LimitedHome

\* The steps of a health check preserve the invariant.
LEMMA CheckHome == ASSUME ProvidersTypes, HomeInv, CheckStep PROVE HomeInv'
<1>a. /\ ProviderRows /\ Monitor \in Agents /\ run \in Run /\ run.agent \in Agents
  BY ProvidersAssumption DEF ProvidersTypes, ProvidersTypeOK, ProviderRows, Run
<1>1. CASE CheckStart
  <2>a. UNCHANGED <<runtime, run, edited, freed>>
    BY <1>1 DEF CheckStart
  <2>b. \A q : Exists(q)' <=> Exists(q)
    BY <2>a, SameStates
  <2>1. CASE agent[Monitor].state # "none" \/ LiveRuntimes = {}
    <3>1. agent' = agent
      BY <1>1, <2>1 DEF CheckStart, WithMonitor
    <3>2. chosen' = chosen \/ (agent[Monitor].state = "none"
                               /\ chosen' = [chosen EXCEPT ![Monitor] = agent[Monitor].primary])
      BY <1>1, <3>1 DEF CheckStart
    <3>3. ASSUME agent[Monitor].state = "none",
                 chosen' = [chosen EXCEPT ![Monitor] = agent[Monitor].primary]
          PROVE  HomeInv'
      BY <3>3, <3>1, <2>a, <2>b, <1>a
         DEF HomeInv, AtHome, NamesExist, Named, ProviderRows, AgentRow
    <3> QED
      BY <3>1, <3>2, <3>3, <2>a, QuietHome
  <2>2. CASE agent[Monitor].state = "none" /\ LiveRuntimes # {}
    <3>1. PICK row \in Configured(LiveRuntimes) \ {NoAgent} :
            agent' = [agent EXCEPT ![Monitor] = row]
      BY <1>1, <2>2 DEF CheckStart, WithMonitor
    <3>2. /\ row \in AgentRow /\ row.state = "live" /\ row.failback = NoRuntime
          /\ row.primary \in LiveRuntimes /\ row.backup \in LiveRuntimes \cup {NoRuntime}
      BY DEF Configured, LiveRuntimes, AgentRow, Refs
    <3>3. Exists(row.primary) /\ Named(row.backup) /\ row.primary \in Refs
      BY <3>2 DEF LiveRuntimes, Live, Exists, Named, Refs
    <3>4. chosen' = [chosen EXCEPT ![Monitor] = row.primary] /\ agent'[Monitor] = row
      BY <1>1, <1>a, <2>2, <3>1 DEF CheckStart, ProviderRows
    <3>5. \A a \in Agents \ {Monitor} : agent'[a] = agent[a] /\ chosen'[a] = chosen[a]
      BY <1>a, <3>1, <3>4 DEF HomeInv, ProviderRows
    <3>6. chosen' \in [Agents -> Refs] /\ chosen'[Monitor] = row.primary
      BY <1>a, <3>3, <3>4 DEF HomeInv
    <3>7. \A a \in Agents \ (edited \cup freed) : AtHome(a)' /\ NamesExist(a)'
      BY <2>b, <3>2, <3>3, <3>4, <3>5, <3>6 DEF HomeInv, AtHome, NamesExist, Named
    <3>8. run.at # "idle" => run.agent # Monitor
      BY <2>2 DEF HomeInv
    <3> QED
      BY <1>a, <2>a, <3>5, <3>6, <3>7, <3>8 DEF HomeInv
  <2> QED
    BY <2>1, <2>2
<1>2. ASSUME NEW r \in Runtimes, NEW ill \in BOOLEAN, Probed(r, ill)
      PROVE  /\ \A q \in Runtimes : runtime'[q].state = runtime[q].state
             /\ \A q : Exists(q)' <=> Exists(q)
             /\ UNCHANGED <<run, chosen, edited>>
  <2>1. \A q \in Runtimes : runtime'[q].state = runtime[q].state
    BY <1>2, <1>a, RecordedRows DEF Probed, ProviderRows
  <2> QED
    BY <1>2, <2>1, SameStates DEF Probed
<1>3. ASSUME NEW r \in Runtimes, ProbeSucceeds(r)
      PROVE  HomeInv'
  <2>a. /\ \A q \in Runtimes : runtime'[q].state = runtime[q].state
        /\ \A q : Exists(q)' <=> Exists(q)
        /\ UNCHANGED <<run, chosen, edited>>
    BY <1>2, <1>3 DEF ProbeSucceeds
  <2>b. freed \subseteq freed'
    BY <1>3 DEF ProbeSucceeds
  <2>1. ASSUME NEW a \in Agents
        PROVE  /\ agent'[a].state = agent[a].state
               /\ \/ agent'[a] = agent[a]
                  \/ /\ agent[a].failback = r /\ agent'[a].failback = NoRuntime
                     /\ \/ /\ agent[a].primary = r \/ ~Exists(agent[a].primary)
                           /\ agent'[a].primary = agent[a].primary
                           /\ agent'[a].backup = agent[a].backup
                        \/ agent'[a].primary = r /\ agent'[a].backup = agent[a].primary
    <3>1. agent' = agent \/ agent' = Restored(r)
      BY <1>3 DEF ProbeSucceeds
    <3> QED
      BY <1>a, <3>1, RestoredRows DEF ProviderRows
  <2>2. ASSUME NEW a \in Agents \ (edited \cup freed')
        PROVE  AtHome(a)' /\ NamesExist(a)'
    <3>1. AtHome(a) /\ NamesExist(a) /\ r # NoRuntime
      BY <2>2, <2>b, ProvidersAssumption DEF HomeInv
    <3>2. agent[a].failback = r => agent[a].primary = chosen[a] \/ r = chosen[a]
      BY <3>1 DEF AtHome
    <3>3. CASE agent'[a] = agent[a]
      BY <2>a, <3>1, <3>3 DEF AtHome, NamesExist, Named
    <3>4. CASE agent'[a] # agent[a] /\ agent[a].state # "none"
      <4>1. Exists(agent[a].primary) /\ agent[a].failback = r /\ Exists(r) /\ r = chosen[a]
        BY <2>1, <3>1, <3>4 DEF NamesExist, Named, AtHome
      <4>2. /\ agent'[a].failback = NoRuntime /\ agent'[a].primary = chosen[a]
            /\ Exists(agent'[a].primary) /\ Named(agent'[a].backup)
        BY <2>1, <3>1, <3>4, <4>1 DEF NamesExist, Named
      <4> QED
        BY <2>a, <4>2 DEF AtHome, NamesExist, Named
    <3>5. CASE agent[a].state = "none"
      BY <2>1, <2>a, <3>1, <3>5 DEF AtHome, NamesExist
    <3> QED
      BY <3>3, <3>4, <3>5
  <2>3. ASSUME run.at # "idle"
        PROVE  /\ agent'[run.agent].state # "none"
               /\ run.agent \notin edited \cup freed' =>
                     Stale(agent'[run.agent], run.copy, chosen[run.agent])
    <3>1. agent'[run.agent].state # "none"
      BY <1>a, <2>1, <2>3 DEF HomeInv
    <3>2. ASSUME run.agent \notin edited \cup freed'
          PROVE  agent'[run.agent] = agent[run.agent]
      <4>1. agent'[run.agent].failback = agent[run.agent].failback
        BY <1>3, <2>3, <3>2 DEF ProbeSucceeds
      <4> QED
        BY <1>a, <2>1, <4>1, ProvidersAssumption
    <3> QED
      BY <2>3, <2>b, <3>1, <3>2 DEF HomeInv
  <2> QED
    BY <2>a, <2>2, <2>3 DEF HomeInv
<1>4. ASSUME NEW r \in Runtimes, ProbeLimited(r)
      PROVE  HomeInv'
  <2>a. /\ \A q : Exists(q)' <=> Exists(q)
        /\ UNCHANGED <<run, chosen, edited, freed>>
    BY <1>2, <1>4 DEF ProbeLimited
  <2>1. PICK cooling : agent' = Promoted(r, check.seen, cooling, agent)
    BY <1>4 DEF ProbeLimited
  <2>2. \A a \in Agents : agent'[a] = IF Affected(a, agent[a], r, check.seen, cooling)
                                      THEN Moved(agent[a], agent[a], r) ELSE agent[a]
    BY <2>1 DEF Promoted
  <2>3. ASSUME NEW a \in Agents \ (edited \cup freed), agent'[a] # agent[a]
        PROVE  /\ agent'[a].failback = chosen[a] /\ agent'[a].failback # NoRuntime
               /\ agent'[a].state = "live"
               /\ Exists(agent'[a].primary) /\ Named(agent'[a].backup)
               /\ Named(agent'[a].failback)
               /\ {agent'[a].primary, agent'[a].backup} = {agent[a].primary, agent[a].backup}
               /\ agent[a].failback # NoRuntime => agent'[a].failback = agent[a].failback
    <3>1. AtHome(a) /\ NamesExist(a) /\ Stale(agent[a], agent[a], chosen[a])
      BY <2>3 DEF HomeInv, AtHome, Stale
    <3>2. agent[a] \in AgentRow /\ r \in Refs
      BY <1>a DEF ProviderRows, Refs
    <3>3. Affected(a, agent[a], r, check.seen, cooling)
      BY <2>2, <2>3
    <3> QED
      BY <1>a, <2>2, <3>1, <3>2, <3>3, MovedHome
  <2>4. \A a \in Agents \ (edited \cup freed) : AtHome(a)' /\ NamesExist(a)'
    BY <2>3, <2>a DEF HomeInv, AtHome, NamesExist, Named
  <2>5. \A a \in Agents : agent'[a].state = agent[a].state
    <3>1. \A x \in AgentRow : Moved(x, x, r).state = x.state
      BY MovedRow DEF Refs
    <3> QED
      BY <1>a, <2>2, <3>1 DEF ProviderRows
  <2>6. ASSUME run.at # "idle", run.agent \notin edited \cup freed
        PROVE  Stale(agent'[run.agent], run.copy, chosen[run.agent])
    <3>1. Stale(agent[run.agent], run.copy, chosen[run.agent])
      BY <2>6 DEF HomeInv
    <3> QED
      BY <1>a, <2>3, <2>6, <3>1 DEF Stale
  <2> QED
    BY <1>a, <2>4, <2>5, <2>6, <2>a DEF HomeInv
<1>5. ASSUME NEW r \in Runtimes, ProbeBroken(r)
      PROVE  HomeInv'
  BY <1>2, <1>5, QuietHome DEF ProbeBroken
<1> QED
  BY <1>1, <1>3, <1>4, <1>5 DEF CheckStep
\* Every step preserves the invariant.
LEMMA HomeNext == ProvidersTypes /\ HomeInv /\ [ProvidersNext]_providerVars => HomeInv'
<1>1. HomeInv /\ UNCHANGED providerVars => HomeInv'
  BY QuietHome DEF providerVars, history
<1> QED
  BY <1>1, OwnerHome, RunHome, CheckHome DEF ProvidersNext

\* The three parts of the invariant, in every reachable state.
LEMMA ProvidersInvariant == ProvidersSpec => [](ProvidersTypes /\ HomeInv)
<1>1. ProvidersInit => ProvidersTypes /\ HomeInv
  BY ProvidersTypesInit, HomeInit
<1>2. ProvidersTypes /\ HomeInv /\ [ProvidersNext]_providerVars => (ProvidersTypes /\ HomeInv)'
  BY ProvidersTypesNext, HomeNext
<1> QED
  BY <1>1, <1>2, PTL DEF ProvidersSpec

\* Type correctness.
THEOREM ProvidersTypeCorrect == ProvidersSpec => []ProvidersTypeOK
<1>1. ProvidersTypes => ProvidersTypeOK
  BY DEF ProvidersTypes
<1> QED
  BY <1>1, ProvidersInvariant, PTL

\* Through failovers, recoveries and runs that hold stale rows, no agent loses its home.
THEOREM HomesAreKept == ProvidersSpec => []HomeKept
<1>1. HomeInv => HomeKept
  BY DEF HomeInv, HomeKept, AtHome
<1> QED
  BY <1>1, ProvidersInvariant, PTL

-----------------------------------------------------------------------------
(* Verifier, Routing, Delegation *)

(* Reworks *)

\* Rework is decided on after a rejection only, and not after the last one.
ReworkInv ==
    /\ rejections \in Nat /\ sentBack \in Nat
    /\ sentBack <= rejections /\ sentBack < MAX_VERIFIER_RETRIES

\* At first nothing was rejected.
LEMMA ReworkInit == VerifierInit => ReworkInv
  BY VerifierAssumption DEF VerifierInit, ReworkInv

\* Every step keeps the number of reworks below the limit.
LEMMA ReworkStep == ReworkInv /\ [VerifierNext]_verifierVars => ReworkInv'
<1> SUFFICES ASSUME ReworkInv, [VerifierNext]_verifierVars PROVE ReworkInv'
  OBVIOUS
<1> USE VerifierAssumption DEF ReworkInv
<1>1. CASE UNCHANGED <<rejections, sentBack>>
  BY <1>1
<1>2. CASE rejections' = 0 /\ sentBack' = 0
  BY <1>2
<1>3. ASSUME NEW r \in Slots, Reject(r) PROVE ReworkInv'
  BY <1>3 DEF Reject
<1>4. CASE VerifierNext
  <2>1. CASE \/ \E a \in Assignees : AssignWork(a)
             \/ \E r \in Slots : Accept(r)
    BY <2>1, <1>2 DEF AssignWork, Accept
  <2>2. CASE \/ RunWork \/ SendBackByHand
             \/ \E status \in {"done", "cancelled"} : CloseIssue(status)
             \/ \E r \in Slots :
                  \/ StartWork(r) \/ FinishWork(r, "completed") \/ FinishWork(r, "failed")
                  \/ OpenReview(r) \/ QueueReview(r) \/ ClaimReview(r) \/ DispatchReview(r)
                  \/ \E status \in {"completed", "failed"}, passed \in BOOLEAN : FinishReview(r, status, passed)
                  \/ ApproveReview(r) \/ CancelReview(r)
                  \/ Judge(r) \/ SendWorkBack(r) \/ CloseReview(r)
    BY <2>2, <1>1 DEF RunWork, SendBackByHand, CloseIssue, StartWork, FinishWork, OpenReview, QueueReview,
       ClaimReview, DispatchReview, FinishReview, ApproveReview, CancelReview, Judge, SendWorkBack, CloseReview
  <2> QED
    BY <1>3, <1>4, <2>1, <2>2 DEF VerifierNext
<1> QED
  BY <1>1, <1>4 DEF verifierVars

\* For any number of runs and owner's acts: work is sent back automatically fewer times than
\* MAX_VERIFIER_RETRIES since it was assigned or passed, because the event is counted with the
\* decision in one transaction (_run_verifier_pass).
THEOREM ReworkEnds == VerifierSpec => []ReworkBounded
<1>1. ReworkInv => ReworkBounded
  BY DEF ReworkInv, ReworkBounded
<1> QED
  BY <1>1, ReworkInit, ReworkStep, PTL DEF VerifierSpec

\* The passes that have had their say.
Judged == {r \in Slots : review[r].at \in {"sendBack", "closing", "over"}}

\* A pass belongs to a run that is over, and goes on by itself only from its verifier's answer.
ReviewInv ==
    /\ issueStatus \in {"todo", "in_progress", "in_review", "done", "cancelled"}
    /\ assignee \in Assignees /\ gated \in BOOLEAN
    /\ work \in Seq(WorkRow) /\ Len(work) <= MaxWork
    /\ review \in [Slots -> ReviewRow]
    /\ ownerActs \in 0 .. MaxOwnerActs
    /\ \A r \in Slots : IF review[r].at = "none" THEN review[r].run = "none" /\ review[r].issue = "none"
                         ELSE r \in Runs \ Active
    /\ \A r \in Slots : review[r].run = "running" /\ review[r].by = "pass" => review[r].at = "reviewing"
    /\ rejections <= Cardinality(Judged)

\* The passes can be counted.
LEMMA JudgedFinite ==
    ASSUME NEW S \in SUBSET Slots
    PROVE  IsFiniteSet(S) /\ Cardinality(S) \in Nat /\ Cardinality(S) <= MaxWork
<1>1. IsFiniteSet(1 .. MaxWork) /\ Cardinality(1 .. MaxWork) = MaxWork
  BY ONLY VerifierAssumption, FS_Interval
<1> QED
  BY <1>1, FS_Subset, FS_CardinalityType, VerifierAssumption DEF Slots

\* What is queued is a run of the issue, and those that are over stay over.
LEMMA QueuedWork ==
    ASSUME work \in Seq(WorkRow), Len(work) < MaxWork, NEW who \in Assignees
    PROVE  /\ Queued(who) \in Seq(WorkRow) /\ Len(Queued(who)) <= MaxWork
           /\ Len(Queued(who)) >= Len(work)
           /\ DOMAIN Queued(who) = 1 .. Len(Queued(who))
           /\ \A r \in Runs \ Active : Queued(who)[r].status \notin {"pending", "running"}
<1> DEFINE rest == [r \in Runs |-> IF work[r].status = "pending" THEN [work[r] EXCEPT !.status = "cancelled"] ELSE work[r]]
           new == [agent |-> who, status |-> "pending"]
<1>1. Len(work) \in Nat /\ DOMAIN work = 1 .. Len(work) /\ Runs = 1 .. Len(work) /\ \A r \in Runs : work[r] \in WorkRow
  BY DEF Runs
<1>2. rest \in Seq(WorkRow) /\ Len(rest) = Len(work)
  <2>1. \A r \in Runs : (IF work[r].status = "pending" THEN [work[r] EXCEPT !.status = "cancelled"] ELSE work[r]) \in WorkRow
    BY <1>1 DEF WorkRow
  <2> QED
    BY <1>1, <2>1
<1>3. new \in WorkRow
  BY DEF WorkRow
<1>4. \A r \in Runs \ Active : rest[r].status \notin {"pending", "running"}
  BY <1>1 DEF Active
<1> HIDE DEF rest, new
<1>5. CASE Queued(who) = work
  BY <1>1, <1>5, VerifierAssumption DEF Active
<1>6. CASE Queued(who) = Append(rest, new)
  <2>1. Append(rest, new) \in Seq(WorkRow) /\ Len(Append(rest, new)) = Len(work) + 1
    BY <1>2, <1>3
  <2>2. \A r \in 1 .. Len(work) : Append(rest, new)[r] = rest[r]
    BY <1>2, <1>3
  <2> QED
    BY <1>1, <1>4, <1>6, <2>1, <2>2, VerifierAssumption
<1> QED
  BY <1>5, <1>6 DEF Queued, rest, new

\* A step that leaves the passes alone.
LEMMA WorkMoves ==
    ASSUME ReviewInv, review' = review, rejections' \in {0, rejections},
           issueStatus' \in {"todo", "in_progress", "in_review", "done", "cancelled"},
           assignee' \in Assignees, gated' = gated, ownerActs' \in 0 .. MaxOwnerActs,
           work' \in Seq(WorkRow), Len(work') <= MaxWork,
           \A r \in Runs \ Active : r \in DOMAIN work' /\ work'[r].status \notin {"pending", "running"}
    PROVE  ReviewInv'
<1>1. Judged' = Judged /\ Cardinality(Judged) \in Nat
  BY JudgedFinite DEF Judged
<1>2. \A r \in Slots : review'[r].at # "none" => r \in DOMAIN work' /\ work'[r].status \notin {"pending", "running"}
  BY DEF ReviewInv
<1>3. \A r \in Slots : IF review'[r].at = "none" THEN review'[r].run = "none" /\ review'[r].issue = "none"
                        ELSE r \in (Runs \ Active)'
  BY <1>2 DEF ReviewInv, Runs, Active
<1> QED
  BY <1>1, <1>3 DEF ReviewInv

\* What the owner and the dispatcher do to the issue.
LEMMA OwnersWork ==
    ASSUME ReviewInv,
           \/ \E a \in Assignees : AssignWork(a)
           \/ RunWork \/ SendBackByHand
           \/ \E status \in {"done", "cancelled"} : CloseIssue(status)
           \/ \E r \in Slots : StartWork(r) \/ FinishWork(r, "failed")
    PROVE  ReviewInv'
<1>1. /\ issueStatus \in {"todo", "in_progress", "in_review", "done", "cancelled"}
      /\ assignee \in Assignees /\ work \in Seq(WorkRow) /\ Len(work) <= MaxWork
      /\ ownerActs \in 0 .. MaxOwnerActs
      /\ Len(work) \in Nat /\ DOMAIN work = 1 .. Len(work) /\ Runs = 1 .. Len(work) /\ \A r \in Runs : work[r] \in WorkRow
  BY DEF ReviewInv, Runs
<1>2. ASSUME OwnerActs PROVE ownerActs' \in 0 .. MaxOwnerActs /\ Len(work) < MaxWork
  BY <1>1, <1>2, VerifierAssumption DEF OwnerActs
<1>3. \A r \in Runs \ Active : work[r].status \notin {"pending", "running"}
  BY DEF Active
<1>4. ASSUME NEW a \in Assignees, AssignWork(a) PROVE ReviewInv'
  <2>1. /\ assignee' = a /\ rejections' = 0 /\ gated' = gated /\ review' = review /\ OwnerActs
        /\ issueStatus' \in {issueStatus, "in_progress"} /\ work' \in {work, Queued(a)}
    BY <1>4 DEF AssignWork
  <2> QED
    BY <1>1, <1>2, <1>3, <2>1, QueuedWork, WorkMoves
<1>5. CASE RunWork \/ SendBackByHand
  <2>1. /\ assignee' = assignee /\ rejections' = rejections /\ gated' = gated /\ review' = review /\ OwnerActs
        /\ issueStatus' \in {issueStatus, "in_progress"} /\ work' = Queued(assignee)
    BY <1>5 DEF RunWork, SendBackByHand
  <2> QED
    BY <1>1, <1>2, <1>3, <2>1, QueuedWork, WorkMoves
<1>6. ASSUME NEW status \in {"done", "cancelled"}, CloseIssue(status) PROVE ReviewInv'
  <2> DEFINE closed == [r \in Runs |-> IF r \in Active THEN [work[r] EXCEPT !.status = "cancelled"] ELSE work[r]]
  <2>1. /\ assignee' = assignee /\ rejections' = rejections /\ gated' = gated /\ review' = review /\ OwnerActs
        /\ issueStatus' = status /\ work' \in {work, closed}
    BY <1>6 DEF CloseIssue
  <2>2. \A r \in Runs : (IF r \in Active THEN [work[r] EXCEPT !.status = "cancelled"] ELSE work[r]) \in WorkRow
    BY <1>1 DEF WorkRow
  <2>3. closed \in Seq(WorkRow) /\ Len(closed) = Len(work) /\ DOMAIN closed = 1 .. Len(work)
    BY <1>1, <2>2
  <2>4. \A r \in Runs \ Active : closed[r].status \notin {"pending", "running"}
    BY <1>3
  <2> HIDE DEF closed
  <2> QED
    BY <1>1, <1>2, <1>3, <2>1, <2>3, <2>4, WorkMoves
<1>7. ASSUME NEW r \in Slots, NEW status \in {"running", "failed"}, r \in Active,
             work' = [work EXCEPT ![r].status = status]
      PROVE  /\ work' \in Seq(WorkRow) /\ Len(work') <= MaxWork
             /\ \A q \in Runs \ Active : q \in DOMAIN work' /\ work'[q].status \notin {"pending", "running"}
  <2>1. r \in Runs /\ [work[r] EXCEPT !.status = status] \in WorkRow
    BY <1>1, <1>7 DEF Active, WorkRow
  <2>2. work' = [work EXCEPT ![r] = [work[r] EXCEPT !.status = status]]
    BY <1>7
  <2>3. \A q \in Runs \ Active : q # r /\ q \in DOMAIN work' /\ work'[q] = work[q]
    BY <1>1, <1>7, <2>2
  <2> QED
    BY <1>1, <1>3, <2>1, <2>2, <2>3
<1>8. ASSUME NEW r \in Slots, StartWork(r) PROVE ReviewInv'
  <2>1. /\ assignee' = assignee /\ rejections' = rejections /\ gated' = gated /\ review' = review
        /\ ownerActs' = ownerActs /\ issueStatus' = "in_progress"
        /\ r \in Active /\ work' = [work EXCEPT ![r].status = "running"]
    BY <1>8 DEF StartWork, Active
  <2> QED
    BY <1>1, <1>7, <2>1, WorkMoves
<1>9. ASSUME NEW r \in Slots, FinishWork(r, "failed") PROVE ReviewInv'
  <2>1. /\ assignee' = assignee /\ rejections' = rejections /\ gated' = gated /\ review' = review
        /\ ownerActs' = ownerActs /\ issueStatus' = issueStatus
        /\ r \in Active /\ work' = [work EXCEPT ![r].status = "failed"]
    BY <1>9 DEF FinishWork, Active
  <2> QED
    BY <1>1, <1>7, <2>1, WorkMoves
<1> QED
  BY <1>4, <1>5, <1>6, <1>8, <1>9

\* A step of one pass: it stays a pass of its run, and gives its verdict once.
LEMMA OnePass ==
    ASSUME ReviewInv, rejections \in Nat, NEW r \in Slots, NEW row \in ReviewRow,
           review' = [review EXCEPT ![r] = row],
           row.at # "none", r \in DOMAIN work', work'[r].status \notin {"pending", "running"},
           row.run = "running" /\ row.by = "pass" => row.at = "reviewing",
           r \in Judged => row.at \in {"sendBack", "closing", "over"},
           \/ rejections' \in {0, rejections}
           \/ rejections' = rejections + 1 /\ r \notin Judged /\ row.at \in {"sendBack", "closing", "over"},
           issueStatus' \in {"todo", "in_progress", "in_review", "done", "cancelled"},
           assignee' = assignee, gated' = gated, ownerActs' \in 0 .. MaxOwnerActs,
           work' \in Seq(WorkRow), Len(work') <= MaxWork,
           \A q \in Runs \ Active : q \in DOMAIN work' /\ work'[q].status \notin {"pending", "running"}
    PROVE  ReviewInv'
<1>1. /\ review \in [Slots -> ReviewRow] /\ review' \in [Slots -> ReviewRow] /\ review'[r] = row
      /\ \A q \in Slots \ {r} : review'[q] = review[q]
  BY DEF ReviewInv
<1>2. ASSUME NEW q \in Slots
      PROVE  IF review'[q].at = "none" THEN review'[q].run = "none" /\ review'[q].issue = "none"
             ELSE q \in (Runs \ Active)'
  <2>1. CASE q = r
    BY <1>1, <2>1 DEF Runs, Active
  <2>2. CASE q # r
    BY <1>1, <2>2 DEF ReviewInv, Runs, Active
  <2> QED
    BY <2>1, <2>2
<1>3. \A q \in Slots : review'[q].run = "running" /\ review'[q].by = "pass" => review'[q].at = "reviewing"
  BY <1>1 DEF ReviewInv
<1>4. Judged \subseteq Judged' /\ Judged' \subseteq Slots /\ Judged \subseteq Slots
  BY <1>1 DEF Judged
<1>5. Cardinality(Judged) \in Nat /\ Cardinality(Judged') \in Nat /\ Cardinality(Judged) <= Cardinality(Judged')
  BY <1>4, JudgedFinite, FS_Subset
<1>6. rejections' <= Cardinality(Judged')
  <2>1. CASE rejections' \in {0, rejections}
    BY <1>5, <2>1 DEF ReviewInv
  <2>2. CASE rejections' = rejections + 1 /\ r \notin Judged /\ row.at \in {"sendBack", "closing", "over"}
    <3>1. Judged \cup {r} \subseteq Judged'
      BY <1>1, <1>4, <2>2 DEF Judged
    <3>2. Cardinality(Judged \cup {r}) = Cardinality(Judged) + 1
      BY <1>4, <2>2, JudgedFinite, FS_AddElement
    <3>3. Cardinality(Judged \cup {r}) <= Cardinality(Judged')
      BY <1>4, <3>1, JudgedFinite, FS_Subset
    <3> QED
      BY <1>5, <2>2, <3>2, <3>3 DEF ReviewInv
  <2> QED
    BY <2>1, <2>2
<1> QED
  BY <1>1, <1>2, <1>3, <1>6 DEF ReviewInv

\* A pass opens a review, has it run, and waits for the answer.
LEMMA ReviewRuns ==
    ASSUME ReviewInv, rejections \in Nat, NEW r \in Slots,
           \/ FinishWork(r, "completed") \/ OpenReview(r) \/ QueueReview(r) \/ ClaimReview(r) \/ DispatchReview(r)
           \/ \E status \in {"completed", "failed"}, passed \in BOOLEAN : FinishReview(r, status, passed)
           \/ ApproveReview(r) \/ CancelReview(r)
    PROVE  ReviewInv'
<1> DEFINE old == review[r]
           row == review'[r]
<1>1. /\ review \in [Slots -> ReviewRow] /\ old \in ReviewRow
      /\ old.at # "none" => r \in Runs \ Active
      /\ old.at = "none" => old.run = "none" /\ old.issue = "none"
      /\ old.run = "running" /\ old.by = "pass" => old.at = "reviewing"
      /\ r \in Judged <=> old.at \in {"sendBack", "closing", "over"}
  BY DEF ReviewInv, Judged
<1>2. /\ issueStatus \in {"todo", "in_progress", "in_review", "done", "cancelled"}
      /\ work \in Seq(WorkRow) /\ Len(work) <= MaxWork /\ ownerActs \in 0 .. MaxOwnerActs
      /\ \A q \in Runs \ Active : q \in DOMAIN work /\ work[q].status \notin {"pending", "running"}
  BY DEF ReviewInv, Runs, Active
<1>3. ownerActs' \in 0 .. MaxOwnerActs
  <2>1. CASE ApproveReview(r) \/ CancelReview(r)
    BY <1>2, <2>1, VerifierAssumption DEF ApproveReview, CancelReview, OwnerActs
  <2>2. CASE ownerActs' = ownerActs
    BY <1>2, <2>2
  <2> QED
    BY <2>1, <2>2 DEF FinishWork, OpenReview, QueueReview, ClaimReview, DispatchReview, FinishReview, beside
<1>4. CASE FinishWork(r, "completed")
  <2>1. /\ r \in Active /\ work' = [work EXCEPT ![r].status = "completed"]
        /\ review' = [review EXCEPT ![r].at = "finished"]
        /\ issueStatus' \in {issueStatus, "in_review"}
        /\ assignee' = assignee /\ gated' = gated /\ rejections' = rejections
    BY <1>4 DEF FinishWork, Active
  <2>2. old.at = "none" /\ old.run = "none" /\ r \notin Judged
    BY <1>1, <2>1
  <2>3. /\ review' = [review EXCEPT ![r] = row] /\ row \in ReviewRow
        /\ row.at = "finished" /\ row.run = "none"
    BY <1>1, <2>1, <2>2 DEF ReviewRow
  <2>4. r \in DOMAIN work /\ work[r] \in WorkRow /\ work'[r] = [work[r] EXCEPT !.status = "completed"]
    BY <1>2, <2>1 DEF Active, Runs
  <2>5. work'[r].status = "completed" /\ [work[r] EXCEPT !.status = "completed"] \in WorkRow
    BY <2>4 DEF WorkRow
  <2>6. work' = [work EXCEPT ![r] = [work[r] EXCEPT !.status = "completed"]]
    BY <2>1
  <2>7. work' \in Seq(WorkRow) /\ Len(work') <= MaxWork /\ r \in DOMAIN work'
    BY <1>2, <2>4, <2>5, <2>6
  <2>8. \A q \in Runs \ Active : q \in DOMAIN work' /\ work'[q].status \notin {"pending", "running"}
    <3> SUFFICES ASSUME NEW q \in Runs \ Active
                 PROVE  q \in DOMAIN work' /\ work'[q].status \notin {"pending", "running"}
      OBVIOUS
    <3>1. q # r /\ q \in DOMAIN work /\ work[q].status \notin {"pending", "running"}
      BY <1>2, <2>1
    <3>2. work'[q] = work[q] /\ q \in DOMAIN work'
      BY <2>6, <3>1
    <3> QED
      BY <3>1, <3>2
  <2> HIDE DEF row
  <2> QED
    BY <1>2, <1>3, <2>1, <2>2, <2>3, <2>5, <2>7, <2>8, OnePass
<1>5. CASE \/ OpenReview(r) \/ QueueReview(r) \/ ClaimReview(r) \/ DispatchReview(r)
           \/ \E status \in {"completed", "failed"}, passed \in BOOLEAN : FinishReview(r, status, passed)
           \/ ApproveReview(r) \/ CancelReview(r)
  <2>1. /\ UNCHANGED <<assignee, gated, work, rejections>>
        /\ issueStatus' \in {issueStatus, "in_progress"}
    BY <1>5 DEF OpenReview, QueueReview, ClaimReview, DispatchReview, FinishReview, ApproveReview, CancelReview, beside
  <2>2. old.at # "none"
    BY <1>1, <1>5 DEF OpenReview, QueueReview, ClaimReview, DispatchReview, FinishReview, ApproveReview, CancelReview
  <2>3. /\ review' = [review EXCEPT ![r] = row] /\ row \in ReviewRow /\ row.at # "none"
        /\ row.run = "running" /\ row.by = "pass" => row.at = "reviewing"
        /\ r \in Judged => row.at \in {"sendBack", "closing", "over"}
    <3>1. CASE OpenReview(r)
      BY <1>1, <3>1 DEF OpenReview, ReviewRow
    <3>2. CASE QueueReview(r)
      BY <1>1, <3>2 DEF QueueReview, ReviewRow
    <3>3. CASE ClaimReview(r)
      BY <1>1, <3>3 DEF ClaimReview, ReviewRow
    <3>4. CASE DispatchReview(r)
      BY <1>1, <2>2, <3>4 DEF DispatchReview, ReviewRow
    <3>5. CASE \E status \in {"completed", "failed"}, passed \in BOOLEAN : FinishReview(r, status, passed)
      <4>1. PICK status \in {"completed", "failed"}, passed \in BOOLEAN : FinishReview(r, status, passed)
        BY <3>5
      <4> DEFINE at == IF old.by = "pass" THEN "judging" ELSE old.at
      <4>2. review' = [review EXCEPT ![r].run = status, ![r].passed = passed, ![r].at = at] /\ old.run = "running"
        BY <1>1, <4>1 DEF FinishReview, ReviewRow
      <4>3. /\ at \in {"judging", old.at} /\ at # "none"
            /\ old.at \in {"sendBack", "closing", "over"} => at = old.at
        BY <1>1, <2>2, <4>2 DEF ReviewRow
      <4> HIDE DEF at
      <4> QED
        BY <1>1, <4>2, <4>3 DEF ReviewRow
    <3>6. CASE ApproveReview(r)
      BY <1>1, <2>2, <3>6 DEF ApproveReview, ReviewRow
    <3>7. CASE CancelReview(r)
      <4> DEFINE at == IF old.at = "reviewing" THEN "judging" ELSE old.at
                 ran == IF old.run \in {"waiting", "pending", "running"} THEN "cancelled" ELSE old.run
      <4>1. review' = [review EXCEPT ![r].issue = "cancelled", ![r].run = ran, ![r].at = at]
        BY <1>1, <3>7 DEF CancelReview, ReviewRow
      <4>2. /\ at \in {"judging", old.at} /\ at # "none"
            /\ old.at \in {"sendBack", "closing", "over"} => at = old.at
            /\ ran \in {"cancelled", old.run} /\ ran # "running"
        BY <1>1, <2>2 DEF ReviewRow
      <4> HIDE DEF at, ran
      <4> QED
        BY <1>1, <4>1, <4>2 DEF ReviewRow
    <3> QED
      BY <1>5, <3>1, <3>2, <3>3, <3>4, <3>5, <3>6, <3>7
  <2>4. r \in DOMAIN work' /\ work'[r].status \notin {"pending", "running"}
    BY <1>1, <1>2, <2>1, <2>2
  <2> HIDE DEF row
  <2> QED
    BY <1>2, <1>3, <2>1, <2>3, <2>4, OnePass
<1> QED
  BY <1>4, <1>5

\* The verdict, and what is done about it.
LEMMA Verdicts ==
    ASSUME ReviewInv, rejections \in Nat, NEW r \in Slots,
           Judge(r) \/ Accept(r) \/ Reject(r) \/ SendWorkBack(r) \/ CloseReview(r)
    PROVE  ReviewInv'
<1> DEFINE old == review[r]
           row == review'[r]
<1>1. /\ review \in [Slots -> ReviewRow] /\ old \in ReviewRow
      /\ old.at # "none" => r \in Runs \ Active
      /\ old.run = "running" /\ old.by = "pass" => old.at = "reviewing"
      /\ r \in Judged <=> old.at \in {"sendBack", "closing", "over"}
  BY DEF ReviewInv, Judged
<1>2. /\ issueStatus \in {"todo", "in_progress", "in_review", "done", "cancelled"} /\ assignee \in Assignees
      /\ work \in Seq(WorkRow) /\ Len(work) <= MaxWork /\ ownerActs \in 0 .. MaxOwnerActs
      /\ \A q \in Runs \ Active : q \in DOMAIN work /\ work[q].status \notin {"pending", "running"}
  BY DEF ReviewInv, Runs, Active
<1>3. /\ old.at \in {"judging", "deciding", "sendBack", "closing"}
      /\ UNCHANGED <<assignee, gated, ownerActs>>
      /\ issueStatus' \in {issueStatus, "in_progress", "in_review", "done"}
  <2>1. CASE Judge(r) \/ CloseReview(r)
    BY <2>1 DEF Judge, CloseReview, beside
  <2>2. CASE Accept(r) \/ Reject(r)
    BY <2>2 DEF Accept, Reject, beside
  <2>3. CASE SendWorkBack(r)
    BY <2>3 DEF SendWorkBack
  <2> QED
    BY <2>1, <2>2, <2>3
<1>4. /\ review' = [review EXCEPT ![r] = row] /\ row \in ReviewRow /\ row.at # "none"
      /\ row.run = old.run /\ row.by = old.by
      /\ r \in Judged => row.at \in {"sendBack", "closing", "over"}
      /\ \/ rejections' \in {0, rejections}
         \/ rejections' = rejections + 1 /\ r \notin Judged /\ row.at \in {"sendBack", "closing", "over"}
  <2>1. CASE Judge(r)
    BY <1>1, <2>1 DEF Judge, ReviewRow
  <2>2. CASE Accept(r)
    BY <1>1, <2>2 DEF Accept, ReviewRow
  <2>3. CASE Reject(r)
    <3>1. /\ rejections' = rejections + 1 /\ old.at = "deciding"
          /\ review' = [review EXCEPT ![r].at = "closing"] \/ review' = [review EXCEPT ![r].at = "sendBack"]
      BY <2>3 DEF Reject
    <3> QED
      BY <1>1, <3>1 DEF ReviewRow
  <2>4. CASE SendWorkBack(r)
    BY <1>1, <2>4 DEF SendWorkBack, ReviewRow
  <2>5. CASE CloseReview(r)
    BY <1>1, <2>5 DEF CloseReview, ReviewRow
  <2> QED
    BY <2>1, <2>2, <2>3, <2>4, <2>5
<1>5. row.run = "running" /\ row.by = "pass" => row.at = "reviewing"
  BY <1>1, <1>3, <1>4
<1>6. /\ work' \in Seq(WorkRow) /\ Len(work') <= MaxWork
      /\ \A q \in Runs \ Active : q \in DOMAIN work' /\ work'[q].status \notin {"pending", "running"}
  <2>1. CASE work' = work
    BY <1>2, <2>1
  <2>2. CASE SendWorkBack(r)
    <3>1. work' = Queued(assignee) /\ Len(work) < MaxWork
      BY <2>2 DEF SendWorkBack
    <3>2. Len(work) \in Nat /\ Runs = 1 .. Len(work)
      BY <1>2 DEF Runs
    <3>3. /\ Queued(assignee) \in Seq(WorkRow) /\ Len(Queued(assignee)) <= MaxWork
          /\ Len(Queued(assignee)) >= Len(work) /\ Len(Queued(assignee)) \in Nat
          /\ DOMAIN Queued(assignee) = 1 .. Len(Queued(assignee))
          /\ \A q \in Runs \ Active : Queued(assignee)[q].status \notin {"pending", "running"}
      BY <1>2, <3>1, QueuedWork
    <3>4. \A q \in Runs : q \in DOMAIN Queued(assignee)
      BY <3>2, <3>3
    <3> QED
      BY <3>1, <3>3, <3>4
  <2> QED
    BY <2>1, <2>2 DEF Judge, Accept, Reject, CloseReview, beside
<1>7. r \in DOMAIN work' /\ work'[r].status \notin {"pending", "running"}
  BY <1>1, <1>3, <1>6
<1> HIDE DEF row
<1> QED
  BY <1>2, <1>3, <1>4, <1>5, <1>6, <1>7, OnePass

\* Type correctness, with the bound on rejections: each comes from a pass that had not given a
\* verdict before.
THEOREM VerifierTypeCorrect == VerifierSpec => []VerifierTypeOK
<1>1. ASSUME VerifierInit PROVE ReviewInv
  <2>1. /\ review = [r \in Slots |-> NoReview] /\ NoReview \in ReviewRow /\ work = <<>> /\ rejections = 0
        /\ ownerActs = 0 /\ issueStatus = "todo" /\ assignee \in Assignees /\ gated \in BOOLEAN
    BY <1>1 DEF VerifierInit, NoReview, ReviewRow
  <2>2. work \in Seq(WorkRow) /\ Len(work) = 0
    BY <2>1
  <2>3. Cardinality(Judged) \in Nat
    BY JudgedFinite DEF Judged
  <2>4. \A r \in Slots : review[r].at = "none" /\ review[r].run = "none" /\ review[r].issue = "none"
    BY <2>1 DEF NoReview
  <2> QED
    BY <2>1, <2>2, <2>3, <2>4, VerifierAssumption DEF ReviewInv
<1>2. ASSUME ReviewInv, ReworkInv, VerifierNext PROVE ReviewInv'
  BY <1>2, OwnersWork, ReviewRuns, Verdicts DEF VerifierNext, ReworkInv
<1>3. ASSUME ReviewInv, UNCHANGED verifierVars PROVE ReviewInv'
  BY <1>3 DEF verifierVars, ReviewInv, Judged, Runs, Active
<1>4. ASSUME ReviewInv, ReworkInv PROVE VerifierTypeOK
  <2>1. Cardinality(Judged) \in Nat /\ Cardinality(Judged) <= MaxWork
    BY JudgedFinite DEF Judged
  <2> QED
    BY <1>4, <2>1, VerifierAssumption DEF ReviewInv, ReworkInv, VerifierTypeOK
<1> QED
  BY <1>1, <1>2, <1>3, <1>4, ReworkInit, ReworkStep, PTL DEF VerifierSpec

-----------------------------------------------------------------------------
(* The price of a call *)

RoutedRow == [at : {"none", "routed", "primary", "backup", "failback", "completed", "failed"},
              project : BOOLEAN, cap : Prices, capNow : Prices,
              primary : Maybe(Routes), fallback : Maybe(Routes), backup : Maybe(Routes), failback : Maybe(Routes)]
SettingRow == [at : {"none", "found"}, project : BOOLEAN, found : Policies \cup {Unset}, values : Policies \cup {Unset}]

\* The runtime was chosen within the cap, and so was what it falls back on if the cap still holds.
CapInv ==
    /\ policies \in [BOOLEAN -> Policies \cup {Unset}]
    /\ setting \in [PolicyOwners -> SettingRow]
    /\ \A o \in PolicyOwners : setting[o].at = "found" =>
         /\ setting[o].values \in Policies
         /\ setting[o].found # Unset => policies[setting[o].project] # Unset
    /\ routed \in RoutedRow
    /\ routed.at \in {"routed", "primary", "backup"} => WithinCap(routed.primary, routed.cap)
    /\ routed.at = "routed" /\ routed.fallback # Nothing => WithinCap(routed.fallback, routed.cap)
    /\ routed.at \in {"primary", "backup"} /\ routed.cap # Nothing /\ routed.capNow = routed.cap
         => routed.backup = Nothing \/ WithinCap(routed.backup, routed.cap)
    /\ routed.at = "backup" => routed.backup # Nothing

\* The values of the policies, the settings and the routes that hold nothing.
LEMMA Empty ==
    /\ Unset.mode = "none" /\ Unset \notin Policies /\ DefaultPolicy \in Policies
    /\ NotSetting \in SettingRow
    /\ NotRouted \in RoutedRow /\ NotRouted.at = "none" /\ NotRouted.cap = Nothing
    /\ Nothing \in Prices /\ Nothing \in Maybe(Routes)
    /\ {OwnRoute, OwnBackup, OwnFailback} \subseteq Maybe(Routes)
  BY RoutingAssumption DEF Unset, Policies, Modes, Prices, DefaultPolicy, NotSetting, SettingRow, NotRouted,
     RoutedRow, Maybe

\* At first no call is routed.
LEMMA CapInit == RoutingInit => CapInv
  BY Empty DEF RoutingInit, CapInv, NotRouted, NotSetting

\* The policy that is read has a cap and one of the four modes, also when the runtime is fixed.
LEMMA PolicyRead ==
    ASSUME CapInv, NEW project \in BOOLEAN
    PROVE  /\ Policy(project) \in Policies
           /\ [Policy(project) EXCEPT !.mode = "manual"] \in Policies
  BY Empty DEF CapInv, Policy, PolicyRow, Policies, Modes

\* The candidates that are left after the cap are within it.
LEMMA ViableRoutes ==
    ASSUME NEW p \in Policies
    PROVE  \A r \in Viable(p) : r \in Routes /\ WithinCap(r, p.cap)
<1>1. Candidates(p.mode) \subseteq Routes
  BY RoutingAssumption DEF Candidates, Policies, Modes
<1> QED
  BY <1>1 DEF Viable

\* A call is routed by a policy, or cannot be.
LEMMA Routings ==
    ASSUME CapInv, NEW project \in BOOLEAN, NEW override \in BOOLEAN,
           RouteCall(project, override) \/ RouteFails(project, override)
    PROVE  CapInv'
<1> DEFINE row == Policy(project)
           p == IF override THEN [row EXCEPT !.mode = "manual"] ELSE row
<1>1. p \in Policies /\ p.cap \in Prices
  BY PolicyRead DEF Policies
<1> HIDE DEF p
<1>2. UNCHANGED <<price, policies, setting>>
  BY DEF RouteCall, RouteFails
<1>3. CASE RouteCall(project, override)
  <2>1. PICK r \in Viable(p) : \E next \in Fallbacks(r, p) \cup {Nothing} :
          routed' = [NotRouted EXCEPT !.at = "routed", !.project = project, !.cap = p.cap, !.primary = r, !.fallback = next]
    BY <1>3 DEF RouteCall, p
  <2>2. PICK next \in Fallbacks(r, p) \cup {Nothing} :
          routed' = [NotRouted EXCEPT !.at = "routed", !.project = project, !.cap = p.cap, !.primary = r, !.fallback = next]
    BY <2>1
  <2>3. next = Nothing \/ next \in Viable(p)
    BY <2>2 DEF Fallbacks
  <2>4. r \in Routes /\ WithinCap(r, p.cap) /\ (next # Nothing => next \in Routes /\ WithinCap(next, p.cap))
    BY <1>1, <2>3, ViableRoutes
  <2>5. /\ routed' \in RoutedRow /\ routed'.at = "routed" /\ routed'.cap = p.cap
        /\ routed'.primary = r /\ routed'.fallback = next
    BY <1>1, <2>2, <2>4, Empty DEF RoutedRow, Maybe
  <2> QED
    BY <1>2, <2>4, <2>5 DEF CapInv, WithinCap
<1>4. CASE RouteFails(project, override)
  <2>1. CASE routed' = [NotRouted EXCEPT !.at = "failed"]
    <3>1. routed' \in RoutedRow /\ routed'.at = "failed"
      BY <2>1, Empty DEF RoutedRow
    <3> QED
      BY <1>2, <3>1 DEF CapInv
  <2>2. CASE routed' = [NotRouted EXCEPT !.at = "primary", !.project = project, !.primary = OwnRoute,
                          !.backup = OwnBackup, !.failback = OwnFailback]
    <3>1. routed' \in RoutedRow /\ routed'.at = "primary" /\ routed'.cap = Nothing
      BY <2>2, Empty DEF RoutedRow
    <3> QED
      BY <1>2, <3>1 DEF CapInv, WithinCap
  <2> QED
    BY <1>4, <2>1, <2>2 DEF RouteFails
<1> QED
  BY <1>3, <1>4

\* The backup is looked up by the policy as it is then.
LEMMA Resolving ==
    ASSUME CapInv, ResolveBackup
    PROVE  CapInv'
<1> DEFINE p == Policy(routed.project)
<1>1. p \in Policies /\ p.cap \in Prices /\ routed \in RoutedRow /\ routed.at = "routed"
  BY PolicyRead DEF CapInv, Policies, RoutedRow, ResolveBackup
<1>2. /\ routed' = [routed EXCEPT !.at = "primary", !.capNow = p.cap, !.backup = Backup(p), !.fallback = Nothing, !.failback = OwnFailback]
      /\ UNCHANGED <<price, policies, setting>>
  BY DEF ResolveBackup
<1> HIDE DEF p
<1>3. /\ Backup(p) \in Maybe(Routes)
      /\ Backup(p) = Nothing \/ p.cap = Nothing \/ WithinCap(Backup(p), routed.cap)
  BY <1>1, Empty DEF Backup, CapInv, RoutedRow
<1>4. /\ routed' \in RoutedRow /\ routed'.at = "primary" /\ routed'.cap = routed.cap /\ routed'.capNow = p.cap
      /\ routed'.primary = routed.primary /\ routed'.backup = Backup(p)
  BY <1>1, <1>2, <1>3, Empty DEF RoutedRow
<1> QED
  BY <1>1, <1>2, <1>3, <1>4 DEF CapInv, WithinCap

\* The calls of the primary, the backup and the failback, and another round.
LEMMA Calling ==
    ASSUME CapInv,
           \/ \E stage \in {"primary", "backup", "failback"} : CallSucceedsOn(stage) \/ CallFailsOn(stage)
           \/ RouteAgain
    PROVE  CapInv'
<1>1. UNCHANGED <<price, policies, setting>> /\ routed \in RoutedRow
  BY DEF CallSucceedsOn, CallFailsOn, RouteAgain, CapInv
<1>2. CASE \E at \in {"none", "completed", "failed"} : routed' = [NotRouted EXCEPT !.at = at]
  <2>1. routed' \in RoutedRow /\ routed'.at \in {"none", "completed", "failed"}
    BY <1>2, Empty DEF RoutedRow
  <2> QED
    BY <1>1, <2>1 DEF CapInv
<1>3. CASE routed' = NotRouted
  BY <1>1, <1>3, Empty DEF CapInv
<1>4. CASE routed.at = "primary" /\ routed.backup # Nothing /\ routed' = [routed EXCEPT !.at = "backup"]
  <2>1. /\ routed' \in RoutedRow /\ routed'.at = "backup" /\ routed'.cap = routed.cap /\ routed'.capNow = routed.capNow
        /\ routed'.primary = routed.primary /\ routed'.backup = routed.backup
    BY <1>1, <1>4 DEF RoutedRow
  <2> QED
    BY <1>1, <1>4, <2>1 DEF CapInv, WithinCap
<1>5. CASE routed' = [routed EXCEPT !.at = "failback"]
  <2>1. routed' \in RoutedRow /\ routed'.at = "failback"
    BY <1>1, <1>5 DEF RoutedRow
  <2> QED
    BY <1>1, <2>1 DEF CapInv
<1> QED
  BY <1>2, <1>3, <1>4, <1>5 DEF CallSucceedsOn, CallFailsOn, RouteAgain

\* The policy is set by the owner, in two steps.
LEMMA Setting ==
    ASSUME CapInv, NEW o \in PolicyOwners,
           \/ SetPolicyCommit(o)
           \/ \E project \in BOOLEAN, values \in [mode : PolicyModes, cap : Prices] : SetPolicyRead(o, project, values)
    PROVE  CapInv'
<1>1. UNCHANGED <<price, routed>> /\ setting[o] \in SettingRow /\ policies \in [BOOLEAN -> Policies \cup {Unset}]
      /\ setting \in [PolicyOwners -> SettingRow]
  BY DEF SetPolicyCommit, SetPolicyRead, CapInv
<1>2. CASE SetPolicyCommit(o)
  <2> DEFINE s == setting[o]
  <2>1. /\ s.at = "found" /\ s.project \in BOOLEAN /\ s.found \in Policies \cup {Unset} /\ s.values \in Policies
        /\ (s.found # Unset => policies[s.project] \in Policies)
        /\ policies' = [policies EXCEPT ![s.project] = RowWritten(s)]
        /\ setting' = [setting EXCEPT ![o] = NotSetting]
    BY <1>1, <1>2 DEF SettingRow, CapInv, SetPolicyCommit
  <2> HIDE DEF s
  <2>2. RowWritten(s) \in Policies
    <3>1. CASE s.found = Unset
      BY <1>1, <2>1, <3>1 DEF RowWritten
    <3>2. CASE s.found # Unset
      BY <2>1, <3>2 DEF RowWritten, Policies
    <3> QED
      BY <3>1, <3>2
  <2>3. /\ policies' \in [BOOLEAN -> Policies \cup {Unset}]
        /\ \A x \in BOOLEAN : policies[x] # Unset => policies'[x] # Unset
    BY <1>1, <2>1, <2>2, Empty
  <2>4. /\ setting' \in [PolicyOwners -> SettingRow] /\ setting'[o].at = "none"
        /\ \A q \in PolicyOwners \ {o} : setting'[q] = setting[q]
    BY <1>1, <2>1, Empty DEF NotSetting
  <2> QED
    BY <1>1, <2>3, <2>4 DEF CapInv, WithinCap, SettingRow
<1>3. CASE \E project \in BOOLEAN, values \in [mode : PolicyModes, cap : Prices] : SetPolicyRead(o, project, values)
  <2>1. PICK project \in BOOLEAN, values \in [mode : PolicyModes, cap : Prices] : SetPolicyRead(o, project, values)
    BY <1>3
  <2> DEFINE new == [at |-> "found", project |-> project, found |-> policies[project], values |-> values]
  <2>2. policies' = policies /\ setting' = [setting EXCEPT ![o] = new]
    BY <2>1 DEF SetPolicyRead
  <2>3. values \in Policies
    BY <2>1, RoutingAssumption DEF Policies, Modes
  <2>4. new \in SettingRow /\ new.values = values /\ new.found = policies[project] /\ new.project = project
    BY <1>1, <2>3 DEF SettingRow
  <2> HIDE DEF new
  <2>5. /\ setting' \in [PolicyOwners -> SettingRow] /\ setting'[o] = new
        /\ \A q \in PolicyOwners \ {o} : setting'[q] = setting[q]
    BY <1>1, <2>2, <2>4
  <2> QED
    BY <1>1, <2>2, <2>3, <2>4, <2>5 DEF CapInv, WithinCap
<1> QED
  BY <1>2, <1>3

\* Every step keeps the cap.
LEMMA CapStep == CapInv /\ [RoutingNext]_routingVars => CapInv'
<1> SUFFICES ASSUME CapInv, [RoutingNext]_routingVars PROVE CapInv'
  OBVIOUS
<1>1. CASE UNCHANGED routingVars
  BY <1>1 DEF routingVars, CapInv, WithinCap
<1> QED
  BY <1>1, Routings, Resolving, Calling, Setting DEF RoutingNext

\* For any runtimes, prices, owners and policies, changed at any time: a call that finds the same
\* cap both times runs on nothing that is dearer or not priced (_resolve_backup_and_failback).
THEOREM CapIsKept == RoutingSpec => []SpendCapKept
<1>1. CapInv => SpendCapKept
  BY DEF CapInv, SpendCapKept
<1> QED
  BY <1>1, CapInit, CapStep, PTL DEF RoutingSpec

\* A call on its way has a runtime.
RouteInv ==
    /\ price \in [Routes -> Prices] /\ settings \in 0 .. MaxSettings
    /\ routed.at \in {"routed", "primary", "backup", "failback"} => routed.primary # Nothing

\* The steps of a call.
LEMMA RouteKept ==
    ASSUME CapInv, RouteInv,
           \/ \E project \in BOOLEAN, override \in BOOLEAN : RouteCall(project, override) \/ RouteFails(project, override)
           \/ ResolveBackup \/ RouteAgain
           \/ \E stage \in {"primary", "backup", "failback"} : CallSucceedsOn(stage) \/ CallFailsOn(stage)
    PROVE  RouteInv'
<1>1. UNCHANGED <<price, settings>> /\ routed \in RoutedRow /\ NotRouted \in RoutedRow
  BY Empty DEF RouteCall, RouteFails, ResolveBackup, RouteAgain, CallSucceedsOn, CallFailsOn, CapInv
<1>2. routed'.at \in {"routed", "primary", "backup", "failback"} => routed'.primary # Nothing
  <2>1. ASSUME NEW project \in BOOLEAN, NEW override \in BOOLEAN, RouteCall(project, override)
        PROVE  routed'.primary # Nothing
    <3> DEFINE p == IF override THEN [Policy(project) EXCEPT !.mode = "manual"] ELSE Policy(project)
    <3>1. p \in Policies
      BY PolicyRead
    <3> HIDE DEF p
    <3>2. PICK r \in Viable(p) : \E next \in Fallbacks(r, p) \cup {Nothing} :
            routed' = [NotRouted EXCEPT !.at = "routed", !.project = project, !.cap = p.cap, !.primary = r, !.fallback = next]
      BY <2>1 DEF RouteCall, p
    <3>3. r \in Routes
      BY <3>1, <3>2, ViableRoutes
    <3>4. routed'.primary = r
      BY <1>1, <3>2 DEF RoutedRow
    <3> QED
      BY <3>3, <3>4, RoutingAssumption
  <2>2. ASSUME NEW project \in BOOLEAN, NEW override \in BOOLEAN, RouteFails(project, override)
        PROVE  routed'.at = "failed" \/ routed'.primary = OwnRoute
    BY <1>1, <2>2 DEF RouteFails, RoutedRow
  <2>3. CASE ResolveBackup
    <3> DEFINE p == Policy(routed.project)
    <3>1. /\ routed' = [routed EXCEPT !.at = "primary", !.capNow = p.cap, !.backup = Backup(p), !.fallback = Nothing, !.failback = OwnFailback]
          /\ routed.at = "routed"
      BY <2>3 DEF ResolveBackup
    <3> HIDE DEF p
    <3>2. routed'.primary = routed.primary
      BY <1>1, <3>1 DEF RoutedRow
    <3> QED
      BY <3>1, <3>2 DEF RouteInv
  <2>4. CASE RouteAgain
    BY <1>1, <2>4, Empty DEF RouteAgain
  <2>5. CASE \E stage \in {"primary", "backup", "failback"} : CallSucceedsOn(stage) \/ CallFailsOn(stage)
    <3>1. /\ routed.at \in {"primary", "backup", "failback"}
          /\ \/ \E at \in {"completed", "failed"} : routed' = [NotRouted EXCEPT !.at = at]
             \/ \E at \in {"backup", "failback"} : routed' = [routed EXCEPT !.at = at]
      BY <2>5 DEF CallSucceedsOn, CallFailsOn
    <3> QED
      BY <1>1, <3>1 DEF RoutedRow, RouteInv
  <2>6. OwnRoute # Nothing
    BY RoutingAssumption
  <2> QED
    BY <2>1, <2>2, <2>3, <2>4, <2>5, <2>6
<1> QED
  BY <1>1, <1>2 DEF RouteInv

\* Type correctness: every call that is routed has a runtime, every call on its backup a backup.
THEOREM RoutingTypeCorrect == RoutingSpec => []RoutingTypeOK
<1>1. ASSUME RoutingInit PROVE RouteInv
  BY <1>1, RoutingAssumption DEF RoutingInit, RouteInv, NotRouted
<1>2. ASSUME CapInv, RouteInv, RoutingNext PROVE RouteInv'
  <2>1. ASSUME NEW o \in PolicyOwners,
               \/ SetPolicyCommit(o)
               \/ \E project \in BOOLEAN, values \in [mode : PolicyModes, cap : Prices] : SetPolicyRead(o, project, values)
        PROVE  RouteInv'
    <3>1. /\ UNCHANGED <<price, routed>>
          /\ settings' = settings \/ (settings < MaxSettings /\ settings' = settings + 1)
      BY <2>1 DEF SetPolicyCommit, SetPolicyRead
    <3> QED
      BY <1>2, <3>1, RoutingAssumption DEF RouteInv
  <2> QED
    BY <1>2, <2>1, RouteKept DEF RoutingNext
<1>3. RouteInv /\ UNCHANGED routingVars => RouteInv'
  BY DEF routingVars, RouteInv
<1>4. CapInv /\ RouteInv => RoutingTypeOK
  BY DEF CapInv, RouteInv, RoutedRow, SettingRow, RoutingTypeOK
<1> QED
  BY <1>1, <1>2, <1>3, <1>4, CapInit, CapStep, PTL DEF RoutingSpec

-----------------------------------------------------------------------------
(* Delegated calls *)

Steps == {"none", "looked", "begun", "thinking", "failed", "returned", "raised"}
Stages == {"primary", "backup", "failback"}
Errors == {"none", "error", "limit", "cancelled"}
Sessions == {"none", "open", "closed"}
CallRow == [at : Steps, agent : Team \cup {NoAgentHere}, parent : Calls \cup {0},
            path : SUBSET (Team \cup {NoAgentHere}), stage : Stages,
            cli : BOOLEAN, offered : SUBSET Team, waits : Calls \cup {0}, error : Errors, session : Sessions]

DelegationShape ==
    /\ squad \in [members : SUBSET Team, archived : BOOLEAN, edits : Nat]
    /\ call \in [Calls -> CallRow]
    /\ \A k \in Calls : call[k].at = "looked" => call[k].waits = 0
    /\ budget \in [limit : Nat, used : Nat]

Looking == {k \in Calls : call[k].at = "looked"}

\* What has begun is counted, and there is room for what is about to be.
DelegationInv ==
    /\ DelegationShape
    /\ ~contended =>
         /\ Cardinality(Delegated) <= budget.used /\ budget.used <= budget.limit
         /\ \A k, n \in Looking : k = n
         /\ Looking # {} => budget.used < budget.limit

\* The calls can be counted.
LEMMA CallsFinite ==
    ASSUME NEW S \in SUBSET Calls
    PROVE  IsFiniteSet(S) /\ Cardinality(S) \in Nat
<1>1. IsFiniteSet(1 .. MaxCalls)
  BY DelegationAssumption, FS_Interval
<1>2. IsFiniteSet(S)
  BY <1>1, FS_Subset DEF Calls
<1> QED
  BY <1>2, FS_CardinalityType

\* At first the lead's own call is the only one.
LEMMA DelegationInitInv == DelegationInit => DelegationInv
<1> SUFFICES ASSUME DelegationInit PROVE DelegationInv
  OBVIOUS
<1>1. NoCall \in CallRow /\ NoCall.at = "none" /\ NoCall.parent = 0
  BY DEF NoCall, CallRow, Steps, Stages, Errors, Sessions
<1>2. [NoCall EXCEPT !.at = "begun", !.agent = Lead] \in CallRow
      /\ [NoCall EXCEPT !.at = "begun", !.agent = Lead].parent = 0
      /\ [NoCall EXCEPT !.at = "begun", !.agent = Lead].at = "begun"
  BY <1>1, DelegationAssumption DEF CallRow, Steps
<1>3. \A k \in Calls : call[k] \in CallRow /\ call[k].parent = 0 /\ call[k].at # "looked"
  BY <1>1, <1>2 DEF DelegationInit
<1>4. DelegationShape
  BY <1>1, <1>2, DelegationAssumption DEF DelegationInit, DelegationShape
<1>5. Delegated = {} /\ Looking = {}
  BY <1>3 DEF Delegated, Looking
<1> QED
  BY <1>4, <1>5, FS_EmptySet, DelegationAssumption DEF DelegationInit, DelegationInv

\* The end of a call leaves its place below the run.
LEMMA Finishing ==
    ASSUME NEW c \in CallRow
    PROVE  Finish_(c) \in CallRow /\ Finish_(c).parent = c.parent
<1> DEFINE left == IF c.session = "open" THEN "closed" ELSE c.session
<1>1. left \in Sessions
  BY DEF CallRow, Sessions
<1>2. Finish_(c) = [c EXCEPT !.session = left, !.waits = 0, !.offered = {}]
  BY DEF Finish_
<1> HIDE DEF left
<1> QED
  BY <1>1, <1>2 DEF CallRow

Raised(c, error) == [Finish_(c) EXCEPT !.at = "raised", !.error = error]
Returned(c) == [Finish_(c) EXCEPT !.at = "returned"]
Next_(c, stage) == [c EXCEPT !.at = "thinking", !.stage = stage, !.error = "none", !.cli = FALSE]

\* A call that raises is a call.
LEMMA Raising ==
    ASSUME NEW c \in CallRow, NEW error \in Errors
    PROVE  Raised(c, error) \in CallRow /\ Raised(c, error).parent = c.parent /\ Raised(c, error).at # "looked"
<1>1. Finish_(c) \in CallRow /\ Finish_(c).parent = c.parent /\ "raised" \in Steps
  BY Finishing DEF Steps
<1> QED
  BY <1>1 DEF CallRow, Raised

\* A call that returns is a call.
LEMMA Returning ==
    ASSUME NEW c \in CallRow
    PROVE  Returned(c) \in CallRow /\ Returned(c).parent = c.parent /\ Returned(c).at # "looked"
<1>1. Finish_(c) \in CallRow /\ Finish_(c).parent = c.parent /\ "returned" \in Steps
  BY Finishing DEF Steps
<1> QED
  BY <1>1 DEF CallRow, Returned

\* A call that tries another runtime is a call.
LEMMA TryingAgain ==
    ASSUME NEW c \in CallRow, NEW stage \in Stages
    PROVE  Next_(c, stage) \in CallRow /\ Next_(c, stage).parent = c.parent /\ Next_(c, stage).at # "looked"
<1>1. "thinking" \in Steps /\ "none" \in Errors
  BY DEF Steps, Errors
<1> QED
  BY <1>1 DEF CallRow, Next_

\* A call that goes on neither begins nor looks at the budget.
LEMMA GoesOn ==
    ASSUME DelegationInv, NEW k \in Calls, budget' = budget, contended' = contended,
           DelegationShape', call' = [call EXCEPT ![k] = call'[k]], call'[k].parent = call[k].parent,
           call[k].at # "looked", call'[k].at # "looked"
    PROVE  DelegationInv'
<1>1. Delegated' = Delegated /\ Looking' = Looking
  BY DEF DelegationInv, DelegationShape, Delegated, Looking
<1> QED
  BY <1>1 DEF DelegationInv

\* The steps inside a call that delegate nothing.
LEMMA Thinking ==
    ASSUME DelegationInv, NEW k \in Calls,
           \/ BeginCall(k) \/ OfferTools(k) \/ CallReturns(k) \/ RuntimeFails(k) \/ AfterPrimary(k)
           \/ AfterBackup(k) \/ StubTimesOut(k)
    PROVE  DelegationInv'
<1> DEFINE c == call'[k]
<1>1. /\ call \in [Calls -> CallRow] /\ call[k] \in CallRow /\ call[k].at # "looked"
      /\ squad' = squad /\ budget' = budget /\ contended' = contended
  BY DEF DelegationInv, DelegationShape, BeginCall, OfferTools, CallReturns, RuntimeFails, AfterPrimary,
     AfterBackup, StubTimesOut, BudgetFor
<1>2. call' = [call EXCEPT ![k] = c]
  BY <1>1 DEF BeginCall, OfferTools, CallReturns, RuntimeFails, AfterPrimary, AfterBackup, StubTimesOut, Set,
     FailsWith, Raises, TriesNext
<1>3. c \in CallRow /\ c.parent = call[k].parent /\ c.at # "looked"
  <2>1. CASE BeginCall(k)
    BY <1>1, <2>1 DEF BeginCall, Set, CallRow, Steps, Sessions
  <2>2. CASE OfferTools(k)
    <3>1. Colleagues(k) \in SUBSET Team
      BY DEF Colleagues, DelegationInv, DelegationShape
    <3>2. PICK cli \in BOOLEAN : c = [call[k] EXCEPT !.offered = Colleagues(k), !.cli = cli]
      BY <1>1, <2>2 DEF OfferTools, Set
    <3>3. call[k].at = "thinking"
      BY <2>2 DEF OfferTools
    <3> QED
      BY <1>1, <3>1, <3>2, <3>3 DEF CallRow
  <2>3. CASE StubTimesOut(k)
    BY <1>1, <2>3 DEF StubTimesOut, Set, CallRow
  <2>4. CASE CallReturns(k)
    <3>1. c = Returned(call[k])
      BY <1>1, <2>4 DEF CallReturns, Set, Returned
    <3> QED
      BY <1>1, <3>1, Returning
  <2>5. CASE RuntimeFails(k)
    <3>1. PICK error \in {"error", "cancelled"} : FailsWith(k, error)
      BY <2>5 DEF RuntimeFails
    <3>2. error \in Errors /\ "failed" \in Steps
      BY DEF Errors, Steps
    <3> QED
      BY <1>1, <3>1, <3>2 DEF FailsWith, Set, CallRow
  <2>6. CASE AfterPrimary(k) \/ AfterBackup(k)
    <3>1. call[k].error \in Errors /\ {"limit", "error"} \subseteq Errors /\ "raised" \in Steps
      BY <1>1 DEF CallRow, Errors, Steps
    <3>2. \/ \E error \in Errors : Raises(k, error)
          \/ Set(k, [call[k] EXCEPT !.at = "raised", !.error = "error"])
          \/ \E stage \in {"backup", "failback"} : TriesNext(k, stage)
      BY <2>6, <3>1 DEF AfterPrimary, AfterBackup
    <3>3. CASE \E error \in Errors : Raises(k, error)
      <4>1. PICK error \in Errors : Raises(k, error)
        BY <3>3
      <4>2. c = Raised(call[k], error)
        <5>1. call' = [call EXCEPT ![k] = Raised(call[k], error)]
          BY <4>1 DEF Raises, Set, Raised
        <5> QED
          BY <1>1, <5>1
      <4> QED
        BY <1>1, <4>2, Raising
    <3>4. CASE Set(k, [call[k] EXCEPT !.at = "raised", !.error = "error"])
      BY <1>1, <3>1, <3>4 DEF Set, CallRow
    <3>5. CASE \E stage \in {"backup", "failback"} : TriesNext(k, stage)
      <4>1. PICK stage \in Stages : TriesNext(k, stage)
        BY <3>5 DEF Stages
      <4>2. c = Next_(call[k], stage)
        <5>1. call' = [call EXCEPT ![k] = Next_(call[k], stage)]
          BY <4>1 DEF TriesNext, Set, Next_
        <5> QED
          BY <1>1, <5>1
      <4> QED
        BY <1>1, <4>2, TryingAgain
    <3> QED
      BY <3>2, <3>3, <3>4, <3>5
  <2> QED
    BY <2>1, <2>2, <2>3, <2>4, <2>5, <2>6
<1>4. DelegationShape'
  BY <1>1, <1>2, <1>3 DEF DelegationInv, DelegationShape
<1> QED
  BY <1>1, <1>2, <1>3, <1>4, GoesOn

\* Who asks looks at the budget: another thread may be between looking and counting.
LEMMA Asking ==
    ASSUME DelegationInv, NEW k \in Calls, NEW t \in Team, AskDelegate(k, t)
    PROVE  DelegationInv'
<1>1. /\ call \in [Calls -> CallRow] /\ call[k] \in CallRow /\ call[k].at = "thinking"
      /\ squad' = squad /\ budget' = budget
  BY DEF DelegationInv, DelegationShape, AskDelegate, Free
<1>2. CASE FailsWith(k, "limit") /\ contended' = contended
  <2>1. "failed" \in Steps /\ "limit" \in Errors
    BY DEF Steps, Errors
  <2>2. /\ call'[k] \in CallRow /\ call'[k].parent = call[k].parent /\ call'[k].at = "failed"
        /\ call' = [call EXCEPT ![k] = call'[k]]
    BY <1>1, <1>2, <2>1 DEF FailsWith, Set, CallRow
  <2>3. DelegationShape'
    BY <1>1, <2>2 DEF DelegationInv, DelegationShape
  <2> QED
    BY <1>1, <1>2, <2>2, <2>3, GoesOn
<1>3. CASE ~(budget.used >= budget.limit)
  <2> DEFINE new == [NoCall EXCEPT !.at = "looked", !.agent = t, !.parent = k, !.path = call[k].path]
  <2>1. PICK n \in Calls :
          /\ call[n].at = "none"
          /\ call' = [call EXCEPT ![k].waits = n, ![n] = new]
          /\ contended' = (contended \/ \E m \in Calls : call[m].at = "looked")
    BY <1>3 DEF AskDelegate
  <2>2. new \in CallRow /\ new.at = "looked" /\ new.waits = 0
    <3>1. NoCall \in CallRow /\ NoCall.waits = 0 /\ "looked" \in Steps /\ call[k].path \in SUBSET (Team \cup {NoAgentHere})
      BY <1>1 DEF NoCall, CallRow, Steps, Stages, Errors, Sessions
    <3> QED
      BY <3>1 DEF CallRow
  <2> DEFINE waiting == [call[k] EXCEPT !.waits = n]
  <2>3. waiting \in CallRow /\ waiting.at = "thinking" /\ waiting.parent = call[k].parent
    BY <1>1 DEF CallRow
  <2> HIDE DEF new
  <2>4. n # k /\ call' = [call EXCEPT ![k] = waiting, ![n] = new]
    BY <1>1, <2>1
  <2> HIDE DEF waiting
  <2>5. /\ call' \in [Calls -> CallRow] /\ call'[n] = new /\ call'[k] = waiting
        /\ \A m \in Calls \ {k, n} : call'[m] = call[m]
    BY <1>1, <2>2, <2>3, <2>4
  <2>6. DelegationShape'
    BY <1>1, <2>2, <2>3, <2>5 DEF DelegationInv, DelegationShape
  <2>7. contended' \/ (Looking = {} /\ ~contended)
    BY <2>1 DEF Looking
  <2>8. Looking' = Looking \cup {n}
    BY <1>1, <2>1, <2>2, <2>3, <2>5 DEF Looking
  <2>9. Delegated' \subseteq Delegated
    <3> SUFFICES ASSUME NEW m \in Calls, call'[m].parent # 0, call'[m].at # "looked"
                 PROVE  call[m].parent # 0 /\ call[m].at # "looked"
      BY DEF Delegated
    <3> QED
      BY <1>1, <2>2, <2>3, <2>5
  <2>10. Cardinality(Delegated') <= Cardinality(Delegated) /\ Cardinality(Delegated') \in Nat
         /\ Cardinality(Delegated) \in Nat
    <3>1. Delegated \subseteq Calls /\ Delegated' \subseteq Calls
      BY DEF Delegated
    <3> QED
      BY <2>9, <3>1, CallsFinite, FS_Subset
  <2> QED
    BY <1>1, <1>3, <2>6, <2>7, <2>8, <2>10 DEF DelegationInv, DelegationShape
<1> QED
  BY <1>2, <1>3 DEF AskDelegate

\* The call that looked is counted before it begins.
LEMMA Counting ==
    ASSUME DelegationInv, NEW n \in Calls, CountDelegate(n)
    PROVE  DelegationInv'
<1>1. /\ call \in [Calls -> CallRow] /\ call[n] \in CallRow /\ call[n].at = "looked"
      /\ squad' = squad /\ contended' = contended /\ budget \in [limit : Nat, used : Nat]
      /\ budget' = [budget EXCEPT !.used = @ + 1]
  BY DEF DelegationInv, DelegationShape, CountDelegate
<1>2. /\ call'[n] \in CallRow /\ call'[n].at # "looked" /\ call' = [call EXCEPT ![n] = call'[n]]
  <2>1. CASE Set(n, [call[n] EXCEPT !.at = "raised", !.error = "cancelled"])
    BY <1>1, <2>1 DEF Set, CallRow, Steps, Errors
  <2>2. CASE Set(n, [call[n] EXCEPT !.at = "begun"])
    BY <1>1, <2>2 DEF Set, CallRow, Steps
  <2> QED
    BY <2>1, <2>2 DEF CountDelegate
<1>3. DelegationShape'
  BY <1>1, <1>2 DEF DelegationInv, DelegationShape
<1>4. budget'.used = budget.used + 1 /\ budget'.limit = budget.limit
  BY <1>1
<1>5. Looking' = Looking \ {n} /\ n \in Looking
  BY <1>1, <1>2 DEF Looking
<1>6. Delegated' \subseteq Delegated \cup {n} /\ n \notin Delegated
  BY <1>1, <1>2 DEF Delegated
<1>7. Cardinality(Delegated') <= Cardinality(Delegated) + 1 /\ Cardinality(Delegated') \in Nat
      /\ Cardinality(Delegated) \in Nat
  <2>1. Delegated \subseteq Calls /\ Delegated' \subseteq Calls /\ Delegated \cup {n} \subseteq Calls
    BY DEF Delegated
  <2>2. Cardinality(Delegated \cup {n}) = Cardinality(Delegated) + 1
    BY <1>6, <2>1, CallsFinite, FS_AddElement
  <2> QED
    BY <1>6, <2>1, <2>2, CallsFinite, FS_Subset
<1> QED
  BY <1>1, <1>3, <1>4, <1>5, <1>7 DEF DelegationInv

\* The answer of a delegated call goes to the one that waits for it.
LEMMA Answering ==
    ASSUME DelegationInv, NEW n \in Calls, AnswerDelegate(n)
    PROVE  DelegationInv'
<1> DEFINE k == call[n].parent
           c == call'[k]
<1>1. /\ call \in [Calls -> CallRow] /\ call[n] \in CallRow /\ k \in Calls /\ call[k] \in CallRow
      /\ call[n].at \in {"returned", "raised"} /\ call[k].waits = n /\ call[k].at # "looked"
      /\ squad' = squad /\ budget' = budget /\ contended' = contended
  <2>1. call[n].parent \in Calls
    BY DEF DelegationInv, DelegationShape, AnswerDelegate, CallRow
  <2>2. n # 0
    BY DelegationAssumption DEF Calls
  <2> QED
    BY <2>1, <2>2 DEF DelegationInv, DelegationShape, AnswerDelegate
<1>2. CASE FailsWith(k, call[n].error)
  <2>1. "failed" \in Steps /\ call[n].error \in Errors
    BY <1>1 DEF Steps, CallRow
  <2>2. /\ c \in CallRow /\ c.parent = call[k].parent /\ c.at = "failed"
        /\ call' = [call EXCEPT ![k] = c]
    BY <1>1, <1>2, <2>1 DEF FailsWith, Set, CallRow
  <2>3. DelegationShape'
    BY <1>1, <2>2 DEF DelegationInv, DelegationShape
  <2> QED
    BY <1>1, <2>2, <2>3, GoesOn
<1>3. CASE Set(k, [call[k] EXCEPT !.waits = 0])
  <2>1. /\ c \in CallRow /\ c.parent = call[k].parent /\ c.at = call[k].at
        /\ call' = [call EXCEPT ![k] = c]
    BY <1>1, <1>3 DEF Set, CallRow
  <2>2. DelegationShape'
    BY <1>1, <2>1 DEF DelegationInv, DelegationShape
  <2> QED
    BY <1>1, <2>1, <2>2, GoesOn
<1> QED
  BY <1>2, <1>3 DEF AnswerDelegate

\* What the owner does to the squad and the run in the meantime.
LEMMA Owning ==
    ASSUME DelegationInv,
           \/ CancelRun \/ ArchiveSquad
           \/ \E t \in Team : AddMember(t) \/ RemoveMember(t)
    PROVE  DelegationInv'
<1>1. UNCHANGED <<call, budget, contended>>
  BY DEF CancelRun, ArchiveSquad, AddMember, RemoveMember, ChangeSquad
<1>2. squad' \in [members : SUBSET Team, archived : BOOLEAN, edits : Nat]
  <2>1. squad \in [members : SUBSET Team, archived : BOOLEAN, edits : Nat]
    BY DEF DelegationInv, DelegationShape
  <2>2. ASSUME NEW changed \in [members : SUBSET Team, archived : BOOLEAN, edits : Nat], ChangeSquad(changed)
        PROVE  squad' \in [members : SUBSET Team, archived : BOOLEAN, edits : Nat]
    BY <2>2 DEF ChangeSquad
  <2>3. CASE CancelRun
    BY <2>1, <2>3 DEF CancelRun
  <2>4. CASE ArchiveSquad
    <3>1. [squad EXCEPT !.archived = TRUE] \in [members : SUBSET Team, archived : BOOLEAN, edits : Nat]
      BY <2>1
    <3> QED
      BY <2>2, <2>4, <3>1 DEF ArchiveSquad
  <2>5. CASE \E t \in Team : AddMember(t)
    <3>1. PICK t \in Team : AddMember(t)
      BY <2>5
    <3>2. [squad EXCEPT !.members = @ \cup {t}] \in [members : SUBSET Team, archived : BOOLEAN, edits : Nat]
      BY <2>1
    <3> QED
      BY <2>2, <3>1, <3>2 DEF AddMember
  <2>6. CASE \E t \in Team : RemoveMember(t)
    <3>1. PICK t \in Team : RemoveMember(t)
      BY <2>6
    <3>2. [squad EXCEPT !.members = @ \ {t}] \in [members : SUBSET Team, archived : BOOLEAN, edits : Nat]
      BY <2>1
    <3> QED
      BY <2>2, <3>1, <3>2 DEF RemoveMember
  <2> QED
    BY <2>3, <2>4, <2>5, <2>6
<1>3. DelegationShape' /\ Delegated' = Delegated /\ Looking' = Looking
  BY <1>1, <1>2 DEF DelegationInv, DelegationShape, Delegated, Looking
<1> QED
  BY <1>1, <1>3 DEF DelegationInv

\* Every step keeps the budget, if no two calls look at it at the same time.
LEMMA DelegationStep == DelegationInv /\ [DelegationNext]_delegationVars => DelegationInv'
<1> SUFFICES ASSUME DelegationInv, [DelegationNext]_delegationVars PROVE DelegationInv'
  OBVIOUS
<1>1. CASE UNCHANGED delegationVars
  BY <1>1 DEF delegationVars, DelegationInv, DelegationShape, Delegated, Looking
<1> QED
  BY <1>1, Thinking, Asking, Counting, Answering, Owning DEF DelegationNext

\* For any team, limit and number of calls: however calls are nested, tried again on a backup or
\* left behind by a CLI, no more of them begin than the limit, unless two threads were between
\* looking at the budget and counting (_tool_delegate).
THEOREM BudgetIsKept == DelegationSpec => []BudgetKept
<1>1. DelegationInv => BudgetKept
  <2> SUFFICES ASSUME DelegationInv, ~contended PROVE Cardinality(Delegated) <= budget.limit
    BY DEF BudgetKept
  <2>1. Cardinality(Delegated) \in Nat
    BY CallsFinite DEF Delegated
  <2> QED
    BY <2>1 DEF DelegationInv, DelegationShape
<1> QED
  BY <1>1, DelegationInitInv, DelegationStep, PTL DEF DelegationSpec

\* A call that has been handed tools asks none that is on the way to it; one that has not begun has
\* no tools, and calls nobody.
Open_ == {"none", "looked", "begun"}
Placed(k) ==
    /\ call[k].at = "none" => call[k].parent = 0
    /\ call[k].at = "looked" => call[k].parent # 0
    /\ call[k].at \in Open_ => call[k].offered = {}
    /\ call[k].offered \cap call[k].path = {}
    /\ call[k].parent # 0 => /\ call[call[k].parent].at \notin Open_
                             /\ call[k].agent \notin call[call[k].parent].path

\* Each call is counted once.
PathInv ==
    /\ budget.limit = Limit /\ budget.used = Cardinality(Delegated)
    /\ squad.edits \in 0 .. MaxSquadEdits
    /\ stopRun \in BOOLEAN /\ contended \in BOOLEAN
    /\ \A a \in Team : traveling[a] \in Team \cup {NoAgentHere}
    /\ \A k \in Calls : Placed(k)

\* What a call may become without being counted: its place below the run stays, and once it has
\* begun so does its path.
Onward(c, d) ==
    /\ d.parent = c.parent /\ d.agent = c.agent
    /\ c.at \in Open_ \ {"begun"} <=> d.at \in Open_ \ {"begun"}
    /\ d.at # "none" \/ c.at = "none"
    /\ d.at \in Open_ => c.at \in Open_ /\ d.offered = {}
    /\ d.offered \cap d.path = {}
    /\ c.at \notin Open_ => d.path = c.path

\* A step of one call that has begun.
LEMMA OneBelow ==
    ASSUME DelegationShape, PathInv, NEW k \in Calls, NEW d, call' = [call EXCEPT ![k] = d],
           call[k].at \notin {"none", "looked"}, Onward(call[k], d),
           budget' = budget, squad' = squad, stopRun' = stopRun, contended' = contended,
           \A a \in Team : traveling'[a] \in Team \cup {NoAgentHere}
    PROVE  PathInv'
<1>1. /\ call'[k] = d /\ \A n \in Calls \ {k} : call'[n] = call[n]
      /\ \A n \in Calls : call[n].parent \in Calls \cup {0} /\ call'[n].parent = call[n].parent /\ call'[n].agent = call[n].agent
  BY DEF DelegationShape, CallRow, Onward
<1>2. Delegated' = Delegated
  BY <1>1 DEF Delegated, Onward, Open_
<1>3. \A n \in Calls : call[n].at \notin Open_ => call'[n].at \notin Open_ /\ call'[n].path = call[n].path
  BY <1>1 DEF Onward
<1>4. ASSUME NEW n \in Calls PROVE Placed(n)'
  <2>1. call[n].parent # 0 => /\ call'[call'[n].parent].at \notin Open_
                              /\ call'[n].agent \notin call'[call'[n].parent].path
    BY <1>1, <1>3 DEF PathInv, Placed
  <2>2. CASE n = k
    BY <1>1, <2>1, <2>2 DEF Placed, Onward, Open_
  <2>3. CASE n # k
    BY <1>1, <2>1, <2>3 DEF Placed, PathInv
  <2> QED
    BY <2>2, <2>3
<1> QED
  BY <1>2, <1>4 DEF PathInv

\* The fields that the end of a call leaves.
LEMMA FinishedFields ==
    ASSUME NEW c \in CallRow
    PROVE  /\ Finish_(c).agent = c.agent /\ Finish_(c).path = c.path /\ Finish_(c).offered = {}
           /\ \A error : /\ Raised(c, error).agent = c.agent /\ Raised(c, error).path = c.path
                         /\ Raised(c, error).offered = {} /\ Raised(c, error).at = "raised"
                         /\ Raised(c, error).parent = c.parent
           /\ Returned(c).agent = c.agent /\ Returned(c).path = c.path
           /\ Returned(c).offered = {} /\ Returned(c).at = "returned" /\ Returned(c).parent = c.parent
<1> DEFINE left == IF c.session = "open" THEN "closed" ELSE c.session
<1>1. left \in Sessions
  BY DEF CallRow, Sessions
<1>2. Finish_(c) = [c EXCEPT !.session = left, !.waits = 0, !.offered = {}]
  BY DEF Finish_
<1> HIDE DEF left
<1>3. Finish_(c) \in CallRow /\ Finish_(c).agent = c.agent /\ Finish_(c).path = c.path /\ Finish_(c).offered = {}
      /\ Finish_(c).parent = c.parent
  BY <1>1, <1>2 DEF CallRow
<1> QED
  BY <1>3 DEF CallRow, Raised, Returned

\* The steps inside a call that delegate nothing.
LEMMA ThinkingBelow ==
    ASSUME DelegationInv, PathInv, NEW k \in Calls,
           \/ BeginCall(k) \/ OfferTools(k) \/ CallReturns(k) \/ RuntimeFails(k) \/ AfterPrimary(k)
           \/ AfterBackup(k) \/ StubTimesOut(k)
    PROVE  PathInv'
<1> DEFINE c == call[k]
<1>1. /\ DelegationShape /\ call \in [Calls -> CallRow] /\ c \in CallRow /\ c.at \in {"begun", "thinking", "failed"}
      /\ UNCHANGED <<squad, budget, stopRun, traveling, contended>>
      /\ Placed(k)
  BY DEF DelegationInv, DelegationShape, PathInv, BeginCall, OfferTools, CallReturns, RuntimeFails, AfterPrimary,
     AfterBackup, StubTimesOut, BudgetFor
<1>2. ASSUME NEW d, call' = [call EXCEPT ![k] = d], Onward(c, d) PROVE PathInv'
  <2>1. \A a \in Team : traveling'[a] \in Team \cup {NoAgentHere}
    BY <1>1 DEF PathInv
  <2> QED
    BY <1>1, <1>2, <2>1, OneBelow
<1>3. ASSUME NEW d, d.parent = c.parent, d.agent = c.agent, d.at \notin Open_, d.offered \cap d.path = {},
             c.at \notin Open_ => d.path = c.path
      PROVE  Onward(c, d)
  BY <1>1, <1>3 DEF Onward, Open_
<1>4. CASE BeginCall(k)
  <2> DEFINE d == [c EXCEPT !.at = "thinking", !.session = "open", !.path = c.path \cup {c.agent}]
  <2>1. call' = [call EXCEPT ![k] = d] /\ c.at = "begun"
    BY <1>4 DEF BeginCall, Set
  <2>2. d.parent = c.parent /\ d.agent = c.agent /\ d.at = "thinking" /\ d.offered = c.offered
    BY <1>1 DEF CallRow
  <2>3. c.offered = {}
    BY <1>1, <2>1 DEF Placed, Open_
  <2> HIDE DEF d
  <2> QED
    BY <1>2, <1>3, <2>1, <2>2, <2>3 DEF Open_
<1>5. CASE OfferTools(k)
  <2>1. PICK cli \in BOOLEAN : call' = [call EXCEPT ![k] = [c EXCEPT !.offered = Colleagues(k), !.cli = cli]]
    BY <1>5 DEF OfferTools, Set
  <2> DEFINE d == [c EXCEPT !.offered = Colleagues(k), !.cli = cli]
  <2>2. d.parent = c.parent /\ d.agent = c.agent /\ d.at = c.at /\ d.path = c.path /\ d.offered = Colleagues(k)
    BY <1>1 DEF CallRow
  <2>3. Colleagues(k) \cap c.path = {} /\ c.at = "thinking"
    BY <1>5 DEF Colleagues, OfferTools
  <2> HIDE DEF d
  <2>4. call' = [call EXCEPT ![k] = d]
    BY <2>1 DEF d
  <2> QED
    BY <1>2, <1>3, <2>2, <2>3, <2>4 DEF Open_
<1>6. CASE CallReturns(k)
  <2>1. call' = [call EXCEPT ![k] = Returned(c)]
    BY <1>6 DEF CallReturns, Set, Returned
  <2> QED
    BY <1>1, <1>2, <1>3, <2>1, FinishedFields DEF Open_
<1>7. CASE StubTimesOut(k)
  <2> DEFINE d == [c EXCEPT !.waits = 0]
  <2>1. call' = [call EXCEPT ![k] = d] /\ c.at = "thinking"
    BY <1>7 DEF StubTimesOut, Set
  <2>2. d.parent = c.parent /\ d.agent = c.agent /\ d.at = c.at /\ d.path = c.path /\ d.offered = c.offered
    BY <1>1 DEF CallRow
  <2>3. c.offered \cap c.path = {}
    BY <1>1 DEF Placed
  <2> HIDE DEF d
  <2> QED
    BY <1>2, <1>3, <2>1, <2>2, <2>3 DEF Open_
<1>8. CASE RuntimeFails(k)
  <2>1. PICK error \in {"error", "cancelled"} : FailsWith(k, error)
    BY <1>8 DEF RuntimeFails
  <2> DEFINE d == [c EXCEPT !.at = "failed", !.error = error, !.waits = 0, !.offered = {}]
  <2>2. call' = [call EXCEPT ![k] = d]
    BY <2>1 DEF FailsWith, Set
  <2>3. d.parent = c.parent /\ d.agent = c.agent /\ d.at = "failed" /\ d.path = c.path /\ d.offered = {}
    BY <1>1 DEF CallRow
  <2> HIDE DEF d
  <2> QED
    BY <1>2, <1>3, <2>2, <2>3 DEF Open_
<1>9. CASE AfterPrimary(k) \/ AfterBackup(k)
  <2>1. c.at = "failed" /\ c.offered \cap c.path = {}
    BY <1>1, <1>9 DEF AfterPrimary, AfterBackup, Placed
  <2>2. \/ \E error : Raises(k, error)
        \/ Set(k, [call[k] EXCEPT !.at = "raised", !.error = "error"])
        \/ \E stage \in Stages : TriesNext(k, stage)
    BY <1>9 DEF AfterPrimary, AfterBackup, Stages
  <2>3. ASSUME NEW error, Raises(k, error) PROVE PathInv'
    <3>1. call' = [call EXCEPT ![k] = Raised(c, error)]
      BY <2>3 DEF Raises, Set, Raised
    <3> QED
      BY <1>1, <1>2, <1>3, <3>1, FinishedFields DEF Open_
  <2>4. CASE Set(k, [call[k] EXCEPT !.at = "raised", !.error = "error"])
    <3> DEFINE d == [c EXCEPT !.at = "raised", !.error = "error"]
    <3>1. d.parent = c.parent /\ d.agent = c.agent /\ d.at = "raised" /\ d.path = c.path /\ d.offered = c.offered
      BY <1>1 DEF CallRow
    <3>2. call' = [call EXCEPT ![k] = d]
      BY <2>4 DEF Set
    <3> HIDE DEF d
    <3> QED
      BY <1>2, <1>3, <2>1, <3>1, <3>2 DEF Open_
  <2>5. ASSUME NEW stage \in Stages, TriesNext(k, stage) PROVE PathInv'
    <3> DEFINE d == [c EXCEPT !.at = "thinking", !.stage = stage, !.error = "none", !.cli = FALSE]
    <3>1. d.parent = c.parent /\ d.agent = c.agent /\ d.at = "thinking" /\ d.path = c.path /\ d.offered = c.offered
      BY <1>1 DEF CallRow
    <3>2. call' = [call EXCEPT ![k] = d]
      BY <2>5 DEF TriesNext, Set
    <3> HIDE DEF d
    <3> QED
      BY <1>2, <1>3, <2>1, <3>1, <3>2 DEF Open_
  <2> QED
    BY <2>2, <2>3, <2>4, <2>5
<1> QED
  BY <1>4, <1>5, <1>6, <1>7, <1>8, <1>9

\* A teammate is asked.
LEMMA AskingBelow ==
    ASSUME DelegationInv, PathInv, NEW k \in Calls, NEW t \in Team, AskDelegate(k, t)
    PROVE  PathInv'
<1> DEFINE c == call[k]
<1>1. /\ DelegationShape /\ call \in [Calls -> CallRow] /\ c \in CallRow /\ c.at = "thinking" /\ t \in c.offered
      /\ UNCHANGED <<squad, budget, stopRun, traveling>> /\ Placed(k)
      /\ \A a \in Team : traveling'[a] \in Team \cup {NoAgentHere}
  BY DEF DelegationInv, DelegationShape, PathInv, AskDelegate, Free
<1>2. CASE FailsWith(k, "limit") /\ contended' = contended
  <2> DEFINE d == [c EXCEPT !.at = "failed", !.error = "limit", !.waits = 0, !.offered = {}]
  <2>1. call' = [call EXCEPT ![k] = d]
    BY <1>2 DEF FailsWith, Set
  <2>2. d.parent = c.parent /\ d.agent = c.agent /\ d.at = "failed" /\ d.path = c.path /\ d.offered = {}
    BY <1>1 DEF CallRow
  <2> HIDE DEF d
  <2>3. Onward(c, d)
    BY <1>1, <2>2 DEF Onward, Open_
  <2> QED
    BY <1>1, <1>2, <2>1, <2>3, OneBelow
<1>3. CASE ~(budget.used >= budget.limit)
  <2> DEFINE new == [NoCall EXCEPT !.at = "looked", !.agent = t, !.parent = k, !.path = call[k].path]
  <2>1. PICK n \in Calls :
          /\ call[n].at = "none"
          /\ call' = [call EXCEPT ![k].waits = n, ![n] = new]
          /\ contended' = (contended \/ \E m \in Calls : call[m].at = "looked")
    BY <1>3 DEF AskDelegate
  <2>2. new.at = "looked" /\ new.agent = t /\ new.parent = k /\ new.offered = {} /\ new.path = c.path
    BY DEF NoCall
  <2> DEFINE waiting == [call[k] EXCEPT !.waits = n]
  <2>3. /\ waiting.at = "thinking" /\ waiting.parent = c.parent /\ waiting.agent = c.agent
        /\ waiting.path = c.path /\ waiting.offered = c.offered
    BY <1>1 DEF CallRow
  <2> HIDE DEF new
  <2>4. n # k /\ call' = [call EXCEPT ![k] = waiting, ![n] = new]
    BY <1>1, <2>1
  <2> HIDE DEF waiting
  <2>5. /\ call'[n] = new /\ call'[k] = waiting
        /\ \A m \in Calls \ {k, n} : call'[m] = call[m]
        /\ \A m \in Calls : call[m].parent \in Calls \cup {0}
        /\ 0 \notin Calls /\ call[n].parent = 0
    <3>1. call'[n] = new /\ call'[k] = waiting /\ \A m \in Calls \ {k, n} : call'[m] = call[m]
      BY <1>1, <2>4
    <3>2. call[n].parent = 0
      BY <2>1 DEF PathInv, Placed
    <3>3. \A m \in Calls : call[m].parent \in Calls \cup {0}
      BY <1>1 DEF CallRow
    <3>4. 0 \notin Calls
      BY DelegationAssumption DEF Calls
    <3> QED
      BY <3>1, <3>2, <3>3, <3>4
  <2>6. Delegated' = Delegated
    BY <1>1, <2>1, <2>2, <2>3, <2>5 DEF Delegated
  <2>7. ASSUME NEW m \in Calls PROVE Placed(m)'
    <3>1. CASE m = n
      <4>1. t \notin c.path
        BY <1>1 DEF Placed
      <4> QED
        BY <1>1, <2>2, <2>3, <2>4, <2>5, <3>1, <4>1 DEF Placed, Open_
    <3>2. CASE m # n
      <4>1. /\ call'[m].at = call[m].at /\ call'[m].parent = call[m].parent /\ call'[m].agent = call[m].agent
            /\ call'[m].path = call[m].path /\ call'[m].offered = call[m].offered
        BY <1>1, <2>3, <2>5, <3>2
      <4>2. CASE call[m].parent = 0
        BY <4>1, <4>2 DEF PathInv, Placed
      <4>3. CASE call[m].parent # 0
        <5>1. call[m].parent \in Calls /\ call[m].parent # n
          BY <2>1, <2>5, <4>3 DEF PathInv, Placed, Open_
        <5>2. /\ call'[call[m].parent].at = call[call[m].parent].at
              /\ call'[call[m].parent].path = call[call[m].parent].path
          BY <1>1, <2>3, <2>5, <5>1
        <5> QED
          BY <4>1, <4>3, <5>2 DEF PathInv, Placed
      <4> QED
        BY <4>2, <4>3
    <3> QED
      BY <3>1, <3>2
  <2>8. contended' \in BOOLEAN
    BY <2>1
  <2> QED
    BY <1>1, <2>6, <2>7, <2>8 DEF PathInv
<1> QED
  BY <1>2, <1>3 DEF AskDelegate

\* A call is counted.
LEMMA CountingBelow ==
    ASSUME DelegationInv, PathInv, NEW n \in Calls, CountDelegate(n)
    PROVE  PathInv'
<1> DEFINE c == call[n]
           d == call'[n]
<1>1. /\ DelegationShape /\ call \in [Calls -> CallRow] /\ c \in CallRow /\ c.at = "looked"
      /\ squad' = squad /\ stopRun' = stopRun /\ contended' = contended /\ budget \in [limit : Nat, used : Nat]
      /\ budget' = [budget EXCEPT !.used = @ + 1] /\ Placed(n)
  BY DEF DelegationInv, DelegationShape, PathInv, CountDelegate
<1>2. /\ call' = [call EXCEPT ![n] = d] /\ d.at \in {"raised", "begun"} /\ d.parent = c.parent /\ d.agent = c.agent
      /\ d.path = c.path /\ d.offered = c.offered
  <2>1. CASE Set(n, [c EXCEPT !.at = "raised", !.error = "cancelled"])
    BY <1>1, <2>1 DEF Set, CallRow
  <2>2. CASE Set(n, [c EXCEPT !.at = "begun"])
    BY <1>1, <2>2 DEF Set, CallRow
  <2> QED
    BY <2>1, <2>2 DEF CountDelegate
<1>3. /\ \A m \in Calls \ {n} : call'[m] = call[m]
      /\ \A m \in Calls : call[m].parent \in Calls \cup {0}
  BY <1>1, <1>2 DEF CallRow
<1> HIDE DEF d
<1>4. c.parent # 0
  BY <1>1 DEF Placed
<1>5. Delegated' = Delegated \cup {n} /\ n \notin Delegated /\ Delegated \subseteq Calls
  BY <1>1, <1>2, <1>3, <1>4 DEF Delegated
<1>6. Cardinality(Delegated') = Cardinality(Delegated) + 1
  BY <1>5, CallsFinite, FS_AddElement
<1>7. budget'.limit = Limit /\ budget'.used = Cardinality(Delegated')
  BY <1>1, <1>6 DEF PathInv
<1>8. \A a \in Team : traveling'[a] \in Team \cup {NoAgentHere}
  <2>1. CASE traveling' = traveling
    BY <2>1 DEF PathInv
  <2>2. CASE StartDelegation(call[c.parent].agent, c.agent)
    <3>1. c.agent \in Team \cup {NoAgentHere}
      BY <1>1 DEF CallRow
    <3>2. ASSUME NEW a \in Team PROVE traveling'[a] \in {traveling[a], c.agent} \/ traveling'[a] = traveling[a]
      BY <2>2, <3>2 DEF StartDelegation, PathInv
    <3> QED
      BY <3>1, <3>2 DEF PathInv
  <2> QED
    BY <2>1, <2>2 DEF CountDelegate
<1>9. ASSUME NEW m \in Calls PROVE Placed(m)'
  <2>1. /\ call'[m].parent = call[m].parent /\ call'[m].agent = call[m].agent
        /\ call'[m].path = call[m].path /\ call'[m].offered = call[m].offered
        /\ call'[m].at \in Open_ => call[m].at \in Open_
        /\ call'[m].at \in {"none", "looked"} => call'[m].at = call[m].at
    BY <1>1, <1>2, <1>3 DEF Open_
  <2>2. CASE call[m].parent = 0
    BY <2>1, <2>2 DEF PathInv, Placed
  <2>3. CASE call[m].parent # 0
    <3>1. call[m].parent \in Calls /\ call[m].parent # n
      BY <1>1, <1>3, <2>3 DEF PathInv, Placed, Open_
    <3>2. call'[call[m].parent] = call[call[m].parent]
      BY <1>3, <3>1
    <3> QED
      BY <2>1, <2>3, <3>2 DEF PathInv, Placed
  <2> QED
    BY <2>2, <2>3
<1> QED
  BY <1>1, <1>7, <1>8, <1>9 DEF PathInv

\* An answer arrives.
LEMMA AnsweringBelow ==
    ASSUME DelegationInv, PathInv, NEW n \in Calls, AnswerDelegate(n)
    PROVE  PathInv'
<1> DEFINE k == call[n].parent
           c == call[k]
<1>1. /\ DelegationShape /\ call \in [Calls -> CallRow] /\ k \in Calls /\ c \in CallRow
      /\ squad' = squad /\ budget' = budget /\ contended' = contended /\ stopRun' = stopRun
  BY DEF DelegationInv, DelegationShape, AnswerDelegate, CallRow
<1>2. c.at \notin Open_ /\ Placed(k) /\ EndDelegation(c.agent)
  BY <1>1 DEF PathInv, Placed, AnswerDelegate
<1> HIDE DEF k
<1>3. \A a \in Team : traveling'[a] \in Team \cup {NoAgentHere}
  <2>1. ASSUME NEW a \in Team PROVE traveling'[a] = NoAgentHere \/ traveling'[a] = traveling[a]
    BY <1>2, <2>1 DEF EndDelegation
  <2> QED
    BY <2>1 DEF PathInv
<1>4. CASE FailsWith(k, call[n].error)
  <2> DEFINE d == [c EXCEPT !.at = "failed", !.error = call[n].error, !.waits = 0, !.offered = {}]
  <2>1. call' = [call EXCEPT ![k] = d]
    BY <1>4 DEF FailsWith, Set
  <2>2. d.parent = c.parent /\ d.agent = c.agent /\ d.at = "failed" /\ d.path = c.path /\ d.offered = {}
    BY <1>1 DEF CallRow
  <2> HIDE DEF d
  <2>3. Onward(c, d)
    BY <1>2, <2>2 DEF Onward, Open_
  <2>4. c.at \notin {"none", "looked"}
    BY <1>2 DEF Open_
  <2> QED
    BY <1>1, <1>3, <2>1, <2>3, <2>4, OneBelow
<1>5. CASE Set(k, [c EXCEPT !.waits = 0])
  <2> DEFINE d == [c EXCEPT !.waits = 0]
  <2>1. call' = [call EXCEPT ![k] = d]
    BY <1>5 DEF Set
  <2>2. d.parent = c.parent /\ d.agent = c.agent /\ d.at = c.at /\ d.path = c.path /\ d.offered = c.offered
    BY <1>1 DEF CallRow
  <2> HIDE DEF d
  <2>3. Onward(c, d)
    BY <1>2, <2>2 DEF Onward, Open_, Placed
  <2>4. c.at \notin {"none", "looked"}
    BY <1>2 DEF Open_
  <2> QED
    BY <1>1, <1>3, <2>1, <2>3, <2>4, OneBelow
<1> QED
  BY <1>4, <1>5 DEF AnswerDelegate, k

\* Type correctness, with two facts about the tree of calls: nobody is asked from below to do what
\* it is doing itself, and the calls counted are those that were made (_build_agent_tools,
\* _tool_delegate).
THEOREM DelegationTypeCorrect == DelegationSpec => []DelegationTypeOK
<1>1. ASSUME DelegationInit PROVE PathInv
  <2>1. \A k \in Calls : /\ call[k].parent = 0 /\ call[k].at \in {"none", "begun"}
                         /\ call[k].offered = {} /\ call[k].path = {}
    BY <1>1 DEF DelegationInit, NoCall
  <2>2. Delegated = {}
    BY <2>1 DEF Delegated
  <2>3. \A k \in Calls : Placed(k)
    BY <2>1 DEF Placed
  <2>4. Cardinality(Delegated) = 0
    BY <2>2, FS_EmptySet
  <2>5. stopRun \in BOOLEAN /\ contended \in BOOLEAN
    BY <1>1 DEF DelegationInit
  <2>6. budget.limit = Limit /\ budget.used = 0 /\ squad.edits \in 0 .. MaxSquadEdits
    BY <1>1, DelegationAssumption DEF DelegationInit
  <2>7. \A a \in Team : traveling[a] \in Team \cup {NoAgentHere}
    BY <1>1 DEF DelegationInit
  <2> QED
    BY <2>3, <2>4, <2>5, <2>6, <2>7 DEF PathInv
<1>2. ASSUME DelegationInv, PathInv, DelegationNext PROVE PathInv'
  <2>1. ASSUME \/ CancelRun \/ ArchiveSquad \/ \E t \in Team : AddMember(t) \/ RemoveMember(t)
        PROVE  PathInv'
    <3>1. /\ UNCHANGED <<call, budget, traveling, contended>> /\ stopRun' \in {stopRun, TRUE}
      BY <2>1 DEF CancelRun, ArchiveSquad, AddMember, RemoveMember, ChangeSquad
    <3>2. squad'.edits \in 0 .. MaxSquadEdits
      <4>1. /\ squad \in [members : SUBSET Team, archived : BOOLEAN, edits : Nat] /\ squad.edits \in 0 .. MaxSquadEdits
        BY <1>2 DEF DelegationInv, DelegationShape, PathInv
      <4>2. ASSUME NEW changed, changed \in [members : SUBSET Team, archived : BOOLEAN, edits : Nat],
                   changed.edits = squad.edits, ChangeSquad(changed)
            PROVE  squad'.edits \in 0 .. MaxSquadEdits
        BY <4>1, <4>2, DelegationAssumption DEF ChangeSquad
      <4>3. CASE CancelRun
        BY <4>1, <4>3 DEF CancelRun
      <4>4. CASE ArchiveSquad
        <5> DEFINE changed == [squad EXCEPT !.archived = TRUE]
        <5>1. changed \in [members : SUBSET Team, archived : BOOLEAN, edits : Nat] /\ changed.edits = squad.edits
          BY <4>1
        <5> QED
          BY <4>2, <4>4, <5>1 DEF ArchiveSquad
      <4>5. ASSUME NEW t \in Team, AddMember(t) \/ RemoveMember(t) PROVE squad'.edits \in 0 .. MaxSquadEdits
        <5>1. /\ [squad EXCEPT !.members = @ \cup {t}] \in [members : SUBSET Team, archived : BOOLEAN, edits : Nat]
              /\ [squad EXCEPT !.members = @ \cup {t}].edits = squad.edits
          BY <4>1
        <5>2. /\ [squad EXCEPT !.members = @ \ {t}] \in [members : SUBSET Team, archived : BOOLEAN, edits : Nat]
              /\ [squad EXCEPT !.members = @ \ {t}].edits = squad.edits
          BY <4>1
        <5> QED
          BY <4>2, <4>5, <5>1, <5>2 DEF AddMember, RemoveMember
      <4> QED
        BY <2>1, <4>3, <4>4, <4>5
    <3>3. Delegated' = Delegated /\ \A k \in Calls : Placed(k)'
      BY <1>2, <3>1 DEF PathInv, Placed, Delegated
    <3>4. stopRun' \in BOOLEAN /\ contended' \in BOOLEAN
      BY <1>2, <3>1 DEF PathInv
    <3> QED
      BY <1>2, <3>1, <3>2, <3>3, <3>4 DEF PathInv
  <2> QED
    BY <1>2, <2>1, ThinkingBelow, AskingBelow, CountingBelow, AnsweringBelow DEF DelegationNext
<1>3. PathInv /\ UNCHANGED delegationVars => PathInv'
  BY DEF delegationVars, PathInv, Placed, Delegated
<1>4. ASSUME DelegationInv, PathInv PROVE DelegationTypeOK
  <2>1. Cardinality(Delegated) \in 0 .. MaxCalls
    <3>1. IsFiniteSet(1 .. MaxCalls) /\ Cardinality(1 .. MaxCalls) = MaxCalls
      BY ONLY DelegationAssumption, FS_Interval
    <3>2. Delegated \subseteq 1 .. MaxCalls /\ Cardinality(Delegated) \in Nat
      BY CallsFinite DEF Delegated, Calls
    <3>3. Cardinality(Delegated) <= Cardinality(1 .. MaxCalls)
      BY <3>1, <3>2, FS_Subset
    <3>4. MaxCalls \in Nat /\ Cardinality(Delegated) <= MaxCalls
      BY ONLY <3>1, <3>3, DelegationAssumption
    <3> QED
      BY ONLY <3>2, <3>4
  <2>2. \A k \in Calls : call[k] \in CallRow
    BY <1>4 DEF DelegationInv, DelegationShape
  <2>3. \A k \in Calls : call[k].parent # 0 => call[k].agent \notin call[call[k].parent].path
    BY <1>4 DEF PathInv, Placed
  <2>4. squad.members \subseteq Team /\ squad.archived \in BOOLEAN
    BY <1>4 DEF DelegationInv, DelegationShape
  <2>5. {stopRun, contended} \subseteq BOOLEAN
    <3>1. stopRun \in BOOLEAN /\ contended \in BOOLEAN
      BY <1>4 DEF PathInv
    <3> QED
      BY ONLY <3>1
  <2> QED
    BY <1>4, <2>1, <2>2, <2>3, <2>4, <2>5 DEF PathInv, CallRow, Steps, Stages, Errors, Sessions, DelegationTypeOK
<1> QED
  BY <1>1, <1>2, <1>3, <1>4, DelegationInitInv, DelegationStep, PTL DEF DelegationSpec

-----------------------------------------------------------------------------
(* Autopilots *)

\* What a synchronization owes a job: the triggers that should fire, and the server's tasks.
Owed == (Synced \ drifted) \cup (IF drifted = Triggers THEN {} ELSE {System})

\* A request is going to add the job: it will read the triggers, or has read this one.
Coming(x) ==
    \E p \in PageRequests : \/ page[p].at \in {"list", "remove", "read"}
                            \/ page[p].at = "add" /\ x \in page[p].seen

\* What a request keeps.
Page == [at : {"idle", "list", "remove", "read", "add"},
         listed : SUBSET (Triggers \cup {System}), seen : SUBSET (Triggers \cup {System})]

\* Whatever is owed a job has one, or will have it before all requests are served.
JobInv ==
    /\ page \in [PageRequests -> Page]
    /\ jobs \subseteq Triggers \cup {System}
    /\ \A x \in Owed : x \in jobs \/ Coming(x)

\* A step that leaves the requests and the jobs alone, and owes no more.
LEMMA SameJobs ==
    ASSUME JobInv, UNCHANGED <<page, jobs>>, Owed' \subseteq Owed
    PROVE  JobInv'
BY DEF JobInv, Coming

\* At first no trigger is created, and no job is owed.
LEMMA JobInit == AutopilotsInit => JobInv
<1> SUFFICES ASSUME AutopilotsInit PROVE JobInv
  OBVIOUS
<1>1. Synced = {}
  BY DEF AutopilotsInit, Synced, Scheduled, NoTrigger
<1>2. Quiet \in Page
  BY DEF Quiet, Page
<1> QED
  BY <1>1, <1>2 DEF AutopilotsInit, JobInv, Owed

\* The steps of a firing and of those who move its issues.
LEMMA FiringJobs ==
    ASSUME JobInv, UNCHANGED <<pilot, trigger, jobs, page, drifted>>
    PROVE  JobInv'
BY DEF JobInv, Owed, Coming, Synced, Scheduled

\* Every step keeps what is owed.
LEMMA JobNext == JobInv /\ [AutopilotsNext]_pilotVars => JobInv'
<1> SUFFICES ASSUME JobInv, [AutopilotsNext]_pilotVars PROVE JobInv'
  OBVIOUS
<1>a. page \in [PageRequests -> Page] /\ \A p \in PageRequests : page[p] \in Page
  BY DEF JobInv
<1>b. \A r \in Page :
         /\ \A at \in {"idle", "list", "remove", "read", "add"} : [r EXCEPT !.at = at] \in Page
         /\ \A set \in SUBSET (Triggers \cup {System}) :
              /\ [r EXCEPT !.at = "remove", !.listed = set] \in Page
              /\ [r EXCEPT !.at = "add", !.seen = set] \in Page
  <2> SUFFICES ASSUME NEW r \in Page
               PROVE  /\ \A at \in {"idle", "list", "remove", "read", "add"} : [r EXCEPT !.at = at] \in Page
                      /\ \A set \in SUBSET (Triggers \cup {System}) :
                           /\ [r EXCEPT !.at = "remove", !.listed = set] \in Page
                           /\ [r EXCEPT !.at = "add", !.seen = set] \in Page
    OBVIOUS
  <2>1. \A at \in {"idle", "list", "remove", "read", "add"} : [r EXCEPT !.at = at] \in Page
    BY DEF Page
  <2>2. \A set \in SUBSET (Triggers \cup {System}) : [r EXCEPT !.at = "remove", !.listed = set] \in Page
    BY DEF Page
  <2>3. \A set \in SUBSET (Triggers \cup {System}) : [r EXCEPT !.at = "add", !.seen = set] \in Page
    BY DEF Page
  <2> QED
    BY <2>1, <2>2, <2>3
<1>e. \A r \in Page :
         /\ \A at : [r EXCEPT !.at = at].at = at
         /\ \A at, set : [r EXCEPT !.at = at, !.listed = set].at = at
         /\ \A at, set : /\ [r EXCEPT !.at = at, !.seen = set].at = at
                         /\ [r EXCEPT !.at = at, !.seen = set].seen = set
  BY DEF Page
<1>c. Quiet \in Page /\ Quiet.at = "idle"
  BY DEF Quiet, Page
<1>d. Synced \subseteq Triggers
  BY DEF Synced
<1>1. ASSUME NEW new, UpdatePilot(new)
      PROVE  JobInv'
  <2>1. UNCHANGED <<page, jobs>>
    BY <1>1 DEF UpdatePilot, jobState
  <2>2. Owed' \subseteq Owed
    <3>1. CASE new.enabled = pilot.enabled
      BY <1>1, <3>1 DEF UpdatePilot, Owed, Synced, Scheduled
    <3>2. CASE new.enabled # pilot.enabled
      BY <1>1, <3>2 DEF UpdatePilot, Owed, Synced
    <3> QED
      BY <3>1, <3>2
  <2> QED
    BY <2>1, <2>2, SameJobs
<1>2. ASSUME NEW t \in Triggers, NEW row, CommandTrigger(t, row)
      PROVE  JobInv'
  <2>1. UNCHANGED <<page, jobs, pilot>> /\ drifted' = drifted \cup {t}
        /\ trigger' = [trigger EXCEPT ![t] = row]
    BY <1>2 DEF CommandTrigger, jobState
  <2>2. (Synced \ drifted)' \subseteq Synced \ drifted
    BY <2>1 DEF Synced, Scheduled
  <2>3. drifted = Triggers => drifted' = Triggers
    BY <2>1
  <2>4. Owed' \subseteq Owed
    BY <2>2, <2>3 DEF Owed
  <2> QED
    BY <2>1, <2>4, SameJobs
\* A request that is not done, up to its reading of the triggers, makes up for all.
<1>3. ASSUME page' \in [PageRequests -> Page], jobs' \subseteq Triggers \cup {System},
             NEW p \in PageRequests, page'[p].at \in {"list", "remove", "read"}
      PROVE  JobInv'
  BY <1>3 DEF JobInv, Coming
<1>4. ASSUME NEW p \in PageRequests, NEW t \in Triggers, AddTrigger(p, t)
      PROVE  JobInv'
  <2>1. page' = [page EXCEPT ![p] = [page[p] EXCEPT !.at = "list"]] /\ jobs' = jobs
    BY <1>4 DEF AddTrigger
  <2>2. [page[p] EXCEPT !.at = "list"] \in Page /\ [page[p] EXCEPT !.at = "list"].at = "list"
    BY <1>a, <1>b, <1>e
  <2>3. page' \in [PageRequests -> Page] /\ page'[p].at = "list"
    BY <1>a, <2>1, <2>2
  <2> QED
    BY <1>3, <2>1, <2>3 DEF JobInv
<1>5. ASSUME NEW p \in PageRequests, ListJobs(p)
      PROVE  JobInv'
  <2>1. page' = [page EXCEPT ![p] = [page[p] EXCEPT !.at = "remove", !.listed = jobs]]
        /\ jobs' = jobs /\ jobs \in SUBSET (Triggers \cup {System})
    BY <1>5 DEF ListJobs, JobInv
  <2> DEFINE row == [page[p] EXCEPT !.at = "remove", !.listed = jobs]
  <2>4. row \in Page
    BY <1>a, <1>b, <2>1
  <2>2. row \in Page /\ row.at = "remove"
    BY <1>a, <1>e, <2>4
  <2>3. page' \in [PageRequests -> Page] /\ page'[p].at = "remove"
    BY <1>a, <2>1, <2>2
  <2> QED
    BY <1>3, <2>1, <2>3
<1>6. ASSUME NEW p \in PageRequests, RemoveJobs(p)
      PROVE  JobInv'
  <2>1. page' = [page EXCEPT ![p] = [page[p] EXCEPT !.at = "read"]]
        /\ jobs' \subseteq Triggers \cup {System}
    BY <1>6 DEF RemoveJobs, JobInv
  <2>2. [page[p] EXCEPT !.at = "read"] \in Page /\ [page[p] EXCEPT !.at = "read"].at = "read"
    BY <1>a, <1>b, <1>e
  <2>3. page' \in [PageRequests -> Page] /\ page'[p].at = "read"
    BY <1>a, <2>1, <2>2
  <2> QED
    BY <1>3, <2>1, <2>3
<1>7. ASSUME NEW p \in PageRequests, RemoveFails(p)
      PROVE  JobInv'
  <2>1. /\ jobs' \subseteq Triggers \cup {System} /\ drifted' = Triggers
        /\ page' = [page EXCEPT ![p] = Quiet] /\ UNCHANGED <<pilot, trigger>>
    BY <1>7 DEF RemoveFails, pilotRows, JobInv
  <2>2. Owed' = {}
    BY <2>1 DEF Owed, Synced
  <2> QED
    BY <1>a, <1>c, <2>1, <2>2 DEF JobInv
<1>8. ASSUME NEW p \in PageRequests, ReadTriggers(p)
      PROVE  JobInv'
  <2>1. /\ page' = [page EXCEPT ![p] = [page[p] EXCEPT !.at = "add", !.seen = Synced \cup {System}]]
        /\ UNCHANGED <<jobs, pilot, trigger, drifted>>
    BY <1>8 DEF ReadTriggers, pilotRows
  <2>2. Synced \cup {System} \in SUBSET (Triggers \cup {System})
    BY <1>d
  <2> DEFINE row == [page[p] EXCEPT !.at = "add", !.seen = Synced \cup {System}]
  <2>6. row \in Page
    BY <1>a, <1>b, <2>2
  <2>5. row \in Page /\ row.at = "add" /\ row.seen = Synced \cup {System}
    BY <1>a, <1>e, <2>6
  <2>3. page' \in [PageRequests -> Page] /\ page'[p].at = "add" /\ page'[p].seen = Synced \cup {System}
    BY <1>a, <2>1, <2>5
  <2>4. Owed' \subseteq Synced \cup {System}
    BY <2>1 DEF Owed, Synced, Scheduled
  <2> QED
    BY <2>1, <2>3, <2>4 DEF JobInv, Coming
<1>9. ASSUME NEW p \in PageRequests, AddJobs(p)
      PROVE  JobInv'
  <2>1. /\ page' = [page EXCEPT ![p] = Quiet] /\ jobs' = jobs \cup page[p].seen
        /\ UNCHANGED <<pilot, trigger, drifted>> /\ page[p].at = "add"
    BY <1>9 DEF AddJobs, pilotRows
  <2>2. page[p].seen \subseteq Triggers \cup {System}
    BY <1>a DEF Page
  <2>3. Owed' = Owed
    BY <2>1 DEF Owed, Synced, Scheduled
  <2>4. ASSUME NEW x \in Owed PROVE x \in jobs' \/ Coming(x)'
    <3>1. x \in jobs \/ Coming(x)
      BY DEF JobInv
    <3>2. ASSUME Coming(x), x \notin page[p].seen PROVE Coming(x)'
      BY <3>2, <1>a, <2>1 DEF Coming
    <3> QED
      BY <2>1, <3>1, <3>2
  <2> QED
    BY <1>a, <1>c, <2>1, <2>2, <2>3, <2>4 DEF JobInv
<1>10. CASE ServerRestart
  <2>1. /\ jobs' = Synced \cup {System} /\ page' = [p \in PageRequests |-> Quiet]
        /\ UNCHANGED <<pilot, trigger>>
    BY <1>10 DEF ServerRestart
  <2>2. Owed' \subseteq Synced \cup {System}
    BY <2>1 DEF Owed, Synced, Scheduled
  <2> QED
    BY <1>c, <1>d, <2>1, <2>2 DEF JobInv
<1>11. CASE UNCHANGED <<pilot, trigger, jobs, page, drifted>>
  BY <1>11, FiringJobs
<1>12. CASE UNCHANGED pilotVars
  BY <1>11, <1>12 DEF pilotVars
<1>13. ASSUME NEW f \in Firings,
              \/ \E by \in Triggers \cup {"hand"} : Fire(f, by)
              \/ Skip(f) \/ StartCreated(f) \/ ListTargets(f) \/ EndTarget(f) \/ EndFiring(f)
              \/ \E i \in Targets : CreateTarget(f, i) \/ RunTarget(f, i)
       PROVE  JobInv'
  BY <1>11, <1>13 DEF Fire, Skip, StartCreated, ListTargets, EndTarget, EndFiring,
                      CreateTarget, RunTarget, elsewhere
<1>14. ASSUME NEW i \in Targets,
              EndCreated(i) \/ \E status \in {"todo"} \cup OtherStatuses : MoveTarget(i, status)
       PROVE  JobInv'
  BY <1>11, <1>14 DEF EndCreated, MoveTarget, elsewhere, jobState
<1> QED
  BY <1>1, <1>2, <1>4, <1>5, <1>6, <1>7, <1>8, <1>9, <1>10, <1>12, <1>13, <1>14
     DEF AutopilotsNext

\* Whatever requests synchronize the jobs at the same time, no job that is due is missing when
\* they are done.
THEOREM JobsFollowTriggers == AutopilotsSpec => []TriggersHaveJobs
<1>1. JobInv => TriggersHaveJobs
  BY DEF JobInv, TriggersHaveJobs, Owed, Coming
<1> QED
  BY <1>1, JobInit, JobNext, PTL DEF AutopilotsSpec

Issues == OpenStatuses \cup OtherStatuses \cup {"none"}
Firing == [at : {"idle", "started", "created", "listed", "running"}, by : Triggers \cup {"hand"},
           todo : SUBSET Targets, current : Targets \cup {"none"}]

\* A firing works on an issue of the project from its list, or on the one it has created.
PilotInv ==
    /\ pilot \in [enabled : BOOLEAN, mode : {"filter", "create_issue"}, filter : BOOLEAN]
    /\ trigger \in [Triggers -> [state : {"none", "live", "deleted"}, enabled : BOOLEAN, type : {"cron", "webhook"}]]
    /\ firing \in [Firings -> Firing]
    /\ \A f \in Firings : firing[f].at \in {"created", "running"} => firing[f].current \in Targets
    /\ target \in [Targets -> Issues]
    /\ active \subseteq Targets /\ pilotEdits \in 0 .. MaxPilotEdits
    /\ drifted \subseteq Triggers

\* An autopilot at rest, a new trigger, and what an issue may become.
LEMMA PilotRows ==
    /\ Rest \in Firing /\ NoTrigger \in [state : {"none", "live", "deleted"}, enabled : BOOLEAN, type : {"cron", "webhook"}]
    /\ {"none", "todo", "in_progress", "in_review", "closed"} \subseteq Issues
BY DEF Rest, Firing, NoTrigger, Issues, OpenStatuses, OtherStatuses

\* The owner changes the autopilot, its triggers and its issues; the server is restarted.
LEMMA PilotOwned ==
    ASSUME PilotInv,
           \/ \E new \in [enabled : BOOLEAN, mode : {"filter", "create_issue"}, filter : {pilot.filter}] :
                UpdatePilot(new)
           \/ \E t \in Triggers :
                \/ \E row \in [state : {"live", "deleted"}, enabled : BOOLEAN, type : {"cron", "webhook"}] :
                     CommandTrigger(t, row)
                \/ \E p \in PageRequests : AddTrigger(p, t)
           \/ \E i \in Targets, status \in {"todo"} \cup OtherStatuses : MoveTarget(i, status)
           \/ ServerRestart
    PROVE  PilotInv'
<1>1. PilotEdit => pilotEdits' \in 0 .. MaxPilotEdits
  BY AutopilotsAssumption DEF PilotInv, PilotEdit
<1>2. ASSUME NEW new \in [enabled : BOOLEAN, mode : {"filter", "create_issue"}, filter : {pilot.filter}],
             UpdatePilot(new)
      PROVE  PilotInv'
  <2>1. /\ pilot' = new /\ drifted' \in {drifted, Triggers} /\ PilotEdit
        /\ UNCHANGED <<trigger, firing, target, active>>
    BY <1>2 DEF UpdatePilot, jobState, issueState
  <2>2. pilot' \in [enabled : BOOLEAN, mode : {"filter", "create_issue"}, filter : BOOLEAN]
    BY <1>2, <2>1 DEF PilotInv
  <2> QED
    BY <1>1, <2>1, <2>2 DEF PilotInv
<1>3. ASSUME NEW t \in Triggers, NEW row \in [state : {"none", "live", "deleted"}, enabled : BOOLEAN, type : {"cron", "webhook"}],
             trigger' = [trigger EXCEPT ![t] = row], drifted' \subseteq drifted \cup {t}, PilotEdit,
             UNCHANGED <<pilot, firing, target, active>>
      PROVE  PilotInv'
  BY <1>1, <1>3 DEF PilotInv
<1>4. ASSUME NEW t \in Triggers, NEW row \in [state : {"live", "deleted"}, enabled : BOOLEAN, type : {"cron", "webhook"}],
             CommandTrigger(t, row)
      PROVE  PilotInv'
  <2>1. row \in [state : {"none", "live", "deleted"}, enabled : BOOLEAN, type : {"cron", "webhook"}]
    BY <1>4
  <2> QED
    BY <1>3, <1>4, <2>1 DEF CommandTrigger, jobState, issueState
<1>5. ASSUME NEW t \in Triggers, NEW p \in PageRequests, AddTrigger(p, t) PROVE PilotInv'
  <2> DEFINE row == [NoTrigger EXCEPT !.state = "live"]
  <2>1. row \in [state : {"none", "live", "deleted"}, enabled : BOOLEAN, type : {"cron", "webhook"}]
    BY DEF NoTrigger
  <2>2. /\ trigger' = [trigger EXCEPT ![t] = row] /\ drifted' = drifted /\ PilotEdit
        /\ UNCHANGED <<pilot, firing, target, active>>
    BY <1>5 DEF AddTrigger, issueState
  <2> HIDE DEF row
  <2> QED
    BY <1>3, <2>1, <2>2
<1>6. ASSUME NEW i \in Targets, NEW status \in {"todo"} \cup OtherStatuses, MoveTarget(i, status) PROVE PilotInv'
  <2>1. status \in Issues
    BY PilotRows DEF Issues
  <2> QED
    BY <1>1, <1>6, <2>1 DEF MoveTarget, PilotInv, jobState
<1>7. CASE ServerRestart
  <2>1. firing' \in [Firings -> Firing] /\ \A f \in Firings : firing'[f].at = "idle"
    BY <1>7, PilotRows DEF ServerRestart, Rest
  <2> QED
    BY <1>1, <1>7, <2>1 DEF ServerRestart, PilotInv
<1> QED
  BY <1>2, <1>4, <1>5, <1>6, <1>7

\* A step of one firing.
LEMMA OneFiring ==
    ASSUME PilotInv, NEW f \in Firings, NEW row \in Firing, firing' = [firing EXCEPT ![f] = row],
           row.at \in {"created", "running"} => row.current \in Targets,
           target' \in [Targets -> Issues], active' \subseteq Targets,
           UNCHANGED <<pilot, trigger, pilotEdits, drifted>>
    PROVE  PilotInv'
BY DEF PilotInv

\* An issue is moved.
LEMMA IssueMoves ==
    ASSUME PilotInv, NEW i \in Targets, NEW status \in {"todo", "in_progress", "in_review"}
    PROVE  [target EXCEPT ![i] = status] \in [Targets -> Issues] /\ target \in [Targets -> Issues]
BY PilotRows DEF PilotInv

\* run_autopilot_once.
LEMMA PilotFires ==
    ASSUME PilotInv, NEW f \in Firings,
           \/ \E by \in Triggers \cup {"hand"} : Fire(f, by)
           \/ Skip(f) \/ StartCreated(f) \/ ListTargets(f) \/ EndTarget(f) \/ EndFiring(f)
           \/ \E i \in Targets : CreateTarget(f, i) \/ RunTarget(f, i)
    PROVE  PilotInv'
<1> DEFINE old == firing[f]
<1>1. /\ firing \in [Firings -> Firing] /\ old \in Firing /\ target \in [Targets -> Issues] /\ active \subseteq Targets
      /\ old.at \in {"created", "running"} => old.current \in Targets
      /\ Rest \in Firing /\ Rest.at = "idle"
  BY PilotRows DEF PilotInv, Rest
<1>2. UNCHANGED <<pilot, trigger, pilotEdits, drifted>>
  BY DEF Fire, Skip, StartCreated, ListTargets, EndTarget, EndFiring, CreateTarget, RunTarget, elsewhere
<1>3. ASSUME NEW by \in Triggers \cup {"hand"}, Fire(f, by) PROVE PilotInv'
  <2> DEFINE row == [Rest EXCEPT !.at = "started", !.by = by]
  <2>1. row \in Firing /\ row.at = "started"
    BY <1>1, <1>3 DEF Firing
  <2>2. firing' = [firing EXCEPT ![f] = row] /\ UNCHANGED <<target, active>>
    BY <1>3 DEF Fire, issueState
  <2> HIDE DEF row
  <2> QED
    BY <1>1, <1>2, <2>1, <2>2, OneFiring
<1>4. CASE Skip(f) \/ EndFiring(f)
  <2>1. firing' = [firing EXCEPT ![f] = Rest] /\ UNCHANGED <<target, active>>
    BY <1>4 DEF Skip, EndFiring, issueState
  <2> QED
    BY <1>1, <1>2, <2>1, OneFiring
<1>5. CASE StartCreated(f)
  <2>1. /\ firing' = [firing EXCEPT ![f] = Rest] /\ old.current \in Targets
        /\ target' \in {target, [target EXCEPT ![old.current] = "in_progress"]}
        /\ active' \subseteq active \cup {old.current}
    BY <1>1, <1>5 DEF StartCreated
  <2>2. target' \in [Targets -> Issues]
    BY <2>1, IssueMoves
  <2>3. active' \subseteq Targets
    BY <1>1, <2>1
  <2> QED
    BY <1>1, <1>2, <2>1, <2>2, <2>3, OneFiring
<1>6. CASE ListTargets(f)
  <2>1. PICK listed \in SUBSET Matching : firing' = [firing EXCEPT ![f].at = "listed", ![f].todo = listed]
    BY <1>6 DEF ListTargets
  <2>2. listed \subseteq Targets /\ UNCHANGED <<target, active>>
    BY <1>6 DEF Matching, ListTargets
  <2> DEFINE row == [old EXCEPT !.at = "listed", !.todo = listed]
  <2>3. firing' = [firing EXCEPT ![f] = row]
    BY <1>1, <2>1 DEF Firing
  <2>4. row \in Firing /\ row.at = "listed"
    BY <1>1, <2>2 DEF Firing
  <2> HIDE DEF row
  <2> QED
    BY <1>1, <1>2, <2>2, <2>3, <2>4, OneFiring
<1>7. CASE EndTarget(f)
  <2> DEFINE row == [old EXCEPT !.at = "listed", !.current = "none"]
             i == old.current
  <2>1. /\ i \in Targets /\ active' = active \ {i}
        /\ target' \in {target, [target EXCEPT ![i] = "in_review"]}
        /\ firing' = [firing EXCEPT ![f].at = "listed", ![f].current = "none"]
    BY <1>1, <1>7 DEF EndTarget
  <2>2. firing' = [firing EXCEPT ![f] = row]
    BY <1>1, <2>1 DEF Firing
  <2>3. row \in Firing /\ row.at = "listed"
    BY <1>1 DEF Firing
  <2> HIDE DEF row
  <2>4. target' \in [Targets -> Issues]
    BY <2>1, IssueMoves
  <2> QED
    BY <1>1, <1>2, <2>1, <2>2, <2>3, <2>4, OneFiring
<1>8. ASSUME NEW i \in Targets, CreateTarget(f, i) PROVE PilotInv'
  <2> DEFINE row == [old EXCEPT !.at = "created", !.current = i]
  <2>1. /\ target' = [target EXCEPT ![i] = "todo"] /\ active' = active
        /\ firing' = [firing EXCEPT ![f].at = "created", ![f].current = i]
    BY <1>8 DEF CreateTarget
  <2>2. firing' = [firing EXCEPT ![f] = row]
    BY <1>1, <2>1 DEF Firing
  <2>3. row \in Firing /\ row.current = i
    BY <1>1 DEF Firing
  <2> HIDE DEF row
  <2> QED
    BY <1>1, <1>2, <2>1, <2>2, <2>3, OneFiring, IssueMoves
<1>9. ASSUME NEW i \in Targets, RunTarget(f, i) PROVE PilotInv'
  <2> DEFINE at == IF i \in active THEN "listed" ELSE "running"
             current == IF i \in active THEN "none" ELSE i
             row == [old EXCEPT !.todo = old.todo \ {i}, !.at = at, !.current = current]
  <2>1. /\ firing' = [firing EXCEPT ![f].todo = old.todo \ {i}, ![f].at = at, ![f].current = current]
        /\ target' \in {target, [target EXCEPT ![i] = "in_progress"]} /\ active' = active \cup {i}
    BY <1>1, <1>9 DEF RunTarget
  <2>2. at \in {"listed", "running"} /\ current \in Targets \cup {"none"} /\ (at = "running" => current \in Targets)
    OBVIOUS
  <2> HIDE DEF at, current
  <2>3. firing' = [firing EXCEPT ![f] = row]
    BY <1>1, <2>1 DEF Firing
  <2>4. row \in Firing /\ row.at = at /\ row.current = current
    BY <1>1, <2>2 DEF Firing
  <2> HIDE DEF row
  <2>5. target' \in [Targets -> Issues]
    BY <2>1, IssueMoves
  <2>6. active' \subseteq Targets
    BY <1>1, <2>1
  <2>7. row.at \in {"created", "running"} => row.current \in Targets
    BY <2>2, <2>4
  <2> QED
    BY <1>2, <2>3, <2>4, <2>5, <2>6, <2>7, OneFiring
<1> QED
  BY <1>3, <1>4, <1>5, <1>6, <1>7, <1>8, <1>9

\* Type correctness: a firing moves nothing but issues of the autopilot's project.
THEOREM AutopilotsTypeCorrect == AutopilotsSpec => []AutopilotsTypeOK
<1>1. ASSUME AutopilotsInit PROVE PilotInv
  <2>1. /\ pilot \in [enabled : {TRUE}, mode : {"filter", "create_issue"}, filter : BOOLEAN]
        /\ target \in [Targets -> {"none", "todo"}]
    BY <1>1 DEF AutopilotsInit
  <2>3. pilot \in [enabled : BOOLEAN, mode : {"filter", "create_issue"}, filter : BOOLEAN]
    BY <2>1
  <2>4. target \in [Targets -> Issues]
    BY <2>1, PilotRows
  <2>2. firing \in [Firings -> Firing] /\ \A f \in Firings : firing[f].at = "idle"
    BY <1>1, PilotRows DEF AutopilotsInit, Rest
  <2> QED
    BY <1>1, <2>2, <2>3, <2>4, PilotRows, AutopilotsAssumption DEF AutopilotsInit, PilotInv
<1>2. ASSUME PilotInv, AutopilotsNext PROVE PilotInv'
  <2>1. CASE \E p \in PageRequests :
               ListJobs(p) \/ RemoveJobs(p) \/ RemoveFails(p) \/ ReadTriggers(p) \/ AddJobs(p)
    <3>1. UNCHANGED <<pilot, trigger, firing, target, active, pilotEdits>> /\ drifted' \in {drifted, Triggers}
      BY <2>1 DEF ListJobs, RemoveJobs, RemoveFails, ReadTriggers, AddJobs, pilotRows, issueState
    <3> QED
      BY <1>2, <3>1 DEF PilotInv
  <2>2. ASSUME NEW i \in Targets, EndCreated(i) PROVE PilotInv'
    <3>1. /\ UNCHANGED <<pilot, trigger, firing, pilotEdits, drifted>> /\ active' = active \ {i}
          /\ target' \in {target, [target EXCEPT ![i] = "in_review"]}
      BY <2>2 DEF EndCreated, elsewhere
    <3> QED
      BY <1>2, <3>1, IssueMoves DEF PilotInv
  <2> QED
    BY <1>2, <2>1, <2>2, PilotOwned, PilotFires DEF AutopilotsNext
<1>3. PilotInv /\ UNCHANGED pilotVars => PilotInv'
  BY DEF pilotVars, PilotInv
<1>4. PilotInv /\ JobInv => AutopilotsTypeOK
  BY DEF PilotInv, JobInv, Page, Firing, Issues, AutopilotsTypeOK
<1> QED
  BY <1>1, <1>2, <1>3, <1>4, JobInit, JobNext, PTL DEF AutopilotsSpec

-----------------------------------------------------------------------------
(* Shared memory *)

\* What a session is.
Session == [at : {"idle", "saving", "storing", "marking", "updating", "forgetting"},
            scope : Scopes, todo : Seq(Contents), item : 0 .. MaxMemories, copy : MemoryRow,
            found : 0 .. MaxMemories, match : MemoryRow]

\* What a session has loaded was a row then, and rows are never removed; what it found to say
\* the same was active.
Loaded(s) ==
    /\ s.at \in {"saving", "storing"} => s.todo # <<>>
    /\ s.at = "updating" => s.todo # <<>>
    /\ s.at \in {"marking", "updating", "forgetting"} => s.item # 0
    /\ s.item # 0 => s.copy.status # "none" /\ s.copy.content \in Contents
    /\ s.at = "storing" /\ s.found # 0 => s.match.status = "active" /\ s.match.content \in Contents
    /\ s.at = "marking" => s.found # 0 /\ s.match.status = "active"

MemoryTypes ==
    /\ memory \in [Memories -> MemoryRow]
    /\ revisions \in [Memories -> SUBSET Contents]
    /\ held \in [Memories -> SUBSET Contents]
    /\ enabled \in BOOLEAN
    /\ session \in [MemoryClients -> Session]
    /\ memoryOps \in 0 .. MaxMemoryOps
    /\ toggles \in 0 .. MaxToggles
    /\ raced \subseteq Memories

\* Rows and sessions agree.
RowsStay ==
    /\ \A m \in Memories : memory[m].status # "none" => memory[m].content \in Contents
    /\ \A m \in Memories : memory[m].status = "superseded" <=>
                              memory[m].by # 0 /\ memory[m].status # "deleted"
    /\ \A c \in MemoryClients : Loaded(session[c])
    /\ \A c \in MemoryClients : session[c].item # 0 =>
         /\ memory[session[c].item].status # "none"
         /\ session[c].copy.status = "superseded" =>
              memory[session[c].item].status \in {"superseded", "deleted"}
    /\ \A c \in MemoryClients : session[c].at = "storing" /\ session[c].found # 0 =>
         memory[session[c].found].status # "none"

MemoryInv == MemoryTypes /\ RowsStay /\ AuditKeepsContents /\ SupersededIsReplaced

\* At first there is no memory, and no session works on one.
LEMMA MemoryStart == MemoryInit => MemoryInv
<1> SUFFICES ASSUME MemoryInit PROVE MemoryInv
  OBVIOUS
<1>1. NoMemory \in MemoryRow /\ NoMemory.status = "none" /\ NoMemory.by = 0 /\ NoMemory.content = "none"
  BY MemoryAssumption DEF NoMemory, MemoryRow, Scopes
<1>2. Idle \in Session /\ Loaded(Idle) /\ Idle.item = 0 /\ Idle.at = "idle"
  <2>1. <<>> \in Seq(Contents) /\ "global" \in Scopes /\ 0 \in 0 .. MaxMemories
    BY MemoryAssumption DEF Scopes
  <2> QED
    BY <1>1, <2>1 DEF Idle, Session, Loaded
<1>3. MemoryTypes
  BY <1>1, <1>2, MemoryAssumption DEF MemoryInit, MemoryTypes
<1>4. RowsStay
  BY <1>1, <1>2 DEF MemoryInit, RowsStay
<1>5. AuditKeepsContents
  BY DEF MemoryInit, AuditKeepsContents
<1>6. SupersededIsReplaced
  BY <1>1 DEF MemoryInit, SupersededIsReplaced
<1> QED
  BY <1>3, <1>4, <1>5, <1>6 DEF MemoryInv

\* A step that changes a session and perhaps adds revisions.
LEMMA SessionStep ==
    ASSUME MemoryInv, NEW c \in MemoryClients, NEW state \in Session,
           session' = [session EXCEPT ![c] = state], Loaded(state),
           state.item # 0 => /\ memory[state.item].status # "none"
                             /\ state.copy.status = "superseded" =>
                                  memory[state.item].status \in {"superseded", "deleted"},
           state.at = "storing" /\ state.found # 0 => memory[state.found].status # "none",
           UNCHANGED <<memory, held, enabled, toggles>>, memoryOps' \in 0 .. MaxMemoryOps,
           revisions' \in [Memories -> SUBSET Contents],
           \A m \in Memories : revisions[m] \subseteq revisions'[m],
           raced \subseteq raced', raced' \subseteq Memories
    PROVE  MemoryInv'
<1>a. MemoryTypes /\ RowsStay /\ AuditKeepsContents /\ SupersededIsReplaced
  BY DEF MemoryInv
<1>1. /\ session' \in [MemoryClients -> Session] /\ session'[c] = state
      /\ \A d \in MemoryClients \ {c} : session'[d] = session[d]
  BY <1>a DEF MemoryTypes
<1>2. MemoryTypes'
  BY <1>a, <1>1 DEF MemoryTypes
<1>3. RowsStay'
  BY <1>a, <1>1 DEF RowsStay
<1>4. AuditKeepsContents'
  BY <1>a DEF AuditKeepsContents
<1>5. SupersededIsReplaced'
  BY <1>a DEF SupersededIsReplaced
<1> QED
  BY <1>2, <1>3, <1>4, <1>5 DEF MemoryInv

\* The values of a session and of a row that hold nothing.
LEMMA IdleState ==
    /\ Idle \in Session /\ Loaded(Idle) /\ Idle.item = 0 /\ Idle.at = "idle" /\ Idle.found = 0
    /\ Idle.copy = NoMemory /\ Idle.match = NoMemory
    /\ NoMemory \in MemoryRow /\ NoMemory.status = "none" /\ NoMemory.by = 0
<1>1. NoMemory \in MemoryRow /\ NoMemory.status = "none" /\ NoMemory.by = 0
  BY MemoryAssumption DEF NoMemory, MemoryRow, Scopes
<1>2. <<>> \in Seq(Contents) /\ "global" \in Scopes /\ 0 \in 0 .. MaxMemories
  BY MemoryAssumption DEF Scopes
<1> QED
  BY <1>1, <1>2 DEF Idle, Session, Loaded

\* What callers ask for: something to remember.
LEMMA AskedToSave ==
    ASSUME MemoryInv, NEW c \in MemoryClients, NEW scope \in Scopes,
           NEW todo \in Seq(Contents), todo # <<>>,
           Begin(c, [Idle EXCEPT !.at = "saving", !.scope = scope, !.todo = todo]),
           UNCHANGED <<memory, revisions, enabled, toggles, held, raced>>
    PROVE  MemoryInv'
<1> DEFINE state == [Idle EXCEPT !.at = "saving", !.scope = scope, !.todo = todo]
<1>1. state \in Session /\ state.at = "saving" /\ state.item = 0 /\ state.found = 0 /\ state.todo = todo
  BY IdleState DEF Session
<1>2. Loaded(state)
  <2> HIDE DEF state
  <2> QED
    BY <1>1 DEF Loaded
<1>3. session' = [session EXCEPT ![c] = state] /\ memoryOps' \in 0 .. MaxMemoryOps
  BY MemoryAssumption DEF Begin, MemoryInv, MemoryTypes
<1>4. revisions' \in [Memories -> SUBSET Contents] /\ raced' \subseteq Memories
  BY DEF MemoryInv, MemoryTypes
<1> HIDE DEF state
<1> QED
  BY <1>1, <1>2, <1>3, <1>4, SessionStep

\* Something to change.
LEMMA AskedToChange ==
    ASSUME MemoryInv, NEW c \in MemoryClients, NEW m \in Memories, memory[m].status # "none",
           NEW state \in Session, state.at \in {"saving", "updating", "forgetting"},
           state.at # "forgetting" => state.todo # <<>>,
           state.item = m, state.copy = memory[m],
           Begin(c, state),
           UNCHANGED <<memory, revisions, enabled, toggles, held, raced>>
    PROVE  MemoryInv'
<1>1. memory[m].content \in Contents /\ m # 0
  BY MemoryAssumption DEF MemoryInv, MemoryTypes, RowsStay, Memories
<1>2. Loaded(state)
  BY <1>1 DEF Loaded
<1>3. session' = [session EXCEPT ![c] = state] /\ memoryOps' \in 0 .. MaxMemoryOps
  BY MemoryAssumption DEF Begin, MemoryInv, MemoryTypes
<1>4. revisions' \in [Memories -> SUBSET Contents] /\ raced' \subseteq Memories
  BY DEF MemoryInv, MemoryTypes
<1> QED
  BY <1>1, <1>2, <1>3, <1>4, SessionStep

\* What a session does when a fact is in a row.
LEMMA Stored ==
    ASSUME MemoryTypes, NEW c \in MemoryClients, session[c].at = "storing", Loaded(session[c]),
           NEW m \in Memories, NEW row \in MemoryRow, row.status = "active",
           AfterStored(c, m, row)
    PROVE  \E state \in Session :
             /\ session' = [session EXCEPT ![c] = state] /\ Loaded(state)
             /\ state.at # "storing"
             /\ state.item # 0 => state.item = session[c].item /\ state.copy = session[c].copy
<1> DEFINE s == session[c]
           more == [s EXCEPT !.at = "saving", !.todo = Tail(s.todo), !.found = 0, !.match = NoMemory]
           mark == [s EXCEPT !.at = "marking", !.found = m, !.match = row]
<1>1. s \in Session /\ s.todo \in Seq(Contents) /\ s.todo # <<>>
  BY DEF MemoryTypes, Session, Loaded
<1>2. session' = [session EXCEPT ![c] = IF Len(s.todo) > 1 THEN more ELSE IF s.item # 0 THEN mark ELSE Idle]
  BY DEF AfterStored
<1>3. CASE Len(s.todo) > 1
  <2>1. Tail(s.todo) \in Seq(Contents) /\ Len(Tail(s.todo)) = Len(s.todo) - 1 /\ Len(s.todo) \in Nat
    <3>1. \A t \in Seq(Contents) : t # <<>> =>
            Tail(t) \in Seq(Contents) /\ Len(Tail(t)) = Len(t) - 1 /\ Len(t) \in Nat
      BY HeadTailProperties
    <3> QED
      BY <1>1, <3>1
  <2>2. Tail(s.todo) # <<>>
    <3> SUFFICES ASSUME Tail(s.todo) = <<>> PROVE FALSE
      OBVIOUS
    <3>1. Len(<<>>) = 0
      OBVIOUS
    <3>2. Len(s.todo) - 1 = 0
      BY <2>1, <3>1, Zenon
    <3>3. Len(s.todo) \in Nat
      BY <1>1
    <3> QED
      BY <1>3, <3>2, <3>3
  <2>3. /\ more \in Session /\ more.at = "saving" /\ more.todo = Tail(s.todo) /\ more.found = 0
        /\ more.item = s.item /\ more.copy = s.copy
    BY <1>1, <2>1, IdleState, MemoryAssumption DEF Session
  <2>4. Loaded(more)
    <3> HIDE DEF more
    <3> QED
      BY <2>2, <2>3 DEF Loaded
  <2>5. session' = [session EXCEPT ![c] = more]
    BY <1>2, <1>3
  <2> HIDE DEF more
  <2> QED
    BY <2>3, <2>4, <2>5
<1>4. CASE ~(Len(s.todo) > 1) /\ s.item # 0
  <2>1. /\ mark \in Session /\ mark.at = "marking" /\ mark.found = m /\ mark.match = row
        /\ mark.item = s.item /\ mark.copy = s.copy /\ m # 0
    <3>1. m \in 0 .. MaxMemories /\ m # 0
      BY MemoryAssumption DEF Memories
    <3> QED
      BY <1>1, <3>1 DEF Session
  <2>2. Loaded(mark)
    <3> HIDE DEF mark
    <3> QED
      BY <1>4, <2>1 DEF Loaded
  <2>3. session' = [session EXCEPT ![c] = mark]
    BY <1>2, <1>4
  <2> HIDE DEF mark
  <2> QED
    BY <2>1, <2>2, <2>3
<1>5. CASE ~(Len(s.todo) > 1) /\ s.item = 0
  <2>1. session' = [session EXCEPT ![c] = Idle]
    BY <1>2, <1>5
  <2> QED
    BY <2>1, IdleState
<1> QED
  BY <1>3, <1>4, <1>5

\* A change of one row: what it was is in a revision, or it was changed by others meanwhile.
LEMMA RowChanged ==
    ASSUME MemoryInv, NEW c \in MemoryClients, NEW m \in Memories, NEW row \in MemoryRow,
           NEW old \in Contents, session' = [session EXCEPT ![c] = Idle],
           memory' = [memory EXCEPT ![m] = row],
           revisions' = [revisions EXCEPT ![m] = revisions[m] \cup {old}],
           held' \in [Memories -> SUBSET Contents],
           held'[m] \subseteq held[m] \cup {row.content},
           \A k \in Memories \ {m} : held'[k] = held[k],
           raced \subseteq raced', raced' \subseteq Memories,
           m \notin raced' => old = memory[m].content,
           row.status # "none", row.content \in Contents,
           row.status = "superseded" <=> row.by # 0 /\ row.status # "deleted",
           memory[m].status \in {"superseded", "deleted"} => row.status \in {"superseded", "deleted"},
           UNCHANGED <<enabled, memoryOps, toggles>>,
           SupersededIsReplaced'
    PROVE  MemoryInv'
<1>a. MemoryTypes /\ RowsStay /\ AuditKeepsContents /\ SupersededIsReplaced
  BY DEF MemoryInv
<1>1. /\ session' \in [MemoryClients -> Session] /\ session'[c] = Idle
      /\ \A d \in MemoryClients \ {c} : session'[d] = session[d]
  BY <1>a, IdleState DEF MemoryTypes
<1>2. /\ memory' \in [Memories -> MemoryRow] /\ memory'[m] = row
      /\ \A k \in Memories \ {m} : memory'[k] = memory[k]
  BY <1>a DEF MemoryTypes
<1>3. /\ revisions' \in [Memories -> SUBSET Contents]
      /\ revisions'[m] = revisions[m] \cup {old}
      /\ \A k \in Memories \ {m} : revisions'[k] = revisions[k]
  BY <1>a DEF MemoryTypes
<1>4. MemoryTypes'
  BY <1>a, <1>1, <1>2, <1>3 DEF MemoryTypes
<1>5. RowsStay'
  <2>1. \A k \in Memories : memory'[k].status # "none" => memory'[k].content \in Contents
    BY <1>a, <1>2 DEF RowsStay
  <2>2. \A k \in Memories : memory'[k].status = "superseded" <=>
                              memory'[k].by # 0 /\ memory'[k].status # "deleted"
    BY <1>a, <1>2 DEF RowsStay
  <2>3. \A d \in MemoryClients : Loaded(session'[d])
    BY <1>a, <1>1, IdleState DEF RowsStay
  <2>4. \A k \in Memories : /\ memory[k].status # "none" => memory'[k].status # "none"
                            /\ memory[k].status \in {"superseded", "deleted"} =>
                                 memory'[k].status \in {"superseded", "deleted"}
    BY <1>2
  <2>5. ASSUME NEW d \in MemoryClients, session'[d].item # 0
        PROVE  /\ memory'[session'[d].item].status # "none"
               /\ session'[d].copy.status = "superseded" =>
                    memory'[session'[d].item].status \in {"superseded", "deleted"}
    <3>1. d # c /\ session'[d] = session[d]
      BY <1>1, <2>5, IdleState
    <3>2. session[d].item \in Memories
      <4>1. session[d] \in Session
        BY <1>a DEF MemoryTypes
      <4> QED
        BY <2>5, <3>1, <4>1, MemoryAssumption DEF Session, Memories
    <3> QED
      BY <1>a, <2>4, <2>5, <3>1, <3>2 DEF RowsStay
  <2>6. ASSUME NEW d \in MemoryClients, session'[d].at = "storing", session'[d].found # 0
        PROVE  memory'[session'[d].found].status # "none"
    <3>1. d # c /\ session'[d] = session[d]
      BY <1>1, <2>6, IdleState
    <3>2. session[d].found \in Memories
      <4>1. session[d] \in Session
        BY <1>a DEF MemoryTypes
      <4> QED
        BY <2>6, <3>1, <4>1, MemoryAssumption DEF Session, Memories
    <3> QED
      BY <1>a, <2>4, <2>6, <3>1, <3>2 DEF RowsStay
  <2> QED
    BY <2>1, <2>2, <2>3, <2>5, <2>6 DEF RowsStay
<1>6. AuditKeepsContents'
  <2> SUFFICES ASSUME NEW k \in Memories \ raced'
               PROVE  held'[k] \subseteq revisions'[k] \cup {memory'[k].content}
    BY DEF AuditKeepsContents
  <2>1. held[k] \subseteq revisions[k] \cup {memory[k].content}
    BY <1>a DEF AuditKeepsContents
  <2>2. CASE k = m
    BY <1>2, <1>3, <2>1, <2>2
  <2>3. CASE k # m
    BY <1>2, <1>3, <2>1, <2>3
  <2> QED
    BY <2>2, <2>3
<1> QED
  BY <1>4, <1>5, <1>6 DEF MemoryInv

\* A chain of replacements that has not raced does not close: a row is replaced by one that was
\* active then.
LEMMA NothingLost ==
    ASSUME MemoryInv, NEW m \in Memories,
           \A k \in Memories \ {m} : memory'[k] = memory[k],
           raced \subseteq raced',
           memory'[m].status = "superseded" /\ memory'[m].by \in Memories /\ memory'[m].by # m
             /\ memory'[m].by \notin raced' /\ memory'[m] # memory[m]
             => \/ memory[memory'[m].by].status = "active"
                \/ memory[m].status = "superseded" /\ memory'[m].by = memory[m].by
    PROVE  SupersededIsReplaced'
<1> SUFFICES ASSUME NEW C \in SUBSET {k \in Memories : memory'[k].status = "superseded"}, C # {},
                    \A k \in C : memory'[k].by \in C,
                    \A k \in C : memory'[k].by # k /\ k \notin raced'
             PROVE  FALSE
  BY DEF SupersededIsReplaced
<1>1. /\ C \subseteq Memories /\ \A k \in C : memory'[k].status = "superseded"
      /\ \A k \in C : k \notin raced
  OBVIOUS
<1>2. ASSUME \A k \in C : memory[k].status = "superseded" /\ memory[k].by = memory'[k].by
      PROVE  FALSE
  <2>1. C \in SUBSET {k \in Memories : memory[k].status = "superseded"}
    BY <1>1, <1>2
  <2>2. SupersededIsReplaced
    BY DEF MemoryInv
  <2>3. \A k \in C : memory[k].by \in C /\ memory[k].by # k
    BY <1>2
  <2> QED
    BY <1>1, <2>1, <2>2, <2>3 DEF SupersededIsReplaced
<1>3. CASE m \notin C \/ memory'[m] = memory[m]
  BY <1>1, <1>2, <1>3
<1>4. CASE m \in C /\ memory'[m] # memory[m]
  <2> DEFINE f == memory'[m].by
  <2>1. f \in C /\ f # m /\ f \notin raced' /\ memory'[f].status = "superseded" /\ memory'[f] = memory[f]
    BY <1>1, <1>4
  <2>2. memory[m].status = "superseded" /\ f = memory[m].by
    BY <1>1, <1>4, <2>1
  <2> QED
    BY <1>1, <1>2, <2>2
<1> QED
  BY <1>3, <1>4

\* The steps of remember.
LEMMA SavingKept ==
    ASSUME MemoryInv, NEW c \in MemoryClients, LookUp(c) \/ Refused(c) \/ ClientEnds(c) \/ Merge(c)
    PROVE  MemoryInv'
<1>a. MemoryTypes /\ RowsStay /\ session[c] \in Session /\ Loaded(session[c])
  BY DEF MemoryInv, MemoryTypes, RowsStay
<1>b. /\ memoryOps \in 0 .. MaxMemoryOps /\ revisions \in [Memories -> SUBSET Contents]
      /\ raced \subseteq Memories
  BY <1>a DEF MemoryTypes
<1>1. CASE Refused(c) \/ ClientEnds(c)
  <2>1. /\ session' = [session EXCEPT ![c] = Idle]
        /\ UNCHANGED <<memory, revisions, enabled, memoryOps, toggles, held, raced>>
    BY <1>1 DEF Refused, ClientEnds
  <2> QED
    BY <1>b, <2>1, IdleState, SessionStep
<1>2. CASE LookUp(c)
  <2> DEFINE same == Duplicates(c, Head(session[c].todo))
  <2>1. PICK found \in IF same = {} THEN {0} ELSE same :
          session' = [session EXCEPT ![c].at = "storing", ![c].found = found,
                        ![c].match = IF found = 0 THEN NoMemory ELSE memory[found]]
    BY <1>2, Zenon DEF LookUp
  <2>2. /\ UNCHANGED <<memory, revisions, enabled, memoryOps, toggles, held, raced>>
        /\ session[c].at = "saving"
    BY <1>2 DEF LookUp
  <2>3. found = 0 \/ (found \in Memories /\ memory[found].status = "active")
    BY <2>1 DEF Duplicates
  <2> DEFINE match == IF found = 0 THEN NoMemory ELSE memory[found]
             state == [session[c] EXCEPT !.at = "storing", !.found = found, !.match = match]
  <2>4. match \in MemoryRow /\ (found # 0 => match.status = "active" /\ match.content \in Contents)
    BY <1>a, <2>3, IdleState DEF MemoryTypes, RowsStay
  <2>5. found \in 0 .. MaxMemories
    BY <2>3, MemoryAssumption DEF Memories
  <2> HIDE DEF match, same
  <2>6. /\ state \in Session /\ state.at = "storing" /\ state.found = found /\ state.match = match
        /\ state.item = session[c].item /\ state.copy = session[c].copy /\ state.todo = session[c].todo
    BY <1>a, <2>4, <2>5 DEF Session
  <2>7. session' = [session EXCEPT ![c] = state]
    BY <2>1 DEF match
  <2> HIDE DEF state
  <2>8. Loaded(state)
    BY <1>a, <2>2, <2>4, <2>6 DEF Loaded
  <2>9. state.item # 0 => /\ memory[state.item].status # "none"
                          /\ state.copy.status = "superseded" =>
                               memory[state.item].status \in {"superseded", "deleted"}
    BY <1>a, <2>6 DEF RowsStay
  <2>10. state.at = "storing" /\ state.found # 0 => memory[state.found].status # "none"
    BY <2>3, <2>6
  <2> QED
    BY <1>b, <2>2, <2>6, <2>7, <2>8, <2>9, <2>10, SessionStep
<1>3. CASE Merge(c)
  <2> DEFINE m == session[c].found
             match == session[c].match
  <2>1. /\ session[c].at = "storing" /\ m # 0
        /\ revisions' = [revisions EXCEPT ![m] = revisions[m] \cup {match.content}]
        /\ raced' = IF Changed(m, match) THEN raced \cup {m} ELSE raced
        /\ AfterStored(c, m, match)
        /\ UNCHANGED <<memory, enabled, memoryOps, toggles, held>>
    BY <1>3 DEF Merge
  <2>2. m \in Memories /\ match \in MemoryRow
    BY <1>a, <2>1, MemoryAssumption DEF Session, Memories
  <2>3. match.status = "active" /\ match.content \in Contents
    BY <1>a, <2>1 DEF Loaded
  <2>4. PICK state \in Session :
             /\ session' = [session EXCEPT ![c] = state] /\ Loaded(state)
             /\ state.at # "storing"
             /\ state.item # 0 => state.item = session[c].item /\ state.copy = session[c].copy
    BY <1>a, <2>1, <2>2, <2>3, Stored
  <2>5. state.item # 0 => /\ memory[state.item].status # "none"
                          /\ state.copy.status = "superseded" =>
                               memory[state.item].status \in {"superseded", "deleted"}
    BY <1>a, <2>4 DEF RowsStay
  <2>6. /\ revisions' \in [Memories -> SUBSET Contents]
        /\ \A k \in Memories : revisions[k] \subseteq revisions'[k]
        /\ raced \subseteq raced' /\ raced' \subseteq Memories /\ memoryOps' \in 0 .. MaxMemoryOps
    BY <1>b, <2>1, <2>2, <2>3
  <2> QED
    BY <2>1, <2>4, <2>5, <2>6, SessionStep
<1> QED
  BY <1>1, <1>2, <1>3

\* What a session that holds a row knows of it.
LEMMA HeldRow ==
    ASSUME MemoryInv, NEW c \in MemoryClients, session[c].at \in {"marking", "updating", "forgetting"}
    PROVE  LET m == session[c].item
               copy == session[c].copy
           IN  /\ m \in Memories /\ memory[m] \in MemoryRow /\ memory[m].status # "none"
               /\ memory[m].content \in Contents
               /\ copy \in MemoryRow /\ copy.content \in Contents
               /\ memory[m].status = "superseded" <=> memory[m].by # 0 /\ memory[m].status # "deleted"
               /\ copy.status = "superseded" => memory[m].status \in {"superseded", "deleted"}
<1>a. MemoryTypes /\ RowsStay /\ session[c] \in Session /\ Loaded(session[c])
  BY DEF MemoryInv, MemoryTypes, RowsStay
<1> DEFINE m == session[c].item
<1>1. m # 0 /\ m \in 0 .. MaxMemories /\ session[c].copy \in MemoryRow /\ session[c].copy.content \in Contents
  BY <1>a DEF Session, Loaded
<1>2. m \in Memories
  BY <1>1, MemoryAssumption DEF Memories
<1> QED
  BY <1>a, <1>1, <1>2 DEF MemoryTypes, RowsStay

\* The commits of update and forget.
LEMMA WriteKept ==
    ASSUME MemoryInv, NEW c \in MemoryClients, session[c].at \in {"updating", "forgetting"},
           NEW row \in MemoryRow, row.content \in Contents,
           Write(c, row), row.by = memory[session[c].item].by,
           row.status \in {memory[session[c].item].status, "deleted"},
           UNCHANGED <<enabled, memoryOps, toggles>>
    PROVE  MemoryInv'
<1>1. PICK m \in Memories : m = session[c].item
  BY HeldRow
<1>2. PICK copy \in MemoryRow : copy = session[c].copy
  BY HeldRow
<1>3. /\ memory[m] \in MemoryRow /\ memory[m].status # "none" /\ copy.content \in Contents
      /\ memory[m].status = "superseded" <=> memory[m].by # 0 /\ memory[m].status # "deleted"
      /\ row.by = memory[m].by /\ row.status \in {memory[m].status, "deleted"}
  BY <1>1, <1>2, HeldRow
<1>4. /\ memory' = [memory EXCEPT ![m] = row]
      /\ revisions' = [revisions EXCEPT ![m] = revisions[m] \cup {copy.content}]
      /\ held' = [held EXCEPT ![m] = held[m] \cup {row.content}]
      /\ raced' = IF Changed(m, copy) THEN raced \cup {m} ELSE raced
      /\ session' = [session EXCEPT ![c] = Idle]
  BY <1>1, <1>2 DEF Write
<1>5. /\ held' \in [Memories -> SUBSET Contents]
      /\ held'[m] \subseteq held[m] \cup {row.content}
      /\ \A k \in Memories \ {m} : held'[k] = held[k] /\ memory'[k] = memory[k]
      /\ raced \subseteq raced' /\ raced' \subseteq Memories /\ memory'[m] = row
  BY <1>4 DEF MemoryInv, MemoryTypes
<1>6. m \notin raced' => copy.content = memory[m].content
  BY <1>4 DEF Changed
<1>7. SupersededIsReplaced'
  BY <1>3, <1>5, NothingLost
<1>8. /\ row.status # "none"
      /\ row.status = "superseded" <=> row.by # 0 /\ row.status # "deleted"
      /\ memory[m].status \in {"superseded", "deleted"} => row.status \in {"superseded", "deleted"}
  BY <1>3
<1> QED
  BY <1>3, <1>4, <1>5, <1>6, <1>7, <1>8, RowChanged

\* _mark_superseded writes to a row what it found when it was active.
LEMMA MarkingKept ==
    ASSUME MemoryInv, NEW c \in MemoryClients, MarkSuperseded(c)
    PROVE  MemoryInv'
<1>a. session[c].at = "marking" /\ session[c] \in Session /\ Loaded(session[c])
  BY DEF MarkSuperseded, MemoryInv, MemoryTypes, RowsStay
<1>1. PICK m \in Memories : m = session[c].item
  BY <1>a, HeldRow
<1>2. PICK copy \in MemoryRow : copy = session[c].copy
  BY <1>a, HeldRow
<1>3. /\ memory[m] \in MemoryRow /\ memory[m].status # "none" /\ copy.content \in Contents
      /\ memory[m].content \in Contents
      /\ copy.status = "superseded" => memory[m].status \in {"superseded", "deleted"}
  BY <1>a, <1>1, <1>2, HeldRow
<1>4. PICK found \in Memories : found = session[c].found /\ found # 0
  BY <1>a, MemoryAssumption DEF Loaded, Session, Memories
<1>5. PICK match \in MemoryRow : match = session[c].match /\ match.status = "active"
  BY <1>a DEF Loaded, Session
<1> DEFINE row == [memory[m] EXCEPT !.by = found,
                     !.status = IF copy.status = "superseded" THEN memory[m].status ELSE "superseded"]
<1>6. /\ memory' = [memory EXCEPT ![m] = row]
      /\ revisions' = [revisions EXCEPT ![m] = revisions[m] \cup {copy.content}]
      /\ raced' = raced \cup {k \in {m} : Changed(m, copy)} \cup {k \in {found} : Changed(found, match)}
      /\ session' = [session EXCEPT ![c] = Idle]
      /\ UNCHANGED <<enabled, memoryOps, toggles, held>>
  <2>1. /\ revisions' = [revisions EXCEPT ![m] = revisions[m] \cup {copy.content}]
        /\ raced' = raced \cup {k \in {m} : Changed(m, copy)} \cup {k \in {found} : Changed(found, match)}
        /\ session' = [session EXCEPT ![c] = Idle]
        /\ UNCHANGED <<enabled, memoryOps, toggles, held>>
    BY <1>1, <1>2, <1>4, <1>5 DEF MarkSuperseded
  <2>2. memory' = [memory EXCEPT ![m].by = found,
                     ![m].status = IF copy.status = "superseded" THEN memory[m].status ELSE "superseded"]
    BY <1>1, <1>2, <1>4 DEF MarkSuperseded
  <2> QED
    BY <2>1, <2>2
<1>7. /\ row \in MemoryRow /\ row.by = found /\ row.content = memory[m].content
      /\ row.status = IF copy.status = "superseded" THEN memory[m].status ELSE "superseded"
  <2>1. found \in 0 .. MaxMemories
    BY MemoryAssumption DEF Memories
  <2> QED
    BY <1>3, <2>1 DEF MemoryRow
<1> HIDE DEF row
<1>8. /\ held' \in [Memories -> SUBSET Contents] /\ held'[m] \subseteq held[m] \cup {row.content}
      /\ \A k \in Memories \ {m} : held'[k] = held[k] /\ memory'[k] = memory[k]
      /\ raced \subseteq raced' /\ raced' \subseteq Memories /\ memory'[m] = row
  BY <1>6 DEF MemoryInv, MemoryTypes
<1>9. m \notin raced' => copy.content = memory[m].content
  BY <1>6 DEF Changed
<1>10. found \notin raced' => memory[found].status = "active"
  BY <1>5, <1>6 DEF Changed
<1>11. SupersededIsReplaced'
  BY <1>7, <1>8, <1>10, NothingLost
<1>12. /\ row.status \in {"superseded", "deleted"}
       /\ row.status = "superseded" <=> row.by # 0 /\ row.status # "deleted"
  BY <1>3, <1>4, <1>7
<1> QED
  BY <1>3, <1>6, <1>7, <1>8, <1>9, <1>11, <1>12, RowChanged

\* A new row replaces nothing, and nobody has loaded it.
LEMMA StoringKept ==
    ASSUME MemoryInv, NEW c \in MemoryClients, StoreNew(c)
    PROVE  MemoryInv'
<1>a. /\ MemoryTypes /\ RowsStay /\ AuditKeepsContents
      /\ session[c].at = "storing" /\ session[c] \in Session /\ Loaded(session[c])
      /\ UNCHANGED <<enabled, memoryOps, toggles, raced>>
  BY DEF StoreNew, MemoryInv, MemoryTypes, RowsStay
<1> DEFINE fact == Head(session[c].todo)
           row == [NoMemory EXCEPT !.status = "active", !.content = fact, !.scope = session[c].scope]
<1>1. PICK m \in Memories :
        /\ memory[m].status = "none"
        /\ memory' = [memory EXCEPT ![m] = row] /\ revisions' = [revisions EXCEPT ![m] = {fact}]
        /\ held' = [held EXCEPT ![m] = {fact}] /\ AfterStored(c, m, memory'[m])
  BY DEF StoreNew
<1>2. fact \in Contents
  <2>1. session[c].todo \in Seq(Contents) /\ session[c].todo # <<>>
    BY <1>a DEF Session, Loaded
  <2> QED
    BY <2>1
<1> HIDE DEF fact
<1>3. row \in MemoryRow /\ row.status = "active" /\ row.content = fact /\ row.by = 0
  <2>1. session[c].scope \in Scopes
    BY <1>a DEF Session
  <2> QED
    BY <1>2, <2>1, MemoryAssumption, IdleState DEF MemoryRow, NoMemory
<1> HIDE DEF row
<1>4. /\ memory' \in [Memories -> MemoryRow] /\ memory'[m] = row
      /\ \A k \in Memories \ {m} : memory'[k] = memory[k]
      /\ revisions' \in [Memories -> SUBSET Contents] /\ revisions'[m] = {fact}
      /\ \A k \in Memories \ {m} : revisions'[k] = revisions[k]
      /\ held' \in [Memories -> SUBSET Contents] /\ held'[m] = {fact}
      /\ \A k \in Memories \ {m} : held'[k] = held[k]
  BY <1>a, <1>1, <1>2, <1>3 DEF MemoryTypes
<1>5. PICK state \in Session :
         /\ session' = [session EXCEPT ![c] = state] /\ Loaded(state)
         /\ state.at # "storing"
         /\ state.item # 0 => state.item = session[c].item /\ state.copy = session[c].copy
  BY <1>a, <1>1, <1>3, <1>4, Stored
<1>6. /\ session' \in [MemoryClients -> Session] /\ session'[c] = state
      /\ \A d \in MemoryClients \ {c} : session'[d] = session[d]
  BY <1>a, <1>5 DEF MemoryTypes
<1>7. MemoryTypes'
  BY <1>a, <1>4, <1>6 DEF MemoryTypes
<1>8. RowsStay'
  <2>1. \A k \in Memories : memory'[k].status # "none" => memory'[k].content \in Contents
    BY <1>a, <1>2, <1>3, <1>4 DEF RowsStay
  <2>2. \A k \in Memories : memory'[k].status = "superseded" <=>
                              memory'[k].by # 0 /\ memory'[k].status # "deleted"
    BY <1>a, <1>3, <1>4 DEF RowsStay
  <2>3. \A d \in MemoryClients : Loaded(session'[d])
    BY <1>a, <1>5, <1>6 DEF RowsStay
  <2>4. \A k \in Memories : memory[k].status # "none" => memory'[k] = memory[k]
    BY <1>1, <1>4
  <2>5. ASSUME NEW d \in MemoryClients, NEW k \in Memories, session'[d].item = k
        PROVE  session[d].item = k /\ session'[d].copy = session[d].copy
    <3>1. k # 0
      BY MemoryAssumption DEF Memories
    <3> QED
      BY <1>5, <1>6, <2>5, <3>1
  <2>6. ASSUME NEW d \in MemoryClients, session'[d].item # 0
        PROVE  /\ memory'[session'[d].item].status # "none"
               /\ session'[d].copy.status = "superseded" =>
                    memory'[session'[d].item].status \in {"superseded", "deleted"}
    <3>1. session'[d].item \in Memories
      <4>1. session'[d] \in Session
        BY <1>6
      <4> QED
        BY <2>6, <4>1, MemoryAssumption DEF Session, Memories
    <3>2. PICK k \in Memories : k = session'[d].item
      BY <3>1
    <3>3. session[d].item = k /\ session'[d].copy = session[d].copy /\ k # 0
      BY <2>5, <2>6, <3>2
    <3>4. /\ memory[k].status # "none"
          /\ session[d].copy.status = "superseded" => memory[k].status \in {"superseded", "deleted"}
      BY <1>a, <3>3 DEF RowsStay
    <3> QED
      BY <2>4, <3>2, <3>3, <3>4
  <2>7. ASSUME NEW d \in MemoryClients, session'[d].at = "storing", session'[d].found # 0
        PROVE  memory'[session'[d].found].status # "none"
    <3>1. d # c /\ session'[d] = session[d]
      BY <1>5, <1>6, <2>7
    <3>2. session[d].found \in Memories
      <4>1. session[d] \in Session
        BY <1>a DEF MemoryTypes
      <4> QED
        BY <2>7, <3>1, <4>1, MemoryAssumption DEF Session, Memories
    <3> QED
      BY <1>a, <2>4, <2>7, <3>1, <3>2 DEF RowsStay
  <2> QED
    BY <2>1, <2>2, <2>3, <2>6, <2>7 DEF RowsStay
<1>9. AuditKeepsContents'
  <2> SUFFICES ASSUME NEW k \in Memories \ raced'
               PROVE  held'[k] \subseteq revisions'[k] \cup {memory'[k].content}
    BY DEF AuditKeepsContents
  <2>1. held[k] \subseteq revisions[k] \cup {memory[k].content}
    BY <1>a DEF AuditKeepsContents
  <2> QED
    BY <1>4, <2>1
<1>10. SupersededIsReplaced'
  BY <1>a, <1>3, <1>4, NothingLost
<1> QED
  BY <1>7, <1>8, <1>9, <1>10 DEF MemoryInv

\* What callers ask for.
LEMMA AskingKept ==
    ASSUME MemoryInv, NEW c \in MemoryClients, NEW s \in Scopes,
           \/ \E f \in Facts : \/ AskRemember(c, s, f)
                               \/ \E g \in Facts : FinishMemorySession(c, s, f, g)
           \/ \E from \in Scopes : AskImport(c, from, s)
           \/ \E m \in Memories : \/ AskForget(c, s, m)
                                  \/ \E f \in Facts : AskUpdate(c, s, m, f) \/ AskSupersede(c, s, m, f)
    PROVE  MemoryInv'
<1>a. memory \in [Memories -> MemoryRow] /\ \A m \in Memories : memory[m].status # "none" => memory[m].content \in Contents
  BY DEF MemoryInv, MemoryTypes, RowsStay
<1>1. \A f, g \in Facts : /\ <<f>> \in Seq(Contents) /\ <<f>> # <<>>
                          /\ <<f, g>> \in Seq(Contents) /\ <<f, g>> # <<>>
  BY DEF Contents
<1>2. ASSUME NEW f \in Facts, AskRemember(c, s, f) PROVE MemoryInv'
  <2>1. <<f>> \in Seq(Contents) /\ <<f>> # <<>>
    BY <1>1
  <2> QED
    BY <1>2, <2>1, AskedToSave DEF AskRemember
<1>3. ASSUME NEW f \in Facts, NEW g \in Facts, FinishMemorySession(c, s, f, g) PROVE MemoryInv'
  <2>1. <<f, g>> \in Seq(Contents) /\ <<f, g>> # <<>>
    BY <1>1
  <2> QED
    BY <1>3, <2>1, AskedToSave DEF FinishMemorySession
<1>4. ASSUME NEW from \in Scopes, AskImport(c, from, s) PROVE MemoryInv'
  <2> DEFINE n == Cardinality(Export(from))
  <2>1. /\ Export(from) \subseteq Memories /\ Export(from) # {}
        /\ \A m \in Export(from) : memory[m].content \in Contents
    BY <1>4, <1>a DEF AskImport, Export, Owned
  <2>2. IsFiniteSet(Memories)
    BY MemoryAssumption, FS_Interval DEF Memories
  <2>3. n \in Nat /\ n # 0
    BY <2>1, <2>2, FS_Subset, FS_CardinalityType, FS_EmptySet
  <2>4. PICK order \in [1 .. n -> Export(from)] :
          Begin(c, [Idle EXCEPT !.at = "saving", !.scope = s,
                                !.todo = [i \in DOMAIN order |-> memory[order[i]].content]])
    BY <1>4 DEF AskImport
  <2> DEFINE todo == [i \in DOMAIN order |-> memory[order[i]].content]
  <2>5. DOMAIN order = 1 .. n /\ \A i \in 1 .. n : order[i] \in Export(from)
    OBVIOUS
  <2> HIDE DEF n
  <2>6. todo \in Seq(Contents) /\ Len(todo) = n
    BY <2>1, <2>3, <2>5
  <2>7. todo # <<>>
    BY <2>3, <2>6
  <2>8. UNCHANGED <<memory, revisions, enabled, toggles, held, raced>>
    BY <1>4 DEF AskImport
  <2>9. Begin(c, [Idle EXCEPT !.at = "saving", !.scope = s, !.todo = todo])
    BY <2>4
  <2> HIDE DEF todo
  <2> QED
    BY <2>6, <2>7, <2>8, <2>9, AskedToSave
<1>b. \A m \in Memories : memory[m] \in MemoryRow /\ m \in 0 .. MaxMemories
  BY <1>a, MemoryAssumption DEF Memories
<1>5. ASSUME NEW m \in Memories, AskForget(c, s, m) PROVE MemoryInv'
  <2> DEFINE state == [Idle EXCEPT !.at = "forgetting", !.scope = s, !.item = m, !.copy = memory[m]]
  <2>1. /\ Begin(c, state) /\ memory[m].status # "none"
        /\ UNCHANGED <<memory, revisions, enabled, toggles, held, raced>>
    BY <1>5 DEF AskForget, Owned
  <2>2. state \in Session /\ state.at = "forgetting" /\ state.item = m /\ state.copy = memory[m]
    BY <1>b, IdleState DEF Session
  <2> HIDE DEF state
  <2> QED
    BY <2>1, <2>2, AskedToChange
<1>6. ASSUME NEW m \in Memories, NEW f \in Facts, AskUpdate(c, s, m, f) PROVE MemoryInv'
  <2> DEFINE state == [Idle EXCEPT !.at = "updating", !.scope = s, !.todo = <<f>>, !.item = m, !.copy = memory[m]]
  <2>1. <<f>> \in Seq(Contents) /\ <<f>> # <<>>
    BY <1>1
  <2>2. /\ Begin(c, state) /\ memory[m].status # "none"
        /\ UNCHANGED <<memory, revisions, enabled, toggles, held, raced>>
    BY <1>6 DEF AskUpdate, Owned
  <2>3. /\ state \in Session /\ state.at = "updating" /\ state.item = m /\ state.copy = memory[m]
        /\ state.todo = <<f>>
    BY <1>b, <2>1, IdleState DEF Session
  <2> HIDE DEF state
  <2> QED
    BY <2>1, <2>2, <2>3, AskedToChange
<1>7. ASSUME NEW m \in Memories, NEW f \in Facts, AskSupersede(c, s, m, f) PROVE MemoryInv'
  <2> DEFINE state == [Idle EXCEPT !.at = "saving", !.scope = s, !.todo = <<f>>, !.item = m, !.copy = memory[m]]
  <2>1. <<f>> \in Seq(Contents) /\ <<f>> # <<>>
    BY <1>1
  <2>2. /\ Begin(c, state) /\ memory[m].status # "none"
        /\ UNCHANGED <<memory, revisions, enabled, toggles, held, raced>>
    BY <1>7 DEF AskSupersede, Owned
  <2>3. /\ state \in Session /\ state.at = "saving" /\ state.item = m /\ state.copy = memory[m]
        /\ state.todo = <<f>>
    BY <1>b, <2>1, IdleState DEF Session
  <2> HIDE DEF state
  <2> QED
    BY <2>1, <2>2, <2>3, AskedToChange
<1> QED
  BY <1>2, <1>3, <1>4, <1>5, <1>6, <1>7

\* Every step keeps the invariant.
LEMMA MemoryKept == MemoryInv /\ [MemoryNext]_memoryVars => MemoryInv'
<1> SUFFICES ASSUME MemoryInv, [MemoryNext]_memoryVars PROVE MemoryInv'
  OBVIOUS
<1>1. ASSUME NEW c \in MemoryClients, CommitUpdate(c) PROVE MemoryInv'
  <2> DEFINE m == session[c].item
             fact == Head(session[c].todo)
             row == [memory[m] EXCEPT !.content = IF fact = session[c].copy.content THEN memory[m].content ELSE fact]
  <2>1. /\ session[c].at = "updating" /\ Write(c, row)
        /\ UNCHANGED <<enabled, memoryOps, toggles>>
    BY <1>1 DEF CommitUpdate
  <2>2. /\ memory[m] \in MemoryRow /\ memory[m].content \in Contents
    BY <2>1, HeldRow
  <2>3. fact \in Contents
    <3>1. session[c].todo \in Seq(Contents) /\ session[c].todo # <<>>
      BY <2>1 DEF MemoryInv, MemoryTypes, RowsStay, Session, Loaded
    <3> QED
      BY <3>1
  <2> HIDE DEF fact
  <2>4. row \in MemoryRow /\ row.content \in Contents /\ row.by = memory[m].by /\ row.status = memory[m].status
    BY <2>2, <2>3 DEF MemoryRow
  <2> HIDE DEF row
  <2> QED
    BY <2>1, <2>4, WriteKept
<1>2. ASSUME NEW c \in MemoryClients, CommitForget(c) PROVE MemoryInv'
  <2>1. CASE session[c].copy.status = "deleted"
    <3>1. /\ session' = [session EXCEPT ![c] = Idle]
          /\ UNCHANGED <<memory, revisions, enabled, memoryOps, toggles, held, raced>>
      BY <1>2, <2>1 DEF CommitForget
    <3>2. /\ memoryOps' \in 0 .. MaxMemoryOps /\ revisions' \in [Memories -> SUBSET Contents]
          /\ raced' \subseteq Memories
      BY <3>1 DEF MemoryInv, MemoryTypes
    <3> QED
      BY <3>1, <3>2, IdleState, SessionStep
  <2>2. CASE session[c].copy.status # "deleted"
    <3> DEFINE m == session[c].item
               row == [memory[m] EXCEPT !.status = "deleted", !.content = "[forgotten]"]
    <3>1. /\ session[c].at = "forgetting" /\ Write(c, row)
          /\ UNCHANGED <<enabled, memoryOps, toggles>>
      BY <1>2, <2>2 DEF CommitForget
    <3>2. memory[m] \in MemoryRow /\ "[forgotten]" \in Contents
      BY <3>1, HeldRow DEF Contents
    <3>3. row \in MemoryRow /\ row.content \in Contents /\ row.by = memory[m].by /\ row.status = "deleted"
      BY <3>2 DEF MemoryRow
    <3> HIDE DEF row
    <3> QED
      BY <3>1, <3>3, WriteKept
  <2> QED
    BY <2>1, <2>2
<1>3. CASE SaveMemorySettings \/ UNCHANGED memoryVars
  <2>1. UNCHANGED <<memory, revisions, session, memoryOps, held, raced>>
    BY <1>3 DEF SaveMemorySettings, memoryVars
  <2>2. enabled' \in BOOLEAN /\ toggles' \in 0 .. MaxToggles
    <3>1. CASE SaveMemorySettings
      <4>1. enabled' = ~enabled /\ toggles < MaxToggles /\ toggles' = toggles + 1 /\ toggles \in 0 .. MaxToggles
        BY <3>1 DEF SaveMemorySettings, MemoryInv, MemoryTypes
      <4>2. enabled' \in BOOLEAN
        BY <4>1
      <4> QED
        BY <4>1, <4>2, MemoryAssumption
    <3>2. CASE UNCHANGED memoryVars
      BY <3>2 DEF memoryVars, MemoryInv, MemoryTypes
    <3> QED
      BY <1>3, <3>1, <3>2
  <2> QED
    BY <2>1, <2>2 DEF MemoryInv, MemoryTypes, RowsStay, AuditKeepsContents, SupersededIsReplaced
<1> QED
  BY <1>1, <1>2, <1>3, AskingKept, SavingKept, StoringKept, MarkingKept DEF MemoryNext

\* Type correctness.
THEOREM MemoryTypeCorrect == MemorySpec => []MemoryTypeOK
<1>1. ASSUME MemoryInv PROVE MemoryTypeOK
  <2>1. ASSUME NEW c \in MemoryClients
        PROVE  /\ session[c].at \in {"idle", "saving", "storing", "marking", "updating", "forgetting"}
               /\ session[c].at \in {"saving", "storing"} => session[c].todo # <<>>
               /\ session[c].at \in {"marking", "updating", "forgetting"} => session[c].item \in Memories
    BY <1>1, HeldRow DEF MemoryInv, MemoryTypes, RowsStay, Loaded, Session
  <2> QED
    BY <1>1, <2>1 DEF MemoryInv, MemoryTypes, RowsStay, MemoryTypeOK
<1> QED
  BY <1>1, MemoryStart, MemoryKept, PTL DEF MemorySpec

\* The audit trail: whatever sessions work on stale rows, no content is lost from it.
THEOREM AuditsKeepContents == MemorySpec => []AuditKeepsContents
<1>1. MemoryInv => AuditKeepsContents
  BY DEF MemoryInv
<1> QED
  BY <1>1, MemoryStart, MemoryKept, PTL DEF MemorySpec

\* A superseded fact leads to the one that was stored for it.
THEOREM SupersededAreReplaced == MemorySpec => []SupersededIsReplaced
<1>1. MemoryInv => SupersededIsReplaced
  BY DEF MemoryInv
<1> QED
  BY <1>1, MemoryStart, MemoryKept, PTL DEF MemorySpec
=============================================================================
