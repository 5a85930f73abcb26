----------------------------- MODULE MCServices -----------------------------
(***************************************************************************)
(* The services around the runs, one at a time.  The components below have  *)
(* no state in common, so their interleavings show nothing that each of     *)
(* them does not show alone: a behaviour picks one, which goes through its  *)
(* own next-state relation while the others stay as they began.             *)
(***************************************************************************)
EXTENDS Chat, SharedMemory, Accounts, Logins, Providers, Verifier, Autopilots, Commands,
        Connections, Delegation, Routing, Board, Migration, Annotations, TLC

CONSTANTS
    Focus,  \* the components a run looks at
    Pair    \* two model values

Components == {"chat", "memory", "accounts", "logins", "providers", "verifier", "autopilots", "commands",
               "connections", "delegation", "routing", "board", "migration", "annotations"}

ASSUME FocusAssumption == Focus \subseteq Components

VARIABLE focus

serviceVars == <<focus, chatVars, memoryVars, accountVars, loginVars, providerVars,
                 verifierVars, pilotVars, commandVars, connectionVars, delegationVars,
                 routingVars, boardVars, migrationVars, annotationVars>>

\* All components but one stay as they are.
Beside(component) ==
    /\ UNCHANGED focus
    /\ IF component = "chat" THEN TRUE ELSE UNCHANGED chatVars
    /\ IF component = "memory" THEN TRUE ELSE UNCHANGED memoryVars
    /\ IF component = "accounts" THEN TRUE ELSE UNCHANGED accountVars
    /\ IF component = "logins" THEN TRUE ELSE UNCHANGED loginVars
    /\ IF component = "providers" THEN TRUE ELSE UNCHANGED providerVars
    /\ IF component = "verifier" THEN TRUE ELSE UNCHANGED verifierVars
    /\ IF component = "autopilots" THEN TRUE ELSE UNCHANGED pilotVars
    /\ IF component = "commands" THEN TRUE ELSE UNCHANGED commandVars
    /\ IF component = "connections" THEN TRUE ELSE UNCHANGED connectionVars
    /\ IF component = "delegation" THEN TRUE ELSE UNCHANGED delegationVars
    /\ IF component = "routing" THEN TRUE ELSE UNCHANGED routingVars
    /\ IF component = "board" THEN TRUE ELSE UNCHANGED boardVars
    /\ IF component = "migration" THEN TRUE ELSE UNCHANGED migrationVars
    /\ IF component = "annotations" THEN TRUE ELSE UNCHANGED annotationVars

\* A component that is not looked at begins in one of its initial states.
ServicesInit ==
    /\ focus \in Focus
    /\ ChatInit /\ MemoryInit /\ AccountsInit /\ LoginsInit
    /\ ProvidersInit
    /\ focus # "providers" => \A a \in Agents : agent[a] = NoAgent
    /\ focus # "providers" => \A r \in Runtimes : runtime[r] = NoRow
    /\ VerifierInit
    /\ focus # "verifier" => gated /\ assignee = CHOOSE a \in Assignees : TRUE
    /\ AutopilotsInit
    /\ focus # "autopilots" => /\ pilot.filter /\ pilot.mode = "filter"
                               /\ \A i \in Targets : target[i] = "none"
    /\ CommandsInit /\ ConnectionsInit /\ DelegationInit /\ RoutingInit /\ BoardInit
    /\ MigrationInit /\ AnnotationsInit
    /\ focus # "migration" => db.plain
    /\ focus # "routing" => \A r \in Routes : price[r] = Nothing

ServicesNext ==
    \/ focus = "chat" /\ ChatNext /\ Beside("chat")
    \/ focus = "memory" /\ MemoryNext /\ Beside("memory")
    \/ focus = "accounts" /\ AccountsNext /\ Beside("accounts")
    \/ focus = "logins" /\ LoginsNext /\ Beside("logins")
    \/ focus = "providers" /\ ProvidersNext /\ Beside("providers")
    \/ focus = "verifier" /\ VerifierNext /\ Beside("verifier")
    \/ focus = "autopilots" /\ AutopilotsNext /\ Beside("autopilots")
    \/ focus = "commands" /\ CommandsNext /\ Beside("commands")
    \/ focus = "connections" /\ ConnectionsNext /\ Beside("connections")
    \/ focus = "delegation" /\ DelegationNext /\ Beside("delegation")
    \/ focus = "routing" /\ RoutingNext /\ Beside("routing")
    \/ focus = "board" /\ BoardNext /\ Beside("board")
    \/ focus = "migration" /\ MigrationNext /\ Beside("migration")
    \/ focus = "annotations" /\ AnnotationsNext /\ Beside("annotations")

ServicesSpec == ServicesInit /\ [][ServicesNext]_serviceVars

\* Two states differ if the components that are looked at do: the others never change.
LookedAt ==
    CASE focus = "chat" -> <<focus, chatVars>>
      [] focus = "memory" -> <<focus, memoryVars>>
      [] focus = "accounts" -> <<focus, accountVars>>
      [] focus = "logins" -> <<focus, loginVars>>
      [] focus = "providers" -> <<focus, providerVars>>
      [] focus = "verifier" -> <<focus, verifierVars>>
      [] focus = "autopilots" -> <<focus, pilotVars>>
      [] focus = "commands" -> <<focus, commandVars>>
      [] focus = "connections" -> <<focus, connectionVars>>
      [] focus = "delegation" -> <<focus, delegationVars>>
      [] focus = "routing" -> <<focus, routingVars>>
      [] focus = "board" -> <<focus, boardVars>>
      [] focus = "migration" -> <<focus, migrationVars>>
      [] focus = "annotations" -> <<focus, annotationVars>>

\* The members of Pair stand for the senders, the facts, the runtimes and so on: no definition
\* names one of them or prefers it, so of two states that differ in nothing else one will do.
Exchange == Permutations(Pair)

\* The state of the component that is looked at is what its module says.
ServicesTypeOK ==
    CASE focus = "chat" -> ChatTypeOK
      [] focus = "memory" -> MemoryTypeOK
      [] focus = "accounts" -> AccountsTypeOK
      [] focus = "logins" -> LoginsTypeOK
      [] focus = "providers" -> ProvidersTypeOK
      [] focus = "verifier" -> VerifierTypeOK
      [] focus = "autopilots" -> AutopilotsTypeOK
      [] focus = "commands" -> CommandsTypeOK
      [] focus = "connections" -> ConnectionsTypeOK
      [] focus = "delegation" -> DelegationTypeOK
      [] focus = "routing" -> RoutingTypeOK
      [] focus = "board" -> BoardTypeOK
      [] focus = "migration" -> MigrationTypeOK
      [] focus = "annotations" -> AnnotationsTypeOK
=============================================================================
