---------------------------- MODULE Services_proofs ----------------------------
(***************************************************************************)
(* Proofs about the fourteen services taken together (MCServices).  Each   *)
(* run of the services looks at one component, named by the variable       *)
(* focus, and lets the others stand still.  The theorem that a behaviour   *)
(* of the whole is a behaviour of every component makes what is proved of  *)
(* a component, in Server_proofs, Agents_proofs and Issues_proofs, hold    *)
(* of the whole.                                                           *)
(***************************************************************************)
EXTENDS MCServices, Server_proofs, Agents_proofs, Issues_proofs

\* A behaviour of the services is one of each component: the component that is looked at takes its
\* own steps, and every other one stutters.
LEMMA ServicesRefine == ServicesSpec =>
    /\ ChatSpec
    /\ MemorySpec
    /\ AccountsSpec
    /\ LoginsSpec
    /\ ProvidersSpec
    /\ VerifierSpec
    /\ AutopilotsSpec
    /\ CommandsSpec
    /\ ConnectionsSpec
    /\ DelegationSpec
    /\ RoutingSpec
    /\ BoardSpec
    /\ MigrationSpec
    /\ AnnotationsSpec
<1>1. ServicesInit =>
        /\ ChatInit
        /\ MemoryInit
        /\ AccountsInit
        /\ LoginsInit
        /\ ProvidersInit
        /\ VerifierInit
        /\ AutopilotsInit
        /\ CommandsInit
        /\ ConnectionsInit
        /\ DelegationInit
        /\ RoutingInit
        /\ BoardInit
        /\ MigrationInit
        /\ AnnotationsInit
  BY DEF ServicesInit
<1>2. [ServicesNext]_serviceVars => [ChatNext]_chatVars
  BY DEF ServicesNext, Beside, serviceVars
<1>3. [ServicesNext]_serviceVars => [MemoryNext]_memoryVars
  BY DEF ServicesNext, Beside, serviceVars
<1>4. [ServicesNext]_serviceVars => [AccountsNext]_accountVars
  BY DEF ServicesNext, Beside, serviceVars
<1>5. [ServicesNext]_serviceVars => [LoginsNext]_loginVars
  BY DEF ServicesNext, Beside, serviceVars
<1>6. [ServicesNext]_serviceVars => [ProvidersNext]_providerVars
  BY DEF ServicesNext, Beside, serviceVars
<1>7. [ServicesNext]_serviceVars => [VerifierNext]_verifierVars
  BY DEF ServicesNext, Beside, serviceVars
<1>8. [ServicesNext]_serviceVars => [AutopilotsNext]_pilotVars
  BY DEF ServicesNext, Beside, serviceVars
<1>9. [ServicesNext]_serviceVars => [CommandsNext]_commandVars
  BY DEF ServicesNext, Beside, serviceVars
<1>10. [ServicesNext]_serviceVars => [ConnectionsNext]_connectionVars
  BY DEF ServicesNext, Beside, serviceVars
<1>11. [ServicesNext]_serviceVars => [DelegationNext]_delegationVars
  BY DEF ServicesNext, Beside, serviceVars
<1>12. [ServicesNext]_serviceVars => [RoutingNext]_routingVars
  BY DEF ServicesNext, Beside, serviceVars
<1>13. [ServicesNext]_serviceVars => [BoardNext]_boardVars
  BY DEF ServicesNext, Beside, serviceVars
<1>14. [ServicesNext]_serviceVars => [MigrationNext]_migrationVars
  BY DEF ServicesNext, Beside, serviceVars
<1>15. [ServicesNext]_serviceVars => [AnnotationsNext]_annotationVars
  BY DEF ServicesNext, Beside, serviceVars
<1> QED
  BY <1>1, <1>2, <1>3, <1>4, <1>5, <1>6, <1>7, <1>8, <1>9, <1>10, <1>11, <1>12, <1>13, <1>14, <1>15, PTL
     DEF ServicesSpec, ChatSpec, MemorySpec, AccountsSpec, LoginsSpec, ProvidersSpec, VerifierSpec, AutopilotsSpec, CommandsSpec, ConnectionsSpec, DelegationSpec, RoutingSpec, BoardSpec, MigrationSpec, AnnotationsSpec

\* Type correctness of all services: whichever component is looked at, its state is what its module
\* says.
THEOREM ServicesTypeCorrect == ServicesSpec => []ServicesTypeOK
<1> DEFINE TypesOK ==
            /\ ChatTypeOK
            /\ MemoryTypeOK
            /\ AccountsTypeOK
            /\ LoginsTypeOK
            /\ ProvidersTypeOK
            /\ VerifierTypeOK
            /\ AutopilotsTypeOK
            /\ CommandsTypeOK
            /\ ConnectionsTypeOK
            /\ DelegationTypeOK
            /\ RoutingTypeOK
            /\ BoardTypeOK
            /\ MigrationTypeOK
            /\ AnnotationsTypeOK
<1> DEFINE FocusOK == focus \in Components
<1>1. ServicesSpec => []TypesOK
  BY ServicesRefine, ChatTypeCorrect, MemoryTypeCorrect, AccountsTypeCorrect, LoginsTypeCorrect, ProvidersTypeCorrect,
     VerifierTypeCorrect, AutopilotsTypeCorrect, CommandsTypeCorrect, ConnectionsTypeCorrect, DelegationTypeCorrect,
     RoutingTypeCorrect, BoardTypeCorrect, MigrationTypeCorrect, AnnotationsTypeCorrect, PTL
<1>2. ServicesInit => FocusOK
  BY FocusAssumption DEF ServicesInit
<1>3. FocusOK /\ [ServicesNext]_serviceVars => FocusOK'
  BY DEF ServicesNext, Beside, serviceVars
<1>4. FocusOK /\ TypesOK => ServicesTypeOK
  BY DEF Components, ServicesTypeOK
<1> HIDE DEF TypesOK, FocusOK
<1>5. ServicesSpec => []FocusOK
  BY <1>2, <1>3, PTL DEF ServicesSpec
<1> QED
  BY <1>1, <1>4, <1>5, PTL

\* What the modules promise of their components holds of every behaviour of the services: turns of a
\* chat, audits and supersession of memories, revoked access, throttled logins, homes of agents, jobs
\* of triggers, command lines, OAuth states, reviews, budgets, spend caps, the board, upgrades and
\* lessons.
THEOREM ServicesKeepTheirPromises == ServicesSpec =>
    [](/\ OneTurnPerThread
       /\ AuditKeepsContents
       /\ SupersededIsReplaced
       /\ RevokedIsNoticed
       /\ FailuresBounded
       /\ HomeKept
       /\ TriggersHaveJobs
       /\ CommandsRunOnce
       /\ StateUsedOnce
       /\ ReworkBounded
       /\ BudgetKept
       /\ SpendCapKept
       /\ BoardConsistent
       /\ UpgradeIsSafe
       /\ LessonsOnRecord)
BY ServicesRefine, OneTurnAtATime, AuditsKeepContents, SupersededAreReplaced, Noticed, LoginsAreThrottled, HomesAreKept,
   JobsFollowTriggers, RunOnce, ClaimedOnce, ReworkEnds, BudgetIsKept, CapIsKept, BoardStaysConsistent, UpgradesAreSafe,
   LessonsAreOnRecord, PTL

================================================================================
