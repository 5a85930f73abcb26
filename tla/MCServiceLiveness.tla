------------------------- MODULE MCServiceLiveness --------------------------
(***************************************************************************)
(* What chat, failover and the verifier owe their owner in the end.  They   *)
(* have no state in common: a behaviour picks one of them and the others    *)
(* stay as they began, so that the fairness of each is the one its own      *)
(* module states.                                                           *)
(***************************************************************************)
EXTENDS Chat, Providers, Verifier

VARIABLE focus

livenessVars == <<focus, chatVars, providerVars, verifierVars>>

InChat(Step) == focus = "chat" /\ Step /\ UNCHANGED <<focus, providerVars, verifierVars>>
InProviders(Step) == focus = "providers" /\ Step /\ UNCHANGED <<focus, chatVars, verifierVars>>
InVerifier(Step) == focus = "verifier" /\ Step /\ UNCHANGED <<focus, chatVars, providerVars>>

LivenessInit ==
    /\ focus \in {"chat", "providers", "verifier"}
    /\ ChatInit /\ ProvidersInit /\ VerifierInit
    /\ focus # "verifier" => gated /\ assignee = CHOOSE a \in Assignees : TRUE
    /\ focus # "providers" => /\ agent = [a \in Agents |-> NoAgent]
                              /\ runtime = [r \in Runtimes |-> NoRow]

LivenessNext == InChat(ChatNext) \/ InProviders(ProvidersNext) \/ InVerifier(VerifierNext)

\* ChatFairSpec or ProvidersFairSpec, as the case may be.
LivenessSpec ==
    /\ LivenessInit /\ [][LivenessNext]_livenessVars
    /\ \A k \in Turns : WF_chatVars(InChat(TurnStep(k)))
    /\ WF_providerVars(InProviders(CheckStep))
    /\ \A r \in Runtimes : SF_providerVars(InProviders(ProbeSucceeds(r)))
=============================================================================
