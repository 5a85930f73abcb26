---------------------------- MODULE RemoteCalls -----------------------------
(***************************************************************************)
(* What a runtime on a worker device promises to the engine                *)
(* (hagent/adapters/remote_worker.py): a call is performed at most once,   *)
(* its result is fixed when the worker has performed it, and the call      *)
(* returns normally only with a good result.  It may fail at any time, and *)
(* the worker may begin or go on after it has failed.                      *)
(***************************************************************************)
EXTENDS Naturals

CONSTANT Jobs

VARIABLES
    call,     \* what the caller of run() sees
    starts,   \* how often a worker began to perform the call
    result    \* what performing it gave

vars == <<call, starts, result>>

Init ==
    /\ call = [j \in Jobs |-> "none"]
    /\ starts = [j \in Jobs |-> 0]
    /\ result = [j \in Jobs |-> "none"]

Call(j) ==
    /\ call[j] = "none"
    /\ call' = [call EXCEPT ![j] = "waiting"]
    /\ UNCHANGED <<starts, result>>

Start(j) ==
    /\ call[j] # "none" /\ starts[j] = 0
    /\ starts' = [starts EXCEPT ![j] = 1]
    /\ UNCHANGED <<call, result>>

Perform(j, outcome) ==
    /\ starts[j] = 1 /\ result[j] = "none"
    /\ result' = [result EXCEPT ![j] = outcome]
    /\ UNCHANGED <<call, starts>>

Answer(j) ==
    /\ call[j] = "waiting" /\ result[j] = "good"
    /\ call' = [call EXCEPT ![j] = "answered"]
    /\ UNCHANGED <<starts, result>>

Fail(j) ==
    /\ call[j] = "waiting"
    /\ call' = [call EXCEPT ![j] = "failed"]
    /\ UNCHANGED <<starts, result>>

Next ==
    \E j \in Jobs :
        \/ Call(j) \/ Start(j) \/ Answer(j) \/ Fail(j)
        \/ \E outcome \in {"good", "bad"} : Perform(j, outcome)

Spec == Init /\ [][Next]_vars
=============================================================================
