---------------------------- MODULE MCDispatcher ----------------------------
(* Two runs of one agent on two issues, of the best and of a lower priority; the *)
(* agent takes one run at a time.                                                *)
EXTENDS Dispatcher, TLC

CONSTANTS urgent, low, coder, i1, i2

MCRuns == {urgent, low}
MCAgentOf == [r \in MCRuns |-> coder]
MCIssueOf == (urgent :> i1) @@ (low :> i2)
MCPriorityRank == (urgent :> 0) @@ (low :> 1)
MCLimits == [a \in {coder} |-> 1]
=============================================================================
