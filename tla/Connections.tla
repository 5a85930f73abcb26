----------------------------- MODULE Connections -----------------------------
(***************************************************************************)
(* Signing in to Google (hagent/connections_web.py, connections.py).  All   *)
(* that is known of a connection is one JSON cell of its row, and whoever   *)
(* changes a part of it writes the whole cell back from the copy it has     *)
(* read: the page of the owner, the callback of Google, and every run whose *)
(* tools renew the access token.  Google is modelled from how it is called. *)
(***************************************************************************)
EXTENDS Naturals

CONSTANTS
    Visits,    \* requests and tool calls that are served at the same time
    MaxFlows   \* bound: sign-ins that are begun

ASSUME ConnectionsAssumption == MaxFlows \in Nat

VARIABLES
    link,       \* the row of the connection: "none", "there", "gone"
    config,     \* its config_json
    visit,      \* op, at: where the request is; copy: the cell it has read; flow: the state it carries
    grants,     \* the sign-ins whose refresh token Google accepts
    claimed,    \* history: sign-ins whose state has been claimed,
    twice,      \*   more than once,
    restored    \*   and whose state a writer has put back afterwards

connectionVars == <<link, config, visit, grants, claimed, twice, restored>>

Flows == 1 .. MaxFlows
\* flow: the sign-in that is open; grant: the one its refresh token comes from; fresh: the access
\* token has not expired; tested: there is a last_test.
NewConfig == [flow |-> 0, connected |-> FALSE, grant |-> 0, fresh |-> FALSE, tested |-> FALSE]
Configs == [flow : Flows \cup {0}, connected : BOOLEAN, grant : Flows \cup {0}, fresh : BOOLEAN,
            tested : BOOLEAN]
NoVisit == [op |-> "none", at |-> "none", copy |-> NewConfig, flow |-> 0]

ConnectionsTypeOK ==
    /\ link \in {"none", "there", "gone"} /\ config \in Configs
    /\ \A v \in Visits :
         /\ visit[v].op \in {"none", "connect", "start", "callback", "test", "use", "disconnect"}
         /\ visit[v].at \in {"none", "read", "claimed", "exchanged", "called", "revoked"}
         /\ visit[v].copy \in Configs /\ visit[v].flow \in Flows \cup {0}
    /\ grants \subseteq claimed /\ twice \subseteq claimed /\ claimed \subseteq Flows
    /\ config.connected => config.grant # 0

ConnectionsInit ==
    /\ link = "none" /\ config = NewConfig
    /\ visit = [v \in Visits |-> NoVisit]
    /\ grants = {} /\ claimed = {} /\ twice = {} /\ restored = {}

Begun == {f \in Flows : f \in claimed \/ config.flow = f
                        \/ \E v \in Visits : f \in {visit[v].flow, visit[v].copy.flow}}

\* The UPDATE of the cell; it touches nothing if the row is gone.
WriteConfig(c) ==
    /\ config' = IF link = "there" THEN c ELSE config
    /\ restored' = restored \cup (IF link = "there" THEN {c.flow} \cap claimed ELSE {})

At(v, op, at) == visit[v].op = op /\ visit[v].at = at
GoTo(v, at, copy) == visit' = [visit EXCEPT ![v].at = at, ![v].copy = copy]
EndVisit(v) == visit' = [visit EXCEPT ![v] = NoVisit]

-----------------------------------------------------------------------------

\* create_connection, or connect_google if no unconnected row of the service is there.
CreateConnection ==
    /\ link = "none"
    /\ link' = "there"
    /\ UNCHANGED <<config, visit, grants, claimed, twice, restored>>

\* A request or a tool call loads the row.  connect_google takes an unconnected one; a tool of
\* an unconnected one fails and writes nothing; disconnect asks for the token only.
Open(v, op) ==
    /\ visit[v] = NoVisit /\ link = "there"
    /\ (op = "connect" => ~config.connected) /\ (op = "use" => config.connected)
    /\ visit' = [visit EXCEPT ![v] = [op |-> op, at |-> "read", flow |-> 0, copy |->
                    IF op = "disconnect" THEN [NewConfig EXCEPT !.grant = config.grant] ELSE config]]
    /\ UNCHANGED <<link, config, grants, claimed, twice, restored>>

\* connect_google puts the client secret in place of the credentials, then starts a sign-in.
ConnectGoogle(v) ==
    /\ At(v, "connect", "read")
    /\ WriteConfig([visit[v].copy EXCEPT !.grant = 0, !.fresh = FALSE])
    /\ visit' = [visit EXCEPT ![v] = IF link = "there" THEN [@ EXCEPT !.op = "start", !.copy = config']
                                     ELSE NoVisit]
    /\ UNCHANGED <<link, grants, claimed, twice>>

\* google_start leaves the hash of a new state in the cell and sends the browser to Google.
GoogleStart(v) ==
    /\ At(v, "start", "read")
    /\ \E f \in Flows \ Begun :
         /\ \A g \in Flows : g < f => g \in Begun
         /\ WriteConfig([visit[v].copy EXCEPT !.flow = f])
    /\ EndVisit(v)
    /\ UNCHANGED <<link, grants, claimed, twice>>

\* Google sends the browser back; anyone with the cookie may also send it again.
GoogleCallback(v) ==
    /\ visit[v] = NoVisit /\ link = "there" /\ config.flow # 0
    /\ visit' = [visit EXCEPT ![v] = [op |-> "callback", at |-> "read", copy |-> config, flow |-> config.flow]]
    /\ UNCHANGED <<link, config, grants, claimed, twice, restored>>

\* Fault: the state is removed whatever the cell holds by now.
Unclaimed_Always(v) == link = "there"

\* UPDATE ... WHERE config_json == original_config.
Unclaimed(v) == link = "there" /\ config = visit[v].copy

ClaimState(v) ==
    /\ At(v, "callback", "read")
    /\ LET f == visit[v].flow
           without == [visit[v].copy EXCEPT !.flow = 0]
       IN  IF Unclaimed(v)
           THEN /\ WriteConfig(without) /\ GoTo(v, "claimed", without)
                /\ claimed' = claimed \cup {f} /\ twice' = twice \cup ({f} \cap claimed)
           ELSE EndVisit(v) /\ UNCHANGED <<config, claimed, twice, restored>>
    /\ UNCHANGED <<link, grants>>

\* Google trades the code if consent was given and the scope was granted.
ExchangeCode(v) ==
    /\ At(v, "callback", "claimed")
    /\ LET f == visit[v].flow
       IN  \/ EndVisit(v) /\ UNCHANGED grants
           \/ /\ link = "there"
              /\ grants' = grants \cup {f}
              /\ GoTo(v, "exchanged", [visit[v].copy EXCEPT !.connected = TRUE, !.grant = f, !.fresh = TRUE])
    /\ UNCHANGED <<link, config, claimed, twice, restored>>

SaveTokens(v) ==
    /\ At(v, "callback", "exchanged")
    /\ WriteConfig(visit[v].copy) /\ EndVisit(v)
    /\ UNCHANGED <<link, grants, claimed, twice>>

-----------------------------------------------------------------------------
(* Using the tokens *)

\* google_token: an access token that has expired is renewed and saved with the whole cell.
GoogleToken(v) ==
    LET c == visit[v].copy
    IN  IF c.grant \in grants /\ ~c.fresh
        THEN LET renewed == [c EXCEPT !.fresh = TRUE]
             IN  WriteConfig(renewed) /\ GoTo(v, "called", renewed)
        ELSE GoTo(v, "called", c) /\ UNCHANGED <<config, restored>>

CallTool(v) ==
    /\ At(v, "use", "read")
    /\ GoogleToken(v)
    /\ UNCHANGED <<link, grants, claimed, twice>>

TestConnection(v) ==
    /\ At(v, "test", "read")
    /\ GoogleToken(v)
    /\ UNCHANGED <<link, grants, claimed, twice>>

\* The tool has answered; the row stays loaded for the next call of the run, or the run is over.
EndCall(v) ==
    /\ At(v, "use", "called")
    /\ \/ GoTo(v, "read", visit[v].copy)
       \/ EndVisit(v)
    /\ UNCHANGED <<link, config, grants, claimed, twice, restored>>

\* Whatever came of it, the page writes last_test into its copy and the copy into the row.
TestWrites(v) ==
    /\ At(v, "test", "called")
    /\ WriteConfig([visit[v].copy EXCEPT !.tested = TRUE]) /\ EndVisit(v)
    /\ UNCHANGED <<link, grants, claimed, twice>>

AccessTokenExpires ==
    /\ config.fresh \/ \E v \in Visits : visit[v].copy.fresh
    /\ config' = [config EXCEPT !.fresh = FALSE]
    /\ visit' = [v \in Visits |-> [visit[v] EXCEPT !.copy.fresh = FALSE]]
    /\ UNCHANGED <<link, grants, claimed, twice, restored>>

-----------------------------------------------------------------------------
(* Disconnecting *)

\* Google is asked to revoke what the copy holds; if it refuses nothing is removed.
Revoke(v) ==
    /\ At(v, "disconnect", "read")
    /\ LET g == visit[v].copy.grant
       IN  \/ g = 0 /\ GoTo(v, "revoked", visit[v].copy) /\ UNCHANGED grants
           \/ g \in grants /\ GoTo(v, "revoked", visit[v].copy) /\ grants' = grants \ {g}
           \/ g # 0 /\ EndVisit(v) /\ UNCHANGED grants
    /\ UNCHANGED <<link, config, claimed, twice, restored>>

Disconnect(v) ==
    /\ At(v, "disconnect", "revoked")
    /\ link' = "gone" /\ config' = NewConfig
    /\ EndVisit(v)
    /\ UNCHANGED <<grants, claimed, twice, restored>>

ConnectionsNext ==
    \/ CreateConnection \/ AccessTokenExpires
    \/ \E v \in Visits :
         \/ \E op \in {"connect", "start", "test", "use", "disconnect"} : Open(v, op)
         \/ ConnectGoogle(v) \/ GoogleStart(v) \/ GoogleCallback(v) \/ ClaimState(v)
         \/ ExchangeCode(v) \/ SaveTokens(v) \/ CallTool(v) \/ TestConnection(v) \/ EndCall(v)
         \/ TestWrites(v) \/ Revoke(v) \/ Disconnect(v)

ConnectionsSpec == ConnectionsInit /\ [][ConnectionsNext]_connectionVars

-----------------------------------------------------------------------------

\* "Claim the state atomically" (google_callback): two callbacks with the same state, or one and
\* a write of the page in between, let at most one of them trade its code.  A state is claimed
\* again only if a test or a tool call that had read the cell before has put it back.
StateUsedOnce == twice \subseteq restored
=============================================================================
