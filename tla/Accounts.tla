------------------------------ MODULE Accounts ------------------------------
(***************************************************************************)
(* Accounts, tokens and the gate of the web server (hagent/auth.py).        *)
(*                                                                         *)
(* Accounts and tokens are rows that commands of other processes change;   *)
(* the server remembers for some seconds what it read of a token.           *)
(***************************************************************************)
EXTENDS Naturals, FiniteSets

CONSTANTS
    Users,          \* rows of users: a user that is created again is another row
    MaxTokens,      \* bound: rows of auth_tokens
    WebRequests,    \* requests that the server handles at a time
    Admins,         \* auth commands that run at a time
    CacheTTL,       \* _CACHE_TTL
    MaxClock        \* bound: the time that passes

ASSUME AccountsAssumption ==
    /\ {MaxTokens, MaxClock} \subseteq Nat
    /\ CacheTTL \in Nat \ {0}
    /\ IsFiniteSet(Users)

VARIABLES
    role,        \* the role of a user, "none" before the user is created, "gone" afterwards
    token,       \* the rows of auth_tokens
    tokenCache,  \* _token_cache: what the server knows of a token, and until when
    request,     \* what a request has read
    admin,       \* what a command has read
    clock,
    ended        \* history: when a token stopped being valid, NeverEnded before

accountVars == <<role, token, tokenCache, request, admin, clock, ended>>

Tokens == 1 .. MaxTokens
NeverEnded == MaxClock + 1
Kinds == {"api", "session"}
NoToken == [state |-> "none", user |-> "none", kind |-> "api"]
NotCached == [ok |-> FALSE, until |-> 0]
NoWebRequest == [at |-> "idle", token |-> 0, user |-> "none", since |-> 0, ok |-> FALSE]
NoCommand == [at |-> "idle", user |-> "none"]

AccountsTypeOK ==
    /\ role \in [Users -> {"none", "owner", "member", "gone"}]
    /\ token \in [Tokens -> [state : {"none", "valid", "ended"},
                             user : Users \cup {"none"}, kind : Kinds]]
    /\ \A t \in Tokens : tokenCache[t].until <= clock + CacheTTL
    /\ \A r \in WebRequests :
         /\ request[r].at \in {"idle", "lookup", "read", "accepted",
                               "issuing", "clearing"}
         /\ request[r].since <= clock
    /\ \A a \in Admins : admin[a].at \in {"idle", "removing"}
    /\ clock \in 0 .. MaxClock
    /\ ended \in [Tokens -> 0 .. NeverEnded]

AccountsInit ==
    /\ role = [u \in Users |-> "none"]
    /\ token = [t \in Tokens |-> NoToken]
    /\ tokenCache = [t \in Tokens |-> NotCached]
    /\ request = [r \in WebRequests |-> NoWebRequest]
    /\ admin = [a \in Admins |-> NoCommand]
    /\ clock = 0
    /\ ended = [t \in Tokens |-> NeverEnded]

accountRows == <<role, token, ended>>

-----------------------------------------------------------------------------
(* Rows *)

HasAccount(u) == role[u] \in {"owner", "member"}
Owners == {u \in Users : role[u] = "owner"}
TokenValid(t) == token[t].state = "valid" /\ HasAccount(token[t].user)

\* Tokens that are valid stop being so, by being revoked, deleted or too old.
End(S) ==
    LET now == {t \in S : token[t].state = "valid"}
    IN  /\ token' = [t \in Tokens |-> IF t \in now THEN [token[t] EXCEPT !.state = "ended"]
                                      ELSE token[t]]
        /\ ended' = [t \in Tokens |-> IF t \in now THEN clock ELSE ended[t]]

IssueToken(t, u, kind) ==
    /\ token[t].state = "none" /\ \A k \in 1 .. t - 1 : token[k].state # "none"
    /\ token' = [token EXCEPT ![t] = [state |-> "valid", user |-> u, kind |-> kind]]

-----------------------------------------------------------------------------
(* Commands, each in a process of its own *)

\* The first user is the owner whatever role is asked for.
CreateUser(u, wanted) ==
    /\ role[u] = "none"
    /\ role' = [role EXCEPT ![u] = IF \A v \in Users : ~HasAccount(v) THEN "owner" ELSE wanted]
    /\ UNCHANGED <<token, ended, tokenCache, request, admin, clock>>

\* The owners are counted ...
RemoveUserRead(a, u) ==
    /\ admin[a].at = "idle" /\ HasAccount(u)
    /\ role[u] = "owner" => Cardinality(Owners) > 1
    /\ admin' = [admin EXCEPT ![a] = [at |-> "removing", user |-> u]]
    /\ UNCHANGED <<accountRows, tokenCache, request, clock>>

\* ... and the user goes with the tokens; a user whose row is gone cannot be deleted again.
RemoveUserCommit(a) ==
    /\ admin[a].at = "removing"
    /\ LET u == admin[a].user
       IN  IF HasAccount(u)
           THEN /\ role' = [role EXCEPT ![u] = "gone"]
                /\ End({t \in Tokens : token[t].user = u})
           ELSE UNCHANGED accountRows
    /\ admin' = [admin EXCEPT ![a] = NoCommand]
    /\ UNCHANGED <<tokenCache, request, clock>>

\* A new password signs out every browser session and leaves API tokens alone.
SetPassword(u) ==
    /\ HasAccount(u)
    /\ End({t \in Tokens : token[t].user = u /\ token[t].kind = "session"})
    /\ UNCHANGED <<role, tokenCache, request, admin, clock>>

CreateToken(t, u) ==
    /\ HasAccount(u)
    /\ IssueToken(t, u, "api")
    /\ UNCHANGED <<role, ended, tokenCache, request, admin, clock>>

\* revoke_token, or the time to live of the token runs out.
RevokeToken(t) ==
    /\ token[t].state = "valid"
    /\ End({t})
    /\ UNCHANGED <<role, tokenCache, request, admin, clock>>

-----------------------------------------------------------------------------
(* The gate: a request that carries a token, once there are accounts *)

Move(r, state) == request' = [request EXCEPT ![r] = state]

\* A request comes with a token.  authenticate_secret takes the time before it asks the cache.
CheckToken(r, t) ==
    /\ request[r].at = "idle"
    /\ token[t].state # "none"
    /\ LET cached == tokenCache[t]
           seen == [NoWebRequest EXCEPT !.token = t, !.since = clock]
       IN  Move(r, IF cached.until > clock
                   THEN IF cached.ok THEN [seen EXCEPT !.at = "accepted"] ELSE NoWebRequest
                   ELSE [seen EXCEPT !.at = "lookup"])
    /\ UNCHANGED <<accountRows, tokenCache, admin, clock>>

LookUpToken(r) ==
    /\ request[r].at = "lookup"
    /\ Move(r, [request[r] EXCEPT !.at = "read", !.ok = TokenValid(request[r].token)])
    /\ UNCHANGED <<accountRows, tokenCache, admin, clock>>

\* The database is locked: nothing is cached and the request is refused.
LookUpFails(r) ==
    /\ request[r].at = "lookup"
    /\ Move(r, NoWebRequest)
    /\ UNCHANGED <<accountRows, tokenCache, admin, clock>>

\* Fault: the entry lives from the moment it is stored.
CacheToken_FromNow(r) ==
    /\ request[r].at = "read"
    /\ tokenCache' = [tokenCache EXCEPT ![request[r].token] =
                        [ok |-> request[r].ok, until |-> clock + CacheTTL]]
    /\ Move(r, IF request[r].ok THEN [request[r] EXCEPT !.at = "accepted"] ELSE NoWebRequest)
    /\ UNCHANGED <<accountRows, admin, clock>>

\* The entry lives from the time that was taken before the lookup.
CacheToken(r) ==
    /\ request[r].at = "read"
    /\ tokenCache' = [tokenCache EXCEPT ![request[r].token] =
                        [ok |-> request[r].ok, until |-> request[r].since + CacheTTL]]
    /\ Move(r, IF request[r].ok THEN [request[r] EXCEPT !.at = "accepted"] ELSE NoWebRequest)
    /\ UNCHANGED <<accountRows, admin, clock>>

\* The accepted request is served; logout revokes the token it came with.
Serve(r) ==
    /\ request[r].at = "accepted"
    /\ Move(r, NoWebRequest)
    /\ UNCHANGED <<accountRows, tokenCache, admin, clock>>

Logout(r) ==
    /\ request[r].at = "accepted" /\ token[request[r].token].kind = "session"
    /\ End({request[r].token})
    /\ Move(r, [request[r] EXCEPT !.at = "clearing"])
    /\ UNCHANGED <<role, tokenCache, admin, clock>>

\* invalidate_caches, in the process of the server.
ClearCaches(r) ==
    /\ request[r].at = "clearing"
    /\ tokenCache' = [t \in Tokens |-> NotCached]
    /\ Move(r, NoWebRequest)
    /\ UNCHANGED <<accountRows, admin, clock>>

-----------------------------------------------------------------------------
(* Logins *)

\* The password is right, as it is now.
LoginRight(r, u) ==
    /\ request[r].at = "idle" /\ HasAccount(u)
    /\ Move(r, [NoWebRequest EXCEPT !.at = "issuing", !.user = u])
    /\ UNCHANGED <<accountRows, tokenCache, admin, clock>>

\* The session is issued in a transaction of its own: the user may be gone.
LoginIssue(r) ==
    /\ request[r].at = "issuing"
    /\ IF HasAccount(request[r].user) THEN \E t \in Tokens : IssueToken(t, request[r].user, "session")
                                  ELSE UNCHANGED token
    /\ Move(r, NoWebRequest)
    /\ UNCHANGED <<role, ended, tokenCache, admin, clock>>

-----------------------------------------------------------------------------

Tick ==
    /\ clock < MaxClock
    /\ clock' = clock + 1
    /\ UNCHANGED <<accountRows, tokenCache, request, admin>>

\* The memory of the server is lost with its process.
ServerRestarts ==
    /\ tokenCache' = [t \in Tokens |-> NotCached]
    /\ request' = [r \in WebRequests |-> NoWebRequest]
    /\ UNCHANGED <<accountRows, admin, clock>>

AccountsNext ==
    \/ \E a \in Admins : RemoveUserCommit(a) \/ \E u \in Users : RemoveUserRead(a, u)
    \/ \E u \in Users : \/ \E wanted \in {"owner", "member"} : CreateUser(u, wanted)
                        \/ SetPassword(u)
                        \/ \E t \in Tokens : CreateToken(t, u)
    \/ \E t \in Tokens : RevokeToken(t)
    \/ \E r \in WebRequests :
         \/ \E t \in Tokens : CheckToken(r, t)
         \/ \E u \in Users : LoginRight(r, u)
         \/ LookUpToken(r) \/ LookUpFails(r)
         \/ CacheToken(r) \/ Serve(r) \/ Logout(r) \/ ClearCaches(r)
         \/ LoginIssue(r)
    \/ Tick
    \/ ServerRestarts

AccountsSpec == AccountsInit /\ [][AccountsNext]_accountVars

-----------------------------------------------------------------------------

\* A server notices that a token is not valid any more within the time that it keeps what it
\* knows, however long its lookups take and however often they are repeated ("servers notice
\* within about 15 seconds", the token-revoke command).
RevokedIsNoticed ==
    \A r \in WebRequests :
        request[r].at = "accepted" => request[r].since < ended[request[r].token] + CacheTTL

=============================================================================
