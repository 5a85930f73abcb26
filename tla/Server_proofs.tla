---------------------------- MODULE Server_proofs ----------------------------
(*****************************************************************************)
(* Theorems about the server: its start on an old database, the users who    *)
(* sign in and their tokens, the command lines it runs, the sign-ins to      *)
(* other services and the threads of its chat; for any number of users,      *)
(* requests, command lines, processes that start, threads and turns.         *)
(*****************************************************************************)
EXTENDS Accounts, Logins, Commands, Connections, Migration, Chat, FiniteSetTheorems,
        SequenceTheorems, NaturalsInduction, WellFoundedInduction, TLAPS

-----------------------------------------------------------------------------
(* Accounts *)

Roles == {"none", "owner", "member", "gone"}
TokenRow == [state : {"none", "valid", "ended"}, user : Users \cup {"none"}, kind : Kinds]
CacheRow == [ok : BOOLEAN, until : Nat]
RequestRow == [at : {"idle", "lookup", "read", "accepted", "issuing", "clearing"},
               token : Tokens \cup {0}, user : Users \cup {"none"}, since : Nat, ok : BOOLEAN]

AccountsShape ==
    /\ role \in [Users -> Roles]
    /\ token \in [Tokens -> TokenRow]
    /\ tokenCache \in [Tokens -> CacheRow]
    /\ request \in [WebRequests -> RequestRow]
    /\ clock \in 0 .. MaxClock
    /\ ended \in [Tokens -> Nat]

\* A token that has not ended yet will do so later than now.
Unended == \A t \in Tokens : token[t].state # "ended" => ended[t] = NeverEnded

\* What the cache says of a token was true, and is forgotten, early enough.
CacheHonest(t) ==
    /\ tokenCache[t].until <= clock + CacheTTL
    /\ tokenCache[t].ok => tokenCache[t].until <= ended[t] + CacheTTL

\* A lookup that found the token valid began before its end; RevokedIsNoticed for one request.
RequestHonest(r) ==
    /\ request[r].since <= clock
    /\ request[r].at \in {"lookup", "read", "accepted"} => request[r].token \in Tokens
    /\ request[r].at = "read" /\ request[r].ok => request[r].since <= ended[request[r].token]
    /\ request[r].at = "accepted" => request[r].since < ended[request[r].token] + CacheTTL

AccountsInv ==
    /\ AccountsShape /\ Unended
    /\ \A t \in Tokens : CacheHonest(t)
    /\ \A r \in WebRequests : RequestHonest(r)

\* The rows of a token, of the cache and of a request that hold nothing.
LEMMA Blank ==
    /\ NoToken \in TokenRow /\ NotCached \in CacheRow /\ NoWebRequest \in RequestRow
    /\ NeverEnded \in Nat /\ MaxClock \in Nat /\ CacheTTL \in Nat /\ CacheTTL > 0 /\ 0 \notin Tokens
  BY AccountsAssumption DEF NoToken, NotCached, NoWebRequest, NeverEnded, TokenRow, CacheRow, RequestRow,
     Tokens, Kinds

\* At first there is no token, and the cache is empty.
LEMMA AccountsInitInv == AccountsInit => AccountsInv
<1> SUFFICES ASSUME AccountsInit PROVE AccountsInv
  OBVIOUS
<1>1. AccountsShape /\ Unended
  BY Blank DEF AccountsInit, AccountsShape, Roles, Unended
<1>2. ASSUME NEW t \in Tokens PROVE CacheHonest(t)
  BY Blank DEF AccountsInit, CacheHonest, NotCached
<1>3. ASSUME NEW r \in WebRequests PROVE RequestHonest(r)
  BY Blank DEF AccountsInit, RequestHonest, NoWebRequest
<1> QED
  BY <1>1, <1>2, <1>3 DEF AccountsInv

\* Tokens that end, end now.
LEMMA Ending ==
    ASSUME AccountsInv, NEW S \in SUBSET Tokens, End(S)
    PROVE  /\ token' \in [Tokens -> TokenRow]
           /\ ended' \in [Tokens -> Nat] /\ Unended'
           /\ \A t \in Tokens : ended'[t] = ended[t] \/ ended'[t] = clock
<1> DEFINE now == {t \in S : token[t].state = "valid"}
<1>1. /\ token' = [t \in Tokens |-> IF t \in now THEN [token[t] EXCEPT !.state = "ended"] ELSE token[t]]
      /\ ended' = [t \in Tokens |-> IF t \in now THEN clock ELSE ended[t]]
  BY DEF End
<1>2. /\ token \in [Tokens -> TokenRow] /\ ended \in [Tokens -> Nat] /\ clock \in Nat
  BY DEF AccountsInv, AccountsShape
<1> HIDE DEF now
<1>3. \A t \in Tokens : /\ [token[t] EXCEPT !.state = "ended"] \in TokenRow
                        /\ [token[t] EXCEPT !.state = "ended"].state = "ended"
  BY <1>2 DEF TokenRow
<1>4. Unended'
  BY <1>1, <1>3 DEF Unended, AccountsInv, NeverEnded
<1> QED
  BY <1>1, <1>2, <1>3, <1>4

\* Moving the rows of the database leaves what the server knows honest.
LEMMA RowsMove ==
    ASSUME AccountsInv,
           role' \in [Users -> Roles], token' \in [Tokens -> TokenRow], ended' \in [Tokens -> Nat], Unended',
           \A t \in Tokens : ended'[t] = ended[t] \/ ended'[t] = clock,
           clock' = clock, tokenCache' = tokenCache,
           request' \in [WebRequests -> RequestRow],
           \A r \in WebRequests : request'[r] = request[r]
                                  \/ (request'[r].since <= clock
                                      /\ request'[r].at \notin {"lookup", "read", "accepted"})
    PROVE  AccountsInv'
<1>1. AccountsShape'
  BY DEF AccountsInv, AccountsShape
<1>2. ASSUME NEW t \in Tokens PROVE CacheHonest(t)'
  <2>1. CacheHonest(t) /\ tokenCache[t] \in CacheRow /\ ended[t] \in Nat /\ clock \in Nat
    BY DEF AccountsInv, AccountsShape
  <2> QED
    BY <2>1, Blank DEF CacheHonest, CacheRow
<1>3. ASSUME NEW r \in WebRequests PROVE RequestHonest(r)'
  <2>1. RequestHonest(r) /\ request[r] \in RequestRow /\ clock \in Nat
    BY DEF AccountsInv, AccountsShape
  <2>2. CASE request'[r] = request[r]
    BY <2>1, <2>2, Blank DEF RequestHonest, RequestRow
  <2>3. CASE request'[r].since <= clock /\ request'[r].at \notin {"lookup", "read", "accepted"}
    BY <2>3 DEF RequestHonest
  <2> QED
    BY <2>2, <2>3
<1> QED
  BY <1>1, <1>2, <1>3 DEF AccountsInv

\* The rows of users and tokens change while no request moves.
LEMMA Issuing ==
    ASSUME AccountsInv, NEW t \in Tokens, NEW u \in Users, NEW kind \in Kinds, IssueToken(t, u, kind)
    PROVE  token' \in [Tokens -> TokenRow] /\ (ended' = ended => Unended')
<1>1. /\ token \in [Tokens -> TokenRow] /\ Unended
      /\ [state |-> "valid", user |-> u, kind |-> kind] \in TokenRow
  BY DEF AccountsInv, AccountsShape, TokenRow
<1>2. /\ token[t].state = "none"
      /\ token' = [token EXCEPT ![t] = [state |-> "valid", user |-> u, kind |-> kind]]
  BY DEF IssueToken
<1> QED
  BY <1>1, <1>2 DEF Unended, NeverEnded

\* What administrators do to users and tokens: a token that ends does so now.
LEMMA Administering ==
    ASSUME AccountsInv,
           \/ \E a \in Admins : RemoveUserCommit(a) \/ \E u \in Users : RemoveUserRead(a, u)
           \/ \E u \in Users : \/ \E wanted \in {"owner", "member"} : CreateUser(u, wanted)
                               \/ SetPassword(u)
                               \/ \E t \in Tokens : CreateToken(t, u)
           \/ \E t \in Tokens : RevokeToken(t)
    PROVE  AccountsInv'
<1>1. /\ role \in [Users -> Roles] /\ token \in [Tokens -> TokenRow] /\ ended \in [Tokens -> Nat]
      /\ request \in [WebRequests -> RequestRow] /\ Unended
  BY DEF AccountsInv, AccountsShape
<1>2. tokenCache' = tokenCache /\ clock' = clock /\ request' = request
  BY DEF RemoveUserCommit, RemoveUserRead, CreateUser, SetPassword, CreateToken, RevokeToken
<1>3. role' \in [Users -> Roles]
  BY <1>1 DEF RemoveUserCommit, RemoveUserRead, CreateUser, SetPassword, CreateToken, RevokeToken, Roles,
     accountRows
<1>4. /\ token' \in [Tokens -> TokenRow] /\ ended' \in [Tokens -> Nat] /\ Unended'
      /\ \A t \in Tokens : ended'[t] = ended[t] \/ ended'[t] = clock
  <2>1. CASE token' = token /\ ended' = ended
    BY <1>1, <2>1 DEF Unended, NeverEnded
  <2>2. CASE \E S \in SUBSET Tokens : End(S)
    BY <2>2, Ending
  <2>3. CASE \E t \in Tokens, u \in Users : CreateToken(t, u)
    BY <1>1, <2>3, Issuing DEF CreateToken, Kinds
  <2> QED
    BY <2>1, <2>2, <2>3 DEF RemoveUserCommit, RemoveUserRead, CreateUser, SetPassword, RevokeToken, accountRows
<1> QED
  BY <1>1, <1>2, <1>3, <1>4, RowsMove

\* What a request that has come with a token t is made of.
Arrived(t, now, at) == [[NoWebRequest EXCEPT !.token = t, !.since = now] EXCEPT !.at = at]

\* A request that arrives notes when it did.
LEMMA ArrivedRow ==
    ASSUME NEW t \in Tokens, NEW now \in Nat, NEW at \in {"lookup", "accepted"}
    PROVE  LET row == Arrived(t, now, at)
           IN  row \in RequestRow /\ row.at = at /\ row.token = t /\ row.since = now
<1>1. NoWebRequest \in RequestRow
  BY Blank
<1> QED
  BY <1>1 DEF RequestRow, Arrived

\* A request moves by itself: it may only store what it has looked up.
LEMMA Requesting ==
    ASSUME AccountsInv, NEW r \in WebRequests,
           \/ \E t \in Tokens : CheckToken(r, t)
           \/ \E u \in Users : LoginRight(r, u)
           \/ LookUpToken(r) \/ LookUpFails(r) \/ CacheToken(r) \/ Serve(r) \/ ClearCaches(r)
    PROVE  AccountsInv'
<1>1. UNCHANGED <<role, token, ended, clock>>
  BY DEF CheckToken, LoginRight, LookUpToken, LookUpFails, CacheToken, Serve, ClearCaches, accountRows
<1>2. /\ AccountsShape /\ Unended /\ clock \in Nat
      /\ request[r] \in RequestRow /\ request[r].since \in Nat /\ RequestHonest(r)
  BY Blank DEF AccountsInv, AccountsShape, RequestRow
<1> DEFINE row == request'[r]
<1>3. request' = [request EXCEPT ![r] = row]
  BY <1>2 DEF CheckToken, LoginRight, LookUpToken, LookUpFails, CacheToken, Serve, ClearCaches, Move,
     AccountsShape
<1>4. row \in RequestRow /\ RequestHonest(r)'
  <2>1. CASE \E t \in Tokens : CheckToken(r, t)
    <3>1. PICK t \in Tokens : CheckToken(r, t)
      BY <2>1
    <3> DEFINE seen(at) == Arrived(t, clock, at)
    <3>2. \A at \in {"lookup", "accepted"} :
            seen(at) \in RequestRow /\ seen(at).at = at /\ seen(at).token = t /\ seen(at).since = clock
      BY <1>2, ArrivedRow
    <3>3. row = IF tokenCache[t].until > clock
                THEN IF tokenCache[t].ok THEN seen("accepted") ELSE NoWebRequest
                ELSE seen("lookup")
      BY <1>2, <3>1 DEF CheckToken, Move, AccountsShape, Arrived
    <3>4. CacheHonest(t) /\ tokenCache[t] \in CacheRow /\ ended[t] \in Nat
      BY <1>2 DEF AccountsInv, AccountsShape
    <3> HIDE DEF seen
    <3>5. CASE row = seen("accepted") /\ tokenCache[t].until > clock /\ tokenCache[t].ok
      <4>1. row \in RequestRow /\ row.at = "accepted" /\ row.token = t /\ row.since = clock
        BY <3>2, <3>5
      <4>2. clock < ended[t] + CacheTTL
        BY <1>2, <3>4, <3>5, Blank DEF CacheHonest, CacheRow
      <4> QED
        BY <1>1, <1>2, <4>1, <4>2 DEF RequestRow, RequestHonest
    <3>6. CASE row = NoWebRequest
      BY <1>1, <1>2, <3>6, Blank DEF RequestHonest, NoWebRequest
    <3>7. CASE row = seen("lookup")
      <4>1. row \in RequestRow /\ row.at = "lookup" /\ row.token = t /\ row.since = clock
        BY <3>2, <3>7
      <4> QED
        BY <1>1, <1>2, <4>1 DEF RequestRow, RequestHonest
    <3> QED
      BY <3>3, <3>5, <3>6, <3>7
  <2>2. CASE \E u \in Users : LoginRight(r, u)
    <3>1. PICK u \in Users : LoginRight(r, u)
      BY <2>2
    <3>2. row = [NoWebRequest EXCEPT !.at = "issuing", !.user = u]
      BY <1>2, <3>1 DEF LoginRight, Move, AccountsShape
    <3>3. row = [at |-> "issuing", token |-> 0, user |-> u, since |-> 0, ok |-> FALSE]
      BY <3>2 DEF NoWebRequest
    <3> QED
      BY <1>1, <1>2, <3>3 DEF RequestRow, RequestHonest
  <2>3. CASE LookUpToken(r)
    <3> DEFINE t == request[r].token
    <3>1. row = [request[r] EXCEPT !.at = "read", !.ok = TokenValid(t)] /\ request[r].at = "lookup"
      BY <1>2, <2>3 DEF LookUpToken, Move, AccountsShape
    <3>2. t \in Tokens /\ TokenValid(t) \in BOOLEAN /\ (TokenValid(t) => token[t].state = "valid")
      BY <1>2, <3>1 DEF RequestHonest, TokenValid
    <3>3. row \in RequestRow /\ row.at = "read" /\ row.ok = TokenValid(t) /\ row.token = t
          /\ row.since = request[r].since
      BY <1>2, <3>1, <3>2 DEF RequestRow
    <3>4. TokenValid(t) => request[r].since <= ended[t]
      <4>1. clock <= MaxClock /\ request[r].since <= clock
        BY <1>2 DEF RequestHonest, AccountsShape
      <4>2. TokenValid(t) => ended[t] = MaxClock + 1
        BY <1>2, <3>2 DEF Unended, NeverEnded
      <4> QED
        BY <1>2, <4>1, <4>2, Blank
    <3> QED
      BY <1>1, <1>2, <3>2, <3>3, <3>4 DEF RequestHonest
  <2>4. CASE CacheToken(r)
    <3>1. row = (IF request[r].ok THEN [request[r] EXCEPT !.at = "accepted"] ELSE NoWebRequest)
          /\ request[r].at = "read"
      BY <1>2, <2>4 DEF CacheToken, Move, AccountsShape
    <3>2. CASE ~request[r].ok
      BY <1>1, <1>2, <3>1, <3>2, Blank DEF RequestHonest, NoWebRequest
    <3>3. CASE request[r].ok
      <4>1. row \in RequestRow /\ row.at = "accepted" /\ row.token = request[r].token
            /\ row.since = request[r].since
        BY <1>2, <3>1, <3>3 DEF RequestRow
      <4>2. request[r].token \in Tokens /\ request[r].since <= ended[request[r].token]
            /\ ended[request[r].token] \in Nat
        BY <1>2, <3>1, <3>3 DEF RequestHonest, AccountsShape
      <4> QED
        BY <1>1, <1>2, <4>1, <4>2, Blank DEF RequestHonest
    <3> QED
      BY <3>2, <3>3
  <2>5. CASE LookUpFails(r) \/ Serve(r) \/ ClearCaches(r)
    <3>1. row = NoWebRequest
      BY <1>2, <2>5 DEF LookUpFails, Serve, ClearCaches, Move, AccountsShape
    <3> QED
      BY <1>1, <1>2, <3>1, Blank DEF RequestHonest, NoWebRequest
  <2> QED
    BY <2>1, <2>2, <2>3, <2>4, <2>5
<1>5. tokenCache' \in [Tokens -> CacheRow] /\ \A t \in Tokens : CacheHonest(t)'
  <2>1. CASE tokenCache' = tokenCache
    BY <1>1, <1>2, <2>1 DEF AccountsInv, AccountsShape, CacheHonest
  <2>2. CASE ClearCaches(r)
    BY <1>1, <1>2, <2>2, Blank DEF ClearCaches, CacheHonest, NotCached
  <2>3. CASE CacheToken(r)
    <3> DEFINE entry == [ok |-> request[r].ok, until |-> request[r].since + CacheTTL]
    <3>1. request[r].at = "read" /\ tokenCache' = [tokenCache EXCEPT ![request[r].token] = entry]
      BY <2>3 DEF CacheToken
    <3> DEFINE t == request[r].token
    <3>0. /\ t \in Tokens /\ ended[t] \in Nat /\ request[r].ok \in BOOLEAN
          /\ (request[r].ok => request[r].since <= ended[t])
      BY <1>2, <3>1 DEF RequestHonest, RequestRow, AccountsShape
    <3>2. entry \in CacheRow /\ request[r].token \in Tokens /\ ended[request[r].token] \in Nat
          /\ entry.until <= clock + CacheTTL
          /\ (entry.ok => entry.until <= ended[request[r].token] + CacheTTL)
      BY <1>2, <3>0, Blank DEF RequestHonest, CacheRow
    <3> HIDE DEF entry
    <3> QED
      BY <1>1, <1>2, <3>1, <3>2 DEF AccountsInv, AccountsShape, CacheHonest
  <2> QED
    BY <2>1, <2>2, <2>3 DEF CheckToken, LoginRight, LookUpToken, LookUpFails, Serve
<1>6. ASSUME NEW q \in WebRequests PROVE RequestHonest(q)'
  BY <1>1, <1>2, <1>3, <1>4 DEF AccountsInv, AccountsShape, RequestHonest
<1>7. AccountsShape' /\ Unended'
  BY <1>1, <1>2, <1>3, <1>4, <1>5 DEF AccountsShape, Unended, NeverEnded
<1> QED
  BY <1>5, <1>6, <1>7 DEF AccountsInv

\* A request that moves the rows: it ends its own token, or is given one.
LEMMA Moving ==
    ASSUME AccountsInv, NEW r \in WebRequests, Logout(r) \/ LoginIssue(r)
    PROVE  AccountsInv'
<1>1. /\ role' = role /\ clock' = clock /\ tokenCache' = tokenCache
      /\ role \in [Users -> Roles] /\ token \in [Tokens -> TokenRow] /\ ended \in [Tokens -> Nat]
      /\ request \in [WebRequests -> RequestRow] /\ request[r] \in RequestRow /\ Unended /\ clock \in Nat
      /\ RequestHonest(r)
  BY DEF Logout, LoginIssue, AccountsInv, AccountsShape
<1>2. CASE Logout(r)
  <2>1. End({request[r].token}) /\ request[r].token \in Tokens
        /\ request' = [request EXCEPT ![r] = [request[r] EXCEPT !.at = "clearing"]]
    BY <1>1, <1>2 DEF Logout, Move, RequestHonest
  <2>2. [request[r] EXCEPT !.at = "clearing"] \in RequestRow
        /\ [request[r] EXCEPT !.at = "clearing"].at = "clearing"
        /\ [request[r] EXCEPT !.at = "clearing"].since <= clock
    BY <1>1 DEF RequestRow, RequestHonest
  <2>3. request' \in [WebRequests -> RequestRow]
    BY <1>1, <2>1, <2>2
  <2>4. \A q \in WebRequests : request'[q] = request[q]
                               \/ (request'[q].since <= clock
                                   /\ request'[q].at \notin {"lookup", "read", "accepted"})
    BY <1>1, <2>1, <2>2
  <2> QED
    BY <1>1, <2>1, <2>3, <2>4, Ending, RowsMove
<1>3. CASE LoginIssue(r)
  <2>1. request' = [request EXCEPT ![r] = NoWebRequest] /\ ended' = ended
    BY <1>3 DEF LoginIssue, Move
  <2>2. NoWebRequest.since <= clock /\ NoWebRequest.at \notin {"lookup", "read", "accepted"}
        /\ NoWebRequest \in RequestRow
    BY <1>1, Blank DEF NoWebRequest
  <2>3. token' \in [Tokens -> TokenRow] /\ Unended'
    <3>1. CASE token' = token
      BY <1>1, <2>1, <3>1 DEF Unended, NeverEnded
    <3>2. CASE HasAccount(request[r].user) /\ \E t \in Tokens : IssueToken(t, request[r].user, "session")
      <4>1. PICK t \in Tokens : IssueToken(t, request[r].user, "session")
        BY <3>2
      <4>2. token' = [token EXCEPT ![t] = [state |-> "valid", user |-> request[r].user, kind |-> "session"]]
            /\ token[t].state = "none"
        BY <4>1 DEF IssueToken
      <4>3. [state |-> "valid", user |-> request[r].user, kind |-> "session"] \in TokenRow
        BY <1>1 DEF TokenRow, RequestRow, Kinds
      <4> QED
        BY <1>1, <2>1, <4>2, <4>3 DEF Unended, NeverEnded
    <3> QED
      BY <1>3, <3>1, <3>2 DEF LoginIssue
  <2> QED
    BY <1>1, <2>1, <2>2, <2>3, RowsMove
<1> QED
  BY <1>2, <1>3

\* Time goes on, or the server starts anew with an empty cache.
LEMMA TimeAndRestart ==
    ASSUME AccountsInv, Tick \/ ServerRestarts
    PROVE  AccountsInv'
<1>1. UNCHANGED <<role, token, ended>> /\ AccountsShape /\ Unended
  BY DEF Tick, ServerRestarts, accountRows, AccountsInv
<1>2. CASE Tick
  <2>1. clock' = clock + 1 /\ clock' \in 0 .. MaxClock /\ clock \in Nat
        /\ tokenCache' = tokenCache /\ request' = request
    BY <1>1, <1>2, Blank DEF Tick, AccountsShape
  <2>2. AccountsShape' /\ Unended'
    BY <1>1, <2>1 DEF AccountsShape, Unended, NeverEnded
  <2>3. ASSUME NEW t \in Tokens PROVE CacheHonest(t)'
    <3>1. CacheHonest(t) /\ tokenCache[t] \in CacheRow
      BY <1>1 DEF AccountsInv, AccountsShape
    <3> QED
      BY <1>1, <2>1, <3>1, Blank DEF CacheHonest, CacheRow
  <2>4. ASSUME NEW r \in WebRequests PROVE RequestHonest(r)'
    <3>1. RequestHonest(r) /\ request[r] \in RequestRow
      BY <1>1 DEF AccountsInv, AccountsShape
    <3> QED
      BY <1>1, <2>1, <3>1, Blank DEF RequestHonest, RequestRow
  <2> QED
    BY <2>2, <2>3, <2>4 DEF AccountsInv
<1>3. CASE ServerRestarts
  <2>1. /\ clock' = clock /\ clock \in Nat
        /\ tokenCache' = [t \in Tokens |-> NotCached]
        /\ request' = [r \in WebRequests |-> NoWebRequest]
    BY <1>1, <1>3, Blank DEF ServerRestarts, AccountsShape
  <2>2. AccountsShape' /\ Unended'
    BY <1>1, <2>1, Blank DEF AccountsShape, Unended, NeverEnded
  <2>3. ASSUME NEW t \in Tokens PROVE CacheHonest(t)'
    BY <1>1, <2>1, Blank DEF CacheHonest, NotCached
  <2>4. ASSUME NEW r \in WebRequests PROVE RequestHonest(r)'
    BY <1>1, <2>1, Blank DEF RequestHonest, NoWebRequest
  <2> QED
    BY <2>2, <2>3, <2>4 DEF AccountsInv
<1> QED
  BY <1>2, <1>3

\* Every step keeps the cache honest.
LEMMA AccountsStep == AccountsInv /\ [AccountsNext]_accountVars => AccountsInv'
<1> SUFFICES ASSUME AccountsInv, [AccountsNext]_accountVars PROVE AccountsInv'
  OBVIOUS
<1>1. CASE UNCHANGED accountVars
  BY <1>1 DEF accountVars, AccountsInv, AccountsShape, Unended, NeverEnded, CacheHonest, RequestHonest
<1> QED
  BY <1>1, Administering, Requesting, Moving, TimeAndRestart DEF AccountsNext

\* For any number of users, tokens and requests: a request is accepted less than the time to live
\* of a cache entry after the end of its token, because an entry lives from the time that was
\* taken before its lookup (authenticate_secret).
THEOREM Noticed == AccountsSpec => []RevokedIsNoticed
<1>1. AccountsInv => RevokedIsNoticed
  BY DEF AccountsInv, RequestHonest, RevokedIsNoticed
<1> QED
  BY <1>1, AccountsInitInv, AccountsStep, PTL DEF AccountsSpec

\* What a command has read, and that nothing ends later than never.
AdminsInv ==
    /\ admin \in [Admins -> [at : {"idle", "removing"}, user : Users \cup {"none"}]]
    /\ ended \in [Tokens -> 0 .. NeverEnded]

\* A token ends at the time it is, or has ended before.
LEMMA EndsNow ==
    ASSUME AccountsInv, AdminsInv, NEW S, End(S)
    PROVE  ended' \in [Tokens -> 0 .. NeverEnded]
<1>1. clock \in 0 .. NeverEnded
  BY AccountsAssumption DEF AccountsInv, AccountsShape, NeverEnded
<1> QED
  BY <1>1 DEF End, AdminsInv

\* Commands read a user and forget it.
LEMMA AdminsKept == AccountsInv /\ AdminsInv /\ [AccountsNext]_accountVars => AdminsInv'
<1> SUFFICES ASSUME AccountsInv, AdminsInv, [AccountsNext]_accountVars PROVE AdminsInv'
  OBVIOUS
<1>1. CASE UNCHANGED accountVars
  BY <1>1 DEF accountVars, AdminsInv
<1>2. ASSUME NEW a \in Admins, RemoveUserCommit(a) PROVE AdminsInv'
  <2>1. ended' \in [Tokens -> 0 .. NeverEnded]
    BY <1>2, EndsNow DEF RemoveUserCommit, accountRows, AdminsInv
  <2> QED
    BY <1>2, <2>1 DEF RemoveUserCommit, NoCommand, AdminsInv
<1>3. ASSUME NEW a \in Admins, NEW u \in Users, RemoveUserRead(a, u) PROVE AdminsInv'
  BY <1>3 DEF RemoveUserRead, accountRows, AdminsInv
<1>4. ASSUME UNCHANGED admin, NEW S, End(S) PROVE AdminsInv'
  BY <1>4, EndsNow DEF AdminsInv
<1>5. ASSUME UNCHANGED <<admin, ended>> PROVE AdminsInv'
  BY <1>5 DEF AdminsInv
<1>6. ASSUME NEW u \in Users,
             \/ \E wanted \in {"owner", "member"} : CreateUser(u, wanted)
             \/ SetPassword(u)
             \/ \E t \in Tokens : CreateToken(t, u)
      PROVE  AdminsInv'
  BY <1>4, <1>5, <1>6 DEF CreateUser, SetPassword, CreateToken
<1>7. ASSUME NEW t \in Tokens, RevokeToken(t) PROVE AdminsInv'
  BY <1>4, <1>7 DEF RevokeToken
<1>8. ASSUME NEW r \in WebRequests,
             \/ \E t \in Tokens : CheckToken(r, t)
             \/ \E u \in Users : LoginRight(r, u)
             \/ LookUpToken(r) \/ LookUpFails(r)
             \/ CacheToken(r) \/ Serve(r) \/ ClearCaches(r)
             \/ LoginIssue(r)
      PROVE  AdminsInv'
  BY <1>5, <1>8 DEF CheckToken, LoginRight, LookUpToken, LookUpFails, CacheToken, Serve, ClearCaches, LoginIssue,
     accountRows
<1>9. ASSUME NEW r \in WebRequests, Logout(r) PROVE AdminsInv'
  BY <1>4, <1>9 DEF Logout
<1>10. CASE Tick \/ ServerRestarts
  BY <1>5, <1>10 DEF Tick, ServerRestarts, accountRows
<1> QED
  BY <1>1, <1>2, <1>3, <1>6, <1>7, <1>8, <1>9, <1>10 DEF AccountsNext

\* Type correctness: no entry of the cache lives longer than _CACHE_TTL from now, and no request
\* began after now.
THEOREM AccountsTypeCorrect == AccountsSpec => []AccountsTypeOK
<1>1. AccountsInit => AdminsInv
  BY AccountsAssumption DEF AccountsInit, AdminsInv, NoCommand, NeverEnded
<1>2. ASSUME AccountsInv, AdminsInv PROVE AccountsTypeOK
  <2>1. \A r \in WebRequests : request[r] \in RequestRow
    BY <1>2 DEF AccountsInv, AccountsShape
  <2>2. \A r \in WebRequests : /\ request[r].at \in {"idle", "lookup", "read", "accepted", "issuing", "clearing"}
                               /\ request[r].since <= clock
    BY <1>2, <2>1 DEF AccountsInv, RequestHonest, RequestRow
  <2>3. \A a \in Admins : admin[a].at \in {"idle", "removing"}
    BY <1>2 DEF AdminsInv
  <2> QED
    BY <1>2, <2>2, <2>3 DEF AccountsInv, AccountsShape, CacheHonest, AdminsInv, AccountsTypeOK, Roles, TokenRow
<1> QED
  BY <1>1, <1>2, AccountsInitInv, AccountsStep, AdminsKept, PTL DEF AccountsSpec

-----------------------------------------------------------------------------
(* Logins *)

\* The list of a name is in the order of the clock.
Chronological ==
    \A u \in LoginNames : \A i, j \in DOMAIN failures[u] : i <= j => failures[u][i] <= failures[u][j]

Checked(u) == {r \in LoginRequests : login[r] = u}

LoginsTypes ==
    /\ failures \in [LoginNames -> Seq(0 .. loginClock)]
    /\ login \in [LoginRequests -> LoginNames \cup {"none"}]
    /\ loginClock \in 0 .. MaxLoginClock

\* The outdated failures are the beginning of the list: no more are dropped, and no fewer.
RecentIsRest ==
    \A u \in LoginNames : \A i \in DOMAIN failures[u] :
        i \in Outdated(u) <=> i <= Cardinality(Outdated(u))

FailInv == LoginsTypes /\ Chronological /\ FailuresBounded

\* The numbers up to k are k.
LEMMA UpTo ==
    ASSUME NEW k \in Nat
    PROVE  IsFiniteSet(1 .. k) /\ Cardinality(1 .. k) = k
<1>1. 1 \in Int /\ k \in Int /\ (IF 1 > k THEN 0 ELSE k - 1 + 1) = k
  OBVIOUS
<1> QED
  BY ONLY <1>1, FS_Interval

\* Recent drops as many failures as are outdated, from the front: what the loop of _recent leaves.
LEMMA RecentLength ==
    ASSUME LoginsTypes, NEW u \in LoginNames
    PROVE  /\ Recent(u) \in Seq(0 .. loginClock)
           /\ IsFiniteSet(Outdated(u)) /\ Cardinality(Outdated(u)) \in 0 .. Len(failures[u])
           /\ Len(Recent(u)) = Len(failures[u]) - Cardinality(Outdated(u))
           /\ \A i \in 1 .. Len(Recent(u)) : Recent(u)[i] = failures[u][i + Cardinality(Outdated(u))]
<1> DEFINE n == Cardinality(Outdated(u))
           len == Len(failures[u])
<1>1. /\ failures[u] \in Seq(0 .. loginClock) /\ len \in Nat /\ DOMAIN failures[u] = 1 .. len
      /\ \A i \in 1 .. len : failures[u][i] \in 0 .. loginClock
  BY DEF LoginsTypes
<1>2. Outdated(u) \subseteq 1 .. len
  BY <1>1 DEF Outdated
<1>3. IsFiniteSet(1 .. len) /\ Cardinality(1 .. len) = len
  BY ONLY <1>1, UpTo
<1>4. IsFiniteSet(Outdated(u)) /\ n \in Nat /\ n <= len
  BY <1>2, <1>3, FS_Subset, FS_CardinalityType
<1>5. /\ SubSeq(failures[u], n + 1, len) \in Seq(0 .. loginClock)
      /\ Len(SubSeq(failures[u], n + 1, len)) = len - n
      /\ \A i \in 1 .. len - n : SubSeq(failures[u], n + 1, len)[i] = failures[u][i + n]
  <2>1. n + 1 \in 1 .. len + 1 /\ len \in n .. len /\ len - (n + 1) + 1 = len - n
    BY <1>1, <1>4
  <2> HIDE DEF n, len
  <2>2. \A i \in n + 1 .. len : failures[u][i] \in 0 .. loginClock
    BY <1>1, <1>4
  <2>5. n + 1 \in Int /\ len \in Int
    BY <1>1, <1>4
  <2>3. /\ SubSeq(failures[u], n + 1, len) \in Seq(0 .. loginClock)
        /\ Len(SubSeq(failures[u], n + 1, len)) = IF n + 1 <= len THEN len - (n + 1) + 1 ELSE 0
    BY ONLY <2>2, <2>5, SubSeqProperties
  <2>6. Len(SubSeq(failures[u], n + 1, len)) = len - n
    BY <1>1, <1>4, <2>3
  <2>4. ASSUME NEW i \in 1 .. len - n PROVE SubSeq(failures[u], n + 1, len)[i] = failures[u][i + n]
    BY <1>1, <1>4, <2>1, SubSeqProperties DEF len
  <2> QED
    BY <2>3, <2>4, <2>6
<1> QED
  BY <1>4, <1>5 DEF Recent

\* The outdated failures are those up to their number.
LEMMA OutdatedFirst ==
    ASSUME LoginsTypes, Chronological
    PROVE  RecentIsRest
<1> SUFFICES ASSUME NEW u \in LoginNames, NEW i \in DOMAIN failures[u]
             PROVE  i \in Outdated(u) <=> i <= Cardinality(Outdated(u))
  BY DEF RecentIsRest
<1> DEFINE n == Cardinality(Outdated(u))
           len == Len(failures[u])
<1>1. /\ failures[u] \in Seq(0 .. loginClock) /\ len \in Nat /\ DOMAIN failures[u] = 1 .. len
      /\ \A a \in 1 .. len : failures[u][a] \in 0 .. loginClock
  BY DEF LoginsTypes
<1>2. /\ \A a, b \in 1 .. len : a <= b => failures[u][a] <= failures[u][b]
      /\ \A a \in 1 .. len : failures[u][a] \in Nat
  <2>1. \A a, b \in 1 .. len : a <= b => failures[u][a] <= failures[u][b]
    BY <1>1 DEF Chronological
  <2>2. \A a \in 1 .. len : failures[u][a] \in Nat
    BY <1>1, LoginsAssumption DEF LoginsTypes
  <2> QED
    BY <2>1, <2>2
<1>3. Outdated(u) = {a \in 1 .. len : failures[u][a] + FailureWindow <= loginClock}
  BY <1>1 DEF Outdated
<1>4. IsFiniteSet(Outdated(u)) /\ n \in Nat
  BY RecentLength
<1>5. FailureWindow \in Nat
  BY LoginsAssumption
<1>8. ASSUME NEW a \in 1 .. len, NEW b \in 1 .. len, a <= b, b \in Outdated(u)
      PROVE  a \in Outdated(u)
  <2>1. loginClock \in Nat
    BY LoginsAssumption DEF LoginsTypes
  <2>2. /\ failures[u][a] \in Nat /\ failures[u][b] \in Nat
        /\ failures[u][a] <= failures[u][b] /\ failures[u][b] + FailureWindow <= loginClock
    BY <1>2, <1>3, <1>8
  <2>3. failures[u][a] + FailureWindow <= loginClock
    BY <1>5, <2>1, <2>2
  <2> QED
    BY <1>3, <2>3
<1>6. ASSUME i \in Outdated(u) PROVE i <= n
  <2>1. 1 .. i \subseteq Outdated(u)
    BY <1>1, <1>6, <1>8
  <2>2. Cardinality(1 .. i) = i
    BY <1>1, UpTo
  <2> QED
    BY <1>4, <2>1, <2>2, FS_Subset
<1>7. ASSUME i \notin Outdated(u) PROVE n < i
  <2>1. Outdated(u) \subseteq 1 .. i - 1
    <3> SUFFICES ASSUME NEW b \in Outdated(u) PROVE b \in 1 .. i - 1
      OBVIOUS
    <3>1. b \in 1 .. len /\ i \in 1 .. len
      BY <1>1, <1>3
    <3>2. ~(i <= b)
      BY <1>7, <1>8, <3>1
    <3> QED
      BY <1>1, <3>1, <3>2
  <2>2. i - 1 \in Nat
    BY <1>1
  <2>3. IsFiniteSet(1 .. i - 1) /\ Cardinality(1 .. i - 1) = i - 1
    BY <2>2, UpTo
  <2>4. n <= i - 1
    BY <2>1, <2>3, FS_Subset
  <2> QED
    BY <1>1, <1>4, <2>4
<1> QED
  BY <1>1, <1>4, <1>6, <1>7

\* Who is being checked.
LEMMA CheckedBound ==
    /\ IsFiniteSet(LoginRequests) /\ Cardinality(LoginRequests) \in Nat
    /\ \A u \in LoginNames : Cardinality(Checked(u)) \in 0 .. Cardinality(LoginRequests)
<1>1. IsFiniteSet(LoginRequests)
  BY LoginsAssumption
<1>2. \A u \in LoginNames : Checked(u) \subseteq LoginRequests
  BY DEF Checked
<1> QED
  BY <1>1, <1>2, FS_Subset, FS_CardinalityType

\* With no failures on record, the requests alone are within the bound.
LEMMA NothingFailed ==
    ASSUME NEW u \in LoginNames, LoginsTypes, failures[u] = <<>>
    PROVE  Len(Recent(u)) + Cardinality(Checked(u)) <= MaxFailures + Cardinality(LoginRequests) - 1
<1>1. Len(Recent(u)) = 0
  BY RecentLength
<1>2. MaxFailures \in Nat /\ MaxFailures >= 1
  BY LoginsAssumption
<1> QED
  BY <1>1, <1>2, CheckedBound

\* How long what is recent is.
Counted ==
    \A u \in LoginNames :
        /\ IsFiniteSet(Outdated(u)) /\ Cardinality(Outdated(u)) \in 0 .. Len(failures[u])
        /\ Len(Recent(u)) = Len(failures[u]) - Cardinality(Outdated(u))

\* So it is for every name.
LEMMA RecentLengths == LoginsTypes => Counted
BY RecentLength DEF Counted

\* At first nobody has failed.
LEMMA FailInit == LoginsInit => FailInv
<1> SUFFICES ASSUME LoginsInit PROVE FailInv
  OBVIOUS
<1>1. LoginsTypes
  BY LoginsAssumption DEF LoginsInit, LoginsTypes
<1>2. Chronological
  BY DEF LoginsInit, Chronological
<1>3. FailuresBounded
  BY <1>1, NothingFailed DEF LoginsInit, FailuresBounded, Checked
<1> QED
  BY <1>1, <1>2, <1>3 DEF FailInv

\* How the number of a name's requests changes.
LEMMA CheckedChange ==
    ASSUME NEW u \in LoginNames
    PROVE  /\ Cardinality(Checked(u)') \in 0 .. Cardinality(LoginRequests)
           /\ \A r \in Checked(u) : Checked(u)' = Checked(u) \ {r}
                => Cardinality(Checked(u)') = Cardinality(Checked(u)) - 1
           /\ Checked(u)' \subseteq Checked(u) => Cardinality(Checked(u)') <= Cardinality(Checked(u))
<1>1. IsFiniteSet(Checked(u))
  BY LoginsAssumption, FS_Subset DEF Checked
<1>2. Checked(u)' \subseteq LoginRequests
  BY DEF Checked
<1>3. Cardinality(Checked(u)') \in 0 .. Cardinality(LoginRequests)
  BY <1>2, LoginsAssumption, FS_Subset, FS_CardinalityType
<1> QED
  BY <1>1, <1>3, FS_RemoveElement, FS_Subset

\* Every step keeps the lists in order and within the bound.
LEMMA FailNext == FailInv /\ [LoginsNext]_loginVars => FailInv'
<1> SUFFICES ASSUME FailInv, [LoginsNext]_loginVars PROVE FailInv'
  OBVIOUS
<1> DEFINE Bound == MaxFailures + Cardinality(LoginRequests) - 1
<1>a. /\ LoginsTypes /\ Chronological /\ loginClock \in Nat
      /\ MaxFailures \in Nat \ {0} /\ FailureWindow \in Nat \ {0}
      /\ \A u \in LoginNames : Len(Recent(u)) + Cardinality(Checked(u)) <= Bound
  BY LoginsAssumption DEF FailInv, LoginsTypes, FailuresBounded, Checked
<1>b. Counted /\ (LoginsTypes' => Counted')
  BY <1>a, RecentLengths, PTL
\* A list that is as it was counts no more than before.
<1>d. ASSUME LoginsTypes', NEW u \in LoginNames, failures'[u] = failures[u],
             Outdated(u) \subseteq Outdated(u)', Checked(u)' \subseteq Checked(u)
      PROVE  Len(Recent(u)') + Cardinality(Checked(u)') <= Bound
  <2>1. /\ IsFiniteSet(Outdated(u)') /\ Cardinality(Outdated(u)') \in 0 .. Len(failures[u])
        /\ Len(Recent(u)') = Len(failures[u]) - Cardinality(Outdated(u)')
    BY <1>b, <1>d DEF Counted
  <2>2. /\ IsFiniteSet(Outdated(u)) /\ Cardinality(Outdated(u)) \in 0 .. Len(failures[u])
        /\ Len(Recent(u)) = Len(failures[u]) - Cardinality(Outdated(u))
    BY <1>b, <1>d DEF Counted
  <2>3. Cardinality(Outdated(u)) <= Cardinality(Outdated(u)')
    BY <1>d, <2>1, FS_Subset
  <2>4. /\ Cardinality(Checked(u)') <= Cardinality(Checked(u))
        /\ Cardinality(Checked(u)') \in Nat /\ Cardinality(Checked(u)) \in Nat
    BY <1>d, CheckedChange, CheckedBound
  <2>5. Len(failures[u]) \in Nat /\ Bound \in Int
    BY <1>a, CheckedBound DEF LoginsTypes
  <2>6. Len(Recent(u)) + Cardinality(Checked(u)) <= Bound
    BY <1>a
  <2> HIDE DEF Bound
  <2> QED
    BY <2>1, <2>2, <2>3, <2>4, <2>5, <2>6
\* The bound of every name is what is left to show.
<1>e. ASSUME LoginsTypes', Chronological',
             \A u \in LoginNames : Len(Recent(u)') + Cardinality(Checked(u)') <= Bound
      PROVE  FailInv'
  BY <1>e DEF FailInv, FailuresBounded, Checked
<1>1. ASSUME NEW r \in LoginRequests, NEW u \in LoginNames, AskLogin(r, u)
      PROVE  FailInv'
  <2>1. /\ failures' = [failures EXCEPT ![u] = Recent(u)] /\ loginClock' = loginClock
        /\ login[r] = "none" /\ login' = IF Blocked(u) THEN login ELSE [login EXCEPT ![r] = u]
    BY <1>1 DEF AskLogin
  <2>2. LoginsTypes'
    BY <1>a, <2>1, RecentLength DEF LoginsTypes
  <2>3. ASSUME NEW v \in LoginNames, v # u
        PROVE  Len(Recent(v)') + Cardinality(Checked(v)') <= Bound
    <3>1. failures'[v] = failures[v]
      BY <1>a, <2>1, <2>3 DEF LoginsTypes
    <3>2. Outdated(v)' = Outdated(v)
      BY <2>1, <3>1 DEF Outdated
    <3>3. Checked(v)' \subseteq Checked(v)
      BY <1>a, <2>1, <2>3 DEF LoginsTypes, Checked
    <3> QED
      BY <1>d, <2>2, <3>1, <3>2, <3>3
  <2>4. failures'[u] = Recent(u) /\ Len(Recent(u)') <= Len(Recent(u))
        /\ Len(Recent(u)) \in Nat /\ Len(Recent(u)') \in Nat
    <3>1. failures'[u] = Recent(u)
      BY <1>a, <2>1 DEF LoginsTypes
    <3> QED
      BY <1>b, <2>2, <3>1 DEF Counted, LoginsTypes
  <2>5. Len(Recent(u)') + Cardinality(Checked(u)') <= Bound
    <3>1. CASE Blocked(u)
      <4>1. Checked(u)' \subseteq Checked(u)
        BY <2>1, <3>1 DEF Checked
      <4>2. /\ Cardinality(Checked(u)') <= Cardinality(Checked(u))
            /\ Cardinality(Checked(u)') \in Nat /\ Cardinality(Checked(u)) \in Nat
        BY <4>1, CheckedChange, CheckedBound
      <4> QED
        BY <1>a, <2>4, <4>2, CheckedBound
    <3>2. CASE ~Blocked(u)
      <4>1. Len(Recent(u)) <= MaxFailures - 1
        BY <1>a, <2>4, <3>2 DEF Blocked
      <4>2. Cardinality(Checked(u)') \in 0 .. Cardinality(LoginRequests)
        BY CheckedChange
      <4> QED
        BY <1>a, <2>4, <4>1, <4>2, CheckedBound
    <3> QED
      BY <3>1, <3>2
  <2>6. Chronological'
    <3>1. ASSUME NEW i \in DOMAIN Recent(u), NEW j \in DOMAIN Recent(u), i <= j
          PROVE  Recent(u)[i] <= Recent(u)[j]
      <4> DEFINE n == Cardinality(Outdated(u))
      <4>a. Len(Recent(u)) = Len(failures[u]) - n /\ n \in 0 .. Len(failures[u])
        BY <1>b, <2>4 DEF Counted
      <4>b. Recent(u) \in Seq(0 .. loginClock)
        BY <1>a, <2>4, RecentLength
      <4>c. i \in 1 .. Len(Recent(u)) /\ j \in 1 .. Len(Recent(u))
        BY <3>1, <4>b
      <4>1. /\ Len(Recent(u)) = Len(failures[u]) - n /\ n \in 0 .. Len(failures[u])
            /\ i \in 1 .. Len(Recent(u)) /\ j \in 1 .. Len(Recent(u))
        BY <4>a, <4>c
      <4>2. Recent(u)[i] = failures[u][i + n] /\ Recent(u)[j] = failures[u][j + n]
        BY <1>a, <4>1, RecentLength
      <4>3. failures[u] \in Seq(0 .. loginClock)
        BY <1>a DEF LoginsTypes
      <4>4. i + n \in DOMAIN failures[u] /\ j + n \in DOMAIN failures[u] /\ i + n <= j + n
        BY <3>1, <4>1, <4>3
      <4> QED
        BY <1>a, <4>2, <4>4 DEF Chronological
    <3>2. \A v \in LoginNames \ {u} : failures'[v] = failures[v]
      BY <1>a, <2>1 DEF LoginsTypes
    <3> QED
      BY <1>a, <2>4, <3>1, <3>2 DEF Chronological
  <2> QED
    BY <1>e, <2>2, <2>3, <2>5, <2>6
<1>2. ASSUME NEW r \in LoginRequests, LoginFails(r)
      PROVE  FailInv'
  <2> DEFINE u == login[r]
  <2>1. /\ failures' = [failures EXCEPT ![u] = Append(failures[u], loginClock)]
        /\ loginClock' = loginClock
        /\ u \in LoginNames /\ login' = [login EXCEPT ![r] = "none"]
    BY <1>2, <1>a DEF LoginFails, LoginsTypes
  <2>2. LoginsTypes'
    BY <1>a, <2>1 DEF LoginsTypes
  <2>3. PICK w \in LoginNames : w = login[r]
    BY <2>1
  <2>4. /\ failures' = [failures EXCEPT ![w] = Append(failures[w], loginClock)]
        /\ \A v \in LoginNames \ {w} : failures'[v] = failures[v]
        /\ failures'[w] = Append(failures[w], loginClock)
        /\ \A v \in LoginNames : Checked(v)' \subseteq Checked(v)
    BY <1>a, <2>1, <2>3, LoginsAssumption DEF LoginsTypes, Checked
  <2>5. ASSUME NEW v \in LoginNames, v # w
        PROVE  Len(Recent(v)') + Cardinality(Checked(v)') <= Bound
    <3>1. Outdated(v)' = Outdated(v)
      BY <2>1, <2>4, <2>5 DEF Outdated
    <3> QED
      BY <1>d, <2>2, <2>4, <2>5, <3>1
  <2>6. Len(Recent(w)') + Cardinality(Checked(w)') <= Bound
    <3>1. /\ failures[w] \in Seq(0 .. loginClock) /\ Len(failures[w]) \in Nat
          /\ Len(failures'[w]) = Len(failures[w]) + 1
          /\ \A i \in 1 .. Len(failures[w]) : failures'[w][i] = failures[w][i]
          /\ failures'[w][Len(failures[w]) + 1] = loginClock
          /\ DOMAIN failures'[w] = 1 .. Len(failures[w]) + 1
          /\ DOMAIN failures[w] = 1 .. Len(failures[w])
      BY <1>a, <2>4 DEF LoginsTypes
    <3>2. Outdated(w)' = Outdated(w)
      BY <1>a, <2>1, <3>1 DEF Outdated
    <3>3. Len(Recent(w)') = Len(Recent(w)) + 1 /\ Len(Recent(w)) \in Nat
      BY <1>b, <2>2, <3>1, <3>2 DEF Counted
    <3>4. r \in Checked(w) /\ Checked(w)' = Checked(w) \ {r}
      BY <1>a, <2>1, <2>3, LoginsAssumption DEF Checked, LoginsTypes
    <3>5. Cardinality(Checked(w)') = Cardinality(Checked(w)) - 1 /\ Cardinality(Checked(w)) \in Nat
      BY <3>4, CheckedChange, CheckedBound
    <3> QED
      BY <1>a, <3>3, <3>5, CheckedBound
  <2>7. Chronological'
    <3>1. /\ failures[w] \in Seq(0 .. loginClock) /\ Len(failures[w]) \in Nat
          /\ \A i \in 1 .. Len(failures[w]) : failures'[w][i] = failures[w][i] /\ failures[w][i] <= loginClock
          /\ failures'[w][Len(failures[w]) + 1] = loginClock
          /\ DOMAIN failures'[w] = 1 .. Len(failures[w]) + 1
          /\ DOMAIN failures[w] = 1 .. Len(failures[w])
      BY <1>a, <2>4 DEF LoginsTypes
    <3>2. ASSUME NEW i \in DOMAIN failures'[w], NEW j \in DOMAIN failures'[w], i <= j
          PROVE  failures'[w][i] <= failures'[w][j]
      <4>1. CASE j = Len(failures[w]) + 1
        <5>1. i \in 1 .. Len(failures[w]) \/ i = Len(failures[w]) + 1
          BY <3>1
        <5>2. loginClock <= loginClock
          BY <1>a
        <5>3. failures'[w][i] <= loginClock
          BY <3>1, <5>1, <5>2
        <5> QED
          BY <3>1, <4>1, <5>3
      <4>2. CASE j # Len(failures[w]) + 1
        <5>1. i \in DOMAIN failures[w] /\ j \in DOMAIN failures[w]
          BY <3>1, <3>2, <4>2
        <5>2. failures[w][i] <= failures[w][j]
          BY <1>a, <3>2, <5>1 DEF Chronological
        <5> QED
          BY <3>1, <5>1, <5>2
      <4> QED
        BY <4>1, <4>2
    <3> QED
      BY <1>a, <2>4, <3>2 DEF Chronological
  <2> QED
    BY <1>e, <2>2, <2>5, <2>6, <2>7
<1>3. ASSUME NEW r \in LoginRequests, LoginSucceeds(r)
      PROVE  FailInv'
  <2>1. /\ loginClock' = loginClock /\ login' = [login EXCEPT ![r] = "none"]
        /\ login[r] \in LoginNames
        /\ failures' = [failures EXCEPT ![login[r]] = <<>>]
    BY <1>3, <1>a DEF LoginSucceeds, LoginsTypes
  <2>2. PICK w \in LoginNames : w = login[r]
    BY <2>1
  <2>3. /\ failures'[w] = <<>> /\ \A v \in LoginNames \ {w} : failures'[v] = failures[v]
        /\ \A v \in LoginNames : Checked(v)' \subseteq Checked(v)
    BY <1>a, <2>1, <2>2, LoginsAssumption DEF LoginsTypes, Checked
  <2>4. LoginsTypes'
    BY <1>a, <2>1 DEF LoginsTypes
  <2>5. ASSUME NEW v \in LoginNames, v # w
        PROVE  Len(Recent(v)') + Cardinality(Checked(v)') <= Bound
    <3>1. Outdated(v)' = Outdated(v)
      BY <2>1, <2>3, <2>5 DEF Outdated
    <3> QED
      BY <1>d, <2>3, <2>4, <2>5, <3>1
  <2>6. Len(Recent(w)') + Cardinality(Checked(w)') <= Bound
    <3>1. Len(Recent(w)') = 0
      BY <1>b, <2>3, <2>4 DEF Counted
    <3> QED
      BY <1>a, <3>1, CheckedChange, CheckedBound
  <2>7. Chronological'
    BY <1>a, <2>3 DEF Chronological
  <2> QED
    BY <1>e, <2>4, <2>5, <2>6, <2>7
<1>4. CASE LoginTick
  <2>1. loginClock' = loginClock + 1 /\ UNCHANGED <<failures, login>> /\ loginClock < MaxLoginClock
    BY <1>4 DEF LoginTick
  <2>2. LoginsTypes'
    <3>1. 0 .. loginClock \subseteq 0 .. loginClock' /\ loginClock' \in 0 .. MaxLoginClock
      BY <1>a, <2>1, LoginsAssumption
    <3>2. \A u \in LoginNames : failures[u] \in Seq(0 .. loginClock')
      <4> DEFINE before == 0 .. loginClock
                 after == 0 .. loginClock'
      <4>1. before \subseteq after /\ \A u \in LoginNames : failures[u] \in Seq(before)
        BY <1>a, <3>1 DEF LoginsTypes
      <4> HIDE DEF before, after
      <4>2. \A u \in LoginNames : failures[u] \in Seq(after)
        BY <4>1
      <4> QED
        BY <4>2 DEF after
    <3> QED
      BY <1>a, <2>1, <3>1, <3>2 DEF LoginsTypes
  <2>3. ASSUME NEW u \in LoginNames
        PROVE  Len(Recent(u)') + Cardinality(Checked(u)') <= Bound
    <3>1. Outdated(u) \subseteq Outdated(u)'
      <4> SUFFICES ASSUME NEW i \in Outdated(u) PROVE i \in Outdated(u)'
        OBVIOUS
      <4>1. failures[u] \in Seq(0 .. loginClock) /\ i \in DOMAIN failures[u]
        BY <1>a DEF LoginsTypes, Outdated
      <4>2. failures[u][i] \in Nat /\ failures[u][i] + FailureWindow <= loginClock
        BY <1>a, <4>1 DEF Outdated
      <4> QED
        BY <1>a, <2>1, <4>1, <4>2 DEF Outdated
    <3>2. Checked(u)' \subseteq Checked(u)
      BY <2>1 DEF Checked
    <3> QED
      BY <1>d, <2>1, <2>2, <3>1, <3>2
  <2>4. Chronological'
    BY <1>a, <2>1 DEF Chronological
  <2> QED
    BY <1>e, <2>2, <2>3, <2>4
<1>5. CASE LoginsRestart
  <2>1. /\ failures' = [u \in LoginNames |-> <<>>] /\ loginClock' = loginClock
        /\ login' = [r \in LoginRequests |-> "none"]
    BY <1>5 DEF LoginsRestart
  <2>2. LoginsTypes'
    BY <1>a, <2>1 DEF LoginsTypes
  <2>3. ASSUME NEW u \in LoginNames
        PROVE  Len(Recent(u)') + Cardinality(Checked(u)') <= Bound
    <3>1. Len(Recent(u)') = 0
      BY <1>b, <2>1, <2>2 DEF Counted
    <3> QED
      BY <1>a, <3>1, CheckedChange, CheckedBound
  <2>4. Chronological'
    BY <2>1 DEF Chronological
  <2> QED
    BY <1>e, <2>2, <2>3, <2>4
<1>6. CASE UNCHANGED loginVars
  <2>1. LoginsTypes' /\ Chronological' /\ UNCHANGED <<failures, login, loginClock>>
    BY <1>a, <1>6 DEF loginVars, LoginsTypes, Chronological
  <2>2. \A u \in LoginNames : Outdated(u)' = Outdated(u) /\ Checked(u)' = Checked(u)
    BY <2>1 DEF Outdated, Checked
  <2> QED
    BY <1>d, <1>e, <2>1, <2>2
<1> QED
  BY <1>1, <1>2, <1>3, <1>4, <1>5, <1>6 DEF LoginsNext

\* Type correctness.
THEOREM LoginsTypeCorrect == LoginsSpec => []LoginsTypeOK
<1>1. FailInv => LoginsTypeOK
  BY DEF FailInv, LoginsTypes, LoginsTypeOK
<1> QED
  BY <1>1, FailInit, FailNext, PTL DEF LoginsSpec

\* The throttle: the passwords tried for a name within a window exceed the limit only by requests
\* that passed the check together.
THEOREM LoginsAreThrottled == LoginsSpec => []FailuresBounded
<1>1. FailInv => FailuresBounded
  BY DEF FailInv
<1> QED
  BY <1>1, FailInit, FailNext, PTL DEF LoginsSpec

\* The loop of _recent that drops from the front until it meets a failure inside the window drops
\* all that are outdated, and no other: in every reachable state the list is in order.
THEOREM RecentIsWhatIsLeft == LoginsSpec => []RecentIsRest
<1>1. FailInv => RecentIsRest
  BY OutdatedFirst DEF FailInv
<1> QED
  BY <1>1, FailInit, FailNext, PTL DEF LoginsSpec

-----------------------------------------------------------------------------
(* Commands *)

CommandRow ==
    [at : {"none", "queued", "start", "connecting", "sent", "running", "replying", "direct", "done"},
     server : Warm \cup {0}, end : {"none", "refused", "timeout"}]
WarmRow == [at : {"none", "starting", "up", "ending", "gone"}, holds : Commands \cup {"none"},
            outdated : BOOLEAN]

\* The shape of the rows.
Shape ==
    /\ command \in [Commands -> CommandRow]
    /\ executed \in [Commands -> Nat]
    /\ warm \in [Warm -> WarmRow]
    /\ stateFile \in Warm \cup {0}
    /\ stopping \in BOOLEAN /\ codeEdited \in BOOLEAN
    /\ remoteLock \in Commands \cup {"none"}
    /\ cut \subseteq Commands

\* A command that nobody has begun to run has not run, and one that a warm process has knows which.
Untouched(c) ==
    command[c].at \in {"none", "queued", "start", "connecting", "sent"} => executed[c] = 0
Asked(c) ==
    command[c].at \in {"connecting", "sent", "running", "replying"} => command[c].server \in Warm

\* As long as nothing cuts it off, a command that is being run in the warm process has not run and
\* its process is alive; one that is answered has run once; one that runs by itself has not run.
Uncut(c) ==
    c \notin cut =>
        /\ command[c].at \in {"running", "replying"} => Alive(command[c].server)
        /\ command[c].at \in {"running", "direct"} => executed[c] = 0
        /\ command[c].at = "replying" => executed[c] = 1
        /\ command[c].at = "done" => executed[c] <= 1
        /\ command[c].at = "done" /\ command[c].end = "none" => executed[c] = 1

CommandInv == Shape /\ \A c \in Commands : Untouched(c) /\ Asked(c) /\ Uncut(c)

-----------------------------------------------------------------------------

\* The rows of the beginning have their shape.
LEMMA CommandRowsBlank == NotIssued \in CommandRow /\ NoWarm \in WarmRow /\ \A s \in Warm : s # 0
BY CommandsAssumption DEF NotIssued, CommandRow, NoWarm, WarmRow, Warm

\* The invariant holds at first.
LEMMA CommandsInitInv == CommandsInit => CommandInv
<1> SUFFICES ASSUME CommandsInit PROVE CommandInv
  OBVIOUS
<1>1. Shape
  BY CommandRowsBlank DEF CommandsInit, Shape
<1> QED
  BY <1>1, CommandRowsBlank DEF CommandsInit, CommandInv, Untouched, Asked, Uncut, NotIssued

\* A step that changes one command, and of the warm processes only what they hold, keeps the
\* invariant if it does for that command.
LEMMA OneCommand ==
    ASSUME CommandInv, NEW c \in Commands,
           Shape',
           \A d \in Commands \ {c} : command'[d] = command[d] /\ executed'[d] = executed[d],
           \A s \in Warm : Alive(s) => Alive(s)',
           cut \subseteq cut',
           Untouched(c)', Asked(c)', Uncut(c)'
    PROVE  CommandInv'
<1> SUFFICES ASSUME NEW d \in Commands \ {c} PROVE Untouched(d)' /\ Asked(d)' /\ Uncut(d)'
  BY DEF CommandInv
<1>1. command'[d] = command[d] /\ executed'[d] = executed[d]
  OBVIOUS
<1>2. Untouched(d)' /\ Asked(d)'
  BY <1>1 DEF CommandInv, Untouched, Asked
<1>3. Uncut(d)'
  <2> SUFFICES ASSUME d \notin cut' PROVE Uncut(d)'
    BY DEF Uncut
  <2>1. Uncut(d) /\ Asked(d) /\ d \notin cut
    BY DEF CommandInv
  <2>2. command[d].at \in {"running", "replying"} => Alive(command[d].server)'
    BY <2>1 DEF Uncut, Asked
  <2> QED
    BY <1>1, <2>1, <2>2 DEF Uncut, Alive
<1> QED
  BY <1>2, <1>3

\* What a command does by itself or in the server keeps the invariant.
LEMMA ByItself ==
    ASSUME CommandInv, NEW c \in Commands,
           \/ \E remote \in BOOLEAN : Issue(c, remote)
           \/ TakeRemoteLock(c) \/ RemoteBusy(c) \/ RemoteTimesOut(c) \/ ReadState(c)
           \/ ConnectWarm(c) \/ LoseConnection(c) \/ RunDirectly(c)
    PROVE  CommandInv'
<1> USE DEF CommandInv
<1>1. command[c] \in CommandRow /\ executed[c] \in Nat /\ Untouched(c) /\ Asked(c) /\ Uncut(c)
  BY DEF Shape
<1>2. warm' = warm /\ stateFile' = stateFile /\ stopping' = stopping /\ codeEdited' = codeEdited /\ cut' = cut
  BY DEF Issue, TakeRemoteLock, RemoteBusy, RemoteTimesOut, ReadState, ConnectWarm, LoseConnection, RunDirectly
<1>3. \A s : Alive(s) = Alive(s)'
  BY <1>2 DEF Alive
<1>4. CASE \/ \E remote \in BOOLEAN : Issue(c, remote)
           \/ TakeRemoteLock(c) \/ RemoteBusy(c) \/ ReadState(c) \/ ConnectWarm(c)
  <2>1. /\ command'[c] \in CommandRow
        /\ command' = [command EXCEPT ![c] = command'[c]]
        /\ executed' = executed
        /\ remoteLock' \in Commands \cup {"none"}
        /\ Untouched(c)' /\ Asked(c)' /\ Uncut(c)'
    BY <1>1, <1>4, CommandRowsBlank DEF Shape, CommandRow, Issue, TakeRemoteLock, RemoteBusy, ReadState,
       ConnectWarm, Become, Leave, Untouched, Asked, Uncut
  <2>2. Shape'
    BY <1>2, <2>1 DEF Shape
  <2> QED
    BY <1>2, <1>3, <2>1, <2>2, OneCommand DEF Shape
<1>5. CASE RemoteTimesOut(c) \/ LoseConnection(c) \/ RunDirectly(c)
  <2>1. /\ command'[c] \in CommandRow
        /\ command' = [command EXCEPT ![c] = command'[c]]
        /\ remoteLock' \in Commands \cup {"none"}
    BY <1>1, <1>5 DEF Shape, CommandRow, RemoteTimesOut, LoseConnection, RunDirectly, FallsBack, Done, Leave
  <2>2. executed'[c] \in Nat /\ executed' = [executed EXCEPT ![c] = executed'[c]]
    BY <1>1, <1>5 DEF Shape, RemoteTimesOut, LoseConnection, RunDirectly
  <2>3. Shape'
    BY <1>2, <2>1, <2>2 DEF Shape
  <2>4. Untouched(c)' /\ Asked(c)' /\ Uncut(c)'
    <3>1. CASE RemoteTimesOut(c)
      BY <1>1, <1>2, <1>3, <3>1 DEF Shape, CommandRow, RemoteTimesOut, Untouched, Asked, Uncut
    <3>2. CASE LoseConnection(c)
      BY <1>1, <1>2, <1>3, <3>2 DEF Shape, CommandRow, LoseConnection, ConnectionLost, FallsBack, Done,
         Leave, Untouched, Asked, Uncut
    <3>3. CASE RunDirectly(c)
      BY <1>1, <1>2, <1>3, <3>3 DEF Shape, CommandRow, RunDirectly, Done, Leave, Untouched, Asked, Uncut
    <3> QED
      BY <1>5, <3>1, <3>2, <3>3
  <2> QED
    BY <1>2, <1>3, <2>1, <2>2, <2>3, <2>4, OneCommand DEF Shape
<1> QED
  BY <1>4, <1>5

\* What a warm process does for a command keeps the invariant.
LEMMA InWarm ==
    ASSUME CommandInv, NEW c \in Commands,
           TakeCommand(c) \/ RunWarm(c) \/ ReplyWarm(c) \/ ReplyTooLarge(c)
    PROVE  CommandInv'
<1> USE DEF CommandInv
<1>1. command[c] \in CommandRow /\ executed[c] \in Nat /\ Untouched(c) /\ Asked(c) /\ Uncut(c)
  BY DEF Shape
<1> DEFINE s == command[c].server
<1>2. s \in Warm /\ Alive(s) /\ warm[s] \in WarmRow
  BY <1>1 DEF Asked, Shape, TakeCommand, RunWarm, ReplyWarm, ReplyTooLarge, Alive
<1>3. /\ warm'[s] \in WarmRow /\ warm'[s].at \in {"up", "ending"}
      /\ warm' = [warm EXCEPT ![s] = warm'[s]]
  BY <1>2 DEF Shape, WarmRow, Alive, TakeCommand, RunWarm, ReplyWarm, ReplyTooLarge
<1>4. \A q \in Warm : Alive(q) => Alive(q)'
  BY <1>2, <1>3 DEF Shape, Alive
<1>5. /\ command'[c] \in CommandRow
      /\ command' = [command EXCEPT ![c] = command'[c]]
      /\ executed'[c] \in Nat
      /\ executed' = [executed EXCEPT ![c] = executed'[c]]
      /\ remoteLock' \in Commands \cup {"none"}
      /\ cut \subseteq cut' /\ cut' \subseteq Commands
      /\ stateFile' = stateFile /\ stopping' = stopping /\ codeEdited' = codeEdited
  BY <1>1 DEF Shape, CommandRow, TakeCommand, RunWarm, ReplyWarm, ReplyTooLarge, FallsBack, Done, Leave, Become
<1>6. Shape'
  BY <1>3, <1>5 DEF Shape
<1>7. Untouched(c)' /\ Asked(c)' /\ Uncut(c)'
  <2>1. CASE TakeCommand(c)
    BY <1>1, <1>2, <1>4, <2>1 DEF Shape, CommandRow, TakeCommand, FallsBack, Done, Leave, Become, Untouched, Asked, Uncut
  <2>2. CASE RunWarm(c)
    BY <1>1, <1>2, <1>4, <2>2 DEF Shape, CommandRow, RunWarm, Become, Untouched, Asked, Uncut
  <2>3. CASE ReplyWarm(c)
    BY <1>1, <1>2, <2>3 DEF Shape, CommandRow, ReplyWarm, Done, Leave, Untouched, Asked, Uncut
  <2>4. CASE ReplyTooLarge(c)
    BY <1>1, <1>2, <2>4 DEF Shape, CommandRow, ReplyTooLarge, FallsBack, Done, Leave, Untouched, Asked, Uncut
  <2> QED
    BY <2>1, <2>2, <2>3, <2>4
<1> QED
  BY <1>4, <1>5, <1>6, <1>7, OneCommand DEF Shape

\* While a warm process comes up, is asked to end, or the code is edited, every process that is
\* alive stays so.
LEMMA WarmLife ==
    ASSUME CommandInv,
           \/ \E s \in Warm : StartWarm(s) \/ ListenWarm(s)
           \/ EditCode \/ StopWarm \/ RemoveState
    PROVE  CommandInv'
<1> USE DEF CommandInv
<1>1. command' = command /\ executed' = executed /\ cut' = cut /\ remoteLock' = remoteLock
  BY DEF StartWarm, ListenWarm, EditCode, StopWarm, RemoveState
<1>2. /\ warm' \in [Warm -> WarmRow]
      /\ \A s \in Warm : warm[s].at \in {"up", "ending"} => warm'[s].at \in {"up", "ending"}
  <2>1. CASE \E s \in Warm : StartWarm(s) \/ ListenWarm(s)
    BY <2>1 DEF Shape, WarmRow, StartWarm, ListenWarm
  <2>2. CASE EditCode
    <3> DEFINE old(s) == warm[s].at \in {"starting", "up", "ending"}
    <3>1. warm' = [s \in Warm |-> [warm[s] EXCEPT !.outdated = old(s)]]
      BY <2>2 DEF EditCode
    <3>2. \A s \in Warm : warm[s] \in WarmRow /\ old(s) \in BOOLEAN
      BY DEF Shape
    <3> HIDE DEF old
    <3>3. \A s \in Warm : [warm[s] EXCEPT !.outdated = old(s)] \in WarmRow
                         /\ [warm[s] EXCEPT !.outdated = old(s)].at = warm[s].at
      BY <3>2 DEF WarmRow
    <3> QED
      BY <3>1, <3>3
  <2>3. CASE StopWarm \/ RemoveState
    BY <2>3 DEF Shape, WarmRow, StopWarm, RemoveState
  <2> QED
    BY <2>1, <2>2, <2>3
<1>3. stateFile' \in Warm \cup {0} /\ stopping' \in BOOLEAN /\ codeEdited' \in BOOLEAN
  BY DEF Shape, StartWarm, ListenWarm, EditCode, StopWarm, RemoveState
<1>4. Shape'
  BY <1>1, <1>2, <1>3 DEF Shape
<1>5. ASSUME NEW c \in Commands PROVE Untouched(c)' /\ Asked(c)' /\ Uncut(c)'
  BY <1>1, <1>2 DEF Untouched, Asked, Uncut, Alive
<1> QED
  BY <1>4, <1>5

\* The end of a warm process cuts off what it had begun.
LEMMA WarmEnds ==
    ASSUME CommandInv, NEW s \in Warm, EndWarm(s) \/ KillWarm(s)
    PROVE  CommandInv'
<1> USE DEF CommandInv
<1> DEFINE begun == {c \in Commands : command[c].server = s /\ command[c].at \in {"running", "replying"}}
<1>1. PICK did \in SUBSET {c \in begun : command[c].at = "running"} :
        executed' = [c \in Commands |-> IF c \in did THEN executed[c] + 1 ELSE executed[c]]
  BY DEF EndWarm, KillWarm, WarmGone
<1>2. /\ warm' = [warm EXCEPT ![s].at = "gone", ![s].holds = "none", ![s].outdated = FALSE]
      /\ cut' = cut \cup begun
      /\ command' = command /\ stopping' = stopping /\ remoteLock' = remoteLock /\ codeEdited' = codeEdited
  BY DEF EndWarm, KillWarm, WarmGone
<1>3. Shape'
  <2>1. warm' \in [Warm -> WarmRow]
    <3>1. warm[s] \in WarmRow
      BY DEF Shape
    <3>2. [warm[s] EXCEPT !.at = "gone", !.holds = "none", !.outdated = FALSE] \in WarmRow
      BY <3>1 DEF WarmRow
    <3>3. warm' = [warm EXCEPT ![s] = [warm[s] EXCEPT !.at = "gone", !.holds = "none", !.outdated = FALSE]]
      BY <1>2, <3>1 DEF Shape
    <3> QED
      BY <3>2, <3>3 DEF Shape
  <2>2. executed' \in [Commands -> Nat]
    BY <1>1 DEF Shape
  <2>3. stateFile' \in Warm \cup {0}
    BY DEF Shape, EndWarm, KillWarm
  <2> QED
    BY <1>2, <2>1, <2>2, <2>3 DEF Shape
<1>4. ASSUME NEW c \in Commands PROVE Untouched(c)' /\ Asked(c)' /\ Uncut(c)'
  <2>1. CASE c \in begun
    BY <1>2, <2>1 DEF Untouched, Asked, Uncut
  <2>2. CASE c \notin begun
    <3>1. executed'[c] = executed[c] /\ (c \notin cut' => c \notin cut)
      BY <1>1, <1>2, <2>2
    <3>2. ASSUME command[c].at \in {"running", "replying"}, c \notin cut
          PROVE  Alive(command[c].server)'
      <4>1. command[c].server \in Warm \ {s} /\ Alive(command[c].server)
        BY <2>2, <3>2 DEF Asked, Uncut
      <4>2. warm'[command[c].server] = warm[command[c].server]
        BY <1>2, <4>1 DEF Shape
      <4> QED
        BY <4>1, <4>2, <1>2 DEF Alive
    <3> QED
      BY <1>2, <3>1, <3>2 DEF Untouched, Asked, Uncut
  <2> QED
    BY <2>1, <2>2
<1> QED
  BY <1>3, <1>4

\* Every step preserves the invariant.
LEMMA CommandsStep == CommandInv /\ [CommandsNext]_commandVars => CommandInv'
<1> SUFFICES ASSUME CommandInv, [CommandsNext]_commandVars PROVE CommandInv'
  OBVIOUS
<1>1. CASE UNCHANGED commandVars
  BY <1>1 DEF commandVars, CommandInv, Shape, Untouched, Asked, Uncut, Alive
<1> QED
  BY <1>1, ByItself, InWarm, WarmLife, WarmEnds DEF CommandsNext

\* Whichever way a command takes, whatever ends in between: it runs once, unless the process that
\* had begun it ended, or its reply was too large.
THEOREM RunOnce == CommandsSpec => []CommandsRunOnce
<1>1. CommandInv => CommandsRunOnce
  BY DEF CommandInv, Shape, CommandRow, CommandsRunOnce, Untouched, Uncut
<1> QED
  BY <1>1, CommandsInitInv, CommandsStep, PTL DEF CommandsSpec

\* A command runs once where it was sent and once by itself; in a warm process it has run before it
\* is answered only if the process is gone.
TwiceAtMost(c) ==
    /\ executed[c] <= 2
    /\ command[c].at \in {"replying", "direct"} => executed[c] <= 1
    /\ command[c].at = "running" =>
         \/ executed[c] = 0 /\ Alive(command[c].server)
         \/ executed[c] <= 1 /\ warm[command[c].server].at = "gone"
TwiceInv == \A c \in Commands : TwiceAtMost(c)

\* Warm processes live on, and who is gone remains so.
LivesOn ==
    /\ \A s \in Warm : Alive(s) => Alive(s)'
    /\ \A s \in Warm : warm[s].at = "gone" => warm'[s].at = "gone"

\* A command that stays as it is, while warm processes live on.
LEMMA SameTwice ==
    ASSUME CommandInv, TwiceInv, LivesOn, NEW d \in Commands, command'[d] = command[d], executed'[d] = executed[d]
    PROVE  TwiceAtMost(d)'
<1>1. TwiceAtMost(d) /\ Asked(d)
  BY DEF TwiceInv, CommandInv
<1>2. command[d].at = "running" => command[d].server \in Warm
  BY <1>1 DEF Asked
<1> QED
  BY <1>1, <1>2 DEF TwiceAtMost, LivesOn, Alive

\* A step of one command, and of warm processes that live on.
LEMMA OneTwice ==
    ASSUME CommandInv, TwiceInv, LivesOn, NEW c \in Commands,
           \A d \in Commands \ {c} : command'[d] = command[d] /\ executed'[d] = executed[d],
           TwiceAtMost(c)'
    PROVE  TwiceInv'
BY SameTwice DEF TwiceInv

\* What a command does by itself or in the server.
LEMMA TwiceByItself ==
    ASSUME CommandInv, TwiceInv, NEW c \in Commands,
           \/ \E remote \in BOOLEAN : Issue(c, remote)
           \/ TakeRemoteLock(c) \/ RemoteBusy(c) \/ RemoteTimesOut(c) \/ ReadState(c)
           \/ ConnectWarm(c) \/ LoseConnection(c) \/ RunDirectly(c)
    PROVE  TwiceInv'
<1>1. /\ command \in [Commands -> CommandRow] /\ executed \in [Commands -> Nat]
      /\ command[c] \in CommandRow /\ executed[c] \in Nat /\ Untouched(c) /\ TwiceAtMost(c)
  BY DEF CommandInv, Shape, TwiceInv
<1>2. warm' = warm
  BY DEF Issue, TakeRemoteLock, RemoteBusy, RemoteTimesOut, ReadState, ConnectWarm, LoseConnection, RunDirectly
<1>3. LivesOn
  BY <1>2 DEF LivesOn, Alive
<1>4. \A d \in Commands \ {c} : command'[d] = command[d] /\ executed'[d] = executed[d]
  BY <1>1 DEF Issue, TakeRemoteLock, RemoteBusy, RemoteTimesOut, ReadState, ConnectWarm, LoseConnection,
     RunDirectly, Become, Leave, FallsBack, Done
<1>5. TwiceAtMost(c)'
  <2>1. CASE \/ \E remote \in BOOLEAN : Issue(c, remote)
             \/ TakeRemoteLock(c) \/ RemoteBusy(c) \/ ReadState(c) \/ ConnectWarm(c)
    <3>1. executed' = executed /\ executed[c] = 0
      BY <1>1, <2>1 DEF Issue, TakeRemoteLock, RemoteBusy, ReadState, ConnectWarm, Untouched
    <3>2. command'[c].at # "running"
      BY <1>1, <2>1 DEF Issue, TakeRemoteLock, RemoteBusy, ReadState, ConnectWarm, Become, Leave, CommandRow
    <3> QED
      BY <3>1, <3>2 DEF TwiceAtMost
  <2>2. CASE LoseConnection(c)
    <3>1. executed' = executed /\ executed[c] <= 1 /\ command'[c].at \in {"direct", "done"}
      BY <1>1, <2>2 DEF LoseConnection, FallsBack, Done, Leave, CommandRow, Untouched, TwiceAtMost
    <3> QED
      BY <1>1, <3>1 DEF TwiceAtMost
  <2>3. CASE RunDirectly(c)
    <3>1. executed'[c] = executed[c] + 1 /\ executed[c] <= 1 /\ command'[c].at = "done"
      BY <1>1, <2>3 DEF RunDirectly, Done, Leave, CommandRow, TwiceAtMost
    <3> QED
      BY <1>1, <3>1 DEF TwiceAtMost
  <2>4. CASE RemoteTimesOut(c)
    <3>1. CASE command[c].at \in {"sent", "running", "replying"}
      <4>1. command' = [command EXCEPT ![c] = [command[c] EXCEPT !.end = "timeout"]]
        BY <1>1, <2>4, <3>1 DEF RemoteTimesOut, CommandRow
      <4>2. command'[c] = [command[c] EXCEPT !.end = "timeout"]
        BY <1>1, <4>1
      <4>3. command'[c].at = command[c].at /\ command'[c].server = command[c].server
        BY <1>1, <4>2 DEF CommandRow
      <4>4. command[c].at # "direct"
        BY <3>1
      <4>5. \/ executed' = executed
            \/ executed' = [executed EXCEPT ![c] = executed[c] + 0]
        BY <1>1, <2>4, <4>4 DEF RemoteTimesOut
      <4>6. executed'[c] = executed[c]
        BY <1>1, <4>5
      <4> QED
        BY <1>1, <1>2, <4>3, <4>6 DEF TwiceAtMost, Alive
    <3>2. CASE command[c].at \notin {"sent", "running", "replying"}
      <4>1. command' = [command EXCEPT ![c] = [command[c] EXCEPT !.end = "timeout", !.at = "done"]]
        BY <1>1, <2>4, <3>2 DEF RemoteTimesOut, CommandRow
      <4>2. command'[c] = [command[c] EXCEPT !.end = "timeout", !.at = "done"]
        BY <1>1, <4>1
      <4>3. command'[c].at = "done"
        BY <1>1, <4>2 DEF CommandRow
      <4>4. CASE command[c].at = "direct"
        <5>1. executed'[c] = executed[c] \/ executed'[c] = executed[c] + 1
          BY <1>1, <2>4, <4>4 DEF RemoteTimesOut
        <5> QED
          BY <1>1, <4>3, <4>4, <5>1 DEF TwiceAtMost
      <4>5. CASE command[c].at # "direct"
        <5>1. executed'[c] = executed[c] \/ executed'[c] = executed[c] + 0
          BY <1>1, <2>4, <4>5 DEF RemoteTimesOut
        <5> QED
          BY <1>1, <4>3, <5>1 DEF TwiceAtMost
      <4> QED
        BY <4>4, <4>5
    <3> QED
      BY <3>1, <3>2
  <2> QED
    BY <2>1, <2>2, <2>3, <2>4
<1> QED
  BY <1>3, <1>4, <1>5, OneTwice

\* Where the warm processes are after a change of one of them.
LEMMA WarmAt ==
    ASSUME warm \in [Warm -> WarmRow], NEW s \in Warm, NEW x,
           \/ warm' = [warm EXCEPT ![s].at = x] /\ x \in {"ending", warm[s].at}
           \/ warm' = [warm EXCEPT ![s].holds = x]
    PROVE  \A q \in Warm : warm'[q].at = warm[q].at \/ (q = s /\ warm'[q].at = "ending")
<1> SUFFICES ASSUME NEW q \in Warm
             PROVE  warm'[q].at = warm[q].at \/ (q = s /\ warm'[q].at = "ending")
  OBVIOUS
<1>1. warm[q] \in WarmRow /\ warm[s] \in WarmRow
  OBVIOUS
<1>2. CASE warm' = [warm EXCEPT ![s].at = x] /\ x \in {"ending", warm[s].at}
  <2>1. warm'[q] = IF q = s THEN [warm[s] EXCEPT !.at = x] ELSE warm[q]
    BY <1>2
  <2>2. CASE q = s
    <3>1. warm'[q].at = x
      BY <1>1, <2>1, <2>2 DEF WarmRow
    <3> QED
      BY <1>2, <2>2, <3>1
  <2> QED
    BY <2>1, <2>2
<1>3. CASE warm' = [warm EXCEPT ![s].holds = x]
  <2>1. warm'[q] = IF q = s THEN [warm[s] EXCEPT !.holds = x] ELSE warm[q]
    BY <1>3
  <2>2. CASE q = s
    BY <1>1, <2>1, <2>2 DEF WarmRow
  <2> QED
    BY <2>1, <2>2
<1> QED
  BY <1>2, <1>3

\* What a warm process does for a command.
LEMMA TwiceInWarm ==
    ASSUME CommandInv, TwiceInv, NEW c \in Commands,
           TakeCommand(c) \/ RunWarm(c) \/ ReplyWarm(c) \/ ReplyTooLarge(c)
    PROVE  TwiceInv'
<1> DEFINE s == command[c].server
<1>1. /\ command \in [Commands -> CommandRow] /\ executed \in [Commands -> Nat]
      /\ warm \in [Warm -> WarmRow] /\ s \in Warm /\ warm[s] \in WarmRow
      /\ command[c] \in CommandRow /\ executed[c] \in Nat /\ Untouched(c) /\ TwiceAtMost(c)
  BY DEF CommandInv, Shape, TwiceInv, Asked, TakeCommand, RunWarm, ReplyWarm, ReplyTooLarge
<1>2. Alive(s) /\ s # 0 /\ warm[s].at \in {"up", "ending"}
  BY DEF TakeCommand, RunWarm, ReplyWarm, ReplyTooLarge, Alive
<1> HIDE DEF s
<1>3. \A q \in Warm : warm'[q].at = warm[q].at \/ (q = s /\ warm'[q].at = "ending")
  <2>1. CASE TakeCommand(c)
    <3> DEFINE x == IF warm[s].outdated THEN "ending" ELSE warm[s].at
    <3>1. warm' = [warm EXCEPT ![s].at = x] \/ warm' = [warm EXCEPT ![s].holds = c]
      BY <1>1, <2>1 DEF TakeCommand, WarmRow, s
    <3>2. x \in {"ending", warm[s].at}
      OBVIOUS
    <3> HIDE DEF x
    <3> QED
      BY <1>1, <3>1, <3>2, WarmAt
  <2>2. CASE RunWarm(c)
    <3>1. warm' = [warm EXCEPT ![s].holds = "none"]
      BY <2>2 DEF RunWarm, s
    <3> QED
      BY <1>1, <3>1, WarmAt
  <2>3. CASE ReplyWarm(c) \/ ReplyTooLarge(c)
    BY <2>3 DEF ReplyWarm, ReplyTooLarge
  <2> QED
    BY <2>1, <2>2, <2>3
<1>4. LivesOn
  BY <1>2, <1>3 DEF LivesOn, Alive
<1>5. \A d \in Commands \ {c} : command'[d] = command[d] /\ executed'[d] = executed[d]
  BY <1>1 DEF TakeCommand, RunWarm, ReplyWarm, ReplyTooLarge, Become, Leave, FallsBack, Done
<1>6. TwiceAtMost(c)'
  <2>1. CASE TakeCommand(c)
    <3>1. executed' = executed /\ executed[c] = 0
      BY <1>1, <2>1 DEF TakeCommand, Untouched
    <3>2. command'[c].at \in {"direct", "done"} \/ (command'[c].at = "running" /\ command'[c].server = s)
      BY <1>1, <2>1 DEF s, TakeCommand, FallsBack, Become, Leave, Done, CommandRow
    <3> QED
      BY <1>1, <1>2, <1>4, <3>1, <3>2 DEF TwiceAtMost, LivesOn, Alive
  <2>2. CASE RunWarm(c)
    <3>1. command[c].at = "running" /\ command'[c].at = "replying" /\ executed'[c] = executed[c] + 1
      BY <1>1, <2>2 DEF RunWarm, Become, CommandRow
    <3>2. executed[c] = 0
      BY <1>1, <1>2, <3>1 DEF s, TwiceAtMost
    <3> QED
      BY <3>1, <3>2 DEF TwiceAtMost
  <2>3. CASE ReplyWarm(c) \/ ReplyTooLarge(c)
    <3>1. executed' = executed /\ command[c].at = "replying" /\ command'[c].at \in {"direct", "done"}
      BY <1>1, <2>3 DEF ReplyWarm, ReplyTooLarge, FallsBack, Leave, Done, CommandRow
    <3> QED
      BY <1>1, <3>1 DEF TwiceAtMost
  <2> QED
    BY <2>1, <2>2, <2>3
<1> QED
  BY <1>4, <1>5, <1>6, OneTwice

\* The warm processes themselves: with one that ends, the commands it was running may have run.
LEMMA TwiceWarm ==
    ASSUME CommandInv, TwiceInv,
           \/ \E s \in Warm : StartWarm(s) \/ ListenWarm(s) \/ EndWarm(s) \/ KillWarm(s)
           \/ EditCode \/ StopWarm \/ RemoveState
    PROVE  TwiceInv'
<1>1. /\ warm \in [Warm -> WarmRow] /\ executed \in [Commands -> Nat] /\ command' = command
      /\ \A s \in Warm : s # 0 /\ warm[s] \in WarmRow
  BY CommandRowsBlank DEF CommandInv, Shape, StartWarm, ListenWarm, EndWarm, KillWarm, WarmGone, EditCode, StopWarm,
     RemoveState
<1>2. CASE \/ \E s \in Warm : StartWarm(s) \/ ListenWarm(s)
           \/ EditCode \/ StopWarm \/ RemoveState
  <2>1. executed' = executed
    BY <1>2 DEF StartWarm, ListenWarm, EditCode, StopWarm, RemoveState
  <2>2. LivesOn
    <3>1. CASE \E s \in Warm : StartWarm(s) \/ ListenWarm(s)
      BY <1>1, <3>1 DEF StartWarm, ListenWarm, LivesOn, Alive, WarmRow
    <3>2. CASE EditCode
      BY <1>1, <3>2 DEF EditCode, LivesOn, Alive, WarmRow
    <3>3. CASE StopWarm
      BY <1>1, <3>3 DEF StopWarm, LivesOn, Alive, WarmRow, CommandInv, Shape
    <3>4. CASE RemoveState
      BY <1>1, <3>4 DEF RemoveState, LivesOn, Alive
    <3> QED
      BY <1>2, <3>1, <3>2, <3>3, <3>4
  <2> QED
    BY <1>1, <2>1, <2>2, SameTwice DEF TwiceInv
<1>3. ASSUME NEW s \in Warm, EndWarm(s) \/ KillWarm(s) PROVE TwiceInv'
  <2>1. WarmGone(s) /\ warm[s].at # "gone"
    BY <1>3 DEF EndWarm, KillWarm
  <2>2. /\ warm'[s].at = "gone"
        /\ \A q \in Warm \ {s} : warm'[q] = warm[q]
    BY <1>1, <2>1 DEF WarmGone, WarmRow
  <2>3. ASSUME NEW c \in Commands PROVE TwiceAtMost(c)'
    <3>1. /\ \/ executed'[c] = executed[c]
             \/ command[c].server = s /\ command[c].at = "running" /\ executed'[c] = executed[c] + 1
          /\ executed[c] \in Nat /\ TwiceAtMost(c) /\ Asked(c)
      <4>1. PICK did \in SUBSET {d \in Commands : command[d].server = s /\ command[d].at = "running"} :
              executed' = [d \in Commands |-> IF d \in did THEN executed[d] + 1 ELSE executed[d]]
        BY <2>1 DEF WarmGone
      <4>2. executed'[c] = IF c \in did THEN executed[c] + 1 ELSE executed[c]
        BY <4>1
      <4>3. executed[c] \in Nat /\ TwiceAtMost(c) /\ Asked(c)
        BY <1>1 DEF TwiceInv, CommandInv
      <4>4. did \subseteq {d \in Commands : command[d].server = s /\ command[d].at = "running"}
        OBVIOUS
      <4>5. c \in did => command[c].server = s /\ command[c].at = "running"
        BY <4>4
      <4>6. CASE c \in did
        BY <4>2, <4>3, <4>5, <4>6
      <4>7. CASE c \notin did
        BY <4>2, <4>3, <4>7
      <4> QED
        BY <4>6, <4>7
    <3>2. CASE command[c].at = "running" /\ command[c].server = s
      <4>1. executed[c] = 0
        BY <2>1, <3>1, <3>2 DEF TwiceAtMost
      <4> QED
        BY <1>1, <2>2, <3>1, <3>2, <4>1 DEF TwiceAtMost
    <3>3. CASE command[c].at = "running" /\ command[c].server # s
      <4>1. command[c].server \in Warm /\ warm'[command[c].server] = warm[command[c].server]
        BY <2>2, <3>1, <3>3 DEF Asked
      <4> QED
        BY <1>1, <3>1, <3>3, <4>1 DEF TwiceAtMost, Alive
    <3>4. CASE command[c].at # "running"
      BY <1>1, <3>1, <3>4 DEF TwiceAtMost
    <3> QED
      BY <3>2, <3>3, <3>4
  <2> QED
    BY <2>3 DEF TwiceInv
<1> QED
  BY <1>2, <1>3

\* Type correctness, with the bound on what a cut connection can do: nothing is executed a third
\* time.
THEOREM CommandsTypeCorrect == CommandsSpec => []CommandsTypeOK
<1>1. ASSUME CommandsInit PROVE TwiceInv
  BY <1>1 DEF CommandsInit, TwiceInv, TwiceAtMost, NotIssued
<1>2. ASSUME CommandInv, TwiceInv, CommandsNext PROVE TwiceInv'
  BY <1>2, TwiceByItself, TwiceInWarm, TwiceWarm DEF CommandsNext
<1>3. TwiceInv /\ UNCHANGED commandVars => TwiceInv'
  BY DEF commandVars, TwiceInv, TwiceAtMost, Alive
<1>4. ASSUME CommandInv, TwiceInv PROVE CommandsTypeOK
  <2>1. \A c \in Commands : executed[c] \in 0 .. 2
    BY <1>4 DEF CommandInv, Shape, TwiceInv, TwiceAtMost
  <2> QED
    BY <1>4, <2>1 DEF CommandInv, Shape, CommandRow, WarmRow, CommandsTypeOK
<1> QED
  BY <1>1, <1>2, <1>3, <1>4, CommandsInitInv, CommandsStep, PTL DEF CommandsSpec

-----------------------------------------------------------------------------
(* Connections *)

VisitRow == [op : {"none", "connect", "start", "callback", "test", "use", "disconnect"},
             at : {"none", "read", "claimed", "exchanged", "called", "revoked"},
             copy : Configs, flow : Flows \cup {0}]

ConnectionsShape ==
    /\ config \in Configs
    /\ visit \in [Visits -> VisitRow]
    /\ claimed \subseteq Flows

\* A claimed state is out of the cell.
ClaimedIsOut == config.flow \in claimed => config.flow \in restored

\* A callback carries the state of its copy.
CallbackFlow ==
    \A v \in Visits : At(v, "callback", "read") => visit[v].flow # 0 /\ visit[v].flow = visit[v].copy.flow

ConnectionsInv == ConnectionsShape /\ ClaimedIsOut /\ CallbackFlow /\ StateUsedOnce

\* The configuration and the visit that hold nothing.
LEMMA NewRows == NewConfig \in Configs /\ NoVisit \in VisitRow /\ 0 \notin Flows
  BY ConnectionsAssumption DEF NewConfig, Configs, NoVisit, VisitRow, Flows

\* At first no state was issued or claimed.
LEMMA ConnectionsInitInv == ConnectionsInit => ConnectionsInv
<1> SUFFICES ASSUME ConnectionsInit PROVE ConnectionsInv
  OBVIOUS
<1>1. ConnectionsShape
  BY NewRows DEF ConnectionsInit, ConnectionsShape
<1>2. ClaimedIsOut /\ CallbackFlow /\ StateUsedOnce
  BY DEF ConnectionsInit, ClaimedIsOut, CallbackFlow, StateUsedOnce, At, NoVisit
<1> QED
  BY <1>1, <1>2 DEF ConnectionsInv

\* Whatever is written, a claimed state that it puts back is remembered as restored.
LEMMA WritingCell ==
    ASSUME ConnectionsInv, NEW c \in Configs, WriteConfig(c), claimed' = claimed
    PROVE  config' \in Configs /\ ClaimedIsOut' /\ restored \subseteq restored'
  BY DEF ConnectionsInv, ConnectionsShape, ClaimedIsOut, WriteConfig

\* A step that leaves the cell alone.
LEMMA CellKept ==
    ASSUME ConnectionsInv, config' = config, restored' = restored, claimed' = claimed
    PROVE  config' \in Configs /\ ClaimedIsOut' /\ restored \subseteq restored'
  BY DEF ConnectionsInv, ConnectionsShape, ClaimedIsOut

\* A step of one visit keeps the invariant if it leaves the visit in no unread callback.
LEMMA OneVisit ==
    ASSUME ConnectionsInv, NEW v \in Visits,
           config' \in Configs, ClaimedIsOut', restored \subseteq restored',
           claimed' = claimed, twice' = twice,
           visit' = [visit EXCEPT ![v] = visit'[v]], visit'[v] \in VisitRow,
           visit'[v].op = "callback" /\ visit'[v].at = "read"
             => visit'[v].flow # 0 /\ visit'[v].flow = visit'[v].copy.flow
    PROVE  ConnectionsInv'
<1>1. ConnectionsShape'
  BY DEF ConnectionsInv, ConnectionsShape
<1>2. CallbackFlow'
  BY DEF ConnectionsInv, ConnectionsShape, CallbackFlow, At
<1>3. StateUsedOnce'
  BY DEF ConnectionsInv, StateUsedOnce
<1> QED
  BY <1>1, <1>2, <1>3 DEF ConnectionsInv

\* Requests that are served without a state: they take, change and write back their copy.
LEMMA VisitSteps ==
    ASSUME ConnectionsInv, NEW v \in Visits,
           \/ \E op \in {"connect", "start", "test", "use", "disconnect"} : Open(v, op)
           \/ ConnectGoogle(v) \/ GoogleStart(v) \/ GoogleCallback(v)
           \/ ExchangeCode(v) \/ SaveTokens(v) \/ CallTool(v) \/ TestConnection(v) \/ EndCall(v)
           \/ TestWrites(v) \/ Revoke(v) \/ Disconnect(v)
    PROVE  ConnectionsInv'
<1> DEFINE row == visit[v]
<1>1. /\ config \in Configs /\ row \in VisitRow /\ row.copy \in Configs
      /\ visit \in [Visits -> VisitRow] /\ 0 \notin Flows /\ NoVisit \in VisitRow /\ NewConfig \in Configs
  BY NewRows DEF ConnectionsInv, ConnectionsShape, VisitRow
<1>2. CASE \E op \in {"connect", "start", "test", "use", "disconnect"} : Open(v, op)
  <2>1. PICK op \in {"connect", "start", "test", "use", "disconnect"} : Open(v, op)
    BY <1>2
  <2>2. /\ visit'[v] \in VisitRow /\ visit'[v].op # "callback"
        /\ visit' = [visit EXCEPT ![v] = visit'[v]]
    BY <1>1, <2>1 DEF Open, VisitRow, Configs, NewConfig
  <2>3. config' = config /\ restored' = restored /\ claimed' = claimed /\ twice' = twice
    BY <2>1 DEF Open
  <2> QED
    BY <2>2, <2>3, CellKept, OneVisit
<1>3. CASE ConnectGoogle(v)
  <2> DEFINE c == [visit[v].copy EXCEPT !.grant = 0, !.fresh = FALSE]
  <2>1. c \in Configs
    BY <1>1 DEF Configs
  <2>2. WriteConfig(c) /\ claimed' = claimed /\ twice' = twice
    BY <1>3 DEF ConnectGoogle
  <2>3. config' \in Configs /\ ClaimedIsOut' /\ restored \subseteq restored'
    BY <2>1, <2>2, WritingCell
  <2>4. /\ visit'[v] \in VisitRow /\ visit'[v].op # "callback"
        /\ visit' = [visit EXCEPT ![v] = visit'[v]]
    BY <1>1, <1>3, <2>3 DEF ConnectGoogle, VisitRow, NoVisit
  <2> QED
    BY <2>2, <2>3, <2>4, OneVisit
<1>4. CASE GoogleStart(v)
  <2>1. PICK f \in Flows : WriteConfig([visit[v].copy EXCEPT !.flow = f])
    BY <1>4 DEF GoogleStart
  <2>2. [visit[v].copy EXCEPT !.flow = f] \in Configs
    BY <1>1 DEF Configs
  <2>3. claimed' = claimed /\ twice' = twice
    BY <1>4 DEF GoogleStart
  <2>4. config' \in Configs /\ ClaimedIsOut' /\ restored \subseteq restored'
    BY <2>1, <2>2, <2>3, WritingCell
  <2>5. /\ visit'[v] \in VisitRow /\ visit'[v].op # "callback"
        /\ visit' = [visit EXCEPT ![v] = visit'[v]]
    BY <1>1, <1>4 DEF GoogleStart, EndVisit, NoVisit
  <2> QED
    BY <2>3, <2>4, <2>5, OneVisit
<1>5. CASE GoogleCallback(v)
  <2>1. /\ visit'[v] = [op |-> "callback", at |-> "read", copy |-> config, flow |-> config.flow]
        /\ config.flow # 0
        /\ visit' = [visit EXCEPT ![v] = visit'[v]]
    BY <1>1, <1>5 DEF GoogleCallback
  <2>2. visit'[v] \in VisitRow
    BY <1>1, <2>1 DEF VisitRow, Configs
  <2>3. config' = config /\ restored' = restored /\ claimed' = claimed /\ twice' = twice
    BY <1>5 DEF GoogleCallback
  <2> QED
    BY <2>1, <2>2, <2>3, CellKept, OneVisit
<1>6. CASE ExchangeCode(v) \/ EndCall(v) \/ Revoke(v)
  <2>1. config' = config /\ restored' = restored /\ claimed' = claimed /\ twice' = twice
    BY <1>6 DEF ExchangeCode, EndCall, Revoke
  <2>2. /\ visit'[v] \in VisitRow /\ (visit'[v].op # "callback" \/ visit'[v].at # "read")
        /\ visit' = [visit EXCEPT ![v] = visit'[v]]
    <3>1. CASE ExchangeCode(v)
      BY <1>1, <3>1 DEF ExchangeCode, At, EndVisit, GoTo, VisitRow, Configs, NoVisit
    <3>2. CASE EndCall(v)
      BY <1>1, <3>2 DEF EndCall, At, EndVisit, GoTo, VisitRow, NoVisit
    <3>3. CASE Revoke(v)
      BY <1>1, <3>3 DEF Revoke, At, EndVisit, GoTo, VisitRow, NoVisit
    <3> QED
      BY <1>6, <3>1, <3>2, <3>3
  <2> QED
    BY <2>1, <2>2, CellKept, OneVisit
<1>7. CASE SaveTokens(v) \/ TestWrites(v)
  <2>1. PICK c \in Configs : WriteConfig(c)
    BY <1>1, <1>7 DEF SaveTokens, TestWrites, Configs
  <2>2. claimed' = claimed /\ twice' = twice
    BY <1>7 DEF SaveTokens, TestWrites
  <2>3. config' \in Configs /\ ClaimedIsOut' /\ restored \subseteq restored'
    BY <2>1, <2>2, WritingCell
  <2>4. /\ visit'[v] \in VisitRow /\ visit'[v].op # "callback"
        /\ visit' = [visit EXCEPT ![v] = visit'[v]]
    BY <1>1, <1>7 DEF SaveTokens, TestWrites, EndVisit, NoVisit
  <2> QED
    BY <2>2, <2>3, <2>4, OneVisit
<1>8. CASE CallTool(v) \/ TestConnection(v)
  <2>1. GoogleToken(v) /\ visit[v].op # "callback" /\ claimed' = claimed /\ twice' = twice
    BY <1>8 DEF CallTool, TestConnection, At
  <2>2. PICK c \in Configs : GoTo(v, "called", c) /\ (WriteConfig(c) \/ UNCHANGED <<config, restored>>)
    BY <1>1, <2>1 DEF GoogleToken, Configs
  <2>3. config' \in Configs /\ ClaimedIsOut' /\ restored \subseteq restored'
    BY <2>1, <2>2, WritingCell, CellKept
  <2>4. /\ visit'[v] \in VisitRow /\ visit'[v].op # "callback"
        /\ visit' = [visit EXCEPT ![v] = visit'[v]]
    BY <1>1, <2>1, <2>2 DEF GoTo, VisitRow
  <2> QED
    BY <2>1, <2>3, <2>4, OneVisit
<1>9. CASE Disconnect(v)
  <2>1. /\ config' = NewConfig /\ restored' = restored /\ claimed' = claimed /\ twice' = twice
        /\ visit'[v] = NoVisit /\ visit' = [visit EXCEPT ![v] = visit'[v]]
    BY <1>1, <1>9 DEF Disconnect, EndVisit
  <2>2. ClaimedIsOut'
    BY <1>1, <2>1 DEF ClaimedIsOut, NewConfig, ConnectionsInv, ConnectionsShape
  <2> QED
    BY <1>1, <2>1, <2>2, OneVisit DEF NoVisit
<1> QED
  BY <1>2, <1>3, <1>4, <1>5, <1>6, <1>7, <1>8, <1>9

\* The claim: what is in the cell and has been claimed before has been restored, and the state
\* that is claimed leaves the cell.
LEMMA Claiming ==
    ASSUME ConnectionsInv, NEW v \in Visits, ClaimState(v)
    PROVE  ConnectionsInv'
<1> DEFINE f == visit[v].flow
           without == [visit[v].copy EXCEPT !.flow = 0]
<1>1. /\ config \in Configs /\ visit[v] \in VisitRow /\ visit[v].copy \in Configs
      /\ visit \in [Visits -> VisitRow] /\ 0 \notin Flows /\ claimed \subseteq Flows /\ twice \subseteq restored
      /\ f \in Flows /\ f = visit[v].copy.flow
  BY NewRows DEF ConnectionsInv, ConnectionsShape, StateUsedOnce, CallbackFlow, ClaimState, VisitRow, At
<1>2. without \in Configs /\ without.flow = 0
  BY <1>1 DEF Configs
<1>3. CASE ~Unclaimed(v)
  <2>1. /\ config' = config /\ restored' = restored /\ claimed' = claimed /\ twice' = twice
        /\ visit'[v] = NoVisit /\ visit' = [visit EXCEPT ![v] = visit'[v]]
    BY <1>1, <1>3 DEF ClaimState, EndVisit
  <2> QED
    BY <2>1, NewRows, CellKept, OneVisit DEF NoVisit
<1>4. CASE Unclaimed(v)
  <2>1. /\ config = visit[v].copy /\ config' = without
        /\ claimed' = claimed \cup {f} /\ twice' = twice \cup ({f} \cap claimed)
        /\ restored \subseteq restored'
    BY <1>4 DEF ClaimState, Unclaimed, WriteConfig
  <2>2. visit' = [visit EXCEPT ![v].at = "claimed", ![v].copy = without]
    BY <1>4 DEF ClaimState, GoTo
  <2> HIDE DEF without
  <2>3. visit'[v] = [visit[v] EXCEPT !.at = "claimed", !.copy = without] /\ visit'[v].at = "claimed"
    BY <1>1, <2>2 DEF VisitRow
  <2>4. visit'[v] \in VisitRow /\ visit' \in [Visits -> VisitRow]
        /\ \A w \in Visits \ {v} : visit'[w] = visit[w]
    BY <1>1, <1>2, <2>2, <2>3 DEF VisitRow
  <2>5. ConnectionsShape'
    BY <1>1, <1>2, <2>1, <2>4 DEF ConnectionsShape
  <2>6. ClaimedIsOut' /\ StateUsedOnce'
    BY <1>1, <1>2, <2>1 DEF ConnectionsInv, ClaimedIsOut, StateUsedOnce
  <2>7. CallbackFlow'
    BY <2>3, <2>4 DEF ConnectionsInv, CallbackFlow, At
  <2> QED
    BY <2>5, <2>6, <2>7 DEF ConnectionsInv
<1> QED
  BY <1>3, <1>4

\* The access token expires, which is a fact and no write.
LEMMA Expiring ==
    ASSUME ConnectionsInv, AccessTokenExpires
    PROVE  ConnectionsInv'
<1>1. config \in Configs /\ \A v \in Visits : visit[v] \in VisitRow /\ visit[v].copy \in Configs
  BY DEF ConnectionsInv, ConnectionsShape, VisitRow
<1>2. config' \in Configs /\ config'.flow = config.flow
  BY <1>1 DEF AccessTokenExpires, Configs
<1>3. \A v \in Visits : LET c == [visit[v].copy EXCEPT !.fresh = FALSE]
                        IN  c \in Configs /\ c.flow = visit[v].copy.flow
  BY <1>1 DEF Configs
<1>4. \A v \in Visits : /\ [visit[v] EXCEPT !.copy.fresh = FALSE] \in VisitRow
                        /\ [visit[v] EXCEPT !.copy.fresh = FALSE].op = visit[v].op
                        /\ [visit[v] EXCEPT !.copy.fresh = FALSE].at = visit[v].at
                        /\ [visit[v] EXCEPT !.copy.fresh = FALSE].flow = visit[v].flow
                        /\ [visit[v] EXCEPT !.copy.fresh = FALSE].copy.flow = visit[v].copy.flow
  BY <1>1, <1>3 DEF VisitRow
<1>5. visit' = [v \in Visits |-> [visit[v] EXCEPT !.copy.fresh = FALSE]]
      /\ claimed' = claimed /\ twice' = twice /\ restored' = restored
  BY DEF AccessTokenExpires
<1>6. ConnectionsShape'
  BY <1>2, <1>4, <1>5 DEF ConnectionsInv, ConnectionsShape
<1>7. CallbackFlow'
  BY <1>4, <1>5 DEF ConnectionsInv, CallbackFlow, At
<1>8. ClaimedIsOut' /\ StateUsedOnce'
  BY <1>2, <1>5 DEF ConnectionsInv, ClaimedIsOut, StateUsedOnce
<1> QED
  BY <1>6, <1>7, <1>8 DEF ConnectionsInv

\* Every step keeps a claimed state out of the cell, if it was not put back.
LEMMA ConnectionsStep == ConnectionsInv /\ [ConnectionsNext]_connectionVars => ConnectionsInv'
<1> SUFFICES ASSUME ConnectionsInv, [ConnectionsNext]_connectionVars PROVE ConnectionsInv'
  OBVIOUS
<1>1. CASE CreateConnection \/ UNCHANGED connectionVars
  BY <1>1 DEF CreateConnection, connectionVars, ConnectionsInv, ConnectionsShape, ClaimedIsOut,
     CallbackFlow, StateUsedOnce, At
<1> QED
  BY <1>1, VisitSteps, Claiming, Expiring DEF ConnectionsNext

\* For any number of requests and sign-ins: two callbacks of Google with the same state trade at
\* most one code, unless a writer of a stale cell has put the claimed state back (google_callback
\* compares the whole cell before it writes).
THEOREM ClaimedOnce == ConnectionsSpec => []StateUsedOnce
<1>1. ConnectionsInv => StateUsedOnce
  BY DEF ConnectionsInv
<1> QED
  BY <1>1, ConnectionsInitInv, ConnectionsStep, PTL DEF ConnectionsSpec

\* A connection that is connected has a refresh token.
Granted(c) == c.connected => c.grant # 0

\* So do the copies of the requests; whoever connects has read an unconnected cell, and the tokens
\* that a callback holds come from a state it has claimed.
Carries(row) ==
    /\ Granted(row.copy)
    /\ row.op = "connect" => ~row.copy.connected
    /\ row.op = "callback" /\ row.at \in {"claimed", "exchanged"} => row.flow \in claimed
CellInv ==
    /\ link \in {"none", "there", "gone"} /\ grants \subseteq claimed /\ twice \subseteq claimed
    /\ Granted(config)
    /\ \A v \in Visits : Carries(visit[v])

\* A step of one visit.
LEMMA OneCarries ==
    ASSUME ConnectionsInv, CellInv, NEW v \in Visits, claimed \subseteq claimed',
           visit' = [visit EXCEPT ![v] = visit'[v]], Carries(visit[v])',
           link' \in {"none", "there", "gone"}, grants' \subseteq claimed', twice' \subseteq claimed', Granted(config')
    PROVE  CellInv'
<1>1. visit \in [Visits -> VisitRow]
  BY DEF ConnectionsInv, ConnectionsShape
<1>2. ASSUME NEW w \in Visits PROVE Carries(visit[w])'
  <2>1. CASE w = v
    BY <2>1
  <2>2. CASE w # v
    <3>1. visit'[w] = visit[w] /\ Carries(visit[w])
      BY <1>1, <2>2 DEF CellInv
    <3> QED
      BY <3>1 DEF Carries
  <2> QED
    BY <2>1, <2>2
<1> QED
  BY <1>2 DEF CellInv, Granted

\* What a request writes is granted.
LEMMA WriteGranted ==
    ASSUME CellInv, NEW c, Granted(c), WriteConfig(c)
    PROVE  Granted(config')
BY DEF CellInv, WriteConfig

\* Renewing an access token leaves the refresh token as it was.
LEMMA TokenGranted ==
    ASSUME ConnectionsInv, CellInv, NEW v \in Visits, GoogleToken(v)
    PROVE  /\ Granted(config')
           /\ visit' = [visit EXCEPT ![v] = visit'[v]] /\ visit'[v].op = visit[v].op
           /\ visit'[v].at = "called" /\ Granted(visit'[v].copy)
<1> DEFINE c == visit[v].copy
<1>1. /\ visit \in [Visits -> VisitRow] /\ visit[v] \in VisitRow /\ c \in Configs /\ Granted(c)
  BY DEF ConnectionsInv, ConnectionsShape, CellInv, Carries, VisitRow
<1> HIDE DEF c
<1>2. ASSUME NEW d \in Configs, GoTo(v, "called", d)
      PROVE  /\ visit' = [visit EXCEPT ![v] = visit'[v]] /\ visit'[v].op = visit[v].op
             /\ visit'[v].at = "called" /\ visit'[v].copy = d
  BY <1>1, <1>2 DEF GoTo, VisitRow
<1>3. CASE c.grant \in grants /\ ~c.fresh
  <2> DEFINE renewed == [c EXCEPT !.fresh = TRUE]
  <2>1. WriteConfig(renewed) /\ GoTo(v, "called", renewed)
    BY <1>3 DEF GoogleToken, c
  <2>2. renewed \in Configs /\ renewed.connected = c.connected /\ renewed.grant = c.grant
    BY <1>1 DEF Configs
  <2> HIDE DEF renewed
  <2>3. Granted(renewed)
    BY <1>1, <2>2 DEF Granted
  <2> QED
    BY <1>2, <2>1, <2>2, <2>3, WriteGranted
<1>4. CASE ~(c.grant \in grants /\ ~c.fresh)
  <2>1. GoTo(v, "called", c) /\ config' = config
    BY <1>4 DEF GoogleToken, c
  <2> QED
    BY <1>1, <1>2, <2>1 DEF CellInv
<1> QED
  BY <1>3, <1>4

\* Requests that change a connection.
LEMMA VisitCarries ==
    ASSUME ConnectionsInv, CellInv, NEW v \in Visits,
           \/ \E op \in {"connect", "start", "test", "use", "disconnect"} : Open(v, op)
           \/ ConnectGoogle(v) \/ GoogleStart(v) \/ GoogleCallback(v) \/ ClaimState(v)
           \/ ExchangeCode(v) \/ SaveTokens(v) \/ CallTool(v) \/ TestConnection(v) \/ EndCall(v)
           \/ TestWrites(v) \/ Revoke(v) \/ Disconnect(v)
    PROVE  CellInv'
<1> DEFINE row == visit[v]
           c == visit[v].copy
<1>1. /\ config \in Configs /\ row \in VisitRow /\ c \in Configs /\ claimed \subseteq Flows
      /\ visit \in [Visits -> VisitRow] /\ 0 \notin Flows /\ NewConfig \in Configs
  BY NewRows DEF ConnectionsInv, ConnectionsShape, VisitRow
<1>2. /\ Granted(config) /\ Granted(NewConfig) /\ Carries(row) /\ Granted(c)
      /\ link \in {"none", "there", "gone"} /\ grants \subseteq claimed /\ twice \subseteq claimed
  BY DEF CellInv, Granted, NewConfig, Carries
<1>3. ASSUME EndVisit(v)
      PROVE  visit' = [visit EXCEPT ![v] = visit'[v]] /\ Carries(visit[v])'
  <2>1. visit' = [visit EXCEPT ![v] = visit'[v]] /\ visit'[v] = NoVisit
    BY <1>1, <1>3 DEF EndVisit
  <2> QED
    BY <2>1 DEF Carries, Granted, NoVisit, NewConfig
<1>4. CASE \E op \in {"connect", "start", "test", "use", "disconnect"} : Open(v, op)
  <2>1. PICK op \in {"connect", "start", "test", "use", "disconnect"} : Open(v, op)
    BY <1>4
  <2> DEFINE read == IF op = "disconnect" THEN [NewConfig EXCEPT !.grant = config.grant] ELSE config
             new == [op |-> op, at |-> "read", flow |-> 0, copy |-> read]
  <2>2. visit' = [visit EXCEPT ![v] = new] /\ (op = "connect" => ~config.connected)
    BY <2>1 DEF Open
  <2>3. Granted(read) /\ (op = "connect" => read = config)
    BY <1>1, <1>2, <2>1 DEF Granted, NewConfig, Configs
  <2>4. new.op = op /\ new.copy = read
    OBVIOUS
  <2> HIDE DEF read, new
  <2>5. Carries(visit[v])' /\ visit' = [visit EXCEPT ![v] = visit'[v]]
    BY <1>1, <2>2, <2>3, <2>4 DEF Carries
  <2>6. UNCHANGED <<link, config, grants, claimed, twice>>
    BY <2>1 DEF Open
  <2> QED
    BY <1>2, <2>5, <2>6, OneCarries
<1>5. CASE ConnectGoogle(v)
  <2> DEFINE d == [c EXCEPT !.grant = 0, !.fresh = FALSE]
  <2>1. row.op = "connect" /\ WriteConfig(d) /\ UNCHANGED <<link, grants, claimed, twice>>
    BY <1>5 DEF ConnectGoogle, At
  <2>2. Granted(d)
    BY <1>1, <1>2, <2>1 DEF Carries, Granted, Configs
  <2>3. Granted(config')
    BY <2>1, <2>2, WriteGranted
  <2>4. visit' = [visit EXCEPT ![v] = IF link = "there" THEN [row EXCEPT !.op = "start", !.copy = config'] ELSE NoVisit]
    BY <1>1, <1>5 DEF ConnectGoogle
  <2>5. CASE link = "there"
    <3>1. visit'[v] = [row EXCEPT !.op = "start", !.copy = config'] /\ visit' = [visit EXCEPT ![v] = visit'[v]]
      BY <1>1, <2>4, <2>5
    <3>2. visit'[v].op = "start" /\ visit'[v].copy = config'
      BY <1>1, <3>1 DEF VisitRow
    <3>3. Carries(visit[v])'
      BY <2>3, <3>2 DEF Carries
    <3> QED
      BY <1>2, <2>1, <2>3, <3>1, <3>3, OneCarries
  <2>6. CASE link # "there"
    <3>1. EndVisit(v)
      BY <2>4, <2>6 DEF EndVisit
    <3> QED
      BY <1>2, <1>3, <2>1, <2>3, <3>1, OneCarries
  <2> QED
    BY <2>5, <2>6
<1>6. CASE GoogleStart(v)
  <2>1. PICK f \in Flows : WriteConfig([c EXCEPT !.flow = f])
    BY <1>6 DEF GoogleStart
  <2>2. Granted([c EXCEPT !.flow = f])
    BY <1>1, <1>2 DEF Granted, Configs
  <2>3. EndVisit(v) /\ UNCHANGED <<link, grants, claimed, twice>>
    BY <1>6 DEF GoogleStart
  <2> QED
    BY <1>2, <1>3, <2>1, <2>2, <2>3, WriteGranted, OneCarries
<1>7. CASE GoogleCallback(v)
  <2>1. /\ visit' = [visit EXCEPT ![v] = [op |-> "callback", at |-> "read", copy |-> config, flow |-> config.flow]]
        /\ UNCHANGED <<link, config, grants, claimed, twice>>
    BY <1>7 DEF GoogleCallback
  <2>2. visit'[v] = [op |-> "callback", at |-> "read", copy |-> config, flow |-> config.flow]
    BY <1>1, <2>1
  <2>3. visit'[v].op = "callback" /\ visit'[v].at = "read" /\ visit'[v].copy = config
    BY <2>2
  <2>4. Carries(visit[v])'
    BY <1>2, <2>3 DEF Carries
  <2>5. visit' = [visit EXCEPT ![v] = visit'[v]]
    BY <1>1, <2>1, <2>2
  <2> QED
    BY <1>2, <2>1, <2>4, <2>5, OneCarries
<1>8. CASE ClaimState(v)
  <2> DEFINE f == row.flow
             without == [c EXCEPT !.flow = 0]
  <2>1. UNCHANGED <<link, grants>> /\ row.op = "callback"
    BY <1>8 DEF ClaimState, At
  <2>2. CASE Unclaimed(v)
    <3>1. /\ WriteConfig(without) /\ GoTo(v, "claimed", without)
          /\ claimed' = claimed \cup {f} /\ twice' = twice \cup ({f} \cap claimed)
      BY <1>8, <2>2 DEF ClaimState
    <3>2. without \in Configs /\ Granted(without)
      BY <1>1, <1>2, NewRows DEF Configs, Granted
    <3> HIDE DEF without
    <3>3. Granted(config')
      BY <3>1, <3>2, WriteGranted
    <3>4. visit' = [visit EXCEPT ![v] = visit'[v]] /\ visit'[v].op = "callback" /\ visit'[v].copy = without /\ visit'[v].flow = f
      BY <1>1, <2>1, <3>1 DEF GoTo, VisitRow
    <3>5. Carries(visit[v])'
      BY <3>1, <3>2, <3>4 DEF Carries
    <3> QED
      BY <1>2, <2>1, <3>1, <3>3, <3>4, <3>5, OneCarries
  <2>3. CASE ~Unclaimed(v)
    <3>1. EndVisit(v) /\ UNCHANGED <<config, claimed, twice>>
      BY <1>8, <2>3 DEF ClaimState
    <3> QED
      BY <1>2, <1>3, <2>1, <3>1, OneCarries
  <2> QED
    BY <2>2, <2>3
<1>9. CASE ExchangeCode(v)
  <2> DEFINE f == row.flow
             d == [c EXCEPT !.connected = TRUE, !.grant = f, !.fresh = TRUE]
  <2>1. UNCHANGED <<link, config, claimed, twice>> /\ f \in claimed /\ row.op = "callback"
    BY <1>2, <1>9 DEF ExchangeCode, At, Carries
  <2>2. CASE EndVisit(v) /\ UNCHANGED grants
    BY <1>2, <1>3, <2>1, <2>2, OneCarries
  <2>3. CASE grants' = grants \cup {f} /\ GoTo(v, "exchanged", d)
    <3>1. Granted(d)
      BY <1>1, <2>1 DEF Granted, Configs
    <3> HIDE DEF d
    <3>2. visit' = [visit EXCEPT ![v] = visit'[v]] /\ visit'[v].op = "callback" /\ visit'[v].copy = d /\ visit'[v].flow = f
      BY <1>1, <2>1, <2>3 DEF GoTo, VisitRow
    <3>3. Carries(visit[v])'
      BY <2>1, <3>1, <3>2 DEF Carries
    <3> QED
      BY <1>2, <2>1, <2>3, <3>2, <3>3, OneCarries
  <2> QED
    BY <1>9, <2>2, <2>3 DEF ExchangeCode
<1>10. CASE SaveTokens(v)
  <2>1. WriteConfig(c) /\ EndVisit(v) /\ UNCHANGED <<link, grants, claimed, twice>>
    BY <1>10 DEF SaveTokens
  <2> QED
    BY <1>2, <1>3, <2>1, WriteGranted, OneCarries
<1>11. CASE CallTool(v) \/ TestConnection(v)
  <2>1. GoogleToken(v) /\ UNCHANGED <<link, grants, claimed, twice>> /\ row.op \in {"use", "test"}
    BY <1>11 DEF CallTool, TestConnection, At
  <2>2. /\ Granted(config')
        /\ visit' = [visit EXCEPT ![v] = visit'[v]] /\ visit'[v].op = row.op
        /\ visit'[v].at = "called" /\ Granted(visit'[v].copy)
    BY <2>1, TokenGranted
  <2>3. Carries(visit[v])'
    BY <2>1, <2>2 DEF Carries
  <2> QED
    BY <1>2, <2>1, <2>2, <2>3, OneCarries
<1>12. CASE EndCall(v)
  <2>1. UNCHANGED <<link, config, grants, claimed, twice>> /\ row.op = "use"
    BY <1>12 DEF EndCall, At
  <2>2. CASE GoTo(v, "read", c)
    <3>1. visit' = [visit EXCEPT ![v] = visit'[v]] /\ visit'[v].op = "use" /\ visit'[v].copy = c
      BY <1>1, <2>1, <2>2 DEF GoTo, VisitRow
    <3>2. Carries(visit[v])'
      BY <1>2, <3>1 DEF Carries
    <3> QED
      BY <1>2, <2>1, <3>1, <3>2, OneCarries
  <2>3. CASE EndVisit(v)
    BY <1>2, <1>3, <2>1, <2>3, OneCarries
  <2> QED
    BY <1>12, <2>2, <2>3 DEF EndCall
<1>13. CASE TestWrites(v)
  <2>1. WriteConfig([c EXCEPT !.tested = TRUE]) /\ EndVisit(v) /\ UNCHANGED <<link, grants, claimed, twice>>
    BY <1>13 DEF TestWrites
  <2>2. Granted([c EXCEPT !.tested = TRUE])
    BY <1>1, <1>2 DEF Granted, Configs
  <2> QED
    BY <1>2, <1>3, <2>1, <2>2, WriteGranted, OneCarries
<1>14. CASE Revoke(v)
  <2>1. UNCHANGED <<link, config, claimed, twice>> /\ grants' \subseteq grants /\ row.op = "disconnect"
    BY <1>14 DEF Revoke, At
  <2>2. CASE GoTo(v, "revoked", c)
    <3>1. visit' = [visit EXCEPT ![v] = visit'[v]] /\ visit'[v].op = "disconnect" /\ visit'[v].copy = c
      BY <1>1, <2>1, <2>2 DEF GoTo, VisitRow
    <3>2. Carries(visit[v])'
      BY <1>2, <3>1 DEF Carries
    <3> QED
      BY <1>2, <2>1, <3>1, <3>2, OneCarries
  <2>3. CASE EndVisit(v)
    BY <1>2, <1>3, <2>1, <2>3, OneCarries
  <2> QED
    BY <1>14, <2>2, <2>3 DEF Revoke
<1>15. CASE Disconnect(v)
  <2>1. link' = "gone" /\ config' = NewConfig /\ EndVisit(v) /\ UNCHANGED <<grants, claimed, twice>>
    BY <1>15 DEF Disconnect
  <2> QED
    BY <1>2, <1>3, <2>1, OneCarries
<1> QED
  BY <1>4, <1>5, <1>6, <1>7, <1>8, <1>9, <1>10, <1>11, <1>12, <1>13, <1>14, <1>15

\* Nobody's request: the row is made, or the access tokens expire.
LEMMA CellAlone ==
    ASSUME ConnectionsInv, CellInv, CreateConnection \/ AccessTokenExpires
    PROVE  CellInv'
<1>1. /\ config \in Configs /\ visit \in [Visits -> VisitRow]
      /\ \A v \in Visits : visit[v] \in VisitRow /\ visit[v].copy \in Configs /\ Carries(visit[v])
  BY DEF ConnectionsInv, ConnectionsShape, VisitRow, CellInv
<1>2. CASE CreateConnection
  BY <1>2 DEF CreateConnection, CellInv, Carries, Granted
<1>3. CASE AccessTokenExpires
  <2>1. Granted(config')
    BY <1>1, <1>3 DEF AccessTokenExpires, CellInv, Granted, Configs
  <2>2. UNCHANGED <<link, grants, claimed, twice>>
    BY <1>3 DEF AccessTokenExpires
  <2>3. ASSUME NEW v \in Visits PROVE Carries(visit[v])'
    <3> DEFINE d == [visit[v].copy EXCEPT !.fresh = FALSE]
    <3>1. visit'[v] = [visit[v] EXCEPT !.copy = d]
      BY <1>1, <1>3 DEF AccessTokenExpires
    <3>2. d.connected = visit[v].copy.connected /\ d.grant = visit[v].copy.grant
      BY <1>1 DEF Configs
    <3> HIDE DEF d
    <3>3. visit'[v].op = visit[v].op /\ visit'[v].at = visit[v].at /\ visit'[v].flow = visit[v].flow /\ visit'[v].copy = d
      BY <1>1, <3>1 DEF VisitRow
    <3> QED
      BY <1>1, <2>2, <3>2, <3>3 DEF Carries, Granted
  <2> QED
    BY <2>1, <2>2, <2>3 DEF CellInv
<1> QED
  BY <1>2, <1>3

\* Type correctness, with what ties the rows together: no connection counts as connected without a
\* refresh token, and Google accepts none that does not come from a state which was claimed.
THEOREM ConnectionsTypeCorrect == ConnectionsSpec => []ConnectionsTypeOK
<1>1. ASSUME ConnectionsInit PROVE CellInv
  BY <1>1 DEF ConnectionsInit, CellInv, Carries, Granted, NoVisit, NewConfig
<1>2. ASSUME ConnectionsInv, CellInv, ConnectionsNext PROVE CellInv'
  <2>1. CASE CreateConnection \/ AccessTokenExpires
    BY <1>2, <2>1, CellAlone
  <2>2. CASE ~(CreateConnection \/ AccessTokenExpires)
    BY <1>2, <2>2, VisitCarries DEF ConnectionsNext
  <2> QED
    BY <2>1, <2>2
<1>3. CellInv /\ UNCHANGED connectionVars => CellInv'
  BY DEF connectionVars, CellInv, Carries, Granted
<1>4. ConnectionsInv /\ CellInv => ConnectionsTypeOK
  BY DEF ConnectionsInv, ConnectionsShape, CellInv, Granted, VisitRow, ConnectionsTypeOK
<1> QED
  BY <1>1, <1>2, <1>3, <1>4, ConnectionsInitInv, ConnectionsStep, PTL DEF ConnectionsSpec

-----------------------------------------------------------------------------
(* Migration *)

StartRow == [at : Places, table : Tables \cup {"tables", "none"}, old : SUBSET Tables,
             absent : BOOLEAN, attempt : Nat]

MigrationShape ==
    /\ db \in Databases /\ draft \in Databases
    /\ holder \in Starters \cup {Nobody}
    /\ starting \in [Starters -> StartRow]
    /\ written \in [Tables -> SUBSET Rows]

\* e is as d, or further upgraded: nothing is ever undone.
Forward(d, e) ==
    /\ d.there => e.there
    /\ d.added \subseteq e.added
    /\ e.old \subseteq d.old
    /\ d.numbered => e.numbered
    /\ e.plain => d.plain

Upgraded(d) == d.there /\ d.added = Tables /\ d.old = {} /\ d.numbered /\ ~d.plain

\* The tables that come before t.
Before(t) == {u \in Tables : \/ u = "triggers" /\ t \in {"threads", "messages"}
                             \/ u = "threads" /\ t = "messages"}

\* What is missing has been looked for in order, and what is old has been noted.
Examining(p) ==
    starting[p].at \in {"look", "add"} =>
        /\ starting[p].table \in Tables \cup {"tables"}
        /\ starting[p].table \in Tables => db.there
        /\ Before(starting[p].table) \subseteq db.added
        /\ Before(starting[p].table) \cap db.old \subseteq starting[p].old
        /\ starting[p].at = "add" => {starting[p].table} \cap db.old \subseteq starting[p].old

\* The tables that may still be of the old shape.
Left(p) ==
    IF starting[p].at = "skills" THEN Tables
    ELSE IF starting[p].at = "number" THEN {"threads", "messages"}
    ELSE IF starting[p].at = "commit" THEN {}
    ELSE Tables \ Before(starting[p].table)

Rebuilding(p) ==
    starting[p].at \in {"skills", "create", "copy", "drop", "rename", "number", "commit"} =>
        /\ Sees(p).there /\ Sees(p).added = Tables
        /\ Sees(p).old \subseteq starting[p].old \cap Left(p)
        /\ starting[p].at # "skills" => ~Sees(p).plain
        /\ starting[p].at \in {"create", "copy", "drop", "rename"} => starting[p].table \in Tables
        /\ starting[p].at \in {"drop", "rename"} => holder = p
        /\ \/ starting[p].at \in {"skills", "number"}
           \/ starting[p].at # "commit" /\ starting[p].table = "triggers"
           \/ holder = p /\ draft.numbered

\* The transaction of p holds every row that has been written, those of a dropped table in the copy.
Holding(p) ==
    holder = p =>
        /\ starting[p].at \in {"create", "copy", "drop", "rename", "number", "commit"}
        /\ \A t \in Tables : \/ draft.rows[t] = written[t]
                             \/ starting[p].at = "rename" /\ starting[p].table = t
        /\ starting[p].at \in {"drop", "rename"} => draft.copied[starting[p].table] = written[starting[p].table]

Initialised(p) == starting[p].at \in {"default", "insert", "up"} => Upgraded(db)

StarterInv(p) == Examining(p) /\ Rebuilding(p) /\ Holding(p) /\ Initialised(p)

MigrationInv ==
    /\ MigrationShape
    /\ holder = Nobody => draft = db
    /\ Forward(db, draft)
    /\ RowsKept
    /\ \A p \in Starters : StarterInv(p)

-----------------------------------------------------------------------------

\* The tables are rebuilt in this order.
LEMMA Sequence ==
    /\ After("tables") = "triggers" /\ After("triggers") = "threads"
    /\ After("threads") = "messages" /\ After("messages") = "none"
  BY DEF After

\* At first the database is an old one, or there is none.
LEMMA MigrationInitInv == MigrationInit => MigrationInv
<1> SUFFICES ASSUME MigrationInit PROVE MigrationInv
  OBVIOUS
<1>1. PICK plain \in BOOLEAN :
        db = [there |-> FALSE, added |-> {}, old |-> Tables, copies |-> {},
              rows |-> [t \in Tables |-> {1}], copied |-> [t \in Tables |-> {}],
              plain |-> plain, numbered |-> FALSE]
  BY DEF MigrationInit
<1>2. db \in Databases /\ \A t \in Tables : db.rows[t] = {1}
  BY <1>1, MigrationAssumption DEF Databases, Rows
<1>3. MigrationShape
  BY <1>2, MigrationAssumption DEF MigrationInit, MigrationShape, StartRow, NotStarting, Places, Rows
<1>4. Forward(db, draft) /\ RowsKept
  BY <1>2 DEF MigrationInit, Forward, RowsKept
<1>5. ASSUME NEW p \in Starters PROVE StarterInv(p)
  BY <1>3, MigrationAssumption DEF MigrationInit, MigrationShape, NotStarting, StarterInv, Examining, Rebuilding,
     Holding, Initialised
<1> QED
  BY <1>3, <1>4, <1>5 DEF MigrationInv, MigrationInit

\* Upgrading further goes on from what is upgraded.
LEMMA Further ==
    ASSUME NEW d, NEW e, NEW f
    PROVE  /\ Forward(d, d)
           /\ Forward(d, e) /\ Forward(e, f) => Forward(d, f)
  BY DEF Forward

\* A process that does not move stays where it was, whoever else upgrades the database.
LEMMA Others ==
    ASSUME MigrationInv, NEW q \in Starters, starting'[q] = starting[q],
           db' \in Databases, Forward(db, db'),
           holder = q => holder' = q /\ draft' = draft /\ written' = written,
           holder # q => holder' # q
    PROVE  StarterInv(q)'
<1>1. StarterInv(q) /\ db \in Databases /\ starting[q] \in StartRow
  BY DEF MigrationInv, MigrationShape
<1>2. Examining(q)' /\ Initialised(q)'
  BY <1>1 DEF StarterInv, Examining, Initialised, Forward, Upgraded, Databases
<1>3. Holding(q)'
  BY <1>1 DEF StarterInv, Holding
<1>4. Left(q)' = Left(q)
  BY DEF Left, Before
<1>5. Rebuilding(q)'
  <2>1. CASE holder = q
    BY <1>1, <1>4, <2>1 DEF StarterInv, Rebuilding, Sees
  <2>2. CASE holder # q
    <3>1. Sees(q) = db /\ Sees(q)' = db'
      BY <2>2 DEF Sees
    <3> QED
      BY <1>1, <1>4, <2>2, <3>1 DEF StarterInv, Rebuilding, Forward, Databases
  <2> QED
    BY <2>1, <2>2
<1> QED
  BY <1>2, <1>3, <1>5 DEF StarterInv

\* A step of p that moves the database, with the write lock free or its own.
LEMMA OneStarter ==
    ASSUME MigrationInv, NEW p \in Starters,
           starting' = [starting EXCEPT ![p] = starting'[p]], starting'[p] \in StartRow,
           db' \in Databases, draft' \in Databases, written' = written,
           holder \in {Nobody, p}, holder' \in {Nobody, p},
           Forward(db, db'), Forward(db', draft'),
           holder' = Nobody => draft' = db', RowsKept', StarterInv(p)'
    PROVE  MigrationInv'
<1>1. MigrationShape'
  BY DEF MigrationInv, MigrationShape
<1>2. ASSUME NEW q \in Starters \ {p} PROVE StarterInv(q)'
  <2>1. starting'[q] = starting[q] /\ holder # q /\ holder' # q
    BY MigrationAssumption DEF MigrationInv, MigrationShape
  <2> QED
    BY <2>1, Others
<1> QED
  BY <1>1, <1>2 DEF MigrationInv

\* A step of p that leaves the database alone.
LEMMA Quietly ==
    ASSUME MigrationInv, NEW p \in Starters,
           starting' = [starting EXCEPT ![p] = starting'[p]], starting'[p] \in StartRow,
           UNCHANGED <<db, draft, holder, written>>, StarterInv(p)'
    PROVE  MigrationInv'
<1>1. MigrationShape'
  BY DEF MigrationInv, MigrationShape
<1>2. ASSUME NEW q \in Starters \ {p} PROVE StarterInv(q)'
  <2>1. starting'[q] = starting[q] /\ db \in Databases
    BY DEF MigrationInv, MigrationShape
  <2>2. Forward(db, db')
    BY DEF Forward
  <2> QED
    BY <2>1, <2>2, Others
<1> QED
  BY <1>1, <1>2 DEF MigrationInv, Forward, RowsKept

\* The row of a starter that goes on to another place.
LEMMA Going ==
    ASSUME MigrationInv, NEW p \in Starters, NEW place \in Places, NEW t \in Tables \cup {"tables", "none"},
           Go(p, place, t)
    PROVE  /\ starting' = [starting EXCEPT ![p] = starting'[p]]
           /\ starting'[p] \in StartRow
           /\ starting'[p].at = place /\ starting'[p].table = t /\ starting'[p].old = starting[p].old
  BY DEF MigrationInv, MigrationShape, StartRow, Go

-----------------------------------------------------------------------------

\* A process that begins again knows nothing and holds nothing.
LEMMA Anew ==
    ASSUME NEW p \in Starters, holder' # p,
           \/ starting'[p].at \in {"off", "failed"}
           \/ starting'[p].at = "look" /\ starting'[p].table = "tables"
    PROVE  StarterInv(p)'
  BY DEF StarterInv, Examining, Rebuilding, Holding, Initialised, Before, Tables

\* The rows of a starter that is off, begins, or has failed.
LEMMA FreshRows ==
    /\ NotStarting \in StartRow /\ NotStarting.at = "off"
    /\ LET row == [NotStarting EXCEPT !.at = "look", !.table = "tables"]
       IN  row \in StartRow /\ row.at = "look" /\ row.table = "tables"
    /\ LET row == [NotStarting EXCEPT !.at = "failed"]
       IN  row \in StartRow /\ row.at = "failed"
    /\ \A n \in Nat : LET row == [NotStarting EXCEPT !.at = "look", !.table = "tables", !.attempt = n]
                      IN  row \in StartRow /\ row.at = "look" /\ row.table = "tables"
<1>1. NotStarting \in StartRow /\ NotStarting.at = "off"
  BY DEF NotStarting, StartRow, Places
<1> QED
  BY <1>1 DEF StartRow, Places

\* init_db() begins.
LEMMA Beginning ==
    ASSUME MigrationInv, NEW p \in Starters, BeginInit(p)
    PROVE  MigrationInv'
<1>1. /\ starting \in [Starters -> StartRow] /\ starting[p].at \in {"off", "failed"} /\ holder # p
      /\ UNCHANGED <<db, draft, holder, written>>
  BY DEF MigrationInv, MigrationShape, BeginInit, StarterInv, Holding
<1> DEFINE row == [NotStarting EXCEPT !.at = "look", !.table = "tables"]
<1>2. starting' = [starting EXCEPT ![p] = row]
  BY DEF BeginInit
<1>3. row \in StartRow /\ row.at = "look" /\ row.table = "tables"
  BY FreshRows
<1> HIDE DEF row
<1>4. starting'[p] = row
  BY <1>1, <1>2
<1>5. StarterInv(p)'
  BY <1>1, <1>3, <1>4, Anew
<1> QED
  BY <1>1, <1>2, <1>3, <1>4, <1>5, Quietly

\* The default rows are looked for and inserted.
LEMMA LookingAtDefaults ==
    ASSUME MigrationInv, NEW p \in Starters, LookForDefault(p) \/ InsertDefault(p)
    PROVE  MigrationInv'
<1>1. UNCHANGED <<db, draft, holder, written>> /\ starting[p].at \in {"default", "insert"}
  BY DEF LookForDefault, InsertDefault, IsAt
<1>2. PICK place \in {"insert", "up"} : Go(p, place, "none")
  BY DEF LookForDefault, InsertDefault
<1>3. /\ starting' = [starting EXCEPT ![p] = starting'[p]] /\ starting'[p] \in StartRow
      /\ starting'[p].at = place
  BY <1>2, Going DEF Places
<1>4. holder # p /\ Upgraded(db)
  BY <1>1 DEF MigrationInv, StarterInv, Holding, Initialised
<1>5. StarterInv(p)'
  BY <1>1, <1>3, <1>4 DEF StarterInv, Examining, Rebuilding, Holding, Initialised, Upgraded
<1> QED
  BY <1>1, <1>3, <1>5, Quietly

\* The inspector remembers of every old table that it is old.
LEMMA LookingAtColumns ==
    ASSUME MigrationInv, NEW p \in Starters, Look(p)
    PROVE  MigrationInv'
<1> DEFINE t == starting[p].table
           absent == IF t = "tables" THEN ~db.there ELSE t \notin db.added
           old == starting[p].old \cup ({t} \cap db.old)
           looked == [starting[p] EXCEPT !.absent = absent, !.old = @ \cup ({t} \cap db.old)]
<1>1. /\ starting[p] \in StartRow /\ starting \in [Starters -> StartRow] /\ db \in Databases
      /\ starting[p].at = "look" /\ Examining(p) /\ holder # p
      /\ UNCHANGED <<db, draft, holder, written>>
  BY DEF MigrationInv, MigrationShape, Look, IsAt, StarterInv, Holding
<1>2. t \in Tables \cup {"tables"} /\ After(t) \in Tables \cup {"none"}
  BY <1>1, Sequence DEF Examining, Tables
<1>3. starting' = [starting EXCEPT ![p] = IF absent THEN [looked EXCEPT !.at = "add"]
                          ELSE IF After(t) = "none" THEN [looked EXCEPT !.at = "skills"]
                          ELSE [looked EXCEPT !.table = After(t)]]
  BY DEF Look
<1>4. absent \in BOOLEAN /\ old \in SUBSET Tables
  BY <1>1 DEF Databases, StartRow
<1>5. looked \in StartRow /\ looked.at = "look" /\ looked.table = t /\ looked.old = old
  BY <1>1, <1>4 DEF StartRow
<1> HIDE DEF looked
<1>6. CASE absent
  <2>1. starting'[p] = [looked EXCEPT !.at = "add"] /\ starting' = [starting EXCEPT ![p] = starting'[p]]
    BY <1>1, <1>3, <1>6
  <2>2. /\ starting'[p] \in StartRow /\ starting'[p].at = "add" /\ starting'[p].table = t
        /\ starting'[p].old = old
    BY <1>5, <2>1 DEF StartRow, Places
  <2>3. StarterInv(p)'
    BY <1>1, <1>2, <2>2 DEF StarterInv, Examining, Rebuilding, Holding, Initialised
  <2> QED
    BY <1>1, <2>1, <2>2, <2>3, Quietly
<1>7. CASE ~absent /\ After(t) = "none"
  <2>1. starting'[p] = [looked EXCEPT !.at = "skills"] /\ starting' = [starting EXCEPT ![p] = starting'[p]]
    BY <1>1, <1>3, <1>7
  <2>2. /\ starting'[p] \in StartRow /\ starting'[p].at = "skills" /\ starting'[p].table = t
        /\ starting'[p].old = old
    BY <1>5, <2>1 DEF StartRow, Places
  <2>3. t = "messages"
    BY <1>2, <1>7, Sequence DEF Tables
  <2>4. db.there /\ db.added = Tables /\ db.old \subseteq old
    BY <1>1, <1>7, <2>3 DEF Examining, Before, Tables, Databases
  <2>5. StarterInv(p)'
    BY <1>1, <1>4, <2>2, <2>4 DEF StarterInv, Examining, Rebuilding, Holding, Initialised, Sees, Left
  <2> QED
    BY <1>1, <2>1, <2>2, <2>5, Quietly
<1>8. CASE ~absent /\ After(t) # "none"
  <2>1. starting'[p] = [looked EXCEPT !.table = After(t)] /\ starting' = [starting EXCEPT ![p] = starting'[p]]
    BY <1>1, <1>3, <1>8
  <2>2. /\ starting'[p] \in StartRow /\ starting'[p].at = "look" /\ starting'[p].table = After(t)
        /\ starting'[p].old = old
    BY <1>2, <1>5, <2>1 DEF StartRow
  <2>3. /\ After(t) \in Tables /\ db.there
        /\ Before(After(t)) \subseteq db.added /\ Before(After(t)) \cap db.old \subseteq old
    <3>1. CASE t = "tables"
      BY <1>8, <3>1, Sequence DEF Before, Tables
    <3>2. CASE t = "triggers"
      <4>1. After(t) \in Tables /\ Before(After(t)) = {"triggers"}
        BY <3>2, Sequence DEF Before, Tables
      <4>2. "triggers" \in db.added /\ db.there
        BY <1>1, <1>8, <3>2 DEF Examining, Tables
      <4> QED
        BY <3>2, <4>1, <4>2
    <3>3. CASE t = "threads"
      BY <1>1, <1>8, <3>3, Sequence DEF Before, Tables, Examining
    <3> QED
      BY <1>2, <1>8, <3>1, <3>2, <3>3, Sequence DEF Tables
  <2>4. StarterInv(p)'
    BY <1>1, <2>2, <2>3 DEF StarterInv, Examining, Rebuilding, Holding, Initialised
  <2> QED
    BY <1>1, <2>1, <2>2, <2>4, Quietly
<1> QED
  BY <1>6, <1>7, <1>8

\* What this inspector missed is added: by nobody else, or the attempt begins again.
LEMMA Adding ==
    ASSUME MigrationInv, NEW p \in Starters, Add(p)
    PROVE  MigrationInv'
<1> DEFINE t == starting[p].table
           place == IF After(t) = "none" THEN "skills" ELSE "look"
           next == IF After(t) = "none" THEN t ELSE After(t)
           with == IF t = "tables" THEN [db EXCEPT !.there = TRUE] ELSE [db EXCEPT !.added = @ \cup {t}]
<1>1. /\ starting[p] \in StartRow /\ starting \in [Starters -> StartRow] /\ db \in Databases
      /\ starting[p].at = "add" /\ Examining(p) /\ holder = Nobody /\ draft = db /\ RowsKept
      /\ written' = written
  BY DEF MigrationInv, MigrationShape, Add, IsAt, LockFree, StarterInv, Holding
<1>2. t \in Tables \cup {"tables"} /\ next \in Tables /\ place \in Places
  BY <1>1, Sequence DEF Examining, Tables, Places
<1>3. /\ with \in Databases /\ with.rows = db.rows /\ with.old = db.old /\ Forward(db, with)
      /\ with.there /\ with.added = db.added \cup ({t} \ {"tables"})
  BY <1>1, <1>2 DEF Databases, Forward, Examining, Tables
<1>4. db' = with /\ draft' = with /\ holder' = Nobody
  BY <1>1, MigrationAssumption DEF Add, Execute
<1> HIDE DEF with
<1>5. Go(p, place, next)
  BY DEF Add
<1>6. /\ starting' = [starting EXCEPT ![p] = starting'[p]] /\ starting'[p] \in StartRow
      /\ starting'[p].at = place /\ starting'[p].table = next /\ starting'[p].old = starting[p].old
  BY <1>2, <1>5, Going
<1>7. Before(t) \subseteq db.added /\ Before(t) \cap db.old \subseteq starting[p].old
      /\ {t} \cap db.old \subseteq starting[p].old
  BY <1>1 DEF Examining
<1>8. holder' # p /\ RowsKept' /\ Forward(db', draft')
  BY <1>1, <1>3, <1>4, MigrationAssumption, Further DEF RowsKept
<1>9. StarterInv(p)'
  <2>1. CASE t = "messages"
    <3>1. place = "skills"
      BY <2>1, Sequence
    <3>2. db'.added = Tables /\ db'.there /\ db'.old \subseteq starting[p].old /\ db'.old \subseteq Tables
      BY <1>1, <1>3, <1>4, <1>7, <2>1 DEF Before, Tables, Databases
    <3> QED
      BY <1>6, <1>8, <3>1, <3>2 DEF StarterInv, Examining, Rebuilding, Holding, Initialised, Sees, Left
  <2>2. CASE t # "messages"
    <3>1. place = "look" /\ next = After(t)
      BY <1>2, <2>2, Sequence DEF Tables
    <3>2. Before(next) \subseteq Before(t) \cup ({t} \ {"tables"})
      BY <1>2, <2>2, <3>1, Sequence DEF Before, Tables
    <3>3. db'.there /\ Before(next) \subseteq db'.added /\ Before(next) \cap db'.old \subseteq starting[p].old
      BY <1>3, <1>4, <1>7, <3>2
    <3> QED
      BY <1>2, <1>6, <1>8, <3>1, <3>3 DEF StarterInv, Examining, Rebuilding, Holding, Initialised
  <2> QED
    BY <2>1, <2>2
<1> QED
  BY <1>1, <1>3, <1>4, <1>6, <1>8, <1>9, OneStarter

\* Emojis are given in a transaction, if one is needed.
LEMMA GivingEmojis ==
    ASSUME MigrationInv, NEW p \in Starters, SkillRows(p)
    PROVE  MigrationInv'
<1>1. /\ starting[p] \in StartRow /\ db \in Databases /\ draft \in Databases
      /\ starting[p].at = "skills" /\ Rebuilding(p) /\ holder # p /\ Sees(p) = db /\ RowsKept
      /\ written' = written /\ Go(p, "create", "triggers")
  BY DEF MigrationInv, MigrationShape, SkillRows, IsAt, StarterInv, Holding, Sees
<1>2. /\ starting' = [starting EXCEPT ![p] = starting'[p]] /\ starting'[p] \in StartRow
      /\ starting'[p].at = "create" /\ starting'[p].table = "triggers" /\ starting'[p].old = starting[p].old
  BY <1>1, Going DEF Places, Tables
<1>3. /\ db.there /\ db.added = Tables /\ db.old \subseteq starting[p].old /\ db.old \subseteq Tables
  BY <1>1 DEF Rebuilding, Databases
<1>4. CASE ~db.plain /\ UNCHANGED <<db, draft, holder>>
  <2>1. StarterInv(p)'
    BY <1>1, <1>2, <1>3, <1>4 DEF StarterInv, Examining, Rebuilding, Holding, Initialised, Sees, Left, Before, Tables
  <2> QED
    BY <1>1, <1>2, <1>4, <2>1, Quietly
<1>5. CASE LockFree(p) /\ Modify(p, [Sees(p) EXCEPT !.plain = FALSE])
  <2> DEFINE given == [db EXCEPT !.plain = FALSE]
  <2>1. holder = Nobody /\ holder' = p /\ db' = db /\ draft' = given
    BY <1>1, <1>5 DEF LockFree, Modify
  <2>2. /\ given \in Databases /\ Forward(db, given) /\ given.rows = db.rows /\ given.there
        /\ given.added = Tables /\ given.old = db.old /\ ~given.plain
    BY <1>1, <1>3 DEF Databases, Forward
  <2> HIDE DEF given
  <2>3. StarterInv(p)'
    BY <1>1, <1>2, <1>3, <2>1, <2>2 DEF StarterInv, Examining, Rebuilding, Holding, Initialised, Sees, Left,
       Before, Tables, RowsKept
  <2>4. holder' # Nobody /\ RowsKept' /\ Forward(db, db')
    BY <1>1, <2>1, MigrationAssumption, Further DEF RowsKept
  <2> QED
    BY <1>1, <1>2, <2>1, <2>2, <2>3, <2>4, OneStarter
<1> QED
  BY <1>4, <1>5 DEF SkillRows

-----------------------------------------------------------------------------

\* Where a process goes when a table is done with.
LEMMA AfterTable ==
    ASSUME NEW t \in Tables
    PROVE  /\ Rebuilt(t) \in Places /\ NextTable(t) \in Tables \cup {"none"}
           /\ t = "triggers" => Rebuilt(t) = "number"
           /\ t = "threads" => Rebuilt(t) = "create" /\ NextTable(t) = "messages"
           /\ t = "messages" => Rebuilt(t) = "commit"
  BY Sequence DEF Rebuilt, NextTable, Tables, Places

\* A table that is not of the old shape any more has nothing left to rebuild.
LEMMA TableDone ==
    ASSUME MigrationInv, NEW p \in Starters, NEW t \in Tables, starting[p].table = t,
           starting[p].at \in {"create", "rename"},
           Go(p, Rebuilt(t), NextTable(t)),
           Sees(p)'.there, Sees(p)'.added = Tables, ~Sees(p)'.plain, Sees(p)'.old \subseteq Sees(p).old \ {t},
           holder = p => holder' = p /\ (draft.numbered => draft'.numbered),
           holder' = p => \A u \in Tables : draft'.rows[u] = written'[u]
    PROVE  StarterInv(p)'
<1>1. /\ starting'[p] \in StartRow
      /\ starting'[p].at = Rebuilt(t) /\ starting'[p].table = NextTable(t) /\ starting'[p].old = starting[p].old
  BY AfterTable, Going
<1>2. Rebuilding(p) /\ Sees(p).old \subseteq starting[p].old \ Before(t)
  BY DEF MigrationInv, StarterInv, Rebuilding, Left
<1>3. CASE t = "triggers"
  BY <1>1, <1>2, <1>3, AfterTable DEF StarterInv, Examining, Rebuilding, Holding, Initialised, Left, Before, Tables
<1>4. CASE t \in {"threads", "messages"}
  <2>1. holder = p /\ draft.numbered
    BY <1>2, <1>4 DEF Rebuilding
  <2>2. CASE t = "threads"
    BY <1>1, <1>2, <2>1, <2>2, AfterTable DEF StarterInv, Examining, Rebuilding, Holding, Initialised, Left,
       Before, Tables
  <2>3. CASE t = "messages"
    BY <1>1, <1>2, <2>1, <2>3, AfterTable DEF StarterInv, Examining, Rebuilding, Holding, Initialised, Left,
       Before, Tables
  <2> QED
    BY <1>4, <2>2, <2>3
<1> QED
  BY <1>3, <1>4 DEF Tables

\* A table that is not old is not rebuilt.
LEMMA Skipping ==
    ASSUME MigrationInv, NEW p \in Starters, SkipRebuild(p)
    PROVE  MigrationInv'
<1> DEFINE t == starting[p].table
<1>1. /\ starting[p].at = "create" /\ t \notin starting[p].old /\ Rebuilding(p) /\ Holding(p)
      /\ UNCHANGED <<db, draft, holder, written>> /\ t \in Tables
      /\ Go(p, Rebuilt(t), NextTable(t))
  BY DEF MigrationInv, SkipRebuild, IsAt, StarterInv, Rebuilding
<1>2. Sees(p)' = Sees(p) /\ Sees(p).old \subseteq starting[p].old
  BY <1>1 DEF Sees, Rebuilding
<1>3. /\ Sees(p)'.there /\ Sees(p)'.added = Tables /\ ~Sees(p)'.plain
      /\ Sees(p)'.old \subseteq Sees(p).old \ {t}
  BY <1>1, <1>2 DEF Rebuilding
<1>4. holder' = p => \A u \in Tables : draft'.rows[u] = written'[u]
  BY <1>1 DEF Holding
<1>5. StarterInv(p)'
  BY <1>1, <1>3, <1>4, TableDone
<1> QED
  BY <1>1, <1>5, Quietly, Going, AfterTable

\* The copy is made; if p is in no transaction yet this is committed by itself.
LEMMA Copying ==
    ASSUME MigrationInv, NEW p \in Starters, CreateCopy(p)
    PROVE  MigrationInv'
<1> DEFINE t == starting[p].table
           d == [Sees(p) EXCEPT !.copies = @ \cup {t}, !.copied[t] = {}]
<1>1. /\ starting[p].at = "create" /\ Rebuilding(p) /\ Holding(p) /\ t \in Tables
      /\ holder \in {Nobody, p} /\ written' = written /\ Go(p, "copy", t)
      /\ db \in Databases /\ draft \in Databases /\ Sees(p) \in Databases /\ RowsKept
      /\ holder = Nobody => draft = db
      /\ Forward(db, draft)
  BY DEF MigrationInv, MigrationShape, CreateCopy, IsAt, LockFree, StarterInv, Rebuilding, Sees
<1>2. /\ d \in Databases /\ d.rows = Sees(p).rows /\ d.old = Sees(p).old /\ d.there = Sees(p).there
      /\ d.added = Sees(p).added /\ d.plain = Sees(p).plain /\ d.numbered = Sees(p).numbered
  <2>1. [Sees(p).copied EXCEPT ![t] = {}] \in [Tables -> SUBSET Rows]
    BY <1>1 DEF Databases
  <2> QED
    BY <1>1, <2>1 DEF Databases
<1>3. IF t = "triggers" THEN Execute(p, d) ELSE Modify(p, d)
  BY DEF CreateCopy
<1>4. /\ starting' = [starting EXCEPT ![p] = starting'[p]] /\ starting'[p] \in StartRow
      /\ starting'[p].at = "copy" /\ starting'[p].table = t /\ starting'[p].old = starting[p].old
  BY <1>1, Going DEF Places
<1> HIDE DEF d
<1>5. /\ holder' \in {Nobody, p} /\ draft' = d /\ (holder = p => holder' = p)
      /\ IF holder' = p THEN db' = db ELSE db' = d
      /\ holder' = Nobody => t = "triggers" /\ holder = Nobody
  BY <1>1, <1>3, MigrationAssumption DEF Execute, Modify
<1>6. /\ Forward(db, d) /\ db' \in Databases /\ Forward(db, db') /\ Forward(db', draft')
      /\ holder' = Nobody => draft' = db'
  BY <1>1, <1>2, <1>5, MigrationAssumption, Further DEF Forward, Sees
<1>7. RowsKept'
  BY <1>1, <1>2, <1>5, MigrationAssumption DEF RowsKept, Sees
<1>8. Sees(p)' = d
  BY <1>5 DEF Sees
<1>9. Rebuilding(p)'
  <2>1. Sees(p).old \subseteq starting[p].old \cap (Tables \ Before(t))
    BY <1>1 DEF Rebuilding, Left
  <2>2. t = "triggers" \/ (holder = p /\ draft.numbered)
    BY <1>1 DEF Rebuilding
  <2>3. t = "triggers" \/ (holder' = p /\ draft'.numbered)
    BY <1>2, <1>5, <2>2 DEF Sees
  <2> QED
    BY <1>1, <1>2, <1>4, <1>8, <2>1, <2>3 DEF Rebuilding, Left
<1>10. \A u \in Tables : d.rows[u] = written[u]
  BY <1>1, <1>2 DEF Sees, RowsKept, Holding
<1>11. StarterInv(p)'
  BY <1>1, <1>4, <1>5, <1>9, <1>10 DEF StarterInv, Examining, Holding, Initialised
<1> QED
  BY <1>1, <1>2, <1>4, <1>5, <1>6, <1>7, <1>11, OneStarter

\* A step of p within its transaction, or that begins it.
LEMMA Within ==
    ASSUME MigrationInv, NEW p \in Starters, NEW d \in Databases,
           holder \in {Nobody, p}, holder' = p, db' = db, draft' = d, written' = written,
           Forward(Sees(p), d),
           starting' = [starting EXCEPT ![p] = starting'[p]], starting'[p] \in StartRow, StarterInv(p)'
    PROVE  MigrationInv'
<1>1. Forward(db, Sees(p)) /\ Forward(db, db) /\ RowsKept' /\ db' \in Databases
  BY Further DEF MigrationInv, MigrationShape, Sees, RowsKept
<1>2. Forward(db, d) /\ Forward(db, db') /\ Forward(db', draft')
  BY <1>1, Further
<1> QED
  BY <1>1, <1>2, MigrationAssumption, OneStarter

\* The rows are copied to the new table.
LEMMA CopyingRows ==
    ASSUME MigrationInv, NEW p \in Starters, CopyRows(p)
    PROVE  MigrationInv'
<1> DEFINE t == starting[p].table
           d == [Sees(p) EXCEPT !.copied[t] = Sees(p).rows[t]]
<1>1. /\ starting[p].at = "copy" /\ Rebuilding(p) /\ Holding(p) /\ t \in Tables
      /\ holder \in {Nobody, p} /\ written' = written /\ Go(p, "drop", t)
      /\ Sees(p) \in Databases /\ RowsKept
      /\ holder' = p /\ db' = db /\ draft' = d
  BY DEF MigrationInv, MigrationShape, CopyRows, IsAt, LockFree, Modify, StarterInv, Rebuilding, Sees
<1>2. /\ d \in Databases /\ d.rows = Sees(p).rows /\ d.old = Sees(p).old /\ d.there = Sees(p).there
      /\ d.added = Sees(p).added /\ d.plain = Sees(p).plain /\ d.numbered = Sees(p).numbered
      /\ d.copied[t] = Sees(p).rows[t]
  <2>1. /\ [Sees(p).copied EXCEPT ![t] = Sees(p).rows[t]] \in [Tables -> SUBSET Rows]
        /\ [Sees(p).copied EXCEPT ![t] = Sees(p).rows[t]][t] = Sees(p).rows[t]
    BY <1>1 DEF Databases
  <2> QED
    BY <1>1, <2>1 DEF Databases
<1>3. /\ starting' = [starting EXCEPT ![p] = starting'[p]] /\ starting'[p] \in StartRow
      /\ starting'[p].at = "drop" /\ starting'[p].table = t /\ starting'[p].old = starting[p].old
  BY <1>1, Going DEF Places
<1> HIDE DEF d
<1>4. \A u \in Tables : d.rows[u] = written[u]
  BY <1>1, <1>2 DEF Sees, RowsKept, Holding
<1>5. Rebuilding(p)'
  <2>1. Sees(p).old \subseteq starting[p].old \cap (Tables \ Before(t)) /\ Sees(p)' = d
    BY <1>1 DEF Rebuilding, Left, Sees
  <2>2. t = "triggers" \/ d.numbered
    BY <1>1, <1>2 DEF Rebuilding, Sees
  <2> QED
    BY <1>1, <1>2, <1>3, <2>1, <2>2 DEF Rebuilding, Left
<1>6. StarterInv(p)'
  BY <1>1, <1>2, <1>3, <1>4, <1>5 DEF StarterInv, Examining, Holding, Initialised
<1>7. Forward(Sees(p), d)
  BY <1>2 DEF Forward
<1> QED
  BY <1>1, <1>2, <1>3, <1>6, <1>7, Within

\* The old table is dropped, when its rows are in the copy.
LEMMA Dropping ==
    ASSUME MigrationInv, NEW p \in Starters, DropOld(p)
    PROVE  MigrationInv'
<1> DEFINE t == starting[p].table
           d == [Sees(p) EXCEPT !.rows[t] = {}]
<1>1. /\ starting[p].at = "drop" /\ Rebuilding(p) /\ Holding(p) /\ t \in Tables
      /\ holder = p /\ written' = written /\ Go(p, "rename", t)
      /\ Sees(p) = draft /\ draft \in Databases
      /\ holder' = p /\ db' = db /\ draft' = d
  BY DEF MigrationInv, MigrationShape, DropOld, IsAt, Execute, StarterInv, Rebuilding, Sees
<1>2. /\ d \in Databases /\ d.copied = draft.copied /\ d.old = draft.old /\ d.there = draft.there
      /\ d.added = draft.added /\ d.plain = draft.plain /\ d.numbered = draft.numbered
      /\ \A u \in Tables \ {t} : d.rows[u] = draft.rows[u]
  <2>1. /\ [draft.rows EXCEPT ![t] = {}] \in [Tables -> SUBSET Rows]
        /\ \A u \in Tables \ {t} : [draft.rows EXCEPT ![t] = {}][u] = draft.rows[u]
    BY <1>1 DEF Databases
  <2> QED
    BY <1>1, <2>1 DEF Databases
<1>3. /\ starting' = [starting EXCEPT ![p] = starting'[p]] /\ starting'[p] \in StartRow
      /\ starting'[p].at = "rename" /\ starting'[p].table = t /\ starting'[p].old = starting[p].old
  BY <1>1, Going DEF Places
<1> HIDE DEF d
<1>4. /\ \A u \in Tables \ {t} : d.rows[u] = written[u]
      /\ d.copied[t] = written[t]
  BY <1>1, <1>2 DEF Holding
<1>5. Rebuilding(p)'
  <2>1. draft.old \subseteq starting[p].old \cap (Tables \ Before(t)) /\ Sees(p)' = d
    BY <1>1 DEF Rebuilding, Left, Sees
  <2>2. t = "triggers" \/ d.numbered
    BY <1>1, <1>2 DEF Rebuilding
  <2> QED
    BY <1>1, <1>2, <1>3, <2>1, <2>2 DEF Rebuilding, Left
<1>6. StarterInv(p)'
  BY <1>1, <1>2, <1>3, <1>4, <1>5 DEF StarterInv, Examining, Holding, Initialised
<1>7. Forward(Sees(p), d)
  BY <1>1, <1>2 DEF Forward
<1> QED
  BY <1>1, <1>2, <1>3, <1>6, <1>7, Within

\* The copy takes the name of the table.
LEMMA Renaming ==
    ASSUME MigrationInv, NEW p \in Starters, RenameCopy(p)
    PROVE  MigrationInv'
<1> DEFINE t == starting[p].table
           d == [Sees(p) EXCEPT !.rows[t] = Sees(p).copied[t], !.copied[t] = {},
                                !.copies = @ \ {t}, !.old = @ \ {t}]
<1>1. /\ starting[p].at = "rename" /\ Rebuilding(p) /\ Holding(p) /\ t \in Tables
      /\ holder = p /\ written' = written /\ Go(p, Rebuilt(t), NextTable(t))
      /\ Sees(p) = draft /\ draft \in Databases
      /\ holder' = p /\ db' = db /\ draft' = d
  BY DEF MigrationInv, MigrationShape, RenameCopy, IsAt, Execute, StarterInv, Rebuilding, Sees
<1>2. /\ d \in Databases /\ d.old = draft.old \ {t} /\ d.there = draft.there
      /\ d.added = draft.added /\ d.plain = draft.plain /\ d.numbered = draft.numbered
      /\ \A u \in Tables \ {t} : d.rows[u] = draft.rows[u]
      /\ d.rows[t] = draft.copied[t]
  <2> DEFINE rows == [draft.rows EXCEPT ![t] = draft.copied[t]]
             copied == [draft.copied EXCEPT ![t] = {}]
  <2>1. /\ rows \in [Tables -> SUBSET Rows] /\ copied \in [Tables -> SUBSET Rows]
        /\ \A u \in Tables \ {t} : rows[u] = draft.rows[u]
        /\ rows[t] = draft.copied[t]
    BY <1>1 DEF Databases
  <2>2. d = [draft EXCEPT !.rows = rows, !.copied = copied, !.copies = draft.copies \ {t}, !.old = draft.old \ {t}]
    BY <1>1 DEF Databases
  <2> HIDE DEF rows, copied, d
  <2>3. d \in Databases /\ d.rows = rows /\ d.old = draft.old \ {t} /\ d.there = draft.there
        /\ d.added = draft.added /\ d.plain = draft.plain /\ d.numbered = draft.numbered
    BY <1>1, <2>1, <2>2 DEF Databases
  <2> QED
    BY <2>1, <2>3
<1>3. starting' = [starting EXCEPT ![p] = starting'[p]] /\ starting'[p] \in StartRow
  BY <1>1, Going, AfterTable
<1> HIDE DEF d
<1>4. \A u \in Tables : d.rows[u] = written[u]
  BY <1>1, <1>2 DEF Holding
<1>5. Sees(p)' = d /\ d.there /\ d.added = Tables /\ ~d.plain
  BY <1>1, <1>2 DEF Sees, Rebuilding
<1>6. StarterInv(p)'
  BY <1>1, <1>2, <1>4, <1>5, TableDone
<1>7. Forward(Sees(p), d)
  BY <1>1, <1>2 DEF Forward
<1> QED
  BY <1>1, <1>2, <1>3, <1>6, <1>7, Within

\* Old issues get their numbers.
LEMMA Numbering ==
    ASSUME MigrationInv, NEW p \in Starters, NumberIssues(p)
    PROVE  MigrationInv'
<1> DEFINE d == [Sees(p) EXCEPT !.numbered = TRUE]
<1>1. /\ starting[p].at = "number" /\ Rebuilding(p) /\ Holding(p)
      /\ holder \in {Nobody, p} /\ written' = written /\ Go(p, "create", "threads")
      /\ Sees(p) \in Databases /\ RowsKept
      /\ holder' = p /\ db' = db /\ draft' = d
  BY DEF MigrationInv, MigrationShape, NumberIssues, IsAt, LockFree, Modify, StarterInv, Sees
<1>2. /\ d \in Databases /\ d.rows = Sees(p).rows /\ d.old = Sees(p).old /\ d.there = Sees(p).there
      /\ d.added = Sees(p).added /\ d.plain = Sees(p).plain /\ d.numbered
  BY <1>1 DEF Databases
<1>3. /\ starting' = [starting EXCEPT ![p] = starting'[p]] /\ starting'[p] \in StartRow
      /\ starting'[p].at = "create" /\ starting'[p].table = "threads" /\ starting'[p].old = starting[p].old
  BY <1>1, Going DEF Places, Tables
<1> HIDE DEF d
<1>4. \A u \in Tables : d.rows[u] = written[u]
  BY <1>1, <1>2 DEF Sees, RowsKept, Holding
<1>5. Rebuilding(p)'
  <2>1. Sees(p).old \subseteq starting[p].old \cap {"threads", "messages"} /\ Sees(p)' = d
    BY <1>1 DEF Rebuilding, Left, Sees
  <2> QED
    BY <1>1, <1>2, <1>3, <2>1 DEF Rebuilding, Left, Before, Tables
<1>6. StarterInv(p)'
  BY <1>1, <1>2, <1>3, <1>4, <1>5 DEF StarterInv, Examining, Holding, Initialised
<1>7. Forward(Sees(p), d)
  BY <1>1, <1>2 DEF Forward
<1> QED
  BY <1>1, <1>2, <1>3, <1>6, <1>7, Within

\* The schema is committed whole, with every row.
LEMMA Committing ==
    ASSUME MigrationInv, NEW p \in Starters, CommitSchema(p)
    PROVE  MigrationInv'
<1>1. /\ starting[p].at = "commit" /\ holder = p /\ Rebuilding(p) /\ Holding(p) /\ Sees(p) = draft
      /\ draft \in Databases /\ Forward(db, draft)
      /\ db' = draft /\ draft' = draft /\ holder' = Nobody /\ written' = written /\ Go(p, "default", "none")
  BY DEF MigrationInv, MigrationShape, CommitSchema, IsAt, StarterInv, Rebuilding, Sees
<1>2. /\ starting' = [starting EXCEPT ![p] = starting'[p]] /\ starting'[p] \in StartRow
      /\ starting'[p].at = "default"
  BY <1>1, Going DEF Places
<1>3. RowsKept'
  BY <1>1 DEF RowsKept, Holding
<1>4. Upgraded(draft)
  BY <1>1 DEF Rebuilding, Left, Upgraded
<1>5. holder' # p /\ Forward(db', draft')
  BY <1>1, MigrationAssumption, Further
<1>6. StarterInv(p)'
  BY <1>1, <1>2, <1>4, <1>5 DEF StarterInv, Examining, Rebuilding, Holding, Initialised, Upgraded
<1> QED
  BY <1>1, <1>2, <1>3, <1>5, <1>6, OneStarter

\* A row that is written reaches no table that is being rebuilt: the lock is free.
LEMMA Writing ==
    ASSUME MigrationInv, NEW p \in Starters, NEW t \in Tables, NEW r \in Rows, WriteRow(p, t, r)
    PROVE  MigrationInv'
<1> DEFINE d == [db EXCEPT !.rows[t] = @ \cup {r}]
<1>1. /\ holder = Nobody /\ holder' = Nobody /\ starting' = starting /\ db \in Databases
      /\ db' = d /\ draft' = d /\ written' = [written EXCEPT ![t] = @ \cup {r}]
      /\ written \in [Tables -> SUBSET Rows] /\ RowsKept
  BY DEF MigrationInv, MigrationShape, WriteRow
<1>2. /\ d \in Databases /\ d.there = db.there /\ d.old = db.old /\ d.added = db.added /\ d.plain = db.plain
      /\ d.numbered = db.numbered /\ d.rows = [db.rows EXCEPT ![t] = @ \cup {r}]
  <2>1. [db.rows EXCEPT ![t] = @ \cup {r}] \in [Tables -> SUBSET Rows]
    BY <1>1 DEF Databases
  <2> QED
    BY <1>1, <2>1 DEF Databases
<1> HIDE DEF d
<1>3. Forward(db, db') /\ Forward(db', draft')
  BY <1>1, <1>2, Further DEF Forward
<1>4. RowsKept'
  BY <1>1, <1>2 DEF RowsKept, Databases
<1>5. MigrationShape'
  BY <1>1, <1>2 DEF MigrationInv, MigrationShape
<1>6. ASSUME NEW q \in Starters PROVE StarterInv(q)'
  BY <1>1, <1>2, <1>3, Others, MigrationAssumption
<1> QED
  BY <1>1, <1>3, <1>4, <1>5, <1>6 DEF MigrationInv

\* An attempt that ends leaves nothing behind but what was committed by itself.
LEMMA RollingBack ==
    ASSUME MigrationInv, NEW p \in Starters, RollBack(p), written' = written,
           NEW row \in StartRow, starting' = [starting EXCEPT ![p] = row],
           row.at \in {"off", "failed"} \/ (row.at = "look" /\ row.table = "tables")
    PROVE  MigrationInv'
<1>1. starting'[p] = row /\ starting' = [starting EXCEPT ![p] = starting'[p]]
  BY DEF MigrationInv, MigrationShape
<1>2. db' = db /\ holder' # p
  BY MigrationAssumption DEF RollBack
<1>3. StarterInv(p)'
  BY <1>1, <1>2, Anew
<1>4. CASE holder = p
  <2>1. holder' = Nobody /\ draft' = db /\ RowsKept' /\ db \in Databases /\ Forward(db, db)
    BY <1>2, <1>4, Further DEF RollBack, MigrationInv, MigrationShape, RowsKept
  <2> QED
    BY <1>1, <1>2, <1>3, <1>4, <2>1, OneStarter
<1>5. CASE holder # p
  BY <1>1, <1>2, <1>3, <1>5, Quietly DEF RollBack
<1> QED
  BY <1>4, <1>5

\* An attempt that fails or is killed leaves the database as it was committed.
LEMMA AttemptEnds ==
    ASSUME MigrationInv, NEW p \in Starters, Again(p) \/ NoSuchColumn(p) \/ Killed(p)
    PROVE  MigrationInv'
<1>1. RollBack(p) /\ written' = written /\ starting[p].attempt + 1 \in Nat
  BY DEF Again, NoSuchColumn, Killed, MigrationInv, MigrationShape, StartRow
<1> DEFINE failed == [NotStarting EXCEPT !.at = "failed"]
           again == [NotStarting EXCEPT !.at = "look", !.table = "tables", !.attempt = starting[p].attempt + 1]
<1>2. PICK row \in {NotStarting, failed, again} : starting' = [starting EXCEPT ![p] = row]
  <2>1. CASE Again(p)
    BY <2>1 DEF Again
  <2>2. CASE NoSuchColumn(p) \/ Killed(p)
    BY <2>2 DEF NoSuchColumn, Killed
  <2> QED
    BY <2>1, <2>2
<1>3. row \in StartRow /\ (row.at \in {"off", "failed"} \/ (row.at = "look" /\ row.table = "tables"))
  BY <1>1, <1>2, FreshRows
<1> QED
  BY <1>1, <1>2, <1>3, RollingBack

\* Every step keeps the rows, and goes on from what is upgraded.
LEMMA MigrationStep == MigrationInv /\ [MigrationNext]_migrationVars => MigrationInv'
<1> SUFFICES ASSUME MigrationInv, [MigrationNext]_migrationVars PROVE MigrationInv'
  OBVIOUS
<1>1. CASE UNCHANGED migrationVars
  <2>1. MigrationShape' /\ RowsKept' /\ Forward(db, draft)' /\ (holder' = Nobody => draft' = db')
    BY <1>1 DEF migrationVars, MigrationInv, MigrationShape, RowsKept, Forward
  <2>2. ASSUME NEW q \in Starters PROVE StarterInv(q)'
    BY <1>1, Others, Further DEF migrationVars, MigrationInv, MigrationShape
  <2> QED
    BY <2>1, <2>2 DEF MigrationInv
<1>2. CASE MigrationNext
  <2>1. PICK p \in Starters :
          \/ BeginInit(p) \/ Look(p) \/ Add(p) \/ SkillRows(p) \/ SkipRebuild(p) \/ CreateCopy(p)
          \/ CopyRows(p) \/ DropOld(p) \/ RenameCopy(p) \/ NumberIssues(p) \/ CommitSchema(p)
          \/ LookForDefault(p) \/ InsertDefault(p) \/ Again(p) \/ NoSuchColumn(p) \/ Killed(p)
          \/ \E t \in Tables, r \in Rows : WriteRow(p, t, r)
    BY <1>2 DEF MigrationNext
  <2> QED
    BY <2>1, Beginning, LookingAtColumns, Adding, GivingEmojis, Skipping, Copying, CopyingRows, Dropping, Renaming,
       Numbering, Committing, LookingAtDefaults, Writing, AttemptEnds
<1> QED
  BY <1>1, <1>2

\* For any number of processes, attempts, kills and rows: whatever an inspector saw before others
\* rebuilt the tables, no committed row is ever missing from its table, and a process that is up
\* finds the whole schema (init_db).
THEOREM UpgradesAreSafe == MigrationSpec => []UpgradeIsSafe
<1>1. MigrationInv => UpgradeIsSafe
  BY DEF MigrationInv, StarterInv, Initialised, Upgraded, UpgradeIsSafe, StartedOnSchema, IsAt
<1> QED
  BY <1>1, MigrationInitInv, MigrationStep, PTL DEF MigrationSpec

\* The processes that have seen no default workspace and are going to insert one.
AboutToInsert == {p \in Starters : starting[p].at = "insert"}

\* A second one is inserted by those who looked before there was a first.
DefaultInv ==
    /\ \A p \in Starters : starting[p].attempt < InitAttempts
    /\ kills \in 0 .. MaxKills
    /\ defaults \in Nat /\ defaults + Cardinality(AboutToInsert) <= Cardinality(Starters)

\* The processes can be counted.
LEMMA StartersCounted ==
    ASSUME NEW S \in SUBSET Starters, NEW T \in SUBSET S
    PROVE  /\ IsFiniteSet(S) /\ Cardinality(S) \in Nat /\ Cardinality(T) \in Nat
           /\ Cardinality(T) <= Cardinality(S) /\ Cardinality(S) <= Cardinality(Starters) /\ Cardinality(Starters) \in Nat
<1>1. IsFiniteSet(Starters) /\ IsFiniteSet(S) /\ Cardinality(S) <= Cardinality(Starters)
  BY MigrationAssumption, FS_Subset
<1>2. IsFiniteSet(T) /\ Cardinality(T) <= Cardinality(S)
  BY <1>1, FS_Subset
<1> QED
  BY <1>1, <1>2, FS_CardinalityType

\* A step of one process that does not lead it to the insertion.
LEMMA NotInserting ==
    ASSUME MigrationInv, DefaultInv, NEW p \in Starters, NEW row, starting' = [starting EXCEPT ![p] = row],
           row.at # "insert", row.attempt \in Nat, row.attempt < InitAttempts,
           defaults' = defaults, kills' \in 0 .. MaxKills
    PROVE  DefaultInv'
<1>1. /\ starting \in [Starters -> StartRow] /\ starting'[p] = row
      /\ \A q \in Starters \ {p} : starting'[q] = starting[q]
  BY DEF MigrationInv, MigrationShape
<1>2. AboutToInsert' \subseteq AboutToInsert /\ AboutToInsert \subseteq Starters
  BY <1>1 DEF AboutToInsert
<1>3. /\ Cardinality(AboutToInsert) \in Nat /\ Cardinality(AboutToInsert') \in Nat /\ Cardinality(Starters) \in Nat
      /\ Cardinality(AboutToInsert') <= Cardinality(AboutToInsert)
  BY <1>2, StartersCounted
<1>4. defaults' + Cardinality(AboutToInsert') <= Cardinality(Starters)
  BY <1>3 DEF DefaultInv
<1> QED
  BY <1>1, <1>4 DEF DefaultInv

\* init_db up to the default workspace, and whatever interrupts it.
LEMMA Upgrading ==
    ASSUME MigrationInv, DefaultInv, NEW p \in Starters,
           \/ BeginInit(p) \/ Look(p) \/ Add(p) \/ SkillRows(p) \/ SkipRebuild(p) \/ CreateCopy(p)
           \/ CopyRows(p) \/ DropOld(p) \/ RenameCopy(p) \/ NumberIssues(p) \/ CommitSchema(p)
           \/ Again(p) \/ NoSuchColumn(p) \/ Killed(p)
    PROVE  DefaultInv'
<1> DEFINE old == starting[p]
<1>1. /\ starting \in [Starters -> StartRow] /\ old \in StartRow /\ old.attempt \in Nat /\ old.attempt < InitAttempts
      /\ InitAttempts \in Nat \ {0} /\ MaxKills \in Nat /\ kills \in 0 .. MaxKills
  BY MigrationAssumption DEF MigrationInv, MigrationShape, StartRow, DefaultInv
<1>2. defaults' = defaults
  BY DEF BeginInit, Look, Add, SkillRows, SkipRebuild, CreateCopy, CopyRows, DropOld, RenameCopy, NumberIssues,
     CommitSchema, Again, NoSuchColumn, Killed
<1>3. kills' \in 0 .. MaxKills
  <2>1. CASE Killed(p)
    BY <1>1, <2>1 DEF Killed
  <2>2. CASE kills' = kills
    BY <1>1, <2>2
  <2> QED
    BY <2>1, <2>2 DEF BeginInit, Look, Add, SkillRows, SkipRebuild, CreateCopy, CopyRows, DropOld, RenameCopy,
       NumberIssues, CommitSchema, Again, NoSuchColumn
<1>4. ASSUME NEW at \in {"look", "skills", "create", "copy", "drop", "rename", "number", "commit", "default"},
             NEW t, Go(p, at, t)
      PROVE  DefaultInv'
  <2> DEFINE row == [old EXCEPT !.at = at, !.table = t]
  <2>1. starting' = [starting EXCEPT ![p] = row]
    BY <1>1, <1>4 DEF Go, StartRow
  <2>2. row.at # "insert" /\ row.attempt = old.attempt
    BY <1>1, <1>4 DEF StartRow
  <2> HIDE DEF row
  <2> QED
    BY <1>1, <1>2, <1>3, <2>1, <2>2, NotInserting
<1>5. CASE \/ Add(p) \/ SkillRows(p) \/ CreateCopy(p) \/ CopyRows(p) \/ DropOld(p) \/ NumberIssues(p) \/ CommitSchema(p)
  <2>1. \/ Go(p, "skills", old.table) \/ Go(p, "look", After(old.table)) \/ Go(p, "create", "triggers")
        \/ Go(p, "create", "threads") \/ Go(p, "copy", old.table) \/ Go(p, "drop", old.table)
        \/ Go(p, "rename", old.table) \/ Go(p, "default", "none")
    BY <1>5 DEF Add, SkillRows, CreateCopy, CopyRows, DropOld, NumberIssues, CommitSchema
  <2> QED
    BY <1>4, <2>1
<1>6. CASE SkipRebuild(p) \/ RenameCopy(p)
  <2>1. Go(p, Rebuilt(old.table), NextTable(old.table))
    BY <1>6 DEF SkipRebuild, RenameCopy
  <2>2. Rebuilt(old.table) \in {"number", "create", "commit"}
    BY DEF Rebuilt
  <2> QED
    BY <1>4, <2>1, <2>2
<1>7. CASE Look(p)
  <2> DEFINE absent == IF old.table = "tables" THEN ~db.there ELSE old.table \notin db.added
             seen == old.old \cup ({old.table} \cap db.old)
             looked == [old EXCEPT !.absent = absent, !.old = seen]
  <2>5. absent \in BOOLEAN
    OBVIOUS
  <2>6. seen \subseteq Tables
    BY <1>1 DEF MigrationInv, MigrationShape, Databases, StartRow
  <2>7. starting' = [starting EXCEPT ![p] = IF absent THEN [looked EXCEPT !.at = "add"]
                          ELSE IF After(old.table) = "none" THEN [looked EXCEPT !.at = "skills"]
                          ELSE [looked EXCEPT !.table = After(old.table)]]
    BY <1>1, <1>7 DEF Look, StartRow
  <2> HIDE DEF absent, seen
  <2>1. looked \in StartRow /\ looked.attempt = old.attempt /\ looked.at = "look"
    BY <1>1, <1>7, <2>5, <2>6 DEF StartRow, Look, IsAt
  <2>3. PICK row \in {[looked EXCEPT !.at = "add"], [looked EXCEPT !.at = "skills"], [looked EXCEPT !.table = After(old.table)]} :
          starting' = [starting EXCEPT ![p] = row]
    BY <2>7
  <2>4. row.at \in {"look", "add", "skills"} /\ row.attempt = old.attempt
    <3> HIDE DEF looked
    <3> QED
      BY <2>1, <2>3 DEF StartRow
  <2> QED
    BY <1>1, <1>2, <1>3, <2>3, <2>4, NotInserting
<1>8. CASE BeginInit(p) \/ Again(p) \/ NoSuchColumn(p) \/ Killed(p)
  <2>1. NotStarting.at = "off" /\ NotStarting.attempt = 0 /\ NotStarting \in StartRow
    BY DEF NotStarting, StartRow, Places
  <2>2. \E row : /\ starting' = [starting EXCEPT ![p] = row] /\ row.at # "insert"
                 /\ row.attempt = 0 \/ (row.attempt = old.attempt + 1 /\ row.attempt # InitAttempts)
    <3>1. CASE BeginInit(p)
      <4> DEFINE row == [NotStarting EXCEPT !.at = "look", !.table = "tables"]
      <4>1. row.at = "look" /\ row.attempt = 0
        BY <2>1 DEF StartRow
      <4>2. starting' = [starting EXCEPT ![p] = row]
        BY <3>1 DEF BeginInit
      <4> HIDE DEF row
      <4> QED
        BY <4>1, <4>2
    <3>2. CASE NoSuchColumn(p) \/ (Again(p) /\ old.attempt + 1 = InitAttempts)
      <4> DEFINE row == [NotStarting EXCEPT !.at = "failed"]
      <4>1. row.at = "failed" /\ row.attempt = 0
        BY <2>1 DEF StartRow
      <4>2. starting' = [starting EXCEPT ![p] = row]
        BY <3>2 DEF NoSuchColumn, Again
      <4> HIDE DEF row
      <4> QED
        BY <4>1, <4>2
    <3>3. CASE Again(p) /\ old.attempt + 1 # InitAttempts
      <4> DEFINE row == [NotStarting EXCEPT !.at = "look", !.table = "tables", !.attempt = old.attempt + 1]
      <4>1. row.at = "look" /\ row.attempt = old.attempt + 1
        BY <1>1, <2>1 DEF StartRow
      <4>2. starting' = [starting EXCEPT ![p] = row]
        BY <3>3 DEF Again
      <4> HIDE DEF row
      <4> QED
        BY <3>3, <4>1, <4>2
    <3>4. CASE Killed(p)
      <4>1. starting' = [starting EXCEPT ![p] = NotStarting]
        BY <3>4 DEF Killed
      <4> QED
        BY <2>1, <4>1
    <3> QED
      BY <1>8, <3>1, <3>2, <3>3, <3>4
  <2>3. PICK row : /\ starting' = [starting EXCEPT ![p] = row] /\ row.at # "insert"
                   /\ row.attempt = 0 \/ (row.attempt = old.attempt + 1 /\ row.attempt # InitAttempts)
    BY <2>2
  <2>4. row.attempt \in Nat /\ row.attempt < InitAttempts
    BY <1>1, <2>3
  <2> QED
    BY <1>2, <1>3, <2>3, <2>4, NotInserting
<1> QED
  BY <1>5, <1>6, <1>7, <1>8

\* get_or_create_default_workspace.
LEMMA InsertingDefault ==
    ASSUME MigrationInv, DefaultInv, NEW p \in Starters, LookForDefault(p) \/ InsertDefault(p)
    PROVE  DefaultInv'
<1> DEFINE old == starting[p]
<1>1. /\ starting \in [Starters -> StartRow] /\ old \in StartRow /\ kills' = kills
      /\ AboutToInsert \subseteq Starters /\ AboutToInsert' \subseteq Starters
  BY DEF MigrationInv, MigrationShape, LookForDefault, InsertDefault, AboutToInsert
<1>2. ASSUME NEW at, Go(p, at, "none")
      PROVE  /\ \A q \in Starters : starting'[q].attempt = starting[q].attempt
             /\ AboutToInsert' \ {p} = AboutToInsert \ {p} /\ (at # "insert" => p \notin AboutToInsert')
  <2> DEFINE row == [old EXCEPT !.at = at, !.table = "none"]
  <2>1. starting' = [starting EXCEPT ![p] = row]
    BY <1>1, <1>2 DEF Go, StartRow
  <2>2. row.at = at /\ row.attempt = old.attempt
    BY <1>1 DEF StartRow
  <2> HIDE DEF row
  <2>3. starting'[p] = row /\ \A q \in Starters \ {p} : starting'[q] = starting[q]
    BY <1>1, <2>1
  <2> QED
    BY <2>2, <2>3 DEF AboutToInsert
<1>3. /\ Cardinality(AboutToInsert) \in Nat /\ Cardinality(AboutToInsert') \in Nat /\ Cardinality(Starters) \in Nat
      /\ Cardinality(AboutToInsert') <= Cardinality(Starters)
  BY <1>1, StartersCounted
<1>4. CASE LookForDefault(p) /\ defaults = 0
  <2>1. Go(p, "insert", "none") /\ defaults' = 0
    BY <1>4 DEF LookForDefault
  <2>2. \A q \in Starters : starting'[q].attempt = starting[q].attempt
    BY <1>2, <2>1
  <2> QED
    BY <1>1, <1>3, <2>1, <2>2 DEF DefaultInv
<1>5. CASE LookForDefault(p) /\ defaults # 0
  <2>1. Go(p, "up", "none") /\ defaults' = defaults
    BY <1>5 DEF LookForDefault
  <2>2. (\A q \in Starters : starting'[q].attempt = starting[q].attempt) /\ AboutToInsert' \subseteq AboutToInsert
    BY <1>2, <2>1
  <2>3. Cardinality(AboutToInsert') <= Cardinality(AboutToInsert)
    BY <1>1, <2>2, StartersCounted
  <2>4. defaults' + Cardinality(AboutToInsert') <= Cardinality(Starters)
    BY <1>3, <2>1, <2>3 DEF DefaultInv
  <2> QED
    BY <1>1, <2>1, <2>2, <2>4 DEF DefaultInv
<1>6. CASE InsertDefault(p)
  <2>1. Go(p, "up", "none") /\ defaults' = defaults + 1 /\ p \in AboutToInsert
    BY <1>6 DEF InsertDefault, AboutToInsert, IsAt
  <2>2. (\A q \in Starters : starting'[q].attempt = starting[q].attempt) /\ AboutToInsert' = AboutToInsert \ {p}
    BY <1>2, <2>1
  <2>3. Cardinality(AboutToInsert') = Cardinality(AboutToInsert) - 1
    BY <1>1, <2>1, <2>2, StartersCounted, FS_RemoveElement
  <2>4. defaults' + Cardinality(AboutToInsert') <= Cardinality(Starters) /\ defaults' \in Nat
    BY <1>3, <2>1, <2>3 DEF DefaultInv
  <2> QED
    BY <1>1, <2>2, <2>4 DEF DefaultInv
<1> QED
  BY <1>4, <1>5, <1>6

\* Type correctness, with two counts: no process tries more often than it may, and no process
\* leaves more than one default workspace behind, although nothing keeps two from inserting one.
THEOREM MigrationTypeCorrect == MigrationSpec => []MigrationTypeOK
<1>1. ASSUME MigrationInit PROVE DefaultInv
  <2>1. \A p \in Starters : starting[p].at = "off" /\ starting[p].attempt = 0
    BY <1>1 DEF MigrationInit, NotStarting
  <2>2. AboutToInsert \subseteq Starters /\ AboutToInsert = {}
    BY <2>1 DEF AboutToInsert
  <2>3. Cardinality(AboutToInsert) = 0 /\ Cardinality(Starters) \in Nat
    BY <2>2, FS_EmptySet, StartersCounted
  <2> QED
    BY <1>1, <2>1, <2>3, MigrationAssumption DEF MigrationInit, DefaultInv
<1>2. ASSUME MigrationInv, DefaultInv, MigrationNext PROVE DefaultInv'
  <2>1. ASSUME NEW p \in Starters, NEW t \in Tables, NEW r \in Rows, WriteRow(p, t, r) PROVE DefaultInv'
    <3>1. UNCHANGED <<starting, defaults, kills>>
      BY <2>1 DEF WriteRow
    <3> QED
      BY <1>2, <3>1 DEF DefaultInv, AboutToInsert
  <2> QED
    BY <1>2, <2>1, Upgrading, InsertingDefault DEF MigrationNext
<1>3. DefaultInv /\ UNCHANGED migrationVars => DefaultInv'
  BY DEF migrationVars, DefaultInv, AboutToInsert
<1>4. ASSUME MigrationInv, DefaultInv PROVE MigrationTypeOK
  <2>1. AboutToInsert \subseteq Starters
    BY DEF AboutToInsert
  <2>2. Cardinality(AboutToInsert) \in Nat /\ Cardinality(Starters) \in Nat
    BY <2>1, StartersCounted
  <2>3. defaults \in 0 .. Cardinality(Starters)
    BY <1>4, <2>2 DEF DefaultInv
  <2>4. starting \in [Starters -> [at : Places, table : Tables \cup {"tables", "none"}, old : SUBSET Tables,
                                   absent : BOOLEAN, attempt : 0 .. InitAttempts - 1]]
    <3>1. starting \in [Starters -> StartRow] /\ \A p \in Starters : starting[p].attempt < InitAttempts
      BY <1>4 DEF MigrationInv, MigrationShape, DefaultInv
    <3>2. ASSUME NEW row \in StartRow, row.attempt < InitAttempts
          PROVE  row \in [at : Places, table : Tables \cup {"tables", "none"}, old : SUBSET Tables,
                          absent : BOOLEAN, attempt : 0 .. InitAttempts - 1]
      BY <3>2, MigrationAssumption DEF StartRow
    <3> QED
      BY <3>1, <3>2
  <2> QED
    BY <1>4, <2>3, <2>4 DEF MigrationInv, MigrationShape, DefaultInv, MigrationTypeOK
<1> QED
  BY <1>1, <1>2, <1>3, <1>4, MigrationInitInv, MigrationStep, PTL DEF MigrationSpec

-----------------------------------------------------------------------------
(* Chat *)

\* What a request and a turn are.
SenderRow == [at : {"idle", "read"}, thread : Threads \cup {0}, saw : BOOLEAN, sawUnread : BOOLEAN]
TurnRow == [at : {"none", "asking", "looking", "clearing", "over"}, thread : Threads \cup {0},
            since : Nat, saw : BOOLEAN, covers : SUBSET Nat]

Underway(k) == turn[k].at \notin {"none", "over"}

ChatTypes ==
    /\ pending \in [Threads -> BOOLEAN]
    /\ unread \in [Threads -> BOOLEAN]
    /\ log \in [Threads -> Seq({"user", "agent"})]
    /\ threads \in 0 .. MaxThreads /\ latest \in 0 .. threads
    /\ sender \in [Senders -> SenderRow]
    /\ turn \in [Turns -> TurnRow]
    /\ \A k \in Turns : Underway(k) =>
         turn[k].thread \in Threads /\ turn[k].since \in 1 .. Len(log[turn[k].thread])
    /\ <<sent, notes, faults>> \in (0 .. MaxUserMessages) \X (0 .. MaxNotes) \X (0 .. MaxFaults)
    /\ overlapped \subseteq Threads

\* Requests and turns belong to threads that exist.
ThreadsExist ==
    /\ \A h \in Senders : sender[h].thread \in 0 .. threads
    /\ \A k \in Turns : Underway(k) => turn[k].thread \in 1 .. threads

\* A request that is going to start a turn.
Starts(h, t) == sender[h].at = "read" /\ sender[h].thread = t /\ ~sender[h].saw

\* A thread that no two requests found quiet together has at most one turn, is pending as long
\* as the turn is under way, and is found quiet by one request at most, when it has no turn.
TurnInv ==
    \A t \in Threads \ overlapped :
        /\ \A j, k \in InFlight(t) : j = k
        /\ InFlight(t) # {} => pending[t]
        /\ \A h \in Senders : Starts(h, t) => InFlight(t) = {}
        /\ \A g, h \in Senders : Starts(g, t) /\ Starts(h, t) => g = h

ChatInv == ChatTypes /\ ThreadsExist /\ TurnInv

\* At first no turn is under way.
LEMMA ChatStart == ChatInit => ChatInv
<1> SUFFICES ASSUME ChatInit PROVE ChatInv
  OBVIOUS
<1>1. NoSender \in SenderRow /\ NoTurn \in TurnRow /\ NoTurn.at = "none" /\ NoSender.thread = 0
      /\ NoSender.at = "idle"
  BY DEF NoSender, NoTurn, SenderRow, TurnRow
<1>2. ChatTypes
  BY <1>1, ChatAssumption DEF ChatInit, ChatTypes, Underway
<1>3. ThreadsExist
  BY <1>1, ChatAssumption DEF ChatInit, ThreadsExist, Underway
<1>4. TurnInv
  BY <1>1 DEF ChatInit, TurnInv, Starts, InFlight
<1> QED
  BY <1>2, <1>3, <1>4 DEF ChatInv

\* A set of natural numbers has a least one.
LEMMA LeastOf ==
    ASSUME NEW S \in SUBSET Nat, S # {}
    PROVE  \E n \in S : \A m \in S : n <= m
<1>1. PICK n \in S : \A m \in S : <<m, n>> \notin OpToRel(<, Nat)
  BY WFMin, NatLessThanWellFounded
<1>2. \A m \in S : ~(m < n)
  BY <1>1 DEF OpToRel
<1>3. n \in Nat /\ \A m \in S : m \in Nat
  OBVIOUS
<1>4. \A m \in S : n <= m
  BY <1>2, <1>3
<1> QED
  BY <1>4

\* The latest position of a set of positions.
LEMMA LatestOf ==
    ASSUME NEW n \in Nat, NEW S \in SUBSET (1 .. n), S # {}
    PROVE  (CHOOSE i \in S : \A j \in S : j <= i) \in S
<1> DEFINE Bounds == {b \in Nat : \A j \in S : j <= b}
<1>1. n \in Bounds
  OBVIOUS
<1>2. PICK b \in Bounds : \A c \in Bounds : b <= c
  <2>1. Bounds \in SUBSET Nat /\ Bounds # {}
    BY <1>1
  <2> HIDE DEF Bounds
  <2> QED
    BY <2>1, LeastOf
<1>3. b \in S
  <2> SUFFICES ASSUME b \notin S PROVE FALSE
    OBVIOUS
  <2>1. PICK j \in S : TRUE
    OBVIOUS
  <2>2. \A i \in S : i <= b - 1
    BY <1>2
  <2>3. b - 1 \in Nat
    BY <1>2, <2>1, <2>2
  <2> QED
    BY <1>2, <2>2, <2>3
<1> QED
  BY <1>2, <1>3

\* A new message leaves the other messages where they are.
LEMMA Posted ==
    ASSUME ChatTypes, NEW t \in Threads, NEW author \in {"user", "agent"}, Post(t, author),
           t \in 1 .. threads + 1
    PROVE  /\ log' \in [Threads -> Seq({"user", "agent"})]
           /\ threads' \in 0 .. MaxThreads /\ latest' \in 0 .. threads' /\ threads <= threads'
           /\ t \in 1 .. threads'
           /\ \A u \in Threads : Len(log[u]) \in Nat /\ Len(log'[u]) \in Nat /\ Len(log[u]) <= Len(log'[u])
           /\ Len(log'[t]) = Len(log[t]) + 1
<1>1. log' = [log EXCEPT ![t] = Append(log[t], author)] /\ latest' = t
      /\ threads' = IF t = NewThread THEN t ELSE threads
  BY DEF Post
<1>2. log \in [Threads -> Seq({"user", "agent"})] /\ threads \in 0 .. MaxThreads
      /\ MaxThreads \in Nat
  BY ChatAssumption DEF ChatTypes
<1>3. Append(log[t], author) \in Seq({"user", "agent"}) /\ Len(Append(log[t], author)) = Len(log[t]) + 1
  BY <1>2
<1> QED
  BY <1>1, <1>2, <1>3 DEF NewThread, Threads

\* What is under way stays within its log while the log grows.
LEMMA SameTurns ==
    ASSUME ChatTypes, \A u \in Threads : Len(log[u]) \in Nat /\ Len(log'[u]) \in Nat /\ Len(log[u]) <= Len(log'[u]),
           NEW k \in Turns, turn'[k] = turn[k]
    PROVE  Underway(k)' =>
             turn'[k].thread \in Threads /\ turn'[k].since \in 1 .. Len(log'[turn'[k].thread])
<1>1. Underway(k)' = Underway(k)
  BY DEF Underway
<1>2. Underway(k) => turn[k].thread \in Threads /\ turn[k].since \in 1 .. Len(log[turn[k].thread])
  BY DEF ChatTypes
<1> QED
  BY <1>1, <1>2

\* The types and threads after a change of one turn.
LEMMA TurnTypes ==
    ASSUME ChatTypes, ThreadsExist, NEW k \in Turns, NEW row \in TurnRow,
           turn' = [turn EXCEPT ![k] = row],
           row.at \notin {"none", "over"} =>
             row.thread \in 1 .. threads' /\ row.since \in 1 .. Len(log'[row.thread]),
           log' \in [Threads -> Seq({"user", "agent"})],
           threads' \in 0 .. MaxThreads, latest' \in 0 .. threads', threads <= threads',
           \A u \in Threads : Len(log[u]) \in Nat /\ Len(log'[u]) \in Nat /\ Len(log[u]) <= Len(log'[u]),
           pending' \in [Threads -> BOOLEAN], unread' \in [Threads -> BOOLEAN],
           sender' \in [Senders -> SenderRow], \A h \in Senders : sender'[h].thread \in 0 .. threads',
           sent' \in 0 .. MaxUserMessages, notes' \in 0 .. MaxNotes, faults' \in 0 .. MaxFaults,
           overlapped' = overlapped
    PROVE  ChatTypes' /\ ThreadsExist'
<1>1. turn' \in [Turns -> TurnRow] /\ turn'[k] = row /\ \A j \in Turns \ {k} : turn'[j] = turn[j]
  BY DEF ChatTypes
<1>2. threads' \in Nat /\ threads \in Nat /\ 1 .. threads' \subseteq Threads /\ 1 .. threads \subseteq 1 .. threads'
  BY ChatAssumption DEF Threads, ChatTypes
<1>3. ASSUME NEW j \in Turns, Underway(j)'
      PROVE  /\ turn'[j].thread \in Threads /\ turn'[j].since \in 1 .. Len(log'[turn'[j].thread])
             /\ turn'[j].thread \in 1 .. threads'
  <2>1. CASE j = k
    BY <1>1, <1>2, <1>3, <2>1 DEF Underway
  <2>2. CASE j # k
    <3>1. turn'[j] = turn[j] /\ Underway(j)
      BY <1>1, <1>3, <2>2 DEF Underway
    <3>2. turn[j].thread \in 1 .. threads
      BY <3>1 DEF ThreadsExist
    <3> QED
      BY <1>2, <1>3, <3>1, <3>2, SameTurns
  <2> QED
    BY <2>1, <2>2
<1>4. ChatTypes'
  BY <1>1, <1>3 DEF ChatTypes
<1>5. ThreadsExist'
  BY <1>3 DEF ThreadsExist
<1> QED
  BY <1>4, <1>5

\* What neither starts a turn nor stops a thread being pending keeps the threads in order.
LEMMA FewerTurns ==
    ASSUME TurnInv, overlapped' = overlapped,
           \A t \in Threads : InFlight(t)' \subseteq InFlight(t),
           \A h \in Senders, t \in Threads : Starts(h, t)' => Starts(h, t),
           \A t \in Threads \ overlapped : InFlight(t)' # {} => pending'[t]
    PROVE  TurnInv'
BY DEF TurnInv

\* Every step keeps the invariant.
LEMMA ChatKept == ChatInv /\ [ChatNext]_chatVars => ChatInv'
<1> SUFFICES ASSUME ChatInv, [ChatNext]_chatVars PROVE ChatInv'
  OBVIOUS
<1>a. ChatTypes /\ ThreadsExist /\ TurnInv
  BY DEF ChatInv
<1>b. /\ MaxThreads \in Nat /\ threads \in Nat /\ threads <= MaxThreads /\ Threads = 1 .. MaxThreads
      /\ \A t \in Threads : Len(log[t]) \in Nat
      /\ \A h \in Senders : sender[h] \in SenderRow
      /\ \A k \in Turns : turn[k] \in TurnRow
  BY <1>a, ChatAssumption DEF ChatTypes, Threads
<1>c. NoSender \in SenderRow /\ NoSender.at = "idle" /\ NoSender.thread = 0
      /\ [NoTurn EXCEPT !.at = "over"] \in TurnRow /\ [NoTurn EXCEPT !.at = "over"].at = "over"
      /\ NoTurn \in TurnRow /\ NoTurn.at = "none"
  BY DEF NoSender, SenderRow, NoTurn, TurnRow
\* A turn that ends.
<1>d. ASSUME NEW k \in Turns, turn' = [turn EXCEPT ![k] = [NoTurn EXCEPT !.at = "over"]],
             UNCHANGED <<unread, log, threads, latest, sender, sent, notes, overlapped>>,
             pending' \in [Threads -> BOOLEAN], faults' \in 0 .. MaxFaults,
             \A t \in Threads \ overlapped : pending'[t] = pending[t] \/ k \in InFlight(t)
      PROVE  ChatInv'
  <2> DEFINE over == [NoTurn EXCEPT !.at = "over"]
  <2>1. ChatTypes' /\ ThreadsExist'
    <3> HIDE DEF over
    <3>1. over \in TurnRow /\ over.at = "over"
      BY <1>c DEF over
    <3>2. turn' = [turn EXCEPT ![k] = over]
      BY <1>d DEF over
    <3>3. /\ log' \in [Threads -> Seq({"user", "agent"})]
          /\ threads' \in 0 .. MaxThreads /\ latest' \in 0 .. threads' /\ threads <= threads'
          /\ \A u \in Threads : Len(log[u]) \in Nat /\ Len(log'[u]) \in Nat /\ Len(log[u]) <= Len(log'[u])
          /\ unread' \in [Threads -> BOOLEAN] /\ sender' \in [Senders -> SenderRow]
          /\ \A h \in Senders : sender'[h].thread \in 0 .. threads'
          /\ sent' \in 0 .. MaxUserMessages /\ notes' \in 0 .. MaxNotes
      BY <1>a, <1>b, <1>d DEF ChatTypes, ThreadsExist
    <3> QED
      BY <1>a, <1>d, <3>1, <3>2, <3>3, TurnTypes
  <2>2. turn'[k].at = "over" /\ \A j \in Turns \ {k} : turn'[j] = turn[j]
    BY <1>a, <1>c, <1>d DEF ChatTypes
  <2>3. \A t \in Threads : InFlight(t)' \subseteq InFlight(t) \ {k}
    BY <2>2 DEF InFlight
  <2>4. \A h \in Senders, t \in Threads : Starts(h, t)' => Starts(h, t)
    BY <1>d DEF Starts
  <2>5. \A t \in Threads \ overlapped : InFlight(t)' # {} => pending'[t]
    BY <1>a, <1>d, <2>3 DEF TurnInv
  <2>6. TurnInv'
    BY <1>a, <1>d, <2>3, <2>4, <2>5, FewerTurns
  <2> QED
    BY <2>1, <2>6 DEF ChatInv
\* A turn that goes on.
<1>e. ASSUME NEW k \in Turns, Underway(k), NEW row \in TurnRow, turn' = [turn EXCEPT ![k] = row],
             row.at \notin {"none", "over"}, row.thread = turn[k].thread,
             row.since \in 1 .. Len(log'[row.thread]),
             UNCHANGED <<pending, unread, sender, sent, notes, faults, overlapped>>,
             log' \in [Threads -> Seq({"user", "agent"})],
             threads' \in 0 .. MaxThreads, latest' \in 0 .. threads', threads <= threads',
             \A u \in Threads : Len(log[u]) \in Nat /\ Len(log'[u]) \in Nat /\ Len(log[u]) <= Len(log'[u])
      PROVE  ChatInv'
  <2>1. ChatTypes' /\ ThreadsExist'
    <3>1. row.thread \in 1 .. threads /\ threads \in Nat /\ threads' \in Nat
      BY <1>a, <1>b, <1>e DEF ThreadsExist
    <3>2. /\ pending' \in [Threads -> BOOLEAN] /\ unread' \in [Threads -> BOOLEAN]
          /\ sender' \in [Senders -> SenderRow]
          /\ \A h \in Senders : sender'[h].thread \in 0 .. threads
          /\ sent' \in 0 .. MaxUserMessages /\ notes' \in 0 .. MaxNotes /\ faults' \in 0 .. MaxFaults
      BY <1>a, <1>e DEF ChatTypes, ThreadsExist
    <3>3. 0 .. threads \subseteq 0 .. threads' /\ 1 .. threads \subseteq 1 .. threads'
      BY <3>1, <1>e
    <3> QED
      BY <1>a, <1>e, <3>1, <3>2, <3>3, TurnTypes
  <2>2. turn'[k] = row /\ \A j \in Turns \ {k} : turn'[j] = turn[j]
    BY <1>a, <1>e DEF ChatTypes
  <2>3. \A t \in Threads : InFlight(t)' = InFlight(t)
    BY <1>e, <2>2 DEF InFlight, Underway
  <2>4. \A h \in Senders, t \in Threads : Starts(h, t)' => Starts(h, t)
    BY <1>e DEF Starts
  <2>5. \A t \in Threads \ overlapped : InFlight(t)' # {} => pending'[t]
    BY <1>a, <1>e, <2>3 DEF TurnInv
  <2>6. TurnInv'
    BY <1>a, <1>e, <2>3, <2>4, <2>5, FewerTurns
  <2> QED
    BY <2>1, <2>6 DEF ChatInv
<1>1. ASSUME NEW k \in Turns, TurnReply(k)
      PROVE  ChatInv'
  <2> DEFINE t == turn[k].thread
             row == [turn[k] EXCEPT !.at = "looking", !.saw = pending[t]]
  <2>1. /\ turn[k].at = "asking" /\ Post(t, "agent") /\ turn' = [turn EXCEPT ![k] = row]
        /\ UNCHANGED <<pending, unread, sender, sent, notes, faults, overlapped>>
    BY <1>1 DEF TurnReply
  <2>2. Underway(k) /\ t \in Threads /\ t \in 1 .. threads + 1 /\ turn[k].since \in 1 .. Len(log[t])
    <3>1. Underway(k)
      BY <2>1 DEF Underway
    <3>2. t \in Threads /\ turn[k].since \in 1 .. Len(log[t])
      BY <1>a, <3>1 DEF ChatTypes
    <3>3. t \in 1 .. threads
      BY <1>a, <3>1 DEF ThreadsExist
    <3> QED
      BY <1>b, <3>1, <3>2, <3>3
  <2>3. PICK u \in Threads : u = t
    BY <2>2
  <2>4. Post(u, "agent") /\ u \in 1 .. threads + 1
    BY <2>1, <2>2, <2>3
  <2>5. /\ log' \in [Threads -> Seq({"user", "agent"})]
        /\ threads' \in 0 .. MaxThreads /\ latest' \in 0 .. threads' /\ threads <= threads'
        /\ \A v \in Threads : Len(log[v]) \in Nat /\ Len(log'[v]) \in Nat /\ Len(log[v]) <= Len(log'[v])
    BY <1>a, <2>4, Posted
  <2>6. row \in TurnRow /\ row.at = "looking" /\ row.thread = t /\ row.since = turn[k].since
    <3>1. turn[k] \in TurnRow /\ pending[t] \in BOOLEAN
      BY <1>a, <2>2 DEF ChatTypes
    <3> QED
      BY <3>1 DEF TurnRow
  <2>7. row.since \in 1 .. Len(log'[row.thread])
    BY <2>2, <2>5, <2>6
  <2> HIDE DEF row
  <2> QED
    BY <1>e, <2>1, <2>2, <2>5, <2>6, <2>7
<1>2. ASSUME NEW k \in Turns, TurnLook(k)
      PROVE  ChatInv'
  <2> DEFINE t == turn[k].thread
             waiting == Backlog(t, turn[k].since)
             over == [turn[k] EXCEPT !.at = "clearing"]
             again == [turn[k] EXCEPT !.at = "asking", !.covers = waiting,
                         !.since = CHOOSE i \in waiting : \A j \in waiting : j <= i]
  <2>1. /\ turn[k].at = "looking"
        /\ turn' = [turn EXCEPT ![k] = IF waiting = {} THEN over ELSE again]
        /\ UNCHANGED <<log, threads, latest, pending, unread, sender, sent, notes, faults, overlapped>>
    <3>1. waiting = {} => turn' = [turn EXCEPT ![k] = over]
      BY <1>2 DEF TurnLook
    <3>2. waiting # {} => turn' = [turn EXCEPT ![k] = again]
      <4> DEFINE last == CHOOSE i \in waiting : \A j \in waiting : j <= i
      <4>1. waiting # {} => turn' = [turn EXCEPT ![k].at = "asking", ![k].covers = waiting, ![k].since = last]
        BY <1>2, Zenon DEF TurnLook
      <4> HIDE DEF waiting, last
      <4>2. [turn EXCEPT ![k].at = "asking", ![k].covers = waiting, ![k].since = last]
              = [turn EXCEPT ![k] = [turn[k] EXCEPT !.at = "asking", !.covers = waiting, !.since = last]]
        OBVIOUS
      <4> QED
        BY <4>1, <4>2 DEF last
    <3>3. /\ turn[k].at = "looking"
          /\ UNCHANGED <<log, threads, latest, pending, unread, sender, sent, notes, faults, overlapped>>
      BY <1>2 DEF TurnLook
    <3> HIDE DEF waiting, over, again
    <3> QED
      BY <3>1, <3>2, <3>3
  <2>2. Underway(k)
    BY <2>1 DEF Underway
  <2>3. t \in Threads /\ turn[k].since \in 1 .. Len(log[t]) /\ turn[k] \in TurnRow /\ Len(log[t]) \in Nat
    BY <1>a, <1>b, <2>2 DEF ChatTypes
  <2>4. waiting \in SUBSET (1 .. Len(log[t])) /\ waiting \in SUBSET Nat
    BY <2>3 DEF Backlog
  <2>5. over \in TurnRow /\ over.at = "clearing" /\ over.thread = t /\ over.since = turn[k].since
    BY <2>3 DEF TurnRow
  <2>6. ASSUME waiting # {}
        PROVE  again \in TurnRow /\ again.at = "asking" /\ again.thread = t /\ again.since \in 1 .. Len(log[t])
    <3> DEFINE last == CHOOSE i \in waiting : \A j \in waiting : j <= i
    <3> HIDE DEF waiting
    <3>1. last \in waiting
      BY <2>3, <2>4, <2>6, LatestOf
    <3>2. last \in 1 .. Len(log[t]) /\ last \in Nat
      BY <2>3, <2>4, <3>1
    <3> HIDE DEF last
    <3>3. /\ [turn[k] EXCEPT !.at = "asking", !.covers = waiting, !.since = last] \in TurnRow
          /\ [turn[k] EXCEPT !.at = "asking", !.covers = waiting, !.since = last].at = "asking"
          /\ [turn[k] EXCEPT !.at = "asking", !.covers = waiting, !.since = last].thread = t
          /\ [turn[k] EXCEPT !.at = "asking", !.covers = waiting, !.since = last].since = last
      BY <2>3, <2>4, <3>2 DEF TurnRow
    <3> QED
      BY <3>2, <3>3 DEF last
  <2> DEFINE row == IF waiting = {} THEN over ELSE again
  <2>7. row \in TurnRow /\ row.at \notin {"none", "over"} /\ row.thread = t /\ row.since \in 1 .. Len(log'[t])
    <3> HIDE DEF waiting, over, again
    <3> QED
      BY <2>1, <2>3, <2>5, <2>6
  <2>8. /\ log' \in [Threads -> Seq({"user", "agent"})]
        /\ threads' \in 0 .. MaxThreads /\ latest' \in 0 .. threads' /\ threads <= threads'
        /\ \A v \in Threads : Len(log[v]) \in Nat /\ Len(log'[v]) \in Nat /\ Len(log[v]) <= Len(log'[v])
    BY <1>a, <1>b, <2>1 DEF ChatTypes
  <2>9. turn' = [turn EXCEPT ![k] = row]
    BY <2>1
  <2> HIDE DEF row
  <2> QED
    BY <1>e, <2>1, <2>2, <2>7, <2>8, <2>9
<1>3. ASSUME NEW k \in Turns, TurnClear(k)
      PROVE  ChatInv'
  <2>1. /\ turn[k].at = "clearing"
        /\ pending' = IF turn[k].saw THEN [pending EXCEPT ![turn[k].thread] = FALSE] ELSE pending
        /\ turn' = [turn EXCEPT ![k] = [NoTurn EXCEPT !.at = "over"]]
        /\ UNCHANGED <<unread, log, threads, latest, sender, sent, notes, faults, overlapped>>
    BY <1>3 DEF TurnClear
  <2>2. pending' \in [Threads -> BOOLEAN] /\ faults' \in 0 .. MaxFaults
    BY <1>a, <2>1 DEF ChatTypes
  <2>3. ASSUME NEW t \in Threads PROVE pending'[t] = pending[t] \/ k \in InFlight(t)
    BY <1>a, <2>1 DEF ChatTypes, InFlight
  <2> QED
    BY <1>d, <2>1, <2>2, <2>3
<1>4. ASSUME NEW k \in Turns, TurnFails(k)
      PROVE  ChatInv'
  <2>1. /\ faults < MaxFaults /\ faults' = faults + 1
        /\ turn' = [turn EXCEPT ![k] = [NoTurn EXCEPT !.at = "over"]]
        /\ UNCHANGED <<pending, unread, log, threads, latest, sender, sent, notes, overlapped>>
    BY <1>4 DEF TurnFails
  <2>2. pending' \in [Threads -> BOOLEAN] /\ faults' \in 0 .. MaxFaults
    BY <1>a, <2>1, ChatAssumption DEF ChatTypes
  <2> QED
    BY <1>d, <2>1, <2>2
<1>5. CASE Restart
  <2>1. /\ faults < MaxFaults /\ faults' = faults + 1
        /\ sender' = [h \in Senders |-> NoSender]
        /\ turn' = [k \in Turns |-> IF turn[k].at = "none" THEN NoTurn ELSE [NoTurn EXCEPT !.at = "over"]]
        /\ UNCHANGED <<pending, unread, log, threads, latest, sent, notes, overlapped>>
    BY <1>5 DEF Restart
  <2>2. turn' \in [Turns -> TurnRow] /\ \A k \in Turns : turn'[k].at \in {"none", "over"}
    BY <1>c, <2>1
  <2>3. faults' \in 0 .. MaxFaults
    BY <1>a, <2>1, ChatAssumption DEF ChatTypes
  <2>4. \A k \in Turns : ~Underway(k)'
    BY <2>2 DEF Underway
  <2>5. sender' \in [Senders -> SenderRow] /\ \A h \in Senders : sender'[h].at = "idle" /\ sender'[h].thread = 0
    BY <1>c, <2>1
  <2>6. ChatTypes'
    BY <1>a, <2>1, <2>2, <2>3, <2>4, <2>5 DEF ChatTypes
  <2>7. ThreadsExist'
    BY <1>b, <2>1, <2>4, <2>5 DEF ThreadsExist
  <2>8. TurnInv'
    BY <2>2, <2>5 DEF TurnInv, InFlight, Starts
  <2> QED
    BY <2>6, <2>7, <2>8 DEF ChatInv
<1>6. CASE OpenChat
  <2>1. /\ unread' = [unread EXCEPT ![latest] = FALSE]
        /\ UNCHANGED <<pending, log, threads, latest, sender, turn, sent, notes, faults, overlapped>>
    BY <1>6 DEF OpenChat
  <2>2. ChatTypes' /\ ThreadsExist'
    BY <1>a, <2>1 DEF ChatTypes, ThreadsExist, Underway
  <2>3. TurnInv'
    BY <1>a, <2>1 DEF TurnInv, InFlight, Starts
  <2> QED
    BY <2>2, <2>3 DEF ChatInv
<1>7. ASSUME NEW t \in Threads, MessageUser(t)
      PROVE  ChatInv'
  <2>1. /\ Post(t, "agent") /\ unread' = [unread EXCEPT ![t] = TRUE]
        /\ notes' = notes + 1 /\ notes < MaxNotes /\ t \in 1 .. threads + 1
        /\ UNCHANGED <<pending, sender, turn, sent, faults, overlapped>>
    BY <1>7, <1>b DEF MessageUser, Existing, NewThread
  <2>2. /\ log' \in [Threads -> Seq({"user", "agent"})]
        /\ threads' \in 0 .. MaxThreads /\ latest' \in 0 .. threads' /\ threads <= threads'
        /\ \A v \in Threads : Len(log[v]) \in Nat /\ Len(log'[v]) \in Nat /\ Len(log[v]) <= Len(log'[v])
    BY <1>a, <2>1, Posted
  <2>3. notes' \in 0 .. MaxNotes /\ unread' \in [Threads -> BOOLEAN]
    BY <1>a, <2>1, ChatAssumption DEF ChatTypes
  <2>4. \A k \in Turns : Underway(k)' =>
           turn'[k].thread \in Threads /\ turn'[k].since \in 1 .. Len(log'[turn'[k].thread])
    BY <1>a, <2>1, <2>2, SameTurns
  <2>5. ChatTypes'
    BY <1>a, <2>1, <2>2, <2>3, <2>4 DEF ChatTypes
  <2>6. ThreadsExist'
    <3>1. threads' \in Nat /\ threads \in Nat /\ threads <= threads'
      BY <1>b, <2>2
    <3>2. 0 .. threads \subseteq 0 .. threads' /\ 1 .. threads \subseteq 1 .. threads'
      BY <3>1
    <3> QED
      BY <1>a, <2>1, <3>2 DEF ThreadsExist, Underway
  <2>7. TurnInv'
    BY <1>a, <2>1 DEF TurnInv, InFlight, Starts
  <2> QED
    BY <2>5, <2>6, <2>7 DEF ChatInv
<1>8. CASE UNCHANGED chatVars
  <2>1. ChatTypes' /\ ThreadsExist'
    BY <1>a, <1>8 DEF chatVars, ChatTypes, ThreadsExist, Underway
  <2>2. TurnInv'
    BY <1>a, <1>8 DEF chatVars, TurnInv, InFlight, Starts
  <2> QED
    BY <2>1, <2>2 DEF ChatInv
<1>9. ASSUME NEW h \in Senders, SendRead(h)
      PROVE  ChatInv'
  <2> DEFINE t == latest
             IsPending == t # 0 /\ pending[t]
             row == [at |-> "read", thread |-> t, saw |-> IsPending, sawUnread |-> t # 0 /\ unread[t]]
  <2>1. /\ sender[h].at = "idle" /\ sender' = [sender EXCEPT ![h] = row]
        /\ overlapped' = IF \E g \in Senders \ {h} : /\ sender[g].at = "read"
                                                     /\ sender[g].thread = t /\ t # 0
                                                     /\ ~sender[g].saw /\ ~IsPending
                         THEN overlapped \cup {t} ELSE overlapped
        /\ UNCHANGED <<pending, unread, log, threads, latest, turn, sent, notes, faults>>
    BY <1>9 DEF SendRead
  <2>2. t \in 0 .. threads /\ t \in Threads \cup {0}
    BY <1>a, <1>b DEF ChatTypes
  <2>3. row \in SenderRow
    BY <1>a, <2>2 DEF ChatTypes, SenderRow
  <2>4. /\ sender' \in [Senders -> SenderRow] /\ sender'[h] = row
        /\ \A g \in Senders \ {h} : sender'[g] = sender[g]
    <3> HIDE DEF row
    <3> QED
      BY <1>a, <2>1, <2>3 DEF ChatTypes
  <2>5. overlapped \subseteq overlapped' /\ overlapped' \subseteq Threads
    BY <1>a, <2>1, <2>2 DEF ChatTypes
  <2>6. ChatTypes'
    BY <1>a, <2>1, <2>4, <2>5 DEF ChatTypes, Underway
  <2>7. ThreadsExist'
    BY <1>a, <2>1, <2>2, <2>4 DEF ThreadsExist, Underway
  <2>8. TurnInv'
    <3> SUFFICES ASSUME NEW u \in Threads \ overlapped'
                 PROVE  /\ \A j, k \in InFlight(u)' : j = k
                        /\ InFlight(u)' # {} => pending'[u]
                        /\ \A g \in Senders : Starts(g, u)' => InFlight(u)' = {}
                        /\ \A f, g \in Senders : Starts(f, u)' /\ Starts(g, u)' => f = g
      BY DEF TurnInv
    <3>1. u \in Threads \ overlapped /\ u # 0
      BY <1>b, <2>5
    <3>2. /\ \A j, k \in InFlight(u) : j = k
          /\ InFlight(u) # {} => pending[u]
          /\ \A g \in Senders : Starts(g, u) => InFlight(u) = {}
          /\ \A f, g \in Senders : Starts(f, u) /\ Starts(g, u) => f = g
      BY <1>a, <3>1 DEF TurnInv
    <3>3. InFlight(u)' = InFlight(u) /\ pending' = pending
      BY <2>1 DEF InFlight
    <3>4. \A g \in Senders \ {h} : Starts(g, u)' = Starts(g, u)
      BY <2>4 DEF Starts
    <3>5. Starts(h, u)' => u = t /\ ~pending[u]
      <4>1. sender'[h].thread = t /\ sender'[h].saw = IsPending
        BY <2>4
      <4> QED
        BY <3>1, <4>1 DEF Starts
    <3>6. ASSUME Starts(h, u)', NEW g \in Senders \ {h} PROVE ~Starts(g, u)
      BY <2>1, <3>1, <3>5, <3>6 DEF Starts
    <3> QED
      BY <3>2, <3>3, <3>4, <3>5, <3>6
  <2> QED
    BY <2>6, <2>7, <2>8 DEF ChatInv
<1>10. ASSUME NEW h \in Senders, SendCommit(h)
       PROVE  ChatInv'
  <2> DEFINE t == IF sender[h].thread = 0 THEN NewThread ELSE sender[h].thread
             here == Len(log[t]) + 1
             row == [at |-> "asking", thread |-> t, since |-> here, saw |-> FALSE, covers |-> {here}]
  <2>1. /\ sender[h].at = "read" /\ sent < MaxUserMessages
        /\ (sender[h].thread = 0 => NewThread \in Threads) /\ Post(t, "user")
        /\ pending' = IF sender[h].saw THEN pending ELSE [pending EXCEPT ![t] = TRUE]
        /\ unread' = IF sender[h].sawUnread THEN [unread EXCEPT ![t] = FALSE] ELSE unread
        /\ turn' = IF sender[h].saw THEN turn ELSE [turn EXCEPT ![sent + 1] = row]
        /\ sent' = sent + 1 /\ sender' = [sender EXCEPT ![h] = NoSender]
        /\ UNCHANGED <<notes, faults, overlapped>>
    BY <1>10 DEF SendCommit
  <2>2. t \in Threads /\ t \in 1 .. threads + 1
    <3>1. sender[h].thread \in Threads \cup {0} /\ sender[h].thread \in 0 .. threads
      BY <1>a, <1>b DEF ThreadsExist, SenderRow
    <3> QED
      BY <1>b, <2>1, <3>1 DEF NewThread
  <2>3. PICK v \in Threads : v = t
    BY <2>2
  <2>4. /\ log' \in [Threads -> Seq({"user", "agent"})]
        /\ threads' \in 0 .. MaxThreads /\ latest' \in 0 .. threads' /\ threads <= threads'
        /\ \A u \in Threads : Len(log[u]) \in Nat /\ Len(log'[u]) \in Nat /\ Len(log[u]) <= Len(log'[u])
        /\ v \in 1 .. threads' /\ Len(log'[v]) = Len(log[v]) + 1
    <3>1. Post(v, "user") /\ v \in 1 .. threads + 1
      BY <2>1, <2>2, <2>3
    <3> QED
      BY <1>a, <3>1, Posted
  <2>5. sent + 1 \in Turns /\ sent' \in 0 .. MaxUserMessages
    BY <1>a, <2>1, ChatAssumption DEF ChatTypes, Turns
  <2>6. /\ sender' \in [Senders -> SenderRow] /\ \A g \in Senders \ {h} : sender'[g] = sender[g]
        /\ sender'[h].at = "idle" /\ sender'[h].thread = 0
    BY <1>a, <1>c, <2>1 DEF ChatTypes
  <2>7. \A g \in Senders : sender'[g].thread \in 0 .. threads'
    <3>1. \A g \in Senders : sender[g].thread \in 0 .. threads
      BY <1>a DEF ThreadsExist
    <3>2. 0 .. threads \subseteq 0 .. threads' /\ 0 \in 0 .. threads'
      BY <1>b, <2>4
    <3> QED
      BY <2>6, <3>1, <3>2
  <2>8. /\ pending' \in [Threads -> BOOLEAN] /\ unread' \in [Threads -> BOOLEAN]
        /\ \A u \in Threads : pending[u] => pending'[u]
    BY <1>a, <2>1, <2>2 DEF ChatTypes
  <2>9. here \in Nat /\ here \in 1 .. Len(log'[v])
    BY <2>3, <2>4
  <2>10. row \in TurnRow /\ row.at = "asking" /\ row.thread = v /\ row.since = here
    <3> HIDE DEF here
    <3> QED
      BY <2>2, <2>3, <2>9 DEF TurnRow
  <2>11. notes' \in 0 .. MaxNotes /\ faults' \in 0 .. MaxFaults /\ overlapped' = overlapped
    BY <1>a, <2>1 DEF ChatTypes
  <2>12. CASE sender[h].saw
    <3>1. turn' = turn
      BY <2>1, <2>12
    <3>2. \A k \in Turns : Underway(k)' =>
            /\ turn'[k].thread \in Threads /\ turn'[k].since \in 1 .. Len(log'[turn'[k].thread])
            /\ turn'[k].thread \in 1 .. threads'
      <4>1. \A k \in Turns : Underway(k)' => turn[k].thread \in 1 .. threads
        BY <1>a, <3>1 DEF ThreadsExist, Underway
      <4>2. 1 .. threads \subseteq 1 .. threads'
        BY <1>b, <2>4
      <4> QED
        BY <1>a, <2>4, <3>1, <4>1, <4>2, SameTurns
    <3>3. ChatTypes'
      BY <1>a, <2>4, <2>5, <2>6, <2>8, <2>11, <3>1, <3>2 DEF ChatTypes
    <3>4. ThreadsExist'
      BY <2>7, <3>2 DEF ThreadsExist
    <3>5. \A u \in Threads : InFlight(u)' = InFlight(u)
      BY <3>1 DEF InFlight
    <3>6. \A g \in Senders, u \in Threads : Starts(g, u)' => Starts(g, u)
      BY <2>6 DEF Starts
    <3>7. TurnInv'
      BY <1>a, <2>8, <2>11, <3>5, <3>6, FewerTurns DEF TurnInv
    <3> QED
      BY <3>3, <3>4, <3>7 DEF ChatInv
  <2>13. CASE ~sender[h].saw
    <3>1. turn' = [turn EXCEPT ![sent + 1] = row]
      BY <2>1, <2>13
    <3>2. ChatTypes' /\ ThreadsExist'
      <4> HIDE DEF row, here
      <4> QED
        BY <1>a, <2>4, <2>5, <2>6, <2>7, <2>8, <2>9, <2>10, <2>11, <3>1, TurnTypes
    <3>3. turn'[sent + 1] = row /\ \A k \in Turns \ {sent + 1} : turn'[k] = turn[k]
      <4> HIDE DEF row
      <4> QED
        BY <1>a, <2>5, <3>1 DEF ChatTypes
    <3>4. \A u \in Threads \ {v} : InFlight(u)' \subseteq InFlight(u)
      BY <2>10, <3>3 DEF InFlight
    <3>5. InFlight(v)' \subseteq InFlight(v) \cup {sent + 1}
      BY <3>3 DEF InFlight
    <3>6. pending'[v] = TRUE
      BY <1>a, <2>1, <2>3, <2>13 DEF ChatTypes
    <3>7. \A g \in Senders, u \in Threads : Starts(g, u)' => Starts(g, u) /\ g # h
      BY <2>6 DEF Starts
    <3>8. sender[h].thread # 0 => Starts(h, v)
      BY <2>1, <2>3, <2>13 DEF Starts
    <3>9. sender[h].thread = 0 => InFlight(v) = {} /\ \A g \in Senders : ~Starts(g, v)
      <4>1. ASSUME sender[h].thread = 0 PROVE v = threads + 1
        BY <2>3, <4>1 DEF NewThread
      <4>2. ASSUME v = threads + 1 PROVE InFlight(v) = {} /\ \A g \in Senders : ~Starts(g, v)
        <5>1. v \notin 1 .. threads /\ v \notin 0 .. threads
          BY <1>b, <4>2
        <5> QED
          BY <1>a, <5>1 DEF InFlight, Starts, ThreadsExist, Underway
      <4> QED
        BY <4>1, <4>2
    <3>10. v \notin overlapped => InFlight(v) = {} /\ \A g \in Senders \ {h} : ~Starts(g, v)
      BY <1>a, <3>8, <3>9 DEF TurnInv
    <3>11. TurnInv'
      <4> SUFFICES ASSUME NEW u \in Threads \ overlapped
                   PROVE  /\ \A j, k \in InFlight(u)' : j = k
                          /\ InFlight(u)' # {} => pending'[u]
                          /\ \A g \in Senders : Starts(g, u)' => InFlight(u)' = {}
                          /\ \A f, g \in Senders : Starts(f, u)' /\ Starts(g, u)' => f = g
        BY <2>11 DEF TurnInv
      <4>1. CASE u = v
        BY <3>5, <3>6, <3>7, <3>10, <4>1
      <4>2. CASE u # v
        BY <1>a, <2>8, <3>4, <3>7, <4>2 DEF TurnInv
      <4> QED
        BY <4>1, <4>2
    <3> QED
      BY <3>2, <3>11 DEF ChatInv
  <2> QED
    BY <2>12, <2>13
<1> QED
  BY <1>1, <1>2, <1>3, <1>4, <1>5, <1>6, <1>7, <1>8, <1>9, <1>10 DEF ChatNext, TurnStep

\* Type correctness.
THEOREM ChatTypeCorrect == ChatSpec => []ChatTypeOK
<1>1. ChatInv => ChatTypeOK
  BY DEF ChatInv, ChatTypes, ChatTypeOK, SenderRow, TurnRow, Underway
<1> QED
  BY <1>1, ChatStart, ChatKept, PTL DEF ChatSpec

\* One conversation is one session of the runtime: no two turns of a thread are under way,
\* whatever requests, notes and restarts come in between.
THEOREM OneTurnAtATime == ChatSpec => []OneTurnPerThread
<1>1. ASSUME ChatInv PROVE OneTurnPerThread
  <2> SUFFICES ASSUME NEW t \in Threads \ overlapped PROVE Cardinality(InFlight(t)) <= 1
    BY DEF OneTurnPerThread
  <2>1. \A j, k \in InFlight(t) : j = k
    BY <1>1 DEF ChatInv, TurnInv
  <2>2. CASE InFlight(t) = {}
    BY <2>2, FS_EmptySet
  <2>3. CASE InFlight(t) # {}
    <3>1. PICK k : InFlight(t) = {k}
      BY <2>1, <2>3
    <3> QED
      BY <3>1, FS_Singleton
  <2> QED
    BY <2>2, <2>3
<1> QED
  BY <1>1, ChatStart, ChatKept, PTL DEF ChatSpec
=============================================================================
