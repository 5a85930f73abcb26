------------------------------- MODULE Logins -------------------------------
(***************************************************************************)
(* The throttle of browser logins (hagent/auth.py): login_submit asks       *)
(* login_blocked, checks the password, which takes a while, and records the *)
(* failure.  The list of failures lives in the memory of the server.        *)
(***************************************************************************)
EXTENDS Naturals, Sequences, FiniteSets

CONSTANTS
    LoginNames,     \* pairs of an address and a username
    LoginRequests,  \* logins that the server handles at a time
    MaxFailures,    \* MAX_FAILURES
    FailureWindow,  \* FAILURE_WINDOW
    MaxLoginClock   \* bound: the time that passes

ASSUME LoginsAssumption ==
    /\ {MaxFailures, FailureWindow} \subseteq Nat \ {0}
    /\ MaxLoginClock \in Nat
    /\ IsFiniteSet(LoginRequests)
    /\ "none" \notin LoginNames

VARIABLES
    failures,    \* _failures: the times of failed logins, pruned by login_blocked
    login,       \* what a request is checking, "none" if nothing
    loginClock

loginVars == <<failures, login, loginClock>>

LoginsTypeOK ==
    /\ \A u \in LoginNames : failures[u] \in Seq(0 .. loginClock)
    /\ login \in [LoginRequests -> LoginNames \cup {"none"}]
    /\ loginClock \in 0 .. MaxLoginClock

LoginsInit ==
    /\ failures = [u \in LoginNames |-> <<>>]
    /\ login = [r \in LoginRequests |-> "none"]
    /\ loginClock = 0

\* Failures are recorded in the order of a monotonic clock: those out of the window come first.
Outdated(u) == {i \in DOMAIN failures[u] : failures[u][i] + FailureWindow <= loginClock}
Recent(u) == SubSeq(failures[u], Cardinality(Outdated(u)) + 1, Len(failures[u]))

\* Fault: one failure more than allowed.
Blocked_OneMore(u) == Len(Recent(u)) > MaxFailures

Blocked(u) == Len(Recent(u)) >= MaxFailures

\* login_blocked prunes the list and decides; the password is checked afterwards.
AskLogin(r, u) ==
    /\ login[r] = "none"
    /\ failures' = [failures EXCEPT ![u] = Recent(u)]
    /\ login' = IF Blocked(u) THEN login ELSE [login EXCEPT ![r] = u]
    /\ UNCHANGED loginClock

LoginFails(r) ==
    /\ login[r] # "none"
    /\ failures' = [failures EXCEPT ![login[r]] = Append(@, loginClock)]
    /\ login' = [login EXCEPT ![r] = "none"]
    /\ UNCHANGED loginClock

LoginSucceeds(r) ==
    /\ login[r] # "none"
    /\ failures' = [failures EXCEPT ![login[r]] = <<>>]
    /\ login' = [login EXCEPT ![r] = "none"]
    /\ UNCHANGED loginClock

LoginTick ==
    /\ loginClock < MaxLoginClock
    /\ loginClock' = loginClock + 1
    /\ UNCHANGED <<failures, login>>

\* The server starts again with an empty list.
LoginsRestart ==
    /\ failures' = [u \in LoginNames |-> <<>>]
    /\ login' = [r \in LoginRequests |-> "none"]
    /\ UNCHANGED loginClock

LoginsNext ==
    \/ \E r \in LoginRequests : \/ LoginFails(r) \/ LoginSucceeds(r)
                                \/ \E u \in LoginNames : AskLogin(r, u)
    \/ LoginTick
    \/ LoginsRestart

LoginsSpec == LoginsInit /\ [][LoginsNext]_loginVars

\* The passwords tried for a name within the window, those being checked included, exceed
\* the limit by no more than the requests that passed login_blocked together.
FailuresBounded ==
    \A u \in LoginNames :
        Len(Recent(u)) + Cardinality({r \in LoginRequests : login[r] = u})
            <= MaxFailures + Cardinality(LoginRequests) - 1
=============================================================================
