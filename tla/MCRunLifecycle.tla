--------------------------- MODULE MCRunLifecycle ---------------------------
(* Instances of RunLifecycle.  Pair: a server that takes requests and a daemon,   *)
(* of one thread each; both claim, execute and recover runs; the thread is named *)
(* like its process.  Single: one server with a thread for requests and a thread *)
(* for the background jobs.  Trio: that server, and a second process that        *)
(* recovers runs as it starts.                                                   *)
EXTENDS RunLifecycle, TLC

CONSTANTS server, second, t1, t2, t3

PairThreads == {server, second}
PairProcOf == [t \in PairThreads |-> t]
PairDuties == (server :> {"request", "dispatch", "recovery"})
                @@ (second :> {"dispatch", "recovery"})

MCThreads == {t1, t2}
SingleProcOf == (t1 :> server) @@ (t2 :> server)
SingleDuties == (t1 :> {"request"}) @@ (t2 :> {"dispatch", "recovery", "sweep"})

TrioThreads == {t1, t2, t3}
TrioProcOf == SingleProcOf @@ (t3 :> second)
TrioDuties == SingleDuties @@ (t3 :> {"recovery"})
=============================================================================
