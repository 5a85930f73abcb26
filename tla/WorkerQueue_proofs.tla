------------------------ MODULE WorkerQueue_proofs --------------------------
(***************************************************************************)
(* Theorems about WorkerQueue, for any number of jobs, worker processes    *)
(* and requests the server works on at a time.                             *)
(***************************************************************************)
EXTENDS WorkerQueue, TLAPS

-----------------------------------------------------------------------------
(* The inductive invariant *)

\* The rows of worker_jobs that exist are those whose call has been made.
Fresh ==
    \A j \in Jobs :
        /\ j > nJobs => status[j] = "none"
        /\ status[j] = "none" <=> caller[j] = "none"

\* A job that was not claimed is nobody's.
Unclaimed ==
    \A j \in Jobs :
        status[j] \in {"none", "pending"} =>
            /\ starts[j] = 0
            /\ \A w \in Workers : client[w].job # j
            /\ \A h \in Handlers : handler[h].job # j

\* A result comes from a worker, and a row is done only with a good one.
Results ==
    \A j \in Jobs :
        /\ starts[j] = 0 => result[j] = "none"
        /\ status[j] = "done" => result[j] = "good"

\* One worker works on a job, and it has no result yet.
Working ==
    \A w \in Workers :
        client[w].at = "working" =>
            /\ client[w].job \in Jobs
            /\ starts[client[w].job] = 1 /\ result[client[w].job] = "none"
            /\ \A v \in Workers :
                 client[v].at = "working" /\ client[v].job = client[w].job => v = w

\* The reply that hands out a job is the only one, and nobody has begun to perform it.
HandedOut ==
    \A h \in Handlers :
        handler[h].at = "reply" /\ handler[h].job # 0 =>
            /\ starts[handler[h].job] = 0
            /\ \A g \in Handlers :
                 handler[g].at = "reply" /\ handler[g].job = handler[h].job => g = h

\* A report carries the result of its job; a poll has no job yet.
Requests ==
    \A h \in Handlers :
        /\ handler[h].at \in {"report", "store"} =>
              handler[h].job \in Jobs /\ result[handler[h].job] = handler[h].outcome
        /\ handler[h].at \in {"free", "poll", "claim"} => handler[h].job = 0

IInv == TypeOK /\ Fresh /\ Unclaimed /\ Results /\ Working /\ HandedOut /\ Requests

-----------------------------------------------------------------------------
(* Types *)

\* The constant values of a client and a request are typed.
LEMMA RestTypes ==
    /\ IdleClient \in Client
    /\ NoRequest \in Request
    /\ \A j \in Jobs : j \in Nat /\ j # 0
BY WorkerAssumption DEF IdleClient, Client, NoRequest, Request, Jobs, Outcome

\* What the actions read from clients and requests is typed.
LEMMA Fields ==
    ASSUME TypeOK
    PROVE  /\ \A w \in Workers : client[w].job \in Jobs \cup {0}
           /\ \A h \in Handlers : /\ handler[h].by \in Workers \cup {None}
                                  /\ handler[h].job \in Jobs \cup {0}
                                  /\ handler[h].todo \in SUBSET Jobs
                                  /\ handler[h].outcome \in Outcome
           /\ \A j \in Jobs : starts[j] \in {0, 1}
<1>1. \A c \in Client : c.job \in Jobs \cup {0}
  BY DEF Client
<1>2. \A q \in Request : /\ q.by \in Workers \cup {None}
                         /\ q.job \in Jobs \cup {0}
                         /\ q.todo \in SUBSET Jobs
                         /\ q.outcome \in Outcome
  BY DEF Request
<1>3. \A n \in 0 .. 1 : n \in {0, 1}
  OBVIOUS
<1> QED
  BY <1>1, <1>2, <1>3 DEF TypeOK

\* A step of the caller of a job keeps the type.
LEMMA CallerType ==
    ASSUME TypeOK, NEW j \in Jobs, UnchangedWork,
           NEW s \in FinishedStatuses,
           status' = status \/ status' = [status EXCEPT ![j] = s],
           NEW c \in {"answered", "raised", "gone"} \cup WaitingCallers,
           caller' = [caller EXCEPT ![j] = c]
    PROVE  TypeOK'
BY DEF TypeOK, UnchangedWork

\* The invariant holds at first.
LEMMA InvInit == Init => IInv
<1> SUFFICES ASSUME Init PROVE IInv
  OBVIOUS
<1>1. TypeOK
  BY RestTypes, WorkerAssumption DEF Init, TypeOK
<1>2. Fresh /\ Results
  BY DEF Init, Fresh, Results
<1>3. Unclaimed /\ Working /\ HandedOut /\ Requests
  BY RestTypes DEF Init, Unclaimed, Working, HandedOut, Requests, IdleClient, NoRequest
<1> QED
  BY <1>1, <1>2, <1>3 DEF IInv

\* A step that only moves a caller, and may end its job, preserves the invariant.
LEMMA CallerInv ==
    ASSUME IInv, NEW j \in Jobs, UnchangedWork, caller[j] \in WaitingCallers,
           status' = status \/ status' = [status EXCEPT ![j] = "abandoned"],
           NEW c \in {"answered", "raised", "gone"} \cup WaitingCallers,
           caller' = [caller EXCEPT ![j] = c]
    PROVE  IInv'
<1>1. TypeOK'
  BY CallerType DEF IInv, FinishedStatuses
<1>2. c # "none" /\ caller[j] # "none"
  BY DEF WaitingCallers
<1>3. Fresh'
  BY <1>2 DEF IInv, TypeOK, Fresh, UnchangedWork
<1>4. Unclaimed'
  BY DEF IInv, TypeOK, Unclaimed, UnchangedWork
<1>5. Results'
  BY DEF IInv, TypeOK, Results, UnchangedWork
<1>6. Working' /\ HandedOut' /\ Requests'
  BY DEF IInv, Working, HandedOut, Requests, UnchangedWork
<1> QED
  BY <1>1, <1>3, <1>4, <1>5, <1>6 DEF IInv

\* Inserting a row preserves the invariant.
LEMMA EnqueueInv ==
    ASSUME IInv, NEW old \in SUBSET Jobs, Enqueue(old)
    PROVE  IInv'
<1> DEFINE n == nJobs + 1
<1>1. n \in Jobs /\ nJobs' = n /\ nJobs \in Nat /\ MaxJobs \in Nat
  BY WorkerAssumption DEF IInv, TypeOK, Enqueue, Jobs
<1>2. status[n] = "none" /\ caller[n] = "none"
  BY <1>1 DEF IInv, Fresh
<1>3. \A j \in Jobs : status'[j] = IF j = n THEN "pending"
                                   ELSE IF j \in old THEN "deleted" ELSE status[j]
  BY DEF Enqueue
<1>4. \A j \in Jobs : caller'[j] = IF j = n THEN "waiting" ELSE caller[j]
  BY <1>1 DEF IInv, TypeOK, Enqueue
<1>5. \A j \in old : status[j] # "none"
  BY DEF Enqueue, Deletable, FinishedStatuses
<1>6. TypeOK'
  <2>1. status' \in [Jobs -> {"none", "pending", "running", "deleted"} \cup FinishedStatuses]
    BY DEF IInv, TypeOK, Enqueue
  <2>2. caller' \in [Jobs -> {"none", "answered", "raised", "gone"} \cup WaitingCallers]
    BY <1>1 DEF IInv, TypeOK, Enqueue, WaitingCallers
  <2> QED
    BY <1>1, <2>1, <2>2 DEF IInv, TypeOK, Enqueue, Jobs
<1>7. Fresh'
  BY <1>1, <1>2, <1>3, <1>4, <1>5 DEF IInv, Fresh, Jobs
<1>8. Unclaimed'
  BY <1>1, <1>2, <1>3 DEF IInv, Unclaimed, Enqueue
<1>9. Results' /\ Working' /\ HandedOut' /\ Requests'
  BY <1>3 DEF IInv, Results, Working, HandedOut, Requests, Enqueue
<1> QED
  BY <1>6, <1>7, <1>8, <1>9 DEF IInv

-----------------------------------------------------------------------------
(* The worker processes *)

\* A poll preserves the invariant: it has no job.
LEMMA StartPollInv ==
    ASSUME IInv, NEW w \in Workers, NEW h \in Handlers, StartPoll(w, h)
    PROVE  IInv'
<1> DEFINE c == [client[w] EXCEPT !.at = "polling"]
           q == [NoRequest EXCEPT !.at = "poll", !.by = w]
<1>1. c \in Client /\ c.at = "polling" /\ c.job = client[w].job
  BY DEF IInv, TypeOK, Client
<1>2. q \in Request /\ q.at = "poll" /\ q.job = 0
  BY RestTypes DEF NoRequest, Request
<1>3. /\ client' = [client EXCEPT ![w] = c]
      /\ handler' = [handler EXCEPT ![h] = q]
      /\ UNCHANGED <<nJobs, status, caller, starts, result>>
  BY DEF StartPoll
<1> HIDE DEF c, q
<1>4. TypeOK'
  BY <1>1, <1>2, <1>3 DEF IInv, TypeOK
<1>5. \A v \in Workers : client'[v] = IF v = w THEN c ELSE client[v]
  BY <1>3 DEF IInv, TypeOK
<1>6. \A g \in Handlers : handler'[g] = IF g = h THEN q ELSE handler[g]
  BY <1>3 DEF IInv, TypeOK
<1>7. Fresh' /\ Results'
  BY <1>3 DEF IInv, Fresh, Results
<1>8. Unclaimed'
  BY <1>1, <1>2, <1>3, <1>5, <1>6, RestTypes DEF IInv, Unclaimed
<1>9. Working'
  BY <1>1, <1>3, <1>5 DEF IInv, Working
<1>10. HandedOut' /\ Requests'
  BY <1>2, <1>3, <1>6 DEF IInv, HandedOut, Requests
<1> QED
  BY <1>4, <1>7, <1>8, <1>9, <1>10 DEF IInv

\* A report preserves the invariant: its worker was the only one on the job.
LEMMA ReportInv ==
    ASSUME IInv, NEW w \in Workers, NEW h \in Handlers, NEW outcome \in Outcome,
           Report(w, h, outcome)
    PROVE  IInv'
<1> DEFINE j == client[w].job
           c == [client[w] EXCEPT !.at = "reporting"]
           q == [NoRequest EXCEPT !.at = "report", !.by = w, !.job = j, !.outcome = outcome]
<1>1. c \in Client /\ c.at = "reporting" /\ c.job = j
  BY DEF IInv, TypeOK, Client
<1>2. j \in Jobs /\ starts[j] = 1 /\ result[j] = "none"
  BY DEF IInv, Working, Report
<1>3. q \in Request /\ q.at = "report" /\ q.job = j /\ q.outcome = outcome
  BY <1>2 DEF NoRequest, Request
<1>4. /\ client' = [client EXCEPT ![w] = c]
      /\ handler' = [handler EXCEPT ![h] = q]
      /\ result' = [result EXCEPT ![j] = outcome]
      /\ client[w].at = "working"
      /\ UNCHANGED <<nJobs, status, caller, starts>>
  BY DEF Report
<1>5. outcome # "none"
  BY DEF Outcome
<1>6. \A v \in Workers : v # w /\ client[v].at = "working" => client[v].job # j
  BY <1>4 DEF IInv, Working
<1> HIDE DEF c, q
<1>7. TypeOK'
  <2>1. result' \in [Jobs -> {"none"} \cup Outcome]
    BY <1>4 DEF IInv, TypeOK
  <2> QED
    BY <1>1, <1>3, <1>4, <2>1 DEF IInv, TypeOK
<1>8. \A v \in Workers : client'[v] = IF v = w THEN c ELSE client[v]
  BY <1>4 DEF IInv, TypeOK
<1>9. \A g \in Handlers : handler'[g] = IF g = h THEN q ELSE handler[g]
  BY <1>4 DEF IInv, TypeOK
<1>10. \A k \in Jobs : result'[k] = IF k = j THEN outcome ELSE result[k]
  BY <1>4 DEF IInv, TypeOK
<1>11. Fresh' /\ Results'
  BY <1>2, <1>4, <1>10 DEF IInv, Fresh, Results
<1>12. Unclaimed'
  BY <1>1, <1>2, <1>3, <1>4, <1>8, <1>9 DEF IInv, Unclaimed
<1>13. Working'
  BY <1>1, <1>4, <1>6, <1>8, <1>10 DEF IInv, Working
<1>14. HandedOut'
  BY <1>3, <1>4, <1>9 DEF IInv, HandedOut
<1>15. Requests'
  <2>1. handler[h].at = "free"
    BY DEF Report
  <2>2. ASSUME NEW g \in Handlers, handler[g].at \in {"report", "store"}
        PROVE  handler[g].job # j
    BY <2>2, <1>2, Fields DEF IInv, Requests, Outcome
  <2> QED
    BY <1>2, <1>3, <1>9, <1>10, <2>2 DEF IInv, Requests
<1> QED
  BY <1>7, <1>11, <1>12, <1>13, <1>14, <1>15 DEF IInv

\* A worker that loses its connection preserves the invariant.
LEMMA DisconnectInv ==
    ASSUME IInv, NEW w \in Workers, Disconnect(w)
    PROVE  IInv'
<1>1. \A v \in Workers : client'[v] = IF v = w THEN IdleClient ELSE client[v]
  BY DEF IInv, TypeOK, Disconnect
<1>2. \A g \in Handlers : /\ handler'[g] \in Request
                          /\ handler'[g].at = handler[g].at
                          /\ handler'[g].job = handler[g].job
                          /\ handler'[g].outcome = handler[g].outcome
  <2>1. \A q \in Request : /\ [q EXCEPT !.by = None] \in Request
                           /\ [q EXCEPT !.by = None].at = q.at
                           /\ [q EXCEPT !.by = None].job = q.job
                           /\ [q EXCEPT !.by = None].outcome = q.outcome
    BY DEF Request
  <2> QED
    BY <2>1 DEF IInv, TypeOK, Disconnect
<1>3. IdleClient.at = "idle" /\ IdleClient.job = 0
  BY DEF IdleClient
<1>4. TypeOK'
  <2>1. client' \in [Workers -> Client]
    BY RestTypes DEF IInv, TypeOK, Disconnect
  <2>2. handler' \in [Handlers -> Request]
    BY <1>2 DEF Disconnect
  <2> QED
    BY <2>1, <2>2 DEF IInv, TypeOK, Disconnect
<1>5. Fresh' /\ Results'
  BY DEF IInv, Fresh, Results, Disconnect
<1>6. Unclaimed'
  BY <1>1, <1>2, <1>3, RestTypes DEF IInv, Unclaimed, Disconnect
<1>7. Working'
  BY <1>1, <1>3 DEF IInv, Working, Disconnect
<1>8. HandedOut' /\ Requests'
  BY <1>2 DEF IInv, HandedOut, Requests, Disconnect
<1> QED
  BY <1>4, <1>5, <1>6, <1>7, <1>8 DEF IInv

-----------------------------------------------------------------------------
(* The server *)

\* A step of a request that gives it another form, without changing a row, preserves
\* the invariant if the request hands out no job and carries the report it carried.
LEMMA RequestInv ==
    ASSUME IInv, NEW h \in Handlers, NEW q \in Request,
           handler' = [handler EXCEPT ![h] = q],
           UNCHANGED <<nJobs, status, caller, client, starts, result>>,
           \/ q.job = 0 /\ q.at \notin {"report", "store"}
           \/ q.job = handler[h].job /\ q.at = "store"
              /\ handler[h].at = "report" /\ q.outcome = handler[h].outcome
    PROVE  IInv'
<1>1. \A g \in Handlers : handler'[g] = IF g = h THEN q ELSE handler[g]
  BY DEF IInv, TypeOK
<1>2. TypeOK'
  BY DEF IInv, TypeOK
<1>3. Fresh' /\ Results' /\ Working'
  BY DEF IInv, Fresh, Results, Working
<1>4. Unclaimed'
  BY <1>1, RestTypes DEF IInv, Unclaimed
<1>5. HandedOut'
  BY <1>1 DEF IInv, HandedOut
<1>6. Requests'
  BY <1>1 DEF IInv, Requests
<1> QED
  BY <1>2, <1>3, <1>4, <1>5, <1>6 DEF IInv

\* The reply without a job is typed.
LEMMA EmptyReplyType ==
    ASSUME TypeOK, NEW h \in Handlers
    PROVE  /\ EmptyReply(h) \in Request
           /\ EmptyReply(h).job = 0 /\ EmptyReply(h).at = "reply"
BY Fields, RestTypes DEF EmptyReply, NoRequest, Request

\* Reading the pending jobs preserves the invariant.
LEMMA ReadCandidatesInv ==
    ASSUME IInv, NEW h \in Handlers, ReadCandidates(h)
    PROVE  IInv'
<1> DEFINE pending == {j \in Jobs : status[j] = "pending"}
           at == IF pending = {} THEN "reply" ELSE "claim"
           q == [handler[h] EXCEPT !.at = at, !.todo = pending]
<1>1. handler[h].job = 0
  BY DEF IInv, Requests, ReadCandidates
<1>2. pending \in SUBSET Jobs /\ at \in {"reply", "claim"}
  OBVIOUS
<1>3. handler' = [handler EXCEPT ![h] = q]
  BY DEF ReadCandidates, IInv, TypeOK
<1> HIDE DEF pending, at
<1>4. q \in Request /\ q.job = 0 /\ q.at \in {"reply", "claim"}
  BY <1>1, <1>2 DEF IInv, TypeOK, Request
<1> HIDE DEF q
<1> QED
  BY <1>3, <1>4, RequestInv DEF ReadCandidates, UnchangedCalls

\* A candidate that is not pending any more is passed over.
LEMMA TryNextInv ==
    ASSUME IInv, NEW h \in Handlers, NEW j \in Jobs, handler[h].at = "claim",
           TryNext(h, j), UnchangedCalls
    PROVE  IInv'
<1> DEFINE rest == handler[h].todo \ {j}
           at == IF rest = {} THEN "reply" ELSE "claim"
           q == [handler[h] EXCEPT !.at = at, !.todo = rest]
<1>1. handler[h].job = 0
  BY DEF IInv, Requests
<1>2. rest \in SUBSET Jobs /\ at \in {"reply", "claim"}
  BY Fields DEF IInv
<1>3. handler' = [handler EXCEPT ![h] = q]
  BY DEF TryNext, IInv, TypeOK
<1> HIDE DEF rest, at
<1>4. q \in Request /\ q.job = 0 /\ q.at \in {"reply", "claim"}
  BY <1>1, <1>2 DEF IInv, TypeOK, Request
<1> HIDE DEF q
<1> QED
  BY <1>3, <1>4, RequestInv DEF TryNext, UnchangedCalls

\* The claim preserves the invariant: it takes a job that nobody has.
LEMMA ClaimInv ==
    ASSUME IInv, NEW h \in Handlers, NEW j \in Jobs, handler[h].at = "claim",
           Claim(h, j), UnchangedCalls
    PROVE  IInv'
<1> DEFINE q == [handler[h] EXCEPT !.at = "reply", !.job = j, !.todo = {}]
<1>1. q \in Request /\ q.at = "reply" /\ q.job = j
  BY DEF IInv, TypeOK, Request
<1>2. handler' = [handler EXCEPT ![h] = q]
  BY DEF Claim, IInv, TypeOK
<1>3. /\ status[j] = "pending" /\ status' = [status EXCEPT ![j] = "running"]
      /\ UNCHANGED <<nJobs, caller, client, starts, result>>
  BY DEF Claim, UnchangedCalls
<1>4. /\ starts[j] = 0 /\ \A w \in Workers : client[w].job # j
      /\ \A g \in Handlers : handler[g].job # j
  BY <1>3 DEF IInv, Unclaimed
<1> HIDE DEF q
<1>5. \A g \in Handlers : handler'[g] = IF g = h THEN q ELSE handler[g]
  BY <1>2 DEF IInv, TypeOK
<1>6. \A k \in Jobs : status'[k] = IF k = j THEN "running" ELSE status[k]
  BY <1>3 DEF IInv, TypeOK
<1>7. TypeOK'
  BY <1>1, <1>2, <1>3 DEF IInv, TypeOK
<1>8. Fresh' /\ Results'
  BY <1>3, <1>6 DEF IInv, Fresh, Results
<1>9. Unclaimed'
  BY <1>1, <1>3, <1>5, <1>6 DEF IInv, Unclaimed
<1>10. Working'
  BY <1>3 DEF IInv, Working
<1>11. HandedOut'
  BY <1>1, <1>3, <1>4, <1>5 DEF IInv, HandedOut
<1>12. Requests'
  BY <1>1, <1>3, <1>5 DEF IInv, Requests
<1> QED
  BY <1>7, <1>8, <1>9, <1>10, <1>11, <1>12 DEF IInv

\* Reading the row of a report preserves the invariant.
LEMMA ReadJobInv ==
    ASSUME IInv, NEW h \in Handlers, ReadJob(h)
    PROVE  IInv'
<1>1. CASE status[handler[h].job] = "running"
  <2> DEFINE q == [handler[h] EXCEPT !.at = "store"]
  <2>1. /\ q \in Request /\ q.at = "store"
        /\ q.job = handler[h].job /\ q.outcome = handler[h].outcome
    BY DEF IInv, TypeOK, Request
  <2>2. handler' = [handler EXCEPT ![h] = q] /\ handler[h].at = "report"
    BY <1>1 DEF ReadJob
  <2> HIDE DEF q
  <2> QED
    BY <2>1, <2>2, RequestInv DEF ReadJob, UnchangedCalls
<1>2. CASE status[handler[h].job] # "running"
  <2>1. handler' = [handler EXCEPT ![h] = EmptyReply(h)]
    BY <1>2 DEF ReadJob
  <2> QED
    BY <2>1, EmptyReplyType, RequestInv DEF IInv, ReadJob, UnchangedCalls
<1> QED
  BY <1>1, <1>2

\* Storing a report preserves the invariant: it is the result of the job.
LEMMA StoreInv ==
    ASSUME IInv, NEW h \in Handlers, Store(h)
    PROVE  IInv'
<1> DEFINE j == handler[h].job
           s == IF handler[h].outcome = "good" THEN "done" ELSE "failed"
           q == EmptyReply(h)
<1>1. j \in Jobs /\ result[j] = handler[h].outcome
  BY DEF IInv, Requests, Store
<1>2. status[j] \notin {"none", "pending"}
  BY <1>1 DEF IInv, Unclaimed
<1>3. q \in Request /\ q.job = 0 /\ q.at = "reply"
  BY EmptyReplyType DEF IInv
<1>4. s \in {"done", "failed"} /\ (s = "done" => result[j] = "good")
  BY <1>1
<1>5. /\ status' = [status EXCEPT ![j] = s] /\ handler' = [handler EXCEPT ![h] = q]
      /\ UNCHANGED <<nJobs, caller, client, starts, result>>
  BY DEF Store, UnchangedCalls
<1> HIDE DEF s, q
<1>6. \A k \in Jobs : status'[k] = IF k = j THEN s ELSE status[k]
  BY <1>1, <1>5 DEF IInv, TypeOK
<1>7. \A g \in Handlers : handler'[g] = IF g = h THEN q ELSE handler[g]
  BY <1>5 DEF IInv, TypeOK
<1>8. TypeOK'
  BY <1>3, <1>4, <1>5 DEF IInv, TypeOK, FinishedStatuses
<1>9. Fresh' /\ Results'
  BY <1>2, <1>4, <1>5, <1>6 DEF IInv, Fresh, Results
<1>10. Unclaimed'
  BY <1>3, <1>4, <1>5, <1>6, <1>7, RestTypes DEF IInv, Unclaimed
<1>11. Working' /\ HandedOut' /\ Requests'
  BY <1>3, <1>5, <1>7 DEF IInv, Working, HandedOut, Requests
<1> QED
  BY <1>8, <1>9, <1>10, <1>11 DEF IInv

\* A request that ends, while its client gets nothing or an empty reply, preserves the
\* invariant.
LEMMA EndInv ==
    ASSUME IInv, NEW h \in Handlers, handler' = [handler EXCEPT ![h] = NoRequest],
           client' \in [Workers -> Client],
           \A v \in Workers : client'[v] \in {client[v], IdleClient},
           UNCHANGED <<nJobs, status, caller, starts, result>>
    PROVE  IInv'
<1>1. \A g \in Handlers : handler'[g] = IF g = h THEN NoRequest ELSE handler[g]
  BY DEF IInv, TypeOK
<1>2. /\ IdleClient.at = "idle" /\ IdleClient.job = 0
      /\ NoRequest.at = "free" /\ NoRequest.job = 0
  BY DEF IdleClient, NoRequest
<1>3. TypeOK'
  BY RestTypes DEF IInv, TypeOK
<1>4. Fresh' /\ Results'
  BY DEF IInv, Fresh, Results
<1>5. Unclaimed'
  BY <1>1, <1>2, RestTypes DEF IInv, Unclaimed
<1>6. Working'
  BY <1>2 DEF IInv, Working
<1>7. HandedOut' /\ Requests'
  BY <1>1, <1>2 DEF IInv, HandedOut, Requests
<1> QED
  BY <1>3, <1>4, <1>5, <1>6, <1>7 DEF IInv

\* A failing request preserves the invariant.
LEMMA HandlerFailsInv ==
    ASSUME IInv, NEW h \in Handlers, HandlerFails(h)
    PROVE  IInv'
<1>1. client' \in [Workers -> Client]
  BY RestTypes DEF IInv, TypeOK, HandlerFails
<1>2. \A v \in Workers : client'[v] \in {client[v], IdleClient}
  BY DEF HandlerFails
<1> QED
  BY <1>1, <1>2, EndInv DEF HandlerFails

\* A reply preserves the invariant: the job it may hand out was not begun.
LEMMA ReplyInv ==
    ASSUME IInv, NEW h \in Handlers, Reply(h)
    PROVE  IInv'
<1> DEFINE w == handler[h].by
           j == handler[h].job
           c == [at |-> "working", job |-> j]
<1>1. /\ handler' = [handler EXCEPT ![h] = NoRequest] /\ handler[h].at = "reply"
      /\ UNCHANGED <<nJobs, status, caller, result>>
  BY DEF Reply
<1>2. w \in Workers \cup {None} /\ j \in Jobs \cup {0}
  BY Fields DEF IInv
<1>3. CASE w = None
  <2>1. UNCHANGED <<client, starts>>
    BY <1>3 DEF Reply
  <2>2. client' \in [Workers -> Client] /\ \A v \in Workers : client'[v] = client[v]
    BY <2>1 DEF IInv, TypeOK
  <2> QED
    BY <1>1, <2>1, <2>2, EndInv
<1>4. CASE w # None /\ j = 0
  <2>1. client' = [client EXCEPT ![w] = IdleClient] /\ UNCHANGED starts
    BY <1>4 DEF Reply
  <2>2. /\ client' \in [Workers -> Client]
        /\ \A v \in Workers : client'[v] \in {client[v], IdleClient}
    BY <2>1, RestTypes DEF IInv, TypeOK
  <2> QED
    BY <1>1, <2>1, <2>2, EndInv
<1>5. CASE w # None /\ j # 0
  <2>1. w \in Workers /\ j \in Jobs
    BY <1>2, <1>5
  <2>2. client' = [client EXCEPT ![w] = c] /\ starts' = [starts EXCEPT ![j] = @ + 1]
    BY <1>5 DEF Reply
  <2>3. starts[j] = 0 /\ result[j] = "none" /\ status[j] \notin {"none", "pending"}
    BY <1>1, <1>5, <2>1 DEF IInv, HandedOut, Results, Unclaimed
  <2>4. c \in Client /\ c.at = "working" /\ c.job = j
    BY <2>1 DEF Client
  <2>5. NoRequest.at = "free" /\ NoRequest.job = 0 /\ NoRequest \in Request
    BY RestTypes DEF NoRequest
  <2> HIDE DEF c
  <2>6. \A v \in Workers : client'[v] = IF v = w THEN c ELSE client[v]
    BY <2>2 DEF IInv, TypeOK
  <2>7. \A g \in Handlers : handler'[g] = IF g = h THEN NoRequest ELSE handler[g]
    BY <1>1 DEF IInv, TypeOK
  <2>8. \A k \in Jobs : starts'[k] = IF k = j THEN 1 ELSE starts[k]
    BY <2>1, <2>2, <2>3 DEF IInv, TypeOK
  <2>9. TypeOK'
    <3>1. starts' \in [Jobs -> 0 .. 1]
      <4>1. starts' = [starts EXCEPT ![j] = 1]
        BY <2>1, <2>2, <2>3 DEF IInv, TypeOK
      <4>2. starts \in [Jobs -> 0 .. 1] /\ 1 \in 0 .. 1
        BY DEF IInv, TypeOK
      <4> QED
        BY <4>1, <4>2
    <3> QED
      BY <1>1, <2>2, <2>4, <2>5, <3>1 DEF IInv, TypeOK
  <2>10. Fresh' /\ Results'
    BY <1>1, <2>8 DEF IInv, Fresh, Results
  <2>11. Unclaimed'
    BY <1>1, <2>3, <2>4, <2>5, <2>6, <2>7, <2>8, RestTypes DEF IInv, Unclaimed
  <2>12. Working'
    BY <1>1, <2>1, <2>3, <2>4, <2>6, <2>8 DEF IInv, Working
  <2>13. HandedOut'
    <3>1. ASSUME NEW g \in Handlers, g # h, handler[g].at = "reply", handler[g].job # 0
          PROVE  handler[g].job \in Jobs /\ handler[g].job # j
      BY <1>1, <1>5, <3>1, Fields DEF IInv, HandedOut
    <3> QED
      BY <2>5, <2>7, <2>8, <3>1 DEF IInv, HandedOut
  <2>14. Requests'
    BY <1>1, <2>5, <2>7 DEF IInv, Requests
  <2> QED
    BY <2>9, <2>10, <2>11, <2>12, <2>13, <2>14 DEF IInv
<1> QED
  BY <1>3, <1>4, <1>5

-----------------------------------------------------------------------------
(* The theorems *)

\* Every step preserves the invariant.
LEMMA InvNext == IInv /\ [Next]_vars => IInv'
<1> SUFFICES ASSUME IInv, [Next]_vars PROVE IInv'
  OBVIOUS
<1>1. ASSUME NEW old \in SUBSET Jobs, Enqueue(old) PROVE IInv'
  BY <1>1, EnqueueInv
<1>2. ASSUME NEW j \in Jobs,
             ReadAnswer(j) \/ Close(j) \/ Abandon(j) \/ Expire(j) \/ CallerDies(j)
      PROVE  IInv'
  <2>1. CASE ReadAnswer(j)
    BY <2>1, CallerInv DEF ReadAnswer, WaitingCallers
  <2>2. CASE Close(j)
    BY <2>2, CallerInv DEF Close, WaitingCallers
  <2>3. CASE Abandon(j)
    BY <2>3, CallerInv DEF Abandon, WaitingCallers
  <2>4. CASE Expire(j)
    BY <2>4, CallerInv DEF Expire, WaitingCallers
  <2>5. CASE CallerDies(j)
    BY <2>5, CallerInv DEF CallerDies
  <2> QED
    BY <1>2, <2>1, <2>2, <2>3, <2>4, <2>5
<1>3. ASSUME NEW w \in Workers, WorkerStep(w) PROVE IInv'
  BY <1>3, StartPollInv, ReportInv DEF WorkerStep
<1>4. ASSUME NEW h \in Handlers, HandlerStep(h) PROVE IInv'
  <2>1. CASE TryClaim(h)
    BY <2>1, ClaimInv, TryNextInv DEF TryClaim
  <2> QED
    BY <1>4, <2>1, ReadCandidatesInv, ReadJobInv, StoreInv, ReplyInv DEF HandlerStep
<1>5. ASSUME NEW w \in Workers, Disconnect(w) PROVE IInv'
  BY <1>5, DisconnectInv
<1>6. ASSUME NEW h \in Handlers, HandlerFails(h) PROVE IInv'
  BY <1>6, HandlerFailsInv
<1>7. CASE UNCHANGED vars
  BY <1>7 DEF vars, IInv, TypeOK, Fresh, Unclaimed, Results, Working, HandedOut, Requests
<1> QED
  BY <1>1, <1>2, <1>3, <1>4, <1>5, <1>6, <1>7 DEF Next, HealthyStep

\* The invariant holds in every behaviour.
LEMMA InvAlways == Spec => []IInv
<1> QED
  BY InvInit, InvNext, PTL DEF Spec

\* TypeOK holds always; that a job is begun at most once, 0 .. 1 in it, needs the whole
\* invariant (_claim_one, run_worker).
THEOREM TypeCorrect == Spec => []TypeOK
<1>1. IInv => TypeOK
  BY DEF IInv
<1> QED
  BY <1>1, InvAlways, PTL

\* A step keeps the jobs of callers that gave up settled.
LEMMA SettledNext == IInv /\ RaisedIsSettled /\ [Next]_vars => RaisedIsSettled'
<1> SUFFICES ASSUME IInv, RaisedIsSettled, [Next]_vars PROVE RaisedIsSettled'
  OBVIOUS
<1> USE DEF IInv, TypeOK, RaisedIsSettled
<1>1. ASSUME NEW old \in SUBSET Jobs, Enqueue(old) PROVE RaisedIsSettled'
  <2>1. nJobs + 1 \in Jobs
    BY <1>1, WorkerAssumption DEF Enqueue, Jobs
  <2> QED
    BY <1>1, <2>1 DEF Enqueue
<1>2. ASSUME NEW j \in Jobs,
             ReadAnswer(j) \/ Close(j) \/ Abandon(j) \/ Expire(j) \/ CallerDies(j)
      PROVE  RaisedIsSettled'
  BY <1>2 DEF ReadAnswer, Close, Abandon, Expire, CallerDies
<1>3. ASSUME NEW h \in Handlers, NEW j \in Jobs, Claim(h, j), UnchangedCalls
      PROVE  RaisedIsSettled'
  BY <1>3 DEF Claim, UnchangedCalls
<1>4. ASSUME NEW h \in Handlers, Store(h) PROVE RaisedIsSettled'
  BY <1>4 DEF Store, UnchangedCalls
<1>5. CASE UNCHANGED <<status, caller>>
  BY <1>5
<1>6. ASSUME NEW h \in Handlers, HandlerStep(h) PROVE RaisedIsSettled'
  <2>1. CASE TryClaim(h)
    BY <2>1, <1>3, <1>5 DEF TryClaim, TryNext, UnchangedCalls
  <2>2. CASE ReadCandidates(h)
    BY <2>2, <1>5 DEF ReadCandidates, UnchangedCalls
  <2>3. CASE ReadJob(h)
    BY <2>3, <1>5 DEF ReadJob, UnchangedCalls
  <2>4. CASE Reply(h)
    BY <2>4, <1>5 DEF Reply
  <2> QED
    BY <1>4, <1>6, <2>1, <2>2, <2>3, <2>4 DEF HandlerStep
<1>7. ASSUME NEW w \in Workers, WorkerStep(w) \/ Disconnect(w) PROVE RaisedIsSettled'
  BY <1>5, <1>7 DEF WorkerStep, StartPoll, Report, Disconnect
<1>8. ASSUME NEW h \in Handlers, HandlerFails(h) PROVE RaisedIsSettled'
  BY <1>5, <1>8 DEF HandlerFails
<1> QED
  BY <1>1, <1>2, <1>5, <1>6, <1>7, <1>8 DEF Next, HealthyStep, vars

\* A caller that has given up leaves no job that could still be claimed or stays running
\* (RemoteWorkerRuntime.run).
THEOREM RaisedSettled == Spec => []RaisedIsSettled
<1>1. Init => RaisedIsSettled
  BY DEF Init, RaisedIsSettled
<1> QED
  BY <1>1, SettledNext, InvAlways, PTL DEF Spec

-----------------------------------------------------------------------------
(* Refinement *)

\* A step that changes neither callers, starts nor results is a stutter.
LEMMA Stutter ==
    ASSUME UNCHANGED <<caller, starts, result>>
    PROVE  UNCHANGED Calls!vars
BY DEF Calls!vars, CallSeen

\* A move of one caller is seen as a move of its call.
LEMMA SeenMove ==
    ASSUME TypeOK, NEW j \in Jobs, NEW c, caller' = [caller EXCEPT ![j] = c]
    PROVE  \A k \in Jobs : k # j => CallSeen(k)' = CallSeen(k)
BY DEF TypeOK, CallSeen

\* The move of a caller whose call ends with seen, or not at all.
LEMMA SeenAs ==
    ASSUME TypeOK, NEW j \in Jobs, NEW c, caller' = [caller EXCEPT ![j] = c],
           NEW seen, CallSeen(j)' = seen
    PROVE  [k \in Jobs |-> CallSeen(k)]' = [[k \in Jobs |-> CallSeen(k)] EXCEPT ![j] = seen]
BY SeenMove

\* The initial state is an initial state of RemoteCalls.
LEMMA RefineInit == Init => Calls!Init
BY DEF Init, Calls!Init, CallSeen, WaitingCallers

\* Every step is a step of RemoteCalls or a stutter.
LEMMA RefineNext == IInv /\ IInv' /\ [Next]_vars => [Calls!Next]_(Calls!vars)
<1> SUFFICES ASSUME IInv, IInv', [Next]_vars PROVE Calls!Next \/ UNCHANGED Calls!vars
  OBVIOUS
<1>t. TypeOK
  BY DEF IInv
<1>1. ASSUME NEW old \in SUBSET Jobs, Enqueue(old) PROVE Calls!Next
  <2>1. PICK n \in Jobs : n = nJobs + 1 /\ n > nJobs
    BY <1>1, <1>t, WorkerAssumption DEF TypeOK, Enqueue, Jobs
  <2>2. caller[n] = "none"
    BY <2>1 DEF IInv, Fresh
  <2>3. caller' = [caller EXCEPT ![n] = "waiting"] /\ UNCHANGED <<starts, result>>
    BY <1>1, <2>1 DEF Enqueue
  <2>4. CallSeen(n) = "none" /\ CallSeen(n)' = "waiting"
    BY <1>t, <2>1, <2>2, <2>3 DEF TypeOK, CallSeen, WaitingCallers
  <2>5. Calls!Call(n)
    BY <1>t, <2>1, <2>3, <2>4, SeenAs DEF Calls!Call
  <2> QED
    BY <2>1, <2>5 DEF Calls!Next
<1>2. ASSUME NEW j \in Jobs, NEW c \in WaitingCallers, caller[j] \in WaitingCallers,
             caller' = [caller EXCEPT ![j] = c], UNCHANGED <<starts, result>>
      PROVE  UNCHANGED Calls!vars
  <2>1. CallSeen(j) = "waiting" /\ CallSeen(j)' = "waiting"
    <3>1. caller'[j] = c
      BY <1>2, <1>t DEF TypeOK
    <3> QED
      BY <1>2, <3>1 DEF CallSeen, WaitingCallers
  <2>2. \A k \in Jobs : CallSeen(k)' = CallSeen(k)
    BY <1>2, <1>t, <2>1, SeenMove
  <2> QED
    BY <1>2, <2>2 DEF Calls!vars
<1>3. ASSUME NEW j \in Jobs, NEW c \in {"raised", "gone"}, caller[j] \in WaitingCallers,
             caller' = [caller EXCEPT ![j] = c], UNCHANGED <<starts, result>>
      PROVE  Calls!Next
  <2>1. CallSeen(j) = "waiting" /\ CallSeen(j)' = "failed"
    BY <1>3, <1>t DEF TypeOK, CallSeen, WaitingCallers
  <2>2. Calls!Fail(j)
    BY <1>3, <1>t, <2>1, SeenAs DEF Calls!Fail
  <2> QED
    BY <2>2 DEF Calls!Next
<1>4. ASSUME NEW j \in Jobs, ReadAnswer(j) PROVE Calls!Next
  <2>1. CASE status[j] = "done"
    <3>1. caller' = [caller EXCEPT ![j] = "answered"] /\ UNCHANGED <<starts, result>>
      BY <1>4, <2>1 DEF ReadAnswer, UnchangedWork
    <3>2. result[j] = "good"
      BY <2>1 DEF IInv, Results
    <3>3. CallSeen(j) = "waiting" /\ CallSeen(j)' = "answered"
      BY <1>4, <1>t, <3>1 DEF ReadAnswer, TypeOK, CallSeen, WaitingCallers
    <3>4. Calls!Answer(j)
      BY <1>t, <3>1, <3>2, <3>3, SeenAs DEF Calls!Answer
    <3> QED
      BY <3>4 DEF Calls!Next
  <2>2. CASE status[j] # "done"
    BY <1>3, <1>4, <2>2 DEF ReadAnswer, UnchangedWork, WaitingCallers
  <2> QED
    BY <2>1, <2>2
<1>5. ASSUME NEW j \in Jobs, Close(j) \/ Abandon(j) \/ Expire(j) \/ CallerDies(j)
      PROVE  Calls!Next \/ UNCHANGED Calls!vars
  <2>1. CASE Close(j)
    <3>1. CASE status[j] \in {"pending", "running"}
      BY <1>2, <2>1, <3>1 DEF Close, UnchangedWork, WaitingCallers
    <3>2. CASE status[j] \notin {"pending", "running"}
      BY <1>3, <2>1, <3>2 DEF Close, UnchangedWork, WaitingCallers
    <3> QED
      BY <3>1, <3>2
  <2>2. CASE Abandon(j)
    BY <1>3, <2>2 DEF Abandon, UnchangedWork, WaitingCallers
  <2>3. CASE Expire(j)
    BY <1>2, <2>3 DEF Expire, UnchangedWork, WaitingCallers
  <2>4. CASE CallerDies(j)
    BY <1>3, <2>4 DEF CallerDies, UnchangedWork
  <2> QED
    BY <1>5, <2>1, <2>2, <2>3, <2>4
<1>6. ASSUME NEW w \in Workers, NEW h \in Handlers, NEW outcome \in Outcome,
             Report(w, h, outcome)
      PROVE  Calls!Next
  <2> DEFINE j == client[w].job
  <2>1. j \in Jobs /\ starts[j] = 1 /\ result[j] = "none"
    BY <1>6 DEF IInv, Working, Report
  <2>2. result' = [result EXCEPT ![j] = outcome] /\ UNCHANGED <<caller, starts>>
    BY <1>6 DEF Report
  <2>3. Calls!Perform(j, outcome)
    BY <2>1, <2>2 DEF Calls!Perform, CallSeen
  <2> QED
    BY <2>1, <2>3 DEF Calls!Next, Outcome
<1>7. ASSUME NEW h \in Handlers, Reply(h)
      PROVE  Calls!Next \/ UNCHANGED Calls!vars
  <2> DEFINE j == handler[h].job
  <2>1. UNCHANGED <<caller, result>> /\ handler[h].at = "reply"
    BY <1>7 DEF Reply
  <2>2. CASE UNCHANGED starts
    BY <2>1, <2>2, Stutter
  <2>3. CASE j # 0 /\ starts' = [starts EXCEPT ![j] = @ + 1]
    <3>1. j \in Jobs
      BY <1>t, <2>3, Fields
    <3>2. starts[j] = 0 /\ caller[j] # "none"
      BY <2>1, <2>3, <3>1 DEF IInv, HandedOut, Unclaimed, Fresh
    <3>3. CallSeen(j) # "none"
      BY <3>2 DEF CallSeen, WaitingCallers
    <3>4. starts' = [starts EXCEPT ![j] = 1]
      BY <1>t, <2>3, <3>1, <3>2 DEF TypeOK
    <3>5. Calls!Start(j)
      BY <2>1, <3>1, <3>2, <3>3, <3>4 DEF Calls!Start, CallSeen
    <3> QED
      BY <3>1, <3>5 DEF Calls!Next
  <2> QED
    BY <1>7, <2>2, <2>3 DEF Reply
<1>8. ASSUME NEW h \in Handlers,
             ReadCandidates(h) \/ TryClaim(h) \/ ReadJob(h) \/ Store(h) \/ HandlerFails(h)
      PROVE  UNCHANGED Calls!vars
  BY <1>8, Stutter DEF ReadCandidates, TryClaim, ReadJob, Store, HandlerFails, UnchangedCalls
<1>9. ASSUME NEW w \in Workers, Disconnect(w) \/ \E h \in Handlers : StartPoll(w, h)
      PROVE  UNCHANGED Calls!vars
  BY <1>9, Stutter DEF Disconnect, StartPoll
<1>10. CASE UNCHANGED vars
  BY <1>10, Stutter DEF vars
<1> QED
  BY <1>1, <1>4, <1>5, <1>6, <1>7, <1>8, <1>9, <1>10
  DEF Next, HealthyStep, WorkerStep, HandlerStep

\* The queue implements RemoteCalls (run_worker, claim, complete and
\* RemoteWorkerRuntime.run together).
THEOREM QueueImplements == Spec => Implements
<1> QED
  BY InvInit, RefineInit, InvNext, RefineNext, InvAlways, PTL
  DEF Spec, Implements, Calls!Spec
=============================================================================
