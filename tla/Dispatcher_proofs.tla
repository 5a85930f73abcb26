-------------------------- MODULE Dispatcher_proofs --------------------------
(***************************************************************************)
(* Theorems about Dispatcher, for any number of runs, agents and threads   *)
(* that make passes.                                                       *)
(***************************************************************************)
EXTENDS Dispatcher, FiniteSetTheorems, FunctionTheorems, TLAPS

\* What the bound on the pool rests on: work is a function of the runs.
PoolInv ==
    /\ work \in [Runs -> {"none", "submitted", "running", "done"}]
    /\ InflightWithinCap

\* The runs the pool holds can be counted.
LEMMA InflightFinite == IsFiniteSet(Inflight) /\ Inflight \subseteq Runs
BY RunsAssumption, FS_Subset DEF Inflight

\* Only PlaceRow adds a run to the pool.
LEMMA PoolGrowsByPlacing ==
    ASSUME PoolInv, [Next]_vars, ~\E t \in Passers : PlaceRow(t)
    PROVE  /\ work' \in [Runs -> {"none", "submitted", "running", "done"}]
           /\ \A r \in Runs : work'[r] # "none" => work[r] # "none"
<1> USE DEF PoolInv
<1>1. CASE UNCHANGED work
  BY <1>1
<1>2. ASSUME NEW r \in Runs, PoolStep(r) \/ Release(r)
      PROVE  /\ work' \in [Runs -> {"none", "submitted", "running", "done"}]
             /\ \A q \in Runs : work'[q] # "none" => work[q] # "none"
  BY <1>2 DEF PoolStep, Claim, ClaimLost, Finish, Release
<1>3. CASE \E r \in Runs : Queue(r) \/ Withdraw(r) \/ DirectStart(r) \/ DirectFinish(r)
  BY <1>1, <1>3 DEF Queue, Withdraw, DirectStart, DirectFinish
<1>4. CASE Age \/ \E a \in Agents : HoldAgent(a) \/ ReleaseAgent(a)
  BY <1>1, <1>4 DEF Age, HoldAgent, ReleaseAgent
<1>5. CASE \E t \in Passers : PassStep(t)
  BY <1>1, <1>5 DEF PassStep, ReadPending, ReadRunning, ReadBusy, StartPlacing, EndPass
<1>6. CASE UNCHANGED vars
  BY <1>1, <1>6 DEF vars
<1> QED
  BY <1>2, <1>3, <1>4, <1>5, <1>6 DEF Next

\* The invariant holds at first.
LEMMA PoolInit == Init => PoolInv
<1> SUFFICES ASSUME Init PROVE PoolInv
  OBVIOUS
<1>1. Inflight = {}
  BY DEF Init, Inflight
<1>2. Cardinality(Inflight) = 0
  BY <1>1, FS_EmptySet
<1> QED
  BY <1>2, LimitsAssumption DEF Init, PoolInv, InflightWithinCap

\* Every step preserves the invariant.
LEMMA PoolNext == PoolInv /\ [Next]_vars => PoolInv'
<1> SUFFICES ASSUME PoolInv, [Next]_vars PROVE PoolInv'
  OBVIOUS
<1>1. CASE ~\E t \in Passers : PlaceRow(t)
  <2>1. Inflight' \subseteq Inflight
    BY <1>1, PoolGrowsByPlacing DEF Inflight
  <2>2. /\ Cardinality(Inflight') <= Cardinality(Inflight)
        /\ Cardinality(Inflight') \in Nat /\ Cardinality(Inflight) \in Nat
    BY <2>1, InflightFinite, FS_Subset, FS_CardinalityType
  <2>3. InflightWithinCap'
    BY <2>2, LimitsAssumption DEF PoolInv, InflightWithinCap
  <2> QED
    BY <1>1, <2>3, PoolGrowsByPlacing DEF PoolInv
<1>2. ASSUME NEW t \in Passers, PlaceRow(t)
      PROVE  PoolInv'
  <2> DEFINE r == Head(pass[t].rows)
  <2>1. CASE Startable(t, r)
    <3>1. work' = [work EXCEPT ![r] = "submitted"]
      BY <1>2, <2>1 DEF PlaceRow
    <3>2. /\ work' \in [Runs -> {"none", "submitted", "running", "done"}]
          /\ Inflight' \subseteq Inflight \cup {r}
      BY <3>1 DEF PoolInv, Inflight
    <3>3. r \notin Inflight /\ Cardinality(Inflight) < MaxParallel
      BY <2>1 DEF Startable
    <3>4. /\ IsFiniteSet(Inflight \cup {r})
          /\ Cardinality(Inflight \cup {r}) = Cardinality(Inflight) + 1
      BY <3>3, InflightFinite, FS_AddElement
    <3>5. /\ Cardinality(Inflight') <= Cardinality(Inflight) + 1
          /\ Cardinality(Inflight') \in Nat /\ Cardinality(Inflight) \in Nat
      BY <3>2, <3>4, InflightFinite, FS_Subset, FS_CardinalityType
    <3> QED
      BY <3>2, <3>3, <3>5, LimitsAssumption DEF PoolInv, InflightWithinCap
  <2>2. CASE ~Startable(t, r)
    BY <1>2, <2>2 DEF PlaceRow, PoolInv, InflightWithinCap, Inflight
  <2> QED
    BY <2>1, <2>2
<1> QED
  BY <1>1, <1>2

\* However many threads make passes, _inflight stays within HAGENT_MAX_PARALLEL_RUNS.
THEOREM PoolWithinCap == Spec => []InflightWithinCap
<1>1. PoolInv => InflightWithinCap
  BY DEF PoolInv
<1> QED
  BY <1>1, PoolInit, PoolNext, PTL DEF Spec

-----------------------------------------------------------------------------
(* Types, and the order of the queue *)

PassRow == [at : PassState, rows : Seq(Runs), used : [Agents -> Nat], busy : SUBSET Issues,
            held : SUBSET Agents]
Pending == {r \in Runs : status[r] = "pending"}

\* The queued runs are in a strict order.
Ordered ==
    /\ older \subseteq Pending \X Pending
    /\ \A q, r \in Pending : q = r \/ <<q, r>> \in older \/ <<r, q>> \in older
    /\ \A q, r \in Pending : ~(<<q, r>> \in older /\ <<r, q>> \in older)
    /\ \A p, q, r \in Pending : <<p, q>> \in older /\ <<q, r>> \in older => <<p, r>> \in older

\* A queued run is not being executed.
Unstarted == \A r \in Pending : r \notin direct /\ work[r] # "running"

QueueInv == TypeOK /\ Ordered /\ Unstarted

\* Runs that enter the queue come last, and what leaves it leaves the others in order.
LEMMA Entering ==
    ASSUME Ordered, NEW r \in Runs, r \notin Pending, Pending' = Pending \cup {r},
           older' = older \cup (Pending \X {r})
    PROVE  Ordered'
<1>1. older' \subseteq Pending' \X Pending'
  BY DEF Ordered
<1>2. ASSUME NEW p \in Runs, NEW q \in Runs
      PROVE  <<p, q>> \in older' <=> <<p, q>> \in older \/ (p \in Pending /\ q = r)
  OBVIOUS
<1>3. ASSUME NEW p \in Runs PROVE <<r, p>> \notin older /\ <<p, r>> \notin older
  BY DEF Ordered
<1>4. Pending \subseteq Runs
  BY DEF Pending
<1> QED
  BY <1>1, <1>2, <1>3, <1>4 DEF Ordered

\* Who leaves the queue leaves the others in their order.
LEMMA Leaving ==
    ASSUME Ordered, NEW r \in Runs, Pending' = Pending \ {r}, Leaves(r)
    PROVE  Ordered'
<1>1. older' = {p \in older : p[1] # r /\ p[2] # r}
  BY DEF Leaves
<1>2. ASSUME NEW p, NEW q PROVE <<p, q>> \in older' <=> <<p, q>> \in older /\ p # r /\ q # r
  BY <1>1
<1>3. older' \subseteq Pending' \X Pending'
  <2> SUFFICES ASSUME NEW o \in older' PROVE o \in Pending' \X Pending'
    OBVIOUS
  <2>1. o \in Pending \X Pending /\ o[1] # r /\ o[2] # r
    BY <1>1 DEF Ordered
  <2> QED
    BY <2>1
<1> QED
  BY <1>2, <1>3 DEF Ordered

\* Leaving the queue keeps the types.
LEMMA LeavingTypes ==
    ASSUME TypeOK, NEW r \in Runs, Leaves(r)
    PROVE  older' \subseteq Runs \X Runs /\ waited' \in [Runs -> 0 .. MaxRank]
<1>1. 0 \in 0 .. MaxRank
  BY RunsAssumption
<1>2. waited' \in [Runs -> 0 .. MaxRank]
  BY <1>1 DEF Leaves, TypeOK
<1>3. older' \subseteq older
  BY DEF Leaves
<1> QED
  BY <1>2, <1>3 DEF TypeOK

\* At first nobody waits.
LEMMA QueueInit == Init => QueueInv
<1> SUFFICES ASSUME Init PROVE QueueInv
  OBVIOUS
<1>1. NoPass \in PassRow
  BY DEF NoPass, PassRow, PassState
<1>2. TypeOK
  BY <1>1, RunsAssumption DEF Init, TypeOK, PassRow
<1>3. Pending = {}
  BY DEF Init, Pending
<1> QED
  BY <1>2, <1>3 DEF Init, QueueInv, Ordered, Unstarted

\* The steps of the rest of the program and of the pool.
LEMMA QueueSteps ==
    ASSUME QueueInv, NEW r \in Runs,
           Queue(r) \/ Withdraw(r) \/ DirectStart(r) \/ DirectFinish(r) \/ PoolStep(r) \/ Release(r)
    PROVE  QueueInv'
<1> USE DEF QueueInv
<1>1. CASE Queue(r)
  <2>1. Pending' = Pending \cup {r} /\ r \notin Pending /\ older' = older \cup (Pending \X {r})
    BY <1>1 DEF Queue, Pending, TypeOK
  <2>2. TypeOK'
    BY <1>1 DEF Queue, TypeOK
  <2> QED
    BY <1>1, <2>1, <2>2, Entering DEF Queue, Unstarted
<1>2. CASE Withdraw(r)
  <2>1. Pending' = Pending \ {r} /\ Leaves(r)
    BY <1>2 DEF Withdraw, Pending, TypeOK
  <2>2. TypeOK'
    <3>1. Leaves(r)
      BY <1>2 DEF Withdraw
    <3> QED
      BY <1>2, <3>1, LeavingTypes DEF Withdraw, TypeOK
  <2> QED
    BY <1>2, <2>1, <2>2, Leaving DEF Withdraw, Unstarted
<1>3. CASE DirectStart(r)
  <2>1. Pending' = Pending \ {r} /\ Leaves(r)
    BY <1>3 DEF DirectStart, Pending, TypeOK
  <2>2. TypeOK'
    <3>1. Leaves(r)
      BY <1>3 DEF DirectStart
    <3> QED
      BY <1>3, <3>1, LeavingTypes DEF DirectStart, TypeOK
  <2> QED
    BY <1>3, <2>1, <2>2, Leaving DEF DirectStart, Unstarted
<1>4. CASE DirectFinish(r) \/ Finish(r)
  <2>1. Pending' = Pending
    BY <1>4 DEF DirectFinish, Finish, Pending, TypeOK, Unstarted
  <2>2. TypeOK'
    BY <1>4 DEF DirectFinish, Finish, TypeOK
  <2>3. older' = older
    BY <1>4 DEF DirectFinish, Finish
  <2>4. Unstarted'
    BY <1>4, <2>1 DEF DirectFinish, Finish, Unstarted, Pending, TypeOK
  <2> QED
    BY <2>1, <2>2, <2>3, <2>4 DEF Ordered
<1>5. CASE Claim(r)
  <2>1. Pending' = Pending \ {r} /\ Leaves(r)
    BY <1>5 DEF Claim, Pending, TypeOK
  <2>2. TypeOK'
    <3>1. Leaves(r)
      BY <1>5 DEF Claim
    <3> QED
      BY <1>5, <3>1, LeavingTypes DEF Claim, TypeOK
  <2>3. Unstarted'
    BY <1>5, <2>1 DEF Claim, Unstarted, Pending, TypeOK
  <2> QED
    BY <2>1, <2>2, <2>3, Leaving
<1>6. CASE ClaimLost(r) \/ Release(r)
  <2>1. Pending' = Pending /\ older' = older
    BY <1>6 DEF ClaimLost, Release, Pending
  <2>2. TypeOK'
    BY <1>6 DEF ClaimLost, Release, TypeOK
  <2>3. Unstarted'
    BY <1>6, <2>1 DEF ClaimLost, Release, Unstarted, Pending, TypeOK
  <2> QED
    BY <2>1, <2>2, <2>3 DEF Ordered
<1> QED
  BY <1>1, <1>2, <1>3, <1>4, <1>5, <1>6 DEF PoolStep

-----------------------------------------------------------------------------
(* The list of a pass *)

\* The runs can be counted.
LEMMA PendingFinite == ASSUME NEW S \in SUBSET Runs
                       PROVE IsFiniteSet(S) /\ Cardinality(S) \in Nat
BY RunsAssumption, FS_Subset, FS_CardinalityType

\* Before orders the queue.
LEMMA BeforeOrders ==
    ASSUME QueueInv
    PROVE  /\ \A q, r \in Pending : q = r \/ Before(q, r) \/ Before(r, q)
           /\ \A r \in Pending : ~Before(r, r)
           /\ \A p, q, r \in Pending : Before(p, q) /\ Before(q, r) => Before(p, r)
<1>1. \A r \in Pending : EffectiveRank(r) \in Int
  BY RunsAssumption DEF QueueInv, TypeOK, EffectiveRank, Pending
<1> HIDE DEF EffectiveRank
<1> QED
  BY <1>1 DEF QueueInv, Ordered, Before

\* Every queued run has its place in the list.
LEMMA EveryoneListed ==
    ASSUME QueueInv
    PROVE  /\ InOrder(Pending) \in Seq(Runs)
           /\ \A r \in Pending : \E n \in 1 .. Len(InOrder(Pending)) : InOrder(Pending)[n] = r
<1> DEFINE N == Cardinality(Pending)
           place == [r \in Pending |-> Cardinality(Ahead(Pending, r)) + 1]
<1>1. Pending \subseteq Runs /\ IsFiniteSet(Pending) /\ N \in Nat
  BY PendingFinite DEF Pending
<1>2. ASSUME NEW r \in Pending
      PROVE  /\ Ahead(Pending, r) \subseteq Pending \ {r}
             /\ IsFiniteSet(Ahead(Pending, r)) /\ Cardinality(Ahead(Pending, r)) \in Nat
  <2>1. Ahead(Pending, r) \subseteq Pending \ {r}
    BY BeforeOrders DEF Ahead
  <2> QED
    BY <1>1, <2>1, PendingFinite
<1>3. ASSUME NEW q \in Pending, NEW r \in Pending, Before(q, r)
      PROVE  Cardinality(Ahead(Pending, q)) < Cardinality(Ahead(Pending, r))
  <2>1. Ahead(Pending, q) \subseteq Ahead(Pending, r)
    BY <1>3, BeforeOrders DEF Ahead
  <2>2. q \in Ahead(Pending, r) /\ q \notin Ahead(Pending, q)
    BY <1>3, BeforeOrders DEF Ahead
  <2>3. /\ Cardinality(Ahead(Pending, q)) <= Cardinality(Ahead(Pending, r))
        /\ Cardinality(Ahead(Pending, q)) # Cardinality(Ahead(Pending, r))
    BY <1>2, <2>1, <2>2, FS_Subset
  <2> QED
    BY <1>2, <2>3
<1>4. ASSUME NEW r \in Pending PROVE place[r] \in 1 .. N
  <2>1. Cardinality(Pending \ {r}) = N - 1 /\ IsFiniteSet(Pending \ {r})
    BY <1>1, FS_RemoveElement
  <2>2. Cardinality(Ahead(Pending, r)) <= N - 1
    BY <1>2, <2>1, FS_Subset
  <2> QED
    BY <1>1, <1>2, <2>2
<1>5. \A q, r \in Pending : place[q] = place[r] => q = r
  <2> SUFFICES ASSUME NEW q \in Pending, NEW r \in Pending, place[q] = place[r] PROVE q = r
    OBVIOUS
  <2>1. Cardinality(Ahead(Pending, q)) = Cardinality(Ahead(Pending, r))
    BY <1>2
  <2> QED
    BY <1>2, <1>3, <2>1, BeforeOrders
<1>6. \A n \in 1 .. N : \E r \in Pending : place[r] = n
  <2> HIDE DEF place
  <2>1. place \in [Pending -> 1 .. N]
    <3>1. place = [r \in Pending |-> place[r]]
      BY DEF place
    <3> QED
      BY <1>4, <3>1
  <2>2. place \in Injection(Pending, 1 .. N)
    BY <1>5, <2>1 DEF Injection, IsInjective
  <2>3. IsFiniteSet(1 .. N) /\ Cardinality(1 .. N) = N
    BY <1>1, FS_Interval
  <2>4. place \in Surjection(Pending, 1 .. N)
    BY <2>2, <2>3, FS_Injection
  <2> QED
    BY <2>4 DEF Surjection
<1>7. \A n \in 1 .. N : /\ InOrder(Pending)[n] \in Pending
                        /\ place[InOrder(Pending)[n]] = n
  <2> SUFFICES ASSUME NEW n \in 1 .. N
               PROVE  InOrder(Pending)[n] \in Pending /\ place[InOrder(Pending)[n]] = n
    OBVIOUS
  <2>1. PICK r \in Pending : place[r] = n
    BY <1>6
  <2>2. r \in Pending /\ Cardinality(Ahead(Pending, r)) = n - 1
    BY <1>1, <1>2, <2>1
  <2>3. InOrder(Pending)[n] = CHOOSE q \in Pending : Cardinality(Ahead(Pending, q)) = n - 1
    BY DEF InOrder
  <2>4. InOrder(Pending)[n] \in Pending /\ Cardinality(Ahead(Pending, InOrder(Pending)[n])) = n - 1
    BY <2>2, <2>3
  <2> QED
    BY <1>1, <2>4
<1>8. InOrder(Pending) \in [1 .. N -> Pending]
  <2>1. DOMAIN InOrder(Pending) = 1 .. N
    BY DEF InOrder
  <2>2. InOrder(Pending) = [n \in 1 .. N |-> InOrder(Pending)[n]]
    BY DEF InOrder
  <2> QED
    BY <1>7, <2>2
<1> HIDE DEF N
<1>9. InOrder(Pending) \in Seq(Runs) /\ Len(InOrder(Pending)) = N
  BY <1>1, <1>8
<1>10. ASSUME NEW r \in Pending PROVE InOrder(Pending)[place[r]] = r
  <2> HIDE DEF place
  <2> QED
    BY <1>4, <1>5, <1>7
<1> QED
  <2> HIDE DEF place
  <2> QED
    BY <1>4, <1>9, <1>10

PlacedRow(row, a, i) ==
    [row EXCEPT !.rows = Tail(row.rows), !.busy = row.busy \cup {i},
                !.used = [row.used EXCEPT ![a] = row.used[a] + 1]]

\* What a pass does with its own row, and that it leaves the rest of the queue alone.
LEMMA PassTypes ==
    ASSUME QueueInv, NEW t \in Passers, PassStep(t)
    PROVE  /\ pass' = [pass EXCEPT ![t] = pass'[t]] /\ pass'[t] \in PassRow
           /\ lock' \in Passers \cup {NoPasser}
           /\ UNCHANGED <<status, older, waited, direct, held>>
           /\ work' \in [Runs -> {"none", "submitted", "running", "done"}]
           /\ \A r \in Runs : work'[r] = "running" => work[r] = "running"
<1>1. /\ pass \in [Passers -> PassRow] /\ pass[t] \in PassRow /\ lock \in Passers \cup {NoPasser}
      /\ work \in [Runs -> {"none", "submitted", "running", "done"}]
      /\ held \subseteq Agents /\ IssueOf \in [Runs -> Issues] /\ AgentOf \in [Runs -> Agents]
  BY RunsAssumption DEF QueueInv, TypeOK, PassRow
<1>2. NoPass \in PassRow
  BY DEF NoPass, PassRow, PassState
<1>3. {"idle", "counting", "checking", "waiting", "placing"} \subseteq PassState
  BY DEF PassState
<1>4. CASE ReadPending(t)
  <2> DEFINE new == [NoPass EXCEPT !.at = "counting", !.rows = InOrder(Pending)]
  <2>1. new \in PassRow
    BY <1>2, <1>3, EveryoneListed DEF PassRow
  <2>2. pass' = [pass EXCEPT ![t] = new]
    BY <1>4 DEF ReadPending, Pending
  <2> HIDE DEF new
  <2> QED
    BY <1>1, <1>4, <2>1, <2>2 DEF ReadPending
<1>5. CASE ReadRunning(t)
  <2> DEFINE used == [a \in Agents |-> Cardinality(RunningOf(a))]
             new == [pass[t] EXCEPT !.at = "checking", !.used = used]
  <2>1. used \in [Agents -> Nat]
    BY PendingFinite DEF RunningOf
  <2>2. pass' = [pass EXCEPT ![t] = new]
    BY <1>1, <1>5 DEF ReadRunning
  <2> HIDE DEF used
  <2>3. new \in PassRow
    BY <1>1, <1>3, <2>1 DEF PassRow
  <2> HIDE DEF new
  <2> QED
    BY <1>1, <1>5, <2>2, <2>3 DEF ReadRunning
<1>6. CASE ReadBusy(t)
  <2> DEFINE busy == {IssueOf[r] : r \in {q \in Runs : status[q] = "running"}}
             new == [pass[t] EXCEPT !.at = "waiting", !.busy = busy, !.held = held]
  <2>1. busy \subseteq Issues
    BY <1>1
  <2>2. pass' = [pass EXCEPT ![t] = new]
    BY <1>1, <1>6 DEF ReadBusy
  <2> HIDE DEF busy
  <2>3. new \in PassRow
    BY <1>1, <1>3, <2>1 DEF PassRow
  <2> HIDE DEF new
  <2> QED
    BY <1>1, <1>6, <2>2, <2>3 DEF ReadBusy
<1>7. CASE StartPlacing(t)
  <2> DEFINE begun == {pass[t].rows[n] : n \in 1 .. Len(pass[t].rows)} \cap Inflight
             busy == pass[t].busy \cup {IssueOf[r] : r \in begun}
             used == [a \in Agents |-> pass[t].used[a] + Cardinality({r \in begun : AgentOf[r] = a})]
             new == [pass[t] EXCEPT !.at = "placing", !.busy = busy, !.used = used]
  <2>1. begun \subseteq Runs
    BY DEF Inflight
  <2>2. busy \subseteq Issues
    BY <1>1, <2>1 DEF PassRow
  <2>3. used \in [Agents -> Nat]
    <3>1. pass[t].used \in [Agents -> Nat]
      BY <1>1 DEF PassRow
    <3>2. \A a \in Agents : Cardinality({r \in begun : AgentOf[r] = a}) \in Nat
      BY <2>1, PendingFinite
    <3> QED
      BY <3>1, <3>2
  <2>4. pass' = [pass EXCEPT ![t] = new]
    BY <1>1, <1>7 DEF StartPlacing
  <2> HIDE DEF busy, used
  <2>5. new \in PassRow
    BY <1>1, <1>3, <2>2, <2>3 DEF PassRow
  <2> HIDE DEF new
  <2> QED
    BY <1>1, <1>7, <2>4, <2>5 DEF StartPlacing
<1>8. CASE PlaceRow(t)
  <2> DEFINE r == Head(pass[t].rows)
             rest == Tail(pass[t].rows)
             busy == pass[t].busy \cup {IssueOf[r]}
             used == [pass[t].used EXCEPT ![AgentOf[r]] = pass[t].used[AgentOf[r]] + 1]
  <2>1. r \in Runs /\ rest \in Seq(Runs)
    <3>1. pass[t].rows \in Seq(Runs) /\ pass[t].rows # <<>>
      BY <1>1, <1>8 DEF PlaceRow, PassRow
    <3> QED
      BY <3>1
  <2>2. busy \subseteq Issues /\ used \in [Agents -> Nat]
    BY <1>1, <2>1 DEF PassRow
  <2>3. CASE Startable(t, r)
    <3> DEFINE new == PlacedRow(pass[t], AgentOf[r], IssueOf[r])
    <3>1. work' = [work EXCEPT ![r] = "submitted"]
      BY <1>8, <2>3 DEF PlaceRow
    <3>2. pass' = [pass EXCEPT ![t] = new]
      <4>1. pass' = [pass EXCEPT ![t].rows = Tail(@), ![t].busy = @ \cup {IssueOf[r]},
                                ![t].used[AgentOf[r]] = @ + 1]
        BY <1>8, <2>3 DEF PlaceRow
      <4> DEFINE a == AgentOf[r]
                 i == IssueOf[r]
                 G == [pass EXCEPT ![t].rows = Tail(pass[t].rows)]
                 H == [G EXCEPT ![t].busy = pass[t].busy \cup {i}]
                 I == [H EXCEPT ![t].used = [pass[t].used EXCEPT ![a] = pass[t].used[a] + 1]]
      <4>2. a \in Agents /\ i \in Issues
        BY <1>1, <2>1
      <4> HIDE DEF a, i
      <4>3. G = [pass EXCEPT ![t] = [pass[t] EXCEPT !.rows = Tail(pass[t].rows)]]
        OBVIOUS
      <4>4. H = [pass EXCEPT ![t] = [pass[t] EXCEPT !.rows = Tail(pass[t].rows), !.busy = pass[t].busy \cup {i}]]
        BY <1>1, <4>3 DEF PassRow
      <4>5. I = [pass EXCEPT ![t] = PlacedRow(pass[t], a, i)]
        BY <1>1, <4>4 DEF PassRow, PlacedRow
      <4>6. I = [pass EXCEPT ![t].rows = Tail(@), ![t].busy = @ \cup {i}, ![t].used[a] = @ + 1]
        BY <1>1 DEF PassRow
      <4>7. pass' = I
        BY <4>1, <4>6 DEF a, i
      <4> HIDE DEF I
      <4> QED
        BY <4>5, <4>7 DEF a, i
    <3>4. new \in PassRow
      <4>1. new = [pass[t] EXCEPT !.rows = rest, !.busy = busy, !.used = used]
        BY DEF PlacedRow
      <4> HIDE DEF new, rest, busy, used, r
      <4> QED
        BY <1>1, <2>1, <2>2, <4>1 DEF PassRow
    <3> HIDE DEF new, r
    <3>3. UNCHANGED <<status, older, waited, direct, held, lock>>
      BY <1>8 DEF PlaceRow
    <3> QED
      BY <1>1, <2>1, <3>1, <3>2, <3>3, <3>4
  <2>4. CASE ~Startable(t, r)
    <3> DEFINE new == [pass[t] EXCEPT !.rows = rest]
    <3>1. pass' = [pass EXCEPT ![t] = new] /\ work' = work
      BY <1>1, <1>8, <2>4 DEF PlaceRow
    <3> HIDE DEF rest
    <3>2. new \in PassRow
      BY <1>1, <2>1 DEF PassRow
    <3> HIDE DEF new
    <3>3. UNCHANGED <<status, older, waited, direct, held, lock>>
      BY <1>8 DEF PlaceRow
    <3> QED
      BY <1>1, <3>1, <3>2, <3>3
  <2> QED
    BY <2>3, <2>4
<1>9. CASE EndPass(t)
  BY <1>1, <1>2, <1>9 DEF EndPass
<1> QED
  BY <1>4, <1>5, <1>6, <1>7, <1>8, <1>9 DEF PassStep

\* Every step keeps the queue in order.
LEMMA QueueNext == QueueInv /\ [Next]_vars => QueueInv'
<1> SUFFICES ASSUME QueueInv, [Next]_vars PROVE QueueInv'
  OBVIOUS
<1>1. CASE \E t \in Passers : PassStep(t)
  <2>1. PICK t \in Passers : PassStep(t)
    BY <1>1
  <2>2. Pending' = Pending
    BY <2>1, PassTypes DEF Pending
  <2>3. TypeOK'
    BY <2>1, PassTypes DEF QueueInv, TypeOK, PassRow
  <2>4. Unstarted' /\ Ordered'
    BY <2>1, <2>2, PassTypes DEF QueueInv, Unstarted, Ordered, Pending
  <2> QED
    BY <2>3, <2>4 DEF QueueInv
<1>2. CASE Age
  <2>1. waited' \in [Runs -> 0 .. MaxRank]
    <3>1. /\ waited \in [Runs -> 0 .. MaxRank] /\ PriorityRank \in [Runs -> 0 .. MaxRank] /\ MaxRank \in Nat
          /\ waited' = [r \in Runs |-> IF status[r] = "pending" /\ waited[r] < PriorityRank[r]
                                       THEN waited[r] + 1 ELSE waited[r]]
      BY <1>2, RunsAssumption DEF Age, QueueInv, TypeOK
    <3>2. ASSUME NEW r \in Runs
          PROVE  (IF status[r] = "pending" /\ waited[r] < PriorityRank[r] THEN waited[r] + 1 ELSE waited[r])
                    \in 0 .. MaxRank
      <4>1. waited[r] \in 0 .. MaxRank /\ PriorityRank[r] \in 0 .. MaxRank
        BY <3>1
      <4> QED
        BY <3>1, <4>1
    <3> QED
      BY <3>1, <3>2
  <2> QED
    BY <1>2, <2>1 DEF Age, QueueInv, TypeOK, Ordered, Unstarted, Pending
<1>3. CASE \E a \in Agents : HoldAgent(a) \/ ReleaseAgent(a)
  BY <1>3 DEF HoldAgent, ReleaseAgent, QueueInv, TypeOK, Ordered, Unstarted, Pending
<1>4. CASE UNCHANGED vars
  BY <1>4 DEF vars, QueueInv, TypeOK, Ordered, Unstarted, Pending
<1> QED
  BY <1>1, <1>2, <1>3, <1>4, QueueSteps DEF Next

\* For any runs, agents, limits and passers the state of the dispatcher has its types; in
\* particular the list of a pass, which the sort of dispatch_pending makes, is a list of runs.
THEOREM TypeCorrect == Spec => []TypeOK
<1>1. QueueInv => TypeOK
  BY DEF QueueInv
<1> QED
  BY <1>1, QueueInit, QueueNext, PTL DEF Spec

-----------------------------------------------------------------------------
(* The limit of an agent, if one thread makes passes *)

Claims(r) == (work[r] = "submitted" /\ status[r] = "pending") \/ (work[r] = "running" /\ status[r] = "running")

\* The runs of an agent that the pool has, or may still turn, RUNNING.
Engaged(a) == {r \in Runs : AgentOf[r] = a /\ Claims(r)}
Listed(t) == {pass[t].rows[n] : n \in 1 .. Len(pass[t].rows)}

\* What a pass has read, with what is on its list and in the pool, covers all that is engaged.
Counted(t) ==
    /\ pass[t].at = "counting" =>
         \A r \in Runs : work[r] = "submitted" /\ status[r] = "pending" => r \in Listed(t)
    /\ pass[t].at \in {"checking", "waiting"} =>
         \A a \in Agents : Cardinality(Engaged(a) \ Listed(t)) <= pass[t].used[a]
    /\ pass[t].at = "placing" =>
         \A a \in Agents : Cardinality(Engaged(a)) <= pass[t].used[a]

LimitInv(t) ==
    /\ QueueInv /\ Counted(t)
    /\ \A a \in Agents : Cardinality(Engaged(a)) <= MaxConcurrentTasks[a]

\* A part of the runs is no larger than the whole.
LEMMA FewerOf ==
    ASSUME NEW S, NEW T, S \subseteq T, T \subseteq Runs
    PROVE  Cardinality(S) <= Cardinality(T) /\ Cardinality(S) \in Nat /\ Cardinality(T) \in Nat
BY PendingFinite, FS_Subset

\* At first no pass is being made.
LEMMA LimitInit == ASSUME NEW t \in Passers, Init PROVE LimitInv(t)
<1>1. QueueInv
  BY QueueInit
<1>2. \A a \in Agents : Engaged(a) = {}
  BY DEF Init, Engaged, Claims
<1>3. pass[t].at = "idle"
  BY DEF Init, NoPass
<1> QED
  BY <1>1, <1>2, <1>3, FS_EmptySet, LimitsAssumption DEF LimitInv, Counted

\* Steps that engage nobody and leave the pass alone keep what it has counted.
LEMMA NothingEngaged ==
    ASSUME NEW t \in Passers, LimitInv(t), QueueInv', pass'[t] = pass[t],
           \A r \in Runs : Claims(r)' => Claims(r),
           \A r \in Runs : work'[r] = "submitted" /\ status'[r] = "pending"
                         => work[r] = "submitted" /\ status[r] = "pending"
    PROVE  LimitInv(t)'
<1>1. \A a \in Agents : Engaged(a)' \subseteq Engaged(a) /\ Engaged(a) \subseteq Runs
  BY DEF Engaged
<1>2. Listed(t)' = Listed(t)
  BY DEF Listed
<1>3. /\ pass[t] \in PassRow
      /\ MaxConcurrentTasks \in [Agents -> Nat]
  BY LimitsAssumption DEF LimitInv, QueueInv, TypeOK, PassRow
<1> DEFINE all(a) == Cardinality(Engaged(a))
           allAfter(a) == Cardinality(Engaged(a)')
           unlisted(a) == Cardinality(Engaged(a) \ Listed(t))
           unlistedAfter(a) == Cardinality(Engaged(a)' \ Listed(t))
<1>4. ASSUME NEW a \in Agents
      PROVE  /\ allAfter(a) <= all(a) /\ unlistedAfter(a) <= unlisted(a)
             /\ allAfter(a) \in Nat /\ all(a) \in Nat /\ unlistedAfter(a) \in Nat /\ unlisted(a) \in Nat
  BY <1>1, FewerOf
<1>5. \A a \in Agents : pass[t].used[a] \in Nat /\ MaxConcurrentTasks[a] \in Nat
  BY <1>3 DEF PassRow
<1>6. /\ \A a \in Agents : all(a) <= MaxConcurrentTasks[a]
      /\ pass[t].at \in {"checking", "waiting"} => \A a \in Agents : unlisted(a) <= pass[t].used[a]
      /\ pass[t].at = "placing" => \A a \in Agents : all(a) <= pass[t].used[a]
  BY DEF LimitInv, Counted
<1> HIDE DEF all, allAfter, unlisted, unlistedAfter
<1>7. /\ \A a \in Agents : allAfter(a) <= MaxConcurrentTasks[a]
      /\ pass[t].at \in {"checking", "waiting"} => \A a \in Agents : unlistedAfter(a) <= pass[t].used[a]
      /\ pass[t].at = "placing" => \A a \in Agents : allAfter(a) <= pass[t].used[a]
  BY <1>4, <1>5, <1>6
<1> USE DEF allAfter, unlistedAfter
<1>8. Counted(t)'
  BY <1>2, <1>7 DEF LimitInv, Counted
<1> QED
  BY <1>7, <1>8 DEF LimitInv

\* What others do to the queue in the middle of a pass lets no agent exceed its limit.
LEMMA LimitOthers ==
    ASSUME NEW t \in Passers, LimitInv(t), QueueInv', pass' = pass, [Next]_vars,
           ~\E p \in Passers : PassStep(p)
    PROVE  LimitInv(t)'
<1>1. /\ status \in [Runs -> {"absent", "pending", "running"}]
      /\ work \in [Runs -> {"none", "submitted", "running", "done"}]
      /\ \A r \in Runs : status[r] = "pending" => work[r] # "running"
  BY DEF LimitInv, QueueInv, TypeOK, Unstarted, Pending
<1>2. ASSUME NEW q \in Runs,
             Queue(q) \/ Withdraw(q) \/ DirectStart(q) \/ DirectFinish(q) \/ PoolStep(q) \/ Release(q)
      PROVE  /\ \A r \in Runs : Claims(r)' => Claims(r)
             /\ \A r \in Runs : work'[r] = "submitted" /\ status'[r] = "pending"
                            => work[r] = "submitted" /\ status[r] = "pending"
  <2>1. CASE Queue(q)
    BY <1>1, <2>1 DEF Queue, Claims
  <2>2. CASE Withdraw(q)
    BY <1>1, <2>2 DEF Withdraw, Claims
  <2>3. CASE DirectStart(q)
    BY <1>1, <2>3 DEF DirectStart, Claimable, Claims
  <2>4. CASE DirectFinish(q)
    BY <1>1, <2>4 DEF DirectFinish, Claims
  <2>5. CASE Claim(q)
    BY <1>1, <2>5 DEF Claim, Claimable, Claims
  <2>6. CASE ClaimLost(q)
    BY <1>1, <2>6 DEF ClaimLost, Claims
  <2>7. CASE Finish(q)
    BY <1>1, <2>7 DEF Finish, Claims
  <2>8. CASE Release(q)
    BY <1>1, <2>8 DEF Release, Claims
  <2> QED
    BY <1>2, <2>1, <2>2, <2>3, <2>4, <2>5, <2>6, <2>7, <2>8 DEF PoolStep
<1>3. CASE Age \/ (\E a \in Agents : HoldAgent(a) \/ ReleaseAgent(a)) \/ UNCHANGED vars
  <2>1. UNCHANGED <<status, work>>
    BY <1>3 DEF Age, HoldAgent, ReleaseAgent, vars
  <2> QED
    BY <2>1, NothingEngaged DEF Claims
<1> QED
  BY <1>2, <1>3, NothingEngaged DEF Next

\* The reads of a pass, before it places a row.
LEMMA LimitReads ==
    ASSUME NEW t \in Passers, LimitInv(t), QueueInv',
           ReadPending(t) \/ ReadRunning(t) \/ ReadBusy(t) \/ EndPass(t)
    PROVE  LimitInv(t)'
<1>1. pass \in [Passers -> PassRow] /\ pass[t] \in PassRow
  BY DEF LimitInv, QueueInv, TypeOK, PassRow
<1>2. UNCHANGED <<status, work>>
  BY DEF ReadPending, ReadRunning, ReadBusy, EndPass
<1>3. \A a : Engaged(a)' = Engaged(a)
  BY <1>2 DEF Engaged, Claims
<1>4. CASE ReadPending(t)
  <2>1. pass'[t].at = "counting" /\ pass'[t].rows = InOrder(Pending)
    BY <1>1, <1>4 DEF ReadPending, Pending, NoPass
  <2>2. \A r \in Pending : r \in Listed(t)'
    BY <2>1, EveryoneListed DEF Listed, LimitInv
  <2> QED
    BY <1>2, <1>3, <2>1, <2>2 DEF LimitInv, Counted, Pending
<1>5. CASE ReadRunning(t)
  <2>1. /\ pass[t].at = "counting" /\ pass'[t].at = "checking" /\ pass'[t].rows = pass[t].rows
        /\ \A a \in Agents : pass'[t].used[a] = Cardinality(RunningOf(a))
    BY <1>1, <1>5 DEF ReadRunning, PassRow
  <2>2. Listed(t)' = Listed(t)
    BY <2>1 DEF Listed
  <2>3. ASSUME NEW a \in Agents PROVE Cardinality(Engaged(a) \ Listed(t)) <= Cardinality(RunningOf(a))
    <3>1. Engaged(a) \ Listed(t) \subseteq RunningOf(a) /\ RunningOf(a) \subseteq Runs
      BY <2>1 DEF LimitInv, Counted, Engaged, Claims, RunningOf
    <3> QED
      BY <3>1, FewerOf
  <2> QED
    BY <1>3, <2>1, <2>2, <2>3 DEF LimitInv, Counted
<1>6. CASE ReadBusy(t)
  <2>1. /\ pass[t].at = "checking" /\ pass'[t].at = "waiting"
        /\ pass'[t].rows = pass[t].rows /\ pass'[t].used = pass[t].used
    BY <1>1, <1>6 DEF ReadBusy, PassRow
  <2>2. Listed(t)' = Listed(t)
    BY <2>1 DEF Listed
  <2> QED
    BY <1>3, <2>1, <2>2 DEF LimitInv, Counted
<1>7. CASE EndPass(t)
  <2>1. pass'[t].at = "idle"
    BY <1>1, <1>7 DEF EndPass, NoPass
  <2> QED
    BY <1>3, <2>1 DEF LimitInv, Counted
<1> QED
  BY <1>4, <1>5, <1>6, <1>7

\* What is engaged is counted by ReadRunning, or is on the list and in the pool.
LEMMA LimitStarts ==
    ASSUME NEW t \in Passers, LimitInv(t), QueueInv', StartPlacing(t)
    PROVE  LimitInv(t)'
<1>1. pass \in [Passers -> PassRow] /\ pass[t] \in PassRow /\ pass[t].at = "waiting"
  BY DEF LimitInv, QueueInv, TypeOK, PassRow, StartPlacing
<1>2. \A a : Engaged(a)' = Engaged(a)
  BY DEF Engaged, Claims, StartPlacing
<1> DEFINE begun(a) == {r \in Listed(t) \cap Inflight : AgentOf[r] = a}
<1>3. pass'[t].at = "placing"
      /\ \A a \in Agents : pass'[t].used[a] = pass[t].used[a] + Cardinality(begun(a))
  BY <1>1 DEF StartPlacing, Listed, PassRow
<1>4. ASSUME NEW a \in Agents
      PROVE  Cardinality(Engaged(a)) <= pass[t].used[a] + Cardinality(begun(a))
  <2> DEFINE rest == Engaged(a) \ Listed(t)
  <2>1. Engaged(a) \subseteq rest \cup begun(a) /\ rest \subseteq Runs /\ begun(a) \subseteq Runs
    BY DEF Engaged, Claims, Inflight
  <2>2. Cardinality(rest) <= pass[t].used[a]
    BY <1>1 DEF LimitInv, Counted
  <2> HIDE DEF rest, begun
  <2>3. /\ IsFiniteSet(rest) /\ IsFiniteSet(begun(a))
        /\ Cardinality(rest) \in Nat /\ Cardinality(begun(a)) \in Nat
        /\ rest \cap begun(a) \subseteq Runs
    BY <2>1, PendingFinite
  <2>4. /\ Cardinality(rest \cup begun(a))
             = Cardinality(rest) + Cardinality(begun(a)) - Cardinality(rest \cap begun(a))
        /\ Cardinality(rest \cap begun(a)) \in Nat
    BY <2>3, FS_Union, PendingFinite
  <2>5. /\ Cardinality(Engaged(a)) <= Cardinality(rest \cup begun(a))
        /\ Cardinality(Engaged(a)) \in Nat /\ Cardinality(rest \cup begun(a)) \in Nat
    BY <2>1, FewerOf
  <2>6. pass[t].used[a] \in Nat
    BY <1>1 DEF PassRow
  <2> QED
    BY <2>2, <2>3, <2>4, <2>5, <2>6
<1> HIDE DEF begun
<1> QED
  BY <1>2, <1>3, <1>4 DEF LimitInv, Counted

\* A run is started only below the limit, and then counted.
LEMMA LimitPlaces ==
    ASSUME NEW t \in Passers, LimitInv(t), QueueInv', PlaceRow(t)
    PROVE  LimitInv(t)'
<1> DEFINE r == Head(pass[t].rows)
           b == AgentOf[r]
<1>1. pass \in [Passers -> PassRow] /\ pass[t] \in PassRow /\ pass[t].at = "placing"
  BY DEF LimitInv, QueueInv, TypeOK, PassRow, PlaceRow
<1>2. r \in Runs /\ b \in Agents
  <2>1. pass[t].rows \in Seq(Runs) /\ pass[t].rows # <<>>
    BY <1>1 DEF PassRow, PlaceRow
  <2> QED
    BY <2>1, RunsAssumption
<1>3. MaxConcurrentTasks \in [Agents -> Nat] /\ status' = status
  BY LimitsAssumption DEF PlaceRow
<1>4. CASE ~Startable(t, r)
  <2>1. work' = work
    BY <1>4 DEF PlaceRow
  <2>2. pass'[t].at = "placing" /\ pass'[t].used = pass[t].used
    BY <1>1, <1>4 DEF PlaceRow, PassRow
  <2>3. \A a : Engaged(a)' = Engaged(a)
    BY <1>3, <2>1 DEF Engaged, Claims
  <2> QED
    BY <1>1, <2>2, <2>3 DEF LimitInv, Counted
<1>5. CASE Startable(t, r)
  <2>1. work' = [work EXCEPT ![r] = "submitted"] /\ pass[t].used[b] < MaxConcurrentTasks[b]
    BY <1>5 DEF PlaceRow, Startable
  <2>2. /\ pass'[t].at = "placing"
        /\ pass'[t].used = [pass[t].used EXCEPT ![b] = pass[t].used[b] + 1]
    BY <1>1, <1>5 DEF PlaceRow, PassRow
  <2> HIDE DEF r, b
  <2>3. \A a \in Agents : pass[t].used[a] \in Nat /\ MaxConcurrentTasks[a] \in Nat
    BY <1>1, <1>3 DEF PassRow
  <2>4. pass[t].used \in [Agents -> Nat]
    BY <1>1 DEF PassRow
  <2>5. \A a \in Agents : pass'[t].used[a] = IF a = b THEN pass[t].used[b] + 1 ELSE pass[t].used[a]
    BY <1>2, <2>2, <2>4
  <2>6. ASSUME NEW a \in Agents PROVE Engaged(a)' \subseteq (IF a = b THEN Engaged(b) \cup {r} ELSE Engaged(a))
    BY <1>2, <1>3, <2>1 DEF Engaged, Claims, b
  <2>7. ASSUME NEW a \in Agents
        PROVE  /\ Cardinality(Engaged(a)') <= pass'[t].used[a]
               /\ Cardinality(Engaged(a)') <= MaxConcurrentTasks[a]
    <3>1. /\ Cardinality(Engaged(a)) \in Nat /\ Cardinality(Engaged(a)') \in Nat /\ IsFiniteSet(Engaged(a))
      BY PendingFinite DEF Engaged
    <3>2. Cardinality(Engaged(a)) <= pass[t].used[a] /\ Cardinality(Engaged(a)) <= MaxConcurrentTasks[a]
      BY <1>1 DEF LimitInv, Counted
    <3>3. CASE a = b
      <4>1. Engaged(a)' \subseteq Engaged(a) \cup {r} /\ Engaged(a) \cup {r} \subseteq Runs
        <5>1. Engaged(a) \subseteq Runs
          BY DEF Engaged
        <5> QED
          BY <1>2, <2>6, <3>3, <5>1
      <4>2. Cardinality(Engaged(a)') <= Cardinality(Engaged(a) \cup {r})
            /\ Cardinality(Engaged(a) \cup {r}) \in Nat
        BY <4>1, FewerOf
      <4>3. CASE r \in Engaged(a)
        <5>1. Cardinality(Engaged(a) \cup {r}) = Cardinality(Engaged(a))
          BY <3>1, <4>3, FS_AddElement
        <5> QED
          BY <2>1, <2>3, <2>5, <3>1, <3>2, <3>3, <4>2, <5>1
      <4>4. CASE r \notin Engaged(a)
        <5>1. Cardinality(Engaged(a) \cup {r}) = Cardinality(Engaged(a)) + 1
          BY <3>1, <4>4, FS_AddElement
        <5> QED
          BY <2>1, <2>3, <2>5, <3>1, <3>2, <3>3, <4>2, <5>1
      <4> QED
        BY <4>3, <4>4
    <3>4. CASE a # b
      <4>1. Engaged(a)' \subseteq Engaged(a) /\ Engaged(a) \subseteq Runs
        BY <2>6, <3>4 DEF Engaged
      <4>2. Cardinality(Engaged(a)') <= Cardinality(Engaged(a))
        BY <4>1, FewerOf
      <4> QED
        BY <2>3, <2>5, <3>1, <3>2, <3>4, <4>2
    <3> QED
      BY <3>3, <3>4
  <2> QED
    BY <2>2, <2>7 DEF LimitInv, Counted
<1> QED
  BY <1>4, <1>5

\* Every step keeps the limits, if one thread makes the passes.
LEMMA LimitNext == ASSUME NEW t, Passers = {t}, LimitInv(t), [Next]_vars PROVE LimitInv(t)'
<1>1. QueueInv'
  BY QueueNext DEF LimitInv
<1>2. CASE \E p \in Passers : PassStep(p)
  <2>1. PassStep(t)
    BY <1>2
  <2> QED
    BY <1>1, <2>1, LimitReads, LimitStarts, LimitPlaces DEF PassStep
<1>3. CASE ~\E p \in Passers : PassStep(p)
  <2>1. pass' = pass
    BY <1>3 DEF Next, vars, Queue, Withdraw, DirectStart, DirectFinish, PoolStep, Claim, ClaimLost, Finish,
       Release, Age, HoldAgent, ReleaseAgent
  <2> QED
    BY <1>1, <1>3, <2>1, LimitOthers
<1> QED
  BY <1>2, <1>3

\* If one thread makes passes, the dispatcher respects max_concurrent_tasks of every agent although
\* it counts in two queries before it takes _lock: what became RUNNING in between is on its list
\* and in _inflight (dispatch_pending).  With a second thread this is false, see DispatchLoop.
THEOREM OnePasserKeepsLimits ==
    ASSUME NEW t, Passers = {t}
    PROVE  Spec => []AgentWithinLimit
<1>1. LimitInv(t) => AgentWithinLimit
  <2> SUFFICES ASSUME LimitInv(t), NEW a \in Agents
               PROVE  Cardinality({r \in RunningOf(a) : work[r] = "running"}) <= MaxConcurrentTasks[a]
    BY DEF AgentWithinLimit
  <2>1. {r \in RunningOf(a) : work[r] = "running"} \subseteq Engaged(a) /\ Engaged(a) \subseteq Runs
    BY DEF RunningOf, Engaged, Claims
  <2>2. Cardinality(Engaged(a)) <= MaxConcurrentTasks[a] /\ MaxConcurrentTasks[a] \in Nat
    BY LimitsAssumption DEF LimitInv
  <2> QED
    BY <2>1, <2>2, FewerOf
<1>2. Init => LimitInv(t)
  BY LimitInit
<1>3. LimitInv(t) /\ [Next]_vars => LimitInv(t)'
  BY LimitNext
<1> QED
  BY <1>1, <1>2, <1>3, PTL DEF Spec
=============================================================================
