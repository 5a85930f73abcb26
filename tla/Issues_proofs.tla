---------------------------- MODULE Issues_proofs ----------------------------
(*****************************************************************************)
(* Theorems about the issues: their numbers, their trees, their comments and *)
(* what is attached to them; for any number of issues, comments, projects,   *)
(* writers and lessons.                                                      *)
(*****************************************************************************)
EXTENDS Board, Annotations, FiniteSetTheorems, NaturalsInduction, WellFoundedInduction, TLAPS

-----------------------------------------------------------------------------
(* The board *)

\* A set of numbers that is not empty has a least one: what inductions below rest on.
LEMMA LeastNumber ==
    ASSUME NEW S \in SUBSET Nat, S # {}
    PROVE  \E n \in S : \A m \in S : n <= m
<1>1. PICK n \in S : \A m \in S : <<m, n>> \notin OpToRel(<, Nat)
  BY WFMin, NatLessThanWellFounded
<1>2. \A m \in S : ~(m < n)
  BY <1>1 DEF OpToRel
<1>3. n \in Nat /\ \A m \in S : m \in Nat
  OBVIOUS
<1>4. \A m \in S : n <= m
  BY <1>2, <1>3
<1> QED
  BY <1>4

\* f goes from start by n steps.
Walks(f, n, start, step) == f[0] = start /\ \A k \in 1 .. n : f[k] = step[f[k - 1]]

\* A function can be applied again and again: what the walks over issues and comments do.
LEMMA Repeated ==
    ASSUME NEW T, NEW start \in T, NEW step \in [T -> T], NEW n \in Nat
    PROVE  \E f \in [0 .. n -> T] : Walks(f, n, start, step)
<1> DEFINE Walk(m, f) == f \in [0 .. m -> T] /\ f[0] = start /\ \A k \in 1 .. m : f[k] = step[f[k - 1]]
           Missing == {m \in Nat : ~ \E f : Walk(m, f)}
<1>1. ASSUME Missing # {} PROVE FALSE
  <2>1. Missing \in SUBSET Nat
    OBVIOUS
  <2>2. PICK m \in Missing : \A k \in Missing : m <= k
    BY <1>1, <2>1, LeastNumber
  <2>3. m # 0
    <3>1. Walk(0, [k \in 0 .. 0 |-> start])
      OBVIOUS
    <3> QED
      BY <2>2, <3>1
  <2>4. m \in Nat /\ m - 1 \in Nat
    BY <2>2, <2>3
  <2>5. m - 1 \notin Missing
    <3> HIDE DEF Missing
    <3> QED
      BY <2>2, <2>4
  <2>5a. PICK f : Walk(m - 1, f)
    BY <2>4, <2>5
  <2> DEFINE g == [k \in 0 .. m |-> IF k = m THEN step[f[m - 1]] ELSE f[k]]
  <2>6. m - 1 \in 0 .. (m - 1) /\ f[m - 1] \in T
    BY <2>4, <2>5a
  <2>7. /\ g \in [0 .. m -> T] /\ g[0] = start
        /\ g[m] = step[f[m - 1]] /\ \A k \in 0 .. (m - 1) : g[k] = f[k]
    BY <2>2, <2>3, <2>4, <2>5a, <2>6
  <2> HIDE DEF g
  <2>8. \A k \in 1 .. m : g[k] = step[g[k - 1]]
    <3> SUFFICES ASSUME NEW k \in 1 .. m PROVE g[k] = step[g[k - 1]]
      OBVIOUS
    <3>1. k - 1 \in 0 .. (m - 1) /\ (k = m \/ k \in 1 .. (m - 1))
      BY <2>4
    <3>2. g[k - 1] = f[k - 1]
      BY <2>7, <3>1
    <3>3. CASE k = m
      BY <2>7, <3>2, <3>3
    <3>4. CASE k \in 1 .. (m - 1)
      BY <2>5a, <2>7, <3>2, <3>4
    <3> QED
      BY <3>1, <3>3, <3>4
  <2> QED
    BY <2>2, <2>7, <2>8
<1>2. n \notin Missing
  BY <1>1
<1> QED
  BY <1>2 DEF Walks

-----------------------------------------------------------------------------
(* Issues *)

IssueTypes == issue \in [IssueIds -> IssueRows \cup {NoIssueRow}]

\* What the columns of an issue hold; an issue that is not there has no parent.
LEMMA IssueFields ==
    IssueTypes => \A i \in IssueIds : /\ issue[i].parent \in 0 .. MaxIssues
                                      /\ issue[i] = NoIssueRow <=> issue[i].project = "none"
                                      /\ issue[i] # NoIssueRow => issue[i] \in IssueRows
                                      /\ issue[i] = NoIssueRow => issue[i].parent = 0
BY BoardAssumption DEF IssueTypes, IssueRows, NoIssueRow, IssueIds

\* The walk above an issue.
LEMMA AboveWalks ==
    ASSUME IssueTypes, NEW parent \in 0 .. MaxIssues
    PROVE  /\ Above(parent) \in [0 .. MaxIssues -> 0 .. MaxIssues]
           /\ Above(parent)[0] = parent
           /\ \A k \in 1 .. MaxIssues :
                Above(parent)[k] = IF Above(parent)[k - 1] = 0 THEN 0 ELSE issue[Above(parent)[k - 1]].parent
<1> DEFINE step == [x \in 0 .. MaxIssues |-> IF x = 0 THEN 0 ELSE issue[x].parent]
           Is(up) == up = [k \in 0 .. MaxIssues |-> IF k = 0 THEN parent
                                                    ELSE IF up[k - 1] = 0 THEN 0 ELSE issue[up[k - 1]].parent]
<1>1. step \in [0 .. MaxIssues -> 0 .. MaxIssues]
  BY IssueFields, BoardAssumption DEF IssueIds
<1>2. MaxIssues \in Nat
  BY BoardAssumption
<1>3. PICK f \in [0 .. MaxIssues -> 0 .. MaxIssues] : f[0] = parent /\ \A k \in 1 .. MaxIssues : f[k] = step[f[k - 1]]
  <2> DEFINE T == 0 .. MaxIssues
  <2> HIDE DEF step, T
  <2>1. step \in [T -> T] /\ parent \in T
    BY <1>1 DEF T
  <2>2. \E f \in [0 .. MaxIssues -> T] : Walks(f, MaxIssues, parent, step)
    BY <1>2, <2>1, Repeated
  <2> QED
    BY <2>2 DEF T, Walks
<1>4. \A k \in 1 .. MaxIssues : k - 1 \in 0 .. MaxIssues /\ k \in 0 .. MaxIssues /\ k # 0
  BY <1>2
<1>5. \A k \in 1 .. MaxIssues : f[k] = IF f[k - 1] = 0 THEN 0 ELSE issue[f[k - 1]].parent
  <2>1. \A k \in 1 .. MaxIssues : f[k - 1] \in 0 .. MaxIssues
    BY <1>3, <1>4
  <2> QED
    BY <1>3, <2>1
<1>6. Is(f)
  <2> DEFINE rule(k) == IF k = 0 THEN parent ELSE IF f[k - 1] = 0 THEN 0 ELSE issue[f[k - 1]].parent
  <2>1. \A k \in 0 .. MaxIssues : f[k] = rule(k)
    <3>1. f[0] = rule(0)
      BY <1>3
    <3>2. \A k \in 1 .. MaxIssues : f[k] = rule(k)
      BY <1>4, <1>5
    <3>3. \A k \in 0 .. MaxIssues : k = 0 \/ k \in 1 .. MaxIssues
      BY <1>2
    <3> HIDE DEF rule
    <3> QED
      BY <3>1, <3>2, <3>3
  <2> HIDE DEF rule
  <2>2. f = [k \in 0 .. MaxIssues |-> rule(k)]
    BY <1>3, <2>1
  <2> QED
    BY <2>2 DEF rule
<1>7. Above(parent) = CHOOSE up : Is(up)
  BY DEF Above
<1>8. Is(Above(parent))
  <2> HIDE DEF Is
  <2> QED
    BY <1>6, <1>7
<1> DEFINE up == Above(parent)
<1>9. up = [k \in 0 .. MaxIssues |-> IF k = 0 THEN parent
                                     ELSE IF up[k - 1] = 0 THEN 0 ELSE issue[up[k - 1]].parent]
  BY <1>8
<1> HIDE DEF up, Is, step
<1>10. up[0] = parent /\ \A k \in 1 .. MaxIssues : up[k] = IF up[k - 1] = 0 THEN 0 ELSE issue[up[k - 1]].parent
  <2>1. \A k \in 0 .. MaxIssues : up[k] = IF k = 0 THEN parent
                                      ELSE IF up[k - 1] = 0 THEN 0 ELSE issue[up[k - 1]].parent
    BY <1>9, Zenon
  <2>2. 0 \in 0 .. MaxIssues
    BY <1>2
  <2> QED
    BY <1>4, <2>1, <2>2
<1>11. \A k \in 0 .. MaxIssues : up[k] \in 0 .. MaxIssues
  <2> SUFFICES ASSUME NEW j \in 0 .. MaxIssues, up[j] \notin 0 .. MaxIssues PROVE FALSE
    OBVIOUS
  <2> DEFINE Bad == {k \in 0 .. MaxIssues : up[k] \notin 0 .. MaxIssues}
  <2>1. PICK k \in Bad : \A m \in Bad : k <= m
    <3>1. Bad \in SUBSET Nat /\ Bad # {}
      OBVIOUS
    <3> HIDE DEF Bad
    <3> QED
      BY <3>1, LeastNumber
  <2>2. k \in 0 .. MaxIssues /\ k # 0 /\ up[k] \notin 0 .. MaxIssues
    BY <1>10, <2>1
  <2>3. k \in 1 .. MaxIssues /\ k - 1 \in 0 .. MaxIssues
    BY <1>2, <2>2
  <2>4. up[k - 1] \in 0 .. MaxIssues
    BY <2>1, <2>3
  <2>5. up[k] = IF up[k - 1] = 0 THEN 0 ELSE issue[up[k - 1]].parent
    BY <1>10, <2>3
  <2> QED
    <3>1. up[k - 1] # 0 => up[k - 1] \in IssueIds
      BY <1>2, <2>4 DEF IssueIds
    <3>2. 0 \in 0 .. MaxIssues
      BY <1>2
    <3> QED
      BY <2>2, <2>5, <3>1, <3>2, IssueFields
<1>12. up \in [0 .. MaxIssues -> 0 .. MaxIssues]
  BY <1>9, <1>11
<1> QED
  BY <1>10, <1>12 DEF up

\* The greatest of finitely many numbers.
LEMMA Greatest ==
    ASSUME NEW n \in Nat, NEW S \in SUBSET (0 .. n), S # {}
    PROVE  Max(S) \in S /\ \A j \in S : j <= Max(S)
<1> DEFINE Bounds == {b \in Nat : \A j \in S : j <= b}
<1>1. n \in Bounds
  OBVIOUS
<1>2. PICK b \in Bounds : \A c \in Bounds : b <= c
  <2>1. Bounds \in SUBSET Nat /\ Bounds # {}
    BY <1>1
  <2> HIDE DEF Bounds
  <2> QED
    BY <2>1, LeastNumber
<1>3. b \in S
  <2> SUFFICES ASSUME b \notin S PROVE FALSE
    OBVIOUS
  <2>1. PICK j \in S : TRUE
    OBVIOUS
  <2>2. \A i \in S : i <= b - 1
    BY <1>2
  <2>3. b - 1 \in Nat
    BY <1>2, <2>1, <2>2
  <2> QED
    BY <1>2, <2>2, <2>3
<1>4. \E x \in S : \A y \in S : x >= y
  BY <1>2, <1>3
<1>5. Max(S) \in S /\ \A y \in S : Max(S) >= y
  BY <1>4, Zenon DEF Max
<1> QED
  BY <1>5

\* A walk that has come to the top stays there, and it stays in the project.
LEMMA AboveStays ==
    ASSUME IssueTypes, NEW parent \in 0 .. MaxIssues, NEW a \in 0 .. MaxIssues, Above(parent)[a] = 0
    PROVE  \A b \in a .. MaxIssues : Above(parent)[b] = 0
<1> DEFINE up == Above(parent)
           Bad == {b \in a .. MaxIssues : up[b] # 0}
<1>1. \A k \in 1 .. MaxIssues : up[k] = IF up[k - 1] = 0 THEN 0 ELSE issue[up[k - 1]].parent
  BY AboveWalks
<1>2. up[a] = 0 /\ MaxIssues \in Nat
  BY BoardAssumption
<1> HIDE DEF up
<1>3. ASSUME Bad # {} PROVE FALSE
  <2>1. Bad \in SUBSET Nat
    OBVIOUS
  <2>2. PICK b \in Bad : \A m \in Bad : b <= m
    <3> HIDE DEF Bad
    <3> QED
      BY <1>3, <2>1, LeastNumber
  <2>3. b # a /\ b \in 1 .. MaxIssues /\ b - 1 \in a .. MaxIssues /\ up[b] # 0
    BY <1>2, <2>2
  <2>4. up[b - 1] = 0
    BY <2>2, <2>3
  <2> QED
    BY <1>1, <2>3, <2>4
<1> QED
  BY <1>3 DEF up

\* Ranks that fall from an issue to the one above it.
Ranks(r) == r \in [IssueIds -> Nat] /\ \A i \in IssueIds : issue[i].parent # 0 => r[issue[i].parent] < r[i]
Ranked == \E r : Ranks(r)
SameProject == \A i \in IssueIds : issue[i].parent # 0 => issue[issue[i].parent].project = issue[i].project

\* Where ranks fall, a walk is too short to fill the table.
LEMMA RanksEnd ==
    ASSUME IssueTypes, Ranked, NEW parent \in 0 .. MaxIssues
    PROVE  Above(parent)[MaxIssues] = 0
<1> DEFINE up == Above(parent)
<1>1. /\ up \in [0 .. MaxIssues -> 0 .. MaxIssues]
      /\ \A k \in 1 .. MaxIssues : up[k] = IF up[k - 1] = 0 THEN 0 ELSE issue[up[k - 1]].parent
  BY AboveWalks
<1>2. MaxIssues \in Nat
  BY BoardAssumption
<1>3. PICK r : Ranks(r)
  BY DEF Ranked
<1>4. SUFFICES ASSUME up[MaxIssues] # 0 PROVE FALSE
  OBVIOUS
<1>5. \A a \in 0 .. MaxIssues : up[a] # 0
  <2> SUFFICES ASSUME NEW a \in 0 .. MaxIssues, up[a] = 0 PROVE FALSE
    OBVIOUS
  <2>1. MaxIssues \in a .. MaxIssues
    BY <1>2
  <2> QED
    BY <1>4, <2>1, AboveStays
<1> HIDE DEF up
<1>6. \A a \in 0 .. MaxIssues : up[a] \in IssueIds
  BY <1>1, <1>2, <1>5 DEF IssueIds
<1>7. \A k \in 1 .. MaxIssues : /\ k - 1 \in 0 .. MaxIssues /\ r[up[k]] < r[up[k - 1]]
                              /\ r[up[k]] \in Nat /\ r[up[k - 1]] \in Nat
  <2> SUFFICES ASSUME NEW k \in 1 .. MaxIssues
               PROVE  k - 1 \in 0 .. MaxIssues /\ r[up[k]] < r[up[k - 1]] /\ r[up[k]] \in Nat /\ r[up[k - 1]] \in Nat
    OBVIOUS
  <2>1. k - 1 \in 0 .. MaxIssues /\ k \in 0 .. MaxIssues
    BY <1>2
  <2>2. up[k] = issue[up[k - 1]].parent /\ up[k] # 0 /\ up[k - 1] \in IssueIds /\ up[k] \in IssueIds
    BY <1>1, <1>5, <1>6, <2>1
  <2> QED
    BY <1>3, <2>1, <2>2 DEF Ranks
<1>8. ASSUME NEW a \in 0 .. MaxIssues PROVE \A b \in (a + 1) .. MaxIssues : r[up[b]] < r[up[a]]
  <2> DEFINE Bad == {b \in (a + 1) .. MaxIssues : ~(r[up[b]] < r[up[a]])}
  <2>1. ASSUME Bad # {} PROVE FALSE
    <3>1. Bad \in SUBSET Nat
      OBVIOUS
    <3>2. PICK b \in Bad : \A m \in Bad : b <= m
      <4> HIDE DEF Bad
      <4> QED
        BY <2>1, <3>1, LeastNumber
    <3>3. b \in 1 .. MaxIssues /\ b - 1 \in a .. MaxIssues /\ ~(r[up[b]] < r[up[a]])
      BY <1>2, <3>2
    <3>4. r[up[a]] \in Nat
      BY <1>3, <1>6 DEF Ranks
    <3>5. CASE b - 1 = a
      BY <1>7, <3>3, <3>5
    <3>6. CASE b - 1 # a
      <4>1. b - 1 \in (a + 1) .. MaxIssues /\ ~(b <= b - 1)
        BY <3>3, <3>6
      <4>2. r[up[b - 1]] < r[up[a]]
        BY <3>2, <4>1
      <4> QED
        BY <1>7, <3>3, <3>4, <4>2
    <3> QED
      BY <3>5, <3>6
  <2> QED
    BY <2>1
<1>9. /\ IsFiniteSet(0 .. MaxIssues) /\ Cardinality(0 .. MaxIssues) = MaxIssues + 1
      /\ IsFiniteSet(IssueIds) /\ Cardinality(IssueIds) = MaxIssues
  BY <1>2, FS_Interval DEF IssueIds
<1>10. up \in [0 .. MaxIssues -> IssueIds]
  BY <1>1, <1>6
<1>11. PICK a \in 0 .. MaxIssues, b \in 0 .. MaxIssues : a # b /\ up[a] = up[b]
  BY <1>2, <1>9, <1>10, FS_PigeonHole
<1>12. r[up[a]] \in Nat /\ r[up[b]] \in Nat
  BY <1>3, <1>6 DEF Ranks
<1>13. a \in (b + 1) .. MaxIssues \/ b \in (a + 1) .. MaxIssues
  BY <1>2, <1>11
<1> QED
  BY <1>8, <1>11, <1>12, <1>13

\* Ranks that fall along the parents: every walk up ends before it has passed all issues.
LEMMA TreesOfRanks == IssueTypes /\ Ranked /\ SameProject => IssuesFormTrees
<1> SUFFICES ASSUME IssueTypes, Ranked, SameProject, NEW i \in IssueIds
             PROVE  /\ Above(issue[i].parent)[MaxIssues] = 0
                    /\ \A k \in 0 .. MaxIssues : Above(issue[i].parent)[k] # 0 =>
                         issue[Above(issue[i].parent)[k]].project = issue[i].project
  BY DEF IssuesFormTrees
<1>1. issue[i].parent \in 0 .. MaxIssues /\ MaxIssues \in Nat
  BY IssueFields, BoardAssumption
<1>2. Above(issue[i].parent)[MaxIssues] = 0
  BY <1>1, RanksEnd
<1> DEFINE up == Above(issue[i].parent)
           Bad == {k \in 0 .. MaxIssues : up[k] # 0 /\ issue[up[k]].project # issue[i].project}
<1>3. /\ up \in [0 .. MaxIssues -> 0 .. MaxIssues] /\ up[0] = issue[i].parent
      /\ \A k \in 1 .. MaxIssues : up[k] = IF up[k - 1] = 0 THEN 0 ELSE issue[up[k - 1]].parent
  BY <1>1, AboveWalks
<1> HIDE DEF up
<1>4. ASSUME Bad # {} PROVE FALSE
  <2>1. Bad \in SUBSET Nat
    OBVIOUS
  <2>2. PICK k \in Bad : \A m \in Bad : k <= m
    <3> HIDE DEF Bad
    <3> QED
      BY <1>4, <2>1, LeastNumber
  <2>3. k # 0
    BY <1>3, <2>2 DEF SameProject
  <2>4. k \in 1 .. MaxIssues /\ k - 1 \in 0 .. MaxIssues /\ ~(k <= k - 1) /\ up[k] # 0
        /\ issue[up[k]].project # issue[i].project
    BY <1>1, <2>2, <2>3
  <2>5. up[k - 1] # 0 /\ up[k] = issue[up[k - 1]].parent /\ up[k - 1] \in IssueIds
    <3>1. up[k] = IF up[k - 1] = 0 THEN 0 ELSE issue[up[k - 1]].parent
      BY <1>3, <2>4
    <3>2. up[k - 1] # 0 /\ up[k - 1] \in 0 .. MaxIssues
      BY <1>3, <2>4, <3>1
    <3> QED
      BY <1>1, <3>1, <3>2 DEF IssueIds
  <2>6. issue[up[k - 1]].project = issue[i].project
    BY <2>2, <2>4, <2>5
  <2> QED
    BY <2>4, <2>5, <2>6 DEF SameProject
<1> QED
  BY <1>2, <1>4 DEF up

\* Moving an issue below one whose walk does not meet it keeps the ranks.
LEMMA MovedRanks ==
    ASSUME IssueTypes, Ranked, NEW i \in IssueIds, NEW parent \in 0 .. MaxIssues, NEW project,
           Permitted(i, project, parent), issue' = [issue EXCEPT ![i].parent = parent]
    PROVE  Ranked'
<1> DEFINE up == Above(parent)
           U == {up[k] : k \in 0 .. MaxIssues} \ {0}
<1>1. /\ up \in [0 .. MaxIssues -> 0 .. MaxIssues] /\ up[0] = parent
      /\ \A k \in 1 .. MaxIssues : up[k] = IF up[k - 1] = 0 THEN 0 ELSE issue[up[k - 1]].parent
  BY AboveWalks
<1>2. MaxIssues \in Nat /\ up[MaxIssues] = 0 /\ \A k \in 0 .. MaxIssues : up[k] # 0 => up[k] # i
  BY BoardAssumption DEF Permitted
<1>3. PICK r : Ranks(r)
  BY DEF Ranked
<1> HIDE DEF up
<1>4. i \notin U /\ (parent # 0 => parent \in U)
  BY <1>1, <1>2
<1>5. \A x \in U : issue[x].parent # 0 => issue[x].parent \in U
  <2> SUFFICES ASSUME NEW k \in 0 .. MaxIssues, up[k] # 0, issue[up[k]].parent # 0
               PROVE  issue[up[k]].parent \in U
    OBVIOUS
  <2>1. k + 1 \in 1 .. MaxIssues /\ (k + 1) - 1 = k
    BY <1>2
  <2>2. up[k + 1] = issue[up[k]].parent
    BY <1>1, <2>1
  <2> QED
    BY <2>1, <2>2
<1> HIDE DEF U
<1> DEFINE lift == IF parent = 0 THEN 0 ELSE r[parent] + 1
<1>6. /\ lift \in Nat /\ (parent # 0 => r[parent] < lift /\ r[parent] \in Nat /\ parent \in IssueIds)
      /\ r \in [IssueIds -> Nat]
  <2>1. parent # 0 => parent \in IssueIds
    BY <1>2 DEF IssueIds
  <2> QED
    BY <1>3, <2>1 DEF Ranks
<1>7. PICK q \in [IssueIds -> Nat] : \A x \in IssueIds : q[x] = IF x \in U THEN r[x] ELSE r[x] + lift
  <2> DEFINE p == [x \in IssueIds |-> IF x \in U THEN r[x] ELSE r[x] + lift]
  <2>1. p \in [IssueIds -> Nat] /\ \A x \in IssueIds : p[x] = IF x \in U THEN r[x] ELSE r[x] + lift
    BY <1>6
  <2> QED
    BY <2>1
<1> HIDE DEF lift
<1>8. \A x \in IssueIds : issue'[x].parent = IF x = i THEN parent ELSE issue[x].parent
  BY IssueFields DEF IssueTypes, IssueRows, NoIssueRow
<1>9. ASSUME NEW x \in IssueIds, issue'[x].parent # 0 PROVE q[issue'[x].parent] < q[x]
  <2>1. CASE x = i
    <3>1. issue'[x].parent = parent /\ q[parent] = r[parent] /\ q[x] = r[x] + lift /\ r[x] \in Nat
      BY <1>4, <1>6, <1>7, <1>8, <1>9, <2>1
    <3> QED
      BY <1>6, <1>8, <1>9, <2>1, <3>1
  <2>2. CASE x # i
    <3> DEFINE y == issue[x].parent
    <3>1. issue'[x].parent = y /\ y # 0 /\ y \in IssueIds
      BY <1>2, <1>8, <1>9, <2>2, IssueFields DEF IssueIds
    <3>2. r[y] < r[x] /\ r[y] \in Nat /\ r[x] \in Nat
      BY <1>3, <3>1 DEF Ranks
    <3>3. x \in U => y \in U
      BY <1>5, <3>1
    <3> HIDE DEF y
    <3> QED
      BY <1>6, <1>7, <3>1, <3>2, <3>3
  <2> QED
    BY <2>1, <2>2
<1>10. Ranks(q)'
  BY <1>7, <1>9 DEF Ranks, IssueIds
<1> QED
  BY <1>10 DEF Ranked

\* So does a new row, which nothing is below.
LEMMA CreatedRanks ==
    ASSUME IssueTypes, Ranked, SameProject, NEW i \in IssueIds, issue[i] = NoIssueRow, NEW row \in IssueRows,
           row.parent # 0 => issue[row.parent].project = row.project, issue' = [issue EXCEPT ![i] = row]
    PROVE  Ranked' /\ SameProject'
<1>1. PICK r : Ranks(r)
  BY DEF Ranked
<1>2. /\ row.parent \in IssueIds \cup {0} /\ row.project # "none" /\ issue[i].project = "none" /\ issue[i].parent = 0
  <2>1. row.parent \in IssueIds \cup {0} /\ row.project \in BoardProjects
    BY DEF IssueRows
  <2>2. issue[i].project = "none" /\ issue[i].parent = 0
    BY DEF NoIssueRow
  <2> QED
    BY <2>1, <2>2, BoardAssumption
<1>3. row.parent # i
  BY <1>2 DEF IssueIds
<1>4. \A x \in IssueIds : issue'[x] = IF x = i THEN row ELSE issue[x]
  BY DEF IssueTypes
<1>5. \A x \in IssueIds : issue[x].parent # i /\ issue[x].parent \in IssueIds \cup {0}
  <2> SUFFICES ASSUME NEW x \in IssueIds PROVE issue[x].parent # i /\ issue[x].parent \in IssueIds \cup {0}
    OBVIOUS
  <2>1. issue[x].parent \in IssueIds \cup {0}
    BY IssueFields, BoardAssumption DEF IssueIds
  <2>2. issue[x].parent = i => FALSE
    <3>1. 0 \notin IssueIds
      BY DEF IssueIds
    <3> QED
      BY <1>2, <3>1, IssueFields DEF SameProject
  <2> QED
    BY <2>1, <2>2
<1> DEFINE q == [x \in IssueIds |-> IF x = i THEN (IF row.parent = 0 THEN 0 ELSE r[row.parent] + 1) ELSE r[x]]
<1>6. /\ q \in [IssueIds -> Nat] /\ \A x \in IssueIds : x # i => q[x] = r[x]
      /\ row.parent # 0 => q[i] = r[row.parent] + 1 /\ r[row.parent] \in Nat
  BY <1>1, <1>2 DEF Ranks
<1> HIDE DEF q
<1>7. ASSUME NEW x \in IssueIds, issue'[x].parent # 0 PROVE q[issue'[x].parent] < q[x]
  BY <1>1, <1>2, <1>3, <1>4, <1>5, <1>6, <1>7 DEF Ranks
<1>8. Ranks(q)'
  BY <1>6, <1>7 DEF Ranks, IssueIds
<1>9. ASSUME NEW x \in IssueIds, issue'[x].parent # 0
      PROVE  issue'[issue'[x].parent].project = issue'[x].project
  BY <1>2, <1>3, <1>4, <1>5, <1>9 DEF SameProject
<1> QED
  BY <1>8, <1>9 DEF Ranked, SameProject, IssueIds

-----------------------------------------------------------------------------
(* Comments *)

CommentRows == [status : {"none", "there", "gone"}, parent : CommentIds \cup {0}]
CommentTypes == comment \in [CommentIds -> CommentRows]

\* What is reached from a comment holds it and all that answers what it holds.
LEMMA BelowIsClosed ==
    ASSUME NEW c \in CommentIds
    PROVE  /\ c \in Below(c) /\ Below(c) \in SUBSET CommentIds
           /\ RepliesTo(Below(c)) \in SUBSET Below(c)
<1> DEFINE All == SUBSET CommentIds
           step == [C \in All |-> C \cup RepliesTo(C)]
           Is(f) == f = [k \in 0 .. MaxComments |-> IF k = 0 THEN {c} ELSE f[k - 1] \cup RepliesTo(f[k - 1])]
<1>1. MaxComments \in Nat
  BY BoardAssumption
<1>2. \A C \in All : C \cup RepliesTo(C) \in All
  BY DEF RepliesTo, Thread
<1>3. step \in [All -> All] /\ {c} \in All /\ \A C \in All : step[C] = C \cup RepliesTo(C)
  BY <1>2
<1>4. PICK f \in [0 .. MaxComments -> All] : Walks(f, MaxComments, {c}, step)
  <2> HIDE DEF step, All
  <2> QED
    BY <1>1, <1>3, Repeated
<1> HIDE DEF step, All
<1>5. f[0] = {c} /\ \A k \in 1 .. MaxComments : f[k] = f[k - 1] \cup RepliesTo(f[k - 1])
  <2>1. \A k \in 1 .. MaxComments : k - 1 \in 0 .. MaxComments
    BY <1>1
  <2>2. \A k \in 1 .. MaxComments : f[k - 1] \in All
    BY <1>4, <2>1
  <2> QED
    BY <1>3, <1>4, <2>2 DEF Walks
<1>6. Is(f)
  <2> DEFINE rule(k) == IF k = 0 THEN {c} ELSE f[k - 1] \cup RepliesTo(f[k - 1])
  <2>1. \A k \in 0 .. MaxComments : f[k] = rule(k)
    <3>1. f[0] = rule(0)
      BY <1>5
    <3>2. \A k \in 1 .. MaxComments : f[k] = rule(k)
      BY <1>1, <1>5
    <3>3. \A k \in 0 .. MaxComments : k = 0 \/ k \in 1 .. MaxComments
      BY <1>1
    <3> HIDE DEF rule
    <3> QED
      BY <3>1, <3>2, <3>3
  <2> HIDE DEF rule
  <2>2. f = [k \in 0 .. MaxComments |-> rule(k)]
    BY <1>4, <2>1
  <2> QED
    BY <2>2 DEF rule
<1> DEFINE up == CHOOSE g : Is(g)
<1>7. Below(c) = up[MaxComments]
  BY DEF Below
<1>8. Is(up)
  <2> HIDE DEF Is
  <2> QED
    BY <1>6
<1>9. up = [k \in 0 .. MaxComments |-> IF k = 0 THEN {c} ELSE up[k - 1] \cup RepliesTo(up[k - 1])]
  <2> HIDE DEF up
  <2> QED
    BY <1>8
<1> HIDE DEF up, Is
<1>10. \A k \in 0 .. MaxComments : up[k] = IF k = 0 THEN {c} ELSE up[k - 1] \cup RepliesTo(up[k - 1])
  BY <1>9, Zenon
<1> DEFINE Small(k) == /\ c \in up[k] /\ up[k] \in SUBSET CommentIds
                       /\ RepliesTo(up[k]) \subseteq up[k] \/ Cardinality(up[k]) > k
           Bad == {k \in 0 .. MaxComments : ~Small(k)}
<1>11. IsFiniteSet(CommentIds) /\ Cardinality(CommentIds) = MaxComments
  BY <1>1, FS_Interval DEF CommentIds
<1>12. \A C \in SUBSET CommentIds : IsFiniteSet(C) /\ Cardinality(C) <= MaxComments /\ Cardinality(C) \in Nat
  BY <1>11, FS_Subset, FS_CardinalityType
<1>13. ASSUME Bad # {} PROVE FALSE
  <2>1. Bad \in SUBSET Nat
    OBVIOUS
  <2>2. PICK k \in Bad : \A m \in Bad : k <= m
    <3> HIDE DEF Bad
    <3> QED
      BY <1>13, <2>1, LeastNumber
  <2>3. k \in 0 .. MaxComments /\ ~Small(k)
    BY <2>2
  <2>4. k # 0
    <3>1. 0 \in 0 .. MaxComments
      BY <1>1
    <3>1a. up[0] = {c}
      BY <1>10, <3>1
    <3>2. Cardinality({c}) = 1
      BY FS_Singleton
    <3>3. Cardinality(up[0]) > 0 /\ c \in up[0] /\ up[0] \in SUBSET CommentIds
      BY <3>1a, <3>2
    <3> QED
      BY <2>3, <3>3
  <2>5. k - 1 \in 0 .. MaxComments /\ ~(k <= k - 1) /\ k \in Nat
    BY <1>1, <2>3, <2>4
  <2>6. Small(k - 1)
    <3> HIDE DEF Small
    <3> QED
      BY <2>2, <2>5
  <2> DEFINE C == up[k - 1]
  <2>7. up[k] = C \cup RepliesTo(C) /\ c \in C /\ C \in SUBSET CommentIds
        /\ (RepliesTo(C) \subseteq C \/ Cardinality(C) > k - 1)
    BY <1>10, <2>3, <2>4, <2>6
  <2>8. RepliesTo(C) \in SUBSET CommentIds
    BY DEF RepliesTo, Thread
  <2> HIDE DEF C
  <2>9. CASE RepliesTo(C) \subseteq C
    <3>1. up[k] = C
      BY <2>7, <2>9
    <3> QED
      BY <2>3, <2>7, <2>9, <3>1
  <2>10. CASE ~(RepliesTo(C) \subseteq C)
    <3>1. PICK x \in RepliesTo(C) : x \notin C
      BY <2>10
    <3>2. C \cup {x} \in SUBSET up[k] /\ up[k] \in SUBSET CommentIds /\ c \in up[k]
      BY <2>7, <2>8, <3>1
    <3>3. Cardinality(C \cup {x}) = Cardinality(C) + 1
      BY <1>12, <2>7, <3>1, FS_AddElement
    <3>4. Cardinality(C \cup {x}) <= Cardinality(up[k])
      BY <1>12, <3>2, FS_Subset
    <3>5. Cardinality(C) \in Nat /\ Cardinality(up[k]) \in Nat /\ Cardinality(C) > k - 1
      BY <1>12, <2>7, <2>10, <3>2
    <3>6. Cardinality(up[k]) > k
      BY <2>5, <3>3, <3>4, <3>5
    <3> QED
      BY <2>3, <3>2, <3>6
  <2> QED
    BY <2>9, <2>10
<1>14. Small(MaxComments)
  <2>1. MaxComments \in 0 .. MaxComments
    BY <1>1
  <2> HIDE DEF Small
  <2> QED
    BY <1>13, <2>1
<1>15. RepliesTo(up[MaxComments]) \subseteq up[MaxComments]
  BY <1>1, <1>12, <1>14
<1> QED
  BY <1>7, <1>14, <1>15

EditRow == [op : {"none", "create", "move", "reply", "delete", "upload"}, id : 0 .. Max({MaxIssues, MaxComments}),
         row : IssueRows \cup {NoIssueRow}, doomed : SUBSET CommentIds, detaches : BOOLEAN, outdated : BOOLEAN]

\* What an edit is about: a new row, a row that is there, a comment.
Formed(d) ==
    /\ d.op = "create" => d.row \in IssueRows
    /\ d.op = "move" => d.id \in IssueIds /\ issue[d.id] # NoIssueRow /\ d.row \in IssueRows
    /\ d.op \in {"reply", "upload"} => d.id \in CommentIds
    /\ d.row # NoIssueRow => d.row.number <= boardEdits

\* What was read is so: the number is free, the parent permitted, the comment there, and
\* what is to be deleted is all that has to be.
StillSo(d) ==
    /\ d.op = "create" =>
         /\ \A i \in IssuesIn(Workspace(d.row.project)) : issue[i].number < d.row.number
         /\ Permitted(0, d.row.project, d.row.parent)
    /\ d.op = "move" => Permitted(d.id, issue[d.id].project, d.row.parent)
    /\ d.op \in {"reply", "upload"} => d.id \in Thread
    /\ d.op = "delete" => RepliesTo(d.doomed) \subseteq d.doomed /\ d.detaches = (attachment \in d.doomed)

BoardTypes ==
    /\ IssueTypes /\ CommentTypes
    /\ attachment \in {-1, 0} \cup CommentIds
    /\ handedOut \in [Writers -> [BOOLEAN -> 0 .. MaxBoardEdits]]
    /\ writing \in [Writers -> EditRow]
    /\ boardEdits \in 0 .. MaxBoardEdits /\ boardFaults \in 0 .. MaxBoardFaults /\ outran \in BOOLEAN

NumbersGiven ==
    /\ \A i \in IssueIds : issue[i].number <= boardEdits
    /\ \A w \in Writers, ws \in BOOLEAN : handedOut[w][ws] <= boardEdits

Sound == NumbersUnique /\ Ranked /\ SameProject /\ RepliesHaveParents

BoardInv ==
    /\ BoardTypes /\ NumbersGiven
    /\ \A w \in Writers : Formed(writing[w]) /\ (~writing[w].outdated => StillSo(writing[w]))
    /\ ~outran => Sound

\* The row of a writer who does nothing, and the range of what an edit names.
LEMMA NotWritingEdit ==
    /\ NotWriting \in EditRow /\ NotWriting.op = "none" /\ NotWriting.row = NoIssueRow /\ ~NotWriting.outdated
    /\ Max({MaxIssues, MaxComments}) \in Nat
    /\ IssueIds \subseteq 0 .. Max({MaxIssues, MaxComments}) /\ CommentIds \subseteq 0 .. Max({MaxIssues, MaxComments})
<1> DEFINE S == {MaxIssues, MaxComments}
           n == MaxIssues + MaxComments
<1>1. S \in SUBSET (0 .. n) /\ n \in Nat /\ S # {}
  BY BoardAssumption
<1>2. Max(S) \in S /\ \A j \in S : j <= Max(S)
  <2> HIDE DEF S, n
  <2> QED
    BY <1>1, Greatest
<1>3. Max(S) \in Nat /\ MaxIssues <= Max(S) /\ MaxComments <= Max(S)
  BY <1>2, BoardAssumption
<1> DEFINE M == Max(S)
<1> HIDE DEF M
<1>4. 0 \in 0 .. M /\ M \in Nat /\ MaxIssues <= M /\ MaxComments <= M
  BY <1>3 DEF M
<1>5. NotWriting \in [op : {"none", "create", "move", "reply", "delete", "upload"}, id : 0 .. M,
         row : IssueRows \cup {NoIssueRow}, doomed : SUBSET CommentIds, detaches : BOOLEAN, outdated : BOOLEAN]
  BY <1>4 DEF NotWriting
<1>6. IssueIds \subseteq 0 .. M /\ CommentIds \subseteq 0 .. M
  BY <1>4, BoardAssumption DEF IssueIds, CommentIds
<1>7. NotWriting.op = "none" /\ NotWriting.row = NoIssueRow /\ ~NotWriting.outdated
  BY DEF NotWriting
<1> QED
  BY <1>4, <1>5, <1>6, <1>7 DEF M, EditRow

\* At first there is no issue, no comment and no writer at work.
LEMMA BoardStart == BoardInit => BoardInv
<1> SUFFICES ASSUME BoardInit PROVE BoardInv
  OBVIOUS
<1>1. 0 \in 0 .. MaxBoardEdits /\ 0 \in 0 .. MaxBoardFaults /\ 0 \in CommentIds \cup {0}
  BY BoardAssumption
<1>2. NoComment \in CommentRows /\ NoComment.status = "none" /\ NoIssueRow.number = 0 /\ NoIssueRow.parent = 0
  BY <1>1 DEF NoComment, CommentRows, NoIssueRow
<1>3. /\ issue = [i \in IssueIds |-> NoIssueRow] /\ comment = [c \in CommentIds |-> NoComment]
      /\ attachment = -1 /\ handedOut = [w \in Writers |-> [ws \in BOOLEAN |-> 0]]
      /\ writing = [w \in Writers |-> NotWriting] /\ boardEdits = 0 /\ boardFaults = 0 /\ outran = FALSE
  BY DEF BoardInit
<1>4. BoardTypes
  <2>1. writing \in [Writers -> EditRow]
    BY <1>3, NotWritingEdit
  <2>2. IssueTypes /\ CommentTypes
    BY <1>2, <1>3 DEF IssueTypes, CommentTypes
  <2>3. handedOut \in [Writers -> [BOOLEAN -> 0 .. MaxBoardEdits]]
    BY <1>1, <1>3
  <2> QED
    BY <1>1, <1>3, <2>1, <2>2, <2>3 DEF BoardTypes
<1>5. NumbersGiven
  BY <1>2, <1>3 DEF NumbersGiven
<1>6. \A w \in Writers : writing[w] = NotWriting
  BY <1>3
<1>7. Formed(NotWriting) /\ StillSo(NotWriting)
  BY NotWritingEdit DEF Formed, StillSo
<1>8. Sound
  <2>1. \A ws \in BOOLEAN : IssuesIn(ws) = {}
    BY <1>3 DEF IssuesIn
  <2>2. Thread = {}
    BY <1>2, <1>3 DEF Thread
  <2>3. Ranks([i \in IssueIds |-> 0])
    BY <1>2, <1>3 DEF Ranks
  <2>4. SameProject
    BY <1>2, <1>3 DEF SameProject
  <2>5. NumbersUnique /\ RepliesHaveParents
    BY <1>3, <2>1, <2>2 DEF NumbersUnique, RepliesHaveParents
  <2> QED
    BY <2>3, <2>4, <2>5 DEF Sound, Ranked
<1> QED
  BY <1>4, <1>5, <1>6, <1>7, <1>8 DEF BoardInv

\* As long as issues, comments and the attachment stay as they are, so does what was read of them.
LEMMA SameBoard ==
    ASSUME UNCHANGED <<issue, comment, attachment>>
    PROVE  /\ \A d : StillSo(d)' <=> StillSo(d)
           /\ Sound' <=> Sound
<1>1. \A p : Above(p)' = Above(p)
  BY DEF Above
<1>2. \A i, project, parent : Permitted(i, project, parent)' <=> Permitted(i, project, parent)
  BY <1>1 DEF Permitted
<1>3. Thread' = Thread /\ \A C : RepliesTo(C)' = RepliesTo(C)
  BY DEF Thread, RepliesTo
<1>4. \A ws : IssuesIn(ws)' = IssuesIn(ws)
  BY DEF IssuesIn
<1>5. \A d : StillSo(d)' <=> StillSo(d)
  BY <1>2, <1>3, <1>4 DEF StillSo
<1>6. NumbersUnique' <=> NumbersUnique
  BY <1>4 DEF NumbersUnique, Resolved
<1>7. RepliesHaveParents' <=> RepliesHaveParents
  BY <1>3 DEF RepliesHaveParents
<1>8. (Ranked /\ SameProject)' <=> Ranked /\ SameProject
  BY DEF Ranked, Ranks, SameProject
<1> QED
  BY <1>5, <1>6, <1>7, <1>8 DEF Sound

\* One writer turns to something else, and nobody's rows change.
LEMMA EditKept ==
    ASSUME BoardInv, NEW w \in Writers, NEW d \in EditRow, writing' = [writing EXCEPT ![w] = d],
           UNCHANGED <<issue, comment, attachment, outran>>, boardEdits <= boardEdits',
           boardEdits' \in 0 .. MaxBoardEdits, boardFaults' \in 0 .. MaxBoardFaults,
           handedOut' \in [Writers -> [BOOLEAN -> 0 .. MaxBoardEdits]],
           \A v \in Writers, ws \in BOOLEAN : handedOut'[v][ws] <= boardEdits',
           Formed(d)', StillSo(d)
    PROVE  BoardInv'
<1>1. BoardTypes /\ NumbersGiven /\ (~outran => Sound)
  BY DEF BoardInv
<1>2. /\ writing' \in [Writers -> EditRow] /\ writing'[w] = d
      /\ \A v \in Writers : v # w => writing'[v] = writing[v]
  BY <1>1 DEF BoardTypes
<1>3. BoardTypes'
  BY <1>1, <1>2 DEF BoardTypes, IssueTypes, CommentTypes
<1>4. boardEdits \in Nat /\ boardEdits' \in Nat /\ \A i \in IssueIds : issue[i].number \in Nat
  BY <1>1, BoardAssumption DEF BoardTypes, IssueTypes, IssueRows, NoIssueRow
<1>5. NumbersGiven'
  BY <1>1, <1>4 DEF NumbersGiven
<1>6. ASSUME NEW v \in Writers, v # w PROVE Formed(writing[v])'
  <2>1. Formed(writing[v]) /\ writing'[v] = writing[v]
    BY <1>2, <1>6 DEF BoardInv
  <2>2. writing[v].row # NoIssueRow => writing[v].row.number \in Nat
    BY <1>1 DEF BoardTypes, EditRow, IssueRows
  <2>3. writing[v].row # NoIssueRow => writing[v].row.number <= boardEdits'
    BY <1>4, <2>1, <2>2 DEF Formed
  <2> QED
    BY <2>1, <2>3 DEF Formed
<1>7. \A v \in Writers : Formed(writing[v])'
  <2>1. Formed(writing[w])'
    BY <1>2 DEF Formed
  <2> QED
    BY <1>6, <2>1
<1>8. ASSUME NEW v \in Writers, ~writing'[v].outdated PROVE StillSo(writing[v])'
  <2>1. StillSo(writing'[v])
    BY <1>2, <1>8 DEF BoardInv
  <2>2. \A e : StillSo(e)' <=> StillSo(e)
    BY SameBoard
  <2> QED
    BY <2>1, <2>2 DEF StillSo
<1>9. ~outran' => Sound'
  BY <1>1, SameBoard
<1> QED
  BY <1>3, <1>5, <1>7, <1>8, <1>9 DEF BoardInv

\* A commit leaves nobody with something read before it that is not marked outdated.
LEMMA Outdating ==
    ASSUME BoardTypes, NEW w \in Writers,
           \/ Commit(w)
           \/ /\ writing' = [v \in Writers |-> [writing[v] EXCEPT !.outdated = Busy(v)]]
              /\ outran' = outran /\ boardEdits' \in 0 .. MaxBoardEdits /\ boardFaults' = boardFaults
              /\ boardEdits <= boardEdits'
    PROVE  /\ writing' \in [Writers -> EditRow] /\ outran' \in BOOLEAN /\ (~outran' => ~outran)
           /\ \A v \in Writers : \/ writing'[v].op = "none"
                                 \/ /\ writing'[v].op = writing[v].op /\ writing'[v].id = writing[v].id
                                    /\ writing'[v].row = writing[v].row /\ writing'[v].outdated
           /\ \A v \in Writers : writing'[v].row = writing[v].row \/ writing'[v].row = NoIssueRow
           /\ boardEdits' \in 0 .. MaxBoardEdits /\ boardFaults' = boardFaults /\ boardEdits <= boardEdits'
<1> DEFINE old(v) == [writing[v] EXCEPT !.outdated = Busy(v)]
<1>1. \A v \in Writers : writing[v] \in EditRow
  BY DEF BoardTypes
<1>2. \A v \in Writers : old(v) \in EditRow
  BY <1>1 DEF EditRow, Busy
<1>3. \A v \in Writers : /\ old(v).op = writing[v].op /\ old(v).id = writing[v].id /\ old(v).row = writing[v].row
                         /\ old(v).outdated = (writing[v].op # "none")
  BY <1>1 DEF EditRow, Busy
<1> HIDE DEF old
<1>4. \A v \in Writers : old(v).op = "none" \/ old(v).outdated
  BY <1>3
<1>5. boardEdits \in Nat /\ boardEdits <= boardEdits
  BY BoardAssumption DEF BoardTypes
<1>6. CASE Commit(w)
  <2>1. /\ writing' = [v \in Writers |-> IF v = w THEN NotWriting ELSE old(v)]
        /\ outran' = (outran \/ writing[w].outdated) /\ boardEdits' = boardEdits /\ boardFaults' = boardFaults
    BY <1>6 DEF Commit, old
  <2>2. writing[w].outdated \in BOOLEAN
    BY <1>1 DEF EditRow
  <2> QED
    BY <1>2, <1>3, <1>4, <1>5, <2>1, <2>2, NotWritingEdit DEF BoardTypes
<1>7. CASE /\ writing' = [v \in Writers |-> [writing[v] EXCEPT !.outdated = Busy(v)]]
           /\ outran' = outran /\ boardEdits' \in 0 .. MaxBoardEdits /\ boardFaults' = boardFaults
           /\ boardEdits <= boardEdits'
  <2>1. writing' = [v \in Writers |-> old(v)]
    BY <1>7 DEF old
  <2>2. outran' \in BOOLEAN /\ (~outran' => ~outran)
    BY <1>7 DEF BoardTypes
  <2>3. writing' \in [Writers -> EditRow] /\ \A v \in Writers : writing'[v] = old(v)
    BY <1>2, <2>1
  <2> QED
    BY <1>3, <1>4, <1>7, <2>2, <2>3
<1> QED
  BY <1>6, <1>7

\* A commit keeps the invariant if it leaves the rows as they are to be.
LEMMA BoardCommitKept ==
    ASSUME BoardInv, NEW w \in Writers,
           \/ Commit(w)
           \/ /\ writing' = [v \in Writers |-> [writing[v] EXCEPT !.outdated = Busy(v)]]
              /\ outran' = outran /\ boardEdits' \in 0 .. MaxBoardEdits /\ boardFaults' = boardFaults
              /\ boardEdits <= boardEdits',
           handedOut' = handedOut, IssueTypes', CommentTypes', attachment' \in {-1, 0} \cup CommentIds,
           \A i \in IssueIds : /\ issue[i] # NoIssueRow => issue'[i] # NoIssueRow
                               /\ issue'[i].number <= boardEdits,
           ~outran' => Sound'
    PROVE  BoardInv'
<1>1. BoardTypes /\ NumbersGiven
  BY DEF BoardInv
<1>2. /\ writing' \in [Writers -> EditRow] /\ outran' \in BOOLEAN
      /\ \A v \in Writers : \/ writing'[v].op = "none"
                            \/ /\ writing'[v].op = writing[v].op /\ writing'[v].id = writing[v].id
                               /\ writing'[v].row = writing[v].row /\ writing'[v].outdated
      /\ \A v \in Writers : writing'[v].row = writing[v].row \/ writing'[v].row = NoIssueRow
      /\ boardEdits' \in 0 .. MaxBoardEdits /\ boardFaults' = boardFaults /\ boardEdits <= boardEdits'
  BY <1>1, Outdating
<1>3. BoardTypes'
  BY <1>1, <1>2 DEF BoardTypes, CommentTypes, IssueTypes
<1>4. boardEdits \in Nat /\ boardEdits' \in Nat
  BY <1>1, <1>2, BoardAssumption DEF BoardTypes
<1>5. NumbersGiven'
  <2>1. \A i \in IssueIds : issue'[i].number <= boardEdits'
    <3>1. \A i \in IssueIds : issue'[i].number \in Nat
      BY BoardAssumption DEF IssueTypes, IssueRows, NoIssueRow
    <3> QED
      BY <1>2, <1>4, <3>1
  <2>2. \A v \in Writers, ws \in BOOLEAN : handedOut[v][ws] <= boardEdits'
    <3>1. \A v \in Writers, ws \in BOOLEAN : handedOut[v][ws] \in Nat
      BY <1>1, BoardAssumption DEF BoardTypes
    <3> QED
      BY <1>1, <1>2, <1>4, <3>1 DEF NumbersGiven
  <2> QED
    BY <2>1, <2>2 DEF NumbersGiven, IssueIds
<1>6. \A v \in Writers : Formed(writing[v])'
  <2> SUFFICES ASSUME NEW v \in Writers PROVE Formed(writing[v])'
    OBVIOUS
  <2>1. Formed(writing[v]) /\ (writing[v].row # NoIssueRow => writing[v].row.number \in Nat)
    BY <1>1 DEF BoardInv, BoardTypes, EditRow, IssueRows
  <2>2. writing'[v].row # NoIssueRow => writing'[v].row.number <= boardEdits'
    BY <1>2, <1>4, <2>1 DEF Formed
  <2>3. writing'[v].op = "move" => writing'[v].id \in IssueIds /\ issue'[writing'[v].id] # NoIssueRow /\ writing'[v].row \in IssueRows
    BY <1>2, <2>1 DEF Formed
  <2>4. /\ writing'[v].op = "create" => writing'[v].row \in IssueRows
        /\ writing'[v].op \in {"reply", "upload"} => writing'[v].id \in CommentIds
    BY <1>2, <2>1 DEF Formed
  <2> QED
    BY <2>2, <2>3, <2>4 DEF Formed, IssueRows, IssueIds, CommentIds
<1>7. \A v \in Writers : ~writing'[v].outdated => StillSo(writing[v])'
  BY <1>2 DEF StillSo
<1> QED
  BY <1>3, <1>5, <1>6, <1>7 DEF BoardInv

\* create_issue() has looked for the parent and the greatest number.
LEMMA CreateIssueKept ==
    ASSUME BoardInv, NEW w \in Writers, NEW p \in BoardProjects, NEW parent \in IssueIds \cup {0},
           CreateIssue(w, p, parent)
    PROVE  BoardInv'
<1> DEFINE ws == Workspace(p)
           numbers == {issue[i].number : i \in IssuesIn(ws)}
           n == NextNumber(w, ws)
           row == [project |-> p, number |-> n, parent |-> parent]
           d == [NotWriting EXCEPT !.op = "create", !.row = row]
<1>1. BoardTypes /\ NumbersGiven
  BY DEF BoardInv
<1>2. /\ boardEdits \in Nat /\ MaxBoardEdits \in Nat /\ boardEdits < MaxBoardEdits /\ boardEdits' = boardEdits + 1
      /\ UNCHANGED <<boardFaults, outran>>
  BY <1>1, BoardAssumption DEF CreateIssue, BeginEdit, BoardTypes
<1>3. /\ Permitted(0, p, parent) /\ handedOut' = [handedOut EXCEPT ![w][ws] = n]
      /\ writing' = [writing EXCEPT ![w] = d] /\ UNCHANGED <<issue, comment, attachment>>
  BY DEF CreateIssue
<1>4. ws \in BOOLEAN
  BY DEF Workspace
<1>5. numbers \in SUBSET (0 .. boardEdits)
  <2>1. \A i \in IssueIds : issue[i].number \in Nat /\ issue[i].number <= boardEdits
    BY <1>1, BoardAssumption DEF BoardTypes, NumbersGiven, IssueTypes, IssueRows, NoIssueRow
  <2> QED
    BY <1>2, <2>1 DEF IssuesIn
<1>6. handedOut[w][ws] \in 0 .. boardEdits
  BY <1>1, <1>2, <1>4 DEF BoardTypes, NumbersGiven
<1>7. n = Max({Max({0} \cup numbers), handedOut[w][ws]}) + 1
  BY DEF NextNumber
<1> HIDE DEF numbers, ws
<1>8. Max({0} \cup numbers) \in 0 .. boardEdits /\ \A j \in numbers : j <= Max({0} \cup numbers)
  <2>1. {0} \cup numbers \in SUBSET (0 .. boardEdits)
    BY <1>2, <1>5
  <2>2. Max({0} \cup numbers) \in {0} \cup numbers /\ \A j \in {0} \cup numbers : j <= Max({0} \cup numbers)
    BY <1>2, <2>1, Greatest
  <2> QED
    BY <2>1, <2>2
<1> DEFINE m == Max({0} \cup numbers)
           k == Max({m, handedOut[w][ws]})
<1> HIDE DEF m
<1>9. k \in 0 .. boardEdits /\ m <= k
  <2>1. {m, handedOut[w][ws]} \in SUBSET (0 .. boardEdits)
    BY <1>6, <1>8 DEF m
  <2>2. k \in {m, handedOut[w][ws]} /\ \A j \in {m, handedOut[w][ws]} : j <= k
    BY <1>2, <2>1, Greatest
  <2> QED
    BY <2>1, <2>2
<1>10. n = k + 1
  BY <1>7 DEF m
<1> HIDE DEF k, n
<1>11. /\ n \in 1 .. boardEdits' /\ n \in 1 .. MaxBoardEdits /\ n \in 0 .. MaxBoardEdits /\ n <= boardEdits'
       /\ \A j \in numbers : j < n
  <2>1. \A j \in numbers : j <= m /\ j \in Nat
    BY <1>5, <1>8 DEF m
  <2>2. m \in Nat
    BY <1>8 DEF m
  <2> QED
    BY <1>2, <1>9, <1>10, <2>1, <2>2
<1>12. row \in IssueRows
  BY <1>11 DEF IssueRows
<1> HIDE DEF row
<1>13. d \in EditRow /\ d.op = "create" /\ d.row = row
  BY <1>12, NotWritingEdit DEF EditRow
<1> HIDE DEF d
<1>14. row.project = p /\ row.number = n /\ row.parent = parent
  BY DEF row
<1>15. handedOut' \in [Writers -> [BOOLEAN -> 0 .. MaxBoardEdits]]
  BY <1>1, <1>3, <1>4, <1>11 DEF BoardTypes
<1>16. \A v \in Writers, u \in BOOLEAN : handedOut'[v][u] <= boardEdits'
  <2>1. \A v \in Writers, u \in BOOLEAN : handedOut[v][u] \in Nat /\ handedOut[v][u] <= boardEdits
    BY <1>1, BoardAssumption DEF BoardTypes, NumbersGiven
  <2>2. \A v \in Writers, u \in BOOLEAN : handedOut'[v][u] = IF v = w /\ u = ws THEN n ELSE handedOut[v][u]
    BY <1>1, <1>3, <1>4 DEF BoardTypes
  <2> QED
    BY <1>2, <1>11, <2>1, <2>2
<1>17. \A i \in IssuesIn(Workspace(row.project)) : issue[i].number < row.number
  BY <1>11, <1>14 DEF numbers, ws
<1>18. StillSo(d)
  BY <1>3, <1>13, <1>14, <1>17 DEF StillSo
<1>19. PICK e \in EditRow : e = d
  BY <1>13
<1>20. Formed(e)'
  BY <1>11, <1>12, <1>13, <1>14, <1>19 DEF Formed, IssueRows, IssueIds
<1>21. writing' = [writing EXCEPT ![w] = e] /\ StillSo(e)
  BY <1>3, <1>18, <1>19
<1>22. /\ boardEdits <= boardEdits' /\ boardEdits' \in 0 .. MaxBoardEdits
       /\ boardFaults' \in 0 .. MaxBoardFaults /\ UNCHANGED <<issue, comment, attachment, outran>>
  BY <1>1, <1>2, <1>3 DEF BoardTypes
<1> QED
  BY <1>15, <1>16, <1>19, <1>20, <1>21, <1>22, EditKept

\* The writers' own steps that change no row.
LEMMA BeginKept ==
    ASSUME BoardInv, NEW w \in Writers, BeginEdit(w), NEW d \in EditRow, d.row.number <= boardEdits,
           writing' = [writing EXCEPT ![w] = d], Formed(d), StillSo(d),
           UNCHANGED <<issue, comment, attachment, handedOut>>
    PROVE  BoardInv'
<1>1. BoardTypes /\ NumbersGiven
  BY DEF BoardInv
<1>2. /\ boardEdits \in Nat /\ boardEdits <= boardEdits' /\ boardEdits' \in 0 .. MaxBoardEdits
      /\ boardFaults' \in 0 .. MaxBoardFaults /\ UNCHANGED <<issue, comment, attachment, outran>>
  BY <1>1, BoardAssumption DEF BeginEdit, BoardTypes
<1>3. handedOut' \in [Writers -> [BOOLEAN -> 0 .. MaxBoardEdits]]
  BY <1>1 DEF BoardTypes
<1>4. \A v \in Writers, ws \in BOOLEAN : handedOut'[v][ws] <= boardEdits'
  <2>1. \A v \in Writers, ws \in BOOLEAN : handedOut[v][ws] \in Nat /\ handedOut[v][ws] <= boardEdits
    BY <1>1, BoardAssumption DEF BoardTypes, NumbersGiven
  <2> QED
    BY <1>2, <2>1
<1>5. Formed(d)'
  <2>1. d.row # NoIssueRow => d.row.number \in Nat
    BY DEF EditRow, IssueRows
  <2>2. d.row # NoIssueRow => d.row.number <= boardEdits'
    BY <1>2, <2>1
  <2> QED
    BY <1>2, <2>2 DEF Formed, IssueRows, IssueIds, CommentIds
<1> QED
  BY <1>2, <1>3, <1>4, <1>5, EditKept

\* move_issue() has walked up from the new parent and not met the issue.
LEMMA MoveIssueKept ==
    ASSUME BoardInv, NEW w \in Writers, NEW i \in IssueIds, NEW parent \in IssueIds \cup {0},
           MoveIssue(w, i, parent)
    PROVE  BoardInv'
<1> DEFINE row == [issue[i] EXCEPT !.parent = parent]
           d == [NotWriting EXCEPT !.op = "move", !.id = i, !.row = row]
<1>1. BoardTypes /\ NumbersGiven /\ issue[i] # NoIssueRow
  BY DEF BoardInv, MoveIssue
<1>2. issue[i] \in IssueRows
  BY <1>1, IssueFields DEF BoardTypes
<1>3. row \in IssueRows /\ row.parent = parent /\ row.number = issue[i].number
  BY <1>2 DEF IssueRows
<1> HIDE DEF row
<1>4. d \in EditRow /\ d.op = "move" /\ d.id = i /\ d.row = row
  <2>1. i \in 0 .. Max({MaxIssues, MaxComments})
    BY NotWritingEdit
  <2> QED
    BY <1>3, <2>1, NotWritingEdit DEF EditRow
<1>5. writing' = [writing EXCEPT ![w] = d]
  BY DEF MoveIssue, row
<1> HIDE DEF d
<1>6. Permitted(i, issue[i].project, parent) /\ BeginEdit(w) /\ UNCHANGED <<issue, comment, attachment, handedOut>>
  BY DEF MoveIssue
<1>7. d.row.number <= boardEdits
  BY <1>1, <1>3, <1>4 DEF NumbersGiven
<1>8. Formed(d)
  BY <1>1, <1>3, <1>4, <1>7 DEF Formed
<1>9. StillSo(d)
  BY <1>3, <1>4, <1>6 DEF StillSo
<1>10. PICK e \in EditRow : e = d
  BY <1>4
<1>11. writing' = [writing EXCEPT ![w] = e] /\ Formed(e) /\ StillSo(e) /\ e.row.number <= boardEdits
  BY <1>5, <1>7, <1>8, <1>9, <1>10
<1> QED
  BY <1>6, <1>10, <1>11, BeginKept

\* A reply and an upload have looked for their comment.
LEMMA AnswerKept ==
    ASSUME BoardInv, NEW w \in Writers, NEW op \in {"reply", "upload"}, NEW c \in CommentIds, Answer(w, op, c)
    PROVE  BoardInv'
<1> DEFINE d == [NotWriting EXCEPT !.op = op, !.id = c]
<1>1. BoardTypes /\ boardEdits \in Nat
  BY BoardAssumption DEF BoardInv, BoardTypes
<1>2. d \in EditRow /\ d.op = op /\ d.id = c /\ d.row = NoIssueRow
  <2>1. c \in 0 .. Max({MaxIssues, MaxComments})
    BY NotWritingEdit
  <2> QED
    BY <2>1, NotWritingEdit DEF EditRow
<1>3. writing' = [writing EXCEPT ![w] = d]
  BY DEF Answer
<1> HIDE DEF d
<1>4. c \in Thread /\ BeginEdit(w) /\ UNCHANGED <<issue, comment, attachment, handedOut>>
  BY DEF Answer
<1>5. Formed(d) /\ StillSo(d) /\ d.row.number <= boardEdits
  BY <1>1, <1>2, <1>4 DEF Formed, StillSo, NoIssueRow
<1>6. PICK e \in EditRow : e = d
  BY <1>2
<1> QED
  BY <1>3, <1>4, <1>5, <1>6, BeginKept

\* delete_comment() has gathered the comment and all that answers it.
LEMMA DeleteCommentKept ==
    ASSUME BoardInv, NEW w \in Writers, NEW c \in CommentIds, DeleteComment(w, c)
    PROVE  BoardInv'
<1> DEFINE d == [NotWriting EXCEPT !.op = "delete", !.doomed = Doomed(c), !.detaches = attachment \in Doomed(c)]
<1>1. BoardTypes /\ boardEdits \in Nat
  BY BoardAssumption DEF BoardInv, BoardTypes
<1>2. Doomed(c) \in SUBSET CommentIds /\ RepliesTo(Doomed(c)) \subseteq Doomed(c)
  BY BelowIsClosed DEF Doomed
<1>3. /\ d \in EditRow /\ d.op = "delete" /\ d.row = NoIssueRow
      /\ d.doomed = Doomed(c) /\ d.detaches = (attachment \in Doomed(c))
  <2> DEFINE D == Doomed(c)
             b == attachment \in D
             e == [NotWriting EXCEPT !.op = "delete", !.doomed = D, !.detaches = b]
  <2>1. D \in SUBSET CommentIds /\ b \in BOOLEAN /\ d = e
    BY <1>2
  <2> HIDE DEF D, b
  <2>2. e \in EditRow
    BY <2>1, NotWritingEdit DEF EditRow
  <2>3. e.op = "delete" /\ e.row = NoIssueRow /\ e.doomed = D /\ e.detaches = b
    BY NotWritingEdit DEF EditRow
  <2> HIDE DEF e, d
  <2> QED
    BY <2>1, <2>2, <2>3 DEF D, b
<1>4. writing' = [writing EXCEPT ![w] = d]
  BY DEF DeleteComment
<1> HIDE DEF d
<1>5. BeginEdit(w) /\ UNCHANGED <<issue, comment, attachment, handedOut>>
  BY DEF DeleteComment
<1>6. Formed(d) /\ StillSo(d) /\ d.row.number <= boardEdits
  BY <1>1, <1>2, <1>3 DEF Formed, StillSo, NoIssueRow
<1>7. PICK e \in EditRow : e = d
  BY <1>3
<1> QED
  BY <1>4, <1>5, <1>6, <1>7, BeginKept

\* A writer that is locked out of the database, or ends, leaves no edit.
LEMMA EndsKept ==
    ASSUME BoardInv, NEW w \in Writers, LockedOut(w) \/ WriterEnds(w)
    PROVE  BoardInv'
<1>1. BoardTypes /\ NumbersGiven /\ boardEdits \in Nat /\ 0 \in 0 .. MaxBoardEdits
  BY BoardAssumption DEF BoardInv, BoardTypes
<1>2. /\ writing' = [writing EXCEPT ![w] = NotWriting] /\ boardEdits' = boardEdits
      /\ boardFaults' \in 0 .. MaxBoardFaults /\ UNCHANGED <<issue, comment, attachment, outran>>
      /\ handedOut' = handedOut \/ handedOut' = [handedOut EXCEPT ![w] = [ws \in BOOLEAN |-> 0]]
  BY <1>1, BoardAssumption DEF LockedOut, WriterEnds, BoardTypes
<1>3. /\ handedOut' \in [Writers -> [BOOLEAN -> 0 .. MaxBoardEdits]]
      /\ \A v \in Writers, ws \in BOOLEAN : handedOut'[v][ws] <= boardEdits'
  <2>1. CASE handedOut' = handedOut
    BY <1>1, <1>2, <2>1 DEF BoardTypes, NumbersGiven
  <2>2. CASE handedOut' = [handedOut EXCEPT ![w] = [ws \in BOOLEAN |-> 0]]
    <3>1. [ws \in BOOLEAN |-> 0] \in [BOOLEAN -> 0 .. MaxBoardEdits]
      BY <1>1
    <3>2. handedOut'[w] = [ws \in BOOLEAN |-> 0] /\ \A v \in Writers : v # w => handedOut'[v] = handedOut[v]
      BY <1>1, <2>2 DEF BoardTypes
    <3>3. \A v \in Writers, ws \in BOOLEAN : handedOut'[v][ws] <= boardEdits
      BY <1>1, <3>2 DEF NumbersGiven
    <3> QED
      BY <1>1, <1>2, <2>2, <3>1, <3>3 DEF BoardTypes
  <2> QED
    BY <1>2, <2>1, <2>2
<1>4. PICK e \in EditRow : e = NotWriting
  BY NotWritingEdit
<1>5. Formed(e)' /\ StillSo(e) /\ writing' = [writing EXCEPT ![w] = e]
  BY <1>2, <1>4, NotWritingEdit DEF Formed, StillSo
<1>6. boardEdits <= boardEdits' /\ boardEdits' \in 0 .. MaxBoardEdits
  BY <1>1, <1>2 DEF BoardTypes
<1> QED
  BY <1>2, <1>3, <1>4, <1>5, <1>6, EditKept

\* What a writer decided on is so when it commits and nobody outran it.
LEMMA CommitSound ==
    ASSUME BoardInv, NEW w \in Writers, Commit(w), ~outran'
    PROVE  Sound /\ StillSo(writing[w])
<1>1. writing[w].outdated \in BOOLEAN /\ outran \in BOOLEAN
  BY DEF BoardInv, BoardTypes, EditRow
<1>2. ~outran /\ ~writing[w].outdated
  BY <1>1 DEF Commit
<1> QED
  BY <1>2 DEF BoardInv

\* The commit of create_issue(): the number is still free, or somebody was outrun.
LEMMA CreateCommitKept ==
    ASSUME BoardInv, NEW w \in Writers, CreateIssueCommit(w)
    PROVE  BoardInv'
<1> DEFINE row == writing[w].row
<1>1. BoardTypes /\ NumbersGiven /\ Formed(writing[w]) /\ writing[w].op = "create" /\ Commit(w)
      /\ UNCHANGED <<comment, attachment, handedOut>>
  BY DEF BoardInv, CreateIssueCommit
<1>2. PICK i \in IssueIds : issue[i] = NoIssueRow /\ issue' = [issue EXCEPT ![i] = row]
  BY DEF CreateIssueCommit
<1>3. /\ row \in IssueRows /\ row # NoIssueRow /\ row.number <= boardEdits /\ row.project \in BoardProjects
      /\ row.parent \in 0 .. MaxIssues /\ row.number \in Nat
  <2>1. row \in IssueRows
    BY <1>1 DEF Formed
  <2>2. row # NoIssueRow
    BY <2>1, BoardAssumption DEF IssueRows, NoIssueRow
  <2>3. row.project \in BoardProjects /\ row.parent \in 0 .. MaxIssues /\ row.number \in Nat
    BY <2>1, BoardAssumption DEF IssueRows, IssueIds
  <2> QED
    BY <1>1, <2>1, <2>2, <2>3 DEF Formed
<1> HIDE DEF row
<1>4. \A x \in IssueIds : issue'[x] = IF x = i THEN row ELSE issue[x]
  BY <1>1, <1>2 DEF BoardTypes, IssueTypes
<1>5. IssueTypes'
  BY <1>1, <1>2, <1>3 DEF BoardTypes, IssueTypes, IssueIds, IssueRows
<1>6. CommentTypes' /\ attachment' \in {-1, 0} \cup CommentIds
  BY <1>1 DEF BoardTypes, CommentTypes
<1>7. \A x \in IssueIds : /\ issue[x] # NoIssueRow => issue'[x] # NoIssueRow
                          /\ issue'[x].number <= boardEdits
  BY <1>1, <1>3, <1>4 DEF NumbersGiven
<1>8. ASSUME ~outran' PROVE Sound'
  <2>1. Sound /\ StillSo(writing[w])
    BY <1>1, <1>8, CommitSound
  <2>2. /\ \A x \in IssuesIn(Workspace(row.project)) : issue[x].number < row.number
        /\ Permitted(0, row.project, row.parent)
    BY <1>1, <2>1 DEF StillSo, row
  <2>3. row.parent # 0 => issue[row.parent].project = row.project
    <3>1. Above(row.parent)[0] = row.parent /\ 0 \in 0 .. MaxIssues
      BY <1>1, <1>3, AboveWalks, BoardAssumption DEF BoardTypes
    <3> QED
      BY <2>2, <3>1 DEF Permitted
  <2>4. (Ranked /\ SameProject)'
    BY <1>1, <1>2, <1>3, <2>1, <2>3, CreatedRanks DEF Sound, BoardTypes
  <2>5. RepliesHaveParents'
    BY <1>1, <2>1 DEF Sound, RepliesHaveParents, Thread
  <2>6. NumbersUnique'
    <3> SUFFICES ASSUME NEW ws \in BOOLEAN, NEW x \in IssueIds, NEW y \in IssueIds,
                        issue'[x] # NoIssueRow, issue'[y] # NoIssueRow, Workspace(issue'[x].project) = ws,
                        Workspace(issue'[y].project) = ws, issue'[x].number = issue'[y].number
                 PROVE  x = y
      BY DEF NumbersUnique, Resolved, IssuesIn, IssueIds
    <3>1. \A z \in IssueIds : issue[z].number \in Nat
      BY <1>1, BoardAssumption DEF BoardTypes, IssueTypes, IssueRows, NoIssueRow
    <3>2. ASSUME NEW z \in IssueIds, z # i, issue[z] # NoIssueRow, Workspace(issue[z].project) = Workspace(row.project)
          PROVE  issue[z].number # row.number
      <4>1. issue[z].number < row.number
        BY <2>2, <3>2 DEF IssuesIn
      <4> QED
        BY <1>3, <3>1, <4>1
    <3>3. CASE x # i /\ y # i
      <4>1. x \in IssuesIn(ws) /\ y \in IssuesIn(ws) /\ issue[x].number = issue[y].number
        BY <1>4, <3>3 DEF IssuesIn
      <4>2. y \in Resolved(ws, issue[x].number)
        BY <4>1 DEF Resolved
      <4> QED
        BY <2>1, <4>1, <4>2 DEF Sound, NumbersUnique
    <3>4. CASE x = i /\ y # i
      BY <1>4, <3>2, <3>4
    <3>5. CASE x # i /\ y = i
      BY <1>4, <3>2, <3>5
    <3> QED
      BY <3>3, <3>4, <3>5
  <2> QED
    BY <2>4, <2>5, <2>6 DEF Sound
<1> QED
  BY <1>1, <1>5, <1>6, <1>7, <1>8, BoardCommitKept

\* The commit of move_issue(): the parent is still permitted, or somebody was outrun.
LEMMA MoveCommitKept ==
    ASSUME BoardInv, NEW w \in Writers, MoveIssueCommit(w)
    PROVE  BoardInv'
<1> DEFINE i == writing[w].id
           parent == writing[w].row.parent
<1>1. BoardTypes /\ NumbersGiven /\ Formed(writing[w]) /\ writing[w].op = "move" /\ Commit(w)
      /\ UNCHANGED <<comment, attachment, handedOut>>
  BY DEF BoardInv, MoveIssueCommit
<1>2. issue' = [issue EXCEPT ![i].parent = parent]
  BY DEF MoveIssueCommit
<1>3. i \in IssueIds /\ issue[i] # NoIssueRow /\ parent \in IssueIds \cup {0}
  BY <1>1 DEF Formed, IssueRows
<1>a. PICK j \in IssueIds : j = i
  BY <1>3
<1> HIDE DEF i, parent
<1>4. issue[i] \in IssueRows
  BY <1>1, <1>3, IssueFields DEF BoardTypes
<1>5. /\ issue'[i] \in IssueRows /\ issue'[i].project = issue[i].project /\ issue'[i].number = issue[i].number
      /\ issue'[i].parent = parent /\ issue'[i] # NoIssueRow
      /\ \A x \in IssueIds : x # i => issue'[x] = issue[x]
  <2> DEFINE new == [issue[i] EXCEPT !.parent = parent]
  <2>1. new \in IssueRows /\ new.project = issue[i].project /\ new.number = issue[i].number /\ new.parent = parent
    BY <1>3, <1>4 DEF IssueRows
  <2>2. new # NoIssueRow
    BY <2>1, BoardAssumption DEF IssueRows, NoIssueRow
  <2>3. issue'[i] = new /\ \A x \in IssueIds : x # i => issue'[x] = issue[x]
    BY <1>1, <1>2, <1>3 DEF BoardTypes, IssueTypes
  <2> HIDE DEF new
  <2> QED
    BY <2>1, <2>2, <2>3
<1>6. IssueTypes'
  <2>1. \A x \in IssueIds : issue'[x] \in IssueRows \cup {NoIssueRow}
    BY <1>1, <1>5 DEF BoardTypes, IssueTypes
  <2> QED
    BY <1>1, <1>2, <2>1 DEF BoardTypes, IssueTypes, IssueIds, IssueRows
<1>7. CommentTypes' /\ attachment' \in {-1, 0} \cup CommentIds
  BY <1>1 DEF BoardTypes, CommentTypes
<1>8. \A x \in IssueIds : /\ issue[x] # NoIssueRow => issue'[x] # NoIssueRow
                          /\ issue'[x].number <= boardEdits
  BY <1>1, <1>5 DEF NumbersGiven
<1>9. ASSUME ~outran' PROVE Sound'
  <2>1. Sound /\ StillSo(writing[w])
    BY <1>1, <1>9, CommitSound
  <2>2. Permitted(i, issue[i].project, parent) /\ parent \in 0 .. MaxIssues
    BY <1>1, <1>3, <2>1, BoardAssumption DEF StillSo, i, parent, IssueIds
  <2>3. parent # 0 => issue[parent].project = issue[i].project
    <3>1. Above(parent)[0] = parent /\ 0 \in 0 .. MaxIssues
      BY <1>1, <2>2, AboveWalks, BoardAssumption DEF BoardTypes
    <3> QED
      BY <2>2, <3>1 DEF Permitted
  <2>4. Ranked'
    <3>1. PICK p \in 0 .. MaxIssues : p = parent
      BY <2>2
    <3>2. IssueTypes /\ Ranked /\ issue' = [issue EXCEPT ![j].parent = p] /\ Permitted(j, issue[j].project, p)
      BY <1>1, <1>2, <1>a, <2>1, <2>2, <3>1 DEF BoardTypes, Sound
    <3> QED
      BY <3>2, MovedRanks
  <2>5. SameProject'
    <3>1. ASSUME NEW x \in IssueIds, issue'[x].parent # 0
          PROVE  issue'[issue'[x].parent].project = issue'[x].project
      <4>1. \A y \in IssueIds : issue'[y].project = issue[y].project
        BY <1>3, <1>5
      <4>2. CASE x = i
        BY <1>3, <1>5, <2>3, <3>1, <4>1, <4>2
      <4>3. CASE x # i
        <5>1. issue'[x].parent = issue[x].parent /\ issue[x].parent \in IssueIds
          BY <1>1, <1>5, <3>1, <4>3, IssueFields, BoardAssumption DEF BoardTypes, IssueIds
        <5> QED
          BY <2>1, <3>1, <4>1, <5>1 DEF Sound, SameProject
      <4> QED
        BY <4>2, <4>3
    <3> QED
      BY <3>1 DEF SameProject, IssueIds
  <2>6. RepliesHaveParents'
    BY <1>1, <2>1 DEF Sound, RepliesHaveParents, Thread
  <2>7. NumbersUnique'
    <3>1. \A x \in IssueIds : /\ issue'[x].number = issue[x].number /\ issue'[x].project = issue[x].project
                              /\ issue'[x] # NoIssueRow <=> issue[x] # NoIssueRow
      BY <1>3, <1>5
    <3>2. \A ws : IssuesIn(ws)' = IssuesIn(ws)
      BY <3>1 DEF IssuesIn, IssueIds, NoIssueRow
    <3>3. \A ws \in BOOLEAN : \A x \in IssuesIn(ws) : Resolved(ws, issue[x].number)' = Resolved(ws, issue[x].number)
      BY <3>1, <3>2 DEF Resolved, IssuesIn
    <3> QED
      BY <2>1, <3>2, <3>3 DEF Sound, NumbersUnique
  <2> QED
    BY <2>4, <2>5, <2>6, <2>7 DEF Sound
<1> QED
  BY <1>1, <1>6, <1>7, <1>8, <1>9, BoardCommitKept

\* What the columns of a comment hold.
LEMMA CommentFields ==
    CommentTypes => \A c \in CommentIds : /\ comment[c] \in CommentRows
                                          /\ comment[c].status \in {"none", "there", "gone"}
                                          /\ comment[c].parent \in CommentIds \cup {0}
BY DEF CommentTypes, CommentRows

\* While the issues stay, what is sound about them stays.
LEMMA IssuesKept ==
    ASSUME BoardTypes, UNCHANGED issue
    PROVE  /\ IssueTypes'
           /\ Sound /\ RepliesHaveParents' => Sound'
<1>1. IssueTypes'
  BY DEF BoardTypes, IssueTypes
<1>2. \A ws : IssuesIn(ws)' = IssuesIn(ws)
  BY DEF IssuesIn
<1>3. NumbersUnique' <=> NumbersUnique
  BY <1>2 DEF NumbersUnique, Resolved
<1>4. (Ranked /\ SameProject)' <=> Ranked /\ SameProject
  BY DEF Ranked, Ranks, SameProject
<1> QED
  BY <1>1, <1>3, <1>4 DEF Sound

\* A comment that answers nothing needs none.
LEMMA AddCommentKept ==
    ASSUME BoardInv, NEW w \in Writers, NEW c \in CommentIds, AddComment(w, c)
    PROVE  BoardInv'
<1>1. BoardTypes /\ NumbersGiven /\ boardEdits \in Nat
  BY BoardAssumption DEF BoardInv, BoardTypes
<1>2. /\ comment[c] = NoComment /\ comment' = [comment EXCEPT ![c].status = "there"]
      /\ boardEdits' \in 0 .. MaxBoardEdits /\ boardEdits <= boardEdits' /\ UNCHANGED <<issue, attachment, handedOut, boardFaults>>
      /\ outran' = outran /\ writing' = [v \in Writers |-> [writing[v] EXCEPT !.outdated = Busy(v)]]
  BY <1>1, BoardAssumption DEF AddComment, NextComment, BoardTypes
<1>3. /\ comment'[c] \in CommentRows /\ comment'[c].status = "there" /\ comment'[c].parent = 0
      /\ \A k \in CommentIds : k # c => comment'[k] = comment[k]
  BY <1>1, <1>2 DEF BoardTypes, CommentTypes, CommentRows, NoComment
<1>4. CommentTypes'
  BY <1>1, <1>2, <1>3 DEF BoardTypes, CommentTypes, CommentRows, CommentIds
<1>5. Thread' = Thread \cup {c}
  BY <1>2, <1>3 DEF Thread, CommentIds, NoComment
<1>6. ASSUME ~outran' PROVE Sound'
  <2>1. Sound
    BY <1>2, <1>6 DEF BoardInv
  <2>2. RepliesHaveParents'
    <3>1. \A k \in Thread : k \in CommentIds
      BY DEF Thread
    <3> QED
      BY <1>2, <1>3, <1>5, <2>1, <3>1 DEF Sound, RepliesHaveParents
  <2> QED
    BY <1>1, <1>2, <2>1, <2>2, IssuesKept
<1>7. IssueTypes' /\ attachment' \in {-1, 0} \cup CommentIds
  BY <1>1, <1>2, IssuesKept DEF BoardTypes
<1>8. \A i \in IssueIds : (issue[i] # NoIssueRow => issue'[i] # NoIssueRow) /\ issue'[i].number <= boardEdits
  BY <1>1, <1>2 DEF NumbersGiven
<1> QED
  BY <1>2, <1>4, <1>6, <1>7, <1>8, BoardCommitKept

\* The rows of comments that a writer commits.
LEMMA CommentsKept ==
    ASSUME BoardInv, NEW w \in Writers, Commit(w), UNCHANGED <<issue, handedOut>>,
           CommentTypes', attachment' \in {-1, 0} \cup CommentIds,
           Sound /\ StillSo(writing[w]) => RepliesHaveParents'
    PROVE  BoardInv'
<1>1. BoardTypes /\ NumbersGiven
  BY DEF BoardInv
<1>2. ASSUME ~outran' PROVE Sound'
  BY <1>1, <1>2, CommitSound, IssuesKept
<1>3. IssueTypes'
  BY <1>1, IssuesKept
<1>4. \A i \in IssueIds : (issue[i] # NoIssueRow => issue'[i] # NoIssueRow) /\ issue'[i].number <= boardEdits
  BY <1>1 DEF NumbersGiven
<1> QED
  BY <1>2, <1>3, <1>4, BoardCommitKept

\* The commit of a reply: its comment is still there, or somebody was outrun.
LEMMA ReplyCommitKept ==
    ASSUME BoardInv, NEW w \in Writers, NEW c \in CommentIds, ReplyCommit(w, c)
    PROVE  BoardInv'
<1> DEFINE parent == writing[w].id
<1>1. BoardTypes /\ Formed(writing[w]) /\ writing[w].op = "reply" /\ Commit(w)
      /\ UNCHANGED <<issue, attachment, handedOut>> /\ comment[c] = NoComment
  BY DEF BoardInv, ReplyCommit, NextComment
<1>2. comment' = [comment EXCEPT ![c] = [status |-> "there", parent |-> parent]]
  BY DEF ReplyCommit
<1>3. parent \in CommentIds
  BY <1>1 DEF Formed
<1>3a. StillSo(writing[w]) => parent \in Thread
  BY <1>1 DEF StillSo
<1> HIDE DEF parent
<1>4. /\ comment'[c] \in CommentRows /\ comment'[c].status = "there" /\ comment'[c].parent = parent
      /\ \A k \in CommentIds : k # c => comment'[k] = comment[k]
  BY <1>1, <1>2, <1>3 DEF BoardTypes, CommentTypes, CommentRows
<1>5. CommentTypes'
  BY <1>1, <1>2, <1>4 DEF BoardTypes, CommentTypes, CommentRows, CommentIds
<1>6. Thread' = Thread \cup {c}
  BY <1>1, <1>4 DEF Thread, CommentIds, NoComment
<1>7. ASSUME Sound, StillSo(writing[w]) PROVE RepliesHaveParents'
  <2>1. \A k \in Thread : k \in CommentIds
    BY DEF Thread
  <2>2. parent \in Thread /\ c \notin Thread
    BY <1>1, <1>3a, <1>7 DEF Thread, NoComment
  <2>3. \A k \in Thread' : comment'[k].parent \in Thread' \cup {0}
    BY <1>4, <1>6, <1>7, <2>1, <2>2 DEF Sound, RepliesHaveParents
  <2> QED
    BY <1>1, <1>6, <1>7, <2>3 DEF Sound, RepliesHaveParents
<1>8. attachment' \in {-1, 0} \cup CommentIds
  BY <1>1 DEF BoardTypes
<1> QED
  BY <1>1, <1>5, <1>7, <1>8, CommentsKept

\* The commit of an upload: its comment is still there, or somebody was outrun.
LEMMA UploadCommitKept ==
    ASSUME BoardInv, NEW w \in Writers, UploadCommit(w)
    PROVE  BoardInv'
<1>1. BoardTypes /\ Formed(writing[w]) /\ writing[w].op = "upload" /\ Commit(w)
      /\ UNCHANGED <<issue, comment, handedOut>> /\ attachment' = writing[w].id
  BY DEF BoardInv, UploadCommit
<1>2. CommentTypes' /\ attachment' \in {-1, 0} \cup CommentIds
  BY <1>1 DEF BoardTypes, CommentTypes, Formed
<1>3. ASSUME Sound, StillSo(writing[w]) PROVE RepliesHaveParents'
  <2>1. attachment' \in Thread /\ Thread' = Thread
    BY <1>1, <1>3 DEF StillSo, Thread
  <2> QED
    BY <1>1, <1>3, <2>1 DEF Sound, RepliesHaveParents
<1> QED
  BY <1>1, <1>2, <1>3, CommentsKept

\* The commit of delete_comment(): the comment goes and all that answers it, with the file.
LEMMA DeleteCommitKept ==
    ASSUME BoardInv, NEW w \in Writers, DeleteCommentCommit(w)
    PROVE  BoardInv'
<1> DEFINE gone == writing[w].doomed
<1>1. BoardTypes /\ Formed(writing[w]) /\ writing[w].op = "delete" /\ Commit(w) /\ UNCHANGED <<issue, handedOut>>
  BY DEF BoardInv, DeleteCommentCommit
<1>2. /\ comment' = [c \in CommentIds |-> IF c \in gone THEN [comment[c] EXCEPT !.status = "gone"] ELSE comment[c]]
      /\ attachment' = IF writing[w].detaches THEN 0 ELSE attachment
  BY DEF DeleteCommentCommit
<1>3. StillSo(writing[w]) => RepliesTo(gone) \subseteq gone /\ writing[w].detaches = (attachment \in gone)
  BY <1>1 DEF StillSo
<1> HIDE DEF gone
<1>4. \A c \in CommentIds : /\ comment'[c] \in CommentRows /\ comment'[c].parent = comment[c].parent
                            /\ comment'[c].status = IF c \in gone THEN "gone" ELSE comment[c].status
  BY <1>1, <1>2 DEF BoardTypes, CommentTypes, CommentRows
<1>5. CommentTypes'
  BY <1>2, <1>4 DEF CommentTypes, CommentRows, CommentIds
<1>6. attachment' \in {-1, 0} \cup CommentIds
  BY <1>1, <1>2 DEF BoardTypes
<1>7. Thread' = Thread \ gone
  BY <1>4 DEF Thread, CommentIds
<1>8. ASSUME Sound, StillSo(writing[w]) PROVE RepliesHaveParents'
  <2>1. ASSUME NEW c \in Thread, c \notin gone PROVE comment'[c].parent \in Thread' \cup {0}
    <3>1. comment'[c].parent = comment[c].parent /\ comment[c].parent \in Thread \cup {0}
      BY <1>4, <1>8 DEF Sound, RepliesHaveParents, Thread
    <3>2. comment[c].parent \notin gone
      BY <1>3, <1>8, <2>1 DEF RepliesTo
    <3> QED
      BY <1>7, <3>1, <3>2
  <2>2. attachment' \in Thread' \cup {-1, 0}
    BY <1>2, <1>3, <1>7, <1>8 DEF Sound, RepliesHaveParents
  <2> QED
    BY <1>7, <2>1, <2>2 DEF RepliesHaveParents
<1> QED
  BY <1>1, <1>5, <1>6, <1>8, CommentsKept

\* Every step keeps the board consistent, as long as nobody is outrun.
LEMMA BoardKept == BoardInv /\ [BoardNext]_boardVars => BoardInv'
<1> SUFFICES ASSUME BoardInv, [BoardNext]_boardVars PROVE BoardInv'
  OBVIOUS
<1>1. CASE UNCHANGED boardVars
  <2>1. UNCHANGED <<issue, comment, attachment, handedOut, writing, boardEdits, boardFaults, outran>>
    BY <1>1 DEF boardVars
  <2>2. (BoardTypes /\ NumbersGiven)'
    BY <2>1 DEF BoardInv, BoardTypes, NumbersGiven, IssueTypes, CommentTypes
  <2>3. \A w \in Writers : Formed(writing[w])'
    BY <2>1 DEF BoardInv, Formed
  <2>4. ASSUME NEW w \in Writers, ~writing'[w].outdated PROVE StillSo(writing[w])'
    <3>1. StillSo(writing'[w])
      BY <2>1, <2>4 DEF BoardInv
    <3>2. \A e : StillSo(e)' <=> StillSo(e)
      BY <2>1, SameBoard
    <3> QED
      BY <3>1, <3>2 DEF StillSo
  <2>5. ~outran' => Sound'
    BY <2>1, SameBoard DEF BoardInv
  <2> QED
    BY <2>2, <2>3, <2>4, <2>5 DEF BoardInv
<1>2. CASE BoardNext
  <2>1. PICK w \in Writers :
          \/ \E p \in BoardProjects, parent \in IssueIds \cup {0} : CreateIssue(w, p, parent)
          \/ \E i \in IssueIds, parent \in IssueIds \cup {0} : MoveIssue(w, i, parent)
          \/ CreateIssueCommit(w) \/ MoveIssueCommit(w)
          \/ \E c \in CommentIds : AddComment(w, c) \/ DeleteComment(w, c) \/ ReplyCommit(w, c)
                                   \/ \E op \in {"reply", "upload"} : Answer(w, op, c)
          \/ UploadCommit(w) \/ DeleteCommentCommit(w)
          \/ LockedOut(w) \/ WriterEnds(w)
    BY <1>2 DEF BoardNext
  <2> QED
    BY <2>1, CreateIssueKept, MoveIssueKept, CreateCommitKept, MoveCommitKept, AddCommentKept, DeleteCommentKept,
       ReplyCommitKept, AnswerKept, UploadCommitKept, DeleteCommitKept, EndsKept
<1> QED
  BY <1>1, <1>2

\* Type correctness.
THEOREM BoardTypeCorrect == BoardSpec => []BoardTypeOK
<1>1. BoardInv => BoardTypeOK
  BY DEF BoardInv, BoardTypes, BoardTypeOK, IssueTypes, CommentTypes, CommentRows, EditRow
<1> QED
  BY <1>1, BoardStart, BoardKept, PTL DEF BoardSpec

\* As long as no writer was outrun, numbers are unique, issues form trees within their project
\* and replies have their comments.
THEOREM BoardStaysConsistent == BoardSpec => []BoardConsistent
<1>1. BoardInv => BoardConsistent
  BY TreesOfRanks DEF BoardInv, BoardTypes, Sound, BoardConsistent
<1> QED
  BY <1>1, BoardStart, BoardKept, PTL DEF BoardSpec

-----------------------------------------------------------------------------
(* Annotations *)

Operations == {"none", "label", "unlabel", "value", "unset", "subscribe", "unsubscribe",
               "learn", "delete", "note", "head", "append"}
Task == [op : Operations, text : Lessons \cup {"none"}, found : BOOLEAN, rows : Counts, loaded : PerText,
         outdated : BOOLEAN]

\* Those who will insert a row, and those who will write an entry of a text.
Inserting == {w \in Annotators : task[w].op \in {"value", "subscribe", "learn"}}
Noting(t) == {w \in Annotators : task[w].op \in {"note", "head", "append"} /\ task[w].text = t}

AnnotationTypes ==
    /\ {labelled, skillThere, staleWrite} \subseteq BOOLEAN
    /\ {values, subscribed, improvement, annotations} \subseteq Counts
    /\ lesson \in PerText /\ learned \in PerText
    /\ mirror \in [there : BOOLEAN, entries : PerText]
    /\ task \in [Annotators -> Task]
    /\ annotationFaults \in 0 .. MaxAnnotationFaults
    /\ \A w \in Annotators : task[w].op \in {"learn", "note", "head", "append"} => task[w].text \in Lessons

\* Each row was begun, and so was each that is to come.
RowsWereBegun ==
    /\ values + Cardinality(Inserting) <= annotations
    /\ subscribed + Cardinality(Inserting) <= annotations
    /\ improvement + Cardinality(Inserting) <= annotations
    /\ \A t \in Lessons : learned[t] + Cardinality(Inserting) <= annotations

\* Each entry was committed, and so was each that is to come.
EntriesWereLearned ==
    \A t \in Lessons : mirror.entries[t] + Cardinality(Noting(t)) <= learned[t] /\ lesson[t] <= learned[t]

\* What was looked at is so as long as nothing else was committed.
LooksHold ==
    \A w \in Annotators : ~task[w].outdated =>
        /\ task[w].op = "value" /\ ~task[w].found => values = 0
        /\ task[w].op = "learn" => lesson[task[w].text] = 0

AnnotationInv ==
    /\ AnnotationTypes /\ RowsWereBegun /\ EntriesWereLearned /\ LooksHold
    /\ CountIsOfRows /\ AttachedOnce

\* max(0, n), of the number of removed rows that a delete reports.
LEMMA PositivePart == \A n \in Int : Max({0, n}) = IF n >= 0 THEN n ELSE 0
BY DEF Max

\* The sets of annotators are finite.
LEMMA FewAnnotators ==
    \A S \in SUBSET Annotators : IsFiniteSet(S) /\ Cardinality(S) \in Nat
BY AnnotationAssumption, FS_Subset, FS_CardinalityType

\* At first an issue has no label, value, subscriber or lesson.
LEMMA AnnotationStart == AnnotationsInit => AnnotationInv
<1> SUFFICES ASSUME AnnotationsInit PROVE AnnotationInv
  OBVIOUS
<1>1. NoLessons \in PerText /\ \A t \in Lessons : NoLessons[t] = 0
  BY AnnotationAssumption DEF NoLessons, PerText, Counts
<1>2. Resting \in Task /\ Resting.op = "none"
  BY <1>1, AnnotationAssumption DEF Resting, Task, Operations, Counts
<1>3. NoFile \in [there : BOOLEAN, entries : PerText] /\ NoFile.entries = NoLessons
  BY <1>1 DEF NoFile
<1>4. AnnotationTypes
  <2>1. 0 \in Counts /\ 0 \in 0 .. MaxAnnotationFaults
    BY AnnotationAssumption DEF Counts
  <2>2. task \in [Annotators -> Task] /\ \A w \in Annotators : task[w].op = "none"
    BY <1>2 DEF AnnotationsInit
  <2>3. mirror \in [there : BOOLEAN, entries : PerText]
    BY <1>3 DEF AnnotationsInit
  <2> QED
    BY <1>1, <2>1, <2>2, <2>3 DEF AnnotationsInit, AnnotationTypes
<1>5. Inserting = {} /\ \A t \in Lessons : Noting(t) = {}
  BY <1>2 DEF AnnotationsInit, Inserting, Noting
<1>6. Cardinality({}) = 0
  BY FS_EmptySet
<1>7. RowsWereBegun /\ EntriesWereLearned
  BY <1>1, <1>3, <1>5, <1>6 DEF AnnotationsInit, RowsWereBegun, EntriesWereLearned
<1>8. LooksHold
  BY <1>2 DEF AnnotationsInit, LooksHold
<1>9. LessonRows = {}
  BY <1>1 DEF AnnotationsInit, LessonRows
<1>10. CountIsOfRows /\ AttachedOnce
  BY <1>1, <1>6, <1>9 DEF AnnotationsInit, CountIsOfRows, AttachedOnce
<1> QED
  BY <1>4, <1>7, <1>8, <1>10 DEF AnnotationInv

\* Cardinalities of sets of annotators.
LEMMA Annotating ==
    ASSUME NEW S \in SUBSET Annotators
    PROVE  /\ Cardinality(S) \in Nat
           /\ \A w \in S : Cardinality(S \ {w}) = Cardinality(S) - 1
           /\ \A w \in Annotators : w \notin S => Cardinality(S \cup {w}) = Cardinality(S) + 1
           /\ \A R \in SUBSET S : Cardinality(R) <= Cardinality(S) /\ Cardinality(R) \in Nat
<1>1. IsFiniteSet(S) /\ Cardinality(S) \in Nat
  BY FewAnnotators
<1>2. \A w \in S : Cardinality(S \ {w}) = Cardinality(S) - 1
  BY <1>1, FS_RemoveElement
<1>3. \A w \in Annotators : w \notin S => Cardinality(S \cup {w}) = Cardinality(S) + 1
  BY <1>1, FS_AddElement
<1>4. \A R \in SUBSET S : Cardinality(R) <= Cardinality(S)
  BY <1>1, FS_Subset
<1>5. \A R \in SUBSET S : Cardinality(R) \in Nat
  BY FewAnnotators
<1> QED
  BY <1>1, <1>2, <1>3, <1>4, <1>5

\* What looks at the rows before it writes.
Readers == Operations \ {"none", "note", "head", "append"}

\* The reads of the operations: what an annotator has read holds until somebody commits.
LEMMA TakeKept ==
    ASSUME AnnotationInv, NEW w \in Annotators, NEW o \in Readers, NEW text \in Lessons \cup {"none"},
           NEW found \in BOOLEAN, NEW rows \in Counts, Take(w, o, text, found, rows),
           o = "learn" => text \in Lessons /\ lesson[text] = 0, o = "value" /\ ~found => values = 0
    PROVE  AnnotationInv'
<1> DEFINE loaded == IF o = "delete" THEN lesson ELSE NoLessons
           new == [op |-> o, text |-> text, found |-> found, rows |-> rows, loaded |-> loaded,
                   outdated |-> FALSE]
<1>1. AnnotationTypes /\ RowsWereBegun /\ EntriesWereLearned /\ LooksHold /\ CountIsOfRows /\ AttachedOnce
  BY DEF AnnotationInv
<1>2. loaded \in PerText
  BY <1>1, AnnotationAssumption DEF AnnotationTypes, NoLessons, PerText, Counts
<1>3. new \in Task
  BY <1>2 DEF Task, Readers
<1>4. /\ new.op = o /\ new.text = text /\ new.found = found
  OBVIOUS
<1>5. /\ task' = [task EXCEPT ![w] = new] /\ task[w].op = "none"
      /\ annotations < MaxAnnotations /\ annotations' = annotations + 1
      /\ UNCHANGED <<labelled, values, subscribed, skillThere, lesson, improvement, mirror, annotationFaults,
                     learned, staleWrite>>
  BY DEF Take
<1> HIDE DEF new
<1>6. task \in [Annotators -> Task]
  BY <1>1 DEF AnnotationTypes
<1>7. /\ task' \in [Annotators -> Task] /\ task'[w] = new
      /\ \A v \in Annotators : v # w => task'[v] = task[v]
  BY <1>3, <1>5, <1>6
<1>8. annotations' \in Counts
  BY <1>1, <1>5, AnnotationAssumption DEF AnnotationTypes, Counts
<1>9. AnnotationTypes'
  <2>1. \A v \in Annotators : task'[v].op \in {"learn", "note", "head", "append"} => task'[v].text \in Lessons
    BY <1>1, <1>4, <1>7 DEF AnnotationTypes, Readers
  <2> QED
    BY <1>1, <1>5, <1>7, <1>8, <2>1 DEF AnnotationTypes
<1>10. /\ Inserting \in SUBSET Annotators /\ w \notin Inserting
       /\ Inserting' \in SUBSET (Inserting \cup {w})
  BY <1>5, <1>7 DEF Inserting
<1>11. Cardinality(Inserting') <= Cardinality(Inserting) + 1 /\ Cardinality(Inserting') \in Nat
       /\ Cardinality(Inserting) \in Nat
  <2>1. Cardinality(Inserting \cup {w}) = Cardinality(Inserting) + 1 /\ Cardinality(Inserting) \in Nat
    BY <1>10, Annotating
  <2>2. Inserting \cup {w} \in SUBSET Annotators
    BY <1>10
  <2>3. Cardinality(Inserting') <= Cardinality(Inserting \cup {w}) /\ Cardinality(Inserting') \in Nat
    BY <1>10, <2>2, Annotating
  <2> QED
    BY <2>1, <2>3
<1>12. \A t \in Lessons : Noting(t)' = Noting(t)
  BY <1>4, <1>5, <1>7 DEF Noting, Readers
<1>13. RowsWereBegun'
  BY <1>1, <1>5, <1>11 DEF RowsWereBegun, AnnotationTypes, Counts, PerText
<1>14. EntriesWereLearned'
  BY <1>1, <1>5, <1>12 DEF EntriesWereLearned
<1>15. LooksHold'
  BY <1>1, <1>4, <1>5, <1>7 DEF LooksHold
<1>16. (CountIsOfRows /\ AttachedOnce)'
  BY <1>1, <1>5 DEF CountIsOfRows, AttachedOnce, LessonRows
<1> QED
  BY <1>9, <1>13, <1>14, <1>15, <1>16 DEF AnnotationInv

\* What a commit makes of the tasks.
LEMMA CommitTasks ==
    ASSUME AnnotationTypes, NEW w \in Annotators, NEW next \in {"none", "note"}, Committed(w, next),
           task[w].op \in Readers, next = "note" => task[w].op = "learn"
    PROVE  /\ task' \in [Annotators -> Task]
           /\ \A v \in Annotators : task'[v].op \in {"learn", "note", "head", "append"} => task'[v].text \in Lessons
           /\ Inserting' = Inserting \ {w}
           /\ \A t \in Lessons : /\ Noting(t)' = IF next = "note" /\ t = task[w].text THEN Noting(t) \cup {w} ELSE Noting(t)
                                /\ w \notin Noting(t)
           /\ LooksHold'
           /\ staleWrite' = (staleWrite \/ task[w].outdated)
           /\ UNCHANGED <<annotations, annotationFaults>>
<1> DEFINE own == [Resting EXCEPT !.op = next, !.text = IF next = "none" THEN "none" ELSE task[w].text]
           other(v) == [task[v] EXCEPT !.outdated = @ \/ task[v].op \notin {"none", "note", "head", "append"}]
<1>1. task' = [v \in Annotators |-> IF v = w THEN own ELSE other(v)]
  BY DEF Committed
<1>2. NoLessons \in PerText
  BY AnnotationAssumption DEF NoLessons, PerText, Counts
<1>3. task \in [Annotators -> Task]
  BY DEF AnnotationTypes
<1>4. own \in Task
  <2>1. Resting \in Task
    BY <1>2, AnnotationAssumption DEF Task, Resting, Operations, Counts
  <2>2. next \in Operations /\ (IF next = "none" THEN "none" ELSE task[w].text) \in Lessons \cup {"none"}
    BY DEF AnnotationTypes, Operations
  <2> QED
    BY <2>1, <2>2 DEF Task
<1>5. own.op = next /\ own.text = IF next = "none" THEN "none" ELSE task[w].text
  BY DEF Resting
<1>6. \A v \in Annotators : other(v) \in Task
  BY <1>3 DEF Task
<1>7. \A v \in Annotators : /\ other(v).op = task[v].op /\ other(v).text = task[v].text
                            /\ other(v).found = task[v].found
                            /\ other(v).outdated = (task[v].outdated \/ task[v].op \notin {"none", "note", "head", "append"})
  BY <1>3 DEF Task
<1> HIDE DEF own, other
<1>8. task'[w] = own /\ \A v \in Annotators : v # w => task'[v] = other(v)
  BY <1>1
<1>9. task' \in [Annotators -> Task]
  BY <1>1, <1>4, <1>6
<1>10. \A v \in Annotators : task'[v].op \in {"learn", "note", "head", "append"} => task'[v].text \in Lessons
  BY <1>5, <1>7, <1>8 DEF AnnotationTypes
<1>11. Inserting' = Inserting \ {w}
  BY <1>5, <1>7, <1>8 DEF Inserting
<1>12. \A t \in Lessons : w \notin Noting(t)
  BY DEF Noting, Readers
<1>13. \A t \in Lessons : Noting(t)' = IF next = "note" /\ t = task[w].text THEN Noting(t) \cup {w} ELSE Noting(t)
  BY <1>5, <1>7, <1>8, <1>12 DEF Noting
<1>14. LooksHold'
  BY <1>5, <1>7, <1>8 DEF LooksHold
<1> QED
  BY <1>9, <1>10, <1>11, <1>12, <1>13, <1>14 DEF Committed

\* A commit that leaves the lessons alone, and inserts at most the row that was to come.
LEMMA CommitLeaves ==
    ASSUME AnnotationInv, NEW w \in Annotators, task[w].op \in Readers, Committed(w, "none"),
           labelled' \in BOOLEAN, values' \in Nat, subscribed' \in Nat,
           values' > values => values' = values + 1 /\ w \in Inserting,
           subscribed' > subscribed => subscribed' = subscribed + 1 /\ w \in Inserting,
           values' > values => values = 0 \/ task[w].outdated,
           UNCHANGED <<skillThere, lesson, improvement, mirror, learned>>
    PROVE  AnnotationInv'
<1>1. AnnotationTypes /\ RowsWereBegun /\ EntriesWereLearned /\ LooksHold /\ CountIsOfRows /\ AttachedOnce
  BY DEF AnnotationInv
<1>2. /\ task' \in [Annotators -> Task]
      /\ \A v \in Annotators : task'[v].op \in {"learn", "note", "head", "append"} => task'[v].text \in Lessons
      /\ Inserting' = Inserting \ {w}
      /\ \A t \in Lessons : Noting(t)' = Noting(t)
      /\ LooksHold'
      /\ staleWrite' = (staleWrite \/ task[w].outdated)
      /\ UNCHANGED <<annotations, annotationFaults>>
  BY <1>1, CommitTasks
<1>3. Inserting \in SUBSET Annotators
  BY DEF Inserting
<1>4. /\ Cardinality(Inserting) \in Nat /\ Cardinality(Inserting') \in Nat
      /\ Cardinality(Inserting') <= Cardinality(Inserting)
      /\ w \in Inserting => Cardinality(Inserting') = Cardinality(Inserting) - 1
  BY <1>2, <1>3, Annotating
<1>5. /\ {values, subscribed, improvement, annotations} \subseteq Nat
      /\ \A t \in Lessons : learned[t] \in Nat /\ lesson[t] \in Nat
      /\ annotations <= MaxAnnotations /\ MaxAnnotations \in Nat
  BY <1>1, AnnotationAssumption DEF AnnotationTypes, Counts, PerText
<1>6. RowsWereBegun'
  <2>1. values' + Cardinality(Inserting') <= annotations
    BY <1>1, <1>4, <1>5 DEF RowsWereBegun
  <2>2. subscribed' + Cardinality(Inserting') <= annotations
    BY <1>1, <1>4, <1>5 DEF RowsWereBegun
  <2>3. improvement + Cardinality(Inserting') <= annotations
    BY <1>1, <1>4, <1>5 DEF RowsWereBegun
  <2>4. \A t \in Lessons : learned[t] + Cardinality(Inserting') <= annotations
    BY <1>1, <1>4, <1>5 DEF RowsWereBegun
  <2> QED
    BY <1>2, <2>1, <2>2, <2>3, <2>4 DEF RowsWereBegun
<1>7. {values', subscribed'} \subseteq Counts
  <2>1. values' + Cardinality(Inserting') <= annotations /\ subscribed' + Cardinality(Inserting') <= annotations
    BY <1>2, <1>6 DEF RowsWereBegun
  <2> QED
    BY <1>4, <1>5, <2>1 DEF Counts
<1>8. staleWrite' \in BOOLEAN
  BY <1>1, <1>2 DEF AnnotationTypes, Task
<1>9. AnnotationTypes'
  BY <1>1, <1>2, <1>7, <1>8 DEF AnnotationTypes
<1>10. EntriesWereLearned'
  BY <1>1, <1>2 DEF EntriesWereLearned
<1>11. CountIsOfRows'
  BY <1>1 DEF CountIsOfRows, LessonRows
<1>12. AttachedOnce'
  <2>1. ~staleWrite' => ~staleWrite /\ ~task[w].outdated
    BY <1>2
  <2>2. ~staleWrite' => values' <= 1
    BY <1>1, <1>5, <2>1 DEF AttachedOnce
  <2>3. ~staleWrite' => \A t \in Lessons : lesson[t] <= 1
    BY <1>1, <2>1 DEF AttachedOnce
  <2> QED
    BY <2>2, <2>3 DEF AttachedOnce
<1> QED
  BY <1>2, <1>6, <1>9, <1>10, <1>11, <1>12 DEF AnnotationInv

\* The rows of lessons, and that one more lesson is one more of them.
LEMMA RowsOfLessons ==
    ASSUME lesson \in PerText
    PROVE  IsFiniteSet(LessonRows) /\ Cardinality(LessonRows) \in Nat
<1>1. LessonRows \in SUBSET (Lessons \X (1 .. MaxAnnotations))
  BY AnnotationAssumption DEF LessonRows, PerText, Counts
<1>2. IsFiniteSet(Lessons \X (1 .. MaxAnnotations))
  <2>1. IsFiniteSet(1 .. MaxAnnotations)
    BY AnnotationAssumption, FS_Interval
  <2> QED
    BY <2>1, AnnotationAssumption, FS_Product
<1> QED
  BY <1>1, <1>2, FS_Subset, FS_CardinalityType

\* A lesson that is inserted is one more row.
LEMMA OneMoreLesson ==
    ASSUME lesson \in PerText, NEW t \in Lessons, lesson' = [lesson EXCEPT ![t] = @ + 1]
    PROVE  Cardinality(LessonRows') = Cardinality(LessonRows) + 1
<1> DEFINE row == <<t, lesson[t] + 1>>
<1>1. \A u \in Lessons : lesson[u] \in Nat
  BY AnnotationAssumption DEF PerText, Counts
<1>2. \A u \in Lessons : lesson'[u] = IF u = t THEN lesson[u] + 1 ELSE lesson[u]
  BY DEF PerText
<1>3. 1 .. (lesson[t] + 1) = (1 .. lesson[t]) \cup {lesson[t] + 1}
  BY <1>1
<1>4. LessonRows' = LessonRows \cup {row}
  <2>1. \A r : r \in LessonRows <=> \E u \in Lessons : \E n \in 1 .. lesson[u] : r = <<u, n>>
    BY DEF LessonRows
  <2>2. \A r : r \in LessonRows' <=> \E u \in Lessons : \E n \in 1 .. lesson'[u] : r = <<u, n>>
    BY DEF LessonRows
  <2>3. \A u \in Lessons : \A n : n \in 1 .. lesson'[u] <=> n \in 1 .. lesson[u] \/ (u = t /\ n = lesson[t] + 1)
    BY <1>1, <1>2, <1>3
  <2>4. \A r : r \in LessonRows' <=> r \in LessonRows \/ r = row
    BY <2>1, <2>2, <2>3
  <2> QED
    BY <2>4
<1>5. row \notin LessonRows
  <2>1. \A u \in Lessons : \A n \in 1 .. lesson[u] : <<u, n>> # row
    BY <1>1
  <2> QED
    BY <2>1 DEF LessonRows
<1> QED
  BY <1>4, <1>5, RowsOfLessons, FS_AddElement

\* The commit of learn(): the row, and the count that the skill shows.
LEMMA LearnKept ==
    ASSUME AnnotationInv, NEW w \in Annotators, LearnCommit(w)
    PROVE  AnnotationInv'
<1> DEFINE t == task[w].text
<1>1. AnnotationTypes /\ RowsWereBegun /\ EntriesWereLearned /\ LooksHold /\ CountIsOfRows /\ AttachedOnce
  BY DEF AnnotationInv
<1>2. task[w].op = "learn" /\ t \in Lessons /\ task[w].op \in Readers /\ Committed(w, "note")
  BY <1>1 DEF LearnCommit, AnnotationTypes, Readers, Operations
<1>3. /\ task' \in [Annotators -> Task]
      /\ \A v \in Annotators : task'[v].op \in {"learn", "note", "head", "append"} => task'[v].text \in Lessons
      /\ Inserting' = Inserting \ {w}
      /\ \A u \in Lessons : /\ Noting(u)' = IF u = t THEN Noting(u) \cup {w} ELSE Noting(u)
                           /\ w \notin Noting(u)
      /\ LooksHold'
      /\ staleWrite' = (staleWrite \/ task[w].outdated)
      /\ UNCHANGED <<annotations, annotationFaults>>
  BY <1>1, <1>2, CommitTasks
<1>4. Inserting \in SUBSET Annotators /\ w \in Inserting
  BY <1>2 DEF Inserting
<1>5. Cardinality(Inserting) \in Nat /\ Cardinality(Inserting') = Cardinality(Inserting) - 1
      /\ Cardinality(Inserting') \in Nat
  BY <1>3, <1>4, Annotating
<1>6. /\ {values, subscribed, improvement, annotations} \subseteq Nat
      /\ \A u \in Lessons : learned[u] \in Nat /\ lesson[u] \in Nat /\ mirror.entries[u] \in Nat
      /\ annotations <= MaxAnnotations /\ MaxAnnotations \in Nat
  BY <1>1, AnnotationAssumption DEF AnnotationTypes, Counts, PerText
<1>7. /\ lesson' = [lesson EXCEPT ![t] = @ + 1] /\ learned' = [learned EXCEPT ![t] = @ + 1]
      /\ improvement' = IF skillThere THEN improvement + 1 ELSE improvement
      /\ UNCHANGED <<labelled, values, subscribed, skillThere, mirror>>
  BY DEF LearnCommit, RaisedCount
<1>8. \A u \in Lessons : /\ lesson'[u] = IF u = t THEN lesson[u] + 1 ELSE lesson[u]
                         /\ learned'[u] = IF u = t THEN learned[u] + 1 ELSE learned[u]
  BY <1>1, <1>7 DEF AnnotationTypes, PerText
<1> HIDE DEF t
<1>9. RowsWereBegun'
  <2>1. /\ values + Cardinality(Inserting') <= annotations /\ subscribed + Cardinality(Inserting') <= annotations
        /\ improvement' + Cardinality(Inserting') <= annotations
    BY <1>1, <1>5, <1>6, <1>7 DEF RowsWereBegun
  <2>2. \A u \in Lessons : learned'[u] + Cardinality(Inserting') <= annotations
    BY <1>1, <1>5, <1>6, <1>8 DEF RowsWereBegun
  <2> QED
    BY <1>3, <1>7, <2>1, <2>2 DEF RowsWereBegun
<1>10. EntriesWereLearned'
  <2>1. \A u \in Lessons : Noting(u) \in SUBSET Annotators
    BY DEF Noting
  <2>2. \A u \in Lessons : /\ Cardinality(Noting(u)) \in Nat
                           /\ Cardinality(Noting(u)') = IF u = t THEN Cardinality(Noting(u)) + 1 ELSE Cardinality(Noting(u))
    BY <1>3, <2>1, Annotating
  <2>3. \A u \in Lessons : mirror.entries[u] + Cardinality(Noting(u)') <= learned'[u] /\ lesson'[u] <= learned'[u]
    BY <1>1, <1>6, <1>8, <2>2 DEF EntriesWereLearned
  <2> QED
    BY <1>7, <2>3 DEF EntriesWereLearned
<1>11. AnnotationTypes'
  <2>1. \A u \in Lessons : learned'[u] \in Counts /\ lesson'[u] \in Counts
    <3> SUFFICES ASSUME NEW u \in Lessons PROVE learned'[u] \in Counts /\ lesson'[u] \in Counts
      OBVIOUS
    <3>1. learned'[u] + Cardinality(Inserting') <= annotations
      BY <1>3, <1>9 DEF RowsWereBegun
    <3>2. lesson'[u] <= learned'[u]
      BY <1>10 DEF EntriesWereLearned
    <3> QED
      BY <1>5, <1>6, <1>8, <3>1, <3>2 DEF Counts
  <2>2. learned' \in PerText /\ lesson' \in PerText
    BY <1>1, <1>7, <2>1 DEF PerText, AnnotationTypes
  <2>3. improvement' \in Counts
    <3>1. improvement' + Cardinality(Inserting') <= annotations
      BY <1>3, <1>9 DEF RowsWereBegun
    <3> QED
      BY <1>5, <1>6, <1>7, <3>1 DEF Counts
  <2>4. staleWrite' \in BOOLEAN
    BY <1>1, <1>3 DEF AnnotationTypes, Task
  <2> QED
    BY <1>1, <1>3, <1>7, <2>2, <2>3, <2>4 DEF AnnotationTypes
<1>12. CountIsOfRows'
  <2>1. lesson \in PerText /\ t \in Lessons
    BY <1>1, <1>2 DEF AnnotationTypes, t
  <2>2. Cardinality(LessonRows') = Cardinality(LessonRows) + 1
    BY <1>7, <2>1, OneMoreLesson
  <2> QED
    BY <1>1, <1>7, <2>2 DEF CountIsOfRows
<1>13. AttachedOnce'
  <2>1. ~staleWrite' => ~staleWrite /\ ~task[w].outdated
    BY <1>3
  <2>2. ~staleWrite' => lesson[t] = 0
    BY <1>1, <1>2, <2>1 DEF LooksHold, t
  <2>3. ~staleWrite' => \A u \in Lessons : lesson'[u] <= 1
    BY <1>1, <1>6, <1>8, <2>1, <2>2 DEF AttachedOnce
  <2>4. ~staleWrite' => values <= 1
    BY <1>1, <2>1 DEF AttachedOnce
  <2> QED
    BY <1>7, <2>3, <2>4 DEF AttachedOnce
<1> QED
  BY <1>3, <1>9, <1>10, <1>11, <1>12, <1>13 DEF AnnotationInv

\* The commit of delete_skill(): all rows of the skill go with it.
LEMMA DeleteKept ==
    ASSUME AnnotationInv, NEW w \in Annotators, DeleteSkillCommit(w)
    PROVE  AnnotationInv'
<1>1. AnnotationTypes /\ RowsWereBegun /\ EntriesWereLearned /\ LooksHold /\ AttachedOnce
  BY DEF AnnotationInv
<1>2. task[w].op = "delete" /\ task[w].op \in Readers /\ Committed(w, "none")
  BY DEF DeleteSkillCommit, Readers, Operations
<1>3. /\ task' \in [Annotators -> Task]
      /\ \A v \in Annotators : task'[v].op \in {"learn", "note", "head", "append"} => task'[v].text \in Lessons
      /\ Inserting' = Inserting \ {w}
      /\ \A u \in Lessons : Noting(u)' = Noting(u)
      /\ LooksHold'
      /\ staleWrite' = (staleWrite \/ task[w].outdated)
      /\ UNCHANGED <<annotations, annotationFaults>>
  BY <1>1, <1>2, CommitTasks
<1>4. Inserting' = Inserting
  BY <1>2, <1>3 DEF Inserting
<1>5. \A u \in Lessons : lesson[u] \in Nat /\ task[w].loaded[u] \in Nat /\ lesson[u] \in Counts
  BY <1>1, AnnotationAssumption DEF AnnotationTypes, Task, Counts, PerText
<1>6. /\ skillThere' = FALSE /\ lesson' = [t \in Lessons |-> Max({0, lesson[t] - task[w].loaded[t]})]
      /\ UNCHANGED <<labelled, values, subscribed, improvement, mirror, learned>>
  BY DEF DeleteSkillCommit
<1>7. \A u \in Lessons : lesson'[u] \in Nat /\ lesson'[u] <= lesson[u]
  <2> SUFFICES ASSUME NEW u \in Lessons PROVE lesson'[u] \in Nat /\ lesson'[u] <= lesson[u]
    OBVIOUS
  <2>1. lesson'[u] = Max({0, lesson[u] - task[w].loaded[u]})
    BY <1>6
  <2>2. lesson[u] - task[w].loaded[u] \in Int
    BY <1>5
  <2>3. lesson'[u] = IF lesson[u] - task[w].loaded[u] >= 0 THEN lesson[u] - task[w].loaded[u] ELSE 0
    BY <2>1, <2>2, PositivePart
  <2> QED
    BY <1>5, <2>3
<1>8. lesson' \in PerText
  <2>1. \A u \in Lessons : lesson'[u] \in Counts
    BY <1>5, <1>7, AnnotationAssumption DEF Counts
  <2> QED
    BY <1>6, <2>1 DEF PerText
<1>9. staleWrite' \in BOOLEAN
  BY <1>1, <1>3 DEF AnnotationTypes, Task
<1>10. AnnotationTypes'
  BY <1>1, <1>3, <1>6, <1>8, <1>9 DEF AnnotationTypes
<1>11. RowsWereBegun'
  BY <1>1, <1>3, <1>4, <1>6 DEF RowsWereBegun
<1>12. EntriesWereLearned'
  <2>1. \A u \in Lessons : lesson'[u] <= learned[u]
    BY <1>1, <1>5, <1>7, AnnotationAssumption DEF EntriesWereLearned, AnnotationTypes, PerText, Counts
  <2> QED
    BY <1>1, <1>3, <1>6, <2>1 DEF EntriesWereLearned
<1>13. CountIsOfRows'
  BY <1>6 DEF CountIsOfRows
<1>14. AttachedOnce'
  <2>1. ~staleWrite' => ~staleWrite
    BY <1>3
  <2>2. ~staleWrite' => values <= 1 /\ \A u \in Lessons : lesson[u] <= 1
    BY <1>1, <2>1 DEF AttachedOnce
  <2>3. ~staleWrite' => \A u \in Lessons : lesson'[u] <= 1
    BY <1>5, <1>7, <2>2
  <2> QED
    BY <1>6, <2>2, <2>3 DEF AttachedOnce
<1> QED
  BY <1>3, <1>10, <1>11, <1>12, <1>13, <1>14 DEF AnnotationInv

\* The way from the commit of a lesson to its entry in the notes.
LEMMA NotingKept ==
    ASSUME AnnotationInv, NEW w \in Annotators, LookForNotes(w) \/ WriteHeading(w) \/ AppendNote(w)
    PROVE  AnnotationInv'
<1> DEFINE t == task[w].text
<1>1. AnnotationTypes /\ RowsWereBegun /\ EntriesWereLearned /\ LooksHold /\ CountIsOfRows /\ AttachedOnce
  BY DEF AnnotationInv
<1>2. PICK next \in {"none", "head", "append"} :
        /\ Goes(w, next) /\ task[w].op \in {"note", "head", "append"}
        /\ \/ next # "none" /\ (mirror' = mirror \/ mirror' = [NoFile EXCEPT !.there = TRUE])
           \/ next = "none" /\ mirror' = [mirror EXCEPT !.there = TRUE, !.entries[t] = @ + 1]
  <2>1. CASE LookForNotes(w)
    BY <2>1 DEF LookForNotes
  <2>2. CASE WriteHeading(w)
    BY <2>2 DEF WriteHeading
  <2>3. CASE AppendNote(w)
    BY <2>3 DEF AppendNote
  <2> QED
    BY <2>1, <2>2, <2>3
<1>3. t \in Lessons
  BY <1>1, <1>2 DEF AnnotationTypes
<1> HIDE DEF t
<1>4. /\ task' = [task EXCEPT ![w].op = next, ![w].text = IF next = "none" THEN "none" ELSE @]
      /\ UNCHANGED <<labelled, values, subscribed, skillThere, lesson, improvement, annotations,
                     annotationFaults, learned, staleWrite>>
  BY <1>2 DEF Goes
<1>5. task \in [Annotators -> Task]
  BY <1>1 DEF AnnotationTypes
<1>6. task[w] \in Task /\ next \in Operations /\ task[w].text = t
  BY <1>5 DEF Operations, t
<1>7. /\ task' \in [Annotators -> Task]
      /\ task'[w].op = next /\ task'[w].text = (IF next = "none" THEN "none" ELSE t)
      /\ \A v \in Annotators : v # w => task'[v] = task[v]
  BY <1>4, <1>5, <1>6 DEF Task
<1>8. Inserting' = Inserting
  BY <1>2, <1>7 DEF Inserting
<1>9. \A u \in Lessons : Noting(u)' = IF next = "none" /\ u = t THEN Noting(u) \ {w} ELSE Noting(u)
  BY <1>2, <1>6, <1>7 DEF Noting
<1>10. w \in Noting(t) /\ \A u \in Lessons : Noting(u) \in SUBSET Annotators
  BY <1>2, <1>6 DEF Noting
<1>11. \A u \in Lessons :
         /\ Cardinality(Noting(u)) \in Nat
         /\ Cardinality(Noting(u)') = IF next = "none" /\ u = t THEN Cardinality(Noting(u)) - 1 ELSE Cardinality(Noting(u))
         /\ Cardinality(Noting(u)') \in Nat
  <2> SUFFICES ASSUME NEW u \in Lessons
               PROVE  /\ Cardinality(Noting(u)) \in Nat
                      /\ Cardinality(Noting(u)') = IF next = "none" /\ u = t THEN Cardinality(Noting(u)) - 1 ELSE Cardinality(Noting(u))
                      /\ Cardinality(Noting(u)') \in Nat
    OBVIOUS
  <2>1. Cardinality(Noting(u)) \in Nat /\ \A v \in Noting(u) : Cardinality(Noting(u) \ {v}) = Cardinality(Noting(u)) - 1
    BY <1>10, Annotating
  <2>2. Noting(u)' \in SUBSET Annotators
    BY <1>9, <1>10
  <2>3. Cardinality(Noting(u)') \in Nat
    BY <2>2, FewAnnotators
  <2> QED
    BY <1>9, <1>10, <2>1, <2>3
<1>12. /\ mirror \in [there : BOOLEAN, entries : PerText]
       /\ \A u \in Lessons : mirror.entries[u] \in Nat /\ learned[u] \in Nat /\ learned[u] \in Counts
  BY <1>1, AnnotationAssumption DEF AnnotationTypes, PerText, Counts
<1>13. \A u \in Lessons : mirror'.entries[u] \in Nat /\ mirror'.entries[u] + Cardinality(Noting(u)') <= learned[u]
  <2>1. CASE mirror' = mirror /\ next # "none"
    BY <1>1, <1>11, <1>12, <2>1 DEF EntriesWereLearned
  <2>2. CASE mirror' = [NoFile EXCEPT !.there = TRUE] /\ next # "none"
    <3>1. \A u \in Lessons : mirror'.entries[u] = 0
      BY <2>2 DEF NoFile, NoLessons
    <3> QED
      BY <1>1, <1>11, <1>12, <2>2, <3>1 DEF EntriesWereLearned
  <2>3. CASE mirror' = [mirror EXCEPT !.there = TRUE, !.entries[t] = @ + 1] /\ next = "none"
    <3>1. mirror'.entries = [mirror.entries EXCEPT ![t] = @ + 1]
      BY <1>12, <2>3
    <3>2. \A u \in Lessons : mirror'.entries[u] = IF u = t THEN mirror.entries[u] + 1 ELSE mirror.entries[u]
      BY <1>12, <3>1 DEF PerText
    <3> QED
      BY <1>1, <1>11, <1>12, <2>3, <3>2 DEF EntriesWereLearned
  <2> QED
    BY <1>2, <2>1, <2>2, <2>3
<1>14. EntriesWereLearned'
  BY <1>1, <1>4, <1>13 DEF EntriesWereLearned
<1>15. mirror' \in [there : BOOLEAN, entries : PerText]
  <2>1. \A u \in Lessons : mirror'.entries[u] \in Counts
    <3> SUFFICES ASSUME NEW u \in Lessons PROVE mirror'.entries[u] \in Counts
      OBVIOUS
    <3> QED
      BY <1>11, <1>12, <1>13, AnnotationAssumption DEF Counts
  <2>2. NoLessons \in PerText
    BY AnnotationAssumption DEF NoLessons, PerText, Counts
  <2>3. mirror' = [NoFile EXCEPT !.there = TRUE] => mirror' \in [there : BOOLEAN, entries : PerText]
    BY <2>2 DEF NoFile
  <2>4. ASSUME mirror' = [mirror EXCEPT !.there = TRUE, !.entries[t] = @ + 1]
        PROVE  mirror' \in [there : BOOLEAN, entries : PerText]
    <3> DEFINE entries == [mirror.entries EXCEPT ![t] = @ + 1]
    <3>1. mirror' = [mirror EXCEPT !.there = TRUE, !.entries = entries]
      BY <1>12, <2>4
    <3>2. mirror'.entries = entries
      BY <1>12, <2>4
    <3>3. DOMAIN entries = Lessons /\ entries = [u \in Lessons |-> entries[u]]
      BY <1>12 DEF PerText
    <3>4. entries \in PerText
      BY <2>1, <3>2, <3>3 DEF PerText
    <3> HIDE DEF entries
    <3> QED
      BY <1>12, <3>1, <3>4
  <2> QED
    BY <1>2, <1>12, <2>3, <2>4
<1>16. AnnotationTypes'
  <2>1. \A v \in Annotators : task'[v].op \in {"learn", "note", "head", "append"} => task'[v].text \in Lessons
    BY <1>1, <1>3, <1>7 DEF AnnotationTypes
  <2> QED
    BY <1>1, <1>4, <1>7, <1>15, <2>1 DEF AnnotationTypes
<1>17. RowsWereBegun'
  BY <1>1, <1>4, <1>8 DEF RowsWereBegun
<1>18. LooksHold'
  BY <1>1, <1>4, <1>7 DEF LooksHold
<1>19. (CountIsOfRows /\ AttachedOnce)'
  BY <1>1, <1>4 DEF CountIsOfRows, AttachedOnce, LessonRows
<1> QED
  BY <1>14, <1>16, <1>17, <1>18, <1>19 DEF AnnotationInv

\* A step that fails leaves what others committed.
LEMMA GivingUpKept ==
    ASSUME AnnotationInv, NEW w \in Annotators, GivesUp(w)
    PROVE  AnnotationInv'
<1>1. AnnotationTypes /\ RowsWereBegun /\ EntriesWereLearned /\ LooksHold /\ CountIsOfRows /\ AttachedOnce
  BY DEF AnnotationInv
<1>2. Resting \in Task /\ Resting.op = "none"
  <2>1. NoLessons \in PerText
    BY AnnotationAssumption DEF NoLessons, PerText, Counts
  <2> QED
    BY <2>1, AnnotationAssumption DEF Resting, Task, Operations, Counts
<1>3. /\ task' = [task EXCEPT ![w] = Resting] /\ annotationFaults < MaxAnnotationFaults
      /\ annotationFaults' = annotationFaults + 1
      /\ UNCHANGED <<labelled, values, subscribed, skillThere, lesson, improvement, mirror, annotations,
                     learned, staleWrite>>
  BY DEF GivesUp
<1>4. /\ task' \in [Annotators -> Task] /\ task'[w] = Resting
      /\ \A v \in Annotators : v # w => task'[v] = task[v]
  BY <1>1, <1>2, <1>3 DEF AnnotationTypes
<1>5. /\ Inserting \in SUBSET Annotators /\ Inserting' \in SUBSET Inserting
      /\ \A u \in Lessons : Noting(u) \in SUBSET Annotators /\ Noting(u)' \in SUBSET Noting(u)
  BY <1>2, <1>4 DEF Inserting, Noting
<1>6. /\ Cardinality(Inserting') <= Cardinality(Inserting)
      /\ Cardinality(Inserting) \in Nat /\ Cardinality(Inserting') \in Nat
  BY <1>5, Annotating
<1>7. \A u \in Lessons : /\ Cardinality(Noting(u)') <= Cardinality(Noting(u))
                         /\ Cardinality(Noting(u)) \in Nat /\ Cardinality(Noting(u)') \in Nat
  BY <1>5, Annotating
<1>8. /\ {values, subscribed, improvement, annotations} \subseteq Nat
      /\ \A u \in Lessons : learned[u] \in Nat /\ mirror.entries[u] \in Nat
  BY <1>1, AnnotationAssumption DEF AnnotationTypes, Counts, PerText
<1>9. RowsWereBegun'
  BY <1>1, <1>3, <1>6, <1>8 DEF RowsWereBegun
<1>10. EntriesWereLearned'
  BY <1>1, <1>3, <1>7, <1>8 DEF EntriesWereLearned
<1>11. annotationFaults' \in 0 .. MaxAnnotationFaults
  BY <1>1, <1>3, AnnotationAssumption DEF AnnotationTypes
<1>12. \A v \in Annotators : task'[v].op \in {"learn", "note", "head", "append"} => task'[v].text \in Lessons
  BY <1>1, <1>2, <1>4 DEF AnnotationTypes
<1>13. AnnotationTypes'
  BY <1>1, <1>3, <1>4, <1>11, <1>12 DEF AnnotationTypes
<1>14. LooksHold'
  BY <1>1, <1>2, <1>3, <1>4 DEF LooksHold
<1>15. (CountIsOfRows /\ AttachedOnce)'
  BY <1>1, <1>3 DEF CountIsOfRows, AttachedOnce, LessonRows
<1> QED
  BY <1>9, <1>10, <1>13, <1>14, <1>15 DEF AnnotationInv

\* Every step keeps what is on record.
LEMMA AnnotationKept == AnnotationInv /\ [AnnotationsNext]_annotationVars => AnnotationInv'
<1> SUFFICES ASSUME AnnotationInv, [AnnotationsNext]_annotationVars PROVE AnnotationInv'
  OBVIOUS
<1>1. CASE UNCHANGED annotationVars
  BY <1>1 DEF annotationVars, AnnotationInv, AnnotationTypes, RowsWereBegun, EntriesWereLearned, LooksHold,
     CountIsOfRows, AttachedOnce, LessonRows, Inserting, Noting
<1>2. CASE AnnotationsNext
  <2>1. PICK w \in Annotators :
          \/ AddLabel(w) \/ RemoveLabel(w) \/ LabelCommit(w)
          \/ SetValue(w) \/ SetValueCommit(w) \/ UnsetValue(w) \/ UnsetValueCommit(w)
          \/ Subscribe(w) \/ SubscribeAnyway(w) \/ SubscribeCommit(w) \/ Unsubscribe(w) \/ UnsubscribeCommit(w)
          \/ \E t \in Lessons : LearnFrom(w, t)
          \/ LearnCommit(w) \/ LookForNotes(w) \/ WriteHeading(w) \/ AppendNote(w)
          \/ DeleteSkill(w) \/ DeleteSkillCommit(w)
          \/ GivesUp(w)
    BY <1>2 DEF AnnotationsNext
  <2>2. /\ AnnotationTypes /\ 0 \in Counts /\ LooksHold /\ values \in Nat /\ subscribed \in Nat
        /\ subscribed \in Counts /\ improvement \in Counts /\ labelled \in BOOLEAN
        /\ {"label", "unlabel", "value", "unset", "subscribe", "unsubscribe", "learn", "delete"} \subseteq Readers
    BY AnnotationAssumption DEF AnnotationInv, AnnotationTypes, Counts, Readers, Operations
  <2>3. \A n \in Nat : n - 1 \in Int /\ (\A k \in Nat : n - k \in Int /\ Max({0, n - k}) \in Nat /\ Max({0, n - k}) <= n)
                     /\ Max({0, n - 1}) \in Nat /\ Max({0, n - 1}) <= n
    BY PositivePart
  <2>4. CASE AddLabel(w)
    BY <2>2, <2>4, TakeKept DEF AddLabel
  <2>5. CASE RemoveLabel(w)
    <3>1. 1 \in Counts
      BY <2>2, <2>5, AnnotationAssumption DEF RemoveLabel, Take, Counts, AnnotationTypes
    <3> QED
      BY <2>2, <2>5, <3>1, TakeKept DEF RemoveLabel
  <2>6. CASE LabelCommit(w)
    <3>1. task[w].op \in Readers /\ labelled' \in BOOLEAN /\ Committed(w, "none")
      BY <2>2, <2>6 DEF LabelCommit
    <3>2. UNCHANGED <<values, subscribed, skillThere, lesson, improvement, mirror, learned>>
      BY <2>6 DEF LabelCommit
    <3>3. ~(values' > values) /\ ~(subscribed' > subscribed) /\ values' \in Nat /\ subscribed' \in Nat
      BY <2>2, <3>2
    <3> QED
      BY <3>1, <3>2, <3>3, CommitLeaves
  <2>7. CASE SetValue(w)
    <3>1. (values > 0) \in BOOLEAN /\ (~(values > 0) => values = 0)
      BY <2>2
    <3>2. Take(w, "value", "none", values > 0, 0) /\ "value" \in Readers
      BY <2>2, <2>7 DEF SetValue
    <3> QED
      BY <2>2, <3>1, <3>2, TakeKept
  <2>8. CASE SetValueCommit(w)
    <3>1. task[w].op \in Readers /\ w \in Inserting
      BY <2>2, <2>8 DEF SetValueCommit, Inserting
    <3>2. values' \in Nat /\ (values' > values => values' = values + 1 /\ ~task[w].found)
      BY <2>2, <2>8 DEF SetValueCommit
    <3>3. values' > values => values = 0 \/ task[w].outdated
      BY <2>2, <2>8, <3>2 DEF LooksHold, SetValueCommit
    <3> QED
      BY <2>2, <2>8, <3>1, <3>2, <3>3, CommitLeaves DEF SetValueCommit
  <2>9. CASE UnsetValue(w)
    <3>1. 1 \in Counts
      BY <2>2, <2>9, AnnotationAssumption DEF UnsetValue, Take, Counts, AnnotationTypes
    <3> QED
      BY <2>2, <2>9, <3>1, TakeKept DEF UnsetValue
  <2>10. CASE UnsetValueCommit(w)
    <3>1. task[w].op \in Readers /\ values' \in Nat /\ values' <= values
      BY <2>2, <2>3, <2>10 DEF UnsetValueCommit
    <3> QED
      <4>1. ~(values' > values) /\ ~(subscribed' > subscribed) /\ subscribed' \in Nat /\ labelled' \in BOOLEAN
        BY <2>2, <2>10, <3>1 DEF UnsetValueCommit
      <4> QED
        BY <2>10, <3>1, <4>1, CommitLeaves DEF UnsetValueCommit
  <2>11. CASE Subscribe(w) \/ SubscribeAnyway(w)
    BY <2>2, <2>11, TakeKept DEF Subscribe, SubscribeAnyway
  <2>12. CASE SubscribeCommit(w)
    <3>1. task[w].op \in Readers /\ w \in Inserting /\ subscribed' = subscribed + 1 /\ subscribed' \in Nat
      BY <2>2, <2>12 DEF SubscribeCommit, Inserting
    <3> QED
      BY <2>2, <2>12, <3>1, CommitLeaves DEF SubscribeCommit
  <2>13. CASE Unsubscribe(w)
    BY <2>2, <2>13, TakeKept DEF Unsubscribe
  <2>14. CASE UnsubscribeCommit(w)
    <3>1. task[w].rows \in Nat
      BY <2>2, AnnotationAssumption DEF AnnotationTypes, Task, Counts
    <3>2. task[w].op \in Readers /\ subscribed' \in Nat /\ subscribed' <= subscribed
      BY <2>2, <2>3, <2>14, <3>1 DEF UnsubscribeCommit
    <3> QED
      <4>1. ~(values' > values) /\ ~(subscribed' > subscribed) /\ values' \in Nat /\ labelled' \in BOOLEAN
        BY <2>2, <2>14, <3>2 DEF UnsubscribeCommit
      <4> QED
        BY <2>14, <3>2, <4>1, CommitLeaves DEF UnsubscribeCommit
  <2>15. ASSUME NEW t \in Lessons, LearnFrom(w, t) PROVE AnnotationInv'
    BY <2>2, <2>15, TakeKept DEF LearnFrom
  <2>16. CASE DeleteSkill(w)
    BY <2>2, <2>16, TakeKept DEF DeleteSkill
  <2> QED
    BY <2>1, <2>4, <2>5, <2>6, <2>7, <2>8, <2>9, <2>10, <2>11, <2>12, <2>13, <2>14, <2>15, <2>16,
       LearnKept, NotingKept, DeleteKept, GivingUpKept
<1> QED
  BY <1>1, <1>2

\* Type correctness.
THEOREM AnnotationsTypeCorrect == AnnotationsSpec => []AnnotationsTypeOK
<1>1. AnnotationInv => AnnotationsTypeOK
  BY DEF AnnotationInv, AnnotationTypes, AnnotationsTypeOK, Task, Operations
<1> QED
  BY <1>1, AnnotationStart, AnnotationKept, PTL DEF AnnotationsSpec

\* What was learned is on record: the count is that of the rows, nobody is attached twice unless
\* two looked before either wrote, and no entry of the file was never learned.
THEOREM LessonsAreOnRecord == AnnotationsSpec => []LessonsOnRecord
<1>1. ASSUME AnnotationInv PROVE LessonsOnRecord
  <2> SUFFICES NoPhantomNotes
    BY <1>1 DEF AnnotationInv, LessonsOnRecord
  <2>1. \A t \in Lessons : mirror.entries[t] \in Nat /\ learned[t] \in Nat
    BY <1>1, AnnotationAssumption DEF AnnotationInv, AnnotationTypes, PerText, Counts
  <2>2. \A t \in Lessons : Noting(t) \in SUBSET Annotators
    BY DEF Noting
  <2>3. \A t \in Lessons : Cardinality(Noting(t)) \in Nat
    BY <2>2, FewAnnotators
  <2> QED
    BY <1>1, <2>1, <2>3 DEF AnnotationInv, EntriesWereLearned, NoPhantomNotes
<1> QED
  BY <1>1, AnnotationStart, AnnotationKept, PTL DEF AnnotationsSpec
=============================================================================
