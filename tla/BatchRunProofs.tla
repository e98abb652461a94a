--------------------------- MODULE BatchRunProofs ---------------------------
(* Theorems about BatchRun, for any group size, file and presses.          *)
EXTENDS BatchRun, FiniteSetTheorems, TLAPS

-----------------------------------------------------------------------------
(* Finite sets, and multiples.                                             *)

LEMMA DisjointUnion ==
  ASSUME NEW S, NEW T, IsFiniteSet(S), IsFiniteSet(T), S \cap T = {}
  PROVE  IsFiniteSet(S \cup T) /\ Cardinality(S \cup T) = Cardinality(S) + Cardinality(T)
<1>1. Cardinality(S) \in Nat /\ Cardinality(T) \in Nat
  BY FS_CardinalityType
<1> QED
  BY FS_Union, FS_EmptySet, <1>1

\* Of a set of numbers, those with fewer than G smaller ones are G, or all.
LEMMA FirstOnes ==
  ASSUME NEW n \in Nat, NEW P \in SUBSET (1..n), NEW G \in Nat \ {0}
  PROVE  LET F == {i \in P : Cardinality({j \in P : j < i}) < G}
         IN /\ F \subseteq P /\ IsFiniteSet(F) /\ Cardinality(F) <= G
            /\ P \ F # {} => Cardinality(F) = G
            /\ Cardinality(P) <= G => F = P
<1> DEFINE Below(i) == {j \in P : j < i}
           rank == [i \in P |-> Cardinality(Below(i))]
           F == {i \in P : rank[i] < G}
<1>0. /\ \A i \in P : i \in Nat
      /\ \A i \in P : Below(i) \in SUBSET P /\ i \notin Below(i)
      /\ \A i, j \in P : j < i => Below(j) \in SUBSET Below(i) /\ j \in Below(i)
  <2>1. \A i \in P : i \in Nat
    OBVIOUS
  <2>2. \A i \in P : Below(i) \in SUBSET P /\ i \notin Below(i)
    BY <2>1
  <2>3. ASSUME NEW i \in P, NEW j \in P, j < i
        PROVE  Below(j) \in SUBSET Below(i) /\ j \in Below(i)
    <3>1. ASSUME NEW k \in P, k < j PROVE k < i
      BY <2>1, <2>3, <3>1
    <3> QED
      BY <2>3, <3>1
  <2> QED
    BY <2>1, <2>2, <2>3
<1> HIDE DEF Below
<1>1. IsFiniteSet(P) /\ Cardinality(P) \in Nat
  <2>1. IsFiniteSet(1..n)
    BY FS_Interval
  <2>2. IsFiniteSet(P)
    BY <2>1, FS_Subset
  <2> QED
    BY <2>2, FS_CardinalityType
<1>2. ASSUME NEW i \in P
      PROVE  /\ IsFiniteSet(Below(i)) /\ rank[i] \in Nat /\ rank[i] < Cardinality(P)
             /\ \A j \in P : j < i => rank[j] < rank[i]
  <2>1. Below(i) \in SUBSET P /\ Below(i) # P
    BY <1>0
  <2>2. IsFiniteSet(Below(i)) /\ Cardinality(Below(i)) \in Nat
    BY <1>1, <2>1, FS_Subset, FS_CardinalityType
  <2>3. Cardinality(Below(i)) < Cardinality(P)
    BY <1>1, <2>1, <2>2, FS_Subset
  <2>4. ASSUME NEW j \in P, j < i
        PROVE  Cardinality(Below(j)) < Cardinality(Below(i))
    <3>1. Below(j) \in SUBSET Below(i) /\ Below(j) # Below(i)
      BY <1>0, <2>4
    <3>2. IsFiniteSet(Below(j)) /\ Cardinality(Below(j)) \in Nat
      BY <2>2, <3>1, FS_Subset, FS_CardinalityType
    <3> QED
      BY <2>2, <3>1, <3>2, FS_Subset
  <2> QED
    BY <2>2, <2>3, <2>4
<1> HIDE DEF rank
<1>3. \A i, j \in P : rank[i] = rank[j] => i = j
  <2> SUFFICES ASSUME NEW i \in P, NEW j \in P, i # j PROVE rank[i] # rank[j]
    OBVIOUS
  <2>1. i < j \/ j < i
    BY <1>0
  <2> QED
    BY <1>2, <2>1
<1>4. IsFiniteSet(F) /\ Cardinality(F) \in Nat
  BY <1>1, FS_Subset, FS_CardinalityType
<1>10. \A i \in F : rank[i] \in 0..(G - 1)
  <2>1. \A k \in Nat : k < G => k \in 0..(G - 1)
    OBVIOUS
  <2> QED
    BY <1>2, <2>1
<1>5. IsFiniteSet(0..(G - 1)) /\ Cardinality(0..(G - 1)) = G
  BY FS_Interval
<1>6. Cardinality(F) <= G
  <2> DEFINE f == [i \in F |-> rank[i]]
  <2>1. f \in Injection(F, 0..(G - 1))
    <3>1. f \in [F -> 0..(G - 1)]
      BY <1>10
    <3>2. \A i, j \in F : f[i] = f[j] => i = j
      BY <1>3
    <3> QED
      BY <3>1, <3>2 DEF Injection, IsInjective
  <2> HIDE DEF f, F
  <2> QED
    BY <1>5, <2>1, FS_Injection
<1>7. Cardinality(P) <= G => F = P
  <2>1. ASSUME Cardinality(P) <= G, NEW i \in P PROVE rank[i] < G
    BY <1>1, <1>2, <2>1
  <2> QED
    BY <2>1
<1>8. ASSUME P \ F # {}
      PROVE  Cardinality(F) = G
  <2>1. PICK i \in P : rank[i] >= G
    <3>1. PICK k \in P : ~(rank[k] < G)
      BY <1>8
    <3> QED
      BY <1>2, <3>1
  \* the ranks of P are all numbers below its cardinality
  <2> DEFINE c == Cardinality(P)
  <2>2. rank \in Injection(P, 0..(c - 1))
    <3>1. rank \in [P -> 0..(c - 1)]
      <4>1. \A k \in P : rank[k] \in 0..(c - 1)
        BY <1>1, <1>2
      <4> QED
        BY <4>1 DEF rank
    <3> QED
      BY <1>3, <3>1 DEF Injection, IsInjective
  <2>3. IsFiniteSet(0..(c - 1)) /\ Cardinality(0..(c - 1)) = c
    <3>1. 0 \in Int /\ c - 1 \in Int /\ c \in Nat
      BY <1>1
    <3> HIDE DEF c
    <3> QED
      BY <3>1, FS_Interval
  <2>4. rank \in Surjection(P, 0..(c - 1))
    <3> HIDE DEF c
    <3> QED
      BY <2>2, <2>3, FS_Injection DEF c
  <2> DEFINE g == [v \in F |-> rank[v]]
  <2>5. g \in Surjection(F, 0..(G - 1))
    <3>1. \A x \in 0..(G - 1) : x \in 0..(c - 1)
      BY <1>1, <1>2, <2>1
    <3>2. \A x \in 0..(G - 1) : \E k \in P : rank[k] = x
      BY <2>4, <3>1 DEF Surjection
    <3>3. \A x \in 0..(G - 1) : \E k \in F : g[k] = x
      BY <3>2
    <3>4. g \in [F -> 0..(G - 1)]
      BY <1>10
    <3> QED
      BY <3>3, <3>4 DEF Surjection
  <2>6. G <= Cardinality(F)
    <3> HIDE DEF g, F
    <3> QED
      BY <1>4, <1>5, <2>5, FS_Surjection
  <2> QED
    BY <1>4, <1>6, <2>6
<1>9. F = {i \in P : Cardinality({j \in P : j < i}) < G}
  BY DEF rank, Below
<1> HIDE DEF F
<1> QED
  BY <1>4, <1>6, <1>7, <1>8, <1>9 DEF F

\* The next multiple of G.
LEMMA Multiples ==
  ASSUME NEW G \in Nat \ {0}, NEW a \in Nat, a % G = 0
  PROVE  /\ (a + G) % G = 0
         /\ \A b \in Nat : a < b /\ b <= a + G /\ b % G = 0 => b = a + G
<1>1. PICK p \in Int : a = G * p
  <2>1. a = G * (a \div G) + (a % G)
    BY Z3
  <2>2. a \div G \in Int
    OBVIOUS
  <2> QED
    BY <2>1, <2>2
<1>2. (a + G) % G = 0
  <2>1. PICK r \in Int : a + G = G * r
    <3>1. a + G = G * (p + 1) /\ p + 1 \in Int
      BY <1>1
    <3> QED
      BY <3>1
  <2>2. (G * r) % G = 0
    OBVIOUS
  <2> QED
    BY <2>1, <2>2
<1>3. ASSUME NEW b \in Nat, a < b, b <= a + G, b % G = 0
      PROVE  b = a + G
  <2>1. PICK r \in Int : b = G * r
    <3>1. b = G * (b \div G) + (b % G)
      BY Z3
    <3>2. b \div G \in Int
      OBVIOUS
    <3> QED
      BY <1>3, <3>1, <3>2
  <2>2. CASE r <= p
    <3>1. G * r <= G * p
      BY <2>2
    <3> QED
      BY <1>1, <1>3, <2>1, <3>1
  <2>3. CASE r = p + 1
    BY <1>1, <2>1, <2>3
  <2>4. CASE r >= p + 2
    <3>1. G * r >= G * (p + 2)
      BY <2>4
    <3>2. G * (p + 2) = G * p + G + G
      OBVIOUS
    <3> QED
      BY <1>1, <1>3, <2>1, <3>1, <3>2
  <2> QED
    BY <2>2, <2>3, <2>4
<1> QED
  BY <1>2, <1>3

\* A set onto which a finite set is mapped, with a finite set, has finite subsets.
LEMMA ImagesFinite ==
  ASSUME NEW S, IsFiniteSet(S), NEW T, NEW f \in Surjection(S, T),
         NEW others, IsFiniteSet(others), NEW all \in SUBSET (others \cup T)
  PROVE  IsFiniteSet(all)
<1>1. IsFiniteSet(others \cup T)
  BY FS_Surjection, FS_Union
<1> QED
  BY <1>1, FS_Subset

-----------------------------------------------------------------------------
(* The inductive invariant.                                                *)

USE GroupSizeAssumption, BoundsAssumption

\* A list is shown while it has tasks, in an epoch that is not the initial one.
ListIsShown == DOMAIN allTaskList # {} => isCallBatchAPI /\ epoch # 0

\* A request of this epoch is for a task that is no longer pending.
SendsAreStarted ==
  /\ IsFiniteSet(sends)
  /\ \A s \in sends :
       /\ s.epoch <= epoch
       /\ s.epoch = epoch /\ s.task # Once =>
            s.task \in DOMAIN allTaskList /\ allTaskList[s.task] # "pending"

PendingIn(list) == TasksIn(list, {"pending"})
RunningIn(list) == TasksIn(list, {"running"})
OverIn(list)    == TasksIn(list, Over)

\* While rows are pending, the groups that were started are those of the count at
\* which one was last added and one more, and it has a row that is not over.
GroupsHold(list, group) ==
  PendingIn(list) # {} =>
    /\ group % GroupSize = 0
    /\ Cardinality(RunningIn(list)) + Cardinality(OverIn(list)) = group + GroupSize
    /\ group <= Cardinality(OverIn(list)) + 1
    /\ RunningIn(list) # {}

ListBounded(list) == Cardinality(RunningIn(list)) <= GroupSize + 1

-----------------------------------------------------------------------------
(* Sets of tasks, and of requests.                                         *)

\* The sets of tasks of a list are finite, and together the list.
LEMMA TaskSets ==
  ASSUME NEW n \in 0..MaxRows, NEW list \in [1..n -> Statuses], NEW S
  PROVE  /\ DOMAIN list = 1..n /\ Len(list) = n
         /\ IsFiniteSet(TasksIn(list, S)) /\ Cardinality(TasksIn(list, S)) \in 0..n
<1>1. IsFiniteSet(1..n) /\ Cardinality(1..n) = n
  BY FS_Interval
<1>2. TasksIn(list, S) \in SUBSET (1..n)
  BY DEF TasksIn
<1>3. /\ IsFiniteSet(TasksIn(list, S)) /\ Cardinality(TasksIn(list, S)) <= n
      /\ Cardinality(TasksIn(list, S)) \in Nat
  BY <1>1, <1>2, FS_Subset, FS_CardinalityType
<1>4. Len(list) = n
  <2>1. list \in Seq(Statuses)
    OBVIOUS
  <2> QED
    BY <2>1
<1> QED
  BY <1>3, <1>4

\* A new request is numbered, among finitely many.
LEMMA NewSendType ==
  ASSUME NEW k, NEW in, NEW ep, NEW others, IsFiniteSet(others),
         \A s \in others : s.no \in Nat
  PROVE  /\ NewSend(k, in, ep, others).task = k
         /\ NewSend(k, in, ep, others).inst = in
         /\ NewSend(k, in, ep, others).epoch = ep
         /\ NewSend(k, in, ep, others).no \in Nat
<1> DEFINE Free(n) == ~ \E s \in others : s.task = k /\ s.inst = in /\ s.epoch = ep /\ s.no = n
           c == Cardinality(others)
<1>1. c \in Nat /\ IsFiniteSet(0..c) /\ Cardinality(0..c) = c + 1
  BY FS_CardinalityType, FS_Interval
<1>2. \E n \in 0..c : Free(n)
  <2> SUFFICES ASSUME \A n \in 0..c : ~Free(n) PROVE FALSE
    OBVIOUS
  <2> DEFINE f == [n \in 0..c |-> CHOOSE s \in others : s.no = n]
  <2>1. \A n \in 0..c : f[n] \in others /\ f[n].no = n
    OBVIOUS
  <2>2. f \in [0..c -> others]
    BY <2>1
  <2>3. PICK x, y \in 0..c : x # y /\ f[x] = f[y]
    <3> HIDE DEF f, c
    <3> QED
      BY <1>1, <2>2, FS_PigeonHole DEF c
  <2> QED
    BY <2>1, <2>3
<1>3. (CHOOSE n \in 0..c : Free(n)) \in 0..c
  BY <1>2
<1> QED
  BY <1>1, <1>3 DEF NewSend

-----------------------------------------------------------------------------
(* A render.                                                               *)

LEMMA MountedKeys ==
  ASSUME NEW batch \in BOOLEAN, NEW n \in 0..MaxRows, NEW list \in [1..n -> Statuses]
  PROVE  MountedIn(batch, list) \in SUBSET Keys /\ IsFiniteSet(MountedIn(batch, list))
<1>1. IsFiniteSet(TasksIn(list, Statuses \ {"pending"}))
  BY TaskSets
<1>2. IsFiniteSet({Once})
  BY FS_Singleton
<1> QED
  BY <1>1, <1>2 DEF MountedIn, TasksIn, Keys

\* The requests that a render leaves open are those it found and one or two of each
\* component that is due to send.  A component that says it is responding has sent
\* one, or was responding already; one that is due and may send has one.
Rendered(batch, list, ep, retry, resp, may, left) ==
  LET mounted == MountedIn(batch, list)
      kept    == mounted \cap MountedIn(isCallBatchAPI, allTaskList)
  IN /\ isCallBatchAPI' = batch /\ allTaskList' = list /\ epoch' = ep
     /\ controlRetry' = retry
     /\ inst' \in [Keys -> Epochs] /\ isResponding' \in [Keys -> BOOLEAN]
     /\ left \subseteq sends' /\ IsFiniteSet(sends')
     /\ \A s \in sends' \ left :
          s.task \in mounted /\ s.inst = inst'[s.task] /\ s.epoch = ep /\ s.no \in Nat
     /\ \A k \in Keys : isResponding'[k] =>
          \/ \E s \in sends' : s.task = k /\ s.inst = inst'[k]
          \/ k \in kept /\ resp[k] /\ inst'[k] = inst[k]
     /\ \A k \in mounted : may /\ ep # 0 /\ (k \notin kept \/ (ep # epoch /\ ~resp[k])) =>
          \E s \in sends' : s.task = k

LEMMA RenderEffects ==
  ASSUME TypeOK, NEW batch \in BOOLEAN, NEW n \in 0..MaxRows,
         NEW list \in [1..n -> Statuses], NEW ep \in Epochs, NEW retry \in BOOLEAN,
         NEW clicked \in BOOLEAN, NEW resp \in [Keys -> BOOLEAN], NEW may \in BOOLEAN,
         NEW left \in SUBSET sends, IsFiniteSet(left),
         Render(batch, list, ep, retry, clicked, resp, may, left)
  PROVE  Rendered(batch, list, ep, retry, resp, may, left)
<1> DEFINE mounted  == MountedIn(batch, list)
           kept     == mounted \cap MountedIn(isCallBatchAPI, allTaskList)
           free     == {k \in mounted : may /\ (k \in kept => ~ resp[k])}
           sending  == SendDue(mounted, kept, ep) \cap free
           retrying == RetryDue(mounted, kept, list, retry, clicked) \cap free
           inst2    == [k \in Keys |-> IF k \notin mounted THEN 0
                                       ELSE IF k \in kept THEN inst[k] ELSE ep]
           first    == left \cup {NewSend(k, inst2[k], ep, left) : k \in sending}
           all      == first \cup {NewSend(k, inst2[k], ep, first) : k \in retrying}
           resp2    == [k \in Keys |-> \/ k \in sending \cup retrying
                                       \/ k \in kept /\ resp[k] /\ ~ (batch /\ ep # epoch)]
<1>1. /\ isCallBatchAPI' = batch /\ allTaskList' = list /\ epoch' = ep
      /\ controlRetry' = retry /\ inst' = inst2 /\ sends' = all /\ isResponding' = resp2
  BY DEF Render
<1>2. mounted \in SUBSET Keys /\ IsFiniteSet(mounted)
  BY MountedKeys
<1>3. inst2 \in [Keys -> Epochs]
  BY DEF TypeOK, Epochs
<1>4. resp2 \in [Keys -> BOOLEAN]
  OBVIOUS
<1> HIDE DEF mounted
<1>5. IsFiniteSet(sending) /\ IsFiniteSet(retrying)
  <2>1. sending \in SUBSET mounted /\ retrying \in SUBSET mounted
    OBVIOUS
  <2> HIDE DEF sending, retrying
  <2> QED
    BY <1>2, <2>1, FS_Subset
<1>6. sending \in SUBSET mounted /\ retrying \in SUBSET mounted
  OBVIOUS
<1>7. \A k \in Keys : resp2[k] =>
        \/ k \in sending \cup retrying
        \/ k \in kept /\ resp[k] /\ inst2[k] = inst[k]
  OBVIOUS
<1>8. \A k \in mounted : may /\ ep # 0 /\ (k \notin kept \/ (ep # epoch /\ ~resp[k])) =>
        k \in sending
  BY DEF SendDue
<1> HIDE DEF kept, free, sending, retrying, inst2, resp2
<1>9. IsFiniteSet(first) /\ IsFiniteSet(all)
  <2> DEFINE f == [k \in sending |-> NewSend(k, inst2[k], ep, left)]
             g == [k \in retrying |-> NewSend(k, inst2[k], ep, first)]
             F == {f[k] : k \in sending}
             G == {g[k] : k \in retrying}
  <2>1. f \in Surjection(sending, F) /\ g \in Surjection(retrying, G)
    BY DEF Surjection
  <2>2. first \in SUBSET (left \cup F) /\ all \in SUBSET (first \cup G)
    OBVIOUS
  <2> HIDE DEF first, all, f, g, F, G
  <2>3. IsFiniteSet(first)
    BY <1>5, <2>1, <2>2, ImagesFinite
  <2> QED
    BY <1>5, <2>1, <2>2, <2>3, ImagesFinite
<1>10. \A s \in left : s.no \in Nat
  BY DEF TypeOK
<1>11. \A k \in sending : LET s == NewSend(k, inst2[k], ep, left)
         IN s.task = k /\ s.inst = inst2[k] /\ s.epoch = ep /\ s.no \in Nat
  BY <1>10, NewSendType
<1>12. \A s \in first : s.no \in Nat
  BY <1>10, <1>11
<1> HIDE DEF first
<1>13. \A k \in retrying : LET s == NewSend(k, inst2[k], ep, first)
         IN s.task = k /\ s.inst = inst2[k] /\ s.epoch = ep /\ s.no \in Nat
  BY <1>9, <1>12, NewSendType
<1>14. \A s \in all \ left :
         s.task \in mounted /\ s.inst = inst2[s.task] /\ s.epoch = ep /\ s.no \in Nat
  <2> SUFFICES ASSUME NEW s \in all, s \notin left
               PROVE  s.task \in mounted /\ s.inst = inst2[s.task] /\ s.epoch = ep /\ s.no \in Nat
    OBVIOUS
  <2>1. CASE s \in first
    <3>1. PICK k \in sending : s = NewSend(k, inst2[k], ep, left)
      BY <2>1 DEF first
    <3> QED
      BY <1>6, <1>11, <3>1
  <2>2. CASE s \notin first
    <3>1. PICK k \in retrying : s = NewSend(k, inst2[k], ep, first)
      BY <2>2
    <3> QED
      BY <1>6, <1>13, <3>1
  <2> QED
    BY <2>1, <2>2
<1>15. \A k \in sending \cup retrying : \E s \in all : s.task = k /\ s.inst = inst2[k]
  BY <1>11, <1>13 DEF first
<1>16. left \subseteq all
  BY DEF first
<1> HIDE DEF all
<1>17. \A k \in Keys : isResponding'[k] =>
         \/ \E s \in sends' : s.task = k /\ s.inst = inst'[k]
         \/ k \in kept /\ resp[k] /\ inst'[k] = inst[k]
  BY <1>1, <1>7, <1>15
<1>18. \A k \in mounted : may /\ ep # 0 /\ (k \notin kept \/ (ep # epoch /\ ~resp[k])) =>
         \E s \in sends' : s.task = k
  BY <1>1, <1>8, <1>15
<1> QED
  BY <1>1, <1>3, <1>4, <1>9, <1>14, <1>16, <1>17, <1>18 DEF kept, mounted, Rendered

\* A component that goes on responding has a request left, a task that runs has one
\* or may send one, and the requests left are of earlier epochs or of started tasks.
Answered(n, list, ep, resp, may, left) ==
  /\ \A k \in MountedIn(isCallBatchAPI, allTaskList) : resp[k] =>
       \E s \in left : s.task = k /\ s.inst = inst[k]
  /\ \A i \in 1..n : list[i] = "running" =>
       \/ \E s \in left : s.task = i
       \/ may /\ i \notin MountedIn(isCallBatchAPI, allTaskList)
       \/ may /\ ep # epoch
  /\ \A s \in left : /\ s.epoch <= ep
                     /\ s.epoch = ep /\ s.task # Once =>
                          s.task \in 1..n /\ list[s.task] # "pending"

\* Such a render keeps the invariant.
LEMMA RenderKeeps ==
  ASSUME TypeOK, NEW batch \in BOOLEAN, NEW n \in 0..MaxRows,
         NEW list \in [1..n -> Statuses], NEW ep \in Epochs, NEW retry \in BOOLEAN,
         NEW clicked \in BOOLEAN, NEW resp \in [Keys -> BOOLEAN], NEW may \in BOOLEAN,
         NEW left \in SUBSET sends, IsFiniteSet(left),
         Render(batch, list, ep, retry, clicked, resp, may, left),
         currGroupNum' \in 0..(MaxRows + 1), strays' \in BOOLEAN, beat' \in BOOLEAN,
         n # 0 => batch /\ ep # 0,
         Answered(n, list, ep, resp, may, left)
  PROVE  TypeOK' /\ ListIsShown' /\ SendsAreStarted' /\ SpinnersEnd'
<1> USE DEF Answered
<1> DEFINE mounted == MountedIn(batch, list)
           kept    == mounted \cap MountedIn(isCallBatchAPI, allTaskList)
<1>1. /\ isCallBatchAPI' = batch /\ allTaskList' = list /\ epoch' = ep
      /\ controlRetry' = retry
      /\ inst' \in [Keys -> Epochs] /\ isResponding' \in [Keys -> BOOLEAN]
      /\ left \subseteq sends' /\ IsFiniteSet(sends')
      /\ \A s \in sends' \ left :
           s.task \in mounted /\ s.inst = inst'[s.task] /\ s.epoch = ep /\ s.no \in Nat
      /\ \A k \in Keys : isResponding'[k] =>
           \/ \E s \in sends' : s.task = k /\ s.inst = inst'[k]
           \/ k \in kept /\ resp[k] /\ inst'[k] = inst[k]
      /\ \A k \in mounted : may /\ ep # 0 /\ (k \notin kept \/ (ep # epoch /\ ~resp[k])) =>
           \E s \in sends' : s.task = k
  <2>1. Rendered(batch, list, ep, retry, resp, may, left)
    BY RenderEffects
  <2> QED
    BY <2>1 DEF Rendered
<1>2. mounted \in SUBSET Keys
  BY MountedKeys
<1>3. mounted = IF batch THEN {i \in 1..n : list[i] # "pending"} ELSE {Once}
  BY TaskSets DEF MountedIn, TasksIn, Statuses
<1> HIDE DEF mounted
<1>4. TypeOK'
  <2>1. ASSUME NEW s \in sends'
        PROVE  s.task \in Keys /\ s.inst \in Epochs /\ s.epoch \in Epochs /\ s.no \in Nat
    <3>1. CASE s \in left
      BY <3>1 DEF TypeOK
    <3>2. CASE s \notin left
      BY <1>1, <1>2, <3>2
    <3> QED
      BY <3>1, <3>2
  <2>2. isCallBatchAPI' \in BOOLEAN /\ epoch' \in Epochs /\ controlRetry' \in BOOLEAN
    BY <1>1
  <2>3. \E m \in 0..MaxRows : allTaskList' \in [1..m -> Statuses]
    BY <1>1
  <2> QED
    BY <1>1, <2>1, <2>2, <2>3 DEF TypeOK
<1>5. ListIsShown'
  BY <1>1 DEF ListIsShown
<1>6. SendsAreStarted'
  <2>1. ASSUME NEW s \in sends'
        PROVE  /\ s.epoch <= ep
               /\ s.epoch = ep /\ s.task # Once =>
                    s.task \in 1..n /\ list[s.task] # "pending"
    <3>1. CASE s \notin left
      <4>1. s.task \in mounted /\ s.epoch = ep /\ ep \in Nat
        BY <1>1, <3>1 DEF Epochs
      <4>2. s.task # Once => s.task \in 1..n /\ list[s.task] # "pending"
        BY <1>3, <4>1
      <4> QED
        BY <4>1, <4>2
    <3> QED
      BY <3>1
  <2> QED
    BY <1>1, <2>1 DEF SendsAreStarted
<1>7. SpinnersEnd'
  <2>1. ASSUME NEW i \in 1..n, list[i] = "running"
        PROVE  \E s \in sends' : s.task = i
    <3>1. CASE \E s \in left : s.task = i
      BY <1>1, <3>1
    <3>2. CASE may /\ i \notin MountedIn(isCallBatchAPI, allTaskList)
      BY <1>1, <1>3, <2>1, <3>2
    <3>3. CASE may /\ ep # epoch /\ ~ \E s \in left : s.task = i
      <4>1. i \in mounted
        BY <1>3, <2>1
      <4>2. i \in kept => ~resp[i]
        BY <3>3
      <4> QED
        BY <1>1, <3>3, <4>1, <4>2
    <3> QED
      BY <2>1, <3>1, <3>2, <3>3
  <2>2. ASSUME NEW k \in mounted, isResponding'[k]
        PROVE  \E s \in sends' : s.task = k /\ s.inst = inst'[k]
    BY <1>1, <1>2, <2>2
  <2>3. Running' = {i \in 1..n : list[i] = "running"}
    BY <1>1 DEF Running, TasksIn
  <2>4. MountedIn(isCallBatchAPI, allTaskList)' = mounted
    BY <1>1 DEF MountedIn, TasksIn, mounted
  <2> QED
    BY <2>1, <2>2, <2>3, <2>4 DEF SpinnersEnd
<1> QED
  BY <1>4, <1>5, <1>6, <1>7

-----------------------------------------------------------------------------
(* Types, and the requests of the rows that run.                           *)

SpinnersInv == TypeOK /\ ListIsShown /\ SendsAreStarted /\ SpinnersEnd

\* The lists that the end of a request of t makes of one: only t and pending tasks
\* change, t is over, and the others are started.
ListEnds(n, list, t, list2) ==
  /\ list2 \in [1..n -> Statuses]
  /\ \A i \in 1..n : i # t /\ list2[i] # list[i] => list[i] = "pending" /\ list2[i] = "running"
  /\ \A i \in 1..n : i = t => list2[i] \in Over

\* handleCompleted makes such a list.
LEMMA ListAfterEffects ==
  ASSUME NEW n \in 0..MaxRows, NEW list \in [1..n -> Statuses],
         NEW group \in 0..(MaxRows + 1), NEW t, NEW isSuccess \in BOOLEAN
  PROVE  /\ ListEnds(n, list, t, ListAfter(list, group, t, isSuccess))
         /\ GroupAfter(list, group) \in 0..(MaxRows + 1)
<1>1. DOMAIN list = 1..n
  OBVIOUS
<1>2. NextPendingTaskIds(list, group) \subseteq TasksIn(list, {"pending"})
  BY DEF NextPendingTaskIds
<1>3. \A i \in NextPendingTaskIds(list, group) : list[i] = "pending"
  BY <1>2 DEF TasksIn
<1>4. ListAfter(list, group, t, isSuccess) =
        [i \in 1..n |-> IF i = t THEN (IF isSuccess THEN "completed" ELSE "failed")
                        ELSE IF i \in NextPendingTaskIds(list, group) THEN "running" ELSE list[i]]
  BY <1>1 DEF ListAfter
<1>5. GroupAfter(list, group) \in 0..(MaxRows + 1)
  <2>1. Cardinality(TasksIn(list, Over)) \in 0..n
    BY TaskSets
  <2>2. RunTasksCount(list) \in 0..(MaxRows + 1)
    BY <2>1 DEF RunTasksCount
  <2> QED
    BY <2>2 DEF GroupAfter
<1> QED
  BY <1>3, <1>4, <1>5 DEF Statuses, Over, ListEnds

LEMMA EndsSpinners ==
  ASSUME SpinnersInv, NEW s \in sends, NEW n \in 0..MaxRows,
         allTaskList \in [1..n -> Statuses], NEW list, ListEnds(n, allTaskList, s.task, list),
         NEW group \in 0..(MaxRows + 1), Ends(s, list, group)
  PROVE  SpinnersInv'
<1> USE DEF SpinnersInv
<1> DEFINE batch == isCallBatchAPI
           alive == s.task \in MountedIn(isCallBatchAPI, allTaskList) /\ inst[s.task] = s.inst
           resp  == [isResponding EXCEPT ![s.task] = @ /\ ~ alive]
           left  == sends \ {s}
<1>2. /\ list \in [1..n -> Statuses]
      /\ \A i \in 1..n : i # s.task /\ list[i] # allTaskList[i] =>
           allTaskList[i] = "pending" /\ list[i] = "running"
      /\ \A i \in 1..n : i = s.task => list[i] \in Over
  BY DEF ListEnds
<1>3. Render(batch, list, epoch, controlRetry, FALSE, resp, TRUE, left)
  BY DEF Ends
<1>4. resp \in [Keys -> BOOLEAN]
  BY DEF TypeOK
<1>5. /\ currGroupNum' \in 0..(MaxRows + 1) /\ strays' \in BOOLEAN /\ beat' \in BOOLEAN
      /\ batch \in BOOLEAN /\ epoch \in Epochs /\ controlRetry \in BOOLEAN
  BY DEF Ends, TypeOK
<1>6. left \in SUBSET sends /\ IsFiniteSet(left)
  BY FS_Subset DEF SendsAreStarted
<1>7. n # 0 => batch /\ epoch # 0
  <2>1. n # 0 => 1 \in DOMAIN allTaskList
    OBVIOUS
  <2> QED
    BY <2>1 DEF ListIsShown
<1>8. ASSUME NEW k \in MountedIn(isCallBatchAPI, allTaskList), resp[k]
      PROVE  \E r \in left : r.task = k /\ r.inst = inst[k]
  <2>1. k \in Keys
    BY MountedKeys DEF TypeOK
  <2>2. isResponding[k] /\ ~(k = s.task /\ inst[k] = s.inst)
    BY <1>8, <2>1 DEF TypeOK
  <2> QED
    BY <2>2 DEF SpinnersEnd
<1>9. ASSUME NEW i \in 1..n, list[i] = "running"
      PROVE  \/ \E r \in left : r.task = i
             \/ i \notin MountedIn(isCallBatchAPI, allTaskList)
  <2>1. i # s.task
    BY <1>2, <1>9 DEF Over
  <2>2. CASE allTaskList[i] = "running"
    <3>1. i \in Running
      BY <2>2 DEF Running, TasksIn
    <3> QED
      BY <2>1, <3>1 DEF SpinnersEnd
  <2>3. CASE allTaskList[i] = "pending"
    BY <1>7, <2>3 DEF MountedIn, TasksIn
  <2> QED
    BY <1>2, <1>9, <2>1, <2>2, <2>3
<1>10. ASSUME NEW r \in left
       PROVE  /\ r.epoch <= epoch
              /\ r.epoch = epoch /\ r.task # Once => r.task \in 1..n /\ list[r.task] # "pending"
  BY <1>2 DEF SendsAreStarted, Over
<1>11. Answered(n, list, epoch, resp, TRUE, left)
  BY <1>8, <1>9, <1>10 DEF Answered
<1> HIDE DEF SpinnersInv, batch, resp, left
<1>12. TypeOK' /\ ListIsShown' /\ SendsAreStarted' /\ SpinnersEnd'
  <2>1. TypeOK
    BY DEF SpinnersInv
  <2> QED
    BY <1>2, <1>3, <1>4, <1>5, <1>6, <1>7, <1>11, <2>1, RenderKeeps
<1> QED
  BY <1>12 DEF SpinnersInv

LEMMA CompletesSpinners ==
  ASSUME SpinnersInv, NEW s \in sends, NEW isSuccess \in BOOLEAN, Completes(s, isSuccess)
  PROVE  SpinnersInv'
<1> DEFINE list == ListAfter(allTaskList, currGroupNum, s.task, isSuccess)
           group == GroupAfter(allTaskList, currGroupNum)
<1>1. PICK n \in 0..MaxRows : allTaskList \in [1..n -> Statuses]
  BY DEF SpinnersInv, TypeOK
<1>2. currGroupNum \in 0..(MaxRows + 1)
  BY DEF SpinnersInv, TypeOK
<1>3. ListEnds(n, allTaskList, s.task, list) /\ group \in 0..(MaxRows + 1)
  BY <1>1, <1>2, ListAfterEffects
<1>4. Ends(s, list, group)
  BY DEF Completes
<1> HIDE DEF list, group
<1> QED
  BY <1>1, <1>3, <1>4, EndsSpinners

\* Twice the same: what the first call made running or over, the second leaves so.
LEMMA StreamErrorSpinners ==
  ASSUME SpinnersInv, NEW s \in sends, StreamError(s)
  PROVE  SpinnersInv'
<1> DEFINE t == s.task
           list == ListAfter(allTaskList, currGroupNum, t, FALSE)
           group == GroupAfter(allTaskList, currGroupNum)
           list2 == ListAfter(list, group, t, TRUE)
           group2 == GroupAfter(list, group)
<1>1. PICK n \in 0..MaxRows : allTaskList \in [1..n -> Statuses]
  BY DEF SpinnersInv, TypeOK
<1>2. currGroupNum \in 0..(MaxRows + 1)
  BY DEF SpinnersInv, TypeOK
<1>3. Ends(s, list2, group2)
  BY DEF StreamError
<1> HIDE DEF t
<1>4. ListEnds(n, allTaskList, t, list) /\ group \in 0..(MaxRows + 1)
  BY <1>1, <1>2, ListAfterEffects
<1>5. list \in [1..n -> Statuses]
  BY <1>4 DEF ListEnds
<1> HIDE DEF list, group
<1>6. ListEnds(n, list, t, list2) /\ group2 \in 0..(MaxRows + 1)
  BY <1>4, <1>5, ListAfterEffects
<1> HIDE DEF list2, group2
<1>7. ListEnds(n, allTaskList, t, list2)
  BY <1>4, <1>6 DEF ListEnds, Over
<1> QED
  BY <1>1, <1>3, <1>6, <1>7, EndsSpinners DEF t

\* The presses that make a new list, or render the list again.
LEMMA PressSpinners ==
  ASSUME SpinnersInv, NEW batch \in BOOLEAN, NEW n \in 0..MaxRows,
         NEW list \in [1..n -> Statuses], NEW ep \in Epochs, NEW retry \in BOOLEAN,
         NEW clicked \in BOOLEAN, NEW may \in BOOLEAN,
         Render(batch, list, ep, retry, clicked, isResponding, may, sends),
         currGroupNum' \in 0..(MaxRows + 1), strays' \in BOOLEAN, UNCHANGED beat,
         n # 0 => batch,
         \/ ep = epoch + 1 /\ (n # 0 => may)
         \/ ep = epoch /\ list = allTaskList
  PROVE  SpinnersInv'
<1>1. TypeOK /\ IsFiniteSet(sends) /\ epoch \in Nat /\ beat' \in BOOLEAN
  BY DEF SpinnersInv, SendsAreStarted, TypeOK, Epochs
<1>2. n # 0 => ep # 0
  <2>1. list = allTaskList /\ n # 0 => 1 \in DOMAIN allTaskList
    OBVIOUS
  <2> QED
    BY <1>1, <2>1 DEF SpinnersInv, ListIsShown
<1>3. \A k \in MountedIn(isCallBatchAPI, allTaskList) : isResponding[k] =>
        \E s \in sends : s.task = k /\ s.inst = inst[k]
  BY DEF SpinnersInv, SpinnersEnd
<1>4. ASSUME NEW i \in 1..n, list[i] = "running"
      PROVE  \/ \E s \in sends : s.task = i
             \/ may /\ ep # epoch
  <2>1. CASE list = allTaskList
    <3>1. i \in Running
      BY <1>4, <2>1 DEF Running, TasksIn
    <3> QED
      BY <3>1 DEF SpinnersInv, SpinnersEnd
  <2> QED
    BY <1>1, <2>1
<1>5. ASSUME NEW s \in sends
      PROVE  /\ s.epoch <= ep
             /\ s.epoch = ep /\ s.task # Once => s.task \in 1..n /\ list[s.task] # "pending"
  <2>1. s.epoch \in Nat
    BY <1>1 DEF TypeOK, Epochs
  <2> QED
    BY <1>1, <2>1 DEF SpinnersInv, SendsAreStarted
<1>6. isResponding \in [Keys -> BOOLEAN] /\ sends \in SUBSET sends
  BY <1>1 DEF TypeOK
<1>7. Answered(n, list, ep, isResponding, may, sends)
  BY <1>3, <1>4, <1>5 DEF Answered
<1>8. TypeOK' /\ ListIsShown' /\ SendsAreStarted' /\ SpinnersEnd'
  BY <1>1, <1>2, <1>6, <1>7, RenderKeeps
<1> QED
  BY <1>8 DEF SpinnersInv

\* The retry button of one row.
LEMMA RetryOneSpinners ==
  ASSUME SpinnersInv, NEW i \in DOMAIN allTaskList, RetryOne(i)
  PROVE  SpinnersInv'
<1> USE DEF SpinnersInv
<1> DEFINE new == NewSend(i, inst[i], epoch, sends)
<1>1. PICK n \in 0..MaxRows : allTaskList \in [1..n -> Statuses]
  BY DEF TypeOK
<1>2. i \in 1..n /\ i \in Keys /\ i # Once
  BY <1>1 DEF Keys, Once
<1>3. new.task = i /\ new.inst = inst[i] /\ new.epoch = epoch /\ new.no \in Nat
  BY NewSendType DEF TypeOK, SendsAreStarted
<1> HIDE DEF new
<1>4. /\ sends' = sends \cup {new} /\ isResponding' = [isResponding EXCEPT ![i] = TRUE]
      /\ UNCHANGED <<isCallBatchAPI, allTaskList, currGroupNum, epoch, controlRetry, inst,
                     strays, beat>>
      /\ allTaskList[i] = "failed"
  BY DEF RetryOne, TasksIn, new
<1>5. IsFiniteSet(sends')
  BY <1>4, FS_AddElement DEF SendsAreStarted
<1>6. TypeOK'
  <2>1. inst[i] \in Epochs /\ epoch \in Epochs
    BY <1>2 DEF TypeOK
  <2>2. isResponding' \in [Keys -> BOOLEAN]
    BY <1>4 DEF TypeOK
  <2>3. \A s \in sends' : s.task \in Keys /\ s.inst \in Epochs /\ s.epoch \in Epochs /\ s.no \in Nat
    BY <1>2, <1>3, <1>4, <2>1 DEF TypeOK
  <2> QED
    BY <1>4, <2>2, <2>3 DEF TypeOK
<1>7. ListIsShown' /\ SendsAreStarted'
  <2>1. epoch \in Nat /\ DOMAIN allTaskList = 1..n
    BY <1>1 DEF TypeOK, Epochs
  <2> QED
    BY <1>2, <1>3, <1>4, <1>5, <2>1 DEF ListIsShown, SendsAreStarted
<1>8. SpinnersEnd'
  <2>1. Running' = Running /\ MountedIn(isCallBatchAPI, allTaskList)'
                                = MountedIn(isCallBatchAPI, allTaskList)
    BY <1>4 DEF Running, MountedIn, TasksIn
  <2>2. MountedIn(isCallBatchAPI, allTaskList) \subseteq Keys
    BY <1>1, MountedKeys DEF TypeOK
  <2>3. ASSUME NEW k \in MountedIn(isCallBatchAPI, allTaskList), isResponding'[k]
        PROVE  \E s \in sends' : s.task = k /\ s.inst = inst[k]
    <3>1. CASE k = i
      BY <1>3, <1>4, <3>1
    <3>2. CASE k # i
      <4>1. isResponding[k]
        BY <1>4, <2>2, <2>3, <3>2 DEF TypeOK
      <4> QED
        BY <1>4, <4>1 DEF SpinnersEnd
    <3> QED
      BY <3>1, <3>2
  <2> QED
    BY <1>4, <2>1, <2>3 DEF SpinnersEnd
<1> QED
  BY <1>6, <1>7, <1>8

LEMMA StepSpinners ==
  ASSUME SpinnersInv, [Next]_vars
  PROVE  SpinnersInv'
<1>0. PICK n \in 0..MaxRows : allTaskList \in [1..n -> Statuses]
  BY DEF SpinnersInv, TypeOK
<1>a. /\ epoch \in Nat /\ epoch \in Epochs /\ currGroupNum \in 0..(MaxRows + 1)
      /\ strays \in BOOLEAN /\ controlRetry \in BOOLEAN
  BY DEF SpinnersInv, TypeOK, Epochs
<1>1. CASE RunOnce
  <2>1. PICK may \in BOOLEAN :
          Render(FALSE, <<>>, epoch + 1, controlRetry, FALSE, isResponding, may, sends)
    BY <1>1 DEF RunOnce
  <2>2. <<>> \in [1..0 -> Statuses] /\ 0 \in 0..MaxRows /\ epoch + 1 \in Epochs
    BY <1>1, <1>a DEF RunOnce, Epochs
  <2>3. currGroupNum' = currGroupNum /\ strays' = strays /\ UNCHANGED beat
    BY <1>1 DEF RunOnce
  <2> QED
    BY <1>a, <2>1, <2>2, <2>3, PressSpinners
<1>2. ASSUME NEW m \in 1..MaxRows, RunBatch(m)
      PROVE  SpinnersInv'
  <2> DEFINE list == [i \in 1..m |-> IF i <= GroupSize THEN "running" ELSE "pending"]
  <2>1. Render(TRUE, list, epoch + 1, controlRetry, FALSE, isResponding, TRUE, sends)
    BY <1>2 DEF RunBatch
  <2>2. list \in [1..m -> Statuses] /\ m \in 0..MaxRows /\ epoch + 1 \in Epochs
    BY <1>2, <1>a DEF RunBatch, Epochs, Statuses
  <2>3. currGroupNum' = 0 /\ strays' = FALSE /\ UNCHANGED beat
    BY <1>2 DEF RunBatch
  <2>4. strays' \in BOOLEAN
    BY <2>3, Zenon
  <2>5. currGroupNum' \in 0..(MaxRows + 1)
    <3>1. 0 \in 0..(MaxRows + 1)
      OBVIOUS
    <3> QED
      BY <2>3, <3>1, Zenon
  <2> HIDE DEF list
  <2> QED
    BY <1>a, <2>1, <2>2, <2>3, <2>4, <2>5, PressSpinners
<1>3. CASE RetryAll
  <2>1. /\ Render(TRUE, allTaskList, epoch, TRUE, TRUE, isResponding, TRUE, sends)
        /\ currGroupNum' = currGroupNum /\ strays' = strays /\ UNCHANGED beat
    BY <1>3 DEF RetryAll
  <2> QED
    BY <1>0, <1>a, <2>1, PressSpinners
<1>4. CASE \E i \in DOMAIN allTaskList : RetryOne(i)
  BY <1>4, RetryOneSpinners
<1>5. CASE \E s \in sends : Answer(s) \/ Fails(s)
  BY <1>5, CompletesSpinners DEF Answer, Fails
<1>7. CASE \E s \in sends : StreamError(s)
  BY <1>7, StreamErrorSpinners
<1>6. CASE UNCHANGED vars
  BY <1>6 DEF vars, SpinnersInv, TypeOK, ListIsShown, SendsAreStarted, SpinnersEnd, Running,
              MountedIn, TasksIn
<1> QED
  BY <1>1, <1>2, <1>3, <1>4, <1>5, <1>6, <1>7 DEF Next

LEMMA InitSpinners == Init => SpinnersInv
<1> SUFFICES ASSUME Init PROVE SpinnersInv
  OBVIOUS
<1>1. TypeOK
  <2>1. <<>> \in [1..0 -> Statuses] /\ 0 \in 0..MaxRows /\ 0 \in Epochs
    BY DEF Epochs
  <2>2. /\ allTaskList = <<>> /\ inst \in [Keys -> Epochs] /\ isResponding \in [Keys -> BOOLEAN]
        /\ 0 \in 0..(MaxRows + 1)
    BY <2>1 DEF Init
  <2>3. \E n \in 0..MaxRows : allTaskList \in [1..n -> Statuses]
    BY <2>1, <2>2
  <2> QED
    BY <2>1, <2>2, <2>3 DEF Init, TypeOK
<1>2. ListIsShown
  BY DEF Init, ListIsShown
<1>3. SendsAreStarted
  BY FS_EmptySet DEF Init, SendsAreStarted
<1>4. SpinnersEnd
  BY DEF Init, SpinnersEnd, Running, TasksIn, MountedIn, Keys
<1> QED
  BY <1>1, <1>2, <1>3, <1>4 DEF SpinnersInv

LEMMA SpinnersInvariant == Spec => []SpinnersInv
BY InitSpinners, StepSpinners, PTL DEF Spec

\* The list, the components, the counts and the requests keep their types.
THEOREM TypeCorrect == Spec => []TypeOK
<1>1. SpinnersInv => TypeOK
  BY DEF SpinnersInv
<1> QED
  BY <1>1, SpinnersInvariant, PTL

\* A row that runs, and a component that responds, has a request that will end.
THEOREM NoSpinnerIsForever == Spec => []SpinnersEnd
<1>1. SpinnersInv => SpinnersEnd
  BY DEF SpinnersInv
<1> QED
  BY <1>1, SpinnersInvariant, PTL

-----------------------------------------------------------------------------
(* The groups.                                                             *)

\* The pending, running and over tasks are all tasks.
LEMMA Partition ==
  ASSUME NEW n \in 0..MaxRows, NEW list \in [1..n -> Statuses]
  PROVE  Cardinality(TasksIn(list, {"pending"})) + Cardinality(TasksIn(list, {"running"}))
           + Cardinality(TasksIn(list, Over)) = n
<1> DEFINE P == TasksIn(list, {"pending"})
           R == TasksIn(list, {"running"})
           O == TasksIn(list, Over)
<1>1. P \cap R = {} /\ (P \cup R) \cap O = {} /\ (P \cup R) \cup O = 1..n
  BY DEF TasksIn, Over, Statuses
<1>2. IsFiniteSet(P) /\ IsFiniteSet(R) /\ IsFiniteSet(O)
  BY TaskSets
<1>3. /\ Cardinality(P) \in Nat /\ Cardinality(R) \in Nat /\ Cardinality(O) \in Nat
      /\ Cardinality(1..n) = n
  BY <1>2, FS_CardinalityType, FS_Interval
<1> HIDE DEF P, R, O
<1>4. IsFiniteSet(P \cup R) /\ Cardinality(P \cup R) = Cardinality(P) + Cardinality(R)
  BY <1>1, <1>2, DisjointUnion
<1>5. Cardinality((P \cup R) \cup O) = Cardinality(P \cup R) + Cardinality(O)
  BY <1>1, <1>2, <1>4, DisjointUnion
<1> QED
  BY <1>1, <1>3, <1>4, <1>5 DEF P, R, O


\* The groups hold unless a request of an earlier batch has changed the list.
GroupsInv == strays \/ (GroupsHold(allTaskList, currGroupNum) /\ ListBounded(allTaskList))

\* The next group is the first pending tasks: a whole group, or all that are left.
LEMMA NextGroup ==
  ASSUME NEW n \in 0..MaxRows, NEW list \in [1..n -> Statuses], NEW group
  PROVE  LET F == NextPendingTaskIds(list, group)
             need == NeedToAddNextGroup(list, group)
         IN /\ F \subseteq PendingIn(list) /\ IsFiniteSet(F)
            /\ Cardinality(F) \in 0..GroupSize
            /\ PendingIn(list) \ F # {} /\ need => Cardinality(F) = GroupSize
            /\ need /\ Cardinality(PendingIn(list)) <= GroupSize => F = PendingIn(list)
            /\ ~need => F = {}
<1> DEFINE P == PendingIn(list)
           F == {i \in P : Cardinality({j \in P : j < i}) < GroupSize}
<1>1. P \in SUBSET (1..n) /\ n \in Nat
  BY DEF PendingIn, TasksIn
<1>2. /\ F \subseteq P /\ IsFiniteSet(F) /\ Cardinality(F) <= GroupSize
      /\ P \ F # {} => Cardinality(F) = GroupSize
      /\ Cardinality(P) <= GroupSize => F = P
  BY <1>1, FirstOnes
<1>3. NextPendingTaskIds(list, group) = IF NeedToAddNextGroup(list, group) THEN F ELSE {}
  BY DEF NextPendingTaskIds, PendingIn
<1> HIDE DEF F, P
<1>4. /\ IsFiniteSet({}) /\ Cardinality({}) = 0 /\ Cardinality(F) \in 0..GroupSize
      /\ 0 \in 0..GroupSize
  BY <1>2, FS_EmptySet, FS_CardinalityType
<1> QED
  BY <1>2, <1>3, <1>4 DEF P

\* The sets of tasks after handleCompleted.
LEMMA TasksAfter ==
  ASSUME NEW n \in 0..MaxRows, NEW list \in [1..n -> Statuses], NEW group, NEW t,
         NEW isSuccess \in BOOLEAN, t \in 1..n => list[t] # "pending"
  PROVE  LET F == NextPendingTaskIds(list, group)
             list2 == ListAfter(list, group, t, isSuccess)
         IN /\ RunningIn(list2) = (RunningIn(list) \ {t}) \cup F
            /\ OverIn(list2) = OverIn(list) \cup (RunningIn(list) \cap {t})
            /\ PendingIn(list2) = PendingIn(list) \ F
<1> DEFINE F == NextPendingTaskIds(list, group)
           list2 == ListAfter(list, group, t, isSuccess)
<1>1. F \subseteq PendingIn(list)
  BY NextGroup
<1>2. /\ RunningIn(list) = {i \in 1..n : list[i] = "running"}
      /\ PendingIn(list) = {i \in 1..n : list[i] = "pending"}
      /\ OverIn(list) = {i \in 1..n : list[i] \in Over}
  BY DEF RunningIn, PendingIn, OverIn, TasksIn
<1>3. list2 = [i \in 1..n |-> IF i = t THEN (IF isSuccess THEN "completed" ELSE "failed")
                             ELSE IF i \in F THEN "running" ELSE list[i]]
  BY DEF ListAfter
<1>4. /\ RunningIn(list2) = {i \in 1..n : list2[i] = "running"}
      /\ PendingIn(list2) = {i \in 1..n : list2[i] = "pending"}
      /\ OverIn(list2) = {i \in 1..n : list2[i] \in Over}
  BY <1>3 DEF RunningIn, PendingIn, OverIn, TasksIn
<1>5. \A i \in 1..n :
        /\ i = t => list2[i] \in Over
        /\ i # t /\ i \in F => list2[i] = "running"
        /\ i # t /\ i \notin F => list2[i] = list[i]
  BY <1>3 DEF Over
<1>6. \A i \in 1..n : list[i] \in Statuses
  OBVIOUS
<1>7. \A x \in Over : x # "running" /\ x # "pending"
  BY DEF Over
<1> HIDE DEF list2, F
<1>8. RunningIn(list2) = (RunningIn(list) \ {t}) \cup F
  BY <1>1, <1>2, <1>4, <1>5, <1>7
<1>9. PendingIn(list2) = PendingIn(list) \ F
  BY <1>1, <1>2, <1>4, <1>5, <1>7
<1>10. OverIn(list2) = OverIn(list) \cup (RunningIn(list) \cap {t})
  BY <1>1, <1>2, <1>4, <1>5, <1>6, <1>7 DEF Statuses, Over
<1> QED
  BY <1>8, <1>9, <1>10 DEF list2, F

\* A call of handleCompleted for a started task keeps the groups.
LEMMA GroupsKept ==
  ASSUME NEW n \in 0..MaxRows, NEW list \in [1..n -> Statuses],
         NEW group \in 0..(MaxRows + 1), NEW t, NEW isSuccess \in BOOLEAN,
         t \in 1..n => list[t] # "pending", GroupsHold(list, group), ListBounded(list)
  PROVE  LET list2 == ListAfter(list, group, t, isSuccess)
         IN GroupsHold(list2, GroupAfter(list, group)) /\ ListBounded(list2)
<1> DEFINE F == NextPendingTaskIds(list, group)
           list2 == ListAfter(list, group, t, isSuccess)
           group2 == GroupAfter(list, group)
           need == NeedToAddNextGroup(list, group)
           R == RunningIn(list)
           O == OverIn(list)
           P == PendingIn(list)
           R2 == RunningIn(list2)
           O2 == OverIn(list2)
           P2 == PendingIn(list2)
           r == Cardinality(R)
           o == Cardinality(O)
           p == Cardinality(P)
           f == Cardinality(F)
           c == RunTasksCount(list)
<1>5. group2 = IF need THEN c ELSE group
  BY DEF GroupAfter
<1>6. R2 = (R \ {t}) \cup F /\ O2 = O \cup (R \cap {t}) /\ P2 = P \ F
  BY TasksAfter
<1>7. /\ F \subseteq P /\ IsFiniteSet(F) /\ f \in 0..GroupSize
      /\ P \ F # {} /\ need => f = GroupSize
      /\ need /\ p <= GroupSize => F = P
      /\ ~need => F = {}
  BY NextGroup
<1>8. /\ IsFiniteSet(R) /\ IsFiniteSet(O) /\ IsFiniteSet(P)
      /\ r \in Nat /\ o \in Nat /\ p \in Nat /\ p + r + o = n /\ Len(list) = n
  BY TaskSets, Partition DEF RunningIn, OverIn, PendingIn
<1>9. c = o + 1
  BY <1>8 DEF RunTasksCount, OverIn
<1>10. need <=> group # c /\ P # {} /\ (c % GroupSize = 0 \/ n < c + GroupSize)
  BY <1>8 DEF NeedToAddNextGroup, PendingIn
<1>11. group \in Nat
  OBVIOUS
<1>2. R \cap P = {} /\ R \cap O = {}
  BY DEF RunningIn, PendingIn, OverIn, TasksIn, Over
<1>3. P # {} => /\ group % GroupSize = 0 /\ r + o = group + GroupSize
                /\ group <= o + 1 /\ R # {}
  BY DEF GroupsHold
<1>18. r <= GroupSize + 1
  BY DEF ListBounded
<1> SUFFICES /\ P2 # {} => /\ group2 % GroupSize = 0
                          /\ Cardinality(R2) + Cardinality(O2) = group2 + GroupSize
                          /\ group2 <= Cardinality(O2) + 1
                          /\ R2 # {}
             /\ Cardinality(R2) <= GroupSize + 1
  BY DEF GroupsHold, ListBounded
<1> HIDE DEF F, list2, group2, need, R, O, P, R2, O2, P2, c
<1>12. /\ IsFiniteSet(R \ {t})
       /\ Cardinality(R \ {t}) = IF t \in R THEN r - 1 ELSE r
  BY <1>8, FS_RemoveElement
<1>13. /\ t \in R => Cardinality(R2) = r - 1 + f /\ Cardinality(O2) = o + 1
       /\ t \notin R => Cardinality(R2) = r + f /\ Cardinality(O2) = o
  <2>3. Cardinality(R2) = Cardinality(R \ {t}) + f
    BY <1>2, <1>6, <1>7, <1>12, DisjointUnion
  <2>4. O2 = IF t \in R THEN O \cup {t} ELSE O
    BY <1>6
  <2>5. Cardinality(O2) = IF t \in R THEN o + 1 ELSE o
    BY <1>2, <1>8, <2>4, FS_AddElement
  <2> QED
    BY <1>12, <2>3, <2>5
<1>14. r # 0 <=> R # {}
  BY <1>8, FS_EmptySet
<1>15. R2 # {} <=> R \ {t} # {} \/ F # {}
  BY <1>6
<1>16. r > 1 => R \ {t} # {}
  <2>1. r > 1 => Cardinality(R \ {t}) # 0
    BY <1>8, <1>12
  <2> QED
    BY <1>12, <2>1, FS_EmptySet
<1>17. f = 0 <=> F = {}
  BY <1>7, FS_EmptySet
<1> HIDE DEF r, o, p, f
<1>19. CASE ~need
  <2>1. f = 0 /\ P2 = P /\ group2 = group
    BY <1>5, <1>6, <1>7, <1>17, <1>19
  <2>2. Cardinality(R2) <= GroupSize + 1
    BY <1>8, <1>13, <1>18, <2>1
  <2>3. ASSUME P # {}
        PROVE  /\ group % GroupSize = 0
               /\ Cardinality(R2) + Cardinality(O2) = group + GroupSize
               /\ group <= Cardinality(O2) + 1
               /\ R2 # {}
    <3>1. /\ group % GroupSize = 0 /\ r + o = group + GroupSize
          /\ group <= o + 1 /\ R # {}
      BY <1>3, <2>3
    <3>2. CASE t \in R
      <4>1. r # 1
        <5> SUFFICES ASSUME r = 1 PROVE FALSE
          OBVIOUS
        <5>1. c = group + GroupSize
          BY <1>8, <1>9, <1>11, <3>1
        <5>2. c % GroupSize = 0
          BY <1>11, <3>1, <5>1, Multiples
        <5> QED
          BY <1>10, <1>11, <1>19, <2>3, <5>1, <5>2
      <4>2. R2 # {}
        BY <1>8, <1>14, <1>15, <1>16, <3>1, <4>1
      <4> QED
        BY <1>8, <1>11, <1>13, <2>1, <3>1, <3>2, <4>2
    <3>3. CASE t \notin R
      <4>1. R2 # {}
        BY <1>15, <3>1, <3>3
      <4> QED
        BY <1>8, <1>11, <1>13, <2>1, <3>1, <3>3, <4>1
    <3> QED
      BY <3>2, <3>3
  <2> QED
    BY <2>1, <2>2, <2>3
<1>20. CASE need
  <2>1. /\ group % GroupSize = 0 /\ r + o = group + GroupSize
        /\ group <= o + 1 /\ R # {} /\ group # c /\ group2 = c
    BY <1>3, <1>5, <1>10, <1>20
  <2>2. r >= 1 /\ group < c /\ c <= group + GroupSize /\ c \in Nat
    BY <1>8, <1>9, <1>11, <1>14, <2>1
  <2>3. CASE c % GroupSize = 0
    <3>1. c = group + GroupSize
      BY <1>11, <2>1, <2>2, <2>3, Multiples
    <3>2. r = 1
      BY <1>8, <1>9, <1>11, <2>1, <3>1
    <3>3. Cardinality(R2) <= GroupSize + 1
      BY <1>7, <1>13, <3>2
    <3>4. ASSUME P2 # {}
          PROVE  /\ c % GroupSize = 0
                 /\ Cardinality(R2) + Cardinality(O2) = c + GroupSize
                 /\ c <= Cardinality(O2) + 1
                 /\ R2 # {}
      <4>1. f = GroupSize
        BY <1>6, <1>7, <1>20, <3>4
      <4>2. R2 # {}
        BY <1>15, <1>17, <4>1
      <4>3. t \in R \/ t \notin R
        OBVIOUS
      <4> QED
        BY <1>8, <1>9, <1>11, <1>13, <2>3, <3>1, <3>2, <4>1, <4>2, <4>3
    <3> QED
      BY <2>1, <3>3, <3>4
  <2>4. CASE n < c + GroupSize
    <3>1. p <= GroupSize
      BY <1>8, <1>9, <1>11, <2>1, <2>2, <2>4
    <3>2. F = P /\ P2 = {}
      BY <1>6, <1>7, <1>20, <3>1
    <3>3. f = p
      BY <3>2 DEF f, p
    <3>4. Cardinality(R2) <= GroupSize + 1
      BY <1>8, <1>9, <1>13, <2>4, <3>3
    <3> QED
      BY <3>2, <3>4
  <2> QED
    BY <1>10, <1>20, <2>3, <2>4
<1> QED
  BY <1>19, <1>20

LEMMA CompletesGroups ==
  ASSUME SpinnersInv, GroupsInv, NEW s \in sends,
         (\E isSuccess \in BOOLEAN : Completes(s, isSuccess)) \/ StreamError(s)
  PROVE  GroupsInv'
<1> SUFFICES ASSUME ~strays' PROVE (GroupsHold(allTaskList, currGroupNum) /\ ListBounded(allTaskList))'
  BY DEF GroupsInv
<1>1. /\ strays' = (strays \/ (s.epoch # epoch /\ s.task # Once))
      /\ currGroupNum \in 0..(MaxRows + 1) /\ strays \in BOOLEAN
  BY DEF Completes, StreamError, Ends, SpinnersInv, TypeOK
<1>2. /\ ~strays /\ (s.epoch = epoch \/ s.task = Once)
      /\ GroupsHold(allTaskList, currGroupNum) /\ ListBounded(allTaskList)
  BY <1>1 DEF GroupsInv
<1>3. PICK n \in 0..MaxRows : allTaskList \in [1..n -> Statuses]
  BY DEF SpinnersInv, TypeOK
<1> DEFINE t == s.task
<1>4. t \in 1..n => allTaskList[t] # "pending"
  <2>1. t \in 1..n => t # Once
    BY DEF Once
  <2> QED
    BY <1>2, <1>3, <2>1 DEF SpinnersInv, SendsAreStarted
<1> HIDE DEF t
<1>5. ASSUME NEW isSuccess \in BOOLEAN
      PROVE  LET list == ListAfter(allTaskList, currGroupNum, t, isSuccess)
             IN GroupsHold(list, GroupAfter(allTaskList, currGroupNum)) /\ ListBounded(list)
  BY <1>1, <1>2, <1>3, <1>4, GroupsKept
<1>6. ASSUME NEW isSuccess \in BOOLEAN, Completes(s, isSuccess)
      PROVE  (GroupsHold(allTaskList, currGroupNum) /\ ListBounded(allTaskList))'
  <2> DEFINE list == ListAfter(allTaskList, currGroupNum, t, isSuccess)
             group == GroupAfter(allTaskList, currGroupNum)
  <2>1. allTaskList' = list /\ currGroupNum' = group
    BY <1>6 DEF Completes, Ends, Render, t
  <2>2. GroupsHold(list, group) /\ ListBounded(list)
    BY <1>5
  <2> HIDE DEF list, group
  <2> QED
    BY <2>1, <2>2 DEF GroupsHold, ListBounded, PendingIn, RunningIn, OverIn, TasksIn
<1>7. CASE StreamError(s)
  <2> DEFINE list == ListAfter(allTaskList, currGroupNum, t, FALSE)
             group == GroupAfter(allTaskList, currGroupNum)
             list2 == ListAfter(list, group, t, TRUE)
             group2 == GroupAfter(list, group)
  <2>1. allTaskList' = list2 /\ currGroupNum' = group2
    BY <1>7 DEF StreamError, Ends, Render, t
  <2>2. GroupsHold(list, group) /\ ListBounded(list)
    BY <1>5
  <2>3. /\ list \in [1..n -> Statuses] /\ group \in 0..(MaxRows + 1)
        /\ \A i \in 1..n : i = t => list[i] \in Over
    BY <1>1, <1>3, ListAfterEffects DEF ListEnds
  <2>4. t \in 1..n => list[t] # "pending"
    BY <2>3 DEF Over
  <2> HIDE DEF list, group
  <2>5. GroupsHold(list2, group2) /\ ListBounded(list2)
    BY <2>2, <2>3, <2>4, GroupsKept
  <2> HIDE DEF list2, group2
  <2> QED
    BY <2>1, <2>5 DEF GroupsHold, ListBounded, PendingIn, RunningIn, OverIn, TasksIn
<1> QED
  BY <1>6, <1>7

\* A new batch starts its first group.
LEMMA RunBatchGroups ==
  ASSUME NEW m \in 1..MaxRows, RunBatch(m)
  PROVE  GroupsInv'
<1> DEFINE list == [i \in 1..m |-> IF i <= GroupSize THEN "running" ELSE "pending"]
           g == IF m <= GroupSize THEN m ELSE GroupSize
<1>1. allTaskList' = list /\ currGroupNum' = 0
  BY DEF RunBatch, Render
<1>2. /\ RunningIn(list) = 1..g /\ OverIn(list) = {}
      /\ PendingIn(list) # {} => g = GroupSize
  <2>1. \A i \in 1..m : (list[i] = "running" <=> i <= GroupSize) /\ list[i] \notin Over
    BY DEF Over
  <2>2. /\ RunningIn(list) = {i \in 1..m : list[i] = "running"}
        /\ OverIn(list) = {i \in 1..m : list[i] \in Over}
        /\ PendingIn(list) = {i \in 1..m : list[i] = "pending"}
    BY DEF RunningIn, OverIn, PendingIn, TasksIn
  <2>3. m <= GroupSize => PendingIn(list) = {}
    BY <2>1, <2>2
  <2> HIDE DEF list
  <2>4. RunningIn(list) = 1..g
    BY <2>1, <2>2
  <2> QED
    BY <2>1, <2>2, <2>3, <2>4
<1>3. g \in Nat /\ g <= GroupSize /\ 0 % GroupSize = 0 /\ 1 \in 1..g
  OBVIOUS
<1>4. Cardinality(RunningIn(list)) = g /\ Cardinality(OverIn(list)) = 0
  <2>1. Cardinality(1..g) = g
    BY <1>3, FS_Interval
  <2> QED
    BY <1>2, <2>1, FS_EmptySet
<1> HIDE DEF list
<1>5. ListBounded(list)
  BY <1>3, <1>4 DEF ListBounded
<1>6. GroupsHold(list, 0)
  <2>1. RunningIn(list) # {}
    BY <1>2, <1>3
  <2> HIDE DEF g
  <2>2. PendingIn(list) # {} => g + 0 = 0 + GroupSize /\ 0 <= 0 + 1
    BY <1>2, <1>3
  <2> QED
    BY <1>3, <1>4, <2>1, <2>2 DEF GroupsHold
<1> QED
  BY <1>1, <1>5, <1>6 DEF GroupsInv, GroupsHold, ListBounded, PendingIn, RunningIn, OverIn, TasksIn

LEMMA EmptyListGroups ==
  ASSUME NEW group
  PROVE  GroupsHold(<<>>, group) /\ ListBounded(<<>>)
<1>1. RunningIn(<<>>) = {} /\ PendingIn(<<>>) = {}
  BY DEF RunningIn, PendingIn, TasksIn
<1>2. Cardinality(RunningIn(<<>>)) = 0
  BY <1>1, FS_EmptySet
<1> QED
  BY <1>1, <1>2 DEF GroupsHold, ListBounded

LEMMA StepGroups ==
  ASSUME SpinnersInv, GroupsInv, [Next]_vars
  PROVE  GroupsInv'
<1>1. CASE RunOnce
  <2>1. PICK may \in BOOLEAN :
          Render(FALSE, <<>>, epoch + 1, controlRetry, FALSE, isResponding, may, sends)
    BY <1>1 DEF RunOnce
  <2>2. allTaskList' = <<>>
    BY <2>1 DEF Render
  <2>3. GroupsHold(<<>>, currGroupNum') /\ ListBounded(<<>>)
    BY EmptyListGroups
  <2> QED
    BY <2>2, <2>3 DEF GroupsInv, GroupsHold, ListBounded, PendingIn, RunningIn, OverIn, TasksIn
<1>2. ASSUME UNCHANGED <<allTaskList, currGroupNum, strays>>
      PROVE  GroupsInv'
  BY <1>2 DEF GroupsInv, GroupsHold, ListBounded, PendingIn, RunningIn, OverIn, TasksIn
<1>3. CASE RetryAll
  BY <1>2, <1>3 DEF RetryAll, Render
<1>4. CASE \E i \in DOMAIN allTaskList : RetryOne(i)
  BY <1>2, <1>4 DEF RetryOne
<1>5. CASE UNCHANGED vars
  BY <1>2, <1>5 DEF vars
<1>6. CASE \E s \in sends : Answer(s) \/ Fails(s) \/ StreamError(s)
  BY <1>6, CompletesGroups DEF Answer, Fails
<1> QED
  BY <1>1, <1>3, <1>4, <1>5, <1>6, RunBatchGroups DEF Next

\* A group that starts early lets at most one row more than a group run, whatever is
\* retried or fails in its stream, unless an answer of an earlier batch changed the list.
THEOREM RunningIsBounded == Spec => []RunningBounded
<1>1. Init => GroupsInv
  BY EmptyListGroups DEF Init, GroupsInv
<1>2. GroupsInv => RunningBounded
  BY DEF GroupsInv, RunningBounded, Running, ListBounded, RunningIn
<1> QED
  BY <1>1, <1>2, StepGroups, SpinnersInvariant, PTL DEF Spec
=============================================================================
