--------------------------- MODULE NodeMonitorProofs ---------------------------
(***************************************************************************)
(* The monitor of the nodes, for every set of machines and any number of   *)
(* incidents.                                                              *)
(***************************************************************************)
EXTENDS NodeMonitor, FiniteSetTheorems, TLAPS

-----------------------------------------------------------------------------
(* Sets in order *)

\* The rank of an element is the number of elements up to it: ranks are different
\* and as many as there are elements, so every number up to that is one.
LEMMA RanksAreAll ==
    ASSUME NEW S \in SUBSET Nat, IsFiniteSet(S), NEW i \in 1 .. Cardinality(S)
    PROVE  \E m \in S : Cardinality({k \in S : k <= m}) = i
<1> DEFINE n == Cardinality(S)
           upTo(m) == {k \in S : k <= m}
           rank == [m \in S |-> Cardinality(upTo(m))]
<1>1. n \in Nat
  BY FS_CardinalityType
<1>2. ASSUME NEW m \in S
      PROVE  IsFiniteSet(upTo(m)) /\ Cardinality(upTo(m)) \in 1 .. n
  <2>1. upTo(m) \in SUBSET S /\ m \in upTo(m)
    OBVIOUS
  <2> HIDE DEF upTo
  <2>2. IsFiniteSet(upTo(m)) /\ Cardinality(upTo(m)) <= n /\ Cardinality(upTo(m)) \in Nat
    BY <2>1, FS_Subset, FS_CardinalityType
  <2>3. Cardinality(upTo(m)) # 0
    BY <2>1, <2>2, FS_EmptySet
  <2> QED
    BY <1>1, <2>2, <2>3
<1>3. ASSUME NEW a \in S, NEW b \in S, a < b
      PROVE  Cardinality(upTo(a)) # Cardinality(upTo(b))
  <2>1. upTo(a) \in SUBSET upTo(b) /\ b \in upTo(b) /\ b \notin upTo(a)
    <3>1. a \in Nat /\ b \in Nat /\ \A k \in S : k \in Nat
      OBVIOUS
    <3>2. \A k \in S : k <= a => k <= b
      BY <1>3, <3>1
    <3>3. ~(b <= a) /\ b <= b
      BY <1>3, <3>1
    <3> QED
      BY <3>2, <3>3
  <2> HIDE DEF upTo
  <2> QED
    BY <1>2, <2>1, FS_Subset
<1>4. \A a, b \in S : rank[a] = rank[b] => a = b
  <2> SUFFICES ASSUME NEW a \in S, NEW b \in S, a # b PROVE rank[a] # rank[b]
    OBVIOUS
  <2>1. a < b \/ b < a
    OBVIOUS
  <2> QED
    BY <1>3, <2>1
<1>5. rank \in Injection(S, 1 .. n)
  <2>1. rank \in [S -> 1 .. n]
    BY <1>2
  <2> HIDE DEF rank
  <2> QED
    BY <1>4, <2>1 DEF Injection, IsInjective
<1>6. IsFiniteSet(1 .. n) /\ Cardinality(1 .. n) = n
  BY <1>1, FS_Interval
<1>7. rank \in Surjection(S, 1 .. n)
  <2> HIDE DEF rank
  <2> QED
    BY <1>5, <1>6, FS_Injection
<1>8. \E m \in S : rank[m] = i
  BY <1>7 DEF Surjection
<1> QED
  BY <1>8

LEMMA AscendingIsSet ==
    ASSUME NEW S \in SUBSET Nat, IsFiniteSet(S)
    PROVE  /\ Ascending(S) \in Seq(S)
           /\ ToSet(Ascending(S)) = S
           /\ IsInjective(Ascending(S))
<1> DEFINE n == Cardinality(S)
           rank(m) == Cardinality({k \in S : k <= m})
           s == Ascending(S)
<1>1. n \in Nat
  BY FS_CardinalityType
<1>2. /\ s = [i \in 1 .. n |-> CHOOSE m \in S : rank(m) = i]
  BY DEF Ascending
<1>3. \A i \in 1 .. n : s[i] \in S /\ rank(s[i]) = i
  <2> SUFFICES ASSUME NEW i \in 1 .. n PROVE s[i] \in S /\ rank(s[i]) = i
    OBVIOUS
  <2>1. \E m \in S : rank(m) = i
    BY RanksAreAll
  <2> HIDE DEF rank, s, n
  <2> QED
    BY <1>2, <2>1
<1> HIDE DEF s, n, rank
<1>4. DOMAIN s = 1 .. n /\ s \in Seq(S)
  <2>1. DOMAIN s = 1 .. n
    BY <1>2
  <2>2. s = [i \in 1 .. n |-> s[i]]
    BY <1>2
  <2> QED
    BY <1>1, <1>3, <2>1, <2>2
<1>5. IsInjective(s)
  BY <1>3, <1>4 DEF IsInjective
<1>6. IsFiniteSet(1 .. n) /\ Cardinality(1 .. n) = n
  BY <1>1, FS_Interval
<1>7. s \in Injection(1 .. n, S)
  BY <1>2, <1>3, <1>5 DEF Injection
<1>8. s \in Surjection(1 .. n, S)
  BY <1>6, <1>7, FS_Injection DEF n
<1>9. ToSet(s) = S
  BY <1>3, <1>4, <1>8 DEF ToSet, Surjection
<1> QED
  BY <1>4, <1>5, <1>9 DEF s

-----------------------------------------------------------------------------
(* The list of nodes *)

\* What is left of a list keeps its order, loses no machine that reported "up" and
\* gets none.
LEMMA PruneKeeps ==
    ASSUME NEW list \in Seq(Machine), IsInjective(list), NEW report
    PROVE  /\ Prune(list, report) \in Seq(Machine)
           /\ IsInjective(Prune(list, report))
           /\ ToSet(Prune(list, report)) \subseteq ToSet(list)
           /\ \A m \in ToSet(list) : report[m] = "up" => m \in ToSet(Prune(list, report))
<1> DEFINE S == DOMAIN list \ Removed(list, report)
           left == Ascending(S)
           kept == Prune(list, report)
<1>1. DOMAIN list = 1 .. Len(list) /\ Len(list) \in Nat
  OBVIOUS
<1>2. S \in SUBSET Nat /\ IsFiniteSet(S) /\ S \subseteq DOMAIN list
  <2>1. IsFiniteSet(DOMAIN list)
    BY <1>1, FS_Interval
  <2> QED
    BY <1>1, <2>1, FS_Subset
<1>3. left \in Seq(S) /\ ToSet(left) = S /\ IsInjective(left)
  <2> HIDE DEF S
  <2> QED
    BY <1>2, AscendingIsSet
<1>4. kept = [i \in DOMAIN left |-> list[left[i]]]
  BY DEF Prune
<1>5. \A m \in ToSet(list) : report[m] = "up" => \E p \in S : list[p] = m
  <2> SUFFICES ASSUME NEW p \in DOMAIN list, report[list[p]] = "up"
               PROVE  p \in S
    BY DEF ToSet
  <2>1. ASSUME p \in Removed(list, report) PROVE FALSE
    <3>1. PICK before \in 0 .. p - 1 : \A k \in before + 1 .. p : report[list[k]] # "up"
      BY <2>1 DEF Removed
    <3>2. p \in before + 1 .. p
      BY <1>1, <3>1
    <3> QED
      BY <3>1, <3>2
  <2> QED
    BY <2>1
<1> HIDE DEF S, left, kept
<1>6. /\ Len(left) \in Nat /\ DOMAIN left = 1 .. Len(left)
      /\ \A i \in DOMAIN left : left[i] \in DOMAIN list /\ list[left[i]] \in Machine
  <2>1. Len(left) \in Nat /\ DOMAIN left = 1 .. Len(left)
    BY <1>3
  <2>2. \A i \in DOMAIN left : left[i] \in S
    BY <1>3 DEF ToSet
  <2>3. \A p \in DOMAIN list : list[p] \in Machine
    BY <1>1
  <2> QED
    BY <1>2, <2>1, <2>2, <2>3
<1>7. kept \in Seq(Machine) /\ DOMAIN kept = DOMAIN left
  BY <1>4, <1>6
<1>8. IsInjective(kept)
  BY <1>3, <1>4, <1>6, <1>7 DEF IsInjective
<1>9. ToSet(kept) = {list[p] : p \in S}
  BY <1>3, <1>4, <1>7 DEF ToSet
<1>10. ToSet(kept) \subseteq ToSet(list)
  BY <1>2, <1>9 DEF ToSet
<1> QED
  BY <1>5, <1>7, <1>8, <1>9, <1>10 DEF kept

LEMMA Joined ==
    ASSUME NEW M, NEW s \in Seq(M), NEW t \in Seq(M)
    PROVE  /\ s \o t \in Seq(M) /\ Len(s \o t) = Len(s) + Len(t)
           /\ \A i \in 1 .. Len(s) : (s \o t)[i] = s[i]
           /\ \A i \in 1 .. Len(t) : (s \o t)[Len(s) + i] = t[i]
OBVIOUS

\* Joining two lists joins their sets.
LEMMA JoinedSets ==
    ASSUME NEW M, NEW s \in Seq(M), NEW t \in Seq(M)
    PROVE  ToSet(s \o t) = ToSet(s) \cup ToSet(t)
<1> DEFINE u == s \o t
<1>1. /\ Len(s) \in Nat /\ Len(t) \in Nat
      /\ DOMAIN s = 1 .. Len(s) /\ DOMAIN t = 1 .. Len(t)
  OBVIOUS
<1>2. /\ DOMAIN u = 1 .. Len(s) + Len(t)
      /\ \A i \in 1 .. Len(s) : u[i] = s[i]
      /\ \A i \in 1 .. Len(t) : u[Len(s) + i] = t[i]
  <2>1. u \in Seq(M) /\ Len(u) = Len(s) + Len(t)
    BY Joined
  <2>2. DOMAIN u = 1 .. Len(u)
    <3> HIDE DEF u
    <3> QED
      BY <2>1
  <2> QED
    BY <2>1, <2>2, Joined
<1> HIDE DEF u
<1>3. ASSUME NEW i \in DOMAIN u PROVE u[i] \in ToSet(s) \cup ToSet(t)
  <2>1. CASE i <= Len(s)
    <3>1. i \in 1 .. Len(s)
      BY <1>1, <1>2, <2>1
    <3> QED
      BY <1>1, <1>2, <3>1 DEF ToSet
  <2>2. CASE i > Len(s)
    <3>1. i - Len(s) \in 1 .. Len(t) /\ Len(s) + (i - Len(s)) = i
      BY <1>1, <1>2, <2>2
    <3>2. u[Len(s) + (i - Len(s))] = t[i - Len(s)]
      BY <1>2, <3>1
    <3> QED
      BY <1>1, <3>1, <3>2 DEF ToSet
  <2> QED
    BY <1>1, <1>2, <2>1, <2>2
<1>4. \A i \in 1 .. Len(s) : i \in DOMAIN u
  BY <1>1, <1>2
<1>5. \A i \in 1 .. Len(t) : Len(s) + i \in DOMAIN u
  BY <1>1, <1>2
<1>6. ToSet(u) \subseteq ToSet(s) \cup ToSet(t)
  BY <1>3 DEF ToSet
<1>7. ToSet(s) \subseteq ToSet(u) /\ ToSet(t) \subseteq ToSet(u)
  BY <1>1, <1>2, <1>4, <1>5 DEF ToSet
<1> QED
  BY <1>6, <1>7 DEF u

LEMMA JoinedInjective ==
    ASSUME NEW M, NEW s \in Seq(M), NEW t \in Seq(M), IsInjective(s), IsInjective(t),
           ToSet(s) \cap ToSet(t) = {}
    PROVE  IsInjective(s \o t)
<1> DEFINE u == s \o t
           n == Len(s)
           k == Len(t)
<1>1. n \in Nat /\ k \in Nat /\ DOMAIN s = 1 .. n /\ DOMAIN t = 1 .. k
  OBVIOUS
<1>2. /\ u \in Seq(M) /\ Len(u) = n + k
      /\ \A i \in 1 .. n : u[i] = s[i]
      /\ \A i \in 1 .. k : u[n + i] = t[i]
  BY Joined
<1> HIDE DEF u, n, k
<1>3. ASSUME NEW i \in 1 .. n + k
      PROVE  \/ i \in 1 .. n /\ u[i] = s[i] /\ u[i] \in ToSet(s)
             \/ i - n \in 1 .. k /\ u[i] = t[i - n] /\ u[i] \in ToSet(t)
  <2>1. CASE i <= n
    BY <1>1, <1>2, <2>1 DEF ToSet
  <2>2. CASE i > n
    <3>1. i - n \in 1 .. k /\ n + (i - n) = i
      BY <1>1, <2>2
    <3>2. u[n + (i - n)] = t[i - n]
      BY <1>2, <3>1
    <3> QED
      BY <1>1, <3>1, <3>2 DEF ToSet
  <2> QED
    BY <1>1, <2>1, <2>2
<1>4. ASSUME NEW i \in 1 .. n + k, NEW j \in 1 .. n + k, u[i] = u[j]
      PROVE  i = j
  <2>1. CASE i \in 1 .. n /\ u[i] = s[i] /\ u[i] \in ToSet(s)
    <3>1. j \in 1 .. n /\ u[j] = s[j]
      BY <1>3, <1>4, <2>1
    <3> QED
      BY <1>1, <1>4, <2>1, <3>1 DEF IsInjective
  <2>2. CASE i - n \in 1 .. k /\ u[i] = t[i - n] /\ u[i] \in ToSet(t)
    <3>1. j - n \in 1 .. k /\ u[j] = t[j - n]
      BY <1>3, <1>4, <2>2
    <3>2. i - n = j - n
      BY <1>1, <1>4, <2>2, <3>1 DEF IsInjective
    <3> QED
      BY <1>1, <3>2
  <2> QED
    BY <1>3, <2>1, <2>2
<1>5. DOMAIN u = 1 .. n + k
  BY <1>1, <1>2
<1> QED
  BY <1>4, <1>5 DEF IsInjective, u

\* addNode() looks for the machine, so the list stays without duplicates.
LEMMA AddNodesKeeps ==
    ASSUME NEW list \in Seq(Machine), IsInjective(list), NEW S \in SUBSET Machine
    PROVE  /\ AddNodes(list, S) \in Seq(Machine)
           /\ IsInjective(AddNodes(list, S))
           /\ ToSet(AddNodes(list, S)) = ToSet(list) \cup S
<1> DEFINE new == S \ ToSet(list)
           add == Ascending(new)
<1>1. new \in SUBSET Nat /\ new \subseteq Machine /\ IsFiniteSet(new)
  <2>1. new \in SUBSET Machine
    OBVIOUS
  <2> HIDE DEF new
  <2> QED
    BY <2>1, NodeMonitorAssumption, FS_Subset
<1>2. add \in Seq(new) /\ ToSet(add) = new /\ IsInjective(add)
  <2> HIDE DEF new
  <2> QED
    BY <1>1, AscendingIsSet
<1>3. add \in Seq(Machine)
  <2> HIDE DEF new, add
  <2>1. Len(add) \in Nat /\ DOMAIN add = 1 .. Len(add) /\ add = [i \in 1 .. Len(add) |-> add[i]]
    BY <1>2
  <2>2. \A i \in 1 .. Len(add) : add[i] \in new
    BY <1>2, <2>1 DEF ToSet
  <2> QED
    BY <1>1, <2>1, <2>2
<1>4. ToSet(list) \cap ToSet(add) = {}
  BY <1>2
<1>5. AddNodes(list, S) = list \o add
  BY DEF AddNodes
<1>6. ToSet(list) \cup ToSet(add) = ToSet(list) \cup S
  BY <1>2
<1> HIDE DEF add
<1> QED
  BY <1>3, <1>2, <1>4, <1>5, <1>6, Joined, JoinedSets, JoinedInjective

\* A review keeps the list one of machines without duplicates, sends the updates of
\* those that come and go, and leaves out no node that reported "up".
LEMMA ReviewKeeps ==
    ASSUME TypeOK, NEW report, Review(report)
    PROVE  /\ nodes' \in Seq(Machine) /\ IsInjective(nodes')
           /\ updates' = Updates(ToSet(nodes), ToSet(nodes'))
           /\ \A m \in ToSet(nodes) : report[m] = "up" => m \in ToSet(nodes')
<1> DEFINE left == Prune(nodes, report)
           up   == {m \in Machine : report[m] = "up"}
<1>1. /\ left \in Seq(Machine) /\ IsInjective(left)
      /\ \A m \in ToSet(nodes) : report[m] = "up" => m \in ToSet(left)
  BY PruneKeeps DEF TypeOK
<1>2. nodes' = AddNodes(left, up) /\ up \in SUBSET Machine
  BY DEF Review
<1> HIDE DEF left, up
<1>3. /\ nodes' \in Seq(Machine) /\ IsInjective(nodes')
      /\ ToSet(nodes') = ToSet(left) \cup up
  BY <1>1, <1>2, AddNodesKeeps
<1> QED
  BY <1>1, <1>3 DEF Review

\* The end of a list of updates.
LEMMA Appended ==
    ASSUME NEW s \in Seq({0, 1}), NEW v \in {0, 1}
    PROVE  /\ s \o <<v>> \in Seq({0, 1}) /\ s \o <<v>> # <<>>
           /\ (s \o <<v>>)[Len(s \o <<v>>)] = v
           /\ s \o <<>> = s
OBVIOUS

LEMMA UpdatesTyped ==
    ASSUME TypeOK, NEW old, NEW new
    PROVE  Updates(old, new) \in [Machine -> Seq({0, 1})]
<1>1. \A m \in Machine : /\ updates[m] \o <<0>> \in Seq({0, 1})
                         /\ updates[m] \o <<1>> \in Seq({0, 1})
                         /\ updates[m] \o <<>> \in Seq({0, 1})
  BY Appended DEF TypeOK
<1> QED
  BY <1>1 DEF Updates

-----------------------------------------------------------------------------
(* Types *)

LEMMA TypesAtInit == Init => TypeOK
<1> SUFFICES ASSUME Init PROVE TypeOK
  OBVIOUS
<1>1. nodes \in Seq(Machine) /\ IsInjective(nodes)
  BY DEF Init, IsInjective
<1>2. updates \in [Machine -> Seq({0, 1})]
  BY DEF Init
<1>3. replies \in [Machine -> [Instance -> [Word -> Nat]]]
  BY DEF Init, NoReplies
<1>4. sent \in [Machine -> [Instance -> Nat]] /\ lists \in [Instance -> Nat]
  BY DEF Init, Zero
<1>5. data \in [Machine -> {"none", "up", "down"}]
  BY DEF Init, None
<1>6. incidents \in 0 .. MaxIncidents
  BY NodeMonitorAssumption DEF Init
<1> QED
  BY <1>1, <1>2, <1>3, <1>4, <1>5, <1>6 DEF Init, TypeOK

\* What a round that ends, or has ended, leaves.
LEMMA ReportTyped ==
    ASSUME TypeOK, NEW report,
           Report(report) \/ UNCHANGED <<nodes, updates, told, phase>>
    PROVE  /\ nodes' \in Seq(Machine) /\ IsInjective(nodes')
           /\ updates' \in [Machine -> Seq({0, 1})]
           /\ told' \in [Machine -> BOOLEAN]
           /\ phase' \in {"asking", "waiting", "stuck", "off"}
<1>1. CASE Review(report) /\ phase' = "waiting"
  <2>1. told' \in [Machine -> BOOLEAN]
    BY <1>1 DEF Review, TypeOK
  <2> QED
    BY <1>1, <2>1, ReviewKeeps, UpdatesTyped
<1>2. CASE /\ UNCHANGED <<nodes, updates, told>>
           /\ phase' \in {phase, "waiting", "stuck"}
  BY <1>2 DEF TypeOK
<1>3. Report(report) => \/ Review(report) /\ phase' = "waiting"
                        \/ /\ UNCHANGED <<nodes, updates, told>>
                           /\ phase' \in {phase, "waiting", "stuck"}
  BY DEF Report
<1> QED
  BY <1>1, <1>2, <1>3

LEMMA IncidentTyped ==
    ASSUME TypeOK, Incident
    PROVE  incidents' \in 0 .. MaxIncidents
BY NodeMonitorAssumption DEF TypeOK, Incident

\* One request less that is not answered.
LEMMA OneRequest ==
    ASSUME TypeOK, NEW m \in Machine, NEW i \in Instance, sent[m][i] > 0,
           sent' = [sent EXCEPT ![m][i] = @ - 1]
    PROVE  sent' \in [Machine -> [Instance -> Nat]]
<1>1. sent[m][i] - 1 \in Nat
  BY DEF TypeOK
<1> QED
  BY <1>1 DEF TypeOK

\* One answer more, and what is not its place stays.
LEMMA OneAnswer ==
    ASSUME TypeOK, NEW m \in Machine, NEW i \in Instance, NEW w \in Word,
           replies' = [replies EXCEPT ![m][i][w] = @ + 1]
    PROVE  /\ replies' \in [Machine -> [Instance -> [Word -> Nat]]]
           /\ \A n \in Machine : n # m \/ w = "up" => (Clear(n)' <=> Clear(n))
<1>1. replies \in [Machine -> [Instance -> [Word -> Nat]]]
  BY DEF TypeOK
<1>2. replies[m][i][w] + 1 \in Nat
  BY <1>1
<1>3. \A n \in Machine, j \in Instance, v \in Word :
        n # m \/ v # w => replies'[n][j][v] = replies[n][j][v]
  BY <1>1
<1>4. "down" \in Word /\ "odd" \in Word
  BY DEF Word
<1> QED
  BY <1>1, <1>2, <1>3, <1>4 DEF Clear

\* One answer less: of other machines, and if it was "up", the others stay.
LEMMA OneTaken ==
    ASSUME TypeOK, NEW m \in Machine, NEW i \in Instance, NEW w \in Word, Take(m, i, w)
    PROVE  /\ replies' \in [Machine -> [Instance -> [Word -> Nat]]]
           /\ \A n \in Machine : n # m \/ w = "up" => (Clear(n)' <=> Clear(n))
           /\ w # "up" => ~Clear(m)
<1>1. replies \in [Machine -> [Instance -> [Word -> Nat]]]
  BY DEF TypeOK
<1>2. replies' = [replies EXCEPT ![m][i][w] = @ - 1] /\ replies[m][i][w] > 0
  BY DEF Take
<1>3. replies[m][i][w] - 1 \in Nat
  BY <1>1, <1>2
<1>4. \A n \in Machine, j \in Instance, v \in Word :
        n # m \/ v # w => replies'[n][j][v] = replies[n][j][v]
  BY <1>1, <1>2
<1>5. "down" \in Word /\ "odd" \in Word
  BY DEF Word
<1>6. w # "up" => ~Clear(m)
  <2>1. w # "up" => w = "down" \/ w = "odd"
    BY DEF Word
  <2>2. replies[m][i][w] # 0
    BY <1>2
  <2> QED
    BY <2>1, <2>2 DEF Clear
<1>7. replies' \in [Machine -> [Instance -> [Word -> Nat]]]
  BY <1>1, <1>2, <1>3
<1>8. \A n \in Machine : n # m \/ w = "up" => (Clear(n)' <=> Clear(n))
  BY <1>4, <1>5 DEF Clear
<1> QED
  BY <1>6, <1>7, <1>8

\* A reply is stored or not, and of the round it changes what Report() does.
LEMMA HeardParts ==
    ASSUME NEW m \in Machine, NEW i \in Instance, Heard(m, i)
    PROVE  /\ \E w \in Word : /\ Take(m, i, w)
                              /\ \/ Hear(m, w)
                                 \/ UNCHANGED <<data, age>>
                              /\ w # "up" => UNCHANGED sure
                              /\ w = "up" =>
                                   sure' = [sure EXCEPT ![m] =
                                              alive[m] /\ data'[m] = "up" /\ Clear(m)]
           /\ Report(data') \/ UNCHANGED <<nodes, updates, told, phase>>
           /\ UNCHANGED <<alive, status, ours, lists, sent, stored, incidents>>
<1>1. "up" \in Word /\ "odd" \in Word /\ "down" \in Word
  BY DEF Word
<1>2. PutBack(i) => Report(data') \/ UNCHANGED <<nodes, updates, told, phase>>
  BY DEF PutBack
<1>3. CASE HearUp(m, i)
  BY <1>1, <1>2, <1>3 DEF HearUp
<1>4. CASE HearOdd(m, i)
  BY <1>1, <1>2, <1>4 DEF HearOdd
<1>5. CASE HearDown(m, i)
  BY <1>1, <1>2, <1>5 DEF HearDown
<1> QED
  BY <1>3, <1>4, <1>5 DEF Heard

LEMMA HearTyped ==
    ASSUME TypeOK, NEW m \in Machine, NEW w, Hear(m, w) \/ UNCHANGED <<data, age>>
    PROVE  /\ data' \in [Machine -> {"none", "up", "down"}]
           /\ age' \in [Machine -> {"late", "round", "old"}]
           /\ \A n \in Machine : n # m => data'[n] = data[n]
BY DEF Hear, TypeOK

LEMMA TypesKept ==
    ASSUME TypeOK, [Next]_vars
    PROVE  TypeOK'
<1>1. CASE Boot
  <2>1. nodes' \in Seq(Machine) /\ IsInjective(nodes')
    <3>1. <<>> \in Seq(Machine) /\ IsInjective(<<>>)
      BY DEF IsInjective
    <3>2. {m \in Machine : status[m] = 1} \in SUBSET Machine
      OBVIOUS
    <3> QED
      BY <1>1, <3>1, <3>2, AddNodesKeeps DEF Boot
  <2>2. updates' \in [Machine -> Seq({0, 1})]
    <3>1. \A m \in Machine : /\ updates[m] \o <<1>> \in Seq({0, 1})
                             /\ updates[m] \o <<>> \in Seq({0, 1})
      BY Appended DEF TypeOK
    <3> QED
      BY <1>1, <3>1 DEF Boot
  <2>3. told' \in [Machine -> BOOLEAN] /\ lists' \in [Instance -> Nat]
    BY <1>1 DEF Boot, TypeOK
  <2> QED
    BY <1>1, <2>1, <2>2, <2>3 DEF Boot, TypeOK, network
<1>2. CASE Ask
  <2>1. age' \in [Machine -> {"late", "round", "old"}]
    BY <1>2 DEF Ask
  <2>2. lists["later"] + 1 \in Nat
    BY DEF TypeOK, Instance
  <2>3. lists' \in [Instance -> Nat]
    BY <1>2, <2>2 DEF Ask, TypeOK
  <2> QED
    BY <1>2, <2>1, <2>3 DEF Ask, TypeOK, table, network
<1>3. CASE Replace
  BY <1>3, IncidentTyped DEF Replace, TypeOK, table, network
<1>4. ASSUME NEW i \in Instance, List(i) PROVE TypeOK'
  <2>1. lists' \in [Instance -> Nat]
    BY <1>4 DEF List, TypeOK
  <2>2. sent' \in [Machine -> [Instance -> Nat]]
    BY <1>4 DEF List, TypeOK
  <2> QED
    BY <1>4, <2>1, <2>2 DEF List, TypeOK, table
<1>5. ASSUME NEW i \in Instance, FailList(i) PROVE TypeOK'
  <2>1. lists' \in [Instance -> Nat]
    BY <1>5 DEF FailList, TypeOK
  <2> QED
    BY <1>5, <2>1, IncidentTyped DEF FailList, TypeOK, table, network
<1>6. ASSUME NEW m \in Machine, NEW i \in Instance, Respond(m, i) PROVE TypeOK'
  <2>1. sent' \in [Machine -> [Instance -> Nat]]
    BY <1>6, OneRequest DEF Respond
  <2>2. (IF alive[m] THEN "up" ELSE "down") \in Word
    BY DEF Word
  <2>3. replies' \in [Machine -> [Instance -> [Word -> Nat]]]
    BY <1>6, <2>2, OneAnswer DEF Respond
  <2> QED
    BY <1>6, <2>1, <2>3 DEF Respond, TypeOK, table, center
<1>7. ASSUME NEW m \in Machine, NEW i \in Instance, RespondOdd(m, i) PROVE TypeOK'
  <2>1. sent' \in [Machine -> [Instance -> Nat]]
    BY <1>7, OneRequest DEF RespondOdd
  <2>2. replies' \in [Machine -> [Instance -> [Word -> Nat]]]
    <3>1. "odd" \in Word
      BY DEF Word
    <3> QED
      BY <1>7, <3>1, OneAnswer DEF RespondOdd
  <2>3. sure' \in [Machine -> BOOLEAN]
    BY <1>7 DEF RespondOdd, TypeOK
  <2> QED
    BY <1>7, <2>1, <2>2, <2>3, IncidentTyped DEF RespondOdd, TypeOK, table, center
<1>8. ASSUME NEW m \in Machine, NEW i \in Instance, BadReply(m, i) PROVE TypeOK'
  <2>1. sent' \in [Machine -> [Instance -> Nat]]
    BY <1>8, OneRequest DEF BadReply
  <2> QED
    BY <1>8, <2>1, IncidentTyped DEF BadReply, TypeOK, table, center
<1>9. ASSUME NEW m \in Machine, NEW i \in Instance, Heard(m, i) PROVE TypeOK'
  <2>1. PICK w \in Word :
          /\ Take(m, i, w)
          /\ Hear(m, w) \/ UNCHANGED <<data, age>>
          /\ w # "up" => UNCHANGED sure
          /\ w = "up" => sure' = [sure EXCEPT ![m] =
                                    alive[m] /\ data'[m] = "up" /\ Clear(m)]
    BY <1>9, HeardParts
  <2>2. /\ Report(data') \/ UNCHANGED <<nodes, updates, told, phase>>
        /\ UNCHANGED <<alive, status, ours, lists, sent, stored, incidents>>
    BY <1>9, HeardParts
  <2>3. replies' \in [Machine -> [Instance -> [Word -> Nat]]]
    BY <2>1, OneTaken
  <2>4. /\ data' \in [Machine -> {"none", "up", "down"}]
        /\ age' \in [Machine -> {"late", "round", "old"}]
    BY <2>1, HearTyped
  <2>5. /\ nodes' \in Seq(Machine) /\ IsInjective(nodes')
        /\ updates' \in [Machine -> Seq({0, 1})]
        /\ told' \in [Machine -> BOOLEAN]
        /\ phase' \in {"asking", "waiting", "stuck", "off"}
    BY <2>2, ReportTyped
  <2>6. sure' \in [Machine -> BOOLEAN]
    <3>1. (alive[m] /\ data'[m] = "up" /\ Clear(m)) \in BOOLEAN
      BY DEF TypeOK, Clear
    <3> QED
      BY <2>1, <3>1 DEF TypeOK
  <2> QED
    BY <2>2, <2>3, <2>4, <2>5, <2>6 DEF TypeOK
<1>10. ASSUME NEW m \in Machine, Update(m) PROVE TypeOK'
  <2>1. /\ Head(updates[m]) \in {0, 1} /\ Tail(updates[m]) \in Seq({0, 1})
    BY <1>10 DEF Update, TypeOK
  <2>2. /\ status' \in [Machine -> {NoRow, 0, 1}]
        /\ updates' \in [Machine -> Seq({0, 1})]
    BY <1>10, <2>1 DEF Update, TypeOK
  <2> QED
    BY <1>10, <2>2 DEF Update, TypeOK, center, network
<1>11. ASSUME NEW m \in Machine, Tell(m) PROVE TypeOK'
  <2>1. PICK s \in {0, 1} : updates' = [updates EXCEPT ![m] = Append(@, s)]
    BY <1>11 DEF Tell
  <2>2. Append(updates[m], s) \in Seq({0, 1})
    BY DEF TypeOK
  <2>3. updates' \in [Machine -> Seq({0, 1})] /\ told' \in [Machine -> BOOLEAN]
    BY <1>11, <2>1, <2>2 DEF Tell, TypeOK
  <2> QED
    BY <1>11, <2>3, IncidentTyped DEF Tell, TypeOK, center, network
<1>12. ASSUME NEW m \in Machine, Register(m) PROVE TypeOK'
  <2>1. status' \in [Machine -> {NoRow, 0, 1}] /\ told' \in [Machine -> BOOLEAN]
    BY <1>12 DEF Register, TypeOK
  <2> QED
    BY <1>12, <2>1, IncidentTyped DEF Register, TypeOK, center, network
<1>13. ASSUME NEW m \in Machine, Flip(m) PROVE TypeOK'
  <2>1. alive' \in [Machine -> BOOLEAN] /\ sure' \in [Machine -> BOOLEAN]
    BY <1>13 DEF Flip, TypeOK
  <2> QED
    BY <1>13, <2>1, IncidentTyped DEF Flip, TypeOK, table, center, network
<1>14. CASE Crash
  <2>1. nodes' \in Seq(Machine) /\ IsInjective(nodes')
    BY <1>14 DEF Crash, IsInjective
  <2>2. updates' \in [Machine -> Seq({0, 1})]
    BY <1>14 DEF Crash
  <2>3. replies' \in [Machine -> [Instance -> [Word -> Nat]]]
    BY <1>14 DEF Crash, NoReplies
  <2>4. sent' \in [Machine -> [Instance -> Nat]] /\ lists' \in [Instance -> Nat]
    BY <1>14 DEF Crash, Zero
  <2>5. data' \in [Machine -> {"none", "up", "down"}]
    BY <1>14 DEF Crash, None
  <2>6. /\ told' \in [Machine -> BOOLEAN] /\ sure' \in [Machine -> BOOLEAN]
        /\ age' \in [Machine -> {"late", "round", "old"}]
    BY <1>14 DEF Crash
  <2> QED
    BY <1>14, <2>1, <2>2, <2>3, <2>4, <2>5, <2>6, IncidentTyped DEF Crash, TypeOK
<1>15. CASE UNCHANGED vars
  BY <1>15 DEF vars, table, center, network, TypeOK
<1> QED
  BY <1>1, <1>2, <1>3, <1>4, <1>5, <1>6, <1>7, <1>8, <1>9, <1>10, <1>11, <1>12, <1>13,
     <1>14, <1>15 DEF Next

\* Every variable of the monitor keeps its type, and the list of nodes has no
\* machine twice: addNode() looks for it, and a removal by index while the array is
\* shortened copies none (fileHealthy.js:96-138).
THEOREM NodesTyped == Spec => []TypeOK
<1>1. TypeOK /\ [Next]_vars => TypeOK'
  BY TypesKept
<1> QED
  BY TypesAtInit, <1>1, PTL DEF Spec

-----------------------------------------------------------------------------
(* The table follows the list *)

\* What the row of a machine has once the updates that were sent are executed.
AtLast(m) ==
    IF updates[m] = <<>> THEN status[m] ELSE updates[m][Len(updates[m])]

\* Unless the machine wrote its row last, the row becomes 1 if the machine is a node
\* and else not; before a start only machines have sent updates.
Written ==
    \A m \in Machine :
        ~told[m] => IF phase = "off" THEN updates[m] = <<>>
                                     ELSE AtLast(m) = 1 <=> m \in ToSet(nodes)

\* One update for every machine that comes or goes is what the row needs.
LEMMA UpdatesWrite ==
    ASSUME TypeOK, NEW new, NEW m \in Machine,
           updates'[m] = updates[m] => (AtLast(m) = 1 <=> m \in ToSet(nodes)),
           updates' = Updates(ToSet(nodes), new), status' = status
    PROVE  AtLast(m)' = 1 <=> m \in new
<1>1. updates[m] \in Seq({0, 1})
  BY DEF TypeOK
<1>2. CASE m \in ToSet(nodes) \ new
  <2>1. updates'[m] = updates[m] \o <<0>>
    BY <1>2 DEF Updates
  <2>2. updates'[m] # <<>> /\ updates'[m][Len(updates'[m])] = 0
    BY <1>1, <2>1, Appended
  <2> QED
    BY <1>2, <2>2 DEF AtLast
<1>3. CASE m \in new \ ToSet(nodes)
  <2>1. updates'[m] = updates[m] \o <<1>>
    BY <1>3 DEF Updates
  <2>2. updates'[m] # <<>> /\ updates'[m][Len(updates'[m])] = 1
    BY <1>1, <2>1, Appended
  <2> QED
    BY <1>3, <2>2 DEF AtLast
<1>4. CASE m \in new <=> m \in ToSet(nodes)
  <2>1. updates'[m] = updates[m]
    BY <1>1, <1>4, Appended DEF Updates
  <2> QED
    BY <1>4, <2>1 DEF AtLast
<1> QED
  BY <1>2, <1>3, <1>4

LEMMA ReportWrites ==
    ASSUME TypeOK, Written, NEW report,
           Report(report) \/ UNCHANGED <<nodes, updates, told, phase>>,
           status' = status
    PROVE  Written'
<1>1. CASE phase = "asking" /\ Review(report) /\ phase' = "waiting"
  <2>1. updates' = Updates(ToSet(nodes), ToSet(nodes'))
    BY <1>1, ReviewKeeps
  <2>2. \A m \in Machine :
          ~told'[m] => (updates'[m] = updates[m] => (AtLast(m) = 1 <=> m \in ToSet(nodes)))
    BY <1>1 DEF Review, Written
  <2>3. \A m \in Machine : ~told'[m] => (AtLast(m)' = 1 <=> m \in ToSet(nodes'))
    BY <2>1, <2>2, UpdatesWrite
  <2> QED
    BY <1>1, <2>3 DEF Written
<1>2. CASE /\ UNCHANGED <<nodes, updates, told>>
           /\ phase' = phase \/ (phase = "asking" /\ phase' \in {"waiting", "stuck"})
  <2>1. \A m \in Machine : AtLast(m)' = AtLast(m)
    BY <1>2 DEF AtLast
  <2> QED
    BY <1>2, <2>1 DEF Written
<1> QED
  BY <1>1, <1>2 DEF Report

\* An update that is executed leaves what the row has in the end.
LEMMA UpdateWrites ==
    ASSUME TypeOK, NEW m \in Machine, Update(m), NEW n \in Machine
    PROVE  AtLast(n)' = AtLast(n)
<1>1. CASE n = m
  <2>1. updates[m] \in Seq({0, 1}) /\ updates[m] # <<>>
    BY DEF Update, TypeOK
  <2>2. updates'[m] = Tail(updates[m]) /\ status'[m] = Head(updates[m])
    BY DEF Update, TypeOK
  <2>3. CASE Tail(updates[m]) = <<>>
    <3>1. Len(Tail(updates[m])) = Len(updates[m]) - 1 /\ Len(updates[m]) \in Nat
      BY <2>1
    <3>2. Len(Tail(updates[m])) = 0
      <4>1. Len(<<>>) = 0
        OBVIOUS
      <4> QED
        BY <2>3, <4>1, Zenon
    <3>3. Len(updates[m]) = 1 /\ Head(updates[m]) = updates[m][1]
      BY <2>1, <3>1, <3>2
    <3> QED
      BY <1>1, <2>1, <2>2, <2>3, <3>3 DEF AtLast
  <2>4. CASE Tail(updates[m]) # <<>>
    <3>1. Tail(updates[m])[Len(Tail(updates[m]))] = updates[m][Len(updates[m])]
      BY <2>1, <2>4
    <3> QED
      BY <1>1, <2>1, <2>2, <2>4, <3>1 DEF AtLast
  <2> QED
    BY <2>3, <2>4
<1>2. CASE n # m
  <2>1. updates'[n] = updates[n] /\ status'[n] = status[n]
    BY <1>2 DEF Update, TypeOK
  <2> QED
    BY <2>1 DEF AtLast
<1> QED
  BY <1>1, <1>2

LEMMA BootWrites ==
    ASSUME TypeOK, Written, Boot
    PROVE  Written'
<1>1. ToSet(nodes') = {m \in Machine : status[m] = 1}
  <2>1. <<>> \in Seq(Machine) /\ IsInjective(<<>>) /\ ToSet(<<>>) = {}
    BY DEF IsInjective, ToSet
  <2>2. {m \in Machine : status[m] = 1} \in SUBSET Machine
    OBVIOUS
  <2> QED
    BY <2>1, <2>2, AddNodesKeeps DEF Boot
<1>2. ASSUME NEW m \in Machine, ~told'[m]
      PROVE  AtLast(m)' = 1 <=> m \in ToSet(nodes')
  <2>1. updates[m] \in Seq({0, 1}) /\ status' = status
    BY DEF Boot, TypeOK
  <2>2. CASE status[m] = 1
    <3>1. updates'[m] = updates[m] \o <<1>>
      BY <2>2 DEF Boot
    <3>2. updates'[m] # <<>> /\ updates'[m][Len(updates'[m])] = 1
      BY <2>1, <3>1, Appended
    <3> QED
      BY <1>1, <2>2, <3>2 DEF AtLast
  <2>3. CASE status[m] # 1
    <3>1. updates'[m] = updates[m] \o <<>>
      BY <2>3 DEF Boot
    <3>2. updates'[m] = updates[m]
      BY <2>1, <3>1, Appended
    <3>3. ~told[m] \/ updates[m] = <<>>
      BY <1>2, <2>3 DEF Boot
    <3>4. updates[m] = <<>>
      BY <3>3 DEF Boot, Written
    <3> QED
      BY <1>1, <2>1, <2>3, <3>2, <3>4 DEF AtLast
  <2> QED
    BY <2>2, <2>3
<1>3. phase' # "off"
  BY DEF Boot
<1> QED
  BY <1>2, <1>3 DEF Written

LEMMA WrittenKept ==
    ASSUME TypeOK, Written, [Next]_vars
    PROVE  Written'
<1>1. CASE Boot
  BY <1>1, BootWrites
<1>2. ASSUME UNCHANGED <<table, nodes>>,
             phase' = phase \/ (phase = "waiting" /\ phase' = "asking")
      PROVE  Written'
  <2>1. \A m \in Machine : AtLast(m)' = AtLast(m)
    BY <1>2 DEF AtLast, table
  <2> QED
    BY <1>2, <2>1 DEF Written, table
<1>3. CASE Ask \/ Replace
  BY <1>2, <1>3 DEF Ask, Replace
<1>4. ASSUME NEW i \in Instance, List(i) \/ FailList(i) PROVE Written'
  BY <1>2, <1>4 DEF List, FailList
<1>5. ASSUME NEW m \in Machine, NEW i \in Instance,
             Respond(m, i) \/ RespondOdd(m, i) \/ BadReply(m, i)
      PROVE  Written'
  BY <1>2, <1>5 DEF Respond, RespondOdd, BadReply, center
<1>6. ASSUME NEW m \in Machine, NEW i \in Instance, Heard(m, i) PROVE Written'
  BY <1>6, HeardParts, ReportWrites
<1>7. ASSUME NEW m \in Machine, Update(m) PROVE Written'
  <2>1. \A n \in Machine : AtLast(n)' = AtLast(n)
    BY <1>7, UpdateWrites
  <2>2. UNCHANGED <<phase, nodes, told>>
    BY <1>7 DEF Update, center
  <2>3. ASSUME NEW n \in Machine, ~told[n], phase = "off" PROVE updates'[n] = <<>>
    BY <1>7, <2>3 DEF Written, Update, TypeOK
  <2> QED
    BY <2>1, <2>2, <2>3 DEF Written
<1>8. ASSUME NEW m \in Machine, Tell(m) \/ Register(m) PROVE Written'
  <2>1. told'[m] /\ UNCHANGED <<phase, nodes>>
    BY <1>8 DEF Tell, Register, TypeOK, center
  <2>2. ASSUME NEW n \in Machine, n # m
        PROVE  updates'[n] = updates[n] /\ status'[n] = status[n] /\ told'[n] = told[n]
    BY <1>8, <2>2 DEF Tell, Register, TypeOK
  <2>3. \A n \in Machine : n # m => AtLast(n)' = AtLast(n)
    BY <2>2 DEF AtLast
  <2> QED
    BY <2>1, <2>2, <2>3 DEF Written
<1>9. ASSUME NEW m \in Machine, Flip(m) PROVE Written'
  BY <1>2, <1>9 DEF Flip, center
<1>10. CASE Crash
  BY <1>10 DEF Crash, Written
<1>11. CASE UNCHANGED vars
  BY <1>2, <1>11 DEF vars, center
<1> QED
  BY <1>1, <1>3, <1>4, <1>5, <1>6, <1>7, <1>8, <1>9, <1>10, <1>11 DEF Next

\* However the center's updates and the machines' own are mixed, a row of which the
\* center has the last word agrees with the list of nodes once its updates are
\* executed, also after crashes that lost some of them: what a start loads it writes
\* again (fileHealthy.js:121-146, fileHealthyFactory.js:83-120,
\* supplierUpdateStatus.js:20).
THEOREM TableFollowsNodes == Spec => []StatusFollowsNodes
<1>1. Init => Written
  BY DEF Init, Written
<1>2. TypeOK /\ Written /\ [Next]_vars => Written'
  BY WrittenKept
<1>3. Written => StatusFollowsNodes
  BY DEF Written, StatusFollowsNodes, AtLast
<1> QED
  BY <1>1, <1>2, <1>3, NodesTyped, PTL DEF Spec

-----------------------------------------------------------------------------
(* No machine is removed that runs *)

\* A machine of which "sure" holds runs, was last heard to run, and nothing on its
\* way says otherwise; a center that is not running has no nodes.
Certain ==
    /\ \A m \in Machine : sure[m] => alive[m] /\ data[m] = "up" /\ Clear(m)
    /\ phase = "off" => nodes = <<>>

\* Nodes come only to a center that runs, and it stops only in a crash.
LEMMA ReportStays ==
    ASSUME phase = "off" => nodes = <<>>, NEW report,
           Report(report) \/ UNCHANGED <<nodes, updates, told, phase>>
    PROVE  phase' = "off" => nodes' = <<>>
BY DEF Report

LEMMA CertainKept ==
    ASSUME TypeOK, Certain, [Next]_vars
    PROVE  Certain'
<1>1. ASSUME UNCHANGED <<alive, data, replies>>,
             \A m \in Machine : sure'[m] => sure[m],
             phase' = "off" => phase = "off" /\ UNCHANGED nodes
      PROVE  Certain'
  <2>1. \A m \in Machine : Clear(m)' <=> Clear(m)
    BY <1>1 DEF Clear
  <2> QED
    BY <1>1, <2>1 DEF Certain
<1>2. CASE Boot \/ Ask \/ Replace
  BY <1>1, <1>2 DEF Boot, Ask, Replace, network
<1>3. ASSUME NEW i \in Instance, List(i) \/ FailList(i) PROVE Certain'
  BY <1>1, <1>3 DEF List, FailList, network
<1>4. ASSUME NEW m \in Machine, NEW i \in Instance, Respond(m, i) PROVE Certain'
  <2>1. CASE alive[m]
    <3>1. replies' = [replies EXCEPT ![m][i]["up"] = @ + 1] /\ "up" \in Word
      BY <1>4, <2>1 DEF Respond, Word
    <3>2. \A n \in Machine : Clear(n)' <=> Clear(n)
      BY <3>1, OneAnswer
    <3> QED
      BY <1>4, <3>2 DEF Respond, Certain, center
  <2>2. CASE ~alive[m]
    <3>1. replies' = [replies EXCEPT ![m][i]["down"] = @ + 1] /\ "down" \in Word
      BY <1>4, <2>2 DEF Respond, Word
    <3>2. \A n \in Machine : n # m => (Clear(n)' <=> Clear(n))
      BY <3>1, OneAnswer
    <3> QED
      BY <1>4, <2>2, <3>2 DEF Respond, Certain, center
  <2> QED
    BY <2>1, <2>2
<1>5. ASSUME NEW m \in Machine, NEW i \in Instance, RespondOdd(m, i) PROVE Certain'
  <2>1. "odd" \in Word
    BY DEF Word
  <2>2. \A n \in Machine : n # m => (Clear(n)' <=> Clear(n))
    BY <1>5, <2>1, OneAnswer DEF RespondOdd
  <2>3. ~sure'[m] /\ \A n \in Machine : n # m => sure'[n] = sure[n]
    BY <1>5 DEF RespondOdd, TypeOK
  <2> QED
    BY <1>5, <2>2, <2>3 DEF RespondOdd, Certain, center
<1>6. ASSUME NEW m \in Machine, NEW i \in Instance, BadReply(m, i) PROVE Certain'
  BY <1>1, <1>6 DEF BadReply, center
<1>7. ASSUME NEW m \in Machine, NEW i \in Instance, Heard(m, i) PROVE Certain'
  <2>1. PICK w \in Word :
          /\ Take(m, i, w)
          /\ Hear(m, w) \/ UNCHANGED <<data, age>>
          /\ w # "up" => UNCHANGED sure
          /\ w = "up" => sure' = [sure EXCEPT ![m] =
                                    alive[m] /\ data'[m] = "up" /\ Clear(m)]
    BY <1>7, HeardParts
  <2>2. /\ Report(data') \/ UNCHANGED <<nodes, updates, told, phase>>
        /\ UNCHANGED alive
    BY <1>7, HeardParts
  <2>3. phase' = "off" => nodes' = <<>>
    BY <2>2, ReportStays DEF Certain
  <2>4. \A n \in Machine : n # m => data'[n] = data[n] /\ (Clear(n)' <=> Clear(n))
    BY <2>1, HearTyped, OneTaken
  <2>5. CASE w = "up"
    <3>1. \A n \in Machine : n # m => sure'[n] = sure[n]
      BY <2>1, <2>5 DEF TypeOK
    <3>2. sure'[m] => alive[m] /\ data'[m] = "up" /\ Clear(m)
      BY <2>1, <2>5, Zenon DEF TypeOK
    <3>3. Clear(m)' <=> Clear(m)
      BY <2>1, <2>5, OneTaken
    <3> QED
      BY <2>2, <2>3, <2>4, <3>1, <3>2, <3>3 DEF Certain
  <2>6. CASE w # "up"
    <3>1. ~sure[m]
      BY <2>1, <2>6, OneTaken DEF Certain
    <3> QED
      BY <2>1, <2>2, <2>3, <2>4, <2>6, <3>1 DEF Certain
  <2> QED
    BY <2>5, <2>6
<1>8. ASSUME NEW m \in Machine, Update(m) \/ Tell(m) \/ Register(m) PROVE Certain'
  BY <1>1, <1>8 DEF Update, Tell, Register, center, network
<1>9. ASSUME NEW m \in Machine, Flip(m) PROVE Certain'
  <2>1. \A n \in Machine : sure'[n] => sure[n] /\ alive'[n] = alive[n]
    BY <1>9 DEF Flip, TypeOK
  <2>2. \A n \in Machine : Clear(n)' <=> Clear(n)
    BY <1>9 DEF Flip, Clear, network
  <2> QED
    BY <1>9, <2>1, <2>2 DEF Flip, Certain, center
<1>10. CASE Crash
  BY <1>10 DEF Crash, Certain
<1>11. CASE UNCHANGED vars
  BY <1>1, <1>11 DEF vars, center, network
<1> QED
  BY <1>2, <1>3, <1>4, <1>5, <1>6, <1>7, <1>8, <1>9, <1>10, <1>11 DEF Next

\* What a step may never do: of a machine that "sure" holds of, as it stays in the
\* list.
LEMMA SureStays ==
    ASSUME TypeOK, Certain, [Next]_vars,
           NEW m \in Machine, sure[m], m \in ToSet(nodes), phase' # "off"
    PROVE  m \in ToSet(nodes')
<1>1. CASE Boot
  BY <1>1 DEF Boot, Certain, ToSet
<1>2. ASSUME NEW report, report[m] = "up",
             Report(report) \/ UNCHANGED <<nodes, updates, told, phase>>
      PROVE  m \in ToSet(nodes')
  BY <1>2, ReviewKeeps DEF Report
<1>3. ASSUME NEW n \in Machine, NEW i \in Instance, Heard(n, i)
      PROVE  m \in ToSet(nodes')
  <2>1. PICK w \in Word : Take(n, i, w) /\ (Hear(n, w) \/ UNCHANGED <<data, age>>)
    BY <1>3, HeardParts
  <2>2. data[m] = "up" /\ Clear(m)
    BY DEF Certain
  <2>3. CASE n = m
    <3>1. w = "up"
      BY <2>1, <2>2, <2>3, OneTaken
    <3>2. data'[m] = "up"
      BY <2>1, <2>2, <2>3, <3>1 DEF Hear, TypeOK
    <3> QED
      BY <1>2, <1>3, <3>2, HeardParts
  <2>4. CASE n # m
    <3>1. data'[m] = "up"
      BY <2>1, <2>2, <2>4, HearTyped
    <3> QED
      BY <1>2, <1>3, <3>1, HeardParts
  <2> QED
    BY <2>3, <2>4
<1>4. CASE UNCHANGED nodes
  BY <1>4
<1>5. CASE Crash
  BY <1>5 DEF Crash
<1>6. \/ Boot \/ Crash \/ UNCHANGED nodes
      \/ \E n \in Machine, i \in Instance : Heard(n, i)
  BY DEF Next, Ask, Replace, List, FailList, Respond, RespondOdd, BadReply, Update, Tell,
         Register, Flip, vars, center
<1> QED
  BY <1>1, <1>3, <1>4, <1>5, <1>6

\* A machine that has reported "up", has run ever since and answered nothing else, and
\* of which no refusal from before is on its way, is not removed: a late report counts
\* as stored, the loop that shortens the array it goes over leaves out no machine that
\* is up, and a callback that reads another command removes none
\* (SupplierMonitorCollector.js:77-88).
THEOREM RunningNodesStay == Spec => NoFalseRemoval
<1>1. Init => Certain
  BY DEF Init, Certain
<1>2. TypeOK /\ Certain /\ [Next]_vars => Certain'
  BY CertainKept
<1>3. TypeOK /\ Certain /\ [Next]_vars =>
        [\A m \in Machine :
            sure[m] /\ m \in ToSet(nodes) /\ phase' # "off" => m \in ToSet(nodes')]_vars
  BY SureStays
<1> QED
  BY <1>1, <1>2, <1>3, NodesTyped, PTL DEF Spec, NoFalseRemoval
=============================================================================
