---------------------------- MODULE ProvisionProofs ----------------------------
(***************************************************************************)
(* Choosing machines, for every number of commands, machines and copies:   *)
(* the commands use the registry as CmdQueue allows, the copies of one     *)
(* choice are on different machines, and choices that do not overlap take  *)
(* turns.                                                                  *)
(***************************************************************************)
EXTENDS Provision, CmdQueueProofs, FiniteSetTheorems

-----------------------------------------------------------------------------
(* The registry under the commands *)

LEMMA ProvisionUsesQueue == [ProvNext]_provVars => [Next]_vars
<1> SUFFICES ASSUME [ProvNext]_provVars PROVE [Next]_vars
  OBVIOUS
<1>1. ASSUME NEW c \in Cmd, NEW r \in Requests, Submit(c, r) \/ AskCopies(c, r)
      PROVE  [Next]_vars
  BY <1>1 DEF Submit, AskCopies, Next
<1>2. ASSUME NEW c \in Cmd, MetaDone(c) \/ Select(c) \/ SelectNone(c) \/ Sent(c)
      PROVE  [Next]_vars
  BY <1>2 DEF MetaDone, Select, SelectNone, Sent
<1>3. CASE Registry
  BY <1>3 DEF Registry, Next
<1>4. CASE Change \/ UNCHANGED provVars
  BY <1>4 DEF Change, provVars
<1> QED
  BY <1>1, <1>2, <1>3, <1>4 DEF ProvNext

\* Whatever commands are posted, run and dropped, to the registry it is a sequence
\* of its own operations.
THEOREM ProvisionImplementsQueue == ProvSpec => Spec
BY ProvisionUsesQueue, PTL DEF ProvSpec, ProvInit, Spec

\* The registry keeps its type while commands use it.
THEOREM RegistryTyped == ProvSpec => []TypeOK
BY ProvisionImplementsQueue, QueueCorrect, PTL

\* Array and pool agree while commands use them.
THEOREM RegistryAgrees == ProvSpec => []PoolIsList
BY ProvisionImplementsQueue, QueueCorrect, PTL

\* An ID leads to its command while commands come and go.
THEOREM RegistryFinds == ProvSpec => []IDLeadsToCommand
BY ProvisionImplementsQueue, QueueCorrect, PTL

-----------------------------------------------------------------------------
(* Arithmetic *)

\* Quotient and remainder, which determine each other.
LEMMA Division ==
    ASSUME NEW a \in Nat, NEW L \in Nat \ {0}
    PROVE  /\ a = L * (a \div L) + (a % L)
           /\ a \div L \in Nat
           /\ (a % L) \in 0 .. L - 1
OBVIOUS

LEMMA DivisionUnique ==
    ASSUME NEW a \in Nat, NEW L \in Nat \ {0}, NEW q \in Int, NEW r \in 0 .. L - 1, a = L * q + r
    PROVE  (a % L) = r
OBVIOUS

\* Numbers less than L apart have different remainders.
LEMMA RemaindersDiffer ==
    ASSUME NEW a \in Nat, NEW b \in Nat, NEW L \in Nat \ {0}, a < b, b - a < L
    PROVE  (a % L) # (b % L)
<1> DEFINE p == a \div L
           q == b \div L
<1>1. /\ a = L * p + (a % L) /\ p \in Nat
      /\ b = L * q + (b % L) /\ q \in Nat
  BY Division
<1>2. q - p \in Int
  BY <1>1
<1> HIDE DEF p, q
<1>3. ASSUME (a % L) = (b % L) PROVE FALSE
  <2>1. b - a = L * (q - p)
    BY <1>1, <1>3
  <2>2. \A k \in Int : (k >= 1 => L * k >= L) /\ (k <= 0 => L * k <= 0)
    OBVIOUS
  <2> QED
    BY <1>2, <2>1, <2>2
<1> QED
  BY <1>3

\* Every position is one of the next L.
LEMMA RemaindersReach ==
    ASSUME NEW a \in Nat, NEW L \in Nat \ {0}, NEW r \in 0 .. L - 1
    PROVE  \E k \in 0 .. L - 1 : ((a + k) % L) = r
<1> DEFINE q == a \div L
           s == a % L
<1>1. a = L * q + s /\ q \in Nat /\ s \in 0 .. L - 1
  BY Division
<1> HIDE DEF q, s
<1>2. CASE r >= s
  <2>1. a + (r - s) = L * q + r /\ r - s \in 0 .. L - 1 /\ a + (r - s) \in Nat
    BY <1>1, <1>2
  <2>2. ((a + (r - s)) % L) = r
    BY <1>1, <2>1, DivisionUnique
  <2> QED
    BY <2>1, <2>2
<1>3. CASE r < s
  <2> DEFINE k == r - s + L
  <2>1. a + k = L * (q + 1) + r /\ k \in 0 .. L - 1 /\ a + k \in Nat /\ q + 1 \in Int
    BY <1>1, <1>3
  <2> HIDE DEF k
  <2>2. ((a + k) % L) = r
    BY <2>1, DivisionUnique
  <2> QED
    BY <2>1, <2>2
<1> QED
  BY <1>1, <1>2, <1>3

\* Induction, for a set: the library's theorems take a predicate, which the provers
\* cannot instantiate.  The intervals that end outside of S have a smallest one.
LEMMA InductionOverNat ==
    ASSUME NEW S, 0 \in S, \A n \in Nat : n \in S => n + 1 \in S
    PROVE  Nat \subseteq S
<1> SUFFICES ASSUME NEW bad \in Nat, bad \notin S PROVE FALSE
  OBVIOUS
<1> DEFINE F == {T \in SUBSET Nat : \E n \in Nat : n \notin S /\ T = 0 .. n}
<1>1. 0 .. bad \in F
  OBVIOUS
<1>2. F \subseteq FiniteSubsetsOf(Nat)
  <2> SUFFICES ASSUME NEW n \in Nat PROVE IsFiniteSet(0 .. n)
    BY DEF FiniteSubsetsOf
  <2> QED
    BY FS_Interval
<1>3. PICK T \in F : \A U \in F : <<U, T>> \notin StrictSubsetOrdering(Nat)
  <2> HIDE DEF F
  <2> QED
    BY <1>1, <1>2, FS_StrictSubsetOrderingWellFounded, WFMin
<1>4. PICK n \in Nat : n \notin S /\ T = 0 .. n
  OBVIOUS
<1>5. n - 1 \in Nat /\ n - 1 \notin S
  BY <1>4
<1>6. 0 .. n - 1 \in F
  BY <1>5
<1>7. <<0 .. n - 1, T>> \in StrictSubsetOrdering(Nat)
  BY <1>4, <1>5 DEF StrictSubsetOrdering
<1> QED
  BY <1>3, <1>6, <1>7

-----------------------------------------------------------------------------
(* What commands hold *)

Kinds == {"none", "upload", "meta", "copies"}

ProvShape ==
    /\ provisionNum \in Nat
    /\ rows \in Seq(Machine) /\ IsInjective(rows)
    /\ pc \in [Cmd -> {"idle", "meta", "select", "send"}]
    /\ request \in [Cmd -> [kind : Kinds, selectsNum : Nat, avoid : Machine \cup {None}]]
    /\ pn \in [Cmd -> Nat]
    /\ supplierInfo \in [Cmd -> Seq(Machine)]
    /\ alone \in [Cmd -> BOOLEAN]
    /\ times \in [Machine -> Nat]

LEMMA RequestsTyped ==
    Requests \cup {Idle} \subseteq [kind : Kinds, selectsNum : Nat, avoid : Machine \cup {None}]
BY ProvisionAssumption DEF Requests, Idle, Kinds

LEMMA Joined ==
    ASSUME NEW M, NEW s \in Seq(M), NEW t \in Seq(M)
    PROVE  /\ s \o t \in Seq(M) /\ Len(s \o t) = Len(s) + Len(t)
           /\ \A i \in 1 .. Len(s) + Len(t) :
                 (s \o t)[i] = IF i <= Len(s) THEN s[i] ELSE t[i - Len(s)]
OBVIOUS

\* A sequence without its p-th element.
LEMMA WithoutOne ==
    ASSUME NEW M, NEW s \in Seq(M), NEW p \in 1 .. Len(s)
    PROVE  LET u == SubSeq(s, 1, p - 1) \o SubSeq(s, p + 1, Len(s))
           IN  /\ u \in Seq(M) /\ Len(u) = Len(s) - 1
               /\ \A i \in 1 .. Len(s) - 1 : u[i] = IF i < p THEN s[i] ELSE s[i + 1]
<1> DEFINE n == Len(s)
           left == SubSeq(s, 1, p - 1)
           right == SubSeq(s, p + 1, n)
           u == left \o right
<1>1. n \in Nat /\ p \in 1 .. n
  OBVIOUS
<1>2. left \in Seq(M) /\ Len(left) = p - 1 /\ \A i \in 1 .. p - 1 : left[i] = s[i]
  OBVIOUS
<1>3. right \in Seq(M) /\ Len(right) = n - p /\ \A i \in 1 .. n - p : right[i] = s[p + i]
  OBVIOUS
<1> HIDE DEF left, right
<1>4. /\ u \in Seq(M) /\ Len(u) = Len(left) + Len(right)
      /\ \A i \in 1 .. Len(left) + Len(right) :
            u[i] = IF i <= Len(left) THEN left[i] ELSE right[i - Len(left)]
  BY <1>2, <1>3, Joined
<1> HIDE DEF u, n
<1>5. u \in Seq(M) /\ Len(u) = n - 1
  BY <1>1, <1>2, <1>3, <1>4
<1>6. \A i \in 1 .. n - 1 : u[i] = IF i <= p - 1 THEN left[i] ELSE right[i - (p - 1)]
  BY <1>1, <1>2, <1>3, <1>4
<1>7. ASSUME NEW i \in 1 .. n - 1 PROVE u[i] = IF i < p THEN s[i] ELSE s[i + 1]
  <2>1. CASE i < p
    BY <1>1, <1>2, <1>6, <2>1
  <2>2. CASE i >= p
    <3>1. i - (p - 1) \in 1 .. n - p /\ p + (i - (p - 1)) = i + 1
      BY <1>1, <2>2
    <3>2. right[i - (p - 1)] = s[p + (i - (p - 1))]
      BY <1>3, <3>1
    <3> QED
      BY <1>1, <1>6, <2>2, <3>1, <3>2
  <2> QED
    BY <1>1, <2>1, <2>2
<1> QED
  BY <1>5, <1>7 DEF u, left, right, n

\* The machines a command may choose from: different ones, in the table's order.
LEMMA FoundTyped ==
    ASSUME NEW c, rows \in Seq(Machine), IsInjective(rows)
    PROVE  Found(c) \in Seq(Machine) /\ IsInjective(Found(c))
<1> DEFINE own == {p \in DOMAIN rows : rows[p] = request[c].avoid}
<1>1. CASE own = {}
  BY <1>1 DEF Found
<1>2. CASE own # {}
  <2> DEFINE p == CHOOSE p \in own : TRUE
             s == SubSeq(rows, 1, p - 1) \o SubSeq(rows, p + 1, Len(rows))
  <2>1. p \in 1 .. Len(rows) /\ Len(rows) \in Nat
    BY <1>2
  <2>2. Found(c) = s
    BY <1>2 DEF Found
  <2> HIDE DEF p
  <2>3. /\ s \in Seq(Machine) /\ Len(s) = Len(rows) - 1
        /\ \A i \in 1 .. Len(rows) - 1 : s[i] = IF i < p THEN rows[i] ELSE rows[i + 1]
    <3> HIDE DEF s
    <3> QED
      BY <2>1, WithoutOne DEF s
  <2> HIDE DEF s
  <2>4. DOMAIN s = 1 .. Len(rows) - 1 /\ DOMAIN rows = 1 .. Len(rows)
    BY <2>3
  <2>5. \A i, j \in 1 .. Len(rows) : rows[i] = rows[j] => i = j
    BY <2>4 DEF IsInjective
  <2>6. ASSUME NEW i \in 1 .. Len(rows) - 1, NEW j \in 1 .. Len(rows) - 1, s[i] = s[j]
        PROVE  i = j
    <3> DEFINE i1 == IF i < p THEN i ELSE i + 1
               j1 == IF j < p THEN j ELSE j + 1
    <3>1. i1 \in 1 .. Len(rows) /\ j1 \in 1 .. Len(rows)
      BY <2>1
    <3>2. rows[i1] = rows[j1]
      BY <2>3, <2>6
    <3>3. i1 = j1
      <4> HIDE DEF i1, j1
      <4> QED
        BY <2>5, <3>1, <3>2
    <3> QED
      BY <2>1, <3>3
  <2> QED
    BY <2>2, <2>3, <2>4, <2>6 DEF IsInjective
<1> QED
  BY <1>1, <1>2

LEMMA HowManyTyped ==
    ASSUME ProvShape, NEW c \in Cmd
    PROVE  HowMany(c) \in Nat \ {0}
BY DEF ProvShape, HowMany

LEMMA ChosenTyped ==
    ASSUME ProvShape, NEW c \in Cmd, Found(c) # <<>>
    PROVE  /\ Chosen(c) \in Seq(Machine)
           /\ Len(Chosen(c)) = HowMany(c)
           /\ Len(Found(c)) \in Nat \ {0}
           /\ \A i \in 1 .. HowMany(c) : ((pn[c] + i - 1) % Len(Found(c))) + 1 \in 1 .. Len(Found(c))
<1> DEFINE L == Len(Found(c))
<1>1. Found(c) \in Seq(Machine)
  BY FoundTyped DEF ProvShape
<1>2. L \in Nat \ {0}
  BY <1>1
<1>3. ASSUME NEW i \in 1 .. HowMany(c)
      PROVE  ((pn[c] + i - 1) % L) + 1 \in 1 .. L
  <2> DEFINE a == pn[c] + i - 1
  <2>1. a \in Nat
    BY HowManyTyped DEF ProvShape
  <2> HIDE DEF a
  <2>2. (a % L) + 1 \in 1 .. L
    <3> HIDE DEF L
    <3> QED
      BY <1>2, <2>1, Division
  <2> QED
    BY <2>2 DEF a
<1>4. \A i \in 1 .. HowMany(c) : Found(c)[((pn[c] + i - 1) % L) + 1] \in Machine
  BY <1>1, <1>3
<1> QED
  BY <1>2, <1>3, <1>4, HowManyTyped DEF Chosen

\* The positions of one choice.
LEMMA RoundOnce ==
    ASSUME NEW n \in Nat, NEW L \in Nat \ {0}, NEW h \in Nat, h <= L,
           NEW i \in 1 .. h, NEW j \in 1 .. h, i < j
    PROVE  ((n + i - 1) % L) + 1 # ((n + j - 1) % L) + 1
<1> DEFINE a == n + i - 1
           b == n + j - 1
<1>1. a \in Nat /\ b \in Nat /\ a < b /\ b - a < L
  OBVIOUS
<1> HIDE DEF a, b
<1>2. (a % L) # (b % L)
  BY <1>1, RemaindersDiffer
<1>3. (a % L) \in 0 .. L - 1 /\ (b % L) \in 0 .. L - 1
  BY <1>1
<1>4. (a % L) + 1 # (b % L) + 1
  BY <1>2, <1>3
<1> QED
  BY <1>4 DEF a, b

\* One choice goes round the rows at most once.
LEMMA ChoicesDiffer ==
    ASSUME ProvShape, NEW c \in Cmd, Found(c) # <<>>, HowMany(c) <= Len(Found(c))
    PROVE  IsInjective(Chosen(c))
<1> DEFINE L == Len(Found(c))
           at(i) == ((pn[c] + i - 1) % L) + 1
<1>1. /\ HowMany(c) \in Nat /\ L \in Nat \ {0} /\ pn[c] \in Nat
      /\ \A i \in 1 .. HowMany(c) : at(i) \in 1 .. L
      /\ Found(c) \in Seq(Machine) /\ IsInjective(Found(c))
  BY HowManyTyped, ChosenTyped, FoundTyped DEF ProvShape
<1>2. ASSUME NEW i \in 1 .. HowMany(c), NEW j \in 1 .. HowMany(c), i < j
      PROVE  at(i) # at(j)
  BY <1>1, <1>2, RoundOnce
<1>3. \A i, j \in 1 .. HowMany(c) : at(i) = at(j) => i = j
  BY <1>1, <1>2
<1>4. \A i, j \in 1 .. HowMany(c) : Found(c)[at(i)] = Found(c)[at(j)] => i = j
  <2> HIDE DEF at
  <2> QED
    BY <1>1, <1>3 DEF IsInjective
<1> QED
  BY <1>4 DEF IsInjective, Chosen

\* How often a machine is in a choice.
LEMMA TimesTyped ==
    ASSUME NEW s \in Seq(Machine), NEW m
    PROVE  /\ IsFiniteSet({i \in DOMAIN s : s[i] = m})
           /\ Cardinality({i \in DOMAIN s : s[i] = m}) \in Nat
<1>1. IsFiniteSet(1 .. Len(s)) /\ DOMAIN s = 1 .. Len(s)
  BY FS_Interval
<1>2. IsFiniteSet({i \in DOMAIN s : s[i] = m})
  BY <1>1, FS_Subset
<1> QED
  BY <1>2, FS_CardinalityType

LEMMA WriteTyped ==
    ASSUME ProvShape, NEW c \in Cmd, NEW value \in Nat, NEW chosen \in Seq(Machine),
           Write(c, value, chosen), rows' = rows
    PROVE  ProvShape'
<1>1. times' \in [Machine -> Nat]
  <2>1. [m \in Machine |-> times[m] + Cardinality({i \in DOMAIN chosen : chosen[i] = m})]
           \in [Machine -> Nat]
    <3>1. \A m \in Machine : times[m] \in Nat
      BY DEF ProvShape
    <3>2. \A m \in Machine : Cardinality({i \in DOMAIN chosen : chosen[i] = m}) \in Nat
      BY TimesTyped
    <3> QED
      BY <3>1, <3>2
  <2>2. Never \in [Machine -> Nat]
    BY DEF Never
  <2> QED
    BY <2>1, <2>2 DEF Write
<1> QED
  BY <1>1, RequestsTyped DEF ProvShape, Write, Ends

LEMMA ReadTyped ==
    ASSUME ProvShape, NEW c \in Cmd, Read(c), rows' = rows,
           request' \in [Cmd -> [kind : Kinds, selectsNum : Nat, avoid : Machine \cup {None}]]
    PROVE  ProvShape'
BY DEF ProvShape, Read

LEMMA ProvShapeInit == ProvInit => ProvShape
<1> SUFFICES ASSUME ProvInit PROVE ProvShape
  OBVIOUS
<1>1. Cardinality(Machine) \in Nat
  BY ProvisionAssumption, FS_CardinalityType
<1>2. rows \in Seq(Machine) /\ IsInjective(rows)
  BY <1>1 DEF ProvInit
<1> QED
  BY <1>2, RequestsTyped DEF ProvInit, ProvShape, Never

LEMMA ProvShapeNext == ProvShape /\ [ProvNext]_provVars => ProvShape'
<1> SUFFICES ASSUME ProvShape, [ProvNext]_provVars PROVE ProvShape'
  OBVIOUS
<1>1. ASSUME NEW c \in Cmd, NEW r \in Requests, Submit(c, r) PROVE ProvShape'
  <2>1. r \in [kind : Kinds, selectsNum : Nat, avoid : Machine \cup {None}]
    BY RequestsTyped
  <2>2. CASE request' = [request EXCEPT ![c] = r] /\ Read(c)
    BY <1>1, <2>1, <2>2, ReadTyped DEF ProvShape, Submit
  <2>3. CASE /\ request' = [request EXCEPT ![c] = r]
             /\ pc' = [pc EXCEPT ![c] = "meta"]
             /\ UNCHANGED <<provisionNum, pn, supplierInfo, alone, times>>
    BY <1>1, <2>1, <2>3 DEF ProvShape, Submit
  <2>4. CASE UNCHANGED <<provisionNum, pc, request, pn, supplierInfo, alone, times>>
    BY <1>1, <2>4 DEF ProvShape, Submit
  <2> QED
    BY <1>1, <2>2, <2>3, <2>4 DEF Submit
<1>2. ASSUME NEW c \in Cmd, NEW r \in Requests, AskCopies(c, r) PROVE ProvShape'
  BY <1>2, RequestsTyped, ReadTyped DEF ProvShape, AskCopies
<1>3. ASSUME NEW c \in Cmd, MetaDone(c) PROVE ProvShape'
  <2>1. CASE Read(c) /\ UNCHANGED request
    BY <1>3, <2>1, ReadTyped DEF ProvShape, MetaDone
  <2>2. CASE Ends(c) /\ UNCHANGED <<provisionNum, times>>
    BY <1>3, <2>2, RequestsTyped DEF ProvShape, MetaDone, Ends
  <2> QED
    BY <1>3, <2>1, <2>2 DEF MetaDone
<1>4. ASSUME NEW c \in Cmd, Select(c) PROVE ProvShape'
  <2>1. /\ Chosen(c) \in Seq(Machine) /\ rows' = rows
        /\ pn[c] + HowMany(c) \in Nat
    BY <1>4, ChosenTyped, HowManyTyped DEF ProvShape, Select
  <2>2. CASE request[c].kind = "upload"
    BY <1>4, <2>1, <2>2 DEF ProvShape, Select
  <2>3. CASE request[c].kind # "upload"
    BY <1>4, <2>1, <2>3, WriteTyped DEF Select
  <2> QED
    BY <2>2, <2>3
<1>5. ASSUME NEW c \in Cmd, SelectNone(c) PROVE ProvShape'
  <2>1. <<>> \in Seq(Machine) /\ pn[c] \in Nat
    BY DEF ProvShape
  <2> QED
    BY <1>5, <2>1, WriteTyped DEF SelectNone
<1>6. ASSUME NEW c \in Cmd, Sent(c) PROVE ProvShape'
  <2>1. supplierInfo[c] \in Seq(Machine) /\ pn[c] \in Nat
    BY DEF ProvShape
  <2>2. CASE Write(c, pn[c], supplierInfo[c])
    BY <1>6, <2>1, <2>2, WriteTyped DEF Sent
  <2>3. CASE Ends(c) /\ UNCHANGED <<provisionNum, times>>
    BY <1>6, <2>3, RequestsTyped DEF ProvShape, Sent, Ends
  <2> QED
    BY <1>6, <2>2, <2>3 DEF Sent
<1>7. CASE Registry
  BY <1>7 DEF Registry, ProvShape
<1>8. CASE Change
  <2>1. PICK n \in 0 .. Cardinality(Machine) : rows' \in [1 .. n -> Machine]
    BY <1>8 DEF Change
  <2>2. rows' \in Seq(Machine) /\ IsInjective(rows')
    BY <1>8, <2>1, ProvisionAssumption, FS_CardinalityType DEF Change
  <2> QED
    BY <1>8, <2>2 DEF Change, ProvShape, Never
<1>9. CASE UNCHANGED provVars
  BY <1>9 DEF provVars, ProvShape
<1> QED
  BY <1>1, <1>2, <1>3, <1>4, <1>5, <1>6, <1>7, <1>8, <1>9 DEF ProvNext

\* The copies of one choice are on different machines whenever there are enough,
\* whatever other commands do to the counter.
THEOREM CopiesAreDistinct == ProvSpec => []DistinctCopies
<1>1. ProvShape => DistinctCopies
  <2> SUFFICES ASSUME ProvShape, NEW c \in Cmd, Found(c) # <<>>, ~ HowMany(c) > Len(Found(c))
               PROVE  IsInjective(Chosen(c))
    BY DEF DistinctCopies
  <2>1. HowMany(c) <= Len(Found(c))
    BY HowManyTyped, ChosenTyped
  <2> QED
    BY <2>1, ChoicesDiffer
<1> QED
  BY <1>1, ProvShapeInit, ProvShapeNext, PTL DEF ProvSpec

-----------------------------------------------------------------------------
(* Machines in turn *)

\* The next `left' turns of the counter choose machines that were chosen `least'
\* times, the turns after them machines that were chosen once more.
InTurnOf(r, t, n) ==
    Len(r) > 0 =>
        \E least \in Nat, left \in 1 .. Len(r) : \A k \in 0 .. Len(r) - 1 :
            t[r[((n + k) % Len(r)) + 1]] = IF k < left THEN least ELSE least + 1

InTurn(t, n) == InTurnOf(rows, t, n)

\* Every row is the choice of some turn to come, so no two differ by more than 1.
LEMMA InTurnBalances ==
    ASSUME ProvShape, InTurn(times, provisionNum)
    PROVE  Balanced
<1> DEFINE L == Len(rows)
<1>1. L \in Nat /\ DOMAIN rows = 1 .. L
  BY DEF ProvShape
<1> SUFFICES ASSUME NEW i \in 1 .. L, NEW j \in 1 .. L
             PROVE  times[rows[i]] <= times[rows[j]] + 1
  BY <1>1 DEF Balanced
<1>2. L \in Nat \ {0} /\ provisionNum \in Nat
  BY <1>1 DEF ProvShape
<1>3. PICK least \in Nat, left \in 1 .. L : \A k \in 0 .. L - 1 :
         times[rows[((provisionNum + k) % L) + 1]] = IF k < left THEN least ELSE least + 1
  BY <1>2 DEF InTurn, InTurnOf
<1>4. ASSUME NEW p \in 1 .. L
      PROVE  times[rows[p]] \in {least, least + 1}
  <2>1. p - 1 \in 0 .. L - 1
    BY <1>1
  <2>2. PICK k \in 0 .. L - 1 : ((provisionNum + k) % L) = p - 1
    <3> HIDE DEF L
    <3> QED
      BY <1>2, <2>1, RemaindersReach
  <2>3. (p - 1) + 1 = p
    OBVIOUS
  <2>4. times[rows[p]] = IF k < left THEN least ELSE least + 1
    <3> HIDE DEF L
    <3> QED
      BY <1>3, <2>2, <2>3
  <2> QED
    BY <2>4
<1> QED
  BY <1>4

\* One turn: the machine is chosen, and becomes the last to be chosen again.
LEMMA OneTurn ==
    ASSUME rows \in Seq(Machine), IsInjective(rows), NEW n \in Nat,
           NEW t, NEW u \in [Machine -> Nat], InTurn(t, n), rows # <<>>,
           \A m \in Machine : u[m] = IF m = rows[(n % Len(rows)) + 1] THEN t[m] + 1 ELSE t[m]
    PROVE  InTurn(u, n + 1)
<1> DEFINE L == Len(rows)
           at(k) == ((n + k) % L) + 1
<1>1. L \in Nat \ {0} /\ DOMAIN rows = 1 .. L
  OBVIOUS
<1>2. PICK least \in Nat, left \in 1 .. L : \A k \in 0 .. L - 1 :
         t[rows[at(k)]] = IF k < left THEN least ELSE least + 1
  BY <1>1 DEF InTurn, InTurnOf
<1>2a. \A m \in Machine : u[m] = IF m = rows[(n % L) + 1] THEN t[m] + 1 ELSE t[m]
  OBVIOUS
<1> HIDE DEF L
<1>3. \A k \in Nat : at(k) \in 1 .. L /\ rows[at(k)] \in Machine
  <2> SUFFICES ASSUME NEW k \in Nat PROVE at(k) \in 1 .. L /\ rows[at(k)] \in Machine
    OBVIOUS
  <2>1. ((n + k) % L) \in 0 .. L - 1
    BY <1>1
  <2>2. at(k) \in 1 .. L
    BY <1>1, <2>1
  <2> QED
    BY <1>1, <2>2
<1>4. at(0) = (n % L) + 1
  OBVIOUS
\* The turn after L - 1 more is this machine's again.
<1>5. at(L) = at(0)
  <2>1. n = L * (n \div L) + (n % L) /\ n \div L \in Nat /\ (n % L) \in 0 .. L - 1
    BY <1>1, Division
  <2> DEFINE q == n \div L
             r == n % L
  <2>2. n + L = L * (q + 1) + r /\ q + 1 \in Int /\ n + L \in Nat /\ r \in 0 .. L - 1
    BY <1>1, <2>1
  <2>3. ((n + L) % L) = r
    <3> HIDE DEF q, r
    <3> QED
      BY <1>1, <2>2, DivisionUnique
  <2> QED
    BY <1>4, <2>3
<1>6. ASSUME NEW k \in 1 .. L - 1 PROVE rows[at(k)] # rows[at(0)]
  <2>1. ((n + k) % L) # (n % L)
    <3>1. n + k \in Nat /\ n < n + k /\ (n + k) - n < L
      BY <1>1
    <3> QED
      BY <1>1, <3>1, RemaindersDiffer
  <2>2. ((n + k) % L) \in 0 .. L - 1 /\ (n % L) \in 0 .. L - 1
    BY <1>1
  <2>3. at(k) # at(0)
    BY <1>4, <2>1, <2>2
  <2>4. at(k) \in 1 .. L /\ at(0) \in 1 .. L
    BY <1>1, <1>3
  <2> HIDE DEF at
  <2> QED
    BY <1>1, <2>3, <2>4 DEF IsInjective
<1>7. ASSUME NEW k \in 0 .. L - 1
      PROVE  u[rows[at(k + 1)]] = IF k = L - 1 THEN least + 1
                                  ELSE IF k + 1 < left THEN least ELSE least + 1
  <2>1. CASE k = L - 1
    <3>1. at(k + 1) = at(0) /\ rows[at(0)] \in Machine
      BY <1>1, <1>3, <1>5, <2>1
    <3>2. u[rows[at(0)]] = t[rows[at(0)]] + 1 /\ t[rows[at(0)]] = least
      <4>1. 0 \in 0 .. L - 1 /\ 0 < left
        BY <1>1
      <4> HIDE DEF at
      <4>2. t[rows[at(0)]] = least
        BY <1>2, <4>1
      <4> QED
        BY <1>4, <1>2a, <3>1, <4>2
    <3> QED
      BY <2>1, <3>1, <3>2
  <2>2. CASE k # L - 1
    <3>1. k + 1 \in 1 .. L - 1 /\ k + 1 \in 0 .. L - 1
      BY <1>1, <2>2
    <3>2. rows[at(k + 1)] # rows[at(0)] /\ rows[at(k + 1)] \in Machine
      <4> HIDE DEF at
      <4> QED
        BY <1>3, <1>6, <3>1
    <3>3. u[rows[at(k + 1)]] = t[rows[at(k + 1)]]
      <4> HIDE DEF at
      <4> QED
        BY <1>4, <1>2a, <3>2
    <3> QED
      BY <1>2, <2>2, <3>1, <3>3
  <2> QED
    BY <2>1, <2>2
<1>8. \A k \in 0 .. L - 1 : (((n + 1) + k) % L) + 1 = at(k + 1)
  BY <1>1
<1> DEFINE least1 == IF left = 1 THEN least + 1 ELSE least
           left1 == IF left = 1 THEN L ELSE left - 1
<1>9. least1 \in Nat /\ left1 \in 1 .. L
  BY <1>1
<1>10. ASSUME NEW k \in 0 .. L - 1
       PROVE  u[rows[at(k + 1)]] = IF k < left1 THEN least1 ELSE least1 + 1
  <2> HIDE DEF at
  <2> QED
    BY <1>1, <1>7
<1>11. \A k \in 0 .. L - 1 :
          u[rows[(((n + 1) + k) % L) + 1]] = IF k < left1 THEN least1 ELSE least1 + 1
  <2> HIDE DEF at, least1, left1
  <2> QED
    BY <1>8, <1>10
<1> QED
  <2> HIDE DEF least1, left1
  <2> QED
    BY <1>9, <1>11 DEF InTurn, InTurnOf, L

\* The machines of h turns, and how often one of them is in a choice.
Round(n, h) == [i \in 1 .. h |-> rows[((n + i - 1) % Len(rows)) + 1]]
Count(s, m) == Cardinality({i \in DOMAIN s : s[i] = m})

LEMMA RoundTyped ==
    ASSUME rows \in Seq(Machine), rows # <<>>, NEW n \in Nat, NEW h \in Nat
    PROVE  Round(n, h) \in Seq(Machine)
<1> DEFINE L == Len(rows)
<1>1. L \in Nat \ {0} /\ \A p \in 1 .. L : rows[p] \in Machine
  OBVIOUS
<1> HIDE DEF L
<1>2. ASSUME NEW i \in 1 .. h PROVE rows[((n + i - 1) % L) + 1] \in Machine
  <2> DEFINE a == n + i - 1
  <2>1. a \in Nat
    OBVIOUS
  <2> HIDE DEF a
  <2>2. (a % L) + 1 \in 1 .. L
    BY <1>1, <2>1
  <2> QED
    BY <1>1, <2>2 DEF a
<1> QED
  BY <1>2 DEF Round, L

\* One more turn adds one to its machine.
LEMMA RoundGrows ==
    ASSUME rows \in Seq(Machine), rows # <<>>, NEW n \in Nat, NEW h \in Nat, NEW m
    PROVE  Count(Round(n, h + 1), m) =
              IF m = rows[((n + h) % Len(rows)) + 1] THEN Count(Round(n, h), m) + 1
                                                    ELSE Count(Round(n, h), m)
<1> DEFINE old == {i \in DOMAIN Round(n, h) : Round(n, h)[i] = m}
           new == {i \in DOMAIN Round(n, h + 1) : Round(n, h + 1)[i] = m}
           last == rows[((n + h) % Len(rows)) + 1]
<1>1. IsFiniteSet(old) /\ Cardinality(old) \in Nat
  BY RoundTyped, TimesTyped
<1>2. /\ DOMAIN Round(n, h) = 1 .. h /\ DOMAIN Round(n, h + 1) = 1 .. h + 1
      /\ \A i \in 1 .. h : Round(n, h + 1)[i] = Round(n, h)[i]
      /\ h + 1 \notin 1 .. h
  BY DEF Round
<1>3. Round(n, h + 1)[h + 1] = last
  <2>1. n + (h + 1) - 1 = n + h /\ h + 1 \in 1 .. h + 1
    OBVIOUS
  <2> QED
    BY <2>1 DEF Round
<1>4. 1 .. h + 1 = 1 .. h \cup {h + 1}
  OBVIOUS
<1> HIDE DEF last
<1>5. new = IF m = last THEN old \cup {h + 1} ELSE old
  BY <1>2, <1>3, <1>4
<1>6. h + 1 \notin old
  BY <1>2
<1> HIDE DEF old, new
<1>7. Cardinality(new) = IF m = last THEN Cardinality(old) + 1 ELSE Cardinality(old)
  BY <1>1, <1>5, <1>6, FS_AddElement
<1> QED
  BY <1>7 DEF Count, old, new, last

LEMMA RoundKeepsTurns ==
    ASSUME rows \in Seq(Machine), IsInjective(rows), rows # <<>>,
           NEW n \in Nat, NEW t \in [Machine -> Nat], InTurn(t, n), NEW h \in Nat
    PROVE  InTurn([m \in Machine |-> t[m] + Count(Round(n, h), m)], n + h)
<1> DEFINE After(k) == [m \in Machine |-> t[m] + Count(Round(n, k), m)]
           S == {k \in Nat : InTurn(After(k), n + k)}
<1>1. \A k \in Nat, m \in Machine : Count(Round(n, k), m) \in Nat
  BY RoundTyped, TimesTyped DEF Count
<1>2. 0 \in S
  <2>1. \A m : {i \in DOMAIN Round(n, 0) : Round(n, 0)[i] = m} = {}
    BY DEF Round
  <2>2. \A m : Count(Round(n, 0), m) = 0
    BY <2>1, FS_EmptySet DEF Count
  <2>3. After(0) = t /\ n + 0 = n
    BY <2>2
  <2> HIDE DEF After
  <2> QED
    BY <2>3
<1>3. ASSUME NEW k \in Nat, k \in S
      PROVE  k + 1 \in S
  <2>1. InTurn(After(k), n + k) /\ n + k \in Nat
    BY <1>3
  <2>2. After(k + 1) \in [Machine -> Nat]
    <3>1. \A m \in Machine : t[m] \in Nat /\ Count(Round(n, k + 1), m) \in Nat
      <4>1. k + 1 \in Nat
        OBVIOUS
      <4> QED
        BY <1>1, <4>1
    <3>2. \A m \in Machine : t[m] + Count(Round(n, k + 1), m) \in Nat
      BY <3>1
    <3> QED
      BY <3>2
  <2>3. ASSUME NEW m \in Machine
        PROVE  After(k + 1)[m] = IF m = rows[((n + k) % Len(rows)) + 1] THEN After(k)[m] + 1
                                                                      ELSE After(k)[m]
    <3>1. /\ t[m] \in Nat /\ Count(Round(n, k), m) \in Nat
          /\ After(k)[m] = t[m] + Count(Round(n, k), m)
          /\ After(k + 1)[m] = t[m] + Count(Round(n, k + 1), m)
      BY <1>1
    <3> HIDE DEF After
    <3> QED
      BY <3>1, RoundGrows
  <2> HIDE DEF After
  <2>4. InTurn(After(k + 1), (n + k) + 1)
    BY <2>1, <2>2, <2>3, OneTurn
  <2>5. (n + k) + 1 = n + (k + 1)
    OBVIOUS
  <2> QED
    BY <2>4, <2>5
<1>4. h \in S
  <2> HIDE DEF S
  <2> QED
    BY <1>2, <1>3, InductionOverNat
<1> QED
  BY <1>4

\* A command that runs alone is the only one under way, and the counter is where it
\* found it.
Held(c) ==
    alone[c] /\ c \in UnderWay =>
        /\ UnderWay = {c}
        /\ pc[c] = "select" => pn[c] = provisionNum
        /\ pc[c] = "send" =>
              /\ pn[c] = provisionNum + HowMany(c)
              /\ request[c].avoid = None =>
                    rows # <<>> /\ supplierInfo[c] = Round(provisionNum, HowMany(c))

TurnInv == InTurn(times, provisionNum) /\ \A c \in Cmd : Held(c)

LEMMA FreshTurns ==
    ASSUME NEW r \in Seq(Machine), NEW n \in Nat
    PROVE  InTurnOf(r, Never, n)
<1> DEFINE L == Len(r)
<1> SUFFICES ASSUME L > 0
             PROVE  \E least \in Nat, left \in 1 .. L : \A k \in 0 .. L - 1 :
                       Never[r[((n + k) % L) + 1]] = IF k < left THEN least ELSE least + 1
  BY DEF InTurnOf
<1>1. ASSUME NEW k \in 0 .. L - 1
      PROVE  Never[r[((n + k) % L) + 1]] = 0
  <2> DEFINE a == n + k
  <2>1. a \in Nat /\ L \in Nat \ {0} /\ \A p \in 1 .. L : r[p] \in Machine
    OBVIOUS
  <2> HIDE DEF a, L
  <2>2. (a % L) + 1 \in 1 .. L
    BY <2>1
  <2>3. Never[r[(a % L) + 1]] = 0
    BY <2>1, <2>2 DEF Never
  <2> QED
    BY <2>3 DEF a
<1>2. L \in 1 .. L /\ \A k \in 0 .. L - 1 : k < L
  OBVIOUS
<1> HIDE DEF L
<1> QED
  BY <1>1, <1>2

LEMMA WriteKeepsTurns ==
    ASSUME ProvShape, TurnInv, NEW c \in Cmd, c \in UnderWay, NEW value \in Nat, NEW chosen,
           Write(c, value, chosen), rows' = rows,
           alone[c] /\ request[c].avoid = None =>
               InTurn([m \in Machine |-> times[m] + Count(chosen, m)], value)
    PROVE  TurnInv'
<1>1. InTurn(times', value)
  <2>1. CASE alone[c] /\ request[c].avoid = None
    BY <2>1 DEF Write, Count
  <2>2. CASE ~(alone[c] /\ request[c].avoid = None)
    <3>1. times' = Never
      BY <2>2 DEF Write
    <3> QED
      BY <3>1, FreshTurns DEF ProvShape, InTurn
  <2> QED
    BY <2>1, <2>2
<1>2. InTurn(times, provisionNum)'
  <2>1. provisionNum' = value
    BY DEF Write
  <2> QED
    BY <1>1, <2>1 DEF InTurn
<1>3. ASSUME NEW d \in Cmd, d \in UnderWay', alone'[d]
      PROVE  FALSE
  <2>1. d # c /\ pc'[d] = pc[d] /\ alone'[d] = alone[d]
    BY <1>3 DEF Write, Ends, UnderWay, ProvShape
  <2>2. d \in UnderWay
    BY <1>3, <2>1 DEF UnderWay
  <2> QED
    BY <1>3, <2>1, <2>2 DEF TurnInv, Held
<1> QED
  BY <1>2, <1>3 DEF TurnInv, Held

LEMMA ReadKeepsTurns ==
    ASSUME ProvShape, TurnInv, NEW c \in Cmd, c \notin UnderWay, Read(c), rows' = rows
    PROVE  TurnInv'
<1>1. InTurn(times, provisionNum)'
  BY DEF TurnInv, Read, InTurn
<1>2. UnderWay' = UnderWay \cup {c}
  BY DEF Read, UnderWay, ProvShape
<1>3. ASSUME NEW d \in Cmd, d \in UnderWay', alone'[d]
      PROVE  /\ UnderWay' = {d} /\ d = c
             /\ pc'[d] = "select" /\ pn'[d] = provisionNum'
  BY <1>2, <1>3 DEF Read, ProvShape
<1> QED
  BY <1>1, <1>3 DEF TurnInv, Held

\* A command that ends without a write.
LEMMA EndsKeepsTurns ==
    ASSUME ProvShape, TurnInv, NEW c \in Cmd, Ends(c), UNCHANGED <<provisionNum, times, rows>>
    PROVE  TurnInv'
<1>1. InTurn(times, provisionNum)'
  BY DEF TurnInv, InTurn
<1>2. UnderWay' = UnderWay \ {c}
  BY DEF Ends, UnderWay, ProvShape
<1>3. ASSUME NEW d \in Cmd, d # c PROVE Held(d)'
  <2>1. Held(d) /\ (UnderWay = {d} => UnderWay' = {d})
    BY <1>2, <1>3 DEF TurnInv
  <2> QED
    BY <1>2, <1>3, <2>1 DEF Held, Ends, HowMany, Round, ProvShape
<1> QED
  BY <1>1, <1>2, <1>3 DEF TurnInv, Held

\* Who chooses for somebody that leaves no machine out chooses from all rows.
LEMMA FoundAll ==
    ASSUME ProvShape, NEW c \in Cmd, request[c].avoid = None
    PROVE  Found(c) = rows /\ Chosen(c) = Round(pn[c], HowMany(c))
<1>1. \A p \in DOMAIN rows : rows[p] # request[c].avoid
  BY ProvisionAssumption DEF ProvShape
<1>2. Found(c) = rows
  BY <1>1 DEF Found
<1> QED
  BY <1>2 DEF Chosen, Round

LEMMA TurnNext == ProvShape /\ TurnInv /\ [ProvNext]_provVars => TurnInv'
<1> SUFFICES ASSUME ProvShape, TurnInv, [ProvNext]_provVars PROVE TurnInv'
  OBVIOUS
<1>1. ASSUME NEW c \in Cmd, c \notin UnderWay, UNCHANGED <<provisionNum, times, rows, pn, supplierInfo, alone>>,
             NEW r, request' = [request EXCEPT ![c] = r] \/ request' = request,
             UNCHANGED pc \/ pc' = [pc EXCEPT ![c] = "meta"]
      PROVE  TurnInv'
  <2>1. UnderWay' = UnderWay
    BY <1>1 DEF UnderWay, ProvShape
  <2>2. InTurn(times, provisionNum)'
    BY <1>1 DEF TurnInv, InTurn
  <2>3. ASSUME NEW d \in UnderWay PROVE Held(d)'
    <3>1. Held(d) /\ d # c /\ d \in Cmd
      BY <1>1 DEF TurnInv, UnderWay
    <3>2. request'[d] = request[d] /\ pc'[d] = pc[d]
      BY <1>1, <3>1 DEF ProvShape
    <3> QED
      BY <1>1, <2>1, <3>1, <3>2 DEF Held, HowMany, Round
  <2> QED
    BY <2>1, <2>2, <2>3 DEF TurnInv, Held
<1>2. ASSUME NEW c \in Cmd, NEW r \in Requests, Submit(c, r) PROVE TurnInv'
  <2>1. c \notin UnderWay /\ rows' = rows
    BY <1>2 DEF Submit, UnderWay
  <2> QED
    BY <1>1, <1>2, <2>1, ReadKeepsTurns DEF Submit
<1>3. ASSUME NEW c \in Cmd, NEW r \in Requests, AskCopies(c, r) PROVE TurnInv'
  BY <1>3, ReadKeepsTurns DEF AskCopies, UnderWay
<1>4. ASSUME NEW c \in Cmd, MetaDone(c) PROVE TurnInv'
  BY <1>4, ReadKeepsTurns, EndsKeepsTurns DEF MetaDone, UnderWay
<1>5. ASSUME NEW c \in Cmd, Select(c) PROVE TurnInv'
  <2>1. c \in UnderWay /\ rows' = rows /\ Held(c)
    BY <1>5 DEF Select, UnderWay, TurnInv
  <2>2. /\ pn[c] \in Nat /\ HowMany(c) \in Nat \ {0} /\ pn[c] + HowMany(c) \in Nat
        /\ rows \in Seq(Machine) /\ IsInjective(rows) /\ times \in [Machine -> Nat]
    BY HowManyTyped DEF ProvShape
  <2>3. CASE request[c].kind = "upload"
    <3>1. /\ supplierInfo' = [supplierInfo EXCEPT ![c] = Chosen(c)]
          /\ pn' = [pn EXCEPT ![c] = pn[c] + HowMany(c)]
          /\ pc' = [pc EXCEPT ![c] = "send"]
          /\ UNCHANGED <<provisionNum, request, alone, times, rows>>
      BY <1>5, <2>3 DEF Select
    <3>2. UnderWay' = UnderWay /\ InTurn(times, provisionNum)'
      BY <2>1, <3>1 DEF UnderWay, ProvShape, TurnInv, InTurn
    <3>3. Held(c)'
      <4>1. request[c].avoid = None => rows # <<>> /\ Chosen(c) = Round(pn[c], HowMany(c))
        BY <1>5, FoundAll DEF Select
      <4>2. /\ pc[c] = "select" /\ pc'[c] = "send" /\ HowMany(c)' = HowMany(c)
            /\ pn'[c] = pn[c] + HowMany(c) /\ supplierInfo'[c] = Chosen(c)
            /\ Round(provisionNum, HowMany(c))' = Round(provisionNum, HowMany(c))
        BY <1>5, <3>1 DEF Select, ProvShape, HowMany, Round
      <4> QED
        BY <2>1, <3>1, <3>2, <4>1, <4>2 DEF Held
    <3>4. ASSUME NEW d \in Cmd, d # c PROVE Held(d)'
      <4>1. Held(d)
        BY DEF TurnInv
      <4> QED
        BY <3>1, <3>2, <3>4, <4>1 DEF Held, HowMany, Round, ProvShape
    <3> QED
      BY <3>2, <3>3, <3>4 DEF TurnInv
  <2>4. CASE request[c].kind # "upload"
    <3>1. ASSUME alone[c], request[c].avoid = None
          PROVE  InTurn([m \in Machine |-> times[m] + Count(Chosen(c), m)], pn[c] + HowMany(c))
      <4>1. pn[c] = provisionNum /\ Found(c) # <<>>
        BY <1>5, <2>1, <3>1 DEF Select, Held
      <4>2. rows # <<>> /\ Chosen(c) = Round(pn[c], HowMany(c))
        BY <3>1, <4>1, FoundAll
      <4>3. InTurn(times, pn[c])
        BY <4>1 DEF TurnInv
      <4> QED
        BY <2>2, <4>2, <4>3, RoundKeepsTurns
    <3>2. Write(c, pn[c] + HowMany(c), Chosen(c))
      BY <1>5, <2>4 DEF Select
    <3> QED
      BY <2>1, <2>2, <3>1, <3>2, WriteKeepsTurns
  <2> QED
    BY <2>3, <2>4
<1>6. ASSUME NEW c \in Cmd, SelectNone(c) PROVE TurnInv'
  <2>1. c \in UnderWay /\ rows' = rows /\ Held(c) /\ pn[c] \in Nat /\ Write(c, pn[c], <<>>)
    BY <1>6 DEF SelectNone, UnderWay, TurnInv, ProvShape
  <2>2. ASSUME alone[c]
        PROVE  InTurn([m \in Machine |-> times[m] + Count(<<>>, m)], pn[c])
    <3>1. pn[c] = provisionNum
      BY <1>6, <2>1, <2>2 DEF SelectNone, Held
    <3>2. \A m : {i \in DOMAIN <<>> : <<>>[i] = m} = {}
      OBVIOUS
    <3>3. \A m : Count(<<>>, m) = 0
      BY <3>2, FS_EmptySet DEF Count
    <3>4. [m \in Machine |-> times[m] + Count(<<>>, m)] = times
      BY <3>3 DEF ProvShape
    <3> QED
      BY <3>1, <3>4 DEF TurnInv
  <2> QED
    BY <2>1, <2>2, WriteKeepsTurns
<1>7. ASSUME NEW c \in Cmd, Sent(c) PROVE TurnInv'
  <2>1. c \in UnderWay /\ rows' = rows /\ Held(c) /\ pn[c] \in Nat
    BY <1>7 DEF Sent, UnderWay, TurnInv, ProvShape
  <2>2. ASSUME alone[c], request[c].avoid = None
        PROVE  InTurn([m \in Machine |-> times[m] + Count(supplierInfo[c], m)], pn[c])
    <3>1. /\ pn[c] = provisionNum + HowMany(c) /\ rows # <<>>
          /\ supplierInfo[c] = Round(provisionNum, HowMany(c))
      BY <1>7, <2>1, <2>2 DEF Sent, Held
    <3>2. /\ HowMany(c) \in Nat /\ provisionNum \in Nat /\ times \in [Machine -> Nat]
          /\ rows \in Seq(Machine) /\ IsInjective(rows) /\ InTurn(times, provisionNum)
      BY HowManyTyped DEF ProvShape, TurnInv
    <3> QED
      BY <3>1, <3>2, RoundKeepsTurns
  <2>3. CASE Write(c, pn[c], supplierInfo[c])
    BY <2>1, <2>2, <2>3, WriteKeepsTurns
  <2>4. CASE Ends(c) /\ UNCHANGED <<provisionNum, times>>
    BY <2>1, <2>4, EndsKeepsTurns
  <2> QED
    BY <1>7, <2>3, <2>4 DEF Sent
<1>8. CASE Change
  <2>1. ProvShape'
    BY ProvShapeNext
  <2>2. InTurn(times, provisionNum)'
    <3>1. times' = Never /\ provisionNum' = provisionNum /\ Never' = Never
      BY <1>8 DEF Change, Never
    <3>2. rows' \in Seq(Machine) /\ provisionNum \in Nat
      BY <2>1 DEF ProvShape
    <3>3. InTurnOf(rows', Never, provisionNum)
      BY <3>2, FreshTurns
    <3> QED
      BY <3>1, <3>3 DEF InTurn
  <2> QED
    BY <1>8, <2>2 DEF Change, TurnInv, Held, UnderWay
<1>9. CASE Registry \/ UNCHANGED provVars
  <2>1. UNCHANGED <<provisionNum, rows, pc, request, pn, supplierInfo, alone, times>>
    BY <1>9 DEF Registry, provVars
  <2>2. InTurn(times, provisionNum)'
    BY <2>1 DEF TurnInv, InTurn
  <2>3. ASSUME NEW c \in Cmd PROVE Held(c)'
    <3>1. Held(c)
      BY DEF TurnInv
    <3> QED
      BY <2>1, <3>1 DEF Held, UnderWay, HowMany, Round
  <2> QED
    BY <2>1, <2>2, <2>3 DEF TurnInv
<1> QED
  BY <1>2, <1>3, <1>4, <1>5, <1>6, <1>7, <1>8, <1>9 DEF ProvNext

\* As long as commands choose one after the other from the same machines, no
\* machine is chosen twice more than another: for any number of machines and
\* copies, with failing queries and refused commands in between.
THEOREM ChoicesAreBalanced == ProvSpec => []Balanced
<1>1. ProvInit => TurnInv
  <2> SUFFICES ASSUME ProvInit PROVE TurnInv
    OBVIOUS
  <2>1. ProvShape
    BY ProvShapeInit
  <2>2. InTurn(times, provisionNum)
    BY <2>1, FreshTurns DEF ProvInit, ProvShape, InTurn
  <2>3. UnderWay = {}
    BY DEF ProvInit, UnderWay
  <2> QED
    BY <2>2, <2>3 DEF TurnInv, Held
<1>2. ProvShape /\ TurnInv => Balanced
  BY InTurnBalances DEF TurnInv
<1> QED
  BY <1>1, <1>2, ProvShapeInit, ProvShapeNext, TurnNext, PTL DEF ProvSpec
=============================================================================
