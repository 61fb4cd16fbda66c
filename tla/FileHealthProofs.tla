--------------------------- MODULE FileHealthProofs ---------------------------
(***************************************************************************)
(* The replica table, for every number of calls, names, machines and       *)
(* restarts, when calls come one by one, no statement fails, no file is    *)
(* renamed and none is removed by fileDelete.                              *)
(***************************************************************************)
EXTENDS FileHealth, FileSequenceProofs

-----------------------------------------------------------------------------
(* Recursion *)

\* A set of numbers has a least element: for proofs by induction.
LEMMA Least ==
    ASSUME NEW T, T \subseteq Nat, T # {}
    PROVE  \E m \in T : \A k \in T : m <= k
<1> DEFINE R == {ss \in Nat \X Nat : ss[1] < ss[2]}
<1>1. IsWellFoundedOn(R, Nat)
  BY NatLessThanWellFounded DEF OpToRel
<1>2. \A i, j \in Nat : <<i, j>> \in R <=> i < j
  OBVIOUS
<1> HIDE DEF R
<1>3. PICK x \in T : \A y \in T : ~ (<<y, x>> \in R)
  BY <1>1, WFMin
<1>4. ASSUME NEW y \in T PROVE x <= y
  <2>1. x \in Nat /\ y \in Nat /\ <<y, x>> \notin R
    BY <1>3
  <2>2. ~ (y < x)
    BY <1>2, <2>1
  <2> QED
    BY <2>1, <2>2
<1> QED
  BY <1>4

\* What a function defined by its value before has is what the definition says.
Nexts(N, S) == [(1 .. N) \X S -> S]
Follows(f, N, S, a, F) ==
    /\ f \in [0 .. N -> S] /\ f[0] = a
    /\ \A i \in 1 .. N : f[i] = F[<<i, f[i - 1]>>]

LEMMA Recursion ==
    ASSUME NEW N \in Nat, NEW S, NEW a \in S, NEW F \in Nexts(N, S)
    PROVE  \E f : Follows(f, N, S, a, F)
<1> DEFINE Solves(f, n) == f[0] = a /\ \A i \in 1 .. n : f[i] = F[<<i, f[i - 1]>>]
           T == {n \in 0 .. N : ~ \E f \in [0 .. n -> S] : Solves(f, n)}
<1> USE DEF Nexts
<1>1. SUFFICES T = {}
  BY <1>1 DEF Follows
<1>2. SUFFICES ASSUME T # {} PROVE FALSE
  OBVIOUS
<1>3. PICK n \in T : \A k \in T : n <= k
  <2>1. T \subseteq Nat
    OBVIOUS
  <2> HIDE DEF T
  <2> QED
    BY <1>2, <2>1, Least
<1>4. n \in 0 .. N /\ ~ \E f \in [0 .. n -> S] : Solves(f, n)
  OBVIOUS
<1>5. CASE n = 0
  <2> DEFINE f == [i \in 0 .. 0 |-> a]
  <2>1. f \in [0 .. n -> S] /\ Solves(f, n)
    BY <1>5
  <2> QED
    BY <1>4, <2>1
<1>6. CASE n > 0
  <2>1. n - 1 \in 0 .. N /\ n - 1 \notin T
    BY <1>3, <1>4, <1>6
  <2>2. PICK g \in [0 .. n - 1 -> S] : Solves(g, n - 1)
    BY <2>1
  <2> DEFINE last == F[<<n, g[n - 1]>>]
             f    == [i \in 0 .. n |-> IF i = n THEN last ELSE g[i]]
  <2>3. last \in S
    <3>1. g[n - 1] \in S /\ n \in 1 .. N
      BY <1>4, <1>6
    <3> QED
      BY <3>1
  <2>4. f \in [0 .. n -> S] /\ f[n] = last /\ \A i \in 0 .. n - 1 : f[i] = g[i]
    <3> HIDE DEF last
    <3> QED
      BY <1>4, <2>3
  <2> HIDE DEF f
  <2>5. Solves(f, n)
    <3>1. f[0] = a
      BY <1>4, <1>6, <2>2, <2>4
    <3>2. ASSUME NEW i \in 1 .. n PROVE f[i] = F[<<i, f[i - 1]>>]
      <4>1. CASE i = n
        BY <1>4, <1>6, <2>4, <4>1
      <4>2. CASE i # n
        BY <1>4, <1>6, <2>2, <2>4, <4>2
      <4> QED
        BY <4>1, <4>2
    <3> QED
      BY <3>1, <3>2
  <2> QED
    BY <1>4, <2>4, <2>5
<1> QED
  BY <1>4, <1>5, <1>6

\* Those G[i] with i in J, one after the other.
Picks(f, N, J, G) ==
    /\ f[0] = <<>>
    /\ \A i \in 1 .. N : f[i] = IF i \in J THEN Append(f[i - 1], G[i]) ELSE f[i - 1]

LEMMA PicksExist ==
    ASSUME NEW N \in Nat, NEW J, NEW E, NEW G, \A i \in J \cap (1 .. N) : G[i] \in E
    PROVE  \E f \in [0 .. N -> Seq(E)] : Picks(f, N, J, G)
<1> DEFINE F == [x \in (1 .. N) \X Seq(E) |-> IF x[1] \in J THEN Append(x[2], G[x[1]]) ELSE x[2]]
<1>1. ASSUME NEW i \in 1 .. N, NEW s \in Seq(E)
      PROVE  /\ F[<<i, s>>] = IF i \in J THEN Append(s, G[i]) ELSE s
             /\ F[<<i, s>>] \in Seq(E)
  OBVIOUS
<1>2. F \in [(1 .. N) \X Seq(E) -> Seq(E)]
  OBVIOUS
<1>3. <<>> \in Seq(E)
  OBVIOUS
<1> HIDE DEF F
<1>4. PICK f \in [0 .. N -> Seq(E)] :
          f[0] = <<>> /\ \A i \in 1 .. N : f[i] = F[<<i, f[i - 1]>>]
  <2> DEFINE S == Seq(E)
             a == <<>>
  <2>1. F \in Nexts(N, S) /\ a \in S
    BY <1>2, <1>3 DEF Nexts
  <2> HIDE DEF S, a
  <2>2. \E f : Follows(f, N, S, a, F)
    BY <2>1, Recursion
  <2> QED
    BY <2>2 DEF Follows, S, a
<1>5. \A i \in 1 .. N : f[i - 1] \in Seq(E)
  OBVIOUS
<1>6. Picks(f, N, J, G)
  BY <1>1, <1>4, <1>5 DEF Picks
<1> QED
  BY <1>6

\* G is of type E and different everywhere.
Different(N, J, E, G) ==
    /\ \A i \in J \cap (1 .. N) : G[i] \in E
    /\ \A i, j \in J \cap (1 .. N) : G[i] = G[j] => i = j

\* Sequence s has each of those G[i] once, and nothing else.
Picked(s, N, J, E, G) ==
    /\ s \in Seq(E)
    /\ \A k \in DOMAIN s : \E i \in J \cap (1 .. N) : s[k] = G[i]
    /\ \A i \in J \cap (1 .. N) : \E k \in DOMAIN s : s[k] = G[i]
    /\ \A k, l \in DOMAIN s : s[k] = s[l] => k = l

LEMMA PicksFacts ==
    ASSUME NEW N \in Nat, NEW J, NEW E, NEW G, Different(N, J, E, G),
           NEW f, Picks(f, N, J, G)
    PROVE  Picked(f[N], N, J, E, G)
<1> USE DEF Different
<1> DEFINE Right(n, s) ==
               /\ s \in Seq(E)
               /\ \A k \in DOMAIN s : \E i \in J \cap (1 .. n) : s[k] = G[i]
               /\ \A i \in J \cap (1 .. n) : \E k \in DOMAIN s : s[k] = G[i]
               /\ \A k, l \in DOMAIN s : s[k] = s[l] => k = l
           T == {n \in 0 .. N : ~ Right(n, f[n])}
<1>1. SUFFICES T = {}
  BY <1>1 DEF Picked
<1>2. SUFFICES ASSUME T # {} PROVE FALSE
  OBVIOUS
<1>3. PICK n \in T : \A k \in T : n <= k
  <2>1. T \subseteq Nat
    OBVIOUS
  <2> HIDE DEF T
  <2> QED
    BY <1>2, <2>1, Least
<1>4. n \in 0 .. N /\ ~ Right(n, f[n])
  OBVIOUS
<1>5. CASE n = 0
  <2>1. Right(0, <<>>)
    OBVIOUS
  <2>2. f[n] = <<>>
    BY <1>5 DEF Picks
  <2> HIDE DEF Right
  <2> QED
    BY <1>4, <1>5, <2>1, <2>2
<1>6. CASE n > 0
  <2>1. n - 1 \in 0 .. N /\ n - 1 \notin T
    BY <1>3, <1>4, <1>6
  <2>2. Right(n - 1, f[n - 1])
    BY <2>1
  <2> DEFINE s == f[n - 1]
  <2>3. n \in 1 .. N /\ 1 .. n = (1 .. n - 1) \cup {n} /\ n \notin 1 .. n - 1
    BY <1>4, <1>6
  <2>4. CASE n \notin J
    <3>1. f[n] = s /\ J \cap (1 .. n) = J \cap (1 .. n - 1)
      BY <2>3, <2>4 DEF Picks
    <3> QED
      BY <1>4, <2>2, <3>1
  <2>5. CASE n \in J
    <3>1. /\ f[n] = Append(s, G[n]) /\ J \cap (1 .. n) = (J \cap (1 .. n - 1)) \cup {n}
          /\ G[n] \in E
      BY <2>3, <2>5 DEF Picks
    <3>2. s \in Seq(E) /\ \A k \in DOMAIN s : s[k] # G[n]
      <4>1. ASSUME NEW k \in DOMAIN s, s[k] = G[n] PROVE FALSE
        <5>1. PICK i \in J \cap (1 .. n - 1) : s[k] = G[i]
          BY <2>2
        <5>2. i \in J \cap (1 .. N) /\ n \in J \cap (1 .. N) /\ i # n
          BY <1>4, <2>3, <2>5
        <5> QED
          BY <4>1, <5>1, <5>2
      <4> QED
        BY <2>2, <4>1
    <3> DEFINE t == Append(s, G[n])
    <3> HIDE DEF s
    <3>3. /\ t \in Seq(E) /\ DOMAIN s = 1 .. Len(s) /\ Len(s) \in Nat
          /\ DOMAIN t = 1 .. Len(s) + 1 /\ t[Len(s) + 1] = G[n]
          /\ \A k \in DOMAIN s : t[k] = s[k]
      BY <3>1, <3>2
    <3>4. DOMAIN t = DOMAIN s \cup {Len(s) + 1}
      BY <3>3
    <3> HIDE DEF t
    <3>5. Right(n, t)
      <4>1. ASSUME NEW k \in DOMAIN t PROVE \E i \in J \cap (1 .. n) : t[k] = G[i]
        <5>1. CASE k \in DOMAIN s
          <6>1. PICK i \in J \cap (1 .. n - 1) : s[k] = G[i]
            BY <2>2, <5>1 DEF s
          <6>2. i \in J \cap (1 .. n) /\ t[k] = s[k]
            BY <3>1, <3>3, <5>1
          <6> QED
            BY <6>1, <6>2
        <5>2. CASE k = Len(s) + 1
          <6>1. n \in J \cap (1 .. n) /\ t[k] = G[n]
            BY <3>1, <3>3, <5>2
          <6> QED
            BY <6>1
        <5> QED
          BY <3>4, <5>1, <5>2
      <4>2. ASSUME NEW i \in J \cap (1 .. n) PROVE \E k \in DOMAIN t : t[k] = G[i]
        <5>1. CASE i = n
          <6>1. Len(s) + 1 \in DOMAIN t
            BY <3>4
          <6> QED
            BY <3>3, <5>1, <6>1
        <5>2. CASE i # n
          <6>1. i \in J \cap (1 .. n - 1)
            BY <3>1, <5>2
          <6>2. PICK k \in DOMAIN s : s[k] = G[i]
            BY <2>2, <6>1 DEF s
          <6> QED
            BY <3>3, <3>4, <6>2
        <5> QED
          BY <5>1, <5>2
      <4>3. \A k, l \in DOMAIN t : t[k] = t[l] => k = l
        BY <2>2, <3>2, <3>3, <3>4 DEF s
      <4> QED
        BY <3>3, <4>1, <4>2, <4>3
    <3> HIDE DEF Right
    <3>6. f[n] = t
      BY <3>1 DEF t, s
    <3> QED
      BY <1>4, <3>5, <3>6
  <2> QED
    BY <2>4, <2>5
<1> QED
  BY <1>4, <1>5, <1>6

-----------------------------------------------------------------------------
(* The table *)

Listing == [id : Nat, url : Name, node : SUBSET Machine]

\* A file has one entry, under its name.
Listed == /\ files \in Seq(Listing)
          /\ \A i \in DOMAIN files : /\ files[i].id \in DOMAIN info
                                     /\ files[i].url = info[files[i].id].name
          /\ \A i, j \in DOMAIN files : files[i].url = files[j].url => i = j

LEMMA RemovedFacts ==
    ASSUME Listed, NEW url
    PROVE  \A i \in DOMAIN files : Removed(url)[i] <=> files[i].url = url
<1> DEFINE N == Len(files)
           S == BOOLEAN
           a == FALSE
           F == [x \in (1 .. N) \X S |-> files[x[1]].url = url /\ ~x[2]]
           Rest(f, i) == i > 0 /\ files[i].url = url /\ ~f[i - 1]
           removed == CHOOSE f : f = [i \in 0 .. N |-> Rest(f, i)]
<1>1. N \in Nat /\ DOMAIN files = 1 .. N
  BY DEF Listed
<1>2. F \in Nexts(N, S) /\ a \in S
  BY DEF Nexts
<1>3. \A i \in 1 .. N, v \in S : F[<<i, v>>] = (files[i].url = url /\ ~v)
  OBVIOUS
<1>4. Removed(url) = removed
  BY DEF Removed
<1> HIDE DEF N, S, a, F
<1>5. PICK f : Follows(f, N, S, a, F)
  BY <1>1, <1>2, Recursion
<1>6. f = [i \in 0 .. N |-> Rest(f, i)]
  <2>1. /\ f \in [0 .. N -> BOOLEAN] /\ f[0] = FALSE
        /\ \A i \in 1 .. N : f[i] = F[<<i, f[i - 1]>>]
    BY <1>5 DEF Follows, S, a
  <2>2. ASSUME NEW i \in 0 .. N PROVE f[i] = Rest(f, i)
    <3>1. CASE i = 0
      BY <2>1, <3>1
    <3>2. CASE i # 0
      <4>1. i \in 1 .. N /\ f[i - 1] \in BOOLEAN /\ f[i] \in BOOLEAN
        BY <1>1, <2>1, <3>2
      <4>2. F[<<i, f[i - 1]>>] = (files[i].url = url /\ ~f[i - 1])
        BY <1>3, <4>1 DEF S
      <4>3. f[i] = (files[i].url = url /\ ~f[i - 1])
        BY <2>1, <4>1, <4>2, Zenon
      <4>4. i > 0
        BY <4>1
      <4> QED
        BY <4>3, <4>4, Zenon
    <3> QED
      BY <3>1, <3>2
  <2> QED
    BY <2>1, <2>2
<1>7. removed = [i \in 0 .. N |-> Rest(removed, i)]
  BY <1>6
<1> HIDE DEF removed
<1>8. ASSUME NEW i \in DOMAIN files PROVE removed[i] <=> files[i].url = url
  <2>1. i \in 1 .. N /\ i - 1 \in 0 .. N /\ i \in 0 .. N
    BY <1>1
  <2>2. i > 0 /\ removed[i] = Rest(removed, i)
    BY <1>7, <2>1
  <2>3. removed[i - 1] = Rest(removed, i - 1)
    BY <1>7, <2>1
  <2>4. removed[i] <=> files[i].url = url /\ ~removed[i - 1]
    BY <2>2, Zenon
  <2>5. removed[i - 1] => i - 1 > 0 /\ files[i - 1].url = url
    BY <2>3, Zenon
  <2>6. i - 1 > 0 => i - 1 \in DOMAIN files
    BY <1>1, <2>1
  <2>7. files[i].url = url => ~removed[i - 1]
    <3>1. i - 1 # i
      BY <2>1
    <3> QED
      BY <2>5, <2>6, <3>1 DEF Listed
  <2> QED
    BY <2>4, <2>7
<1> QED
  BY <1>4, <1>8

\* removeFile() passes over the entry behind one it removes, which is of another file.
LEMMA RemoveFacts ==
    ASSUME Listed, NEW url, NEW R, R = RemoveFile(url)
    PROVE  /\ R \in Seq(Listing)
           /\ \A k \in DOMAIN R : \E i \in DOMAIN files : files[i].url # url /\ R[k] = files[i]
           /\ \A i \in DOMAIN files : files[i].url # url => \E k \in DOMAIN R : R[k] = files[i]
           /\ \A k, l \in DOMAIN R : R[k].url = R[l].url => k = l
<1> DEFINE N    == Len(files)
           gone == {i \in DOMAIN files : Removed(url)[i]}
           J    == DOMAIN files \ gone
           Rest(f, i) == IF i = 0 THEN <<>>
                         ELSE IF i \in gone THEN f[i - 1] ELSE Append(f[i - 1], files[i])
           Kept == CHOOSE f : f = [i \in 0 .. N |-> Rest(f, i)]
<1>1. /\ N \in Nat /\ DOMAIN files = 1 .. N
      /\ \A i \in J \cap (1 .. N) : files[i] \in Listing
  BY DEF Listed
<1>2. \A i \in 1 .. N : i \in J <=> files[i].url # url
  BY <1>1, RemovedFacts
<1>3. R = Kept[N]
  BY DEF RemoveFile
<1>4. \A i \in 1 .. N : i \in J <=> i \notin gone
  BY <1>1
<1> HIDE DEF N, J, gone
<1>5. PICK f \in [0 .. N -> Seq(Listing)] : Picks(f, N, J, files)
  BY <1>1, PicksExist
<1>6. f = [i \in 0 .. N |-> Rest(f, i)]
  <2>1. f[0] = Rest(f, 0)
    BY <1>5 DEF Picks
  <2>2. ASSUME NEW i \in 1 .. N PROVE f[i] = Rest(f, i)
    <3>1. f[i] = IF i \in J THEN Append(f[i - 1], files[i]) ELSE f[i - 1]
      BY <1>5 DEF Picks
    <3>2. i # 0
      OBVIOUS
    <3> QED
      BY <1>4, <3>1, <3>2, Zenon
  <2>3. 0 .. N = {0} \cup 1 .. N
    BY <1>1
  <2>4. \A i \in 0 .. N : f[i] = Rest(f, i)
    BY <2>1, <2>2, <2>3
  <2> HIDE DEF Rest
  <2> QED
    BY <2>4
<1>7. Kept = [i \in 0 .. N |-> Rest(Kept, i)]
  BY <1>6
<1> HIDE DEF Kept
<1>8. Picks(Kept, N, J, files)
  <2>1. 0 \in 0 .. N /\ Kept[0] = Rest(Kept, 0)
    BY <1>1, <1>7
  <2>2. Kept[0] = <<>>
    BY <2>1, Zenon
  <2>3. ASSUME NEW i \in 1 .. N
        PROVE  Kept[i] = IF i \in J THEN Append(Kept[i - 1], files[i]) ELSE Kept[i - 1]
    <3>1. i \in 0 .. N /\ i # 0
      OBVIOUS
    <3> HIDE DEF Rest
    <3>2. Kept[i] = Rest(Kept, i)
      BY <1>7, <3>1
    <3> USE DEF Rest
    <3> QED
      BY <1>4, <3>1, <3>2, Zenon
  <2> QED
    BY <2>2, <2>3 DEF Picks
<1>9. /\ R \in Seq(Listing)
      /\ \A k \in DOMAIN R : \E i \in J \cap (1 .. N) : R[k] = files[i]
      /\ \A i \in J \cap (1 .. N) : \E k \in DOMAIN R : R[k] = files[i]
      /\ \A k, l \in DOMAIN R : R[k] = R[l] => k = l
  <2>1. \A i, j \in J \cap (1 .. N) : files[i] = files[j] => i = j
    BY <1>1 DEF Listed
  <2> DEFINE E == Listing
             G == files
             K == Kept
  <2>2. Different(N, J, E, G) /\ Picks(K, N, J, G)
    BY <1>1, <1>8, <2>1 DEF Different
  <2> HIDE DEF E, G, K
  <2>3. Picked(K[N], N, J, E, G)
    BY <1>1, <2>2, PicksFacts
  <2> QED
    BY <1>3, <2>3 DEF E, G, K, Picked
<1>10. ASSUME NEW k \in DOMAIN R, NEW l \in DOMAIN R, R[k].url = R[l].url PROVE k = l
  BY <1>1, <1>9, <1>10 DEF Listed
<1> QED
  BY <1>1, <1>2, <1>9, <1>10

\* What create() reads: one entry for every uploaded file.
LEMMA LoadsFacts ==
    ASSUME TablesTyped, Unique, NEW on \in SUBSET Machine, NEW R, R = Loads(on)
    PROVE  /\ R \in Seq(Listing)
           /\ \A k \in DOMAIN R : /\ R[k].id \in DOMAIN info /\ Uploaded(R[k].id)
                                  /\ R[k].url = info[R[k].id].name
           /\ \A k, l \in DOMAIN R : R[k].url = R[l].url => k = l
           /\ \A p \in DOMAIN paths :
                  Uploaded(paths[p].file) /\ Served(p) /\ paths[p].machine \in on =>
                      \E k \in DOMAIN R : R[k].id = paths[p].file /\ paths[p].machine \in R[k].node
<1> DEFINE N   == Len(info)
           ids == {i \in DOMAIN info : Uploaded(i)}
           Nodes(i) == {paths[p].machine : p \in {q \in DOMAIN paths :
                           paths[q].file = i /\ Served(q) /\ paths[q].machine \in on}}
           Entry(i) == [id |-> i, url |-> info[i].name, node |-> Nodes(i)]
           G == [i \in DOMAIN info |-> Entry(i)]
           Rest(f, i) == IF i = 0 THEN <<>>
                         ELSE IF i \in ids THEN Append(f[i - 1], Entry(i)) ELSE f[i - 1]
           List == CHOOSE f : f = [i \in 0 .. N |-> Rest(f, i)]
<1>1. N \in Nat /\ DOMAIN info = 1 .. N /\ \A i \in 1 .. N : info[i] \in InfoRow
  BY DEF TablesTyped
<1>2. R = List[N]
  BY DEF Loads
<1>3. \A i \in 1 .. N : /\ G[i] = Entry(i) /\ G[i].id = i /\ G[i].url = info[i].name
                        /\ G[i].node = Nodes(i)
  BY <1>1
<1>4. \A i \in 1 .. N : G[i] \in Listing
  <2>1. \A i \in 1 .. N : info[i].name \in Name /\ Nodes(i) \subseteq Machine
    BY <1>1 DEF InfoRow
  <2> HIDE DEF Nodes
  <2> QED
    BY <1>1, <2>1 DEF Listing
<1>5. ids \subseteq 1 .. N
  BY <1>1
<1> HIDE DEF N, ids, Entry, Nodes, G
<1>6. PICK f \in [0 .. N -> Seq(Listing)] : Picks(f, N, ids, G)
  BY <1>1, <1>4, PicksExist
<1>7. f = [i \in 0 .. N |-> Rest(f, i)]
  <2>1. f[0] = Rest(f, 0)
    BY <1>6 DEF Picks
  <2>2. ASSUME NEW i \in 1 .. N PROVE f[i] = Rest(f, i)
    <3>1. f[i] = IF i \in ids THEN Append(f[i - 1], G[i]) ELSE f[i - 1]
      BY <1>6 DEF Picks
    <3>2. i # 0 /\ G[i] = Entry(i)
      BY <1>3
    <3> QED
      BY <3>1, <3>2, Zenon
  <2>3. 0 .. N = {0} \cup 1 .. N
    BY <1>1
  <2>4. \A i \in 0 .. N : f[i] = Rest(f, i)
    BY <2>1, <2>2, <2>3
  <2> HIDE DEF Rest
  <2> QED
    BY <2>4
<1>8. List = [i \in 0 .. N |-> Rest(List, i)]
  BY <1>7
<1> HIDE DEF List
<1>9. Picks(List, N, ids, G)
  <2>1. 0 \in 0 .. N /\ List[0] = Rest(List, 0)
    BY <1>1, <1>8
  <2>2. List[0] = <<>>
    BY <2>1, Zenon
  <2>3. ASSUME NEW i \in 1 .. N
        PROVE  List[i] = IF i \in ids THEN Append(List[i - 1], G[i]) ELSE List[i - 1]
    <3>1. i \in 0 .. N /\ i # 0 /\ G[i] = Entry(i)
      BY <1>3
    <3> HIDE DEF Rest
    <3>2. List[i] = Rest(List, i)
      BY <1>8, <3>1
    <3> USE DEF Rest
    <3> QED
      BY <3>1, <3>2, Zenon
  <2> QED
    BY <2>2, <2>3 DEF Picks
<1>10. /\ R \in Seq(Listing)
       /\ \A k \in DOMAIN R : \E i \in ids \cap (1 .. N) : R[k] = G[i]
       /\ \A i \in ids \cap (1 .. N) : \E k \in DOMAIN R : R[k] = G[i]
       /\ \A k, l \in DOMAIN R : R[k] = R[l] => k = l
  <2> DEFINE E == Listing
             K == List
  <2>1. \A i, j \in ids \cap (1 .. N) : G[i] = G[j] => i = j
    <3>1. ASSUME NEW i \in ids \cap (1 .. N), NEW j \in ids \cap (1 .. N), G[i] = G[j]
          PROVE  i = j
      <4>1. G[i].id = i /\ G[j].id = j
        BY <1>3
      <4> QED
        BY <3>1, <4>1
    <3> QED
      BY <3>1
  <2>2. Different(N, ids, E, G) /\ Picks(K, N, ids, G)
    BY <1>4, <1>9, <2>1 DEF Different
  <2> HIDE DEF E, K
  <2>3. Picked(K[N], N, ids, E, G)
    BY <1>1, <2>2, PicksFacts
  <2> QED
    BY <1>2, <2>3 DEF E, K, Picked
<1>11. \A k \in DOMAIN R : /\ R[k].id \in DOMAIN info /\ Uploaded(R[k].id)
                           /\ R[k].url = info[R[k].id].name /\ R[k] = G[R[k].id]
  BY <1>1, <1>3, <1>5, <1>10 DEF ids
<1>12. ASSUME NEW k \in DOMAIN R, NEW l \in DOMAIN R, R[k].url = R[l].url PROVE k = l
  <2>1. info[R[k].id].status # Deleted /\ info[R[l].id].status # Deleted
    BY <1>11 DEF Uploaded, Normal, Deleted
  <2>2. R[k].id = R[l].id
    BY <1>11, <1>12, <2>1 DEF Unique
  <2>3. R[k] = R[l]
    BY <1>11, <2>2
  <2> QED
    BY <1>10, <2>3
<1>13. ASSUME NEW p \in DOMAIN paths, Uploaded(paths[p].file), Served(p),
              paths[p].machine \in on
       PROVE  \E k \in DOMAIN R : R[k].id = paths[p].file /\ paths[p].machine \in R[k].node
  <2>1. paths[p].file \in ids /\ paths[p].machine \in Nodes(paths[p].file)
    BY <1>13 DEF TablesTyped, ids, Nodes
  <2>2. paths[p].file \in ids \cap (1 .. N)
    BY <1>5, <2>1
  <2>3. PICK k \in DOMAIN R : R[k] = G[paths[p].file]
    BY <1>10, <2>2
  <2>4. R[k].id = paths[p].file /\ R[k].node = Nodes(paths[p].file)
    BY <1>3, <2>2, <2>3
  <2> QED
    BY <2>1, <2>4
<1> QED
  BY <1>10, <1>11, <1>12, <1>13

\* R is the table with machine m in the k-th entry, which is that of file id.
Added(R, k, id, url, m) ==
    /\ DOMAIN R = DOMAIN files \cup {k}
    /\ R[k].id = id /\ m \in R[k].node
    /\ IF Entries(id) = {} THEN k \notin DOMAIN files /\ R[k].url = url
       ELSE /\ k \in Entries(id) /\ R[k].url = files[k].url
            /\ files[k].node \subseteq R[k].node
    /\ \A i \in DOMAIN files : i # k => R[i] = files[i]

\* addPath() finds or makes the entry of the file.
LEMMA AddFacts ==
    ASSUME files \in Seq(Listing), NEW id \in Nat, NEW url \in Name, NEW m \in Machine,
           NEW R, R = AddPath(id, url, m)
    PROVE  R \in Seq(Listing) /\ \E k : Added(R, k, id, url, m)
<1> USE DEF Added
<1>1. Len(files) \in Nat /\ DOMAIN files = 1 .. Len(files)
  OBVIOUS
<1>2. CASE Entries(id) = {}
  <2> DEFINE e == [id |-> id, url |-> url, node |-> {m}]
             k == Len(files) + 1
  <2>1. R = Append(files, e) /\ e \in Listing /\ e.id = id /\ e.url = url /\ m \in e.node
    BY <1>2 DEF AddPath, Listing
  <2> HIDE DEF e
  <2>2. /\ R \in Seq(Listing) /\ DOMAIN R = 1 .. Len(files) + 1 /\ R[k] = e
        /\ \A i \in 1 .. Len(files) : R[i] = files[i]
    BY <1>1, <2>1
  <2>3. 1 .. Len(files) + 1 = 1 .. Len(files) \cup {k} /\ k \notin 1 .. Len(files)
    BY <1>1
  <2> HIDE DEF k
  <2> QED
    BY <1>1, <1>2, <2>1, <2>2, <2>3
<1>3. CASE Entries(id) # {}
  <2> DEFINE k == Min(Entries(id))
  <2>1. Entries(id) \subseteq Nat /\ Entries(id) \subseteq DOMAIN files
    BY <1>1 DEF Entries
  <2>2. \E x \in Entries(id) : \A y \in Entries(id) : x <= y
    BY <1>3, <2>1, Least
  <2>3. k \in Entries(id)
    BY <2>2 DEF Min
  <2>4. R = [files EXCEPT ![k].node = @ \cup {m}]
    BY <1>3 DEF AddPath
  <2> HIDE DEF k
  <2>5. k \in DOMAIN files /\ files[k] \in Listing /\ files[k].id = id
    BY <2>1, <2>3 DEF Entries
  <2>6. R[k] = [files[k] EXCEPT !.node = @ \cup {m}]
    BY <2>4, <2>5
  <2>7. /\ R[k] \in Listing /\ R[k].id = id /\ R[k].url = files[k].url
        /\ R[k].node = files[k].node \cup {m}
    BY <2>5, <2>6 DEF Listing
  <2>8. /\ DOMAIN R = DOMAIN files /\ \A i \in DOMAIN files : i # k => R[i] = files[i]
    BY <2>4
  <2>9. R \in Seq(Listing)
    <3>1. \A i \in 1 .. Len(files) : R[i] \in Listing
      BY <1>1, <2>7, <2>8
    <3>2. R \in [1 .. Len(files) -> Listing]
      BY <1>1, <2>4, <2>8, <3>1
    <3> QED
      BY <1>1, <3>2
  <2>10. DOMAIN files = DOMAIN files \cup {k}
    BY <2>5
  <2> QED
    BY <1>3, <2>3, <2>7, <2>8, <2>9, <2>10
<1> QED
  BY <1>2, <1>3
-----------------------------------------------------------------------------
(* What a call is about *)

\* Object o is the file that a, a request, names.
Points(a, o) == IF a.op \in ByPath THEN o.id = a.row /\ o.id # 0 ELSE o.name = a.name

\* What the object of a call is when its row will be written, or was: only a
\* metaDelete deletes, and a confirmation saves an uploaded file with one path ready,
\* that of its machine.
Aims(a, o) ==
    /\ Points(a, o)
    /\ o.status = Deleted <=> a.op = "delete"
    /\ "status" \in o.dirty => o.status # 0
    /\ a.op = "confirm" =>
          /\ o.status = Normal /\ a.machine \in Machine
          /\ \A p \in o.paths : p.dirty /\ p.status = Normal => p.machine = a.machine

\* The file of a metaDelete has no row left that is not deleted.
Gone(a) == a.op = "delete" /\ a.name \notin Dir => Free(info, a.name)

Aimed(c) ==
    /\ pc[c] \in {"paths", "children"} => Points(ask[c], obj[c])
    /\ pc[c] = "children" => ask[c].op = "delete"
    /\ pc[c] \in {"info", "writes"} => Aims(ask[c], obj[c])
    /\ pc[c] = "writes" => Gone(ask[c])

-----------------------------------------------------------------------------
(* The table between two callbacks *)

\* A metaDelete of file n, or a confirmation of file i on machine m, is writing.
Deleting(n)      == \E c \in Call : pc[c] = "writes" /\ ask[c].op = "delete" /\ ask[c].name = n
Confirming(i, m) == \E c \in Call : /\ pc[c] = "writes" /\ ask[c].op = "confirm"
                                    /\ ask[c].row = i /\ ask[c].machine = m

InTable(i, m) == \E e \in Entries(i) : m \in files[e].node

\* An entry outlives its file, and a copy is missed, only until the callback of the
\* call that is at work on it.
Lasting  == \A i \in DOMAIN files :
                info[files[i].id].status # Deleted \/ Deleting(files[i].url)
Covering == \A p \in DOMAIN paths : Served(p) /\ p \notin unseen =>
                \/ InTable(paths[p].file, paths[p].machine)
                \/ Confirming(paths[p].file, paths[p].machine)

\* A file with a served path was uploaded.
Sent == \A p \in DOMAIN paths : Served(p) => info[paths[p].file].status # 0

Tabled == Listed /\ Lasting /\ Covering

-----------------------------------------------------------------------------
(* Objects on their way to the first write *)

\* A step of call c that reads: it does not end a metaDelete of a file that is there,
\* and no confirmation reports success without a write.
Reads(c) ==
    /\ Aimed(c)'
    /\ pc'[c] = "done" /\ ask[c].op = "confirm" => ~ok'[c]
    /\ pc'[c] = "done" /\ ask[c].op = "delete" => ask[c].name \in Dir \/ Live(ask[c].name) = {}

LEMMA AnswerReads ==
    ASSUME Calls, NEW c \in Call, NEW o, ask[c].op = "confirm" => o.client = c,
           NEW result, Answer(c, o, result),
           ask[c].op = "confirm" => ~result,
           ask[c].op = "delete" => ask[c].name \in Dir \/ Live(ask[c].name) = {}
    PROVE  Reads(c)
<1>1. pc' = [pc EXCEPT ![c] = "done"] /\ pc'[c] = "done"
  BY DEF Answer, Calls, CallsTyped
<1>2. ask[c].op = "confirm" => ok'[c] = result
  BY DEF Answer, Calls, CallsTyped
<1> QED
  BY <1>1, <1>2 DEF Reads, Aimed

LEMMA SaveReads ==
    ASSUME Calls, NEW c \in Call, NEW o \in Obj, Save(c, o), Aims(ask[c], o),
           ask[c].op = "confirm" => o.client = c,
           ask[c].op \in {"confirm", "delete"} => o.dirty # {}
    PROVE  Reads(c)
<1>1. ASSUME NEW at, at \in {"info", "writes"}, Proceed(c, at, o),
             at = "writes" => ask[c].op # "delete"
      PROVE  Reads(c)
  <2>1. pc'[c] = at /\ obj'[c] = o /\ ask' = ask
    BY <1>1 DEF Proceed, Calls, CallsTyped
  <2> QED
    BY <1>1, <2>1 DEF Reads, Aimed, Gone
<1>2. CASE o.id = 0 \/ o.dirty # {}
  BY <1>1, <1>2 DEF Save
<1>3. CASE ~(o.id = 0 \/ o.dirty # {})
  <2>1. ask[c].op \notin {"confirm", "delete"} /\ AfterSave(c, o)
    BY <1>3 DEF Save
  <2>2. CASE Answer(c, o, TRUE)
    BY <2>1, <2>2, AnswerReads
  <2>3. CASE Proceed(c, "writes", o)
    BY <1>1, <2>1, <2>3
  <2> QED
    BY <2>1, <2>2, <2>3 DEF AfterSave
<1> QED
  BY <1>2, <1>3

LEMMA HandleReads ==
    ASSUME Calls, NEW c \in Call, Simple(c), ask[c].op # "fileDelete",
           NEW o, Good(DOMAIN info, DOMAIN paths, ask, c, o), Points(ask[c], o),
           o.status # Deleted, o.dirty = {}, \A p \in o.paths : ~p.dirty,
           ask[c].op = "delete" /\ o.id = 0 => Live(ask[c].name) = {},
           Handle(c, o)
    PROVE  Reads(c)
<1> DEFINE a == ask[c]
           More(M) == [o EXCEPT !.paths = @ \cup {NewPath(m) : m \in M}]
<1>1. o \in Obj /\ a \in Asked /\ (a.op = "confirm" => o.client = c)
  BY DEF Good, Calls, CallsTyped
<1>2. ASSUME NEW x \in Obj, Save(c, x), x.id = o.id, x.name = o.name, x.status = o.status,
             "status" \notin x.dirty, a.op \notin {"confirm", "delete"}
      PROVE  Reads(c)
  BY <1>2, SaveReads DEF Aims, Points
<1>3. ASSUME NEW result, Answer(c, o, result), a.op = "confirm" => ~result,
             a.op = "delete" => Live(a.name) = {}
      PROVE  Reads(c)
  BY <1>1, <1>3, AnswerReads
<1>4. ASSUME NEW M \in SUBSET Machine, Save(c, More(M)), a.op \notin {"confirm", "delete"}
      PROVE  Reads(c)
  <2> DEFINE new == {NewPath(m) : m \in M}
             x   == [o EXCEPT !.paths = @ \cup new]
  <2>1. new \subseteq PathObj
    BY NewPathTyped
  <2>2. Save(c, x)
    BY <1>4
  <2> HIDE DEF new
  <2>3. x \in Obj /\ x.id = o.id /\ x.name = o.name /\ x.status = o.status /\ x.dirty = {}
    BY <1>1, <2>1 DEF Obj
  <2> HIDE DEF x
  <2> QED
    BY <1>2, <1>4, <2>2, <2>3
<1>5. CASE a.op = "post" /\ PostLoaded(c, o)
  BY <1>1, <1>2, <1>3, <1>5 DEF PostLoaded
<1>6. CASE a.op = "put" /\ PutLoaded(c, o)
  <2> DEFINE owned   == [o EXCEPT !.client = lastPut]
             changed == IF a.md5 # NoMd5 THEN SetMd5(owned, a.md5) ELSE owned
  <2>1. lastPut \in Call /\ a.to = NoName /\ a.md5 \in Content
    BY <1>1, <1>6 DEF Calls, Asks, Simple, Asked
  <2>2. /\ owned \in Obj /\ owned.id = o.id /\ owned.name = o.name
        /\ owned.status = o.status /\ owned.dirty = {} /\ owned.paths = o.paths
    BY <1>1, <2>1 DEF Obj
  <2>3. Save(c, IF o.id = 0 THEN owned ELSE changed)
    BY <1>6, <2>1 DEF PutLoaded
  <2> HIDE DEF owned
  <2>4. /\ changed \in Obj /\ changed.id = o.id /\ changed.name = o.name
        /\ changed.status = o.status /\ "status" \notin changed.dirty
    <3>1. Marked(owned.paths, 0) \subseteq PathObj
      BY <2>2, MarkedTyped DEF Obj, St
    <3> QED
      BY <2>1, <2>2, <3>1 DEF Obj, SetMd5
  <2> HIDE DEF changed
  <2> QED
    BY <1>2, <1>6, <2>2, <2>3, <2>4
<1>7. CASE a.op = "path" /\ PathLoaded(c, o)
  <2>1. PICK m \in Machine :
            Save(c, IF o.paths = {} THEN [o EXCEPT !.paths = {NewPath(m)}] ELSE o)
    BY <1>7 DEF PathLoaded
  <2>2. CASE o.paths = {}
    <3>1. More({m}) = [o EXCEPT !.paths = {NewPath(m)}]
      BY <2>2
    <3>2. Save(c, More({m})) /\ {m} \in SUBSET Machine
      BY <2>1, <2>2, <3>1
    <3> HIDE DEF More
    <3> QED
      BY <1>4, <1>7, <3>2
  <2>3. CASE o.paths # {}
    BY <1>1, <1>2, <1>7, <2>1, <2>3
  <2> QED
    BY <2>2, <2>3
<1>8. CASE a.op = "upload" /\ UploadLoaded(c, o)
  <2> DEFINE m == a.machine
  <2>1. m \in Machine
    BY <1>8 DEF Calls, Asks
  <2>2. CASE \E p \in o.paths : p.machine = m
    BY <1>1, <1>2, <1>8, <2>2 DEF UploadLoaded
  <2>3. CASE ~\E p \in o.paths : p.machine = m
    <3>1. Save(c, [o EXCEPT !.paths = @ \cup {NewPath(m)}])
      BY <1>8, <2>3 DEF UploadLoaded
    <3>2. {NewPath(m)} = {NewPath(k) : k \in {m}}
      OBVIOUS
    <3>3. Save(c, More({m})) /\ {m} \in SUBSET Machine
      BY <2>1, <3>1, <3>2
    <3> HIDE DEF m, More
    <3> QED
      BY <1>4, <1>8, <3>3
  <2> QED
    BY <2>2, <2>3
<1>9. CASE a.op = "confirm" /\ ConfirmLoaded(c, o)
  <2> DEFINE noted   == IF o.md5 = NoMd5 THEN SetMd5(o, a.md5) ELSE o
             reached == {p \in noted.paths : p.status # Normal /\ p.machine = a.machine}
  <2>1. CASE Answer(c, o, FALSE)
    BY <1>3, <1>9, <2>1
  <2>2. CASE \E p \in reached : Save(c, SetConfirmed(noted, p))
    <3>1. /\ noted \in Obj /\ noted.id = o.id /\ noted.client = o.client
          /\ \A p \in noted.paths : p.dirty => p.status # Normal
      <4>1. Marked(o.paths, 0) \subseteq PathObj /\ \A p \in Marked(o.paths, 0) : p.status = 0
        <5>1. o.paths \in SUBSET PathObj /\ 0 \in St
          BY <1>1 DEF Obj, St
        <5> QED
          BY <5>1, MarkedTyped
      <4>2. a.md5 \in Content /\ Normal # 0
        BY <1>1 DEF Asked, Normal
      <4>3. CASE o.md5 = NoMd5
        <5> DEFINE all == Marked(o.paths, 0)
        <5>1. noted = [o EXCEPT !.md5 = a.md5,
                                !.dirty = IF o.md5 # a.md5 THEN @ \cup {"md5"} ELSE @,
                                !.paths = all]
          BY <4>3 DEF SetMd5
        <5> HIDE DEF all, noted
        <5>2. noted \in Obj /\ noted.id = o.id /\ noted.client = o.client /\ noted.paths = all
          BY <1>1, <4>1, <4>2, <5>1 DEF Obj, all
        <5> QED
          BY <4>1, <4>2, <5>2 DEF all
      <4>4. CASE o.md5 # NoMd5
        BY <1>1, <4>4
      <4> QED
        BY <4>3, <4>4
    <3> HIDE DEF noted
    <3>2. PICK p \in reached : Save(c, SetConfirmed(noted, p))
      BY <2>2
    <3> DEFINE x == SetConfirmed(noted, p)
               q == [p EXCEPT !.status = Normal, !.dirty = TRUE]
    <3>3. p \in noted.paths /\ p \in PathObj /\ p.machine = a.machine /\ a.machine \in Machine
      BY <3>1 DEF Obj, PathObj
    <3>4. q \in PathObj /\ q.machine = a.machine /\ Marked({p}, Normal) = {q}
      BY <3>3 DEF PathObj, Marked, St, Normal
    <3> HIDE DEF q
    <3>5. x = [noted EXCEPT !.status = Normal, !.dirty = @ \cup {"status"},
                            !.paths = (@ \ {p}) \cup {q}]
      BY <3>4 DEF SetConfirmed
    <3>6. Save(c, x)
      BY <3>2
    <3> HIDE DEF x
    <3>7. /\ x \in Obj /\ x.id = noted.id /\ x.status = Normal /\ "status" \in x.dirty
          /\ x.paths = (noted.paths \ {p}) \cup {q} /\ x.client = noted.client
      BY <3>1, <3>4, <3>5 DEF Obj, St
    <3>8. Aims(a, x)
      <4>1. \A r \in x.paths : r.dirty /\ r.status = Normal => r.machine = a.machine
        BY <3>1, <3>4, <3>7
      <4>2. Normal # Deleted /\ Normal # 0
        BY DEF Normal, Deleted
      <4>3. Points(a, x)
        BY <1>9, <3>1, <3>7 DEF Points, ByPath
      <4> QED
        BY <1>9, <3>3, <3>7, <4>1, <4>2, <4>3 DEF Aims
    <3>9. x.dirty # {} /\ x.client = c
      BY <1>1, <1>9, <3>1, <3>7
    <3> QED
      BY <3>6, <3>7, <3>8, <3>9, SaveReads
  <2> QED
    BY <1>9, <2>1, <2>2 DEF ConfirmLoaded
<1>10. CASE a.op = "dup" /\ DupLoaded(c, o)
  BY <1>3, <1>4, <1>10 DEF DupLoaded
<1>11. CASE a.op = "delete" /\ DeleteLoaded(c, o)
  <2>1. CASE o.id = 0 /\ Answer(c, o, FALSE)
    BY <1>3, <1>11, <2>1
  <2>2. CASE Proceed(c, "children", o) /\ UNCHANGED todo
    <3>1. pc'[c] = "children" /\ obj'[c] = o /\ ask' = ask
      BY <2>2 DEF Proceed, Calls, CallsTyped
    <3> QED
      BY <1>11, <3>1 DEF Reads, Aimed
  <2>3. CASE Save(c, SetDeleted(o))
    <3> DEFINE x == SetDeleted(o)
               all == Marked(o.paths, Deleted)
    <3>1. all \subseteq PathObj
      BY <1>1, MarkedTyped DEF Obj, St
    <3>2. x = [o EXCEPT !.status = Deleted, !.dirty = @ \cup {"status"}, !.paths = all]
      BY DEF SetDeleted
    <3>3. Save(c, x)
      BY <2>3
    <3> HIDE DEF x, all
    <3>4. /\ x \in Obj /\ x.id = o.id /\ x.name = o.name /\ x.status = Deleted
          /\ x.dirty # {}
      BY <1>1, <3>1, <3>2 DEF Obj, St
    <3>5. Aims(a, x)
      BY <1>11, <3>4 DEF Aims, Points, ByPath, Deleted
    <3> QED
      BY <1>11, <3>3, <3>4, <3>5, SaveReads
  <2> QED
    BY <1>11, <2>1, <2>2, <2>3 DEF DeleteLoaded
<1> QED
  BY <1>5, <1>6, <1>7, <1>8, <1>9, <1>10, <1>11 DEF Handle

\* The statements that read.
LEMMA LoadInfoReads ==
    ASSUME TablesTyped, Calls, NEW c \in Call, Simple(c), ask[c].op # "fileDelete", LoadInfo(c)
    PROVE  Reads(c)
<1>1. ASSUME NEW i \in Wanted(c),
             LET o == Loaded(c, i)
             IN  IF o.name \in Dir THEN Handle(c, o)
                 ELSE Proceed(c, "paths", o) /\ UNCHANGED todo
      PROVE  Reads(c)
  <2> DEFINE o == Loaded(c, i)
  <2>1. i \in DOMAIN info /\ info[i].status # Deleted
    BY DEF Wanted, Live
  <2>2. Good(DOMAIN info, DOMAIN paths, ask, c, o) /\ o.name = info[i].name /\ o.id = i /\ i # 0
    BY <2>1, LoadedGood
  <2>3. Points(ask[c], o)
    BY <2>2 DEF Wanted, Live, Points
  <2>4. o.status # Deleted /\ o.dirty = {} /\ o.paths = {}
    BY <2>1 DEF Loaded, Fresh
  <2> HIDE DEF o
  <2>5. CASE Handle(c, o)
    BY <2>2, <2>3, <2>4, <2>5, HandleReads
  <2>6. CASE Proceed(c, "paths", o)
    <3>1. pc'[c] = "paths" /\ obj'[c] = o /\ ask' = ask
      BY <2>6 DEF Proceed, Calls, CallsTyped
    <3> QED
      BY <2>3, <3>1 DEF Reads, Aimed
  <2> QED
    BY <1>1, <2>5, <2>6 DEF o
<1>2. CASE ask[c].op \in ByPath /\ Answer(c, obj[c], FALSE)
  <2>1. ask[c].op = "confirm" => obj[c].client = c
    BY DEF Calls, Fine, Good
  <2> QED
    BY <1>2, <2>1, AnswerReads DEF ByPath
<1>3. CASE Wanted(c) = {} /\ ask[c].op \notin ByPath /\ Handle(c, Fresh(c, ask[c]))
  <2> DEFINE o == Fresh(c, ask[c])
  <2>1. Good(DOMAIN info, DOMAIN paths, ask, c, o)
    BY FreshIsGood DEF Calls, CallsTyped
  <2>2. /\ o.status # Deleted /\ o.dirty = {} /\ o.paths = {} /\ Points(ask[c], o)
    BY <1>3 DEF Fresh, Deleted, Points
  <2>3. Live(ask[c].name) = {} /\ Handle(c, o)
    BY <1>3 DEF Wanted
  <2> HIDE DEF o
  <2> QED
    BY <2>1, <2>2, <2>3, HandleReads
<1> QED
  BY <1>1, <1>2, <1>3 DEF LoadInfo

LEMMA LoadPathsReads ==
    ASSUME TablesTyped, Calls, NEW c \in Call, Stage(c), Simple(c), Aimed(c),
           ask[c].op # "fileDelete", LoadPaths(c)
    PROVE  Reads(c)
<1>1. pc[c] = "paths" /\ UNCHANGED tables
  BY DEF LoadPaths
<1>2. PICK S \in LoadedPaths(obj[c].id) :
          Handle(c, [obj[c] EXCEPT !.paths = {PathObject(p) : p \in S}])
  BY DEF LoadPaths
<1> DEFINE T == {PathObject(p) : p \in S}
           o == [obj[c] EXCEPT !.paths = T]
<1>3. /\ obj[c].dirty = {} /\ obj[c].status # Deleted /\ obj[c] \in Obj /\ obj[c].id # 0
      /\ Points(ask[c], obj[c])
  BY <1>1 DEF Stage, Calls, CallsTyped, Fine, Good, Local, Aimed
<1>4. \A p \in S : p \in DOMAIN paths /\ paths[p].status # Deleted
  BY DEF LoadedPaths, LivePaths
<1>5. \A p \in DOMAIN paths : paths[p] \in PathRow /\ p \in Nat /\ p # 0
  BY DEF TablesTyped
<1>6. \A p \in S : /\ PathObject(p) \in PathObj /\ PathObject(p).id = p
                   /\ PathObject(p).dirty = FALSE /\ p \in DOMAIN paths /\ p # 0
  BY <1>4, <1>5 DEF PathObject, PathObj, PathRow
<1>7. Plain(T, DOMAIN paths) /\ \A p \in T : ~p.dirty
  BY <1>6 DEF Plain
<1>8. Handle(c, o)
  BY <1>2
<1> HIDE DEF T
<1>9. /\ Good(DOMAIN info, DOMAIN paths, ask, c, o)
      /\ o.name = obj[c].name /\ o.id = obj[c].id /\ o.paths = T
      /\ o.status = obj[c].status /\ o.dirty = obj[c].dirty
  BY <1>1, <1>3, <1>7, StayFacts, PathsSet DEF Obj
<1> HIDE DEF o
<1>10. Points(ask[c], o)
  BY <1>3, <1>9 DEF Points
<1> QED
  BY <1>3, <1>7, <1>8, <1>9, <1>10, HandleReads

LEMMA LoadChildrenReads ==
    ASSUME Calls, NEW c \in Call, Stage(c), Aimed(c), LoadChildren(c)
    PROVE  Reads(c)
<1> DEFINE o == obj[c]
<1>1. /\ pc[c] = "children" /\ o \in Obj /\ Points(ask[c], o)
      /\ o.name \in Dir /\ o.name = ask[c].name /\ ask[c].op = "delete"
  BY DEF LoadChildren, Calls, CallsTyped, Aimed, Stage
<1>2. CASE Answer(c, o, FALSE)
  BY <1>1, <1>2, AnswerReads
<1>3. CASE Save(c, SetDeleted(o))
  <2> DEFINE x == SetDeleted(o)
             all == Marked(o.paths, Deleted)
  <2>1. all \subseteq PathObj
    BY <1>1, MarkedTyped DEF Obj, St
  <2>2. x = [o EXCEPT !.status = Deleted, !.dirty = @ \cup {"status"}, !.paths = all]
    BY DEF SetDeleted
  <2>3. Save(c, x)
    BY <1>3
  <2> HIDE DEF x, all
  <2>4. /\ x \in Obj /\ x.id = o.id /\ x.name = o.name /\ x.status = Deleted
        /\ x.dirty # {}
    BY <1>1, <2>1, <2>2 DEF Obj, St
  <2>5. Aims(ask[c], x)
    BY <1>1, <2>4 DEF Aims, Points, ByPath, Deleted
  <2> QED
    BY <1>1, <2>3, <2>4, <2>5, SaveReads
<1> QED
  BY <1>2, <1>3 DEF LoadChildren

-----------------------------------------------------------------------------
(* The statements that write *)

\* What a step of call c does to the rows: none is renamed, only a metaDelete deletes
\* any, those of its name, and a path is served from now on only if it is the one
\* that was confirmed.
Changed(c) ==
    /\ DOMAIN info \subseteq DOMAIN info'
    /\ \A i \in DOMAIN info :
          /\ info'[i].name = info[i].name
          /\ info'[i].status = Deleted =>
                \/ info[i].status = Deleted
                \/ ask[c].op = "delete" /\ info[i].name = ask[c].name
    /\ \A p \in DOMAIN paths' : paths'[p].status = Normal =>
          \/ /\ p \in DOMAIN paths /\ paths[p].status = Normal
             /\ paths'[p].file = paths[p].file /\ paths'[p].machine = paths[p].machine
          \/ /\ ask[c].op = "confirm"
             /\ paths'[p].file = ask[c].row /\ paths'[p].machine = ask[c].machine

Puts(c) ==
    /\ Aimed(c)' /\ Sent' /\ Changed(c) /\ Gone(ask[c])'
    /\ pc'[c] \in {"writes", "done"}
    /\ ask[c].op = "confirm" =>
          /\ ask[c].row \in DOMAIN info /\ ask[c].machine \in Machine
          /\ info[ask[c].row].status # Deleted /\ info'[ask[c].row].status # Deleted
          /\ pc'[c] = "done" => ok'[c]

LEMMA AfterSaveGoes ==
    ASSUME Calls, NEW c \in Call, NEW x \in Obj, AfterSave(c, x),
           ask[c].op = "confirm" => x.client = c
    PROVE  /\ pc'[c] \in {"writes", "done"} /\ ask' = ask
           /\ pc'[c] = "writes" => obj'[c] = x
           /\ ask[c].op = "confirm" /\ pc'[c] = "done" => ok'[c]
<1>1. CASE Answer(c, x, TRUE)
  BY <1>1 DEF Answer, Calls, CallsTyped
<1>2. CASE Proceed(c, "writes", x)
  BY <1>2 DEF Proceed, Calls, CallsTyped
<1> QED
  BY <1>1, <1>2 DEF AfterSave

LEMMA WroteGoes ==
    ASSUME Calls, NEW c \in Call, Simple(c), NEW w, NEW next, Wrote(c, w, next)
    PROVE  /\ pc'[c] \in {"writes", "done"} /\ ask' = ask
           /\ pc'[c] = "writes" => obj'[c] = obj[c]
           /\ ask[c].op = "confirm" /\ pc'[c] = "done" => ok'[c]
<1>1. CASE Answer(c, obj[c], TRUE)
  <2>1. ask[c].op = "confirm" => obj[c].client = c
    BY DEF Calls, Fine, Good
  <2> QED
    BY <1>1, <2>1 DEF Answer, Calls, CallsTyped
<1>2. CASE Proceed(c, "writes", obj[c])
  BY <1>2 DEF Proceed, Calls, CallsTyped
<1> QED
  BY <1>1, <1>2 DEF Wrote, Simple

LEMMA WriteInfoPuts ==
    ASSUME TablesTyped, Calls, Unique, Sent, NEW c \in Call, Stage(c), Aimed(c), WriteInfo(c)
    PROVE  Puts(c)
<1> DEFINE o == obj[c]
           a == ask[c]
<1>1. /\ o \in Obj /\ o.id \in DOMAIN info \cup {0} /\ Known(info, o) /\ Aims(a, o)
      /\ paths' = paths /\ (a.op = "confirm" => o.client = c)
  BY DEF WriteInfo, Calls, CallsTyped, Fine, Good, Stage, Agrees, Aimed
<1>2. PICK x \in Obj :
          /\ AfterSave(c, x)
          /\ x.name = o.name /\ x.status = o.status /\ x.md5 = o.md5
          /\ x.paths = o.paths /\ x.dirty = {} /\ x.client = o.client
          /\ info'[x.id] = Row(x) /\ DOMAIN info' = DOMAIN info \cup {x.id}
          /\ \A j \in DOMAIN info : j # x.id => info'[j] = info[j]
          /\ IF o.id = 0 THEN x.id \notin DOMAIN info /\ x.id # 0
             ELSE x.id = o.id /\ x.id \in DOMAIN info
  BY RowWritten
<1> HIDE DEF o
<1>3. info'[x.id].name = o.name /\ info'[x.id].status = o.status
  BY <1>2 DEF Row
<1>4. o.id # 0 => /\ info[x.id].name = o.name /\ info[x.id].status # Deleted
                  /\ "status" \notin o.dirty => info[x.id].status = o.status
  BY <1>1, <1>2 DEF Known
<1>5. /\ pc'[c] \in {"writes", "done"} /\ ask' = ask
      /\ pc'[c] = "writes" => obj'[c] = x
      /\ a.op = "confirm" /\ pc'[c] = "done" => ok'[c]
  BY <1>1, <1>2, AfterSaveGoes
<1>6. Aims(a, x)
  BY <1>1, <1>2 DEF Aims, Points
<1>7. a.op = "delete" => o.status = Deleted /\ o.name = a.name /\ o.id # 0
  BY <1>1 DEF Aims, Points, ByPath, Known, Deleted
<1>8. Gone(a)'
  <2> SUFFICES ASSUME a.op = "delete", NEW i \in DOMAIN info', info'[i].name = a.name
               PROVE  info'[i].status = Deleted
    BY <1>5 DEF Gone, Free
  <2>1. CASE i = x.id
    BY <1>3, <1>7, <2>1
  <2>2. CASE i # x.id
    BY <1>2, <1>4, <1>7, <2>2 DEF Unique
  <2> QED
    BY <2>1, <2>2
<1>9. Aimed(c)'
  BY <1>5, <1>6, <1>8 DEF Aimed
<1>10. \A p \in DOMAIN paths : paths[p].file \in DOMAIN info
  BY DEF TablesTyped
<1>11. Sent'
  BY <1>1, <1>2, <1>3, <1>4, <1>10 DEF Sent, Served, Aims
<1>12. Changed(c)
  <2>1. o.status = Deleted => a.op = "delete" /\ o.name = a.name
    BY <1>1 DEF Aims, Points, ByPath
  <2> QED
    BY <1>1, <1>2, <1>3, <1>4, <2>1 DEF Changed
<1>13. a.op = "confirm" =>
          /\ a.row \in DOMAIN info /\ a.machine \in Machine
          /\ info[a.row].status # Deleted /\ info'[a.row].status # Deleted
  BY <1>1, <1>2, <1>3, <1>4 DEF Aims, Points, ByPath, Normal, Deleted
<1> QED
  BY <1>5, <1>8, <1>9, <1>11, <1>12, <1>13 DEF Puts

LEMMA WritePuts ==
    ASSUME TablesTyped, Calls, Sent, NEW c \in Call, Stage(c), Simple(c), Aimed(c), Write(c)
    PROVE  Puts(c)
<1> DEFINE o == obj[c]
           a == ask[c]
<1>1. PICK w \in todo[c] : WritePath(c, w) \/ SelectFolder(c, w) \/ InsertFolder(c, w)
  BY DEF Write
<1>2. /\ pc[c] = "writes" /\ o \in Obj /\ o.id \in DOMAIN info /\ Aims(a, o) /\ Gone(a)
      /\ Writing(info, paths, a, o, todo[c]) /\ info[o.id] = Row(o) /\ w \in Writes
  BY DEF Write, Calls, CallsTyped, Fine, Good, Local, Stage, Aimed, Writing
<1>3. PICK next : Wrote(c, w, next)
  BY <1>1 DEF WritePath, SelectFolder, InsertFolder
<1>4. /\ pc'[c] \in {"writes", "done"} /\ ask' = ask
      /\ pc'[c] = "writes" => obj'[c] = o
      /\ a.op = "confirm" /\ pc'[c] = "done" => ok'[c]
  BY <1>3, WroteGoes
<1>5. a.op = "confirm" => /\ a.row = o.id /\ info[a.row].status = Normal
                          /\ a.machine \in Machine /\ Normal # Deleted /\ Normal # 0
  BY <1>2 DEF Aims, Points, ByPath, Row, Normal, Deleted
<1>6. ASSUME Sent', Changed(c), Gone(a)', a.op = "confirm" => info'[a.row].status # Deleted
      PROVE  Puts(c)
  <2>1. Aimed(c)'
    BY <1>2, <1>4, <1>6 DEF Aimed
  <2> QED
    BY <1>2, <1>4, <1>5, <1>6, <2>1 DEF Puts
<1>7. CASE WritePath(c, w)
  <2> DEFINE p == w.path
  <2>1. info' = info /\ Gone(a)'
    BY <1>2, <1>4, <1>7 DEF WritePath, Gone
  <2>2. PICK at :
              /\ DOMAIN paths' = DOMAIN paths \cup {at}
              /\ paths'[at].file = o.id /\ paths'[at].machine = p.machine
              /\ paths'[at].status = p.status
              /\ \A q \in DOMAIN paths : q # at => paths'[q] = paths[q]
    <3>1. Fits(paths, o, PathsIn(todo[c]))
      BY <1>2 DEF Writing
    <3>2. \E at :
              /\ DOMAIN paths' = DOMAIN paths \cup {at}
              /\ IF w.path.id = 0 THEN at \notin DOMAIN paths
                 ELSE at = w.path.id /\ at \in DOMAIN paths
              /\ paths'[at].file = obj[c].id /\ paths'[at].machine = w.path.machine
              /\ paths'[at].status = w.path.status
              /\ ask[c].op = "confirm" /\ w.path.status = Normal => proof'[at] = ask[c].md5
              /\ \A q \in DOMAIN paths :
                    q # at => paths'[q] = paths[q] /\ proof'[q] = proof[q]
      BY <1>2, <1>7, <3>1, PathWritten
    <3> QED
      BY <3>2
  <2>3. p \in o.paths /\ p.dirty /\ p \in PathsIn(todo[c])
    BY <1>7 DEF WritePath, Calls, Fine, Local, PathsIn
  <2>4. p.status = Normal => a.op = "confirm" /\ p.machine = a.machine
    BY <1>2, <2>3 DEF Writing, Readied, Aims
  <2>5. Sent'
    BY <1>5, <2>1, <2>2, <2>4 DEF Sent, Served
  <2>6. Changed(c)
    BY <1>5, <2>1, <2>2, <2>4 DEF Changed
  <2> QED
    BY <1>5, <1>6, <2>1, <2>5, <2>6
<1>8. CASE SelectFolder(c, w)
  <2>1. info' = info /\ paths' = paths
    BY <1>8 DEF SelectFolder, tables
  <2> QED
    BY <1>2, <1>4, <1>5, <1>6, <2>1 DEF Sent, Served, Changed, Gone
<1>9. CASE InsertFolder(c, w)
  <2> DEFINE i   == Len(info) + 1
             row == [name |-> w.name, status |-> Normal, md5 |-> NoMd5]
  <2>1. info' = Append(info, row) /\ paths' = paths /\ row.name = w.name /\ w.name \in Dir
    BY <1>2, <1>9 DEF InsertFolder, Writes
  <2>2. info \in Seq(InfoRow) /\ DOMAIN info = 1 .. Len(info) /\ Len(info) \in Nat
    BY DEF TablesTyped
  <2> HIDE DEF row
  <2>3. /\ DOMAIN info' = DOMAIN info \cup {i} /\ info'[i] = row
        /\ \A j \in DOMAIN info : info'[j] = info[j]
    <3>1. /\ DOMAIN info' = 1 .. Len(info) + 1 /\ info'[Len(info) + 1] = row
          /\ \A j \in 1 .. Len(info) : info'[j] = info[j]
      BY <2>1, <2>2
    <3>2. 1 .. Len(info) + 1 = 1 .. Len(info) \cup {i}
      BY <2>2
    <3> QED
      BY <2>2, <3>1, <3>2
  <2> HIDE DEF i
  <2>4. Gone(a)'
    BY <1>2, <1>4, <2>1, <2>3 DEF Gone, Free
  <2>5. \A p \in DOMAIN paths : paths[p].file \in DOMAIN info
    BY DEF TablesTyped
  <2>6. Sent' /\ Changed(c)
    BY <2>1, <2>3, <2>5 DEF Sent, Served, Changed
  <2> QED
    BY <1>2, <1>5, <1>6, <2>3, <2>4, <2>6
<1> QED
  BY <1>1, <1>7, <1>8, <1>9

-----------------------------------------------------------------------------
(* The callbacks *)

\* After a step of the only call that is under way the table is what it should be
\* again, whether its callback ran or not.
LEMMA CallbackKeeps ==
    ASSUME TablesTyped, Calls, Unique, Tabled, Alone, NEW c \in Active,
           Callback(c), ~CallBackAgain(c), ask[c].op # "fileDelete",
           Changed(c), unseen' = unseen, ask' = ask,
           \A d \in Call : d # c => pc'[d] = pc[d],
           pc[c] = "writes" \/ ~UNCHANGED tables => pc'[c] \in {"writes", "done"},
           pc'[c] = "done" /\ ask[c].op = "delete" =>
               \A p \in DOMAIN paths' :
                   paths'[p].status = Normal => info'[paths'[p].file].name # ask[c].name,
           pc'[c] = "done" /\ ask[c].op = "confirm" =>
               IF ok'[c]
               THEN /\ ask[c].row \in DOMAIN info /\ ask[c].machine \in Machine
                    /\ info[ask[c].row].status # Deleted
                    /\ info'[ask[c].row].status # Deleted
               ELSE pc[c] # "writes" /\ UNCHANGED tables
    PROVE  Tabled'
<1> DEFINE a == ask[c]
<1>1. c \in Call /\ pc[c] # "done" /\ \A d \in Call : pc[d] = "writes" => d = c
  BY DEF Active, Alone
<1>2. /\ \A n : Deleting(n) <=> pc[c] = "writes" /\ a.op = "delete" /\ a.name = n
      /\ \A i, m : Confirming(i, m) <=> /\ pc[c] = "writes" /\ a.op = "confirm"
                                        /\ a.row = i /\ a.machine = m
  BY <1>1 DEF Deleting, Confirming
<1>3. /\ \A n : Deleting(n)' <=> pc'[c] = "writes" /\ a.op = "delete" /\ a.name = n
      /\ \A i, m : Confirming(i, m)' <=> /\ pc'[c] = "writes" /\ a.op = "confirm"
                                         /\ a.row = i /\ a.machine = m
  BY <1>1 DEF Deleting, Confirming
<1>4. /\ files \in Seq(Listing)
      /\ \A i \in DOMAIN files : /\ files[i].id \in DOMAIN info
                                 /\ files[i].url = info[files[i].id].name
      /\ \A i, j \in DOMAIN files : files[i].url = files[j].url => i = j
  BY DEF Tabled, Listed
<1>5. \A p \in DOMAIN paths : paths[p].file \in DOMAIN info
  BY DEF TablesTyped
<1>6. ASSUME files' = files PROVE Listed'
  BY <1>4, <1>6 DEF Listed, Changed
<1>7. ASSUME files' = files PROVE \A i, m : InTable(i, m) <=> InTable(i, m)'
  BY <1>7 DEF InTable, Entries
<1>8. CASE pc'[c] = "writes"
  <2>1. files' = files
    BY <1>8 DEF Callback
  <2>2. Lasting'
    BY <1>2, <1>3, <1>4, <1>8, <2>1 DEF Tabled, Lasting, Changed
  <2>3. Covering'
    BY <1>2, <1>3, <1>7, <1>8, <2>1 DEF Tabled, Covering, Served, Changed
  <2> QED
    BY <1>6, <2>1, <2>2, <2>3 DEF Tabled
<1>9. CASE pc'[c] \notin {"writes", "done"}
  <2>1. files' = files /\ info' = info /\ paths' = paths /\ pc[c] # "writes"
    BY <1>9 DEF Callback, tables
  <2>2. Lasting' /\ Covering'
    BY <1>2, <1>7, <2>1 DEF Tabled, Lasting, Covering, Served
  <2> QED
    BY <1>6, <2>1, <2>2 DEF Tabled
<1>10. CASE pc'[c] = "done" /\ a.op = "confirm" /\ ok'[c]
  <2> DEFINE id  == a.row
             url == info[id].name
             m   == a.machine
  <2>1. files' = AddPath(id, url, m)
    BY <1>1, <1>10 DEF Callback
  <2>2. /\ id \in DOMAIN info /\ id \in Nat /\ url \in Name /\ m \in Machine
        /\ info[id].status # Deleted /\ info'[id].status # Deleted
    <3>1. /\ id \in DOMAIN info /\ m \in Machine
          /\ info[id].status # Deleted /\ info'[id].status # Deleted
      BY <1>10
    <3> HIDE DEF id
    <3>2. info \in Seq(InfoRow)
      BY DEF TablesTyped
    <3>3. id \in Nat /\ info[id] \in InfoRow
      BY <3>1, <3>2
    <3> QED
      BY <3>1, <3>3 DEF InfoRow
  <2> DEFINE R == files'
  <2>3. R \in Seq(Listing) /\ \E k : Added(R, k, id, url, m)
    <3> HIDE DEF R, id, url, m
    <3>1. files \in Seq(Listing) /\ R = AddPath(id, url, m)
      BY <1>4, <2>1 DEF R
    <3> QED
      BY <2>2, <3>1, AddFacts
  <2>4. PICK k : Added(R, k, id, url, m)
    BY <2>3
  <2> USE DEF Added
  <2>5. \A i \in DOMAIN files : info[files[i].id].status # Deleted
    BY <1>2, <1>10 DEF Tabled, Lasting
  <2>6. R[k].url = url /\ (k \in DOMAIN files => files[k].id = id)
    BY <1>4, <2>4 DEF Entries
  <2>7. \A i \in DOMAIN R : R[i].id \in DOMAIN info /\ R[i].url = info[R[i].id].name
    BY <1>4, <2>2, <2>4, <2>6
  <2>8. ASSUME NEW i \in DOMAIN files, files[i].url = url PROVE i = k
    <3>1. files[i].id = id
      BY <1>4, <2>2, <2>5, <2>8 DEF Unique
    <3>2. i \in Entries(id)
      BY <3>1 DEF Entries
    <3>3. k \in DOMAIN files /\ files[k].url = url
      BY <2>4, <2>6, <3>2 DEF Entries
    <3> QED
      BY <1>4, <2>8, <3>3
  <2>9. \A i, j \in DOMAIN R : R[i].url = R[j].url => i = j
    BY <1>4, <2>4, <2>6, <2>8
  <2>10. Listed'
    BY <2>3, <2>7, <2>9 DEF Listed, Changed
  <2>11. \A i \in DOMAIN R : info'[R[i].id].status # Deleted
    BY <1>4, <1>10, <2>2, <2>4, <2>5 DEF Changed
  <2>12. Lasting'
    BY <2>11 DEF Lasting
  <2>13. InTable(id, m)' /\ \A i, n : InTable(i, n) => InTable(i, n)'
    BY <2>4, <2>6 DEF InTable, Entries
  <2>14. Covering'
    BY <1>2, <2>13 DEF Tabled, Covering, Served, Changed
  <2> QED
    BY <2>10, <2>12, <2>14 DEF Tabled
<1>11. CASE pc'[c] = "done" /\ a.op = "confirm" /\ ~ok'[c]
  <2>1. files' = files /\ info' = info /\ paths' = paths /\ pc[c] # "writes"
    BY <1>11 DEF Callback, tables
  <2>2. Lasting' /\ Covering'
    BY <1>2, <1>7, <2>1 DEF Tabled, Lasting, Covering, Served
  <2> QED
    BY <1>6, <2>1, <2>2 DEF Tabled
<1>12. CASE pc'[c] = "done" /\ a.op = "delete"
  <2> DEFINE n == a.name
             R == files'
  <2>1. R = RemoveFile(n)
    BY <1>1, <1>12 DEF Callback
  <2>2. /\ R \in Seq(Listing)
        /\ \A k \in DOMAIN R : \E i \in DOMAIN files : files[i].url # n /\ R[k] = files[i]
        /\ \A i \in DOMAIN files : files[i].url # n => \E k \in DOMAIN R : R[k] = files[i]
        /\ \A k, l \in DOMAIN R : R[k].url = R[l].url => k = l
    <3> HIDE DEF R, n
    <3> QED
      BY <2>1, RemoveFacts DEF Tabled
  <2>3. Listed'
    <3>1. ASSUME NEW k \in DOMAIN R
          PROVE  R[k].id \in DOMAIN info' /\ R[k].url = info'[R[k].id].name
      <4>1. PICK i \in DOMAIN files : R[k] = files[i]
        BY <2>2
      <4>2. files[i].id \in DOMAIN info /\ files[i].url = info[files[i].id].name
        BY <1>4
      <4> HIDE DEF R
      <4> QED
        BY <4>1, <4>2 DEF Changed
    <3> QED
      BY <2>2, <3>1 DEF Listed
  <2>4. Lasting'
    <3> SUFFICES ASSUME NEW k \in DOMAIN R PROVE info'[R[k].id].status # Deleted
      BY DEF Lasting
    <3>1. PICK i \in DOMAIN files : files[i].url # n /\ R[k] = files[i]
      BY <2>2
    <3>2. info[files[i].id].status # Deleted
      BY <1>2, <3>1 DEF Tabled, Lasting
    <3> QED
      BY <1>4, <3>1, <3>2 DEF Changed
  <2>5. ASSUME NEW p \in DOMAIN paths, paths[p].status = Normal, p \notin unseen,
               info[paths[p].file].name # n
        PROVE  \E k \in DOMAIN files' :
                   files'[k].id = paths[p].file /\ paths[p].machine \in files'[k].node
    <3>1. PICK e \in Entries(paths[p].file) : paths[p].machine \in files[e].node
      BY <1>2, <1>12, <2>5 DEF Tabled, Covering, Served, InTable
    <3>2. e \in DOMAIN files /\ files[e].id = paths[p].file /\ files[e].url # n
      BY <1>4, <2>5, <3>1 DEF Entries
    <3>3. PICK k \in DOMAIN R : R[k] = files[e]
      BY <2>2, <3>2
    <3> QED
      BY <3>1, <3>2, <3>3
  <2>6. Covering'
    <3> SUFFICES ASSUME NEW p \in DOMAIN paths', paths'[p].status = Normal, p \notin unseen
                 PROVE  \E k \in DOMAIN files' :
                            files'[k].id = paths'[p].file /\ paths'[p].machine \in files'[k].node
      BY DEF Covering, Served, InTable, Entries
    <3>1. /\ p \in DOMAIN paths /\ paths[p].status = Normal
          /\ paths'[p].file = paths[p].file /\ paths'[p].machine = paths[p].machine
      BY <1>12 DEF Changed
    <3>2. info[paths[p].file].name # n
      BY <1>5, <1>12, <3>1 DEF Changed
    <3> QED
      BY <2>5, <3>1, <3>2
  <2> QED
    BY <2>3, <2>4, <2>6 DEF Tabled
<1>13. CASE pc'[c] = "done" /\ a.op \notin {"confirm", "delete"}
  <2>1. files' = files
    BY <1>13 DEF Callback
  <2>2. Lasting'
    BY <1>2, <1>4, <1>13, <2>1 DEF Tabled, Lasting, Changed
  <2>3. Covering'
    BY <1>2, <1>7, <1>13, <2>1 DEF Tabled, Covering, Served, Changed
  <2> QED
    BY <1>6, <2>1, <2>2, <2>3 DEF Tabled
<1> QED
  BY <1>8, <1>9, <1>10, <1>11, <1>12, <1>13

\* A step that reads.
LEMMA ReadsKeep ==
    ASSUME TablesTyped, Calls, Held, Alone, Tabled, Sent, NEW c \in Active, Only(c),
           Callback(c), ~CallBackAgain(c), ask[c].op # "fileDelete",
           unseen' = unseen, Reads(c), UNCHANGED tables, pc[c] # "writes"
    PROVE  Tabled' /\ Sent' /\ Aimed(c)'
<1> DEFINE a == ask[c]
<1>1. /\ info' = info /\ paths' = paths /\ ask' = ask
      /\ \A d \in Call : d # c => pc'[d] = pc[d]
  BY DEF tables, Only, Calls, CallsTyped
<1>2. \A d \in Call : todo[d] = {}
  BY DEF Alone, Active, Calls, Fine, Local
<1>3. ASSUME a.name \in Dir \/ Live(a.name) = {},
             NEW p \in DOMAIN paths, paths[p].status = Normal
      PROVE  info[paths[p].file].name # a.name
  <2>1. paths[p].file \in DOMAIN info /\ Normal # Deleted
    BY DEF TablesTyped, Normal, Deleted
  <2>2. info[paths[p].file].name \notin Dir /\ info[paths[p].file].status # Deleted
    BY <1>2, <1>3, <2>1 DEF Held, Current, Cascades, Awaited
  <2> QED
    BY <1>3, <2>1, <2>2 DEF Live
<1>4. pc'[c] = "done" /\ a.op = "delete" =>
          \A p \in DOMAIN paths' : paths'[p].status = Normal => info'[paths'[p].file].name # a.name
  BY <1>1, <1>3 DEF Reads
<1>5. Changed(c)
  BY <1>1 DEF Changed
<1>6. Tabled'
  BY <1>1, <1>4, <1>5, CallbackKeeps DEF Reads, Held
<1>7. Sent'
  BY <1>1 DEF Sent, Served
<1> QED
  BY <1>6, <1>7 DEF Reads

\* A step that writes: when a metaDelete ends, no path of its file is served.
LEMMA PutsKeep ==
    ASSUME TablesTyped, Calls, Held, Alone, Tabled, NEW c \in Active, Only(c),
           Callback(c), ~CallBackAgain(c), ask[c].op # "fileDelete",
           unseen' = unseen, Puts(c), TablesTyped', Calls', Held'
    PROVE  Tabled' /\ Sent' /\ Aimed(c)'
<1> DEFINE a == ask[c]
<1>1. ask' = ask /\ \A d \in Call : d # c => pc'[d] = pc[d]
  BY DEF Only, Calls, CallsTyped
<1>2. ASSUME pc'[c] = "done", a.op = "delete",
             NEW p \in DOMAIN paths', paths'[p].status = Normal
      PROVE  info'[paths'[p].file].name # a.name
  <2>1. \A d \in Call : pc'[d] # "writes"
    BY <1>1, <1>2 DEF Alone, Active
  <2>2. \A d \in Call : todo'[d] = {}
    BY <2>1 DEF Calls, Fine, Local
  <2>3. paths'[p].file \in DOMAIN info' /\ Normal # Deleted
    BY DEF TablesTyped, Normal, Deleted
  <2>4. info'[paths'[p].file].name \notin Dir /\ info'[paths'[p].file].status # Deleted
    BY <1>2, <2>2, <2>3 DEF Held, Current, Cascades, Awaited
  <2> QED
    BY <1>1, <1>2, <2>3, <2>4 DEF Puts, Gone, Free
<1>3. Tabled'
  BY <1>1, <1>2, CallbackKeeps DEF Puts, Held
<1> QED
  BY <1>3 DEF Puts

-----------------------------------------------------------------------------
(* All steps *)

NoRemoval == OneByOne /\ "fileDelete" \notin Ops

Meta    == TablesTyped /\ Calls /\ InTurn /\ Foldered /\ NoFileDelete
Replica == Tabled /\ Sent /\ \A c \in Call : Aimed(c)

LEMMA StartKeepsTable ==
    ASSUME OneByOne, Meta, Replica, NEW c \in Call, Start(c),
           Callback(c), ~CallBackAgain(c), unseen' = unseen
    PROVE  Replica'
<1>1. /\ pc' = [pc EXCEPT ![c] = "load"] /\ Cardinality(Active) < 1
      /\ info' = info /\ paths' = paths
  BY DEF Start, OneByOne, tables
<1>2. Active = {}
  <2>1. IsFiniteSet(Active)
    BY FileMetaAssumption, FS_Subset DEF Active
  <2>2. Cardinality(Active) \in Nat /\ (Cardinality(Active) = 0 <=> Active = {})
    BY <2>1, FS_CardinalityType, FS_EmptySet
  <2> QED
    BY <1>1, <2>2
<1>3. \A d \in Call : pc[d] \in {"idle", "done", "lost"}
                      /\ pc'[d] \in {"idle", "load", "done", "lost"}
  BY <1>1, <1>2 DEF Active, Meta, Calls, CallsTyped
<1>4. files' = files
  <2>1. pc'[c] # "done"
    BY <1>1 DEF Meta, Calls, CallsTyped
  <2> QED
    BY <2>1 DEF Callback
<1>5. /\ \A n : ~Deleting(n)
      /\ \A i, m : ~Confirming(i, m)
  BY <1>3 DEF Deleting, Confirming
<1>6. Listed' /\ Lasting'
  BY <1>1, <1>4, <1>5 DEF Replica, Tabled, Listed, Lasting
<1>7. Covering'
  BY <1>1, <1>4, <1>5 DEF Replica, Tabled, Covering, Served, InTable, Entries
<1>8. Sent' /\ \A d \in Call : Aimed(d)'
  BY <1>1, <1>3 DEF Replica, Sent, Served, Aimed
<1> QED
  BY <1>6, <1>7, <1>8 DEF Replica, Tabled

LEMMA StatementKeepsTable ==
    ASSUME Meta, Replica, NEW c \in Call, Statement(c),
           Callback(c), ~CallBackAgain(c), unseen' = unseen,
           TablesTyped', Calls'
    PROVE  Replica'
<1>1. /\ TablesTyped /\ Calls /\ Held /\ Alone /\ Stage(c) /\ Simple(c)
      /\ ask[c].op # "fileDelete" /\ Tabled /\ Sent /\ Aimed(c)
  BY DEF Meta, Replica, InTurn, NoFileDelete
<1>2. Only(c) /\ Held'
  BY <1>1, StatementStep
<1>3. c \in Active
  BY DEF Active, Statement, LoadInfo, NoSpace, LoadPaths, LoadChildren, WriteInfo, Write
<1>4. \A d \in Call : d # c => Aimed(d)'
  <2> SUFFICES ASSUME NEW d \in Call, d # c PROVE pc'[d] \in {"idle", "done", "lost"}
    BY DEF Aimed
  <2> QED
    BY <1>1, <1>2, <1>3 DEF Only, Alone, Active, Calls, CallsTyped
<1>5. SUFFICES Tabled' /\ Sent' /\ Aimed(c)'
  BY <1>4 DEF Replica
<1>6. ASSUME Reads(c), UNCHANGED tables, pc[c] # "writes" PROVE Tabled' /\ Sent' /\ Aimed(c)'
  BY <1>1, <1>2, <1>3, <1>6, ReadsKeep
<1>7. CASE LoadInfo(c)
  <2>1. Reads(c)
    BY <1>1, <1>7, LoadInfoReads
  <2> QED
    BY <1>6, <1>7, <2>1 DEF LoadInfo
<1>8. CASE NoSpace(c)
  <2>1. Reads(c)
    BY <1>1, <1>8, AnswerReads DEF NoSpace
  <2> QED
    BY <1>6, <1>8, <2>1 DEF NoSpace
<1>9. CASE LoadPaths(c)
  <2>1. Reads(c)
    BY <1>1, <1>9, LoadPathsReads
  <2> QED
    BY <1>6, <1>9, <2>1 DEF LoadPaths
<1>10. CASE LoadChildren(c)
  <2>1. Reads(c)
    BY <1>1, <1>10, LoadChildrenReads
  <2> QED
    BY <1>6, <1>10, <2>1 DEF LoadChildren
<1>11. CASE WriteInfo(c)
  <2>1. Puts(c)
    BY <1>1, <1>11, WriteInfoPuts DEF Held
  <2> QED
    BY <1>1, <1>2, <1>3, <2>1, PutsKeep
<1>12. CASE Write(c)
  <2>1. Puts(c)
    BY <1>1, <1>12, WritePuts
  <2> QED
    BY <1>1, <1>2, <1>3, <2>1, PutsKeep
<1> QED
  BY <1>7, <1>8, <1>9, <1>10, <1>11, <1>12 DEF Statement

\* A start of the center reads the table anew: between calls every served path is one
\* of an uploaded file.
LEMMA RestartKeeps ==
    ASSUME Meta, Replica, Restart
    PROVE  Meta' /\ Replica' /\ StayDeleted
<1>1. /\ info' = info /\ paths' = paths /\ proof' = proof
      /\ UNCHANGED <<pc, ask, obj, todo, failed, answers, ok, lastPut>>
      /\ upcoming' = {} /\ Active = {}
  BY DEF Restart, tables, calls, Quiet
<1>2. PICK on \in SUBSET Machine :
          /\ files' = Loads(on)
          /\ unseen' = {p \in DOMAIN paths : Served(p) /\ paths[p].machine \notin on}
  BY DEF Restart
<1>3. TablesTyped' /\ Calls'
  <2>1. CallsTyped'
    BY <1>1 DEF Meta, Calls, CallsTyped
  <2> QED
    BY <1>1, <2>1 DEF Meta, TablesTyped, Calls, Asks, Fine
<1>4. InTurn' /\ StayDeleted /\ Foldered' /\ NoFileDelete'
  <2>1. UNCHANGED tables /\ \A p : Awaited(p) => Awaited(p)'
    BY <1>1 DEF tables, Awaited
  <2>2. Held' /\ StayDeleted
    BY <2>1, HeldStays DEF Meta, InTurn
  <2>3. Foldered'
    BY <1>1 DEF Meta, Foldered, Found, Live, Sought
  <2> QED
    BY <1>1, <2>2, <2>3 DEF Meta, InTurn, Alone, Active, Stage, Simple, NoFileDelete
<1>5. Sent' /\ \A c \in Call : Aimed(c)'
  BY <1>1 DEF Replica, Sent, Served, Aimed, Gone, Active
<1> DEFINE R == Loads(on)
<1>6. /\ R \in Seq(Listing)
      /\ \A k \in DOMAIN R : /\ R[k].id \in DOMAIN info /\ Uploaded(R[k].id)
                             /\ R[k].url = info[R[k].id].name
      /\ \A k, l \in DOMAIN R : R[k].url = R[l].url => k = l
      /\ \A p \in DOMAIN paths :
             Uploaded(paths[p].file) /\ Served(p) /\ paths[p].machine \in on =>
                 \E k \in DOMAIN R : R[k].id = paths[p].file /\ paths[p].machine \in R[k].node
  BY LoadsFacts DEF Meta, InTurn, Held
<1>7. files' = R
  BY <1>2
<1> HIDE DEF R
<1>8. Listed'
  BY <1>1, <1>6, <1>7 DEF Listed
<1>9. Lasting'
  <2>1. Normal # Deleted
    BY DEF Normal, Deleted
  <2> QED
    BY <1>1, <1>6, <1>7, <2>1 DEF Lasting, Uploaded
<1>10. ASSUME NEW p \in DOMAIN paths, Served(p) PROVE Uploaded(paths[p].file)
  <2>1. \A c \in Call : todo[c] = {}
    BY <1>1, NothingOpen DEF Meta, Quiet
  <2>2. Normal # Deleted /\ paths[p].file \in DOMAIN info /\ paths[p].status = Normal
    BY <1>10 DEF Normal, Deleted, Meta, TablesTyped, Served
  <2>3. /\ info[paths[p].file].name \notin Dir /\ info[paths[p].file].status # Deleted
        /\ info[paths[p].file].status # 0
    BY <1>10, <2>1, <2>2 DEF Meta, InTurn, Held, Current, Cascades, Awaited, Replica, Sent
  <2>4. info[paths[p].file].status \in {0, Normal, Deleted}
    <3>1. info[paths[p].file] \in InfoRow
      BY <2>2 DEF Meta, TablesTyped
    <3> QED
      BY <3>1 DEF InfoRow, St
  <2> QED
    BY <2>3, <2>4 DEF Uploaded
<1>11. Covering'
  <2> SUFFICES ASSUME NEW p \in DOMAIN paths, paths[p].status = Normal, p \notin unseen'
               PROVE  \E k \in DOMAIN files' :
                          files'[k].id = paths[p].file /\ paths[p].machine \in files'[k].node
    BY <1>1 DEF Covering, Served, InTable, Entries
  <2>1. Served(p) /\ paths[p].machine \in on
    BY <1>2 DEF Served
  <2> QED
    BY <1>6, <1>7, <1>10, <2>1
<1> QED
  BY <1>3, <1>4, <1>5, <1>8, <1>9, <1>11 DEF Meta, Replica, Tabled

LEMMA HealthKept ==
    ASSUME NoRemoval, Meta, Replica, [HealthNext]_healthVars
    PROVE  Meta' /\ Replica' /\ StayDeleted
<1>1. ASSUME [Next]_vars PROVE Meta' /\ StayDeleted
  BY <1>1, MetaKept, TurnKept, FoldersKept DEF Meta, NoRemoval
<1>2. CASE UNCHANGED healthVars
  <2>1. UNCHANGED <<vars, files, unseen>>
    BY <1>2 DEF healthVars
  <2>2. UNCHANGED <<info, paths, pc, ask, obj, files, unseen>>
    BY <2>1 DEF vars, tables, calls
  <2>3. Tabled'
    BY <2>2 DEF Replica, Tabled, Listed, Lasting, Covering, Deleting, Confirming, InTable,
                Entries, Served
  <2>4. Sent' /\ \A c \in Call : Aimed(c)'
    BY <2>2 DEF Replica, Sent, Served, Aimed, Gone
  <2> QED
    BY <1>1, <2>1, <2>3, <2>4 DEF Replica
<1>3. ASSUME NEW c \in Call, Command(c) PROVE Meta' /\ Replica' /\ StayDeleted
  <2>1. Meta' /\ StayDeleted
    BY <1>1, <1>3 DEF Command, Next
  <2>2. ~Fail(c) /\ ~CallBackAgain(c)
    BY DEF Fail, CallBackAgain, OneByOne, NoRemoval
  <2>3. (Start(c) \/ Statement(c)) /\ Callback(c) /\ unseen' = unseen
    BY <1>3, <2>2 DEF Command
  <2> QED
    BY <2>1, <2>2, <2>3, StartKeepsTable, StatementKeepsTable DEF Meta, NoRemoval
<1> QED
  BY <1>2, <1>3, RestartKeeps DEF HealthNext

LEMMA HealthAtInit == HealthInit => Meta /\ Replica
<1> SUFFICES ASSUME HealthInit PROVE Meta /\ Replica
  OBVIOUS
<1>1. Init /\ files = <<>> /\ unseen = {}
  BY DEF HealthInit
<1>2. Meta
  BY <1>1, MetaAtInit, TurnAtInit DEF Meta, Foldered, NoFileDelete, Init, Idle
<1>3. Replica
  <2>1. info = <<>> /\ paths = <<>> /\ \A c \in Call : pc[c] = "idle"
    BY <1>1 DEF Init
  <2> QED
    BY <1>1, <2>1 DEF Replica, Tabled, Listed, Lasting, Covering, Sent, Aimed
<1> QED
  BY <1>2, <1>3

LEMMA HealthInvariant == ASSUME NoRemoval PROVE HealthSpec => [](Meta /\ Replica)
<1>1. Meta /\ Replica /\ [HealthNext]_healthVars => (Meta /\ Replica)'
  BY HealthKept
<1> QED
  BY HealthAtInit, <1>1, PTL DEF HealthSpec

\* While calls come one by one, no statement fails, no file is renamed and none is
\* removed by fileDelete, what is proved of the metadata also holds when the center is
\* started again between calls, which forgets the metaPostPath commands that were to
\* come (fileHealthyFactory.js:83-109, cmdqueue.js:3-6).
THEOREM MetadataOutlivesRestarts ==
    ASSUME OneByOne, "fileDelete" \notin Ops
    PROVE  HealthSpec => /\ [](/\ TypeOK /\ UniqueName /\ ReadyIsCurrent
                               /\ DeleteCascades /\ FolderExists /\ OneCopyPerMachine)
                         /\ DeletedForGood
<1>1. Meta => /\ TypeOK /\ UniqueName /\ ReadyIsCurrent
              /\ DeleteCascades /\ FolderExists /\ OneCopyPerMachine
  BY MetaMeansTyped, TurnMeans, FoldersMean DEF Meta
<1>2. Meta /\ Replica /\ [HealthNext]_healthVars =>
          [/\ \A i \in DOMAIN info : info[i].status = Deleted => info'[i].status = Deleted
           /\ \A p \in DOMAIN paths : paths[p].status = Deleted => paths'[p].status = Deleted
          ]_vars
  BY HealthKept DEF StayDeleted, NoRemoval
<1> QED
  BY <1>1, <1>2, HealthInvariant, PTL DEF NoRemoval, HealthSpec, DeletedForGood

\* While calls come one by one, no statement fails, no file is renamed and none is
\* removed by fileDelete, the table has every served copy between calls, but for
\* those on machines that were off when the center started: addPath() follows each
\* confirmation, removeFile() drops no other file, and the load at the start finds
\* the rest (fileHealthy.js:75-102, fileHealthyFactory.js:83-109).
THEOREM TableMissesNoCopy ==
    ASSUME OneByOne, "fileDelete" \notin Ops
    PROVE  HealthSpec => []NoCopyMissed
<1>1. ASSUME Meta, Replica PROVE NoCopyMissed
  <2> SUFFICES ASSUME Quiet, NEW p \in DOMAIN paths, Served(p), p \notin unseen
               PROVE  \E e \in Entries(paths[p].file) : paths[p].machine \in files[e].node
    BY DEF NoCopyMissed
  <2>1. \A i, m : ~Confirming(i, m)
    BY DEF Quiet, Active, Confirming
  <2> QED
    BY <1>1, <2>1 DEF Replica, Tabled, Covering, InTable
<1> QED
  BY <1>1, HealthInvariant, PTL DEF NoRemoval

\* Under the same conditions a file is counted once between calls, and a deleted file
\* not at all: an entry is found by its id, removed by its name, and until metaDelete
\* ends no other file has that name (File.js:472-479, fileHealthy.js:45-73).
THEOREM FilesAreCountedOnce ==
    ASSUME OneByOne, "fileDelete" \notin Ops
    PROVE  HealthSpec => []CountedOnce
<1>1. ASSUME Meta, Replica PROVE CountedOnce
  <2>1. Quiet => \A n : ~Deleting(n)
    BY DEF Quiet, Active, Deleting
  <2> QED
    BY <1>1, <2>1 DEF Replica, Tabled, Listed, Lasting, CountedOnce
<1> QED
  BY <1>1, HealthInvariant, PTL DEF NoRemoval
=============================================================================
