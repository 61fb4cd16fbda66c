---------------------------- MODULE CmdQueueProofs ----------------------------
(***************************************************************************)
(* The registry keeps its promises for every number of commands and every  *)
(* limit.                                                                  *)
(***************************************************************************)
EXTENDS CmdQueue, TLAPS

\* IDLeadsToCommand goes through Get; this form is the one that is inductive.
IDsArePositions ==
    \A c \in Cmd : ID[c] # None => ID[c] \in Positions /\ cmdList[ID[c]] = c

IInv == TypeOK /\ WithinLimit /\ PoolIsList /\ IDsArePositions

LEMMA IInvGivesIDs == IInv => IDLeadsToCommand
BY DEF IInv, IDsArePositions, IDLeadsToCommand, Get

LEMMA QueueInit == Init => IInv
<1> SUFFICES ASSUME Init PROVE IInv
  OBVIOUS
<1>1. Positions = {} /\ Len(cmdList) = 0
  BY DEF Init, Positions
<1>2. cmdList \in Seq(Cmd \cup {Free})
  BY DEF Init
<1>3. ID \in [Cmd -> Nat \cup {None}] /\ \A c \in Cmd : ID[c] = None
  BY DEF Init
<1>4. DOMAIN cmdPool = {}
  BY DEF Init
<1> QED
  BY <1>1, <1>2, <1>3, <1>4, CmdQueueAssumption
  DEF Init, IInv, TypeOK, WithinLimit, PoolIsList, FreeSlots, IDsArePositions

\* What the invariant says of the slots, without the sequence.
LEMMA SlotFacts ==
    ASSUME IInv
    PROVE  /\ Len(cmdList) \in Nat
           /\ \A p \in Positions : cmdList[p] \in Cmd \cup {Free}
           /\ DOMAIN cmdPool = {p \in Positions : cmdList[p] # Free}
           /\ \A p \in DOMAIN cmdPool : cmdPool[p] = cmdList[p] /\ cmdList[p] \in Cmd
BY DEF IInv, TypeOK, PoolIsList, FreeSlots, Positions

LEMMA PostToFreeKeeps ==
    ASSUME IInv, NEW c \in Cmd, PostToFree(c)
    PROVE  IInv'
<1>1. PICK last \in FreeSlots : ID' = [ID EXCEPT ![c] = last]
  BY DEF PostToFree
<1>2. Len(cmdList) \in Nat /\ FreeSlots \subseteq Positions
  BY SlotFacts DEF FreeSlots
<1>3. /\ cmdList' \in Seq(Cmd \cup {Free})
      /\ Len(cmdList') = Len(cmdList)
      /\ \A p \in Positions :
            cmdList'[p] = IF p \in FreeSlots THEN c ELSE cmdList[p]
  BY <1>2, SlotFacts DEF PostToFree, Positions
<1>4. Positions' = Positions
  BY <1>3 DEF Positions
<1>5. FreeSlots' = {}
  BY <1>3, <1>4, CmdQueueAssumption DEF FreeSlots
<1>6. /\ DOMAIN cmdPool' = Positions
      /\ \A p \in Positions : cmdPool'[p] = cmdList'[p]
  BY <1>3, SlotFacts DEF PostToFree, FreeSlots
<1>7. PoolIsList'
  BY <1>4, <1>5, <1>6 DEF PoolIsList
<1>8. ID' \in [Cmd -> Nat \cup {None}]
  BY <1>1, <1>2 DEF IInv, TypeOK, Positions
<1>9. IDsArePositions'
  <2>1. ASSUME NEW d \in Cmd, ID'[d] # None
        PROVE  ID'[d] \in Positions /\ cmdList'[ID'[d]] = d
    <3>1. CASE d = c
      BY <1>1, <1>2, <1>3, <3>1 DEF IInv, TypeOK
    <3>2. CASE d # c
      BY <1>1, <1>3, <2>1, <3>2, CmdQueueAssumption
      DEF IInv, TypeOK, IDsArePositions, FreeSlots
    <3> QED
      BY <3>1, <3>2
  <2> QED
    BY <1>4, <2>1 DEF IDsArePositions
<1>10. \A p \in DOMAIN cmdPool' : cmdPool'[p] \in Cmd
  BY <1>3, <1>6, SlotFacts DEF FreeSlots
<1> QED
  BY <1>3, <1>4, <1>6, <1>7, <1>8, <1>9, <1>10
  DEF IInv, TypeOK, WithinLimit, PostToFree

LEMMA PostToEndKeeps ==
    ASSUME IInv, NEW c \in Cmd, PostToEnd(c)
    PROVE  IInv'
<1> DEFINE n == Len(cmdList) + 1
<1>1. Len(cmdList) \in Nat /\ n \in Nat \ {0}
  BY SlotFacts
<1>2. /\ cmdList' = Append(cmdList, c)
      /\ cmdPool' = [q \in DOMAIN cmdPool \cup {n} |-> IF q = n THEN c ELSE cmdPool[q]]
      /\ maxListAmount' = IF n > maxListAmount THEN maxListAmount + 1 ELSE maxListAmount
      /\ ID' = [ID EXCEPT ![c] = n]
  BY DEF PostToEnd
<1>3. /\ cmdList' \in Seq(Cmd \cup {Free})
      /\ Len(cmdList') = n
      /\ cmdList'[n] = c
      /\ \A p \in Positions : cmdList'[p] = cmdList[p]
  BY <1>1, <1>2 DEF IInv, TypeOK, Positions
<1>4. Positions' = Positions \cup {n} /\ n \notin Positions
  BY <1>1, <1>3 DEF Positions
<1>5. FreeSlots' = FreeSlots
  BY <1>3, <1>4, CmdQueueAssumption DEF FreeSlots
<1>6. /\ DOMAIN cmdPool' = Positions' \ FreeSlots'
      /\ \A p \in DOMAIN cmdPool' : cmdPool'[p] = cmdList'[p] /\ cmdPool'[p] \in Cmd
  BY <1>2, <1>3, <1>4, <1>5, SlotFacts DEF FreeSlots
<1>7. WithinLimit' /\ maxListAmount' \in Nat \ {0}
  BY <1>1, <1>2, <1>3 DEF IInv, TypeOK, WithinLimit
<1>8. ID' \in [Cmd -> Nat \cup {None}]
  BY <1>1, <1>2 DEF IInv, TypeOK
<1>9. IDsArePositions'
  BY <1>2, <1>3, <1>4 DEF IInv, TypeOK, IDsArePositions
<1> QED
  BY <1>3, <1>4, <1>6, <1>7, <1>8, <1>9 DEF IInv, TypeOK, PoolIsList

LEMMA PutKeeps ==
    ASSUME IInv, NEW p \in Positions, NEW c \in Cmd, Put(p, c)
    PROVE  IInv'
<1>1. Len(cmdList) \in Nat /\ p \in DOMAIN cmdPool
  BY SlotFacts DEF Put
<1>2. /\ cmdList' \in Seq(Cmd \cup {Free})
      /\ Len(cmdList') = Len(cmdList)
      /\ \A q \in Positions : cmdList'[q] = IF q = p THEN c ELSE cmdList[q]
  BY <1>1 DEF Put, IInv, TypeOK, Positions
<1>3. Positions' = Positions
  BY <1>2 DEF Positions
<1>4. FreeSlots' = FreeSlots
  BY <1>1, <1>2, <1>3, SlotFacts, CmdQueueAssumption DEF FreeSlots
<1>5. /\ DOMAIN cmdPool' = DOMAIN cmdPool
      /\ \A q \in DOMAIN cmdPool' : cmdPool'[q] = cmdList'[q] /\ cmdPool'[q] \in Cmd
  BY <1>1, <1>2, SlotFacts DEF Put
<1>6. ID' \in [Cmd -> Nat \cup {None}]
  BY DEF Put, Forget, IInv, TypeOK
<1>7. IDsArePositions'
  BY <1>2, <1>3 DEF Put, Forget, IInv, TypeOK, IDsArePositions
<1>8. WithinLimit' /\ maxListAmount' \in Nat \ {0}
  BY <1>2 DEF Put, IInv, TypeOK, WithinLimit
<1> QED
  BY <1>2, <1>3, <1>4, <1>5, <1>6, <1>7, <1>8, SlotFacts
  DEF IInv, TypeOK, PoolIsList, FreeSlots

\* delete() may cut a slot: WithinLimit makes it the last one.
LEMMA DeleteKeeps ==
    ASSUME IInv, NEW p \in Positions, Delete(p)
    PROVE  IInv'
<1> DEFINE n == Len(cmdList)
<1>1. /\ n \in Nat
      /\ p \in 1 .. n
      /\ p \in DOMAIN cmdPool
      /\ maxListAmount \in Nat
      /\ n <= maxListAmount
  BY SlotFacts DEF Delete, IInv, TypeOK, WithinLimit, Positions
<1>2. /\ DOMAIN cmdPool' = DOMAIN cmdPool \ {p}
      /\ \A q \in DOMAIN cmdPool' : cmdPool'[q] = cmdPool[q]
      /\ maxListAmount' = maxListAmount
  BY DEF Delete
<1>3. ID' \in [Cmd -> Nat \cup {None}]
      /\ \A c \in Cmd : ID'[c] = IF ID[c] = p THEN None ELSE ID[c]
  BY DEF Delete, Forget, IInv, TypeOK
<1>4. CASE p >= maxListAmount
  <2>1. p = n /\ n >= 1
    BY <1>1, <1>4
  <2>2. cmdList' = [q \in 1 .. n - 1 |-> IF q < p THEN cmdList[q] ELSE cmdList[q + 1]]
    BY <1>4 DEF Delete
  <2>3. \A q \in 1 .. n - 1 : q < p /\ q \in Positions /\ cmdList'[q] = cmdList[q]
    BY <1>1, <2>1, <2>2 DEF Positions
  <2>4. cmdList' = [q \in 1 .. n - 1 |-> cmdList[q]]
    BY <2>2, <2>3
  <2>5. /\ cmdList' \in Seq(Cmd \cup {Free})
        /\ Len(cmdList') = n - 1
    BY <1>1, <2>1, <2>3, <2>4, SlotFacts
  <2>6. Positions' = Positions \ {p}
    BY <1>1, <2>1, <2>5 DEF Positions
  <2>7. \A q \in Positions' : q \in Positions /\ q # p /\ cmdList'[q] = cmdList[q]
    BY <1>1, <2>3, <2>5, <2>6 DEF Positions
  <2>8. FreeSlots' = FreeSlots \ {p}
    BY <2>6, <2>7 DEF FreeSlots
  <2> QED
    BY <1>1, <1>2, <1>3, <2>1, <2>5, <2>6, <2>7, <2>8, SlotFacts
    DEF IInv, TypeOK, PoolIsList, WithinLimit, IDsArePositions, FreeSlots
<1>5. CASE ~(p >= maxListAmount)
  <2>1. cmdList' = [cmdList EXCEPT ![p] = Free]
    BY <1>5 DEF Delete
  <2>2. /\ cmdList' \in Seq(Cmd \cup {Free})
        /\ Len(cmdList') = n
        /\ \A q \in Positions : cmdList'[q] = IF q = p THEN Free ELSE cmdList[q]
    BY <1>1, <2>1 DEF IInv, TypeOK, Positions
  <2>3. Positions' = Positions
    BY <2>2 DEF Positions
  <2>4. FreeSlots' = FreeSlots \cup {p}
    BY <2>2, <2>3 DEF FreeSlots
  <2> QED
    BY <1>1, <1>2, <1>3, <2>2, <2>3, <2>4, SlotFacts
    DEF IInv, TypeOK, PoolIsList, WithinLimit, IDsArePositions, FreeSlots
<1> QED
  BY <1>4, <1>5

LEMMA QueueNext == IInv /\ [Next]_vars => IInv'
<1> SUFFICES ASSUME IInv, [Next]_vars PROVE IInv'
  OBVIOUS
<1>1. CASE UNCHANGED vars
  BY <1>1 DEF vars, IInv, TypeOK, WithinLimit, PoolIsList, IDsArePositions,
              Positions, FreeSlots
<1> QED
  BY <1>1, PostToFreeKeeps, PostToEndKeeps, PutKeeps, DeleteKeeps DEF Next

\* For every number of commands: the array stays within the limit, array and
\* pool agree, and every ID leads to its command.
THEOREM QueueCorrect ==
    Spec => [](TypeOK /\ WithinLimit /\ PoolIsList /\ IDLeadsToCommand)
<1>1. IInv => TypeOK /\ WithinLimit /\ PoolIsList /\ IDLeadsToCommand
  BY IInvGivesIDs DEF IInv
<1> QED
  BY <1>1, QueueInit, QueueNext, PTL DEF Spec
=============================================================================
