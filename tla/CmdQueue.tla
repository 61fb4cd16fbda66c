------------------------------- MODULE CmdQueue -------------------------------
(***************************************************************************)
(* The registry of commands, modules/cmdqueue.js: an array of slots, a     *)
(* pool with the same content under the slot's key, and a limit that grows *)
(* with the array.  Positions count from 1 here, keys from 0 there.        *)
(*                                                                         *)
(* The controllers post every command and look commands up by ID; put and  *)
(* delete are operations of the module that no controller calls today.     *)
(***************************************************************************)
EXTENDS Integers, Sequences

CONSTANTS
    Cmd,        \* command objects
    Free,       \* the '' that delete leaves in a slot
    None,       \* the ID of a command that has none
    FirstMax,   \* the initial maxListAmount, 5 in the code
    MaxLen      \* BOUND: slots that are explored

ASSUME CmdQueueAssumption ==
    /\ Free \notin Cmd
    /\ None \notin Nat
    /\ FirstMax \in Nat \ {0}
    /\ MaxLen \in Nat

VARIABLES
    cmdList,        \* the slots
    cmdPool,        \* the pool: a function from the positions in use
    maxListAmount,
    ID              \* the ID that setID() gave a command that is still listed

vars == <<cmdList, cmdPool, maxListAmount, ID>>

Positions == 1 .. Len(cmdList)
FreeSlots == {p \in Positions : cmdList[p] = Free}
Listed(c) == \E p \in Positions : cmdList[p] = c

Init ==
    /\ cmdList = <<>>
    /\ cmdPool = [p \in {} |-> Free]
    /\ maxListAmount = FirstMax
    /\ ID = [c \in Cmd |-> None]

\* post() when some slot is free: the loop has no break, so the command goes to
\* every free slot, and its ID is the last of them.
PostToFree(c) ==
    /\ ~Listed(c)
    /\ FreeSlots # {}
    /\ cmdList' = [p \in Positions |-> IF p \in FreeSlots THEN c ELSE cmdList[p]]
    /\ cmdPool' = [p \in DOMAIN cmdPool \cup FreeSlots |->
                      IF p \in FreeSlots THEN c ELSE cmdPool[p]]
    /\ \E last \in FreeSlots :
          /\ \A p \in FreeSlots : p <= last
          /\ ID' = [ID EXCEPT ![c] = last]
    /\ UNCHANGED maxListAmount

\* post() when all slots are taken: a new slot, and a new limit when the array
\* outgrows the old one.
PostToEnd(c) ==
    /\ ~Listed(c)
    /\ FreeSlots = {}
    /\ Len(cmdList) < MaxLen
    /\ LET p == Len(cmdList) + 1
       IN  /\ cmdList' = Append(cmdList, c)
           /\ cmdPool' = [q \in DOMAIN cmdPool \cup {p} |->
                             IF q = p THEN c ELSE cmdPool[q]]
           /\ maxListAmount' = IF p > maxListAmount THEN maxListAmount + 1
                                                    ELSE maxListAmount
           /\ ID' = [ID EXCEPT ![c] = p]

\* IDs that stop leading to a command when slot p changes hands.
Forget(p) == [d \in Cmd |-> IF ID[d] = p THEN None ELSE ID[d]]

\* Wrong on purpose, to see a property fail: only the pool is updated.
PutPool(p, c) ==
    /\ p \in DOMAIN cmdPool
    /\ ~Listed(c)
    /\ cmdPool' = [cmdPool EXCEPT ![p] = c]
    /\ ID' = Forget(p)
    /\ UNCHANGED <<cmdList, maxListAmount>>

\* put(): another command object takes the slot over.
Put(p, c) ==
    /\ p \in DOMAIN cmdPool
    /\ ~Listed(c)
    /\ cmdPool' = [cmdPool EXCEPT ![p] = c]
    /\ cmdList' = [cmdList EXCEPT ![p] = c]
    /\ ID' = Forget(p)
    /\ UNCHANGED maxListAmount

\* Wrong on purpose, to see a property fail: a key below the limit is cut out too; the
\* pool keeps the command.
DeleteCuts(p) ==
    /\ p \in DOMAIN cmdPool
    /\ cmdPool' = [q \in DOMAIN cmdPool \ {p} |-> cmdPool[q]]
    /\ cmdList' = IF p + 1 >= maxListAmount
                  THEN [q \in 1 .. Len(cmdList) - 1 |->
                           IF q < p THEN cmdList[q] ELSE cmdList[q + 1]]
                  ELSE [cmdList EXCEPT ![p] = Free]
    /\ ID' = Forget(p)
    /\ UNCHANGED maxListAmount

DeleteListOnly(p) ==
    /\ p \in DOMAIN cmdPool
    /\ cmdList' = IF p >= maxListAmount
                  THEN [q \in 1 .. Len(cmdList) - 1 |->
                           IF q < p THEN cmdList[q] ELSE cmdList[q + 1]]
                  ELSE [cmdList EXCEPT ![p] = Free]
    /\ ID' = Forget(p)
    /\ UNCHANGED <<cmdPool, maxListAmount>>

\* delete(): the slot is freed, and cut out of the array when its key has
\* reached the limit.
Delete(p) ==
    /\ p \in DOMAIN cmdPool
    /\ cmdPool' = [q \in DOMAIN cmdPool \ {p} |-> cmdPool[q]]
    /\ cmdList' = IF p >= maxListAmount
                  THEN [q \in 1 .. Len(cmdList) - 1 |->
                           IF q < p THEN cmdList[q] ELSE cmdList[q + 1]]
                  ELSE [cmdList EXCEPT ![p] = Free]
    /\ ID' = Forget(p)
    /\ UNCHANGED maxListAmount

Next ==
    \/ \E c \in Cmd : PostToFree(c) \/ PostToEnd(c)
    \/ \E p \in Positions, c \in Cmd : Put(p, c)
    \/ \E p \in Positions : Delete(p)

Spec == Init /\ [][Next]_vars

\* get(): what a client that asks for a slot is given.
Get(p) == IF p \in Positions THEN cmdList[p] ELSE "-1"

-----------------------------------------------------------------------------
(* Properties *)

\* Type invariant.
TypeOK ==
    /\ cmdList \in Seq(Cmd \cup {Free})
    /\ DOMAIN cmdPool \subseteq Positions
    /\ \A p \in DOMAIN cmdPool : cmdPool[p] \in Cmd
    /\ maxListAmount \in Nat \ {0}
    /\ ID \in [Cmd -> Nat \cup {None}]

\* The array never outgrows the limit, so that delete only ever cuts the last
\* slot and moves no other command to another key (cmdqueue.js:50-52, 90-93).
WithinLimit == Len(cmdList) <= maxListAmount

\* put() and delete() ask the pool, get() reads the array: the two always hold
\* the same commands under the same keys (cmdqueue.js:57-97).
PoolIsList ==
    /\ DOMAIN cmdPool = Positions \ FreeSlots
    /\ \A p \in DOMAIN cmdPool : cmdPool[p] = cmdList[p]

\* The ID a client was given leads to its command for as long as nobody deleted
\* or replaced the command under that ID, whatever was posted, replaced or
\* deleted elsewhere in the meantime (cmdqueue.js:11-24, 58-67).
IDLeadsToCommand == \A c \in Cmd : ID[c] # None => Get(ID[c]) = c

=============================================================================
