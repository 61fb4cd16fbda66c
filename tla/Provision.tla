------------------------------- MODULE Provision -------------------------------
(***************************************************************************)
(* The choice of machines: commands that are posted to the registry and    *)
(* run `:read:', smartProvision and `:write:' on one counter, provisionNum *)
(* in the key-value store of the process.                                  *)
(*                                                                         *)
(* The counter is copied into the command before the query for machines    *)
(* and written back after it, so commands that are under way together see  *)
(* the same value.  An upload holds it even longer: its file is registered *)
(* between the choice and the write.                                       *)
(*                                                                         *)
(* Covered: fileUpload, metaPost and metaPut up to the choice, both        *)
(* controllers of SmartProvision.js, failing queries, machines that appear *)
(* and disappear.  Left out: what the other jobs do (FileMeta has them).   *)
(***************************************************************************)
EXTENDS CmdQueue, FiniteSets, Functions

CONSTANTS
    Machine,        \* machines of suppliers
    Replication,    \* fileStrategy.replication
    MaxPn           \* BOUND: no command reads a larger counter

ASSUME ProvisionAssumption ==
    /\ IsFiniteSet(Machine)
    /\ None \notin Machine
    /\ Replication \in Nat \ {0}
    /\ MaxPn \in Nat

VARIABLES
    provisionNum,   \* the counter in the store
    rows,           \* the machines with status 1, in the order of the table
    pc,             \* what each command object waits for
    request,        \* what it was made for
    pn,             \* its copy of the counter
    supplierInfo,   \* the machines an upload has chosen
    alone,          \* ghost: no other command was under way since it read pn
    times           \* ghost: how often each machine was chosen, see Write

provVars == <<vars, provisionNum, rows, pc, request, pn, supplierInfo, alone, times>>

\* The requests of the controllers: avoid is the machine that asks, whose own
\* address its selection leaves out; selectsNum 0 stands for undefined, too.
Requests ==
    {[kind |-> k, selectsNum |-> 0, avoid |-> None] : k \in {"upload", "meta"}}
    \cup {[kind |-> "copies", selectsNum |-> Replication, avoid |-> None]}
    \cup {[kind |-> "copies", selectsNum |-> Replication - 1, avoid |-> m] : m \in Machine}

Never == [m \in Machine |-> 0]
Idle == [kind |-> "none", selectsNum |-> 0, avoid |-> None]

ProvInit ==
    /\ Init
    /\ provisionNum = 0
    /\ rows \in {s \in [1 .. Cardinality(Machine) -> Machine] :
                    IsInjective(s)}
    /\ pc = [c \in Cmd |-> "idle"]
    /\ request = [c \in Cmd |-> Idle]
    /\ pn = [c \in Cmd |-> 0]
    /\ supplierInfo = [c \in Cmd |-> <<>>]
    /\ alone = [c \in Cmd |-> TRUE]
    /\ times = Never

\* Commands between `:read:' and `:write:'.
UnderWay == {c \in Cmd : pc[c] \in {"select", "send"}}

-----------------------------------------------------------------------------
(* Jobs *)

\* `:read:', and the query of smartProvision that execute() starts with it.
Read(c) ==
    /\ provisionNum <= MaxPn
    /\ pn' = [pn EXCEPT ![c] = provisionNum]
    /\ pc' = [pc EXCEPT ![c] = "select"]
    /\ alone' = [d \in Cmd |-> IF d = c THEN UnderWay = {}
                                        ELSE alone[d] /\ d \notin UnderWay]
    /\ UNCHANGED <<provisionNum, supplierInfo, times>>

\* The rows of the query: the row of the asking machine is left out, if it has one.
Found(c) ==
    LET own == {p \in DOMAIN rows : rows[p] = request[c].avoid}
    IN  IF own = {} THEN rows
        ELSE LET p == CHOOSE p \in own : TRUE
             IN  SubSeq(rows, 1, p - 1) \o SubSeq(rows, p + 1, Len(rows))

HowMany(c) == IF request[c].selectsNum = 0 THEN 1 ELSE request[c].selectsNum

\* Wrong on purpose, to see a property fail: the counter moves once per query.
ChosenAtOnce(c) ==
    [i \in 1 .. HowMany(c) |-> Found(c)[(pn[c] % Len(Found(c))) + 1]]

\* The machines the loop of smartProvision picks, one turn of the counter each.
Chosen(c) ==
    [i \in 1 .. HowMany(c) |-> Found(c)[((pn[c] + i - 1) % Len(Found(c))) + 1]]

\* The command has run; the next request of a client makes a new object.
Ends(c) ==
    /\ pc' = [pc EXCEPT ![c] = "idle"]
    /\ request' = [request EXCEPT ![c] = Idle]
    /\ pn' = [pn EXCEPT ![c] = 0]
    /\ supplierInfo' = [supplierInfo EXCEPT ![c] = <<>>]
    /\ alone' = [alone EXCEPT ![c] = TRUE]

\* Wrong on purpose, to see a property fail: the counter goes back unchanged.
WriteOld(c, value, chosen) ==
    /\ provisionNum' = pn[c]
    /\ times' = IF alone[c] /\ request[c].avoid = None
                THEN [m \in Machine |-> times[m] +
                         Cardinality({i \in DOMAIN chosen : chosen[i] = m})]
                ELSE Never
    /\ Ends(c)

\* `:write:'.  The ghost counts the choices of commands that ran alone and left
\* no machine out; a write of any other command starts the count afresh.
Write(c, value, chosen) ==
    /\ provisionNum' = value
    /\ times' = IF alone[c] /\ request[c].avoid = None
                THEN [m \in Machine |-> times[m] +
                         Cardinality({i \in DOMAIN chosen : chosen[i] = m})]
                ELSE Never
    /\ Ends(c)

-----------------------------------------------------------------------------
(* Actions *)

\* fileUpload, metaPost and metaPut post their command; an upload without a file
\* is never run.
Submit(c, r) ==
    /\ pc[c] = "idle" /\ r.kind \in {"upload", "meta"}
    /\ PostToFree(c) \/ PostToEnd(c)
    /\ \/ /\ r.kind = "upload"
          /\ request' = [request EXCEPT ![c] = r]
          /\ Read(c)
       \/ /\ r.kind = "meta"
          /\ request' = [request EXCEPT ![c] = r]
          /\ pc' = [pc EXCEPT ![c] = "meta"]
          /\ UNCHANGED <<provisionNum, pn, supplierInfo, alone, times>>
       \/ /\ r.kind = "upload"
          /\ UNCHANGED <<provisionNum, pc, request, pn, supplierInfo, alone, times>>
    /\ UNCHANGED rows

\* getReplication and getSupplierPath run a command they do not post.
AskCopies(c, r) ==
    /\ pc[c] = "idle" /\ ~Listed(c) /\ r.kind = "copies"
    /\ request' = [request EXCEPT ![c] = r]
    /\ Read(c)
    /\ UNCHANGED <<vars, rows>>

\* metaPost or metaPut calls back and `:continue:check' goes on to `:read:', or
\* refuses, which ends the command, as does an error.
MetaDone(c) ==
    /\ pc[c] = "meta"
    /\ \/ Read(c) /\ UNCHANGED request
       \/ Ends(c) /\ UNCHANGED <<provisionNum, times>>
    /\ UNCHANGED <<vars, rows>>

\* The query answers.  Only an upload has a job before its `:write:'.
Select(c) ==
    /\ pc[c] = "select" /\ Found(c) # <<>>
    /\ \/ /\ request[c].kind = "upload"
          /\ supplierInfo' = [supplierInfo EXCEPT ![c] = Chosen(c)]
          /\ pn' = [pn EXCEPT ![c] = pn[c] + HowMany(c)]
          /\ pc' = [pc EXCEPT ![c] = "send"]
          /\ UNCHANGED <<provisionNum, request, alone, times>>
       \/ /\ request[c].kind # "upload"
          /\ Write(c, pn[c] + HowMany(c), Chosen(c))
    /\ UNCHANGED <<vars, rows>>

\* The query fails or finds no machine: "no space"; pn is written as it was read.
SelectNone(c) ==
    /\ pc[c] = "select"
    /\ Write(c, pn[c], <<>>)
    /\ UNCHANGED <<vars, rows>>

\* The job fileUpload calls back, or fails and leaves the command where it is.
Sent(c) ==
    /\ pc[c] = "send"
    /\ \/ Write(c, pn[c], supplierInfo[c])
       \/ Ends(c) /\ UNCHANGED <<provisionNum, times>>
    /\ UNCHANGED <<vars, rows>>

\* put() and delete() of the registry, which do not touch a running command.
Registry ==
    /\ \/ \E p \in Positions : Delete(p)
       \/ \E p \in Positions, c \in Cmd : pc[c] = "idle" /\ Put(p, c)
    /\ UNCHANGED <<provisionNum, rows, pc, request, pn, supplierInfo, alone, times>>

\* Environment: machines come, go and change places in the table.  Choices from
\* different rows cannot be compared, so the ghosts start afresh.
Change ==
    /\ rows' \in {s \in UNION {[1 .. n -> Machine] : n \in 0 .. Cardinality(Machine)} :
                     IsInjective(s)}
    /\ rows' # rows
    /\ times' = Never
    /\ alone' = [c \in Cmd |-> c \notin UnderWay]
    /\ UNCHANGED <<vars, provisionNum, pc, request, pn, supplierInfo>>

ProvNext ==
    \/ \E c \in Cmd, r \in Requests : Submit(c, r) \/ AskCopies(c, r)
    \/ \E c \in Cmd : MetaDone(c) \/ Select(c) \/ SelectNone(c) \/ Sent(c)
    \/ Registry
    \/ Change

ProvSpec == ProvInit /\ [][ProvNext]_provVars

-----------------------------------------------------------------------------
(* Properties *)

\* As long as commands choose one after the other from the same machines, none
\* of which is left out, no machine is chosen twice more than another, even when
\* queries fail and refused commands never come to choose (smartProvision.js:24-42,
\* Worker.js:37-65).
Balanced == \A i, j \in DOMAIN rows : times[rows[i]] <= times[rows[j]] + 1

\* The machines of one choice are different as long as there are enough of them,
\* whatever other commands do to the counter (smartProvision.js:36-42): two
\* copies on one machine would not survive it.
DistinctCopies ==
    \A c \in Cmd : pc[c] = "select" /\ Found(c) # <<>> =>
        \/ IsInjective(Chosen(c))
        \/ HowMany(c) > Len(Found(c))
=============================================================================
