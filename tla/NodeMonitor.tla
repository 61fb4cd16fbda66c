------------------------------ MODULE NodeMonitor ------------------------------
(***************************************************************************)
(* Which machines of suppliers the center takes for online: the repeated   *)
(* command of controller/SupplierMonitorCollector.js, which asks every     *)
(* machine for /hwinfo (commands/iServStorage/supplierMonitor.js), the     *)
(* list of nodes in memory (modules/fileHealthy.js) and the column status  *)
(* of supplier_usage, by which machines are chosen for uploads.            *)
(*                                                                         *)
(* The first reply of a round reports the job done and so ends the round:  *)
(* todo starts at 0, so that finish() holds at once.  The other replies    *)
(* are late; they are stored, and they end the next round if it has begun. *)
(* The command itself, its turns and its timer are those of CommandEngine; *)
(* here a round is under way ("asking"), waits for the timer, or ended in  *)
(* an exception after which no timer is set ("stuck").                     *)
(*                                                                         *)
(* Machines are numbered by their id and each has one address.  They write *)
(* to the table themselves: they register (registerSupplier.js) and tell   *)
(* their status (supplierUpdateStatus.js).  No row is ever deleted, and    *)
(* updates of one row are executed in the order in which they were sent.   *)
(***************************************************************************)
EXTENDS Integers, Sequences, FiniteSets, SequencesExt

CONSTANTS
    Machine,       \* ids of the machines
    MaxOut,        \* BOUND: requests to one machine that are under way
    MaxIncidents   \* BOUND: machines that go up or down, register or tell their
                   \* status, unexpected replies, failed statements, requests
                   \* that replace myCommand and crashes of the center, together

ASSUME NodeMonitorAssumption ==
    /\ Machine \subseteq Nat
    /\ IsFiniteSet(Machine)
    /\ MaxOut \in Nat \ {0}
    /\ MaxIncidents \in Nat

VARIABLES
    alive,     \* whether a machine runs; if not, it refuses connections
    status,    \* supplier_usage.status, NoRow for a machine without a row
    updates,   \* updates of status that were sent and not executed
    told,      \* history: the last of them, or the row, is the machine's own
    nodes,     \* fileHealthy.nodes
    phase,     \* "asking", "waiting" for the timer, "stuck" or "off"
    ours,      \* whether the global myCommand is the command of the monitor
    lists,     \* selects of all machines that were sent and not answered
    sent,      \* requests that a machine has not answered
    replies,   \* answers on their way
    data,      \* data.data of the command: what a machine last reported
    age,       \* of that report: "late", "round" or "old", see MayIgnore
    stored,    \* whether ":read:" has found the data of an earlier round
    sure,      \* history: see NoFalseRemoval
    incidents

table   == <<status, updates, told>>
center  == <<nodes, phase, ours, lists, data, age, stored>>
network == <<sent, replies>>
vars    == <<alive, table, center, network, sure, incidents>>

NoRow == -1

\* Every round has an instance of the job.  That of the first round after a start
\* keeps an oldData that is undefined, as long as it hears replies.
Instance == {"first", "later"}

\* A machine answers "up", or 200 with a result that is not 1 ("odd"), or its
\* address refuses the connection ("down").
Word == {"up", "down", "odd"}

None == [m \in Machine |-> "none"]
Zero == [m \in Machine |-> [i \in Instance |-> 0]]
NoReplies == [m \in Machine |-> [i \in Instance |-> [w \in Word |-> 0]]]

Under(m, i) ==
    lists[i] + sent[m][i] + replies[m][i]["up"] + replies[m][i]["down"] + replies[m][i]["odd"]

Out(m) == Under(m, "first") + Under(m, "later")

Incident == incidents < MaxIncidents /\ incidents' = incidents + 1

-----------------------------------------------------------------------------
(* fileHealthy.js *)

\* The elements of S in order: the i-th has i elements up to itself.
Ascending(S) ==
    [i \in 1 .. Cardinality(S) |-> CHOOSE m \in S : Cardinality({k \in S : k <= m}) = i]

\* Wrong on purpose, to see a property fail: the machines are not looked for.
Added(list, S) == list \o Ascending(S)

\* addNode() for the machines of S.
AddNodes(list, S) == list \o Ascending(S \ ToSet(list))

\* Wrong on purpose, to see a property fail: only removals are written to the table.
UpdatesOff(old, new) ==
    [m \in Machine |-> updates[m] \o (IF m \in old \ new THEN <<0>> ELSE <<>>)]

\* onNode() and offNode(): one update for every machine that comes or goes.
Updates(old, new) ==
    [m \in Machine |-> updates[m] \o (IF m \in old \ new THEN <<0>>
                                      ELSE IF m \in new \ old THEN <<1>> ELSE <<>>)]

-----------------------------------------------------------------------------
(* The end of a round *)

\* The loop over the nodes removes those that did not report "up".  It goes by
\* index while removeNode() shortens the array, so it passes over the machine
\* behind one that it removes: of several in a row the first, the third and so on
\* go.
Removed(list, report) ==
    {i \in DOMAIN list : \E before \in 0 .. i - 1 :
        /\ (i - before) % 2 = 1
        /\ before = 0 \/ report[list[before]] = "up"
        /\ \A k \in before + 1 .. i : report[list[k]] # "up"}

Prune(list, report) ==
    LET left == Ascending(DOMAIN list \ Removed(list, report))
    IN  [i \in DOMAIN left |-> list[left[i]]]

\* The callback of the collector; of the updates the last is now the center's.
Review(report) ==
    /\ nodes' = AddNodes(Prune(nodes, report), {m \in Machine : report[m] = "up"})
    /\ updates' = Updates(ToSet(nodes), ToSet(nodes'))
    /\ told' = [m \in Machine |-> told[m] /\ updates'[m] = updates[m]]

-----------------------------------------------------------------------------
(* The command *)

\* Wrong on purpose, to see a property fail: every round begins without data.
AskAfresh ==
    /\ phase = "waiting"
    /\ \A m \in Machine : Out(m) < MaxOut
    /\ phase' = "asking"
    /\ lists' = [lists EXCEPT !["later"] = @ + 1]
    /\ data' = None
    /\ age' = [m \in Machine |-> "old"]
    /\ stored' = TRUE
    /\ UNCHANGED <<alive, table, nodes, ours, network, sure, incidents>>

\* The timer: ":read:", then the select of all machines.
Ask ==
    /\ phase = "waiting"
    /\ \A m \in Machine : Out(m) < MaxOut
    /\ phase' = "asking"
    /\ lists' = [lists EXCEPT !["later"] = @ + 1]
    /\ age' = [m \in Machine |-> IF age[m] = "late" THEN "round" ELSE "old"]
    /\ stored' = TRUE
    /\ UNCHANGED <<alive, table, nodes, ours, network, data, sure, incidents>>

\* The select returns, and every machine with a row is asked.
List(i) ==
    /\ lists[i] > 0
    /\ lists' = [lists EXCEPT ![i] = @ - 1]
    /\ sent' = [m \in Machine |->
                  IF status[m] = NoRow THEN sent[m] ELSE [sent[m] EXCEPT ![i] = @ + 1]]
    /\ UNCHANGED <<alive, table, nodes, phase, ours, replies, data, age,
                   stored, sure, incidents>>

\* The loop over the keys of the error throws, and nobody calls back.
FailList(i) ==
    /\ lists[i] > 0
    /\ Incident
    /\ lists' = [lists EXCEPT ![i] = @ - 1]
    /\ UNCHANGED <<alive, table, nodes, phase, ours, network, data, age,
                   stored, sure>>

\* A machine answers, or its address refuses the connection.
Respond(m, i) ==
    /\ sent[m][i] > 0
    /\ sent' = [sent EXCEPT ![m][i] = @ - 1]
    /\ replies' = [replies EXCEPT ![m][i][IF alive[m] THEN "up" ELSE "down"] = @ + 1]
    /\ UNCHANGED <<alive, table, center, sure, incidents>>

\* It answers 200 with a result that is not 1.
RespondOdd(m, i) ==
    /\ alive[m]
    /\ sent[m][i] > 0
    /\ Incident
    /\ sent' = [sent EXCEPT ![m][i] = @ - 1]
    /\ replies' = [replies EXCEPT ![m][i]["odd"] = @ + 1]
    /\ sure' = [sure EXCEPT ![m] = FALSE]
    /\ UNCHANGED <<alive, table, center>>

\* Any status but 200: writeMachineData() is called without its callback and
\* throws at the end.
BadReply(m, i) ==
    /\ alive[m]
    /\ sent[m][i] > 0
    /\ Incident
    /\ sent' = [sent EXCEPT ![m][i] = @ - 1]
    /\ UNCHANGED <<alive, table, center, replies, sure>>

\* Wrong on purpose, to see a property fail: the time is not looked at.
MayIgnoreAny(m) == stored /\ data[m] # "none"

\* A report is ignored while the one before it is younger than the period of the
\* monitor.  A round begins one period after the end of the last: at that moment
\* a report is "old" unless it came after that end ("late").
MayIgnore(m) == stored /\ data[m] # "none" /\ age[m] # "old"

\* The job is reported done: the round ends if it is under way.  Its callback reads
\* the global myCommand.  If that is another command its data.data is undefined: the
\* loop over the nodes throws, the exception skips repeat(), and the command will
\* not run again; without nodes both loops are empty.
Report(report) ==
    \/ /\ phase = "asking" /\ ours
       /\ Review(report)
       /\ phase' = "waiting"
    \/ /\ phase = "asking" /\ ~ours
       /\ phase' = IF nodes = <<>> THEN "waiting" ELSE "stuck"
       /\ UNCHANGED <<nodes, updates, told>>
    \/ /\ phase # "asking"
       /\ UNCHANGED <<nodes, updates, told, phase>>

\* What is there is put back and the job reported done; the instance of the first
\* round throws instead, as its oldData is undefined.
PutBack(i) ==
    \/ i = "later" /\ Report(data')
    \/ i = "first" /\ UNCHANGED <<nodes, updates, told, phase>>

\* Wrong on purpose, to see a property fail: a refusal is not stored.
HearNothing(m, w) ==
    /\ data' = [data EXCEPT ![m] = IF w = "up" THEN "up" ELSE @]
    /\ age'  = [age EXCEPT ![m] = IF phase = "asking" THEN "round" ELSE "late"]

\* writeMachineData(): an odd reply, and a refusal without data of an earlier
\* round, are stored as an object without status and timestamp.
Hear(m, w) ==
    /\ data' = [data EXCEPT ![m] = IF w = "up" THEN "up" ELSE "down"]
    /\ age'  = [age EXCEPT ![m] = IF w = "odd" \/ (w = "down" /\ ~stored) THEN "old"
                                  ELSE IF phase = "asking" THEN "round" ELSE "late"]

Take(m, i, w) ==
    /\ replies[m][i][w] > 0
    /\ replies' = [replies EXCEPT ![m][i][w] = @ - 1]

\* No reply of the machine that says other than "up" is on its way.
Clear(m) == \A i \in Instance : replies[m][i]["down"] = 0 /\ replies[m][i]["odd"] = 0

HearUp(m, i) ==
    /\ Take(m, i, "up")
    /\ \/ Hear(m, "up") /\ Report(data')
       \/ MayIgnore(m) /\ UNCHANGED <<data, age>> /\ PutBack(i)
    /\ sure' = [sure EXCEPT ![m] = alive[m] /\ data'[m] = "up" /\ Clear(m)]
    /\ UNCHANGED <<alive, status, ours, lists, sent, stored, incidents>>

HearOdd(m, i) ==
    /\ Take(m, i, "odd")
    /\ \/ Hear(m, "odd") /\ Report(data')
       \/ MayIgnore(m) /\ UNCHANGED <<data, age>> /\ PutBack(i)
    /\ UNCHANGED <<alive, status, ours, lists, sent, stored, sure, incidents>>

\* A refusal is stored before the time is looked at: its own timestamp is found,
\* so with data of an earlier round it is what is put back.
HearDown(m, i) ==
    /\ Take(m, i, "down")
    /\ Hear(m, "down")
    /\ IF stored THEN PutBack(i) ELSE Report(data')
    /\ UNCHANGED <<alive, status, ours, lists, sent, stored, sure, incidents>>

Heard(m, i) == HearUp(m, i) \/ HearOdd(m, i) \/ HearDown(m, i)

\* GET /dbdata, /diskhour and /test assign their command to the same global.
Replace ==
    /\ phase # "off"
    /\ ours
    /\ Incident
    /\ ours' = FALSE
    /\ UNCHANGED <<alive, table, nodes, phase, lists, data, age, stored, network, sure>>

-----------------------------------------------------------------------------
(* The table *)

\* The database executes an update of the status.
Update(m) ==
    /\ updates[m] # <<>>
    /\ status' = [status EXCEPT ![m] = Head(updates[m])]
    /\ updates' = [updates EXCEPT ![m] = Tail(@)]
    /\ UNCHANGED <<alive, told, center, network, sure, incidents>>

\* POST /manage/supplier/supplierUpdateStatus by the machine: the list of nodes is
\* not looked at.
Tell(m) ==
    /\ alive[m]
    /\ status[m] # NoRow
    /\ Incident
    /\ \E s \in {0, 1} : updates' = [updates EXCEPT ![m] = Append(@, s)]
    /\ told' = [told EXCEPT ![m] = TRUE]
    /\ UNCHANGED <<alive, status, center, network, sure>>

\* A machine registers; its row begins with status 1.
Register(m) ==
    /\ alive[m]
    /\ status[m] = NoRow
    /\ Incident
    /\ status' = [status EXCEPT ![m] = 1]
    /\ told' = [told EXCEPT ![m] = TRUE]
    /\ UNCHANGED <<alive, updates, center, network, sure>>

-----------------------------------------------------------------------------
(* Machines and the center go down and up *)

Flip(m) ==
    /\ Incident
    /\ alive' = [alive EXCEPT ![m] = ~@]
    /\ sure' = [sure EXCEPT ![m] = FALSE]
    /\ UNCHANGED <<table, center, network>>

\* The process ends: of the updates that were sent some are executed.
Crash ==
    /\ phase # "off"
    /\ Incident
    /\ phase' = "off"
    /\ ours' = FALSE
    /\ status' \in [Machine -> {NoRow, 0, 1}]
    /\ \A m \in Machine : status'[m] = status[m] \/ status'[m] \in ToSet(updates[m])
    /\ updates' = [m \in Machine |-> <<>>]
    /\ told' = [m \in Machine |-> FALSE]
    /\ nodes' = <<>>
    /\ lists' = [i \in Instance |-> 0]
    /\ sent' = Zero
    /\ replies' = NoReplies
    /\ data' = None
    /\ age' = [m \in Machine |-> "old"]
    /\ stored' = FALSE
    /\ sure' = [m \in Machine |-> FALSE]
    /\ UNCHANGED alive

\* fileHealthyFactory.js loads the machines whose status is 1, addNode() writes
\* the status again, and the monitor is started.
Boot ==
    /\ phase = "off"
    /\ nodes' = AddNodes(<<>>, {m \in Machine : status[m] = 1})
    /\ updates' = [m \in Machine |-> updates[m] \o IF status[m] = 1 THEN <<1>> ELSE <<>>]
    /\ told' = [m \in Machine |-> told[m] /\ status[m] # 1 /\ updates[m] # <<>>]
    /\ phase' = "asking"
    /\ ours' = TRUE
    /\ lists' = [lists EXCEPT !["first"] = 1]
    /\ UNCHANGED <<alive, status, data, age, stored, network, sure, incidents>>

Init ==
    /\ alive \in [Machine -> BOOLEAN]
    /\ status \in [Machine -> {NoRow, 0, 1}]
    /\ updates = [m \in Machine |-> <<>>]
    /\ told = [m \in Machine |-> FALSE]
    /\ nodes = <<>>
    /\ phase = "off"
    /\ ours = FALSE
    /\ lists = [i \in Instance |-> 0]
    /\ sent = Zero
    /\ replies = NoReplies
    /\ data = None
    /\ age = [m \in Machine |-> "old"]
    /\ stored = FALSE
    /\ sure = [m \in Machine |-> FALSE]
    /\ incidents = 0

Next ==
    \/ Boot
    \/ Ask
    \/ Replace
    \/ \E i \in Instance : List(i) \/ FailList(i)
    \/ \E m \in Machine, i \in Instance :
          \/ Respond(m, i) \/ RespondOdd(m, i) \/ BadReply(m, i)
          \/ Heard(m, i)
    \/ \E m \in Machine :
          \/ Update(m) \/ Tell(m) \/ Register(m)
          \/ Flip(m)
    \/ Crash

Spec == Init /\ [][Next]_vars

\* The center is started, its timer fires and its selects return; machines answer
\* or refuse, and what they send arrives.  Nothing is asked of the updates, and not
\* even that every request is answered or every reply heard.
Fairness ==
    /\ WF_vars(Boot \/ Ask \/ \E i \in Instance : List(i))
    /\ \A m \in Machine : WF_vars(\E i \in Instance : Respond(m, i) \/ Heard(m, i))

FairSpec == Spec /\ Fairness

-----------------------------------------------------------------------------
(* Properties *)

\* Type invariant; the nodes are a list without duplicates.
TypeOK ==
    /\ alive \in [Machine -> BOOLEAN]
    /\ status \in [Machine -> {NoRow, 0, 1}]
    /\ updates \in [Machine -> Seq({0, 1})]
    /\ told \in [Machine -> BOOLEAN]
    /\ nodes \in Seq(Machine) /\ IsInjective(nodes)
    /\ phase \in {"asking", "waiting", "stuck", "off"}
    /\ ours \in BOOLEAN
    /\ lists \in [Instance -> Nat]
    /\ sent \in [Machine -> [Instance -> Nat]]
    /\ replies \in [Machine -> [Instance -> [Word -> Nat]]]
    /\ data \in [Machine -> {"none", "up", "down"}]
    /\ age \in [Machine -> {"late", "round", "old"}]
    /\ stored \in BOOLEAN
    /\ sure \in [Machine -> BOOLEAN]
    /\ incidents \in 0 .. MaxIncidents

\* The table agrees with the list, except for what a machine wrote itself: when
\* the updates of a row are executed and the last of them was the center's, status
\* is 1 exactly if the machine is a node, also after a crash that lost some of them
\* and after a status of the machine's own that came in between
\* (fileHealthy.js:121-146, fileHealthyFactory.js:83-120).
StatusFollowsNodes ==
    phase # "off" => \A m \in Machine :
        updates[m] = <<>> /\ ~told[m] => (status[m] = 1 <=> m \in ToSet(nodes))

\* A machine that has reported "up", has run ever since and answered nothing else,
\* and of which no refusal from before is on its way, is not removed, whatever the
\* others report and however late, and whichever command the callback reads
\* (SupplierMonitorCollector.js:80-88: "no such node or node is crash").
NoFalseRemoval ==
    [][\A m \in Machine :
          sure[m] /\ m \in ToSet(nodes) /\ phase' # "off" => m \in ToSet(nodes')]_vars

\* Nothing that could end the round is on its way: no machine of it answered
\* well, or its select failed.  Only a restart of the center helps.
Stalled ==
    /\ phase = "asking"
    /\ lists = [i \in Instance |-> 0]
    /\ \A m \in Machine : Out(m) = 0

\* A machine that stays down leaves the list for good, although the loop passes
\* over it when it stands behind another that is removed, unless the monitor has
\* stopped: no answer can end its round, or its callback threw.
FailedNodeLeaves ==
    \A m \in Machine :
        <>[](~alive[m]) => <>[](Stalled \/ phase = "stuck" \/ m \notin ToSet(nodes))

\* A registered machine that stays up joins the list for good, although reports are
\* ignored and refusals from before arrive late, unless the monitor has stopped or
\* its callback reads another command.
RunningNodeJoins ==
    \A m \in Machine :
        <>[](alive[m] /\ status[m] # NoRow)
            => <>[](Stalled \/ ~ours \/ m \in ToSet(nodes))
=============================================================================
