---------------------------- MODULE CommandEngine ----------------------------
(***************************************************************************)
(* One command of the center and the Worker that runs it: the state of     *)
(* modules/command.js and the callbacks of roles/Worker.js.                *)
(*                                                                         *)
(* Node runs one callback at a time.  A call of execute() drains jobQueue  *)
(* before anything else can run, and a done() that loads the next step     *)
(* calls execute() again from inside; the nested loops are flattened into  *)
(* one: while queued > 0 only the steps of that turn are enabled, and the  *)
(* answers of commands, the timer and the operator wait for queued = 0.    *)
(*                                                                         *)
(* jobQueue is a copy of todoList[step] that is only ever popped at its    *)
(* end, so it is represented by its length, queued.                        *)
(***************************************************************************)
EXTENDS Integers, Sequences, FiniteSets

CONSTANTS
    Job,       \* the job objects of the command
    Todo,      \* todoList: a sequence of steps, each a sequence of jobs
    Kind,      \* what a job's command string names, see JobKinds
    Progress,  \* job.progress: "+n" is relative, "n" absolute
    Answers,   \* how often an asynchronous command may call back, per job
    Sync,      \* the jobs whose command calls back before execute() returns
    Faults,    \* what may go wrong in this instance, see FaultKinds
    MayStop,   \* whether DELETE /command/ID may arrive
    MaxRounds  \* BOUND: executions of a repeated command that are explored

\* The result codes of the header of command.js.
Failed  == 0
Succeed == 1
Doing   == 101
Paused  == 102
Stopped == 103
Losed   == 104

JobKinds   == {"again", "continue", "storage", "command"}
FaultKinds == {"throw", "error", "errorAnswer", "callback", "refuse"}

Steps == 1 .. Len(Todo)
JobsOf(s) == {Todo[s][i] : i \in 1 .. Len(Todo[s])}
\* Every literal of a todoList is an object of its own.
DistinctJobs ==
    \A s, t \in Steps : \A i \in 1 .. Len(Todo[s]), k \in 1 .. Len(Todo[t]) :
        Todo[s][i] = Todo[t][k] => s = t /\ i = k

ASSUME TodoAssumption ==
    /\ Todo \in Seq(Seq(Job))
    /\ Len(Todo) > 0
    /\ \A s \in Steps : Len(Todo[s]) > 0
    /\ DistinctJobs
    /\ \A j \in Job : \E s \in Steps : j \in JobsOf(s)

ASSUME JobAssumption ==
    /\ Kind \in [Job -> JobKinds]
    /\ Progress \in [Job -> [relative : BOOLEAN, amount : 0 .. 100]]
    /\ Answers \in [Job -> SUBSET Nat]
    /\ Sync \subseteq Job
    /\ Faults \subseteq FaultKinds
    /\ MayStop \in BOOLEAN
    /\ MaxRounds \in Nat \ {0}

VARIABLES
    result, step, doing, queued, progress,  \* command.js
    erred,    \* error list of the command is not empty
    redo, waiting,                          \* Worker.js; waiting: the timer is set
    owed,     \* callbacks that this round's call of a job may still make
    stale,    \* callbacks still to come from calls of earlier rounds
    replies,  \* times the client's callback ran in this round
    heard,    \* history: the jobs whose call of this round has answered
    lost,     \* history: the jobs whose call of this round never will
    round     \* history: executions of todoList so far

command == <<result, step, doing, queued, progress>>
worker  == <<redo, waiting>>
network == <<owed, stale>>
vars    == <<command, erred, worker, network, replies, heard, lost, round>>

-----------------------------------------------------------------------------
(* command.js *)

\* Wrong on purpose, to see a property fail: the cap is missing.
Uncapped(j) ==
    IF Progress[j].relative THEN progress + Progress[j].amount ELSE Progress[j].amount

\* setProgress of a finished job: add, or replace, then cap.
SetProgress(j) ==
    LET sum == IF Progress[j].relative THEN progress + Progress[j].amount
                                       ELSE Progress[j].amount
    IN  IF sum > 100 THEN 100 ELSE sum

\* Wrong on purpose, to see a property fail: the next step does not wait for the
\* jobs that are being done; a stopped command loads; a finished command finishes
\* again; the last step is taken for one more, or for one fewer.
LoadsEarly(st, dn)     == result # Stopped /\ st < Len(Todo)
LoadsStopped(st, dn)   == st < Len(Todo) /\ dn = {}
FinishesAgain(st, dn)  == result # Stopped /\ st >= Len(Todo) /\ dn = {}
FinishesNever(st, dn)  == result \notin {Stopped, Succeed} /\ st > Len(Todo) /\ dn = {}
FinishesEarly(st, dn)  == result \notin {Stopped, Succeed} /\ st >= Len(Todo) - 1 /\ dn = {}

\* The two branches of nextStep() that change the command, for a command at
\* step st of which dn is still being done.
Loads(st, dn)    == result # Stopped /\ st < Len(Todo) /\ dn = {}
Finishes(st, dn) == result \notin {Stopped, Succeed} /\ st >= Len(Todo) /\ dn = {}

\* Wrong on purpose, to see a property fail: the result is not set to "doing".
LoadStepSilently(st) ==
    /\ step' = st + 1
    /\ doing' = JobsOf(st + 1)
    /\ queued' = Len(Todo[st + 1])
    /\ UNCHANGED result

\* The first of them: doingList and jobQueue become copies of todoList[st].
LoadStep(st) ==
    /\ result' = Doing
    /\ step' = st + 1
    /\ doing' = JobsOf(st + 1)
    /\ queued' = Len(Todo[st + 1])

-----------------------------------------------------------------------------
(* Worker.js *)

\* The client's callback runs; in an instance with the "callback" fault it may
\* throw, and then whatever follows it in complete() or uncomplete() is skipped.
Reply(ok) ==
    /\ ok \/ "callback" \in Faults
    /\ replies' = replies + 1

\* Wrong on purpose, to see a property fail: repeat() is forgotten.
CompleteOnly(again, inTurn, err) ==
    \E ok \in BOOLEAN :
        /\ Reply(ok)
        /\ redo' = again
        /\ erred' = (erred \/ err \/ (inTurn /\ ~ok))
        /\ UNCHANGED waiting

\* done() after command.done() returned 1: complete(), then repeat() if :again:
\* was seen.  An exception of the callback that is thrown inside a turn is
\* recorded by the try of execute() or privateFunc().
Complete(again, inTurn, err) ==
    \E ok \in BOOLEAN :
        /\ Reply(ok)
        /\ redo' = (again /\ ~ok)
        /\ waiting' = (waiting \/ (again /\ ok))
        /\ erred' = (erred \/ err \/ (inTurn /\ ~ok))

\* done(err, j): the job leaves doingList, then nextStep() decides.  q jobs are
\* left in jobQueue, again is the redo flag, inTurn whether execute() is running.
Done(j, q, again, inTurn, err) ==
    LET rest  == doing \ {j}
        shown == IF j \in doing THEN SetProgress(j) ELSE progress
    IN  \/ /\ Loads(step, rest)
           /\ LoadStep(step)
           /\ progress' = shown
           /\ redo' = again
           /\ erred' = (erred \/ err)
           /\ UNCHANGED <<waiting, replies>>
        \/ /\ Finishes(step, rest)
           /\ result' = Succeed
           /\ progress' = 100
           /\ doing' = rest
           /\ queued' = q
           /\ Complete(again, inTurn, err)
           /\ UNCHANGED step
        \/ /\ ~Loads(step, rest) /\ ~Finishes(step, rest)
           /\ doing' = rest
           /\ queued' = q
           /\ progress' = shown
           /\ redo' = again
           /\ erred' = (erred \/ err)
           /\ UNCHANGED <<result, step, waiting, replies>>

\* Wrong on purpose, to see a property fail: getJob() always hands out the first job.
FirstJob == Todo[step][1]

\* The job that getJob() pops next.
NextJob == Todo[step][queued]

\* privateFunc() of ":read:", ":write:", ":again:" and of a ":continue:" whose
\* key holds, and a command that calls back at once: the job runs and reports
\* inside the turn.
RunToEnd ==
    /\ queued > 0
    /\ LET j == NextJob
       IN  /\ Kind[j] # "command" \/ j \in Sync
           /\ Done(j, queued - 1, redo \/ Kind[j] = "again", TRUE, FALSE)
           /\ heard' = heard \cup {j}
    /\ UNCHANGED <<network, lost, round>>

\* ":continue:key" with no value under key: uncomplete() answers the client and
\* throws, so that done() is never called and the job stays in doingList.
Refuse ==
    /\ queued > 0
    /\ "refuse" \in Faults
    /\ Kind[NextJob] = "continue"
    /\ \E ok \in BOOLEAN : Reply(ok) /\ erred' = (erred \/ ~ok)
    /\ queued' = queued - 1
    /\ lost' = lost \cup {NextJob}
    /\ UNCHANGED <<result, step, doing, progress, worker, network, heard, round>>

\* A command goes out and will call back n times; 0 is a callback that never
\* comes (an exception in a later callback, which app.js swallows).
Dispatch ==
    /\ queued > 0
    /\ LET j == NextJob
       IN  /\ Kind[j] = "command" /\ j \notin Sync
           /\ \E n \in Answers[j] :
                /\ owed' = [owed EXCEPT ![j] = n]
                /\ lost' = IF n = 0 THEN lost \cup {j} ELSE lost
    /\ queued' = queued - 1
    /\ UNCHANGED <<result, step, doing, progress, erred, worker, stale,
                   replies, heard, round>>

\* The job throws before it called back: the catch of execute() or
\* privateFunc() records the error and the loop goes on.
Throw ==
    /\ queued > 0
    /\ "throw" \in Faults
    /\ Kind[NextJob] \in {"command", "storage"}
    /\ erred' = TRUE
    /\ queued' = queued - 1
    /\ lost' = lost \cup {NextJob}
    /\ UNCHANGED <<result, step, doing, progress, worker, network, replies,
                   heard, round>>

-----------------------------------------------------------------------------
(* Between turns *)

\* Whether a callback with the job also brings an error.
ErrFlags == {FALSE, "errorAnswer" \in Faults}

\* _callback(err, job), err usually false, from this round's call of j.
Answer(j) ==
    /\ queued = 0
    /\ owed[j] > 0
    /\ owed' = [owed EXCEPT ![j] = @ - 1]
    /\ \E err \in ErrFlags : Done(j, 0, redo, FALSE, err)
    /\ heard' = heard \cup {j}
    /\ UNCHANGED <<stale, lost, round>>

\* The same from a call of an earlier round.  The job object is the same in
\* every round, so the late callback counts for the round that is running.
LateAnswer(j) ==
    /\ queued = 0
    /\ stale[j] > 0
    /\ stale' = [stale EXCEPT ![j] = @ - 1]
    /\ \E err \in ErrFlags : Done(j, 0, redo, FALSE, err)
    /\ UNCHANGED <<owed, heard, lost, round>>

\* _callback(err) without the job: the error is recorded and nothing else.
ErrorAnswer(j) ==
    /\ queued = 0
    /\ "error" \in Faults
    /\ \/ /\ owed[j] > 0
          /\ owed' = [owed EXCEPT ![j] = @ - 1]
          /\ lost' = IF owed[j] = 1 /\ j \in doing THEN lost \cup {j} ELSE lost
          /\ UNCHANGED stale
       \/ /\ stale[j] > 0
          /\ stale' = [stale EXCEPT ![j] = @ - 1]
          /\ UNCHANGED <<owed, lost>>
    /\ erred' = TRUE
    /\ UNCHANGED <<command, worker, replies, heard, round>>

\* The timer of wait(): cleanLog(), toStep(0) and execute().
FireTimer ==
    /\ queued = 0
    /\ waiting
    /\ round < MaxRounds
    /\ waiting' = FALSE
    /\ \/ /\ Loads(0, doing)
          /\ LoadStep(0)
       \/ /\ ~Loads(0, doing)
          /\ step' = IF doing = {} THEN 0 ELSE step
          /\ UNCHANGED <<result, doing, queued>>
    /\ round' = round + 1
    /\ stale' = [j \in Job |-> stale[j] + owed[j]]
    /\ owed' = [j \in Job |-> 0]
    /\ replies' = 0
    /\ heard' = {}
    /\ lost' = {}
    /\ UNCHANGED <<progress, erred, redo>>

\* DELETE /command/ID: CommandOperator.delete calls stop() of the command.
Stop ==
    /\ queued = 0
    /\ MayStop
    /\ result' = Stopped
    /\ UNCHANGED <<step, doing, queued, progress, erred, worker, network,
                   replies, heard, lost, round>>

\* After init() of a command and assign() and execute() of its worker: the
\* first step is loaded and the first turn is running.
Init ==
    /\ result = Doing
    /\ step = 1
    /\ doing = JobsOf(1)
    /\ queued = Len(Todo[1])
    /\ progress = 0
    /\ erred = FALSE
    /\ redo = FALSE
    /\ waiting = FALSE
    /\ owed = [j \in Job |-> 0]
    /\ stale = [j \in Job |-> 0]
    /\ replies = 0
    /\ heard = {}
    /\ lost = {}
    /\ round = 1

Turn == RunToEnd \/ Dispatch \/ Refuse \/ Throw

Next ==
    \/ RunToEnd
    \/ Refuse
    \/ Dispatch
    \/ Throw
    \/ \E j \in Job : Answer(j) \/ LateAnswer(j) \/ ErrorAnswer(j)
    \/ FireTimer
    \/ Stop

Spec == Init /\ [][Next]_vars

\* Node goes on with a turn until it ends, a set timer fires, and a callback
\* that will be made is made in the end.
Fairness ==
    /\ WF_vars(Turn)
    /\ WF_vars(FireTimer)
    /\ \A j \in Job : WF_vars(Answer(j)) /\ WF_vars(LateAnswer(j))

FairSpec == Spec /\ Fairness

-----------------------------------------------------------------------------
(* Properties *)

\* Type invariant.
TypeOK ==
    /\ result \in {Succeed, Doing, Stopped}
    /\ step \in 0 .. Len(Todo)
    /\ doing \subseteq Job
    /\ queued \in Nat
    /\ progress \in 0 .. 100
    /\ erred \in BOOLEAN
    /\ redo \in BOOLEAN
    /\ waiting \in BOOLEAN
    /\ owed \in [Job -> Nat]
    /\ stale \in [Job -> Nat]
    /\ replies \in Nat
    /\ heard \subseteq Job
    /\ lost \subseteq Job
    /\ round \in Nat \ {0}

\* The jobs of the current step that getJob() has not handed out yet, and all
\* that it has handed out in this execution of the list.
Undispatched == {Todo[step][i] : i \in 1 .. queued}
Reached      == UNION {JobsOf(s) : s \in 1 .. step}
Dispatched   == Reached \ Undispatched

Outcome == CASE result = Doing   -> "doing"
             [] result = Succeed -> "done"
             [] OTHER            -> "stopped"

Pipeline == INSTANCE CommandPipeline
                WITH Before   <- [j \in Job |-> {k \in Job : \E s, t \in Steps :
                                    s < t /\ k \in JobsOf(s) /\ j \in JobsOf(t)}],
                     started  <- Dispatched,
                     finished <- Reached \ doing,
                     outcome  <- Outcome

\* The engine implements the pipeline of its jobs.
PipelineSpec == Pipeline!Spec

\* A command goes to its next step, and to "succeed", only when every job of the
\* steps before has called back in this very execution of the list
\* (command.js:44-76).  It needs commands that call back at most once: a second
\* callback of an earlier execution would count for this one.
StepBarrier ==
    /\ \A s \in 1 .. step - 1 : JobsOf(s) \subseteq heard
    /\ result = Succeed => heard = Job

\* The client is answered once per execution: when the command succeeds, or when
\* a ":continue:" refused, and by nothing else (Worker.js:75-88, 189-197).
AnsweredOnce ==
    /\ replies <= 1
    /\ result = Succeed => replies = 1
    /\ result = Doing =>
          (replies = 1 <=> \E j \in Dispatched \cap doing : Kind[j] = "continue")

\* A command that is neither done nor stopped waits for something: each job it
\* has not ticked off is still queued, or has a callback to come, or is lost for
\* one of the reasons the model names (no job is dropped between getJob() and
\* done()).
NoJobDropped ==
    \A j \in doing : j \in Undispatched \/ owed[j] > 0 \/ j \in lost

\* When a command has succeeded its progress reads 100, and a callback that
\* arrives afterwards does not move it (command.js:77-104, 180-189).
FullProgress == result = Succeed => progress = 100

\* DELETE /command/ID is final: no step is loaded, no job is handed out and no
\* callback or timer brings the command back (command.js:45-49, 211-213).
StopIsFinal ==
    [][result = Stopped => /\ result' = Stopped
                           /\ queued' = 0
                           /\ \A j \in Job : owed'[j] <= owed[j]]_vars

\* What may keep an execution from its end: a DELETE, and a job whose callback
\* never comes.
Halted == result = Stopped \/ lost # {}

\* Every execution of the list ends with the client answered unless it is
\* halted: the command succeeds, or a ":continue:" refused (Worker.js:75-88,
\* 186-197).
Completes ==
    \A r \in 1 .. MaxRounds :
        round = r ~> round = r /\ (replies = 1 \/ Halted)

\* A repeated command is started again after every execution that is not halted
\* (Worker.js:123-130).
Repeats ==
    \A r \in 1 .. MaxRounds - 1 : round = r ~> round = r + 1 \/ Halted

=============================================================================
