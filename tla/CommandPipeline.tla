--------------------------- MODULE CommandPipeline ---------------------------
(***************************************************************************)
(* What a command promises to those who write its todoList, whatever the   *)
(* queue, the worker, the callbacks and the timer do: a job starts once    *)
(* per execution and only after all jobs of the earlier steps have         *)
(* finished, the command is done exactly when all of them have, and a      *)
(* stopped command starts nothing and stays stopped.                       *)
(***************************************************************************)
CONSTANTS
    Job,     \* the jobs
    Before   \* Before[j]: the jobs that must have finished when j starts

VARIABLES
    started, finished,  \* the jobs of this execution
    outcome             \* "doing", "done" or "stopped"

vars == <<started, finished, outcome>>

Init ==
    /\ started = {}
    /\ finished = {}
    /\ outcome = "doing"

MayStart(j) ==
    /\ outcome = "doing"
    /\ j \notin started
    /\ Before[j] \subseteq finished

\* The last report completes a command that was not stopped.
Finish(j) ==
    /\ finished' = finished \cup {j}
    /\ outcome' = IF finished' = Job /\ outcome = "doing" THEN "done" ELSE outcome

Start(j) ==
    /\ MayStart(j)
    /\ started' = started \cup {j}
    /\ UNCHANGED <<finished, outcome>>

Report(j) ==
    /\ j \in started \ finished
    /\ Finish(j)
    /\ UNCHANGED started

\* A job that reports at once.
StartAndReport(j) ==
    /\ MayStart(j)
    /\ started' = started \cup {j}
    /\ Finish(j)

Stop ==
    /\ outcome' = "stopped"
    /\ UNCHANGED <<started, finished>>

\* A repeated command starts over when everything has been done.
Again ==
    /\ finished = Job
    /\ started' = {}
    /\ finished' = {}
    /\ outcome' = IF outcome = "stopped" THEN "stopped" ELSE "doing"

Next ==
    \/ \E j \in Job : Start(j) \/ Report(j) \/ StartAndReport(j)
    \/ Stop
    \/ Again

Spec == Init /\ [][Next]_vars
=============================================================================
