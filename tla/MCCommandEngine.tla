--------------------------- MODULE MCCommandEngine ---------------------------
(***************************************************************************)
(* Instances of CommandEngine for TLC.  The lists have the shapes the      *)
(* controllers use: a storage read, remote commands, a ":continue:" that   *)
(* may refuse, a command that answers at once, and ":again:" at the end.   *)
(* One step has several jobs, which the engine supports and which makes    *)
(* answers arrive in any order.                                            *)
(***************************************************************************)
EXTENDS CommandEngine

CONSTANTS read, post, copy, log, check, tell, again

OnceJobs  == {read, post, copy, log, check, tell}
OnceTodo  == <<<<read>>, <<post, copy, log>>, <<check>>, <<tell>>>>

AgainJobs == {read, post, copy, check, tell, again}
AgainTodo == <<<<read>>, <<post, copy>>, <<check>>, <<tell>>, <<again>>>>

MCKind ==
    [j \in Job |-> CASE j = read  -> "storage"
                     [] j = check -> "continue"
                     [] j = again -> "again"
                     [] OTHER     -> "command"]

MCProgress ==
    [j \in Job |-> CASE j = read -> [relative |-> TRUE,  amount |-> 60]
                     [] j = post -> [relative |-> TRUE,  amount |-> 50]
                     [] j = tell -> [relative |-> FALSE, amount |-> 20]
                     [] OTHER    -> [relative |-> TRUE,  amount |-> 10]]

MCSync == {tell}

LateFaults == {"refuse", "error"}

\* No callback, one, or two: queryDB calls back once for a failed connection
\* and again for the query that could not be sent, and supplierMonitor once per
\* machine.
ZeroToTwo == [j \in Job |-> {0, 1, 2}]
OneOrTwo  == [j \in Job |-> {1, 2}]
=============================================================================
