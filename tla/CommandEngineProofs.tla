------------------------- MODULE CommandEngineProofs -------------------------
(***************************************************************************)
(* What CommandEngine guarantees for every todoList, every set of faults   *)
(* and every number of callbacks.                                          *)
(***************************************************************************)
EXTENDS CommandEngine, TLAPS

\* What TodoAssumption says of the steps and their jobs.
LEMMA TodoFacts ==
    /\ Len(Todo) \in Nat \ {0}
    /\ \A s \in Steps : /\ Len(Todo[s]) \in Nat \ {0}
                        /\ JobsOf(s) \subseteq Job
                        /\ \A i \in 1 .. Len(Todo[s]) : Todo[s][i] \in JobsOf(s)
BY TodoAssumption DEF Steps, JobsOf

\* Popping one more job removes exactly that job from those not handed out.
LEMMA PopFacts ==
    ASSUME NEW s \in Steps, NEW q \in 1 .. Len(Todo[s])
    PROVE  /\ Todo[s][q] \notin {Todo[s][i] : i \in 1 .. q - 1}
           /\ {Todo[s][i] : i \in 1 .. q} =
                  {Todo[s][i] : i \in 1 .. q - 1} \cup {Todo[s][q]}
<1>1. Len(Todo[s]) \in Nat
  BY TodoFacts
<1>2. \A i \in 1 .. q - 1 : i \in 1 .. Len(Todo[s]) /\ i # q
  BY <1>1
<1>3. \A i \in 1 .. q : i \in 1 .. q - 1 \/ i = q
  BY <1>1
<1>4. Todo[s][q] \notin {Todo[s][i] : i \in 1 .. q - 1}
  BY <1>2, TodoAssumption DEF DistinctJobs
<1>5. {Todo[s][i] : i \in 1 .. q} =
          {Todo[s][i] : i \in 1 .. q - 1} \cup {Todo[s][q]}
  BY <1>1, <1>3
<1> QED
  BY <1>4, <1>5

-----------------------------------------------------------------------------
\* The shape of a command: the queue and doingList belong to the current step,
\* a job not handed out is still in doingList, and a command that is stopped,
\* has succeeded or waits for its timer has nothing queued.
Shape ==
    /\ step = 0 => result = Stopped /\ doing = {}
    /\ step > 0 => /\ doing \subseteq JobsOf(step)
                   /\ queued <= Len(Todo[step])
                   /\ Undispatched \subseteq doing
    /\ result # Doing => queued = 0
    /\ result = Succeed => step = Len(Todo) /\ doing = {}
    /\ waiting => result # Doing /\ doing = {}

TypedShape == TypeOK /\ Shape

LEMMA ProgressTyped ==
    ASSUME TypeOK, NEW j \in Job
    PROVE  SetProgress(j) \in 0 .. 100
<1>1. Progress[j].amount \in 0 .. 100
  BY JobAssumption
<1>2. progress \in 0 .. 100
  BY DEF TypeOK
<1>3. \A sum \in Nat : (IF sum > 100 THEN 100 ELSE sum) \in 0 .. 100
  OBVIOUS
<1>4. (IF Progress[j].relative THEN progress + Progress[j].amount
                              ELSE Progress[j].amount) \in Nat
  <2>1. progress + Progress[j].amount \in Nat /\ Progress[j].amount \in Nat
    BY <1>1, <1>2
  <2> QED
    BY <2>1, Zenon
<1> QED
  BY <1>3, <1>4, Zenon DEF SetProgress

LEMMA ErrFlagsTyped == ErrFlags \subseteq BOOLEAN
BY DEF ErrFlags

\* done() keeps the command well typed and well shaped.
LEMMA DoneKeepsShape ==
    ASSUME TypedShape, NEW j \in Job, NEW q \in Nat,
           NEW again \in BOOLEAN, NEW inTurn \in BOOLEAN, NEW err \in BOOLEAN,
           Done(j, q, again, inTurn, err),
           \/ q = queued /\ queued = 0
           \/ q = queued - 1 /\ queued > 0 /\ j = NextJob
    PROVE  /\ result' \in {Succeed, Doing, Stopped}
           /\ step' \in 0 .. Len(Todo)
           /\ doing' \subseteq Job
           /\ queued' \in Nat
           /\ progress' \in 0 .. 100
           /\ erred' \in BOOLEAN
           /\ redo' \in BOOLEAN
           /\ waiting' \in BOOLEAN
           /\ replies' \in Nat
           /\ Shape'
<1> DEFINE rest  == doing \ {j}
           shown == IF j \in doing THEN SetProgress(j) ELSE progress
<1> USE DEF TypedShape
<1>1. shown \in 0 .. 100
  BY ProgressTyped DEF TypeOK
<1>2. Len(Todo) \in Nat \ {0} /\ step \in 0 .. Len(Todo)
  BY TodoFacts DEF TypeOK
<1>3. CASE Loads(step, rest) /\ LoadStep(step) /\ progress' = shown
           /\ redo' = again /\ erred' = (erred \/ err) /\ UNCHANGED <<waiting, replies>>
  <2>1. step + 1 \in Steps
    BY <1>2, <1>3 DEF Loads, Steps
  <2>2. /\ Len(Todo[step + 1]) \in Nat
        /\ JobsOf(step + 1) \subseteq Job
    BY <2>1, TodoFacts
  <2>3. ~waiting
    <3>1. waiting => result = Succeed
      BY <1>3 DEF Shape, TypeOK, Loads
    <3> QED
      BY <1>2, <1>3, <3>1 DEF Shape, Loads, Succeed
  <2>4. Undispatched' = doing'
    BY <1>3, <2>2 DEF LoadStep, Undispatched, JobsOf
  <2> QED
    BY <1>1, <1>2, <1>3, <2>1, <2>2, <2>3, <2>4
    DEF LoadStep, TypeOK, Shape, Doing, Stopped, Succeed, Steps
<1>4. CASE /\ Finishes(step, rest)
           /\ result' = Succeed
           /\ progress' = 100
           /\ doing' = rest
           /\ queued' = q
           /\ Complete(again, inTurn, err)
           /\ UNCHANGED step
  <2>1. step = Len(Todo) /\ rest = {}
    BY <1>2, <1>4 DEF Finishes
  <2>2. q = 0
    <3>1. CASE q = queued - 1 /\ queued > 0 /\ j = NextJob
      <4>1. queued \in 1 .. Len(Todo[step]) /\ step \in Steps
        BY <2>1, <1>2, <3>1 DEF Shape, TypeOK, Steps
      <4>2. \A i \in 1 .. q : Todo[step][i] \in Undispatched
        BY <3>1, <4>1 DEF Undispatched, TypeOK
      <4>3. \A i \in 1 .. q : Todo[step][i] # j
        BY <3>1, <4>1, PopFacts DEF NextJob
      <4>4. \A i \in 1 .. q : FALSE
        BY <2>1, <1>2, <4>2, <4>3 DEF Shape
      <4> QED
        BY <4>4, <3>1 DEF TypeOK
    <3> QED
      BY <3>1
  <2>3. /\ replies' \in Nat
        /\ redo' \in BOOLEAN
        /\ waiting' \in BOOLEAN
        /\ erred' \in BOOLEAN
    BY <1>4 DEF Complete, Reply, TypeOK
  <2>4. Undispatched' = {}
    BY <1>4, <2>2 DEF Undispatched
  <2> QED
    BY <1>2, <1>4, <2>1, <2>2, <2>3, <2>4, TodoFacts
    DEF Shape, TypeOK, Succeed, Doing, Stopped, Steps
<1>5. CASE /\ ~Loads(step, rest) /\ ~Finishes(step, rest)
           /\ doing' = rest
           /\ queued' = q
           /\ progress' = shown
           /\ redo' = again
           /\ erred' = (erred \/ err)
           /\ UNCHANGED <<result, step, waiting, replies>>
  <2>1. step > 0 => Undispatched' \subseteq rest
    <3>1. SUFFICES ASSUME step > 0 PROVE Undispatched' \subseteq rest
      OBVIOUS
    <3>2. CASE q = queued /\ queued = 0
      BY <1>5, <3>2 DEF Undispatched
    <3>3. CASE q = queued - 1 /\ queued > 0 /\ j = NextJob
      <4>1. queued \in 1 .. Len(Todo[step]) /\ step \in Steps
        BY <1>2, <3>1, <3>3 DEF Shape, TypeOK, Steps
      <4> QED
        BY <1>5, <3>1, <3>3, <4>1, PopFacts DEF Undispatched, NextJob, Shape
    <3> QED
      BY <3>2, <3>3
  <2> QED
    BY <1>1, <1>2, <1>5, <2>1 DEF Shape, TypeOK
<1> QED
  BY <1>3, <1>4, <1>5 DEF Done

-----------------------------------------------------------------------------
\* While a turn runs, the next job is one of the current step.
LEMMA TurnFacts ==
    ASSUME TypedShape, queued > 0
    PROVE  /\ result = Doing
           /\ step \in Steps
           /\ queued \in 1 .. Len(Todo[step])
           /\ NextJob \in Job /\ NextJob \in JobsOf(step)
           /\ NextJob \in Undispatched /\ NextJob \in doing
           /\ queued - 1 \in Nat
<1>1. result = Doing /\ step > 0
  BY DEF TypedShape, TypeOK, Shape, Doing, Stopped, Succeed
<1>2. step \in Steps /\ queued \in 1 .. Len(Todo[step])
  BY <1>1, TodoFacts DEF TypedShape, TypeOK, Shape, Steps
<1> QED
  BY <1>1, <1>2, TodoFacts DEF TypedShape, TypeOK, Shape, NextJob, Undispatched

\* Handing out a job without hearing from it keeps the shape.
LEMMA PopKeepsShape ==
    ASSUME TypedShape, queued > 0, queued' = queued - 1,
           UNCHANGED <<result, step, doing, waiting>>
    PROVE  queued' \in Nat /\ Shape'
<1>1. Undispatched' \subseteq Undispatched
  BY TurnFacts DEF Undispatched
<1> QED
  BY <1>1, TurnFacts DEF TypedShape, TypeOK, Shape, Doing, Stopped, Succeed

\* The type invariant and the shape hold at the start.
LEMMA InitTypedShape == Init => TypedShape
<1> SUFFICES ASSUME Init PROVE TypedShape
  OBVIOUS
<1>1. 1 \in Steps /\ Len(Todo[1]) \in Nat /\ JobsOf(1) \subseteq Job
  BY TodoFacts DEF Steps
<1>2. Undispatched = JobsOf(1)
  BY DEF Init, Undispatched, JobsOf
<1>3. owed \in [Job -> Nat] /\ stale \in [Job -> Nat]
  BY DEF Init
<1>6. erred \in BOOLEAN /\ redo \in BOOLEAN /\ waiting \in BOOLEAN
  BY Zenon DEF Init
<1>4. TypeOK
  BY <1>1, <1>3, <1>6, TodoFacts DEF Init, TypeOK, Steps
<1>5. Shape
  BY <1>1, <1>2, TodoFacts DEF Init, Shape, Doing, Stopped, Succeed
<1> QED
  BY <1>4, <1>5 DEF TypedShape

LEMMA NextTypedShape == TypedShape /\ [Next]_vars => TypedShape'
<1> SUFFICES ASSUME TypedShape, [Next]_vars PROVE TypedShape'
  OBVIOUS
<1> USE DEF TypedShape
<1>1. CASE RunToEnd
  <2>1. /\ NextJob \in Job
        /\ queued - 1 \in Nat
        /\ (redo \/ Kind[NextJob] = "again") \in BOOLEAN
        /\ queued > 0
    BY <1>1, TurnFacts DEF TypeOK, RunToEnd
  <2>2. Done(NextJob, queued - 1, redo \/ Kind[NextJob] = "again", TRUE, FALSE)
    BY <1>1 DEF RunToEnd
  <2>3. /\ UNCHANGED <<owed, stale, lost, round>>
        /\ heard' = heard \cup {NextJob}
    BY <1>1 DEF RunToEnd, network
  <2> HIDE DEF TypedShape
  <2>4. /\ result' \in {Succeed, Doing, Stopped}
        /\ step' \in 0 .. Len(Todo)
        /\ doing' \subseteq Job
        /\ queued' \in Nat
        /\ progress' \in 0 .. 100
        /\ erred' \in BOOLEAN
        /\ redo' \in BOOLEAN
        /\ waiting' \in BOOLEAN
        /\ replies' \in Nat
        /\ Shape'
    BY <2>1, <2>2, DoneKeepsShape
  <2> QED
    BY <2>1, <2>3, <2>4 DEF TypedShape, TypeOK
<1>2. CASE Refuse
  <2>1. \E ok \in BOOLEAN : replies' = replies + 1 /\ erred' = (erred \/ ~ok)
    BY <1>2 DEF Refuse, Reply
  <2> QED
    BY <1>2, <2>1, TurnFacts, PopKeepsShape DEF Refuse, worker, network, TypeOK
<1>3. CASE Dispatch
  <2>1. PICK n \in Answers[NextJob] :
            /\ owed' = [owed EXCEPT ![NextJob] = n]
            /\ lost' = IF n = 0 THEN lost \cup {NextJob} ELSE lost
    BY <1>3 DEF Dispatch
  <2>2. NextJob \in Job /\ n \in Nat
    BY <1>3, TurnFacts, JobAssumption DEF Dispatch
  <2> QED
    BY <1>3, <2>1, <2>2, TurnFacts, PopKeepsShape DEF Dispatch, worker, TypeOK
<1>4. CASE Throw
  BY <1>4, TurnFacts, PopKeepsShape DEF Throw, worker, network, TypeOK
<1>5. ASSUME NEW j \in Job, Answer(j) \/ LateAnswer(j) PROVE TypedShape'
  <2>1. queued = 0 /\ 0 \in Nat /\ redo \in BOOLEAN
    BY <1>5 DEF Answer, LateAnswer, TypeOK
  <2>2. PICK err \in BOOLEAN : Done(j, 0, redo, FALSE, err)
    BY <1>5, ErrFlagsTyped DEF Answer, LateAnswer
  <2>3. /\ heard' \subseteq Job
        /\ lost' = lost
        /\ round' = round
    BY <1>5 DEF Answer, LateAnswer, TypeOK
  <2>5. owed' \in [Job -> Nat] /\ stale' \in [Job -> Nat]
    <3>1. CASE owed[j] > 0 /\ owed' = [owed EXCEPT ![j] = @ - 1] /\ UNCHANGED stale
      BY <3>1 DEF TypeOK
    <3>2. CASE stale[j] > 0 /\ stale' = [stale EXCEPT ![j] = @ - 1] /\ UNCHANGED owed
      BY <3>2 DEF TypeOK
    <3> QED
      BY <1>5, <3>1, <3>2 DEF Answer, LateAnswer
  <2> HIDE DEF TypedShape
  <2>4. /\ result' \in {Succeed, Doing, Stopped}
        /\ step' \in 0 .. Len(Todo)
        /\ doing' \subseteq Job
        /\ queued' \in Nat
        /\ progress' \in 0 .. 100
        /\ erred' \in BOOLEAN
        /\ redo' \in BOOLEAN
        /\ waiting' \in BOOLEAN
        /\ replies' \in Nat
        /\ Shape'
    BY <2>1, <2>2, DoneKeepsShape
  <2> QED
    BY <2>3, <2>4, <2>5 DEF TypedShape, TypeOK
<1>6. ASSUME NEW j \in Job, ErrorAnswer(j) PROVE TypedShape'
  <2>1. owed' \in [Job -> Nat] /\ stale' \in [Job -> Nat] /\ lost' \subseteq Job
    BY <1>6 DEF ErrorAnswer, TypeOK
  <2>2. Shape'
    BY <1>6 DEF ErrorAnswer, command, worker, Shape, Undispatched
  <2> QED
    BY <1>6, <2>1, <2>2 DEF ErrorAnswer, command, worker, TypeOK
<1>7. CASE FireTimer
  <2>1. result # Doing /\ doing = {} /\ queued = 0
    BY <1>7 DEF FireTimer, Shape
  <2>2. stale' \in [Job -> Nat] /\ owed' \in [Job -> Nat]
    BY <1>7 DEF FireTimer, TypeOK
  <2>5. erred' \in BOOLEAN /\ redo' \in BOOLEAN /\ waiting' \in BOOLEAN
    BY <1>7, Zenon DEF FireTimer, TypeOK
  <2>3. CASE Loads(0, doing) /\ LoadStep(0)
    <3>1. /\ 1 \in Steps
          /\ Len(Todo[1]) \in Nat
          /\ JobsOf(1) \subseteq Job
      BY TodoFacts DEF Steps
    <3>2. Undispatched' = doing'
      BY <2>3, <3>1 DEF LoadStep, Undispatched, JobsOf
    <3>3. /\ result' = Doing
          /\ step' = 1
          /\ doing' = JobsOf(1)
          /\ queued' = Len(Todo[1])
          /\ ~waiting'
      BY <1>7, <2>3 DEF FireTimer, LoadStep
    <3>4. Shape'
      BY <3>1, <3>2, <3>3, TodoFacts DEF Shape, Doing, Stopped, Succeed
    <3>5. TypeOK'
      BY <1>7, <2>2, <2>5, <3>1, <3>3, TodoFacts DEF FireTimer, TypeOK
    <3> QED
      BY <3>4, <3>5
  <2>4. CASE ~Loads(0, doing) /\ step' = 0 /\ UNCHANGED <<result, doing, queued>>
    <3>1. result = Stopped
      BY <2>1, <2>4, TodoFacts DEF Loads
    <3>2. /\ UNCHANGED progress
          /\ ~waiting'
          /\ replies' = 0
          /\ heard' = {}
          /\ lost' = {}
          /\ round' = round + 1
      BY <1>7 DEF FireTimer
    <3>3. Shape'
      BY <2>1, <2>4, <3>1, <3>2 DEF Shape, Doing, Stopped, Succeed
    <3>4. TypeOK'
      BY <2>2, <2>4, <2>5, <3>2, TodoFacts DEF TypeOK
    <3> QED
      BY <3>3, <3>4
  <2> QED
    BY <1>7, <2>1, <2>3, <2>4 DEF FireTimer
<1>8. CASE Stop
  BY <1>8 DEF Stop, worker, network, TypeOK, Shape, Undispatched,
              Doing, Stopped, Succeed
<1>9. CASE UNCHANGED vars
  BY <1>9 DEF vars, command, worker, network, TypeOK, Shape, Undispatched
<1> QED
  BY <1>1, <1>2, <1>3, <1>4, <1>5, <1>6, <1>7, <1>8, <1>9 DEF Next

\* The type invariant of a command and its worker, with the shape it rests on.
THEOREM EngineTyped == Spec => [](TypeOK /\ Shape)
<1>1. TypedShape <=> TypeOK /\ Shape
  BY DEF TypedShape
<1> QED
  BY <1>1, InitTypedShape, NextTypedShape, PTL DEF Spec

\* Once a command is stopped nothing starts it again: no nextStep() loads a
\* step, no job is handed out, and only callbacks already due still come.
THEOREM EngineStopIsFinal == Spec => StopIsFinal
<1>1. ASSUME TypedShape, [Next]_vars, result = Stopped
      PROVE  /\ result' = Stopped
             /\ queued' = 0
             /\ \A j \in Job : owed'[j] <= owed[j]
  <2>1. queued = 0
    BY <1>1 DEF TypedShape, Shape, Doing, Stopped
  <2>2. ASSUME NEW j \in Job, NEW err \in BOOLEAN, Done(j, 0, redo, FALSE, err)
        PROVE  result' = Stopped /\ queued' = 0
    BY <1>1, <2>2 DEF Done, Loads, Finishes
  <2>3. ASSUME NEW j \in Job, Answer(j) \/ LateAnswer(j) \/ ErrorAnswer(j)
        PROVE  /\ result' = Stopped
               /\ queued' = 0
               /\ \A k \in Job : owed'[k] <= owed[k]
    <3>1. \A k \in Job : owed'[k] <= owed[k]
      <4>1. owed \in [Job -> Nat]
        BY <1>1 DEF TypedShape, TypeOK
      <4>2. owed' = owed \/ owed' = [owed EXCEPT ![j] = @ - 1]
        BY <2>3 DEF Answer, LateAnswer, ErrorAnswer
      <4> QED
        BY <4>1, <4>2
    <3>2. result' = Stopped /\ queued' = 0
      <4>1. CASE Answer(j) \/ LateAnswer(j)
        <5>1. PICK err \in BOOLEAN : Done(j, 0, redo, FALSE, err)
          BY <4>1, ErrFlagsTyped DEF Answer, LateAnswer
        <5> QED
          BY <5>1, <2>2
      <4>2. CASE ErrorAnswer(j)
        BY <1>1, <2>1, <4>2 DEF ErrorAnswer, command
      <4> QED
        BY <2>3, <4>1, <4>2
    <3> QED
      BY <3>1, <3>2
  <2>4. CASE FireTimer
    BY <1>1, <2>1, <2>4 DEF FireTimer, Loads, TypedShape, TypeOK
  <2>5. CASE Stop
    BY <1>1, <2>1, <2>5 DEF Stop, network, TypedShape, TypeOK
  <2>6. CASE UNCHANGED vars
    BY <1>1, <2>1, <2>6 DEF vars, command, network, TypedShape, TypeOK
  <2> QED
    BY <1>1, <2>1, <2>3, <2>4, <2>5, <2>6
    DEF Next, RunToEnd, Refuse, Dispatch, Throw
<1>2. TypedShape /\ [Next]_vars =>
         [result = Stopped => /\ result' = Stopped
                              /\ queued' = 0
                              /\ \A j \in Job : owed'[j] <= owed[j]]_vars
  BY <1>1
<1> QED
  BY <1>2, InitTypedShape, NextTypedShape, PTL DEF Spec, StopIsFinal

-----------------------------------------------------------------------------
\* done() drops no job but the one it is called for.
LEMMA DoneDropsNoOther ==
    ASSUME TypedShape, NoJobDropped, NEW j \in Job, NEW q \in Nat,
           NEW again, NEW inTurn, NEW err, Done(j, q, again, inTurn, err),
           \/ q = queued
           \/ q = queued - 1 /\ queued > 0 /\ j = NextJob,
           lost' = lost, \A k \in Job \ {j} : owed'[k] = owed[k]
    PROVE  NoJobDropped'
<1> DEFINE rest == doing \ {j}
<1>1. CASE Loads(step, rest) /\ LoadStep(step)
  BY <1>1 DEF LoadStep, NoJobDropped, Undispatched, JobsOf
<1>2. CASE doing' = rest /\ queued' = q /\ UNCHANGED step
  <2>1. ASSUME NEW k \in rest, k \in Undispatched PROVE k \in Undispatched'
    <3>1. PICK i \in 1 .. queued : k = Todo[step][i]
      BY <2>1 DEF Undispatched
    <3>2. i \in 1 .. q
      BY <2>1, <3>1 DEF NextJob, TypedShape, TypeOK
    <3> QED
      BY <1>2, <3>1, <3>2 DEF Undispatched
  <2> QED
    BY <1>2, <2>1 DEF NoJobDropped, TypedShape, TypeOK
<1> QED
  BY <1>1, <1>2 DEF Done

\* Handing a job out leaves the others where they are.
LEMMA PopDropsNoOther ==
    ASSUME TypedShape, NoJobDropped, queued > 0, queued' = queued - 1,
           UNCHANGED <<step, doing>>, lost \subseteq lost',
           \A k \in Job \ {NextJob} : owed'[k] = owed[k],
           owed'[NextJob] > 0 \/ NextJob \in lost'
    PROVE  NoJobDropped'
<1>1. \A k \in Undispatched : k = NextJob \/ k \in Undispatched'
  BY TurnFacts DEF Undispatched, NextJob
<1> QED
  BY <1>1 DEF NoJobDropped, TypedShape, TypeOK

\* A command that has not ticked a job off will hand it out, or has a callback
\* to come from it, or has lost it for one of the reasons the model names.
THEOREM EngineDropsNoJob == Spec => []NoJobDropped
<1>1. Init => NoJobDropped
  BY DEF Init, NoJobDropped, Undispatched, JobsOf
<1>2. ASSUME TypedShape, NoJobDropped, [Next]_vars PROVE NoJobDropped'
  <2>1. CASE RunToEnd
    <3>1. NextJob \in Job /\ queued - 1 \in Nat /\ queued > 0
      BY <1>2, <2>1, TurnFacts DEF RunToEnd
    <3>2. /\ Done(NextJob, queued - 1, redo \/ Kind[NextJob] = "again", TRUE, FALSE)
          /\ UNCHANGED <<owed, lost>>
      BY <2>1 DEF RunToEnd, network
    <3> QED
      BY <1>2, <3>1, <3>2, DoneDropsNoOther
  <2>2. CASE Refuse \/ Throw
    BY <1>2, <2>2, PopDropsNoOther DEF Refuse, Throw, network
  <2>3. CASE Dispatch
    <3>1. PICK n \in Answers[NextJob] :
            /\ owed' = [owed EXCEPT ![NextJob] = n]
            /\ lost' = IF n = 0 THEN lost \cup {NextJob} ELSE lost
      BY <2>3 DEF Dispatch
    <3>2. /\ queued > 0
          /\ queued' = queued - 1
          /\ UNCHANGED <<step, doing>>
          /\ NextJob \in Job
          /\ n \in Nat
          /\ owed \in [Job -> Nat]
      BY <1>2, <2>3, TurnFacts, JobAssumption DEF Dispatch, TypedShape, TypeOK
    <3>3. /\ lost \subseteq lost'
          /\ \A k \in Job \ {NextJob} : owed'[k] = owed[k]
          /\ owed'[NextJob] > 0 \/ NextJob \in lost'
      BY <3>1, <3>2
    <3> QED
      BY <1>2, <3>2, <3>3, PopDropsNoOther
  <2>4. ASSUME NEW j \in Job, Answer(j) \/ LateAnswer(j) PROVE NoJobDropped'
    <3>1. PICK err \in ErrFlags : Done(j, 0, redo, FALSE, err)
      BY <2>4 DEF Answer, LateAnswer
    <3>2. queued = 0 /\ lost' = lost
      BY <2>4 DEF Answer, LateAnswer
    <3>3. \A k \in Job \ {j} : owed'[k] = owed[k]
      BY <1>2, <2>4 DEF Answer, LateAnswer, TypedShape, TypeOK
    <3> QED
      BY <1>2, <3>1, <3>2, <3>3, DoneDropsNoOther
  <2>5. ASSUME NEW j \in Job, ErrorAnswer(j) PROVE NoJobDropped'
    <3>1. /\ owed \in [Job -> Nat]
          /\ UNCHANGED <<step, doing, queued>>
      BY <1>2, <2>5 DEF ErrorAnswer, command, TypedShape, TypeOK
    <3>2. CASE /\ owed[j] > 0
               /\ owed' = [owed EXCEPT ![j] = @ - 1]
               /\ lost' = IF owed[j] = 1 /\ j \in doing THEN lost \cup {j} ELSE lost
      BY <1>2, <3>1, <3>2 DEF NoJobDropped, Undispatched, TypedShape, TypeOK
    <3>3. CASE UNCHANGED <<owed, lost>>
      BY <1>2, <3>1, <3>3 DEF NoJobDropped, Undispatched
    <3> QED
      BY <2>5, <3>2, <3>3 DEF ErrorAnswer
  <2>6. CASE FireTimer
    <3>1. doing = {}
      BY <1>2, <2>6 DEF FireTimer, TypedShape, Shape
    <3>2. CASE LoadStep(0)
      BY <3>2 DEF LoadStep, NoJobDropped, Undispatched, JobsOf
    <3>3. CASE UNCHANGED doing
      BY <3>1, <3>3 DEF NoJobDropped
    <3> QED
      BY <2>6, <3>2, <3>3 DEF FireTimer
  <2>7. CASE Stop \/ UNCHANGED vars
    BY <1>2, <2>7 DEF Stop, vars, command, network, NoJobDropped, Undispatched
  <2> QED
    BY <1>2, <2>1, <2>2, <2>3, <2>4, <2>5, <2>6, <2>7 DEF Next
<1> QED
  BY <1>1, <1>2, InitTypedShape, NextTypedShape, PTL DEF Spec

-----------------------------------------------------------------------------
\* done() leaves the progress of a finished command at 100: with doingList empty
\* there is no job whose progress it could set.
LEMMA DoneKeepsFull ==
    ASSUME TypedShape, FullProgress, NEW j \in Job, NEW q,
           NEW again, NEW inTurn, NEW err, Done(j, q, again, inTurn, err)
    PROVE  FullProgress'
<1> DEFINE rest == doing \ {j}
           shown == IF j \in doing THEN SetProgress(j) ELSE progress
<1>1. CASE LoadStep(step)
  BY <1>1 DEF LoadStep, FullProgress, Doing, Succeed
<1>2. CASE progress' = 100
  BY <1>2 DEF FullProgress
<1>3. CASE UNCHANGED result /\ progress' = shown
  <2>1. ASSUME result = Succeed PROVE shown = progress
    BY <2>1 DEF TypedShape, Shape
  <2> QED
    BY <1>3, <2>1 DEF FullProgress
<1> QED
  BY <1>1, <1>2, <1>3, Zenon DEF Done

\* A command that has succeeded reads 100, whatever its jobs add to the progress
\* and whichever callbacks arrive afterwards.
THEOREM EngineFullProgress == Spec => []FullProgress
<1>1. Init => FullProgress
  BY DEF Init, FullProgress, Doing, Succeed
<1>2. ASSUME TypedShape, FullProgress, [Next]_vars PROVE FullProgress'
  <2>1. CASE RunToEnd
    <3>1. NextJob \in Job
      BY <1>2, <2>1, TurnFacts DEF RunToEnd
    <3>2. Done(NextJob, queued - 1, redo \/ Kind[NextJob] = "again", TRUE, FALSE)
      BY <2>1 DEF RunToEnd
    <3> QED
      BY <1>2, <3>1, <3>2, DoneKeepsFull
  <2>2. ASSUME NEW j \in Job, Answer(j) \/ LateAnswer(j) PROVE FullProgress'
    <3>1. PICK err \in ErrFlags : Done(j, 0, redo, FALSE, err)
      BY <2>2 DEF Answer, LateAnswer
    <3> QED
      BY <1>2, <3>1, DoneKeepsFull
  <2>3. CASE UNCHANGED <<result, progress>>
    BY <1>2, <2>3 DEF FullProgress
  <2>4. CASE Refuse \/ Dispatch \/ Throw \/ (\E j \in Job : ErrorAnswer(j)) \/ UNCHANGED vars
    BY <2>3, <2>4 DEF Refuse, Dispatch, Throw, ErrorAnswer, command, vars
  <2>5. CASE FireTimer
    BY <1>2, <2>5 DEF FireTimer, LoadStep, FullProgress, Doing, Succeed
  <2>6. CASE Stop
    BY <2>6 DEF Stop, FullProgress, Stopped, Succeed
  <2> QED
    BY <1>2, <2>1, <2>2, <2>4, <2>5, <2>6 DEF Next
<1> QED
  BY <1>1, <1>2, InitTypedShape, NextTypedShape, PTL DEF Spec

-----------------------------------------------------------------------------
(* The order of the steps: StepBarrier holds for every todoList when no      *)
(* callback of an earlier execution is left over.  There is none when the    *)
(* list is executed once, and none when every job calls back at most once.   *)


NoLeftOver == stale = [j \in Job |-> 0]

\* The jobs of the steps before have called back, and so has every job of the
\* current step that is not in doingList.
Barrier ==
    /\ \A s \in 1 .. step - 1 : JobsOf(s) \subseteq heard
    /\ step > 0 => JobsOf(step) \subseteq heard \cup doing

LEMMA BarrierMeansStepBarrier == TypedShape /\ Barrier => StepBarrier
<1> SUFFICES ASSUME TypedShape, Barrier PROVE StepBarrier
  OBVIOUS
<1>1. ASSUME result = Succeed PROVE heard = Job
  <2>1. step = Len(Todo) /\ doing = {} /\ heard \subseteq Job
    BY <1>1 DEF TypedShape, TypeOK, Shape
  <2>2. ASSUME NEW s \in Steps PROVE JobsOf(s) \subseteq heard
    <3>1. s \in 1 .. step - 1 \/ (s = step /\ step > 0)
      BY <2>1, <2>2, TodoFacts DEF Steps
    <3> QED
      BY <2>1, <3>1 DEF Barrier
  <2> QED
    BY <2>1, <2>2, TodoAssumption
<1> QED
  BY <1>1 DEF StepBarrier, Barrier

\* done() of a job that has called back keeps the barrier.
LEMMA DoneKeepsBarrier ==
    ASSUME TypedShape, Barrier, NEW j \in Job, NEW q, NEW again, NEW inTurn, NEW err,
           Done(j, q, again, inTurn, err), heard' = heard \cup {j}
    PROVE  Barrier'
<1> DEFINE rest == doing \ {j}
<1>1. step \in 0 .. Len(Todo) /\ Len(Todo) \in Nat
  BY TodoFacts DEF TypedShape, TypeOK
<1>2. CASE Loads(step, rest) /\ LoadStep(step)
  <2>1. /\ rest = {}
        /\ step' = step + 1
        /\ doing' = JobsOf(step + 1)
    BY <1>2 DEF Loads, LoadStep
  <2>2. ASSUME NEW s \in 1 .. step PROVE JobsOf(s) \subseteq heard'
    <3>1. s \in 1 .. step - 1 \/ (s = step /\ step > 0)
      BY <1>1, <2>2
    <3>2. doing \subseteq {j}
      BY <2>1
    <3> QED
      BY <3>1, <3>2 DEF Barrier
  <2>3. step' - 1 = step
    BY <1>1, <2>1
  <2> QED
    BY <2>1, <2>2, <2>3 DEF Barrier, JobsOf
<1>3. CASE doing' = rest /\ UNCHANGED step
  BY <1>3 DEF Barrier, JobsOf
<1> QED
  BY <1>2, <1>3 DEF Done

\* Every step keeps the barrier when no callback of an earlier round is left.
LEMMA NextKeepsBarrier ==
    ASSUME TypedShape, Barrier, NoLeftOver, [Next]_vars
    PROVE  Barrier'
<1>1. CASE RunToEnd
  <2>1. NextJob \in Job
    BY <1>1, TurnFacts DEF RunToEnd
  <2>2. /\ Done(NextJob, queued - 1, redo \/ Kind[NextJob] = "again", TRUE, FALSE)
        /\ heard' = heard \cup {NextJob}
    BY <1>1 DEF RunToEnd
  <2> QED
    BY <2>1, <2>2, DoneKeepsBarrier
<1>2. ASSUME NEW j \in Job, Answer(j) PROVE Barrier'
  <2>1. PICK err \in ErrFlags : Done(j, 0, redo, FALSE, err)
    BY <1>2 DEF Answer
  <2>2. heard' = heard \cup {j}
    BY <1>2 DEF Answer
  <2> QED
    BY <2>1, <2>2, DoneKeepsBarrier
<1>3. ASSUME NEW j \in Job, LateAnswer(j) PROVE FALSE
  BY <1>3 DEF LateAnswer, NoLeftOver
<1>4. CASE FireTimer
  <2>1. doing = {}
    BY <1>4 DEF FireTimer, TypedShape, Shape
  <2>2. CASE LoadStep(0)
    BY <2>2 DEF LoadStep, Barrier, JobsOf
  <2>3. CASE step' = 0
    BY <2>3 DEF Barrier
  <2> QED
    BY <1>4, <2>1, <2>2, <2>3 DEF FireTimer
<1>5. CASE UNCHANGED <<step, doing, heard>>
  BY <1>5 DEF Barrier, JobsOf
<1>6. ASSUME \/ Refuse \/ Dispatch \/ Throw \/ Stop \/ UNCHANGED vars
             \/ \E j \in Job : ErrorAnswer(j)
      PROVE  UNCHANGED <<step, doing, heard>>
  BY <1>6 DEF Refuse, Dispatch, Throw, Stop, ErrorAnswer, vars, command
<1> QED
  BY <1>1, <1>2, <1>3, <1>4, <1>5, <1>6 DEF Next

LEMMA InitBarrier == Init => Barrier /\ NoLeftOver
BY DEF Init, Barrier, NoLeftOver

-----------------------------------------------------------------------------
(* A list without ":again:" *)

NeverAgain == \A j \in Job : Kind[j] # "again"

\* A command that was never asked to repeat has no timer.
OneRound == ~redo /\ ~waiting

LEMMA DoneKeepsOneRound ==
    ASSUME OneRound, NEW j \in Job, NEW q, NEW inTurn, NEW err,
           NEW again \in BOOLEAN, ~again, Done(j, q, again, inTurn, err)
    PROVE  OneRound'
<1>1. CASE redo' = again /\ UNCHANGED waiting
  BY <1>1, Zenon DEF OneRound
<1>2. CASE Complete(again, inTurn, err)
  BY <1>2, Zenon DEF Complete, OneRound
<1> QED
  BY <1>1, <1>2, Zenon DEF Done

LEMMA NextKeepsOneRound ==
    ASSUME NeverAgain, TypedShape, OneRound, NoLeftOver, [Next]_vars
    PROVE  OneRound' /\ NoLeftOver'
<1>1. CASE RunToEnd
  <2> DEFINE again == redo \/ Kind[NextJob] = "again"
  <2>1. NextJob \in Job
    BY <1>1, TurnFacts DEF RunToEnd
  <2>2. ~again /\ again \in BOOLEAN
    BY <2>1, Zenon DEF NeverAgain, OneRound
  <2>3. Done(NextJob, queued - 1, again, TRUE, FALSE)
    BY <1>1 DEF RunToEnd
  <2>4. UNCHANGED stale
    BY <1>1 DEF RunToEnd, network
  <2> HIDE DEF again
  <2>5. OneRound'
    BY <2>1, <2>2, <2>3, DoneKeepsOneRound
  <2> QED
    BY <2>4, <2>5 DEF NoLeftOver
<1>2. ASSUME NEW j \in Job, Answer(j) PROVE OneRound' /\ NoLeftOver'
  <2>1. PICK err \in ErrFlags : Done(j, 0, redo, FALSE, err)
    BY <1>2 DEF Answer
  <2>2. UNCHANGED stale
    BY <1>2 DEF Answer
  <2>3. ~redo /\ redo \in BOOLEAN
    BY Zenon DEF OneRound, TypedShape, TypeOK
  <2>4. OneRound'
    BY <2>1, <2>3, DoneKeepsOneRound
  <2> QED
    BY <2>2, <2>4 DEF NoLeftOver
<1>3. ASSUME NEW j \in Job, LateAnswer(j) PROVE FALSE
  BY <1>3 DEF LateAnswer, NoLeftOver
<1>4. ASSUME NEW j \in Job, ErrorAnswer(j) PROVE UNCHANGED <<redo, waiting, stale>>
  <2>1. ~(stale[j] > 0)
    BY DEF NoLeftOver
  <2> QED
    BY <1>4, <2>1 DEF ErrorAnswer, worker
<1>5. ~FireTimer
  BY DEF FireTimer, OneRound
<1>6. ASSUME Refuse \/ Dispatch \/ Throw \/ Stop \/ UNCHANGED vars
      PROVE  UNCHANGED <<redo, waiting, stale>>
  BY <1>6 DEF Refuse, Dispatch, Throw, Stop, vars, worker, network
<1>7. CASE UNCHANGED <<redo, waiting, stale>>
  BY <1>7 DEF OneRound, NoLeftOver
<1> QED
  BY <1>1, <1>2, <1>3, <1>4, <1>5, <1>6, <1>7 DEF Next

LEMMA InitOneRound == Init => OneRound
BY Zenon DEF Init, OneRound

\* A command that does not repeat takes a step only after every job of the steps
\* before it has called back, however often a job calls back.
THEOREM OrderWithoutAgain == ASSUME NeverAgain PROVE Spec => []StepBarrier
<1> DEFINE IInv == TypedShape /\ Barrier /\ OneRound /\ NoLeftOver
<1>1. Init => IInv
  BY InitTypedShape, InitBarrier, InitOneRound
<1>2. IInv /\ [Next]_vars => IInv'
  BY NeverAgain, NextTypedShape, NextKeepsBarrier, NextKeepsOneRound
<1>3. IInv => StepBarrier
  BY BarrierMeansStepBarrier
<1> QED
  BY <1>1, <1>2, <1>3, PTL DEF Spec

-----------------------------------------------------------------------------
(* Jobs that call back at most once *)

AtMostOnce == \A j \in Job : Answers[j] \subseteq {0, 1}

\* A job that owes a callback has been handed out and not been ticked off, and
\* it owes one.
OwesOne ==
    /\ owed \in [Job -> {0, 1}]
    /\ \A j \in Job : owed[j] = 1 => j \in doing /\ j \notin Undispatched

LEMMA DoneKeepsOwesOne ==
    ASSUME TypedShape, OwesOne, NEW j \in Job, NEW q \in Nat, NEW again, NEW inTurn, NEW err,
           Done(j, q, again, inTurn, err),
           q = queued \/ q = queued - 1,
           owed' \in [Job -> {0, 1}], owed'[j] = 0,
           \A k \in Job \ {j} : owed'[k] = owed[k]
    PROVE  OwesOne'
<1> DEFINE rest == doing \ {j}
<1>1. CASE rest = {}
  <2>1. \A k \in Job : owed'[k] = 0
    BY <1>1 DEF OwesOne
  <2> QED
    BY <2>1 DEF OwesOne
<1>2. CASE doing' = rest /\ queued' = q /\ UNCHANGED step
  <2>1. Undispatched' \subseteq Undispatched
    BY <1>2 DEF Undispatched, TypedShape, TypeOK
  <2> QED
    BY <1>2, <2>1 DEF OwesOne
<1> QED
  BY <1>1, <1>2 DEF Done, Loads

LEMMA NextKeepsOwesOne ==
    ASSUME AtMostOnce, TypedShape, OwesOne, NoLeftOver, [Next]_vars
    PROVE  OwesOne' /\ NoLeftOver'
<1>1. CASE RunToEnd
  <2>1. NextJob \in Job /\ NextJob \in Undispatched /\ queued - 1 \in Nat
    BY <1>1, TurnFacts DEF RunToEnd
  <2>2. /\ Done(NextJob, queued - 1, redo \/ Kind[NextJob] = "again", TRUE, FALSE)
        /\ UNCHANGED <<owed, stale>>
    BY <1>1 DEF RunToEnd, network
  <2>3. owed[NextJob] = 0
    BY <2>1 DEF OwesOne
  <2>4. OwesOne'
    BY <2>1, <2>2, <2>3, DoneKeepsOwesOne DEF OwesOne
  <2> QED
    BY <2>2, <2>4 DEF NoLeftOver
<1>2. ASSUME NEW j \in Job, Answer(j) PROVE OwesOne' /\ NoLeftOver'
  <2>1. PICK err \in ErrFlags : Done(j, 0, redo, FALSE, err)
    BY <1>2 DEF Answer
  <2>2. /\ queued = 0
        /\ owed[j] > 0
        /\ owed' = [owed EXCEPT ![j] = @ - 1]
        /\ UNCHANGED stale
    BY <1>2 DEF Answer
  <2>3. /\ owed' \in [Job -> {0, 1}]
        /\ owed'[j] = 0
        /\ \A k \in Job \ {j} : owed'[k] = owed[k]
    BY <2>2 DEF OwesOne
  <2>4. OwesOne'
    BY <2>1, <2>2, <2>3, DoneKeepsOwesOne
  <2> QED
    BY <2>2, <2>4 DEF NoLeftOver
<1>3. ASSUME NEW j \in Job, LateAnswer(j) PROVE FALSE
  BY <1>3 DEF LateAnswer, NoLeftOver
<1>4. ASSUME NEW j \in Job, ErrorAnswer(j) PROVE OwesOne' /\ NoLeftOver'
  <2>1. /\ owed[j] > 0
        /\ owed' = [owed EXCEPT ![j] = @ - 1]
        /\ UNCHANGED <<stale, step, doing, queued>>
    BY <1>4 DEF ErrorAnswer, NoLeftOver, command
  <2>2. /\ owed' \in [Job -> {0, 1}]
        /\ \A k \in Job : owed'[k] = 1 => owed[k] = 1
    BY <2>1 DEF OwesOne
  <2> QED
    BY <2>1, <2>2 DEF OwesOne, NoLeftOver, Undispatched
<1>5. CASE FireTimer
  <2>1. doing = {}
    BY <1>5 DEF FireTimer, TypedShape, Shape
  <2>2. \A j \in Job : owed[j] = 0
    BY <2>1 DEF OwesOne
  <2>3. /\ stale' = [j \in Job |-> stale[j] + owed[j]]
        /\ owed' = [j \in Job |-> 0]
    BY <1>5 DEF FireTimer
  <2>4. \A j \in Job : stale[j] + owed[j] = 0
    BY <2>2 DEF NoLeftOver
  <2> QED
    BY <2>3, <2>4 DEF OwesOne, NoLeftOver
<1>6. CASE Dispatch
  <2>1. /\ NextJob \in Job
        /\ NextJob \in doing
        /\ step \in Steps
        /\ queued \in 1 .. Len(Todo[step])
    BY <1>6, TurnFacts DEF Dispatch
  <2>2. PICK n \in Answers[NextJob] : owed' = [owed EXCEPT ![NextJob] = n]
    BY <1>6 DEF Dispatch
  <2>3. queued' = queued - 1 /\ UNCHANGED <<step, doing, stale>>
    BY <1>6 DEF Dispatch
  <2>4. n \in {0, 1}
    BY <2>1 DEF AtMostOnce
  <2>5. NextJob \notin Undispatched' /\ Undispatched' \subseteq Undispatched
    BY <2>1, <2>3, PopFacts DEF Undispatched, NextJob
  <2> QED
    BY <2>1, <2>2, <2>3, <2>4, <2>5 DEF OwesOne, NoLeftOver
<1>7. CASE Refuse \/ Throw
  <2>1. /\ step \in Steps
        /\ queued \in 1 .. Len(Todo[step])
    BY <1>7, TurnFacts DEF Refuse, Throw
  <2>2. queued' = queued - 1 /\ UNCHANGED <<step, doing, owed, stale>>
    BY <1>7 DEF Refuse, Throw, network
  <2>3. Undispatched' \subseteq Undispatched
    BY <2>1, <2>2 DEF Undispatched
  <2> QED
    BY <2>2, <2>3 DEF OwesOne, NoLeftOver
<1>8. CASE Stop \/ UNCHANGED vars
  BY <1>8 DEF Stop, vars, command, network, OwesOne, NoLeftOver, Undispatched
<1> QED
  BY <1>1, <1>2, <1>3, <1>4, <1>5, <1>6, <1>7, <1>8 DEF Next

LEMMA InitOwesOne == Init => OwesOne
BY DEF Init, OwesOne

\* When every job calls back at most once, a repeated command too takes a step
\* only after every job of the steps before it has called back in that very
\* execution.
THEOREM OrderWithAgain == ASSUME AtMostOnce PROVE Spec => []StepBarrier
<1> DEFINE IInv == TypedShape /\ Barrier /\ OwesOne /\ NoLeftOver
<1>1. Init => IInv
  BY InitTypedShape, InitBarrier, InitOwesOne
<1>2. IInv /\ [Next]_vars => IInv'
  BY AtMostOnce, NextTypedShape, NextKeepsBarrier, NextKeepsOwesOne
<1>3. IInv => StepBarrier
  BY BarrierMeansStepBarrier
<1> QED
  BY <1>1, <1>2, <1>3, PTL DEF Spec

-----------------------------------------------------------------------------
(***************************************************************************)
(* What a command promises to whoever writes its list: CommandEngine       *)
(* implements CommandPipeline, and the client is answered once per         *)
(* execution.                                                              *)
(***************************************************************************)

\* A command that is doing has a job left to do.
Busy == result = Doing => doing # {}

\* The jobs that were reached and are ticked off: those the pipeline has finished.
Ended == Reached \ doing

-----------------------------------------------------------------------------
(* Steps *)

\* Every literal of a todoList is an object of its own, so no job is in two steps.
LEMMA StepsDisjoint ==
    ASSUME NEW s \in Steps, NEW t \in Steps, s # t
    PROVE  JobsOf(s) \cap JobsOf(t) = {}
BY TodoAssumption DEF DistinctJobs, JobsOf

LEMMA JobsOfNotEmpty ==
    ASSUME NEW s \in Steps
    PROVE  JobsOf(s) # {} /\ JobsOf(s) \subseteq Job
<1>1. 1 \in 1 .. Len(Todo[s])
  BY TodoFacts
<1> QED
  BY <1>1, TodoFacts

LEMMA ReachedFacts ==
    ASSUME TypedShape
    PROVE  /\ Reached \subseteq Job /\ doing \subseteq Reached
           /\ step > 0 => JobsOf(step) \subseteq Reached
           /\ step = Len(Todo) => Reached = Job
           /\ \A s \in Steps : s > step => JobsOf(s) \cap Reached = {}
<1>1. step \in 0 .. Len(Todo) /\ Len(Todo) \in Nat
  BY TodoFacts DEF TypedShape, TypeOK
<1>2. \A s \in 1 .. step : s \in Steps
  BY <1>1 DEF Steps
<1>3. Reached \subseteq Job
  BY <1>2, TodoFacts DEF Reached
<1>4. step > 0 => JobsOf(step) \subseteq Reached
  BY <1>1 DEF Reached
<1>5. doing \subseteq Reached
  <2>1. CASE step = 0
    BY <2>1 DEF TypedShape, Shape
  <2>2. CASE step > 0
    BY <1>4, <2>2 DEF TypedShape, Shape
  <2> QED
    BY <1>1, <2>1, <2>2
<1>6. ASSUME step = Len(Todo) PROVE Reached = Job
  <2>1. \A j \in Job : \E s \in 1 .. step : j \in JobsOf(s)
    BY <1>6, TodoAssumption DEF Steps
  <2> QED
    BY <1>3, <2>1 DEF Reached
<1>7. ASSUME NEW s \in Steps, s > step PROVE JobsOf(s) \cap Reached = {}
  <2>1. \A t \in 1 .. step : t \in Steps /\ t # s
    BY <1>1, <1>2, <1>7 DEF Steps
  <2>2. \A t \in 1 .. step : JobsOf(s) \cap JobsOf(t) = {}
    BY <2>1, StepsDisjoint
  <2> QED
    BY <2>2 DEF Reached
<1> QED
  BY <1>3, <1>4, <1>5, <1>6, <1>7

\* All jobs of the steps before the current one have been ticked off.
LEMMA EarlierEnded ==
    ASSUME TypedShape, step \in Steps, NEW j \in JobsOf(step),
           NEW k \in Job, NEW s \in Steps, NEW t \in Steps,
           s < t, k \in JobsOf(s), j \in JobsOf(t)
    PROVE  k \in Ended
<1>1. t = step
  BY StepsDisjoint
<1>2. s \in 1 .. step /\ s # step
  BY <1>1 DEF Steps
<1>3. k \in Reached
  BY <1>2 DEF Reached
<1>4. k \notin JobsOf(step)
  BY <1>2, StepsDisjoint
<1>5. step > 0
  BY DEF Steps
<1> QED
  BY <1>3, <1>4, <1>5 DEF Ended, TypedShape, Shape

-----------------------------------------------------------------------------
(* done() *)

\* Which of the two ways done() is called in.
Calls(j, q) ==
    \/ q = queued /\ queued = 0
    \/ q = queued - 1 /\ queued > 0 /\ j = NextJob

\* done() of a job that is being done ends it, and completes a command that was not
\* stopped when it was the last.
LEMMA DoneEnds ==
    ASSUME TypedShape, NEW j \in doing, NEW q \in Nat, NEW again, NEW inTurn, NEW err,
           Done(j, q, again, inTurn, err), Calls(j, q)
    PROVE  /\ Ended' = Ended \cup {j}
           /\ Dispatched' = Dispatched \cup {j}
           /\ Outcome' = IF Ended' = Job /\ Outcome = "doing" THEN "done" ELSE Outcome
           /\ Busy'
<1> DEFINE rest == doing \ {j}
<1> USE DEF Doing, Succeed, Stopped
<1>1. /\ step \in Steps /\ Len(Todo) \in Nat /\ step \in Nat /\ step > 0
      /\ j \in JobsOf(step) /\ j \in Reached /\ doing \subseteq JobsOf(step)
      /\ Undispatched \subseteq doing
  <2>1. step \in 0 .. Len(Todo) /\ Len(Todo) \in Nat /\ step # 0
    BY TodoFacts DEF TypedShape, TypeOK, Shape
  <2>2. step \in Steps /\ step > 0
    BY <2>1 DEF Steps
  <2> QED
    BY <2>1, <2>2, ReachedFacts DEF TypedShape, Shape
<1>2. result # Succeed /\ result \in {Succeed, Doing, Stopped}
  BY DEF TypedShape, TypeOK, Shape
<1>3. CASE Loads(step, rest) /\ LoadStep(step)
  <2>1. /\ step + 1 \in Steps /\ step' = step + 1 /\ step + 1 > step
        /\ doing' = JobsOf(step + 1) /\ queued' = Len(Todo[step + 1])
        /\ rest = {} /\ result = Doing /\ result' = Doing
    BY <1>1, <1>2, <1>3 DEF Loads, LoadStep, Steps
  <2>2. Undispatched' = JobsOf(step + 1)
    BY <2>1 DEF Undispatched, JobsOf
  <2>3. Reached' = Reached \cup JobsOf(step + 1)
    <3>1. \A s : s \in 1 .. step + 1 <=> s \in 1 .. step \/ s = step + 1
      BY <1>1
    <3>2. Reached' = UNION {JobsOf(s) : s \in 1 .. step + 1}
      BY <2>1 DEF Reached, JobsOf
    <3> QED
      BY <3>1, <3>2 DEF Reached
  <2>4. JobsOf(step + 1) \cap Reached = {}
    BY <2>1, ReachedFacts
  <2>5. Ended' = Reached /\ Dispatched' = Reached
    BY <2>1, <2>2, <2>3, <2>4 DEF Ended, Dispatched
  <2>6. doing = {j}
    BY <2>1
  <2>7. Ended \cup {j} = Reached /\ Dispatched \cup {j} = Reached
    BY <1>1, <2>6 DEF Ended, Dispatched
  <2>8. Ended' # Job /\ doing' # {}
    BY <2>1, <2>4, <2>5, JobsOfNotEmpty
  <2>9. Outcome = "doing" /\ Outcome' = "doing"
    BY <2>1 DEF Outcome
  <2> QED
    BY <2>5, <2>7, <2>8, <2>9 DEF Busy
<1>4. CASE /\ Finishes(step, rest)
           /\ result' = Succeed /\ doing' = rest /\ queued' = q /\ step' = step
  <2>1. step = Len(Todo) /\ doing = {j} /\ doing' = {} /\ result = Doing
    BY <1>1, <1>2, <1>4 DEF Finishes, Steps
  <2>2. q = 0
    <3>1. CASE q = queued - 1 /\ queued > 0 /\ j = NextJob
      <4>1. queued \in 1 .. Len(Todo[step])
        BY <3>1, TurnFacts
      <4>2. \A i \in 1 .. q : Todo[step][i] \in Undispatched /\ Todo[step][i] # j
        BY <1>1, <3>1, <4>1, PopFacts DEF NextJob, Undispatched
      <4>3. \A i \in 1 .. q : FALSE
        BY <1>1, <2>1, <4>2
      <4> QED
        BY <4>3
    <3> QED
      BY <3>1 DEF Calls
  <2>3. Undispatched' = {} /\ Reached' = Reached /\ Reached = Job
    BY <1>4, <2>1, <2>2, ReachedFacts DEF Undispatched, Reached, JobsOf
  <2>4. Ended' = Job /\ Dispatched' = Job
    BY <2>1, <2>3 DEF Ended, Dispatched
  <2>5. Ended \cup {j} = Job /\ Dispatched \cup {j} = Job
    BY <1>1, <2>1, <2>3 DEF Ended, Dispatched
  <2>6. Outcome = "doing" /\ Outcome' = "done"
    BY <1>4, <2>1 DEF Outcome
  <2> QED
    BY <1>4, <2>4, <2>5, <2>6 DEF Busy
<1>5. CASE /\ ~Loads(step, rest) /\ ~Finishes(step, rest)
           /\ doing' = rest /\ queued' = q /\ UNCHANGED <<result, step>>
  <2>1. Reached' = Reached
    BY <1>5 DEF Reached, JobsOf
  <2>2. Ended' = Ended \cup {j}
    BY <1>1, <1>5, <2>1 DEF Ended
  <2>3. Undispatched' = Undispatched \ {j}
    <3>1. CASE q = queued /\ queued = 0
      BY <1>5, <3>1 DEF Undispatched
    <3>2. CASE q = queued - 1 /\ queued > 0 /\ j = NextJob
      <4>1. queued \in 1 .. Len(Todo[step])
        BY <3>2, TurnFacts
      <4> QED
        BY <1>1, <1>5, <3>2, <4>1, PopFacts DEF NextJob, Undispatched
    <3> QED
      BY <3>1, <3>2 DEF Calls
  <2>4. Dispatched' = Dispatched \cup {j}
    BY <1>1, <2>1, <2>3 DEF Dispatched
  <2>5. Outcome' = Outcome
    BY <1>5 DEF Outcome
  <2>6. ASSUME result = Doing PROVE rest # {}
    BY <1>1, <1>5, <2>6 DEF Loads, Finishes
  <2>7. result = Doing => Ended' # Job
    BY <1>1, <1>5, <2>1, <2>6, ReachedFacts DEF Ended
  <2>8. Outcome = "doing" => result = Doing
    BY <1>2 DEF Outcome
  <2> QED
    BY <1>5, <2>2, <2>4, <2>5, <2>6, <2>7, <2>8 DEF Busy
<1> QED
  BY <1>3, <1>4, <1>5 DEF Done

\* A callback of a job that is not being done changes none of it.
LEMMA DoneAgain ==
    ASSUME TypedShape, Busy, NEW j \in Job, j \notin doing, queued = 0,
           NEW again, NEW inTurn, NEW err, Done(j, 0, again, inTurn, err)
    PROVE  UNCHANGED <<result, step, doing, queued, replies>>
<1>1. doing \ {j} = doing
  OBVIOUS
<1>2. result \in {Succeed, Doing, Stopped} /\ step \in 0 .. Len(Todo) /\ Len(Todo) \in Nat
  BY TodoFacts DEF TypedShape, TypeOK
<1>3. ~Loads(step, doing) /\ ~Finishes(step, doing)
  BY <1>2 DEF Loads, Finishes, Busy, TypedShape, Shape, Doing, Succeed, Stopped
<1> QED
  BY <1>1, <1>3 DEF Done

-----------------------------------------------------------------------------
(* The steps of the engine *)

\* A job that the queue has not handed out may start in the pipeline.
LEMMA NextMayStart ==
    ASSUME TypedShape, queued > 0
    PROVE  /\ Pipeline!MayStart(NextJob)
           /\ NextJob \in doing /\ NextJob \in Job /\ result = Doing
           /\ Undispatched \subseteq doing /\ NextJob \in Reached
<1>1. /\ result = Doing /\ step \in Steps /\ queued \in 1 .. Len(Todo[step])
      /\ NextJob \in Job /\ NextJob \in JobsOf(step)
      /\ NextJob \in Undispatched /\ NextJob \in doing
  BY TurnFacts
<1>2. Outcome = "doing"
  BY <1>1 DEF Outcome, Doing, Succeed
<1>3. NextJob \notin Dispatched
  BY <1>1 DEF Dispatched
<1>4. ASSUME NEW k \in Job,
             \E s, t \in Steps : s < t /\ k \in JobsOf(s) /\ NextJob \in JobsOf(t)
      PROVE  k \in Ended
  BY <1>1, <1>4, EarlierEnded
<1>5. Undispatched \subseteq doing /\ NextJob \in Reached
  BY <1>1, ReachedFacts DEF TypedShape, Shape, Steps
<1> QED
  BY <1>1, <1>2, <1>3, <1>4, <1>5 DEF Pipeline!MayStart, Ended

\* A job that is handed out and not heard from.
LEMMA PopStarts ==
    ASSUME TypedShape, Busy, queued > 0, queued' = queued - 1,
           UNCHANGED <<result, step, doing>>
    PROVE  Pipeline!Start(NextJob) /\ Busy'
<1>1. step \in Steps /\ queued \in 1 .. Len(Todo[step])
  BY TurnFacts
<1>2. Undispatched' = Undispatched \ {NextJob}
  BY <1>1, PopFacts DEF Undispatched, NextJob
<1>3. Reached' = Reached
  BY DEF Reached, JobsOf
<1>4. Dispatched' = Dispatched \cup {NextJob}
  BY <1>2, <1>3, NextMayStart DEF Dispatched
<1>5. (Reached \ doing)' = Reached \ doing /\ Outcome' = Outcome
  BY <1>3 DEF Outcome
<1> QED
  BY <1>4, <1>5, NextMayStart DEF Pipeline!Start, Busy

\* A callback, of this execution or of an earlier one.
LEMMA CallbackRefines ==
    ASSUME TypedShape, Busy, NEW j \in Job, queued = 0,
           NEW again, NEW inTurn, NEW err, Done(j, 0, again, inTurn, err)
    PROVE  /\ Pipeline!Report(j) \/ UNCHANGED Pipeline!vars
           /\ Busy'
<1>1. CASE j \in doing
  <2>1. /\ Ended' = Ended \cup {j}
        /\ Dispatched' = Dispatched \cup {j}
        /\ Outcome' = IF Ended' = Job /\ Outcome = "doing" THEN "done" ELSE Outcome
        /\ Busy'
    BY <1>1, DoneEnds DEF Calls
  <2>2. Undispatched = {}
    BY DEF Undispatched
  <2>3. j \in Dispatched /\ j \notin Ended /\ Dispatched' = Dispatched
    BY <1>1, <2>1, <2>2, ReachedFacts DEF Dispatched, Ended
  <2> QED
    BY <2>1, <2>3 DEF Pipeline!Report, Pipeline!Finish, Ended
<1>2. CASE j \notin doing
  <2>1. UNCHANGED <<result, step, doing, queued>>
    BY <1>2, DoneAgain
  <2> QED
    BY <2>1 DEF Pipeline!vars, Reached, Dispatched, Undispatched, Outcome, Busy, JobsOf
<1> QED
  BY <1>1, <1>2

\* The timer starts the list over, or takes a stopped command back to its start.
LEMMA TimerRefines ==
    ASSUME TypedShape, Busy, FireTimer, waiting => step = Len(Todo)
    PROVE  Pipeline!Again /\ Busy'
<1> USE DEF Doing, Succeed, Stopped
<1>1. result # Doing /\ result \in {Succeed, Doing, Stopped} /\ doing = {}
      /\ queued = 0 /\ Reached = Job
  BY ReachedFacts DEF FireTimer, TypedShape, TypeOK, Shape
<1>2. Reached \ doing = Job
  BY <1>1
<1>3. 1 \in Steps /\ 0 < Len(Todo) /\ 1 .. 1 = {1} /\ 1 .. 0 = {}
  BY TodoFacts DEF Steps
<1>4. CASE Loads(0, doing) /\ LoadStep(0)
  <2>1. /\ result' = Doing /\ step' = 1 /\ doing' = JobsOf(1)
        /\ queued' = Len(Todo[1]) /\ result = Succeed
    BY <1>1, <1>4 DEF LoadStep, Loads
  <2>2. Reached' = JobsOf(1)
    BY <1>3, <2>1 DEF Reached, JobsOf
  <2>3. Undispatched' = JobsOf(1)
    BY <2>1 DEF Undispatched, JobsOf
  <2>4. Dispatched' = {} /\ (Reached \ doing)' = {}
    BY <2>1, <2>2, <2>3 DEF Dispatched
  <2>5. Outcome' = "doing" /\ Outcome # "stopped"
    BY <2>1 DEF Outcome
  <2>6. Busy'
    BY <1>3, <2>1, JobsOfNotEmpty DEF Busy
  <2> QED
    BY <1>2, <2>4, <2>5, <2>6 DEF Pipeline!Again
<1>5. CASE ~Loads(0, doing) /\ step' = 0 /\ UNCHANGED <<result, doing, queued>>
  <2>1. result = Stopped
    BY <1>1, <1>3, <1>5 DEF Loads
  <2>2. Reached' = {}
    BY <1>3, <1>5 DEF Reached
  <2>3. Dispatched' = {} /\ (Reached \ doing)' = {}
    BY <2>2 DEF Dispatched
  <2>4. Outcome = "stopped" /\ Outcome' = "stopped"
    BY <1>5, <2>1 DEF Outcome
  <2> QED
    BY <1>2, <1>5, <2>1, <2>3, <2>4 DEF Pipeline!Again, Busy
<1> QED
  BY <1>1, <1>4, <1>5 DEF FireTimer

\* The timer is set when the list has come to its end.
AtEnd == waiting => step = Len(Todo)

LEMMA DoneKeepsEnd ==
    ASSUME TypedShape, AtEnd, Busy, NEW j \in Job, NEW q, NEW again, NEW inTurn, NEW err,
           Done(j, q, again, inTurn, err)
    PROVE  AtEnd'
<1> DEFINE rest == doing \ {j}
<1> USE DEF Doing, Succeed, Stopped
<1>1. step \in 0 .. Len(Todo) /\ Len(Todo) \in Nat /\ step \in Nat
  BY TodoFacts DEF TypedShape, TypeOK
<1>2. CASE Loads(step, rest) /\ UNCHANGED waiting
  BY <1>1, <1>2 DEF Loads, AtEnd
<1>3. CASE Finishes(step, rest) /\ UNCHANGED step
  BY <1>1, <1>3 DEF Finishes, AtEnd
<1>4. CASE UNCHANGED <<step, waiting>>
  BY <1>4 DEF AtEnd
<1> QED
  BY <1>2, <1>3, <1>4 DEF Done

-----------------------------------------------------------------------------
(* The refinement *)

LEMMA InitRefines == Init => Pipeline!Init /\ Busy /\ AtEnd
<1> SUFFICES ASSUME Init PROVE Pipeline!Init /\ Busy /\ AtEnd
  OBVIOUS
<1>1. 1 \in Steps /\ 1 .. 1 = {1}
  BY TodoFacts DEF Steps
<1>2. Reached = JobsOf(1) /\ Undispatched = JobsOf(1)
  BY <1>1 DEF Init, Reached, Undispatched, JobsOf
<1>3. Dispatched = {} /\ Reached \ doing = {}
  BY <1>2 DEF Init, Dispatched
<1>4. Outcome = "doing"
  BY DEF Init, Outcome, Doing, Succeed
<1> QED
  BY <1>1, <1>3, <1>4, JobsOfNotEmpty DEF Init, Pipeline!Init, Busy, AtEnd

LEMMA NextRefines ==
    ASSUME TypedShape, Busy, AtEnd, [Next]_vars
    PROVE  [Pipeline!Next]_Pipeline!vars /\ Busy' /\ AtEnd'
<1>1. CASE RunToEnd
  <2>1. /\ queued > 0 /\ NextJob \in doing /\ NextJob \in Job /\ queued - 1 \in Nat
        /\ Pipeline!MayStart(NextJob)
    BY <1>1, TurnFacts, NextMayStart DEF RunToEnd
  <2>2. Done(NextJob, queued - 1, redo \/ Kind[NextJob] = "again", TRUE, FALSE)
    BY <1>1 DEF RunToEnd
  <2>3. /\ Ended' = Ended \cup {NextJob}
        /\ Dispatched' = Dispatched \cup {NextJob}
        /\ Outcome' = IF Ended' = Job /\ Outcome = "doing" THEN "done" ELSE Outcome
        /\ Busy'
    BY <2>1, <2>2, DoneEnds DEF Calls
  <2>4. Pipeline!StartAndReport(NextJob)
    BY <2>1, <2>3 DEF Pipeline!StartAndReport, Pipeline!Finish, Ended
  <2>5. AtEnd'
    BY <2>1, <2>2, DoneKeepsEnd
  <2> QED
    BY <2>1, <2>3, <2>4, <2>5 DEF Pipeline!Next
<1>2. CASE Refuse \/ Dispatch \/ Throw
  <2>1. queued > 0 /\ queued' = queued - 1 /\ UNCHANGED <<result, step, doing, waiting>>
    BY <1>2 DEF Refuse, Dispatch, Throw, worker
  <2>2. Pipeline!Start(NextJob) /\ Busy' /\ NextJob \in Job
    BY <2>1, PopStarts, NextMayStart
  <2> QED
    BY <2>1, <2>2 DEF Pipeline!Next, AtEnd
<1>3. ASSUME NEW j \in Job, Answer(j) \/ LateAnswer(j)
      PROVE  [Pipeline!Next]_Pipeline!vars /\ Busy' /\ AtEnd'
  <2>1. PICK err : queued = 0 /\ Done(j, 0, redo, FALSE, err)
    BY <1>3 DEF Answer, LateAnswer
  <2>2. (Pipeline!Report(j) \/ UNCHANGED Pipeline!vars) /\ Busy'
    BY <2>1, CallbackRefines
  <2>3. AtEnd'
    BY <2>1, DoneKeepsEnd
  <2> QED
    BY <2>2, <2>3 DEF Pipeline!Next
<1>4. CASE FireTimer
  <2>1. Pipeline!Again /\ Busy'
    BY <1>4, TimerRefines DEF AtEnd
  <2>2. AtEnd'
    BY <1>4 DEF FireTimer, AtEnd
  <2> QED
    BY <2>1, <2>2 DEF Pipeline!Next
<1>5. CASE Stop
  <2>1. result' = Stopped /\ UNCHANGED <<step, doing, queued, waiting>>
    BY <1>5 DEF Stop, worker
  <2>2. UNCHANGED <<Dispatched, Reached>>
    BY <2>1 DEF Dispatched, Reached, Undispatched, JobsOf
  <2>3. Outcome' = "stopped"
    BY <2>1 DEF Outcome, Doing, Succeed, Stopped
  <2> QED
    BY <2>1, <2>2, <2>3 DEF Pipeline!Next, Pipeline!Stop, Busy, AtEnd, Doing, Stopped
<1>6. CASE (\E j \in Job : ErrorAnswer(j)) \/ UNCHANGED vars
  <2>1. UNCHANGED <<result, step, doing, queued, waiting>>
    BY <1>6 DEF ErrorAnswer, vars, command, worker
  <2> QED
    BY <2>1
    DEF Pipeline!vars, Reached, Dispatched, Undispatched, Outcome, Busy, AtEnd, JobsOf
<1> QED
  BY <1>1, <1>2, <1>3, <1>4, <1>5, <1>6 DEF Next

\* Whatever the queue, the worker, the callbacks and the timer do, a job starts once
\* per execution and only after all jobs of the earlier steps have been ticked off,
\* the command is done exactly when all of them have, and a stopped command starts
\* nothing: every step of the engine is one of the pipeline or changes nothing of it
\* (command.js:44-104, Worker.js:75-197).
THEOREM EngineImplementsPipeline == Spec => PipelineSpec
<1> DEFINE IInv == TypedShape /\ Busy /\ AtEnd
<1>1. Init => IInv /\ Pipeline!Init
  BY InitTypedShape, InitRefines
<1>2. IInv /\ [Next]_vars => IInv' /\ [Pipeline!Next]_Pipeline!vars
  BY NextTypedShape, NextRefines
<1> QED
  BY <1>1, <1>2, PTL DEF Spec, PipelineSpec, Pipeline!Spec

-----------------------------------------------------------------------------
(* The client *)

\* A step has at most one ":continue:", as in every list of the controllers, where
\* it is alone in its step (File.js:329-332, 416-419, Login.js:37-40).
OneContinue ==
    \A s \in Steps : \A j, k \in JobsOf(s) :
        Kind[j] = "continue" /\ Kind[k] = "continue" => j = k

\* Only commands call back later.
OfCommands == \A j \in Job : owed[j] > 0 \/ stale[j] > 0 => Kind[j] = "command"

\* The ":continue:" that have refused, which stay in doingList.
Refusals == {j \in Dispatched \cap doing : Kind[j] = "continue"}

LEMMA AnsweredForms ==
    ASSUME TypedShape
    PROVE  AnsweredOnce <=> /\ replies \in {0, 1}
                            /\ result = Succeed => replies = 1
                            /\ result = Doing => (replies = 1 <=> Refusals # {})
<1>1. replies \in Nat
  BY DEF TypedShape, TypeOK
<1>2. replies <= 1 <=> replies \in {0, 1}
  BY <1>1
<1>3. Refusals # {} <=> \E j \in Dispatched \cap doing : Kind[j] = "continue"
  BY DEF Refusals
<1> QED
  BY <1>2, <1>3 DEF AnsweredOnce

LEMMA OfCommandsKept ==
    ASSUME TypedShape, OfCommands, [Next]_vars
    PROVE  OfCommands'
<1>1. CASE RunToEnd \/ Refuse \/ Throw \/ Stop \/ UNCHANGED vars
  BY <1>1 DEF RunToEnd, Refuse, Throw, Stop, vars, network, OfCommands
<1>2. CASE Dispatch
  BY <1>2 DEF Dispatch, OfCommands, TypedShape, TypeOK
<1>3. ASSUME NEW j \in Job, Answer(j) \/ LateAnswer(j) \/ ErrorAnswer(j)
      PROVE  OfCommands'
  <2>1. owed \in [Job -> Nat] /\ stale \in [Job -> Nat]
    BY DEF TypedShape, TypeOK
  <2>2. \A k \in Job : (owed'[k] > 0 => owed[k] > 0) /\ (stale'[k] > 0 => stale[k] > 0)
    <3>1. CASE owed[j] > 0 /\ owed' = [owed EXCEPT ![j] = @ - 1] /\ UNCHANGED stale
      BY <2>1, <3>1
    <3>2. CASE stale[j] > 0 /\ stale' = [stale EXCEPT ![j] = @ - 1] /\ UNCHANGED owed
      BY <2>1, <3>2
    <3> QED
      BY <1>3, <3>1, <3>2 DEF Answer, LateAnswer, ErrorAnswer
  <2> QED
    BY <2>2 DEF OfCommands
<1>4. CASE FireTimer
  <2>1. \A k \in Job : /\ owed[k] \in Nat /\ stale[k] \in Nat
                       /\ owed'[k] = 0 /\ stale'[k] = stale[k] + owed[k]
    BY <1>4 DEF FireTimer, TypedShape, TypeOK
  <2>2. \A k \in Job : ~(owed'[k] > 0) /\ (stale'[k] > 0 => stale[k] > 0 \/ owed[k] > 0)
    BY <2>1
  <2> QED
    BY <2>2 DEF OfCommands
<1> QED
  BY <1>1, <1>2, <1>3, <1>4 DEF Next

\* done() of a job that is being done and has not refused.
LEMMA DoneAnswers ==
    ASSUME TypedShape, Busy, AnsweredOnce, NEW j \in doing, NEW q \in Nat,
           NEW again, NEW inTurn, NEW err,
           Done(j, q, again, inTurn, err), Calls(j, q), j \notin Refusals
    PROVE  AnsweredOnce'
<1> DEFINE rest == doing \ {j}
<1> USE DEF Doing, Succeed, Stopped
<1>1. /\ replies \in {0, 1}
      /\ result = Succeed => replies = 1
      /\ result = Doing => (replies = 1 <=> Refusals # {})
  BY AnsweredForms
<1>2. result # Succeed /\ result \in {Succeed, Doing, Stopped}
  BY DEF TypedShape, TypeOK, Shape
<1>3. rest = {} => Refusals = {}
  BY DEF Refusals
<1>4. CASE Loads(step, rest) /\ LoadStep(step) /\ UNCHANGED replies
  <2>1. result = Doing /\ result' = Doing /\ replies = 0
    BY <1>1, <1>2, <1>3, <1>4 DEF Loads, LoadStep
  <2>2. Undispatched' = doing'
    <3>1. /\ step' = step + 1 /\ doing' = JobsOf(step + 1)
          /\ queued' = Len(Todo[step + 1])
      BY <1>4 DEF LoadStep
    <3> QED
      BY <3>1 DEF Undispatched, JobsOf
  <2>3. Refusals' = {}
    BY <2>2 DEF Refusals, Dispatched
  <2> QED
    BY <1>4, <2>1, <2>3 DEF AnsweredOnce, Refusals
<1>5. CASE Finishes(step, rest) /\ result' = Succeed /\ replies' = replies + 1
  BY <1>1, <1>2, <1>3, <1>5 DEF AnsweredOnce, Finishes
<1>6. CASE /\ ~Loads(step, rest) /\ ~Finishes(step, rest)
           /\ doing' = rest /\ UNCHANGED <<result, step, replies>>
  <2>1. Dispatched' = Dispatched \cup {j}
    BY DoneEnds
  <2>2. Refusals' = Refusals
    BY <1>6, <2>1 DEF Refusals
  <2> QED
    BY <1>1, <1>2, <1>6, <2>2 DEF AnsweredOnce, Refusals
<1>7. Complete(again, inTurn, err) => replies' = replies + 1
  BY DEF Complete, Reply
<1> QED
  BY <1>4, <1>5, <1>6, <1>7 DEF Done

LEMMA NextKeepsAnswered ==
    ASSUME OneContinue, TypedShape, Busy, AnsweredOnce, OfCommands, [Next]_vars
    PROVE  AnsweredOnce'
<1> USE DEF Doing, Succeed, Stopped
<1>1. CASE RunToEnd
  <2>1. /\ queued > 0 /\ NextJob \in doing /\ queued - 1 \in Nat /\ NextJob \in Undispatched
    BY <1>1, TurnFacts DEF RunToEnd
  <2>2. Done(NextJob, queued - 1, redo \/ Kind[NextJob] = "again", TRUE, FALSE)
    BY <1>1 DEF RunToEnd
  <2>3. NextJob \notin Refusals
    BY <2>1 DEF Refusals, Dispatched
  <2> QED
    BY <2>1, <2>2, <2>3, DoneAnswers DEF Calls
<1>2. ASSUME queued > 0, queued' = queued - 1, UNCHANGED <<result, step, doing>>
      PROVE  /\ Dispatched' = Dispatched \cup {NextJob} /\ doing' = doing
             /\ NextJob \in doing \ Dispatched /\ result = Doing /\ result' = Doing
  <2>1. Pipeline!Start(NextJob) /\ NextJob \in doing /\ result = Doing
    BY <1>2, PopStarts, NextMayStart
  <2>2. Dispatched' = Dispatched \cup {NextJob} /\ NextJob \notin Dispatched
    BY <2>1 DEF Pipeline!Start, Pipeline!MayStart
  <2> QED
    BY <1>2, <2>1, <2>2
<1>3. CASE Refuse
  <2>1. /\ queued > 0 /\ queued' = queued - 1 /\ UNCHANGED <<result, step, doing>>
        /\ Kind[NextJob] = "continue" /\ replies' = replies + 1
    BY <1>3 DEF Refuse, Reply
  <2>2. \A k \in doing : Kind[k] = "continue" => k = NextJob
    <3>1. step \in Steps /\ NextJob \in JobsOf(step) /\ doing \subseteq JobsOf(step)
      BY <2>1, TurnFacts DEF TypedShape, Shape, Steps
    <3> QED
      BY <2>1, <3>1 DEF OneContinue
  <2>3. Refusals = {}
    BY <1>2, <2>1, <2>2 DEF Refusals
  <2>4. replies = 0
    BY <1>2, <2>1, <2>3, AnsweredForms
  <2>5. NextJob \in (Dispatched \cap doing)'
    BY <1>2, <2>1
  <2> QED
    BY <1>2, <2>1, <2>4, <2>5 DEF AnsweredOnce
<1>4. CASE Dispatch \/ Throw
  <2>1. /\ queued > 0 /\ queued' = queued - 1 /\ UNCHANGED <<result, step, doing, replies>>
        /\ Kind[NextJob] # "continue"
    BY <1>4 DEF Dispatch, Throw
  <2> QED
    BY <1>2, <2>1 DEF AnsweredOnce
<1>5. ASSUME NEW j \in Job, Answer(j) \/ LateAnswer(j) PROVE AnsweredOnce'
  <2>1. PICK err : queued = 0 /\ Done(j, 0, redo, FALSE, err)
    BY <1>5 DEF Answer, LateAnswer
  <2>2. Kind[j] = "command"
    BY <1>5 DEF Answer, LateAnswer, OfCommands
  <2>3. CASE j \in doing
    <3>1. j \notin Refusals
      BY <2>2 DEF Refusals
    <3> QED
      BY <2>1, <2>3, <3>1, DoneAnswers DEF Calls
  <2>4. CASE j \notin doing
    <3>1. UNCHANGED <<result, step, doing, queued, replies>>
      BY <2>1, <2>4, DoneAgain
    <3> QED
      BY <3>1 DEF AnsweredOnce, Dispatched, Reached, Undispatched, JobsOf
  <2> QED
    BY <2>3, <2>4
<1>6. CASE FireTimer
  <2>1. result # Doing /\ result \in {Succeed, Doing, Stopped} /\ doing = {} /\ replies' = 0
    BY <1>6 DEF FireTimer, TypedShape, TypeOK, Shape
  <2>2. CASE LoadStep(0)
    <3>1. result' = Doing /\ step' = 1 /\ doing' = JobsOf(1) /\ queued' = Len(Todo[1])
      BY <2>2 DEF LoadStep
    <3>2. Undispatched' = doing'
      BY <3>1 DEF Undispatched, JobsOf
    <3>3. (Dispatched \cap doing)' = {}
      BY <3>2 DEF Dispatched
    <3> QED
      BY <2>1, <3>1, <3>3 DEF AnsweredOnce
  <2>3. CASE ~Loads(0, doing) /\ UNCHANGED result
    <3>1. result = Stopped
      BY <2>1, <2>3, TodoFacts DEF Loads
    <3> QED
      BY <2>1, <2>3, <3>1 DEF AnsweredOnce
  <2> QED
    BY <1>6, <2>2, <2>3 DEF FireTimer
<1>7. CASE Stop
  BY <1>7 DEF Stop, AnsweredOnce
<1>8. CASE (\E j \in Job : ErrorAnswer(j)) \/ UNCHANGED vars
  <2>1. UNCHANGED <<result, step, doing, queued, replies>>
    BY <1>8 DEF ErrorAnswer, vars, command
  <2> QED
    BY <2>1 DEF AnsweredOnce, Dispatched, Reached, Undispatched, JobsOf
<1> QED
  BY <1>1, <1>3, <1>4, <1>5, <1>6, <1>7, <1>8 DEF Next

\* The client of a command is answered once per execution: when the command
\* succeeds, or when a ":continue:" refused, and by nothing else, whatever jobs throw,
\* call back twice or late (Worker.js:75-88, 186-197).
THEOREM ClientAnsweredOnce == ASSUME OneContinue PROVE Spec => []AnsweredOnce
<1> DEFINE IInv == TypedShape /\ Busy /\ AtEnd /\ OfCommands /\ AnsweredOnce
<1>1. Init => IInv
  <2> SUFFICES ASSUME Init PROVE OfCommands /\ AnsweredOnce
    BY InitTypedShape, InitRefines
  <2>1. OfCommands
    BY DEF Init, OfCommands
  <2>2. Undispatched = doing
    BY DEF Init, Undispatched, JobsOf
  <2>3. AnsweredOnce
    BY <2>2 DEF Init, AnsweredOnce, Dispatched, Doing, Succeed
  <2> QED
    BY <2>1, <2>3
<1>2. IInv /\ [Next]_vars => IInv'
  BY OneContinue, NextTypedShape, NextRefines, OfCommandsKept, NextKeepsAnswered
<1> QED
  BY <1>1, <1>2, PTL DEF Spec
=============================================================================
