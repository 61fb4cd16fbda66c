# Elucia storage center: specification

This directory specifies the center of the Elucia storage service (`src/`): a
node.js process that keeps the metadata of files in PostgreSQL, lets clients
and suppliers of disk space talk to it over HTTP, and watches the machines of
the suppliers. The TLA+ modules model its command engine, its registry of
commands with the choice of machines, its file metadata with the table of
replicas, its node monitor, and its accounts and tokens; TLC checks them on
small instances, and TLAPS proves their safety properties for
every value of the constants.

- [The system](#the-system)
- [Modules](#modules)
- [Runs](#runs)
- [Where the code disagrees with its own text](#where-the-code-disagrees-with-its-own-text)
- [Proofs](#proofs)
- [Abstractions and limits](#abstractions-and-limits)
- [Plan](#plan)

## The system

Node runs one callback at a time, so a piece of code between two asynchronous
calls is atomic; everything else interleaves. There are three sources of
interleaving: SQL statements (`modules/queryDB.js` opens a connection for each,
so nothing orders the statements of two requests, and there are no
transactions), HTTP requests to the machines of suppliers, and timers.
`app.js:78` catches every exception that nobody else caught and goes on, so a
callback that throws does not end the process: whoever waited for it waits
forever. A connection that fails is reported twice: `connect()` calls back with
the error, and the query that waited for it does so again (`queryDB.js:17-44`).

A request is handled by a controller, which builds a *command* (a list of
steps, each a list of jobs), gives it to a *worker* and posts it to the
*registry*. The worker runs the jobs; a job is a module under
`commands/iServStorage/` that runs SQL and calls back.

| component | files | state | operations |
|---|---|---|---|
| command engine | `modules/command.js`, `roles/Worker.js`, `controller/CommandOperator.js` | result, step, doingList, jobQueue, progress, redo flag, timer | execute, done, the private skills `:read:` `:write:` `:continue:` `:again:`, stop |
| command registry | `modules/cmdqueue.js` | cmdList, cmdPool, maxListAmount | post, get, put, delete |
| file metadata | `modules/metadataFactory.js`, `metadata.js`, `realpath.js`, `commands/iServStorage/meta*.js`, `file*.js`, `controller/File.js`, `SmartProvision.js` | tables file_info and file_path, the object a call works on | metaPost, metaPut, metaPostPath, fileUpload, fileUploadConfirm, metaDuplication, metaDelete, fileDelete |
| node monitor | `controller/SupplierMonitorCollector.js`, `commands/iServStorage/supplierMonitor.js`, `modules/fileHealthyFactory.js`, part of `modules/fileHealthy.js` | list of nodes, last report of each machine, column status of supplier_usage, the global `myCommand` | a round every 3 s, reports, addNode, removeNode, start; supplierUpdateStatus and registerSupplier by the machines |
| file health and repair | rest of `modules/fileHealthy.js`, `controller/SystemMonitor.js`, `commands/iServStorage/fileRepair.js` | table of files and paths in memory | addFile, addPath, removeFile, getDangerFiles, a repair round every hour |
| supplier selection | `modules/keyvaluestore.js`, `commands/iServStorage/smartProvision.js` | round-robin counter in the storage | read, choose, write back |
| registration, login, tokens | `controller/Register.js`, `Login.js`, `Filter.js`, commands of the same topic | tables of clients, suppliers and tokens; the globals `db` and `token` | check and insert, renew, delete |
| message queue RPC | `modules/amqprpc.js` | pending requests with their timers | makeRequest, reply, timeout |
| the rest | reports, queries, routes, legacy workers, web pages | none of its own | reads, formatting, I/O |

How they interact:

- Controllers start commands and read their result; a job reads and writes the
  `data` of its command; `:read:` and `:write:` copy values between it and the
  storage shared by all commands.
- A metaPost or metaPut is followed by metaPostPath in the *same* command, with
  `:continue:check` in between: it goes on only if the file has no path yet.
- Supplier selection and metadata meet in the jobs that add paths. The monitor
  writes the column by which machines are selected.
- The monitor is itself a repeated command of the engine.
- The callbacks of fileUploadConfirm and metaDelete keep the table of replicas,
  which is loaded from the database at a start. That of fileDelete
  (`File.js:172-178`) calls `removeFile` too, with an undeclared `path`: the
  global that `fileUpload.js:49` set to the name of the last upload. No other
  change of the metadata reaches the table.
- Machines write the column of the monitor themselves, by
  supplierUpdateStatus and by registering; the list of nodes does not notice.
- `myCommand` of the monitor is a global (`SupplierMonitorCollector.js:57` lacks
  a comma), which GET /dbdata, /diskhour and /test replace.
- Nearly every command assigns the global variable `db`; two of them use it
  after waiting for a statement.

What is hard, and what makes each component correct:

- *Engine.* Jobs of one step answer in any order, some before `execute()`
  returns, some twice, some never; a repeated command uses the same job objects
  again while callbacks of the last round are on their way; the operator stops
  the command at any time. Correct: a step starts after the steps before it,
  the client is answered once, no job is forgotten, stop is final, and a
  command nothing prevents from ending ends.
- *Registry.* Keys are reused and the array is cut. Correct: an ID leads to its
  command, array and pool agree.
- *Metadata.* Check-then-act across statements, objects loaded before somebody
  else writes, callbacks in global variables, one of several writes failing.
  Correct: unique names, what is served is what the file should contain,
  deletion is complete and final, folders exist, one callback per call, success
  means saved.
- *Monitor.* Late answers, refusals that arrive in a later round, reports that
  are ignored, a list that is shortened while it is walked, a crash between an
  update and its execution, machines that write the same column, a callback that
  reads a global. Correct: list and table agree where the center wrote last,
  running machines stay, dead ones go.
- *Table of replicas.* A copy in memory that follows the database by
  callbacks and is cut while it is walked. Correct: it misses no copy that is
  served and counts no file twice or after its deletion.
- *Supplier selection.* The counter is copied, used after a query and written
  back. Correct: machines take turns, the copies of a file lie apart.
- *Accounts.* Check-then-insert over several statements, globals that another
  call sets, tokens that are equal within a second. Correct: a name has one
  account and an account both its rows, a client gets its own token, a token
  lives until somebody ends it, a call ends.

The full list of these hazards, with lines and the properties that cover them,
is in `PROJECT.json`.

## Modules

| module | models | proofs |
|---|---|---|
| `CommandEngine` | one command and its worker | `CommandEngineProofs` |
| `CommandPipeline` | what a command promises to whoever writes its list; `CommandEngine` refines it | `CommandEngineProofs` |
| `CmdQueue` | the registry | `CmdQueueProofs` |
| `Provision` | extends `CmdQueue`: what the posted commands do to the counter of machines | `ProvisionProofs` |
| `FileMeta` | both tables and the calls that work on them | `FileMetaProofs` (any calls), `FileSequenceProofs` (calls one by one) |
| `FileHealth` | extends `FileMeta`: the table of replicas and the callbacks that keep it | `FileHealthProofs` (calls one by one) |
| `NodeMonitor` | the monitor, the machines, the list and the column | `NodeMonitorProofs` |
| `Accounts` | clients, suppliers and tokens | `AccountsProofs` |
| `MC*` | instances for TLC | |

**CommandEngine.** `result`, `step`, `doing`, `progress` are the fields of
`command.js`. `jobQueue` is a copy of a step that is only popped at its end, so
its length `queued` stands for it. `redo` and `waiting` are the flag and the
timer of the worker. `execute()` drains the queue, and a `done()` called inside
it may load the next step and call `execute()` again; the model flattens this
recursion: while `queued > 0` only `RunToEnd`, `Dispatch`, `Refuse` and `Throw`
are enabled, and everything that needs a new turn of the event loop waits. `Done` is `Worker.done` with `command.done` and
`nextStep`, whose two branches are `Loads`/`LoadStep` and
`Finishes`/`Complete`. The number of callbacks a job owes is chosen when it is
dispatched: 0 (an exception in a later callback), 1, or 2 (a failed connection
in `queryDB.js`, several machines in `supplierMonitor.js`). `FireTimer` starts
the next execution; what the last one still owed moves to `stale`, and its
callbacks count for the round that is running, as in the code. `heard`, `lost`
and `round` are history.

**CommandPipeline** knows nothing of queues and callbacks: a job starts once
per execution and after all jobs of earlier steps, the command is done exactly
when all jobs are, and a stopped command starts nothing. The refinement maps
`started` to the jobs handed out of the queue, `finished` to those no longer in
doingList.

**CmdQueue.** One action per operation; `post()` is two actions, for a registry
with and without free slots. Positions count from 1 where keys count from 0.
`ID` keeps, for each command that is still listed under it, the ID that
`setID()` gave it. The controllers call post and get; put and delete are modelled
as the module exports them, since no controller calls them.

**Provision** composes the registry with the commands that are posted to it.
`provisionNum` is the counter in the key-value store, `pn[c]` the copy that
`:read:` puts into a command, and `Write` is `:write:`. `Submit` is a request of
File.js, which posts its command (an action of `CmdQueue`) and runs it:
fileUpload reads the counter at once, metaPost and metaPut after their
first job (`MetaDone`), when `:continue:check` lets them. `AskCopies` is a request of
SmartProvision.js, which runs its command and does not post it. `Select` and
`SelectNone` are the answer of the query with smartProvision's loop; a metaPost
writes at once, an upload only after the job that registers its file (`Sent`),
and not at all when that job fails. `Change` is the monitor at work on the table
of machines. `alone` and `times` are history: `times` counts how often each
machine was chosen by commands that ran one after the other on an unchanged
table and left no machine out, and starts afresh whenever that is not so.

**FileMeta.** `info` and `paths` are the rows. A call is one execution of one
command; `pc[c]` says which statement it has sent, and each statement is one
action: the select of the file (`LoadInfo`), of its paths (`LoadPaths`), of the
content of a folder (`LoadChildren`), the insert or update of the row
(`WriteInfo`), and then the parent folder and the paths side by side (`Write`,
with the open writes in `todo`). The code between two statements belongs to the
action of the first: `Handle` dispatches to the callback of each command
(`PostLoaded`, `PutLoaded`, ...). `Fail` is the error branch of each statement,
and `failed` remembers what went wrong in a call (`Mishap`). A branch that
answers may have been that of a failed connection (`Reported`), and then
`CallBackAgain` runs the callback once more, at any later time. A branch that
only logs or throws does the same the second time. The one place where the
second report is left out is the select of the paths (`FailPaths`), where it
would take a counter past zero and run the handler of the command twice on one
object.
`Answer` runs the callback and, for a metaPost or metaPut of a file without
paths, lets the command go on to metaPostPath (`upcoming`). metaPut.js leaves
`checkResult` and `saveResult` global: `lastPut` says whose they are. `proof`
is history: the content that was last confirmed for a path.

**FileHealth** adds the table `files` to every action of `FileMeta`: `Callback`
is what the controller does when the command of a call ends, `AddPath` after a
confirmation and `RemoveFile` after a metaDelete, with the entry it passes over
behind each one it removes; after a fileDelete it removes a file that somebody
uploaded (`LastUploads`) or, without a `path`, throws. Callbacks that a failed
connection repeats run here twice as well. `Restart` is `create()` of the factory (`Loads`),
which reads the files that are normal and their paths on the machines that are
on; `unseen` remembers the paths of the others.

**NodeMonitor.** A round is `Ask` (timer, `:read:` and the select), `List`
(the answer of the select; requests to all machines that have a row), `Respond`
(a machine answers or refuses; `RespondOdd` answers 200 with a result that is
not 1), `HearUp`, `HearOdd` and `HearDown` (the answer arrives). The first
reply ends the round, because `todo` starts at 0 in supplierMonitor.js; the
others arrive late and may end the *next* round. `Report` is the end of the job
with the callback of the collector: `Review` has the loop that removes nodes,
including the node it passes over each time it removes one, and the loop that
adds them. If another request has replaced the global `myCommand` (`ours`), the
callback finds no data there: with a node in the list it throws, the worker
catches that before `repeat()` (`Worker.js:18-27, 190-192`), and the monitor is
`stuck` for good; without nodes it does nothing, round after round.

Updates of the column are sent without waiting (`updates`) and executed by
`Update`. `Tell` is supplierUpdateStatus and `Register` the row of a new
machine; `told` is history, and says that the machine wrote its row last. `age`
tells whether the period has passed since the last report: the timer fires
exactly one period after the end of a round, so a report is young only if it
came after that end (`late`). An odd reply is stored as `{}`, without status
and timestamp. Each round has its own object of the job (`Instance`). That of
the first round after a start found no oldData, and its replies may come after
the next `:read:`: what would be put back is then looked up in an undefined
variable, which throws, so nothing is reported (`PutBack`). `Flip` is a machine
that goes up or down, `Crash` and `Boot` the end and start of the process.

**Accounts.** The tables are sets of records. `pc[c]` names the statement a call
has sent, and an action is that statement with its callback up to the next one:
`RegisterSelect`, `RegisterInfo`, `RegisterAccount` are the three statements of
registerClient, and so on. `db` and `token` are the two globals. `DbOf` is what
each command leaves in `db` when it starts; `ThroughDb` sends the next statement
through it, and loses the call when it is undefined. `CreateToken` builds the
two statements of tokenCreate with the token it computes (`own`), while the
answers read the global. A token is its client and the second in which it was
made, which is all that tells two tokens of one client apart. `Fail` is a
statement that fails, in the way each command treats it; `OtherCommand` stands
for all other commands of the center, which set `db`. `ended` is history: the
tokens somebody asked to renew, delete or log out. `Single` lists operations of
which at most one call is under way at a time. It is an assumption about
clients: nothing in the code sees to it (see *Runs*).

Operators named after another with the comment "Wrong on purpose" are what the
code would be with a plausible bug. Nothing of the specifications uses them.
Each serves to see that a property would notice: put in the place of the
operator it varies, it makes TLC report that property as violated
(`PROJECT.json`, `mutants`).

## Runs

Every configuration says CHECK_DEADLOCK FALSE: a command ends, the calls of an
instance are used up, slots and incidents are bounded.

| run | instance | shows |
|---|---|---|
| `engine_faults` | four steps with six jobs, three of them in one step; a storage read, a `:continue:`, a command that calls back at once; every job calls back 0 to 2 times; all faults; DELETE at any time | StepBarrier, AnsweredOnce, NoJobDropped, StopIsFinal |
| `engine_repeat` | the same shape with `:again:`, three executions, late callbacks and refusals | the engine implements CommandPipeline (`PipelineSpec`); FullProgress; Completes and Repeats under fairness |
| `queue` | three commands, two slots, limit 1 at first; three machines, two copies of a file, the counter up to 4 | PoolIsList, IDLeadsToCommand, Balanced, DistinctCopies |
| `files_sequential` | a file in a folder, two machines, two contents, any four commands one after the other, without renames; one restart | UniqueName, ReadyIsCurrent, DeleteCascades, FolderExists, OneCopyPerMachine, DeletedForGood; NoCopyMissed, CountedOnce |
| `files_concurrent` | any three commands, two at a time, renames, failing statements and connections | OneCallbackPerCall, SuccessIsSaved, ReadyWasConfirmed |
| `files_live` | any two commands, interleaved, no failing statement | CallsEnd |
| `nodes` | two machines, any initial state of machines and table (with or without a row), two requests to a machine under way, one incident | StatusFollowsNodes, NoFalseRemoval, FailedNodeLeaves, RunningNodeJoins |
| `accounts` | any three commands interleaved, two names, one address, one failing statement, two seconds; one login and one registration of each kind at a time | UniqueAccount, RegisteredWhole, UniqueSupplier, TokenLives, LoginGetsOwn, OthersAreAnswered, CallsEnd |
| `files_same_name`, `files_put_race`, `files_folder_deleted`, `login_token` | the smallest instance | a counterexample each, see the next section |

Why these bounds are enough to meet the interesting cases:

- *Engine.* Three parallel jobs give every order of answers with one in the
  middle; two callbacks per job is what the code can produce for SQL; three
  rounds let a callback be late by two.
- *Registry and selection.* Two slots exceed the initial limit once, and three
  commands leave one to post when all slots are taken. Three commands give an overlap and one
  that runs into it. With two copies, three machines are one too many,
  enough, or one too few as they come and go, and an asking machine leaves two.
  A counter up to 4 goes once around the table and on.
- *Metadata.* The races take two calls: with a third that prepared the file
  they are all in the concurrent instance. Sequential behaviour needs length
  instead: four calls post, confirm, change and delete a file. The properties
  of the sequential run do *not* hold for concurrent calls; this division is
  the main result about the metadata and the findings below give the races.
  Four calls also post, confirm, restart and confirm again, which is what the
  table of replicas needs; renames are left out because it does not follow them
  (see below).
- *Monitor.* Two machines suffice for a machine that stands behind a removed
  one and for answers in either order; two requests under way are the late one
  and the current one, of the first round after a start or of two later ones. The
  initial state is arbitrary, so that what one
  incident leaves behind is already the start of other behaviours: all that a
  crash can leave in the table is among the initial states. One incident is
  enough for each of the exceptions below to occur: a machine that is down at
  the start is stuck in the list when `myCommand` is replaced. The run takes
  three to four minutes, nearly all of it for the liveness properties; the
  safety properties are proved for any number of incidents.
- *Accounts.* Two calls race, a third prepares a token or a row that the race
  is about; one client exists at the start. One address suffices for the
  check, since addresses are compared with nothing else. Two seconds tell equal tokens
  from different ones. `Single` matters: with two logins under way
  LoginGetsOwn fails (`login_token`), and with two registrations of one name
  under way UniqueAccount and UniqueSupplier fail, because check and insert are
  different statements. What the run shows is that nothing else breaks them:
  not failures, not `db`, not renewals, checks, deletions and logouts, which
  overlap with everything.

For safety the bounds are there to find counterexamples, before and after a
change: what the passing runs check of it is also proved without them.

Fairness. `CommandEngine!Fairness`: node goes on with a turn until it ends, a
timer that is set fires, and a callback that will be made is made (the jobs
whose callback is never made are chosen in `Dispatch`, and the properties
except them by `Halted`). `FileMeta!FairSpec`: the database answers a statement
that was sent. `NodeMonitor!Fairness`: a process that ended is started
again (by whoever operates it), its timer fires and its selects return; of each
machine, requests are answered or refused and replies arrive, though not
necessarily each of them; nothing is assumed of updates of the table. `Accounts!FairSpec`: the database
answers a statement. All of it is weak fairness, and none
is assumed for requests of clients, for the operator or for machines that go up
and down.

What the liveness properties except:

- `Completes`, `Repeats`: an execution with a lost job or a DELETE. The code has
  no timeout for jobs, so one callback that is not made leaves the command
  undone for good.
- `FailedNodeLeaves`, `RunningNodeJoins`: `Stalled`. When the select of
  a round fails, or every machine answers it with a status other than 200, or
  the only reply is one of the first round that throws, no
  callback is made, no timer is set, and the monitor rests until the center is started again.
- `FailedNodeLeaves` also excepts a monitor that is `stuck`, and
  `RunningNodeJoins` one whose `myCommand` is not its own (`~ours`): after one
  GET /dbdata, /diskhour or /test no node is removed and no machine added until
  the center is started again. `RunningNodeJoins` speaks of machines that have
  a row.

`SuccessIsSaved` is about the writes a call began, with two exceptions:
fileUploadConfirm reports "confirm
ok" whatever `save()` says, and a metaPut may report the success of another. It
also says which commands succeed without the paths that they could not select
(`Blind`): a metaDelete or metaPut then leaves paths alive or ready and reports
success, which is what the code does and no other property of the concurrent
run denies (`DeleteCascades` is checked where no statement fails).
`OneCallbackPerCall` likewise states what holds in spite of the global callbacks of
metaPut.js and of failed connections: a call is called back twice only if one of
its own connections failed; without such calls, calls and callbacks are equal in
number; and every other command but metaPut is called back once.
`StatusFollowsNodes` excepts the rows their machines wrote last (`told`): a
machine that tells a status the list does not have keeps it until the list
changes for it or the center is started again. `TokenLives` excepts tokens that somebody
asked to end (`ended`), for tokens repeat: a login in the second in which its
client logged out finds the row of the old token and hands it out dead, and a
renewal in the second in which its token was made retires what it hands out.
`NoCopyMissed` excepts copies on machines that were off at the last start, and
`CallsEnd` of the accounts counts a call that an exception gave up as ended;
`OthersAreAnswered` says for which commands that can happen.

## Where the code disagrees with its own text

| run | the text | the code |
|---|---|---|
| `files_same_name` | `File.js:316` create metadata, check whether it exists | two metaPost that both select before either inserts create two live rows |
| `files_put_race` | `metadataFactory.js:190` a dirty md5 sets status 0, the file must be uploaded again | a confirmation that loaded the file before a metaPut writes status 1 after it: the old content is served |
| `files_folder_deleted` | `fileDelete.js:28` empty directory: delete, else return false | the query uses `_data.filename`, the controller sends `fileName`: a full folder is deleted, without any concurrency |
| `login_token` | `tokenCreate.js:32` look whether *this* token exists already, for the answer of this login | the declaration of the variables ends at line 21, so token is global: of two overlapping logins the first answers with the token of the other client |

The models, or the reading that led to them, show further behaviours of this
kind that have no run of their own:

- An error of a job is only recorded (`command.js:3` "0 = failed"); the result
  stays 101, "doing", although nothing is being done any more.
- `post()` finds an empty key and gives it to the command (`cmdqueue.js:29`), in a
  loop without break: the command takes every free slot.
- A file posted while its folder is being deleted ends up without a folder, and
  a path added while the file is being deleted stays live.
- In the first round after a start all machines but the first to answer are
  removed from the list and come back round by round
  (`SupplierMonitorCollector.js:82` says "no such node or node is crash").
- After a metaPut that renames a file without paths, metaPostPath loads the old
  name and inserts a second file under it.
- The table of replicas keeps the copies of a content that metaPut replaced, the
  old name of a file it renamed, so that a later metaDelete of another file of
  that name removes its entry, and the entry of the file that fileDelete deleted.
- The list of files to repair is made once, with the command
  (`SystemMonitor.js:70`), and the command is repeated with it.
- `myCommand` of the monitor is a global, so a request for a report stops the
  reviews of the nodes, or the whole monitor, until the next start (see
  `stuck` above).
- A machine that tells its own status, or registers, makes the column differ from
  the list of nodes, and nothing compares them again.
- A command whose connection to the database fails may be answered twice
  (`fileUploadConfirm.js:26-33` runs its callback in both reports).
- The callback of fileDelete removes the file of the last upload from the table of
  replicas (`File.js:177`), or throws after it has answered.
- Overlapping selections take the counter back to where one of them read it.
- Between the two inserts of registerClient another command may set `db` to
  undefined: the client exists without an account and nobody is answered
  (`RegisteredWhole` and `OthersAreAnswered` bound the damage). In tokenRenew the
  new token exists and the old one lives on. A renewal whose old token could not
  be retired reports success.
- `Filter.js:83` adds a number to a date that is a string. The sum is a longer
  string of digits, and no token is found expired.
- Login.js:59 sets the session before it is known that a token could be
  inserted.

## Proofs

All proofs are about the specifications as TLC runs them, for every value of
their constants: any list of jobs, any number of commands, calls, names,
machines, slots and requests. They assume what the modules assume of these
constants, which TLC evaluates for the instances above: `TodoAssumption` (at
least one step, no empty step, every literal of a list is an object of its own),
`JobAssumption` (types; amounts of progress from 0 to 100),
`CmdQueueAssumption`, `ProvisionAssumption`, `FileMetaAssumption`,
`NodeMonitorAssumption` and `AccountsAssumption` (types, finite sets where
something is counted, placeholders that are no values). What a theorem assumes
beyond that is in its statement.

| theorem | states |
|---|---|
| `EngineTyped` | `Spec => [](TypeOK /\ Shape)` |
| `EngineStopIsFinal` | `Spec => StopIsFinal` |
| `EngineDropsNoJob` | `Spec => []NoJobDropped` |
| `EngineFullProgress` | `Spec => []FullProgress` |
| `OrderWithoutAgain` | `NeverAgain` implies `Spec => []StepBarrier` |
| `OrderWithAgain` | `AtMostOnce` implies `Spec => []StepBarrier` |
| `EngineImplementsPipeline` | `Spec => PipelineSpec`, the refinement of `CommandPipeline` |
| `ClientAnsweredOnce` | `OneContinue` implies `Spec => []AnsweredOnce` |
| `QueueCorrect` | `Spec => []` of the four invariants of the registry |
| `ProvisionImplementsQueue` | `ProvSpec => Spec` of `CmdQueue` |
| `RegistryTyped`, `RegistryAgrees`, `RegistryFinds` | `ProvSpec => []` of TypeOK, PoolIsList, IDLeadsToCommand, by the refinement |
| `CopiesAreDistinct` | `ProvSpec => []DistinctCopies` |
| `ChoicesAreBalanced` | `ProvSpec => []Balanced` |
| `MetaTyped` | `Spec => []TypeOK` of `FileMeta` |
| `ServedWasConfirmed` | `Spec => []ReadyWasConfirmed` |
| `ReportedSuccessIsSaved` | `Spec => []SuccessIsSaved` |
| `EveryCallAnswersOnce` | `Spec => []OneCallbackPerCall` |
| `NamesAreUnique` | `OneByOne` implies `Spec => []UniqueName` |
| `ServedIsCurrent` | `OneByOne` implies `Spec => []ReadyIsCurrent` |
| `DeletionCascades` | `OneByOne` implies `Spec => []DeleteCascades` |
| `MachinesHoldOneCopy` | `OneByOne` implies `Spec => []OneCopyPerMachine` |
| `DeletedStaysDeleted` | `OneByOne` implies `Spec => DeletedForGood` |
| `FoldersExist` | `OneByOne` without fileDelete implies `Spec => []FolderExists` |
| `MetadataOutlivesRestarts` | `OneByOne` without fileDelete implies that the invariants of the metadata and DeletedForGood hold of `HealthSpec`, with restarts |
| `TableMissesNoCopy` | `OneByOne` without fileDelete implies `HealthSpec => []NoCopyMissed` |
| `FilesAreCountedOnce` | `OneByOne` without fileDelete implies `HealthSpec => []CountedOnce` |
| `NodesTyped` | `Spec => []TypeOK` of `NodeMonitor`, no machine twice in the list |
| `TableFollowsNodes` | `Spec => []StatusFollowsNodes` |
| `RunningNodesStay` | `Spec => NoFalseRemoval` |
| `AccountsTyped` | `Spec => []TypeOK` of `Accounts` |
| `OneAccountPerName` | `"register" \in Single` implies `Spec => []UniqueAccount` |
| `RegistrationIsWhole` | `Spec => []RegisteredWhole` |
| `OnlyDbLosesAnswers` | `Spec => []OthersAreAnswered` |
| `OneSupplierPerAddress` | `"supplier" \in Single` implies `Spec => []UniqueSupplier` |
| `LoginsGetTheirOwn` | `"login" \in Single` implies `Spec => []LoginGetsOwn` |
| `TokensLive` | `"login" \in Single` implies `Spec => []TokenLives` |

Few of these properties are inductive. The arguments:

*Shape of the engine.* Type correctness is not inductive: that `NextJob` is a
job needs `queued <= Len(Todo[step])`, that a stopped command hands out nothing
needs `result # Doing => queued = 0`. `Shape` adds this: the queue and doingList
belong to the current step, jobs not handed out are in doingList, and a command
that is stopped, done or waiting has nothing queued. Most of the work is one
lemma about `Done` (`DoneKeepsShape`), cited for each of its callers. StopIsFinal
and NoJobDropped follow from it, and so does FullProgress: a finished command has
an empty doingList, so no callback finds a job whose progress it could add.

*The order of steps.* `StepBarrier` says that a step starts only after all jobs of
the steps before have called back in the same execution. `Barrier` strengthens
it by the current step: each of its jobs has called back or is in doingList. A
late callback of an earlier execution breaks this, since it ticks off a job of
the running one, so the proof must show that there is none (`NoLeftOver`). That
is true for two kinds of commands. Without `:again:` the timer is never set
(`OneRound`). With it, if every job calls back at most once, a job that owes a
callback is in doingList (`OwesOne`), so that a command whose doingList is empty,
as it is when the timer fires, is owed nothing. A repeated command with jobs
that call back twice is outside both theorems, and rightly: the run
`engine_repeat` does not check `StepBarrier` because it fails there.

*The pipeline.* The refinement needs no such division, because the pipeline
counts a job as finished when it is ticked off, by whichever callback. Two facts
about the engine make it go through: a command that is doing has a job left
(`Busy`: otherwise done() would have completed it, and no callback would ever do
so), and the timer is set only when the list is at its end (`AtEnd`). AnsweredOnce
counts successes and refusals. A `:continue:` that refuses stays in doingList, so
its step never ends, and it is handed out once: the number of refusals of the
current execution is the number of such jobs in doingList. With two of them in
one step a client may be answered twice; `OneContinue` excludes that, as every list
of the controllers does, which put `:continue:` alone into its step
(`File.js:329-332`, `File.js:416-419`, `Login.js:37-40`). Late callbacks do not
answer because they come from commands only (`OfCommands`).

*The registry.* `IDLeadsToCommand` speaks of what `get()` returns, which for an
ID outside the array is "-1". `IInv` has instead that an ID is a position of the
array and that its command is there (`IDsArePositions`). `WithinLimit` is needed
for the step in which `delete()` cuts the array: what it cuts is then the last
slot. `PoolIsList` is needed because put and delete ask the pool. `WithinLimit`
is only proved: no run of its own adds to the theorem.

*The choice of machines.* Each step of the commands that choose machines posts
one, or leaves the registry alone, so `Provision` implements `CmdQueue` and
inherits its theorems. DistinctCopies is arithmetic: numbers that differ by less
than the number of rows have different remainders. Balanced needs more than that
the numbers of turns differ by one: the machines that had one turn more must be
the ones *behind* the counter. `InTurnOf` says that, seen from the counter, the
rows are first those with the least number of turns and then those with one more.
A choice of one machine keeps it by moving the counter (`RoundKeepsTurns`), and a
choice of several is as many of these, by induction. `Held` ties the copy of
the counter in a command that runs alone to the counter in the storage.

*The metadata, any calls.* `TablesTyped /\ Calls` is the invariant: rows and
objects have their types, a path belongs to a file that exists, an object whose
id is not 0 has a row (`Good`), what is open at a statement is what that statement
can have left (`Local`), and a call works on what was asked for (`Asks`). `Moves`
says where a step leads a call, whoever else runs. `Saved` adds for
SuccessIsSaved when `failed` and `ok` may be set (`FailedAt`, `SuccessAt`), and
which commands get past a failed select of paths (`BlindKept`). `Accounted` is
for OneCallbackPerCall: the callbacks of the calls are as many as the calls that
ended, and the own ones of each call with it, as long as no connection of theirs
was reported twice; `AgainKeeps` shows that the second report changes nothing
but the number of callbacks of its call.

*The metadata, calls one by one.* `OneByOne` says that one call is under way at
a time, that no statement fails and nothing is renamed. It is an assumption about
clients, as in the run `files_sequential`; the first two findings and the list
below them show what overlapping calls do to the same properties.
Under it the object of a call is what the tables hold, except for what the call is about to
write. `Stage` says so at each statement: before the row is written, `Agrees` (the
object differs from its row where it is dirty only, its paths are those of the
file, at most one for each machine, a path it will make ready has the content
that was confirmed, a deleted file takes all its paths along, a folder that will be
deleted is empty), afterwards `Writing` (the row agrees, and so do the open writes
of paths). `Held` is what the tables then satisfy at all times: the four
invariants, where what they say about a path may still be owed by an open write
(`Awaited`). Between calls nothing is open, and `Held` is what the theorems
state. FolderExists needs one clause more, that the parent of a live file lives or
will be looked for by an open write (`Foldered`); it assumes that nobody calls
fileDelete, which deletes full folders (`files_folder_deleted`).

*The table of replicas, calls one by one.* What the callbacks do to the table has
to be put in relation to what the call wrote before, so the invariant has three
parts. `Meta` is that of the metadata, which restarts leave alone. `Aimed` says
what the object of a call is about: a metaDelete ends with a deleted file of the
name it was asked for, a confirmation with an uploaded file and one path made ready,
that of the machine that confirmed, and nobody else deletes a row or makes a path
ready. `Tabled` is the table: `Listed` (an entry has the id and the name of a file,
and no two entries have the same name), `Lasting` (a file with an entry lives, or
the metaDelete of that name has not ended), `Covering` (a served path has its entry,
was not to be seen at the start, or its confirmation has not ended). That removing
by name hits the right entry depends on UniqueName; that it hits only one is why
the loop, which passes over the entry behind each one it removes, is right
(`RemovedFacts`). That a start finds all copies again depends on DeleteCascades and
on `Sent`: a file with a served path was uploaded. NoCopyMissed and CountedOnce
are `Tabled` without calls under way. fileDelete has to be excluded because it
leaves its entry behind and removes that of another file, a new name because
the entry keeps the old one; both are listed among the divergences.

The loops are functions defined by recursion, and TLA+ takes such a definition for a
CHOOSE: before anything can be said of `Kept[i]` there must be a function with that
equation. `Recursion` shows that there is, by a least argument at which none
exists (`Least`), and `PicksFacts` in the same way what the loops collect.

*The monitor.* The row of a machine is not what the list says while updates are
on their way. `Written` speaks of the last update that was sent (`AtLast`), or of
the row if there is none, for every row that its machine did not write last; while
the center is off only machines can have sent updates. A crash
empties both the list and the updates, and a start writes 1 for every machine it
loads, behind what was told before. The sequences are what is hard here: the loop that removes
nodes by index from a list it shortens (`PruneKeeps`: order kept, no machine
twice, none lost that reported "up"), the machines in order of their numbers
(`AscendingIsSet`, from the cardinalities of initial segments), and adding without
duplicates. For NoFalseRemoval `Certain` says that a machine that reported and
ran ever since has no refusal and no odd reply on its way, of whichever instance
of the job, which is why an old answer cannot
remove it.

*The accounts.* `Shape` ties the statement a call waits for to its command and
to what it has found so far. `OneAtATime` is what `Single` says, as an
invariant. With it UniqueAccount becomes inductive by `NameIsFree`: the name of a
registration past its check is the name of no account, since only registrations
add any. `StillFree` says the same of suppliers, including the row of an
interrupted registration that a later one takes up. LoginGetsOwn needs
`HoldsOwn`: while a login is between two statements the global token is its
own, since renewals and checks that run in between do not assign it. TokenLives needs
`EndedOnRequest`: a statement that retires a token was sent by somebody who asked
to end it.

Only model-checked: all
liveness (`Completes`, `Repeats`, `CallsEnd` of both modules, `FailedNodeLeaves`,
`RunningNodeJoins`), which is out of reach of the provers used here; and the runs
with a counterexample, which are instances. The library's induction theorems take
an operator as a parameter, which the provers cannot instantiate; where a
proof needs induction it is stated for a set (`InductionOverNat`, `Least`).

## Abstractions and limits

- *Engine.* Log and error lists are left out except for whether an error was
  recorded. `pause()` and `lose()` have no caller. What jobs do to `data` is in
  the modules of the components they belong to.
- *Registry.* Clients ask for IDs they were given.
- *Selection.* Of the key-value store only the one key and its post and get are
  modelled: nothing uses its put and delete, or keys with dots. The query of
  smartProvision has a fixed order as long as its table does not change.
- *Metadata.* One client; files have no parts; content is represented by its
  md5, bytes go with it and MIME types are stored only. Which machine is
  selected is arbitrary, and none may have space. Folders are exempt from
  `DeleteCascades` and `OneCopyPerMachine`: a folder gets a path at every
  metaPut and the code never loads it. Each statement is atomic; a failed
  statement had no effect. metaGet, metaList and fileDownload only read.
- *Replicas.* The center restarts between calls and loads the table at once:
  the confirmations that come while the factory is loading, and its failing
  statements, are hazards without a property. Health, risk and summaries are
  computed from the table and change nothing. A repair round sends requests to
  machines and waits for none of them.
- *Accounts.* A password is part of a name: two accounts of a name are two rows
  that login finds. Sessions, the time a token expires and the columns of a
  profile are left out; a check may refuse a token that lives, which stands for
  expiry. Rows that are equal in all columns count once: the code only asks
  whether there is one. Ids are counted where the code takes them from a
  sequence of the database.
- *Monitor.* A fixed set of machines, each with one address and no row or one
  with status 0 or 1; no code deletes a row or sets another status.
  Registrations are those of `Accounts` seen from the monitor: one statement that
  inserts the row. The commands that replace `myCommand` keep no `data.data`, so
  the callback finds it undefined. Updates of one row are executed in the order
  in which they were sent and do not fail; a machine answers or refuses, it is not silent; an answer is one
  chunk; a round begins exactly one period after the end of the last (the
  code's clock counts whole seconds, the period is 3 s). A crash executes any
  one of the updates that were sent, or none.
- *Not modelled*: the RPC over a message queue (`modules/amqprpc.js`,
  `messagequeue.js`, `jobpublisher.js`, `jobreciver.js`), which nothing in
  `app.js` or the controllers starts, so what it would be connected to cannot be
  read from the code; the image worker (`modules/worker.js` and its helpers),
  which no controller uses; routes and the application, which wire the rest
  together; reports and queries, single statements that read or overwrite one
  row; roles that are stubs; the web pages under `public/`, which make up most
  of the lines of the repository: third-party libraries (jquery, spine,
  require) and views without state of the service. `PROJECT.json` has a reason
  for each.

## Plan

Written so far, in this order: `CommandEngine` with `CommandPipeline`,
`CmdQueue`, `FileMeta`, `NodeMonitor`, `Provision` over `CmdQueue`, `FileHealth`
over `FileMeta`, `Accounts`, and the proofs about all of them. To come:

1. A composition of `CmdQueue` with several `CommandEngine`s: what a client
   that polls `/command/ID` may see.
2. `FileHealth` under concurrent calls, with the time the factory needs.
