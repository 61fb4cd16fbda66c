------------------------------- MODULE FileMeta -------------------------------
(***************************************************************************)
(* The metadata of files: the tables file_info and file_path, the objects  *)
(* that modules/metadataFactory.js loads from them and saves to them, and  *)
(* the commands that do so (commands/iServStorage/meta*.js and file*.js).  *)
(*                                                                         *)
(* A call is one execution of one command.  Every SQL statement is sent on *)
(* a connection of its own and is one action; between two statements of a  *)
(* call any statement of another call may run.  What a call does between   *)
(* its statements happens in the action of the statement before: the loop  *)
(* over the paths, the counter of open writes and the callback.            *)
(*                                                                         *)
(* One client; a file has no parts; bytes and MIME types are left out: the *)
(* code treats bytes as it treats the md5 and only stores the type.        *)
(***************************************************************************)
EXTENDS Integers, Sequences, FiniteSets

CONSTANTS
    Call,         \* the calls; each is made at most once
    Name,         \* file names, those of folders end in "/"
    Dir,          \* the names of folders
    Parent,       \* the folder part of a name, or NoName
    NoName,
    Machine,      \* the machines of suppliers
    Md5,          \* what the contents of files hash to
    NoMd5,        \* the md5 of a file that was posted without one
    Given,        \* the md5 a client may send, NoMd5 for none
    Ops,          \* the commands of this instance, see Operation
    Rename,       \* whether a metaPut may bring a new name
    Replication,  \* config.fileStrategy.replication
    MaxActive,    \* BOUND: calls that are under way at the same time
    Faults        \* whether an SQL statement may fail: the database refuses it, or
                  \* there is no connection and queryDB may call back twice

\* metaPost, metaPut, metaPostPath, fileUpload, fileUploadConfirm,
\* metaDuplication, metaDelete and fileDelete.
Operation == {"post", "put", "path", "upload", "confirm", "dup", "delete",
              "fileDelete"}

ASSUME FileMetaAssumption ==
    /\ IsFiniteSet(Call)
    /\ Dir \subseteq Name
    /\ NoName \notin Name
    /\ Parent \in [Name -> Dir \cup {NoName}]
    /\ NoMd5 \notin Md5
    /\ Given \subseteq Md5 \cup {NoMd5}
    /\ Ops \subseteq Operation
    /\ Rename \in BOOLEAN
    /\ Replication \in Nat \ {0}
    /\ MaxActive \in Nat \ {0}
    /\ Faults \in BOOLEAN

VARIABLES
    info,       \* rows of file_info
    paths,      \* rows of file_path
    proof,      \* history: the content a supplier last confirmed, per path
    pc,         \* where a call is
    ask,        \* what it was asked
    obj,        \* the metadata object it works on
    todo,       \* the writes of metadataFactory.save that are still open
    failed,     \* history: what failed in a call, see Mishap
    answers,    \* how often the callback of the call ran
    ok,         \* the result the last of these callbacks reported
    upcoming,   \* metaPostPath commands that ":continue:check" let through
    lastPut     \* whose function the global saveResult of metaPut.js is, or NoName

\* A write, the select of the paths, or a connection that will be reported once
\* more, and one that was.
Mishap == {"write", "paths", "connection", "twice"}

tables == <<info, paths, proof>>
calls  == <<pc, ask, obj, todo, failed>>
vars   == <<tables, calls, answers, ok, upcoming, lastPut>>

Normal  == 1
Deleted == 3   \* status; 0 is "not uploaded"

-----------------------------------------------------------------------------
(* Rows and objects *)

Live(n)      == {i \in DOMAIN info : info[i].name = n /\ info[i].status # Deleted}
LivePaths(i) == {p \in DOMAIN paths : paths[p].file = i /\ paths[p].status # Deleted}

\* An object without rows behind it, as load() makes one of the request.
Fresh(c, a) == [id |-> 0, name |-> a.name, status |-> 0, md5 |-> a.md5,
                dirty |-> {}, paths |-> {}, client |-> c]

\* parseMeta(): the object of a row.
Loaded(c, i) == [Fresh(c, ask[c]) EXCEPT !.id = i, !.name = info[i].name,
                    !.status = info[i].status, !.md5 = info[i].md5]

\* addRealPath() refuses a second path with the same file_path, that is on the
\* same machine, and its rows come in no particular order.
Distinct(S) == \A p, q \in S : paths[p].machine = paths[q].machine => p = q
LoadedPaths(i) ==
    {S \in SUBSET LivePaths(i) :
        /\ Distinct(S)
        /\ \A p \in LivePaths(i) : \E q \in S : paths[q].machine = paths[p].machine}

PathObject(p) == [id |-> p, machine |-> paths[p].machine,
                  status |-> paths[p].status, dirty |-> FALSE]
\* Wrong on purpose, to see a property fail: a path is born ready.
ReadyPath(m) == [id |-> 0, machine |-> m, status |-> Normal, dirty |-> TRUE]
NewPath(m) == [id |-> 0, machine |-> m, status |-> 0, dirty |-> TRUE]
Marked(S, s) == {[p EXCEPT !.status = s, !.dirty = TRUE] : p \in S}

\* Wrong on purpose, to see a property fail: paths are left alone.
SetDeletedRow(o) == [o EXCEPT !.status = Deleted, !.dirty = @ \cup {"status"}]
SetMd5Only(o, m) == [o EXCEPT !.md5 = m,
                              !.dirty = IF o.md5 # m THEN @ \cup {"md5"} ELSE @]

\* setStatus(3) takes the loaded paths along, setValue("md5") resets them.
SetDeleted(o) == [o EXCEPT !.status = Deleted, !.dirty = @ \cup {"status"},
                           !.paths = Marked(@, Deleted)]
SetMd5(o, m) == [o EXCEPT !.md5 = m,
                          !.dirty = IF o.md5 # m THEN @ \cup {"md5"} ELSE @,
                          !.paths = Marked(@, 0)]
SetName(o, n) == [o EXCEPT !.name = n,
                           !.dirty = IF o.name # n THEN @ \cup {"name"} ELSE @]
SetConfirmed(o, p) == [o EXCEPT !.status = Normal, !.dirty = @ \cup {"status"},
                                !.paths = (@ \ {p}) \cup Marked({p}, Normal)]

-----------------------------------------------------------------------------
(* The end of a call *)

\* The callback runs with the given result.  When metaPost or metaPut report a
\* file without paths, ":continue:check" lets the command go on to metaPostPath;
\* the engine goes on once, whatever further callbacks the job makes.
Answer(c, o, result) ==
    LET client == o.client
        more   == /\ result
                  /\ ask[c].op \in {"post", "put"}
                  /\ o.paths = {}
                  /\ answers[client] = 0
    IN  /\ pc' = [pc EXCEPT ![c] = "done"]
        /\ obj' = [obj EXCEPT ![c] = Fresh(c, ask[c])]
        /\ todo' = [todo EXCEPT ![c] = {}]
        /\ answers' = [answers EXCEPT ![client] = @ + 1]
        /\ ok' = [ok EXCEPT ![client] = result]
        /\ upcoming' = IF more
                       THEN upcoming \cup {[by |-> client, name |-> ask[client].name,
                                            md5 |-> ask[client].md5]}
                       ELSE upcoming
        /\ UNCHANGED <<ask, lastPut>>

\* The callback never runs: the error is reported without the job, or an
\* exception ends the call.
Lose(c) ==
    /\ pc' = [pc EXCEPT ![c] = "lost"]
    /\ obj' = [obj EXCEPT ![c] = Fresh(c, ask[c])]
    /\ todo' = [todo EXCEPT ![c] = {}]
    /\ UNCHANGED <<ask, answers, ok, upcoming, lastPut>>

Proceed(c, to, o) ==
    /\ pc' = [pc EXCEPT ![c] = to]
    /\ obj' = [obj EXCEPT ![c] = o]
    /\ UNCHANGED <<ask, answers, ok, upcoming, lastPut>>

-----------------------------------------------------------------------------
(* metadataFactory.save *)

FolderOf(n) == IF Parent[n] = NoName THEN {}
               ELSE {[write |-> "select", name |-> Parent[n]]}
PathWrites(o) == {[write |-> "path", path |-> p] : p \in {q \in o.paths : q.dirty}}

\* Wrong on purpose, to see a property fail: with nothing to write nobody is called.
AfterSaveWaits(c, o) ==
    /\ Proceed(c, "writes", o)
    /\ todo' = [todo EXCEPT ![c] = FolderOf(o.name) \cup PathWrites(o)]

\* afterSave(): the parent folder and the paths are written side by side; with
\* nothing to write the callback runs at once.
AfterSave(c, o) ==
    LET writes == FolderOf(o.name) \cup PathWrites(o)
    IN  \/ writes = {} /\ Answer(c, o, TRUE)
        \/ writes # {} /\ Proceed(c, "writes", o) /\ todo' = [todo EXCEPT ![c] = writes]

\* save(): a new or changed row first, then the rest.
Save(c, o) ==
    IF o.id = 0 \/ o.dirty # {}
    THEN Proceed(c, "info", o) /\ UNCHANGED todo
    ELSE AfterSave(c, o)

-----------------------------------------------------------------------------
(* The callbacks of the commands, with the object that was loaded *)

PostLoaded(c, o) == IF o.id = 0 THEN Save(c, o) ELSE Answer(c, o, FALSE)

\* metaPut.js leaves saveResult global: the callback belongs to whoever started
\* a metaPut last.
PutLoaded(c, o) ==
    LET owned   == [o EXCEPT !.client = lastPut]
        renamed == IF ask[c].to # NoName THEN SetName(owned, ask[c].to) ELSE owned
        changed == IF ask[c].md5 # NoMd5 THEN SetMd5(renamed, ask[c].md5) ELSE renamed
    IN  Save(c, IF o.id = 0 THEN owned ELSE changed)

\* A file that has no path is given one.
PathLoaded(c, o) ==
    \E m \in Machine :
        Save(c, IF o.paths = {} THEN [o EXCEPT !.paths = {NewPath(m)}] ELSE o)

\* Wrong on purpose, to see a property fail: another path on the same machine.
UploadAlways(c, o) ==
    Save(c, [o EXCEPT !.paths = @ \cup {NewPath(ask[c].machine)}])

UploadLoaded(c, o) ==
    LET m == ask[c].machine
    IN  Save(c, IF \E p \in o.paths : p.machine = m THEN o
                ELSE [o EXCEPT !.paths = @ \cup {NewPath(m)}])

\* The supplier reports content ask.md5 on its machine: it must have an open
\* path there, and the content must be what the file should have.
ConfirmLoaded(c, o) ==
    LET open    == {p \in o.paths : p.status # Normal /\ p.machine = ask[c].machine}
        fits    == o.md5 \in {NoMd5, ask[c].md5}
        noted   == IF o.md5 = NoMd5 THEN SetMd5(o, ask[c].md5) ELSE o
        reached == {p \in noted.paths : p.status # Normal /\ p.machine = ask[c].machine}
    IN  \/ (open = {} \/ ~fits) /\ Answer(c, o, FALSE)
        \/ open # {} /\ fits /\ \E p \in reached : Save(c, SetConfirmed(noted, p))

\* Up to Replication paths in all, on machines that have none yet.
DupLoaded(c, o) ==
    \/ /\ \A p \in o.paths : p.status # Normal
       /\ Answer(c, o, FALSE)
    \/ /\ \E p \in o.paths : p.status = Normal
       /\ IF Cardinality(o.paths) >= Replication THEN Answer(c, o, TRUE)
          ELSE \E M \in SUBSET {m \in Machine : \A p \in o.paths : p.machine # m} :
                 /\ Cardinality(M) <= Replication - Cardinality(o.paths)
                 /\ Save(c, [o EXCEPT !.paths = @ \cup {NewPath(m) : m \in M}])

\* Wrong on purpose, to see a property fail: the callback is global, as in metaPut.js.
DeleteGlobal(c, o) ==
    IF o.id = 0 THEN Answer(c, o, FALSE)
    ELSE Save(c, SetDeleted([o EXCEPT !.client = IF lastPut \in Call THEN lastPut ELSE c]))

DeleteLoaded(c, o) ==
    IF o.id = 0 THEN Answer(c, o, FALSE)
    ELSE IF o.name \in Dir THEN Proceed(c, "children", o) /\ UNCHANGED todo
    ELSE Save(c, SetDeleted(o))

Handle(c, o) ==
    \/ ask[c].op = "post"    /\ PostLoaded(c, o)
    \/ ask[c].op = "put"     /\ PutLoaded(c, o)
    \/ ask[c].op = "path"    /\ PathLoaded(c, o)
    \/ ask[c].op = "upload"  /\ UploadLoaded(c, o)
    \/ ask[c].op = "confirm" /\ ConfirmLoaded(c, o)
    \/ ask[c].op = "dup"     /\ DupLoaded(c, o)
    \/ ask[c].op \in {"delete", "fileDelete"} /\ DeleteLoaded(c, o)

-----------------------------------------------------------------------------
(* The statements *)

\* The commands of suppliers name a file by its path.
ByPath == {"confirm", "dup"}

\* Wrong on purpose, to see a property fail: only rows of confirmed files are found;
\* deleted rows are found too.
WantedNormal(c) ==
    {i \in DOMAIN info : /\ info[i].status = Normal
                         /\ i = ask[c].row \/ info[i].name = ask[c].name}
WantedAny(c) ==
    {i \in DOMAIN info : i = ask[c].row \/ info[i].name = ask[c].name}

\* The row that load() asks for: by the name, or by a path that suppliers know,
\* whatever the status of that path.
Wanted(c) ==
    IF ask[c].op \in ByPath
    THEN {i \in DOMAIN info : /\ i = ask[c].row /\ info[i].status # Deleted
                              /\ \E p \in DOMAIN paths : paths[p].file = i}
    ELSE Live(ask[c].name)

\* load(): the first row, the paths of a file, or a fresh object; a path that
\* leads nowhere is denied.
LoadInfo(c) ==
    /\ pc[c] = "load"
    /\ \/ \E i \in Wanted(c) :
            LET o == Loaded(c, i)
            IN  IF o.name \in Dir THEN Handle(c, o)
                ELSE Proceed(c, "paths", o) /\ UNCHANGED todo
       \/ /\ Wanted(c) = {}
          /\ IF ask[c].op \in ByPath THEN Answer(c, obj[c], FALSE)
             ELSE Handle(c, Fresh(c, ask[c]))
    /\ UNCHANGED <<tables, failed>>

\* Before it loads anything a command that needs a machine finds that none has
\* space.
NoSpace(c) ==
    /\ pc[c] = "load"
    /\ ask[c].op \in {"path", "upload", "dup"}
    /\ Answer(c, obj[c], FALSE)
    /\ UNCHANGED <<tables, failed>>

LoadPaths(c) ==
    /\ pc[c] = "paths"
    /\ \E S \in LoadedPaths(obj[c].id) :
         Handle(c, [obj[c] EXCEPT !.paths = {PathObject(p) : p \in S}])
    /\ UNCHANGED <<tables, failed>>

\* Wrong on purpose, to see a property fail: files that are not uploaded do not count.
UploadedChildren(c) ==
    {i \in DOMAIN info : /\ info[i].status = Normal
                         /\ Parent[info[i].name] = ask[c].name}

\* The query for the content of a folder.  In fileDelete.js it looks below
\* "undefined" (_data.filename for _data.fileName) and finds nothing.
Children(c) ==
    IF ask[c].op = "fileDelete" THEN {}
    ELSE {i \in DOMAIN info : /\ info[i].status # Deleted
                              /\ Parent[info[i].name] = ask[c].name}

LoadChildren(c) ==
    /\ pc[c] = "children"
    /\ IF Children(c) # {} THEN Answer(c, obj[c], FALSE)
                           ELSE Save(c, SetDeleted(obj[c]))
    /\ UNCHANGED <<tables, failed>>

\* insert, or an update of the dirty columns.
WriteInfo(c) ==
    LET o     == obj[c]
        Row   == [name |-> o.name, status |-> o.status, md5 |-> o.md5]
        saved == [o EXCEPT !.dirty = {}]
    IN  /\ pc[c] = "info"
        /\ \/ /\ o.id = 0
              /\ info' = Append(info, Row)
              /\ AfterSave(c, [saved EXCEPT !.id = Len(info) + 1])
           \/ /\ o.id # 0
              /\ info' = [info EXCEPT ![o.id] =
                    [k \in DOMAIN @ |-> IF k \in o.dirty THEN Row[k] ELSE @[k]]]
              /\ AfterSave(c, saved)
        /\ UNCHANGED <<paths, proof, failed>>

\* Wrong on purpose, to see a property fail: the error of an earlier write is forgotten.
WroteAnyway(c, w, next) ==
    LET left == (todo[c] \ {w}) \cup next
    IN  IF left = {} THEN Answer(c, obj[c], TRUE)
        ELSE Proceed(c, "writes", obj[c]) /\ todo' = [todo EXCEPT ![c] = left]

\* done(): the last of the writes to finish runs the callback.
Wrote(c, w, next) ==
    LET left == (todo[c] \ {w}) \cup next
    IN  IF left = {}
        THEN IF "write" \in failed[c] THEN Lose(c) ELSE Answer(c, obj[c], TRUE)
        ELSE Proceed(c, "writes", obj[c]) /\ todo' = [todo EXCEPT ![c] = left]

\* saveRealPath().
WritePath(c, w) ==
    LET p    == w.path
        at   == IF p.id = 0 THEN Len(paths) + 1 ELSE p.id
        Seen == IF ask[c].op = "confirm" /\ p.status = Normal THEN ask[c].md5
                ELSE IF p.id = 0 THEN NoMd5 ELSE proof[p.id]
    IN  /\ w.write = "path"
        /\ paths' = IF p.id = 0
                    THEN Append(paths, [file |-> obj[c].id, machine |-> p.machine,
                                        status |-> p.status])
                    ELSE [paths EXCEPT ![p.id].status = p.status]
        /\ proof' = [q \in DOMAIN proof \cup {at} |-> IF q = at THEN Seen ELSE proof[q]]
        /\ Wrote(c, w, {})
        /\ UNCHANGED <<info, failed>>

\* saveParentFolder(): a folder that is found is not written, but its own
\* parent is looked for next.
SelectFolder(c, w) ==
    /\ w.write = "select"
    /\ Wrote(c, w, IF Live(w.name) # {} THEN FolderOf(w.name)
                   ELSE {[write |-> "folder", name |-> w.name]})
    /\ UNCHANGED <<tables, failed>>

InsertFolder(c, w) ==
    /\ w.write = "folder"
    /\ info' = Append(info, [name |-> w.name, status |-> Normal, md5 |-> NoMd5])
    /\ Wrote(c, w, FolderOf(w.name))
    /\ UNCHANGED <<paths, proof, failed>>

Write(c) ==
    /\ pc[c] = "writes"
    /\ \E w \in todo[c] : WritePath(c, w) \/ SelectFolder(c, w) \/ InsertFolder(c, w)

-----------------------------------------------------------------------------
(* Statements that fail *)

\* What was reported of a failed connection is reported once more, when the
\* closed socket fails again: connect() keeps its callback (queryDB.js:17-26).  What
\* the first report did to the call it does again; of that only an answer shows.
Reported(c, what) ==
    \E more \in {{}, {"connection"}} :
        failed' = [failed EXCEPT ![c] = @ \cup what \cup more]

CallBackAgain(c) ==
    /\ Faults
    /\ "connection" \in failed[c]
    /\ failed' = [failed EXCEPT ![c] = (@ \ {"connection"}) \cup {"twice"}]
    /\ answers' = [answers EXCEPT ![c] = @ + 1]
    /\ UNCHANGED <<tables, pc, ask, obj, todo, ok, upcoming, lastPut>>

FailLoad(c) ==
    /\ pc[c] = "load"
    /\ \/ /\ ask[c].op \in {"confirm", "upload"}
          /\ Answer(c, obj[c], FALSE)
          /\ Reported(c, {})
       \/ /\ ask[c].op \notin {"confirm", "upload"}
          /\ Lose(c)
          /\ UNCHANGED failed
    /\ UNCHANGED tables

\* loadMeta() drops the error: the object has no paths.  This select is one that
\* the database refuses: of a failed connection the second report would take the
\* counter of line 101 past zero and run the handler twice on one object.
FailPaths(c) ==
    /\ pc[c] = "paths"
    /\ failed' = [failed EXCEPT ![c] = @ \cup {"paths"}]
    /\ Handle(c, obj[c])
    /\ UNCHANGED tables

FailChildren(c) ==
    /\ pc[c] = "children"
    /\ Answer(c, obj[c], FALSE)
    /\ Reported(c, {})
    /\ UNCHANGED tables

\* fileUploadConfirm.js answers "confirm ok" whatever save() reports.
FailInfo(c) ==
    /\ pc[c] = "info"
    /\ \/ /\ ask[c].op = "confirm"
          /\ Answer(c, obj[c], TRUE)
          /\ Reported(c, {"write"})
       \/ /\ ask[c].op # "confirm"
          /\ Lose(c)
          /\ failed' = [failed EXCEPT ![c] = @ \cup {"write"}]
    /\ UNCHANGED tables

\* done(err) throws (err is not declared): the other writes go on, the callback
\* is never run.
FailWrite(c) ==
    /\ pc[c] = "writes"
    /\ failed' = [failed EXCEPT ![c] = @ \cup {"write"}]
    /\ \E w \in todo[c] :
         LET left == todo[c] \ {w}
         IN  IF left = {} THEN Lose(c)
             ELSE Proceed(c, "writes", obj[c]) /\ todo' = [todo EXCEPT ![c] = left]
    /\ UNCHANGED tables

Fail(c) ==
    /\ Faults
    /\ \/ FailLoad(c)
       \/ FailPaths(c)
       \/ FailChildren(c)
       \/ FailInfo(c)
       \/ FailWrite(c)

-----------------------------------------------------------------------------
(* Calls *)

Active == {c \in Call : pc[c] \notin {"idle", "done", "lost"}}
Idle   == [op |-> "none", name |-> NoName, to |-> NoName, md5 |-> NoMd5,
           machine |-> NoName, row |-> 0]

Ask(op) == [Idle EXCEPT !.op = op]

\* What clients may ask for.  A new name is one of the same kind, as isdir is
\* not updated.
PostRequests == {[Ask("post") EXCEPT !.name = n, !.md5 = m] : n \in Name, m \in Given}
NewNames(n)  == IF Rename /\ n \notin Dir THEN (Name \ Dir) \cup {NoName} ELSE {NoName}
PutRequests  ==
    UNION {{[Ask("put") EXCEPT !.name = n, !.md5 = m, !.to = t] : m \in Given, t \in NewNames(n)} :
              n \in Name}
UploadRequests ==
    {[Ask("upload") EXCEPT !.name = n, !.md5 = m, !.machine = k] :
        n \in Name \ Dir, m \in Md5, k \in Machine}
DeleteRequests == {[Ask(op) EXCEPT !.name = n] : op \in {"delete", "fileDelete"}, n \in Name}

\* What the engine asks for when a post or put goes on.
PathRequests == {[Ask("path") EXCEPT !.name = u.name, !.md5 = u.md5] : u \in upcoming}

\* What suppliers ask for, with the paths that they were given.
ConfirmRequests ==
    {[Ask("confirm") EXCEPT !.row = paths[p].file, !.machine = paths[p].machine, !.md5 = m] :
        p \in DOMAIN paths, m \in Md5}
DupRequests == {[Ask("dup") EXCEPT !.row = paths[p].file] : p \in DOMAIN paths}

Requests == UNION {PostRequests, PutRequests, UploadRequests, DeleteRequests,
                   PathRequests, ConfirmRequests, DupRequests}

Start(c) ==
    /\ pc[c] = "idle"
    /\ Cardinality(Active) < MaxActive
    /\ \E a \in Requests :
         /\ a.op \in Ops
         /\ ask' = [ask EXCEPT ![c] = a]
         /\ obj' = [obj EXCEPT ![c] = Fresh(c, a)]
         /\ lastPut' = IF a.op = "put" THEN c ELSE lastPut
         /\ \/ a.op # "path" /\ UNCHANGED upcoming
            \/ /\ a.op = "path"
               /\ \E u \in upcoming : /\ u.name = a.name /\ u.md5 = a.md5
                                      /\ upcoming' = upcoming \ {u}
    /\ pc' = [pc EXCEPT ![c] = "load"]
    /\ UNCHANGED <<tables, todo, failed, answers, ok>>

Init ==
    /\ info = <<>>
    /\ paths = <<>>
    /\ proof = <<>>
    /\ pc = [c \in Call |-> "idle"]
    /\ ask = [c \in Call |-> Idle]
    /\ obj = [c \in Call |-> Fresh(c, Idle)]
    /\ todo = [c \in Call |-> {}]
    /\ failed = [c \in Call |-> {}]
    /\ answers = [c \in Call |-> 0]
    /\ ok = [c \in Call |-> FALSE]
    /\ upcoming = {}
    /\ lastPut = NoName

Statement(c) ==
    \/ LoadInfo(c)
    \/ NoSpace(c)
    \/ LoadPaths(c)
    \/ LoadChildren(c)
    \/ WriteInfo(c)
    \/ Write(c)

Next == \E c \in Call : Start(c) \/ Statement(c) \/ Fail(c) \/ CallBackAgain(c)

Spec == Init /\ [][Next]_vars

\* A statement that was sent is answered by the database in the end.
FairSpec == Spec /\ \A c \in Call : WF_vars(Statement(c))

-----------------------------------------------------------------------------
(* Properties *)

Quiet == Active = {}

\* Type invariant.
TypeOK ==
    /\ \A i \in DOMAIN info : /\ info[i].name \in Name
                              /\ info[i].status \in {0, Normal, Deleted}
                              /\ info[i].md5 \in Md5 \cup {NoMd5}
    /\ \A p \in DOMAIN paths : /\ paths[p].file \in DOMAIN info
                               /\ paths[p].machine \in Machine
                               /\ paths[p].status \in {0, Normal, Deleted}
    /\ DOMAIN proof = DOMAIN paths
    /\ \A c \in Call : /\ pc[c] \in {"idle", "load", "paths", "children", "info",
                                     "writes", "done", "lost"}
                       /\ todo[c] # {} <=> pc[c] = "writes"
                       /\ failed[c] \subseteq Mishap
                       /\ obj[c].id \in DOMAIN info \cup {0}
                       /\ obj[c].client \in Call

\* At most one file that is not deleted has a given name, so that what load()
\* finds under a name is one file and not the first of several.
UniqueName == \A n \in Name : Cardinality(Live(n)) <= 1

\* A path that is served holds the content the file should have: what the
\* supplier last confirmed for it is the md5 of the file (metadata.js:188-206,
\* fileUploadConfirm.js:41-92).
ReadyIsCurrent ==
    \A p \in DOMAIN paths :
        Quiet /\ paths[p].status = Normal => proof[p] = info[paths[p].file].md5

\* Deleting a file deletes its paths (metadata.js:109-125).
DeleteCascades ==
    Quiet => \A p \in DOMAIN paths :
                LET f == info[paths[p].file]
                IN  f.status = Deleted /\ f.name \notin Dir => paths[p].status = Deleted

\* A file that is not deleted lies in a folder that is not deleted: saving the
\* file makes the folder, and a folder with files in it is not deleted
\* (metadataFactory.js:214-242, metaDelete.js:27-52).
FolderExists ==
    Quiet => \A i \in DOMAIN info :
                info[i].status # Deleted /\ Parent[info[i].name] # NoName
                    => Live(Parent[info[i].name]) # {}

\* No machine is given two copies of a file (metadata.js:290-310,
\* metaDuplication.js:48-71).
OneCopyPerMachine ==
    \A i \in DOMAIN info : info[i].name \notin Dir => Distinct(LivePaths(i))

\* Nothing that is deleted comes back: neither a file nor a path.
DeletedForGood ==
    [][/\ \A i \in DOMAIN info : info[i].status = Deleted => info'[i].status = Deleted
       /\ \A p \in DOMAIN paths : paths[p].status = Deleted => paths'[p].status = Deleted
      ]_vars

\* The callbacks that have run: the first of a call, the second and so on.
Callbacks == UNION {{c} \X (1 .. answers[c]) : c \in Call}

\* The calls that were called back twice for one failed connection.
Twice == {c \in Call : "twice" \in failed[c]}

\* Every call that ends runs one callback: its own, or, for a metaPut, that of
\* the metaPut that started last; no other command is ever answered twice, unless
\* one of its own connections failed, of which queryDB reports twice (queryDB.js:17-26).
OneCallbackPerCall ==
    /\ Twice = {} => Cardinality(Callbacks) = Cardinality({c \in Call : pc[c] = "done"})
    /\ \A c \in Call \ Twice :
          ask[c].op # "put" => answers[c] = IF pc[c] = "done" THEN 1 ELSE 0

\* The commands that go on, and may succeed, when the paths of the file could not
\* be selected.
Blind == {"put", "path", "upload", "delete", "fileDelete"}

\* A call that reports success has made every write that it began, also when
\* statements of it or of others fail, but for fileUploadConfirm, which reports
\* "confirm ok" whatever save() says, and a metaPut, which may report the success of
\* another (metadataFactory.js:260-321).  When the paths of its file could not be
\* selected it began none for them, and nothing tells the caller: a deletion then
\* leaves the paths alive, a metaPut leaves them ready.  Of the other commands none
\* reports success on such an object, so no copy is confirmed or planned from it.
SuccessIsSaved ==
    \A c \in Call : ok[c] =>
        /\ "write" \in failed[c] =>
              \/ ask[c].op = "confirm"
              \/ ask[c].op = "put" /\ \E b \in Call \ {c} : ask[b].op = "put"
        /\ "paths" \in failed[c] => ask[c].op \in Blind

\* A path is served only after a supplier confirmed it.
ReadyWasConfirmed ==
    \A p \in DOMAIN paths : paths[p].status = Normal => proof[p] # NoMd5

\* While no statement fails every call ends with a callback.
CallsEnd == \A c \in Call : pc[c] = "load" ~> pc[c] = "done"
=============================================================================
