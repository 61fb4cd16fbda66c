------------------------------ MODULE FileHealth ------------------------------
(***************************************************************************)
(* The replica table, modules/fileHealthy.js: which machines hold a copy   *)
(* of which file.  It is a copy in memory of what FileMeta keeps in the    *)
(* database, loaded by fileHealthyFactory.js when the center starts and    *)
(* kept up to date by the callbacks of the controllers of                  *)
(* fileUploadConfirm and metaDelete.  A third, that of fileDelete, removes *)
(* a file by the undeclared name "path": that of the last upload, not of   *)
(* the file it deleted.  File health, node risk and the files to repair    *)
(* are computed from the table.                                            *)
(*                                                                         *)
(* An entry is found by the id of its file when a path is added, and by    *)
(* its name when a file is removed.  Every other command that changes the  *)
(* database leaves the table alone: a content that metaPut replaces keeps  *)
(* its copies in the table, and a file that metaPut renames its old name.  *)
(*                                                                         *)
(* Restart happens between calls; the database outlives it.  Left out: the *)
(* time the factory takes to load, in which confirmations find no table,   *)
(* and the nodes, which NodeMonitor has.                                   *)
(***************************************************************************)
EXTENDS FileMeta, FiniteSetsExt

CONSTANT MaxRestarts    \* BOUND

ASSUME FileHealthAssumption == MaxRestarts \in Nat

VARIABLES
    files,      \* the entries, in the order they were added
    restarts,   \* how often the center was started again
    unseen      \* paths whose machine was off at the last start: none is loaded

healthVars == <<vars, files, restarts, unseen>>

Entries(id) == {i \in DOMAIN files : files[i].id = id}

\* Wrong on purpose, to see a property fail: a known file gets no further machine.
AddPathOnce(id, url, m) ==
    IF Entries(id) = {} THEN Append(files, [id |-> id, url |-> url, node |-> {m}]) ELSE files

\* addPath(): one more machine for the first entry of the file, or a new entry.
AddPath(id, url, m) ==
    IF Entries(id) = {}
    THEN Append(files, [id |-> id, url |-> url, node |-> {m}])
    ELSE [files EXCEPT ![Min(Entries(id))].node = @ \cup {m}]

\* removeFile() cuts the entries of that name out of the array it runs over, so
\* it passes over the entry behind each one it removes.
Removed(url) ==
    LET removed[i \in 0 .. Len(files)] ==
            i > 0 /\ files[i].url = url /\ ~removed[i - 1]
    IN  removed

RemoveFile(url) ==
    LET gone == {i \in DOMAIN files : Removed(url)[i]}
        Kept[i \in 0 .. Len(files)] ==
            IF i = 0 THEN <<>>
            ELSE IF i \in gone THEN Kept[i - 1] ELSE Append(Kept[i - 1], files[i])
    IN  Kept[Len(files)]

\* What the global "path" may name, which fileUpload.js sets to the file it uploads;
\* before the first upload there is none, and the callback of fileDelete throws.
LastUploads == {ask[d].name : d \in {e \in Call : ask[e].op = "upload"}}

\* The callback of fileDelete, whatever file it deleted.
AfterFileDelete == {files} \cup {RemoveFile(url) : url \in LastUploads}

\* The callbacks of the controllers, which run when the command of the call ends, and
\* once more when a failed connection is reported twice.
\* metaDelete removes the entry whatever the result; after a confirmation that was
\* refused addPath(undefined) throws.
Callback(c) ==
    LET runs == (pc[c] # "done" /\ pc'[c] = "done") \/ CallBackAgain(c)
    IN  IF runs /\ ask[c].op = "fileDelete"
        THEN files' \in AfterFileDelete
        ELSE files' = IF runs /\ ask[c].op = "confirm" /\ ok'[c]
                      THEN AddPath(ask[c].row, info[ask[c].row].name, ask[c].machine)
                      ELSE IF runs /\ ask[c].op = "delete" THEN RemoveFile(ask[c].name)
                      ELSE files

HealthInit ==
    /\ Init
    /\ files = <<>>
    /\ restarts = 0
    /\ unseen = {}

\* Wrong on purpose, to see a property fail: the status of the file is not asked for.
UploadedAny(i) == info[i].name \notin Dir

\* What the queries for files and for paths select.
Uploaded(i) == info[i].status = Normal /\ info[i].name \notin Dir
Served(p) == paths[p].status = Normal

\* create() and parseData(): the uploaded files in ascending order of their ids,
\* and their served paths on the machines that are on.
Loads(on) ==
    LET ids == {i \in DOMAIN info : Uploaded(i)}
        Entry(i) == [id |-> i, url |-> info[i].name,
                     node |-> {paths[p].machine : p \in {q \in DOMAIN paths :
                                 /\ paths[q].file = i /\ Served(q)
                                 /\ paths[q].machine \in on}}]
        Listed[i \in 0 .. Len(info)] ==
            IF i = 0 THEN <<>>
            ELSE IF i \in ids THEN Append(Listed[i - 1], Entry(i)) ELSE Listed[i - 1]
    IN  Listed[Len(info)]

\* The center is stopped and started; which machines are on is up to them.
Restart ==
    /\ Quiet
    /\ restarts < MaxRestarts
    /\ restarts' = restarts + 1
    /\ \E on \in SUBSET Machine :
         /\ files' = Loads(on)
         /\ unseen' = {p \in DOMAIN paths : Served(p) /\ paths[p].machine \notin on}
    /\ upcoming' = {}
    /\ UNCHANGED <<tables, calls, answers, ok, lastPut>>

Command(c) ==
    /\ Start(c) \/ Statement(c) \/ Fail(c) \/ CallBackAgain(c)
    /\ Callback(c)
    /\ UNCHANGED <<restarts, unseen>>

HealthNext == (\E c \in Call : Command(c)) \/ Restart

HealthSpec == HealthInit /\ [][HealthNext]_healthVars

-----------------------------------------------------------------------------
(* Properties *)

\* A copy that is served is in the table, unless its machine was off when the
\* center started: no file is called lost or in danger, and repaired, for a copy
\* the table missed (fileHealthy.js:75-102, fileHealthyFactory.js:83-109).
NoCopyMissed ==
    Quiet => \A p \in DOMAIN paths :
        Served(p) /\ p \notin unseen =>
            \E e \in Entries(paths[p].file) : paths[p].machine \in files[e].node

\* A file is counted once, and a file that was deleted not at all
\* (File.js:472-479, fileHealthy.js:45-73).
CountedOnce ==
    Quiet => /\ \A i \in DOMAIN files : info[files[i].id].status # Deleted
             /\ \A i, j \in DOMAIN files : files[i].id = files[j].id => i = j
=============================================================================
