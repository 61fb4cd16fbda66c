-------------------------- MODULE FileSequenceProofs --------------------------
(***************************************************************************)
(* The metadata of files when calls do not overlap, no statement fails and *)
(* no file is renamed, for every number of calls, names, machines and      *)
(* contents.  The object of the call that is under way is then what the    *)
(* tables hold, but for what it is going to write.                         *)
(***************************************************************************)
EXTENDS FileMetaProofs

OneByOne == MaxActive = 1 /\ ~Faults /\ ~Rename

-----------------------------------------------------------------------------
(* Objects and tables *)

Row(o)       == [name |-> o.name, status |-> o.status, md5 |-> o.md5]
Free(I, n)   == \A i \in DOMAIN I : I[i].name = n => I[i].status = Deleted
LiveOf(P, i) == {p \in DOMAIN P : P[p].file = i /\ P[p].status # Deleted}
DirtyOf(o)   == {p \in o.paths : p.dirty}

\* Object o has a row in I that is not deleted and differs only where o is dirty, or
\* it has none, and then nobody has its name.
Known(I, o) ==
    IF o.id = 0
    THEN o.status = 0 /\ Free(I, o.name)
    ELSE /\ I[o.id].name = o.name /\ I[o.id].status # Deleted
         /\ "status" \notin o.dirty => I[o.id].status = o.status
         /\ "md5" \notin o.dirty => I[o.id].md5 = o.md5

\* The paths W belong to rows in P that are not deleted, or to machines that have no
\* path of the file yet, and each to another machine.
Fits(P, o, W) ==
    /\ \A p \in W :
          IF p.id = 0
          THEN o.name \notin Dir => \A q \in LiveOf(P, o.id) : P[q].machine # p.machine
          ELSE /\ P[p.id].file = o.id /\ P[p.id].machine = p.machine
               /\ P[p.id].status # Deleted
    /\ \A p, q \in W : p.machine = q.machine => p = q

Covered(P, o) == o.name \notin Dir => \A q \in LiveOf(P, o.id) : \E p \in o.paths : p.id = q

\* What a change of the file does to its paths.
Marks(o) == /\ "md5" \in o.dirty \/ o.status = Deleted => \A p \in o.paths : p.dirty
            /\ \A p \in o.paths : p.id = 0 => p.dirty

\* The paths W that will be written are ready only with the content that was
\* confirmed, and deleted if the file is.
Readied(a, o, W) ==
    \A p \in W : /\ p.status = Normal => o.name \notin Dir /\ o.md5 = a.md5
                                         /\ a.op = "confirm"
                 /\ o.status = Deleted /\ o.name \notin Dir => p.status = Deleted

\* A folder that will be deleted is empty.
Empty(I, a, o) ==
    o.status = Deleted /\ o.name \in Dir /\ a.op # "fileDelete" =>
        \A i \in DOMAIN I : I[i].status # Deleted => Parent[I[i].name] # o.name

Agrees(I, P, a, o) == /\ Known(I, o)
                      /\ Fits(P, o, o.paths)
                      /\ Covered(P, o)
                      /\ Marks(o)
                      /\ Readied(a, o, DirtyOf(o))
                      /\ Empty(I, a, o)

\* An object as it is loaded.
Whole(I, P, o) == /\ Known(I, o) /\ o.dirty = {} /\ o.status # Deleted
                  /\ Fits(P, o, o.paths)
                  /\ Covered(P, o)
                  /\ \A p \in o.paths : ~p.dirty /\ p.id # 0
                  /\ o.name \in Dir => o.paths = {}

LEMMA WholeAgrees ==
    ASSUME NEW I, NEW P, NEW a, NEW o \in Obj, Whole(I, P, o)
    PROVE  Agrees(I, P, a, o) /\ \A p \in DirtyOf(o) : FALSE
BY DEF Whole, Agrees, Marks, Readied, DirtyOf, Empty

\* Marking all paths of an object changes neither their rows nor their machines.
LEMMA MarkedFits ==
    ASSUME NEW P, NEW o \in Obj, NEW x \in Obj, NEW s \in St,
           Fits(P, o, o.paths), Covered(P, o),
           x.paths = Marked(o.paths, s), x.id = o.id, x.name = o.name
    PROVE  /\ Fits(P, x, x.paths) /\ Covered(P, x)
           /\ \A p \in x.paths : p.dirty /\ p.status = s
<1> DEFINE mark(p) == [p EXCEPT !.status = s, !.dirty = TRUE]
<1>1. x.paths = {mark(p) : p \in o.paths}
  BY DEF Marked
<1>2. \A p \in o.paths : /\ mark(p).id = p.id /\ mark(p).machine = p.machine
                         /\ mark(p).dirty = TRUE /\ mark(p).status = s
  BY DEF Obj, PathObj
<1> HIDE DEF mark
<1>3. Fits(P, x, x.paths)
  BY <1>1, <1>2 DEF Fits
<1>4. Covered(P, x)
  BY <1>1, <1>2 DEF Covered
<1> QED
  BY <1>1, <1>2, <1>3, <1>4

LEMMA Md5Agrees ==
    ASSUME NEW I, NEW P, NEW a, NEW o \in Obj, Whole(I, P, o), NEW m \in Content
    PROVE  /\ Agrees(I, P, a, SetMd5(o, m)) /\ SetMd5(o, m) \in Obj
           /\ SetMd5(o, m).md5 = m /\ SetMd5(o, m).status # Deleted
           /\ SetMd5(o, m).name = o.name
           /\ o.paths = {} => SetMd5(o, m).paths = {}
           /\ \A p \in SetMd5(o, m).paths : p.dirty /\ p.status # Normal
<1> DEFINE x == SetMd5(o, m)
<1>1. Marked(o.paths, 0) \in SUBSET PathObj /\ 0 \in St
  BY MarkedTyped DEF Obj, St
<1>2. /\ x \in Obj /\ x.id = o.id /\ x.name = o.name /\ x.status = o.status /\ x.md5 = m
      /\ x.paths = Marked(o.paths, 0)
      /\ x.dirty = IF o.md5 # m THEN o.dirty \cup {"md5"} ELSE o.dirty
  BY <1>1 DEF SetMd5, Obj
<1> HIDE DEF x
<1>3. /\ Fits(P, x, x.paths) /\ Covered(P, x)
      /\ \A p \in x.paths : p.dirty /\ p.status = 0
  BY <1>1, <1>2, MarkedFits DEF Whole
<1>4. Known(I, x)
  BY <1>2 DEF Whole, Known
<1>5. x.status # Deleted /\ 0 # Normal
  BY <1>2 DEF Whole, Normal
<1>6. Marks(x) /\ Readied(a, x, DirtyOf(x)) /\ Empty(I, a, x)
  BY <1>3, <1>5 DEF Marks, Readied, DirtyOf, Empty
<1>7. o.paths = {} => x.paths = {}
  BY <1>2 DEF Marked
<1> QED
  BY <1>2, <1>3, <1>4, <1>5, <1>6, <1>7 DEF Agrees, x

LEMMA DeletedAgrees ==
    ASSUME NEW I, NEW P, NEW a, NEW o \in Obj, Whole(I, P, o), o.id # 0,
           Empty(I, a, SetDeleted(o))
    PROVE  Agrees(I, P, a, SetDeleted(o)) /\ SetDeleted(o) \in Obj
<1> DEFINE x == SetDeleted(o)
<1>1. Marked(o.paths, Deleted) \in SUBSET PathObj /\ Deleted \in St /\ Deleted # Normal
  BY MarkedTyped DEF Obj, St, Deleted, Normal
<1>2. /\ x \in Obj /\ x.id = o.id /\ x.name = o.name /\ x.status = Deleted /\ x.md5 = o.md5
      /\ x.paths = Marked(o.paths, Deleted)
      /\ x.dirty = o.dirty \cup {"status"}
  BY <1>1 DEF SetDeleted, Obj
<1>3. Empty(I, a, x)
  OBVIOUS
<1> HIDE DEF x
<1>4. /\ Fits(P, x, x.paths) /\ Covered(P, x)
      /\ \A p \in x.paths : p.dirty /\ p.status = Deleted
  BY <1>1, <1>2, MarkedFits DEF Whole
<1>5. Known(I, x)
  BY <1>2 DEF Whole, Known
<1>6. Marks(x) /\ Readied(a, x, DirtyOf(x))
  BY <1>1, <1>4 DEF Marks, Readied, DirtyOf
<1> QED
  BY <1>2, <1>3, <1>4, <1>5, <1>6 DEF Agrees, x

\* Paths on machines that have none.
LEMMA NewAgrees ==
    ASSUME NEW I, NEW P, NEW a, NEW o \in Obj, Whole(I, P, o), NEW M \in SUBSET Machine,
           \A m \in M : \A p \in o.paths : p.machine # m,
           NEW x, x = [o EXCEPT !.paths = @ \cup {NewPath(m) : m \in M}]
    PROVE  Agrees(I, P, a, x) /\ x \in Obj
<1> DEFINE N == {NewPath(m) : m \in M}
<1>1. \A m \in M : /\ NewPath(m) \in PathObj /\ NewPath(m).id = 0 /\ NewPath(m).status = 0
                   /\ NewPath(m).machine = m /\ NewPath(m).dirty = TRUE
  BY DEF NewPath, PathObj, St
<1>2. N \in SUBSET PathObj
  BY <1>1
<1>3. \A p \in N : p.id = 0 /\ p.status = 0 /\ p.machine \in M /\ p.dirty
  BY <1>1
<1>4. \A p, q \in N : p.machine = q.machine => p = q
  BY <1>1
<1> HIDE DEF N
<1>5. /\ x \in Obj /\ x.id = o.id /\ x.name = o.name /\ x.status = o.status
      /\ x.md5 = o.md5 /\ x.paths = o.paths \cup N /\ x.dirty = o.dirty
  BY <1>2 DEF Obj, N
<1>6. Known(I, x) /\ Covered(P, x)
  BY <1>5 DEF Whole, Known, Covered
<1>7. ASSUME NEW m \in M, x.name \notin Dir, NEW q \in LiveOf(P, x.id) PROVE P[q].machine # m
  <2>1. PICK p \in o.paths : p.id = q
    BY <1>5, <1>7 DEF Whole, Covered
  <2>2. P[q].machine = p.machine
    BY <2>1 DEF Whole, Fits
  <2> QED
    BY <2>1, <2>2
<1>8. Fits(P, x, x.paths)
  BY <1>3, <1>4, <1>5, <1>7 DEF Fits, Whole
<1>9. Marks(x) /\ Readied(a, x, DirtyOf(x)) /\ Empty(I, a, x)
  BY <1>3, <1>5 DEF Whole, Marks, Readied, DirtyOf, Empty, Normal
<1> QED
  BY <1>5, <1>6, <1>8, <1>9 DEF Agrees

\* A confirmation of the content the file should have.
LEMMA ConfirmAgrees ==
    ASSUME NEW I, NEW P, NEW a, NEW o \in Obj, Agrees(I, P, a, o), o.id # 0,
           o.name \notin Dir, o.md5 = a.md5, o.status # Deleted, a.op = "confirm",
           NEW p \in o.paths
    PROVE  Agrees(I, P, a, SetConfirmed(o, p)) /\ SetConfirmed(o, p) \in Obj
<1> DEFINE x == SetConfirmed(o, p)
           r == [p EXCEPT !.status = Normal, !.dirty = TRUE]
<1>1. p \in PathObj /\ r \in PathObj /\ Marked({p}, Normal) = {r}
  BY DEF Obj, PathObj, Marked, St
<1>2. r.id = p.id /\ r.machine = p.machine /\ r.status = Normal /\ r.dirty = TRUE
  BY <1>1 DEF PathObj
<1> HIDE DEF r
<1>3. /\ x \in Obj /\ x.id = o.id /\ x.name = o.name /\ x.status = Normal /\ x.md5 = o.md5
      /\ x.paths = (o.paths \ {p}) \cup {r}
      /\ x.dirty = o.dirty \cup {"status"}
  BY <1>1 DEF SetConfirmed, Obj, St
<1> HIDE DEF x
<1>4. Normal # Deleted
  BY DEF Normal, Deleted
<1>5. Known(I, x)
  BY <1>3 DEF Agrees, Known
<1>6. Fits(P, x, x.paths)
  BY <1>2, <1>3 DEF Agrees, Fits
<1>7. Covered(P, x)
  BY <1>2, <1>3 DEF Agrees, Covered
<1>8. Marks(x) /\ Readied(a, x, DirtyOf(x)) /\ Empty(I, a, x)
  BY <1>2, <1>3, <1>4 DEF Agrees, Marks, Readied, DirtyOf, Empty
<1> QED
  BY <1>3, <1>5, <1>6, <1>7, <1>8 DEF Agrees, x

-----------------------------------------------------------------------------
(* The call that is under way *)

PathsIn(T) == {w.path : w \in {v \in T : v.write = "path"}}

\* The row is saved, and the writes T are open.
Writing(I, P, a, o, T) ==
    /\ I[o.id] = Row(o)
    /\ Fits(P, o, PathsIn(T))
    /\ Readied(a, o, PathsIn(T))
    /\ \A w \in T : w.write = "folder" => Free(I, w.name)

Stage(c) ==
    /\ pc[c] = "paths" => /\ Known(info, obj[c]) /\ obj[c].dirty = {}
                          /\ obj[c].status # Deleted /\ obj[c].name \notin Dir
    /\ pc[c] = "children" => /\ Whole(info, paths, obj[c]) /\ obj[c].name \in Dir
                             /\ obj[c].name = ask[c].name
    /\ pc[c] = "info" => Agrees(info, paths, ask[c], obj[c])
    /\ pc[c] = "writes" => Writing(info, paths, ask[c], obj[c], todo[c])

Simple(c) == failed[c] = {} /\ (ask[c].op = "put" => ask[c].to = NoName)

\* A step of call c leaves the others where they are.
Only(c) == /\ \E at : pc' = [pc EXCEPT ![c] = at]
           /\ \E T : todo' = [todo EXCEPT ![c] = T]
           /\ ask' = ask

LEMMA AnswerStep ==
    ASSUME Calls, NEW c \in Call, NEW o, NEW result, Answer(c, o, result) \/ Lose(c)
    PROVE  Stage(c)' /\ Only(c) /\ todo'[c] = {}
<1>1. /\ pc' = [pc EXCEPT ![c] = "done"] \/ pc' = [pc EXCEPT ![c] = "lost"]
      /\ todo' = [todo EXCEPT ![c] = {}] /\ ask' = ask
  BY DEF Answer, Lose
<1>2. pc'[c] \in {"done", "lost"} /\ todo'[c] = {}
  BY <1>1 DEF Calls, CallsTyped
<1> QED
  BY <1>1, <1>2 DEF Stage, Only

LEMMA PathsOfWrites ==
    ASSUME NEW o \in Obj
    PROVE  /\ PathsIn(FolderOf(o.name) \cup PathWrites(o)) = DirtyOf(o)
           /\ \A w \in FolderOf(o.name) \cup PathWrites(o) : w.write # "folder"
<1>1. \A w \in FolderOf(o.name) : w.write = "select"
  BY DEF FolderOf
<1>2. PathWrites(o) = {[write |-> "path", path |-> p] : p \in DirtyOf(o)}
  BY DEF PathWrites, DirtyOf
<1>3. \A p \in DirtyOf(o) : /\ [write |-> "path", path |-> p].write = "path"
                            /\ [write |-> "path", path |-> p].path = p
  OBVIOUS
<1>4. {v \in FolderOf(o.name) \cup PathWrites(o) : v.write = "path"} = PathWrites(o)
  BY <1>1, <1>2, <1>3
<1>5. {w.path : w \in PathWrites(o)} = DirtyOf(o)
  <2>1. ASSUME NEW w \in PathWrites(o) PROVE w.path \in DirtyOf(o)
    BY <1>2, <1>3
  <2>2. ASSUME NEW p \in DirtyOf(o) PROVE \E w \in PathWrites(o) : w.path = p
    BY <1>2, <1>3
  <2> QED
    BY <2>1, <2>2
<1> QED
  BY <1>1, <1>2, <1>3, <1>4, <1>5 DEF PathsIn

LEMMA AfterSaveStep ==
    ASSUME Calls, NEW c \in Call, NEW o \in Obj, AfterSave(c, o), info'[o.id] = Row(o),
           Fits(paths', o, DirtyOf(o)), Readied(ask[c], o, DirtyOf(o))
    PROVE  Stage(c)' /\ Only(c) /\ FolderOf(o.name) \cup PathWrites(o) \subseteq todo'[c]
<1> DEFINE writes == FolderOf(o.name) \cup PathWrites(o)
<1>1. CASE writes = {} /\ Answer(c, o, TRUE)
  BY <1>1, AnswerStep
<1>2. CASE /\ writes # {} /\ Proceed(c, "writes", o)
           /\ todo' = [todo EXCEPT ![c] = writes]
  <2>1. PathsIn(writes) = DirtyOf(o) /\ \A w \in writes : w.write # "folder"
    BY PathsOfWrites
  <2> HIDE DEF writes
  <2>2. /\ pc' = [pc EXCEPT ![c] = "writes"] /\ pc'[c] = "writes"
        /\ obj'[c] = o /\ todo'[c] = writes /\ ask' = ask
    BY <1>2 DEF Proceed, Calls, CallsTyped
  <2>3. Writing(info', paths', ask[c], o, writes)
    BY <2>1 DEF Writing
  <2>4. Stage(c)'
    BY <2>2, <2>3 DEF Stage
  <2>5. Only(c)
    BY <1>2, <2>2 DEF Only
  <2> QED
    BY <2>2, <2>4, <2>5 DEF writes
<1> QED
  BY <1>1, <1>2 DEF AfterSave

LEMMA SaveStep ==
    ASSUME TablesTyped, Calls, NEW c \in Call, NEW o \in Obj, o.id \in DOMAIN info \cup {0},
           Agrees(info, paths, ask[c], o), Save(c, o), UNCHANGED tables
    PROVE  Stage(c)' /\ Only(c)
<1>1. CASE Proceed(c, "info", o) /\ UNCHANGED todo
  <2>1. /\ pc' = [pc EXCEPT ![c] = "info"] /\ pc'[c] = "info" /\ obj'[c] = o /\ ask' = ask
        /\ info' = info /\ paths' = paths /\ todo' = [todo EXCEPT ![c] = todo[c]]
    BY <1>1 DEF Proceed, Calls, CallsTyped, tables
  <2> QED
    BY <2>1 DEF Stage, Only
<1>2. CASE o.id # 0 /\ o.dirty = {} /\ AfterSave(c, o)
  <2>1. info[o.id] \in InfoRow
    BY <1>2 DEF TablesTyped
  <2>2. info[o.id] = Row(o)
    BY <1>2, <2>1 DEF Agrees, Known, InfoRow, Row
  <2>3. Fits(paths, o, DirtyOf(o)) /\ Readied(ask[c], o, DirtyOf(o))
    BY DEF Agrees, Fits, DirtyOf
  <2>4. info' = info /\ paths' = paths
    BY DEF tables
  <2> QED
    BY <1>2, <2>2, <2>3, <2>4, AfterSaveStep
<1> QED
  BY <1>1, <1>2 DEF Save

-----------------------------------------------------------------------------
(* From the loaded object to the first write *)

LEMMA HandleStep ==
    ASSUME TablesTyped, Calls, NEW c \in Call, pc[c] \in {"load", "paths"}, Simple(c),
           NEW o, Good(DOMAIN info, DOMAIN paths, ask, c, o), Whole(info, paths, o),
           o.name \in Dir /\ ask[c].op \notin ByPath => o.name = ask[c].name,
           Handle(c, o), UNCHANGED tables
    PROVE  Stage(c)' /\ Only(c)
<1> DEFINE a == ask[c]
           More(M) == [o EXCEPT !.paths = @ \cup {NewPath(m) : m \in M}]
<1>1. o \in Obj /\ o.id \in DOMAIN info \cup {0} /\ a \in Asked
  BY DEF Good, Calls, CallsTyped
<1>2. ASSUME NEW x \in Obj, Agrees(info, paths, a, x), x.id = o.id, Save(c, x)
      PROVE  Stage(c)' /\ Only(c)
  BY <1>1, <1>2, SaveStep
<1>3. ASSUME NEW result, Answer(c, o, result) PROVE Stage(c)' /\ Only(c)
  BY <1>3, AnswerStep
<1>4. Agrees(info, paths, a, o)
  BY <1>1, WholeAgrees
<1>5. ASSUME NEW p \in o.paths PROVE o.id # 0 /\ o.name \notin Dir
  <2>1. p.id \in DOMAIN paths /\ paths[p.id].file = o.id
    BY <1>5 DEF Whole, Good, Fits
  <2>2. o.id \in DOMAIN info
    BY <2>1 DEF TablesTyped
  <2> QED
    BY <1>5, <2>2 DEF Whole, TablesTyped
<1>6. ASSUME NEW M \in SUBSET Machine, \A m \in M : \A p \in o.paths : p.machine # m,
             Save(c, More(M))
      PROVE  Stage(c)' /\ Only(c)
  <2> DEFINE x == More(M)
  <2>1. x.id = o.id /\ Save(c, x)
    BY <1>1, <1>6 DEF Obj
  <2>2. Agrees(info, paths, a, x) /\ x \in Obj
    BY <1>1, <1>6, NewAgrees
  <2> HIDE DEF x
  <2> QED
    BY <1>2, <2>1, <2>2
<1>7. CASE a.op = "post" /\ PostLoaded(c, o)
  BY <1>1, <1>2, <1>3, <1>4, <1>7 DEF PostLoaded
<1>8. CASE a.op = "put" /\ PutLoaded(c, o)
  <2> DEFINE owned   == [o EXCEPT !.client = lastPut]
             changed == IF a.md5 # NoMd5 THEN SetMd5(owned, a.md5) ELSE owned
  <2>1. lastPut \in Call /\ a.to = NoName
    BY <1>8 DEF Calls, Asks, Simple
  <2>2. /\ owned \in Obj /\ owned.id = o.id /\ owned.name = o.name
        /\ owned.status = o.status /\ owned.md5 = o.md5 /\ owned.dirty = o.dirty
        /\ owned.paths = o.paths
    BY <1>1, <2>1 DEF Obj
  <2>3. Save(c, IF o.id = 0 THEN owned ELSE changed)
    BY <1>8, <2>1 DEF PutLoaded
  <2> HIDE DEF owned
  <2>4. Whole(info, paths, owned)
    BY <2>2 DEF Whole, Known, Fits, Covered
  <2>5. Agrees(info, paths, a, owned)
    BY <2>2, <2>4, WholeAgrees
  <2>6. Agrees(info, paths, a, changed) /\ changed \in Obj /\ changed.id = o.id
    <3>1. a.md5 \in Content
      BY <1>1 DEF Asked
    <3>2. SetMd5(owned, a.md5).id = owned.id
      BY <2>2 DEF SetMd5, Obj
    <3> QED
      BY <2>2, <2>4, <2>5, <3>1, <3>2, Md5Agrees
  <2> HIDE DEF changed
  <2> QED
    BY <1>2, <2>2, <2>3, <2>5, <2>6
<1>9. CASE a.op = "path" /\ PathLoaded(c, o)
  <2>1. PICK m \in Machine :
            Save(c, IF o.paths = {} THEN [o EXCEPT !.paths = {NewPath(m)}] ELSE o)
    BY <1>9 DEF PathLoaded
  <2>2. CASE o.paths = {}
    <3>1. More({m}) = [o EXCEPT !.paths = {NewPath(m)}]
      BY <2>2
    <3>2. Save(c, More({m})) /\ {m} \in SUBSET Machine
      BY <2>1, <2>2, <3>1
    <3> HIDE DEF More
    <3> QED
      BY <1>6, <2>2, <3>2
  <2>3. CASE o.paths # {}
    BY <1>1, <1>2, <1>4, <2>1, <2>3
  <2> QED
    BY <2>2, <2>3
<1>10. CASE a.op = "upload" /\ UploadLoaded(c, o)
  <2> DEFINE m == a.machine
  <2>1. m \in Machine
    BY <1>10 DEF Calls, Asks
  <2>2. CASE \E p \in o.paths : p.machine = m
    BY <1>1, <1>2, <1>4, <1>10, <2>2 DEF UploadLoaded
  <2>3. CASE ~\E p \in o.paths : p.machine = m
    <3>1. Save(c, [o EXCEPT !.paths = @ \cup {NewPath(m)}])
      BY <1>10, <2>3 DEF UploadLoaded
    <3>2. {NewPath(m)} = {NewPath(k) : k \in {m}}
      OBVIOUS
    <3>3. Save(c, More({m})) /\ {m} \in SUBSET Machine
      BY <2>1, <3>1, <3>2
    <3> HIDE DEF m, More
    <3> QED
      BY <1>6, <2>3, <3>3
  <2> QED
    BY <2>2, <2>3
<1>11. CASE a.op = "confirm" /\ ConfirmLoaded(c, o)
  <2> DEFINE noted == IF o.md5 = NoMd5 THEN SetMd5(o, a.md5) ELSE o
  <2>1. CASE Answer(c, o, FALSE)
    BY <1>3, <2>1
  <2>2. CASE /\ \E p \in o.paths : TRUE
             /\ o.md5 \in {NoMd5, a.md5}
             /\ \E p \in noted.paths : Save(c, SetConfirmed(noted, p))
    <3>1. o.id # 0 /\ o.name \notin Dir
      BY <1>5, <2>2
    <3>2. a.md5 \in Content /\ o.status # Deleted
      BY <1>1 DEF Asked, Whole
    <3>3. SetMd5(o, a.md5).id = o.id
      BY <1>1 DEF SetMd5, Obj
    <3>4. /\ noted \in Obj /\ noted.id = o.id /\ noted.name = o.name /\ noted.md5 = a.md5
          /\ noted.status # Deleted /\ Agrees(info, paths, a, noted)
      <4>1. CASE o.md5 = NoMd5
        <5>1. noted = SetMd5(o, a.md5)
          BY <4>1
        <5>2. /\ Agrees(info, paths, a, SetMd5(o, a.md5)) /\ SetMd5(o, a.md5) \in Obj
              /\ SetMd5(o, a.md5).md5 = a.md5 /\ SetMd5(o, a.md5).status # Deleted
              /\ SetMd5(o, a.md5).name = o.name
          <6>1. a.md5 \in Content
            BY <3>2
          <6> HIDE DEF a, noted
          <6> QED
            BY <1>1, <6>1, Md5Agrees
        <5> HIDE DEF noted, a
        <5> QED
          BY <3>3, <5>1, <5>2
      <4>2. CASE o.md5 # NoMd5
        BY <1>1, <1>4, <2>2, <3>2, <4>2
      <4> QED
        BY <4>1, <4>2
    <3> HIDE DEF noted
    <3>5. PICK p \in noted.paths : Save(c, SetConfirmed(noted, p))
      BY <2>2
    <3>6. /\ Agrees(info, paths, a, SetConfirmed(noted, p))
          /\ SetConfirmed(noted, p) \in Obj
      BY <1>11, <3>1, <3>4, ConfirmAgrees
    <3>7. SetConfirmed(noted, p).id = noted.id
      BY <3>4 DEF SetConfirmed, Obj
    <3> QED
      BY <1>2, <3>4, <3>5, <3>6, <3>7
  <2> QED
    BY <1>11, <2>1, <2>2 DEF ConfirmLoaded
<1>12. CASE a.op = "dup" /\ DupLoaded(c, o)
  BY <1>3, <1>6, <1>12 DEF DupLoaded
<1>13. CASE a.op \in {"delete", "fileDelete"} /\ DeleteLoaded(c, o)
  <2>1. CASE Answer(c, o, FALSE)
    BY <1>3, <2>1
  <2>2. CASE o.name \in Dir /\ Proceed(c, "children", o) /\ UNCHANGED todo
    <3>1. /\ pc' = [pc EXCEPT ![c] = "children"] /\ pc'[c] = "children" /\ obj'[c] = o
          /\ ask' = ask /\ todo' = [todo EXCEPT ![c] = todo[c]]
          /\ info' = info /\ paths' = paths
      BY <2>2 DEF Proceed, Calls, CallsTyped, tables
    <3> QED
      BY <1>13, <2>2, <3>1 DEF Stage, Only, ByPath
  <2>3. CASE o.id # 0 /\ o.name \notin Dir /\ Save(c, SetDeleted(o))
    <3>1. Empty(info, a, SetDeleted(o)) /\ SetDeleted(o).id = o.id
      BY <1>1, <2>3 DEF SetDeleted, Empty, Obj
    <3> QED
      BY <1>1, <1>2, <2>3, <3>1, DeletedAgrees
  <2> QED
    BY <1>13, <2>1, <2>2, <2>3 DEF DeleteLoaded
<1> QED
  BY <1>7, <1>8, <1>9, <1>10, <1>11, <1>12, <1>13 DEF Handle

LEMMA LoadInfoStep ==
    ASSUME TablesTyped, Calls, NEW c \in Call, Simple(c), LoadInfo(c)
    PROVE  Stage(c)' /\ Only(c)
<1>1. pc[c] = "load" /\ UNCHANGED tables
  BY DEF LoadInfo
<1>2. ASSUME NEW i \in Wanted(c),
             LET o == Loaded(c, i)
             IN  IF o.name \in Dir THEN Handle(c, o)
                 ELSE Proceed(c, "paths", o) /\ UNCHANGED todo
      PROVE  Stage(c)' /\ Only(c)
  <2> DEFINE o == Loaded(c, i)
  <2>1. i \in DOMAIN info /\ info[i].status # Deleted
    BY DEF Wanted, Live
  <2>2. Good(DOMAIN info, DOMAIN paths, ask, c, o) /\ o.name = info[i].name /\ o.id = i /\ i # 0
    BY <2>1, LoadedGood
  <2>7. ask[c].op \notin ByPath => info[i].name = ask[c].name
    BY DEF Wanted, Live
  <2>3. o.status = info[i].status /\ o.md5 = info[i].md5 /\ o.dirty = {} /\ o.paths = {}
    BY DEF Loaded, Fresh
  <2> HIDE DEF o
  <2>4. Known(info, o) /\ o.status # Deleted
    BY <2>1, <2>2, <2>3 DEF Known
  <2>5. CASE o.name \in Dir /\ Handle(c, o)
    <3>1. Whole(info, paths, o)
      BY <2>3, <2>4, <2>5 DEF Whole, Fits, Covered
    <3> QED
      BY <1>1, <2>2, <2>5, <2>7, <3>1, HandleStep
  <2>6. CASE o.name \notin Dir /\ Proceed(c, "paths", o) /\ UNCHANGED todo
    <3>1. /\ pc' = [pc EXCEPT ![c] = "paths"] /\ pc'[c] = "paths" /\ obj'[c] = o
          /\ ask' = ask /\ todo' = [todo EXCEPT ![c] = todo[c]] /\ info' = info
      BY <1>1, <2>6 DEF Proceed, Calls, CallsTyped, tables
    <3> QED
      BY <2>3, <2>4, <2>6, <3>1 DEF Stage, Only
  <2> QED
    BY <1>2, <2>5, <2>6 DEF o
<1>3. CASE \E o, result : Answer(c, o, result)
  BY <1>3, AnswerStep
<1>4. CASE Wanted(c) = {} /\ ask[c].op \notin ByPath /\ Handle(c, Fresh(c, ask[c]))
  <2> DEFINE o == Fresh(c, ask[c])
  <2>1. Good(DOMAIN info, DOMAIN paths, ask, c, o)
    BY FreshIsGood DEF Calls, CallsTyped
  <2>2. /\ o.id = 0 /\ o.status = 0 /\ o.dirty = {} /\ o.paths = {}
        /\ o.name = ask[c].name /\ 0 # Deleted
    BY DEF Fresh, Deleted
  <2>3. Free(info, o.name)
    BY <1>4, <2>2 DEF Wanted, Live, Free
  <2>4. LiveOf(paths, 0) = {}
    BY DEF TablesTyped, LiveOf
  <2>5. Handle(c, o)
    BY <1>4
  <2> HIDE DEF o
  <2>6. Whole(info, paths, o)
    BY <2>2, <2>3, <2>4 DEF Whole, Known, Fits, Covered
  <2> QED
    BY <1>1, <2>1, <2>2, <2>5, <2>6, HandleStep
<1> QED
  BY <1>2, <1>3, <1>4 DEF LoadInfo

\* When no machine has two copies of a file, all its paths are loaded.
LEMMA LoadPathsStep ==
    ASSUME TablesTyped, Calls, OneCopyPerMachine, NEW c \in Call, Stage(c), Simple(c),
           LoadPaths(c)
    PROVE  Stage(c)' /\ Only(c)
<1>1. pc[c] = "paths" /\ UNCHANGED tables
  BY DEF LoadPaths
<1>2. PICK S \in LoadedPaths(obj[c].id) :
          Handle(c, [obj[c] EXCEPT !.paths = {PathObject(p) : p \in S}])
  BY DEF LoadPaths
<1> DEFINE T == {PathObject(p) : p \in S}
           i == obj[c].id
           o == [obj[c] EXCEPT !.paths = T]
<1>3. /\ Known(info, obj[c]) /\ obj[c].dirty = {} /\ obj[c].status # Deleted
      /\ obj[c].name \notin Dir /\ obj[c] \in Obj /\ i # 0 /\ i \in DOMAIN info
  BY <1>1 DEF Stage, Calls, CallsTyped, Fine, Good, Local
<1>4. S = LivePaths(i)
  <2>1. Distinct(LivePaths(i))
    BY <1>3 DEF OneCopyPerMachine, Known
  <2> QED
    BY <2>1 DEF LoadedPaths, Distinct
<1>5. LivePaths(i) = LiveOf(paths, i) /\ Distinct(S)
  BY DEF LivePaths, LiveOf, LoadedPaths
<1>6. \A p \in DOMAIN paths : paths[p] \in PathRow /\ p \in Nat /\ p # 0
  BY DEF TablesTyped
<1>7. \A p \in S : /\ PathObject(p) \in PathObj /\ PathObject(p).id = p
                   /\ PathObject(p).machine = paths[p].machine /\ PathObject(p).dirty = FALSE
                   /\ p \in DOMAIN paths /\ p # 0
                   /\ paths[p].file = i /\ paths[p].status # Deleted
  BY <1>4, <1>6 DEF PathObject, PathObj, PathRow, LivePaths
<1>8. Plain(T, DOMAIN paths)
  BY <1>7 DEF Plain
<1>9. /\ \A p \in T : /\ p.id # 0 /\ ~p.dirty
                      /\ paths[p.id].file = i /\ paths[p.id].machine = p.machine
                      /\ paths[p.id].status # Deleted
      /\ \A p, q \in T : p.machine = q.machine => p = q
      /\ \A q \in LiveOf(paths, i) : \E p \in T : p.id = q
  BY <1>4, <1>5, <1>7 DEF Distinct
<1>10. Handle(c, o)
  BY <1>2
<1> HIDE DEF T
<1>11. /\ Good(DOMAIN info, DOMAIN paths, ask, c, o)
       /\ o.name = obj[c].name /\ o.id = i /\ o.paths = T
       /\ o.status = obj[c].status /\ o.md5 = obj[c].md5 /\ o.dirty = obj[c].dirty
  BY <1>1, <1>3, <1>8, StayFacts, PathsSet DEF Obj
<1> HIDE DEF o
<1>12. Whole(info, paths, o)
  BY <1>3, <1>9, <1>11 DEF Whole, Known, Fits, Covered
<1> QED
  BY <1>1, <1>3, <1>10, <1>11, <1>12, HandleStep

LEMMA LoadChildrenStep ==
    ASSUME TablesTyped, Calls, NEW c \in Call, Stage(c), LoadChildren(c)
    PROVE  Stage(c)' /\ Only(c)
<1> DEFINE o == obj[c]
<1>1. pc[c] = "children" /\ UNCHANGED tables
  BY DEF LoadChildren
<1>2. CASE Answer(c, o, FALSE)
  BY <1>2, AnswerStep
<1>3. CASE Children(c) = {} /\ Save(c, SetDeleted(o))
  <2>1. /\ Whole(info, paths, o) /\ o \in Obj /\ o.id # 0 /\ o.id \in DOMAIN info \cup {0}
    BY <1>1 DEF Stage, Calls, CallsTyped, Fine, Good, Local
  <2>2. SetDeleted(o).id = o.id /\ SetDeleted(o).name = o.name
    BY <2>1 DEF SetDeleted, Obj
  <2>3. Empty(info, ask[c], SetDeleted(o))
    BY <1>1, <1>3, <2>2 DEF Empty, Children, Stage
  <2>4. Agrees(info, paths, ask[c], SetDeleted(o)) /\ SetDeleted(o) \in Obj
    BY <2>1, <2>3, DeletedAgrees
  <2> QED
    BY <1>1, <1>3, <2>1, <2>2, <2>4, SaveStep
<1> QED
  BY <1>2, <1>3 DEF LoadChildren

-----------------------------------------------------------------------------
(* The tables *)

\* A write of path p is open.
Awaited(p) == \E c \in Call : \E w \in todo[c] : w.write = "path" /\ w.path.id = p

Unique == \A i, j \in DOMAIN info :
             /\ info[i].name = info[j].name
             /\ info[i].status # Deleted /\ info[j].status # Deleted
             => i = j

\* What DeleteCascades and ReadyIsCurrent say, but for writes that are open.
Cascades ==
    \A p \in DOMAIN paths :
        /\ info[paths[p].file].status = Deleted /\ info[paths[p].file].name \notin Dir
        => paths[p].status = Deleted \/ Awaited(p)
Current ==
    \A p \in DOMAIN paths :
        paths[p].status = Normal =>
            /\ info[paths[p].file].name \notin Dir
            /\ proof[p] = info[paths[p].file].md5 \/ Awaited(p)

Held == Unique /\ Cascades /\ Current /\ OneCopyPerMachine

StayDeleted ==
    /\ \A i \in DOMAIN info : info[i].status = Deleted => info'[i].status = Deleted
    /\ \A p \in DOMAIN paths : paths[p].status = Deleted => paths'[p].status = Deleted

LEMMA OpenGrows ==
    ASSUME Calls, NEW c \in Call, Only(c), todo[c] \subseteq todo'[c]
    PROVE  \A p : Awaited(p) => Awaited(p)'
<1>1. \A d \in Call : todo[d] \subseteq todo'[d]
  BY DEF Only, Calls, CallsTyped
<1> QED
  BY <1>1 DEF Awaited

LEMMA HeldStays ==
    ASSUME Held, UNCHANGED tables, \A p : Awaited(p) => Awaited(p)'
    PROVE  Held' /\ StayDeleted
<1>1. info' = info /\ paths' = paths /\ proof' = proof
  BY DEF tables
<1>2. Unique' /\ Cascades' /\ Current'
  BY <1>1 DEF Held, Unique, Cascades, Current
<1>3. OneCopyPerMachine'
  BY <1>1 DEF Held, OneCopyPerMachine, Distinct, LivePaths
<1> QED
  BY <1>1, <1>2, <1>3 DEF Held, StayDeleted

\* What becomes of the row of a file and of its object.
LEMMA RowWritten ==
    ASSUME TablesTyped, Calls, NEW c \in Call, Stage(c), WriteInfo(c)
    PROVE  \E x \in Obj :
              /\ AfterSave(c, x)
              /\ x.name = obj[c].name /\ x.status = obj[c].status /\ x.md5 = obj[c].md5
              /\ x.paths = obj[c].paths /\ x.dirty = {} /\ x.client = obj[c].client
              /\ info'[x.id] = Row(x) /\ DOMAIN info' = DOMAIN info \cup {x.id}
              /\ \A j \in DOMAIN info : j # x.id => info'[j] = info[j]
              /\ IF obj[c].id = 0 THEN x.id \notin DOMAIN info /\ x.id # 0
                 ELSE x.id = obj[c].id /\ x.id \in DOMAIN info
<1> DEFINE o     == obj[c]
           row   == [name |-> o.name, status |-> o.status, md5 |-> o.md5]
           saved == [o EXCEPT !.dirty = {}]
<1>1. /\ o \in Obj /\ o.id \in DOMAIN info \cup {0} /\ o.name \in Name /\ pc[c] = "info"
      /\ Agrees(info, paths, ask[c], o)
  BY DEF WriteInfo, Calls, CallsTyped, Fine, Local, Good, Stage
<1>2. info \in Seq(InfoRow) /\ Len(info) \in Nat /\ DOMAIN info = 1 .. Len(info)
  BY DEF TablesTyped
<1>3. row \in InfoRow
  BY <1>1 DEF InfoRow, Obj
<1>4. /\ saved \in Obj /\ saved.id = o.id /\ saved.name = o.name /\ saved.status = o.status
      /\ saved.md5 = o.md5 /\ saved.paths = o.paths /\ saved.dirty = {}
      /\ saved.client = o.client
  BY <1>1 DEF Obj
<1>5. CASE /\ o.id = 0 /\ info' = Append(info, row)
           /\ AfterSave(c, [saved EXCEPT !.id = Len(info) + 1])
  <2> DEFINE x == [saved EXCEPT !.id = Len(info) + 1]
  <2>1. /\ x \in Obj /\ x.id = Len(info) + 1 /\ x.name = o.name /\ x.status = o.status
        /\ x.md5 = o.md5 /\ x.paths = o.paths /\ x.dirty = {} /\ x.client = o.client
    <3> HIDE DEF saved
    <3> QED
      BY <1>2, <1>4 DEF Obj
  <2>2. AfterSave(c, x)
    BY <1>5
  <2> HIDE DEF x
  <2>3. row = Row(x)
    BY <2>1 DEF Row
  <2>4. /\ info'[x.id] = row /\ DOMAIN info' = 1 .. Len(info) + 1
        /\ \A j \in DOMAIN info : info'[j] = info[j]
    <3> HIDE DEF row
    <3> QED
      BY <1>2, <1>3, <1>5, <2>1
  <2>5. 1 .. Len(info) + 1 = 1 .. Len(info) \cup {x.id} /\ x.id \notin 1 .. Len(info)
        /\ x.id # 0
    BY <1>2, <2>1
  <2> QED
    BY <1>2, <1>5, <2>1, <2>2, <2>3, <2>4, <2>5
<1>6. CASE /\ o.id # 0
           /\ info' = [info EXCEPT ![o.id] =
                 [k \in DOMAIN @ |-> IF k \in o.dirty THEN row[k] ELSE @[k]]]
           /\ AfterSave(c, saved)
  <2>1. o.id \in DOMAIN info /\ info[o.id] \in InfoRow
    BY <1>1, <1>2, <1>6
  <2>2. [k \in DOMAIN info[o.id] |-> IF k \in o.dirty THEN row[k] ELSE info[o.id][k]] = row
    <3>1. DOMAIN info[o.id] = {"name", "status", "md5"}
      BY <2>1 DEF InfoRow
    <3>2. /\ info[o.id]["name"] = o.name
          /\ "status" \notin o.dirty => info[o.id]["status"] = o.status
          /\ "md5" \notin o.dirty => info[o.id]["md5"] = o.md5
      BY <1>1, <1>6 DEF Agrees, Known
    <3> QED
      BY <3>1, <3>2
  <2>3. info' = [info EXCEPT ![o.id] = row]
    BY <1>6, <2>2
  <2>4. row = Row(saved)
    BY <1>4 DEF Row
  <2> HIDE DEF row, saved
  <2>5. /\ info'[saved.id] = Row(saved) /\ DOMAIN info' = DOMAIN info
        /\ \A j \in DOMAIN info : j # saved.id => info'[j] = info[j]
    BY <1>2, <1>4, <2>1, <2>3, <2>4
  <2>6. DOMAIN info = DOMAIN info \cup {saved.id} /\ saved.id \in DOMAIN info
    BY <1>4, <2>1
  <2> QED
    BY <1>4, <1>6, <2>5, <2>6
<1> QED
  BY <1>5, <1>6 DEF WriteInfo

LEMMA WriteInfoStep ==
    ASSUME TablesTyped, Calls, Held, NEW c \in Call, Stage(c), WriteInfo(c)
    PROVE  Stage(c)' /\ Only(c) /\ Held' /\ StayDeleted
<1> DEFINE o == obj[c]
<1>1. /\ o \in Obj /\ o.id \in DOMAIN info \cup {0} /\ todo[c] = {}
      /\ Agrees(info, paths, ask[c], o)
      /\ \A p \in o.paths : p.id \in DOMAIN paths \cup {0}
      /\ paths' = paths /\ proof' = proof
  BY DEF WriteInfo, Calls, CallsTyped, Fine, Local, Good, Stage
<1>2. PICK x \in Obj :
          /\ AfterSave(c, x)
          /\ x.name = o.name /\ x.status = o.status /\ x.md5 = o.md5 /\ x.paths = o.paths
          /\ info'[x.id] = Row(x) /\ DOMAIN info' = DOMAIN info \cup {x.id}
          /\ \A j \in DOMAIN info : j # x.id => info'[j] = info[j]
          /\ IF o.id = 0 THEN x.id \notin DOMAIN info /\ x.id # 0
             ELSE x.id = o.id /\ x.id \in DOMAIN info
  BY RowWritten
<1> DEFINE i == x.id
<1> HIDE DEF o
<1>3. \A p \in DOMAIN paths : paths[p].file \in DOMAIN info /\ paths[p].file # 0
  BY DEF TablesTyped
<1>4. /\ info'[i].name = o.name /\ info'[i].status = o.status /\ info'[i].md5 = o.md5
  BY <1>2 DEF Row
<1>5. o.id # 0 => /\ info[i].name = o.name /\ info[i].status # Deleted
                  /\ "md5" \notin o.dirty => info[i].md5 = o.md5
  BY <1>1, <1>2 DEF Agrees, Known
<1>6. Fits(paths', x, DirtyOf(x))
  <2>1. CASE o.id = 0
    <3>1. LiveOf(paths, i) = {}
      BY <1>2, <1>3, <2>1 DEF LiveOf
    <3>2. \A p \in o.paths : p.id = 0
      BY <1>1, <1>3, <2>1 DEF Agrees, Fits
    <3>3. \A p, q \in o.paths : p.machine = q.machine => p = q
      BY <1>1 DEF Agrees, Fits
    <3> QED
      BY <1>1, <1>2, <3>1, <3>2, <3>3 DEF Fits, DirtyOf
  <2>2. CASE o.id # 0
    BY <1>1, <1>2, <2>2 DEF Agrees, Fits, DirtyOf
  <2> QED
    BY <2>1, <2>2
<1>7. Readied(ask[c], x, DirtyOf(x))
  BY <1>1, <1>2 DEF Agrees, Readied, DirtyOf
<1>8. Stage(c)' /\ Only(c) /\ PathWrites(x) \subseteq todo'[c]
  BY <1>2, <1>6, <1>7, AfterSaveStep
<1>9. \A p : Awaited(p) => Awaited(p)'
  BY <1>1, <1>8, OpenGrows
<1>10. ASSUME NEW q \in o.paths, q.dirty PROVE Awaited(q.id)'
  <2> DEFINE w == [write |-> "path", path |-> q]
  <2>1. w \in todo'[c] /\ w.write = "path" /\ w.path = q
    BY <1>2, <1>8, <1>10 DEF PathWrites
  <2> HIDE DEF w
  <2> QED
    BY <2>1 DEF Awaited
<1>11. ASSUME NEW p \in DOMAIN paths, paths[p].file = i, paths[p].status # Deleted,
              o.name \notin Dir, "md5" \in o.dirty \/ o.status = Deleted
       PROVE  Awaited(p)'
  <2>1. p \in LiveOf(paths, o.id)
    BY <1>2, <1>3, <1>11 DEF LiveOf
  <2>2. PICK q \in o.paths : q.id = p
    BY <1>1, <1>11, <2>1 DEF Agrees, Covered
  <2>3. q.dirty
    BY <1>1, <1>11 DEF Agrees, Marks
  <2> QED
    BY <1>10, <2>2, <2>3
<1>12. Unique'
  BY <1>1, <1>2, <1>4, <1>5 DEF Held, Unique, Agrees, Known, Free
<1>13. Cascades'
  <2> SUFFICES ASSUME NEW p \in DOMAIN paths,
                      info'[paths[p].file].status = Deleted,
                      info'[paths[p].file].name \notin Dir
               PROVE  paths[p].status = Deleted \/ Awaited(p)'
    BY <1>1 DEF Cascades
  <2>1. CASE paths[p].file = i
    BY <1>4, <1>11, <2>1
  <2>2. CASE paths[p].file # i
    BY <1>2, <1>3, <1>9, <2>2 DEF Held, Cascades
  <2> QED
    BY <2>1, <2>2
<1>14. Current'
  <2> SUFFICES ASSUME NEW p \in DOMAIN paths, paths[p].status = Normal
               PROVE  /\ info'[paths[p].file].name \notin Dir
                      /\ proof[p] = info'[paths[p].file].md5 \/ Awaited(p)'
    BY <1>1 DEF Current
  <2>1. /\ info[paths[p].file].name \notin Dir
        /\ proof[p] = info[paths[p].file].md5 \/ Awaited(p)
    BY DEF Held, Current
  <2>2. CASE paths[p].file = i
    <3>1. o.id # 0
      BY <1>2, <1>3, <2>2
    <3>2. paths[p].status # Deleted
      BY DEF Normal, Deleted
    <3> QED
      BY <1>4, <1>5, <1>9, <1>11, <2>1, <2>2, <3>1, <3>2
  <2>3. CASE paths[p].file # i
    BY <1>2, <1>3, <1>9, <2>1, <2>3
  <2> QED
    BY <2>2, <2>3
<1>15. OneCopyPerMachine'
  <2> SUFFICES ASSUME NEW k \in DOMAIN info', info'[k].name \notin Dir,
                      NEW p \in DOMAIN paths, NEW q \in DOMAIN paths,
                      paths[p].file = k, paths[p].status # Deleted,
                      paths[q].file = k, paths[q].status # Deleted,
                      paths[p].machine = paths[q].machine
               PROVE  p = q
    BY <1>1 DEF OneCopyPerMachine, Distinct, LivePaths
  <2>1. k \in DOMAIN info /\ info[k].name = info'[k].name
    BY <1>2, <1>3, <1>4, <1>5
  <2> QED
    BY <2>1 DEF Held, OneCopyPerMachine, Distinct, LivePaths
<1>16. StayDeleted
  BY <1>1, <1>2, <1>5 DEF StayDeleted
<1> QED
  BY <1>8, <1>12, <1>13, <1>14, <1>15, <1>16 DEF Held

\* done(): the others of the writes stay open.
LEMMA WroteStep ==
    ASSUME Calls, NEW c \in Call, pc[c] = "writes", Simple(c), NEW w \in todo[c], NEW next,
           Wrote(c, w, next),
           Writing(info', paths', ask[c], obj[c], (todo[c] \ {w}) \cup next)
    PROVE  /\ Stage(c)' /\ Only(c) /\ todo'[c] = (todo[c] \ {w}) \cup next
           /\ \A p : Awaited(p) => Awaited(p)' \/ (w.write = "path" /\ w.path.id = p)
<1> DEFINE left == (todo[c] \ {w}) \cup next
<1>1. Stage(c)' /\ Only(c) /\ todo'[c] = left
  <2>1. CASE left = {} /\ Answer(c, obj[c], TRUE)
    BY <2>1, AnswerStep
  <2>2. CASE left # {} /\ Proceed(c, "writes", obj[c]) /\ todo' = [todo EXCEPT ![c] = left]
    <3> HIDE DEF left
    <3>1. /\ pc' = [pc EXCEPT ![c] = "writes"] /\ pc'[c] = "writes" /\ obj'[c] = obj[c]
          /\ todo'[c] = left /\ ask' = ask
      BY <2>2 DEF Proceed, Calls, CallsTyped
    <3>2. Writing(info', paths', ask[c], obj[c], left)
      BY DEF left
    <3>3. Stage(c)'
      BY <3>1, <3>2 DEF Stage
    <3> QED
      BY <2>2, <3>1, <3>3 DEF Only
  <2> QED
    BY <2>1, <2>2 DEF Wrote, Simple
<1>2. \A d \in Call : \A v \in todo[d] : v # w => v \in todo'[d]
  BY <1>1 DEF Only, Calls, CallsTyped
<1> QED
  BY <1>1, <1>2 DEF Awaited

\* What becomes of the row of a path.
LEMMA PathWritten ==
    ASSUME TablesTyped, Calls, NEW c \in Call, pc[c] = "writes", NEW w \in todo[c],
           Fits(paths, obj[c], PathsIn(todo[c])), WritePath(c, w)
    PROVE  \E at :
              /\ DOMAIN paths' = DOMAIN paths \cup {at}
              /\ IF w.path.id = 0 THEN at \notin DOMAIN paths
                 ELSE at = w.path.id /\ at \in DOMAIN paths
              /\ paths'[at].file = obj[c].id /\ paths'[at].machine = w.path.machine
              /\ paths'[at].status = w.path.status
              /\ ask[c].op = "confirm" /\ w.path.status = Normal => proof'[at] = ask[c].md5
              /\ \A q \in DOMAIN paths : q # at => paths'[q] = paths[q] /\ proof'[q] = proof[q]
<1> DEFINE p    == w.path
           at   == IF p.id = 0 THEN Len(paths) + 1 ELSE p.id
           new  == [file |-> obj[c].id, machine |-> p.machine, status |-> p.status]
           Seen == IF ask[c].op = "confirm" /\ p.status = Normal THEN ask[c].md5
                   ELSE IF p.id = 0 THEN NoMd5 ELSE proof[p.id]
<1>1. /\ w.write = "path" /\ p \in obj[c].paths /\ p.id \in DOMAIN paths \cup {0}
      /\ p \in PathsIn(todo[c])
  BY DEF WritePath, Calls, Fine, Local, Good, PathsIn
<1>2. /\ paths \in Seq(PathRow) /\ Len(paths) \in Nat /\ DOMAIN paths = 1 .. Len(paths)
      /\ DOMAIN proof = DOMAIN paths
  BY DEF TablesTyped
<1>3. /\ proof'[at] = Seen /\ \A q \in DOMAIN paths : q # at => proof'[q] = proof[q]
  <2>1. proof' = [q \in DOMAIN proof \cup {at} |-> IF q = at THEN Seen ELSE proof[q]]
    BY DEF WritePath
  <2> HIDE DEF at, Seen
  <2> QED
    BY <1>2, <2>1
<1>4. ask[c].op = "confirm" /\ p.status = Normal => proof'[at] = ask[c].md5
  BY <1>3
<1>5. CASE p.id = 0
  <2>1. paths' = Append(paths, new)
    BY <1>5 DEF WritePath
  <2>2. /\ new.file = obj[c].id /\ new.machine = p.machine /\ new.status = p.status
    OBVIOUS
  <2> HIDE DEF new
  <2>3. /\ DOMAIN paths' = 1 .. Len(paths) + 1 /\ paths'[Len(paths) + 1] = new
        /\ \A q \in 1 .. Len(paths) : paths'[q] = paths[q]
    BY <1>2, <2>1
  <2>4. 1 .. Len(paths) + 1 = 1 .. Len(paths) \cup {at} /\ at \notin 1 .. Len(paths)
    BY <1>2, <1>5
  <2>5. at = Len(paths) + 1
    BY <1>5
  <2> HIDE DEF at, p
  <2> QED
    BY <1>2, <1>3, <1>4, <1>5, <2>2, <2>3, <2>4, <2>5 DEF p
<1>6. CASE p.id # 0
  <2>1. paths' = [paths EXCEPT ![at].status = p.status] /\ at = p.id /\ at \in DOMAIN paths
    BY <1>1, <1>6 DEF WritePath
  <2>2. /\ paths[at] \in PathRow /\ paths[at].file = obj[c].id
        /\ paths[at].machine = p.machine
    BY <1>1, <1>2, <1>6, <2>1 DEF Fits
  <2> HIDE DEF at, p
  <2>3. /\ DOMAIN paths' = DOMAIN paths
        /\ paths'[at] = [paths[at] EXCEPT !.status = p.status]
        /\ \A q \in DOMAIN paths : q # at => paths'[q] = paths[q]
    BY <2>1
  <2>4. /\ paths'[at].file = paths[at].file /\ paths'[at].machine = paths[at].machine
        /\ paths'[at].status = p.status
    BY <2>2, <2>3 DEF PathRow
  <2>5. DOMAIN paths = DOMAIN paths \cup {at}
    BY <2>1
  <2>6. IF p.id = 0 THEN at \notin DOMAIN paths ELSE at = p.id /\ at \in DOMAIN paths
    BY <1>6, <2>1
  <2>7. paths'[at].file = obj[c].id /\ paths'[at].machine = p.machine
    BY <2>2, <2>4
  <2>8. \A q \in DOMAIN paths : q # at => paths'[q] = paths[q] /\ proof'[q] = proof[q]
    BY <1>3, <2>3
  <2> QED
    BY <1>4, <2>3, <2>4, <2>5, <2>6, <2>7, <2>8 DEF p
<1> QED
  BY <1>5, <1>6

LEMMA WritePathStep ==
    ASSUME TablesTyped, Calls, Held, NEW c \in Call, pc[c] = "writes", Stage(c), Simple(c),
           NEW w \in todo[c], WritePath(c, w)
    PROVE  Stage(c)' /\ Only(c) /\ Held' /\ StayDeleted /\ info' = info
           /\ todo[c] \ {w} \subseteq todo'[c]
<1> DEFINE o    == obj[c]
           i    == o.id
           p    == w.path
           W    == PathsIn(todo[c])
           left == todo[c] \ {w}
<1>1. /\ info[i] = Row(o) /\ Fits(paths, o, W) /\ Readied(ask[c], o, W)
      /\ \A v \in todo[c] : v.write = "folder" => Free(info, v.name)
  BY DEF Stage, Writing
<1>2. /\ w.write = "path" /\ p \in W /\ \A v \in todo[c] : v \in Writes
      /\ info' = info /\ Wrote(c, w, {}) /\ (todo[c] \ {w}) \cup {} = left
  BY DEF WritePath, PathsIn, Calls, CallsTyped
<1>3. \A r \in W : r.id \in DOMAIN paths \cup {0}
  BY DEF PathsIn, Calls, Fine, Local, Good
<1>4. ASSUME NEW r \in PathsIn(left) PROVE r \in W /\ r # p
  <2>1. PICK v \in left : v.write = "path" /\ r = v.path
    BY <1>4 DEF PathsIn
  <2>2. v \in Writes /\ w \in Writes /\ v # w
    BY <1>2, <2>1
  <2>3. v.path # w.path
    BY <1>2, <2>1, <2>2 DEF Writes
  <2> QED
    BY <2>1, <2>3 DEF PathsIn
<1>5. PICK at :
        /\ DOMAIN paths' = DOMAIN paths \cup {at}
        /\ IF p.id = 0 THEN at \notin DOMAIN paths ELSE at = p.id /\ at \in DOMAIN paths
        /\ paths'[at].file = i /\ paths'[at].machine = p.machine
        /\ paths'[at].status = p.status
        /\ ask[c].op = "confirm" /\ p.status = Normal => proof'[at] = ask[c].md5
        /\ \A q \in DOMAIN paths : q # at => paths'[q] = paths[q] /\ proof'[q] = proof[q]
  BY <1>1, PathWritten
<1>6. /\ info[i].name = o.name /\ info[i].status = o.status /\ info[i].md5 = o.md5
  BY <1>1 DEF Row
<1>7. p.id # 0 => /\ paths[at].file = i /\ paths[at].machine = p.machine
                  /\ paths[at].status # Deleted
  BY <1>1, <1>2, <1>5 DEF Fits
<1> HIDE DEF o, p, W, left
<1>8. Fits(paths', o, PathsIn(left))
  <2>1. ASSUME NEW r \in PathsIn(left), r.id = 0, o.name \notin Dir,
               NEW q \in LiveOf(paths', i)
        PROVE  paths'[q].machine # r.machine
    <3>1. CASE q = at
      BY <1>1, <1>2, <1>4, <1>5, <2>1, <3>1 DEF Fits
    <3>2. CASE q # at
      <4>1. q \in LiveOf(paths, i) /\ paths'[q].machine = paths[q].machine
        BY <1>5, <2>1, <3>2 DEF LiveOf
      <4> QED
        BY <1>1, <1>4, <2>1, <4>1 DEF Fits
    <3> QED
      BY <3>1, <3>2
  <2>2. ASSUME NEW r \in PathsIn(left), r.id # 0
        PROVE  /\ paths'[r.id].file = i /\ paths'[r.id].machine = r.machine
               /\ paths'[r.id].status # Deleted
    <3>1. /\ r.id \in DOMAIN paths /\ paths[r.id].file = i /\ paths[r.id].machine = r.machine
          /\ paths[r.id].status # Deleted
      BY <1>1, <1>3, <1>4, <2>2 DEF Fits
    <3>2. r.id # at
      BY <1>1, <1>2, <1>4, <1>5, <1>7, <3>1 DEF Fits
    <3> QED
      BY <1>5, <3>1, <3>2
  <2>3. \A r, s \in PathsIn(left) : r.machine = s.machine => r = s
    BY <1>1, <1>4 DEF Fits
  <2> QED
    BY <2>1, <2>2, <2>3 DEF Fits
<1>9. Writing(info', paths', ask[c], o, left)
  BY <1>1, <1>2, <1>4, <1>8 DEF Writing, Readied, left
<1>10. /\ Stage(c)' /\ Only(c) /\ todo'[c] = left
       /\ \A q : Awaited(q) => Awaited(q)' \/ p.id = q
  <2> DEFINE rest == (todo[c] \ {w}) \cup {}
  <2>1. rest = left
    BY <1>2
  <2> HIDE DEF rest
  <2>2. Writing(info', paths', ask[c], obj[c], rest)
    BY <1>9, <2>1 DEF o
  <2>3. /\ Stage(c)' /\ Only(c) /\ todo'[c] = rest
        /\ \A q : Awaited(q) => Awaited(q)' \/ (w.write = "path" /\ w.path.id = q)
    BY <1>2, <2>2, WroteStep DEF rest
  <2> QED
    BY <2>1, <2>3 DEF p
<1>11. \A q \in DOMAIN paths : q # at => p.id # q
  <2>1. 0 \notin DOMAIN paths
    BY DEF TablesTyped
  <2> QED
    BY <1>5, <2>1
<1>12. /\ o.status = Deleted /\ o.name \notin Dir => p.status = Deleted
       /\ p.status = Normal => o.name \notin Dir /\ o.md5 = ask[c].md5 /\ ask[c].op = "confirm"
  BY <1>1, <1>2 DEF Readied
<1>13. Unique'
  BY <1>2 DEF Held, Unique
<1>14. Cascades'
  <2> SUFFICES ASSUME NEW q \in DOMAIN paths',
                      info[paths'[q].file].status = Deleted,
                      info[paths'[q].file].name \notin Dir
               PROVE  paths'[q].status = Deleted \/ Awaited(q)'
    BY <1>2 DEF Cascades
  <2>1. CASE q = at
    BY <1>5, <1>6, <1>12, <2>1
  <2>2. CASE q # at
    BY <1>5, <1>10, <1>11, <2>2 DEF Held, Cascades
  <2> QED
    BY <2>1, <2>2
<1>15. Current'
  <2> SUFFICES ASSUME NEW q \in DOMAIN paths', paths'[q].status = Normal
               PROVE  /\ info[paths'[q].file].name \notin Dir
                      /\ proof'[q] = info[paths'[q].file].md5 \/ Awaited(q)'
    BY <1>2 DEF Current
  <2>1. CASE q = at
    BY <1>5, <1>6, <1>12, <2>1
  <2>2. CASE q # at
    BY <1>5, <1>10, <1>11, <2>2 DEF Held, Current
  <2> QED
    BY <2>1, <2>2
<1>16. OneCopyPerMachine'
  <2>1. ASSUME NEW k \in DOMAIN info, info[k].name \notin Dir,
               NEW q \in DOMAIN paths, paths[q].file = k, paths[q].status # Deleted,
               q # at, k = i, paths[q].machine = p.machine
        PROVE  FALSE
    <3>1. CASE p.id = 0
      <4>1. q \in LiveOf(paths, i)
        BY <2>1 DEF LiveOf
      <4> QED
        BY <1>1, <1>2, <1>6, <2>1, <3>1, <4>1 DEF Fits
    <3>2. CASE p.id # 0
      BY <1>5, <1>7, <2>1, <3>2 DEF Held, OneCopyPerMachine, Distinct, LivePaths
    <3> QED
      BY <3>1, <3>2
  <2> SUFFICES ASSUME NEW k \in DOMAIN info, info[k].name \notin Dir,
                      NEW q \in DOMAIN paths', NEW r \in DOMAIN paths',
                      paths'[q].file = k, paths'[q].status # Deleted,
                      paths'[r].file = k, paths'[r].status # Deleted,
                      paths'[q].machine = paths'[r].machine
               PROVE  q = r
    BY <1>2 DEF OneCopyPerMachine, Distinct, LivePaths
  <2>2. CASE q # at /\ r # at
    BY <1>5, <2>2 DEF Held, OneCopyPerMachine, Distinct, LivePaths
  <2>3. CASE q = at /\ r # at
    BY <1>5, <2>1, <2>3
  <2>4. CASE q # at /\ r = at
    BY <1>5, <2>1, <2>4
  <2> QED
    BY <2>2, <2>3, <2>4
<1>17. StayDeleted
  BY <1>2, <1>5, <1>7 DEF StayDeleted
<1> QED
  BY <1>2, <1>10, <1>13, <1>14, <1>15, <1>16, <1>17 DEF Held, left

LEMMA SelectFolderStep ==
    ASSUME TablesTyped, Calls, Held, NEW c \in Call, pc[c] = "writes", Stage(c), Simple(c),
           NEW w \in todo[c], SelectFolder(c, w)
    PROVE  /\ Stage(c)' /\ Only(c) /\ Held' /\ StayDeleted /\ info' = info
           /\ todo[c] \ {w} \subseteq todo'[c]
           /\ Live(w.name) = {} => [write |-> "folder", name |-> w.name] \in todo'[c]
<1> DEFINE next == IF Live(w.name) # {} THEN FolderOf(w.name)
                   ELSE {[write |-> "folder", name |-> w.name]}
           left == (todo[c] \ {w}) \cup next
<1>1. /\ w.write = "select" /\ UNCHANGED tables /\ Wrote(c, w, next)
      /\ info' = info /\ paths' = paths
  BY DEF SelectFolder, tables
<1>2. \A v \in next : v.write # "path" /\ (v.write = "folder" => Free(info, v.name))
  BY DEF FolderOf, Live, Free
<1>3. Live(w.name) = {} => [write |-> "folder", name |-> w.name] \in left
  OBVIOUS
<1> HIDE DEF next
<1>4. PathsIn(left) \subseteq PathsIn(todo[c])
  BY <1>2 DEF PathsIn
<1>5. Writing(info', paths', ask[c], obj[c], left)
  <2>1. Writing(info, paths, ask[c], obj[c], todo[c])
    BY DEF Stage
  <2> QED
    BY <1>1, <1>2, <1>4, <2>1 DEF Writing, Fits, Readied
<1>6. /\ Stage(c)' /\ Only(c) /\ todo'[c] = left
      /\ \A p : Awaited(p) => Awaited(p)'
  BY <1>1, <1>5, WroteStep
<1> QED
  BY <1>1, <1>3, <1>6, HeldStays

LEMMA InsertFolderStep ==
    ASSUME TablesTyped, Calls, Held, NEW c \in Call, pc[c] = "writes", Stage(c), Simple(c),
           NEW w \in todo[c], InsertFolder(c, w)
    PROVE  /\ Stage(c)' /\ Only(c) /\ Held' /\ StayDeleted
           /\ (todo[c] \ {w}) \cup FolderOf(w.name) \subseteq todo'[c]
           /\ \E i : /\ i \notin DOMAIN info /\ DOMAIN info' = DOMAIN info \cup {i}
                     /\ info'[i].name = w.name /\ info'[i].status = Normal
                     /\ \A j \in DOMAIN info : info'[j] = info[j]
<1> DEFINE o    == obj[c]
           i    == Len(info) + 1
           row  == [name |-> w.name, status |-> Normal, md5 |-> NoMd5]
           next == FolderOf(w.name)
           left == (todo[c] \ {w}) \cup next
<1>1. /\ w.write = "folder" /\ w \in Writes /\ \A v \in todo[c] : v \in Writes
      /\ info' = Append(info, row) /\ paths' = paths /\ proof' = proof
      /\ Wrote(c, w, next)
  BY DEF InsertFolder, Calls, CallsTyped
<1>2. /\ o.id \in DOMAIN info /\ info \in Seq(InfoRow) /\ DOMAIN info = 1 .. Len(info)
      /\ Len(info) \in Nat
  BY DEF Calls, Fine, Good, Local, TablesTyped
<1>3. row.name = w.name /\ row.status = Normal /\ Normal # Deleted
  BY DEF Normal, Deleted
<1>4. Writing(info, paths, ask[c], o, todo[c])
  BY DEF Stage
<1>5. /\ \A v \in next : v.write = "select"
      /\ \A v \in todo[c] : v # w /\ v.write = "folder" => v.name # w.name
  BY <1>1 DEF FolderOf, Writes
<1> HIDE DEF row
<1>6. /\ i \notin DOMAIN info /\ DOMAIN info' = DOMAIN info \cup {i} /\ info'[i] = row
      /\ \A j \in DOMAIN info : info'[j] = info[j]
  <2>1. /\ DOMAIN info' = 1 .. Len(info) + 1 /\ info'[Len(info) + 1] = row
        /\ \A j \in 1 .. Len(info) : info'[j] = info[j]
    BY <1>1, <1>2
  <2>2. 1 .. Len(info) + 1 = 1 .. Len(info) \cup {i} /\ i \notin 1 .. Len(info)
    BY <1>2
  <2> QED
    BY <1>2, <2>1, <2>2
<1> HIDE DEF i, next
<1>7. PathsIn(left) \subseteq PathsIn(todo[c])
  BY <1>5 DEF PathsIn
<1>8. \A v \in left : v.write = "folder" => Free(info', v.name)
  BY <1>3, <1>4, <1>5, <1>6 DEF Writing, Free
<1>9. Writing(info', paths', ask[c], o, left)
  BY <1>1, <1>2, <1>4, <1>6, <1>7, <1>8 DEF Writing, Fits, Readied
<1>10. /\ Stage(c)' /\ Only(c) /\ todo'[c] = left
       /\ \A p : Awaited(p) => Awaited(p)'
  BY <1>1, <1>9, WroteStep
<1>11. Free(info, w.name)
  BY <1>1, <1>4 DEF Writing
<1>12. Unique'
  BY <1>3, <1>6, <1>11 DEF Held, Unique, Free
<1>13. \A p \in DOMAIN paths : paths[p].file \in DOMAIN info
  BY DEF TablesTyped
<1>14. Cascades' /\ Current'
  BY <1>1, <1>6, <1>10, <1>13 DEF Held, Cascades, Current
<1>15. OneCopyPerMachine'
  <2>1. \A k \in DOMAIN info' : Distinct(LivePaths(k))' <=> Distinct(LivePaths(k))
    BY <1>1 DEF Distinct, LivePaths
  <2>2. Distinct(LivePaths(i))
    BY <1>6, <1>13 DEF Distinct, LivePaths
  <2> QED
    BY <1>6, <2>1, <2>2 DEF Held, OneCopyPerMachine
<1>16. StayDeleted
  BY <1>1, <1>6 DEF StayDeleted
<1> QED
  BY <1>3, <1>6, <1>10, <1>12, <1>14, <1>15, <1>16 DEF Held, next

-----------------------------------------------------------------------------
(* All calls *)

Alone == \A c, d \in Active : c = d

InTurn == /\ Alone
          /\ \A c \in Call : Stage(c) /\ Simple(c)
          /\ Held

LEMMA StatementStep ==
    ASSUME TablesTyped, Calls, Held, NEW c \in Call, Stage(c), Simple(c), Statement(c)
    PROVE  Stage(c)' /\ Only(c) /\ Held' /\ StayDeleted /\ failed' = failed
<1>1. ASSUME Stage(c)', Only(c), UNCHANGED tables, todo[c] = {}
      PROVE  Held' /\ StayDeleted
  BY <1>1, OpenGrows, HeldStays
<1>2. CASE LoadInfo(c)
  <2>1. UNCHANGED tables /\ failed' = failed /\ todo[c] = {}
    BY <1>2 DEF LoadInfo, Calls, Fine, Local
  <2> QED
    BY <1>1, <1>2, <2>1, LoadInfoStep
<1>3. CASE NoSpace(c)
  <2>1. UNCHANGED tables /\ failed' = failed /\ todo[c] = {} /\ Answer(c, obj[c], FALSE)
    BY <1>3 DEF NoSpace, Calls, Fine, Local
  <2> QED
    BY <1>1, <2>1, AnswerStep
<1>4. CASE LoadPaths(c)
  <2>1. UNCHANGED tables /\ failed' = failed /\ todo[c] = {}
    BY <1>4 DEF LoadPaths, Calls, Fine, Local
  <2> QED
    BY <1>1, <1>4, <2>1, LoadPathsStep DEF Held
<1>5. CASE LoadChildren(c)
  <2>1. UNCHANGED tables /\ failed' = failed /\ todo[c] = {}
    BY <1>5 DEF LoadChildren, Calls, Fine, Local
  <2> QED
    BY <1>1, <1>5, <2>1, LoadChildrenStep
<1>6. CASE WriteInfo(c)
  <2>1. failed' = failed
    BY <1>6 DEF WriteInfo
  <2> QED
    BY <1>6, <2>1, WriteInfoStep
<1>7. CASE Write(c)
  <2>1. PICK w \in todo[c] : WritePath(c, w) \/ SelectFolder(c, w) \/ InsertFolder(c, w)
    BY <1>7 DEF Write
  <2>2. pc[c] = "writes" /\ failed' = failed
    BY <1>7, <2>1 DEF Write, WritePath, SelectFolder, InsertFolder
  <2> QED
    BY <2>1, <2>2, WritePathStep, SelectFolderStep, InsertFolderStep
<1> QED
  BY <1>2, <1>3, <1>4, <1>5, <1>6, <1>7 DEF Statement

\* The other calls wait for their start or have ended.
LEMMA OthersStay ==
    ASSUME Calls, NEW c \in Active, Alone, Only(c), failed' = failed,
           NEW d \in Call, d # c, Simple(d)
    PROVE  Stage(d)' /\ Simple(d)' /\ d \notin Active'
<1>1. pc[d] \in {"idle", "done", "lost"}
  BY DEF Alone, Active
<1>2. pc'[d] = pc[d] /\ ask'[d] = ask[d] /\ failed'[d] = failed[d]
  BY DEF Only, Calls, CallsTyped
<1> QED
  BY <1>1, <1>2 DEF Stage, Simple, Active

LEMMA StartStep ==
    ASSUME OneByOne, TablesTyped, Calls, InTurn, NEW c \in Call, Start(c)
    PROVE  InTurn' /\ StayDeleted
<1>1. PICK a \in Requests : ask' = [ask EXCEPT ![c] = a]
  BY DEF Start
<1>2. /\ pc' = [pc EXCEPT ![c] = "load"] /\ Cardinality(Active) < 1
      /\ UNCHANGED <<info, paths, proof, todo, failed>>
  BY DEF Start, OneByOne, tables
<1>3. Active = {}
  <2>1. IsFiniteSet(Active)
    BY FileMetaAssumption, FS_Subset DEF Active
  <2>2. Cardinality(Active) \in Nat /\ (Cardinality(Active) = 0 <=> Active = {})
    BY <2>1, FS_CardinalityType, FS_EmptySet
  <2> QED
    BY <1>2, <2>2
<1>4. a.op = "put" => a.to = NoName
  BY RequestsTyped DEF OneByOne
<1>5. \A d \in Call : d # c => pc'[d] = pc[d] /\ ask'[d] = ask[d]
  BY <1>1, <1>2 DEF Calls, CallsTyped
<1>6. pc'[c] = "load" /\ ask'[c] = a
  BY <1>1, <1>2 DEF Calls, CallsTyped
<1>7. ASSUME NEW d \in Call PROVE Stage(d)' /\ Simple(d)' /\ (d \in Active' => d = c)
  <2>1. pc[d] \in {"idle", "done", "lost"}
    BY <1>3 DEF Active
  <2>2. Simple(d) /\ failed'[d] = failed[d]
    BY <1>2 DEF InTurn
  <2>3. CASE d = c
    BY <1>4, <1>6, <2>2, <2>3 DEF Stage, Simple
  <2>4. CASE d # c
    BY <1>5, <2>1, <2>2, <2>4 DEF Stage, Simple, Active
  <2> QED
    BY <2>3, <2>4
<1>8. Alone'
  BY <1>7 DEF Alone, Active
<1>9. Held' /\ StayDeleted
  <2>1. UNCHANGED tables /\ \A p : Awaited(p) => Awaited(p)'
    BY <1>2 DEF tables, Awaited
  <2> QED
    BY <2>1, HeldStays DEF InTurn
<1> QED
  BY <1>7, <1>8, <1>9 DEF InTurn

LEMMA TurnKept ==
    ASSUME OneByOne, TablesTyped, Calls, InTurn, [Next]_vars
    PROVE  InTurn' /\ StayDeleted
<1>1. CASE UNCHANGED vars
  <2>1. UNCHANGED <<info, paths, proof, pc, ask, obj, todo, failed>>
    BY <1>1 DEF vars, tables, calls
  <2>2. UNCHANGED tables /\ \A p : Awaited(p) => Awaited(p)'
    BY <2>1 DEF tables, Awaited
  <2>3. Held' /\ StayDeleted
    BY <2>2, HeldStays DEF InTurn
  <2>4. Alone' /\ \A c \in Call : Stage(c)' /\ Simple(c)'
    BY <2>1 DEF InTurn, Alone, Active, Stage, Simple
  <2> QED
    BY <2>3, <2>4 DEF InTurn
<1>2. ASSUME NEW c \in Call, Statement(c) PROVE InTurn' /\ StayDeleted
  <2>1. Stage(c)' /\ Only(c) /\ Held' /\ StayDeleted /\ failed' = failed
    BY <1>2, StatementStep DEF InTurn
  <2>2. c \in Active
    BY <1>2 DEF Active, Statement, LoadInfo, NoSpace, LoadPaths, LoadChildren, WriteInfo, Write
  <2>3. Simple(c)'
    BY <2>1 DEF InTurn, Simple, Only
  <2>4. \A d \in Call : d # c => Stage(d)' /\ Simple(d)' /\ d \notin Active'
    BY <2>1, <2>2, OthersStay DEF InTurn
  <2>5. Alone'
    BY <2>4 DEF Alone, Active
  <2> QED
    BY <2>1, <2>3, <2>4, <2>5 DEF InTurn
<1>3. \A c \in Call : ~Fail(c) /\ ~CallBackAgain(c)
  BY DEF Fail, CallBackAgain, OneByOne
<1> QED
  BY <1>1, <1>2, <1>3, StartStep DEF Next

LEMMA TurnAtInit == Init => InTurn
<1> SUFFICES ASSUME Init PROVE InTurn
  OBVIOUS
<1>1. Active = {} /\ \A c \in Call : Stage(c) /\ Simple(c)
  BY DEF Init, Active, Stage, Simple, Idle
<1>2. Held
  BY DEF Init, Held, Unique, Cascades, Current, OneCopyPerMachine
<1> QED
  BY <1>1, <1>2 DEF InTurn, Alone

LEMMA TurnInvariant == ASSUME OneByOne PROVE Spec => []InTurn
<1>1. TablesTyped /\ Calls /\ InTurn /\ [Next]_vars => InTurn'
  BY TurnKept
<1> QED
  BY TurnAtInit, MetaInvariant, <1>1, PTL DEF Spec

-----------------------------------------------------------------------------
(* What holds between calls *)

LEMMA NothingOpen ==
    ASSUME Calls, Quiet
    PROVE  \A c \in Call : todo[c] = {}
BY DEF Calls, Fine, Local, Quiet, Active

\* What the invariant says of the tables, between calls and during them.
LEMMA TurnMeans ==
    ASSUME Calls, InTurn
    PROVE  UniqueName /\ ReadyIsCurrent /\ DeleteCascades /\ OneCopyPerMachine
<1>1. ASSUME NEW n \in Name PROVE Cardinality(Live(n)) <= 1
  <2>1. CASE Live(n) = {}
    BY <2>1, FS_EmptySet
  <2>2. CASE Live(n) # {}
    <3>1. PICK i : i \in Live(n)
      BY <2>2
    <3>2. Live(n) = {i}
      BY <3>1 DEF InTurn, Held, Live, Unique
    <3> QED
      BY <3>2, FS_Singleton, 1 <= 1
  <2> QED
    BY <2>1, <2>2
<1>2. UniqueName
  BY <1>1 DEF UniqueName
<1>3. ReadyIsCurrent
  BY NothingOpen DEF InTurn, Held, Current, Awaited, ReadyIsCurrent
<1>4. DeleteCascades
  BY NothingOpen DEF InTurn, Held, Cascades, Awaited, DeleteCascades
<1>5. OneCopyPerMachine
  BY DEF InTurn, Held
<1> QED
  BY <1>2, <1>3, <1>4, <1>5

\* While calls come one by one and none renames a file, a name belongs to one file
\* that is not deleted: load() finds the file before save() would insert another, and
\* saveParentFolder() inserts a folder once (metadataFactory.js:151-242).
THEOREM NamesAreUnique == ASSUME OneByOne PROVE Spec => []UniqueName
<1>1. Calls /\ InTurn => UniqueName
  BY TurnMeans
<1> QED
  BY <1>1, TurnInvariant, MetaInvariant, PTL

\* Between calls that come one by one, a path that is served has the content of its
\* file: a metaPut that changes the md5 resets the paths it has loaded, and a
\* confirmation is refused for another md5 (metadata.js:188-206,
\* fileUploadConfirm.js:41-92).
THEOREM ServedIsCurrent == ASSUME OneByOne PROVE Spec => []ReadyIsCurrent
<1>1. Calls /\ InTurn => ReadyIsCurrent
  BY TurnMeans
<1> QED
  BY <1>1, TurnInvariant, MetaInvariant, PTL

\* Between calls that come one by one, the paths of a deleted file are deleted: all
\* its paths were loaded, marked and written (metadata.js:109-125,
\* metadataFactory.js:260-321).
THEOREM DeletionCascades == ASSUME OneByOne PROVE Spec => []DeleteCascades
<1>1. Calls /\ InTurn => DeleteCascades
  BY TurnMeans
<1> QED
  BY <1>1, TurnInvariant, MetaInvariant, PTL

\* While calls come one by one, a machine has at most one path of a file that is not
\* deleted: fileUpload and metaDuplication give paths to machines that have none
\* (metadata.js:290-310, metaDuplication.js:48-71).
THEOREM MachinesHoldOneCopy == ASSUME OneByOne PROVE Spec => []OneCopyPerMachine
<1>1. Calls /\ InTurn => OneCopyPerMachine
  BY TurnMeans
<1> QED
  BY <1>1, TurnInvariant, MetaInvariant, PTL

\* While calls come one by one, no step brings back a row of a file or of a path that
\* was deleted: load() finds neither, and save() updates what was loaded.
THEOREM DeletedStaysDeleted == ASSUME OneByOne PROVE Spec => DeletedForGood
<1>1. TablesTyped /\ Calls /\ InTurn /\ [Next]_vars =>
          [/\ \A i \in DOMAIN info : info[i].status = Deleted => info'[i].status = Deleted
           /\ \A p \in DOMAIN paths : paths[p].status = Deleted => paths'[p].status = Deleted
          ]_vars
  BY TurnKept DEF StayDeleted
<1> QED
  BY <1>1, TurnInvariant, MetaInvariant, PTL DEF Spec, DeletedForGood

-----------------------------------------------------------------------------
(* Folders *)

\* A save looks for folder f, or is about to make it.
Sought(f) == \E c \in Call : \E w \in todo[c] : w.write \in {"select", "folder"} /\ w.name = f

Found(f) == Live(f) # {} \/ Sought(f)
Foldered ==
    \A i \in DOMAIN info :
        info[i].status # Deleted /\ Parent[info[i].name] # NoName => Found(Parent[info[i].name])

NoFileDelete == \A c \in Call : ask[c].op # "fileDelete"

\* The writes of the other calls stay open.
LEMMA SoughtByOthers ==
    ASSUME Calls, NEW c \in Call, Only(c), NEW w, todo[c] \ {w} \subseteq todo'[c],
           NEW f, Sought(f)
    PROVE  Sought(f)' \/ (w.write \in {"select", "folder"} /\ w.name = f)
<1>1. PICK d \in Call : \E v \in todo[d] : v.write \in {"select", "folder"} /\ v.name = f
  BY DEF Sought
<1>2. PICK v \in todo[d] : v.write \in {"select", "folder"} /\ v.name = f
  BY <1>1
<1>3. d # c => v \in todo'[d]
  BY DEF Only, Calls, CallsTyped
<1> QED
  BY <1>2, <1>3 DEF Sought

LEMMA FoldersStay ==
    ASSUME Foldered, info' = info,
           \A f : Sought(f) => Found(f)'
    PROVE  Foldered'
<1>1. \A f : Found(f) => Found(f)'
  BY DEF Found, Live
<1> QED
  BY <1>1 DEF Foldered

LEMMA FolderWriteInfo ==
    ASSUME TablesTyped, Calls, NEW c \in Call, Stage(c), WriteInfo(c), Foldered,
           NoFileDelete, Only(c)
    PROVE  Foldered'
<1> DEFINE o == obj[c]
<1>1. todo[c] = {} /\ Agrees(info, paths, ask[c], o) /\ o.id \in DOMAIN info \cup {0}
  BY DEF WriteInfo, Calls, Fine, Local, Good, Stage
<1>2. PICK x \in Obj :
          /\ AfterSave(c, x)
          /\ x.name = o.name /\ x.status = o.status /\ x.md5 = o.md5 /\ x.paths = o.paths
          /\ info'[x.id] = Row(x) /\ DOMAIN info' = DOMAIN info \cup {x.id}
          /\ \A j \in DOMAIN info : j # x.id => info'[j] = info[j]
          /\ IF o.id = 0 THEN x.id \notin DOMAIN info /\ x.id # 0
             ELSE x.id = o.id /\ x.id \in DOMAIN info
  BY RowWritten
<1> HIDE DEF o
<1>3. info'[x.id].name = o.name /\ info'[x.id].status = o.status
  BY <1>2 DEF Row
<1>4. FolderOf(o.name) \subseteq todo'[c]
  <2>1. CASE FolderOf(x.name) \cup PathWrites(x) = {}
    BY <1>2, <2>1
  <2>2. CASE todo' = [todo EXCEPT ![c] = FolderOf(x.name) \cup PathWrites(x)]
    BY <1>2, <2>2 DEF Calls, CallsTyped
  <2> QED
    BY <1>2, <2>1, <2>2 DEF AfterSave
<1>5. \A f : Sought(f) => Sought(f)'
  BY <1>1 DEF Sought, Only, Calls, CallsTyped
<1>6. ASSUME NEW j \in DOMAIN info, info[j].status # Deleted, j # x.id,
             NEW f \in Dir, f = Parent[info[j].name], NEW k \in Live(f)
      PROVE  Live(f)' # {}
  <2>1. k \in DOMAIN info /\ info[k].name = f /\ info[k].status # Deleted
    BY <1>6 DEF Live
  <2>2. CASE k # x.id
    <3>1. k \in DOMAIN info' /\ info'[k] = info[k]
      BY <1>2, <2>1, <2>2
    <3> QED
      BY <2>1, <3>1 DEF Live
  <2>3. CASE k = x.id
    <3>1. o.id = k /\ o.name = f /\ o.id # 0
      BY <1>1, <1>2, <2>1, <2>3 DEF Agrees, Known
    <3>2. o.status # Deleted
      BY <1>1, <1>6, <3>1 DEF Agrees, Empty, NoFileDelete
    <3> QED
      BY <1>2, <1>3, <2>3, <3>1, <3>2 DEF Live
  <2> QED
    BY <2>2, <2>3
<1>7. ASSUME NEW f, f = Parent[o.name], f # NoName PROVE Sought(f)'
  <2> DEFINE w == [write |-> "select", name |-> f]
  <2>1. w \in todo'[c]
    BY <1>4, <1>7 DEF FolderOf
  <2>2. w.write = "select" /\ w.name = f
    OBVIOUS
  <2> HIDE DEF w
  <2> QED
    BY <2>1, <2>2 DEF Sought
<1>8. SUFFICES ASSUME NEW j \in DOMAIN info', info'[j].status # Deleted,
                      NEW f, f = Parent[info'[j].name], f # NoName
               PROVE  Found(f)'
  BY DEF Foldered
<1>9. CASE j = x.id
  BY <1>3, <1>7, <1>8, <1>9 DEF Found
<1>10. CASE j # x.id
  <2>1. j \in DOMAIN info /\ info'[j] = info[j]
    BY <1>2, <1>10
  <2>2. info[j] \in InfoRow
    BY <2>1 DEF TablesTyped
  <2>3. f \in Dir
    BY <1>8, <2>1, <2>2, FileMetaAssumption DEF InfoRow
  <2>4. Found(f)
    BY <1>8, <2>1 DEF Foldered
  <2> QED
    BY <1>5, <1>6, <1>8, <1>10, <2>1, <2>3, <2>4 DEF Found
<1> QED
  BY <1>9, <1>10

LEMMA FolderWrites ==
    ASSUME TablesTyped, Calls, Held, NEW c \in Call, Stage(c), Simple(c), Write(c), Foldered
    PROVE  Foldered'
<1>1. PICK w \in todo[c] : WritePath(c, w) \/ SelectFolder(c, w) \/ InsertFolder(c, w)
  BY DEF Write
<1>2. pc[c] = "writes"
  BY DEF Write
<1>3. CASE WritePath(c, w)
  <2>1. w.write = "path" /\ Only(c) /\ info' = info /\ todo[c] \ {w} \subseteq todo'[c]
    BY <1>2, <1>3, WritePathStep DEF WritePath
  <2>2. \A f : Sought(f) => Sought(f)'
    BY <2>1, SoughtByOthers
  <2> QED
    BY <2>1, <2>2, FoldersStay DEF Found
<1>4. CASE SelectFolder(c, w)
  <2>1. /\ Only(c) /\ info' = info /\ todo[c] \ {w} \subseteq todo'[c]
        /\ Live(w.name) = {} => [write |-> "folder", name |-> w.name] \in todo'[c]
    BY <1>2, <1>4, SelectFolderStep
  <2>2. ASSUME NEW f, Sought(f) PROVE Found(f)'
    <3>1. CASE Sought(f)'
      BY <3>1 DEF Found
    <3>2. CASE w.name = f /\ Live(f) # {}
      BY <2>1, <3>2 DEF Found, Live
    <3>3. CASE w.name = f /\ Live(f) = {}
      <4> DEFINE v == [write |-> "folder", name |-> f]
      <4>1. v \in todo'[c] /\ v.write = "folder" /\ v.name = f
        BY <2>1, <3>3
      <4> HIDE DEF v
      <4> QED
        BY <4>1 DEF Found, Sought
    <3> QED
      BY <2>1, <2>2, <3>1, <3>2, <3>3, SoughtByOthers
  <2> QED
    BY <2>1, <2>2, FoldersStay
<1>5. CASE InsertFolder(c, w)
  <2>1. /\ Only(c) /\ (todo[c] \ {w}) \cup FolderOf(w.name) \subseteq todo'[c]
    BY <1>2, <1>5, InsertFolderStep
  <2>2. PICK i : /\ i \notin DOMAIN info /\ DOMAIN info' = DOMAIN info \cup {i}
                 /\ info'[i].name = w.name /\ info'[i].status = Normal
                 /\ \A j \in DOMAIN info : info'[j] = info[j]
    BY <1>2, <1>5, InsertFolderStep
  <2>3. Normal # Deleted
    BY DEF Normal, Deleted
  <2>4. \A f : Live(f) # {} => Live(f)' # {}
    BY <2>2 DEF Live
  <2>5. ASSUME NEW f, f = w.name PROVE Live(f)' # {}
    BY <2>2, <2>3, <2>5 DEF Live
  <2>6. \A f : Found(f) => Found(f)'
    BY <2>1, <2>4, <2>5, SoughtByOthers DEF Found
  <2>7. ASSUME NEW f, f = Parent[w.name], f # NoName PROVE Found(f)'
    <3> DEFINE v == [write |-> "select", name |-> f]
    <3>1. v \in todo'[c] /\ v.write = "select" /\ v.name = f
      BY <2>1, <2>7 DEF FolderOf
    <3> HIDE DEF v
    <3> QED
      BY <3>1 DEF Found, Sought
  <2> QED
    BY <2>2, <2>6, <2>7 DEF Foldered
<1> QED
  BY <1>1, <1>3, <1>4, <1>5

LEMMA FoldersKept ==
    ASSUME OneByOne, "fileDelete" \notin Ops, TablesTyped, Calls, InTurn, Foldered,
           NoFileDelete, [Next]_vars
    PROVE  Foldered' /\ NoFileDelete'
<1>1. CASE UNCHANGED vars
  BY <1>1 DEF vars, tables, calls, Foldered, Found, Live, Sought, NoFileDelete
<1>2. ASSUME NEW c \in Call, Start(c) PROVE Foldered' /\ NoFileDelete'
  <2>1. PICK a \in Requests : a.op \in Ops /\ ask' = [ask EXCEPT ![c] = a]
    BY <1>2 DEF Start
  <2>2. info' = info /\ todo' = todo
    BY <1>2 DEF Start, tables
  <2>3. NoFileDelete'
    BY <2>1 DEF NoFileDelete, Calls, CallsTyped
  <2> QED
    BY <2>2, <2>3 DEF Foldered, Found, Live, Sought
<1>3. ASSUME NEW c \in Call, Statement(c) PROVE Foldered' /\ NoFileDelete'
  <2>1. Only(c) /\ Stage(c) /\ Simple(c) /\ Held
    BY <1>3, StatementStep DEF InTurn
  <2>2. NoFileDelete'
    BY <2>1 DEF Only, NoFileDelete
  <2>3. CASE pc[c] # "writes" /\ UNCHANGED tables
    <3>1. todo[c] = {} /\ info' = info
      BY <2>3 DEF Calls, Fine, Local, tables
    <3>2. \A f : Sought(f) => Sought(f)'
      BY <2>1, <3>1 DEF Sought, Only, Calls, CallsTyped
    <3> QED
      BY <2>2, <3>1, <3>2, FoldersStay DEF Found
  <2>4. CASE WriteInfo(c)
    BY <2>1, <2>2, <2>4, FolderWriteInfo
  <2>5. CASE Write(c)
    BY <2>1, <2>2, <2>5, FolderWrites
  <2>6. \/ WriteInfo(c) \/ Write(c)
        \/ pc[c] # "writes" /\ UNCHANGED tables
    BY <1>3 DEF Statement, LoadInfo, NoSpace, LoadPaths, LoadChildren
  <2> QED
    BY <2>3, <2>4, <2>5, <2>6
<1>4. \A c \in Call : ~Fail(c) /\ ~CallBackAgain(c)
  BY DEF Fail, CallBackAgain, OneByOne
<1> QED
  BY <1>1, <1>2, <1>3, <1>4 DEF Next

LEMMA FoldersMean ==
    ASSUME Calls, Foldered
    PROVE  FolderExists
BY NothingOpen DEF Foldered, Found, Sought, FolderExists

\* Between calls that come one by one and none of which is a fileDelete, every file
\* that is not deleted lies in a folder that is not: a save makes the folders above it
\* before it answers, and metaDelete refuses a folder with files in it
\* (metadataFactory.js:214-242, metaDelete.js:27-52).
THEOREM FoldersExist ==
    ASSUME OneByOne, "fileDelete" \notin Ops
    PROVE  Spec => []FolderExists
<1>1. Init => Foldered /\ NoFileDelete
  BY DEF Init, Foldered, NoFileDelete, Idle
<1>2. TablesTyped /\ Calls /\ InTurn /\ Foldered /\ NoFileDelete /\ [Next]_vars =>
          Foldered' /\ NoFileDelete'
  BY FoldersKept
<1>3. Calls /\ Foldered => FolderExists
  BY FoldersMean
<1> QED
  BY <1>1, <1>2, <1>3, TurnInvariant, MetaInvariant, PTL DEF Spec
=============================================================================
