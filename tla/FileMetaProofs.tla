---------------------------- MODULE FileMetaProofs ----------------------------
(***************************************************************************)
(* The metadata of files, for every set of calls, names, machines and      *)
(* contents, with calls side by side and statements that fail.             *)
(***************************************************************************)
EXTENDS FileMeta, FiniteSetTheorems, TLAPS

-----------------------------------------------------------------------------
(* Types *)

St      == {0, Normal, Deleted}
Content == Md5 \cup {NoMd5}
InfoRow == [name : Name, status : St, md5 : Content]
PathRow == [file : Nat, machine : Machine, status : St]
PathObj == [id : Nat, machine : Machine, status : St, dirty : BOOLEAN]
Obj     == [id : Nat, name : Name \cup {NoName}, status : St, md5 : Content,
            dirty : SUBSET {"name", "status", "md5"}, paths : SUBSET PathObj,
            client : Call]
Asked   == [op : Operation \cup {"none"}, name : Name \cup {NoName},
            to : Name \cup {NoName}, md5 : Content, machine : Machine \cup {NoName},
            row : Nat]
Coming  == [by : Call, name : Name, md5 : Content]
Writes  == [write : {"path"}, path : PathObj]
              \cup [write : {"select", "folder"}, name : Dir]
Places  == {"idle", "load", "paths", "children", "info", "writes", "done", "lost"}

TablesTyped ==
    /\ info \in Seq(InfoRow)
    /\ paths \in Seq(PathRow)
    /\ \A p \in DOMAIN paths : paths[p].file \in DOMAIN info
    /\ proof \in [DOMAIN paths -> Content]

CallsTyped ==
    /\ pc \in [Call -> Places]
    /\ ask \in [Call -> Asked]
    /\ obj \in [Call -> Obj]
    /\ todo \in [Call -> SUBSET Writes]
    /\ failed \in [Call -> SUBSET Mishap]
    /\ answers \in [Call -> Nat]
    /\ ok \in [Call -> BOOLEAN]
    /\ upcoming \subseteq Coming
    /\ lastPut \in Call \cup {NoName}

\* A call works on what it was asked, and the callback of a metaPut is that of a
\* metaPut.
Asks(c) ==
    /\ pc[c] = "idle" <=> ask[c].op = "none"
    /\ ask[c].op \notin {"none"} \cup ByPath => ask[c].name \in Name
    /\ ask[c].op = "confirm" => ask[c].md5 \in Md5
    /\ ask[c].op = "upload" => ask[c].machine \in Machine
    /\ ask[c].op = "put" => lastPut \in Call /\ ask[lastPut].op = "put"

\* An object o of call c, where the tables have the rows I and P and the calls were
\* asked A: its rows exist, and only a confirmation makes paths ready.
Good(I, P, A, c, o) ==
    /\ o \in Obj
    /\ o.id \in I \cup {0}
    /\ \A p \in o.paths : /\ p.id \in P \cup {0}
                          /\ p.dirty /\ p.status = Normal => A[c].op = "confirm"
    /\ IF A[c].op = "put" THEN A[o.client].op = "put" ELSE o.client = c

\* What an object and the open writes are at each place of a call.
Local(o, at, writes) ==
    /\ writes # {} <=> at = "writes"
    /\ \A w \in writes : w.write = "path" => w.path \in o.paths /\ w.path.dirty
    /\ at \in {"paths", "children", "writes"} => o.id # 0
    /\ at = "paths" => o.paths = {}
    /\ at \in {"paths", "children", "info", "writes"} => o.name \in Name

Fine(c) == /\ Good(DOMAIN info, DOMAIN paths, ask, c, obj[c])
           /\ Local(obj[c], pc[c], todo[c])

Calls == CallsTyped /\ \A c \in Call : Asks(c) /\ Fine(c)

\* A step of call c ends it with a callback, its own or of another metaPut, or takes
\* it on or to its loss without one.
Ends(c) ==
    \E o : \E result \in BOOLEAN :
        /\ Answer(c, o, result)
        /\ o.client \in Call /\ ask[o.client].op = ask[c].op
        /\ ask[c].op # "put" => o.client = c
Goes(c) ==
    /\ \E at \in Places \ {"idle", "done"} : pc' = [pc EXCEPT ![c] = at]
    /\ UNCHANGED <<ask, answers, ok>>
Moves(c) == Ends(c) \/ Goes(c)

\* No row disappears.
Grows == /\ DOMAIN info \subseteq DOMAIN info'
         /\ DOMAIN paths \subseteq DOMAIN paths'

-----------------------------------------------------------------------------
(* Objects *)

LEMMA GoodGrows ==
    ASSUME NEW I, NEW P, NEW J, NEW Q, NEW A, NEW c, NEW o,
           Good(I, P, A, c, o), I \subseteq J, P \subseteq Q
    PROVE  Good(J, Q, A, c, o)
BY DEF Good

LEMMA FreshIsGood ==
    ASSUME NEW I, NEW P, NEW A, NEW c \in Call, NEW a \in Asked
    PROVE  Good(I, P, A, c, Fresh(c, a))
BY DEF Good, Fresh, Obj, Asked, St

\* Paths that are marked as not ready stay good, and so do others if their calls
\* confirm.
LEMMA MarkedTyped ==
    ASSUME NEW S \in SUBSET PathObj, NEW s \in St
    PROVE  /\ Marked(S, s) \in SUBSET PathObj
           /\ \A p \in Marked(S, s) : p.status = s /\ \E q \in S : p.id = q.id
BY DEF Marked, PathObj

LEMMA NewPathTyped ==
    ASSUME NEW m \in Machine
    PROVE  NewPath(m) \in PathObj /\ NewPath(m).id = 0 /\ NewPath(m).status # Normal
BY DEF NewPath, PathObj, St, Normal

LEMMA SetDeletedGood ==
    ASSUME NEW I, NEW P, NEW A, NEW c, NEW o, Good(I, P, A, c, o)
    PROVE  Good(I, P, A, c, SetDeleted(o)) /\ SetDeleted(o).name = o.name
           /\ SetDeleted(o).id = o.id
<1>1. o \in Obj /\ Deleted \in St /\ Deleted # Normal
  BY DEF Good, St, Normal, Deleted
<1>2. Marked(o.paths, Deleted) \in SUBSET PathObj
  BY <1>1, MarkedTyped DEF Obj
<1>3. /\ SetDeleted(o) \in Obj
      /\ SetDeleted(o).id = o.id /\ SetDeleted(o).name = o.name
      /\ SetDeleted(o).client = o.client
      /\ SetDeleted(o).paths = Marked(o.paths, Deleted)
  BY <1>1, <1>2 DEF SetDeleted, Obj
<1>4. \A p \in Marked(o.paths, Deleted) : p.status # Normal /\ p.id \in P \cup {0}
  BY <1>1, MarkedTyped DEF Good, Obj
<1> QED
  BY <1>3, <1>4 DEF Good

LEMMA SetMd5Good ==
    ASSUME NEW I, NEW P, NEW A, NEW c, NEW o, Good(I, P, A, c, o), NEW m \in Content
    PROVE  Good(I, P, A, c, SetMd5(o, m)) /\ SetMd5(o, m).name = o.name
           /\ SetMd5(o, m).id = o.id
<1>1. o \in Obj /\ 0 \in St /\ 0 # Normal
  BY DEF Good, St, Normal
<1>2. Marked(o.paths, 0) \in SUBSET PathObj
  BY <1>1, MarkedTyped DEF Obj
<1>3. /\ SetMd5(o, m) \in Obj
      /\ SetMd5(o, m).id = o.id /\ SetMd5(o, m).name = o.name
      /\ SetMd5(o, m).client = o.client
      /\ SetMd5(o, m).paths = Marked(o.paths, 0)
  BY <1>1, <1>2 DEF SetMd5, Obj
<1>4. \A p \in Marked(o.paths, 0) : p.status # Normal /\ p.id \in P \cup {0}
  BY <1>1, MarkedTyped DEF Good, Obj
<1> QED
  BY <1>3, <1>4 DEF Good

LEMMA SetNameGood ==
    ASSUME NEW I, NEW P, NEW A, NEW c, NEW o, Good(I, P, A, c, o), NEW n \in Name
    PROVE  Good(I, P, A, c, SetName(o, n)) /\ SetName(o, n).name = n
           /\ SetName(o, n).id = o.id
<1>1. /\ SetName(o, n) \in Obj
      /\ SetName(o, n).id = o.id /\ SetName(o, n).name = n
      /\ SetName(o, n).client = o.client
      /\ SetName(o, n).paths = o.paths
  BY DEF SetName, Obj, Good
<1> QED
  BY <1>1 DEF Good

LEMMA SetConfirmedGood ==
    ASSUME NEW I, NEW P, NEW A, NEW c, NEW o, Good(I, P, A, c, o), NEW p \in o.paths,
           A[c].op = "confirm"
    PROVE  Good(I, P, A, c, SetConfirmed(o, p)) /\ SetConfirmed(o, p).name = o.name
           /\ SetConfirmed(o, p).id = o.id
<1>1. o \in Obj /\ Normal \in St /\ o.paths \in SUBSET PathObj
  BY DEF Good, St, Obj
<1>2. Marked({p}, Normal) \in SUBSET PathObj
  BY <1>1, MarkedTyped
<1>3. /\ SetConfirmed(o, p) \in Obj
      /\ SetConfirmed(o, p).id = o.id /\ SetConfirmed(o, p).name = o.name
      /\ SetConfirmed(o, p).client = o.client
      /\ SetConfirmed(o, p).paths = (o.paths \ {p}) \cup Marked({p}, Normal)
  BY <1>1, <1>2 DEF SetConfirmed, Obj
<1>4. \A q \in Marked({p}, Normal) : q.id \in P \cup {0}
  BY <1>1, MarkedTyped DEF Good
<1> QED
  BY <1>3, <1>4 DEF Good

\* Paths that are new or not marked as ready.
Plain(S, P) ==
    /\ S \in SUBSET PathObj
    /\ \A p \in S : p.id \in P \cup {0} /\ ~(p.dirty /\ p.status = Normal)

LEMMA NewPathsPlain ==
    ASSUME NEW P, NEW M \in SUBSET Machine
    PROVE  Plain({NewPath(m) : m \in M}, P)
BY NewPathTyped DEF Plain

LEMMA PathsSet ==
    ASSUME NEW I, NEW P, NEW A, NEW c, NEW o, Good(I, P, A, c, o), NEW S, Plain(S, P),
           NEW x, x = [o EXCEPT !.paths = S]
    PROVE  Good(I, P, A, c, x) /\ x.name = o.name /\ x.id = o.id
<1>1. o \in Obj /\ S \in SUBSET PathObj
  BY DEF Good, Plain
<1>2. x \in Obj /\ x.paths = S /\ x.id = o.id /\ x.name = o.name /\ x.client = o.client
  BY <1>1 DEF Obj
<1> QED
  BY <1>2 DEF Good, Plain

LEMMA PathsAdded ==
    ASSUME NEW I, NEW P, NEW A, NEW c, NEW o, Good(I, P, A, c, o), NEW S, Plain(S, P),
           NEW x, x = [o EXCEPT !.paths = @ \cup S]
    PROVE  Good(I, P, A, c, x) /\ x.name = o.name
<1>1. o \in Obj /\ S \in SUBSET PathObj
  BY DEF Good, Plain
<1>2. /\ x \in Obj /\ x.paths = o.paths \cup S
      /\ x.id = o.id /\ x.name = o.name /\ x.client = o.client
  BY <1>1 DEF Obj
<1> QED
  BY <1>2 DEF Good, Plain

LEMMA LoadedGood ==
    ASSUME TablesTyped, Calls, NEW c \in Call, NEW i \in DOMAIN info
    PROVE  /\ Good(DOMAIN info, DOMAIN paths, ask, c, Loaded(c, i))
           /\ Loaded(c, i).name = info[i].name /\ Loaded(c, i).name \in Name
           /\ Loaded(c, i).id = i /\ i # 0 /\ Loaded(c, i).paths = {}
<1>1. info[i] \in InfoRow /\ i \in Nat /\ i # 0
  BY DEF TablesTyped
<1>2. ask[c] \in Asked
  BY DEF Calls, CallsTyped
<1>3. /\ Loaded(c, i) \in Obj /\ Loaded(c, i).id = i /\ Loaded(c, i).paths = {}
      /\ Loaded(c, i).client = c /\ Loaded(c, i).name = info[i].name
  BY <1>1, <1>2 DEF Loaded, Fresh, Obj, InfoRow, Asked
<1> QED
  BY <1>1, <1>3 DEF Good, InfoRow

-----------------------------------------------------------------------------
(* Where a step leads *)

\* A call that is under way goes to another place with another object.
LEMMA MoveKeeps ==
    ASSUME Calls, Grows, NEW c \in Call, pc[c] # "idle",
           NEW o, NEW at \in Places \ {"idle"}, NEW writes \in SUBSET Writes,
           pc' = [pc EXCEPT ![c] = at], obj' = [obj EXCEPT ![c] = o],
           todo' = [todo EXCEPT ![c] = writes], UNCHANGED <<ask, lastPut>>,
           Good(DOMAIN info', DOMAIN paths', ask, c, o), Local(o, at, writes),
           failed' \in [Call -> SUBSET Mishap], answers' \in [Call -> Nat],
           ok' \in [Call -> BOOLEAN], upcoming' \subseteq Coming
    PROVE  Calls'
<1>1. o \in Obj
  BY DEF Good
<1>2. CallsTyped'
  <2>1. pc' \in [Call -> Places] /\ obj' \in [Call -> Obj] /\ todo' \in [Call -> SUBSET Writes]
    BY <1>1 DEF Calls, CallsTyped
  <2> QED
    BY <2>1 DEF Calls, CallsTyped
<1>3. ASSUME NEW d \in Call PROVE Asks(d)'
  <2>1. pc'[d] = "idle" <=> pc[d] = "idle"
    BY DEF Calls, CallsTyped
  <2> QED
    BY <2>1 DEF Calls, Asks
<1>4. ASSUME NEW d \in Call PROVE Fine(d)'
  <2>1. CASE d = c
    <3>1. pc'[d] = at /\ obj'[d] = o /\ todo'[d] = writes
      BY <2>1 DEF Calls, CallsTyped
    <3> QED
      BY <2>1, <3>1 DEF Fine
  <2>2. CASE d # c
    <3>1. pc'[d] = pc[d] /\ obj'[d] = obj[d] /\ todo'[d] = todo[d]
      BY <2>2 DEF Calls, CallsTyped
    <3>2. Good(DOMAIN info', DOMAIN paths', ask, d, obj[d])
      BY GoodGrows DEF Calls, Fine, Grows
    <3> QED
      BY <3>1, <3>2 DEF Calls, Fine
  <2> QED
    BY <2>1, <2>2
<1> QED
  BY <1>2, <1>3, <1>4 DEF Calls

LEMMA EndIsLocal ==
    ASSUME NEW o, NEW at \in {"done", "lost"}
    PROVE  Local(o, at, {})
BY DEF Local

\* The client of an object is a call that was made, and of a metaPut one of a metaPut.
LEMMA ClientFacts ==
    ASSUME Calls, NEW c \in Call, pc[c] # "idle", NEW I, NEW P, NEW o,
           Good(I, P, ask, c, o)
    PROVE  /\ o.client \in Call
           /\ ask[o.client].op = ask[c].op
           /\ ask[c].op # "put" => o.client = c
           /\ pc[o.client] # "idle"
BY DEF Calls, Asks, Good, Obj

LEMMA AnswerKeeps ==
    ASSUME Calls, Grows, NEW c \in Call, pc[c] # "idle", NEW result \in BOOLEAN,
           NEW I, NEW P, NEW o, Good(I, P, ask, c, o), Answer(c, o, result),
           failed' \in [Call -> SUBSET Mishap]
    PROVE  Calls' /\ Moves(c)
<1>1. o.client \in Call /\ ask[o.client].op = ask[c].op /\ pc[o.client] # "idle"
  BY ClientFacts
<1>2. ask[c] \in Asked /\ ask[o.client] \in Asked
  BY <1>1 DEF Calls, CallsTyped
<1>3. /\ answers' \in [Call -> Nat] /\ ok' \in [Call -> BOOLEAN]
  BY <1>1 DEF Answer, Calls, CallsTyped
<1>4. ASSUME ask[c].op \in {"post", "put"}
      PROVE  [by |-> o.client, name |-> ask[o.client].name,
              md5 |-> ask[o.client].md5] \in Coming
  <2>1. ask[o.client].op \notin {"none"} \cup ByPath
    BY <1>1, <1>4 DEF ByPath
  <2>2. ask[o.client].name \in Name
    BY <1>1, <2>1 DEF Calls, Asks
  <2> QED
    BY <1>1, <1>2, <2>2 DEF Coming, Asked
<1>5. upcoming' \subseteq Coming
  BY <1>4 DEF Answer, Calls, CallsTyped
<1>6. Good(DOMAIN info', DOMAIN paths', ask, c, Fresh(c, ask[c]))
  BY <1>2, FreshIsGood
<1>7. /\ pc' = [pc EXCEPT ![c] = "done"] /\ obj' = [obj EXCEPT ![c] = Fresh(c, ask[c])]
      /\ todo' = [todo EXCEPT ![c] = {}] /\ UNCHANGED <<ask, lastPut>>
  BY DEF Answer
<1>8. "done" \in Places \ {"idle"} /\ {} \in SUBSET Writes
  BY DEF Places
<1>9. Moves(c)
  BY ClientFacts DEF Moves, Ends
<1> QED
  BY <1>3, <1>5, <1>6, <1>7, <1>8, <1>9, EndIsLocal, MoveKeeps

LEMMA LoseKeeps ==
    ASSUME Calls, Grows, NEW c \in Call, pc[c] # "idle", Lose(c),
           failed' \in [Call -> SUBSET Mishap]
    PROVE  Calls' /\ Moves(c)
<1>1. Good(DOMAIN info', DOMAIN paths', ask, c, Fresh(c, ask[c]))
  BY FreshIsGood DEF Calls, CallsTyped
<1>2. /\ pc' = [pc EXCEPT ![c] = "lost"] /\ obj' = [obj EXCEPT ![c] = Fresh(c, ask[c])]
      /\ todo' = [todo EXCEPT ![c] = {}] /\ UNCHANGED <<ask, answers, ok, upcoming, lastPut>>
  BY DEF Lose
<1>3. "lost" \in Places \ {"idle", "done"} /\ {} \in SUBSET Writes
  BY DEF Places
<1>4. answers' \in [Call -> Nat] /\ ok' \in [Call -> BOOLEAN] /\ upcoming' \subseteq Coming
  BY <1>2 DEF Calls, CallsTyped
<1>5. Moves(c)
  BY <1>2, <1>3 DEF Moves, Goes
<1> QED
  BY <1>1, <1>2, <1>3, <1>4, <1>5, EndIsLocal, MoveKeeps

LEMMA ProceedKeeps ==
    ASSUME Calls, Grows, NEW c \in Call, pc[c] # "idle",
           NEW o, NEW at \in Places \ {"idle", "done"}, NEW writes \in SUBSET Writes,
           Proceed(c, at, o), todo' = [todo EXCEPT ![c] = writes],
           Good(DOMAIN info', DOMAIN paths', ask, c, o), Local(o, at, writes),
           failed' \in [Call -> SUBSET Mishap]
    PROVE  Calls' /\ Moves(c)
<1>1. /\ pc' = [pc EXCEPT ![c] = at] /\ obj' = [obj EXCEPT ![c] = o]
      /\ UNCHANGED <<ask, answers, ok, upcoming, lastPut>>
  BY DEF Proceed
<1>2. answers' \in [Call -> Nat] /\ ok' \in [Call -> BOOLEAN] /\ upcoming' \subseteq Coming
  BY <1>1 DEF Calls, CallsTyped
<1>3. Moves(c)
  BY <1>1 DEF Moves, Goes
<1> QED
  BY <1>1, <1>2, <1>3, MoveKeeps

\* With nothing open to write, a call may proceed without a word of todo.
LEMMA ProceedIdle ==
    ASSUME Calls, Grows, NEW c \in Call, pc[c] \notin {"idle", "writes"},
           NEW o, NEW at \in {"paths", "children", "info"},
           Proceed(c, at, o), UNCHANGED todo,
           Good(DOMAIN info', DOMAIN paths', ask, c, o), o.name \in Name,
           at # "info" => o.id # 0, at = "paths" => o.paths = {},
           failed' \in [Call -> SUBSET Mishap]
    PROVE  Calls' /\ Moves(c)
<1>1. todo[c] = {} /\ todo \in [Call -> SUBSET Writes]
  BY DEF Calls, Fine, Local, CallsTyped
<1>2. todo' = [todo EXCEPT ![c] = {}]
  BY <1>1
<1>3. Local(o, at, {}) /\ at \in Places \ {"idle", "done"} /\ {} \in SUBSET Writes
  BY DEF Local, Places
<1> QED
  BY <1>2, <1>3, ProceedKeeps

-----------------------------------------------------------------------------
(* save() *)

LEMMA FolderOfTyped ==
    ASSUME NEW n \in Name
    PROVE  FolderOf(n) \in SUBSET Writes /\ \A w \in FolderOf(n) : w.write # "path"
<1>1. Parent[n] # NoName => Parent[n] \in Dir
  BY FileMetaAssumption
<1> QED
  BY <1>1 DEF FolderOf, Writes

LEMMA PathWritesTyped ==
    ASSUME NEW o \in Obj
    PROVE  /\ PathWrites(o) \in SUBSET Writes
           /\ \A w \in PathWrites(o) : w.path \in o.paths /\ w.path.dirty
BY DEF PathWrites, Writes, Obj

LEMMA AfterSaveKeeps ==
    ASSUME Calls, Grows, NEW c \in Call, pc[c] # "idle", NEW o,
           Good(DOMAIN info', DOMAIN paths', ask, c, o), o.id # 0, o.name \in Name,
           AfterSave(c, o), failed' \in [Call -> SUBSET Mishap]
    PROVE  Calls' /\ Moves(c)
<1> DEFINE writes == FolderOf(o.name) \cup PathWrites(o)
<1>1. CASE writes = {} /\ Answer(c, o, TRUE)
  BY <1>1, AnswerKeeps
<1>2. CASE /\ writes # {} /\ Proceed(c, "writes", o)
           /\ todo' = [todo EXCEPT ![c] = writes]
  <2>1. o \in Obj
    BY DEF Good
  <2>2. /\ writes \in SUBSET Writes
        /\ \A w \in writes : w.write = "path" => w.path \in o.paths /\ w.path.dirty
    BY <2>1, FolderOfTyped, PathWritesTyped
  <2> HIDE DEF writes
  <2>3. Local(o, "writes", writes) /\ "writes" \in Places \ {"idle", "done"}
    BY <1>2, <2>2 DEF Local, Places
  <2> QED
    BY <1>2, <2>2, <2>3, ProceedKeeps
<1> QED
  BY <1>1, <1>2 DEF AfterSave

LEMMA SaveKeeps ==
    ASSUME Calls, Grows, NEW c \in Call, pc[c] \notin {"idle", "writes"}, NEW o,
           Good(DOMAIN info', DOMAIN paths', ask, c, o), o.name \in Name,
           Save(c, o), failed' \in [Call -> SUBSET Mishap]
    PROVE  Calls' /\ Moves(c)
<1>1. CASE (o.id = 0 \/ o.dirty # {}) /\ Proceed(c, "info", o) /\ UNCHANGED todo
  BY <1>1, ProceedIdle
<1>2. CASE o.id # 0 /\ AfterSave(c, o)
  BY <1>2, AfterSaveKeeps
<1> QED
  BY <1>1, <1>2 DEF Save

-----------------------------------------------------------------------------
(* The commands *)

\* The callback of a command that has loaded an object.
LEMMA HandleKeeps ==
    ASSUME TablesTyped, Calls, NEW c \in Call, pc[c] \in {"load", "paths"}, NEW o,
           Good(DOMAIN info, DOMAIN paths, ask, c, o), o.name \in Name,
           Handle(c, o), UNCHANGED tables, failed' \in [Call -> SUBSET Mishap]
    PROVE  Calls' /\ Moves(c)
<1> DEFINE I == DOMAIN info
           P == DOMAIN paths
<1>1. /\ Grows /\ failed' \in [Call -> SUBSET Mishap] /\ pc[c] \notin {"idle", "writes"}
      /\ DOMAIN info' = I /\ DOMAIN paths' = P
  BY DEF Grows, tables, Calls, CallsTyped
<1> HIDE DEF I, P
<1>2. ASSUME NEW x, Good(I, P, ask, c, x), x.name \in Name, Save(c, x)
      PROVE  Calls' /\ Moves(c)
  BY <1>1, <1>2, SaveKeeps
<1>3. ASSUME NEW x, Good(I, P, ask, c, x), NEW result \in BOOLEAN, Answer(c, x, result)
      PROVE  Calls' /\ Moves(c)
  BY <1>1, <1>3, AnswerKeeps
<1>4. Good(I, P, ask, c, o)
  BY DEF I, P
<1>5. ask[c] \in Asked /\ Asks(c) /\ \A d \in Call : Asks(d)
  BY DEF Calls, CallsTyped
<1>6. CASE ask[c].op = "post" /\ PostLoaded(c, o)
  BY <1>2, <1>3, <1>4, <1>6 DEF PostLoaded
<1>7. CASE ask[c].op = "put" /\ PutLoaded(c, o)
  <2> DEFINE owned   == [o EXCEPT !.client = lastPut]
             renamed == IF ask[c].to # NoName THEN SetName(owned, ask[c].to) ELSE owned
             changed == IF ask[c].md5 # NoMd5 THEN SetMd5(renamed, ask[c].md5) ELSE renamed
  <2>1. lastPut \in Call /\ ask[lastPut].op = "put"
    BY <1>5, <1>7 DEF Asks
  <2>2. Good(I, P, ask, c, owned) /\ owned.name \in Name
    BY <1>4, <1>7, <2>1 DEF Good, Obj
  <2> HIDE DEF owned
  <2>3. Good(I, P, ask, c, renamed) /\ renamed.name \in Name
    BY <1>5, <2>2, SetNameGood DEF Asked
  <2> HIDE DEF renamed
  <2>4. Good(I, P, ask, c, changed) /\ changed.name \in Name
    BY <1>5, <2>3, SetMd5Good DEF Asked
  <2> HIDE DEF changed
  <2>5. Save(c, IF o.id = 0 THEN owned ELSE changed)
    BY <1>7 DEF PutLoaded, changed, renamed, owned
  <2> QED
    BY <1>2, <2>2, <2>4, <2>5
<1>8. CASE ask[c].op = "path" /\ PathLoaded(c, o)
  <2>1. PICK m \in Machine :
            Save(c, IF o.paths = {} THEN [o EXCEPT !.paths = {NewPath(m)}] ELSE o)
    BY <1>8 DEF PathLoaded
  <2> DEFINE S == {NewPath(k) : k \in {m}}
             x == [o EXCEPT !.paths = S]
  <2>2. Plain(S, P) /\ S = {NewPath(m)}
    BY NewPathsPlain
  <2> HIDE DEF S
  <2>3. Good(I, P, ask, c, x) /\ x.name = o.name
    BY <1>4, <2>2, PathsSet
  <2>4. Save(c, IF o.paths = {} THEN x ELSE o)
    BY <2>1, <2>2
  <2> HIDE DEF x
  <2> QED
    BY <1>2, <1>4, <2>3, <2>4
<1>9. CASE ask[c].op = "upload" /\ UploadLoaded(c, o)
  <2> DEFINE m == ask[c].machine
  <2>1. m \in Machine
    BY <1>5, <1>9 DEF Asks
  <2> DEFINE S == {NewPath(k) : k \in {m}}
             x == [o EXCEPT !.paths = @ \cup S]
  <2>2. Plain(S, P) /\ S = {NewPath(m)}
    BY <2>1, NewPathsPlain
  <2>3. Save(c, IF \E p \in o.paths : p.machine = m THEN o ELSE x)
    BY <1>9, <2>2 DEF UploadLoaded
  <2> HIDE DEF S, m
  <2>4. Good(I, P, ask, c, x) /\ x.name = o.name
    BY <1>4, <2>2, PathsAdded
  <2> HIDE DEF x
  <2> QED
    BY <1>2, <1>4, <2>3, <2>4
<1>10. CASE ask[c].op = "confirm" /\ ConfirmLoaded(c, o)
  <2> DEFINE noted == IF o.md5 = NoMd5 THEN SetMd5(o, ask[c].md5) ELSE o
  <2>1. Good(I, P, ask, c, noted) /\ noted.name \in Name
    BY <1>4, <1>5, SetMd5Good DEF Asked
  <2>2. CASE Answer(c, o, FALSE)
    BY <1>3, <1>4, <2>2
  <2>3. CASE \E p \in noted.paths : Save(c, SetConfirmed(noted, p))
    <3> HIDE DEF noted
    <3>1. PICK p \in noted.paths : Save(c, SetConfirmed(noted, p))
      BY <2>3
    <3>2. /\ Good(I, P, ask, c, SetConfirmed(noted, p))
          /\ SetConfirmed(noted, p).name \in Name
      BY <1>10, <2>1, SetConfirmedGood
    <3> QED
      BY <1>2, <3>1, <3>2
  <2> QED
    BY <1>10, <2>2, <2>3 DEF ConfirmLoaded
<1>11. CASE ask[c].op = "dup" /\ DupLoaded(c, o)
  <2>1. CASE \E result \in BOOLEAN : Answer(c, o, result)
    BY <1>3, <1>4, <2>1
  <2>2. ASSUME NEW M \in SUBSET Machine,
               Save(c, [o EXCEPT !.paths = @ \cup {NewPath(m) : m \in M}])
        PROVE  Calls' /\ Moves(c)
    <3> DEFINE S == {NewPath(m) : m \in M}
               x == [o EXCEPT !.paths = @ \cup S]
    <3>1. Plain(S, P)
      BY NewPathsPlain
    <3> HIDE DEF S
    <3>2. Good(I, P, ask, c, x) /\ x.name = o.name
      BY <1>4, <3>1, PathsAdded
    <3>3. Save(c, x)
      BY <2>2 DEF S
    <3> HIDE DEF x
    <3> QED
      BY <1>2, <3>2, <3>3
  <2> QED
    BY <1>11, <2>1, <2>2 DEF DupLoaded
<1>12. CASE ask[c].op \in {"delete", "fileDelete"} /\ DeleteLoaded(c, o)
  <2>1. CASE Answer(c, o, FALSE)
    BY <1>3, <1>4, <2>1
  <2>2. CASE o.id # 0 /\ Proceed(c, "children", o) /\ UNCHANGED todo
    BY <1>1, <1>4, <2>2, ProceedIdle
  <2>3. CASE Save(c, SetDeleted(o))
    BY <1>2, <1>4, <2>3, SetDeletedGood
  <2> QED
    BY <1>12, <2>1, <2>2, <2>3 DEF DeleteLoaded
<1> QED
  BY <1>6, <1>7, <1>8, <1>9, <1>10, <1>11, <1>12 DEF Handle

-----------------------------------------------------------------------------
(* The tables *)

LEMMA AppendInfoKeeps ==
    ASSUME TablesTyped, NEW r \in InfoRow, info' = Append(info, r), UNCHANGED <<paths, proof>>
    PROVE  /\ TablesTyped' /\ Grows
           /\ Len(info) + 1 \in DOMAIN info' /\ Len(info) + 1 \in Nat \ {0}
<1>1. /\ info' \in Seq(InfoRow) /\ DOMAIN info' = 1 .. Len(info) + 1
      /\ DOMAIN info = 1 .. Len(info) /\ Len(info) \in Nat
  BY DEF TablesTyped
<1>2. DOMAIN info \subseteq DOMAIN info' /\ Len(info) + 1 \in DOMAIN info'
  BY <1>1
<1> QED
  BY <1>1, <1>2 DEF TablesTyped, Grows

\* An update of some columns of a row.
LEMMA RowUpdate ==
    ASSUME NEW r \in InfoRow, NEW s \in InfoRow, NEW D
    PROVE  [k \in DOMAIN r |-> IF k \in D THEN s[k] ELSE r[k]] \in InfoRow
<1>1. DOMAIN r = {"name", "status", "md5"}
  BY DEF InfoRow
<1>2. [k \in DOMAIN r |-> IF k \in D THEN s[k] ELSE r[k]] =
        [name   |-> IF "name" \in D THEN s["name"] ELSE r["name"],
         status |-> IF "status" \in D THEN s["status"] ELSE r["status"],
         md5    |-> IF "md5" \in D THEN s["md5"] ELSE r["md5"]]
  BY <1>1
<1>3. /\ s["name"] = s.name /\ s["status"] = s.status /\ s["md5"] = s.md5
      /\ r["name"] = r.name /\ r["status"] = r.status /\ r["md5"] = r.md5
  OBVIOUS
<1> QED
  BY <1>2, <1>3 DEF InfoRow

LEMMA UpdateInfoKeeps ==
    ASSUME TablesTyped, NEW i \in DOMAIN info, NEW r \in InfoRow,
           info' = [info EXCEPT ![i] = r], UNCHANGED <<paths, proof>>
    PROVE  TablesTyped' /\ Grows
<1>1. info' \in Seq(InfoRow) /\ DOMAIN info' = DOMAIN info
  BY DEF TablesTyped
<1> QED
  BY <1>1 DEF TablesTyped, Grows

LEMMA WriteInfoTables ==
    ASSUME TablesTyped, Calls, NEW c \in Call, WriteInfo(c)
    PROVE  TablesTyped' /\ Calls' /\ Moves(c)
<1> DEFINE o     == obj[c]
           row   == [name |-> o.name, status |-> o.status, md5 |-> o.md5]
           saved == [o EXCEPT !.dirty = {}]
<1>1. /\ o \in Obj /\ Good(DOMAIN info, DOMAIN paths, ask, c, o) /\ o.name \in Name
      /\ pc[c] # "idle" /\ failed' \in [Call -> SUBSET Mishap] /\ UNCHANGED <<paths, proof>>
  BY DEF WriteInfo, Calls, CallsTyped, Fine, Local
<1>2. row \in InfoRow
  BY <1>1 DEF InfoRow, Obj
<1>3. /\ saved \in Obj /\ saved.id = o.id /\ saved.name = o.name
      /\ saved.paths = o.paths /\ saved.client = o.client
  BY <1>1 DEF Obj
<1>4. Good(DOMAIN info, DOMAIN paths, ask, c, saved)
  BY <1>1, <1>3 DEF Good
<1>5. CASE /\ o.id = 0 /\ info' = Append(info, row)
           /\ AfterSave(c, [saved EXCEPT !.id = Len(info) + 1])
  <2> DEFINE new == [saved EXCEPT !.id = Len(info) + 1]
  <2>1. /\ TablesTyped' /\ Grows
        /\ Len(info) + 1 \in DOMAIN info' /\ Len(info) + 1 \in Nat \ {0}
    BY <1>1, <1>2, <1>5, AppendInfoKeeps
  <2>2. /\ new \in Obj /\ new.id = Len(info) + 1 /\ new.name = o.name
        /\ new.paths = o.paths /\ new.client = o.client
    <3> HIDE DEF saved
    <3> QED
      BY <1>3, <2>1 DEF Obj
  <2>3. AfterSave(c, new)
    BY <1>5
  <2> HIDE DEF new
  <2>4. Good(DOMAIN info', DOMAIN paths', ask, c, new)
    BY <1>1, <2>1, <2>2 DEF Good, Grows
  <2> QED
    BY <1>1, <2>1, <2>2, <2>3, <2>4, AfterSaveKeeps
<1>6. CASE /\ o.id # 0
           /\ info' = [info EXCEPT ![o.id] =
                 [k \in DOMAIN @ |-> IF k \in o.dirty THEN row[k] ELSE @[k]]]
           /\ AfterSave(c, saved)
  <2>1. o.id \in DOMAIN info /\ info[o.id] \in InfoRow
    BY <1>1, <1>6 DEF Good, TablesTyped
  <2>2. [k \in DOMAIN info[o.id] |-> IF k \in o.dirty THEN row[k] ELSE info[o.id][k]] \in InfoRow
    <3> HIDE DEF row, o
    <3> QED
      BY <1>2, <2>1, RowUpdate
  <2>3. TablesTyped' /\ Grows
    BY <1>1, <1>6, <2>1, <2>2, UpdateInfoKeeps
  <2>4. Good(DOMAIN info', DOMAIN paths', ask, c, saved)
    <3> HIDE DEF saved
    <3> QED
      BY <1>4, <2>3, GoodGrows DEF Grows
  <2>5. saved.id # 0 /\ saved.name \in Name /\ AfterSave(c, saved)
    BY <1>1, <1>3, <1>6
  <2> HIDE DEF saved
  <2> QED
    BY <1>1, <2>3, <2>4, <2>5, AfterSaveKeeps
<1> QED
  BY <1>5, <1>6 DEF WriteInfo

\* done(): the write is no longer open, and others may be.
LEMMA WroteKeeps ==
    ASSUME Calls, Grows, NEW c \in Call, pc[c] = "writes", NEW w \in todo[c],
           NEW next \in SUBSET Writes, \A n \in next : n.write # "path",
           Wrote(c, w, next), UNCHANGED failed
    PROVE  Calls' /\ Moves(c)
<1> DEFINE left == (todo[c] \ {w}) \cup next
           o    == obj[c]
<1>1. /\ Good(DOMAIN info', DOMAIN paths', ask, c, o) /\ Local(o, "writes", todo[c])
      /\ failed' \in [Call -> SUBSET Mishap] /\ pc[c] # "idle" /\ todo[c] \in SUBSET Writes
  BY GoodGrows DEF Grows, Calls, CallsTyped, Fine
<1>2. left \in SUBSET Writes
  BY <1>1
<1>3. left # {} => Local(o, "writes", left)
  BY <1>1 DEF Local
<1>4. CASE left = {} /\ Lose(c)
  BY <1>1, <1>4, LoseKeeps
<1>5. CASE left = {} /\ Answer(c, o, TRUE)
  BY <1>1, <1>5, AnswerKeeps
<1>6. CASE left # {} /\ Proceed(c, "writes", o) /\ todo' = [todo EXCEPT ![c] = left]
  <2>1. "writes" \in Places \ {"idle", "done"}
    BY DEF Places
  <2> HIDE DEF left, o
  <2> QED
    BY <1>1, <1>2, <1>3, <1>6, <2>1, ProceedKeeps
<1> QED
  BY <1>4, <1>5, <1>6 DEF Wrote

LEMMA WritePathTables ==
    ASSUME TablesTyped, Calls, NEW c \in Call, pc[c] = "writes", NEW w \in todo[c],
           WritePath(c, w)
    PROVE  TablesTyped' /\ Grows
<1> DEFINE p    == w.path
           new  == [file |-> obj[c].id, machine |-> p.machine, status |-> p.status]
           at   == IF p.id = 0 THEN Len(paths) + 1 ELSE p.id
           Seen == IF ask[c].op = "confirm" /\ p.status = Normal THEN ask[c].md5
                   ELSE IF p.id = 0 THEN NoMd5 ELSE proof[p.id]
<1>1. /\ obj[c] \in Obj /\ obj[c].id \in DOMAIN info
      /\ p \in obj[c].paths /\ p \in PathObj /\ p.id \in DOMAIN paths \cup {0}
      /\ UNCHANGED info /\ ask[c].md5 \in Content
  BY DEF WritePath, Calls, CallsTyped, Fine, Local, Good, Obj, Asked
<1>2. /\ paths \in Seq(PathRow) /\ Len(paths) \in Nat /\ DOMAIN paths = 1 .. Len(paths)
  BY DEF TablesTyped
<1>3. /\ paths' \in Seq(PathRow) /\ DOMAIN paths' = DOMAIN paths \cup {at}
      /\ \A q \in DOMAIN paths' : paths'[q].file \in DOMAIN info
  <2>1. CASE p.id = 0
    <3>1. paths' = Append(paths, new) /\ new \in PathRow
      BY <1>1, <2>1 DEF WritePath, PathRow, PathObj, Obj
    <3> HIDE DEF new
    <3>2. /\ paths' \in Seq(PathRow) /\ DOMAIN paths' = 1 .. Len(paths) + 1
          /\ \A q \in 1 .. Len(paths) : paths'[q] = paths[q]
          /\ paths'[Len(paths) + 1] = new
      BY <1>2, <3>1
    <3>3. 1 .. Len(paths) + 1 = 1 .. Len(paths) \cup {Len(paths) + 1}
      BY <1>2
    <3>4. new.file \in DOMAIN info
      BY <1>1 DEF new
    <3> QED
      BY <1>2, <2>1, <3>2, <3>3, <3>4 DEF TablesTyped
  <2>2. CASE p.id # 0
    <3>1. paths' = [paths EXCEPT ![p.id].status = p.status] /\ p.id \in DOMAIN paths
      BY <1>1, <2>2 DEF WritePath
    <3>2. paths[p.id] \in PathRow /\ p.status \in St
      BY <1>1, <1>2, <3>1 DEF PathObj
    <3>3. /\ [paths[p.id] EXCEPT !.status = p.status] \in PathRow
          /\ [paths[p.id] EXCEPT !.status = p.status].file = paths[p.id].file
      BY <3>2 DEF PathRow
    <3>4. /\ paths' \in Seq(PathRow) /\ DOMAIN paths' = DOMAIN paths
      BY <1>2, <3>1, <3>3
    <3>5. \A q \in DOMAIN paths : paths'[q].file = paths[q].file
      BY <3>1, <3>3
    <3> QED
      BY <2>2, <3>1, <3>4, <3>5 DEF TablesTyped
  <2> QED
    BY <2>1, <2>2
<1>4. Seen \in Content
  <2>1. p.id # 0 => p.id \in DOMAIN paths
    BY <1>1
  <2> HIDE DEF p
  <2> QED
    BY <1>1, <2>1 DEF TablesTyped, Content
<1>5. proof' \in [DOMAIN paths' -> Content]
  <2>1. proof' = [q \in DOMAIN proof \cup {at} |-> IF q = at THEN Seen ELSE proof[q]]
    BY DEF WritePath
  <2>2. DOMAIN proof = DOMAIN paths /\ \A q \in DOMAIN proof : proof[q] \in Content
    BY DEF TablesTyped
  <2> HIDE DEF at, Seen
  <2> QED
    BY <1>3, <1>4, <2>1, <2>2
<1> HIDE DEF at
<1> QED
  BY <1>1, <1>3, <1>5 DEF TablesTyped, Grows

LEMMA WriteKeeps ==
    ASSUME TablesTyped, Calls, NEW c \in Call, Write(c)
    PROVE  TablesTyped' /\ Calls' /\ Moves(c)
<1>1. PICK w \in todo[c] : WritePath(c, w) \/ SelectFolder(c, w) \/ InsertFolder(c, w)
  BY DEF Write
<1>2. pc[c] = "writes" /\ w \in Writes
  BY DEF Write, Calls, CallsTyped
<1>3. CASE WritePath(c, w)
  <2>1. Wrote(c, w, {}) /\ UNCHANGED failed
    BY <1>3 DEF WritePath
  <2> QED
    BY <1>2, <1>3, <2>1, WritePathTables, WroteKeeps
<1>4. CASE SelectFolder(c, w)
  <2> DEFINE next == IF Live(w.name) # {} THEN FolderOf(w.name)
                     ELSE {[write |-> "folder", name |-> w.name]}
  <2>1. w.name \in Dir /\ w.name \in Name
    BY <1>2, <1>4, FileMetaAssumption DEF SelectFolder, Writes
  <2>2. next \in SUBSET Writes /\ \A n \in next : n.write # "path"
    BY <2>1, FolderOfTyped DEF Writes
  <2>3. TablesTyped' /\ Grows /\ UNCHANGED failed /\ Wrote(c, w, next)
    BY <1>4 DEF SelectFolder, tables, TablesTyped, Grows
  <2> HIDE DEF next
  <2> QED
    BY <1>2, <2>2, <2>3, WroteKeeps
<1>5. CASE InsertFolder(c, w)
  <2> DEFINE r == [name |-> w.name, status |-> Normal, md5 |-> NoMd5]
  <2>1. w.name \in Name
    BY <1>2, <1>5, FileMetaAssumption DEF InsertFolder, Writes
  <2>2. r \in InfoRow /\ info' = Append(info, r) /\ UNCHANGED <<paths, proof, failed>>
        /\ Wrote(c, w, FolderOf(w.name))
    BY <1>5, <2>1 DEF InsertFolder, InfoRow, St, Content
  <2> HIDE DEF r
  <2>3. TablesTyped' /\ Grows
    BY <2>2, AppendInfoKeeps
  <2> QED
    BY <1>2, <2>1, <2>2, <2>3, FolderOfTyped, WroteKeeps
<1> QED
  BY <1>1, <1>3, <1>4, <1>5

-----------------------------------------------------------------------------
(* The other statements *)

\* What holds of a call that is under way while the tables stay.
LEMMA StayFacts ==
    ASSUME TablesTyped, Calls, NEW c \in Call, UNCHANGED tables
    PROVE  /\ TablesTyped' /\ Grows
           /\ Good(DOMAIN info, DOMAIN paths, ask, c, obj[c])
           /\ Good(DOMAIN info', DOMAIN paths', ask, c, obj[c])
           /\ Local(obj[c], pc[c], todo[c])
           /\ ask[c] \in Asked /\ obj[c] \in Obj /\ failed \in [Call -> SUBSET Mishap]
BY DEF tables, TablesTyped, Grows, Calls, CallsTyped, Fine

LEMMA LoadInfoKeeps ==
    ASSUME TablesTyped, Calls, NEW c \in Call, LoadInfo(c)
    PROVE  TablesTyped' /\ Calls' /\ Moves(c)
<1>1. pc[c] = "load" /\ UNCHANGED <<tables, failed>> /\ UNCHANGED tables
  BY DEF LoadInfo
<1>2. TablesTyped' /\ Grows /\ failed' \in [Call -> SUBSET Mishap]
      /\ DOMAIN info' = DOMAIN info /\ DOMAIN paths' = DOMAIN paths
  BY <1>1, StayFacts DEF tables
<1>3. ASSUME NEW i \in Wanted(c),
             LET o == Loaded(c, i)
             IN  IF o.name \in Dir THEN Handle(c, o)
                 ELSE Proceed(c, "paths", o) /\ UNCHANGED todo
      PROVE  Calls' /\ Moves(c)
  <2> DEFINE o == Loaded(c, i)
  <2>1. i \in DOMAIN info
    BY DEF Wanted, Live
  <2>2. /\ Good(DOMAIN info, DOMAIN paths, ask, c, o) /\ o.name \in Name
        /\ o.id = i /\ i # 0 /\ o.paths = {}
    BY <2>1, LoadedGood
  <2> HIDE DEF o
  <2>3. CASE Handle(c, o)
    BY <1>1, <1>2, <2>2, <2>3, HandleKeeps
  <2>4. CASE Proceed(c, "paths", o) /\ UNCHANGED todo
    BY <1>1, <1>2, <2>2, <2>4, ProceedIdle
  <2> QED
    BY <1>3, <2>3, <2>4 DEF o
<1>4. CASE Answer(c, obj[c], FALSE)
  BY <1>1, <1>2, <1>4, StayFacts, AnswerKeeps
<1>5. CASE ask[c].op \notin ByPath /\ Handle(c, Fresh(c, ask[c]))
  <2> DEFINE o == Fresh(c, ask[c])
  <2>1. Good(DOMAIN info, DOMAIN paths, ask, c, o)
    BY <1>1, StayFacts, FreshIsGood
  <2>2. ask[c].name \in Name
    BY <1>1, <1>5 DEF Calls, Asks
  <2>3. o.name \in Name
    BY <2>2 DEF Fresh
  <2>4. Handle(c, o)
    BY <1>5
  <2>5. pc[c] \in {"load", "paths"} /\ UNCHANGED tables
    BY <1>1
  <2> HIDE DEF o
  <2> QED
    BY <1>2, <2>1, <2>3, <2>4, <2>5, HandleKeeps
<1> QED
  BY <1>2, <1>3, <1>4, <1>5 DEF LoadInfo

LEMMA LoadPathsKeeps ==
    ASSUME TablesTyped, Calls, NEW c \in Call, LoadPaths(c)
    PROVE  TablesTyped' /\ Calls' /\ Moves(c)
<1>1. pc[c] = "paths" /\ UNCHANGED tables /\ failed' \in [Call -> SUBSET Mishap]
  BY DEF LoadPaths, Calls, CallsTyped
<1>2. PICK S \in LoadedPaths(obj[c].id) :
          Handle(c, [obj[c] EXCEPT !.paths = {PathObject(p) : p \in S}])
  BY DEF LoadPaths
<1> DEFINE T == {PathObject(p) : p \in S}
           o == [obj[c] EXCEPT !.paths = T]
<1>3. S \subseteq DOMAIN paths
  BY DEF LoadedPaths, LivePaths
<1>4. \A p \in DOMAIN paths : paths[p] \in PathRow /\ p \in Nat
  BY DEF TablesTyped
<1>5. Plain(T, DOMAIN paths)
  <2>1. \A p \in S : /\ PathObject(p) \in PathObj /\ PathObject(p).id = p
                     /\ PathObject(p).dirty = FALSE
    BY <1>3, <1>4 DEF PathObject, PathObj, PathRow
  <2> QED
    BY <1>3, <2>1 DEF Plain
<1>6. Handle(c, o)
  BY <1>2
<1> HIDE DEF T
<1>7. Good(DOMAIN info, DOMAIN paths, ask, c, o) /\ o.name = obj[c].name
  BY <1>1, <1>5, StayFacts, PathsSet
<1>8. obj[c].name \in Name
  BY <1>1, StayFacts DEF Local
<1> HIDE DEF o
<1> QED
  BY <1>1, <1>6, <1>7, <1>8, StayFacts, HandleKeeps

LEMMA LoadChildrenKeeps ==
    ASSUME TablesTyped, Calls, NEW c \in Call, LoadChildren(c)
    PROVE  TablesTyped' /\ Calls' /\ Moves(c)
<1>1. /\ pc[c] = "children" /\ UNCHANGED tables /\ failed' = failed
      /\ TablesTyped' /\ Grows /\ obj[c].name \in Name
      /\ Good(DOMAIN info', DOMAIN paths', ask, c, obj[c])
      /\ failed' \in [Call -> SUBSET Mishap]
  BY StayFacts DEF LoadChildren, Local
<1>2. CASE Answer(c, obj[c], FALSE)
  BY <1>1, <1>2, AnswerKeeps
<1>3. CASE Save(c, SetDeleted(obj[c]))
  <2>1. /\ Good(DOMAIN info', DOMAIN paths', ask, c, SetDeleted(obj[c]))
        /\ SetDeleted(obj[c]).name \in Name
    BY <1>1, SetDeletedGood
  <2> QED
    BY <1>1, <1>3, <2>1, SaveKeeps
<1> QED
  BY <1>1, <1>2, <1>3 DEF LoadChildren

LEMMA NoSpaceKeeps ==
    ASSUME TablesTyped, Calls, NEW c \in Call, NoSpace(c)
    PROVE  TablesTyped' /\ Calls' /\ Moves(c)
<1>1. /\ pc[c] = "load" /\ UNCHANGED tables /\ failed' = failed /\ Answer(c, obj[c], FALSE)
  BY DEF NoSpace
<1> QED
  BY <1>1, StayFacts, AnswerKeeps

\* What a statement that fails leaves in the history.
LEMMA FailShows ==
    ASSUME NEW c \in Call, Fail(c)
    PROVE  /\ pc[c] \notin {"idle", "done", "lost"} /\ UNCHANGED tables
           /\ \/ failed' = failed
              \/ \E S \in SUBSET Mishap : failed' = [failed EXCEPT ![c] = @ \cup S]
<1>1. ASSUME NEW S \in SUBSET Mishap, Reported(c, S)
      PROVE  \E T \in SUBSET Mishap : failed' = [failed EXCEPT ![c] = @ \cup T]
  <2>1. PICK more \in SUBSET Mishap : failed' = [failed EXCEPT ![c] = @ \cup S \cup more]
    BY <1>1 DEF Reported, Mishap
  <2>2. /\ S \cup more \in SUBSET Mishap
        /\ failed' = [failed EXCEPT ![c] = @ \cup (S \cup more)]
    BY <2>1
  <2> QED
    BY <2>2
<1>2. {} \in SUBSET Mishap /\ {"write"} \in SUBSET Mishap /\ {"paths"} \in SUBSET Mishap
  BY DEF Mishap
<1>3. CASE FailLoad(c)
  BY <1>1, <1>2, <1>3 DEF FailLoad
<1>4. CASE FailPaths(c)
  BY <1>2, <1>4 DEF FailPaths
<1>5. CASE FailChildren(c)
  BY <1>1, <1>2, <1>5 DEF FailChildren
<1>6. CASE FailInfo(c)
  BY <1>1, <1>2, <1>6 DEF FailInfo
<1>7. CASE FailWrite(c)
  BY <1>2, <1>7 DEF FailWrite
<1> QED
  BY <1>3, <1>4, <1>5, <1>6, <1>7 DEF Fail

\* A statement that fails changes no table.
LEMMA FailKeeps ==
    ASSUME TablesTyped, Calls, NEW c \in Call, Fail(c)
    PROVE  TablesTyped' /\ Calls' /\ Moves(c)
<1> DEFINE o == obj[c]
<1>1. /\ pc[c] \notin {"idle", "done", "lost"} /\ UNCHANGED tables
      /\ failed' = failed \/ \E S \in SUBSET Mishap : failed' = [failed EXCEPT ![c] = @ \cup S]
  BY FailShows
<1>2. /\ TablesTyped' /\ Grows /\ failed' \in [Call -> SUBSET Mishap]
      /\ Good(DOMAIN info, DOMAIN paths, ask, c, o)
      /\ Good(DOMAIN info', DOMAIN paths', ask, c, o)
      /\ Local(o, pc[c], todo[c])
  BY <1>1, StayFacts
<1>3. ASSUME NEW result \in BOOLEAN, Answer(c, o, result) PROVE Calls' /\ Moves(c)
  BY <1>1, <1>2, <1>3, AnswerKeeps
<1>4. CASE Lose(c)
  BY <1>1, <1>2, <1>4, LoseKeeps
<1>5. CASE FailPaths(c)
  <2>1. pc[c] = "paths" /\ Handle(c, o) /\ o.name \in Name
    BY <1>2, <1>5 DEF FailPaths, Local
  <2> HIDE DEF o
  <2> QED
    BY <1>1, <1>2, <2>1, HandleKeeps
<1>6. ASSUME NEW w \in todo[c], pc[c] = "writes", todo[c] \ {w} # {},
             Proceed(c, "writes", o), todo' = [todo EXCEPT ![c] = todo[c] \ {w}]
      PROVE  Calls' /\ Moves(c)
  <2>1. /\ todo[c] \ {w} \in SUBSET Writes /\ Local(o, "writes", todo[c] \ {w})
        /\ "writes" \in Places \ {"idle", "done"}
    BY <1>2, <1>6 DEF Calls, CallsTyped, Local, Places
  <2> HIDE DEF o
  <2> QED
    BY <1>1, <1>2, <1>6, <2>1, ProceedKeeps
<1>7. CASE FailLoad(c) \/ FailChildren(c) \/ FailInfo(c)
  <2>1. Lose(c) \/ \E result \in BOOLEAN : Answer(c, o, result)
    BY <1>7 DEF FailLoad, FailChildren, FailInfo
  <2> HIDE DEF o
  <2> QED
    BY <1>2, <1>3, <1>4, <2>1
<1>8. CASE FailWrite(c)
  <2>1. PICK w \in todo[c] :
            LET left == todo[c] \ {w}
            IN  IF left = {} THEN Lose(c)
                ELSE Proceed(c, "writes", o) /\ todo' = [todo EXCEPT ![c] = left]
    BY <1>8 DEF FailWrite
  <2>2. pc[c] = "writes"
    BY <1>8 DEF FailWrite
  <2> HIDE DEF o
  <2> QED
    BY <1>2, <1>4, <1>6, <2>1, <2>2
<1> QED
  BY <1>2, <1>5, <1>7, <1>8 DEF Fail

\* A callback that runs once more is only counted.
LEMMA AgainKeeps ==
    ASSUME TablesTyped, Calls, NEW c \in Call, CallBackAgain(c)
    PROVE  TablesTyped' /\ Calls'
<1>1. /\ UNCHANGED <<info, paths, proof, pc, ask, obj, todo, ok, upcoming, lastPut>>
      /\ failed' = [failed EXCEPT ![c] = (@ \ {"connection"}) \cup {"twice"}]
      /\ answers' = [answers EXCEPT ![c] = @ + 1]
  BY DEF CallBackAgain, tables
<1>2. TablesTyped'
  BY <1>1 DEF TablesTyped
<1>3. failed' \in [Call -> SUBSET Mishap] /\ answers' \in [Call -> Nat]
  BY <1>1 DEF Calls, CallsTyped, Mishap
<1>4. CallsTyped'
  BY <1>1, <1>3 DEF Calls, CallsTyped
<1>5. \A d \in Call : Asks(d)' /\ Fine(d)'
  BY <1>1 DEF Calls, Asks, Fine
<1> QED
  BY <1>2, <1>4, <1>5 DEF Calls

-----------------------------------------------------------------------------
(* Starts *)

LEMMA RequestsTyped ==
    ASSUME TablesTyped, Calls, NEW a \in Requests
    PROVE  /\ a \in Asked /\ a.op \in Operation
           /\ a.op \notin ByPath => a.name \in Name
           /\ a.op = "confirm" => a.md5 \in Md5
           /\ a.op = "upload" => a.machine \in Machine
           /\ ~Rename /\ a.op = "put" => a.to = NoName
<1> USE DEF Operation, ByPath
<1>1. Given \subseteq Content /\ Dir \subseteq Name /\ NoMd5 \in Content /\ Md5 \subseteq Content
  BY FileMetaAssumption DEF Content
<1>2. \A op : Ask(op) = [op |-> op, name |-> NoName, to |-> NoName, md5 |-> NoMd5,
                         machine |-> NoName, row |-> 0]
  BY DEF Ask, Idle
<1>3. ASSUME NEW op \in Operation, NEW n \in Name, NEW t \in Name \cup {NoName},
             NEW m \in Content, NEW k \in Machine \cup {NoName}, NEW r \in Nat
      PROVE  [op |-> op, name |-> n, to |-> t, md5 |-> m, machine |-> k, row |-> r] \in Asked
  BY DEF Asked
<1>4. CASE a \in PostRequests
  <2>1. PICK n \in Name, m \in Given : a = [Ask("post") EXCEPT !.name = n, !.md5 = m]
    <3> DEFINE Request(n, m) == [Ask("post") EXCEPT !.name = n, !.md5 = m]
    <3>1. PostRequests = {Request(n, m) : n \in Name, m \in Given}
      BY SMT DEF PostRequests
    <3>2. SUFFICES \E n \in Name, m \in Given : a = Request(n, m)
      OBVIOUS
    <3> HIDE DEF Request
    <3> QED
      BY <1>4, <3>1
  <2>2. a = [op |-> "post", name |-> n, to |-> NoName, md5 |-> m, machine |-> NoName, row |-> 0]
    BY <1>2, <2>1
  <2> QED
    BY <1>1, <1>3, <2>2
<1>5. CASE a \in PutRequests
  <2>1. PICK n \in Name : \E m \in Given, t \in NewNames(n) :
            a = [Ask("put") EXCEPT !.name = n, !.md5 = m, !.to = t]
    <3> DEFINE Request(n, m, t) == [Ask("put") EXCEPT !.name = n, !.md5 = m, !.to = t]
    <3>1. PutRequests =
              UNION {{Request(n, m, t) : m \in Given, t \in NewNames(n)} : n \in Name}
      BY SMT DEF PutRequests
    <3>2. SUFFICES \E n \in Name : \E m \in Given, t \in NewNames(n) : a = Request(n, m, t)
      OBVIOUS
    <3> HIDE DEF Request
    <3> QED
      BY <1>5, <3>1
  <2>2. PICK m \in Given, t \in NewNames(n) :
            a = [Ask("put") EXCEPT !.name = n, !.md5 = m, !.to = t]
    BY <2>1
  <2>3. NewNames(n) \subseteq Name \cup {NoName} /\ (~Rename => NewNames(n) = {NoName})
    BY DEF NewNames
  <2>4. a = [op |-> "put", name |-> n, to |-> t, md5 |-> m, machine |-> NoName, row |-> 0]
    BY <1>2, <2>2
  <2> QED
    BY <1>1, <1>3, <2>3, <2>4
<1>6. CASE a \in UploadRequests
  <2>1. PICK n \in Name \ Dir, m \in Md5, k \in Machine :
            a = [Ask("upload") EXCEPT !.name = n, !.md5 = m, !.machine = k]
    <3> DEFINE Request(n, m, k) ==
                   [Ask("upload") EXCEPT !.name = n, !.md5 = m, !.machine = k]
    <3>1. UploadRequests = {Request(n, m, k) : n \in Name \ Dir, m \in Md5, k \in Machine}
      BY SMT DEF UploadRequests
    <3>2. SUFFICES \E n \in Name \ Dir, m \in Md5, k \in Machine : a = Request(n, m, k)
      OBVIOUS
    <3> HIDE DEF Request
    <3> QED
      BY <1>6, <3>1
  <2>2. a = [op |-> "upload", name |-> n, to |-> NoName, md5 |-> m, machine |-> k, row |-> 0]
    BY <1>2, <2>1
  <2> QED
    BY <1>1, <1>3, <2>2
<1>7. CASE a \in DeleteRequests
  <2>1. PICK op \in {"delete", "fileDelete"}, n \in Name : a = [Ask(op) EXCEPT !.name = n]
    BY <1>7 DEF DeleteRequests
  <2>2. a = [op |-> op, name |-> n, to |-> NoName, md5 |-> NoMd5, machine |-> NoName, row |-> 0]
    BY <1>2, <2>1
  <2>3. op \in Operation /\ op \notin {"confirm", "upload"} /\ NoName \in Name \cup {NoName}
    BY <2>1
  <2>4. a \in Asked
    BY <1>1, <1>3, <2>2, <2>3
  <2> QED
    BY <2>2, <2>3, <2>4
<1>8. CASE a \in PathRequests
  <2>1. PICK u \in upcoming : a = [Ask("path") EXCEPT !.name = u.name, !.md5 = u.md5]
    BY <1>8 DEF PathRequests
  <2>2. u.name \in Name /\ u.md5 \in Content
    BY DEF Calls, CallsTyped, Coming
  <2>3. a = [op |-> "path", name |-> u.name, to |-> NoName, md5 |-> u.md5,
             machine |-> NoName, row |-> 0]
    BY <1>2, <2>1
  <2> QED
    BY <1>3, <2>2, <2>3
<1>9. \A p \in DOMAIN paths : paths[p].file \in Nat /\ paths[p].machine \in Machine
  <2>1. \A p \in DOMAIN paths : paths[p] \in PathRow
    BY DEF TablesTyped
  <2> QED
    BY <2>1 DEF PathRow
<1>10. CASE a \in ConfirmRequests
  <2>1. PICK p \in DOMAIN paths, m \in Md5 :
            a = [Ask("confirm") EXCEPT !.row = paths[p].file,
                    !.machine = paths[p].machine, !.md5 = m]
    <3> DEFINE Request(p, m) == [Ask("confirm") EXCEPT !.row = paths[p].file,
                                    !.machine = paths[p].machine, !.md5 = m]
    <3>1. ConfirmRequests = {Request(p, m) : p \in DOMAIN paths, m \in Md5}
      BY SMT DEF ConfirmRequests
    <3>2. SUFFICES \E p \in DOMAIN paths, m \in Md5 : a = Request(p, m)
      OBVIOUS
    <3> HIDE DEF Request
    <3> QED
      BY <1>10, <3>1
  <2>2. a = [op |-> "confirm", name |-> NoName, to |-> NoName, md5 |-> m,
             machine |-> paths[p].machine, row |-> paths[p].file]
    BY <1>2, <2>1
  <2> QED
    BY <1>1, <1>9, <2>2 DEF Asked
<1>11. CASE a \in DupRequests
  <2>1. PICK p \in DOMAIN paths : a = [Ask("dup") EXCEPT !.row = paths[p].file]
    BY <1>11 DEF DupRequests
  <2>2. a = [op |-> "dup", name |-> NoName, to |-> NoName, md5 |-> NoMd5,
             machine |-> NoName, row |-> paths[p].file]
    BY <1>2, <2>1
  <2> QED
    BY <1>1, <1>9, <2>2 DEF Asked
<1> QED
  BY <1>4, <1>5, <1>6, <1>7, <1>8, <1>10, <1>11 DEF Requests

LEMMA StartKeeps ==
    ASSUME TablesTyped, Calls, NEW c \in Call, Start(c)
    PROVE  TablesTyped' /\ Calls'
<1>1. PICK a \in Requests :
        /\ ask' = [ask EXCEPT ![c] = a]
        /\ obj' = [obj EXCEPT ![c] = Fresh(c, a)]
        /\ lastPut' = IF a.op = "put" THEN c ELSE lastPut
        /\ upcoming' \subseteq upcoming
  BY DEF Start
<1>2. /\ pc[c] = "idle" /\ pc' = [pc EXCEPT ![c] = "load"]
      /\ UNCHANGED <<info, paths, proof, todo, failed, answers, ok>>
  BY DEF Start, tables
<1>3. /\ a \in Asked /\ a.op \in Operation
      /\ a.op \notin ByPath => a.name \in Name
      /\ a.op = "confirm" => a.md5 \in Md5
      /\ a.op = "upload" => a.machine \in Machine
  BY RequestsTyped
<1>4. a.op # "none" /\ ask[c].op = "none" /\ todo[c] = {}
  BY <1>2, <1>3 DEF Operation, Calls, Asks, Fine, Local
<1>5. Good(DOMAIN info, DOMAIN paths, ask', c, Fresh(c, a))
  BY <1>3, FreshIsGood
<1>6. TablesTyped'
  BY <1>2 DEF TablesTyped
<1>7. Fresh(c, a) \in Obj /\ "load" \in Places
  BY <1>5 DEF Good, Places
<1>8. CallsTyped'
  BY <1>1, <1>2, <1>3, <1>7 DEF Calls, CallsTyped
<1>9. ASSUME NEW d \in Call PROVE Asks(d)'
  <2>1. CASE d = c
    <3>1. ask'[d] = a /\ pc'[d] = "load"
      BY <1>1, <1>2, <2>1 DEF Calls, CallsTyped
    <3>2. a.op = "put" => lastPut' = c /\ ask'[c].op = "put"
      BY <1>1, <2>1, <3>1
    <3> QED
      BY <1>3, <1>4, <3>1, <3>2 DEF Asks
  <2>2. CASE d # c
    <3>1. ask'[d] = ask[d] /\ pc'[d] = pc[d]
      BY <1>1, <1>2, <2>2 DEF Calls, CallsTyped
    <3>2. ASSUME ask[d].op = "put" PROVE lastPut' \in Call /\ ask'[lastPut'].op = "put"
      <4>1. CASE a.op = "put"
        BY <1>1, <4>1 DEF Calls, CallsTyped
      <4>2. CASE a.op # "put"
        <5>1. lastPut \in Call /\ ask[lastPut].op = "put" /\ lastPut' = lastPut
          BY <1>1, <3>2, <4>2 DEF Calls, Asks
        <5>2. lastPut # c
          BY <1>4, <5>1
        <5> QED
          BY <1>1, <5>1, <5>2 DEF Calls, CallsTyped
      <4> QED
        BY <4>1, <4>2
    <3>3. Asks(d)
      BY DEF Calls
    <3> QED
      BY <3>1, <3>2, <3>3 DEF Asks
  <2> QED
    BY <2>1, <2>2
<1>10. ASSUME NEW d \in Call PROVE Fine(d)'
  <2>1. CASE d = c
    <3>1. obj'[d] = Fresh(c, a) /\ pc'[d] = "load" /\ todo'[d] = {}
      BY <1>1, <1>2, <1>4, <2>1 DEF Calls, CallsTyped
    <3>2. Local(Fresh(c, a), "load", {})
      BY DEF Local
    <3> QED
      BY <1>2, <1>5, <2>1, <3>1, <3>2 DEF Fine
  <2>2. CASE d # c
    <3>1. obj'[d] = obj[d] /\ pc'[d] = pc[d] /\ todo'[d] = todo[d] /\ ask'[d] = ask[d]
      BY <1>1, <1>2, <2>2 DEF Calls, CallsTyped
    <3>2. Fine(d) /\ obj[d].client \in Call
      BY DEF Calls, CallsTyped, Obj
    <3>3. obj[d].client # c => ask'[obj[d].client] = ask[obj[d].client]
      BY <1>1, <3>2 DEF Calls, CallsTyped
    <3>4. ask[obj[d].client].op = "put" => ask'[obj[d].client].op = "put"
      BY <1>4, <3>3
    <3>5. Good(DOMAIN info, DOMAIN paths, ask', d, obj[d])
      BY <3>1, <3>2, <3>4 DEF Fine, Good
    <3> QED
      BY <1>2, <3>1, <3>2, <3>5 DEF Fine
  <2> QED
    BY <2>1, <2>2
<1> QED
  BY <1>6, <1>8, <1>9, <1>10 DEF Calls

-----------------------------------------------------------------------------
(* Types of the metadata *)

LEMMA MetaAtInit == Init => TablesTyped /\ Calls
<1> SUFFICES ASSUME Init PROVE TablesTyped /\ Calls
  OBVIOUS
<1>1. TablesTyped
  BY DEF Init, TablesTyped
<1>2. Idle \in Asked
  BY DEF Idle, Asked, Content
<1>3. \A c \in Call : /\ Good({}, {}, ask, c, Fresh(c, Idle)) /\ Fresh(c, Idle) \in Obj
                      /\ Local(Fresh(c, Idle), "idle", {})
  <2>1. \A c \in Call : Good({}, {}, ask, c, Fresh(c, Idle))
    BY <1>2, FreshIsGood
  <2> QED
    BY <2>1 DEF Good, Local
<1>4. CallsTyped
  BY <1>2, <1>3 DEF Init, CallsTyped, Places
<1>5. \A c \in Call : Asks(c)
  BY DEF Init, Asks, Idle
<1>6. \A c \in Call : Fine(c)
  BY <1>3 DEF Init, Fine
<1> QED
  BY <1>1, <1>4, <1>5, <1>6 DEF Calls

LEMMA MetaKept ==
    ASSUME TablesTyped, Calls, [Next]_vars
    PROVE  TablesTyped' /\ Calls'
<1>1. ASSUME NEW c \in Call, Start(c) \/ Statement(c) \/ Fail(c) \/ CallBackAgain(c)
      PROVE  TablesTyped' /\ Calls'
  BY <1>1, StartKeeps, AgainKeeps, LoadInfoKeeps, NoSpaceKeeps, LoadPathsKeeps, LoadChildrenKeeps,
     WriteInfoTables, WriteKeeps, FailKeeps DEF Statement
<1>2. CASE UNCHANGED vars
  BY <1>2 DEF vars, tables, calls, TablesTyped, Calls, CallsTyped, Asks, Fine
<1> QED
  BY <1>1, <1>2 DEF Next

LEMMA MetaInvariant == Spec => [](TablesTyped /\ Calls)
<1>1. TablesTyped /\ Calls /\ [Next]_vars => (TablesTyped /\ Calls)'
  BY MetaKept
<1> QED
  BY MetaAtInit, <1>1, PTL DEF Spec

LEMMA MetaMeansTyped ==
    ASSUME TablesTyped, Calls
    PROVE  TypeOK
<1>1. \A i \in DOMAIN info : /\ info[i].name \in Name
                             /\ info[i].status \in {0, Normal, Deleted}
                             /\ info[i].md5 \in Md5 \cup {NoMd5}
  <2>1. \A i \in DOMAIN info : info[i] \in InfoRow
    BY DEF TablesTyped
  <2> QED
    BY <2>1 DEF InfoRow, St, Content
<1>2. \A p \in DOMAIN paths : /\ paths[p].file \in DOMAIN info
                              /\ paths[p].machine \in Machine
                              /\ paths[p].status \in {0, Normal, Deleted}
  <2>1. \A p \in DOMAIN paths : paths[p] \in PathRow
    BY DEF TablesTyped
  <2> QED
    BY <2>1 DEF TablesTyped, PathRow, St
<1>3. DOMAIN proof = DOMAIN paths
  BY DEF TablesTyped
<1>4. \A c \in Call : /\ pc[c] \in {"idle", "load", "paths", "children", "info",
                                    "writes", "done", "lost"}
                      /\ todo[c] # {} <=> pc[c] = "writes"
                      /\ failed[c] \subseteq Mishap
                      /\ obj[c].id \in DOMAIN info \cup {0}
                      /\ obj[c].client \in Call
  BY DEF Calls, CallsTyped, Places, Fine, Local, Good, Obj
<1> QED
  BY <1>1, <1>2, <1>3, <1>4 DEF TypeOK

\* With any number of calls side by side and statements that fail, rows keep their
\* types, every path belongs to a file and every object works on a row that exists,
\* and no call has open writes when it has ended.
THEOREM MetaTyped == Spec => []TypeOK
BY MetaInvariant, MetaMeansTyped, PTL

-----------------------------------------------------------------------------
(* Steps *)

\* Every statement, answered or failed, is one of a call that is under way.
LEMMA StepMoves ==
    ASSUME TablesTyped, Calls, NEW c \in Call, Statement(c) \/ Fail(c)
    PROVE  Moves(c) /\ pc[c] \notin {"idle", "done", "lost"}
<1>1. Moves(c)
  BY LoadInfoKeeps, NoSpaceKeeps, LoadPathsKeeps, LoadChildrenKeeps, WriteInfoTables,
     WriteKeeps, FailKeeps DEF Statement
<1>2. pc[c] \in {"load", "paths", "children", "info", "writes"}
  BY DEF Statement, Fail, LoadInfo, NoSpace, LoadPaths, LoadChildren, WriteInfo, Write,
         FailLoad, FailPaths, FailChildren, FailInfo, FailWrite
<1> QED
  BY <1>1, <1>2

\* The statements that touch no path.
LEMMA PathsStay ==
    ASSUME NEW c \in Call,
           \/ Start(c) \/ LoadInfo(c) \/ NoSpace(c) \/ LoadPaths(c) \/ LoadChildren(c)
           \/ WriteInfo(c) \/ Fail(c) \/ CallBackAgain(c)
           \/ \E w \in todo[c] : SelectFolder(c, w) \/ InsertFolder(c, w)
    PROVE  UNCHANGED <<paths, proof>>
<1>1. UNCHANGED tables => UNCHANGED <<paths, proof>>
  BY DEF tables
<1> QED
  BY <1>1 DEF Start, LoadInfo, NoSpace, LoadPaths, LoadChildren, WriteInfo,
       SelectFolder, InsertFolder, Fail, FailLoad, FailPaths, FailChildren, FailInfo,
       FailWrite, CallBackAgain

-----------------------------------------------------------------------------
(* Paths that are served *)

LEMMA ConfirmedKept ==
    ASSUME TablesTyped, Calls, ReadyWasConfirmed, [Next]_vars
    PROVE  ReadyWasConfirmed'
<1>1. ASSUME UNCHANGED <<paths, proof>> PROVE ReadyWasConfirmed'
  BY <1>1 DEF ReadyWasConfirmed
<1>2. ASSUME NEW c \in Call, pc[c] = "writes", NEW w \in todo[c], WritePath(c, w)
      PROVE  ReadyWasConfirmed'
  <2> DEFINE p    == w.path
             at   == IF p.id = 0 THEN Len(paths) + 1 ELSE p.id
             Seen == IF ask[c].op = "confirm" /\ p.status = Normal THEN ask[c].md5
                     ELSE IF p.id = 0 THEN NoMd5 ELSE proof[p.id]
  <2>1. /\ p \in obj[c].paths /\ p.dirty /\ p.id \in DOMAIN paths \cup {0}
        /\ p.status = Normal => ask[c].op = "confirm"
    BY <1>2 DEF WritePath, Calls, Fine, Local, Good
  <2>2. ask[c].op = "confirm" => ask[c].md5 # NoMd5
    BY FileMetaAssumption DEF Calls, Asks
  <2>3. p.status = Normal => Seen # NoMd5
    BY <2>1, <2>2
  <2>4. /\ paths \in Seq(PathRow) /\ Len(paths) \in Nat /\ DOMAIN paths = 1 .. Len(paths)
        /\ DOMAIN proof = DOMAIN paths
    BY DEF TablesTyped
  <2>5. /\ DOMAIN paths' = DOMAIN paths \cup {at}
        /\ paths'[at].status = p.status
        /\ \A q \in DOMAIN paths \ {at} : paths'[q].status = paths[q].status
    <3>1. CASE p.id = 0
      <4> DEFINE new == [file |-> obj[c].id, machine |-> p.machine, status |-> p.status]
      <4>1. paths' = Append(paths, new) /\ new.status = p.status
        BY <1>2, <3>1 DEF WritePath
      <4> HIDE DEF new
      <4> QED
        BY <2>4, <3>1, <4>1
    <3>2. CASE p.id # 0
      <4>1. /\ paths' = [paths EXCEPT ![p.id].status = p.status] /\ p.id \in DOMAIN paths
            /\ paths[p.id] \in PathRow /\ at = p.id
        BY <1>2, <2>1, <2>4, <3>2 DEF WritePath
      <4>2. [paths[p.id] EXCEPT !.status = p.status].status = p.status
        BY <4>1 DEF PathRow
      <4> HIDE DEF p, at
      <4> QED
        BY <4>1, <4>2
    <3> QED
      BY <3>1, <3>2
  <2>6. proof' = [q \in DOMAIN proof \cup {at} |-> IF q = at THEN Seen ELSE proof[q]]
    BY <1>2 DEF WritePath
  <2> HIDE DEF p, at, Seen
  <2> QED
    BY <2>3, <2>4, <2>5, <2>6 DEF ReadyWasConfirmed
<1>3. CASE UNCHANGED vars
  BY <1>1, <1>3 DEF vars, tables
<1> QED
  BY <1>1, <1>2, <1>3, PathsStay DEF Next, Statement, Write

\* Whatever calls run side by side and whatever fails, a path is served only after a
\* supplier confirmed content for it: a save writes the status it was handed, and no
\* other command marks a path as ready (metadata.js:188-206).
THEOREM ServedWasConfirmed == Spec => []ReadyWasConfirmed
<1>1. Init => ReadyWasConfirmed
  BY DEF Init, ReadyWasConfirmed
<1>2. TablesTyped /\ Calls /\ ReadyWasConfirmed /\ [Next]_vars => ReadyWasConfirmed'
  BY ConfirmedKept
<1> QED
  BY MetaInvariant, <1>1, <1>2, PTL DEF Spec

-----------------------------------------------------------------------------
(* Success *)

AnotherPut(c) == ask[c].op = "put" /\ \E b \in Call \ {c} : ask[b].op = "put"

\* What the failure of a write and the report of success leave a call to do.
FailedAt(c)  == "write" \in failed[c] => \/ pc[c] \in {"writes", "lost"}
                                         \/ pc[c] = "done" /\ ask[c].op = "confirm"
SuccessAt(c) == ok[c] => pc[c] = "done" \/ AnotherPut(c)
\* A command that has no use for an object without paths has ended with an error.
BlindAt(c)   == "paths" \in failed[c] => /\ pc[c] # "idle"
                                         /\ ask[c].op \in Blind \/ (pc[c] = "done" /\ ~ok[c])
Saved == \A c \in Call : FailedAt(c) /\ SuccessAt(c) /\ BlindAt(c)

LEMMA StartSaved ==
    ASSUME Calls, Saved, NEW c \in Call, Start(c)
    PROVE  Saved'
<1>1. PICK a \in Asked \cup Requests : ask' = [ask EXCEPT ![c] = a]
  BY DEF Start
<1>2. /\ pc[c] = "idle" /\ pc' = [pc EXCEPT ![c] = "load"] /\ UNCHANGED <<failed, ok>>
      /\ ask[c].op = "none"
  BY DEF Start, Calls, Asks
<1>3. "write" \notin failed[c] /\ "paths" \notin failed[c] /\ ~ok[c]
  BY <1>2 DEF Saved, FailedAt, SuccessAt, BlindAt, AnotherPut
<1>4. ASSUME NEW d \in Call, d # c PROVE FailedAt(d)' /\ SuccessAt(d)' /\ BlindAt(d)'
  <2>1. pc'[d] = pc[d] /\ ask'[d] = ask[d]
    BY <1>1, <1>2, <1>4 DEF Calls, CallsTyped
  <2>2. AnotherPut(d) => AnotherPut(d)'
    BY <1>1, <1>2, <2>1 DEF AnotherPut, Calls, CallsTyped
  <2> QED
    BY <1>2, <2>1, <2>2 DEF Saved, FailedAt, SuccessAt, BlindAt
<1>5. FailedAt(c)' /\ SuccessAt(c)' /\ BlindAt(c)'
  BY <1>2, <1>3 DEF FailedAt, SuccessAt, BlindAt
<1> QED
  BY <1>4, <1>5 DEF Saved

\* The report of a callback goes to the call that ends, or from one metaPut to another.
LEMMA SuccessKept ==
    ASSUME Calls, Saved, NEW c \in Call, Moves(c), pc[c] # "done"
    PROVE  \A d \in Call : SuccessAt(d)'
<1>1. CASE Ends(c)
  <2>1. PICK o : \E result \in BOOLEAN :
            /\ Answer(c, o, result)
            /\ o.client \in Call /\ ask[o.client].op = ask[c].op
            /\ ask[c].op # "put" => o.client = c
    BY <1>1 DEF Ends
  <2>2. PICK result \in BOOLEAN :
            /\ pc' = [pc EXCEPT ![c] = "done"] /\ ask' = ask
            /\ ok' = [ok EXCEPT ![o.client] = result]
    BY <2>1 DEF Answer
  <2>3. \A d \in Call : AnotherPut(d) => AnotherPut(d)'
    BY <2>2 DEF AnotherPut
  <2>4. \A d \in Call : pc[d] = "done" \/ d = c => pc'[d] = "done"
    BY <2>2 DEF Calls, CallsTyped
  <2>5. o.client # c => AnotherPut(o.client)'
    BY <2>1, <2>2 DEF AnotherPut
  <2>6. \A d \in Call : d # o.client => ok'[d] = ok[d]
    BY <2>1, <2>2 DEF Calls, CallsTyped
  <2> QED
    BY <2>3, <2>4, <2>5, <2>6 DEF Saved, SuccessAt
<1>2. CASE Goes(c)
  <2>1. PICK at \in Places : pc' = [pc EXCEPT ![c] = at] /\ UNCHANGED <<ask, ok>>
    BY <1>2 DEF Goes
  <2>2. \A d \in Call : AnotherPut(d) => AnotherPut(d)'
    BY <2>1 DEF AnotherPut
  <2>3. \A d \in Call : pc[d] = "done" => pc'[d] = "done"
    BY <2>1 DEF Calls, CallsTyped
  <2> QED
    BY <2>1, <2>2, <2>3 DEF Saved, SuccessAt
<1> QED
  BY <1>1, <1>2 DEF Moves

\* After a write has failed, the last of the others does not run the callback.
LEMMA StatementFailed ==
    ASSUME Calls, Saved, NEW c \in Call, Statement(c), pc[c] \notin {"done", "lost"}
    PROVE  FailedAt(c)'
<1>1. failed' = failed
  BY DEF Statement, LoadInfo, NoSpace, LoadPaths, LoadChildren, WriteInfo, Write,
         WritePath, SelectFolder, InsertFolder
<1>2. CASE "write" \notin failed[c]
  BY <1>1, <1>2 DEF FailedAt
<1>3. CASE "write" \in failed[c]
  <2>1. pc[c] = "writes"
    BY <1>3 DEF Saved, FailedAt
  <2>2. Write(c)
    BY <2>1 DEF Statement, LoadInfo, NoSpace, LoadPaths, LoadChildren, WriteInfo
  <2>3. PICK w, next : Wrote(c, w, next)
    BY <2>2 DEF Write, WritePath, SelectFolder, InsertFolder
  <2>4. Lose(c) \/ Proceed(c, "writes", obj[c])
    BY <1>3, <2>3 DEF Wrote
  <2>5. pc'[c] \in {"writes", "lost"}
    BY <2>4 DEF Lose, Proceed, Calls, CallsTyped
  <2> QED
    BY <2>5 DEF FailedAt
<1> QED
  BY <1>2, <1>3

LEMMA FailFailed ==
    ASSUME TablesTyped, Calls, Saved, NEW c \in Call, Fail(c), pc[c] \notin {"done", "lost"}
    PROVE  FailedAt(c)' /\ \A d \in Call \ {c} : failed'[d] = failed[d]
<1>1. \A d \in Call \ {c} : failed'[d] = failed[d]
  BY FailShows DEF Calls, CallsTyped
<1>2. CASE FailLoad(c) \/ FailPaths(c) \/ FailChildren(c)
  <2>1. pc[c] # "writes" /\ failed \in [Call -> SUBSET Mishap]
    BY <1>2 DEF FailLoad, FailPaths, FailChildren, Calls, CallsTyped
  <2>2. "write" \notin failed[c]
    BY <2>1 DEF Saved, FailedAt
  <2>3. PICK S \in {{}, {"paths"}, {"connection"}} :
            failed' = failed \/ failed' = [failed EXCEPT ![c] = @ \cup S]
    <3>1. Reported(c, {}) => \E S \in {{}, {"connection"}} :
                                 failed' = [failed EXCEPT ![c] = @ \cup S]
      BY DEF Reported
    <3> QED
      BY <1>2, <3>1 DEF FailLoad, FailPaths, FailChildren
  <2>4. "write" \notin failed'[c]
    BY <2>1, <2>2, <2>3
  <2> QED
    BY <1>1, <2>4 DEF FailedAt
<1>3. CASE FailInfo(c)
  <2>1. \/ ask[c].op = "confirm" /\ pc' = [pc EXCEPT ![c] = "done"] /\ ask' = ask
        \/ pc' = [pc EXCEPT ![c] = "lost"]
    BY <1>3 DEF FailInfo, Answer, Lose
  <2> QED
    BY <1>1, <2>1 DEF FailedAt, Calls, CallsTyped
<1>4. CASE FailWrite(c)
  <2>1. Lose(c) \/ Proceed(c, "writes", obj[c])
    BY <1>4 DEF FailWrite
  <2>2. pc'[c] \in {"writes", "lost"}
    BY <2>1 DEF Lose, Proceed, Calls, CallsTyped
  <2> QED
    BY <1>1, <2>2 DEF FailedAt
<1> QED
  BY <1>2, <1>3, <1>4 DEF Fail

\* Only the select of the paths leaves its failure to the command: on an object that
\* is there but has no paths, a command that is not blind ends with an error.
LEMMA BlindKept ==
    ASSUME TablesTyped, Calls, Saved, NEW c \in Call, Statement(c) \/ Fail(c),
           Moves(c), pc[c] \notin {"idle", "done", "lost"}
    PROVE  BlindAt(c)'
<1>1. ask' = ask /\ pc'[c] # "idle"
  BY DEF Moves, Ends, Goes, Answer, Calls, CallsTyped
<1>2. CASE ask[c].op \in Blind
  BY <1>1, <1>2 DEF BlindAt
<1>3. CASE ask[c].op \notin Blind /\ "paths" \notin failed'[c]
  BY <1>3 DEF BlindAt
<1>4. CASE ask[c].op \notin Blind /\ "paths" \in failed'[c]
  <2>1. "paths" \notin failed[c] /\ failed \in [Call -> SUBSET Mishap]
    BY <1>4 DEF Saved, BlindAt, Calls, CallsTyped
  <2>2. FailPaths(c)
    <3>1. CASE Statement(c)
      BY <1>4, <2>1, <3>1 DEF Statement, LoadInfo, NoSpace, LoadPaths, LoadChildren,
         WriteInfo, Write, WritePath, SelectFolder, InsertFolder
    <3>2. ASSUME NEW S \in SUBSET {"write"}, Reported(c, S)
          PROVE  "paths" \notin failed'[c]
      <4>1. PICK more \in {{}, {"connection"}} :
                failed' = [failed EXCEPT ![c] = @ \cup S \cup more]
        BY <3>2 DEF Reported
      <4>2. failed'[c] = failed[c] \cup S \cup more
        BY <2>1, <4>1
      <4> QED
        BY <2>1, <4>2
    <3>3. CASE FailLoad(c) \/ FailChildren(c)
      <4>1. Reported(c, {}) \/ failed' = failed
        BY <3>3 DEF FailLoad, FailChildren
      <4>2. {} \in SUBSET {"write"}
        OBVIOUS
      <4> QED
        BY <1>4, <2>1, <3>2, <4>1, <4>2
    <3>4. CASE FailInfo(c)
      <4>1. Reported(c, {"write"}) \/ failed' = [failed EXCEPT ![c] = @ \cup {"write"}]
        BY <3>4 DEF FailInfo
      <4> QED
        BY <1>4, <2>1, <3>2, <4>1
    <3>5. CASE FailWrite(c)
      BY <1>4, <2>1, <3>5 DEF FailWrite
    <3> QED
      BY <3>1, <3>3, <3>4, <3>5 DEF Fail
  <2>3. /\ pc[c] = "paths" /\ Handle(c, obj[c])
        /\ obj[c].id # 0 /\ obj[c].paths = {}
    BY <2>2 DEF FailPaths, Calls, Fine, Local
  <2>4. obj[c].client = c
    BY <1>4 DEF Blind, Calls, Fine, Good
  <2>5. Answer(c, obj[c], FALSE)
    <3>1. CASE ask[c].op = "post" /\ PostLoaded(c, obj[c])
      BY <2>3, <3>1 DEF PostLoaded
    <3>2. CASE ask[c].op = "confirm" /\ ConfirmLoaded(c, obj[c])
      BY <2>3, <3>2 DEF ConfirmLoaded
    <3>3. CASE ask[c].op = "dup" /\ DupLoaded(c, obj[c])
      BY <2>3, <3>3 DEF DupLoaded
    <3> QED
      BY <1>4, <2>3, <3>1, <3>2, <3>3 DEF Handle, Blind
  <2>6. pc'[c] = "done" /\ ~ok'[c]
    BY <2>4, <2>5 DEF Answer, Calls, CallsTyped
  <2> QED
    BY <2>6 DEF BlindAt
<1> QED
  BY <1>2, <1>3, <1>4

\* What a step of another call does to one that is not blind.
LEMMA BlindElsewhere ==
    ASSUME Calls, Saved, NEW c \in Call, Moves(c), NEW d \in Call \ {c},
           failed'[d] = failed[d]
    PROVE  BlindAt(d)'
<1>1. pc'[d] = pc[d] /\ ask' = ask
  BY DEF Moves, Ends, Goes, Answer, Calls, CallsTyped
<1>2. ask[d].op \notin Blind => ok'[d] = ok[d]
  <2>1. CASE Goes(c)
    BY <2>1 DEF Goes
  <2>2. CASE Ends(c)
    <3>1. PICK o : \E result \in BOOLEAN :
              /\ Answer(c, o, result)
              /\ o.client \in Call /\ ask[o.client].op = ask[c].op
              /\ ask[c].op # "put" => o.client = c
      BY <2>2 DEF Ends
    <3>2. PICK result \in BOOLEAN : ok' = [ok EXCEPT ![o.client] = result]
      BY <3>1 DEF Answer
    <3>3. ask[d].op \notin Blind => d # o.client
      BY <3>1 DEF Blind
    <3> QED
      BY <3>2, <3>3 DEF Calls, CallsTyped
  <2> QED
    BY <2>1, <2>2 DEF Moves
<1> QED
  BY <1>1, <1>2 DEF Saved, BlindAt

LEMMA SavedKept ==
    ASSUME TablesTyped, Calls, Saved, [Next]_vars
    PROVE  Saved'
<1>1. ASSUME NEW c \in Call, Statement(c) \/ Fail(c) PROVE Saved'
  <2>1. Moves(c) /\ pc[c] \notin {"idle", "done", "lost"}
    BY <1>1, StepMoves
  <2>2. \A d \in Call : SuccessAt(d)'
    BY <2>1, SuccessKept
  <2>3. FailedAt(c)' /\ BlindAt(c)'
    BY <1>1, <2>1, StatementFailed, FailFailed, BlindKept
  <2>4. \A d \in Call \ {c} : failed'[d] = failed[d]
    <3>1. CASE Statement(c)
      BY <3>1 DEF Statement, LoadInfo, NoSpace, LoadPaths, LoadChildren, WriteInfo,
                  Write, WritePath, SelectFolder, InsertFolder
    <3> QED
      BY <1>1, <2>1, <3>1, FailFailed
  <2>5. \A d \in Call \ {c} : pc'[d] = pc[d] /\ ask'[d] = ask[d]
    BY <2>1 DEF Moves, Ends, Goes, Answer, Calls, CallsTyped
  <2>6. \A d \in Call \ {c} : FailedAt(d)' /\ BlindAt(d)'
    BY <2>1, <2>4, <2>5, BlindElsewhere DEF Saved, FailedAt
  <2> QED
    BY <2>2, <2>3, <2>6 DEF Saved
<1>2. CASE UNCHANGED vars
  BY <1>2 DEF vars, calls, Saved, FailedAt, SuccessAt, BlindAt, AnotherPut
<1>3. ASSUME NEW c \in Call, CallBackAgain(c) PROVE Saved'
  <2>1. /\ UNCHANGED <<pc, ask, ok>> /\ failed \in [Call -> SUBSET Mishap]
        /\ failed' = [failed EXCEPT ![c] = (@ \ {"connection"}) \cup {"twice"}]
    BY <1>3 DEF CallBackAgain, Calls, CallsTyped
  <2>2. \A d \in Call : /\ "write" \in failed'[d] => "write" \in failed[d]
                        /\ "paths" \in failed'[d] => "paths" \in failed[d]
    BY <2>1
  <2> QED
    BY <2>1, <2>2 DEF Saved, FailedAt, SuccessAt, BlindAt, AnotherPut
<1> QED
  BY <1>1, <1>2, <1>3, StartSaved DEF Next

\* Whatever calls run side by side and whatever fails, a call that reports success has
\* had no write that failed, but for the two exceptions (metadataFactory.js:260-321): a
\* confirmation, and a metaPut while there is another one, whose success it reports;
\* and no post, confirmation or duplication reports success on an object whose paths
\* could not be selected (metadataFactory.js:97-104).
THEOREM ReportedSuccessIsSaved == Spec => []SuccessIsSaved
<1>1. Init => Saved
  BY DEF Init, Saved, FailedAt, SuccessAt, BlindAt
<1>2. TablesTyped /\ Calls /\ Saved /\ [Next]_vars => Saved'
  BY SavedKept
<1>3. Saved => SuccessIsSaved
  BY DEF Saved, FailedAt, SuccessAt, BlindAt, AnotherPut, SuccessIsSaved
<1> QED
  BY MetaInvariant, <1>1, <1>2, <1>3, PTL DEF Spec

-----------------------------------------------------------------------------
(* Callbacks *)

Done == {c \in Call : pc[c] = "done"}

\* As many callbacks have run as calls have ended, and those of the reports that came
\* twice; all but those of metaPuts are the calls' own.
Counted     == /\ IsFiniteSet(Callbacks)
               /\ Twice = {} => Cardinality(Callbacks) = Cardinality(Done)
OwnAnswer(c) == c \notin Twice /\ ask[c].op # "put"
                   => answers[c] = IF pc[c] = "done" THEN 1 ELSE 0
Accounted   == Counted /\ \A c \in Call : OwnAnswer(c)

LEMMA DoneIsFinite == IsFiniteSet(Done)
BY FileMetaAssumption, FS_Subset DEF Done

LEMMA PairsAre ==
    ASSUME NEW f
    PROVE  UNION {{c} \X (1 .. f[c]) : c \in Call} =
               {x \in Call \X Nat : x[2] \in 1 .. f[x[1]]}
OBVIOUS

LEMMA StartCounted ==
    ASSUME Calls, Accounted, NEW c \in Call, Start(c)
    PROVE  Accounted'
<1>1. PICK a : ask' = [ask EXCEPT ![c] = a]
  BY DEF Start
<1>2. /\ pc[c] = "idle" /\ pc' = [pc EXCEPT ![c] = "load"] /\ answers' = answers
      /\ ask[c].op = "none"
  BY DEF Start, Calls, Asks
<1>3. Done' = Done /\ Callbacks' = Callbacks /\ Twice' = Twice
  BY <1>2 DEF Done, Callbacks, Twice, Start, Calls, CallsTyped
<1>4. \A d \in Call : OwnAnswer(d)'
  BY <1>1, <1>2, <1>3 DEF OwnAnswer, Accounted, Calls, CallsTyped
<1> QED
  BY <1>3, <1>4 DEF Accounted, Counted

\* Only a callback that runs once more adds to the calls that were called back twice.
LEMMA TwiceStays ==
    ASSUME Calls, NEW c \in Call, Statement(c) \/ Fail(c)
    PROVE  Twice' = Twice
<1>1. failed \in [Call -> SUBSET Mishap]
  BY DEF Calls, CallsTyped
<1>2. CASE Statement(c)
  <2>1. failed' = failed
    BY <1>2 DEF Statement, LoadInfo, NoSpace, LoadPaths, LoadChildren, WriteInfo, Write,
           WritePath, SelectFolder, InsertFolder
  <2> QED
    BY <2>1 DEF Twice
<1>3. CASE Fail(c)
  <2>1. \/ failed' = failed
        \/ \E S \in SUBSET {"write", "paths", "connection"} :
              failed' = [failed EXCEPT ![c] = @ \cup S]
    <3>1. ASSUME NEW S \in SUBSET {"write"}, Reported(c, S)
          PROVE  \E T \in SUBSET {"write", "paths", "connection"} :
                    failed' = [failed EXCEPT ![c] = @ \cup T]
      <4>1. PICK more \in {{}, {"connection"}} :
                failed' = [failed EXCEPT ![c] = @ \cup S \cup more]
        BY <3>1 DEF Reported
      <4>2. S \cup more \in SUBSET {"write", "paths", "connection"}
        OBVIOUS
      <4>3. failed' = [failed EXCEPT ![c] = @ \cup (S \cup more)]
        BY <4>1
      <4> QED
        BY <4>2, <4>3
    <3>2. CASE FailLoad(c) \/ FailChildren(c)
      BY <3>1, <3>2 DEF FailLoad, FailChildren
    <3>3. CASE FailPaths(c) \/ FailWrite(c)
      BY <3>3 DEF FailPaths, FailWrite
    <3>4. CASE FailInfo(c)
      BY <3>1, <3>4 DEF FailInfo
    <3> QED
      BY <1>3, <3>2, <3>3, <3>4 DEF Fail
  <2>2. \A d \in Call : "twice" \in failed'[d] <=> "twice" \in failed[d]
    BY <1>1, <2>1
  <2> QED
    BY <2>2 DEF Twice
<1> QED
  BY <1>2, <1>3

LEMMA EndCounted ==
    ASSUME Calls, Accounted, NEW c \in Call, pc[c] # "done", Ends(c), Twice' = Twice
    PROVE  Accounted'
<1>1. PICK o : \E result \in BOOLEAN :
          /\ Answer(c, o, result)
          /\ o.client \in Call /\ ask[o.client].op = ask[c].op
          /\ ask[c].op # "put" => o.client = c
  BY DEF Ends
<1> DEFINE b    == o.client
           last == <<b, answers[b] + 1>>
<1>2. /\ pc' = [pc EXCEPT ![c] = "done"] /\ ask' = ask
      /\ answers' = [answers EXCEPT ![b] = @ + 1]
  BY <1>1 DEF Answer
<1>3. b \in Call /\ answers \in [Call -> Nat] /\ pc \in [Call -> Places]
  BY <1>1 DEF Calls, CallsTyped
<1>4. Done' = Done \cup {c} /\ c \notin Done
  BY <1>2, <1>3 DEF Done
<1> HIDE DEF b
<1>5. Callbacks' = Callbacks \cup {last} /\ last \notin Callbacks
  <2>1. Callbacks = {x \in Call \X Nat : x[2] \in 1 .. answers[x[1]]}
    BY PairsAre DEF Callbacks
  <2>2. Callbacks' = {x \in Call \X Nat : x[2] \in 1 .. answers'[x[1]]}
    BY PairsAre DEF Callbacks
  <2> QED
    BY <1>2, <1>3, <2>1, <2>2 DEF last
<1> HIDE DEF last
<1>6. Counted'
  <2>1. /\ IsFiniteSet(Callbacks) /\ IsFiniteSet(Done)
        /\ Twice = {} => Cardinality(Callbacks) = Cardinality(Done)
    BY DoneIsFinite DEF Accounted, Counted
  <2>2. /\ IsFiniteSet(Callbacks')
        /\ Cardinality(Callbacks') = Cardinality(Callbacks) + 1
    BY <1>5, <2>1, FS_AddElement
  <2>3. Cardinality(Done') = Cardinality(Done) + 1
    BY <1>4, <2>1, FS_AddElement
  <2> QED
    BY <2>1, <2>2, <2>3 DEF Counted
<1>7. ASSUME NEW d \in Call PROVE OwnAnswer(d)'
  <2>1. CASE ask[d].op = "put" \/ d \in Twice
    BY <1>2, <2>1 DEF OwnAnswer
  <2>2. CASE ask[d].op # "put" /\ d \notin Twice /\ d = c
    BY <1>1, <1>2, <1>3, <2>2 DEF OwnAnswer, Accounted, b
  <2>3. CASE ask[d].op # "put" /\ d \notin Twice /\ d # c
    <3>1. d # b
      BY <1>1, <2>3 DEF b
    <3> QED
      BY <1>2, <1>3, <2>3, <3>1 DEF OwnAnswer, Accounted
  <2> QED
    BY <2>1, <2>2, <2>3
<1> QED
  BY <1>6, <1>7 DEF Accounted

LEMMA AgainCounted ==
    ASSUME Calls, Accounted, NEW c \in Call, CallBackAgain(c)
    PROVE  Accounted'
<1> DEFINE last == <<c, answers[c] + 1>>
<1>1. /\ UNCHANGED <<pc, ask>> /\ answers' = [answers EXCEPT ![c] = @ + 1]
      /\ failed' = [failed EXCEPT ![c] = (@ \ {"connection"}) \cup {"twice"}]
      /\ answers \in [Call -> Nat] /\ failed \in [Call -> SUBSET Mishap]
  BY DEF CallBackAgain, Calls, CallsTyped
<1>2. Twice' = Twice \cup {c}
  BY <1>1 DEF Twice
<1>3. Callbacks' = Callbacks \cup {last}
  <2>1. Callbacks = {x \in Call \X Nat : x[2] \in 1 .. answers[x[1]]}
    BY PairsAre DEF Callbacks
  <2>2. Callbacks' = {x \in Call \X Nat : x[2] \in 1 .. answers'[x[1]]}
    BY PairsAre DEF Callbacks
  <2> QED
    BY <1>1, <2>1, <2>2
<1> HIDE DEF last
<1>4. Counted'
  BY <1>2, <1>3, FS_AddElement DEF Accounted, Counted
<1>5. \A d \in Call : OwnAnswer(d)'
  BY <1>1, <1>2 DEF Accounted, OwnAnswer
<1> QED
  BY <1>4, <1>5 DEF Accounted

LEMMA CountedKept ==
    ASSUME TablesTyped, Calls, Accounted, [Next]_vars
    PROVE  Accounted'
<1>1. ASSUME NEW c \in Call, Statement(c) \/ Fail(c) PROVE Accounted'
  <2>1. Moves(c) /\ pc[c] # "done" /\ Twice' = Twice
    BY <1>1, StepMoves, TwiceStays
  <2>2. CASE Goes(c)
    <3>1. PICK at \in Places \ {"idle", "done"} :
              pc' = [pc EXCEPT ![c] = at] /\ UNCHANGED <<ask, answers>>
      BY <2>2 DEF Goes
    <3>2. Done' = Done /\ Callbacks' = Callbacks
      BY <2>1, <3>1 DEF Done, Callbacks, Calls, CallsTyped
    <3>3. \A d \in Call : OwnAnswer(d)'
      BY <2>1, <3>1 DEF OwnAnswer, Accounted, Calls, CallsTyped
    <3> QED
      BY <2>1, <3>2, <3>3 DEF Accounted, Counted
  <2> QED
    BY <2>1, <2>2, EndCounted DEF Moves
<1>2. CASE UNCHANGED vars
  BY <1>2 DEF vars, calls, Accounted, Counted, OwnAnswer, Callbacks, Done, Twice
<1> QED
  BY <1>1, <1>2, StartCounted, AgainCounted DEF Next

LEMMA CountedAtInit == Init => Accounted
<1> SUFFICES ASSUME Init PROVE Accounted
  OBVIOUS
<1>1. Done = {}
  BY DEF Init, Done
<1>2. Callbacks = {}
  BY DEF Init, Callbacks
<1>3. \A c \in Call : OwnAnswer(c)
  BY DEF Init, OwnAnswer
<1> QED
  BY <1>1, <1>2, <1>3, FS_EmptySet DEF Accounted, Counted

\* Whatever calls run side by side and whatever fails, as many callbacks run as calls end
\* with one, as long as no failed connection was reported twice (queryDB.js:17-26); and
\* every command but metaPut, whose saveResult is global, runs its own exactly once when it
\* ends and never before, unless it was one of its own connections that was reported twice
\* (metaPut.js, metadataFactory.js:244-321).
THEOREM EveryCallAnswersOnce == Spec => []OneCallbackPerCall
<1>1. TablesTyped /\ Calls /\ Accounted /\ [Next]_vars => Accounted'
  BY CountedKept
<1>2. Accounted => OneCallbackPerCall
  BY DEF Accounted, Counted, OwnAnswer, Done, OneCallbackPerCall
<1> QED
  BY MetaInvariant, CountedAtInit, <1>1, <1>2, PTL DEF Spec
=============================================================================
