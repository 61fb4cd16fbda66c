-------------------------------- MODULE Accounts --------------------------------
(***************************************************************************)
(* Registration of clients and suppliers, login and tokens: the commands   *)
(* registerClient, registerSupplier, login, tokenCreate, tokenRenew,       *)
(* tokenCheck, tokenDelete and logout over their tables.                   *)
(*                                                                         *)
(* An action is one SQL statement with the code of its callback, up to the *)
(* next statement.  Two things are shared by calls that overlap besides    *)
(* the tables: the global db, a connection object that many commands       *)
(* replace by undefined, and the global token, because the declaration in  *)
(* tokenCreate ends one variable too early (tokenCreate.js:21).            *)
(*                                                                         *)
(* Covered: overlapping calls, failing statements, the clock in seconds.   *)
(* Left out: passwords (two rows of a name are rows with one password),    *)
(* addresses of clients, the time a token expires, sessions, the profile   *)
(* columns and the key commands of Login.js.                               *)
(***************************************************************************)
EXTENDS Integers, FiniteSets

CONSTANTS
    Call,       \* commands
    Name,       \* names of clients and of suppliers
    Address,    \* addresses of suppliers' machines
    Ops,        \* the operations that are called
    Single,     \* those of which one call is under way at a time
    Faults,     \* BOUND: how many statements may fail
    MaxTime,    \* BOUND: the last second of the clock
    None        \* no token, no client

ASSUME AccountsAssumption ==
    /\ IsFiniteSet(Call)
    /\ {Faults, MaxTime} \subseteq Nat
    /\ None \notin Nat

VARIABLES
    clock,
    clientInfo,     \* table client_info: client ids
    clientAccount,  \* table client_account: [client, name]
    clientToken,    \* table client_token: [token, status]; equal rows count once
    supplierInfo,   \* table supplier_info: [id, name]
    supplierUsage,  \* table supplier_usage: [id, address]
    db, token,      \* the globals
    pc,             \* what a call waits for
    req,            \* its request
    row,            \* the id it found or inserted
    own,            \* the token in the statements it built
    answer, given,  \* what the client was told, and the token in it
    faults, failed, \* statements that failed, and calls that had one
    ended           \* ghost: tokens somebody asked to end

tables == <<clientInfo, clientAccount, clientToken, supplierInfo, supplierUsage>>
clientTables == <<clientInfo, clientAccount>>
supplierTables == <<supplierInfo, supplierUsage>>
vars == <<clock, tables, db, token, pc, req, row, own, answer, given, faults, failed, ended>>

\* A token encodes its owner and the second it was made in, and nothing else that
\* differs between two calls of one client.
Token == [client : Nat, time : 0 .. MaxTime]

Rows(t) == {r \in clientToken : r.token = t}
Alive(t) == [token |-> t, status |-> 0] \in clientToken
Named(n) == {r \in clientAccount : r.name = n}

Active(c) == pc[c] \notin {"idle", "done"}

Init ==
    /\ clock = 0
    /\ \E n \in Name : clientAccount = {[client |-> 1, name |-> n]}
    /\ clientInfo = {1}
    /\ clientToken = {} /\ supplierInfo = {} /\ supplierUsage = {}
    /\ db = "undefined" /\ token = None
    /\ pc = [c \in Call |-> "idle"]
    /\ req = [c \in Call |-> [op |-> "none"]]
    /\ row = [c \in Call |-> None]
    /\ own = [c \in Call |-> None]
    /\ answer = [c \in Call |-> "none"]
    /\ given = [c \in Call |-> None]
    /\ faults = 0
    /\ failed = [c \in Call |-> FALSE]
    /\ ended = {}

-----------------------------------------------------------------------------
(* How a call goes on *)

To(c, label) ==
    /\ pc' = [pc EXCEPT ![c] = label]
    /\ UNCHANGED <<answer, given>>

Answer(c, what, t) ==
    /\ pc' = [pc EXCEPT ![c] = "done"]
    /\ answer' = [answer EXCEPT ![c] = what]
    /\ given' = [given EXCEPT ![c] = t]

\* An exception in a callback: the process logs it and the client hears nothing.
Lose(c) == Answer(c, "lost", None)

\* The next statement is sent through the global db, whatever it is by now.
ThroughDb(c, label) == IF db = "undefined" THEN Lose(c) ELSE To(c, label)

\* What execute() leaves in db: a connection object, the undefined that queryDB
\* returns, or, in registerSupplier, no change.
DbOf(op) ==
    CASE op \in {"register", "renew", "check", "delete"} -> "object"
      [] op \in {"login", "logout"} -> "undefined"
      [] op = "supplier" -> db

Requests ==
    [op : {"register", "login"}, name : Name]
    \cup [op : {"supplier"}, name : Name, address : Address]
    \cup [op : {"renew", "check", "delete", "logout"},
          token : {r.token : r \in clientToken}]

FirstStatement ==
    [register |-> "account?", login |-> "account?", supplier |-> "name?",
     renew |-> "token?", check |-> "token?", delete |-> "retire", logout |-> "retire"]

Begin(c, r) ==
    /\ pc[c] = "idle"
    /\ r.op \in Ops
    /\ r.op \in Single => \A d \in Call : Active(d) => req[d].op # r.op
    /\ req' = [req EXCEPT ![c] = r]
    /\ db' = DbOf(r.op)
    /\ ended' = IF r.op \in {"renew", "delete", "logout"} THEN ended \cup {r.token} ELSE ended
    /\ To(c, FirstStatement[r.op])
    /\ UNCHANGED <<clock, tables, token, row, own, faults, failed>>

-----------------------------------------------------------------------------
(* registerClient *)

\* Wrong on purpose, to see a property fail: the check is left out.
RegisterUnchecked(c) ==
    /\ req[c].op = "register" /\ pc[c] = "account?"
    /\ ThroughDb(c, "info")
    /\ UNCHANGED <<tables, db, token, row, own>>

RegisterSelect(c) ==
    /\ req[c].op = "register" /\ pc[c] = "account?"
    /\ IF Named(req[c].name) # {} THEN Answer(c, "repeat", None)
                                  ELSE ThroughDb(c, "info")
    /\ UNCHANGED <<tables, db, token, row, own>>

RegisterInfo(c) ==
    /\ req[c].op = "register" /\ pc[c] = "info"
    /\ LET id == Cardinality(clientInfo) + 1
       IN  /\ clientInfo' = clientInfo \cup {id}
           /\ row' = [row EXCEPT ![c] = id]
    /\ ThroughDb(c, "account")
    /\ UNCHANGED <<clientAccount, clientToken, supplierTables, db, token, own>>

\* Wrong on purpose, to see a property fail: the answer does not wait for the row.
RegisterEarly(c) ==
    /\ req[c].op = "register" /\ pc[c] = "account"
    /\ Answer(c, "success", None)
    /\ UNCHANGED <<tables, db, token, row, own>>

RegisterAccount(c) ==
    /\ req[c].op = "register" /\ pc[c] = "account"
    /\ clientAccount' = clientAccount \cup {[client |-> row[c], name |-> req[c].name]}
    /\ Answer(c, "success", None)
    /\ UNCHANGED <<clientInfo, clientToken, supplierTables, db, token, row, own>>

-----------------------------------------------------------------------------
(* login and tokenCreate *)

\* Wrong on purpose, to see a property fail: a refused login goes on to
\* tokenCreate, which does nothing and does not call back.
RefuseNot(c) ==
    /\ To(c, "stuck")
    /\ UNCHANGED <<row, own, token>>

\* `:continue:check' ends the command.
RefuseLogin(c) ==
    /\ Answer(c, "refused", None)
    /\ UNCHANGED <<row, own, token>>

\* Wrong on purpose, to see a property fail: the global is set once and kept.
CreateTokenOnce(c, id) ==
    LET t == [client |-> id, time |-> clock]
    IN  /\ row' = [row EXCEPT ![c] = id]
        /\ own' = [own EXCEPT ![c] = t]
        /\ token' = IF token = None THEN t ELSE token
        /\ To(c, "exists?")

\* Wrong on purpose, to see a property fail: the time is not cut to seconds.
CreateTokenMillis(c, id) ==
    LET t == [client |-> id, time |-> 1000 * (clock + 1)]
    IN  /\ row' = [row EXCEPT ![c] = id]
        /\ own' = [own EXCEPT ![c] = t]
        /\ token' = t
        /\ To(c, "exists?")

\* tokenCreate up to its first statement: both statements are built with this
\* token, the answers read the global.
CreateToken(c, id) ==
    LET t == [client |-> id, time |-> clock]
    IN  /\ row' = [row EXCEPT ![c] = id]
        /\ own' = [own EXCEPT ![c] = t]
        /\ token' = t
        /\ To(c, "exists?")

\* The account is found, or it is not, or there are two of it.
LoginSelect(c) ==
    /\ req[c].op = "login" /\ pc[c] = "account?"
    /\ \/ \E r \in Named(req[c].name) :
             /\ Named(req[c].name) = {r}
             /\ CreateToken(c, r.client)
             /\ db' = "undefined"
       \/ /\ Cardinality(Named(req[c].name)) # 1
          /\ RefuseLogin(c)
          /\ UNCHANGED db
    /\ UNCHANGED tables

TokenSelect(c) ==
    /\ req[c].op = "login" /\ pc[c] = "exists?"
    /\ \/ /\ Rows(own[c]) # {}
          /\ Answer(c, "success", token)
          /\ UNCHANGED db
       \/ /\ Rows(own[c]) = {}
          /\ To(c, "insert")
          /\ db' = "undefined"
    /\ UNCHANGED <<tables, token, row, own>>

\* A failing select is taken for an empty one.
TokenSelectFails(c) ==
    /\ req[c].op = "login" /\ pc[c] = "exists?"
    /\ To(c, "insert")
    /\ db' = "undefined"
    /\ UNCHANGED <<tables, token, row, own>>

\* Wrong on purpose, to see a property fail: the token is handed out unsaved.
TokenUnsaved(c) ==
    /\ req[c].op = "login" /\ pc[c] = "insert"
    /\ Answer(c, "success", token)
    /\ UNCHANGED <<tables, db, token, row, own>>

TokenInsert(c) ==
    /\ req[c].op = "login" /\ pc[c] = "insert"
    /\ clientToken' = clientToken \cup {[token |-> own[c], status |-> 0]}
    /\ Answer(c, "success", token)
    /\ UNCHANGED <<clientTables, supplierTables, db, token, row, own>>

-----------------------------------------------------------------------------
(* tokenRenew, tokenCheck, tokenDelete, logout *)

Retired(t) == (clientToken \ Rows(t)) \cup {[r EXCEPT !.status = 1] : r \in Rows(t)}

\* The query has no order: rows[0] is any row of the token.
RenewSelect(c) ==
    /\ req[c].op = "renew" /\ pc[c] = "token?"
    /\ \/ /\ \E r \in Rows(req[c].token) : r.status = 0
          /\ own' = [own EXCEPT ![c] = [client |-> req[c].token.client, time |-> clock]]
          /\ db' = "object"
          /\ To(c, "insert")
       \/ /\ \E r \in Rows(req[c].token) : r.status = 1
          /\ Answer(c, "refused", None)
          /\ UNCHANGED <<db, own>>
    /\ UNCHANGED <<tables, token, row>>

RenewInsert(c) ==
    /\ req[c].op = "renew" /\ pc[c] = "insert"
    /\ clientToken' = clientToken \cup {[token |-> own[c], status |-> 0]}
    /\ ThroughDb(c, "retire")
    /\ UNCHANGED <<clientTables, supplierTables, db, token, row, own>>

RenewRetire(c) ==
    /\ req[c].op = "renew" /\ pc[c] = "retire"
    /\ clientToken' = Retired(req[c].token)
    /\ Answer(c, "success", own[c])
    /\ UNCHANGED <<clientTables, supplierTables, db, token, row, own>>

\* A token that lives may still have expired.
Check(c) ==
    /\ req[c].op = "check" /\ pc[c] = "token?"
    /\ \/ Alive(req[c].token) /\ Answer(c, "success", None)
       \/ Answer(c, "refused", None)
    /\ UNCHANGED <<tables, db, token, row, own>>

EndToken(c) ==
    /\ req[c].op \in {"delete", "logout"} /\ pc[c] = "retire"
    /\ clientToken' = Retired(req[c].token)
    /\ Answer(c, "success", None)
    /\ UNCHANGED <<clientTables, supplierTables, db, token, row, own>>

-----------------------------------------------------------------------------
(* registerSupplier, whose db is a variable of its own *)

SupplierName(c) ==
    /\ req[c].op = "supplier" /\ pc[c] = "name?"
    /\ LET same == {r \in supplierInfo : r.name = req[c].name}
       IN  \/ \E r \in same : row' = [row EXCEPT ![c] = r.id]
           \/ same = {} /\ UNCHANGED row
    /\ To(c, "address?")
    /\ UNCHANGED <<tables, db, token, own>>

\* Wrong on purpose, to see a property fail: a known supplier may use any address.
AddressFree(c) ==
    row[c] # None \/ \A r \in supplierUsage : r.address # req[c].address

NewAddress(c) == \A r \in supplierUsage : r.address # req[c].address

SupplierAddress(c) ==
    /\ req[c].op = "supplier" /\ pc[c] = "address?"
    /\ IF NewAddress(c) THEN To(c, IF row[c] = None THEN "info" ELSE "usage")
                        ELSE Answer(c, "refused", None)
    /\ UNCHANGED <<tables, db, token, row, own>>

\* Wrong on purpose, to see a property fail: the next statement uses the global.
SupplierAddGlobal(c) ==
    /\ req[c].op = "supplier" /\ pc[c] = "info"
    /\ LET id == Cardinality(supplierInfo) + 1
       IN  /\ supplierInfo' = supplierInfo \cup {[id |-> id, name |-> req[c].name]}
           /\ row' = [row EXCEPT ![c] = id]
    /\ ThroughDb(c, "usage")
    /\ UNCHANGED <<clientTables, clientToken, supplierUsage, db, token, own>>

SupplierAdd(c) ==
    /\ req[c].op = "supplier" /\ pc[c] = "info"
    /\ LET id == Cardinality(supplierInfo) + 1
       IN  /\ supplierInfo' = supplierInfo \cup {[id |-> id, name |-> req[c].name]}
           /\ row' = [row EXCEPT ![c] = id]
    /\ To(c, "usage")
    /\ UNCHANGED <<clientTables, clientToken, supplierUsage, db, token, own>>

SupplierUsage(c) ==
    /\ req[c].op = "supplier" /\ pc[c] = "usage"
    /\ supplierUsage' = supplierUsage \cup {[id |-> row[c], address |-> req[c].address]}
    /\ Answer(c, "success", None)
    /\ UNCHANGED <<clientTables, clientToken, supplierInfo, db, token, row, own>>
-----------------------------------------------------------------------------
(* Statements that fail *)

\* registerClient, tokenCreate's insert, tokenDelete, logout and registerSupplier
\* report the error, as does the insert of tokenRenew.
Reports(c) ==
    \/ req[c].op \in {"register", "supplier", "delete", "logout"}
    \/ pc[c] = "insert"

\* login throws, tokenRenew and tokenCheck read the result that is not there; a
\* retirement that fails is reported as a success.
FailStatement(c) ==
    \/ /\ Reports(c)
       /\ Answer(c, "error", None)
    \/ /\ pc[c] = "account?" /\ req[c].op = "login"
       /\ Lose(c)
    \/ /\ pc[c] = "token?"
       /\ Lose(c)
    \/ /\ pc[c] = "retire" /\ req[c].op = "renew"
       /\ Answer(c, "success", own[c])

Fail(c) ==
    /\ Active(c) /\ faults < Faults
    /\ faults' = faults + 1
    /\ failed' = [failed EXCEPT ![c] = TRUE]
    /\ \/ FailStatement(c) /\ UNCHANGED <<tables, db, token, row, own>>
       \/ TokenSelectFails(c)
    /\ UNCHANGED <<clock, req, ended>>

-----------------------------------------------------------------------------

Step(c) ==
    /\ \/ RegisterSelect(c) \/ RegisterInfo(c) \/ RegisterAccount(c)
       \/ LoginSelect(c) \/ TokenSelect(c) \/ TokenInsert(c)
       \/ RenewSelect(c) \/ RenewInsert(c) \/ RenewRetire(c)
       \/ Check(c) \/ EndToken(c)
       \/ SupplierName(c) \/ SupplierAddress(c) \/ SupplierAdd(c) \/ SupplierUsage(c)
    /\ UNCHANGED <<clock, req, faults, failed, ended>>

Tick ==
    /\ clock < MaxTime
    /\ clock' = clock + 1
    /\ UNCHANGED <<tables, db, token, pc, req, row, own, answer, given, faults, failed, ended>>

\* Environment: any other command of the center leaves db in either state.
OtherCommand ==
    /\ db' \in {"object", "undefined"} \ {db}
    /\ UNCHANGED <<clock, tables, token, pc, req, row, own, answer, given, faults, failed, ended>>

Next ==
    \/ \E c \in Call, r \in Requests : Begin(c, r)
    \/ \E c \in Call : Step(c) \/ Fail(c)
    \/ Tick
    \/ OtherCommand

Spec == Init /\ [][Next]_vars

\* The database answers every statement.
FairSpec == Spec /\ \A c \in Call : WF_vars(Step(c))

-----------------------------------------------------------------------------
(* Properties *)

Succeeded(c, op) == pc[c] = "done" /\ req[c].op = op /\ answer[c] = "success"

\* Type invariant.
TypeOK ==
    /\ clock \in 0 .. MaxTime
    /\ clientInfo \subseteq Nat
    /\ \A r \in clientAccount : r.client \in clientInfo /\ r.name \in Name
    /\ \A r \in clientToken : r.token \in Token /\ r.status \in {0, 1}
    /\ \A r \in supplierUsage : r.address \in Address /\ \E s \in supplierInfo : s.id = r.id
    /\ db \in {"object", "undefined"}
    /\ token \in Token \cup {None}
    /\ row \in [Call -> Nat \cup {None}]
    /\ own \in [Call -> Token \cup {None}]
    /\ given \in [Call -> Token \cup {None}]
    /\ answer \in [Call -> {"none", "success", "repeat", "refused", "error", "lost"}]
    /\ failed \in [Call -> BOOLEAN]

\* A name has one account, which login relies on: it refuses a name with two
\* (login.js:31, registerClient.js:22-25).
UniqueAccount == \A r, s \in clientAccount : r.name = s.name => r = s

\* A client who was told "register success" has both rows, and a client without
\* an account is left only by a registration that is under way or that told its
\* client no success (registerClient.js:30-50): the two inserts are two statements,
\* and the second may be lost through db or fail.
RegisteredWhole ==
    /\ \A c \in Call : Succeeded(c, "register") =>
          [client |-> row[c], name |-> req[c].name] \in clientAccount
    /\ \A id \in clientInfo :
          \/ \E r \in clientAccount : r.client = id
          \/ \E c \in Call : /\ req[c].op = "register" /\ row[c] = id
                            /\ (Active(c) \/ answer[c] \in {"error", "lost"})

\* An address belongs to one machine and a name to one supplier, also when a
\* registration that failed half way is repeated (registerSupplier.js:88-119).
UniqueSupplier ==
    /\ \A r, s \in supplierUsage : r.address = s.address => r = s
    /\ \A r, s \in supplierInfo : r.name = s.name => r = s

\* A token that a login or a renewal handed out is good until somebody asks to end
\* it, whatever logins, renewals and deletions of other tokens run and fail in the
\* meantime (tokenCreate.js:32-78, tokenRenew.js:47-126).
TokenLives ==
    \A c \in Call : Succeeded(c, "login") \/ Succeeded(c, "renew") =>
        Alive(given[c]) \/ given[c] \in ended

\* A login answers with a token of the client who logged in (tokenCreate.js:36-66):
\* the session and every later request of the client use it.
LoginGetsOwn ==
    \A c \in Call : Succeeded(c, "login") => given[c].client = row[c]

\* Only registerClient and tokenRenew use db after waiting, so only they are lost
\* when no statement of theirs failed (registerClient.js:30, tokenRenew.js:119).
OthersAreAnswered ==
    \A c \in Call : answer[c] = "lost" /\ ~failed[c] =>
        req[c].op \in {"register", "renew"}

\* Every call ends: it is answered, or given up by an exception, and never waits
\* for good (login.js:26-63, Worker.js:66-83).
CallsEnd == \A c \in Call : Active(c) ~> pc[c] = "done"
=============================================================================
