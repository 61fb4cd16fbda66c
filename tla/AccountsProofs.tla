---------------------------- MODULE AccountsProofs ----------------------------
(***************************************************************************)
(* What the accounts keep for every number of calls, names and addresses,  *)
(* any number of failing statements and any clock.                         *)
(***************************************************************************)
EXTENDS Accounts, FiniteSetTheorems, TLAPS

\* Which statement a command may wait for.
Where(c) ==
    \/ req[c].op = "none" /\ pc[c] = "idle"
    \/ req[c].op = "register" /\ pc[c] \in {"account?", "info", "account", "done"}
    \/ req[c].op = "login" /\ pc[c] \in {"account?", "exists?", "insert", "done"}
    \/ req[c].op = "renew" /\ pc[c] \in {"token?", "insert", "retire", "done"}
    \/ req[c].op = "check" /\ pc[c] \in {"token?", "done"}
    \/ req[c].op \in {"delete", "logout"} /\ pc[c] \in {"retire", "done"}
    \/ req[c].op = "supplier" /\ pc[c] \in {"name?", "address?", "info", "usage", "done"}

\* What a request holds.
Asked(c) ==
    /\ req[c].op \in {"register", "login", "supplier"} => req[c].name \in Name
    /\ req[c].op = "supplier" => req[c].address \in Address
    /\ req[c].op \in {"renew", "check", "delete", "logout"} => req[c].token \in Token

\* What a command has found when it waits for a statement that uses it.
Found(c) ==
    /\ pc[c] = "idle" => answer[c] = "none"
    /\ req[c].op \in {"none", "register"} /\ pc[c] # "account" /\ pc[c] # "done" => row[c] = None
    /\ req[c].op = "register" /\ pc[c] = "account" => row[c] \in clientInfo
    /\ req[c].op = "login" /\ pc[c] \in {"exists?", "insert"} =>
          own[c] \in Token /\ token \in Token
    /\ req[c].op = "renew" /\ pc[c] \in {"insert", "retire"} => own[c] \in Token
    /\ req[c].op = "supplier" /\ row[c] # None => \E s \in supplierInfo : s.id = row[c]
    /\ req[c].op = "supplier" /\ pc[c] = "usage" => row[c] # None

Domains ==
    /\ DOMAIN pc = Call /\ DOMAIN req = Call
    /\ IsFiniteSet(clientInfo) /\ IsFiniteSet(supplierInfo)
    /\ \A r \in clientAccount : r \in [client : Nat, name : Name]
    /\ clientToken \subseteq [token : Token, status : {0, 1}]
    /\ supplierInfo \subseteq [id : Nat, name : Name]

\* The strengthening that makes the type invariant inductive.
Shape == TypeOK /\ Domains /\ \A c \in Call : Where(c) /\ Asked(c) /\ Found(c)

LEMMA ShapeInit == Init => Shape
<1> SUFFICES ASSUME Init PROVE Shape
  OBVIOUS
<1>1. clock \in 0 .. MaxTime
  BY AccountsAssumption DEF Init
<1>2. IsFiniteSet({}) /\ IsFiniteSet({1})
  BY FS_EmptySet, FS_Singleton
<1>3. TypeOK
  BY <1>1 DEF Init, TypeOK
<1>4. Domains
  BY <1>2 DEF Init, Domains
<1> QED
  BY <1>3, <1>4 DEF Init, Shape, Where, Asked, Found

\* A step of call c that touches only its own entries leaves the other calls as
\* they were.
Moves(c) ==
    /\ pc' = [pc EXCEPT ![c] = pc'[c]]
    /\ row' = [row EXCEPT ![c] = row'[c]]
    /\ own' = [own EXCEPT ![c] = own'[c]]
    /\ answer' = [answer EXCEPT ![c] = answer'[c]]
    /\ given' = [given EXCEPT ![c] = given'[c]]

LEMMA StepMoves ==
    ASSUME Shape, NEW c \in Call, Step(c)
    PROVE  Moves(c)
<1> USE DEF Shape, TypeOK, Domains, Moves, To, Answer, Lose, ThroughDb, CreateToken, RefuseLogin
<1>1. CASE RegisterSelect(c)
  BY <1>1 DEF RegisterSelect
<1>2. CASE RegisterInfo(c)
  BY <1>2 DEF RegisterInfo
<1>3. CASE RegisterAccount(c)
  BY <1>3 DEF RegisterAccount
<1>4. CASE LoginSelect(c)
  BY <1>4 DEF LoginSelect
<1>5. CASE TokenSelect(c)
  BY <1>5 DEF TokenSelect
<1>6. CASE TokenInsert(c)
  BY <1>6 DEF TokenInsert
<1>7. CASE RenewSelect(c)
  BY <1>7 DEF RenewSelect
<1>8. CASE RenewInsert(c)
  BY <1>8 DEF RenewInsert
<1>9. CASE RenewRetire(c)
  BY <1>9 DEF RenewRetire, Retired
<1>10. CASE Check(c)
  BY <1>10 DEF Check
<1>11. CASE EndToken(c)
  BY <1>11 DEF EndToken, Retired
<1>12. CASE SupplierName(c)
  BY <1>12 DEF SupplierName
<1>13. CASE SupplierAddress(c)
  BY <1>13 DEF SupplierAddress
<1>14. CASE SupplierAdd(c)
  BY <1>14 DEF SupplierAdd
<1>15. CASE SupplierUsage(c)
  BY <1>15 DEF SupplierUsage
<1> QED
  BY <1>1, <1>2, <1>3, <1>4, <1>5, <1>6, <1>7, <1>8, <1>9, <1>10, <1>11, <1>12, <1>13, <1>14, <1>15 DEF Step

LEMMA StepWhere ==
    ASSUME Shape, NEW c \in Call, Step(c)
    PROVE  Where(c)'
<1>100. req' = req
  BY DEF Step
<1> USE <1>100 DEF Shape, TypeOK, Domains, Where, To, Answer, Lose, ThroughDb, CreateToken, RefuseLogin
<1>1. CASE RegisterSelect(c)
  BY <1>1 DEF RegisterSelect
<1>2. CASE RegisterInfo(c)
  BY <1>2 DEF RegisterInfo
<1>3. CASE RegisterAccount(c)
  BY <1>3 DEF RegisterAccount
<1>4. CASE LoginSelect(c)
  BY <1>4 DEF LoginSelect
<1>5. CASE TokenSelect(c)
  BY <1>5 DEF TokenSelect
<1>6. CASE TokenInsert(c)
  BY <1>6 DEF TokenInsert
<1>7. CASE RenewSelect(c)
  BY <1>7 DEF RenewSelect
<1>8. CASE RenewInsert(c)
  BY <1>8 DEF RenewInsert
<1>9. CASE RenewRetire(c)
  BY <1>9 DEF RenewRetire, Retired
<1>10. CASE Check(c)
  BY <1>10 DEF Check
<1>11. CASE EndToken(c)
  BY <1>11 DEF EndToken, Retired
<1>12. CASE SupplierName(c)
  BY <1>12 DEF SupplierName
<1>13. CASE SupplierAddress(c)
  BY <1>13 DEF SupplierAddress
<1>14. CASE SupplierAdd(c)
  BY <1>14 DEF SupplierAdd
<1>15. CASE SupplierUsage(c)
  BY <1>15 DEF SupplierUsage
<1> QED
  BY <1>1, <1>2, <1>3, <1>4, <1>5, <1>6, <1>7, <1>8, <1>9, <1>10, <1>11, <1>12, <1>13, <1>14, <1>15 DEF Step

LEMMA StepValues ==
    ASSUME Shape, NEW c \in Call, Step(c)
    PROVE  /\ answer'[c] \in {"none", "success", "repeat", "refused", "error", "lost"}
           /\ given'[c] \in Token \cup {None}
           /\ row'[c] \in Nat \cup {None}
           /\ own'[c] \in Token \cup {None}
           /\ token' = token \/ token' \in Token
           /\ db' \in {"object", "undefined"}
<1> USE FS_CardinalityType DEF Shape, TypeOK, Domains, Token, Found, Where, Asked, To, Answer, Lose, ThroughDb, CreateToken, RefuseLogin, Named
<1>1. CASE RegisterSelect(c)
  BY <1>1 DEF RegisterSelect
<1>2. CASE RegisterInfo(c)
  BY <1>2 DEF RegisterInfo
<1>3. CASE RegisterAccount(c)
  BY <1>3 DEF RegisterAccount
<1>4. CASE LoginSelect(c)
  BY <1>4 DEF LoginSelect
<1>5. CASE TokenSelect(c)
  BY <1>5 DEF TokenSelect
<1>6. CASE TokenInsert(c)
  BY <1>6 DEF TokenInsert
<1>7. CASE RenewSelect(c)
  BY <1>7 DEF RenewSelect
<1>8. CASE RenewInsert(c)
  BY <1>8 DEF RenewInsert
<1>9. CASE RenewRetire(c)
  BY <1>9 DEF RenewRetire, Retired
<1>10. CASE Check(c)
  BY <1>10 DEF Check
<1>11. CASE EndToken(c)
  BY <1>11 DEF EndToken, Retired
<1>12. CASE SupplierName(c)
  BY <1>12 DEF SupplierName
<1>13. CASE SupplierAddress(c)
  BY <1>13 DEF SupplierAddress
<1>14. CASE SupplierAdd(c)
  BY <1>14 DEF SupplierAdd
<1>15. CASE SupplierUsage(c)
  BY <1>15 DEF SupplierUsage
<1> QED
  BY <1>1, <1>2, <1>3, <1>4, <1>5, <1>6, <1>7, <1>8, <1>9, <1>10, <1>11, <1>12, <1>13, <1>14, <1>15 DEF Step

LEMMA StepTables ==
    ASSUME Shape, NEW c \in Call, Step(c)
    PROVE  /\ clientInfo \subseteq clientInfo'
           /\ clientInfo' \subseteq Nat
           /\ IsFiniteSet(clientInfo')
           /\ \A r \in clientAccount' : r \in [client : Nat, name : Name] /\ r.client \in clientInfo'
           /\ clientToken' \subseteq [token : Token, status : {0, 1}]
           /\ supplierInfo \subseteq supplierInfo'
           /\ IsFiniteSet(supplierInfo') /\ supplierInfo' \subseteq [id : Nat, name : Name]
           /\ \A r \in supplierUsage' : r.address \in Address /\ \E x \in supplierInfo' : x.id = r.id
<1> DEFINE n == Cardinality(clientInfo) + 1
           k == Cardinality(supplierInfo) + 1
<1>100. n \in Nat /\ IsFiniteSet(clientInfo \cup {n})
  BY FS_CardinalityType, FS_AddElement DEF Shape, Domains
<1>101. k \in Nat /\ \A x : IsFiniteSet(supplierInfo \cup {x})
  BY FS_CardinalityType, FS_AddElement DEF Shape, Domains
<1> USE <1>100, <1>101 DEF Shape, TypeOK, Domains, tables, clientTables, supplierTables, Found, Where, Asked
<1>1. CASE RegisterSelect(c)
  BY <1>1 DEF RegisterSelect
<1>2. CASE RegisterInfo(c)
  BY <1>2 DEF RegisterInfo
<1>3. CASE RegisterAccount(c)
  <2>1. row[c] \in clientInfo /\ row[c] \in Nat /\ req[c].name \in Name
    BY <1>3 DEF RegisterAccount
  <2>2. /\ clientAccount' = clientAccount \cup {[client |-> row[c], name |-> req[c].name]}
        /\ UNCHANGED <<clientInfo, clientToken, supplierInfo, supplierUsage>>
    BY <1>3 DEF RegisterAccount
  <2>3. \A r \in clientAccount' : r \in [client : Nat, name : Name] /\ r.client \in clientInfo'
    BY <2>1, <2>2
  <2> QED
    BY <2>2, <2>3
<1>4. CASE LoginSelect(c)
  BY <1>4 DEF LoginSelect
<1>5. CASE TokenSelect(c)
  BY <1>5 DEF TokenSelect
<1>6. CASE TokenInsert(c)
  BY <1>6 DEF TokenInsert
<1>7. CASE RenewSelect(c)
  BY <1>7 DEF RenewSelect
<1>8. CASE RenewInsert(c)
  BY <1>8 DEF RenewInsert
<1>9. CASE RenewRetire(c)
  BY <1>9 DEF RenewRetire, Retired, Rows
<1>10. CASE Check(c)
  BY <1>10 DEF Check
<1>11. CASE EndToken(c)
  BY <1>11 DEF EndToken, Retired, Rows
<1>12. CASE SupplierName(c)
  BY <1>12 DEF SupplierName
<1>13. CASE SupplierAddress(c)
  BY <1>13 DEF SupplierAddress
<1>14. CASE SupplierAdd(c)
  <2>1. /\ [id |-> k, name |-> req[c].name] \in [id : Nat, name : Name]
        /\ supplierInfo' = supplierInfo \cup {[id |-> k, name |-> req[c].name]}
    BY <1>14 DEF SupplierAdd
  <2>2. UNCHANGED <<clientInfo, clientAccount, clientToken, supplierUsage>>
    BY <1>14 DEF SupplierAdd
  <2>3. \A r \in supplierUsage' : r.address \in Address /\ \E x \in supplierInfo' : x.id = r.id
    BY <2>1, <2>2
  <2> QED
    BY <2>1, <2>2, <2>3
<1>15. CASE SupplierUsage(c)
  BY <1>15 DEF SupplierUsage
<1> QED
  BY <1>1, <1>2, <1>3, <1>4, <1>5, <1>6, <1>7, <1>8, <1>9, <1>10, <1>11, <1>12, <1>13, <1>14, <1>15 DEF Step

LEMMA StepFound ==
    ASSUME Shape, NEW c \in Call, Step(c)
    PROVE  Found(c)'
<1>100. req' = req /\ Cardinality(clientInfo) + 1 \in Nat
  BY FS_CardinalityType DEF Step, Shape, Domains
<1> USE <1>100, AccountsAssumption DEF Shape, TypeOK, Domains, Where, Asked, Found, Token, Named,
    To, Answer, Lose, ThroughDb, CreateToken, RefuseLogin, tables, clientTables, supplierTables
<1>1. CASE RegisterSelect(c)
  BY <1>1 DEF RegisterSelect
<1>2. CASE RegisterInfo(c)
  BY <1>2 DEF RegisterInfo
<1>3. CASE RegisterAccount(c)
  BY <1>3 DEF RegisterAccount
<1>4. CASE LoginSelect(c)
  BY <1>4 DEF LoginSelect
<1>5. CASE TokenSelect(c)
  BY <1>5 DEF TokenSelect
<1>6. CASE TokenInsert(c)
  BY <1>6 DEF TokenInsert
<1>7. CASE RenewSelect(c)
  BY <1>7 DEF RenewSelect
<1>8. CASE RenewInsert(c)
  BY <1>8 DEF RenewInsert
<1>9. CASE RenewRetire(c)
  BY <1>9 DEF RenewRetire
<1>10. CASE Check(c)
  BY <1>10 DEF Check
<1>11. CASE EndToken(c)
  BY <1>11 DEF EndToken
<1>12. CASE SupplierName(c)
  BY <1>12 DEF SupplierName
<1>13. CASE SupplierAddress(c)
  BY <1>13 DEF SupplierAddress
<1>14. CASE SupplierAdd(c)
  <2>1. /\ row'[c] = Cardinality(supplierInfo) + 1
        /\ [id |-> Cardinality(supplierInfo) + 1, name |-> req[c].name] \in supplierInfo'
        /\ req[c].op = "supplier" /\ pc'[c] = "usage"
    BY <1>14 DEF SupplierAdd
  <2>2. \E s \in supplierInfo' : s.id = row'[c]
    BY <2>1
  <2>3. row'[c] # None
    BY <2>1, FS_CardinalityType
  <2> QED
    BY <2>1, <2>2, <2>3
<1>15. CASE SupplierUsage(c)
  BY <1>15 DEF SupplierUsage
<1> QED
  BY <1>1, <1>2, <1>3, <1>4, <1>5, <1>6, <1>7, <1>8, <1>9, <1>10, <1>11, <1>12, <1>13, <1>14, <1>15 DEF Step

LEMMA ShapeStep ==
    ASSUME Shape, NEW c \in Call, Step(c)
    PROVE  Shape'
<1>1. Moves(c) /\ Where(c)' /\ Found(c)'
  BY StepMoves, StepWhere, StepFound
<1>2. UNCHANGED <<clock, req, faults, failed, ended>>
  BY DEF Step
<1>3. ASSUME NEW d \in Call
      PROVE  Where(d)' /\ Asked(d)' /\ Found(d)'
  <2>1. Where(d) /\ Asked(d) /\ Found(d)
    BY DEF Shape
  <2>2. CASE d = c
    BY <1>1, <1>2, <2>1, <2>2 DEF Asked
  <2>3. CASE d # c
    <3>1. /\ clientInfo \subseteq clientInfo' /\ supplierInfo \subseteq supplierInfo'
          /\ token' = token \/ token' \in Token
      BY StepTables, StepValues
    <3>2. pc'[d] = pc[d] /\ row'[d] = row[d] /\ own'[d] = own[d] /\ answer'[d] = answer[d]
      BY <1>1, <2>3 DEF Shape, TypeOK, Domains, Moves
    <3> QED
      BY <1>2, <2>1, <3>1, <3>2 DEF Where, Asked, Found
  <2> QED
    BY <2>2, <2>3
<1>4. Domains'
  BY <1>1, <1>2, StepTables DEF Shape, Domains, Moves
<1>5. TypeOK'
  BY <1>1, <1>2, StepTables, StepValues DEF Shape, TypeOK, Domains, Moves
<1> QED
  BY <1>3, <1>4, <1>5 DEF Shape

LEMMA ShapeBegin ==
    ASSUME Shape, NEW c \in Call, NEW r \in Requests, Begin(c, r)
    PROVE  Shape'
<1>1. /\ pc[c] = "idle"
      /\ pc' = [pc EXCEPT ![c] = FirstStatement[r.op]]
      /\ req' = [req EXCEPT ![c] = r]
      /\ db' = DbOf(r.op)
      /\ UNCHANGED <<clock, tables, token, row, own, faults, failed, answer, given>>
  BY DEF Begin, To
<1>2. /\ r.op \in {"register", "login", "supplier", "renew", "check", "delete", "logout"}
      /\ r.op \in {"register", "login", "supplier"} => r.name \in Name
      /\ r.op = "supplier" => r.address \in Address
      /\ r.op \in {"renew", "check", "delete", "logout"} => r.token \in Token
  BY DEF Requests, Shape, Domains
<1>3. req'[c] = r /\ pc'[c] = FirstStatement[r.op] /\ Where(c)
  BY <1>1 DEF Shape, Domains
<1>4. db' \in {"object", "undefined"}
  BY <1>1, <1>2 DEF DbOf, Shape, TypeOK
<1>5. row[c] = None
  BY <1>1, <1>3 DEF Shape, Where, Found
<1>6. Where(c)' /\ Asked(c)' /\ Found(c)'
  BY <1>1, <1>2, <1>3, <1>5 DEF Where, Asked, Found, FirstStatement
<1>7. ASSUME NEW d \in Call, d # c
      PROVE  Where(d)' /\ Asked(d)' /\ Found(d)'
  <2>1. Where(d) /\ Asked(d) /\ Found(d)
    BY DEF Shape
  <2>2. pc'[d] = pc[d] /\ req'[d] = req[d]
    BY <1>1, <1>7 DEF Shape, Domains
  <2> QED
    BY <1>1, <2>1, <2>2 DEF Where, Asked, Found, tables, clientTables, supplierTables
<1>8. TypeOK' /\ Domains'
  BY <1>1, <1>4 DEF Shape, TypeOK, Domains, tables, clientTables, supplierTables
<1> QED
  BY <1>6, <1>7, <1>8 DEF Shape

LEMMA ShapeFail ==
    ASSUME Shape, NEW c \in Call, Fail(c)
    PROVE  Shape'
<1>1. UNCHANGED <<clock, tables, req, row, own, token, ended>>
  BY DEF Fail, TokenSelectFails
<1>2. /\ Moves(c) /\ Where(c)' /\ pc'[c] \in {"insert", "done"}
      /\ answer'[c] \in {"none", "success", "repeat", "refused", "error", "lost"}
      /\ given'[c] \in Token \cup {None}
      /\ pc'[c] = "insert" => req[c].op = "login" /\ pc[c] = "exists?"
  <2> USE DEF Shape, TypeOK, Domains, Moves, Where, Found
  <2>1. CASE FailStatement(c) /\ UNCHANGED <<tables, db, token, row, own>>
    <3>1. pc[c] \notin {"idle", "done"} /\ req' = req
      BY <1>1 DEF Fail, Active
    <3>2. \/ Answer(c, "error", None)
          \/ Answer(c, "lost", None)
          \/ Answer(c, "success", own[c])
      BY <2>1 DEF FailStatement, Lose
    <3> QED
      BY <2>1, <3>1, <3>2 DEF Answer
  <2>2. CASE TokenSelectFails(c)
    BY <1>1, <2>2 DEF TokenSelectFails, To
  <2> QED
    BY <2>1, <2>2 DEF Fail
<1>3. db' \in {"object", "undefined"} /\ failed' \in [Call -> BOOLEAN]
  BY DEF Fail, TokenSelectFails, Shape, TypeOK
<1>4. ASSUME NEW d \in Call
      PROVE  Where(d)' /\ Asked(d)' /\ Found(d)'
  <2>1. Where(d) /\ Asked(d) /\ Found(d)
    BY DEF Shape
  <2>2. CASE d = c
    BY <1>1, <1>2, <2>1, <2>2 DEF Asked, Found, Where, tables, clientTables, supplierTables
  <2>3. CASE d # c
    <3>1. pc'[d] = pc[d] /\ answer'[d] = answer[d]
      BY <1>2, <2>3 DEF Moves, Shape, TypeOK, Domains
    <3> QED
      BY <1>1, <2>1, <3>1 DEF Where, Asked, Found, tables, clientTables, supplierTables
  <2> QED
    BY <2>2, <2>3
<1>5. TypeOK' /\ Domains'
  BY <1>1, <1>2, <1>3 DEF Shape, TypeOK, Domains, Moves, tables, clientTables, supplierTables
<1> QED
  BY <1>4, <1>5 DEF Shape

LEMMA ShapeNext == Shape /\ [Next]_vars => Shape'
<1> SUFFICES ASSUME Shape, [Next]_vars PROVE Shape'
  OBVIOUS
<1>1. ASSUME NEW c \in Call, Step(c) \/ Fail(c) PROVE Shape'
  BY <1>1, ShapeStep, ShapeFail
<1>2. ASSUME NEW c \in Call, NEW r \in Requests, Begin(c, r) PROVE Shape'
  BY <1>2, ShapeBegin
<1> USE DEF Shape, TypeOK, Domains, Where, Asked, Found, tables, clientTables, supplierTables
<1>3. CASE Tick
  BY <1>3, AccountsAssumption DEF Tick
<1>4. CASE OtherCommand
  BY <1>4 DEF OtherCommand
<1>5. CASE UNCHANGED vars
  BY <1>5 DEF vars
<1> QED
  BY <1>1, <1>2, <1>3, <1>4, <1>5 DEF Next

\* The state of the accounts keeps its type, whatever fails and overlaps.
THEOREM AccountsTyped == Spec => []TypeOK
<1>1. Shape => TypeOK
  BY DEF Shape
<1> QED
  BY <1>1, ShapeInit, ShapeNext, PTL DEF Spec

-----------------------------------------------------------------------------
(* Calls one at a time, and who writes which table *)

OneAtATime ==
    \A c, d \in Call :
        /\ req[c].op \in Single /\ req[d].op = req[c].op
        /\ Active(c) /\ Active(d)
        => c = d

\* What Step, Fail and all other steps leave to a single call.
LEMMA StepFrame ==
    ASSUME Shape, NEW c \in Call, Step(c) \/ Fail(c)
    PROVE  /\ Active(c)
           /\ UNCHANGED <<req, ended>>
           /\ \A d \in Call \ {c} : /\ pc'[d] = pc[d] /\ row'[d] = row[d] /\ own'[d] = own[d]
                                     /\ answer'[d] = answer[d] /\ given'[d] = given[d]
                                     /\ failed'[d] = failed[d]
<1>1. CASE Step(c)
  <2>1. Active(c)
    BY <1>1 DEF Step, Active, RegisterSelect, RegisterInfo, RegisterAccount, LoginSelect,
       TokenSelect, TokenInsert, RenewSelect, RenewInsert, RenewRetire, Check, EndToken,
       SupplierName, SupplierAddress, SupplierAdd, SupplierUsage
  <2>2. UNCHANGED <<req, ended, failed>>
    BY <1>1 DEF Step
  <2> QED
    BY <1>1, <2>1, <2>2, StepMoves DEF Moves, Shape, TypeOK, Domains
<1>2. CASE Fail(c)
  <2> USE DEF Shape, TypeOK, Domains
  <2>1. CASE FailStatement(c) /\ UNCHANGED <<row, own>>
    BY <1>2, <2>1 DEF Fail, FailStatement, Answer, Lose
  <2>2. CASE TokenSelectFails(c)
    BY <1>2, <2>2 DEF Fail, TokenSelectFails, To
  <2> QED
    BY <1>2, <2>1, <2>2 DEF Fail
<1> QED
  BY <1>1, <1>2

LEMMA BeginFrame ==
    ASSUME Shape, NEW c \in Call, NEW r \in Requests, Begin(c, r)
    PROVE  /\ pc[c] = "idle" /\ Active(c)' /\ pc'[c] = FirstStatement[r.op]
           /\ req'[c] = r
           /\ \A d \in Call \ {c} : pc'[d] = pc[d] /\ req'[d] = req[d]
           /\ UNCHANGED <<tables, token, row, own, answer, given, failed>>
           /\ r.op \in Single => \A d \in Call : Active(d) => req[d].op # r.op
<1>1. r.op \in DOMAIN FirstStatement
  BY DEF Requests, FirstStatement
<1> QED
  BY <1>1 DEF Begin, To, Shape, Domains, Active, FirstStatement

LEMMA OtherFrame ==
    ASSUME Tick \/ OtherCommand \/ UNCHANGED vars
    PROVE  UNCHANGED <<tables, token, pc, req, row, own, answer, given, failed, ended>>
BY DEF Tick, OtherCommand, vars

LEMMA WhoWrites ==
    ASSUME NEW c \in Call, Step(c)
    PROVE  /\ clientInfo' = clientInfo \/ RegisterInfo(c)
           /\ clientAccount' = clientAccount \/ RegisterAccount(c)
           /\ \/ clientToken' = clientToken
              \/ TokenInsert(c) \/ RenewInsert(c) \/ RenewRetire(c) \/ EndToken(c)
           /\ supplierInfo' = supplierInfo \/ SupplierAdd(c)
           /\ supplierUsage' = supplierUsage \/ SupplierUsage(c)
BY DEF Step, RegisterSelect, RegisterInfo, RegisterAccount, LoginSelect,
   TokenSelect, TokenInsert, RenewSelect, RenewInsert, RenewRetire, Check, EndToken,
   SupplierName, SupplierAddress, SupplierAdd, SupplierUsage,
   tables, clientTables, supplierTables

LEMMA FailWritesNothing ==
    ASSUME NEW c \in Call, Fail(c)
    PROVE  UNCHANGED <<tables, token, row, own>>
BY DEF Fail, TokenSelectFails

LEMMA OneAtATimeNext == Shape /\ OneAtATime /\ [Next]_vars => OneAtATime'
<1> SUFFICES ASSUME Shape, OneAtATime, [Next]_vars PROVE OneAtATime'
  OBVIOUS
<1>1. ASSUME NEW c \in Call, Step(c) \/ Fail(c) PROVE OneAtATime'
  BY <1>1, StepFrame DEF OneAtATime, Active
<1>2. ASSUME NEW c \in Call, NEW r \in Requests, Begin(c, r) PROVE OneAtATime'
  BY <1>2, BeginFrame DEF OneAtATime, Active
<1>3. CASE Tick \/ OtherCommand \/ UNCHANGED vars
  BY <1>3, OtherFrame DEF OneAtATime, Active
<1> QED
  BY <1>1, <1>2, <1>3 DEF Next

-----------------------------------------------------------------------------
(* Accounts of clients *)

\* A registration that has looked for its name is the only one, so nobody takes
\* the name while it waits.
NameIsFree ==
    \A c \in Call :
        req[c].op = "register" /\ pc[c] \in {"info", "account"} => Named(req[c].name) = {}

UniqueInv == UniqueAccount /\ NameIsFree /\ OneAtATime /\ Shape

LEMMA UniqueStep ==
    ASSUME "register" \in Single, UniqueInv, NEW c \in Call, Step(c) \/ Fail(c)
    PROVE  UniqueAccount' /\ NameIsFree'
<1> USE DEF UniqueInv
<1>1. CASE RegisterAccount(c)
  <2>1. /\ req[c].op = "register" /\ pc[c] = "account" /\ pc'[c] = "done"
        /\ clientAccount' = clientAccount \cup {[client |-> row[c], name |-> req[c].name]}
    BY <1>1 DEF RegisterAccount, Answer, Shape, Domains
  <2>2. Named(req[c].name) = {}
    BY <2>1 DEF NameIsFree
  <2>3. UniqueAccount'
    BY <2>1, <2>2 DEF UniqueAccount, Named
  <2>4. \A d \in Call : req[d].op = "register" /\ Active(d) => d = c
    BY <2>1 DEF OneAtATime, Active
  <2>5. \A d \in Call : ~(req'[d].op = "register" /\ pc'[d] \in {"info", "account"})
    BY <2>1, <2>4, StepFrame DEF Active
  <2> QED
    BY <2>3, <2>5 DEF NameIsFree
<1>2. CASE clientAccount' = clientAccount
  <2>1. \A n \in Name : Named(n)' = Named(n)
    BY <1>2 DEF Named
  <2>2. ASSUME req[c].op = "register", pc'[c] \in {"info", "account"}
        PROVE  Named(req[c].name) = {}
    <3>1. Where(c) /\ Asked(c)
      BY DEF Shape
    <3>2. pc[c] \in {"info", "account"} \/ Named(req[c].name) = {}
      BY <1>2, <2>2, <3>1 DEF Where, Step, RegisterSelect, RegisterInfo, RegisterAccount, LoginSelect,
         TokenSelect, TokenInsert, RenewSelect, RenewInsert, RenewRetire, Check, EndToken,
         SupplierName, SupplierAddress, SupplierAdd, SupplierUsage, Fail, FailStatement,
         Reports, Answer, Lose, TokenSelectFails, Shape, Domains
    <3> QED
      BY <2>2, <3>2 DEF NameIsFree
  <2>3. NameIsFree'
    <3> SUFFICES ASSUME NEW d \in Call, req'[d].op = "register", pc'[d] \in {"info", "account"}
                 PROVE  Named(req[d].name) = {}
      BY <1>2, StepFrame DEF NameIsFree, Named
    <3> QED
      BY <2>2, StepFrame DEF NameIsFree
  <2> QED
    BY <1>2, <2>3 DEF UniqueAccount
<1> QED
  BY <1>1, <1>2, WhoWrites, FailWritesNothing DEF tables

LEMMA UniqueNext ==
    ASSUME "register" \in Single
    PROVE  UniqueInv /\ [Next]_vars => UniqueInv'
<1> SUFFICES ASSUME UniqueInv, [Next]_vars PROVE UniqueAccount' /\ NameIsFree'
  BY ShapeNext, OneAtATimeNext DEF UniqueInv
<1>1. ASSUME NEW c \in Call, Step(c) \/ Fail(c) PROVE UniqueAccount' /\ NameIsFree'
  BY <1>1, UniqueStep
<1>2. ASSUME NEW c \in Call, NEW r \in Requests, Begin(c, r) PROVE UniqueAccount' /\ NameIsFree'
  <2>1. r.op \in {"register", "login", "supplier", "renew", "check", "delete", "logout"}
    BY DEF Requests
  <2>2. pc'[c] \notin {"info", "account"}
    BY <1>2, <2>1, BeginFrame DEF UniqueInv, FirstStatement
  <2> QED
    BY <1>2, <2>2, BeginFrame DEF UniqueInv, UniqueAccount, NameIsFree, Named, tables
<1>3. CASE Tick \/ OtherCommand \/ UNCHANGED vars
  BY <1>3, OtherFrame DEF UniqueInv, UniqueAccount, NameIsFree, Named, tables
<1> QED
  BY <1>1, <1>2, <1>3 DEF Next

\* When registrations of clients do not overlap, a name has one account, which
\* login relies on: whatever other commands run, and whatever fails.
THEOREM OneAccountPerName ==
    ASSUME "register" \in Single
    PROVE  Spec => []UniqueAccount
<1>1. Init => UniqueInv
  BY ShapeInit DEF Init, UniqueInv, UniqueAccount, NameIsFree, OneAtATime, Active
<1>2. UniqueInv => UniqueAccount
  BY DEF UniqueInv
<1> QED
  BY <1>1, <1>2, UniqueNext, PTL DEF Spec

-----------------------------------------------------------------------------
(* Both rows of a client, and who may go without an answer *)

\* The call whose registration left a client without an account.
Behind(id, c) ==
    /\ req[c].op = "register" /\ row[c] = id
    /\ Active(c) \/ answer[c] \in {"error", "lost"}

LEMMA WholeStep ==
    ASSUME Shape, RegisteredWhole, NEW c \in Call, Step(c) \/ Fail(c)
    PROVE  RegisteredWhole'
<1>1. clientAccount \subseteq clientAccount'
  BY WhoWrites, FailWritesNothing DEF tables, RegisterAccount
<1>2. ASSUME NEW d \in Call, Succeeded(d, "register")'
      PROVE  [client |-> row'[d], name |-> req'[d].name] \in clientAccount'
  <2>1. CASE d # c
    BY <1>1, <1>2, <2>1, StepFrame DEF Succeeded, RegisteredWhole
  <2>2. CASE d = c
    <3>1. RegisterAccount(c)
      BY <1>2, <2>2, StepFrame, AccountsAssumption
      DEF Succeeded, Active, Step, RegisterSelect, RegisterInfo, RegisterAccount, LoginSelect,
         TokenSelect, TokenInsert, RenewSelect, RenewInsert, RenewRetire, Check, EndToken,
         SupplierName, SupplierAddress, SupplierAdd, SupplierUsage, Fail, FailStatement,
         To, ThroughDb, Answer, Lose, TokenSelectFails, Shape, TypeOK, Domains
    <3> QED
      BY <2>2, <3>1, StepFrame DEF RegisterAccount
  <2> QED
    BY <2>1, <2>2
<1>3. ASSUME NEW id \in clientInfo', \A r \in clientAccount' : r.client # id
      PROVE  \E d \in Call : Behind(id, d)'
  <2>1. CASE id \in clientInfo
    <3>1. PICK d \in Call : Behind(id, d)
      BY <1>1, <1>3, <2>1 DEF RegisteredWhole, Behind
    <3>2. CASE d # c
      BY <3>1, <3>2, StepFrame DEF Behind, Active
    <3>3. CASE d = c
      <4>1. req[c].op = "register" /\ row[c] = id /\ row[c] # None
        BY <2>1, <3>1, <3>3, AccountsAssumption DEF Behind, Shape, TypeOK
      <4>2. pc[c] = "account"
        BY <4>1, StepFrame DEF Shape, Found, Where, Active
      <4>3. CASE Fail(c)
        <5>1. FailStatement(c) /\ UNCHANGED row
          BY <4>1, <4>3 DEF Fail, TokenSelectFails
        <5>2. answer'[c] \in {"error", "lost"}
          BY <4>1, <4>2, <5>1 DEF FailStatement, Answer, Lose, Shape, TypeOK
        <5> QED
          BY <3>3, <4>1, <5>1, <5>2, StepFrame DEF Behind
      <4>4. CASE Step(c)
        <5>1. RegisterAccount(c)
          BY <4>1, <4>2, <4>4
          DEF Step, RegisterSelect, RegisterInfo, RegisterAccount, LoginSelect,
              TokenSelect, TokenInsert, RenewSelect, RenewInsert, RenewRetire, Check, EndToken,
              SupplierName, SupplierAddress, SupplierAdd, SupplierUsage
        <5>2. [client |-> id, name |-> req[c].name] \in clientAccount'
          BY <4>1, <5>1 DEF RegisterAccount
        <5> QED
          BY <1>3, <5>2
      <4> QED
        BY <4>3, <4>4
    <3> QED
      BY <3>2, <3>3
  <2>2. CASE id \notin clientInfo
    <3>1. RegisterInfo(c)
      BY <1>3, <2>2, WhoWrites, FailWritesNothing DEF tables
    <3>2. req'[c].op = "register" /\ row'[c] = id
      BY <1>3, <2>2, <3>1, StepFrame DEF RegisterInfo, Shape, TypeOK
    <3>3. pc'[c] = "account" \/ answer'[c] = "lost"
      BY <3>1 DEF RegisterInfo, ThroughDb, Lose, Answer, To, Shape, TypeOK, Domains
    <3> QED
      BY <3>2, <3>3 DEF Behind, Active
  <2> QED
    BY <2>1, <2>2
<1> QED
  BY <1>2, <1>3 DEF RegisteredWhole, Behind

LEMMA WholeNext == Shape /\ RegisteredWhole /\ [Next]_vars => RegisteredWhole'
<1> SUFFICES ASSUME Shape, RegisteredWhole, [Next]_vars PROVE RegisteredWhole'
  OBVIOUS
<1>1. ASSUME NEW c \in Call, NEW r \in Requests, Begin(c, r) PROVE RegisteredWhole'
  <2>1. \A d \in Call : ~Succeeded(c, "register") /\ ~Succeeded(c, "register")'
    BY <1>1, BeginFrame DEF Succeeded, Active
  <2>2. row[c] = None /\ \A id \in clientInfo : id # None
    <3>1. pc[c] = "idle" /\ Where(c) /\ Found(c)
      BY <1>1, BeginFrame DEF Shape
    <3>2. row[c] = None
      BY <3>1 DEF Where, Found
    <3> QED
      BY <3>2, AccountsAssumption DEF Shape, TypeOK
  <2>3. /\ \A d \in Call \ {c} : pc'[d] = pc[d] /\ req'[d] = req[d]
        /\ UNCHANGED <<clientInfo, clientAccount, row, answer>>
    BY <1>1, BeginFrame DEF tables
  <2>4. ASSUME NEW d \in Call, Succeeded(d, "register")'
        PROVE  [client |-> row'[d], name |-> req'[d].name] \in clientAccount'
    BY <2>1, <2>3, <2>4 DEF Succeeded, RegisteredWhole
  <2>5. ASSUME NEW id \in clientInfo', NEW d \in Call, Behind(id, d)
        PROVE  Behind(id, d)'
    BY <2>2, <2>3, <2>5 DEF Behind, Active
  <2> QED
    BY <2>3, <2>4, <2>5 DEF RegisteredWhole, Behind
<1>2. CASE Tick \/ OtherCommand \/ UNCHANGED vars
  BY <1>2, OtherFrame DEF RegisteredWhole, Succeeded, Active, tables
<1> QED
  BY <1>1, <1>2, WholeStep DEF Next

\* A client who was told "register success" has both rows, and a client without an
\* account has a registration behind it that has not succeeded, whoever sets db
\* and whatever fails between the two inserts.
THEOREM RegistrationIsWhole == Spec => []RegisteredWhole
<1>1. Init => RegisteredWhole
  BY DEF Init, RegisteredWhole, Succeeded
<1> QED
  BY <1>1, ShapeInit, ShapeNext, WholeNext, PTL DEF Spec

\* Only the two commands that use db after waiting can be lost without a failing
\* statement of their own.
THEOREM OnlyDbLosesAnswers == Spec => []OthersAreAnswered
<1>1. Init => OthersAreAnswered
  BY DEF Init, OthersAreAnswered
<1>2. Shape /\ OthersAreAnswered /\ [Next]_vars => OthersAreAnswered'
  <2> SUFFICES ASSUME Shape, OthersAreAnswered, [Next]_vars PROVE OthersAreAnswered'
    OBVIOUS
  <2>1. ASSUME NEW c \in Call, Step(c) PROVE OthersAreAnswered'
    <3>1. answer'[c] = "lost" => answer[c] = "lost" \/ req[c].op \in {"register", "renew"}
      BY <2>1 DEF Step, RegisterSelect, RegisterInfo, RegisterAccount, LoginSelect,
         TokenSelect, TokenInsert, RenewSelect, RenewInsert, RenewRetire, Check, EndToken,
         SupplierName, SupplierAddress, SupplierAdd, SupplierUsage, To, Answer,
         CreateToken, RefuseLogin, Shape, TypeOK
    <3>2. failed' = failed
      BY <2>1 DEF Step
    <3> QED
      BY <2>1, <3>1, <3>2, StepFrame DEF OthersAreAnswered
  <2>2. ASSUME NEW c \in Call, Fail(c) PROVE OthersAreAnswered'
    <3>1. failed'[c]
      BY <2>2 DEF Fail, Shape, TypeOK
    <3> QED
      BY <2>2, <3>1, StepFrame DEF OthersAreAnswered
  <2>3. ASSUME NEW c \in Call, NEW r \in Requests, Begin(c, r) PROVE OthersAreAnswered'
    <3>1. answer[c] # "lost"
      BY <2>3, BeginFrame DEF Shape, Where, Found
    <3> QED
      BY <2>3, <3>1, BeginFrame DEF OthersAreAnswered
  <2>4. CASE Tick \/ OtherCommand \/ UNCHANGED vars
    BY <2>4, OtherFrame DEF OthersAreAnswered
  <2> QED
    BY <2>1, <2>2, <2>3, <2>4 DEF Next
<1> QED
  BY <1>1, <1>2, ShapeInit, ShapeNext, PTL DEF Spec

-----------------------------------------------------------------------------
(* Suppliers *)

\* What a registration has found out stays true while it waits, for it is the
\* only one.
StillFree ==
    \A c \in Call : req[c].op = "supplier" =>
        /\ pc[c] \in {"address?", "info"} /\ row[c] = None =>
              \A s \in supplierInfo : s.name # req[c].name
        /\ pc[c] = "info" => row[c] = None
        /\ pc[c] \in {"info", "usage"} =>
              \A u \in supplierUsage : u.address # req[c].address

SupplierInv == UniqueSupplier /\ StillFree /\ OneAtATime /\ Shape

LEMMA SupplierStep ==
    ASSUME "supplier" \in Single, SupplierInv, NEW c \in Call, Step(c) \/ Fail(c)
    PROVE  UniqueSupplier' /\ StillFree'
<1> USE DEF SupplierInv
<1>1. CASE SupplierAdd(c)
  <2>1. /\ req[c].op = "supplier" /\ pc[c] = "info" /\ pc'[c] = "usage"
        /\ UNCHANGED supplierUsage
    BY <1>1 DEF SupplierAdd, To, Shape, Domains
  <2>2. /\ row[c] = None /\ \A s \in supplierInfo : s.name # req[c].name
        /\ \A u \in supplierUsage : u.address # req[c].address
    BY <2>1 DEF StillFree
  <2>3. supplierInfo' = supplierInfo \cup
                          {[id |-> Cardinality(supplierInfo) + 1, name |-> req[c].name]}
    BY <1>1 DEF SupplierAdd
  <2>4. \A d \in Call : req[d].op = "supplier" /\ Active(d) => d = c
    BY <2>1 DEF OneAtATime, Active
  <2>5. UniqueSupplier'
    BY <2>1, <2>2, <2>3 DEF UniqueSupplier
  <2> QED
    BY <2>1, <2>2, <2>4, <2>5, StepFrame DEF StillFree, Active
<1>2. CASE SupplierUsage(c)
  <2>1. /\ req[c].op = "supplier" /\ pc[c] = "usage" /\ pc'[c] = "done"
        /\ UNCHANGED supplierInfo
    BY <1>2 DEF SupplierUsage, Answer, Shape, Domains
  <2>2. \A u \in supplierUsage : u.address # req[c].address
    BY <2>1 DEF StillFree
  <2>3. supplierUsage' = supplierUsage \cup {[id |-> row[c], address |-> req[c].address]}
    BY <1>2 DEF SupplierUsage
  <2>4. \A d \in Call : req[d].op = "supplier" /\ Active(d) => d = c
    BY <2>1 DEF OneAtATime, Active
  <2>5. UniqueSupplier'
    BY <2>1, <2>2, <2>3 DEF UniqueSupplier
  <2> QED
    BY <2>1, <2>4, <2>5, StepFrame DEF StillFree, Active
<1>3. CASE supplierInfo' = supplierInfo /\ supplierUsage' = supplierUsage
  <2>1. ASSUME req[c].op = "supplier"
        PROVE  /\ pc'[c] \in {"address?", "info"} /\ row'[c] = None =>
                     \A s \in supplierInfo : s.name # req[c].name
               /\ pc'[c] = "info" => row'[c] = None
               /\ pc'[c] \in {"info", "usage"} =>
                     \A u \in supplierUsage : u.address # req[c].address
    <3>1. CASE SupplierName(c)
      <4>1. pc'[c] = "address?"
        BY <3>1 DEF SupplierName, To, Shape, Domains
      <4>2. row'[c] = None => \A s \in supplierInfo : s.name # req[c].name
        BY <3>1, AccountsAssumption DEF SupplierName, Shape, TypeOK, Domains
      <4> QED
        BY <4>1, <4>2
    <3>2. CASE SupplierAddress(c)
      BY <2>1, <3>2 DEF SupplierAddress, NewAddress, To, Answer, StillFree, Shape, Domains
    <3>3. CASE SupplierAdd(c) \/ SupplierUsage(c)
      BY <1>1, <1>2, <1>3, <2>1, <3>3, StepFrame DEF StillFree
    <3>4. CASE Fail(c)
      BY <2>1, <3>4 DEF Fail, FailStatement, TokenSelectFails, Answer, Lose, Shape, Domains
    <3> QED
      BY <2>1, <3>1, <3>2, <3>3, <3>4
      DEF Step, RegisterSelect, RegisterInfo, RegisterAccount, LoginSelect, TokenSelect,
          TokenInsert, RenewSelect, RenewInsert, RenewRetire, Check, EndToken
  <2>2. \A d \in Call \ {c} : pc'[d] = pc[d] /\ row'[d] = row[d]
    BY StepFrame
  <2> QED
    BY <1>3, <2>1, <2>2, StepFrame DEF UniqueSupplier, StillFree
<1>4. CASE Fail(c)
  BY <1>3, <1>4, FailWritesNothing DEF tables, supplierTables
<1>5. CASE Step(c) /\ ~SupplierAdd(c) /\ ~SupplierUsage(c)
  BY <1>3, <1>5, WhoWrites
<1> QED
  BY <1>1, <1>2, <1>4, <1>5

LEMMA SupplierNext ==
    ASSUME "supplier" \in Single
    PROVE  SupplierInv /\ [Next]_vars => SupplierInv'
<1> SUFFICES ASSUME SupplierInv, [Next]_vars PROVE UniqueSupplier' /\ StillFree'
  BY ShapeNext, OneAtATimeNext DEF SupplierInv
<1>1. ASSUME NEW c \in Call, NEW r \in Requests, Begin(c, r) PROVE UniqueSupplier' /\ StillFree'
  <2>1. r.op \in {"register", "login", "supplier", "renew", "check", "delete", "logout"}
    BY DEF Requests
  <2>2. pc'[c] \notin {"address?", "info", "usage"}
    BY <1>1, <2>1, BeginFrame DEF SupplierInv, FirstStatement
  <2> QED
    BY <1>1, <2>2, BeginFrame DEF SupplierInv, UniqueSupplier, StillFree, tables, supplierTables
<1>2. CASE Tick \/ OtherCommand \/ UNCHANGED vars
  BY <1>2, OtherFrame DEF SupplierInv, UniqueSupplier, StillFree, tables, supplierTables
<1> QED
  BY <1>1, <1>2, SupplierStep DEF Next

\* When registrations of suppliers do not overlap, an address belongs to one
\* machine and a name to one supplier, also when one of them failed half way and
\* is made again.
THEOREM OneSupplierPerAddress ==
    ASSUME "supplier" \in Single
    PROVE  Spec => []UniqueSupplier
<1>1. Init => SupplierInv
  BY ShapeInit DEF Init, SupplierInv, UniqueSupplier, StillFree, OneAtATime, Active
<1>2. SupplierInv => UniqueSupplier
  BY DEF SupplierInv
<1> QED
  BY <1>1, <1>2, SupplierNext, PTL DEF Spec

-----------------------------------------------------------------------------
(* Tokens *)

\* A login that waits holds a token of its client, and the global is still that
\* token, for it is the only login.
HoldsOwn ==
    \A c \in Call : req[c].op = "login" /\ pc[c] \in {"exists?", "insert"} =>
        own[c].client = row[c] /\ token = own[c]

LoginInv == HoldsOwn /\ LoginGetsOwn /\ OneAtATime /\ Shape

LEMMA TokenIsSetByLogin ==
    ASSUME Shape, NEW c \in Call, Step(c) \/ Fail(c)
    PROVE  \/ token' = token
           \/ /\ req[c].op = "login" /\ pc[c] = "account?" /\ pc'[c] = "exists?"
              /\ own'[c].client = row'[c] /\ token' = own'[c]
<1>1. CASE LoginSelect(c)
  BY <1>1 DEF LoginSelect, CreateToken, RefuseLogin, To, Shape, TypeOK, Domains
<1>2. CASE Fail(c)
  BY <1>2, FailWritesNothing
<1> QED
  BY <1>1, <1>2 DEF Step, RegisterSelect, RegisterInfo, RegisterAccount,
     TokenSelect, TokenInsert, RenewSelect, RenewInsert, RenewRetire, Check, EndToken,
     SupplierName, SupplierAddress, SupplierAdd, SupplierUsage

\* How a login moves: to its first statement of tokenCreate with a token it has
\* just made, on to the insert, or to its end.
LEMMA LoginMoves ==
    ASSUME Shape, NEW c \in Call, Step(c) \/ Fail(c), req[c].op = "login"
    PROVE  \/ /\ pc[c] = "account?" /\ pc'[c] = "exists?"
              /\ own'[c].client = row'[c] /\ token' = own'[c]
           \/ /\ pc[c] = "exists?" /\ pc'[c] = "insert"
              /\ UNCHANGED <<tables, token>> /\ own'[c] = own[c] /\ row'[c] = row[c]
           \/ pc'[c] = "done" /\ answer'[c] # "success"
           \/ /\ pc[c] = "exists?" /\ pc'[c] = "done" /\ Rows(own[c]) # {}
              /\ given'[c] = token /\ row'[c] = row[c]
           \/ /\ pc[c] = "insert" /\ pc'[c] = "done" /\ TokenInsert(c)
              /\ given'[c] = token /\ row'[c] = row[c]
<1> USE DEF Shape, TypeOK, Domains
<1>1. CASE LoginSelect(c)
  BY <1>1 DEF LoginSelect, CreateToken, RefuseLogin, To, Answer
<1>2. CASE TokenSelect(c)
  BY <1>2 DEF TokenSelect, To, Answer
<1>3. CASE TokenInsert(c)
  BY <1>3 DEF TokenInsert, To, Answer
<1>4. CASE Fail(c)
  <2>1. CASE FailStatement(c)
    <3>1. Answer(c, "error", None) \/ Lose(c)
      BY <2>1 DEF FailStatement
    <3> QED
      BY <3>1 DEF Answer, Lose
  <2>2. CASE TokenSelectFails(c)
    BY <2>2 DEF TokenSelectFails, To
  <2> QED
    BY <1>4, <2>1, <2>2 DEF Fail
<1> QED
  BY <1>1, <1>2, <1>3, <1>4 DEF Step, RegisterSelect, RegisterInfo, RegisterAccount,
     RenewSelect, RenewInsert, RenewRetire, Check, EndToken,
     SupplierName, SupplierAddress, SupplierAdd, SupplierUsage

LEMMA LoginStep ==
    ASSUME "login" \in Single, LoginInv, NEW c \in Call, Step(c) \/ Fail(c)
    PROVE  HoldsOwn' /\ LoginGetsOwn'
<1> USE DEF LoginInv
<1>1. ASSUME NEW d \in Call, d # c
      PROVE  /\ UNCHANGED <<pc[d], req[d], row[d], own[d], answer[d], given[d]>>
             /\ req[d].op = "login" /\ pc[d] \in {"exists?", "insert"} => token' = token
  <2>1. UNCHANGED <<pc[d], req[d], row[d], own[d], answer[d], given[d]>>
    BY <1>1, StepFrame
  <2>2. ASSUME req[d].op = "login", pc[d] \in {"exists?", "insert"}, token' # token
        PROVE  FALSE
    <3>1. req[c].op = "login" /\ Active(c) /\ Active(d)
      BY <2>2, TokenIsSetByLogin, StepFrame DEF Active
    <3> QED
      BY <1>1, <2>2, <3>1 DEF OneAtATime
  <2> QED
    BY <2>1, <2>2
<1>2. CASE req[c].op = "login"
  <2>1. pc'[c] \in {"exists?", "insert"} => own'[c].client = row'[c] /\ token' = own'[c]
    BY <1>2, LoginMoves DEF HoldsOwn
  <2>2. pc'[c] = "done" /\ answer'[c] = "success" => given'[c].client = row'[c]
    BY <1>2, LoginMoves DEF HoldsOwn
  <2> QED
    BY <1>1, <1>2, <2>1, <2>2, StepFrame DEF HoldsOwn, LoginGetsOwn, Succeeded
<1>3. CASE req[c].op # "login"
  BY <1>1, <1>3, StepFrame DEF HoldsOwn, LoginGetsOwn, Succeeded
<1> QED
  BY <1>2, <1>3

LEMMA LoginNext ==
    ASSUME "login" \in Single
    PROVE  LoginInv /\ [Next]_vars => LoginInv'
<1> SUFFICES ASSUME LoginInv, [Next]_vars PROVE HoldsOwn' /\ LoginGetsOwn'
  BY ShapeNext, OneAtATimeNext DEF LoginInv
<1>1. ASSUME NEW c \in Call, NEW r \in Requests, Begin(c, r) PROVE HoldsOwn' /\ LoginGetsOwn'
  <2>1. r.op \in {"register", "login", "supplier", "renew", "check", "delete", "logout"}
    BY DEF Requests
  <2>2. pc'[c] \notin {"exists?", "insert", "done"}
    BY <1>1, <2>1, BeginFrame DEF LoginInv, FirstStatement
  <2> QED
    BY <1>1, <2>2, BeginFrame DEF LoginInv, HoldsOwn, LoginGetsOwn, Succeeded
<1>2. CASE Tick \/ OtherCommand \/ UNCHANGED vars
  BY <1>2, OtherFrame DEF LoginInv, HoldsOwn, LoginGetsOwn, Succeeded
<1> QED
  BY <1>1, <1>2, LoginStep DEF Next

\* When logins do not overlap, a login answers with a token of the client who
\* logged in, although the token in the answer is read from a global.
THEOREM LoginsGetTheirOwn ==
    ASSUME "login" \in Single
    PROVE  Spec => []LoginGetsOwn
<1>1. Init => LoginInv
  BY ShapeInit DEF Init, LoginInv, HoldsOwn, LoginGetsOwn, Succeeded, OneAtATime, Active
<1>2. LoginInv => LoginGetsOwn
  BY DEF LoginInv
<1> QED
  BY <1>1, <1>2, LoginNext, PTL DEF Spec

\* A token that is in the table, or that somebody asked to end.
Kept(t) == Alive(t) \/ t \in ended

\* Only requests end tokens, and a renewal has saved its new token before it
\* retires the old one.
EndedOnRequest ==
    /\ \A r \in clientToken : r.status = 1 => r.token \in ended
    /\ \A c \in Call : req[c].op \in {"renew", "delete", "logout"} => req[c].token \in ended
    /\ \A c \in Call : req[c].op = "renew" /\ pc[c] = "retire" => Kept(own[c])

TokenInv == EndedOnRequest /\ TokenLives /\ LoginInv

LEMMA RetiredKeeps ==
    ASSUME NEW t, NEW u, Alive(u), clientToken' = Retired(t), t # u
    PROVE  Alive(u)'
BY DEF Alive, Retired, Rows

\* No step takes a token away that nobody asked to end.
LEMMA KeptStays ==
    ASSUME Shape, EndedOnRequest, NEW c \in Call, Step(c) \/ Fail(c), NEW t, Kept(t)
    PROVE  Kept(t)'
<1>1. ended' = ended
  BY StepFrame
<1>2. CASE clientToken \subseteq clientToken'
  BY <1>1, <1>2 DEF Kept, Alive
<1>3. CASE RenewRetire(c) \/ EndToken(c)
  <2>1. clientToken' = Retired(req[c].token) /\ req[c].token \in ended
    BY <1>3 DEF RenewRetire, EndToken, EndedOnRequest
  <2> QED
    BY <1>1, <2>1, RetiredKeeps DEF Kept
<1> QED
  BY <1>2, <1>3, WhoWrites, FailWritesNothing DEF TokenInsert, RenewInsert, tables

\* How a renewal moves.
LEMMA RenewMoves ==
    ASSUME Shape, NEW c \in Call, Step(c) \/ Fail(c), req[c].op = "renew"
    PROVE  /\ pc'[c] = "retire" => RenewInsert(c) /\ own'[c] = own[c]
           /\ pc'[c] = "done" /\ answer'[c] = "success" =>
                 pc[c] = "retire" /\ given'[c] = own[c]
<1> USE DEF Shape, TypeOK, Domains
<1>1. CASE RenewSelect(c)
  BY <1>1 DEF RenewSelect, To, Answer
<1>2. CASE RenewInsert(c)
  BY <1>2 DEF RenewInsert, ThroughDb, To, Lose, Answer
<1>3. CASE RenewRetire(c)
  BY <1>3 DEF RenewRetire, To, Answer
<1>4. CASE Fail(c)
  <2>1. \/ Answer(c, "error", None)
        \/ Lose(c)
        \/ pc[c] = "retire" /\ Answer(c, "success", own[c])
    BY <1>4 DEF Fail, FailStatement, TokenSelectFails
  <2> QED
    BY <2>1 DEF Answer, Lose
<1> QED
  BY <1>1, <1>2, <1>3, <1>4 DEF Step, RegisterSelect, RegisterInfo, RegisterAccount, LoginSelect,
     TokenSelect, TokenInsert, Check, EndToken,
     SupplierName, SupplierAddress, SupplierAdd, SupplierUsage

LEMMA TokenStep ==
    ASSUME "login" \in Single, TokenInv, NEW c \in Call, Step(c) \/ Fail(c)
    PROVE  EndedOnRequest' /\ TokenLives'
<1> USE DEF TokenInv, LoginInv
<1>1. \A t : Kept(t) => Kept(t)'
  BY KeptStays
<1>2. \A r \in clientToken' : r.status = 1 => r.token \in ended'
  <2>1. CASE RenewRetire(c) \/ EndToken(c)
    <3>1. clientToken' = Retired(req[c].token) /\ req[c].token \in ended
      BY <2>1 DEF RenewRetire, EndToken, EndedOnRequest
    <3>2. \A r \in Rows(req[c].token) : [r EXCEPT !.status = 1].token = req[c].token
      BY DEF Rows, Shape, Domains
    <3>3. ASSUME NEW r \in Retired(req[c].token), r.status = 1
          PROVE  r.token \in ended
      BY <3>1, <3>2, <3>3 DEF Retired, EndedOnRequest
    <3> QED
      BY <3>1, <3>3, StepFrame
  <2>2. CASE TokenInsert(c) \/ RenewInsert(c)
    BY <2>2, StepFrame DEF TokenInsert, RenewInsert, EndedOnRequest
  <2> QED
    BY <2>1, <2>2, WhoWrites, FailWritesNothing, StepFrame DEF EndedOnRequest, tables
<1>3. ASSUME RenewInsert(c) \/ TokenInsert(c)
      PROVE  Kept(own[c])'
  <2>1. [token |-> own[c], status |-> 0] \in clientToken' /\ own' = own
    BY <1>3 DEF RenewInsert, TokenInsert
  <2> QED
    BY <2>1 DEF Kept, Alive
<1>4. EndedOnRequest'
  <2>1. \A d \in Call : req'[d].op \in {"renew", "delete", "logout"} => req'[d].token \in ended'
    BY StepFrame DEF EndedOnRequest
  <2>2. ASSUME NEW d \in Call, req'[d].op = "renew", pc'[d] = "retire"
        PROVE  Kept(own[d])'
    <3>1. CASE d = c
      BY <1>3, <2>2, <3>1, RenewMoves, StepFrame
    <3>2. CASE d # c
      <4>1. own'[d] = own[d] /\ Kept(own[d])
        BY <2>2, <3>2, StepFrame DEF EndedOnRequest
      <4> QED
        BY <1>1, <4>1 DEF Kept, Alive
    <3> QED
      BY <3>1, <3>2
  <2> QED
    BY <1>2, <2>1, <2>2 DEF EndedOnRequest
<1>5. ASSUME NEW d \in Call, (Succeeded(d, "login") \/ Succeeded(d, "renew"))'
      PROVE  Kept(given[d])'
  <2>1. CASE d # c
    <3>1. given'[d] = given[d] /\ Kept(given[d])
      BY <1>5, <2>1, StepFrame DEF Succeeded, TokenLives, Kept
    <3> QED
      BY <1>1, <3>1 DEF Kept, Alive
  <2>2. CASE d = c /\ req[c].op = "renew"
    <3>1. Kept(own[c]) /\ given'[c] = own[c]
      BY <1>5, <2>2, RenewMoves, StepFrame DEF Succeeded, EndedOnRequest
    <3> QED
      BY <1>1, <2>2, <3>1 DEF Kept, Alive
  <2>3. CASE d = c /\ req[c].op = "login"
    <3>1. /\ given'[c] = own[c]
          /\ (pc[c] = "exists?" /\ Rows(own[c]) # {}) \/ TokenInsert(c)
      BY <1>5, <2>3, LoginMoves, StepFrame DEF Succeeded, HoldsOwn
    <3>2. Rows(own[c]) # {} => Kept(own[c])
      BY DEF Rows, Kept, Alive, EndedOnRequest, Shape, Domains
    <3>3. CASE TokenInsert(c)
      <4>1. own' = own
        BY <3>3 DEF TokenInsert
      <4> QED
        BY <1>3, <2>3, <3>1, <3>3, <4>1 DEF Kept, Alive
    <3>4. CASE Rows(own[c]) # {}
      BY <1>1, <2>3, <3>1, <3>2, <3>4 DEF Kept, Alive
    <3> QED
      BY <3>1, <3>3, <3>4
  <2> QED
    BY <1>5, <2>1, <2>2, <2>3, StepFrame DEF Succeeded
<1> QED
  BY <1>4, <1>5 DEF TokenLives, Kept

LEMMA TokenNext ==
    ASSUME "login" \in Single
    PROVE  TokenInv /\ [Next]_vars => TokenInv'
<1> SUFFICES ASSUME TokenInv, [Next]_vars PROVE EndedOnRequest' /\ TokenLives'
  BY LoginNext DEF TokenInv
<1> USE DEF TokenInv, LoginInv
<1>1. ASSUME NEW c \in Call, NEW r \in Requests, Begin(c, r) PROVE EndedOnRequest' /\ TokenLives'
  <2>1. /\ r.op \in {"register", "login", "supplier", "renew", "check", "delete", "logout"}
        /\ ended' = IF r.op \in {"renew", "delete", "logout"} THEN ended \cup {r.token} ELSE ended
    BY <1>1 DEF Requests, Begin
  <2>2. pc'[c] # "done" /\ (pc'[c] = "retire" => req'[c].op # "renew")
    <3>1. pc'[c] = FirstStatement[r.op] /\ req'[c] = r
      BY <1>1, BeginFrame
    <3> QED
      BY <2>1, <3>1 DEF FirstStatement
  <2>3. UNCHANGED <<clientToken, own, given, answer>>
    BY <1>1, BeginFrame DEF tables
  <2>4. EndedOnRequest'
    BY <1>1, <2>1, <2>2, <2>3, BeginFrame DEF EndedOnRequest, Kept, Alive
  <2>5. TokenLives'
    BY <1>1, <2>1, <2>2, <2>3, BeginFrame DEF TokenLives, Succeeded, Alive
  <2> QED
    BY <2>4, <2>5
<1>2. CASE Tick \/ OtherCommand \/ UNCHANGED vars
  BY <1>2, OtherFrame DEF EndedOnRequest, TokenLives, Succeeded, Kept, Alive, tables
<1> QED
  BY <1>1, <1>2, TokenStep DEF Next

\* When logins do not overlap, a token that was handed out is good until somebody
\* asks to end it, whatever other calls do and whatever fails.
THEOREM TokensLive ==
    ASSUME "login" \in Single
    PROVE  Spec => []TokenLives
<1>1. Init => TokenInv
  BY ShapeInit
  DEF Init, TokenInv, EndedOnRequest, TokenLives, LoginInv, HoldsOwn, LoginGetsOwn, Succeeded,
      OneAtATime, Active
<1>2. TokenInv => TokenLives
  BY DEF TokenInv
<1> QED
  BY <1>1, <1>2, TokenNext, PTL DEF Spec
=============================================================================
