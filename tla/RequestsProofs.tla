---------------------------- MODULE RequestsProofs ----------------------------
(***************************************************************************)
(* Proofs about Requests: the databases of tenants, the daily run, accounts, *)
(* and DAG instantiation, each with the inductive invariant of its part, for *)
(* any number of users, tenants, processes, days, requests and nodes.        *)
(***************************************************************************)
EXTENDS Requests, TLAPS

-----------------------------------------------------------------------------
\* The databases of tenants.

StoreCall == [op : {"save", "delete", "list", "get"},
              project : Routing!Databases \cup {Empty}, id : Routing!Id \cup {None}]

\* The calls a request for tenant t may make; t = None: it came without a tenant.
RightCalls(t) ==
  {c \in StoreCall : /\ c.project = (IF t = None THEN Empty ELSE DbOf[t])
                     /\ c.op = "save" => t # None}

CallsOK(t, s) == s \in Seq(RightCalls(t)) /\ Len(s) > 0

TenantRequest ==
  [user : Members, tenant : Tenants \cup {None}, calls : Seq(StoreCall),
   place : {"call", "dial", "use"}]

TenantRow == [tenant : Tenants, deleted : BOOLEAN]

RoutingType ==
  /\ connMap \subseteq Routing!Databases
  /\ opened \in [Routing!Databases -> Int]
  /\ holder \in Reqs \cup {None}
  /\ tables \in [Routing!Databases -> [Routing!Id -> TenantRow \cup {None}]]
  /\ call \in [Reqs -> TenantRequest \cup {None}]

\* A pool is opened by the holder of the mutex, for a database without one.
PoolInv ==
  /\ \A db \in Routing!Databases : opened[db] = IF db \in connMap THEN 1 ELSE 0
  /\ \A o \in Reqs : Routing!At(o, "dial") => holder = o /\ Routing!Name(o) \notin connMap

\* All calls a request has still to make are for its own database.
CallsInv == \A o \in Reqs : call[o] # None => CallsOK(call[o].tenant, call[o].calls)

\* What a database holds is its tenant's.
RowsInv ==
  \A db \in Routing!Databases : \A k \in Routing!Id :
    tables[db][k] # None => DbOf[tables[db][k].tenant] = db

RoutingInv == RoutingType /\ PoolInv /\ CallsInv /\ RowsInv

(* The context TenantMiddleware makes names the database of the tenant.     *)
LEMMA ContextIs ==
  ASSUME NEW u, NEW t
  PROVE  Routing!TenantDB(Routing!Context(u, t)) = DbOf[t]
BY DEF Routing!TenantDB, Routing!Context, Routing!WithUserID, Routing!WithTenantDB,
       Routing!Background

(* One call, and one list of calls after another.                           *)
LEMMA OneCall ==
  ASSUME NEW t \in Tenants \cup {None}, NEW op \in {"save", "delete", "list", "get"},
         op = "save" => t # None,
         NEW project, project = (IF t = None THEN Empty ELSE DbOf[t]),
         NEW id \in Routing!Id \cup {None}
  PROVE  CallsOK(t, Routing!Call(op, project, id))
<1>1. project \in Routing!Databases \cup {Empty}
    BY DEF Routing!Databases
<1>2. [op |-> op, project |-> project, id |-> id] \in RightCalls(t)
    BY <1>1 DEF RightCalls, StoreCall
<1> QED BY <1>2 DEF CallsOK, Routing!Call

LEMMA MoreCalls ==
  ASSUME NEW t, NEW s, NEW v, CallsOK(t, s), CallsOK(t, v)
  PROVE  CallsOK(t, s \o v)
BY DEF CallsOK

(* The services a tenant's request reaches call the store for its database. *)
LEMMA ServiceCalls ==
  ASSUME TenantAssumption, NEW u \in Members, NEW t \in Tenants
  PROVE  LET ctx == Routing!Context(u, t) IN
           /\ \A n \in NodeRows :
                CallsOK(t, Routing!SaveNode(ctx, n)) /\ CallsOK(t, Routing!DeleteNode(ctx, n))
           /\ \A d \in Sources :
                /\ CallsOK(t, Routing!SaveDatasource(ctx, d))
                /\ CallsOK(t, Routing!MetaTables(ctx, d))
                /\ CallsOK(t, Routing!MetaColumns(ctx, d))
<1>1. NodeRows \subseteq Routing!Id /\ Sources \subseteq Routing!Id /\ t # None
    BY DEF TenantAssumption, Routing!Id
<1>2. \A op \in {"save", "delete", "list", "get"} : \A id \in Routing!Id :
        CallsOK(t, Routing!Call(op, DbOf[t], id))
    BY <1>1, OneCall
<1> QED
    BY <1>1, <1>2, ContextIs
    DEF Routing!SaveNode, Routing!DeleteNode, Routing!SaveDatasource, Routing!MetaTables,
        Routing!MetaColumns, Routing!metaTables, Routing!metaColumns,
        Routing!getDatasourceContent

LEMMA ListCalls ==
  ASSUME TenantAssumption, NEW u \in Members, NEW t \in Tenants
  PROVE  LET ctx == Routing!Context(u, t) IN
           CallsOK(t, Routing!Graph(ctx)) /\ CallsOK(t, Routing!ListDatasource(ctx))
<1>1. CallsOK(t, Routing!Call("list", DbOf[t], None))
    BY OneCall DEF TenantAssumption
<1> QED
    BY <1>1, MoreCalls, ContextIs DEF Routing!Graph, Routing!ListDatasource

(* The routes without a tenant call the store for the configured database.  *)
LEMMA CommonCalls ==
  /\ CallsOK(None, Routing!metaTables(Empty, Ods))
  /\ CallsOK(None, Routing!metaColumns(Empty, Ods))
  /\ \A n \in NodeRows, d \in Sources \cup {Ods}, target \in Sources \cup {Ods, None} :
       CallsOK(None, Routing!MigrateConfigFromNode(Routing!Background, n, d, target))
<1>1. \A id \in Routing!Id \cup {None} : CallsOK(None, Routing!Call("get", Empty, id))
    BY OneCall
<1>2. Routing!TenantDB(Routing!Background) = Empty
    BY DEF Routing!TenantDB, Routing!Background
<1>3. ASSUME NEW i \in Sources \cup {Ods}
      PROVE  CallsOK(None, Routing!resolveDatasource(Routing!Background, i))
    BY <1>1, <1>2 DEF Routing!resolveDatasource, Routing!getDatasourceContent, Routing!Id
<1>4. ASSUME NEW n \in NodeRows, NEW d \in Sources \cup {Ods},
             NEW target \in Sources \cup {Ods, None}
      PROVE  CallsOK(None, Routing!MigrateConfigFromNode(Routing!Background, n, d, target))
  <2> DEFINE first == Routing!Call("get", Empty, n)
             source == Routing!resolveDatasource(Routing!Background, d)
             last == Routing!resolveDatasource(Routing!Background, target)
  <2>1. CallsOK(None, first)
      BY <1>1 DEF Routing!Id
  <2>2. CallsOK(None, first \o source)
      BY <1>3, <2>1, MoreCalls
  <2>3. CASE target = None
    <3>1. (first \o source) \o <<>> = first \o source
        BY <2>2 DEF CallsOK
    <3>2. Routing!MigrateConfigFromNode(Routing!Background, n, d, target)
            = (first \o source) \o <<>>
        BY <1>2, <2>3 DEF Routing!MigrateConfigFromNode
    <3> QED BY <2>2, <3>1, <3>2
  <2>4. CASE target # None
    <3>1. CallsOK(None, (first \o source) \o last)
        BY <1>3, <2>2, <2>4, MoreCalls
    <3>2. Routing!MigrateConfigFromNode(Routing!Background, n, d, target)
            = (first \o source) \o last
        BY <1>2, <2>4 DEF Routing!MigrateConfigFromNode
    <3> QED BY <3>1, <3>2
  <2> QED BY <2>3, <2>4
<1> QED
    BY <1>1, <1>4 DEF Routing!metaTables, Routing!metaColumns, Routing!getDatasourceContent,
       Routing!Id
(* A request begins: its calls are all for its database.                    *)
LEMMA BeginKeeps ==
  ASSUME TenantAssumption, RoutingInv,
         NEW o \in Reqs, NEW u \in Members, NEW t \in Tenants \cup {None}, NEW s,
         CallsOK(t, s), Routing!Begin(o, u, t, s)
  PROVE  RoutingInv'
<1> DEFINE new == [user |-> u, tenant |-> t, calls |-> s, place |-> "call"]
<1>1. call' = [call EXCEPT ![o] = new] /\ UNCHANGED <<member, connMap, opened, holder, tables>>
    BY DEF Routing!Begin
<1>2. new \in TenantRequest
  <2>1. s \in Seq(StoreCall)
      BY DEF CallsOK, RightCalls
  <2> QED BY <2>1 DEF TenantRequest
<1>3. RoutingType'
    BY <1>1, <1>2 DEF RoutingInv, RoutingType
<1>4. PoolInv'
    BY <1>1 DEF RoutingInv, RoutingType, PoolInv, Routing!At, Routing!Name, Routing!Head1
<1>5. CallsInv'
    BY <1>1 DEF RoutingInv, RoutingType, CallsInv
<1>6. RowsInv'
    BY <1>1 DEF RoutingInv, RowsInv
<1> QED BY <1>3, <1>4, <1>5, <1>6 DEF RoutingInv

LEMMA TenantKeeps ==
  ASSUME TenantAssumption, RoutingInv,
         NEW o \in Reqs, NEW u \in Members, NEW t \in Tenants, Routing!TenantStep(o, u, t)
  PROVE  RoutingInv'
<1>1. \A s : CallsOK(t, s) /\ Routing!InTenant(o, u, t, s) => RoutingInv'
    BY BeginKeeps DEF Routing!InTenant
<1>2. CASE Routing!SaveNodeHandler(o, u, t)
    BY <1>1, <1>2, ServiceCalls DEF Routing!SaveNodeHandler
<1> QED
    BY <1>1, ServiceCalls, ListCalls
    DEF Routing!TenantStep, Routing!SaveNodeHandler, Routing!DeleteNodeHandler,
        Routing!GraphHandler, Routing!SaveDatasourceHandler, Routing!ListDatasourceHandler,
        Routing!MetaTablesHandler, Routing!MetaColumnsHandler

LEMMA CommonKeeps ==
  ASSUME TenantAssumption, RoutingInv,
         NEW o \in Reqs, NEW u \in Members, Routing!CommonStep(o, u)
  PROVE  RoutingInv'
<1>1. \A s : CallsOK(None, s) /\ Routing!Begin(o, u, None, s) => RoutingInv'
    BY BeginKeeps
<1>2. CASE Routing!OdsTablesHandler(o, u) \/ Routing!OdsColumnsHandler(o, u)
    BY <1>1, <1>2, CommonCalls DEF Routing!OdsTablesHandler, Routing!OdsColumnsHandler
<1>3. CASE Routing!RunHandler(o, u)
    BY <1>1, <1>3, CommonCalls DEF Routing!RunHandler
<1> QED BY <1>2, <1>3 DEF Routing!CommonStep

(* The tail of a sequence of two or more.                                   *)
LEMMA TailOfMore ==
  ASSUME NEW S, NEW s \in Seq(S), Len(s) > 0, Len(s) # 1
  PROVE  Tail(s) \in Seq(S) /\ Len(Tail(s)) > 0
<1>1. \A n \in Nat : n > 0 /\ n # 1 => n > 1 /\ n - 1 > 0
    OBVIOUS
<1>2. Len(s) \in Nat
    OBVIOUS
<1>3. s # <<>>
    OBVIOUS
<1>4. Tail(s) \in Seq(S) /\ Len(Tail(s)) = Len(s) - 1
    BY <1>3
<1>5. Len(s) - 1 > 0
    BY <1>1, <1>2
<1> QED BY <1>4, <1>5

(* What a request has done of its calls does not matter for the rest.       *)
LEMMA DoneKeeps ==
  ASSUME TenantAssumption, RoutingInv, NEW o \in Reqs, Routing!At(o, "use"),
         Routing!Done(o) \/ Routing!Answer(o)
  PROVE  /\ call' \in [Reqs -> TenantRequest \cup {None}]
         /\ CallsInv'
         /\ ~Routing!At(o, "dial")'
         /\ \A x \in Reqs \ {o} : call'[x] = call[x]
<1>0. /\ call[o] \in TenantRequest /\ call[o] # None
      /\ CallsOK(call[o].tenant, call[o].calls)
    BY DEF RoutingInv, RoutingType, CallsInv, Routing!At
<1>1. CASE Routing!Answer(o)
    BY <1>1 DEF RoutingInv, RoutingType, CallsInv, Routing!Answer, Routing!At
<1>2. CASE ~Routing!Answer(o)
  <2> DEFINE new == [call[o] EXCEPT !.calls = Tail(@), !.place = "call"]
  <2>1. call' = [call EXCEPT ![o].calls = Tail(@), ![o].place = "call"] /\ Len(call[o].calls) # 1
      BY <1>2 DEF Routing!Done
  <2>2. call' = [call EXCEPT ![o] = new]
      BY <2>1 DEF RoutingInv, RoutingType
  <2>3. CallsOK(call[o].tenant, Tail(call[o].calls))
    <3>1. /\ call[o].calls \in Seq(RightCalls(call[o].tenant))
          /\ Len(call[o].calls) > 0
        BY <1>0 DEF CallsOK
    <3> QED BY <2>1, <3>1, TailOfMore DEF CallsOK
  <2>4. Tail(call[o].calls) \in Seq(StoreCall)
    <3>1. RightCalls(call[o].tenant) \subseteq StoreCall
        BY DEF RightCalls
    <3>2. \A t \in Seq(RightCalls(call[o].tenant)) : t \in Seq(StoreCall)
        BY <3>1
    <3> QED BY <2>3, <3>2 DEF CallsOK
  <2>5. /\ new \in TenantRequest /\ new.tenant = call[o].tenant
        /\ new.calls = Tail(call[o].calls) /\ new.place = "call"
      BY <1>0, <2>4 DEF TenantRequest
  <2> HIDE DEF new
  <2>6. call'[o] = new /\ \A x \in Reqs \ {o} : call'[x] = call[x]
      BY <2>2 DEF RoutingInv, RoutingType
  <2>7. call' \in [Reqs -> TenantRequest \cup {None}]
      BY <2>2, <2>5 DEF RoutingInv, RoutingType
  <2> QED BY <2>3, <2>5, <2>6, <2>7 DEF RoutingInv, CallsInv, Routing!At
<1> QED BY <1>1, <1>2

(* One row of one database is written: the others stay.                     *)
LEMMA RowWritten ==
  ASSUME RoutingInv, NEW d, NEW i, NEW v,
         d \in Routing!Databases /\ i \in Routing!Id => v \in TenantRow \cup {None},
         tables' = [tables EXCEPT ![d][i] = v]
  PROVE  /\ tables' \in [Routing!Databases -> [Routing!Id -> TenantRow \cup {None}]]
         /\ \A x \in Routing!Databases, y \in Routing!Id :
              tables'[x][y] = IF x = d /\ y = i THEN v ELSE tables[x][y]
<1> DEFINE D == Routing!Databases
           I == Routing!Id
           R == TenantRow \cup {None}
           row == [tables[d] EXCEPT ![i] = v]
<1>1. tables \in [D -> [I -> R]]
    BY DEF RoutingInv, RoutingType
<1>2. tables' = [tables EXCEPT ![d] = row]
    OBVIOUS
<1>3. d \in D /\ i \in I => v \in R
    OBVIOUS
<1> HIDE DEF D, I, R
<1>4. d \in D => row \in [I -> R] /\ \A y \in I : row[y] = IF y = i THEN v ELSE tables[d][y]
  <2>1. d \in D => tables[d] \in [I -> R]
      BY <1>1
  <2> QED BY <1>3, <2>1
<1> HIDE DEF row
<1>5. tables' \in [D -> [I -> R]]
    BY <1>1, <1>2, <1>4
<1>6. \A x \in D, y \in I : tables'[x][y] = IF x = d /\ y = i THEN v ELSE tables[x][y]
    BY <1>1, <1>2, <1>4
<1> QED BY <1>5, <1>6 DEF D, I, R

(* The calls of the store change rows of the database of the request only.  *)
LEMMA UseKeeps ==
  ASSUME TenantAssumption, RoutingInv, NEW o \in Reqs,
         Routing!Save(o) \/ Routing!Delete(o) \/ Routing!List(o) \/ Routing!Get(o)
           \/ Routing!CallFails(o)
  PROVE  RoutingInv'
<1>0. Routing!At(o, "use") /\ (Routing!Done(o) \/ Routing!Answer(o))
        /\ UNCHANGED <<connMap, opened, holder>>
    BY DEF Routing!Save, Routing!Delete, Routing!List, Routing!Get, Routing!CallFails,
           Routing!Using
<1>1. /\ call' \in [Reqs -> TenantRequest \cup {None}]
      /\ CallsInv' /\ ~Routing!At(o, "dial")'
      /\ \A x \in Reqs \ {o} : call'[x] = call[x]
    BY <1>0, DoneKeeps
<1>2. PoolInv'
    BY <1>0, <1>1 DEF RoutingInv, PoolInv, Routing!At, Routing!Name, Routing!Head1
<1>3. /\ call[o] \in TenantRequest /\ call[o] # None
      /\ Head(call[o].calls) \in RightCalls(call[o].tenant)
    BY <1>0 DEF RoutingInv, RoutingType, CallsInv, CallsOK, Routing!At
<1>4. tables' \in [Routing!Databases -> [Routing!Id -> TenantRow \cup {None}]] /\ RowsInv'
  <2>1. CASE UNCHANGED tables
      BY <2>1 DEF RoutingInv, RoutingType, RowsInv
  <2>2. CASE Routing!Save(o)
    <3> DEFINE db == Routing!Name(o)
               k == Routing!Head1(o).id
               new == [tenant |-> call[o].tenant, deleted |-> FALSE]
    <3>1. tables' = [tables EXCEPT ![db][k] = new]
        BY <2>2 DEF Routing!Save
    <3>2. call[o].tenant \in Tenants /\ db = DbOf[call[o].tenant]
      <4>1. Head(call[o].calls).op = "save"
          BY <2>2 DEF Routing!Save, Routing!Using, Routing!Head1
      <4>2. call[o].tenant \in Tenants
          BY <1>3, <4>1 DEF RightCalls, TenantRequest
      <4>3. DbOf[call[o].tenant] # Empty
          BY <4>2 DEF TenantAssumption, Routing!Databases
      <4> QED BY <1>3, <4>2, <4>3 DEF RightCalls, TenantAssumption, Routing!Name, Routing!Head1
    <3>3. new \in TenantRow /\ new.tenant = call[o].tenant
        BY <3>2 DEF TenantRow
    <3> HIDE DEF db, k, new
    <3>4. db \in Routing!Databases /\ k \in Routing!Id => new \in TenantRow \cup {None}
        BY <3>3
    <3>5. /\ tables' \in [Routing!Databases -> [Routing!Id -> TenantRow \cup {None}]]
          /\ \A d \in Routing!Databases, i \in Routing!Id :
               tables'[d][i] = IF d = db /\ i = k THEN new ELSE tables[d][i]
        BY <3>1, <3>4, RowWritten, ZenonT(60)
    <3>6. RowsInv'
        BY <3>2, <3>3, <3>5 DEF RoutingInv, RowsInv
    <3> QED BY <3>5, <3>6
  <2>3. CASE Routing!Delete(o)
    <3> DEFINE db == Routing!Name(o)
               k == Routing!Head1(o).id
               new == IF tables[db][k] = None THEN None
                      ELSE [tables[db][k] EXCEPT !.deleted = TRUE]
    <3>1. tables' = [tables EXCEPT ![db][k] = new]
        BY <2>3 DEF Routing!Delete
    <3> HIDE DEF db, k
    <3>2. \A r \in TenantRow : [r EXCEPT !.deleted = TRUE] \in TenantRow
                               /\ [r EXCEPT !.deleted = TRUE].tenant = r.tenant
        BY DEF TenantRow
    <3>3. ASSUME NEW d \in Routing!Databases, NEW i \in Routing!Id
          PROVE  \/ tables'[d][i] = tables[d][i]
                 \/ /\ tables[d][i] \in TenantRow /\ tables[d][i] # None
                    /\ tables'[d][i] = [tables[d][i] EXCEPT !.deleted = TRUE]
      <4> HIDE DEF new
      <4>1. tables'[d][i] = IF d = db /\ i = k THEN new ELSE tables[d][i]
          BY <3>1 DEF RoutingInv, RoutingType
      <4>2. tables[d][i] \in TenantRow \cup {None}
          BY DEF RoutingInv, RoutingType
      <4> QED BY <4>1, <4>2 DEF new
    <3>4. ASSUME NEW d \in Routing!Databases, NEW i \in Routing!Id
          PROVE  /\ tables'[d][i] \in TenantRow \cup {None}
                 /\ \/ tables'[d][i] = tables[d][i]
                    \/ tables[d][i] # None /\ tables'[d][i].tenant = tables[d][i].tenant
      <4>1. CASE tables'[d][i] = tables[d][i]
          BY <4>1 DEF RoutingInv, RoutingType
      <4>2. CASE /\ tables[d][i] \in TenantRow /\ tables[d][i] # None
                 /\ tables'[d][i] = [tables[d][i] EXCEPT !.deleted = TRUE]
        <5>1. [tables[d][i] EXCEPT !.deleted = TRUE] \in TenantRow
                /\ [tables[d][i] EXCEPT !.deleted = TRUE].tenant = tables[d][i].tenant
            BY <3>2, <4>2
        <5> QED BY <4>2, <5>1 
      <4> QED BY <3>3, <4>1, <4>2
    <3> HIDE DEF new
    <3>5. tables' \in [Routing!Databases -> [Routing!Id -> TenantRow \cup {None}]]
      <4>1. ASSUME db \in Routing!Databases, k \in Routing!Id
            PROVE  new \in TenantRow \cup {None}
        <5>1. tables[db][k] \in TenantRow \cup {None}
            BY <4>1 DEF RoutingInv, RoutingType
        <5> QED BY <3>2, <5>1 DEF new
      <4> QED BY <3>1, <4>1, RowWritten, ZenonT(30)
    <3>6. RowsInv'
        BY <3>4 DEF RoutingInv, RowsInv
    <3> QED BY <3>5, <3>6
  <2> QED BY <2>1, <2>2, <2>3 DEF Routing!List, Routing!Get, Routing!CallFails
<1> QED BY <1>0, <1>1, <1>2, <1>4 DEF RoutingInv, RoutingType

(* A pool is looked for and opened by the one that holds the mutex.         *)
LEMMA GetDBKeeps ==
  ASSUME TenantAssumption, RoutingInv, NEW o \in Reqs,
         Routing!Look(o) \/ Routing!Dialled(o) \/ Routing!DialFails(o)
  PROVE  RoutingInv'
<1>0. /\ call[o] \in TenantRequest /\ call[o] # None
      /\ holder = None \/ holder = o
      /\ UNCHANGED tables
      /\ Routing!At(o, "call") \/ Routing!At(o, "dial")
    BY DEF RoutingInv, RoutingType, PoolInv, Routing!At, Routing!Look, Routing!Dialled,
           Routing!DialFails
<1>1. \A x \in Reqs \ {o} : ~Routing!At(x, "dial")
    BY <1>0 DEF RoutingInv, PoolInv, TenantAssumption
<1>2. ASSUME NEW p \in {"dial", "use"}, Routing!Go(o, p)
      PROVE  /\ call' \in [Reqs -> TenantRequest \cup {None}] /\ CallsInv'
             /\ \A x \in Reqs \ {o} : call'[x] = call[x]
             /\ call'[o].place = p /\ call'[o].calls = call[o].calls
  <2> DEFINE new == [call[o] EXCEPT !.place = p]
  <2>1. call' = [call EXCEPT ![o] = new]
      BY <1>2 DEF Routing!Go
  <2>2. new \in TenantRequest /\ new.place = p /\ new.calls = call[o].calls
          /\ new.tenant = call[o].tenant
      BY <1>0 DEF TenantRequest
  <2> HIDE DEF new
  <2> QED BY <1>0, <2>1, <2>2 DEF RoutingInv, RoutingType, CallsInv
<1>3. RowsInv'
    BY <1>0 DEF RoutingInv, RowsInv
<1>4. CASE Routing!Look(o) /\ Routing!Name(o) \in connMap
  <2>1. Routing!Go(o, "use") /\ UNCHANGED <<connMap, opened, holder>>
      BY <1>4 DEF Routing!Look
  <2> QED BY <1>0, <1>1, <1>2, <1>3, <2>1
          DEF RoutingInv, RoutingType, PoolInv, Routing!At, Routing!Name, Routing!Head1
<1>5. CASE Routing!Look(o) /\ Routing!Name(o) \notin connMap
  <2>1. Routing!Go(o, "dial") /\ holder' = o /\ UNCHANGED <<connMap, opened>>
      BY <1>5 DEF Routing!Look
  <2> QED BY <1>0, <1>1, <1>2, <1>3, <1>5, <2>1
          DEF RoutingInv, RoutingType, PoolInv, Routing!At, Routing!Name, Routing!Head1
<1>6. CASE Routing!Dialled(o)
  <2> DEFINE db == Routing!Name(o)
  <2>1. /\ db \in Routing!Databases /\ db \notin connMap
        /\ connMap' = connMap \cup {db} /\ opened' = [opened EXCEPT ![db] = @ + 1]
        /\ holder' = None /\ Routing!Go(o, "use")
      BY <1>6 DEF Routing!Dialled, RoutingInv, PoolInv
  <2> HIDE DEF db
  <2> QED BY <1>0, <1>1, <1>2, <1>3, <2>1
          DEF RoutingInv, RoutingType, PoolInv, Routing!At, Routing!Name, Routing!Head1
<1>7. CASE Routing!DialFails(o)
  <2>1. call' = [call EXCEPT ![o] = None] /\ holder' = None /\ UNCHANGED <<connMap, opened>>
      BY <1>7 DEF Routing!DialFails, Routing!Answer
  <2>2. RoutingType' /\ CallsInv'
      BY <1>0, <2>1 DEF RoutingInv, RoutingType, CallsInv
  <2>3. PoolInv'
      BY <1>1, <2>1 DEF RoutingInv, RoutingType, PoolInv, Routing!At
  <2> QED BY <1>3, <2>2, <2>3 DEF RoutingInv
<1> QED BY <1>4, <1>5, <1>6, <1>7

LEMMA RoutingStep ==
  ASSUME TenantAssumption, RoutingInv, Routing!Next
  PROVE  RoutingInv'
<1>1. CASE Routing!Restart
    BY <1>1 DEF Routing!Restart, RoutingInv, RoutingType, PoolInv, CallsInv, RowsInv, Routing!At
<1>2. ASSUME NEW u \in Members, NEW t \in Tenants, NEW status, Routing!SetMember(u, t, status)
      PROVE  RoutingInv'
    BY <1>2 DEF Routing!SetMember, RoutingInv, RoutingType, PoolInv, CallsInv, RowsInv,
                Routing!At, Routing!Name, Routing!Head1
<1>3. ASSUME NEW o \in Reqs, Routing!StoreStep(o) PROVE RoutingInv'
    BY <1>3, GetDBKeeps, UseKeeps DEF Routing!StoreStep
<1> QED BY <1>1, <1>2, <1>3, CommonKeeps, TenantKeeps DEF Routing!Next

LEMMA RoutingStart == TenantAssumption /\ Routing!Init => RoutingInv
<1> SUFFICES ASSUME TenantAssumption, Routing!Init PROVE RoutingInv
    OBVIOUS
<1>1. [tenant |-> DefaultTenant, deleted |-> FALSE] \in TenantRow
    BY DEF TenantRow, TenantAssumption
<1>2. RoutingType
    BY <1>1 DEF Routing!Init, RoutingType
<1>3. PoolInv /\ CallsInv
    BY DEF Routing!Init, PoolInv, CallsInv, Routing!At
<1>4. RowsInv
    BY DEF Routing!Init, RowsInv, Routing!Public
<1> QED BY <1>2, <1>3, <1>4 DEF RoutingInv

-----------------------------------------------------------------------------
\* The daily run.

Message == [payload : {Work!Marshal(i) : i \in Work!Instance},
            attempts : 0..MaxAttempts, status : {"pending", "success", "failed"}]

WorkType ==
  /\ step \in [Work!Calls -> {"idle", "store", "publish", "over"}]
  /\ DOMAIN queue = Work!Calls
  /\ \A c \in Work!Calls : queue[c] # None =>
       /\ queue[c] \in Message
       /\ queue[c].payload = Work!Marshal(<<c, DailyRoot>>)
       /\ queue[c].status = "pending" => queue[c].attempts < MaxAttempts

\* A batch is stored, and its root published, by the call that went that far.
StepInv ==
  \A c \in Work!Calls :
    /\ step[c] \in {"idle", "store"} => Batch(c) = {} /\ queue[c] = None
    /\ step[c] = "publish" => queue[c] = None /\ (Batch(c) # {} \/ c \in dropped)
    /\ step[c] = "over" /\ Batch(c) # {} => queue[c] # None \/ c \in lost
    /\ queue[c] # None => Batch(c) # {} \/ c \in dropped

\* Two calls of a day both get beyond the question whether there is a batch only
\* together.
RaceInv ==
  \A o, c \in Work!Calls : o # c /\ o[2] = c[2]
      /\ (step[o] = "store" \/ Batch(o) # {}) /\ (step[c] = "store" \/ Batch(c) # {})
    => {o, c} \subseteq raced

WorkInv == WorkType /\ StepInv /\ RaceInv

(* The payload of a message, JSON, is the id of no instance.                *)
LEMMA NoInstance ==
  ASSUME NEW i PROVE Work!Marshal(i) \notin Work!Instance
<1>1. Len(Work!Marshal(i)) = 1
    BY DEF Work!Marshal
<1>2. \A p \in Work!Instance : Len(p) = 2
    BY DEF Work!Instance
<1> QED BY <1>1, <1>2

(* A step that leaves the table alone leaves the batches alone.             *)
LEMMA SameBatches ==
  ASSUME UNCHANGED rows PROVE \A c : Batch(c)' = Batch(c)
BY DEF Batch

LEMMA CommitBatches ==
  ASSUME DailyAssumption, NEW c \in Work!Calls, Work!Commit(c)
  PROVE  Batch(c)' # {} /\ \A o \in Work!Calls \ {c} : Batch(o)' = Batch(o)
<1> DEFINE id == <<c, DailyRoot>>
<1>1. id \in Work!Instance /\ id[1] = c /\ id[2] = DailyRoot
    BY DEF DailyAssumption, Work!Instance
<1>2. \A i \in Work!Instance :
        rows'[i] = IF i[1] = c THEN [node |-> Work!Column(i[2]), status |-> "NotReady"]
                   ELSE rows[i]
    BY DEF Work!Commit
<1>3. rows'[id] # None
    BY <1>1, <1>2 DEF DailyAssumption
<1>4. id \in Batch(c)'
    BY <1>1, <1>3 DEF Batch
<1>5. \A o \in Work!Calls \ {c} : Batch(o)' = Batch(o)
    BY <1>2 DEF Batch
<1> QED BY <1>4, <1>5

(* deal on the message of a root: no instance is touched.                   *)
LEMMA DealKeeps ==
  ASSUME DailyAssumption, WorkInv, NEW c \in Work!Calls, Work!deal(c)
  PROVE  WorkInv'
<1>0. queue[c] \in Message /\ queue[c].payload = Work!Marshal(<<c, DailyRoot>>)
        /\ queue[c].attempts < MaxAttempts /\ queue[c] # None
        /\ UNCHANGED <<step, raced, dropped, lost>>
    BY DEF Work!deal, WorkInv, WorkType
<1>1. ~Work!Running(queue[c].payload) /\ ~Work!Loads(queue[c].payload)
    BY <1>0, NoInstance DEF Work!Running, Work!Loads
<1> DEFINE new == [queue[c] EXCEPT !.attempts = @ + 1, !.status =
                     IF queue[c].attempts + 1 = MaxAttempts THEN "failed" ELSE "pending"]
<1>2. UNCHANGED rows /\ queue' = [queue EXCEPT ![c] = new]
    BY <1>0, <1>1 DEF Work!deal, WorkInv, WorkType
<1>3. /\ new \in Message /\ new.payload = queue[c].payload
      /\ new.status = "pending" => new.attempts < MaxAttempts
  <2>1. queue[c].attempts \in 0..MaxAttempts /\ MaxAttempts \in Nat
      BY <1>0 DEF DailyAssumption, Message
  <2>2. queue[c].attempts + 1 \in 0..MaxAttempts
      BY <1>0, <2>1
  <2>3. /\ new.attempts = queue[c].attempts + 1 /\ new.payload = queue[c].payload
        /\ new.status =
             (IF queue[c].attempts + 1 = MaxAttempts THEN "failed" ELSE "pending")
      BY <1>0 DEF Message
  <2>4. new \in Message
      BY <1>0, <2>2 DEF Message
  <2>5. queue[c].attempts + 1 # MaxAttempts => queue[c].attempts + 1 < MaxAttempts
      BY <2>1, <2>2
  <2> HIDE DEF new
  <2> QED BY <2>3, <2>4, <2>5
<1>4. new # None
    BY <1>3 DEF DailyAssumption, Message
<1> HIDE DEF new
<1>5. WorkType'
    BY <1>0, <1>2, <1>3 DEF WorkInv, WorkType
<1>6. StepInv'
    BY <1>0, <1>2, <1>4, SameBatches DEF WorkInv, WorkType, StepInv
<1>7. RaceInv'
    BY <1>0, <1>2, SameBatches DEF WorkInv, RaceInv
<1> QED BY <1>5, <1>6, <1>7 DEF WorkInv

LEMMA CreateKeeps ==
  ASSUME DailyAssumption, WorkInv, NEW c \in Work!Calls,
         Work!Skip(c) \/ Work!Build(c) \/ Work!Fails(c)
  PROVE  WorkInv'
<1>1. UNCHANGED <<rows, queue, dropped, lost>>
        /\ step[c] \in {"idle", "store"} /\ raced \subseteq raced'
    BY DEF Work!Skip, Work!Build, Work!Fails
<1>2. PICK s \in {"store", "over"} : step' = [step EXCEPT ![c] = s]
    BY DEF Work!Skip, Work!Build, Work!Fails, Work!Go
<1>3. WorkType'
    BY <1>1, <1>2 DEF WorkInv, WorkType
<1>4. StepInv'
    BY <1>1, <1>2, SameBatches DEF WorkInv, WorkType, StepInv
<1>5. RaceInv'
  <2>1. CASE s = "over"
      BY <1>1, <1>2, <2>1, SameBatches DEF WorkInv, WorkType, RaceInv
  <2>2. CASE s = "store" /\ Work!Build(c)
    <3>1. ASSUME NEW o \in Work!Calls \ {c}, o[2] = c[2]
          PROVE  Batch(o) = {} /\ (step[o] = "store" => {o, c} \subseteq raced')
        BY <2>2, <3>1 DEF Work!Build, Work!InstanceExists, Batch
    <3>2. \A o \in Work!Calls \ {c} : step'[o] = step[o]
        BY <1>2 DEF WorkInv, WorkType
    <3> QED BY <1>1, <3>1, <3>2, SameBatches DEF WorkInv, RaceInv
  <2>3. CASE s = "store" /\ ~Work!Build(c)
      BY <1>2, <2>3 DEF Work!Skip, Work!Fails, Work!Go, WorkInv, WorkType
  <2> QED BY <2>1, <2>2, <2>3
<1> QED BY <1>3, <1>4, <1>5 DEF WorkInv

LEMMA CommitKeeps ==
  ASSUME DailyAssumption, WorkInv, NEW c \in Work!Calls,
         Work!Commit(c) \/ Work!CommitFails(c)
  PROVE  WorkInv'
<1>1. /\ step[c] = "store" /\ step' = [step EXCEPT ![c] = "publish"]
      /\ UNCHANGED <<queue, raced, lost>>
    BY DEF Work!Commit, Work!CommitFails, Work!Go
<1>2. WorkType'
    BY <1>1 DEF WorkInv, WorkType
<1>3. CASE Work!Commit(c)
  <2>1. UNCHANGED dropped
      BY <1>3 DEF Work!Commit
  <2>2. StepInv'
      BY <1>1, <1>3, <2>1, CommitBatches DEF WorkInv, WorkType, StepInv
  <2>3. RaceInv'
      BY <1>1, <1>3, CommitBatches DEF WorkInv, WorkType, RaceInv
  <2> QED BY <1>2, <2>2, <2>3 DEF WorkInv
<1>4. CASE Work!CommitFails(c)
  <2>1. UNCHANGED rows /\ dropped' = dropped \cup {c}
      BY <1>4 DEF Work!CommitFails
  <2>2. StepInv'
      BY <1>1, <2>1, SameBatches DEF WorkInv, WorkType, StepInv
  <2>3. RaceInv'
      BY <1>1, <2>1, SameBatches DEF WorkInv, WorkType, RaceInv
  <2> QED BY <1>2, <2>2, <2>3 DEF WorkInv
<1> QED BY <1>3, <1>4

LEMMA PublishKeeps ==
  ASSUME DailyAssumption, WorkInv, NEW c \in Work!Calls,
         Work!Publish(c) \/ Work!PublishFails(c)
  PROVE  WorkInv'
<1>1. /\ step[c] = "publish" /\ step' = [step EXCEPT ![c] = "over"]
      /\ UNCHANGED <<rows, raced, dropped>>
    BY DEF Work!Publish, Work!PublishFails, Work!Go
<1>2. RaceInv'
    BY <1>1, SameBatches DEF WorkInv, WorkType, RaceInv
<1>3. CASE Work!Publish(c)
  <2> DEFINE new == [payload |-> Work!Marshal(<<c, DailyRoot>>), attempts |-> 0,
                     status |-> "pending"]
  <2>1. queue' = [queue EXCEPT ![c] = new] /\ UNCHANGED lost
      BY <1>3 DEF Work!Publish
  <2>2. new \in Message /\ new.payload = Work!Marshal(<<c, DailyRoot>>)
          /\ new.attempts = 0 /\ 0 < MaxAttempts
    <3>1. <<c, DailyRoot>> \in Work!Instance /\ MaxAttempts \in Nat \ {0}
        BY DEF DailyAssumption, Work!Instance
    <3> QED BY <3>1 DEF Message
  <2>3. new # None
      BY <2>2 DEF DailyAssumption, Message
  <2> HIDE DEF new
  <2>4. WorkType'
      BY <1>1, <2>1, <2>2 DEF WorkInv, WorkType
  <2>5. StepInv'
      BY <1>1, <2>1, <2>3, SameBatches DEF WorkInv, WorkType, StepInv
  <2> QED BY <1>2, <2>4, <2>5 DEF WorkInv
<1>4. CASE Work!PublishFails(c)
  <2>1. UNCHANGED queue /\ lost' = lost \cup {c}
      BY <1>4 DEF Work!PublishFails
  <2>2. WorkType' /\ StepInv'
      BY <1>1, <2>1, SameBatches DEF WorkInv, WorkType, StepInv
  <2> QED BY <1>2, <2>2 DEF WorkInv
<1> QED BY <1>3, <1>4

LEMMA CrashKeeps ==
  ASSUME WorkInv, NEW p \in Procs, Work!Crash(p)
  PROVE  WorkInv'
<1>1. /\ step' \in [Work!Calls -> {"idle", "store", "publish", "over"}]
      /\ \A c \in Work!Calls :
           \/ step'[c] = step[c]
           \/ step[c] = "store" /\ step'[c] = "over"
           \/ step[c] = "publish" /\ step'[c] = "over" /\ c \in lost'
      /\ lost \subseteq lost' /\ UNCHANGED <<rows, queue, raced, dropped>>
    BY DEF Work!Crash, WorkInv, WorkType
<1>2. WorkType'
    BY <1>1 DEF WorkInv, WorkType
<1>3. StepInv'
    BY <1>1, SameBatches DEF WorkInv, StepInv
<1>4. RaceInv'
    BY <1>1, SameBatches DEF WorkInv, RaceInv
<1> QED BY <1>2, <1>3, <1>4 DEF WorkInv

LEMMA WorkStep ==
  ASSUME DailyAssumption, WorkInv, Work!Next PROVE WorkInv'
BY CreateKeeps, CommitKeeps, PublishKeeps, DealKeeps, CrashKeeps DEF Work!Next, Work!CallStep

LEMMA WorkStart == Work!Init => WorkInv
<1> SUFFICES ASSUME Work!Init PROVE WorkInv
    OBVIOUS
<1>1. \A c \in Work!Calls : Batch(c) = {}
    BY DEF Work!Init, Batch
<1> QED BY <1>1 DEF Work!Init, WorkInv, WorkType, StepInv, RaceInv

(* With the invariant, a batch has its root.                                *)
LEMMA WorkGood == WorkInv => BatchHasItsRoot
BY DEF WorkInv, WorkType, StepInv, RaceInv, BatchHasItsRoot

-----------------------------------------------------------------------------
\* Accounts.

Hash == [hashOf : Passwords \cup {RootPassword}]

\* The writes a request may have before it.
Inserts  == [op : {"insert"}, by : Users \cup {None}, user : {None}, row : Row,
             raced : BOOLEAN]
Updates  == [op : {"update"}, by : Users, user : Users,
             row : [email : Emails, role : Accounts!Roles], raced : BOOLEAN]
Disables == [op : {"disable"}, by : Users, user : Users, row : [status : {"disabled"}],
             raced : BOOLEAN]
Resets   == [op : {"reset"}, by : Users, user : Users, row : [hash : Hash],
             raced : BOOLEAN]
Changes  == [op : {"change"}, by : Users, user : Users,
             row : [hash : Hash, old : Passwords], raced : BOOLEAN]

\* What the checks of a request have shown still holds for q.
Sound(q) ==
  \/ q = Accounts!NoReq
  \/ q \in Inserts
  \/ q \in Updates \cup Resets /\ q.user \in Accounts!Stored
  \/ q \in Disables /\ q.user \in Accounts!Stored /\ q.by # q.user
  \/ /\ q \in Changes /\ q.user \in Accounts!Stored
     /\ ~q.raced => Accounts!CompareHashAndPassword(users[q.user].hash, q.row.old)

AccountInv ==
  /\ users \in [Users -> Row \cup {None}]
  /\ tokens \subseteq Accounts!Stored
  /\ DOMAIN request = Reqs
  /\ \A o \in Reqs : Sound(request[o])

LEMMA RowFields ==
  ASSUME NEW x \in Row PROVE x.hash \in Hash
BY DEF Row, Hash

(* A row with columns overwritten is a row.                                 *)
LEMMA RowUpdates ==
  ASSUME NEW x \in Row
  PROVE  /\ \A e \in Emails : [x EXCEPT !.email = e] \in Row
              /\ [x EXCEPT !.email = e].hash = x.hash
              /\ [x EXCEPT !.email = e].role = x.role
              /\ [x EXCEPT !.email = e].status = x.status
         /\ \A e \in Emails, k \in Accounts!Roles :
              [x EXCEPT !.email = e, !.role = k] \in Row
         /\ [x EXCEPT !.status = "disabled"] \in Row
         /\ \A h \in Hash : [x EXCEPT !.hash = h] \in Row
              /\ [x EXCEPT !.hash = h].role = x.role
              /\ [x EXCEPT !.hash = h].status = x.status
BY DEF Row, Hash

LEMMA StoredIs ==
  ASSUME RowAssumption, AccountInv
  PROVE  \A u \in Users : (u \in Accounts!Stored <=> users[u] # None)
                            /\ (u \in Accounts!Stored <=> users[u] \in Row)
BY DEF RowAssumption, AccountInv, Accounts!Stored

(* A request begins: what it has checked is so.                             *)
LEMMA AccountBegin ==
  ASSUME AccountInv, NEW o \in Reqs, NEW op, NEW by, NEW u, NEW row,
         Accounts!Begin(o, op, by, u, row),
         Sound([op |-> op, by |-> by, user |-> u, row |-> row, raced |-> FALSE])
  PROVE  AccountInv'
<1> DEFINE new == [op |-> op, by |-> by, user |-> u, row |-> row, raced |-> FALSE]
<1>1. request' = [request EXCEPT ![o] = new] /\ UNCHANGED <<users, tokens>>
    BY DEF Accounts!Begin
<1>2. \A q : Sound(q) = Sound(q)'
    BY <1>1 DEF Sound, Accounts!Stored, Accounts!CompareHashAndPassword
<1>3. Sound(new)
    OBVIOUS
<1> HIDE DEF new
<1>4. \A x \in Reqs : Sound(request'[x])
    BY <1>1, <1>3 DEF AccountInv
<1> QED BY <1>1, <1>2, <1>4 DEF AccountInv, Accounts!Stored

LEMMA NewRows ==
  \A n \in Names, e \in Emails, k \in Accounts!Roles, p \in Passwords :
    Accounts!NewRow(n, e, k, p) \in Row
BY DEF Accounts!NewRow, Accounts!hashPassword, Row

LEMMA RegisterKeeps ==
  ASSUME AccountInv, NEW o \in Reqs, Accounts!RegisterHandler(o)
  PROVE  AccountInv'
<1>1. "register" \in Accounts!Roles
    BY DEF Accounts!Roles
<1>2. PICK row \in Row : Accounts!Begin(o, "insert", None, None, row)
    BY <1>1, NewRows DEF Accounts!RegisterHandler, Accounts!Register
<1> DEFINE q == [op |-> "insert", by |-> None, user |-> None, row |-> row, raced |-> FALSE]
<1>3. q \in Inserts
    BY DEF Inserts
<1> QED BY <1>2, <1>3, AccountBegin DEF Sound

LEMMA HandlersKeep ==
  ASSUME RowAssumption, AccountInv, NEW o \in Reqs, NEW by \in Users, NEW u \in Users,
         \/ Accounts!ChangePasswordHandler(o, by) \/ Accounts!CreateUserHandler(o, by)
         \/ Accounts!UpdateUserHandler(o, by, u) \/ Accounts!DisableUserHandler(o, by, u)
         \/ Accounts!ResetUserPasswordHandler(o, by, u)
  PROVE  AccountInv'
<1>1. \A n \in Names, e \in Emails, k \in Accounts!Roles, p \in Passwords :
        Accounts!NewRow(n, e, k, p) \in Row
    BY NewRows
<1>2. \A p \in Passwords : Accounts!hashPassword(p) \in Hash
    BY DEF Accounts!hashPassword, Hash
<1>3. CASE Accounts!ChangePasswordHandler(o, by)
  <2>1. PICK old \in Passwords, new \in Passwords : Accounts!ChangePassword(o, by, old, new)
      BY <1>3 DEF Accounts!ChangePasswordHandler
  <2>2. by \in Accounts!Stored
      BY <1>3 DEF Accounts!ChangePasswordHandler, AccountInv
  <2> DEFINE row == [hash |-> Accounts!hashPassword(new), old |-> old]
             q == [op |-> "change", by |-> by, user |-> by, row |-> row, raced |-> FALSE]
  <2>3. q \in Changes
      BY <1>2 DEF Changes
  <2>4. Sound(q)
      BY <2>1, <2>2, <2>3 DEF Sound, Accounts!ChangePassword
  <2> QED BY <2>1, <2>4, AccountBegin DEF Accounts!ChangePassword
<1>4. CASE Accounts!CreateUserHandler(o, by)
  <2>1. PICK row \in Row : Accounts!Begin(o, "insert", by, None, row)
      BY <1>1, <1>4 DEF Accounts!CreateUserHandler, Accounts!Create
  <2> DEFINE q == [op |-> "insert", by |-> by, user |-> None, row |-> row, raced |-> FALSE]
  <2>2. q \in Inserts
      BY DEF Inserts
  <2> QED BY <2>1, <2>2, AccountBegin DEF Sound
<1>5. CASE Accounts!UpdateUserHandler(o, by, u)
  <2>1. PICK e \in Emails, k \in Accounts!Roles : Accounts!UpdateUser(o, by, u, e, k)
      BY <1>5 DEF Accounts!UpdateUserHandler
  <2> DEFINE row == [email |-> e, role |-> k]
             q == [op |-> "update", by |-> by, user |-> u, row |-> row, raced |-> FALSE]
  <2>2. q \in Updates
      BY DEF Updates
  <2> QED BY <2>1, <2>2, AccountBegin DEF Sound, Accounts!UpdateUser
<1>6. CASE Accounts!DisableUserHandler(o, by, u)
  <2>1. Accounts!Disable(o, by, u)
      BY <1>6 DEF Accounts!DisableUserHandler
  <2> DEFINE row == [status |-> "disabled"]
             q == [op |-> "disable", by |-> by, user |-> u, row |-> row, raced |-> FALSE]
  <2>2. q \in Disables
      BY DEF Disables
  <2> QED BY <2>1, <2>2, AccountBegin DEF Sound, Accounts!Disable
<1>7. CASE Accounts!ResetUserPasswordHandler(o, by, u)
  <2>1. PICK p \in Passwords : Accounts!ResetPassword(o, by, u, p)
      BY <1>7 DEF Accounts!ResetUserPasswordHandler
  <2> DEFINE row == [hash |-> Accounts!hashPassword(p)]
             q == [op |-> "reset", by |-> by, user |-> u, row |-> row, raced |-> FALSE]
  <2>2. q \in Resets
      BY <1>2 DEF Resets
  <2> QED BY <2>1, <2>2, AccountBegin DEF Sound, Accounts!ResetPassword
<1> QED BY <1>3, <1>4, <1>5, <1>6, <1>7

(* A write of another request leaves a request sound: if the password changed *)
(* under it, it is marked.                                                  *)
LEMMA SoundStays ==
  ASSUME RowAssumption, AccountInv, NEW u \in Users, NEW row \in Row,
         users' = [users EXCEPT ![u] = row],
         NEW q, Sound(q), q.user = u => row.hash = users[u].hash
  PROVE  Sound(q)'
<1>1. Accounts!Stored \subseteq Accounts!Stored'
    BY DEF RowAssumption, AccountInv, Accounts!Stored
<1>2. q.user \in Accounts!Stored => users'[q.user].hash = users[q.user].hash
    BY DEF AccountInv, Accounts!Stored
<1> QED BY <1>1, <1>2 DEF Sound, Accounts!CompareHashAndPassword

LEMMA RacedStays ==
  ASSUME RowAssumption, AccountInv, NEW u \in Users, NEW row \in Row,
         users' = [users EXCEPT ![u] = row],
         NEW q, Sound(q), q.user = u
  PROVE  Sound([q EXCEPT !.raced = TRUE])'
<1> DEFINE new == [q EXCEPT !.raced = TRUE]
<1>1. Accounts!Stored \subseteq Accounts!Stored'
    BY DEF RowAssumption, AccountInv, Accounts!Stored
<1>2. u # None
    BY DEF RowAssumption
<1>3. q \in Updates \cup Resets \cup Disables \cup Changes
    BY <1>2 DEF Sound, Accounts!NoReq, Inserts
<1>4. /\ q \in Updates => new \in Updates
      /\ q \in Resets => new \in Resets
      /\ q \in Disables => new \in Disables
      /\ q \in Changes => new \in Changes
    BY DEF Updates, Resets, Disables, Changes
<1>5. new.user = q.user /\ new.by = q.by /\ new.raced = TRUE
    BY <1>3 DEF Updates, Resets, Disables, Changes
<1>6. q.user \in Accounts!Stored
    BY <1>2, <1>3 DEF Sound, Accounts!NoReq, Inserts
<1>7. q \in Disables => q.by # q.user
    BY <1>2 DEF Sound, Accounts!NoReq, Inserts, Updates, Resets, Changes, Disables
<1> HIDE DEF new
<1>8. Sound(new)'
    BY <1>1, <1>3, <1>4, <1>5, <1>6, <1>7 DEF Sound
<1> QED BY <1>8 DEF new

LEMMA AnswerKeeps ==
  ASSUME RowAssumption, AccountInv, NEW o \in Reqs, NEW u \in Users, NEW row \in Row,
         Accounts!Answer(o, u, row)
  PROVE  AccountInv'
<1>1. users' = [users EXCEPT ![u] = row] /\ UNCHANGED tokens
    BY DEF Accounts!Answer
<1>2. users' \in [Users -> Row \cup {None}]
    BY <1>1 DEF AccountInv
<1>3. tokens' \subseteq Accounts!Stored'
    BY <1>1 DEF RowAssumption, AccountInv, Accounts!Stored
<1>4. DOMAIN request' = Reqs /\ request'[o] = Accounts!NoReq
    BY DEF Accounts!Answer
<1>5. ASSUME NEW x \in Reqs PROVE Sound(request[x])'
  <2>1. PICK q : q = request[x]
      OBVIOUS
  <2>2. PICK new : new = request'[x]
      OBVIOUS
  <2>3. Sound(q)
      BY <2>1 DEF AccountInv
  <2>4. Sound(new)'
    <3>1. CASE x = o
        BY <1>4, <2>2, <3>1 DEF Sound, Accounts!NoReq
    <3>2. CASE x # o /\ q.user = u /\ row.hash # users[u].hash
      <4>1. new = [q EXCEPT !.raced = TRUE]
          BY <2>1, <2>2, <3>2 DEF Accounts!Answer
      <4>2. Sound([q EXCEPT !.raced = TRUE])'
          BY <1>1, <2>3, <3>2, RacedStays
      <4> QED BY <4>1, <4>2
    <3>3. CASE x # o /\ (q.user = u => row.hash = users[u].hash)
      <4>1. new = q
          BY <2>1, <2>2, <3>3 DEF Accounts!Answer
      <4> QED BY <1>1, <2>3, <3>3, <4>1, SoundStays
    <3> QED BY <3>1, <3>2, <3>3
  <2> QED BY <2>2, <2>4 DEF Sound
<1> QED BY <1>2, <1>3, <1>4, <1>5 DEF AccountInv

(* Every write of a request is an answer with a row.                        *)
LEMMA WritesKeep ==
  ASSUME RowAssumption, AccountInv, NEW o \in Reqs,
         Accounts!Insert(o) \/ Accounts!Update(o) \/ Accounts!UpdateStatus(o)
           \/ Accounts!UpdatePassword(o) \/ Accounts!CallFails(o)
  PROVE  AccountInv'
<1>0. Sound(request[o])
    BY DEF AccountInv
<1>1. ASSUME Accounts!Refuse(o) PROVE AccountInv'
  <2>1. /\ request' = [request EXCEPT ![o] = Accounts!NoReq]
        /\ UNCHANGED <<users, tokens>>
      BY <1>1 DEF Accounts!Refuse
  <2>2. \A x \in Reqs : Sound(request[x])'
      BY <2>1 DEF AccountInv, Sound, Accounts!Stored, Accounts!CompareHashAndPassword,
                  Accounts!NoReq
  <2> QED BY <2>1, <2>2 DEF AccountInv, Accounts!Stored
<1>2. CASE Accounts!Insert(o)
  <2>1. request[o].row \in Row
      BY <1>0, <1>2 DEF Sound, Accounts!Insert, Accounts!NoReq, Inserts, Updates, Resets,
                        Disables, Changes
  <2> QED BY <1>1, <1>2, <2>1, AnswerKeeps DEF Accounts!Insert
<1>3. CASE Accounts!Update(o)
  <2>1. request[o] \in Updates /\ request[o].user \in Accounts!Stored
      BY <1>0, <1>3 DEF Sound, Accounts!Update, Accounts!NoReq, Inserts, Updates, Resets,
                        Disables, Changes
  <2>2. /\ request[o].user \in Users /\ users[request[o].user] \in Row
        /\ request[o].row.email \in Emails /\ request[o].row.role \in Accounts!Roles
      BY <2>1, StoredIs DEF Updates
  <2> QED BY <1>1, <1>3, <2>2, AnswerKeeps, RowUpdates DEF Accounts!Update
<1>4. CASE Accounts!UpdateStatus(o)
  <2>1. request[o] \in Disables /\ request[o].user \in Accounts!Stored
      BY <1>0, <1>4 DEF Sound, Accounts!UpdateStatus, Accounts!NoReq, Inserts, Updates,
                        Resets, Disables, Changes
  <2>2. /\ request[o].user \in Users /\ users[request[o].user] \in Row
        /\ request[o].row.status = "disabled"
      BY <2>1, StoredIs DEF Disables
  <2> QED BY <1>4, <2>2, AnswerKeeps, RowUpdates DEF Accounts!UpdateStatus
<1>5. CASE Accounts!UpdatePassword(o)
  <2>1. request[o] \in Resets \cup Changes /\ request[o].user \in Accounts!Stored
      BY <1>0, <1>5 DEF Sound, Accounts!UpdatePassword, Accounts!NoReq, Inserts, Updates,
                        Resets, Disables, Changes
  <2>2. /\ request[o].user \in Users /\ users[request[o].user] \in Row
        /\ request[o].row.hash \in Hash
      BY <2>1, StoredIs DEF Resets, Changes
  <2> QED BY <1>5, <2>2, AnswerKeeps, RowUpdates DEF Accounts!UpdatePassword
<1>6. CASE Accounts!CallFails(o)
    BY <1>1, <1>6 DEF Accounts!CallFails
<1> QED BY <1>2, <1>3, <1>4, <1>5, <1>6

(* The own profile is changed at once: the hash stays.                      *)
LEMMA ProfileKeeps ==
  ASSUME RowAssumption, AccountInv, NEW u \in Users, NEW e \in Emails,
         u \in tokens, Accounts!UpdateProfile(u, e)
  PROVE  AccountInv'
<1> DEFINE row == [users[u] EXCEPT !.email = e]
<1>1. users' = [users EXCEPT ![u] = row] /\ UNCHANGED <<tokens, request>>
    BY DEF Accounts!UpdateProfile, AccountInv
<1>2. row \in Row /\ row.hash = users[u].hash
  <2>1. users[u] \in Row
      BY StoredIs DEF AccountInv
  <2> QED BY <2>1, RowUpdates
<1> HIDE DEF row
<1>3. tokens' \subseteq Accounts!Stored'
    BY <1>1, <1>2 DEF RowAssumption, AccountInv, Accounts!Stored
<1>4. ASSUME NEW x \in Reqs PROVE Sound(request[x])'
  <2>1. PICK q : q = request[x]
      OBVIOUS
  <2>2. Sound(q)'
      BY <1>1, <1>2, <2>1, SoundStays DEF AccountInv
  <2> QED BY <1>1, <2>1, <2>2 DEF Sound
<1> QED BY <1>1, <1>2, <1>3, <1>4 DEF AccountInv

LEMMA AccountStep ==
  ASSUME RowAssumption, AccountInv, Accounts!Next PROVE AccountInv'
<1>1. ASSUME NEW n \in Names, NEW p \in Passwords, Accounts!Login(n, p) PROVE AccountInv'
  <2>1. UNCHANGED <<users, request>> /\ tokens' \subseteq Accounts!Stored
      BY <1>1 DEF Accounts!Login, Accounts!CheckUserInfo, AccountInv
  <2> QED BY <2>1 DEF AccountInv, Sound, Accounts!Stored, Accounts!CompareHashAndPassword
<1>2. ASSUME NEW u \in Users, Accounts!TokenExpires(u) PROVE AccountInv'
  <2>1. UNCHANGED <<users, request>> /\ tokens' \subseteq Accounts!Stored
      BY <1>2 DEF Accounts!TokenExpires, AccountInv
  <2> QED BY <2>1 DEF AccountInv, Sound, Accounts!Stored, Accounts!CompareHashAndPassword
<1>3. ASSUME NEW u \in Users, Accounts!UpdateProfileHandler(u) PROVE AccountInv'
    BY <1>3, ProfileKeeps DEF Accounts!UpdateProfileHandler
<1>4. ASSUME NEW o \in Reqs, Accounts!RequestStep(o) PROVE AccountInv'
    BY <1>4, RegisterKeeps, HandlersKeep, WritesKeep DEF Accounts!RequestStep
<1> QED BY <1>1, <1>2, <1>3, <1>4 DEF Accounts!Next

LEMMA AccountStart ==
  ASSUME RowAssumption, Accounts!AccountInit PROVE AccountInv
<1> DEFINE first == [name |-> RootName, email |-> RootEmail, role |-> "admin",
                     status |-> "active", hash |-> Accounts!hashPassword(RootPassword)]
<1>1. first \in Row
    BY DEF Row, Accounts!Roles, Accounts!hashPassword
<1> QED BY <1>1 DEF Accounts!AccountInit, AccountInv, Sound

(* The password given is compared, and nothing unnoticed happens to it after. *)
LEMMA ChangeIsKnown ==
  ASSUME AccountInv, NEW o \in Reqs, request[o].op = "change", ~request[o].raced
  PROVE  Accounts!CompareHashAndPassword(users[request[o].user].hash, request[o].row.old)
BY DEF AccountInv, Sound, Accounts!NoReq, Inserts, Updates, Resets, Disables, Changes

(* Active administrators that keep their columns stay active administrators. *)
LEMMA AdminsStay ==
  ASSUME RowAssumption, AccountInv, NEW S,
         \A x \in S : users'[x] \in Row /\ users'[x].role = users[x].role
                                         /\ users'[x].status = users[x].status
  PROVE  ActiveAdmins \cap S \subseteq ActiveAdmins'
BY DEF RowAssumption, ActiveAdmins, Accounts!Stored

LEMMA WritesNotLast ==
  ASSUME RowAssumption, AccountInv, NEW o \in Reqs,
         Accounts!Insert(o) \/ Accounts!Update(o) \/ Accounts!UpdateStatus(o)
           \/ Accounts!UpdatePassword(o),
         ActiveAdmins # {}, ActiveAdmins' = {}
  PROVE  /\ request'[o] = Accounts!NoReq
         /\ \/ request[o].op = "update"
            \/ request[o].op = "disable" /\ request[o].by \notin ActiveAdmins
<1>0. /\ Sound(request[o])
      /\ ActiveAdmins \subseteq Users /\ \A x \in ActiveAdmins : users[x] \in Row
    BY StoredIs DEF AccountInv, ActiveAdmins, Accounts!Stored
<1>1. UNCHANGED users => ActiveAdmins' = ActiveAdmins
    BY DEF ActiveAdmins, Accounts!Stored
<1>2. ASSUME NEW u \in Users, NEW row, Accounts!Answer(o, u, row)
      PROVE  /\ request'[o] = Accounts!NoReq
             /\ users'[u] = row /\ ActiveAdmins = {u}
  <2>1. /\ request'[o] = Accounts!NoReq /\ users'[u] = row
        /\ \A x \in Users \ {u} : users'[x] = users[x]
      BY <1>2 DEF Accounts!Answer, AccountInv
  <2>2. \A x \in ActiveAdmins \ {u} : users'[x] \in Row /\ users'[x].role = users[x].role
                                        /\ users'[x].status = users[x].status
      BY <1>0, <2>1
  <2>3. ActiveAdmins \cap (ActiveAdmins \ {u}) \subseteq ActiveAdmins'
      BY <2>2, AdminsStay
  <2> QED BY <2>1, <2>3
<1>3. ~Accounts!Insert(o)
  <2>1. SUFFICES ASSUME Accounts!Insert(o) PROVE FALSE
      OBVIOUS
  <2>2. PICK u \in Users \ Accounts!Stored : Accounts!Answer(o, u, request[o].row)
      BY <1>1, <2>1 DEF Accounts!Insert, Accounts!Refuse
  <2>3. ActiveAdmins = {u}
      BY <1>2, <2>2
  <2> QED BY <2>2, <2>3 DEF ActiveAdmins
<1>4. CASE Accounts!Update(o)
  <2>1. request[o] \in Updates
      BY <1>0, <1>4 DEF Sound, Accounts!Update, Accounts!NoReq, Inserts, Resets,
                        Disables, Changes
  <2>2. request[o].user \in Users /\ request[o].op = "update"
      BY <2>1 DEF Updates
  <2> QED BY <1>1, <1>2, <1>4, <2>2 DEF Accounts!Update, Accounts!Refuse
<1>5. CASE Accounts!UpdateStatus(o)
  <2>1. request[o] \in Disables /\ request[o].by # request[o].user
      BY <1>0, <1>5 DEF Sound, Accounts!UpdateStatus, Accounts!NoReq, Inserts, Updates,
                        Resets, Changes
  <2>2. request[o].user \in Users /\ request[o].op = "disable"
      BY <2>1 DEF Disables
  <2> QED BY <1>2, <1>5, <2>1, <2>2 DEF Accounts!UpdateStatus
<1>6. ~Accounts!UpdatePassword(o)
  <2>1. SUFFICES ASSUME Accounts!UpdatePassword(o) PROVE FALSE
      OBVIOUS
  <2>2. request[o] \in Resets \cup Changes
      BY <1>0, <2>1 DEF Sound, Accounts!UpdatePassword, Accounts!NoReq, Inserts, Updates,
                        Disables
  <2>3. request[o].user \in Users /\ request[o].row.hash \in Hash
      BY <2>2 DEF Resets, Changes
  <2> DEFINE u == request[o].user
             row == [users[u] EXCEPT !.hash = request[o].row.hash]
  <2>4. users'[u] = row /\ ActiveAdmins = {u}
      BY <1>2, <2>1, <2>3 DEF Accounts!UpdatePassword
  <2>5. users'[u] \in Row /\ users'[u].role = users[u].role
          /\ users'[u].status = users[u].status
    <3>1. row \in Row /\ row.role = users[u].role /\ row.status = users[u].status
      <4>1. users[u] \in Row
          BY <1>0, <2>4
      <4> QED BY <2>3, <4>1, RowUpdates
    <3> QED BY <2>4, <3>1
  <2> QED BY <2>4, <2>5, AdminsStay
<1> QED BY <1>3, <1>4, <1>5, <1>6

LEMMA LastAdmin ==
  ASSUME RowAssumption, AccountInv, Accounts!Next,
         ActiveAdmins # {}, ActiveAdmins' = {}
  PROVE  \E o \in Reqs :
           /\ request'[o] = Accounts!NoReq
           /\ \/ request[o].op = "update"
              \/ request[o].op = "disable" /\ request[o].by \notin ActiveAdmins
<1>1. users' # users
    BY DEF ActiveAdmins, Accounts!Stored
<1>2. ASSUME NEW u \in Users, Accounts!UpdateProfileHandler(u) PROVE FALSE
  <2>1. PICK e \in Emails : users' = [users EXCEPT ![u].email = e]
      BY <1>2 DEF Accounts!UpdateProfileHandler, Accounts!UpdateProfile
  <2>2. \A x \in ActiveAdmins : x \in Users /\ users[x] \in Row
      BY StoredIs DEF ActiveAdmins, Accounts!Stored
  <2>3. ASSUME NEW x \in ActiveAdmins
        PROVE  users'[x] \in Row /\ users'[x].role = users[x].role
                 /\ users'[x].status = users[x].status
    <3>1. users'[x] = users[x] \/ users'[x] = [users[x] EXCEPT !.email = e]
        BY <2>1, <2>2 DEF AccountInv
    <3>2. [users[x] EXCEPT !.email = e] \in Row
            /\ [users[x] EXCEPT !.email = e].role = users[x].role
            /\ [users[x] EXCEPT !.email = e].status = users[x].status
        BY <2>2, RowUpdates
    <3> QED BY <2>2, <3>1, <3>2
  <2>4. ActiveAdmins \cap ActiveAdmins \subseteq ActiveAdmins'
      BY <2>3, AdminsStay
  <2> QED BY <2>4
<1>3. PICK o \in Reqs : Accounts!Insert(o) \/ Accounts!Update(o) \/ Accounts!UpdateStatus(o)
                          \/ Accounts!UpdatePassword(o)
    BY <1>1, <1>2
    DEF Accounts!Next, Accounts!Login, Accounts!TokenExpires, Accounts!RequestStep,
        Accounts!RegisterHandler, Accounts!Register, Accounts!Begin, Accounts!CallFails,
        Accounts!Refuse, Accounts!ChangePasswordHandler, Accounts!ChangePassword,
        Accounts!CreateUserHandler, Accounts!Create, Accounts!UpdateUserHandler,
        Accounts!UpdateUser, Accounts!DisableUserHandler, Accounts!Disable,
        Accounts!ResetUserPasswordHandler, Accounts!ResetPassword
<1> QED BY <1>3, WritesNotLast

-----------------------------------------------------------------------------
\* The parts together.

PartsInv == RoutingInv /\ WorkInv /\ AccountInv

(* A part at rest keeps its invariant.                                      *)
LEMMA RoutingRests == RoutingInv /\ UNCHANGED tenantVars => RoutingInv'
BY DEF RoutingInv, RoutingType, PoolInv, CallsInv, RowsInv, tenantVars, Routing!At,
       Routing!Name, Routing!Head1

LEMMA WorkRests == WorkInv /\ UNCHANGED workVars => WorkInv'
BY DEF WorkInv, WorkType, StepInv, RaceInv, Batch, workVars

LEMMA AccountRests == AccountInv /\ UNCHANGED accountVars => AccountInv'
BY DEF AccountInv, Sound, accountVars, Accounts!Stored, Accounts!CompareHashAndPassword

(* The pools and rows of tenants, the batches of days and the checks of      *)
(* requests stay in order, in every interleaving.                            *)
THEOREM PartsInvHolds == RequestSpec => []PartsInv
<1>1. RequestInit => PartsInv
    BY RowAssumption, TenantAssumption, RoutingStart, WorkStart, AccountStart
    DEF RequestInit, PartsInv
<1>2. PartsInv /\ [RequestNext]_requestVars => PartsInv'
  <2> SUFFICES ASSUME PartsInv, [RequestNext]_requestVars PROVE PartsInv'
      OBVIOUS
  <2>1. RoutingInv'
      BY TenantAssumption, RoutingStep, RoutingRests DEF PartsInv, RequestNext, requestVars
  <2>2. WorkInv'
      BY DailyAssumption, WorkStep, WorkRests DEF PartsInv, RequestNext, requestVars
  <2>3. AccountInv'
      BY RowAssumption, AccountStep, AccountRests DEF PartsInv, RequestNext, requestVars
  <2> QED BY <2>1, <2>2, <2>3 DEF PartsInv
<1> QED BY <1>1, <1>2, PTL DEF RequestSpec

(* One pool is opened for a database however many requests come for it: GetDB *)
(* dials under the mutex, and what it finds or opens it keeps.               *)
THEOREM OnePoolPerDatabaseHolds == RequestSpec => []OnePoolPerDatabase
<1>1. PartsInv => OnePoolPerDatabase
    BY DEF PartsInv, RoutingInv, PoolInv, OnePoolPerDatabase
<1> QED BY <1>1, PartsInvHolds, PTL

(* A request behind TenantMiddleware calls the store for the database of its *)
(* tenant only, one without a tenant finds the ODS source in that of the      *)
(* configuration; and no database holds what was saved for another tenant.   *)
THEOREM RoutedToOwnHolds == RequestSpec => []RoutedToOwn
<1>1. PartsInv => RoutedToOwn
  <2> SUFFICES ASSUME PartsInv PROVE RoutedToOwn
      OBVIOUS
  <2>1. ASSUME NEW o \in Reqs, call[o] # None
        PROVE  Routing!Name(o) = IF call[o].tenant = None THEN Routing!Public
                                 ELSE DbOf[call[o].tenant]
    <3>1. call[o].tenant \in Tenants \cup {None} /\ CallsOK(call[o].tenant, call[o].calls)
        BY <2>1 DEF PartsInv, RoutingInv, RoutingType, CallsInv, TenantRequest
    <3>2. Head(call[o].calls) \in RightCalls(call[o].tenant)
        BY <3>1 DEF CallsOK
    <3>3. \A t \in Tenants : DbOf[t] # Empty
        BY TenantAssumption DEF TenantAssumption, Routing!Databases
    <3> QED BY <3>1, <3>2, <3>3 DEF RightCalls, Routing!Name, Routing!Head1
  <2> QED BY <2>1 DEF PartsInv, RoutingInv, RowsInv, RoutedToOwn, InStore, Routing!At
<1> QED BY <1>1, PartsInvHolds, PTL

(* Two batches of a day come of overlapping calls only, and a stored batch   *)
(* has its root in the queue, or the call that stored it ended before.       *)
THEOREM BatchHasItsRootHolds == RequestSpec => []BatchHasItsRoot
<1>1. PartsInv => BatchHasItsRoot
    BY WorkGood DEF PartsInv
<1> QED BY <1>1, PartsInvHolds, PTL

(* The last active administrator is lost in two ways only: by a change of    *)
(* roles, and by one who is no active administrator any more.                *)
THEOREM AdminStaysHolds == RequestSpec => AdminStays
<1>1. PartsInv /\ [RequestNext]_requestVars =>
        [ActiveAdmins # {} /\ ActiveAdmins' = {} =>
           \E o \in Reqs :
             /\ request'[o] = Accounts!NoReq
             /\ \/ request[o].op = "update"
                \/ request[o].op = "disable" /\ request[o].by \notin ActiveAdmins
        ]_<<users, request>>
    BY RowAssumption, LastAdmin DEF PartsInv, RequestNext, requestVars, accountVars
<1> QED BY <1>1, PartsInvHolds, PTL DEF RequestSpec, AdminStays

(* A password is changed by its owner only if the one the owner gave is still *)
(* it, or the change is a known race.                                        *)
THEOREM ChangeKnowsPasswordHolds == RequestSpec => ChangeKnowsPassword
<1>1. PartsInv /\ [RequestNext]_requestVars =>
        [\A o \in Reqs :
           request[o].op = "change" /\ request'[o] = Accounts!NoReq /\ users' # users
             /\ ~request[o].raced =>
             Accounts!CompareHashAndPassword(users[request[o].user].hash, request[o].row.old)
        ]_<<users, request>>
    BY ChangeIsKnown DEF PartsInv
<1> QED BY <1>1, PartsInvHolds, PTL DEF RequestSpec, ChangeKnowsPassword

-----------------------------------------------------------------------------
\* DAG instantiation, for any canvas and any schedules.

USE RootAssumption, InstantsAssumption, FiringsAssumption, NoNodeAssumption

\* What the loop uses of a schedule.
LEMMA ScheduleFacts ==
  ASSUME NEW s \in Schedules
  PROVE  /\ Len(s) \in 1..MaxFirings /\ DOMAIN s = 1..Len(s)
         /\ \A i \in DOMAIN s : s[i] \in Int
         /\ \A i, j \in DOMAIN s : i < j => s[i] < s[j]
<1>1. PICK k \in 1..MaxFirings : s \in [1..k -> Instants]
  BY DEF Schedules
<1>2. s \in Seq(Instants) /\ k \in Nat
  BY <1>1
<1>3. Len(s) = k
  BY <1>1, <1>2
<1>4. \A i, j \in DOMAIN s : i < j => s[i] < s[j]
  BY DEF Schedules
<1> QED
  BY <1>1, <1>3, <1>4

LEMMA TimesFacts ==
  ASSUME TypeOK, NEW n \in Nodes
  PROVE  /\ Len(times[n]) \in 1..MaxFirings /\ DOMAIN times[n] = 1..Len(times[n])
         /\ \A i \in DOMAIN times[n] : times[n][i] \in Int
         /\ \A i, j \in DOMAIN times[n] : i < j => times[n][i] < times[n][j]
<1>1. times[n] \in Schedules
  BY DEF TypeOK
<1> QED
  BY <1>1, ScheduleFacts

\* The inputs do not change, and with them the graph.
LEMMA InputsStay ==
  ASSUME UNCHANGED inputs
  PROVE  /\ DagNodes' = DagNodes /\ Edges' = Edges
         /\ \A n : Ins(n)' = Ins(n)
         /\ \A u, j, n, k : Wanted(u, j, n, k)' = Wanted(u, j, n, k)
BY DEF inputs, DagNodes, Edges, Ins, Wanted, Right

\* The lines kept are the lines between nodes that exist.
LEMMA EdgesAre ==
  \A u, n : <<u, n>> \in Edges <=> <<u, n>> \in lines /\ {u, n} \subseteq existing
BY DEF Edges, DagNodes

LEMMA WantedIs ==
  \A u, j, n, k :
    Wanted(u, j, n, k) <=>
      /\ <<u, n>> \in Edges
      /\ j \in DOMAIN times[u] /\ k \in DOMAIN times[n]
      /\ Right(u, j, times[n][k])
BY EdgesAre DEF Wanted

LEMMA InsAreNodes ==
  ASSUME TypeOK, NEW n \in Nodes
  PROVE  Ins(n) \subseteq DagNodes /\ DagNodes \subseteq Nodes
BY DEF TypeOK, Ins, Edges, DagNodes
-----------------------------------------------------------------------------
LEMMA TypeStep == TypeOK /\ LoopInv /\ [Next]_vars => TypeOK'
<1> SUFFICES ASSUME TypeOK, LoopInv, [Next]_vars PROVE TypeOK'
  OBVIOUS
<1>1. CASE StepBack
  BY <1>1, InputsStay DEF StepBack, StepsBack, TypeOK, inputs
<1>2. CASE Depend
  <2>1. up \in Nodes /\ node \in Nodes /\ idx \in 1..MaxFirings /\ pIdx \in 1..MaxFirings
    <3>1. node \in Nodes /\ up \in Nodes
      BY <1>2, InsAreNodes DEF Depend, LoopInv, TypeOK, Ins, DagNodes
    <3> QED
      BY <1>2, <3>1, TimesFacts DEF Depend, LoopInv, TypeOK
  <2>2. depends' \subseteq Instance \X Instance
    BY <1>2, <2>1 DEF Depend, TypeOK, Instance
  <2> QED
    BY <1>2, <2>1, <2>2, InputsStay DEF Depend, TypeOK, inputs
<1>3. ASSUME NEW n \in Nodes, PickNode(n) PROVE TypeOK'
  BY <1>3, InputsStay, InsAreNodes DEF PickNode, TypeOK, inputs
<1>4. ASSUME NEW u \in Nodes, PickUpstream(u) PROVE TypeOK'
  <2>1. node \in Nodes
    BY <1>4 DEF PickUpstream, LoopInv, TypeOK, DagNodes
  <2> QED
    BY <1>4, <2>1, InputsStay, TimesFacts DEF PickUpstream, TypeOK, inputs
<1>5. CASE UNCHANGED vars
  BY <1>5, InputsStay DEF vars, inputs, TypeOK
<1> QED
  BY <1>1, <1>2, <1>3, <1>4, <1>5 DEF Next

LEMMA LoopStep == TypeOK /\ LoopInv /\ [Next]_vars => LoopInv'
<1> SUFFICES ASSUME TypeOK, LoopInv, [Next]_vars PROVE LoopInv'
  OBVIOUS
<1>1. CASE StepBack
  <2>1. node \in Nodes /\ up \in Nodes
    BY <1>1 DEF StepBack, LoopInv, TypeOK, Ins, DagNodes
  <2>2. pIdx' = pIdx - 1 /\ pIdx > 1 /\ times[node][idx] < times[up][pIdx]
    BY <1>1 DEF StepBack, StepsBack
  <2>3. pIdx' \in DOMAIN times[up]
    BY <1>1, <2>1, <2>2, TimesFacts DEF LoopInv, StepBack
  <2>4. \A i \in DOMAIN times[up] : i > pIdx' => times[node][idx] < times[up][i]
    BY <1>1, <2>1, <2>2, TimesFacts DEF LoopInv, StepBack, TypeOK
  <2> QED
    BY <1>1, <2>3, <2>4, InputsStay DEF StepBack, LoopInv, inputs
<1>2. CASE Depend
  <2>1. node \in Nodes /\ up \in Nodes
    BY <1>2 DEF Depend, LoopInv, TypeOK, Ins, DagNodes
  <2>2. idx' = idx - 1 /\ idx > 0 /\ idx \in DOMAIN times[node]
    BY <1>2 DEF Depend, LoopInv
  <2>3. ASSUME idx' > 0
        PROVE  /\ idx' \in DOMAIN times[node]
               /\ \A i \in DOMAIN times[up] : i > pIdx => times[node][idx'] < times[up][i]
    <3>1. idx' \in DOMAIN times[node] /\ times[node][idx'] < times[node][idx]
      BY <2>1, <2>2, <2>3, TimesFacts
    <3>2. times[node][idx] \in Int /\ times[node][idx'] \in Int
      BY <2>1, <2>2, <3>1, TimesFacts
    <3>3. ASSUME NEW i \in DOMAIN times[up], i > pIdx
          PROVE  times[node][idx'] < times[up][i]
      <4>1. times[node][idx] < times[up][i]
        BY <2>2, <3>3 DEF LoopInv
      <4>2. times[up][i] \in Int
        BY <2>1, TimesFacts
      <4> QED
        BY <3>1, <3>2, <4>1, <4>2
    <3> QED
      BY <3>1, <3>3
  <2> QED
    BY <1>2, <2>2, <2>3, InputsStay DEF Depend, LoopInv, inputs
<1>3. ASSUME NEW n \in Nodes, PickNode(n) PROVE LoopInv'
  <2>1. n # NoNode
    OBVIOUS
  <2> QED
    BY <1>3, <2>1, InputsStay, InsAreNodes DEF PickNode, LoopInv, TypeOK, inputs
<1>4. ASSUME NEW u \in Nodes, PickUpstream(u) PROVE LoopInv'
  <2>1. node \in Nodes
    BY <1>4 DEF PickUpstream, LoopInv, TypeOK, DagNodes
  <2>2. /\ idx' \in DOMAIN times[node] /\ pIdx' \in DOMAIN times[u]
        /\ \A i \in DOMAIN times[u] : ~(i > pIdx')
    BY <1>4, <2>1, TimesFacts DEF PickUpstream
  <2> QED
    BY <1>4, <2>1, <2>2, InputsStay DEF PickUpstream, LoopInv, TypeOK, inputs
<1>5. CASE UNCHANGED vars
  BY <1>5, InputsStay DEF vars, inputs, LoopInv
<1> QED
  BY <1>1, <1>2, <1>3, <1>4, <1>5 DEF Next
-----------------------------------------------------------------------------
\* While nothing is added, it is enough that no edge's instance becomes handled.
LEMMA NothingAdded ==
  ASSUME DependsInv, UNCHANGED inputs, UNCHANGED depends,
         \A u, n \in Nodes, k \in 1..MaxFirings :
           <<u, n>> \in Edges /\ k \in DOMAIN times[n]
             => (Handled(u, n, k)' <=> Handled(u, n, k))
  PROVE  DependsInv'
<1>1. /\ times' = times /\ Edges' = Edges
      /\ \A u, j, n, k : Wanted(u, j, n, k)' = Wanted(u, j, n, k)
  BY InputsStay DEF inputs
<1>2. ASSUME NEW u \in Nodes, NEW n \in Nodes, NEW k \in 1..MaxFirings
      PROVE  /\ \A j \in 1..MaxFirings :
                  <<<<u, j>>, <<n, k>>>> \in depends'
                    <=> Handled(u, n, k)' /\ Wanted(u, j, n, k)
             /\ Handled(u, n, k)' /\ <<u, n>> \in Edges /\ k \in DOMAIN times[n] =>
                  \E j \in 1..MaxFirings : <<<<u, j>>, <<n, k>>>> \in depends'
  <2>1. \A j \in 1..MaxFirings : Wanted(u, j, n, k) =>
          <<u, n>> \in Edges /\ k \in DOMAIN times[n]
    BY WantedIs
  <2> QED
    BY <2>1 DEF DependsInv
<1> QED
  BY <1>1, <1>2 DEF DependsInv

\* Where the loop does not step back, pIdx is the one instance to wait for.
LEMMA PIdxIsRight ==
  ASSUME TypeOK, LoopInv, idx > 0, ~StepsBack
  PROVE  /\ Wanted(up, pIdx, node, idx)
         /\ \A j \in 1..MaxFirings : Wanted(up, j, node, idx) => j = pIdx
<1>1. node \in Nodes /\ up \in Nodes /\ <<up, node>> \in Edges
  BY DEF LoopInv, TypeOK, Ins, DagNodes
<1>2. idx \in DOMAIN times[node] /\ pIdx \in DOMAIN times[up] /\ pIdx \in 1..MaxFirings
  BY <1>1, TimesFacts DEF LoopInv
<1>3. times[node][idx] \in Int /\ times[up][pIdx] \in Int
  BY <1>1, <1>2, TimesFacts
<1>4. times[up][pIdx] <= times[node][idx] \/ pIdx = 1
  BY <1>2, <1>3 DEF StepsBack
<1>5. Wanted(up, pIdx, node, idx)
  BY <1>1, <1>2, <1>4, WantedIs DEF Right, LoopInv
<1>6. ASSUME NEW j \in 1..MaxFirings, Wanted(up, j, node, idx) PROVE j = pIdx
  <2>1. j \in DOMAIN times[up] /\ times[up][j] \in Int
    BY <1>1, <1>6, TimesFacts, WantedIs
  <2>2. CASE j < pIdx
    <3>1. times[node][idx] < times[up][pIdx]
      BY <1>2, <1>6, <2>2, WantedIs DEF Right
    <3> QED
      BY <1>2, <1>3, <1>4, <2>2, <3>1
  <2>3. CASE j > pIdx
    <3>1. times[node][idx] < times[up][j]
      BY <2>1, <2>3 DEF LoopInv
    <3>2. times[up][j] <= times[node][idx]
      <4>1. Right(up, j, times[node][idx])
        BY <1>6, WantedIs
      <4>2. j # 1
        BY <1>2, <2>3
      <4> QED
        BY <4>1, <4>2 DEF Right
    <3> QED
      BY <1>3, <2>1, <3>1, <3>2
  <2> QED
    BY <1>2, <2>2, <2>3
<1> QED
  BY <1>5, <1>6

LEMMA DependsStep == IndInv /\ [Next]_vars => DependsInv'
<1> SUFFICES ASSUME TypeOK, LoopInv, DependsInv, [Next]_vars PROVE DependsInv'
  BY DEF IndInv
<1>1. CASE StepBack
  BY <1>1, NothingAdded DEF StepBack, Handled, inputs
<1>2. CASE Depend
  <2>1. node \in Nodes /\ up \in Nodes /\ up \notin insLeft /\ node \notin nodesLeft
    BY <1>2 DEF Depend, LoopInv, TypeOK, Ins, DagNodes
  <2>2. idx \in 1..MaxFirings /\ pIdx \in 1..MaxFirings
    BY <1>2, <2>1, TimesFacts DEF Depend, LoopInv
  <2>3. /\ Wanted(up, pIdx, node, idx)
        /\ \A j \in 1..MaxFirings : Wanted(up, j, node, idx) => j = pIdx
    BY <1>2, PIdxIsRight DEF Depend
  <2>4. /\ times' = times /\ Edges' = Edges
        /\ \A u, j, n, k : Wanted(u, j, n, k)' = Wanted(u, j, n, k)
    BY <1>2, InputsStay DEF Depend, inputs
  <2>5. ASSUME NEW u \in Nodes, NEW n \in Nodes, NEW k \in 1..MaxFirings
        PROVE  /\ \A j \in 1..MaxFirings :
                    <<<<u, j>>, <<n, k>>>> \in depends'
                      <=> Handled(u, n, k)' /\ Wanted(u, j, n, k)
               /\ Handled(u, n, k)' /\ <<u, n>> \in Edges /\ k \in DOMAIN times[n] =>
                    \E j \in 1..MaxFirings : <<<<u, j>>, <<n, k>>>> \in depends'
    <3>1. CASE u = up /\ n = node /\ k = idx
      <4>1. ~Handled(u, n, k) /\ Handled(u, n, k)'
        BY <1>2, <2>1, <2>2, <3>1 DEF Handled, Depend
      <4>2. \A j \in 1..MaxFirings : <<<<u, j>>, <<n, k>>>> \notin depends
        BY <4>1 DEF DependsInv
      <4>3. \A j \in 1..MaxFirings : <<<<u, j>>, <<n, k>>>> \in depends' <=> j = pIdx
        BY <1>2, <3>1, <4>2 DEF Depend
      <4> QED
        BY <2>2, <2>3, <3>1, <4>1, <4>3
    <3>2. CASE ~(u = up /\ n = node /\ k = idx)
      <4>1. Handled(u, n, k)' <=> Handled(u, n, k)
        BY <1>2, <2>1, <2>2, <3>2 DEF Handled, Depend
      <4>2. \A j \in 1..MaxFirings :
              <<<<u, j>>, <<n, k>>>> \in depends' <=> <<<<u, j>>, <<n, k>>>> \in depends
        BY <1>2, <3>2 DEF Depend
      <4> QED
        BY <4>1, <4>2 DEF DependsInv
    <3> QED
      BY <3>1, <3>2
  <2> QED
    BY <2>4, <2>5 DEF DependsInv
<1>3. ASSUME NEW m \in Nodes, PickNode(m) PROVE DependsInv'
  <2>1. ASSUME NEW u \in Nodes, NEW n \in Nodes, NEW k \in 1..MaxFirings,
               <<u, n>> \in Edges
        PROVE  Handled(u, n, k)' <=> Handled(u, n, k)
    <3>1. CASE n = m
      BY <1>3, <2>1, <3>1 DEF Handled, PickNode, Ins
    <3>2. CASE n # m
      BY <1>3, <3>2 DEF Handled, PickNode
    <3> QED
      BY <3>1, <3>2
  <2> QED
    BY <1>3, <2>1, NothingAdded DEF PickNode
<1>4. ASSUME NEW v \in Nodes, PickUpstream(v) PROVE DependsInv'
  <2>1. node \in Nodes /\ node \notin nodesLeft
    BY <1>4 DEF PickUpstream, LoopInv, TypeOK, DagNodes
  <2>2. ASSUME NEW u \in Nodes, NEW n \in Nodes, NEW k \in 1..MaxFirings,
               k \in DOMAIN times[n]
        PROVE  Handled(u, n, k)' <=> Handled(u, n, k)
    <3>1. CASE n = node /\ u = v
      <4>1. ~(k > idx')
        BY <1>4, <2>1, <2>2, <3>1, TimesFacts DEF PickUpstream
      <4> QED
        BY <1>4, <3>1, <4>1 DEF Handled, PickUpstream
    <3>2. CASE ~(n = node /\ u = v)
      BY <1>4, <3>2 DEF Handled, PickUpstream
    <3> QED
      BY <3>1, <3>2
  <2> QED
    BY <1>4, <2>2, NothingAdded DEF PickUpstream
<1>5. CASE UNCHANGED vars
  BY <1>5, NothingAdded DEF vars, inputs, Handled
<1> QED
  BY <1>1, <1>2, <1>3, <1>4, <1>5 DEF Next

-----------------------------------------------------------------------------
(* The inductive invariant of BuildInstanceDepend's loops (dag.go).         *)
THEOREM IndInvHolds == Spec => []IndInv
<1>1. Init => IndInv
  <2> SUFFICES ASSUME Init PROVE IndInv
    OBVIOUS
  <2>1. TypeOK
    BY DEF Init, TypeOK
  <2>2. LoopInv
    BY NoNodeAssumption, <2>1 DEF Init, LoopInv, DagNodes, TypeOK
  <2>3. \A u, n \in Nodes, k \in 1..MaxFirings :
          <<u, n>> \in Edges => ~Handled(u, n, k)
    BY DEF Init, Handled, Edges
  <2>4. DependsInv
    BY <2>3, WantedIs DEF Init, DependsInv
  <2> QED
    BY <2>1, <2>2, <2>4 DEF IndInv
<1>2. IndInv /\ [Next]_vars => IndInv'
  BY TypeStep, LoopStep, DependsStep DEF IndInv
<1> QED
  BY <1>1, <1>2, PTL DEF Spec

\* At the end every instance of an edge is handled.
LEMMA FinishedHandled ==
  ASSUME IndInv, Finished, NEW u \in Nodes, NEW n \in Nodes, NEW k \in 1..MaxFirings
  PROVE  Handled(u, n, k)
BY DEF Finished, Handled, IndInv, TypeOK

(* The dependencies that are computed are exactly those wanted, for any canvas, *)
(* every schedule and every order of the maps.                               *)
THEOREM DependsExactlyHolds == Spec => []DependsExactly
<1>1. IndInv => DependsExactly
  <2> SUFFICES ASSUME IndInv, Finished, NEW u \in Nodes, NEW n \in Nodes,
                      NEW j \in 1..MaxFirings, NEW k \in 1..MaxFirings
               PROVE  <<<<u, j>>, <<n, k>>>> \in depends <=> Wanted(u, j, n, k)
    BY DEF DependsExactly
  <2>1. Handled(u, n, k)
    BY FinishedHandled
  <2> QED
    BY <2>1 DEF IndInv, DependsInv
<1> QED
  BY <1>1, IndInvHolds, PTL

(* An instance waits for nothing only if its node has no upstream node: the  *)
(* loop never skips an instance (dag.go:80-94).                              *)
THEOREM OnlySourcesAreFreeHolds == Spec => []OnlySourcesAreFree
<1>1. IndInv => OnlySourcesAreFree
  <2> SUFFICES ASSUME IndInv, Finished, NEW n \in DagNodes, NEW k \in DOMAIN times[n],
                      \A u \in Nodes, j \in 1..MaxFirings :
                        <<<<u, j>>, <<n, k>>>> \notin depends,
                      NEW u \in existing, <<u, n>> \in lines
               PROVE  FALSE
    BY DEF OnlySourcesAreFree
  <2>1. n \in Nodes /\ u \in Nodes /\ <<u, n>> \in Edges
    BY EdgesAre DEF IndInv, TypeOK, DagNodes
  <2>2. k \in 1..MaxFirings
    BY <2>1, TimesFacts DEF IndInv
  <2>3. Handled(u, n, k)
    BY <2>1, <2>2, FinishedHandled
  <2> QED
    BY <2>1, <2>2, <2>3 DEF IndInv, DependsInv
<1> QED
  BY <1>1, IndInvHolds, PTL

(* In the composed specification as well: what the runs check.              *)
THEOREM RequestsDepend == RequestSpec => []DependsExactly
<1>1. RequestInit => Init
    BY DEF RequestInit
<1>2. [RequestNext]_requestVars => [Next]_vars
    BY DEF RequestNext, requestVars
<1>3. RequestSpec => Spec
    BY <1>1, <1>2, PTL DEF RequestSpec, Spec
<1> QED BY <1>3, DependsExactlyHolds, PTL
=============================================================================
