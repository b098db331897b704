--------------------------- MODULE TenantRouting ---------------------------
(***************************************************************************)
(* Requests and the databases they work on.  TenantMiddleware checks the     *)
(* membership and puts the name of the tenant's database into the context of *)
(* the request; the services take it from there for every call of the store, *)
(* and SaasDb.GetDB finds or opens the pool of that database under a mutex.  *)
(* An empty name stands for the database of the configuration, which is that *)
(* of the default tenant.  The ODS and migrate routes have no middleware.    *)
(***************************************************************************)
EXTENDS Integers, Sequences

CONSTANTS
  Users, Tenants,
  Admins,            \* users whose role is admin
  DefaultTenant,
  DbOf,              \* DbOf[t]: tenant.database_name, a unique key
  Nodes, Sources,    \* ids of rows of nodes and of datasource
  Ods,               \* OdsDatasourceId, a row init/dispatch.sql inserts
  Reqs,              \* requests in progress at a time
  Empty, None

VARIABLES
  member,    \* user_tenant: active, ended or None for every user and tenant
  connMap,   \* SaasDb.connMap: databases with a pool
  opened,    \* pools this process has opened
  holder,    \* the request that holds dbMutex
  rows,      \* rows[db][id]: [tenant, deleted], the tenant it was saved for
  req        \* req[r]: [user, tenant, calls, place], or None

tenantVars == <<member, connMap, opened, holder, rows, req>>

Public    == DbOf[DefaultTenant]
Databases == {DbOf[t] : t \in Tenants}
Id        == Nodes \cup Sources \cup {Ods}

\* EnsureDefaultTenant, at the start: INSERT IGNORE leaves what is there.
EnsureDefaultTenant(m) ==
  [p \in Users \X Tenants |->
     IF m[p] = None /\ p[1] \in Admins /\ p[2] = DefaultTenant THEN "active" ELSE m[p]]

Init ==
  /\ member = EnsureDefaultTenant([p \in Users \X Tenants |-> None])
  /\ connMap = {} /\ opened = [db \in Databases |-> 0] /\ holder = None
  /\ rows = [db \in Databases |-> [i \in Id |->
       IF db = Public /\ i = Ods THEN [tenant |-> DefaultTenant, deleted |-> FALSE] ELSE None]]
  /\ req = [r \in Reqs |-> None]

Restart ==
  /\ connMap # {} \/ holder # None
  /\ member' = EnsureDefaultTenant(member)
  /\ connMap' = {} /\ opened' = [db \in Databases |-> 0] /\ holder' = None
  /\ req' = [r \in Reqs |-> None]
  /\ UNCHANGED rows

\* The code never changes user_tenant otherwise; its operators do.
SetMember(u, t, status) ==
  /\ member[<<u, t>>] # status
  /\ member' = [member EXCEPT ![<<u, t>>] = status]
  /\ UNCHANGED <<connMap, opened, holder, rows, req>>

-----------------------------------------------------------------------------
\* tenantctx

Background == [db |-> Empty, user |-> Empty]
WithTenantDB(ctx, db) == [ctx EXCEPT !.db = db]
TenantDB(ctx) == ctx.db
\* Mistake: both values have the same key.
WithUserIDForBoth(ctx, id) == [db |-> id, user |-> id]
WithUserID(ctx, id) == [ctx EXCEPT !.user = id]

\* The calls of the store a service makes, in order.
Call(op, project, id) == <<[op |-> op, project |-> project, id |-> id]>>

\* service/dispatchserver/node_server.go
SaveNode(ctx, id)   == Call("save", TenantDB(ctx), id)
DeleteNode(ctx, id) == Call("delete", TenantDB(ctx), id)
Graph(ctx)          == Call("list", TenantDB(ctx), None) \o Call("list", TenantDB(ctx), None)

\* service/dispatchserver/datasource.go
SaveDatasource(ctx, id) == Call("save", TenantDB(ctx), id)
ListDatasource(ctx)     == Call("list", TenantDB(ctx), None)
getDatasourceContent(project, id) == Call("get", project, id)
metaTables(project, id)  == getDatasourceContent(project, id)
metaColumns(project, id) == getDatasourceContent(project, id)
MetaTables(ctx, id)     == metaTables(TenantDB(ctx), id)
MetaColumns(ctx, id)    == metaColumns(TenantDB(ctx), id)

\* service/dispatchserver/migrate_config.go: no row is read for the target of a
\* Collect node, which is the database of the context, or else the configured one.
resolveDatasource(ctx, id) ==
  getDatasourceContent(IF id = Ods THEN Empty ELSE TenantDB(ctx), id)
MigrateConfigFromNode(ctx, node, source, target) ==
  Call("get", TenantDB(ctx), node) \o resolveDatasource(ctx, source)
    \o (IF target = None THEN <<>> ELSE resolveDatasource(ctx, target))

-----------------------------------------------------------------------------
\* The routes.

Begin(r, u, t, calls) ==
  /\ req[r] = None
  /\ req' = [req EXCEPT ![r] = [user |-> u, tenant |-> t, calls |-> calls, place |-> "call"]]
  /\ UNCHANGED <<member, connMap, opened, holder, rows>>

\* TenantMiddleware: GetTenantMember finds an active member, or the request ends.
Context(u, t) == WithUserID(WithTenantDB(Background, DbOf[t]), u)
InTenant(r, u, t, calls) == member[<<u, t>>] = "active" /\ Begin(r, u, t, calls)

SaveNodeHandler(r, u, t)   == \E n \in Nodes : InTenant(r, u, t, SaveNode(Context(u, t), n))
DeleteNodeHandler(r, u, t) == \E n \in Nodes : InTenant(r, u, t, DeleteNode(Context(u, t), n))
GraphHandler(r, u, t)      == InTenant(r, u, t, Graph(Context(u, t)))
SaveDatasourceHandler(r, u, t) ==
  \E s \in Sources : InTenant(r, u, t, SaveDatasource(Context(u, t), s))
ListDatasourceHandler(r, u, t) == InTenant(r, u, t, ListDatasource(Context(u, t)))
MetaTablesHandler(r, u, t) ==
  \E s \in Sources : InTenant(r, u, t, MetaTables(Context(u, t), s))
MetaColumnsHandler(r, u, t) ==
  \E s \in Sources : InTenant(r, u, t, MetaColumns(Context(u, t), s))

OdsTablesHandler(r, u)  == Begin(r, u, None, metaTables(Empty, Ods))
OdsColumnsHandler(r, u) == Begin(r, u, None, metaColumns(Empty, Ods))

\* MigrateController.Run as far as Migrator.Run: nothing put a tenant into the context.
RunHandler(r, u) ==
  \E n \in Nodes, source \in Sources \cup {Ods}, target \in Sources \cup {Ods, None} :
    Begin(r, u, None, MigrateConfigFromNode(Background, n, source, target))

-----------------------------------------------------------------------------
\* The store: GetDB, then the call itself.

Head1(r) == Head(req[r].calls)
Name(r)  == IF Head1(r).project = Empty THEN Public ELSE Head1(r).project
At(r, place) == req[r] # None /\ req[r].place = place
Go(r, place) == req' = [req EXCEPT ![r].place = place]
Answer(r)    == req' = [req EXCEPT ![r] = None]

\* Mistake: the mutex is not held while the pool is opened.
LookBriefly(r) ==
  /\ At(r, "call") /\ holder = None
  /\ Go(r, IF Name(r) \in connMap THEN "use" ELSE "dial")
  /\ UNCHANGED <<member, connMap, opened, holder, rows>>

\* GetDB has the mutex: the pool is there, or the database is dialled.
Look(r) ==
  /\ At(r, "call") /\ holder = None
  /\ IF Name(r) \in connMap
       THEN Go(r, "use") /\ UNCHANGED holder
       ELSE Go(r, "dial") /\ holder' = r
  /\ UNCHANGED <<member, connMap, opened, rows>>

\* CreateEngine succeeds; or fails, with nothing kept.
Dialled(r) ==
  /\ At(r, "dial") /\ Name(r) \in Databases
  /\ connMap' = connMap \cup {Name(r)}
  /\ opened' = [opened EXCEPT ![Name(r)] = @ + 1]
  /\ holder' = None /\ Go(r, "use")
  /\ UNCHANGED <<member, rows>>
DialFails(r) ==
  /\ At(r, "dial")
  /\ holder' = None /\ Answer(r)
  /\ UNCHANGED <<member, connMap, opened, rows>>

Done(r) ==
  IF Len(req[r].calls) = 1 THEN Answer(r)
  ELSE req' = [req EXCEPT ![r].calls = Tail(@), ![r].place = "call"]

Using(r, op) == At(r, "use") /\ Head1(r).op = op /\ UNCHANGED <<member, connMap, opened, holder>>

\* db.Save: insert or overwrite, deleted = 0.
Save(r) ==
  /\ Using(r, "save") /\ Done(r)
  /\ rows' = [rows EXCEPT ![Name(r)][Head1(r).id] = [tenant |-> req[r].tenant, deleted |-> FALSE]]

\* UPDATE of a row that may not be there.
Delete(r) ==
  /\ Using(r, "delete") /\ Done(r)
  /\ rows' = [rows EXCEPT ![Name(r)][Head1(r).id] =
                IF @ = None THEN None ELSE [@ EXCEPT !.deleted = TRUE]]

\* NodeList, ListLines, ListDatasource
List(r) == Using(r, "list") /\ Done(r) /\ UNCHANGED rows

\* First: a row, deleted or not, or an error; GetNode and GetDatasource.
Get(r) ==
  /\ Using(r, "get") /\ UNCHANGED rows
  /\ IF rows[Name(r)][Head1(r).id] = None THEN Answer(r) ELSE Done(r)

\* A call of the database fails.
CallFails(r) ==
  /\ At(r, "use") /\ Answer(r)
  /\ UNCHANGED <<member, connMap, opened, holder, rows>>

TenantStep(r, u, t) ==
  \/ SaveNodeHandler(r, u, t) \/ DeleteNodeHandler(r, u, t) \/ GraphHandler(r, u, t)
  \/ SaveDatasourceHandler(r, u, t) \/ ListDatasourceHandler(r, u, t)
  \/ MetaTablesHandler(r, u, t) \/ MetaColumnsHandler(r, u, t)
CommonStep(r, u) == OdsTablesHandler(r, u) \/ OdsColumnsHandler(r, u) \/ RunHandler(r, u)
StoreStep(r) ==
  \/ Look(r) \/ Dialled(r) \/ DialFails(r) \/ CallFails(r)
  \/ Save(r) \/ Delete(r) \/ List(r) \/ Get(r)

Next ==
  \/ Restart
  \/ \E u \in Users, t \in Tenants, status \in {"active", "ended"} : SetMember(u, t, status)
  \/ \E r \in Reqs : StoreStep(r) \/ \E u \in Users : CommonStep(r, u) \/ \E t \in Tenants : TenantStep(r, u, t)
=============================================================================
