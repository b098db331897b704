------------------------------ MODULE Requests ------------------------------
(***************************************************************************)
(* Parts of the web server that share nothing, side by side: DAG             *)
(* instantiation, the daily run, accounts, and the databases of tenants.  A  *)
(* behaviour is one of the part that Init chooses; the other variables rest. *)
(***************************************************************************)
EXTENDS InstanceDepend

CONSTANTS
  Users, Names, Emails, Passwords, Strong,              \* see Accounts
  RootName, RootEmail, RootPassword,
  Members, Tenants, Admins, DefaultTenant, DbOf,        \* see TenantRouting
  NodeRows, Sources, Ods, Empty,
  Procs, Days, NodeIds, DailyRoot, MaxAttempts,         \* see Workflow
  Reqs,                                                 \* requests in progress
  None

VARIABLES
  part,
  users, tokens, request,                              \* accounts
  member, connMap, opened, holder, tables, call,       \* tenants
  step, rows, queue, raced, dropped, lost              \* daily run

Accounts == INSTANCE Accounts WITH NoUser <- None, req <- request

Routing == INSTANCE TenantRouting WITH
  Users <- Members, Nodes <- NodeRows, rows <- tables, req <- call

Work == INSTANCE Workflow WITH Root <- DailyRoot

\* A row of users.
Row == [name : Names \cup {RootName}, email : Emails \cup {RootEmail},
        role : Accounts!Roles, status : {"active", "disabled"},
        hash : [hashOf : Passwords \cup {RootPassword}]]

ASSUME RowAssumption == None \notin Row /\ None \notin Users
\* The database of a tenant has a name: the empty one means the configured database.
ASSUME TenantAssumption ==
  DefaultTenant \in Tenants /\ None \notin Tenants /\ None \notin Reqs
    /\ Empty \notin Routing!Databases
ASSUME DailyAssumption ==
  /\ DailyRoot \in NodeIds
  /\ \A n \in NodeIds : None # [node |-> Work!Column(n), status |-> "NotReady"]
  /\ MaxAttempts \in Nat \ {0}
  /\ None \notin [payload : {Work!Marshal(i) : i \in Work!Instance},
                  attempts : 0..MaxAttempts, status : {"pending", "success", "failed"}]

accountVars == <<users, tokens, request>>
tenantVars  == <<member, connMap, opened, holder, tables, call>>
workVars    == <<step, rows, queue, raced, dropped, lost>>
requestVars == <<vars, part, accountVars, tenantVars, workVars>>

RequestInit ==
  /\ part \in {"depend", "daily", "accounts", "tenants"}
  /\ Init
  /\ part # "depend" =>
       lines = {} /\ existing = {} /\ times = [n \in Nodes |-> CHOOSE s \in Schedules : TRUE]
  /\ Work!Init /\ Routing!Init /\ Accounts!AccountInit

RequestNext ==
  \/ part = "depend" /\ Next /\ UNCHANGED <<part, accountVars, tenantVars, workVars>>
  \/ part = "daily" /\ Work!Next /\ UNCHANGED <<vars, part, accountVars, tenantVars>>
  \/ part = "accounts" /\ Accounts!Next /\ UNCHANGED <<vars, part, tenantVars, workVars>>
  \/ part = "tenants" /\ Routing!Next /\ UNCHANGED <<vars, part, accountVars, workVars>>

RequestSpec == RequestInit /\ [][RequestNext]_requestVars

-----------------------------------------------------------------------------
(* A batch of the day is the only one unless the call that made it overlapped *)
(* with another one; its root is published unless that call ended in between  *)
(* (and then nothing publishes it any more); and a message is about a batch   *)
(* that is stored unless its commit failed unnoticed (dispatch.go:            *)
(* InstanceCreate, store.go: BatchCreateInstance).                           *)
Batch(c) == {i \in Work!Instance : i[1] = c /\ rows[i] # None}
BatchHasItsRoot ==
  \A c \in Work!Calls :
    /\ \A o \in Work!Calls \ {c} :
         o[2] = c[2] /\ Batch(o) # {} /\ Batch(c) # {} => {o, c} \subseteq raced
    /\ Batch(c) # {} => step[c] = "publish" \/ queue[c] # None \/ c \in lost
    /\ queue[c] # None => Batch(c) # {} \/ c \in dropped

(* The last active administrator is lost only by a change of roles, or by a   *)
(* disabling whose operator is no active administrator any more when it is    *)
(* written: RequireAdmin reads the role before the handler runs, and nobody   *)
(* disables the own account (user_server.go: Disable).                       *)
ActiveAdmins == {x \in Accounts!Stored : users[x].role = "admin" /\ users[x].status = "active"}
AdminStays ==
  [][ActiveAdmins # {} /\ ActiveAdmins' = {} =>
       \E o \in Reqs :
         /\ request'[o] = Accounts!NoReq
         /\ \/ request[o].op = "update"
            \/ request[o].op = "disable" /\ request[o].by \notin ActiveAdmins
    ]_<<users, request>>

(* A password is changed by its owner only from the one the owner gave, unless *)
(* another request has changed it since the check (user_server.go:            *)
(* ChangePassword compares and writes in two calls).                         *)
ChangeKnowsPassword ==
  [][\A o \in Reqs :
       request[o].op = "change" /\ request'[o] = Accounts!NoReq /\ users' # users
         /\ ~request[o].raced =>
         Accounts!CompareHashAndPassword(users[request[o].user].hash, request[o].row.old)
    ]_<<users, request>>

(* A request behind TenantMiddleware reaches the database of its tenant in    *)
(* every call of the store, and without one the public ODS source is looked   *)
(* for in that of the configuration; and whatever a database holds was saved   *)
(* for its own tenant.  (What migrations read besides: MigratesInTenant.)      *)
InStore(o) == Routing!At(o, "dial") \/ Routing!At(o, "use")
RoutedToOwn ==
  /\ \A o \in Reqs : InStore(o) =>
       /\ call[o].tenant # None => Routing!Name(o) = DbOf[call[o].tenant]
       /\ call[o].tenant = None /\ Routing!Head1(o).id = Ods =>
            Routing!Name(o) = Routing!Public
  /\ \A db \in Routing!Databases : \A k \in Routing!Id :
       tables[db][k] # None => DbOf[tables[db][k].tenant] = db

(* However many requests come for a database at once, GetDB opens one pool    *)
(* for it (gorm_saas.go: the mutex is held while it dials).  The connections  *)
(* of data sources and migrations, which do not come from GetDB, do not count. *)
OnePoolPerDatabase == \A db \in Routing!Databases : opened[db] <= 1

(* What a comment and a document say and the code does not do: Run takes the   *)
(* node and its data sources from the database of the tenant it is run for,    *)
(* although the migrate routes have no middleware (migrate_controller.go:16).  *)
(* Stated for users who are members of one tenant only; and the public ODS     *)
(* source is in the database of the configuration.                            *)
TenantsOf(u) == {t \in Tenants : member[<<u, t>>] = "active"}
MigratesInTenant ==
  \A o \in Reqs, t \in Tenants :
    InStore(o) /\ call[o].tenant = None /\ TenantsOf(call[o].user) = {t} =>
      Routing!Name(o) = IF Routing!Head1(o).id = Ods THEN Routing!Public ELSE DbOf[t]
=============================================================================
