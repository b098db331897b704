------------------------------ MODULE Services ------------------------------
(***************************************************************************)
(* Components that share nothing and of which something must happen at last, *)
(* side by side: migrations, the election and mutex of etcd, the search for  *)
(* cycles.  A behaviour is one of the service that ServicesInit chooses; the  *)
(* others rest, with nothing to do.                                         *)
(***************************************************************************)
EXTENDS Migrator, Etcd, CycleCheck

VARIABLE service

servicesVars == <<vars, etcdVars, searchVars, service>>

\* The services that rest have one initial state: no search is to be made.
ServicesInit ==
  /\ service \in {"migrator", "etcd", "search"}
  /\ Init
  /\ EtcdInit /\ (service # "etcd" => part = "lock")
  /\ SearchInit
  /\ service # "search" =>
       E = {} /\ head = tail /\ head = CHOOSE n \in Nodes : TRUE

ServicesNext ==
  \/ service = "migrator" /\ Next /\ UNCHANGED <<service, etcdVars, searchVars>>
  \/ service = "etcd" /\ EtcdNext /\ UNCHANGED <<service, vars, searchVars>>
  \/ service = "search" /\ SearchNext /\ UNCHANGED <<service, vars, etcdVars>>

ServicesSpec ==
  /\ ServicesInit /\ [][ServicesNext]_servicesVars
  /\ Fairness /\ EtcdFairness /\ SearchFairness
=============================================================================
