------------------------------ MODULE Election ------------------------------
(***************************************************************************)
(* internal/etcd: TaskScheduler (Retry) campaigns with one session in a     *)
(* loop until Stop; LeaderElection campaigns once with a session of its own *)
(* and works until that session is done.  A node is named by its session.   *)
(***************************************************************************)
EXTENDS EtcdSession

CONSTANT Retry   \* TRUE: TaskScheduler, FALSE: LeaderElection

VARIABLES
  pc,        \* place of campaignForLeadership, or of Campaign and leaderWork
  isLeader,
  stop       \* steps of Stop taken: stopCh, session, client closed; returned

electVars == <<sessionVars, pc, isLeader, stop>>

Init ==
  /\ SessionInit
  /\ pc = [s \in Sessions |-> "idle"]
  /\ isLeader = [s \in Sessions |-> FALSE]
  /\ stop = [s \in Sessions |-> 0]

Go(s, place) == pc' = [pc EXCEPT ![s] = place]
ctlVars == <<isLeader, stop>>

\* Start; LeaderElection.Campaign.
Start(s) ==
  /\ pc[s] = "idle"
  /\ NewSession(s)
  /\ Go(s, IF Retry THEN "loop" ELSE "campaign")
  /\ UNCHANGED ctlVars

\* Mistake: stopCh is not looked at between campaigns.
LoopBlindly(s) ==
  /\ pc[s] = "loop" /\ Go(s, "campaign")
  /\ UNCHANGED <<sessionVars, ctlVars>>

\* The select before each campaign.
Loop(s) ==
  /\ pc[s] = "loop"
  /\ Go(s, IF stop[s] > 0 THEN "exited" ELSE "campaign")
  /\ UNCHANGED <<sessionVars, ctlVars>>

\* Election.Campaign puts the key ...
Propose(s) ==
  /\ pc[s] = "campaign" /\ stop[s] < 3
  /\ PutKey(s) /\ UNCHANGED faults
  /\ Go(s, "wait")
  /\ UNCHANGED ctlVars

\* Mistake: the candidate does not wait for the older keys.
ElectedAtOnce(s) ==
  /\ pc[s] = "wait" /\ stop[s] < 3
  /\ Go(s, "leader")
  /\ isLeader' = [isLeader EXCEPT ![s] = TRUE]
  /\ UNCHANGED <<sessionVars, stop>>

\* ... and returns when all older keys are gone, whether its own is there or not.
Elected(s) ==
  /\ pc[s] = "wait" /\ stop[s] < 3
  /\ older[s] = {}
  /\ Go(s, "leader")
  /\ isLeader' = [isLeader EXCEPT ![s] = TRUE]
  /\ UNCHANGED <<sessionVars, stop>>

\* Mistake: the error ends the loop of the scheduler.
FailedGivesUp(s) == Go(s, IF Retry THEN "exited" ELSE "failed") /\ UNCHANGED ctlVars
\* Campaign fails: the scheduler tries again, the other returns the error.
Failed(s) == Go(s, IF Retry THEN "loop" ELSE "failed") /\ UNCHANGED ctlVars

\* For lack of the lease, or of the client.
CannotCampaign(s) ==
  /\ \/ pc[s] = "campaign" /\ (lease[s] = "gone" \/ stop[s] >= 3)
     \/ pc[s] = "wait" /\ stop[s] >= 3
  /\ Failed(s)
  /\ UNCHANGED sessionVars

\* By an error of the server, the key put or not.
CampaignFails(s) ==
  /\ pc[s] \in {"campaign", "wait"} /\ Fault
  /\ Failed(s)
  /\ \/ UNCHANGED <<lease, done, key, older>>
     \/ pc[s] = "campaign" /\ PutKey(s)

\* What leaderWork returns for.
MustLeave(s) == done[s] \/ stop[s] > 0

\* leaderWork returns; LeaderElection closes the session in a defer.
Leave(s) ==
  /\ pc[s] = "leader" /\ MustLeave(s)
  /\ isLeader' = [isLeader EXCEPT ![s] = FALSE]
  /\ Go(s, IF Retry THEN "loop" ELSE "ended")
  /\ IF Retry THEN UNCHANGED sessionVars
     ELSE Close(s) \/ (Orphan(s) /\ Fault)
  /\ UNCHANGED stop

\* TaskScheduler.Stop: stopCh, the session, the client; then it waits.
Stop(s) ==
  /\ Retry /\ pc[s] # "idle" /\ stop[s] < 4
  /\ stop[s] = 3 => pc[s] = "exited"
  /\ stop' = [stop EXCEPT ![s] = @ + 1]
  /\ IF stop[s] = 1 THEN Close(s) \/ (Orphan(s) /\ Fault) ELSE UNCHANGED sessionVars
  /\ UNCHANGED <<pc, isLeader>>

Etcd(s) == (Expires(s) \/ KeepAliveEnds(s)) /\ UNCHANGED <<pc, ctlVars>>

NodeStep(s) == Loop(s) \/ Propose(s) \/ Elected(s) \/ CannotCampaign(s) \/ Leave(s)

Next == \E s \in Sessions :
          \/ Start(s) \/ NodeStep(s) \/ CampaignFails(s) \/ Stop(s) \/ Etcd(s)
=============================================================================
