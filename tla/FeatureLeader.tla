---------------------------- MODULE FeatureLeader ----------------------------
(***************************************************************************)
(* The election of the pod that reports for the whole cluster              *)
(* (common/k8s/src/feature_leader.rs), with the reporter of the metrics    *)
(* server as its user (metrics_stats_stream.rs, bin/src/_main.rs); the     *)
(* other user is in EventStream.                                           *)
(*                                                                         *)
(* The lease is one Kubernetes object.  A replace carries the version that *)
(* was read and fails when the object has been written since; a patch is   *)
(* unconditional.  Versions are only compared for equality, so an agent    *)
(* remembers whether the version it has read is still the current one.     *)
(* Time is abstracted: a lease is expired or not, and may expire whenever  *)
(* it has a holder, as it does when the holder is slower than the lease.   *)
(* Without a renewal time it never would; but a lease is installed without *)
(* a holder and with a spec (k8s/*-leader-lease.yaml), and whoever becomes *)
(* the holder writes the time along with the name (create_lease_spec).     *)
(***************************************************************************)
EXTENDS FiniteSets, LeaseRequests

VARIABLES
    lease,      \* the lease of the feature: its holder, and whether it has expired
    elector     \* each agent's part in the election

electionVars == <<lease, elector>>

ElectorState == [at : {"off", "taking", "replacing", "waiting", "leading",
                       "renewing", "reporting", "ended"},
                 current : BOOLEAN]
Lease == [holder : Agents \cup {NoOne}, expired : BOOLEAN]

ElectionTypeOK ==
    /\ lease \in Lease
    /\ elector \in [Agents -> ElectorState]

Off == [at |-> "off", current |-> FALSE]

ElectionInit ==
    /\ lease = [holder |-> NoOne, expired |-> FALSE]
    /\ elector = [a \in Agents |-> Off]

(* a moves on, and the lease stays as it is.                               *)
Moves(a, at, current) ==
    /\ elector' = [elector EXCEPT ![a] = [at |-> at, current |-> current]]
    /\ UNCHANGED lease

(* a becomes the holder, and the versions that were read are out of date.  *)
Writes(a, at) ==
    /\ lease' = [holder |-> a, expired |-> FALSE]
    /\ elector' = [b \in Agents |->
                       [at |-> IF b = a THEN at ELSE elector[b].at,
                        current |-> FALSE]]
---------------------------------------------------------------------------
(* Faulty variant: an expired lease is not up for grabs.                   *)
ClaimableUnheld == lease.holder = NoOne
(* try_claim_feature_leader, is_lease_expired                              *)
Claimable == lease.holder = NoOne \/ lease.expired

(* The first read.  At the start the caller is set_up_leader, afterwards   *)
(* an agent that is not the leader, after a sleep.                         *)
TryClaim(a, outcome) ==
    LET taking == outcome = "answered" /\ Claimable
    IN  /\ elector[a].at \in {"off", "waiting"}
        /\ Moves(a, IF taking THEN "taking" ELSE "waiting", taking)

(* take_feature_leader_lease reads the lease again, and does not examine   *)
(* it again: it may have been written since the first read, and then what  *)
(* the first read has shown is out of date.                                *)
Outdated(a, outcome) == outcome = "answered" /\ ~elector[a].current

ReadAgain(a, outcome) ==
    /\ elector[a].at = "taking"
    /\ IF outcome = "answered" THEN Moves(a, "replacing", TRUE)
       ELSE Moves(a, "waiting", FALSE)

(* Faulty variant: a lease that has been written since is replaced.        *)
ReplaceAnyVersion(a, outcome) ==
    /\ elector[a].at = "replacing"
    /\ IF outcome # "refused"
       THEN Writes(a, IF outcome = "answered" THEN "leading" ELSE "waiting")
       ELSE Moves(a, "waiting", FALSE)

(* replace_lease: a conflict when the lease was written since ReadAgain.   *)
Replace(a, outcome) ==
    /\ elector[a].at = "replacing"
    /\ IF elector[a].current /\ outcome # "refused"
       THEN Writes(a, IF outcome = "answered" THEN "leading" ELSE "waiting")
       ELSE Moves(a, "waiting", FALSE)

(* Faulty variant: the holder is not compared.                             *)
RenewReadUnchecked(a, outcome) ==
    /\ elector[a].at = "leading"
    /\ Moves(a, IF outcome = "answered" THEN "renewing" ELSE "ended", FALSE)

(* renew_feature_leader: the stream of the reporter ends for good when the *)
(* lease cannot be read or belongs to another pod.                         *)
RenewRead(a, outcome) ==
    /\ elector[a].at = "leading"
    /\ Moves(a, IF outcome = "answered" /\ lease.holder = a THEN "renewing" ELSE "ended", FALSE)

(* renew_lease: the patch names the pod again, whoever holds the lease now.*)
RenewPatch(a, outcome) ==
    /\ elector[a].at = "renewing"
    /\ IF outcome = "refused" THEN Moves(a, "ended", FALSE)
       ELSE Writes(a, IF outcome = "answered" THEN "reporting" ELSE "ended")

(* process_reporter_info; its errors change nothing.                       *)
Report(a) ==
    /\ elector[a].at = "reporting"
    /\ Moves(a, "leading", FALSE)

(* The duration of the lease has passed since it was renewed.              *)
Expire ==
    /\ lease.holder # NoOne
    /\ ~lease.expired
    /\ lease' = [holder |-> lease.holder, expired |-> TRUE]
    /\ UNCHANGED elector

(* The process ends and is started again.                                  *)
ElectionLost(a) == Moves(a, "off", FALSE)

Leaders == {a \in Agents : elector[a].at \in {"leading", "renewing", "reporting"}}
=============================================================================
