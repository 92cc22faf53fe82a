---- MODULE LeaseRequests ----
(***************************************************************************)
(* What the users of Kubernetes leases share: the pods, and what may       *)
(* become of a request to the API server.  It is answered; or refused,     *)
(* without an effect; or its answer is lost, after the effect.  To the     *)
(* agent the last two are the same error.                                  *)
(***************************************************************************)
CONSTANTS
    Agents,     \* the pods that run the agent
    NoOne       \* no holderIdentity

ASSUME LeaseRequestsAssumption == NoOne \notin Agents

Outcomes == {"answered", "refused", "lost"}
====
