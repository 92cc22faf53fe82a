---------------------------- MODULE MCAgentLeases ----------------------------
(* Bounds of the pods' leases: without the start-up leases, which the      *)
(* other feature covers, the stream of events is given more to go through. *)
EXTENDS AgentLeases, TLC

CONSTANTS a1, a2, a3

MCFirstPods == {a1, a2}
MCMaxErrors == "metrics" :> 2 @@ "events" :> 1
MCMaxCrashes == "metrics" :> 2 @@ "events" :> 1
MCMaxDeletions == "metrics" :> 0 @@ "events" :> 2

StartsAtOnce == feature = "events" => startOption = "never"
=============================================================================
