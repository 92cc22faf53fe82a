----------------------------- MODULE AgentLeases -----------------------------
(***************************************************************************)
(* The pods of a DaemonSet from their start to their reports, as           *)
(* bin/src/_main.rs strings them together: each claims a start-up lease,   *)
(* tries once to become the leader of its feature, gives the start-up      *)
(* lease back, and then waits to become the leader or renews the lease and *)
(* reports.  The feature is the reporter of the metrics server or the      *)
(* stream of events; each has a lease of its own, so that one at a time is *)
(* enough.  A pod that is deleted is replaced under another name.          *)
(***************************************************************************)
EXTENDS StartupLease, EventStream

CONSTANTS
    FirstPods,      \* the pods at the start; the other names are for their successors
    MaxErrors,      \* bounds, for each feature: requests that are refused or whose
                    \* answer is lost, and watches that fail
    MaxCrashes,     \* processes that end
    MaxDeletions    \* pods that are deleted

Features == {"metrics", "events"}

ASSUME AgentLeasesAssumption ==
    /\ FirstPods \subseteq Agents
    /\ MaxErrors \in [Features -> Nat] /\ MaxCrashes \in [Features -> Nat]
    /\ MaxDeletions \in [Features -> Nat]

VARIABLES
    feature,        \* log_metric_server_stats or log_k8s_events, the one that is on
    pods,           \* the pods there are
    gone,           \* the pods there have been
    errors, crashes

podVars == <<pods, gone>>
vars == <<startupVars, electionVars, streamVars, podVars, feature, errors, crashes>>

TypeOK == /\ StartupTypeOK /\ ElectionTypeOK /\ StreamTypeOK
          /\ feature \in Features
          /\ pods \subseteq Agents /\ gone \subseteq Agents
          /\ errors \in 0 .. MaxErrors[feature] /\ crashes \in 0 .. MaxCrashes[feature]

Init == /\ StartupInit /\ ElectionInit /\ StreamInit
        /\ feature \in Features
        /\ pods = FirstPods /\ gone = {}
        /\ errors = 0 /\ crashes = 0

(* What a request costs of the bound.                                      *)
Request(outcome) ==
    /\ errors' = errors + (IF outcome = "answered" THEN 0 ELSE 1)
    /\ errors' <= MaxErrors[feature]
    /\ UNCHANGED crashes

(* set_up_leader runs between the claim of a start-up lease and its        *)
(* release; the reporter and the stream of events run after it.            *)
SettingUp(a) == agent[a].at = "setup" /\ elector[a].at \in {"off", "taking", "replacing"}
SetUp(a) == elector[a].at \in {"waiting", "leading"}
Up(a) == agent[a].at = "up"
Reports(a) == Up(a) /\ feature = "metrics"
Streams(a) == Up(a) /\ feature = "events"

StartupStep(a) ==
    /\ a \in pods
    /\ \/ /\ StartProcess(a) \/ FindFree(a) \/ FindNone(a)
             \/ (SetUp(a) /\ NothingToRelease(a))
          /\ UNCHANGED <<errors, crashes>>
       \/ \E outcome \in Outcomes :
            /\ Claim(a, outcome) \/ (SetUp(a) /\ Release(a, outcome))
            /\ Request(outcome)
    /\ UNCHANGED <<electionVars, streamVars>>

ClaimLeadership(a) ==
    /\ SettingUp(a) \/ Reports(a)
    /\ \E outcome \in Outcomes :
         /\ \/ (TryClaim(a, outcome) \/ Replace(a, outcome)) /\ UNCHANGED past
            \/ /\ ReadAgain(a, outcome)
               /\ IF feature = "events" THEN Races(a, outcome) ELSE UNCHANGED past
         /\ Request(outcome)
    /\ UNCHANGED <<startupVars, stream, tasks>>

Reporting(a) ==
    /\ Reports(a)
    /\ \/ \E outcome \in Outcomes :
            /\ RenewRead(a, outcome) \/ RenewPatch(a, outcome)
            /\ Request(outcome)
       \/ Report(a) /\ UNCHANGED <<errors, crashes>>
    /\ UNCHANGED <<startupVars, streamVars>>

Streaming(a) ==
    /\ Streams(a)
    /\ \/ /\ Listed(a) \/ HearDeletion(a) \/ Claimed(a)
          /\ UNCHANGED <<errors, crashes>>
       \/ \E outcome \in Outcomes :
            /\ \/ Look(a, outcome) \/ Check(a, outcome) \/ ClaimBegins(a, outcome)
               \/ ClaimGoesOn(a, outcome) \/ NotClaimed(a, outcome)
            /\ Request(outcome)
    /\ UNCHANGED startupVars

WatchFails(a) ==
    /\ Streams(a)
    /\ WatchBreaks(a) \/ LogBreaks(a)
    /\ Request("lost")
    /\ UNCHANGED startupVars

Renewal(a) ==
    /\ \E outcome \in Outcomes :
         /\ TaskReads(a, outcome) \/ TaskPatches(a, outcome)
         /\ Request(outcome)
    /\ UNCHANGED startupVars

Crash(a) ==
    /\ crashes < MaxCrashes[feature]
    /\ crashes' = crashes + 1
    /\ StartLost(a) /\ ElectionLost(a) /\ StreamLost(a)
    /\ UNCHANGED errors

AgentStep(a) == StartupStep(a) \/ ClaimLeadership(a) \/ Reporting(a) \/ Streaming(a)
---------------------------------------------------------------------------
(* A pod is deleted with its process, if it has one at the time; the       *)
(* DaemonSet makes up for it.                                              *)
Delete(a) ==
    /\ Cardinality(gone) < MaxDeletions[feature]
    /\ a \in pods
    /\ pods' = pods \ {a} /\ gone' = gone \cup {a}
    /\ StartLost(a) \/ (agent[a].at = "down" /\ UNCHANGED startupVars)
    /\ ElectionLost(a) /\ PodDeleted(a)
    /\ UNCHANGED <<errors, crashes>>

Create(a) ==
    /\ a \notin pods \cup gone
    /\ Cardinality(pods) < Cardinality(FirstPods)
    /\ pods' = pods \cup {a}
    /\ UNCHANGED <<startupVars, electionVars, streamVars, gone, errors, crashes>>

TimePasses ==
    /\ Expire
    /\ past' = [past EXCEPT !.late = @ \/ (feature = "events" /\ lease.holder \in pods)]
    /\ UNCHANGED <<startupVars, stream, tasks, podVars, errors, crashes>>

Next == /\ \/ TimePasses
           \/ \E a \in Agents : Delete(a) \/ Create(a)
           \/ /\ \E a \in Agents : AgentStep(a) \/ Renewal(a) \/ WatchFails(a) \/ Crash(a)
              /\ UNCHANGED podVars
        /\ UNCHANGED feature

(* A lease that nobody renews does expire.                                 *)
LeftToExpire == lease.holder \notin Leaders \cup Renewing /\ TimePasses /\ UNCHANGED feature

(* Every process goes on, the renewals in tasks of their own: its requests *)
(* return, its sleeps end, and the DaemonSet starts it again.              *)
Fairness ==
    /\ WF_vars(LeftToExpire)
    /\ WF_vars(\E a \in Agents : Create(a) /\ UNCHANGED feature)
    /\ \A a \in Agents : /\ WF_vars(AgentStep(a) /\ UNCHANGED <<podVars, feature>>)
                        /\ WF_vars(Renewal(a) /\ UNCHANGED <<podVars, feature>>)

SafetySpec == Init /\ [][Next]_vars
Spec == SafetySpec /\ Fairness
---------------------------------------------------------------------------
(* Whoever a start-up lease names is between its claim and its release, or *)
(* was cut off there by a crash or a refused release: in no other order of *)
(* claims and releases does an agent run on with a lease the others wait   *)
(* for, although they free each other's leases (lease.rs:45-135).          *)
HeldOnlyWhileStarting ==
    \A l \in StartupLeases :
        holder[l] # NoOne =>
            \/ l \in stray
            \/ agent[holder[l]].at = "setup" /\ agent[holder[l]].lease = l

(* Every pod gets up after each of its starts, with startup = always       *)
(* unless every lease is stray; then a pod may list leases for ever        *)
(* (_main.rs:949-970).                                                     *)
EveryAgentStarts ==
    \A a \in Agents :
        []<>(Up(a) \/ a \notin pods \/ (startOption = "always" /\ stray = StartupLeases))

(* Two agents may believe to lead at a time, when a lease that has expired *)
(* is taken over or a renewal overwrites a take-over.  Only renewals that  *)
(* overlap again and again, each slower than the 30 s between them, let    *)
(* this go on: a renewal on its own ends the other leader at its next one  *)
(* (feature_leader.rs:39-87).                                              *)
OneLeaderInTheEnd ==
    <>[](Cardinality({a \in Agents : elector[a].at = "renewing"}) <= 1)
        => <>[](Cardinality(Leaders) <= 1)

(* The cluster goes on being reported, by some agent or other, unless      *)
(* every agent has lost its leadership or waits for a start-up lease for   *)
(* ever: an expired lease is taken over (feature_leader.rs:89-119).        *)
ReportingGoesOn ==
    feature = "metrics" =>
        \/ []<>(\E a \in Agents : elector[a].at = "reporting")
        \/ <>[](\A a \in pods : elector[a].at = "ended" \/ agent[a].at = "listing")

(* Two pods log the events of the cluster only after the lease of a pod    *)
(* that was there has expired, as it does when its renewal task has ended  *)
(* (event_source.rs:478-490), or after a lease was written between the two *)
(* reads of a claim (feature_leader.rs:125-139).                           *)
OneEventLogger == Cardinality(Loggers) > 1 => past.late \/ past.raced

(* The events of the cluster go on being logged: a pod that is deleted is  *)
(* succeeded by one that hears of its deletion, unless no pod has followed *)
(* it up, or the lease stays with a pod that does not know that it leads,  *)
(* or with nobody (event_source.rs:268-300, 492-527).                      *)
EventsGoOn ==
    feature = "events" =>
        []<>(Loggers # {}) \/ <>[](lease.holder \in past.missed \cup {NoOne})
=============================================================================
