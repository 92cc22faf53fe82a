----------------------------- MODULE StartupLease -----------------------------
(***************************************************************************)
(* The pool of start-up leases (bin/src/_main.rs, common/k8s/src/lease.rs):*)
(* Kubernetes objects that an agent claims before it starts its sources    *)
(* and gives back afterwards.  The list, the claim and the release are     *)
(* three requests to the API server; neither patch is conditional on what  *)
(* the list has shown.                                                     *)
(***************************************************************************)
EXTENDS Naturals, LeaseRequests

CONSTANTS
    LeaseCount,     \* how many leases carry the start-up label
    MaxAttempts     \* K8S_STARTUP_LEASE_RETRY_ATTEMPTS

ASSUME StartupLeaseAssumption ==
    /\ LeaseCount \in Nat /\ MaxAttempts \in Nat \ {0}

StartupLeases == 1 .. LeaseCount  \* in the order of the list

VARIABLES
    startOption,    \* config.startup, the same for all pods of the DaemonSet
    holder,         \* holderIdentity of each lease
    agent,          \* where each process is in its start
    stray           \* history: leases whose claim nobody is left to give back

startupVars == <<startOption, holder, agent, stray>>

(* `lease` is the lease chosen and then claimed; 0 is None.                *)
AgentState == [at : {"down", "listing", "claiming", "setup", "up"},
               attempts : 0 .. MaxAttempts - 1, lease : 0 .. LeaseCount]
Place(at, attempts, l) == [at |-> at, attempts |-> attempts, lease |-> l]
Down == Place("down", 0, 0)

StartupTypeOK ==
    /\ startOption \in {"never", "attempt", "always"}
    /\ holder \in [StartupLeases -> Agents \cup {NoOne}]
    /\ agent \in [Agents -> AgentState]
    /\ stray \subseteq StartupLeases

StartupInit ==
    /\ startOption \in {"never", "attempt", "always"}
    /\ holder = [l \in StartupLeases |-> NoOne]
    /\ agent = [a \in Agents |-> Down]
    /\ stray = {}

FreeLeases == {l \in StartupLeases : holder[l] = NoOne}
Holds(a) == agent[a].lease # 0 /\ holder[agent[a].lease] = a
Goes(a, at, attempts, l) == agent' = [agent EXCEPT ![a] = Place(at, attempts, l)]
---------------------------------------------------------------------------
(* K8sLeaseConf::Never returns before anything is listed.                  *)
StartProcess(a) ==
    /\ agent[a].at = "down"
    /\ Goes(a, IF startOption = "never" THEN "setup" ELSE "listing", 0, 0)
    /\ UNCHANGED <<startOption, holder, stray>>

(* get_available_lease takes the first lease of the list without a holder. *)
(* A list that fails is unwrapped and ends the process, see Crash.         *)
FindFree(a) ==
    /\ agent[a].at = "listing"
    /\ \E l \in FreeLeases :
         /\ \A m \in FreeLeases : l <= m
         /\ Goes(a, "claiming", 0, l)
    /\ UNCHANGED <<startOption, holder, stray>>

(* Faulty variant: the attempts are not counted.                           *)
FindNoneUncounted(a) ==
    /\ agent[a].at = "listing"
    /\ FreeLeases = {}
    /\ UNCHANGED startupVars

(* Attempt gives up after MaxAttempts and starts without a lease; Always   *)
(* goes on for ever and its count of attempts decides nothing.             *)
FindNone(a) ==
    /\ agent[a].at = "listing"
    /\ FreeLeases = {}
    /\ \/ /\ startOption = "always"
          /\ UNCHANGED agent
       \/ /\ startOption = "attempt"
          /\ agent[a].attempts + 1 < MaxAttempts
          /\ Goes(a, "listing", agent[a].attempts + 1, 0)
       \/ /\ startOption = "attempt"
          /\ agent[a].attempts + 1 = MaxAttempts
          /\ Goes(a, "setup", 0, 0)
    /\ UNCHANGED <<startOption, holder, stray>>

(* Faulty variant: claim_lease does not report the name it has claimed     *)
(* when it gets an error.                                                  *)
ClaimForgettingErrors(a, outcome) ==
    /\ agent[a].at = "claiming"
    /\ holder' = IF outcome = "refused" THEN holder
                 ELSE [holder EXCEPT ![agent[a].lease] = a]
    /\ Goes(a, "setup", 0, IF outcome = "answered" THEN agent[a].lease ELSE 0)
    /\ UNCHANGED <<startOption, stray>>

(* claim_lease: a merge patch of whatever is there; the caller gets the    *)
(* name of the lease after an error as well.                               *)
Claim(a, outcome) ==
    /\ agent[a].at = "claiming"
    /\ holder' = IF outcome = "refused" THEN holder
                 ELSE [holder EXCEPT ![agent[a].lease] = a]
    /\ Goes(a, "setup", 0, agent[a].lease)
    /\ UNCHANGED <<startOption, stray>>

(* release_lease: whoever holds the lease by now, it has no holder after.  *)
Release(a, outcome) ==
    /\ agent[a].at = "setup"
    /\ agent[a].lease # 0
    /\ holder' = IF outcome = "refused" THEN holder
                 ELSE [holder EXCEPT ![agent[a].lease] = NoOne]
    /\ stray' = IF outcome = "refused" /\ Holds(a) THEN stray \cup {agent[a].lease}
                ELSE stray
    /\ Goes(a, "up", 0, 0)
    /\ UNCHANGED startOption

(* No lease was claimed during the start.                                  *)
NothingToRelease(a) ==
    /\ agent[a].at = "setup"
    /\ agent[a].lease = 0
    /\ Goes(a, "up", 0, 0)
    /\ UNCHANGED <<startOption, holder, stray>>

(* The process ends; its container is started again under the same         *)
(* POD_NAME, and nothing of the start survives.                            *)
StartLost(a) ==
    /\ agent[a].at # "down"
    /\ Goes(a, "down", 0, 0)
    /\ stray' = IF agent[a].at = "setup" /\ Holds(a) THEN stray \cup {agent[a].lease}
                ELSE stray
    /\ UNCHANGED <<startOption, holder>>
=============================================================================
