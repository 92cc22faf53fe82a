-------------------------- MODULE AgentLeasesProofs --------------------------
(***************************************************************************)
(* For any number of pods and leases, and any number of failed requests,   *)
(* crashes and deletions: the states are well typed, and a start-up lease  *)
(* names an agent only while it starts, unless it is stray.                *)
(*                                                                         *)
(* The second half is about the events: two pods log them only after a     *)
(* lease has expired under a pod that was there, or was written between    *)
(* the two reads of a claim.                                               *)
(***************************************************************************)
EXTENDS AgentLeases, FiniteSetTheorems, TLAPS

(* HeldOnlyWhileStarting is inductive given the types: what a release or a *)
(* crash leaves behind is a lease of 1 .. LeaseCount, or none.             *)
IInv == TypeOK /\ HeldOnlyWhileStarting

LEMMA InitIInv == Init => IInv
  <1> SUFFICES ASSUME Init PROVE IInv
    OBVIOUS
  <1> USE LeaseRequestsAssumption, StartupLeaseAssumption, AgentLeasesAssumption
      DEF Init, StartupInit, ElectionInit, StreamInit
  <1>1. StartupTypeOK
    BY DEF StartupTypeOK, AgentState, Down, Place, StartupLeases
  <1>2. ElectionTypeOK
    BY DEF ElectionTypeOK, ElectorState, Lease, Off
  <1>3. HeldOnlyWhileStarting
    BY DEF HeldOnlyWhileStarting, StartupLeases
  <1>4. StreamTypeOK
    BY DEF StreamTypeOK, StreamState, Tasks, History, Looking, NoTask
  <1>. QED
    BY <1>1, <1>2, <1>3, <1>4 DEF IInv, TypeOK

(* Every action of the start keeps the types of its variables.             *)
LEMMA StartupTypes ==
  ASSUME StartupTypeOK, NEW a \in Agents, NEW outcome \in Outcomes,
         \/ StartProcess(a) \/ FindFree(a) \/ FindNone(a)
         \/ Claim(a, outcome) \/ Release(a, outcome) \/ NothingToRelease(a)
         \/ StartLost(a)
  PROVE  StartupTypeOK'
  <1> USE StartupLeaseAssumption DEF StartupTypeOK
  <1>1. ASSUME NEW at \in {"down", "listing", "claiming", "setup", "up"},
               NEW n \in 0 .. MaxAttempts - 1, NEW l \in 0 .. LeaseCount,
               Goes(a, at, n, l)
        PROVE  agent' \in [Agents -> AgentState]
    BY <1>1 DEF Goes, Place, AgentState
  <1>2. 0 \in 0 .. MaxAttempts - 1 /\ 0 \in 0 .. LeaseCount
    OBVIOUS
  <1>3. agent[a].attempts \in Nat /\ agent[a].lease \in 0 .. LeaseCount
    BY DEF AgentState
  <1>4. CASE StartProcess(a)
    BY <1>1, <1>2, <1>4 DEF StartProcess
  <1>5. CASE FindFree(a)
    <2>1. PICK l \in StartupLeases : Goes(a, "claiming", 0, l)
      BY <1>5 DEF FindFree, FreeLeases
    <2>. QED
      BY <1>1, <1>2, <1>5, <2>1 DEF FindFree, StartupLeases
  <1>6. CASE FindNone(a)
    <2>1. CASE UNCHANGED agent
      BY <1>6, <2>1 DEF FindNone
    <2>2. CASE /\ agent[a].attempts + 1 < MaxAttempts
               /\ Goes(a, "listing", agent[a].attempts + 1, 0)
      <3>1. agent[a].attempts + 1 \in 0 .. MaxAttempts - 1
        BY <1>3, <2>2
      <3>. QED
        BY <1>1, <1>2, <1>6, <2>2, <3>1 DEF FindNone
    <2>3. CASE Goes(a, "setup", 0, 0)
      BY <1>1, <1>2, <1>6, <2>3 DEF FindNone
    <2>. QED
      BY <1>6, <2>1, <2>2, <2>3 DEF FindNone
  <1>7. CASE Claim(a, outcome)
    <2>1. agent' \in [Agents -> AgentState]
      BY <1>1, <1>2, <1>3, <1>7 DEF Claim
    <2>2. holder' \in [StartupLeases -> Agents \cup {NoOne}]
      BY <1>7 DEF Claim
    <2>. QED
      BY <1>7, <2>1, <2>2 DEF Claim
  <1>8. CASE Release(a, outcome)
    <2>1. agent' \in [Agents -> AgentState]
      BY <1>1, <1>2, <1>8 DEF Release
    <2>2. holder' \in [StartupLeases -> Agents \cup {NoOne}]
      BY <1>8 DEF Release
    <2>3. stray' \subseteq stray \cup {agent[a].lease} /\ agent[a].lease # 0
      BY <1>8 DEF Release
    <2>4. stray' \subseteq StartupLeases
      BY <1>3, <2>3 DEF StartupLeases
    <2>. QED
      BY <1>8, <2>1, <2>2, <2>4 DEF Release
  <1>9. CASE NothingToRelease(a)
    BY <1>1, <1>2, <1>9 DEF NothingToRelease
  <1>10. CASE StartLost(a)
    <2>1. agent' \in [Agents -> AgentState]
      BY <1>1, <1>2, <1>10 DEF StartLost
    <2>2. CASE Holds(a)
      <3>1. agent[a].lease \in StartupLeases
        BY <1>3, <2>2 DEF Holds, StartupLeases
      <3>. QED
        BY <1>10, <2>1, <3>1 DEF StartLost
    <2>3. CASE ~Holds(a)
      BY <1>10, <2>1, <2>3 DEF StartLost
    <2>. QED
      BY <2>2, <2>3
  <1>. QED
    BY <1>4, <1>5, <1>6, <1>7, <1>8, <1>9, <1>10

(* Every action of the election keeps the types of its variables.          *)
LEMMA ElectionTypes ==
  ASSUME ElectionTypeOK, NEW a \in Agents, NEW outcome \in Outcomes,
         \/ TryClaim(a, outcome) \/ ReadAgain(a, outcome) \/ Replace(a, outcome)
         \/ RenewRead(a, outcome) \/ RenewPatch(a, outcome) \/ Report(a)
         \/ Expire \/ ElectionLost(a)
  PROVE  ElectionTypeOK'
  <1> DEFINE Places == {"off", "taking", "replacing", "waiting", "leading",
                        "renewing", "reporting", "ended"}
  <1>1. ASSUME NEW at \in Places, NEW current \in BOOLEAN, Moves(a, at, current)
        PROVE  ElectionTypeOK'
    BY <1>1 DEF Moves, ElectionTypeOK, ElectorState
  <1>2. ASSUME NEW at \in Places, Writes(a, at) PROVE ElectionTypeOK'
    BY <1>2 DEF Writes, ElectionTypeOK, ElectorState, Lease
  <1>3. CASE TryClaim(a, outcome)
    <2>1. CASE outcome = "answered" /\ Claimable
      BY <1>1, <1>3, <2>1 DEF TryClaim
    <2>2. CASE ~(outcome = "answered" /\ Claimable)
      BY <1>1, <1>3, <2>2 DEF TryClaim
    <2>. QED
      BY <2>1, <2>2
  <1>4. CASE ReadAgain(a, outcome)
    BY <1>1, <1>4 DEF ReadAgain
  <1>5. CASE Replace(a, outcome)
    BY <1>1, <1>2, <1>5 DEF Replace
  <1>6. CASE RenewRead(a, outcome)
    BY <1>1, <1>6 DEF RenewRead
  <1>7. CASE RenewPatch(a, outcome)
    BY <1>1, <1>2, <1>7 DEF RenewPatch
  <1>8. CASE Report(a)
    BY <1>1, <1>8 DEF Report
  <1>9. CASE Expire
    BY <1>9 DEF Expire, ElectionTypeOK, Lease
  <1>10. CASE ElectionLost(a)
    BY <1>1, <1>10 DEF ElectionLost
  <1>. QED
    BY <1>3, <1>4, <1>5, <1>6, <1>7, <1>8, <1>9, <1>10

(* No action of a start leaves its agent's name on a lease that nobody is  *)
(* going to release.                                                       *)
LEMMA StartupHolds ==
  ASSUME StartupTypeOK, HeldOnlyWhileStarting,
         NEW a \in Agents, NEW outcome \in Outcomes,
         \/ StartProcess(a) \/ FindFree(a) \/ FindNone(a)
         \/ Claim(a, outcome) \/ Release(a, outcome) \/ NothingToRelease(a)
         \/ StartLost(a)
  PROVE  HeldOnlyWhileStarting'
  <1> SUFFICES ASSUME NEW l \in StartupLeases, holder'[l] # NoOne, l \notin stray'
               PROVE  agent'[holder'[l]].at = "setup" /\ agent'[holder'[l]].lease = l
    BY DEF HeldOnlyWhileStarting, StartupLeases
  <1> DEFINE Starting(b) == agent[b].at = "setup" /\ agent[b].lease = l
  <1> USE StartupLeaseAssumption, LeaseRequestsAssumption
      DEF StartupTypeOK, AgentState, StartupLeases, Goes, Place
  <1>1. ASSUME UNCHANGED holder, stray \subseteq stray'
        PROVE  holder[l] \in Agents /\ holder'[l] = holder[l] /\ Starting(holder[l])
    BY <1>1 DEF HeldOnlyWhileStarting
  <1>2. CASE StartProcess(a)
    BY <1>1, <1>2 DEF StartProcess
  <1>3. CASE FindFree(a)
    BY <1>1, <1>3 DEF FindFree
  <1>4. CASE FindNone(a)
    BY <1>1, <1>4 DEF FindNone
  <1>5. CASE Claim(a, outcome)
    <2>1. CASE holder' = holder
      BY <1>1, <1>5, <2>1 DEF Claim
    <2>2. CASE holder' = [holder EXCEPT ![agent[a].lease] = a]
      <3>1. CASE l = agent[a].lease
        BY <1>5, <2>2, <3>1 DEF Claim
      <3>2. CASE l # agent[a].lease
        BY <1>5, <2>2, <3>2 DEF Claim, HeldOnlyWhileStarting
      <3>. QED
        BY <3>1, <3>2
    <2>. QED
      BY <1>5, <2>1, <2>2 DEF Claim
  <1>6. CASE Release(a, outcome)
    <2>1. CASE outcome = "refused"
      BY <1>1, <1>6, <2>1 DEF Release, Holds
    <2>2. CASE outcome # "refused"
      <3>1. holder' = [holder EXCEPT ![agent[a].lease] = NoOne] /\ stray' = stray
        BY <1>6, <2>2 DEF Release
      <3>2. l # agent[a].lease /\ holder'[l] = holder[l]
        BY <3>1
      <3>. QED
        BY <1>6, <3>1, <3>2 DEF Release, HeldOnlyWhileStarting
    <2>. QED
      BY <2>1, <2>2
  <1>7. CASE NothingToRelease(a)
    BY <1>1, <1>7 DEF NothingToRelease
  <1>8. CASE StartLost(a)
    BY <1>1, <1>8 DEF StartLost, Holds
  <1>. QED
    BY <1>2, <1>3, <1>4, <1>5, <1>6, <1>7, <1>8

(* The parts of a stream's state, and what its steps do to them.           *)
LEMMA StreamParts ==
  ASSUME StreamTypeOK, NEW a \in Agents
  PROVE  /\ stream[a].name \in Agents \cup {NoOne} /\ stream[a].heard \in Seq(Agents)
         /\ tasks[a].asleep \in Nat /\ tasks[a].patching \in Nat
  BY DEF StreamTypeOK, StreamState, Tasks

LEMMA StreamTurns ==
  ASSUME StreamTypeOK, NEW a \in Agents
  PROVE  /\ \A at \in {"opening", "watching", "checking", "claiming", "deciding", "logging"} :
               Turns(a, at) => stream' \in [Agents -> StreamState]
         /\ LooksAgain(a) => stream' \in [Agents -> StreamState]
         /\ StartsTask(a) => tasks' \in [Agents -> Tasks]
         /\ \A names \in SUBSET (Agents \cup {NoOne}) : Misses(names) => past' \in History
  <1>1. stream[a].name \in Agents \cup {NoOne} /\ stream[a].heard \in Seq(Agents)
    BY StreamParts
  <1>2. \A at \in {"opening", "watching", "checking", "claiming", "deciding", "logging"} :
               Turns(a, at) => stream' \in [Agents -> StreamState]
    BY <1>1 DEF Turns, StreamTypeOK, StreamState
  <1>3. LooksAgain(a) => stream' \in [Agents -> StreamState]
    BY DEF LooksAgain, Looking, StreamTypeOK, StreamState
  <1>4. StartsTask(a) => tasks' \in [Agents -> Tasks]
    BY DEF StartsTask, StreamTypeOK, Tasks
  <1>5. \A names \in SUBSET (Agents \cup {NoOne}) : Misses(names) => past' \in History
    BY DEF Misses, StreamTypeOK, History
  <1>. QED
    BY <1>2, <1>3, <1>4, <1>5

(* Every action of the stream, and the end of its process, keeps the types *)
(* of its variables; those of the election change as in FeatureLeader.     *)
LEMMA StreamTypes ==
  ASSUME StreamTypeOK, NEW a \in Agents, NEW outcome \in Outcomes,
         \/ Look(a, outcome) \/ Listed(a) \/ WatchBreaks(a) \/ HearDeletion(a)
         \/ Check(a, outcome) \/ ClaimBegins(a, outcome) \/ ClaimGoesOn(a, outcome)
         \/ Claimed(a) \/ NotClaimed(a, outcome) \/ LogBreaks(a)
         \/ TaskReads(a, outcome) \/ TaskPatches(a, outcome)
         \/ StreamLost(a) \/ PodDeleted(a)
  PROVE  StreamTypeOK'
  <1> DEFINE Names == SUBSET (Agents \cup {NoOne})
  <1>1. /\ stream[a].name \in Agents \cup {NoOne} /\ stream[a].heard \in Seq(Agents)
        /\ tasks[a].asleep \in Nat /\ tasks[a].patching \in Nat
    BY StreamParts
  <1>2. UNCHANGED stream \/ Turns(a, "opening") \/ Turns(a, "watching") \/ Turns(a, "claiming")
          \/ Turns(a, "deciding") \/ Turns(a, "checking") \/ Turns(a, "logging")
          \/ LooksAgain(a)
        => stream' \in [Agents -> StreamState]
    BY StreamTurns DEF StreamTypeOK
  <1>3. UNCHANGED tasks \/ StartsTask(a) => tasks' \in [Agents -> Tasks]
    BY StreamTurns DEF StreamTypeOK
  <1>4. UNCHANGED past \/ (\E names \in Names : Misses(names)) => past' \in History
    BY StreamTurns DEF StreamTypeOK
  <1>5. {} \in Names /\ {a} \in Names /\ {stream[a].name} \in Names
    BY <1>1
  <1>6. Lapsed(a, outcome) => past' \in History
    BY <1>4, <1>5 DEF Lapsed
  <1>7. CASE Look(a, outcome)
    <2>1. past' \in History
      BY <1>4, <1>5, <1>7 DEF Look
    <2>. QED
      BY <1>2, <1>3, <1>7, <2>1 DEF Look, StreamTypeOK
  <1>8. CASE Listed(a) \/ WatchBreaks(a) \/ LogBreaks(a)
    BY <1>2, <1>3, <1>4, <1>8 DEF Listed, WatchBreaks, LogBreaks, StreamTypeOK
  <1>9. CASE HearDeletion(a)
    <2>1. Head(stream[a].heard) \in Agents
      BY <1>1, <1>9 DEF HearDeletion
    <2>2. stream' \in [Agents -> StreamState]
      BY <1>9, <2>1 DEF HearDeletion, StreamTypeOK, StreamState
    <2>3. {stream[a].heard[i] : i \in 2 .. Len(stream[a].heard)} \in Names
      BY <1>1
    <2>4. past' \in History
      BY <1>4, <1>9, <2>3 DEF HearDeletion
    <2>. QED
      BY <1>3, <1>9, <2>2, <2>4 DEF HearDeletion, StreamTypeOK
  <1>10. CASE Check(a, outcome) \/ NotClaimed(a, outcome)
    BY <1>2, <1>3, <1>6, <1>10 DEF Check, NotClaimed, StreamTypeOK
  <1>11. CASE ClaimBegins(a, outcome)
    BY <1>2, <1>3, <1>4, <1>11 DEF ClaimBegins, StreamTypeOK
  <1>12. CASE ClaimGoesOn(a, outcome)
    <2>1. past' \in History
      BY <1>4, <1>12 DEF ClaimGoesOn, Races, Outdated, StreamTypeOK, History
    <2>. QED
      BY <1>2, <1>3, <1>12, <2>1 DEF ClaimGoesOn, StreamTypeOK
  <1>13. CASE Claimed(a)
    BY <1>2, <1>3, <1>4, <1>13 DEF Claimed, StreamTypeOK
  <1>14. CASE TaskReads(a, outcome)
    <2>1. tasks' \in [Agents -> Tasks]
      BY <1>1, <1>14 DEF TaskReads, StreamTypeOK, Tasks
    <2>. QED
      BY <1>2, <1>4, <1>14, <2>1 DEF TaskReads, StreamTypeOK
  <1>15. CASE TaskPatches(a, outcome)
    <2>1. tasks' \in [Agents -> Tasks]
      BY <1>1, <1>15 DEF TaskPatches, StreamTypeOK, Tasks
    <2>2. past' \in History
      BY <1>4, <1>5, <1>15 DEF TaskPatches
    <2>. QED
      BY <1>2, <1>15, <2>1, <2>2 DEF TaskPatches, StreamTypeOK
  <1>16. FollowedUp(a) \in Names /\ FollowedUp(a) \cup {a} \in Names
    BY DEF FollowedUp
  <1>17. NoTask \in Tasks /\ Looking \in StreamState
    BY DEF NoTask, Tasks, Looking, StreamState
  <1>18. CASE StreamLost(a)
    <2>1. past' \in History
      BY <1>4, <1>16, <1>18 DEF StreamLost
    <2>. QED
      BY <1>17, <1>18, <2>1 DEF StreamLost, StreamTypeOK
  <1>19. CASE PodDeleted(a)
    <2>1. past' \in History
      BY <1>4, <1>16, <1>19 DEF PodDeleted
    <2>2. tasks' \in [Agents -> Tasks]
      BY <1>17, <1>19 DEF PodDeleted, StreamTypeOK
    <2>3. ASSUME NEW b \in Agents
          PROVE  [stream[b] EXCEPT !.heard = Append(@, a)] \in StreamState
      <3>1. Append(stream[b].heard, a) \in Seq(Agents)
        BY StreamParts
      <3>. QED
        BY <3>1 DEF StreamTypeOK, StreamState
    <2>4. stream' \in [Agents -> StreamState]
      BY <1>17, <1>19, <2>3 DEF PodDeleted, StreamTypeOK
    <2>. QED
      BY <2>1, <2>2, <2>4 DEF StreamTypeOK
  <1>. QED
    BY <1>7, <1>8, <1>9, <1>10, <1>11, <1>12, <1>13, <1>14, <1>15, <1>18, <1>19

(* The steps of the stream that touch the election do to its variables     *)
(* what an action of the election would, or what keeps their types.        *)
LEMMA StreamElectionTypes ==
  ASSUME ElectionTypeOK, NEW a \in Agents, NEW outcome \in Outcomes,
         \/ Look(a, outcome) \/ Listed(a) \/ WatchBreaks(a) \/ HearDeletion(a)
         \/ Check(a, outcome) \/ ClaimBegins(a, outcome) \/ ClaimGoesOn(a, outcome)
         \/ Claimed(a) \/ NotClaimed(a, outcome) \/ LogBreaks(a)
         \/ TaskReads(a, outcome) \/ TaskPatches(a, outcome)
  PROVE  ElectionTypeOK'
  <1>1. UNCHANGED electionVars => ElectionTypeOK'
    BY DEF electionVars, ElectionTypeOK
  <1>2. CASE Look(a, outcome)
    BY <1>2 DEF Look, Moves, ElectionTypeOK, ElectorState
  <1>3. CASE ClaimBegins(a, outcome) \/ ClaimGoesOn(a, outcome)
    BY <1>3, ElectionTypes DEF ClaimBegins, ClaimGoesOn
  <1>4. CASE TaskPatches(a, outcome)
    <2>1. CASE outcome = "refused"
      BY <1>1, <1>4, <2>1 DEF TaskPatches
    <2>2. CASE Writes(a, elector[a].at)
      <3>1. elector[a].at \in {"off", "taking", "replacing", "waiting", "leading",
                              "renewing", "reporting", "ended"}
        BY DEF ElectionTypeOK, ElectorState
      <3>. QED
        BY <2>2, <3>1 DEF Writes, ElectionTypeOK, ElectorState, Lease
    <2>. QED
      BY <1>4, <2>1, <2>2 DEF TaskPatches
  <1>5. CASE \/ Listed(a) \/ WatchBreaks(a) \/ HearDeletion(a) \/ Check(a, outcome)
             \/ Claimed(a) \/ NotClaimed(a, outcome) \/ LogBreaks(a)
             \/ TaskReads(a, outcome)
    BY <1>1, <1>5 DEF Listed, WatchBreaks, HearDeletion, Check, Claimed, NotClaimed,
                      LogBreaks, TaskReads
  <1>. QED
    BY <1>2, <1>3, <1>4, <1>5

(* A step of an agent that leaves its start alone.                         *)
LEMMA StartupUntouched ==
  ASSUME StartupTypeOK, HeldOnlyWhileStarting, UNCHANGED startupVars
  PROVE  StartupTypeOK' /\ HeldOnlyWhileStarting'
  BY DEF startupVars, StartupTypeOK, HeldOnlyWhileStarting

LEMMA StreamUntouched ==
  ASSUME StreamTypeOK, UNCHANGED stream, UNCHANGED tasks
  PROVE  past' \in History => StreamTypeOK'
  BY DEF StreamTypeOK

LEMMA StepIInv ==
  ASSUME IInv, Next
  PROVE  IInv'
  <1> USE DEF IInv, TypeOK
  <1> DEFINE Counted == errors' \in 0 .. MaxErrors[feature] /\ crashes' \in 0 .. MaxCrashes[feature]
             Bound == MaxErrors[feature] \in Nat /\ MaxCrashes[feature] \in Nat
             PodsTypeOK == pods \subseteq Agents /\ gone \subseteq Agents
  <1>1. feature' = feature /\ Bound
    BY AgentLeasesAssumption DEF Next
  <1>2. ASSUME NEW outcome \in Outcomes, Request(outcome) PROVE Counted
    BY <1>1, <1>2 DEF Request
  <1>3. past \in History
    BY DEF StreamTypeOK
  <1>4. UNCHANGED streamVars => StreamTypeOK'
    BY DEF streamVars, StreamTypeOK
  <1>5. SUFFICES /\ StartupTypeOK' /\ HeldOnlyWhileStarting' /\ ElectionTypeOK'
                 /\ StreamTypeOK' /\ PodsTypeOK' /\ Counted
    BY <1>1
  <1>6. CASE TimePasses
    <2>1. ElectionTypeOK'
      BY <1>6 DEF TimePasses, Expire, ElectionTypeOK, Lease
    <2>2. past' \in History
      BY <1>3, <1>6 DEF TimePasses, History
    <2>3. StreamTypeOK'
      BY <1>6, <2>2, StreamUntouched DEF TimePasses
    <2>4. PodsTypeOK' /\ Counted
      BY <1>6 DEF TimePasses, podVars
    <2>. QED
      BY <1>6, <2>1, <2>3, <2>4, StartupUntouched DEF TimePasses
  <1>7. ASSUME NEW a \in Agents, Delete(a)
        PROVE  /\ StartupTypeOK' /\ HeldOnlyWhileStarting' /\ ElectionTypeOK'
               /\ StreamTypeOK' /\ PodsTypeOK' /\ Counted
    <2>1. "refused" \in Outcomes
      BY DEF Outcomes
    <2>2. StartupTypeOK' /\ HeldOnlyWhileStarting'
      BY <1>7, <2>1, StartupTypes, StartupHolds, StartupUntouched DEF Delete
    <2>3. ElectionTypeOK' /\ StreamTypeOK'
      BY <1>7, <2>1, ElectionTypes, StreamTypes DEF Delete
    <2>. QED
      BY <1>7, <2>2, <2>3 DEF Delete
  <1>8. ASSUME NEW a \in Agents, Create(a)
        PROVE  /\ StartupTypeOK' /\ HeldOnlyWhileStarting' /\ ElectionTypeOK'
               /\ StreamTypeOK' /\ PodsTypeOK' /\ Counted
    BY <1>4, <1>8, StartupUntouched DEF Create, electionVars, ElectionTypeOK
  <1>9. ASSUME UNCHANGED podVars PROVE PodsTypeOK'
    BY <1>9 DEF podVars
  <1>10. ASSUME NEW a \in Agents, StartupStep(a)
         PROVE  /\ StartupTypeOK' /\ HeldOnlyWhileStarting' /\ ElectionTypeOK'
                /\ StreamTypeOK' /\ Counted
    <2>1. ElectionTypeOK' /\ StreamTypeOK'
      BY <1>4, <1>10 DEF StartupStep, electionVars, ElectionTypeOK
    <2>2. Counted
      BY <1>2, <1>10 DEF StartupStep
    <2>3. PICK outcome \in Outcomes :
            \/ StartProcess(a) \/ FindFree(a) \/ FindNone(a)
            \/ Claim(a, outcome) \/ Release(a, outcome) \/ NothingToRelease(a)
      BY <1>10 DEF StartupStep, Outcomes
    <2>. QED
      BY <2>1, <2>2, <2>3, StartupTypes, StartupHolds
  <1>11. ASSUME NEW a \in Agents, ClaimLeadership(a)
         PROVE  /\ StartupTypeOK' /\ HeldOnlyWhileStarting' /\ ElectionTypeOK'
                /\ StreamTypeOK' /\ Counted
    <2>1. PICK outcome \in Outcomes :
            /\ TryClaim(a, outcome) \/ ReadAgain(a, outcome) \/ Replace(a, outcome)
            /\ UNCHANGED past \/ Races(a, outcome)
            /\ Request(outcome)
      BY <1>11 DEF ClaimLeadership
    <2>2. past' \in History
      BY <1>3, <2>1 DEF Races, Outdated, History
    <2>3. UNCHANGED startupVars /\ UNCHANGED stream /\ UNCHANGED tasks
      BY <1>11 DEF ClaimLeadership
    <2>. QED
      BY <1>2, <2>1, <2>2, <2>3, ElectionTypes, StartupUntouched, StreamUntouched
  <1>12. ASSUME NEW a \in Agents, Reporting(a)
         PROVE  /\ StartupTypeOK' /\ HeldOnlyWhileStarting' /\ ElectionTypeOK'
                /\ StreamTypeOK' /\ Counted
    <2>1. UNCHANGED startupVars /\ UNCHANGED streamVars
      BY <1>12 DEF Reporting
    <2>2. Counted
      BY <1>2, <1>12 DEF Reporting
    <2>3. PICK outcome \in Outcomes :
            RenewRead(a, outcome) \/ RenewPatch(a, outcome) \/ Report(a)
      BY <1>12 DEF Reporting, Outcomes
    <2>. QED
      BY <1>4, <2>1, <2>2, <2>3, ElectionTypes, StartupUntouched
  <1>13. ASSUME NEW a \in Agents, Streaming(a) \/ WatchFails(a) \/ Renewal(a)
         PROVE  /\ StartupTypeOK' /\ HeldOnlyWhileStarting' /\ ElectionTypeOK'
                /\ StreamTypeOK' /\ Counted
    <2>1. UNCHANGED startupVars
      BY <1>13 DEF Streaming, WatchFails, Renewal
    <2>2. Counted
      BY <1>2, <1>13 DEF Streaming, WatchFails, Renewal, Outcomes
    <2>3. PICK outcome \in Outcomes :
            \/ Look(a, outcome) \/ Listed(a) \/ WatchBreaks(a) \/ HearDeletion(a)
            \/ Check(a, outcome) \/ ClaimBegins(a, outcome) \/ ClaimGoesOn(a, outcome)
            \/ Claimed(a) \/ NotClaimed(a, outcome) \/ LogBreaks(a)
            \/ TaskReads(a, outcome) \/ TaskPatches(a, outcome)
      BY <1>13 DEF Streaming, WatchFails, Renewal, Outcomes
    <2>. QED
      BY <2>1, <2>2, <2>3, StreamTypes, StreamElectionTypes, StartupUntouched
  <1>14. ASSUME NEW a \in Agents, Crash(a)
         PROVE  /\ StartupTypeOK' /\ HeldOnlyWhileStarting' /\ ElectionTypeOK'
                /\ StreamTypeOK' /\ Counted
    <2>1. StartLost(a) /\ ElectionLost(a) /\ StreamLost(a)
      BY <1>14 DEF Crash
    <2>2. Counted
      BY <1>1, <1>14 DEF Crash
    <2>3. "refused" \in Outcomes
      BY DEF Outcomes
    <2>. QED
      BY <2>1, <2>2, <2>3, StartupTypes, StartupHolds, ElectionTypes, StreamTypes
  <1>. QED
    BY <1>6, <1>7, <1>8, <1>9, <1>10, <1>11, <1>12, <1>13, <1>14 DEF Next, AgentStep

LEMMA StutterIInv == IInv /\ UNCHANGED vars => IInv'
  BY DEF vars, startupVars, electionVars, streamVars, podVars, IInv, TypeOK,
         StartupTypeOK, ElectionTypeOK, StreamTypeOK, HeldOnlyWhileStarting

LEMMA IInvHolds == SafetySpec => []IInv
  <1>1. IInv /\ [Next]_vars => IInv'
    BY StepIInv, StutterIInv
  <1>. QED
    BY <1>1, InitIInv, PTL DEF SafetySpec

(* The states of the pods, the leases and the election are well typed,     *)
(* whatever the numbers of pods, leases, errors, crashes and deletions.    *)
THEOREM AgentLeasesTypeOK == Spec => []TypeOK
  <1>1. IInv => TypeOK
    BY DEF IInv
  <1>. QED
    BY <1>1, IInvHolds, PTL DEF Spec

(* A start-up lease is held by an agent between its claim and its release, *)
(* or it is stray: claims that race, releases of leases that another agent *)
(* has claimed, and lost answers leave no other one behind.                *)
THEOREM NoLeaseKept == Spec => []HeldOnlyWhileStarting
  <1>1. IInv => HeldOnlyWhileStarting
    BY DEF IInv
  <1>. QED
    BY <1>1, IInvHolds, PTL DEF Spec
---------------------------------------------------------------------------
(* One logger of the events.                                               *)

(* A process runs in a pod that is there, and its stream and tasks run     *)
(* when it is up.                                                          *)
RunsInPods ==
    \A a \in Agents :
        /\ agent[a].at # "down" => a \in pods
        /\ stream[a].at # "looking" \/ tasks[a].asleep > 0 \/ tasks[a].patching > 0
             => Streams(a)

(* A name is not used again.                                               *)
HolderHasBeen == lease.holder \in pods \cup gone \cup {NoOne}

(* The lease of a pod that is there has not expired, ...                   *)
NotExpired == lease.expired => lease.holder \notin pods

(* ... whoever is about to replace the version that is there may, ...      *)
ClaimsAreGood ==
    \A a \in Agents :
        elector[a].at \in {"taking", "replacing"} /\ elector[a].current => Claimable

(* ... and the pod that logs, or renews, has the lease.                    *)
LoggerHolds ==
    \A a \in Agents :
        stream[a].at = "logging" \/ tasks[a].patching > 0 => lease.holder = a

(* No lease has expired under a pod, and no claim was overtaken.           *)
Undisturbed == feature = "events" /\ ~past.late /\ ~past.raced

(* OneEventLogger follows from LoggerHolds.  That a pod that logs is not   *)
(* replaced as the holder rests on the two before: a claim that is good    *)
(* meets no holder, or one that is not there.                              *)
LeaseInv == HolderHasBeen /\ (Undisturbed => NotExpired /\ ClaimsAreGood /\ LoggerHolds)

EventInv == RunsInPods /\ LeaseInv

LEMMA InitEventInv == Init => EventInv
  <1> SUFFICES ASSUME Init PROVE EventInv
    OBVIOUS
  <1> USE DEF Init, StartupInit, ElectionInit, StreamInit
  <1>1. RunsInPods
    <2> SUFFICES ASSUME NEW a \in Agents
                 PROVE  /\ agent[a].at = "down" /\ stream[a].at = "looking"
                        /\ ~(tasks[a].asleep > 0) /\ ~(tasks[a].patching > 0)
      BY DEF RunsInPods
    <2>1. agent[a].at = "down"
      BY DEF Down, Place
    <2>2. stream[a].at = "looking"
      BY DEF Looking
    <2>3. ~(tasks[a].asleep > 0) /\ ~(tasks[a].patching > 0)
      BY DEF NoTask
    <2>. QED
      BY <2>1, <2>2, <2>3
  <1>2. HolderHasBeen
    BY DEF HolderHasBeen
  <1>3. NotExpired /\ ClaimsAreGood /\ LoggerHolds
    BY DEF NotExpired, ClaimsAreGood, LoggerHolds, Off, Looking, NoTask
  <1>. QED
    BY <1>1, <1>2, <1>3 DEF EventInv, LeaseInv

(* The history is never taken back.                                        *)
LEMMA HistoryStays ==
  ASSUME IInv, Next, Undisturbed'
  PROVE  Undisturbed
  <1>1. past \in History /\ feature' = feature
    BY DEF IInv, TypeOK, StreamTypeOK, Next
  <1>2. ASSUME \/ UNCHANGED past \/ (\E names : Misses(names))
               \/ (\E a, outcome : Races(a, outcome)) \/ TimePasses
        PROVE  Undisturbed
    BY <1>1, <1>2 DEF Undisturbed, Misses, Races, TimePasses, History
  <1>3. ASSUME NEW a \in Agents, AgentStep(a) PROVE Undisturbed
    <2>1. CASE StartupStep(a) \/ Reporting(a)
      BY <1>2, <2>1 DEF StartupStep, Reporting, streamVars
    <2>2. CASE ClaimLeadership(a)
      BY <1>2, <2>2 DEF ClaimLeadership
    <2>3. CASE Streaming(a)
      <3>1. PICK outcome \in Outcomes :
              \/ Look(a, outcome) \/ Listed(a) \/ HearDeletion(a) \/ Check(a, outcome)
              \/ ClaimBegins(a, outcome) \/ ClaimGoesOn(a, outcome) \/ Claimed(a)
              \/ NotClaimed(a, outcome)
        BY <2>3 DEF Streaming, Outcomes
      <3>. QED
        BY <1>2, <3>1 DEF Look, Listed, HearDeletion, Check, ClaimBegins, ClaimGoesOn,
                          Claimed, NotClaimed, Lapsed
    <2>. QED
      BY <1>3, <2>1, <2>2, <2>3 DEF AgentStep
  <1>4. ASSUME NEW a \in Agents, Renewal(a) \/ WatchFails(a) PROVE Undisturbed
    BY <1>2, <1>4 DEF Renewal, WatchFails, TaskReads, TaskPatches, WatchBreaks, LogBreaks
  <1>5. ASSUME NEW a \in Agents, Crash(a) \/ Delete(a) \/ Create(a) PROVE Undisturbed
    BY <1>2, <1>5 DEF Crash, Delete, Create, StreamLost, PodDeleted, streamVars
  <1>. QED
    BY <1>2, <1>3, <1>4, <1>5 DEF Next
---------------------------------------------------------------------------
(* Who runs, and where.                                                    *)

(* A step of the start is of a process that is not up yet.                 *)
LEMMA StartupMoves ==
  ASSUME IInv, NEW a \in Agents, StartupStep(a)
  PROVE  /\ a \in pods /\ agent[a].at # "up"
         /\ \A b \in Agents \ {a} : agent'[b] = agent[b]
  <1>1. PICK outcome \in Outcomes :
          \/ StartProcess(a) \/ FindFree(a) \/ FindNone(a)
          \/ Claim(a, outcome) \/ Release(a, outcome) \/ NothingToRelease(a)
    BY DEF StartupStep, Outcomes
  <1>2. a \in pods
    BY DEF StartupStep
  <1>3. agent \in [Agents -> AgentState]
    BY DEF IInv, TypeOK, StartupTypeOK
  <1>. QED
    BY <1>1, <1>2, <1>3 DEF StartProcess, FindFree, FindNone, Claim, Release, NothingToRelease,
                            Goes, Place

(* The end of a process, if there was one.                                 *)
LEMMA ProcessEnds ==
  ASSUME IInv, NEW a \in Agents,
         StartLost(a) \/ (agent[a].at = "down" /\ UNCHANGED startupVars)
  PROVE  /\ agent'[a].at = "down"
         /\ \A b \in Agents \ {a} : agent'[b] = agent[b]
  <1>1. agent \in [Agents -> AgentState]
    BY DEF IInv, TypeOK, StartupTypeOK
  <1>. QED
    BY <1>1 DEF StartLost, Goes, Place, startupVars

(* A stream moves when its process is up, and nobody else's does.          *)
LEMMA StreamMoves ==
  ASSUME IInv, RunsInPods, NEW a \in Agents, Streaming(a) \/ WatchFails(a) \/ Renewal(a)
  PROVE  /\ \A b \in Agents \ {a} : stream'[b] = stream[b] /\ tasks'[b] = tasks[b]
         /\ UNCHANGED agent /\ Streams(a)
  <1>1. stream \in [Agents -> StreamState] /\ tasks \in [Agents -> Tasks]
    BY DEF IInv, TypeOK, StreamTypeOK
  <1>2. CASE Streaming(a)
    <2>1. PICK outcome \in Outcomes :
            \/ Look(a, outcome) \/ Listed(a) \/ HearDeletion(a) \/ Check(a, outcome)
            \/ ClaimBegins(a, outcome) \/ ClaimGoesOn(a, outcome) \/ Claimed(a)
            \/ NotClaimed(a, outcome)
      BY <1>2 DEF Streaming, Outcomes
    <2>. QED
      BY <1>1, <1>2, <2>1 DEF Streaming, startupVars, Look, Listed, HearDeletion, Check,
             ClaimBegins, ClaimGoesOn, Claimed, NotClaimed, Turns, LooksAgain, StartsTask
  <1>3. CASE WatchFails(a)
    BY <1>1, <1>3 DEF WatchFails, startupVars, WatchBreaks, LogBreaks, Turns, LooksAgain
  <1>4. CASE Renewal(a)
    BY <1>1, <1>4 DEF Renewal, startupVars, TaskReads, TaskPatches, RunsInPods
  <1>. QED
    BY <1>2, <1>3, <1>4

LEMMA RunsInPodsStep ==
  ASSUME IInv, RunsInPods, Next
  PROVE  RunsInPods'
  <1> DEFINE Runs(b) == /\ agent[b].at # "down" => b \in pods
                        /\ stream[b].at # "looking" \/ tasks[b].asleep > 0 \/ tasks[b].patching > 0
                             => Streams(b)
  <1>1. feature' = feature
    BY DEF Next
  <1>2. ASSUME NEW b \in Agents, agent'[b] = agent[b], stream'[b] = stream[b],
               tasks'[b] = tasks[b], b \in pods => b \in pods'
        PROVE  Runs(b)'
    BY <1>1, <1>2 DEF RunsInPods, Streams, Up
  <1>3. SUFFICES \A b \in Agents : Runs(b)'
    BY DEF RunsInPods
  <1>4. stream \in [Agents -> StreamState] /\ tasks \in [Agents -> Tasks]
    BY DEF IInv, TypeOK, StreamTypeOK
  <1>5. CASE TimePasses \/ \E a \in Agents : Create(a)
    BY <1>2, <1>5 DEF TimePasses, Create, startupVars, streamVars, podVars
  <1>6. ASSUME NEW a \in Agents, Delete(a) PROVE \A b \in Agents : Runs(b)'
    <2>1. /\ agent'[a].at = "down"
          /\ \A b \in Agents \ {a} : agent'[b] = agent[b] /\ (b \in pods => b \in pods')
      BY <1>6, ProcessEnds DEF Delete
    <2>2. /\ stream'[a].at = "looking" /\ tasks'[a].asleep = 0 /\ tasks'[a].patching = 0
          /\ \A b \in Agents \ {a} : stream'[b].at = stream[b].at /\ tasks'[b] = tasks[b]
      BY <1>4, <1>6 DEF Delete, PodDeleted, Looking, NoTask, StreamState
    <2>3. Runs(a)'
      BY <2>1, <2>2
    <2>4. \A b \in Agents \ {a} : Runs(b)'
      BY <1>1, <2>1, <2>2 DEF RunsInPods, Streams, Up
    <2>. QED
      BY <2>3, <2>4
  <1>7. ASSUME NEW a \in Agents, Crash(a), UNCHANGED podVars PROVE \A b \in Agents : Runs(b)'
    <2>1. /\ agent'[a].at = "down"
          /\ \A b \in Agents \ {a} : agent'[b] = agent[b]
      BY <1>7, ProcessEnds DEF Crash
    <2>2. /\ stream'[a].at = "looking" /\ tasks'[a].asleep = 0 /\ tasks'[a].patching = 0
          /\ \A b \in Agents \ {a} : stream'[b] = stream[b] /\ tasks'[b] = tasks[b]
      BY <1>4, <1>7 DEF Crash, StreamLost, Looking, NoTask
    <2>3. Runs(a)'
      BY <2>1, <2>2
    <2>4. \A b \in Agents \ {a} : Runs(b)'
      BY <1>2, <1>7, <2>1, <2>2 DEF podVars
    <2>. QED
      BY <2>3, <2>4
  <1>8. ASSUME NEW a \in Agents, StartupStep(a), UNCHANGED podVars
        PROVE  \A b \in Agents : Runs(b)'
    <2>1. UNCHANGED stream /\ UNCHANGED tasks /\ UNCHANGED pods
      BY <1>8 DEF StartupStep, streamVars, podVars
    <2>2. \A b \in Agents \ {a} : Runs(b)'
      BY <1>2, <1>8, <2>1, StartupMoves
    <2>3. Runs(a)'
      BY <1>8, <2>1, StartupMoves DEF RunsInPods, Streams, Up
    <2>. QED
      BY <2>2, <2>3
  <1>9. ASSUME NEW a \in Agents, Streaming(a) \/ WatchFails(a) \/ Renewal(a), UNCHANGED podVars
        PROVE  \A b \in Agents : Runs(b)'
    <2>1. \A b \in Agents \ {a} : Runs(b)'
      BY <1>2, <1>9, StreamMoves DEF podVars
    <2>2. Runs(a)'
      BY <1>1, <1>9, StreamMoves DEF podVars, RunsInPods, Streams, Up
    <2>. QED
      BY <2>1, <2>2
  <1>10. ASSUME NEW a \in Agents, ClaimLeadership(a) \/ Reporting(a), UNCHANGED podVars
         PROVE  \A b \in Agents : Runs(b)'
    BY <1>2, <1>10 DEF ClaimLeadership, Reporting, startupVars, streamVars, podVars
  <1>. QED
    BY <1>5, <1>6, <1>7, <1>8, <1>9, <1>10 DEF Next, AgentStep
---------------------------------------------------------------------------
(* Who is written into the lease, and over whom.                           *)

(* A pod becomes the holder that is it already, or may be: then no other   *)
(* pod logs or renews.                                                     *)
LEMMA TakesOver ==
  ASSUME IInv, RunsInPods, LeaseInv, NEW a \in Agents, a \in pods, UNCHANGED podVars,
         lease' = [holder |-> a, expired |-> FALSE],
         \A b \in Agents : ~elector'[b].current,
         \A b \in Agents \ {a} : stream'[b] = stream[b] /\ tasks'[b] = tasks[b],
         Undisturbed' => Undisturbed /\ (Claimable \/ lease.holder = a)
  PROVE  LeaseInv'
  <1>1. HolderHasBeen'
    BY DEF HolderHasBeen, podVars
  <1>2. ASSUME Undisturbed' PROVE NotExpired' /\ ClaimsAreGood' /\ LoggerHolds'
    <2>1. NotExpired /\ LoggerHolds /\ (Claimable \/ lease.holder = a)
      BY <1>2 DEF LeaseInv
    <2>2. ASSUME NEW b \in Agents \ {a}, stream[b].at = "logging" \/ tasks[b].patching > 0
          PROVE  FALSE
      <3>1. b \in pods
        BY <2>2 DEF RunsInPods, Streams, Up
      <3>2. lease.holder = b
        BY <2>1, <2>2 DEF LoggerHolds
      <3>. QED
        BY <2>1, <3>1, <3>2, LeaseRequestsAssumption DEF Claimable, NotExpired
    <2>3. LoggerHolds'
      BY <2>2 DEF LoggerHolds
    <2>. QED
      BY <2>3 DEF NotExpired, ClaimsAreGood
  <1>. QED
    BY <1>1, <1>2 DEF LeaseInv

(* The lease stays as it is, and so do the pods.                           *)
LEMMA LeaseStays ==
  ASSUME LeaseInv, UNCHANGED podVars, UNCHANGED lease, Undisturbed' => Undisturbed,
         Undisturbed /\ Undisturbed' => ClaimsAreGood' /\ LoggerHolds'
  PROVE  LeaseInv'
  BY DEF LeaseInv, podVars, HolderHasBeen, NotExpired

(* A step of one elector that leaves the lease: it moves to a place from   *)
(* which it replaces nothing, or may replace what is there.                *)
LEMMA ElectorMoves ==
  ASSUME IInv, NEW a \in Agents, NEW at, NEW current \in BOOLEAN, Moves(a, at, current),
         ClaimsAreGood, current => Claimable
  PROVE  ClaimsAreGood'
  BY DEF IInv, TypeOK, ElectionTypeOK, ElectorState, Moves, ClaimsAreGood, Claimable

(* The steps of a claim, of the set-up and of the stream.                  *)
LEMMA ClaimSteps ==
  ASSUME IInv, RunsInPods, LeaseInv, NEW a \in Agents, a \in pods, NEW outcome \in Outcomes,
         UNCHANGED podVars, Undisturbed' => Undisturbed,
         \A b \in Agents : stream'[b].at = "logging" => stream[b].at = "logging",
         \A b \in Agents \ {a} : stream'[b] = stream[b],
         UNCHANGED tasks,
         \/ TryClaim(a, outcome) \/ Replace(a, outcome)
         \/ ReadAgain(a, outcome) /\ (Undisturbed' => Races(a, outcome))
  PROVE  LeaseInv'
  <1>1. UNCHANGED lease /\ LoggerHolds => LoggerHolds'
    BY DEF LoggerHolds
  <1>2. ASSUME UNCHANGED lease, Undisturbed /\ Undisturbed' => ClaimsAreGood' PROVE LeaseInv'
    BY <1>1, <1>2, LeaseStays DEF LeaseInv
  <1>3. ASSUME NEW at, Moves(a, at, FALSE) PROVE LeaseInv'
    BY <1>2, <1>3, ElectorMoves DEF LeaseInv, Moves
  <1>4. CASE TryClaim(a, outcome)
    <2>1. CASE outcome = "answered" /\ Claimable
      <3>1. Moves(a, "taking", TRUE)
        BY <1>4, <2>1 DEF TryClaim
      <3>. QED
        BY <1>2, <2>1, <3>1, ElectorMoves DEF LeaseInv, Moves
    <2>2. CASE ~(outcome = "answered" /\ Claimable)
      BY <1>3, <1>4, <2>2 DEF TryClaim
    <2>. QED
      BY <2>1, <2>2
  <1>5. CASE ReadAgain(a, outcome) /\ (Undisturbed' => Races(a, outcome))
    <2>1. CASE outcome = "answered"
      <3>1. Moves(a, "replacing", TRUE) /\ elector[a].at = "taking"
        BY <1>5, <2>1 DEF ReadAgain
      <3>2. ASSUME Undisturbed, Undisturbed' PROVE Claimable
        <4>1. past \in History
          BY DEF IInv, TypeOK, StreamTypeOK
        <4>2. elector[a].current
          BY <1>5, <2>1, <3>2, <4>1 DEF Races, Outdated, Undisturbed, History
        <4>. QED
          BY <3>1, <3>2, <4>2 DEF LeaseInv, ClaimsAreGood
      <3>. QED
        BY <1>2, <3>1, <3>2, ElectorMoves DEF LeaseInv, Moves
    <2>2. CASE outcome # "answered"
      BY <1>3, <1>5, <2>2 DEF ReadAgain
    <2>. QED
      BY <2>1, <2>2
  <1>6. CASE Replace(a, outcome)
    <2>1. CASE elector[a].current /\ outcome # "refused"
      <3>1. /\ lease' = [holder |-> a, expired |-> FALSE]
            /\ \A b \in Agents : ~elector'[b].current
        BY <1>6, <2>1 DEF Replace, Writes
      <3>2. Undisturbed => Claimable
        BY <1>6, <2>1 DEF Replace, LeaseInv, ClaimsAreGood
      <3>. QED
        BY <3>1, <3>2, TakesOver
    <2>2. CASE ~(elector[a].current /\ outcome # "refused")
      BY <1>3, <1>6, <2>2 DEF Replace
    <2>. QED
      BY <2>1, <2>2
  <1>. QED
    BY <1>4, <1>5, <1>6

(* The other steps of the stream and of its renewal tasks.                 *)
LEMMA StreamSteps ==
  ASSUME IInv, RunsInPods, LeaseInv, NEW a \in Agents, NEW outcome \in Outcomes,
         UNCHANGED podVars, Undisturbed' => Undisturbed,
         \/ Look(a, outcome) \/ Listed(a) \/ WatchBreaks(a) \/ HearDeletion(a)
         \/ Check(a, outcome) \/ Claimed(a) \/ NotClaimed(a, outcome) \/ LogBreaks(a)
         \/ TaskReads(a, outcome)
  PROVE  LeaseInv'
  <1>1. stream \in [Agents -> StreamState] /\ tasks \in [Agents -> Tasks]
    BY DEF IInv, TypeOK, StreamTypeOK
  <1>2. ClaimsAreGood /\ UNCHANGED electionVars => ClaimsAreGood'
    BY DEF ClaimsAreGood, electionVars, Claimable
  <1>3. CASE Look(a, outcome)
    <2>1. UNCHANGED lease
      BY <1>3 DEF Look, Moves
    <2>2. ASSUME Undisturbed PROVE ClaimsAreGood' /\ LoggerHolds'
      <3>1. ClaimsAreGood'
        BY <1>3, <2>2, ElectorMoves DEF Look, LeaseInv
      <3>2. \A b \in Agents : /\ tasks'[b].patching = tasks[b].patching
                              /\ stream'[b].at = "logging" => \/ stream[b].at = "logging"
                                                              \/ b = a /\ lease.holder = a
        BY <1>1, <1>3 DEF Look, Turns, StartsTask, Tasks, StreamState
      <3>. QED
        BY <2>1, <2>2, <3>1, <3>2 DEF LeaseInv, LoggerHolds
    <2>. QED
      BY <2>1, <2>2, LeaseStays
  <1>4. CASE \/ Listed(a) \/ WatchBreaks(a) \/ HearDeletion(a) \/ Check(a, outcome)
             \/ Claimed(a) \/ NotClaimed(a, outcome) \/ LogBreaks(a)
    <2>1. UNCHANGED electionVars
      BY <1>4 DEF Listed, WatchBreaks, HearDeletion, Check, Claimed, NotClaimed, LogBreaks
    <2>2. \A b \in Agents : tasks'[b].patching = tasks[b].patching
      BY <1>1, <1>4 DEF Listed, WatchBreaks, HearDeletion, Check, Claimed, NotClaimed, LogBreaks,
                        StartsTask, Tasks
    <2>3. \A b \in Agents : stream'[b].at = "logging" => stream[b].at = "logging"
      BY <1>1, <1>4 DEF Listed, WatchBreaks, HearDeletion, Check, Claimed, NotClaimed, LogBreaks,
                        Turns, LooksAgain, Looking, StreamState
    <2>4. LoggerHolds /\ UNCHANGED lease => LoggerHolds'
      BY <2>2, <2>3 DEF LoggerHolds
    <2>. QED
      BY <1>2, <2>1, <2>4, LeaseStays DEF electionVars, LeaseInv
  <1>5. CASE TaskReads(a, outcome)
    <2>1. UNCHANGED electionVars /\ UNCHANGED stream
      BY <1>5 DEF TaskReads
    <2>2. \A b \in Agents : tasks'[b].patching > 0 => \/ tasks[b].patching > 0
                                                      \/ b = a /\ lease.holder = a
      BY <1>1, <1>5 DEF TaskReads, Tasks
    <2>3. LoggerHolds /\ UNCHANGED lease => LoggerHolds'
      BY <2>1, <2>2 DEF LoggerHolds
    <2>. QED
      BY <1>2, <2>1, <2>3, LeaseStays DEF electionVars, LeaseInv
  <1>. QED
    BY <1>3, <1>4, <1>5

(* The patch of a renewal names the pod that has the lease.                *)
LEMMA PatchSteps ==
  ASSUME IInv, RunsInPods, LeaseInv, NEW a \in Agents, NEW outcome \in Outcomes,
         UNCHANGED podVars, Undisturbed' => Undisturbed, TaskPatches(a, outcome)
  PROVE  LeaseInv'
  <1>1. tasks \in [Agents -> Tasks]
    BY DEF IInv, TypeOK, StreamTypeOK
  <1>2. UNCHANGED stream /\ \A b \in Agents \ {a} : tasks'[b] = tasks[b]
    BY <1>1 DEF TaskPatches
  <1>3. CASE outcome = "refused"
    <2>1. UNCHANGED electionVars
      BY <1>3 DEF TaskPatches
    <2>2. \A b \in Agents : tasks'[b].patching > 0 => tasks[b].patching > 0
      BY <1>1 DEF TaskPatches, Tasks
    <2>3. LoggerHolds => LoggerHolds'
      BY <1>2, <2>1, <2>2 DEF LoggerHolds, electionVars
    <2>4. ClaimsAreGood => ClaimsAreGood'
      BY <2>1 DEF ClaimsAreGood, Claimable, electionVars
    <2>. QED
      BY <2>1, <2>3, <2>4, LeaseStays DEF electionVars, LeaseInv
  <1>4. CASE outcome # "refused"
    <2>1. /\ lease' = [holder |-> a, expired |-> FALSE]
          /\ \A b \in Agents : ~elector'[b].current
      BY <1>4 DEF TaskPatches, Writes
    <2>2. a \in pods
      BY DEF TaskPatches, RunsInPods, Streams, Up
    <2>3. Undisturbed => lease.holder = a
      BY DEF TaskPatches, LeaseInv, LoggerHolds
    <2>. QED
      BY <1>2, <2>1, <2>2, <2>3, TakesOver
  <1>. QED
    BY <1>3, <1>4

(* The steps of the reporter, in a cluster whose stream of events is off.  *)
LEMMA ReportSteps ==
  ASSUME IInv, RunsInPods, LeaseInv, UNCHANGED feature, UNCHANGED podVars,
         NEW a \in Agents, Reporting(a)
  PROVE  LeaseInv'
  <1>1. a \in pods /\ ~Undisturbed'
    BY DEF Reporting, Reports, Up, RunsInPods, Undisturbed
  <1>2. lease' = lease \/ lease'.holder = a
    BY DEF Reporting, RenewRead, RenewPatch, Report, Moves, Writes
  <1>. QED
    BY <1>1, <1>2 DEF LeaseInv, HolderHasBeen, podVars

LEMMA LeaseInvStep ==
  ASSUME IInv, RunsInPods, LeaseInv, Next
  PROVE  LeaseInv'
  <1>1. feature' = feature /\ (Undisturbed' => Undisturbed)
    BY HistoryStays DEF Next
  <1>2. past \in History /\ stream \in [Agents -> StreamState] /\ tasks \in [Agents -> Tasks]
    BY DEF IInv, TypeOK, StreamTypeOK
  <1>3. CASE TimePasses
    <2>1. lease' = [holder |-> lease.holder, expired |-> TRUE] /\ UNCHANGED <<stream, tasks, podVars>>
      BY <1>3 DEF TimePasses, Expire
    <2>2. Undisturbed' => NotExpired'
      BY <1>1, <1>2, <1>3, <2>1 DEF TimePasses, Undisturbed, NotExpired, podVars, History
    <2>3. ClaimsAreGood' /\ (LoggerHolds => LoggerHolds')
      BY <2>1 DEF ClaimsAreGood, Claimable, LoggerHolds
    <2>. QED
      BY <1>1, <2>1, <2>2, <2>3 DEF LeaseInv, HolderHasBeen, podVars
  <1>4. ASSUME NEW a \in Agents, ElectionLost(a),
               \A b \in Agents : /\ stream'[b].at = "logging" => stream[b].at = "logging"
                                 /\ tasks'[b].patching > 0 => tasks[b].patching > 0
        PROVE  UNCHANGED lease /\ (Undisturbed => ClaimsAreGood' /\ LoggerHolds')
    <2>1. UNCHANGED lease /\ Moves(a, "off", FALSE)
      BY <1>4 DEF ElectionLost, Moves
    <2>. QED
      BY <1>4, <2>1, ElectorMoves DEF LeaseInv, LoggerHolds
  <1>5. ASSUME NEW a \in Agents, Delete(a) PROVE LeaseInv'
    <2>1. \A b \in Agents : /\ stream'[b].at = "logging" => stream[b].at = "logging"
                            /\ tasks'[b].patching > 0 => tasks[b].patching > 0
      BY <1>2, <1>5 DEF Delete, PodDeleted, Looking, NoTask, StreamState
    <2>2. pods' = pods \ {a} /\ gone' = gone \cup {a} /\ ElectionLost(a)
      BY <1>5 DEF Delete
    <2>. QED
      BY <1>1, <1>4, <2>1, <2>2 DEF LeaseInv, HolderHasBeen, NotExpired
  <1>6. ASSUME NEW a \in Agents, Create(a) PROVE LeaseInv'
    <2>1. pods' = pods \cup {a} /\ gone' = gone /\ a \notin pods \cup gone /\ a # NoOne
      BY <1>6, LeaseRequestsAssumption DEF Create
    <2>2. UNCHANGED <<lease, elector, stream, tasks>>
      BY <1>6 DEF Create, electionVars, streamVars
    <2>3. HolderHasBeen' /\ (NotExpired => NotExpired')
      BY <2>1, <2>2 DEF LeaseInv, HolderHasBeen, NotExpired
    <2>4. ClaimsAreGood /\ LoggerHolds => ClaimsAreGood' /\ LoggerHolds'
      BY <2>2 DEF ClaimsAreGood, Claimable, LoggerHolds
    <2>. QED
      BY <1>1, <2>3, <2>4 DEF LeaseInv
  <1>7. ASSUME NEW a \in Agents, Crash(a), UNCHANGED podVars PROVE LeaseInv'
    <2>1. \A b \in Agents : /\ stream'[b].at = "logging" => stream[b].at = "logging"
                            /\ tasks'[b].patching > 0 => tasks[b].patching > 0
      BY <1>2, <1>7 DEF Crash, StreamLost, Looking, NoTask
    <2>. QED
      BY <1>1, <1>4, <1>7, <2>1, LeaseStays DEF Crash
  <1>8. ASSUME NEW a \in Agents, StartupStep(a), UNCHANGED podVars PROVE LeaseInv'
    <2>1. UNCHANGED <<lease, elector, stream, tasks>>
      BY <1>8 DEF StartupStep, electionVars, streamVars
    <2>2. ClaimsAreGood /\ LoggerHolds => ClaimsAreGood' /\ LoggerHolds'
      BY <2>1 DEF ClaimsAreGood, Claimable, LoggerHolds
    <2>. QED
      BY <1>1, <1>8, <2>1, <2>2, LeaseStays DEF LeaseInv
  <1>9. ASSUME NEW a \in Agents, ClaimLeadership(a), UNCHANGED podVars PROVE LeaseInv'
    <2>1. PICK outcome \in Outcomes :
            \/ TryClaim(a, outcome) \/ Replace(a, outcome)
            \/ /\ ReadAgain(a, outcome)
               /\ IF feature = "events" THEN Races(a, outcome) ELSE UNCHANGED past
      BY <1>9 DEF ClaimLeadership
    <2>2. a \in pods
      BY <1>9 DEF ClaimLeadership, SettingUp, Reports, Up, RunsInPods
    <2>3. UNCHANGED stream /\ UNCHANGED tasks
      BY <1>9 DEF ClaimLeadership
    <2>4. Undisturbed' => feature = "events"
      BY <1>1 DEF Undisturbed
    <2>. QED
      BY <1>1, <1>9, <2>1, <2>2, <2>3, <2>4, ClaimSteps
  <1>10. ASSUME NEW a \in Agents, NEW outcome \in Outcomes, Streams(a),
                ClaimBegins(a, outcome) \/ ClaimGoesOn(a, outcome), UNCHANGED podVars
         PROVE  LeaseInv'
    <2>1. a \in pods
      BY <1>10 DEF Streams, Up, RunsInPods
    <2>2. /\ \A b \in Agents \ {a} : stream'[b] = stream[b]
          /\ \A b \in Agents : stream'[b].at = "logging" => stream[b].at = "logging"
          /\ UNCHANGED tasks
      BY <1>2, <1>10 DEF ClaimBegins, ClaimGoesOn, Turns, StreamState
    <2>. QED
      BY <1>1, <1>10, <2>1, <2>2, ClaimSteps DEF ClaimBegins, ClaimGoesOn
  <1>11. ASSUME NEW a \in Agents, Streaming(a) \/ WatchFails(a) \/ Renewal(a), UNCHANGED podVars
         PROVE  LeaseInv'
    <2>1. PICK outcome \in Outcomes :
            \/ Streams(a) /\ (ClaimBegins(a, outcome) \/ ClaimGoesOn(a, outcome))
            \/ Look(a, outcome) \/ Listed(a) \/ WatchBreaks(a) \/ HearDeletion(a)
            \/ Check(a, outcome) \/ Claimed(a) \/ NotClaimed(a, outcome) \/ LogBreaks(a)
            \/ TaskReads(a, outcome)
            \/ TaskPatches(a, outcome)
      BY <1>11 DEF Streaming, WatchFails, Renewal, Outcomes
    <2>. QED
      BY <1>1, <1>10, <1>11, <2>1, StreamSteps, PatchSteps
  <1>12. ASSUME NEW a \in Agents, Reporting(a), UNCHANGED podVars PROVE LeaseInv'
    BY <1>1, <1>12, ReportSteps
  <1>. QED
    BY <1>3, <1>5, <1>6, <1>7, <1>8, <1>9, <1>11, <1>12 DEF Next, AgentStep

LEMMA EventInvHolds == SafetySpec => []EventInv
  <1>1. IInv /\ EventInv /\ Next => EventInv'
    BY RunsInPodsStep, LeaseInvStep DEF EventInv, LeaseInv
  <1>2. EventInv /\ UNCHANGED vars => EventInv'
    BY DEF vars, startupVars, electionVars, streamVars, podVars, EventInv, LeaseInv, RunsInPods, Streams, Up,
           HolderHasBeen, Undisturbed, NotExpired, ClaimsAreGood, Claimable, LoggerHolds
  <1>. QED
    BY <1>1, <1>2, IInvHolds, InitEventInv, PTL DEF SafetySpec

(* Two pods log the events of the cluster only after the lease of a pod    *)
(* that was there has expired or a claim was overtaken between its two     *)
(* reads, for any number of pods, deletions, crashes and failed requests.  *)
THEOREM EventsLoggedOnce == Spec => []OneEventLogger
  <1>1. IInv /\ EventInv => OneEventLogger
    <2> SUFFICES ASSUME IInv, EventInv, ~past.late, ~past.raced
                 PROVE  Cardinality(Loggers) \in Nat /\ Cardinality(Loggers) <= 1
      BY DEF OneEventLogger
    <2>1. Loggers \subseteq {lease.holder}
      <3>1. CASE feature = "events"
        BY <3>1 DEF EventInv, LeaseInv, Undisturbed, LoggerHolds, Loggers
      <3>2. CASE feature # "events"
        BY <3>2 DEF EventInv, RunsInPods, Streams, Loggers
      <3>. QED
        BY <3>1, <3>2
    <2>2. IsFiniteSet({lease.holder}) /\ Cardinality({lease.holder}) = 1
      BY FS_Singleton
    <2>. QED
      BY <2>1, <2>2, FS_Subset, FS_CardinalityType
  <1>. QED
    BY <1>1, IInvHolds, EventInvHolds, PTL DEF Spec
=============================================================================
