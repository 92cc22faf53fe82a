----------------------------- MODULE EventStream -----------------------------
(***************************************************************************)
(* The stream of Kubernetes events (common/k8s/src/event_source.rs), the   *)
(* second user of FeatureLeader.  The pod that the lease names logs the    *)
(* events; the others watch the pods of the DaemonSet and act only when    *)
(* they hear of a deletion: a pod that finds the lease in the name of the  *)
(* deleted one waits for it to expire and takes it.                        *)
(*                                                                         *)
(* A watch tells of the deletions after its list.  It is given up at the   *)
(* first one, so while a pod follows up on a deletion, and until the list  *)
(* of its next watch, it hears of no other.                                *)
(***************************************************************************)
EXTENDS Naturals, Sequences, FeatureLeader

VARIABLES
    stream,     \* where the stream of each pod is, the deleted pod it has to do
                \* with, and the deletions its watch has told of
    tasks,      \* the renewal tasks of each pod, asleep or about to patch
    past        \* history: deleted pods that no pod heard of or one gave up, and leaders
                \* that do not know that they lead; whether the lease of a pod that was
                \* there expired; whether it was written between the two reads of a claim

streamVars == <<stream, tasks, past>>

StreamState == [at : {"looking", "opening", "watching", "checking", "claiming",
                      "deciding", "logging"},
                name : Agents \cup {NoOne}, heard : Seq(Agents)]
Tasks == [asleep : Nat, patching : Nat]
History == [missed : SUBSET (Agents \cup {NoOne}), late : BOOLEAN, raced : BOOLEAN]

StreamTypeOK == /\ stream \in [Agents -> StreamState]
                /\ tasks \in [Agents -> Tasks]
                /\ past \in History

Looking == [at |-> "looking", name |-> NoOne, heard |-> <<>>]
NoTask == [asleep |-> 0, patching |-> 0]

StreamInit ==
    /\ stream = [a \in Agents |-> Looking]
    /\ tasks = [a \in Agents |-> NoTask]
    /\ past = [missed |-> {}, late |-> FALSE, raced |-> FALSE]

Turns(a, at) == stream' = [stream EXCEPT ![a].at = at]
LooksAgain(a) == stream' = [stream EXCEPT ![a] = Looking]
StartsTask(a) == tasks' = [tasks EXCEPT ![a].asleep = @ + 1]
Misses(names) == past' = [past EXCEPT !.missed = @ \cup names]
---------------------------------------------------------------------------
(* The waiter reads the lease: get_leader_pod_name is "" after an error,   *)
(* and a leader that reads it so watches like the others.                  *)
Look(a, outcome) ==
    /\ stream[a].at = "looking"
    /\ Moves(a, "waiting", FALSE)  \* what the set-up made of the claim counts no more
    /\ IF outcome = "answered" /\ lease.holder = a
       THEN Turns(a, "logging") /\ StartsTask(a) /\ UNCHANGED past
       ELSE /\ Turns(a, "opening") /\ UNCHANGED tasks
            /\ Misses(IF lease.holder = a THEN {a} ELSE {})

(* The list of the watch is there.                                         *)
Listed(a) ==
    /\ stream[a].at = "opening"
    /\ Turns(a, "watching")
    /\ UNCHANGED <<electionVars, tasks, past>>

(* The watch fails and lists again: deletions in between are not told.     *)
WatchBreaks(a) ==
    /\ stream[a].at = "watching"
    /\ Turns(a, "opening")
    /\ UNCHANGED <<electionVars, tasks, past>>

(* The process ends, and with it its stream, its tasks and whatever it was *)
(* following up.  A pod that is deleted as well is told to the watches.    *)
FollowedUp(a) == {n \in Agents : n = stream[a].name
                                  \/ \E i \in 1 .. Len(stream[a].heard) : stream[a].heard[i] = n}
StreamLost(a) ==
    /\ stream' = [stream EXCEPT ![a] = Looking]
    /\ tasks' = [tasks EXCEPT ![a] = NoTask]
    /\ Misses(FollowedUp(a))

Listening(gone) == {b \in Agents \ {gone} : stream[b].at = "watching"}
PodDeleted(gone) ==
    /\ stream' = [b \in Agents |->
                    IF b = gone THEN Looking
                    ELSE IF b \in Listening(gone)
                         THEN [stream[b] EXCEPT !.heard = Append(@, gone)]
                         ELSE stream[b]]
    /\ tasks' = [tasks EXCEPT ![gone] = NoTask]
    /\ Misses(FollowedUp(gone) \cup (IF Listening(gone) = {} THEN {gone} ELSE {}))

(* The first deletion; the watch is dropped after it.                      *)
HearDeletion(a) ==
    /\ stream[a].at \in {"opening", "watching"}
    /\ stream[a].heard # <<>>
    /\ stream' = [stream EXCEPT ![a] = [at |-> "checking", name |-> Head(stream[a].heard),
                                        heard |-> <<>>]]
    /\ Misses({stream[a].heard[i] : i \in 2 .. Len(stream[a].heard)})
    /\ UNCHANGED <<electionVars, tasks>>

Lapsed(a, outcome) == Misses(IF outcome = "answered" THEN {} ELSE {stream[a].name})

(* check_for_leader, after its sleep: was it the leader?                   *)
Check(a, outcome) ==
    /\ stream[a].at = "checking"
    /\ IF outcome = "answered" /\ lease.holder = stream[a].name THEN Turns(a, "claiming")
       ELSE LooksAgain(a)
    /\ Lapsed(a, outcome)
    /\ UNCHANGED <<electionVars, tasks>>

(* The second read of a claim may find the lease written since the first.  *)
Races(a, outcome) == past' = [past EXCEPT !.raced = @ \/ Outdated(a, outcome)]

(* Its try_claim_feature_leader.                                           *)
ClaimBegins(a, outcome) ==
    /\ stream[a].at = "claiming"
    /\ TryClaim(a, outcome)
    /\ Turns(a, "deciding")
    /\ UNCHANGED <<tasks, past>>

ClaimGoesOn(a, outcome) ==
    /\ stream[a].at = "deciding"
    /\ \/ ReadAgain(a, outcome) /\ Races(a, outcome)
       \/ Replace(a, outcome) /\ UNCHANGED past
    /\ UNCHANGED <<stream, tasks>>

(* The claim has succeeded; the waiter will find its own name.             *)
Claimed(a) ==
    /\ stream[a].at = "deciding" /\ elector[a].at = "leading"
    /\ LooksAgain(a) /\ StartsTask(a)
    /\ UNCHANGED <<electionVars, past>>

(* It has not: once more, unless the lease names another pod by now.       *)
NotClaimed(a, outcome) ==
    /\ stream[a].at = "deciding" /\ elector[a].at = "waiting"
    /\ IF outcome = "answered" /\ lease.holder = stream[a].name THEN Turns(a, "checking")
       ELSE LooksAgain(a)
    /\ Lapsed(a, outcome)
    /\ UNCHANGED <<electionVars, tasks>>

(* A WatcherError of the events: RestartingStream makes a new stream.  The *)
(* renewal tasks go on.                                                    *)
LogBreaks(a) ==
    /\ stream[a].at = "logging"
    /\ LooksAgain(a)
    /\ UNCHANGED <<electionVars, tasks, past>>
---------------------------------------------------------------------------
(* start_renewal_task: the task ends with the first renewal that fails,    *)
(* and the stream that logs does not notice.  Nor does a stream that has   *)
(* turned to watching notice that the patch makes its pod the leader again.*)
TaskReads(a, outcome) ==
    /\ tasks[a].asleep > 0
    /\ tasks' = [tasks EXCEPT ![a] =
                    [asleep |-> @.asleep - 1,
                     patching |-> @.patching + (IF outcome = "answered" /\ lease.holder = a
                                                THEN 1 ELSE 0)]]
    /\ UNCHANGED <<electionVars, stream, past>>

TaskPatches(a, outcome) ==
    /\ tasks[a].patching > 0
    /\ tasks' = [tasks EXCEPT ![a] =
                    [asleep |-> @.asleep + (IF outcome = "answered" THEN 1 ELSE 0),
                     patching |-> @.patching - 1]]
    /\ IF outcome = "refused" THEN UNCHANGED <<electionVars, past>>
       ELSE /\ Writes(a, elector[a].at)
            /\ Misses(IF stream[a].at \in {"opening", "watching"} THEN {a} ELSE {})
    /\ UNCHANGED stream

Loggers == {a \in Agents : stream[a].at = "logging"}
Renewing == {a \in Agents : tasks[a] # NoTask}
=============================================================================
