----------------------------- MODULE PodMetadata -----------------------------
(***************************************************************************)
(* The pod metadata of the K8sMetadata middleware (common/k8s/src/         *)
(* middleware/metadata.rs) and the task that keeps its watch of the API    *)
(* server going (runner.rs).                                               *)
(*                                                                         *)
(* The watch fills a store of pods.  The deletion of a pod is held back    *)
(* until the tailer has acknowledged the removal of the log files of all   *)
(* its containers, so that lines which are still unread find their         *)
(* metadata.  When the watch fails, the runner starts another one with a   *)
(* store of its own, and the middleware goes on with the old store until   *)
(* the two are swapped.                                                    *)
(*                                                                         *)
(* A pod here is a namespace and a name.  A pod may be deleted and made    *)
(* again under the same name: its incarnations are numbered, and the       *)
(* number stands for the metadata.  0 is no pod.                           *)
(***************************************************************************)
EXTENDS Naturals, Sequences, FiniteSets, SequencesExt

CONSTANTS
    Pods,
    IdentMaps,     \* what PodIdent may make of them: namespace-name, in one string
    Containers,    \* of each pod: the containers of its spec
    Sidecars,      \* of each pod: init and ephemeral containers, which the code does not list
    MaxGens,       \* bound on the incarnations of a pod
    MaxFiles,      \* bound on the log files of one container, by its restarts
    MaxChanges,    \* bound on the changes of the cluster
    MaxErrors      \* bound on the failures of the watch
ASSUME PodMetadataAssumption ==
    /\ \A id \in IdentMaps : DOMAIN id = Pods
    /\ DOMAIN Containers = Pods /\ DOMAIN Sidecars = Pods
    /\ \A p \in Pods : Containers[p] \cap Sidecars[p] = {}
    /\ {MaxGens, MaxFiles} \subseteq Nat \ {0} /\ {MaxChanges, MaxErrors} \subseteq Nat

VARIABLES
    ident,     \* the PodIdent of each pod
    live,      \* the incarnation of each pod at the API server
    gens,      \* how many incarnations there were
    files,     \* log files that the tailer knows
    acks,      \* paths of removed files, on their way to the middleware
    watch,     \* the running watch: its store, and the events on their way
    runner,    \* where the runner is, and whether the store of `watch` is read
    store,     \* the store that is read otherwise
    waiting,   \* pod_lookup and pending_deletions, by PodIdent
    count,     \* changes and errors so far
    past       \* history: incarnations seen by the middleware, what happened to pods
               \* that the properties have to except, and whether the old store was
               \* swapped in and left again before its list came

podVars == <<ident, live, gens, files, acks, watch, runner, store, waiting, count, past>>

Idents == UNION {Range(id) : id \in IdentMaps}
NoStore == [p \in Pods |-> 0]
FilesOf(p) == [pod : {p}, gen : 1 .. MaxGens, container : Containers[p] \cup Sidecars[p],
               no : 1 .. MaxFiles]
Files == UNION {FilesOf(p) : p \in Pods}
Namesakes(p) == {q \in Pods : ident[q] = ident[p]}

Closed == [open |-> FALSE, listed |-> FALSE, events |-> <<>>, store |-> NoStore]

\* No entry; otherwise the deleted pod and the containers with files left.
NotWaiting == [pod |-> "", gen |-> 0, left |-> {}]

\* Faulty variant: the store of a new watch is never swapped in.
ViewNotSwapped == store

\* What the middleware sees.
View == IF runner.swapped THEN watch.store ELSE store

PodInit ==
    /\ ident \in IdentMaps
    /\ live = NoStore /\ gens = NoStore /\ files = {}
    /\ acks = <<>> /\ watch = Closed /\ store = NoStore
    /\ runner = [phase |-> "creating", swapped |-> FALSE]
    /\ waiting = [i \in Idents |-> NotWaiting]
    /\ count = [changes |-> 0, errors |-> 0]
    /\ past = [seen |-> {}, sibling |-> {}, unseen |-> {}, stale |-> {}, blank |-> FALSE]
---------------------------------------------------------------------------
(* The cluster.  A watch is told of what changes after its list.           *)

Changes ==
    /\ count.changes < MaxChanges
    /\ count' = [count EXCEPT !.changes = @ + 1]

Tell(kind, p, g) ==
    IF watch.open /\ watch.listed
    THEN [watch EXCEPT !.events = Append(@, [kind |-> kind, pod |-> p, gen |-> g])]
    ELSE watch

CreatePod(p) ==
    /\ Changes
    /\ live[p] = 0 /\ gens[p] < MaxGens
    /\ gens' = [gens EXCEPT ![p] = @ + 1]
    /\ live' = [live EXCEPT ![p] = gens'[p]]
    /\ files' = files \cup {f \in FilesOf(p) : f.gen = gens'[p] /\ f.no = 1}
    /\ watch' = Tell("Applied", p, gens'[p])
    /\ UNCHANGED <<ident, acks, runner, store, waiting, past>>

DeletePod(p) ==
    /\ Changes
    /\ live[p] > 0
    /\ live' = [live EXCEPT ![p] = 0]
    /\ watch' = Tell("Deleted", p, live[p])
    /\ past' = IF watch.open /\ watch.listed THEN past
               ELSE [past EXCEPT !.unseen = @ \cup {p}]
    /\ UNCHANGED <<ident, gens, files, acks, runner, store, waiting>>

RestartContainer(f) ==
    /\ Changes
    /\ live[f.pod] = f.gen /\ f.no < MaxFiles
    /\ [f EXCEPT !.no = @ + 1] \notin files
    /\ files' = files \cup {[f EXCEPT !.no = @ + 1]}
    /\ UNCHANGED <<ident, live, gens, acks, watch, runner, store, waiting, past>>

\* The kubelet removes a file and the tailer, done with it, acknowledges that
\* (FileSystem::unregister).
RemoveFile(f) ==
    /\ Changes
    /\ files' = files \ {f}
    /\ acks' = Append(acks, f)
    /\ UNCHANGED <<ident, live, gens, watch, runner, store, waiting, past>>
---------------------------------------------------------------------------
(* The watch: its list, and the events after it.                           *)

Seen(view) == {<<p, view[p]>> : p \in {q \in Pods : view[q] > 0}}
Remember == past' = [past EXCEPT !.seen = @ \cup Seen(View')]

List ==
    /\ watch.open /\ ~watch.listed
    /\ watch' = [watch EXCEPT !.listed = TRUE, !.store = live]
    /\ UNCHANGED <<ident, live, gens, files, acks, runner, store, waiting, count>>
    /\ Remember

Received == [watch EXCEPT !.events = Tail(@)]

Applied ==
    /\ watch.events # <<>> /\ Head(watch.events).kind = "Applied"
    /\ LET ev == Head(watch.events) IN watch' = [Received EXCEPT !.store[ev.pod] = ev.gen]
    /\ UNCHANGED <<ident, live, gens, files, acks, runner, store, waiting, count>>
    /\ Remember

\* Faulty variant: the pod leaves the store at once.
WithholdNot(ev) == [Received EXCEPT !.store[ev.pod] = 0]

Withhold(ev) == Received

\* watch_stream keeps the deletion back.
Deleted ==
    /\ watch.events # <<>> /\ Head(watch.events).kind = "Deleted"
    /\ LET ev == Head(watch.events)
       IN  /\ watch' = Withhold(ev)
           /\ waiting' = [waiting EXCEPT ![ident[ev.pod]] =
                             [pod |-> ev.pod, gen |-> ev.gen, left |-> Containers[ev.pod]]]
    /\ UNCHANGED <<ident, live, gens, files, acks, runner, store, count, past>>
---------------------------------------------------------------------------
(* The acknowledgements.  delete_stream drops one of a pod that is not     *)
(* waiting, and lets the deletion go when no container is left.            *)

LeftAfter(w, f) == w.left \ {f.container}

\* What the properties except: an acknowledgement of a file that has a sibling, and
\* a deletion that hits another incarnation.
Noted(f, w, gone) ==
    LET siblings == {e \in files : e.container = f.container /\ ident[e.pod] = ident[f.pod]}
    IN  [past EXCEPT
            !.sibling = IF siblings # {} THEN @ \cup Namesakes(f.pod) ELSE @,
            !.stale = IF gone /\ watch.store[w.pod] # w.gen THEN @ \cup {w.pod} ELSE @]

Acknowledged ==
    /\ watch.open /\ acks # <<>>
    /\ LET f == Head(acks)
           i == ident[f.pod]
           w == waiting[i]
           left == LeftAfter(w, f)
           gone == w # NotWaiting /\ left = {}
       IN  /\ waiting' = IF w = NotWaiting THEN waiting
                         ELSE [waiting EXCEPT ![i] = IF gone THEN NotWaiting
                                                     ELSE [w EXCEPT !.left = left]]
           /\ watch' = IF gone THEN [watch EXCEPT !.store[w.pod] = 0] ELSE watch
           /\ past' = Noted(f, w, gone)
    /\ acks' = Tail(acks)
    /\ UNCHANGED <<ident, live, gens, files, runner, store, count>>
---------------------------------------------------------------------------
(* The runner.                                                             *)

\* The first error ends the stream; what it did not deliver is lost.
WatchFails ==
    /\ watch.open /\ count.errors < MaxErrors
    /\ count' = [count EXCEPT !.errors = @ + 1]
    /\ watch' = [watch EXCEPT !.open = FALSE, !.events = <<>>]
    /\ past' = [past EXCEPT !.unseen = @ \cup {p \in Pods : live[p] = 0 /\ gens[p] > 0}]
    /\ UNCHANGED <<ident, live, gens, files, acks, runner, store, waiting>>

\* kick_over(): a new watch with an empty store; the old store is still read.
Kick ==
    /\ runner.phase = "creating"
    /\ runner' = [phase |-> "swapping", swapped |-> FALSE]
    /\ store' = View
    /\ watch' = [Closed EXCEPT !.open = TRUE]
    /\ past' = [past EXCEPT !.blank = runner.swapped /\ ~watch.listed]
    /\ UNCHANGED <<ident, live, gens, files, acks, waiting, count>>

\* After SWAP_DELAY, at the first time at once.
Swap ==
    /\ runner.phase = "swapping"
    /\ runner' = [phase |-> "running", swapped |-> TRUE]
    /\ UNCHANGED <<ident, live, gens, files, acks, watch, store, waiting, count>>
    /\ Remember

\* Faulty variant: the runner goes on with the watch that is over.
BackOffToSwapping ==
    /\ runner.phase = "running" /\ ~watch.open
    /\ runner' = [runner EXCEPT !.phase = "swapping"]
    /\ UNCHANGED <<ident, live, gens, files, acks, watch, store, waiting, count, past>>

\* The task of the stream is over; the backoff is a sleep of unknown length.
BackOff ==
    /\ runner.phase = "running" /\ ~watch.open
    /\ runner' = [runner EXCEPT !.phase = "creating"]
    /\ UNCHANGED <<ident, live, gens, files, acks, watch, store, waiting, count, past>>

Cluster == \/ \E p \in Pods : CreatePod(p) \/ DeletePod(p)
           \/ \E f \in files : RestartContainer(f) \/ RemoveFile(f)
Middleware == \/ List \/ Applied \/ Deleted \/ Acknowledged
              \/ Kick \/ Swap \/ BackOff

Settled == /\ runner.phase = "running" /\ watch.open /\ watch.listed
           /\ watch.events = <<>> /\ acks = <<>>
---------------------------------------------------------------------------
(* The point of holding deletions back: as long as a file of a container   *)
(* of the spec is there, its pod, once known, stays known, so that late    *)
(* lines find their metadata.  Excepted: a deletion that came while no     *)
(* watch was up (the next list does not have the pod), a file of a         *)
(* container of the same name in a pod of the same PodIdent that was       *)
(* removed before (metadata.rs:295 compares names only), a deletion held   *)
(* back for an earlier incarnation of the pod, and the time after a watch  *)
(* that was swapped in, by the clock, and failed before it had its list.   *)
Excepted(p) == p \in past.unseen \cup past.sibling \cup past.stale
Logged(f) == f.container \in Containers[f.pod] /\ <<f.pod, f.gen>> \in past.seen
KeptWhileLogged ==
    watch.listed =>
        \A f \in files :
            Logged(f) => \/ View[f.pod] # 0 \/ Excepted(f.pod)
                         \/ ~runner.swapped /\ past.blank

(* When nothing is on its way every pod of the cluster is known, in its    *)
(* present incarnation, unless the deletion of an earlier one was let go   *)
(* after it had been made again: that removes the new one from the store.  *)
LivePodsKnown ==
    Settled => \A p \in Pods : live[p] > 0 => View[p] = live[p] \/ p \in past.stale
=============================================================================
