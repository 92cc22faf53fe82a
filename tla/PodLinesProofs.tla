---------------------------- MODULE PodLinesProofs ----------------------------
(***************************************************************************)
(* What the metadata of the pods rest on, for any pods, containers and     *)
(* incarnations, any number of failures of the watch and acknowledgements  *)
(* in any order: an invariant of the store, the watch and what is held     *)
(* back, kept by every action.                                             *)
(*                                                                         *)
(* And what follows for their lines: the invariant is kept whatever the    *)
(* lines do, and a line of a pod whose labels are excluded passes the      *)
(* rules only with other labels.                                           *)
(*                                                                         *)
(* Last, what redact() makes of the matches of any patterns in any text:   *)
(* ranges of the same bytes, each of them made of matches that lie close,  *)
(* and in order until a match bridges two that were apart.                 *)
(***************************************************************************)
EXTENDS PodLines, FiniteSetTheorems, SequenceTheorems, TLAPS

AllContainers == UNION {Containers[p] : p \in Pods}
Events == [kind : {"Applied", "Deleted"}, pod : Pods, gen : Nat]
HeldBack == [pod : Pods, gen : Nat, left : SUBSET AllContainers]
Watches == [open : BOOLEAN, listed : BOOLEAN, events : Seq(Events), store : [Pods -> Nat]]

(* Every variable has its type.                                            *)
PodTypes ==
    /\ ident \in IdentMaps
    /\ live \in [Pods -> Nat] /\ gens \in [Pods -> Nat] /\ store \in [Pods -> Nat]
    /\ files \subseteq Files
    /\ acks \in Seq(Files)
    /\ watch \in Watches
    /\ runner \in [phase : {"creating", "swapping", "running"}, swapped : BOOLEAN]
    /\ waiting \in [Idents -> {NotWaiting} \cup HeldBack]
    /\ past \in [seen : SUBSET (Pods \X Nat), sibling : SUBSET Pods, unseen : SUBSET Pods,
                 stale : SUBSET Pods, blank : BOOLEAN]

\* An incarnation that anyone knows of has been there, and only the last one lives.
Generations ==
    /\ \A p \in Pods : /\ live[p] \in {0, gens[p]}
                       /\ store[p] <= gens[p] /\ watch.store[p] <= gens[p]
    /\ \A f \in files : f.gen <= gens[f.pod]
    /\ \A p \in Pods, g \in Nat : <<p, g>> \in past.seen => g <= gens[p]

\* A watch tells of the changes after its list; what is deleted while there is none is
\* not held back.
Up == watch.open /\ watch.listed
Phases ==
    /\ runner.phase = "creating" => ~watch.open
    /\ runner.phase = "running" => runner.swapped
    /\ runner.phase = "creating" /\ past.blank => runner.swapped
    /\ ~Up => watch.events = <<>>
    /\ ~Up => \A p \in Pods : live[p] = 0 /\ gens[p] > 0 => p \in past.unseen

\* What the watch will tell is newer than all it told.
IsApplied(k, p) == watch.events[k].kind = "Applied" /\ watch.events[k].pod = p
Newer(k) ==
    LET p == watch.events[k].pod
        g == watch.events[k].gen
    IN  /\ 0 < g /\ g <= gens[p]
        /\ IsApplied(k, p) =>
              /\ \A h \in Nat : <<p, h>> \in past.seen => h < g
              /\ watch.store[p] < g
              /\ \A l \in 1 .. k - 1 : IsApplied(l, p) => watch.events[l].gen < g
        /\ watch.events[k].kind = "Deleted" => live[p] # g
EventsAreNews == \A k \in 1 .. Len(watch.events) : Newer(k)

\* What is read was seen, and of what was seen the store has the last.
ViewWasSeen == Seen(View) \subseteq past.seen
StoreIsLatest ==
    watch.listed =>
        \A p \in Pods, g \in Nat :
            <<p, g>> \in past.seen => watch.store[p] = 0 \/ g <= watch.store[p]

\* Of the containers that were acknowledged no file of that incarnation is left.
LeftHas(w) ==
    \A f \in files :
        f.pod = w.pod /\ f.container \in Containers[w.pod] \ w.left =>
            w.pod \in past.sibling \/ f.gen > w.gen
HeldForFiles ==
    \A i \in Idents :
        waiting[i] # NotWaiting =>
            /\ ident[waiting[i].pod] = i
            /\ 0 < waiting[i].gen /\ waiting[i].gen <= gens[waiting[i].pod]
            /\ live[waiting[i].pod] # waiting[i].gen
            /\ LeftHas(waiting[i])

\* The store of the watch has the pods of the files, and so has the old store.
StoreHasLogged ==
    watch.listed => \A f \in files : Logged(f) => watch.store[f.pod] # 0 \/ Excepted(f.pod)
OldHasLogged ==
    ~runner.swapped /\ ~past.blank =>
        \A f \in files : Logged(f) => store[f.pod] # 0 \/ Excepted(f.pod)

\* A pod that lives is in the store, or the watch is about to tell of it.
Announced(p) ==
    \E k \in 1 .. Len(watch.events) : IsApplied(k, p) /\ watch.events[k].gen = live[p]
LiveIsTold ==
    Up => \A p \in Pods :
             live[p] > 0 => watch.store[p] = live[p] \/ Announced(p) \/ p \in past.stale

Consistent == Generations /\ Phases /\ EventsAreNews /\ ViewWasSeen /\ StoreIsLatest
Kept == HeldForFiles /\ StoreHasLogged /\ OldHasLogged /\ LiveIsTold
PodInv == PodTypes /\ Consistent /\ Kept
---------------------------------------------------------------------------
LEMMA FileFields ==
  ASSUME NEW f \in Files
  PROVE  /\ f.pod \in Pods /\ f.gen \in Nat /\ 0 < f.gen
         /\ f.container \in Containers[f.pod] \cup Sidecars[f.pod]
         /\ f \in FilesOf(f.pod)
  <1>1. PICK p \in Pods : f \in FilesOf(p)
    BY DEF Files
  <1>2. f.pod = p
    BY <1>1 DEF FilesOf
  <1>3. MaxGens \in Nat
    BY PodMetadataAssumption
  <1>. QED
    BY <1>1, <1>2, <1>3 DEF FilesOf

\* The next file of a container differs in its number only.
LEMMA NextFile ==
  ASSUME NEW f \in Files, f.no < MaxFiles, NEW e, e = [f EXCEPT !.no = @ + 1]
  PROVE  /\ e \in Files
         /\ e.pod = f.pod /\ e.gen = f.gen /\ e.container = f.container
  <1>1. f \in [pod : {f.pod}, gen : 1 .. MaxGens,
               container : Containers[f.pod] \cup Sidecars[f.pod], no : 1 .. MaxFiles]
    BY FileFields DEF FilesOf
  <1>2. f.no + 1 \in 1 .. MaxFiles
    BY <1>1, PodMetadataAssumption
  <1>3. e \in FilesOf(f.pod)
    BY <1>1, <1>2 DEF FilesOf
  <1>4. e.pod = f.pod /\ e.gen = f.gen /\ e.container = f.container
    BY <1>1
  <1>. QED
    BY <1>3, <1>4, FileFields DEF Files

LEMMA IdentFacts ==
  ASSUME PodTypes
  PROVE  \A p \in Pods : ident[p] \in Idents
  <1>1. ident \in IdentMaps /\ DOMAIN ident = Pods
    BY PodMetadataAssumption DEF PodTypes
  <1>. QED
    BY <1>1 DEF Idents, Range

LEMMA WatchFacts ==
  ASSUME PodTypes
  PROVE  /\ watch.open \in BOOLEAN /\ watch.listed \in BOOLEAN
         /\ watch.events \in Seq(Events) /\ watch.store \in [Pods -> Nat]
  BY DEF PodTypes, Watches

LEMMA HeadFacts ==
  ASSUME PodTypes, watch.events # <<>>
  PROVE  /\ Head(watch.events) \in Events
         /\ Head(watch.events) = watch.events[1]
         /\ Tail(watch.events) \in Seq(Events)
         /\ Head(watch.events).pod \in Pods /\ Head(watch.events).gen \in Nat
         /\ Len(watch.events) \in Nat \ {0}
         /\ Len(Tail(watch.events)) = Len(watch.events) - 1
         /\ \A k \in 1 .. Len(watch.events) - 1 : Tail(watch.events)[k] = watch.events[k + 1]
  <1>1. watch.events \in Seq(Events)
    BY WatchFacts
  <1>2. Head(watch.events) \in Events
    BY <1>1
  <1>. QED
    BY <1>1, <1>2 DEF Events

\* What is told of a change: one more event, if the watch is up.
LEMMA TellFacts ==
  ASSUME PodTypes, NEW kind \in {"Applied", "Deleted"}, NEW p \in Pods, NEW g \in Nat,
         watch' = Tell(kind, p, g)
  PROVE  /\ watch' \in Watches
         /\ watch'.open = watch.open /\ watch'.listed = watch.listed
         /\ watch'.store = watch.store
         /\ watch'.events = IF Up THEN Append(watch.events, [kind |-> kind, pod |-> p, gen |-> g])
                            ELSE watch.events
  <1>1. [kind |-> kind, pod |-> p, gen |-> g] \in Events
    BY DEF Events
  <1>2. Append(watch.events, [kind |-> kind, pod |-> p, gen |-> g]) \in Seq(Events)
    BY <1>1, WatchFacts
  <1>3. watch \in Watches
    BY DEF PodTypes
  <1>. QED
    BY <1>2, <1>3 DEF Tell, Up, Watches
---------------------------------------------------------------------------
(* Types.                                                                  *)

LEMMA ClusterTypes ==
  ASSUME PodTypes, Cluster
  PROVE  PodTypes'
  <1>1. ASSUME NEW p \in Pods, CreatePod(p) PROVE PodTypes'
    <2>1. gens' \in [Pods -> Nat] /\ gens'[p] = gens[p] + 1 /\ gens'[p] \in Nat
      BY <1>1 DEF PodTypes, CreatePod
    <2>2. live' \in [Pods -> Nat]
      BY <1>1, <2>1 DEF PodTypes, CreatePod
    <2>3. files' \subseteq Files
      BY <1>1 DEF PodTypes, CreatePod, Files
    <2>4. watch' \in Watches
      BY <1>1, <2>1, TellFacts DEF CreatePod
    <2>. QED
      BY <1>1, <2>1, <2>2, <2>3, <2>4 DEF PodTypes, CreatePod
  <1>2. ASSUME NEW p \in Pods, DeletePod(p) PROVE PodTypes'
    <2>1. live' \in [Pods -> Nat] /\ live[p] \in Nat
      BY <1>2 DEF PodTypes, DeletePod
    <2>2. watch' \in Watches
      BY <1>2, <2>1, TellFacts DEF DeletePod
    <2>3. past' \in [seen : SUBSET (Pods \X Nat), sibling : SUBSET Pods, unseen : SUBSET Pods,
                    stale : SUBSET Pods, blank : BOOLEAN]
      BY <1>2 DEF PodTypes, DeletePod
    <2>. QED
      BY <1>2, <2>1, <2>2, <2>3 DEF PodTypes, DeletePod
  <1>3. ASSUME NEW f \in files, RestartContainer(f) PROVE PodTypes'
    <2>1. f \in Files /\ f.no < MaxFiles /\ files' = files \cup {[f EXCEPT !.no = @ + 1]}
      BY <1>3 DEF PodTypes, RestartContainer
    <2>2. files' \subseteq Files
      BY <2>1, NextFile DEF PodTypes
    <2>. QED
      BY <1>3, <2>2 DEF PodTypes, RestartContainer
  <1>4. ASSUME NEW f \in files, RemoveFile(f) PROVE PodTypes'
    BY <1>4 DEF PodTypes, RemoveFile
  <1>. QED
    BY <1>1, <1>2, <1>3, <1>4 DEF Cluster

LEMMA SeenTypes ==
  ASSUME NEW view \in [Pods -> Nat]
  PROVE  Seen(view) \subseteq Pods \X Nat
  BY DEF Seen

LEMMA RememberTypes ==
  ASSUME PodTypes, watch' \in Watches, runner' \in [phase : {"creating", "swapping", "running"},
         swapped : BOOLEAN], store' \in [Pods -> Nat], Remember
  PROVE  /\ past' \in [seen : SUBSET (Pods \X Nat), sibling : SUBSET Pods,
                       unseen : SUBSET Pods, stale : SUBSET Pods, blank : BOOLEAN]
         /\ past'.seen = past.seen \cup Seen(View')
         /\ past'.sibling = past.sibling /\ past'.unseen = past.unseen
         /\ past'.stale = past.stale /\ past'.blank = past.blank
  <1>1. View' \in [Pods -> Nat]
    BY DEF View, Watches
  <1>2. Seen(View') \subseteq Pods \X Nat
    BY <1>1, SeenTypes
  <1>3. past' = [past EXCEPT !.seen = @ \cup Seen(View')]
    BY DEF Remember
  <1>. QED
    BY <1>2, <1>3 DEF PodTypes

\* What an acknowledgement does, in the two cases.
AckedFile == Head(acks)
AckedIdent == ident[AckedFile.pod]
AckedWait == waiting[AckedIdent]
AckGone == AckedWait # NotWaiting /\ LeftAfter(AckedWait, AckedFile) = {}

LEMMA AckFacts ==
  ASSUME PodTypes, Acknowledged
  PROVE  /\ AckedFile \in Files /\ AckedFile.pod \in Pods /\ AckedIdent \in Idents
         /\ AckedWait # NotWaiting => AckedWait \in HeldBack
         /\ Tail(acks) \in Seq(Files) /\ acks' = Tail(acks)
         /\ watch.open
         /\ waiting' = IF AckedWait = NotWaiting THEN waiting
                       ELSE [waiting EXCEPT ![AckedIdent] =
                                IF AckGone THEN NotWaiting
                                ELSE [AckedWait EXCEPT !.left = LeftAfter(AckedWait, AckedFile)]]
         /\ watch' = IF AckGone THEN [watch EXCEPT !.store[AckedWait.pod] = 0] ELSE watch
         /\ past' = Noted(AckedFile, AckedWait, AckGone)
         /\ UNCHANGED <<ident, live, gens, files, runner, store>>
  <1>1. acks \in Seq(Files) /\ acks # <<>>
    BY DEF PodTypes, Acknowledged
  <1>2. AckedFile \in Files /\ Tail(acks) \in Seq(Files)
    BY <1>1 DEF AckedFile
  <1>3. AckedFile.pod \in Pods
    BY <1>2, FileFields
  <1>4. AckedIdent \in Idents
    BY <1>3, IdentFacts DEF AckedIdent
  <1>5. AckedWait \in {NotWaiting} \cup HeldBack
    BY <1>4 DEF AckedWait, PodTypes
  <1>. QED
    BY <1>2, <1>3, <1>4, <1>5
       DEF Acknowledged, AckedFile, AckedIdent, AckedWait, AckGone, LeftAfter

AckedSiblings ==
    {e \in files : e.container = AckedFile.container /\ ident[e.pod] = ident[AckedFile.pod]}

\* The same, field by field.
LEMMA AckFields ==
  ASSUME PodTypes, Acknowledged
  PROVE  /\ watch' \in Watches
         /\ watch'.open = watch.open /\ watch'.listed = watch.listed
         /\ watch'.events = watch.events
         /\ watch'.store = IF AckGone THEN [watch.store EXCEPT ![AckedWait.pod] = 0]
                           ELSE watch.store
         /\ past' \in [seen : SUBSET (Pods \X Nat), sibling : SUBSET Pods,
                       unseen : SUBSET Pods, stale : SUBSET Pods, blank : BOOLEAN]
         /\ past'.seen = past.seen /\ past'.unseen = past.unseen /\ past'.blank = past.blank
         /\ past'.sibling = IF AckedSiblings # {} THEN past.sibling \cup Namesakes(AckedFile.pod)
                            ELSE past.sibling
         /\ past'.stale = IF AckGone /\ watch.store[AckedWait.pod] # AckedWait.gen
                          THEN past.stale \cup {AckedWait.pod} ELSE past.stale
  <1>1. /\ watch' \in Watches
        /\ watch'.open = watch.open /\ watch'.listed = watch.listed
        /\ watch'.events = watch.events
        /\ watch'.store = IF AckGone THEN [watch.store EXCEPT ![AckedWait.pod] = 0]
                          ELSE watch.store
    <2>1. CASE AckGone
      <3> DEFINE left == [watch.store EXCEPT ![AckedWait.pod] = 0]
      <3>1. AckedWait.pod \in Pods
        BY <2>1, AckFacts DEF AckGone, HeldBack
      <3>2. watch' = [watch EXCEPT !.store = left]
        BY <2>1, AckFacts
      <3>3. left \in [Pods -> Nat]
        BY <3>1, WatchFacts
      <3> HIDE DEF left
      <3>4. watch \in Watches
        BY DEF PodTypes
      <3>5. /\ watch' \in Watches /\ watch'.open = watch.open /\ watch'.listed = watch.listed
            /\ watch'.events = watch.events /\ watch'.store = left
        BY ONLY <3>2, <3>3, <3>4 DEF Watches
      <3>. QED
        BY <2>1, <3>5 DEF left
    <2>2. CASE ~AckGone
      BY <2>2, AckFacts DEF PodTypes
    <2>. QED
      BY <2>1, <2>2
  <1> DEFINE sibling == IF AckedSiblings # {} THEN past.sibling \cup Namesakes(AckedFile.pod)
                        ELSE past.sibling
             stale == IF AckGone /\ watch.store[AckedWait.pod] # AckedWait.gen
                      THEN past.stale \cup {AckedWait.pod} ELSE past.stale
  <1>2. past' = [past EXCEPT !.sibling = sibling, !.stale = stale]
    BY AckFacts DEF Noted, AckedSiblings
  <1>3. sibling \subseteq Pods /\ stale \subseteq Pods
    <2>1. AckGone => AckedWait.pod \in Pods
      BY AckFacts DEF AckGone, HeldBack
    <2>2. past.sibling \subseteq Pods /\ past.stale \subseteq Pods
      BY DEF PodTypes
    <2>. QED
      BY <2>1, <2>2 DEF Namesakes
  <1> HIDE DEF sibling, stale
  <1>4. past \in [seen : SUBSET (Pods \X Nat), sibling : SUBSET Pods, unseen : SUBSET Pods,
                 stale : SUBSET Pods, blank : BOOLEAN]
    BY DEF PodTypes
  <1>5. /\ past' \in [seen : SUBSET (Pods \X Nat), sibling : SUBSET Pods,
                      unseen : SUBSET Pods, stale : SUBSET Pods, blank : BOOLEAN]
        /\ past'.seen = past.seen /\ past'.unseen = past.unseen /\ past'.blank = past.blank
        /\ past'.sibling = sibling /\ past'.stale = stale
    BY ONLY <1>2, <1>3, <1>4
  <1>. QED
    BY <1>1, <1>5 DEF sibling, stale

LEMMA AckTypes ==
  ASSUME PodTypes, Acknowledged
  PROVE  PodTypes'
  <1> USE AckFacts
  <1>1. waiting' \in [Idents -> {NotWaiting} \cup HeldBack]
    <2>1. ASSUME AckedWait # NotWaiting
          PROVE  [AckedWait EXCEPT !.left = LeftAfter(AckedWait, AckedFile)] \in HeldBack
      BY <2>1 DEF LeftAfter, HeldBack
    <2>. QED
      BY <2>1 DEF PodTypes
  <1>2. watch' \in Watches
    BY AckFields
  <1>3. past' \in [seen : SUBSET (Pods \X Nat), sibling : SUBSET Pods, unseen : SUBSET Pods,
                  stale : SUBSET Pods, blank : BOOLEAN]
    BY AckFields
  <1>. QED
    BY <1>1, <1>2, <1>3 DEF PodTypes

LEMMA WatchTypes ==
  ASSUME PodTypes, Middleware \/ WatchFails
  PROVE  PodTypes'
  <1> USE DEF Closed, NoStore
  <1>1. CASE List
    <2>1. watch' \in Watches
      BY <1>1 DEF List, PodTypes, Watches
    <2>. QED
      BY <1>1, <2>1, RememberTypes DEF List, PodTypes
  <1>2. CASE Applied
    <2>1. watch' \in Watches
      BY <1>2, HeadFacts, WatchFacts DEF Applied, Received, PodTypes, Watches
    <2>. QED
      BY <1>2, <2>1, RememberTypes DEF Applied, PodTypes
  <1>3. CASE Deleted
    <2>1. watch' \in Watches
      BY <1>3, HeadFacts, WatchFacts DEF Deleted, Withhold, Received, PodTypes, Watches
    <2> DEFINE ev == Head(watch.events)
    <2>2. [pod |-> ev.pod, gen |-> ev.gen, left |-> Containers[ev.pod]] \in HeldBack
      BY <1>3, HeadFacts DEF Deleted, HeldBack, AllContainers
    <2>3. waiting' = [waiting EXCEPT ![ident[ev.pod]] =
                         [pod |-> ev.pod, gen |-> ev.gen, left |-> Containers[ev.pod]]]
      BY <1>3 DEF Deleted
    <2>4. waiting' \in [Idents -> {NotWaiting} \cup HeldBack]
      BY <2>2, <2>3 DEF PodTypes
    <2>. QED
      BY <1>3, <2>1, <2>4 DEF Deleted, PodTypes
  <1>5. CASE Kick
    <2>1. /\ store' = View /\ past' = [past EXCEPT !.blank = runner.swapped /\ ~watch.listed]
          /\ watch' = [Closed EXCEPT !.open = TRUE]
          /\ runner' = [phase |-> "swapping", swapped |-> FALSE]
      BY <1>5 DEF Kick
    <2>2. store' \in [Pods -> Nat]
      BY <2>1, WatchFacts DEF View, PodTypes
    <2>3. watch' \in Watches
      <3>1. <<>> \in Seq(Events) /\ NoStore \in [Pods -> Nat]
        OBVIOUS
      <3>2. watch' = [open |-> TRUE, listed |-> FALSE, events |-> <<>>, store |-> NoStore]
        BY <2>1
      <3>. QED
        BY ONLY <3>1, <3>2 DEF Watches
    <2>4. past' \in [seen : SUBSET (Pods \X Nat), sibling : SUBSET Pods, unseen : SUBSET Pods,
                    stale : SUBSET Pods, blank : BOOLEAN]
      <3>1. (runner.swapped /\ ~watch.listed) \in BOOLEAN
        BY Zenon
      <3>2. PICK b \in BOOLEAN : past' = [past EXCEPT !.blank = b]
        BY <2>1, <3>1, Zenon
      <3>. QED
        BY <3>2 DEF PodTypes
    <2>5. runner' \in [phase : {"creating", "swapping", "running"}, swapped : BOOLEAN]
      BY ONLY <2>1
    <2>6. UNCHANGED <<ident, live, gens, files, acks, waiting>>
      BY <1>5 DEF Kick
    <2>. QED
      BY <2>2, <2>3, <2>4, <2>5, <2>6 DEF PodTypes
  <1>6. CASE Swap
    <2>1. runner' \in [phase : {"creating", "swapping", "running"}, swapped : BOOLEAN]
      BY <1>6 DEF Swap
    <2>. QED
      BY <1>6, <2>1, RememberTypes DEF Swap, PodTypes
  <1>7. CASE BackOff
    BY <1>7 DEF BackOff, PodTypes
  <1>8. CASE WatchFails
    <2>1. watch' \in Watches
      <3>1. <<>> \in Seq(Events) /\ watch \in Watches
        BY DEF PodTypes
      <3>2. watch' = [watch EXCEPT !.open = FALSE, !.events = <<>>]
        BY <1>8 DEF WatchFails
      <3>. QED
        BY ONLY <3>1, <3>2 DEF Watches
    <2>. QED
      BY <1>8, <2>1 DEF WatchFails, PodTypes
  <1>4. CASE Acknowledged
    BY <1>4, AckTypes
  <1>. QED
    BY <1>1, <1>2, <1>3, <1>4, <1>5, <1>6, <1>7, <1>8 DEF Middleware
---------------------------------------------------------------------------
(* The cluster changes.                                                    *)

LEMMA NatFacts ==
  ASSUME PodTypes
  PROVE  /\ \A p \in Pods : /\ live[p] \in Nat /\ gens[p] \in Nat /\ store[p] \in Nat
                          /\ watch.store[p] \in Nat
         /\ Len(watch.events) \in Nat
         /\ \A k \in 1 .. Len(watch.events) :
               /\ watch.events[k] \in Events
               /\ watch.events[k].pod \in Pods /\ watch.events[k].gen \in Nat
               /\ watch.events[k].kind \in {"Applied", "Deleted"}
         /\ \A i \in Idents : waiting[i] # NotWaiting =>
               waiting[i].pod \in Pods /\ waiting[i].gen \in Nat
  <1>1. watch.store \in [Pods -> Nat] /\ watch.events \in Seq(Events)
    BY WatchFacts
  <1>2. \A k \in 1 .. Len(watch.events) : watch.events[k] \in Events
    BY <1>1
  <1>3. \A i \in Idents : waiting[i] \in {NotWaiting} \cup HeldBack
    BY DEF PodTypes
  <1>4. \A p \in Pods : /\ live[p] \in Nat /\ gens[p] \in Nat /\ store[p] \in Nat
                        /\ watch.store[p] \in Nat
    BY <1>1 DEF PodTypes
  <1>5. Len(watch.events) \in Nat
    BY <1>1
  <1>6. \A ev \in Events : ev.pod \in Pods /\ ev.gen \in Nat /\ ev.kind \in {"Applied", "Deleted"}
    BY DEF Events
  <1>7. \A i \in Idents : waiting[i] # NotWaiting =>
           waiting[i].pod \in Pods /\ waiting[i].gen \in Nat
    BY <1>3 DEF HeldBack
  <1>. QED
    BY <1>2, <1>4, <1>5, <1>6, <1>7

LEMMA ToldMore ==
  ASSUME PodTypes, NEW e \in Events,
         watch'.events = IF Up THEN Append(watch.events, e) ELSE watch.events
  PROVE  /\ \A k \in 1 .. Len(watch.events) :
               k \in 1 .. Len(watch'.events) /\ watch'.events[k] = watch.events[k]
         /\ Up => /\ Len(watch.events) + 1 \in 1 .. Len(watch'.events)
                  /\ watch'.events[Len(watch.events) + 1] = e
         /\ \A k \in 1 .. Len(watch'.events) :
               \/ k \in 1 .. Len(watch.events)
               \/ Up /\ k = Len(watch.events) + 1 /\ watch'.events[k] = e
  <1> DEFINE told == watch.events
  <1>1. told \in Seq(Events) /\ Len(told) \in Nat
    BY WatchFacts
  <1> HIDE DEF told
  <1>2. /\ Append(told, e) \in Seq(Events) /\ Len(Append(told, e)) = Len(told) + 1
        /\ \A k \in 1 .. Len(told) : Append(told, e)[k] = told[k]
        /\ Append(told, e)[Len(told) + 1] = e
    BY <1>1
  <1>3. watch'.events = IF Up THEN Append(told, e) ELSE told
    BY DEF told
  <1>4. /\ \A k \in 1 .. Len(told) :
              k \in 1 .. Len(watch'.events) /\ watch'.events[k] = told[k]
        /\ Up => /\ Len(told) + 1 \in 1 .. Len(watch'.events)
                 /\ watch'.events[Len(told) + 1] = e
        /\ \A k \in 1 .. Len(watch'.events) :
              k \in 1 .. Len(told) \/ (Up /\ k = Len(told) + 1 /\ watch'.events[k] = e)
    <2>1. CASE Up
      BY <1>1, <1>2, <1>3, <2>1
    <2>2. CASE ~Up
      BY <1>1, <1>3, <2>2
    <2>. QED
      BY <2>1, <2>2
  <1>. QED
    BY <1>4 DEF told

LEMMA CreateKeeps ==
  ASSUME PodInv, NEW p \in Pods, CreatePod(p)
  PROVE  (Consistent /\ Kept)'
  <1> USE DEF PodInv, Consistent, Kept
  <1> DEFINE g == gens[p] + 1
             e == [kind |-> "Applied", pod |-> p, gen |-> g]
  <1>1. /\ live[p] = 0 /\ gens' = [gens EXCEPT ![p] = g] /\ live' = [live EXCEPT ![p] = g]
        /\ files' = files \cup {f \in FilesOf(p) : f.gen = g /\ f.no = 1}
        /\ watch' = Tell("Applied", p, g)
        /\ UNCHANGED <<ident, acks, runner, store, waiting, past>>
    BY DEF CreatePod, PodTypes
  <1>2. g \in Nat /\ e \in Events
    BY NatFacts DEF Events
  <1>3. /\ watch'.open = watch.open /\ watch'.listed = watch.listed /\ watch'.store = watch.store
        /\ watch'.events = IF Up THEN Append(watch.events, e) ELSE watch.events
    BY <1>1, <1>2, TellFacts
  <1>4. /\ gens'[p] = g /\ live'[p] = g
        /\ \A q \in Pods \ {p} : gens'[q] = gens[q] /\ live'[q] = live[q]
    BY <1>1 DEF PodTypes
  <1>5. \A f \in files' : f \in files \/ (f.pod = p /\ f.gen = g)
    BY <1>1 DEF FilesOf
  <1>6. \A f \in files : f.pod \in Pods /\ f.gen \in Nat
    BY FileFields DEF PodTypes
  <1>7. Up' <=> Up
    BY <1>3 DEF Up
  <1> HIDE DEF e, g
  <1>8. gens[p] < g /\ gens[p] \in Nat
    BY NatFacts DEF g
  <1>9. e.kind = "Applied" /\ e.pod = p /\ e.gen = g
    BY DEF e
  <1>11. Generations'
    BY <1>1, <1>3, <1>4, <1>5, <1>6, <1>8, <1>2, NatFacts DEF Generations
  <1>12. Phases'
    BY <1>1, <1>3, <1>4, <1>7, <1>8, NatFacts DEF Phases
  <1>13. EventsAreNews'
    <2> SUFFICES ASSUME NEW k \in 1 .. Len(watch'.events) PROVE Newer(k)'
      BY DEF EventsAreNews
    <2>1. CASE k \in 1 .. Len(watch.events)
      <3>1. Newer(k) /\ watch'.events[k] = watch.events[k]
        BY <1>2, <1>3, <2>1, ToldMore DEF EventsAreNews
      <3>2. \A l \in 1 .. k - 1 : watch'.events[l] = watch.events[l]
        BY <1>2, <1>3, <2>1, ToldMore, NatFacts
      <3>3. watch.events[k].pod \in Pods /\ watch.events[k].gen \in Nat
        BY <2>1, NatFacts
      <3>4. \A q \in Pods : gens[q] <= gens'[q] /\ gens[q] \in Nat /\ gens'[q] \in Nat
        BY <1>2, <1>4, <1>8, NatFacts
      <3>5. 0 < watch.events[k].gen /\ watch.events[k].gen <= gens'[watch.events[k].pod]
        BY <3>1, <3>3, <3>4 DEF Newer
      <3>6. watch.events[k].kind = "Deleted" => live'[watch.events[k].pod] # watch.events[k].gen
        BY <3>1, <3>3, <1>2, <1>4, <1>8, NatFacts DEF Newer
      <3>7. \A l \in 1 .. k - 1, q \in Pods : IsApplied(l, q)' <=> IsApplied(l, q)
        BY <3>2 DEF IsApplied
      <3>8. IsApplied(k, watch.events[k].pod)' <=> IsApplied(k, watch.events[k].pod)
        BY <3>1 DEF IsApplied
      <3>9. past'.seen = past.seen
        BY <1>1
      <3>. QED
        BY <1>3, <3>1, <3>2, <3>3, <3>5, <3>6, <3>7, <3>8, <3>9 DEF Newer
    <2>2. CASE Up /\ k = Len(watch.events) + 1 /\ watch'.events[k] = e
      <3>1. \A l \in 1 .. k - 1 : l \in 1 .. Len(watch.events)
                                   /\ watch'.events[l] = watch.events[l] /\ Newer(l)
        BY <1>2, <1>3, <2>2, ToldMore, NatFacts DEF EventsAreNews
      <3>2. \A l \in 1 .. k - 1 : watch.events[l].pod = p => watch.events[l].gen <= gens[p]
        BY <3>1 DEF Newer
      <3>3. \A h \in Nat : <<p, h>> \in past.seen => h <= gens[p]
        BY DEF Generations
      <3>4. watch.store[p] <= gens[p]
        BY DEF Generations
      <3>5. \A l \in 1 .. k - 1 : watch.events[l].gen \in Nat
        BY <3>1, NatFacts
      <3>6. 0 < g /\ g <= gens'[p]
        BY <1>2, <1>4, <1>8
      <3>7. \A h \in Nat : <<p, h>> \in past'.seen => h < g
        BY <1>1, <1>2, <1>8, <3>3
      <3>8. watch'.store[p] < g
        BY <1>2, <1>3, <1>8, <3>4, NatFacts
      <3>9. \A l \in 1 .. k - 1 : IsApplied(l, p)' => watch'.events[l].gen < g
        BY <1>2, <1>8, <3>1, <3>2, <3>5 DEF IsApplied
      <3>. QED
        BY <1>9, <2>2, <3>6, <3>7, <3>8, <3>9 DEF Newer
    <2>. QED
      BY <1>2, <1>3, <2>1, <2>2, ToldMore
  <1>14. ViewWasSeen' /\ StoreIsLatest'
    BY <1>1, <1>3 DEF ViewWasSeen, View, Seen, StoreIsLatest
  <1>15. HeldForFiles'
    <2> SUFFICES ASSUME NEW i \in Idents, waiting[i] # NotWaiting
                 PROVE  /\ ident[waiting[i].pod] = i
                        /\ 0 < waiting[i].gen /\ waiting[i].gen <= gens'[waiting[i].pod]
                        /\ live'[waiting[i].pod] # waiting[i].gen
                        /\ LeftHas(waiting[i])'
      BY <1>1 DEF HeldForFiles
    <2>1. waiting[i].pod \in Pods /\ waiting[i].gen \in Nat
      BY NatFacts
    <2>2. /\ ident[waiting[i].pod] = i
          /\ 0 < waiting[i].gen /\ waiting[i].gen <= gens[waiting[i].pod]
          /\ live[waiting[i].pod] # waiting[i].gen
          /\ LeftHas(waiting[i])
      BY DEF HeldForFiles
    <2>3. LeftHas(waiting[i])'
      BY <1>1, <1>5, <1>8, <2>1, <2>2, <1>2 DEF LeftHas
    <2>. QED
      BY <1>4, <1>8, <2>1, <2>2, <2>3, <1>2, NatFacts
  <1>16. \A f \in files' : Logged(f)' => f \in files /\ Logged(f)
    BY <1>1, <1>2, <1>5, <1>8 DEF Logged, Generations
  <1>17. StoreHasLogged' /\ OldHasLogged'
    BY <1>1, <1>3, <1>16 DEF StoreHasLogged, OldHasLogged, Excepted
  <1>18. LiveIsTold'
    <2> SUFFICES ASSUME Up, NEW q \in Pods, live'[q] > 0
                 PROVE  watch.store[q] = live'[q] \/ Announced(q)' \/ q \in past.stale
      BY <1>1, <1>3, <1>7 DEF LiveIsTold
    <2>1. CASE q = p
      BY <1>2, <1>3, <1>4, <1>9, <2>1, ToldMore DEF Announced, IsApplied
    <2>2. CASE q # p
      <3>1. Announced(q) => Announced(q)'
        BY <1>2, <1>3, <1>4, <2>2, ToldMore DEF Announced, IsApplied
      <3>. QED
        BY <1>4, <2>2, <3>1 DEF LiveIsTold
    <2>. QED
      BY <2>1, <2>2
  <1>. QED
    BY <1>11, <1>12, <1>13, <1>14, <1>15, <1>17, <1>18

LEMMA DeleteKeeps ==
  ASSUME PodInv, NEW p \in Pods, DeletePod(p)
  PROVE  (Consistent /\ Kept)'
  <1> USE DEF PodInv, Consistent, Kept
  <1> DEFINE g == live[p]
             e == [kind |-> "Deleted", pod |-> p, gen |-> g]
  <1>1. /\ g > 0 /\ live' = [live EXCEPT ![p] = 0]
        /\ watch' = Tell("Deleted", p, g)
        /\ UNCHANGED <<ident, gens, files, acks, runner, store, waiting>>
        /\ past' = IF Up THEN past ELSE [past EXCEPT !.unseen = @ \cup {p}]
    BY DEF DeletePod, Up
  <1>2. g \in Nat /\ e \in Events
    BY NatFacts DEF Events
  <1>3. /\ watch'.open = watch.open /\ watch'.listed = watch.listed /\ watch'.store = watch.store
        /\ watch'.events = IF Up THEN Append(watch.events, e) ELSE watch.events
    BY <1>1, <1>2, TellFacts
  <1>4. live'[p] = 0 /\ \A q \in Pods \ {p} : live'[q] = live[q]
    BY <1>1 DEF PodTypes
  <1>5. /\ past'.seen = past.seen /\ past'.sibling = past.sibling /\ past'.stale = past.stale
        /\ past'.blank = past.blank
        /\ past'.unseen = IF Up THEN past.unseen ELSE past.unseen \cup {p}
    BY <1>1 DEF PodTypes
  <1>6. Up' <=> Up
    BY <1>3 DEF Up
  <1>7. g = gens[p]
    BY <1>1, <1>2 DEF Generations
  <1> HIDE DEF e, g
  <1>8. e.kind = "Deleted" /\ e.pod = p /\ e.gen = g
    BY DEF e
  <1>11. Generations'
    BY <1>1, <1>3, <1>4, <1>5 DEF Generations
  <1>12. Phases'
    BY <1>1, <1>3, <1>4, <1>5, <1>6 DEF Phases
  <1>13. EventsAreNews'
    <2> SUFFICES ASSUME NEW k \in 1 .. Len(watch'.events) PROVE Newer(k)'
      BY DEF EventsAreNews
    <2>1. CASE k \in 1 .. Len(watch.events)
      <3>1. Newer(k) /\ watch'.events[k] = watch.events[k]
        BY <1>2, <1>3, <2>1, ToldMore DEF EventsAreNews
      <3>2. \A l \in 1 .. k - 1 : watch'.events[l] = watch.events[l]
        BY <1>2, <1>3, <2>1, ToldMore, NatFacts
      <3>3. watch.events[k].pod \in Pods /\ watch.events[k].gen \in Nat
        BY <2>1, NatFacts
      <3>4. watch.events[k].kind = "Deleted" => live'[watch.events[k].pod] # watch.events[k].gen
        BY <3>1, <3>3, <1>4 DEF Newer
      <3>5. \A l \in 1 .. k - 1, q \in Pods : IsApplied(l, q)' <=> IsApplied(l, q)
        BY <3>2 DEF IsApplied
      <3>6. IsApplied(k, watch.events[k].pod)' <=> IsApplied(k, watch.events[k].pod)
        BY <3>1 DEF IsApplied
      <3>. QED
        BY <1>1, <1>3, <1>5, <3>1, <3>2, <3>3, <3>4, <3>5, <3>6 DEF Newer
    <2>2. CASE Up /\ k = Len(watch.events) + 1 /\ watch'.events[k] = e
      <3>1. 0 < g /\ g <= gens'[p] /\ live'[p] # g
        BY <1>1, <1>2, <1>4, <1>7
      <3>. QED
        BY <1>8, <2>2, <3>1 DEF Newer, IsApplied
    <2>. QED
      BY <1>2, <1>3, <2>1, <2>2, ToldMore
  <1>14. ViewWasSeen' /\ StoreIsLatest'
    BY <1>1, <1>3, <1>5 DEF ViewWasSeen, View, Seen, StoreIsLatest
  <1>15. HeldForFiles'
    <2> SUFFICES ASSUME NEW i \in Idents, waiting[i] # NotWaiting
                 PROVE  /\ ident[waiting[i].pod] = i
                        /\ 0 < waiting[i].gen /\ waiting[i].gen <= gens[waiting[i].pod]
                        /\ live'[waiting[i].pod] # waiting[i].gen
                        /\ LeftHas(waiting[i])'
      BY <1>1 DEF HeldForFiles
    <2>1. waiting[i].pod \in Pods /\ waiting[i].gen \in Nat
      BY NatFacts
    <2>2. /\ ident[waiting[i].pod] = i
          /\ 0 < waiting[i].gen /\ waiting[i].gen <= gens[waiting[i].pod]
          /\ live[waiting[i].pod] # waiting[i].gen
          /\ LeftHas(waiting[i])
      BY DEF HeldForFiles
    <2>3. LeftHas(waiting[i])'
      BY <1>1, <1>5, <2>2 DEF LeftHas
    <2>. QED
      BY <1>4, <2>1, <2>2, <2>3
  <1>17. StoreHasLogged' /\ OldHasLogged'
    BY <1>1, <1>3, <1>5 DEF StoreHasLogged, OldHasLogged, Excepted, Logged
  <1>18. LiveIsTold'
    <2> SUFFICES ASSUME Up, NEW q \in Pods, live'[q] > 0
                 PROVE  watch.store[q] = live'[q] \/ Announced(q)' \/ q \in past.stale
      BY <1>3, <1>5, <1>6 DEF LiveIsTold
    <2>1. q # p
      BY <1>4
    <2>2. Announced(q) => Announced(q)'
      BY <1>2, <1>3, <1>4, <2>1, ToldMore DEF Announced, IsApplied
    <2>. QED
      BY <1>4, <2>1, <2>2 DEF LiveIsTold
  <1>. QED
    BY <1>11, <1>12, <1>13, <1>14, <1>15, <1>17, <1>18

LEMMA RestartKeeps ==
  ASSUME PodInv, NEW f \in files, RestartContainer(f)
  PROVE  (Consistent /\ Kept)'
  <1> USE DEF PodInv, Consistent, Kept
  <1> DEFINE n == [f EXCEPT !.no = @ + 1]
  <1>1. /\ live[f.pod] = f.gen /\ files' = files \cup {n} /\ f.no < MaxFiles
        /\ UNCHANGED <<ident, live, gens, acks, watch, runner, store, waiting, past>>
    BY DEF RestartContainer
  <1>2. f \in Files
    BY DEF PodTypes
  <1>3. n \in Files /\ n.pod = f.pod /\ n.gen = f.gen /\ n.container = f.container
    BY <1>1, <1>2, NextFile
  <1>4. f.pod \in Pods /\ f.gen \in Nat
    BY <1>2, FileFields
  <1> HIDE DEF n
  <1>11. Generations'
    BY <1>1, <1>3 DEF Generations
  <1>12. Phases' /\ ViewWasSeen' /\ StoreIsLatest'
    BY <1>1 DEF Phases, Up, ViewWasSeen, View, Seen, StoreIsLatest
  <1>13. EventsAreNews' /\ LiveIsTold'
    BY <1>1 DEF EventsAreNews, Newer, IsApplied, LiveIsTold, Announced, Up
  <1>14. HeldForFiles'
    BY <1>1, <1>3 DEF HeldForFiles, LeftHas
  <1>15. StoreHasLogged' /\ OldHasLogged'
    BY <1>1, <1>3 DEF StoreHasLogged, OldHasLogged, Excepted, Logged
  <1>. QED
    BY <1>11, <1>12, <1>13, <1>14, <1>15

LEMMA RemoveKeeps ==
  ASSUME PodInv, NEW f \in files, RemoveFile(f)
  PROVE  (Consistent /\ Kept)'
  <1> USE DEF PodInv, Consistent, Kept
  <1>1. /\ files' = files \ {f}
        /\ UNCHANGED <<ident, live, gens, watch, runner, store, waiting, past>>
    BY DEF RemoveFile
  <1>11. Generations'
    BY <1>1 DEF Generations
  <1>12. Phases' /\ ViewWasSeen' /\ StoreIsLatest'
    BY <1>1 DEF Phases, Up, ViewWasSeen, View, Seen, StoreIsLatest
  <1>13. EventsAreNews' /\ LiveIsTold'
    BY <1>1 DEF EventsAreNews, Newer, IsApplied, LiveIsTold, Announced, Up
  <1>14. HeldForFiles'
    BY <1>1 DEF HeldForFiles, LeftHas
  <1>15. StoreHasLogged' /\ OldHasLogged'
    BY <1>1 DEF StoreHasLogged, OldHasLogged, Excepted, Logged
  <1>. QED
    BY <1>11, <1>12, <1>13, <1>14, <1>15
---------------------------------------------------------------------------
(* The watch.                                                              *)

\* What Remember adds to what was seen.
LEMMA SeenMore ==
  ASSUME PodInv, Remember, past'.seen = past.seen \cup Seen(View'),
         UNCHANGED <<runner, store>> \/ runner'.swapped
  PROVE  /\ Seen(View') \subseteq past'.seen
         /\ \A q \in Pods, h \in Nat :
               <<q, h>> \in past'.seen =>
                   \/ <<q, h>> \in past.seen
                   \/ runner'.swapped /\ h = watch'.store[q] /\ h > 0
  <1>1. \A q \in Pods, h \in Nat : <<q, h>> \in Seen(View') => h = View'[q] /\ View'[q] > 0
    BY DEF Seen
  <1>2. runner'.swapped => View' = watch'.store
    BY DEF View
  <1>3. ~runner'.swapped => View' = View
    BY DEF View
  <1>4. Seen(View) \subseteq past.seen
    BY DEF PodInv, Consistent, ViewWasSeen
  <1>5. CASE runner'.swapped
    BY <1>1, <1>2, <1>5
  <1>6. CASE ~runner'.swapped
    <2>1. Seen(View') = Seen(View)
      BY <1>3, <1>6 DEF Seen
    <2>. QED
      BY <1>4, <2>1
  <1>. QED
    BY <1>5, <1>6

LEMMA ListKeeps ==
  ASSUME PodInv, List
  PROVE  (Consistent /\ Kept)'
  <1> USE DEF PodInv, Consistent, Kept
  <1>1. /\ watch.open /\ ~watch.listed
        /\ watch' = [watch EXCEPT !.listed = TRUE, !.store = live]
        /\ UNCHANGED <<ident, live, gens, files, acks, runner, store, waiting, count>>
        /\ Remember
    BY DEF List
  <1>2. watch' \in Watches
    BY WatchTypes DEF Middleware, PodTypes
  <1>3. /\ watch'.open = watch.open /\ watch'.listed /\ watch'.events = watch.events
        /\ watch'.store = live
    BY <1>1 DEF PodTypes, Watches
  <1>4. /\ past'.seen = past.seen \cup Seen(View')
        /\ past'.sibling = past.sibling /\ past'.unseen = past.unseen
        /\ past'.stale = past.stale /\ past'.blank = past.blank
    BY <1>1, <1>2, RememberTypes DEF PodTypes
  <1>5. /\ Seen(View') \subseteq past'.seen
        /\ \A q \in Pods, h \in Nat :
              <<q, h>> \in past'.seen =>
                 <<q, h>> \in past.seen \/ (runner.swapped /\ h = live[q] /\ h > 0)
    BY <1>1, <1>3, <1>4, SeenMore
  <1>6. ~Up /\ Up'
    BY <1>1, <1>3 DEF Up
  <1>7. \A p \in Pods : live[p] <= gens[p]
    BY NatFacts DEF Generations
  <1>8. \A f \in files : f.pod \in Pods /\ f.gen \in Nat /\ 0 < f.gen
    BY FileFields DEF PodTypes
  <1>11. Generations'
    BY <1>1, <1>3, <1>5, <1>7 DEF Generations
  <1>12. Phases'
    BY <1>1, <1>3, <1>4, <1>6 DEF Phases
  <1>13. EventsAreNews'
    <2>1. watch'.events = <<>>
      BY <1>3, <1>6 DEF Phases
    <2>. QED
      BY <2>1 DEF EventsAreNews
  <1>14. ViewWasSeen'
    BY <1>5 DEF ViewWasSeen
  <1>15. StoreIsLatest'
    BY <1>11, <1>1, <1>3, <1>7 DEF StoreIsLatest, Generations
  <1>16. HeldForFiles'
    BY <1>1, <1>4 DEF HeldForFiles, LeftHas
  <1>17. StoreHasLogged'
    <2> SUFFICES ASSUME NEW f \in files, live[f.pod] = 0 PROVE f.pod \in past.unseen
      BY <1>1, <1>3, <1>4 DEF StoreHasLogged, Excepted
    <2>1. f.gen <= gens[f.pod] /\ gens[f.pod] \in Nat
      BY <1>8, NatFacts DEF Generations
    <2>. QED
      BY <1>6, <1>8, <2>1 DEF Phases
  <1>18. OldHasLogged'
    BY <1>1, <1>4, <1>5, <1>8 DEF OldHasLogged, Logged, Excepted
  <1>19. LiveIsTold'
    BY <1>1, <1>3 DEF LiveIsTold
  <1>. QED
    BY <1>11, <1>12, <1>13, <1>14, <1>15, <1>16, <1>17, <1>18, <1>19

\* One event less: what is still to come stays newer.
LEMMA TailIsNews ==
  ASSUME PodInv, watch.events # <<>>, watch'.events = Tail(watch.events),
         UNCHANGED <<live, gens>>, watch' \in Watches,
         \A q \in Pods : \/ watch'.store[q] = watch.store[q]
                         \/ IsApplied(1, q) /\ watch'.store[q] = watch.events[1].gen,
         \A q \in Pods, h \in Nat :
             <<q, h>> \in past'.seen => <<q, h>> \in past.seen \/ h = watch'.store[q]
  PROVE  EventsAreNews'
  <1> USE DEF PodInv, Consistent
  <1> SUFFICES ASSUME NEW k \in 1 .. Len(watch'.events) PROVE Newer(k)'
    BY DEF EventsAreNews
  <1>1. /\ Len(watch'.events) = Len(watch.events) - 1 /\ Len(watch.events) \in Nat \ {0}
        /\ \A j \in 1 .. Len(watch.events) - 1 : watch'.events[j] = watch.events[j + 1]
    BY HeadFacts
  <1>2. k + 1 \in 1 .. Len(watch.events) /\ watch'.events[k] = watch.events[k + 1]
    BY <1>1
  <1>3. Newer(k + 1)
    BY <1>2 DEF EventsAreNews
  <1>4. PICK p \in Pods, g \in Nat : p = watch.events[k + 1].pod /\ g = watch.events[k + 1].gen
    BY <1>2, NatFacts
  <1>5. \A j \in 1 .. k, q \in Pods : IsApplied(j, q)' <=> IsApplied(j + 1, q)
    BY <1>1 DEF IsApplied
  <1>6. k \in Nat
    OBVIOUS
  <1>7. /\ 0 < g /\ g <= gens[p]
        /\ watch.events[k + 1].kind = "Deleted" => live[p] # g
    BY <1>3, <1>4 DEF Newer
  <1>8. ASSUME IsApplied(k + 1, p)
        PROVE  /\ \A h \in Nat : <<p, h>> \in past'.seen => h < g
               /\ watch'.store[p] < g
               /\ \A l \in 1 .. k - 1 : IsApplied(l, p)' => watch'.events[l].gen < g
    <2>1. /\ \A h \in Nat : <<p, h>> \in past.seen => h < g
          /\ watch.store[p] < g
          /\ \A l \in 1 .. k : IsApplied(l, p) => watch.events[l].gen < g
      BY <1>3, <1>4, <1>6, <1>8 DEF Newer
    <2>2. watch'.store[p] < g
      BY <1>2, <1>4, <1>6, <2>1
    <2>3. \A h \in Nat : <<p, h>> \in past'.seen => h < g
      BY <1>4, <2>1, <2>2
    <2>4. \A l \in 1 .. k - 1 : IsApplied(l, p)' => watch'.events[l].gen < g
      <3> SUFFICES ASSUME NEW l \in 1 .. k - 1, IsApplied(l, p)' PROVE watch'.events[l].gen < g
        OBVIOUS
      <3>1. l + 1 \in 1 .. k /\ l \in 1 .. Len(watch.events) - 1 /\ l \in 1 .. k
        BY <1>1
      <3>2. IsApplied(l + 1, p)
        BY <1>4, <1>5, <3>1
      <3>. QED
        BY <1>1, <2>1, <3>1, <3>2
    <2>. QED
      BY <2>2, <2>3, <2>4
  <1>9. IsApplied(k, p)' <=> IsApplied(k + 1, p)
    BY <1>4, <1>5, <1>6
  <1>. QED
    BY <1>2, <1>4, <1>7, <1>8, <1>9 DEF Newer

LEMMA AppliedKeeps ==
  ASSUME PodInv, Applied
  PROVE  (Consistent /\ Kept)'
  <1> USE DEF PodInv, Consistent, Kept
  <1> DEFINE ev == watch.events[1]
             more == [watch.store EXCEPT ![ev.pod] = ev.gen]
  <1>1. /\ watch.events # <<>> /\ ev.kind = "Applied"
        /\ watch' = [Received EXCEPT !.store[ev.pod] = ev.gen]
        /\ UNCHANGED <<ident, live, gens, files, acks, runner, store, waiting, count>>
        /\ Remember
    BY HeadFacts DEF Applied
  <1>2. watch' \in Watches
    BY WatchTypes DEF Middleware, PodTypes
  <1>3. 1 \in 1 .. Len(watch.events) /\ ev.pod \in Pods /\ ev.gen \in Nat
    BY <1>1, HeadFacts
  <1>4. /\ watch'.open = watch.open /\ watch'.listed = watch.listed
        /\ watch'.events = Tail(watch.events) /\ watch'.store = more
    <2>1. watch' = [watch EXCEPT !.events = Tail(@), !.store = more]
      BY <1>1 DEF Received, PodTypes, Watches
    <2> HIDE DEF more
    <2>2. watch \in Watches
      BY DEF PodTypes
    <2>. QED
      BY ONLY <2>1, <2>2 DEF Watches
  <1>5. more[ev.pod] = ev.gen /\ \A q \in Pods \ {ev.pod} : more[q] = watch.store[q]
    BY <1>3, WatchFacts
  <1>6. IsApplied(1, ev.pod)
    BY <1>1 DEF IsApplied
  <1>7. /\ 0 < ev.gen /\ ev.gen <= gens[ev.pod] /\ watch.store[ev.pod] < ev.gen
        /\ \A h \in Nat : <<ev.pod, h>> \in past.seen => h < ev.gen
    BY <1>3, <1>6 DEF EventsAreNews, Newer
  <1>8. /\ past'.seen = past.seen \cup Seen(View')
        /\ past'.sibling = past.sibling /\ past'.unseen = past.unseen
        /\ past'.stale = past.stale /\ past'.blank = past.blank
    BY <1>1, <1>2, RememberTypes DEF PodTypes
  <1>9. /\ Seen(View') \subseteq past'.seen
        /\ \A q \in Pods, h \in Nat :
              <<q, h>> \in past'.seen =>
                 <<q, h>> \in past.seen \/ (runner.swapped /\ h = more[q] /\ h > 0)
    BY <1>1, <1>4, <1>8, SeenMore
  <1>10. Up /\ Up'
    BY <1>1, <1>4 DEF Phases, Up
  <1>20. \A f \in files : f.pod \in Pods /\ f.gen \in Nat /\ 0 < f.gen
    BY FileFields DEF PodTypes
  <1>21. \A q \in Pods : more[q] \in Nat /\ more[q] <= gens[q]
    BY <1>3, <1>5, <1>7, NatFacts DEF Generations
  <1> HIDE DEF more, ev
  <1>11. Generations'
    BY <1>1, <1>4, <1>9, <1>21 DEF Generations
  <1>12. Phases'
    BY <1>1, <1>4, <1>8, <1>10 DEF Phases
  <1>13. EventsAreNews'
    <2>1. \A q \in Pods : \/ watch'.store[q] = watch.store[q]
                          \/ IsApplied(1, q) /\ watch'.store[q] = watch.events[1].gen
      BY <1>4, <1>5, <1>6 DEF ev
    <2>. QED
      BY <1>1, <1>2, <1>4, <1>9, <2>1, TailIsNews
  <1>14. ViewWasSeen'
    BY <1>9 DEF ViewWasSeen
  <1>15. StoreIsLatest'
    <2> SUFFICES ASSUME watch.listed, NEW p \in Pods, NEW g \in Nat, <<p, g>> \in past'.seen
                 PROVE  more[p] = 0 \/ g <= more[p]
      BY <1>4 DEF StoreIsLatest
    <2>1. CASE <<p, g>> \in past.seen
      BY <1>5, <1>7, <1>3, <2>1, NatFacts DEF StoreIsLatest
    <2>2. CASE g = more[p]
      BY <2>2
    <2>. QED
      BY <1>9, <2>1, <2>2
  <1>16. HeldForFiles'
    BY <1>1, <1>8 DEF HeldForFiles, LeftHas
  <1>17. StoreHasLogged'
    <2> SUFFICES ASSUME watch.listed, NEW f \in files, Logged(f)'
                 PROVE  more[f.pod] # 0 \/ Excepted(f.pod)
      BY <1>1, <1>4, <1>8 DEF StoreHasLogged, Excepted
    <2>1. <<f.pod, f.gen>> \in past.seen \/ more[f.pod] > 0
      BY <1>9, <1>20 DEF Logged
    <2>2. more[f.pod] = 0 => more[f.pod] = watch.store[f.pod]
      BY <1>3, <1>5, <1>7, <1>20
    <2>3. f.container \in Containers[f.pod]
      BY DEF Logged
    <2>. QED
      BY <2>1, <2>2, <2>3, <1>20, <1>21 DEF StoreHasLogged, Logged
  <1>18. OldHasLogged'
    BY <1>1, <1>8, <1>9, <1>20 DEF OldHasLogged, Logged, Excepted
  <1>19. LiveIsTold'
    <2> SUFFICES ASSUME NEW p \in Pods, live[p] > 0
                 PROVE  more[p] = live[p] \/ Announced(p)' \/ p \in past.stale
      BY <1>1, <1>4, <1>8 DEF LiveIsTold
    <2>1. CASE watch.store[p] = live[p]
      <3>1. live[p] = gens[p]
        BY NatFacts DEF Generations
      <3>. QED
        BY <1>3, <1>5, <1>7, <2>1, <3>1, NatFacts
    <2>2. CASE Announced(p)
      <3>1. PICK k \in 1 .. Len(watch.events) : IsApplied(k, p) /\ watch.events[k].gen = live[p]
        BY <2>2 DEF Announced
      <3>2. CASE k = 1
        BY <1>5, <3>1, <3>2 DEF IsApplied, ev
      <3>3. CASE k # 1
        <4>1. k - 1 \in 1 .. Len(watch.events) - 1 /\ (k - 1) + 1 = k
          BY <3>3, NatFacts
        <4>2. /\ k - 1 \in 1 .. Len(watch'.events)
              /\ watch'.events[k - 1] = watch.events[k]
          BY <1>1, <1>4, <4>1, HeadFacts
        <4>. QED
          BY <1>1, <3>1, <4>2 DEF Announced, IsApplied
      <3>. QED
        BY <3>2, <3>3
    <2>. QED
      BY <1>10, <2>1, <2>2 DEF LiveIsTold
  <1>. QED
    BY <1>11, <1>12, <1>13, <1>14, <1>15, <1>16, <1>17, <1>18, <1>19

LEMMA DeletedKeeps ==
  ASSUME PodInv, Deleted
  PROVE  (Consistent /\ Kept)'
  <1> USE DEF PodInv, Consistent, Kept
  <1> DEFINE ev == watch.events[1]
             held == [pod |-> ev.pod, gen |-> ev.gen, left |-> Containers[ev.pod]]
  <1>1. /\ watch.events # <<>> /\ ev.kind = "Deleted"
        /\ watch' = [watch EXCEPT !.events = Tail(@)]
        /\ waiting' = [waiting EXCEPT ![ident[ev.pod]] = held]
        /\ UNCHANGED <<ident, live, gens, files, acks, runner, store, count, past>>
    BY HeadFacts DEF Deleted, Withhold, Received
  <1>2. watch' \in Watches
    BY WatchTypes DEF Middleware, PodTypes
  <1>3. 1 \in 1 .. Len(watch.events) /\ ev.pod \in Pods /\ ev.gen \in Nat
    BY <1>1, HeadFacts
  <1>4. /\ watch'.open = watch.open /\ watch'.listed = watch.listed
        /\ watch'.events = Tail(watch.events) /\ watch'.store = watch.store
    BY <1>1 DEF PodTypes, Watches
  <1>5. 0 < ev.gen /\ ev.gen <= gens[ev.pod] /\ live[ev.pod] # ev.gen
    BY <1>1, <1>3 DEF EventsAreNews, Newer
  <1>6. Up /\ Up'
    BY <1>1, <1>4 DEF Phases, Up
  <1> HIDE DEF ev
  <1>11. Generations'
    BY <1>1, <1>4 DEF Generations
  <1>12. Phases'
    BY <1>1, <1>4, <1>6 DEF Phases
  <1>13. EventsAreNews'
    BY <1>1, <1>2, <1>4, TailIsNews
  <1>14. ViewWasSeen' /\ StoreIsLatest'
    BY <1>1, <1>4 DEF ViewWasSeen, View, Seen, StoreIsLatest
  <1>16. HeldForFiles'
    <2> SUFFICES ASSUME NEW i \in Idents, waiting'[i] # NotWaiting
                 PROVE  /\ ident[waiting'[i].pod] = i
                        /\ 0 < waiting'[i].gen /\ waiting'[i].gen <= gens[waiting'[i].pod]
                        /\ live[waiting'[i].pod] # waiting'[i].gen
                        /\ LeftHas(waiting'[i])
      BY <1>1 DEF HeldForFiles, LeftHas
    <2>1. CASE i = ident[ev.pod]
      <3>1. waiting'[i] = held
        BY <1>1, <2>1 DEF PodTypes
      <3>2. held.pod = ev.pod /\ held.gen = ev.gen /\ held.left = Containers[ev.pod]
        OBVIOUS
      <3>. QED
        BY <1>5, <2>1, <3>1, <3>2 DEF LeftHas
    <2>2. CASE i # ident[ev.pod]
      <3>1. waiting'[i] = waiting[i]
        BY <1>1, <2>2 DEF PodTypes
      <3>. QED
        BY <3>1 DEF HeldForFiles
    <2>. QED
      BY <2>1, <2>2
  <1>17. StoreHasLogged' /\ OldHasLogged'
    BY <1>1, <1>4 DEF StoreHasLogged, OldHasLogged, Excepted, Logged
  <1>19. LiveIsTold'
    <2> SUFFICES ASSUME NEW p \in Pods, Announced(p) PROVE Announced(p)'
      BY <1>1, <1>4, <1>6 DEF LiveIsTold
    <2>1. PICK k \in 1 .. Len(watch.events) : IsApplied(k, p) /\ watch.events[k].gen = live[p]
      BY DEF Announced
    <2>2. k # 1
      BY <1>1, <2>1 DEF IsApplied, ev
    <2>3. k - 1 \in 1 .. Len(watch.events) - 1 /\ (k - 1) + 1 = k
      BY <2>2, NatFacts
    <2>4. k - 1 \in 1 .. Len(watch'.events) /\ watch'.events[k - 1] = watch.events[k]
      BY <1>1, <1>4, <2>3, HeadFacts
    <2>. QED
      BY <1>1, <2>1, <2>4 DEF Announced, IsApplied
  <1>. QED
    BY <1>11, <1>12, <1>13, <1>14, <1>16, <1>17, <1>19

\* The deletion that is let go hits a pod without files, or one that is excepted.
LEMMA AcknowledgedKeeps ==
  ASSUME PodInv, Acknowledged
  PROVE  (Consistent /\ Kept)'
  <1> USE DEF PodInv, Consistent, Kept
  <1> DEFINE f0 == AckedFile
             i0 == AckedIdent
             w == AckedWait
             left == LeftAfter(w, f0)
  <1>1. /\ f0 \in Files /\ f0.pod \in Pods /\ i0 \in Idents /\ i0 = ident[f0.pod]
        /\ w = waiting[i0]
        /\ waiting' = IF w = NotWaiting THEN waiting
                      ELSE [waiting EXCEPT ![i0] = IF AckGone THEN NotWaiting
                                                   ELSE [w EXCEPT !.left = left]]
        /\ UNCHANGED <<ident, live, gens, files, runner, store>>
    BY AckFacts DEF AckedIdent, AckedWait
  <1>2. /\ watch' \in Watches
        /\ watch'.open = watch.open /\ watch'.listed = watch.listed
        /\ watch'.events = watch.events
        /\ watch'.store = IF AckGone THEN [watch.store EXCEPT ![w.pod] = 0] ELSE watch.store
        /\ past'.seen = past.seen /\ past'.unseen = past.unseen /\ past'.blank = past.blank
        /\ past'.sibling = IF AckedSiblings # {} THEN past.sibling \cup Namesakes(f0.pod)
                           ELSE past.sibling
        /\ past'.stale = IF AckGone /\ watch.store[w.pod] # w.gen THEN past.stale \cup {w.pod}
                         ELSE past.stale
    BY AckFields
  <1>3. w # NotWaiting => w.pod \in Pods /\ w.gen \in Nat /\ w \in HeldBack
    BY AckFacts DEF HeldBack
  <1>4. w # NotWaiting => /\ ident[w.pod] = i0
                          /\ 0 < w.gen /\ w.gen <= gens[w.pod]
                          /\ live[w.pod] # w.gen
                          /\ LeftHas(w)
    BY <1>1 DEF HeldForFiles
  <1>5. AckGone => w # NotWaiting /\ left = {}
    BY DEF AckGone
  <1>6. \A p \in Pods : /\ watch'.store[p] \in Nat
                        /\ watch'.store[p] = 0 \/ watch'.store[p] = watch.store[p]
                        /\ watch'.store[p] # watch.store[p] => AckGone /\ p = w.pod
    BY <1>2, <1>3, <1>5, WatchFacts
  <1>7. /\ Up' <=> Up
        /\ past.sibling \subseteq past'.sibling /\ past.stale \subseteq past'.stale
    BY <1>2 DEF Up
  <1>8. \A f \in files : f \in Files /\ f.pod \in Pods /\ f.gen \in Nat /\ 0 < f.gen
    BY FileFields DEF PodTypes
  \* A file of the acknowledged container is a sibling.
  <1>9. ASSUME NEW f \in files, w # NotWaiting, f.pod = w.pod, f.container = f0.container
        PROVE  f.pod \in past'.sibling
    <2>1. f \in AckedSiblings
      BY <1>1, <1>4, <1>9 DEF AckedSiblings
    <2>2. f.pod \in Namesakes(f0.pod)
      BY <1>1, <1>4, <1>8, <1>9 DEF Namesakes
    <2>. QED
      BY <1>2, <2>1, <2>2
  <1>10. left = w.left \ {f0.container}
    BY DEF LeftAfter
  <1> HIDE DEF f0, i0, w, left
  <1>11. Generations'
    <2>1. \A p \in Pods : watch'.store[p] <= gens[p]
      BY <1>6, NatFacts DEF Generations
    <2>. QED
      BY <1>1, <1>2, <2>1 DEF Generations
  <1>12. Phases'
    BY <1>1, <1>2, <1>7 DEF Phases
  <1>13. EventsAreNews'
    <2> SUFFICES ASSUME NEW k \in 1 .. Len(watch.events) PROVE Newer(k)'
      BY <1>2 DEF EventsAreNews
    <2>1. PICK p \in Pods, g \in Nat : p = watch.events[k].pod /\ g = watch.events[k].gen
      BY NatFacts
    <2>2. Newer(k)
      BY DEF EventsAreNews
    <2>3. watch'.store[p] < g \/ watch'.store[p] = watch.store[p]
      BY <1>6, <2>1, <2>2 DEF Newer
    <2>4. \A l \in Nat, q \in Pods : IsApplied(l, q)' <=> IsApplied(l, q)
      BY <1>2 DEF IsApplied
    <2>5. IsApplied(k, p)' <=> IsApplied(k, p)
      BY <1>2 DEF IsApplied
    <2>6. \A l \in 1 .. k - 1 : l \in Nat
      OBVIOUS
    <2>. QED
      BY <1>1, <1>2, <2>1, <2>2, <2>3, <2>4, <2>5, <2>6 DEF Newer
  <1>14. ViewWasSeen'
    BY <1>1, <1>2, <1>6 DEF ViewWasSeen, View, Seen
  <1>15. StoreIsLatest'
    BY <1>2, <1>6 DEF StoreIsLatest
  <1>16. HeldForFiles'
    <2> SUFFICES ASSUME NEW i \in Idents, waiting'[i] # NotWaiting
                 PROVE  /\ ident[waiting'[i].pod] = i
                        /\ 0 < waiting'[i].gen /\ waiting'[i].gen <= gens[waiting'[i].pod]
                        /\ live[waiting'[i].pod] # waiting'[i].gen
                        /\ LeftHas(waiting[i])'
      BY <1>1 DEF HeldForFiles
    <2>1. CASE w = NotWaiting \/ i # i0
      <3>1. waiting'[i] = waiting[i]
        BY <1>1, <2>1 DEF PodTypes
      <3>. QED
        BY <1>1, <1>7, <3>1 DEF HeldForFiles, LeftHas
    <2>2. CASE w # NotWaiting /\ i = i0
      <3>1. waiting'[i] = [w EXCEPT !.left = left]
        BY <1>1, <2>2 DEF PodTypes
      <3>2. waiting'[i].pod = w.pod /\ waiting'[i].gen = w.gen /\ waiting'[i].left = left
        BY <1>3, <2>2, <3>1 DEF HeldBack
      <3>3. LeftHas(waiting[i])'
        BY <1>1, <1>4, <1>7, <1>9, <1>10, <2>2, <3>2 DEF LeftHas
      <3>. QED
        BY <1>4, <2>2, <3>2, <3>3
    <2>. QED
      BY <2>1, <2>2
  <1>17. \A f \in files : /\ Logged(f)' <=> Logged(f)
                          /\ Excepted(f.pod) => Excepted(f.pod)'
    BY <1>2, <1>7 DEF Logged, Excepted
  <1>18. StoreHasLogged'
    <2> SUFFICES ASSUME watch.listed, NEW f \in files, Logged(f)
                 PROVE  watch'.store[f.pod] # 0 \/ Excepted(f.pod)'
      BY <1>1, <1>2, <1>17 DEF StoreHasLogged
    <2>1. CASE watch'.store[f.pod] = watch.store[f.pod]
      BY <1>17, <2>1 DEF StoreHasLogged
    <2>2. CASE AckGone /\ f.pod = w.pod
      <3>1. CASE watch.store[w.pod] # w.gen
        BY <1>2, <2>2, <3>1 DEF Excepted
      <3>2. CASE watch.store[w.pod] = w.gen
        <4>1. f.gen <= w.gen
          BY <1>3, <1>4, <1>5, <1>8, <2>2, <3>2 DEF StoreIsLatest, Logged
        <4>2. f.container = f0.container \/ f.container \notin w.left
          BY <1>5, <1>10, <2>2
        <4>3. f.container # f0.container => w.pod \in past.sibling
          BY <1>3, <1>4, <1>5, <1>8, <2>2, <4>1, <4>2 DEF LeftHas, Logged
        <4>. QED
          BY <1>5, <1>7, <1>9, <2>2, <4>3 DEF Excepted
      <3>. QED
        BY <3>1, <3>2
    <2>. QED
      BY <1>6, <1>8, <2>1, <2>2
  <1>19. OldHasLogged'
    BY <1>1, <1>2, <1>17 DEF OldHasLogged
  <1>20. LiveIsTold'
    <2> SUFFICES ASSUME Up, NEW p \in Pods, live[p] > 0
                 PROVE  watch'.store[p] = live[p] \/ Announced(p)' \/ p \in past'.stale
      BY <1>1, <1>7 DEF LiveIsTold
    <2>1. Announced(p) => Announced(p)'
      BY <1>1, <1>2 DEF Announced, IsApplied
    <2>2. CASE watch'.store[p] = watch.store[p]
      BY <1>7, <2>1, <2>2 DEF LiveIsTold
    <2>3. CASE AckGone /\ p = w.pod
      <3>1. CASE watch.store[p] # w.gen
        BY <1>2, <2>3, <3>1
      <3>2. CASE watch.store[p] = w.gen
        BY <1>4, <1>5, <1>7, <2>1, <2>3, <3>2 DEF LiveIsTold
      <3>. QED
        BY <3>1, <3>2
    <2>. QED
      BY <1>6, <2>2, <2>3
  <1>. QED
    BY <1>11, <1>12, <1>13, <1>14, <1>15, <1>16, <1>18, <1>19, <1>20
---------------------------------------------------------------------------
(* The runner.                                                             *)

LEMMA FailsKeeps ==
  ASSUME PodInv, WatchFails
  PROVE  (Consistent /\ Kept)'
  <1> USE DEF PodInv, Consistent, Kept
  <1>1. /\ watch' = [watch EXCEPT !.open = FALSE, !.events = <<>>]
        /\ past' = [past EXCEPT !.unseen = @ \cup {p \in Pods : live[p] = 0 /\ gens[p] > 0}]
        /\ UNCHANGED <<ident, live, gens, files, acks, runner, store, waiting>>
    BY DEF WatchFails
  <1>2. /\ watch'.open = FALSE /\ watch'.listed = watch.listed /\ watch'.events = <<>>
        /\ watch'.store = watch.store
    BY <1>1 DEF PodTypes, Watches
  <1>3. /\ past'.seen = past.seen /\ past'.sibling = past.sibling /\ past'.stale = past.stale
        /\ past'.blank = past.blank
        /\ past'.unseen = past.unseen \cup {p \in Pods : live[p] = 0 /\ gens[p] > 0}
    BY <1>1 DEF PodTypes
  <1>4. ~Up'
    BY <1>2 DEF Up
  <1>11. Generations'
    BY <1>1, <1>2, <1>3 DEF Generations
  <1>12. Phases'
    BY <1>1, <1>2, <1>3 DEF Phases
  <1>13. EventsAreNews' /\ LiveIsTold'
    BY <1>2, <1>4 DEF EventsAreNews, LiveIsTold
  <1>14. ViewWasSeen' /\ StoreIsLatest'
    BY <1>1, <1>2, <1>3 DEF ViewWasSeen, View, Seen, StoreIsLatest
  <1>15. HeldForFiles'
    BY <1>1, <1>3 DEF HeldForFiles, LeftHas
  <1>16. StoreHasLogged' /\ OldHasLogged'
    BY <1>1, <1>2, <1>3 DEF StoreHasLogged, OldHasLogged, Excepted, Logged
  <1>. QED
    BY <1>11, <1>12, <1>13, <1>14, <1>15, <1>16

LEMMA KickKeeps ==
  ASSUME PodInv, Kick
  PROVE  (Consistent /\ Kept)'
  <1> USE DEF PodInv, Consistent, Kept
  <1>1. /\ runner.phase = "creating"
        /\ runner' = [phase |-> "swapping", swapped |-> FALSE]
        /\ store' = View
        /\ watch' = [Closed EXCEPT !.open = TRUE]
        /\ past' = [past EXCEPT !.blank = runner.swapped /\ ~watch.listed]
        /\ UNCHANGED <<ident, live, gens, files, acks, waiting, count>>
    BY DEF Kick
  <1>2. /\ watch'.open /\ ~watch'.listed /\ watch'.events = <<>>
        /\ watch'.store = [p \in Pods |-> 0]
    BY <1>1 DEF Closed, NoStore
  <1>3. /\ past'.seen = past.seen /\ past'.sibling = past.sibling /\ past'.stale = past.stale
        /\ past'.unseen = past.unseen
    BY <1>1 DEF PodTypes
  <1>4. ~past'.blank => ~runner.swapped \/ watch.listed
    BY <1>1 DEF PodTypes
  <1>5. /\ runner'.phase = "swapping" /\ ~runner'.swapped
        /\ View' = View
    BY <1>1 DEF View
  <1>6. ~Up /\ ~Up'
    BY <1>1, <1>2 DEF Up, Phases
  <1>11. Generations'
    <2>1. \A p \in Pods : store'[p] <= gens[p] /\ watch'.store[p] <= gens[p]
      BY <1>1, <1>2, NatFacts DEF Generations, View
    <2>. QED
      BY <1>1, <1>3, <2>1 DEF Generations
  <1>12. Phases'
    BY <1>1, <1>2, <1>3, <1>5, <1>6 DEF Phases
  <1>13. EventsAreNews' /\ LiveIsTold' /\ StoreIsLatest' /\ StoreHasLogged'
    BY <1>2, <1>6 DEF EventsAreNews, LiveIsTold, StoreIsLatest, StoreHasLogged
  <1>14. ViewWasSeen'
    BY <1>3, <1>5 DEF ViewWasSeen, Seen
  <1>15. HeldForFiles'
    BY <1>1, <1>3 DEF HeldForFiles, LeftHas
  <1>16. OldHasLogged'
    <2> SUFFICES ASSUME ~past'.blank, NEW f \in files, Logged(f)
                 PROVE  store'[f.pod] # 0 \/ Excepted(f.pod)
      BY <1>1, <1>3 DEF OldHasLogged, Excepted, Logged
    <2>1. CASE runner.swapped
      BY <1>1, <1>4, <2>1 DEF View, StoreHasLogged
    <2>2. CASE ~runner.swapped
      BY <1>1, <2>2 DEF View, OldHasLogged, Phases
    <2>. QED
      BY <2>1, <2>2
  <1>. QED
    BY <1>11, <1>12, <1>13, <1>14, <1>15, <1>16

LEMMA SwapKeeps ==
  ASSUME PodInv, Swap
  PROVE  (Consistent /\ Kept)'
  <1> USE DEF PodInv, Consistent, Kept
  <1>1. /\ runner' = [phase |-> "running", swapped |-> TRUE]
        /\ UNCHANGED <<ident, live, gens, files, acks, watch, store, waiting, count>>
        /\ Remember
    BY DEF Swap
  <1>2. runner'.phase = "running" /\ runner'.swapped
    BY <1>1
  <1>3. /\ past'.seen = past.seen \cup Seen(View')
        /\ past'.sibling = past.sibling /\ past'.unseen = past.unseen
        /\ past'.stale = past.stale /\ past'.blank = past.blank
    BY <1>1, RememberTypes DEF PodTypes
  <1>4. /\ Seen(View') \subseteq past'.seen
        /\ \A q \in Pods, h \in Nat :
              <<q, h>> \in past'.seen =>
                 <<q, h>> \in past.seen \/ (h = watch.store[q] /\ h > 0)
    BY <1>1, <1>2, <1>3, SeenMore
  <1>5. \A f \in files : f.pod \in Pods /\ f.gen \in Nat
    BY FileFields DEF PodTypes
  <1>11. Generations'
    BY <1>1, <1>4 DEF Generations
  <1>12. Phases'
    BY <1>1, <1>2, <1>3 DEF Phases, Up
  <1>13. EventsAreNews'
    <2> SUFFICES ASSUME NEW k \in 1 .. Len(watch.events) PROVE Newer(k)'
      BY <1>1 DEF EventsAreNews
    <2>1. watch.events[k].pod \in Pods
      BY NatFacts
    <2>2. Newer(k)
      BY DEF EventsAreNews
    <2>. QED
      BY <1>1, <1>4, <2>1, <2>2 DEF Newer, IsApplied
  <1>14. ViewWasSeen'
    BY <1>4 DEF ViewWasSeen
  <1>15. StoreIsLatest'
    BY <1>1, <1>4, NatFacts DEF StoreIsLatest
  <1>16. HeldForFiles'
    BY <1>1, <1>3 DEF HeldForFiles, LeftHas
  <1>17. StoreHasLogged'
    BY <1>1, <1>3, <1>4, <1>5, NatFacts DEF StoreHasLogged, Logged, Excepted
  <1>18. OldHasLogged'
    BY <1>2 DEF OldHasLogged
  <1>19. LiveIsTold'
    BY <1>1, <1>3 DEF LiveIsTold, Announced, IsApplied, Up
  <1>. QED
    BY <1>11, <1>12, <1>13, <1>14, <1>15, <1>16, <1>17, <1>18, <1>19

LEMMA BackOffKeeps ==
  ASSUME PodInv, BackOff
  PROVE  (Consistent /\ Kept)'
  <1> USE DEF PodInv, Consistent, Kept
  <1>1. /\ runner.phase = "running" /\ ~watch.open
        /\ runner'.phase = "creating" /\ runner'.swapped = runner.swapped
        /\ UNCHANGED <<ident, live, gens, files, acks, watch, store, waiting, past>>
    BY DEF BackOff, PodTypes
  <1>11. Generations' /\ Phases'
    BY <1>1 DEF Generations, Phases, Up
  <1>12. ViewWasSeen' /\ StoreIsLatest'
    BY <1>1 DEF ViewWasSeen, View, Seen, StoreIsLatest
  <1>13. EventsAreNews' /\ LiveIsTold'
    BY <1>1 DEF EventsAreNews, Newer, IsApplied, LiveIsTold, Announced, Up
  <1>14. HeldForFiles'
    BY <1>1 DEF HeldForFiles, LeftHas
  <1>15. StoreHasLogged' /\ OldHasLogged'
    BY <1>1 DEF StoreHasLogged, OldHasLogged, Excepted, Logged
  <1>. QED
    BY <1>11, <1>12, <1>13, <1>14, <1>15
---------------------------------------------------------------------------
LEMMA PodInvInit ==
  ASSUME PodInit
  PROVE  PodInv
  <1> USE DEF PodInit, NoStore, Closed
  <1>1. PodTypes
    <2>1. <<>> \in Seq(Events) /\ <<>> \in Seq(Files)
      OBVIOUS
    <2>2. watch \in Watches
      BY <2>1 DEF Watches
    <2>3. past \in [seen : SUBSET (Pods \X Nat), sibling : SUBSET Pods, unseen : SUBSET Pods,
                   stale : SUBSET Pods, blank : BOOLEAN]
      OBVIOUS
    <2>. QED
      BY <2>1, <2>2, <2>3 DEF PodTypes
  <1>2. Consistent
    BY DEF Consistent, Generations, Phases, EventsAreNews, ViewWasSeen, View, Seen,
           StoreIsLatest, Up
  <1>3. Kept
    BY DEF Kept, HeldForFiles, StoreHasLogged, OldHasLogged, LiveIsTold, Up
  <1>. QED
    BY <1>1, <1>2, <1>3 DEF PodInv

LEMMA PodInvNext ==
  ASSUME PodInv, Cluster \/ Middleware \/ WatchFails
  PROVE  PodInv'
  <1>1. PodTypes'
    BY ClusterTypes, WatchTypes DEF PodInv
  <1>2. (Consistent /\ Kept)'
    BY CreateKeeps, DeleteKeeps, RestartKeeps, RemoveKeeps, ListKeeps, AppliedKeeps,
       DeletedKeeps, AcknowledgedKeeps, FailsKeeps, KickKeeps, SwapKeeps, BackOffKeeps
       DEF Cluster, Middleware
  <1>. QED
    BY <1>1, <1>2 DEF PodInv

\* What the properties of the runs say follows.
LEMMA PodInvImplies ==
  ASSUME PodInv
  PROVE  KeptWhileLogged /\ LivePodsKnown
  <1>1. KeptWhileLogged
    BY DEF PodInv, Kept, StoreHasLogged, OldHasLogged, KeptWhileLogged, View
  <1>2. LivePodsKnown
    <2> SUFFICES ASSUME Settled, NEW p \in Pods, live[p] > 0
                 PROVE  View[p] = live[p] \/ p \in past.stale
      BY DEF LivePodsKnown
    <2>1. View = watch.store /\ Up /\ watch.events = <<>>
      BY DEF PodInv, Consistent, Phases, Settled, View, Up
    <2>2. ~Announced(p)
      BY <2>1 DEF Announced
    <2>. QED
      BY <2>1, <2>2 DEF PodInv, Kept, LiveIsTold
  <1>. QED
    BY <1>1, <1>2
---------------------------------------------------------------------------
(* The lines.                                                              *)

\* The lines touch nothing of the metadata but the bound on the changes.
LEMMA PodInvStutter ==
  ASSUME PodInv,
         UNCHANGED <<ident, live, gens, files, acks, watch, runner, store, waiting, past>>
  PROVE  PodInv'
  <1>1. PodTypes'
    BY DEF PodInv, PodTypes
  <1>2. Generations' /\ Phases'
    BY DEF PodInv, Consistent, Generations, Phases, Up
  <1>3. EventsAreNews'
    BY DEF PodInv, Consistent, EventsAreNews, Newer, IsApplied
  <1>4. ViewWasSeen' /\ StoreIsLatest'
    BY DEF PodInv, Consistent, ViewWasSeen, View, Seen, StoreIsLatest
  <1>5. HeldForFiles'
    BY DEF PodInv, Kept, HeldForFiles, LeftHas
  <1>6. StoreHasLogged' /\ OldHasLogged'
    BY DEF PodInv, Kept, StoreHasLogged, OldHasLogged, Excepted, Logged
  <1>7. LiveIsTold'
    BY DEF PodInv, Kept, LiveIsTold, Announced, IsApplied, Up
  <1>. QED
    BY <1>1, <1>2, <1>3, <1>4, <1>5, <1>6, <1>7 DEF PodInv, Consistent, Kept

\* What the lines do to the variables of the metadata, whatever line it is.
LEMMA LinesLeaveThePods ==
  ASSUME Lines
  PROVE  UNCHANGED <<ident, live, gens, files, acks, watch, runner, store, waiting, past>>
  <1>1. ASSUME NEW f \in files, NEW t \in Texts, Read(f, t)
        PROVE  UNCHANGED <<ident, live, gens, files, acks, watch, runner, store, waiting, past>>
    BY <1>1 DEF Read
  <1>2. ASSUME NEW l \in lines, Validate(l) \/ Retry(l) \/ SendAsIs(l) \/ Process(l)
        PROVE  UNCHANGED podVars
    BY <1>2 DEF Validate, Retry, SendAsIs, Process
  <1>3. ASSUME NEW file \in {NoFile, PlainFile}, NEW t \in Texts, OtherLine(file, t)
        PROVE  UNCHANGED <<ident, live, gens, files, acks, watch, runner, store, waiting, past>>
    BY <1>3 DEF OtherLine
  <1>. QED
    BY <1>1, <1>2, <1>3 DEF Lines, podVars

(* The invariant of the metadata holds in every state.                     *)
THEOREM PodMetadataInv == Spec => []PodInv
  <1>1. Init => PodInv
    BY PodInvInit DEF Init
  <1>2. PodInv /\ [Next]_vars => PodInv'
    <2> SUFFICES ASSUME PodInv, [Next]_vars PROVE PodInv'
      OBVIOUS
    <2>1. CASE Changed \/ Metadata
      BY <2>1, PodInvNext DEF Changed, Metadata
    <2>2. CASE Lines
      BY <2>2, LinesLeaveThePods, PodInvStutter
    <2>3. CASE UNCHANGED vars
      BY <2>3, PodInvStutter DEF vars, podVars
    <2>. QED
      BY <2>1, <2>2, <2>3 DEF Next
  <1>. QED
    BY <1>1, <1>2, PTL DEF Spec

(* A pod that is logged, once known, stays known as long as one of its     *)
(* files is there: the deletion that watch_stream holds back is let go by  *)
(* the last acknowledgement of delete_stream only.                         *)
THEOREM LoggedPodsStayKnown == Spec => []KeptWhileLogged
  BY PodMetadataInv, PodInvImplies, PTL

(* When nothing is on its way the store that is read has every pod of the  *)
(* cluster in its present incarnation, however often the watch failed and  *)
(* the runner started another.                                             *)
THEOREM SettledStoreIsTrue == Spec => []LivePodsKnown
  BY PodMetadataInv, PodInvImplies, PTL
---------------------------------------------------------------------------
\* Lines come from files that the tailer knew.
LineRecords == [file : Files, text : Texts, tries : Nat, valid : BOOLEAN]
FromFiles == lines \subseteq LineRecords

\* A line that goes through the chain has passed the filter.
LEMMA SentPassed ==
  ASSUME NEW line, settings.enrichment, ~Stopped(Chain(line))
  PROVE  line.file = NoFile \/ PassedOver(settings.k8s.exclusion, line)
  <1>1. Skip = [stopped |-> "skip"] /\ Stopped(Skip)
    BY DEF Skip, Stopped
  <1>2. ~Stopped(K8sLineFilter(settings.k8s, line))
    BY DEF Chain, Then
  <1>. QED
    BY <1>1, <1>2 DEF K8sLineFilter

LEMMA ProcessIsSilent ==
  ASSUME PodInv, FromFiles, NEW l \in lines, Process(l)
  PROVE  ExcludedPodsSilent'
  <1> DEFINE f == l.file
             gen == IF settings.enrichment THEN View[f.pod] ELSE 0
             line == Enriched(LineOf(FileOf(f), l.text), f.pod, gen)
  <1>1. last' = Left(Chain(line), l.text, f, gen) /\ settings' = settings
    BY DEF Process
  <1>2. f.pod \in Pods
    BY FileFields DEF FromFiles, LineRecords
  <1>3. gen # 0 => /\ line.file = FileOf(f)
                   /\ line.labels = PodFacts[f.pod].labels[gen]
    BY DEF Enriched, LineOf
  <1>4. FileOf(f) # NoFile
    BY <1>2, PodLinesAssumption DEF FileOf
  <1>5. Stopped(Chain(line)) => last'.result # "sent"
    BY <1>1 DEF Left, Stopped, Skip, Panic
  <1>6. ~Stopped(Chain(line)) => last'.known = gen /\ last'.file = f
    BY <1>1 DEF Left
  <1>7. gen # 0 => settings.enrichment
    OBVIOUS
  <1> HIDE DEF line, gen, f
  <1>8. CASE ~Stopped(Chain(line)) /\ gen # 0
    <2>1. PassedOver(settings.k8s.exclusion, line)
      BY <1>3, <1>4, <1>7, <1>8, SentPassed
    <2>2. Unlisted(settings.k8s.exclusion.labels, PodFacts[f.pod].labels[gen])
      BY <1>3, <1>8, <2>1 DEF PassedOver
    <2>. QED
      BY <1>1, <1>6, <1>8, <2>2 DEF ExcludedPodsSilent, ExcludedBy, Unlisted
  <1>. QED
    BY <1>5, <1>6, <1>8 DEF ExcludedPodsSilent

\* What the steps do to the lines.
LEMMA FromFilesKept ==
  ASSUME PodInv, FromFiles, [Next]_vars
  PROVE  FromFiles'
  <1>1. CASE Changed \/ Metadata \/ UNCHANGED vars
    <2>1. lines' = lines
      BY <1>1 DEF Changed, Metadata, vars, lineVars
    <2>. QED
      BY <2>1 DEF FromFiles
  <1>2. ASSUME NEW f \in files, NEW t \in Texts, Read(f, t) PROVE FromFiles'
    <2>1. f \in Files
      BY DEF PodInv, PodTypes
    <2>2. lines' = lines \cup {[file |-> f, text |-> t, tries |-> 0, valid |-> FALSE]}
      BY <1>2 DEF Read
    <2>3. [file |-> f, text |-> t, tries |-> 0, valid |-> FALSE] \in LineRecords
      BY <2>1 DEF LineRecords
    <2>. QED
      BY <2>2, <2>3 DEF FromFiles
  <1>3. ASSUME NEW l \in lines, Validate(l) \/ Retry(l) PROVE FromFiles'
    <2>1. l \in LineRecords
      BY DEF FromFiles
    <2>2. [l EXCEPT !.valid = TRUE] \in LineRecords
      BY ONLY <2>1 DEF LineRecords
    <2>3. [l EXCEPT !.tries = @ + 1] \in LineRecords
      BY ONLY <2>1 DEF LineRecords
    <2>4. Validate(l) => lines' = (lines \ {l}) \cup {[l EXCEPT !.valid = TRUE]}
      BY DEF Validate
    <2>5. Retry(l) => lines' = (lines \ {l}) \cup {[l EXCEPT !.tries = @ + 1]}
      BY DEF Retry
    <2>. QED
      BY <1>3, <2>2, <2>3, <2>4, <2>5 DEF FromFiles
  <1>4. ASSUME NEW l \in lines, SendAsIs(l) \/ Process(l) PROVE FromFiles'
    <2>1. lines' = lines \ {l}
      BY <1>4 DEF SendAsIs, Process
    <2>. QED
      BY <2>1 DEF FromFiles
  <1>5. ASSUME NEW file \in {NoFile, PlainFile}, NEW t \in Texts, OtherLine(file, t)
        PROVE  FromFiles'
    <2>1. lines' = lines
      BY <1>5 DEF OtherLine
    <2>. QED
      BY <2>1 DEF FromFiles
  <1>. QED
    BY <1>1, <1>2, <1>3, <1>4, <1>5 DEF Next, Lines

LEMMA LinesComeFromFiles == Spec => []FromFiles
  <1>1. Init => FromFiles
    BY DEF Init, FromFiles
  <1>. QED
    BY <1>1, FromFilesKept, PodMetadataInv, PTL DEF Spec

(* A line of a pod whose labels an exclusion rule lists is sent through    *)
(* the rules only when its pod was not known any more or known in another  *)
(* incarnation, whatever store is read and whenever it changes.            *)
THEOREM ExcludedPodsStaySilent == Spec => []ExcludedPodsSilent
  <1>1. Init => ExcludedPodsSilent
    BY DEF Init, ExcludedPodsSilent, None
  <1>2. PodInv /\ FromFiles /\ ExcludedPodsSilent /\ [Next]_vars => ExcludedPodsSilent'
    <2> SUFFICES ASSUME PodInv, FromFiles, ExcludedPodsSilent, [Next]_vars
                 PROVE  ExcludedPodsSilent'
      OBVIOUS
    <2>1. ASSUME UNCHANGED <<settings, last>> PROVE ExcludedPodsSilent'
      BY <2>1 DEF ExcludedPodsSilent
    <2>2. CASE Changed \/ Metadata \/ UNCHANGED vars
      BY <2>1, <2>2 DEF Changed, Metadata, vars, lineVars
    <2>3. ASSUME NEW f \in files, NEW t \in Texts, Read(f, t) PROVE ExcludedPodsSilent'
      BY <2>1, <2>3 DEF Read
    <2>4. ASSUME NEW l \in lines, Validate(l) \/ Retry(l) PROVE ExcludedPodsSilent'
      <3>1. UNCHANGED <<settings, last>>
        BY <2>4, Zenon DEF Validate, Retry
      <3>. QED
        BY <2>1, <3>1
    <2>5. ASSUME NEW l \in lines, SendAsIs(l) PROVE ExcludedPodsSilent'
      BY <2>5 DEF SendAsIs, Bare, ExcludedPodsSilent
    <2>6. ASSUME NEW l \in lines, Process(l) PROVE ExcludedPodsSilent'
      BY <2>6, ProcessIsSilent
    <2>7. ASSUME NEW file \in {NoFile, PlainFile}, NEW t \in Texts, OtherLine(file, t)
          PROVE  ExcludedPodsSilent'
      <3> DEFINE r == Chain(LineOf(file, t))
      <3>1. last' = Left(r, t, file, 0)
        BY <2>7 DEF OtherLine
      <3> HIDE DEF r
      <3>2. last'.known = 0
        BY <3>1 DEF Left
      <3>. QED
        BY <3>2 DEF ExcludedPodsSilent
    <2>. QED
      BY <2>2, <2>3, <2>4, <2>5, <2>6, <2>7 DEF Next, Lines
  <1>. QED
    BY <1>1, <1>2, PodMetadataInv, LinesComeFromFiles, PTL DEF Spec
---------------------------------------------------------------------------
(* Folding a sequence, as the library defines it: a function on the sets   *)
(* of positions that have been taken.                                      *)

\* Induction over the numbers, as the existence of a smallest counterexample.
LEMMA LeastNumber ==
  ASSUME NEW T \in SUBSET Nat, T # {}
  PROVE  \E n \in T : \A m \in T : n <= m
  <1> DEFINE Less == {p \in Nat \X Nat : p[1] < p[2]}
  <1>1. IsWellFoundedOn(Less, Nat)
    BY NatLessThanWellFounded DEF OpToRel
  <1>2. \A m, n \in Nat : m < n => <<m, n>> \in Less
    OBVIOUS
  <1> HIDE DEF Less
  <1>3. PICK n \in T : \A m \in T : ~ (<<m, n>> \in Less)
    BY <1>1, WFMin
  <1>4. ASSUME NEW m \in T PROVE n <= m
    <2>1. m \in Nat /\ n \in Nat /\ ~ (m < n)
      BY <1>2, <1>3
    <2>. QED
      BY <2>1
  <1>. QED
    BY <1>4

LEMMA LastPosition ==
  ASSUME NEW n \in Nat, NEW s \in SUBSET (1 .. n), n \in s
  PROVE  Max(s) = n
  <1>1. \A x \in s : x \in Nat /\ n >= x
    OBVIOUS
  <1>2. Max(s) \in s /\ \A y \in s : Max(s) >= y
    <2>1. \E x \in s : \A y \in s : x >= y
      BY <1>1
    <2>. QED
      BY <2>1 DEF Max
  <1>3. Max(s) \in Nat /\ n >= Max(s) /\ Max(s) >= n
    BY <1>1, <1>2
  <1> HIDE DEF Max
  <1>. QED
    BY <1>3

FoldBy(g, n, first, F) ==
    \A s \in SUBSET (1 .. n) :
        g[s] = IF s = {} THEN first ELSE F[g[s \ {Max(s)}], Max(s)]
FoldExists(A, n, first, F) == \E g \in [SUBSET (1 .. n) -> A] : FoldBy(g, n, first, F)

LEMMA FoldStep ==
  ASSUME NEW A, NEW n \in Nat, NEW first \in A, NEW F, NEW k \in Nat, k > 0, k <= n,
         F \in [A \X (1 .. n) -> A], FoldExists(A, k - 1, first, F)
  PROVE  FoldExists(A, k, first, F)
  <1>1. PICK g \in [SUBSET (1 .. k - 1) -> A] : FoldBy(g, k - 1, first, F)
    BY DEF FoldExists
  <1> DEFINE h == [s \in SUBSET (1 .. k) |->
                      IF s = {} THEN first
                      ELSE IF k \in s THEN F[g[s \ {k}], k] ELSE g[s]]
  <1>2. \A s \in SUBSET (1 .. k - 1) : s \in SUBSET (1 .. k) /\ k \notin s
    OBVIOUS
  <1>3. \A s \in SUBSET (1 .. k) : /\ s \ {k} \in SUBSET (1 .. k - 1)
                                   /\ k \notin s => s \in SUBSET (1 .. k - 1)
    OBVIOUS
  <1>4. \A s \in SUBSET (1 .. k - 1) :
           g[s] = IF s = {} THEN first ELSE F[g[s \ {Max(s)}], Max(s)]
    BY <1>1 DEF FoldBy
  <1>5. \A s \in SUBSET (1 .. k - 1) : h[s] = g[s]
    BY <1>2, <1>4
  <1>6. ASSUME NEW s \in SUBSET (1 .. k), s # {}
        PROVE  h[s] = F[h[s \ {Max(s)}], Max(s)]
    <2>1. CASE k \in s
      <3>1. Max(s) = k
        BY <2>1, LastPosition
      <3>2. h[s] = F[g[s \ {k}], k]
        BY <1>6, <2>1
      <3>. QED
        BY <1>3, <1>5, <3>1, <3>2
    <2>2. CASE k \notin s
      <3>1. s \in SUBSET (1 .. k - 1) /\ s \ {Max(s)} \in SUBSET (1 .. k - 1)
        BY <1>3, <2>2
      <3> HIDE DEF h
      <3>. QED
        BY <1>4, <1>5, <1>6, <3>1
    <2>. QED
      BY <2>1, <2>2
  <1>7. ASSUME NEW s \in SUBSET (1 .. k) PROVE h[s] \in A
    <2>1. CASE k \in s
      <3>1. g[s \ {k}] \in A /\ k \in 1 .. n
        BY <1>1, <1>3
      <3>2. <<g[s \ {k}], k>> \in A \X (1 .. n)
        BY <3>1
      <3>3. F[<<g[s \ {k}], k>>] \in A
        BY <3>2
      <3>. QED
        BY <2>1, <3>3
    <2>2. CASE k \notin s
      BY <1>1, <1>3, <2>2
    <2>. QED
      BY <2>1, <2>2
  <1>8. h \in [SUBSET (1 .. k) -> A]
    BY <1>7
  <1>9. h[{}] = first
    OBVIOUS
  <1> HIDE DEF h
  <1>10. FoldBy(h, k, first, F)
    BY <1>6, <1>9 DEF FoldBy
  <1>. QED
    BY <1>8, <1>10 DEF FoldExists

LEMMA FoldsExist ==
  ASSUME NEW A, NEW n \in Nat, NEW first \in A, NEW F, F \in [A \X (1 .. n) -> A]
  PROVE  FoldExists(A, n, first, F)
  <1> DEFINE Bad == {k \in Nat : k <= n /\ ~ FoldExists(A, k, first, F)}
  <1>1. Bad = {}
    <2> SUFFICES ASSUME Bad # {} PROVE FALSE
      OBVIOUS
    <2>0. Bad \in SUBSET Nat
      OBVIOUS
    <2> HIDE DEF Bad
    <2>1. PICK k \in Bad : \A m \in Bad : k <= m
      BY <2>0, LeastNumber
    <2>2. k \in Nat /\ k <= n /\ ~ FoldExists(A, k, first, F)
      BY <2>1 DEF Bad
    <2>3. CASE k = 0
      <3> DEFINE g == [s \in SUBSET (1 .. 0) |-> first]
      <3>1. \A s \in SUBSET (1 .. 0) : s = {}
        OBVIOUS
      <3>2. g \in [SUBSET (1 .. 0) -> A] /\ FoldBy(g, 0, first, F)
        BY <3>1 DEF FoldBy
      <3>. QED
        BY <2>2, <2>3, <3>2 DEF FoldExists
    <2>4. CASE k > 0
      <3>1. k - 1 \in Nat /\ k - 1 <= n /\ ~ (k <= k - 1)
        BY <2>2, <2>4
      <3>2. FoldExists(A, k - 1, first, F)
        BY <2>1, <3>1 DEF Bad
      <3>. QED
        BY <2>2, <2>4, <3>2, FoldStep
    <2>. QED
      BY <2>2, <2>3, <2>4
  <1>2. n \notin Bad /\ n <= n
    BY <1>1
  <1>. QED
    BY <1>2
---------------------------------------------------------------------------
(* Placing a match among the ranges to redact.                             *)

Found == {m \in [start : Nat, end : Nat] : m.start <= m.end}

\* The three branches of the loop in redact(): append, merge, insert.
Appends(rs, m) ==
    /\ Place(rs, m) = Append(rs, m)
    /\ \A i \in 1 .. Len(rs) : rs[i].end < m.start
Merges(rs, m, at) ==
    /\ Place(rs, m) = ReplaceAt(rs, at, HullOf(m, rs[at]))
    /\ at \in 1 .. Len(rs) /\ Overlaps(m, rs[at])
    /\ \A i \in 1 .. at - 1 : rs[i].end < m.start
InsertsAt(rs, m, at) ==
    /\ Place(rs, m) = InsertAt(rs, at, m)
    /\ at \in 1 .. Len(rs) /\ m.end < rs[at].start
    /\ \A i \in 1 .. at - 1 : rs[i].end < m.start

LEMMA PlaceBranches ==
  ASSUME NEW rs \in Seq(Found), NEW m \in Found
  PROVE  Appends(rs, m) \/ \E at \in 1 .. Len(rs) : Merges(rs, m, at) \/ InsertsAt(rs, m, at)
  <1> DEFINE I == {i \in 1 .. Len(rs) : Overlaps(m, rs[i]) \/ m.start < rs[i].start}
             at == IF I # {} THEN Min(I) ELSE 0
  <1>1. /\ Len(rs) \in Nat /\ m.start \in Nat /\ m.end \in Nat /\ m.start <= m.end
        /\ \A i \in 1 .. Len(rs) :
              rs[i] \in Found /\ rs[i].start \in Nat /\ rs[i].end \in Nat
              /\ rs[i].start <= rs[i].end
    BY DEF Found
  <1>2. Place(rs, m) = IF at = 0 THEN Append(rs, m)
                       ELSE IF Overlaps(m, rs[at]) THEN ReplaceAt(rs, at, HullOf(m, rs[at]))
                       ELSE InsertAt(rs, at, m)
    BY DEF Place, SelectInSeq
  <1>3. \A i \in 1 .. Len(rs) : i \notin I => rs[i].end < m.start
    BY <1>1 DEF Overlaps
  <1>4. CASE I = {}
    BY <1>2, <1>3, <1>4 DEF Appends
  <1>5. CASE I # {}
    <2>1. I \in SUBSET Nat
      OBVIOUS
    <2>2. \E n \in I : \A k \in I : n <= k
      BY <1>5, <2>1, LeastNumber
    <2>3. Min(I) \in I /\ \A k \in I : Min(I) <= k
      BY <2>2 DEF Min
    <2>4. at \in I /\ at \in 1 .. Len(rs) /\ at # 0 /\ \A k \in I : at <= k
      BY <1>5, <2>3
    <2> HIDE DEF at
    <2>5. \A i \in 1 .. at - 1 : i \in 1 .. Len(rs) /\ i \notin I
      BY <1>1, <2>4
    <2>6. \A i \in 1 .. at - 1 : rs[i].end < m.start
      BY <1>3, <2>5
    <2>7. CASE Overlaps(m, rs[at])
      BY <1>2, <2>4, <2>6, <2>7 DEF Merges
    <2>8. CASE ~ Overlaps(m, rs[at])
      <3>1. m.start < rs[at].start
        BY <2>4, <2>8
      <3>2. m.end < rs[at].start
        BY <1>1, <2>4, <2>8, <3>1 DEF Overlaps
      <3>. QED
        BY <1>2, <2>4, <2>6, <2>8, <3>2 DEF InsertsAt
    <2>. QED
      BY <2>4, <2>7, <2>8
  <1>. QED
    BY <1>4, <1>5

LEMMA HullIsFound ==
  ASSUME NEW m \in Found, NEW e \in Found
  PROVE  /\ HullOf(m, e) \in Found
         /\ HullOf(m, e).start = IF m.start < e.start THEN m.start ELSE e.start
         /\ HullOf(m, e).end = IF m.end > e.end THEN m.end ELSE e.end
  BY DEF Found, HullOf

\* The list after an insertion, position by position.
LEMMA InsertedRange ==
  ASSUME NEW S, NEW s \in Seq(S), NEW e \in S, NEW k \in 1 .. Len(s) + 1
  PROVE  /\ InsertAt(s, k, e) \in Seq(S)
         /\ Len(InsertAt(s, k, e)) = Len(s) + 1
         /\ \A j \in 1 .. Len(s) + 1 :
               InsertAt(s, k, e)[j] = IF j < k THEN s[j] ELSE IF j = k THEN e ELSE s[j - 1]
  <1> DEFINE a == SubSeq(s, 1, k - 1)
             z == SubSeq(s, k, Len(s))
  <1>1. /\ Len(s) \in Nat /\ a \in Seq(S) /\ z \in Seq(S) /\ Len(a) = k - 1
        /\ Len(z) = Len(s) - k + 1
        /\ \A j \in 1 .. k - 1 : a[j] = s[j]
        /\ \A j \in 1 .. Len(s) - k + 1 : z[j] = s[k + j - 1]
    OBVIOUS
  <1>2. InsertAt(s, k, e) = (a \o <<e>>) \o z
    BY DEF InsertAt
  <1> HIDE DEF a, z
  <1>3. /\ a \o <<e>> \in Seq(S) /\ Len(a \o <<e>>) = k
        /\ \A j \in 1 .. k : (a \o <<e>>)[j] = IF j < k THEN s[j] ELSE e
    BY <1>1
  <1> DEFINE az == a \o <<e>>
  <1> HIDE DEF az
  <1>4. /\ az \o z \in Seq(S) /\ Len(az \o z) = Len(s) + 1
        /\ \A j \in 1 .. Len(s) + 1 : (az \o z)[j] = IF j <= k THEN az[j] ELSE z[j - k]
    <2>1. az \in Seq(S) /\ Len(az) = k
      BY <1>3 DEF az
    <2>2. /\ az \o z \in Seq(S) /\ Len(az \o z) = Len(az) + Len(z)
          /\ \A j \in 1 .. Len(az) + Len(z) :
                (az \o z)[j] = IF j <= Len(az) THEN az[j] ELSE z[j - Len(az)]
      BY <1>1, <2>1, ConcatProperties
    <2>3. Len(az) + Len(z) = Len(s) + 1
      BY <1>1, <2>1
    <2>. QED
      BY <2>1, <2>2, <2>3
  <1>5. ASSUME NEW j \in 1 .. Len(s) + 1
        PROVE  (az \o z)[j] = IF j < k THEN s[j] ELSE IF j = k THEN e ELSE s[j - 1]
    <2>1. CASE j <= k
      BY <1>3, <1>4, <2>1 DEF az
    <2>2. CASE j > k
      <3>1. j - k \in 1 .. Len(s) - k + 1 /\ k + (j - k) - 1 = j - 1
        BY <1>1, <2>2
      <3>. QED
        BY <1>1, <1>4, <2>2, <3>1
    <2>3. j <= k \/ j > k
      BY <1>1
    <2>. QED
      BY <2>1, <2>2, <2>3
  <1>. QED
    BY <1>2, <1>4, <1>5 DEF az

---------------------------------------------------------------------------
(* What the ranges are of the matches P that were placed: the same bytes,  *)
(* each range made of matches that lie close, and, as long as no match     *)
(* bridged two others, apart and in order.                                 *)

InBytes(r, b) == r.start <= b /\ b < r.end
SameBytes(rs, P) ==
    \A b \in Nat : (\E i \in 1 .. Len(rs) : InBytes(rs[i], b)) <=> \E a \in P : InBytes(a, b)
MadeOf(r, P) ==
    \A x \in r.start .. r.end :
        \E a \in P : a.start <= x /\ x <= a.end /\ r.start <= a.start /\ a.end <= r.end
Clusters(rs, P) == \A i \in 1 .. Len(rs) : MadeOf(rs[i], P)
OrderKept(rs) == \A i, j \in 1 .. Len(rs) : i < j => rs[i].end < rs[j].start
Bridges(P, c) == \E a, b \in P : Apart(a, b) /\ Overlaps(c, a) /\ Overlaps(c, b)

\* One list that stands for the other and the match.
Holds(t, rs, m) ==
    /\ t \in Seq(Found)
    /\ \A P \in SUBSET Found : SameBytes(rs, P) => SameBytes(t, P \cup {m})
    /\ \A P \in SUBSET Found : Clusters(rs, P) => Clusters(t, P \cup {m})
    /\ \A P \in SUBSET Found :
          Clusters(rs, P) /\ OrderKept(rs) /\ ~ Bridges(P, m) => OrderKept(t)

LEMMA MadeOfMore ==
  ASSUME NEW r, NEW P, NEW Q, P \subseteq Q, MadeOf(r, P)
  PROVE  MadeOf(r, Q)
  BY DEF MadeOf

LEMMA MadeOfItself ==
  ASSUME NEW m \in Found, NEW P, m \in P
  PROVE  MadeOf(m, P)
  BY DEF MadeOf, Found

LEMMA FoundTypes ==
  ASSUME NEW rs \in Seq(Found)
  PROVE  /\ Len(rs) \in Nat /\ DOMAIN rs = 1 .. Len(rs)
         /\ \A i \in 1 .. Len(rs) :
               rs[i] \in Found /\ rs[i].start \in Nat /\ rs[i].end \in Nat
               /\ rs[i].start <= rs[i].end
  BY DEF Found

LEMMA AppendHolds ==
  ASSUME NEW rs \in Seq(Found), NEW m \in Found,
         \A i \in 1 .. Len(rs) : rs[i].end < m.start
  PROVE  Holds(Append(rs, m), rs, m)
  <1> DEFINE t == Append(rs, m)
             n == Len(rs)
  <1>1. /\ n \in Nat /\ t \in Seq(Found) /\ Len(t) = n + 1 /\ t[n + 1] = m
        /\ \A i \in 1 .. n : t[i] = rs[i]
    OBVIOUS
  <1> HIDE DEF t
  <1>2. \A i \in 1 .. Len(t) : i = n + 1 \/ i \in 1 .. n
    BY <1>1
  <1>3. n + 1 \in 1 .. Len(t) /\ \A i \in 1 .. n : i \in 1 .. Len(t)
    BY <1>1
  <1>4. ASSUME NEW P \in SUBSET Found, SameBytes(rs, P) PROVE SameBytes(t, P \cup {m})
    <2> SUFFICES ASSUME NEW b \in Nat
                 PROVE  (\E i \in 1 .. Len(t) : InBytes(t[i], b))
                            <=> \E a \in P \cup {m} : InBytes(a, b)
      BY DEF SameBytes
    <2>1. (\E i \in 1 .. n : InBytes(rs[i], b)) <=> \E a \in P : InBytes(a, b)
      BY <1>4 DEF SameBytes
    <2>2. (\E i \in 1 .. Len(t) : InBytes(t[i], b))
              <=> (InBytes(m, b) \/ \E i \in 1 .. n : InBytes(rs[i], b))
      BY <1>1, <1>2, <1>3
    <2>. QED
      BY <2>1, <2>2
  <1>5. ASSUME NEW P \in SUBSET Found, Clusters(rs, P) PROVE Clusters(t, P \cup {m})
    <2> SUFFICES ASSUME NEW i \in 1 .. Len(t) PROVE MadeOf(t[i], P \cup {m})
      BY DEF Clusters
    <2>1. CASE i = n + 1
      BY <1>1, <2>1, MadeOfItself
    <2>2. CASE i \in 1 .. n
      <3>1. MadeOf(rs[i], P)
        BY <1>5, <2>2 DEF Clusters
      <3>. QED
        BY <1>1, <2>2, <3>1, MadeOfMore
    <2>. QED
      BY <1>2, <2>1, <2>2
  <1>6. ASSUME OrderKept(rs) PROVE OrderKept(t)
    <2> SUFFICES ASSUME NEW i \in 1 .. Len(t), NEW j \in 1 .. Len(t), i < j
                 PROVE  t[i].end < t[j].start
      BY DEF OrderKept
    <2>1. i \in 1 .. n
      BY <1>1
    <2>2. CASE j = n + 1
      BY <1>1, <2>1, <2>2
    <2>3. CASE j \in 1 .. n
      BY <1>1, <1>6, <2>1, <2>3 DEF OrderKept
    <2>. QED
      BY <1>2, <2>2, <2>3
  <1> HIDE DEF n
  <1>7. Holds(t, rs, m)
    BY <1>1, <1>4, <1>5, <1>6 DEF Holds
  <1>. QED
    BY <1>7 DEF t

LEMMA InsertHolds ==
  ASSUME NEW rs \in Seq(Found), NEW m \in Found, NEW at \in 1 .. Len(rs),
         m.end < rs[at].start, \A i \in 1 .. at - 1 : rs[i].end < m.start
  PROVE  Holds(InsertAt(rs, at, m), rs, m)
  <1> DEFINE t == InsertAt(rs, at, m)
             n == Len(rs)
  <1>0. at \in 1 .. Len(rs) + 1
    OBVIOUS
  <1>1. /\ n \in Nat /\ t \in Seq(Found) /\ Len(t) = n + 1
        /\ \A j \in 1 .. n + 1 : t[j] = IF j < at THEN rs[j] ELSE IF j = at THEN m ELSE rs[j - 1]
    BY <1>0, InsertedRange
  <1> HIDE DEF t
  <1>2. /\ \A i \in 1 .. n : rs[i].start \in Nat /\ rs[i].end \in Nat /\ rs[i].start <= rs[i].end
        /\ m.start \in Nat /\ m.end \in Nat /\ m.start <= m.end
    BY FoundTypes DEF Found
  <1> HIDE DEF n
  <1>3. at \in 1 .. n + 1 /\ at \in 1 .. n /\ t[at] = m
    BY <1>0, <1>1 DEF n
  <1>4. ASSUME NEW j \in 1 .. n + 1
        PROVE  j = at \/ \E i \in 1 .. n : t[j] = rs[i]
    <2>1. j < at => j \in 1 .. n
      BY <1>1, <1>3
    <2>2. j > at => j - 1 \in 1 .. n
      BY <1>1, <1>3
    <2>3. j < at \/ j = at \/ j > at
      BY <1>3
    <2>4. j > at => t[j] = rs[j - 1]
      BY <1>1, <1>3
    <2>5. j < at => t[j] = rs[j]
      BY <1>1
    <2>. QED
      BY <2>1, <2>2, <2>3, <2>4, <2>5
  <1>5. ASSUME NEW i \in 1 .. n
        PROVE  \E j \in 1 .. n + 1 : t[j] = rs[i]
    <2>1. CASE i < at
      <3>1. i \in 1 .. n + 1
        BY <1>1
      <3>. QED
        BY <1>1, <2>1, <3>1
    <2>2. CASE i >= at
      <3>1. i + 1 \in 1 .. n + 1 /\ ~ (i + 1 < at) /\ i + 1 # at /\ (i + 1) - 1 = i
        BY <1>1, <1>3, <2>2
      <3>. QED
        BY <1>1, <3>1
    <2>. QED
      BY <1>3, <2>1, <2>2
  <1>6. ASSUME NEW P \in SUBSET Found, SameBytes(rs, P) PROVE SameBytes(t, P \cup {m})
    <2> SUFFICES ASSUME NEW b \in Nat
                 PROVE  (\E j \in 1 .. Len(t) : InBytes(t[j], b))
                            <=> \E a \in P \cup {m} : InBytes(a, b)
      BY DEF SameBytes
    <2>1. (\E i \in 1 .. n : InBytes(rs[i], b)) <=> \E a \in P : InBytes(a, b)
      BY <1>6 DEF SameBytes, n
    <2>2. (\E j \in 1 .. n + 1 : InBytes(t[j], b))
              <=> (InBytes(m, b) \/ \E i \in 1 .. n : InBytes(rs[i], b))
      BY <1>3, <1>4, <1>5
    <2>. QED
      BY <1>1, <2>1, <2>2
  <1>7. ASSUME NEW P \in SUBSET Found, Clusters(rs, P) PROVE Clusters(t, P \cup {m})
    <2> SUFFICES ASSUME NEW j \in 1 .. n + 1 PROVE MadeOf(t[j], P \cup {m})
      BY <1>1 DEF Clusters
    <2>1. CASE j = at
      BY <1>3, <2>1, MadeOfItself
    <2>2. ASSUME NEW i \in 1 .. n, t[j] = rs[i] PROVE MadeOf(t[j], P \cup {m})
      <3>1. MadeOf(rs[i], P)
        BY <1>7, <2>2 DEF Clusters, n
      <3>. QED
        BY <2>2, <3>1, MadeOfMore
    <2>. QED
      BY <1>4, <2>1, <2>2
  <1>8. ASSUME OrderKept(rs) PROVE OrderKept(t)
    <2> SUFFICES ASSUME NEW i \in 1 .. n + 1, NEW j \in 1 .. n + 1, i < j
                 PROVE  t[i].end < t[j].start
      BY <1>1 DEF OrderKept
    <2>0. \A a, b \in 1 .. n : a < b => rs[a].end < rs[b].start
      BY <1>8 DEF OrderKept, n
    <2>1. CASE j < at
      <3>1. i \in 1 .. n /\ j \in 1 .. n /\ i < at
        BY <1>1, <1>3, <2>1
      <3>. QED
        BY <1>1, <2>0, <2>1, <3>1
    <2>2. CASE j = at
      <3>1. i \in 1 .. at - 1
        BY <1>3, <2>2
      <3>. QED
        BY <1>1, <1>3, <2>2, <3>1
    <2>3. CASE j > at /\ i = at
      <3>1. j - 1 \in 1 .. n /\ (j - 1 = at \/ at < j - 1)
        BY <1>1, <1>3, <2>3
      <3>2. t[j] = rs[j - 1] /\ t[i] = m
        BY <1>1, <1>3, <2>3
      <3>3. m.end < rs[j - 1].start
        <4>1. CASE j - 1 = at
          BY <4>1
        <4>2. CASE at < j - 1
          <5>1. rs[at].end < rs[j - 1].start
            BY <1>3, <2>0, <3>1, <4>2
          <5>. QED
            BY <1>2, <1>3, <3>1, <5>1
        <4>. QED
          BY <3>1, <4>1, <4>2
      <3>. QED
        BY <3>2, <3>3
    <2>4. CASE j > at /\ i < at
      <3>1. i \in 1 .. n /\ j - 1 \in 1 .. n /\ i < j - 1
        BY <1>1, <1>3, <2>4
      <3>2. t[j] = rs[j - 1] /\ t[i] = rs[i]
        BY <1>1, <1>3, <2>4
      <3>. QED
        BY <2>0, <3>1, <3>2
    <2>5. CASE j > at /\ i > at
      <3>1. i - 1 \in 1 .. n /\ j - 1 \in 1 .. n /\ i - 1 < j - 1
        BY <1>1, <1>3, <2>5
      <3>2. t[j] = rs[j - 1] /\ t[i] = rs[i - 1]
        BY <1>1, <1>3, <2>5
      <3>. QED
        BY <2>0, <3>1, <3>2
    <2>6. j < at \/ j = at \/ (j > at /\ (i = at \/ i < at \/ i > at))
      BY <1>3
    <2>. QED
      BY <2>1, <2>2, <2>3, <2>4, <2>5, <2>6
  <1>9. Holds(t, rs, m)
    BY <1>1, <1>6, <1>7, <1>8 DEF Holds
  <1>. QED
    BY <1>9 DEF t
---------------------------------------------------------------------------
\* A match that touches a range touches a match the range is made of.
LEMMA TouchesMember ==
  ASSUME NEW P \in SUBSET Found, NEW r \in Found, NEW m \in Found, MadeOf(r, P), Overlaps(m, r)
  PROVE  \E a \in P : Overlaps(m, a) /\ r.start <= a.start /\ a.end <= r.end
  <1>1. /\ r.start \in Nat /\ r.end \in Nat /\ r.start <= r.end
        /\ m.start \in Nat /\ m.end \in Nat /\ m.start <= m.end
    BY DEF Found
  <1>2. CASE m.start >= r.start /\ m.start <= r.end
    <2>1. m.start \in r.start .. r.end
      BY <1>1, <1>2
    <2>2. PICK a \in P : a.start <= m.start /\ m.start <= a.end /\ r.start <= a.start /\ a.end <= r.end
      BY <2>1 DEF MadeOf
    <2>3. a.start \in Nat /\ a.end \in Nat
      BY DEF Found
    <2>4. Overlaps(m, a)
      BY <1>1, <2>2, <2>3 DEF Overlaps
    <2>. QED
      BY <2>2, <2>4
  <1>3. CASE m.start <= r.start /\ m.end >= r.start
    <2>1. r.start \in r.start .. r.end
      BY <1>1
    <2>2. PICK a \in P : a.start <= r.start /\ r.start <= a.end /\ r.start <= a.start /\ a.end <= r.end
      BY <2>1 DEF MadeOf
    <2>3. a.start \in Nat /\ a.end \in Nat
      BY DEF Found
    <2>4. Overlaps(m, a)
      BY <1>1, <1>3, <2>2, <2>3 DEF Overlaps
    <2>. QED
      BY <2>2, <2>4
  <1>. QED
    BY <1>2, <1>3 DEF Overlaps

LEMMA MergeHolds ==
  ASSUME NEW rs \in Seq(Found), NEW m \in Found, NEW at \in 1 .. Len(rs),
         Overlaps(m, rs[at]), \A i \in 1 .. at - 1 : rs[i].end < m.start
  PROVE  Holds(ReplaceAt(rs, at, HullOf(m, rs[at])), rs, m)
  <1> DEFINE e == rs[at]
             h == HullOf(m, e)
             t == ReplaceAt(rs, at, h)
             n == Len(rs)
  <1>0. /\ n \in Nat /\ e \in Found
        /\ \A i \in 1 .. n : rs[i] \in Found /\ rs[i].start \in Nat /\ rs[i].end \in Nat
                             /\ rs[i].start <= rs[i].end
        /\ m.start \in Nat /\ m.end \in Nat /\ m.start <= m.end
    BY FoundTypes DEF Found
  <1>1. /\ h \in Found
        /\ h.start = IF m.start < e.start THEN m.start ELSE e.start
        /\ h.end = IF m.end > e.end THEN m.end ELSE e.end
    BY <1>0, HullIsFound
  <1> HIDE DEF h
  <1>2. t \in Seq(Found) /\ Len(t) = n /\ \A i \in 1 .. n : t[i] = IF i = at THEN h ELSE rs[i]
    BY <1>1 DEF ReplaceAt
  <1> HIDE DEF t, n
  <1>3. at \in 1 .. n /\ t[at] = h /\ e.start \in Nat /\ e.end \in Nat /\ e.start <= e.end
    BY <1>0, <1>2 DEF n
  <1>4. Overlaps(m, e)
    OBVIOUS
  <1> HIDE DEF e
  <1>5. \A b \in Nat : InBytes(h, b) <=> (InBytes(m, b) \/ InBytes(e, b))
    BY <1>0, <1>1, <1>3, <1>4 DEF InBytes, Overlaps
  <1>6. ASSUME NEW P \in SUBSET Found, SameBytes(rs, P) PROVE SameBytes(t, P \cup {m})
    <2> SUFFICES ASSUME NEW b \in Nat
                 PROVE  (\E j \in 1 .. Len(t) : InBytes(t[j], b))
                            <=> \E a \in P \cup {m} : InBytes(a, b)
      BY DEF SameBytes
    <2>1. (\E i \in 1 .. n : InBytes(rs[i], b)) <=> \E a \in P : InBytes(a, b)
      BY <1>6 DEF SameBytes, n
    <2>2. (\E j \in 1 .. n : InBytes(t[j], b))
              <=> (InBytes(m, b) \/ \E i \in 1 .. n : InBytes(rs[i], b))
      BY <1>2, <1>3, <1>5 DEF e
    <2>. QED
      BY <1>2, <2>1, <2>2
  <1>7. ASSUME NEW P \in SUBSET Found, Clusters(rs, P) PROVE Clusters(t, P \cup {m})
    <2> SUFFICES ASSUME NEW j \in 1 .. n PROVE MadeOf(t[j], P \cup {m})
      BY <1>2 DEF Clusters
    <2>1. MadeOf(rs[j], P) /\ MadeOf(e, P)
      BY <1>3, <1>7 DEF Clusters, n, e
    <2>2. CASE j = at
      <3> SUFFICES ASSUME NEW x \in h.start .. h.end
                   PROVE  \E a \in P \cup {m} : a.start <= x /\ x <= a.end /\ h.start <= a.start
                                                /\ a.end <= h.end
        BY <1>3, <2>2 DEF MadeOf
      <3>1. CASE m.start <= x /\ x <= m.end
        BY <1>0, <1>1, <1>3, <3>1
      <3>2. CASE e.start <= x /\ x <= e.end
        <4>1. x \in e.start .. e.end
          BY <1>1, <1>3, <3>2 DEF Found
        <4>2. PICK a \in P : a.start <= x /\ x <= a.end /\ e.start <= a.start /\ a.end <= e.end
          BY <2>1, <4>1 DEF MadeOf
        <4>3. a.start \in Nat /\ a.end \in Nat
          BY DEF Found
        <4>4. h.start <= a.start /\ a.end <= h.end
          BY <1>0, <1>1, <1>3, <4>2, <4>3
        <4>. QED
          BY <4>2, <4>4
      <3>3. h.start \in Nat /\ h.end \in Nat
        BY <1>1 DEF Found
      <3>4. x \in Int /\ h.start <= x /\ x <= h.end
        BY <3>3
      <3>. QED
        BY <1>0, <1>1, <1>3, <1>4, <3>1, <3>2, <3>4 DEF Overlaps
    <2>3. CASE j # at
      BY <1>2, <2>1, <2>3, MadeOfMore
    <2>. QED
      BY <2>2, <2>3
  <1>8. ASSUME NEW P \in SUBSET Found, Clusters(rs, P), OrderKept(rs), ~ Bridges(P, m)
        PROVE  OrderKept(t)
    <2>0. \A a, b \in 1 .. n : a < b => rs[a].end < rs[b].start
      BY <1>8 DEF OrderKept, n
    <2>1. ASSUME NEW j \in 1 .. n, j > at PROVE h.end < rs[j].start
      <3>1. e.end < rs[j].start
        BY <1>3, <2>0, <2>1 DEF e
      <3>2. CASE m.end >= rs[j].start
        <4>1. Overlaps(m, rs[j])
          BY <1>0, <1>3, <1>4, <3>1, <3>2 DEF Overlaps
        <4>2. rs[j] \in Found /\ MadeOf(rs[j], P) /\ e \in Found /\ MadeOf(e, P)
          BY <1>0, <1>3, <1>8 DEF Clusters, n, e
        <4>3. PICK a \in P : Overlaps(m, a) /\ e.start <= a.start /\ a.end <= e.end
          BY <1>4, <4>2, TouchesMember
        <4>4. PICK b \in P : Overlaps(m, b) /\ rs[j].start <= b.start /\ b.end <= rs[j].end
          BY <4>1, <4>2, TouchesMember
        <4>5. a.end \in Nat /\ b.start \in Nat /\ rs[j].start \in Nat
          BY <1>0 DEF Found
        <4>6. a.end < b.start
          BY <1>3, <3>1, <4>3, <4>4, <4>5
        <4>7. Bridges(P, m)
          BY <4>3, <4>4, <4>6 DEF Bridges, Apart
        <4>. QED
          BY <1>8, <4>7
      <3>3. CASE m.end < rs[j].start
        BY <1>1, <3>1, <3>3
      <3>4. m.end \in Nat /\ rs[j].start \in Nat
        BY <1>0
      <3>. QED
        BY <3>2, <3>3, <3>4
    <2>2. ASSUME NEW i \in 1 .. n, i < at PROVE rs[i].end < h.start
      <3>1. rs[i].end < e.start
        BY <1>3, <2>0, <2>2 DEF e
      <3>2. rs[i].end < m.start
        BY <1>3, <2>2
      <3>. QED
        BY <1>1, <3>1, <3>2
    <2> SUFFICES ASSUME NEW i \in 1 .. n, NEW j \in 1 .. n, i < j
                 PROVE  t[i].end < t[j].start
      BY <1>2 DEF OrderKept
    <2>3. CASE i = at
      <3>1. j > at /\ t[i] = h /\ t[j] = rs[j]
        BY <1>2, <1>3, <2>3
      <3>. QED
        BY <2>1, <3>1
    <2>4. CASE j = at
      <3>1. i < at /\ t[j] = h /\ t[i] = rs[i]
        BY <1>2, <1>3, <2>4
      <3>. QED
        BY <2>2, <3>1
    <2>5. CASE i # at /\ j # at
      BY <1>2, <2>0, <2>5
    <2>. QED
      BY <2>3, <2>4, <2>5
  <1>9. Holds(t, rs, m)
    BY <1>2, <1>6, <1>7, <1>8 DEF Holds
  <1>. QED
    BY <1>9 DEF t, h, e

LEMMA PlaceHolds ==
  ASSUME NEW rs \in Seq(Found), NEW m \in Found
  PROVE  Holds(Place(rs, m), rs, m)
  <1>1. CASE Appends(rs, m)
    BY <1>1, AppendHolds DEF Appends
  <1>2. ASSUME NEW at \in 1 .. Len(rs), Merges(rs, m, at) PROVE Holds(Place(rs, m), rs, m)
    BY <1>2, MergeHolds DEF Merges
  <1>3. ASSUME NEW at \in 1 .. Len(rs), InsertsAt(rs, m, at) PROVE Holds(Place(rs, m), rs, m)
    BY <1>3, InsertHolds DEF InsertsAt
  <1>. QED
    BY <1>1, <1>2, <1>3, PlaceBranches
---------------------------------------------------------------------------
(* The matches of one pattern, and of all patterns, one after the other.   *)

LEMMA LastIsIn ==
  ASSUME NEW n \in Nat, NEW s \in SUBSET (1 .. n), s # {}
  PROVE  Max(s) \in s /\ Max(s) \in 1 .. n /\ s \ {Max(s)} \in SUBSET (1 .. n)
  <1> DEFINE U == {u \in Nat : \A x \in s : u >= x}
  <1>1. n \in U
    OBVIOUS
  <1>2. PICK u \in U : \A y \in U : u <= y
    BY <1>1, LeastNumber
  <1>3. u \in s
    <2>1. CASE u \notin s
      <3>1. PICK x \in s : TRUE
        OBVIOUS
      <3>2. u > x /\ x \in Nat /\ u \in Nat
        BY <1>2, <2>1
      <3>3. u - 1 \in Nat /\ \A y \in s : u - 1 >= y
        BY <1>2, <2>1, <3>2
      <3>4. u - 1 \in U /\ ~ (u <= u - 1)
        BY <3>2, <3>3
      <3>. QED
        BY <1>2, <3>4
    <2>. QED
      BY <2>1
  <1>4. \E x \in s : \A y \in s : x >= y
    BY <1>2, <1>3
  <1>. QED
    BY <1>4 DEF Max

\* The ranges after each match of a pattern.
PlaceWay(v, rs, ms, n) ==
    /\ v[0] = rs
    /\ \A k \in 1 .. n : v[k] = Place(v[k - 1], ms[k])
    /\ v[n] = FoldLeft(Place, rs, ms)

LEMMA PlaceWays ==
  ASSUME NEW rs \in Seq(Found), NEW ms \in Seq(Found)
  PROVE  \E v : PlaceWay(v, rs, ms, Len(ms))
  <1> DEFINE n == Len(ms)
             A == Seq(Found)
             F == [x \in A \X (1 .. n) |-> Place(x[1], ms[x[2]])]
             Fold(g) == g = [s \in SUBSET (1 .. n) |->
                                IF s = {} THEN rs ELSE Place(g[s \ {Max(s)}], ms[Max(s)])]
             w == CHOOSE g : Fold(g)
             v == [k \in 0 .. n |-> w[1 .. k]]
  <1>1. n \in Nat /\ DOMAIN ms = 1 .. n /\ \A k \in 1 .. n : ms[k] \in Found
    OBVIOUS
  <1>2. F \in [A \X (1 .. n) -> A]
    BY <1>1, PlaceHolds DEF Holds
  <1>3. FoldLeft(Place, rs, ms) = w[1 .. n]
    BY <1>1 DEF FoldLeft, MapThenFoldSet
  <1>4. \A a \in A, k \in 1 .. n : F[a, k] = Place(a, ms[k])
    OBVIOUS
  <1> HIDE DEF n, A, F, w
  <1>5. PICK g \in [SUBSET (1 .. n) -> A] : FoldBy(g, n, rs, F)
    BY <1>1, <1>2, FoldsExist DEF FoldExists, A
  <1>6. \A s \in SUBSET (1 .. n) : s # {} => /\ s \ {Max(s)} \in SUBSET (1 .. n) /\ Max(s) \in 1 .. n
    BY <1>1, LastIsIn
  <1>7. Fold(g)
    <2>1. \A s \in SUBSET (1 .. n) :
             g[s] = IF s = {} THEN rs ELSE Place(g[s \ {Max(s)}], ms[Max(s)])
      BY <1>4, <1>5, <1>6 DEF FoldBy
    <2>2. g = [s \in SUBSET (1 .. n) |-> g[s]]
      BY <1>5
    <2>. QED
      BY <2>1, <2>2
  <1>8. Fold(w)
    BY <1>7 DEF w
  <1>9. \A s \in SUBSET (1 .. n) : w[s] = IF s = {} THEN rs ELSE Place(w[s \ {Max(s)}], ms[Max(s)])
    BY <1>8
  <1>10. v[0] = rs
    <2>1. 1 .. 0 = {} /\ 0 \in 0 .. n
      BY <1>1
    <2>. QED
      BY <1>9, <2>1
  <1>11. ASSUME NEW k \in 1 .. n PROVE v[k] = Place(v[k - 1], ms[k])
    <2>1. 1 .. k \in SUBSET (1 .. n) /\ k \in 1 .. k /\ k \in Nat /\ k \in 0 .. n /\ k - 1 \in 0 .. n
      BY <1>1
    <2>2. (1 .. k) \ {k} = 1 .. k - 1
      BY <1>1
    <2>3. Max(1 .. k) = k
      BY <2>1, LastPosition
    <2>4. w[1 .. k] = Place(w[1 .. k - 1], ms[k])
      BY <1>9, <2>1, <2>2, <2>3
    <2>. QED
      BY <2>1, <2>4
  <1>12. v[n] = FoldLeft(Place, rs, ms)
    BY <1>1, <1>3
  <1> HIDE DEF v
  <1>13. PlaceWay(v, rs, ms, n)
    BY <1>10, <1>11, <1>12 DEF PlaceWay
  <1>. QED
    BY <1>13 DEF n
---------------------------------------------------------------------------
FoundBy(ms, k) == {ms[i] : i \in 1 .. k}
Stands(rs, P, fine) ==
    /\ rs \in Seq(Found) /\ SameBytes(rs, P) /\ Clusters(rs, P)
    /\ fine => OrderKept(rs)

LEMMA PatternKeeps ==
  ASSUME NEW P \in SUBSET Found, NEW fine \in BOOLEAN, NEW rs, Stands(rs, P, fine),
         NEW ms \in Seq(Found),
         fine => \A k \in 1 .. Len(ms) : ~ Bridges(P \cup FoundBy(ms, k - 1), ms[k])
  PROVE  Stands(FoldLeft(Place, rs, ms), P \cup FoundBy(ms, Len(ms)), fine)
  <1> DEFINE n == Len(ms)
             To(k) == P \cup FoundBy(ms, k)
  <1>1. n \in Nat /\ \A k \in 1 .. n : ms[k] \in Found
    OBVIOUS
  <1>2. \A k \in Nat : k <= n => To(k) \in SUBSET Found
    BY <1>1 DEF FoundBy
  <1>3. PICK v : PlaceWay(v, rs, ms, n)
    BY PlaceWays DEF Stands
  <1>4. v[0] = rs /\ (\A k \in 1 .. n : v[k] = Place(v[k - 1], ms[k])) /\ v[n] = FoldLeft(Place, rs, ms)
    BY <1>3 DEF PlaceWay
  <1>5. To(0) = P
    BY DEF FoundBy
  <1>6. \A k \in 1 .. n : To(k) = To(k - 1) \cup {ms[k]}
    <2> SUFFICES ASSUME NEW k \in 1 .. n PROVE FoundBy(ms, k) = FoundBy(ms, k - 1) \cup {ms[k]}
      OBVIOUS
    <2>1. \A i : i \in 1 .. k <=> i \in 1 .. k - 1 \/ i = k
      BY <1>1
    <2>. QED
      BY <2>1 DEF FoundBy
  <1>7. fine => \A k \in 1 .. n : ~ Bridges(To(k - 1), ms[k])
    OBVIOUS
  <1> HIDE DEF n, To
  <1> DEFINE Bad == {k \in Nat : k <= n /\ ~ Stands(v[k], To(k), fine)}
  <1>8. Bad = {}
    <2> SUFFICES ASSUME Bad # {} PROVE FALSE
      OBVIOUS
    <2>0. Bad \in SUBSET Nat
      OBVIOUS
    <2> HIDE DEF Bad
    <2>1. PICK k \in Bad : \A m \in Bad : k <= m
      BY <2>0, LeastNumber
    <2>2. k \in Nat /\ k <= n /\ ~ Stands(v[k], To(k), fine)
      BY <2>1 DEF Bad
    <2>3. CASE k = 0
      BY <1>4, <1>5, <2>2, <2>3
    <2>4. CASE k > 0
      <3>1. k - 1 \in Nat /\ k - 1 <= n /\ ~ (k <= k - 1) /\ k \in 1 .. n
        BY <1>1, <2>2, <2>4
      <3>2. Stands(v[k - 1], To(k - 1), fine)
        BY <2>1, <3>1 DEF Bad
      <3>3. v[k - 1] \in Seq(Found) /\ ms[k] \in Found /\ To(k - 1) \in SUBSET Found
        BY <1>1, <1>2, <3>1, <3>2 DEF Stands
      <3>4. Holds(v[k], v[k - 1], ms[k])
        BY <1>4, <3>1, <3>3, PlaceHolds
      <3>5. Stands(v[k], To(k - 1) \cup {ms[k]}, fine)
        BY <1>7, <3>1, <3>2, <3>3, <3>4 DEF Stands, Holds
      <3>. QED
        BY <1>6, <2>2, <3>1, <3>5
    <2>. QED
      BY <2>2, <2>3, <2>4
  <1>9. n <= n /\ n \notin Bad
    BY <1>1, <1>8
  <1>10. Stands(v[n], To(n), fine)
    BY <1>1, <1>9
  <1>. QED
    BY <1>4, <1>10 DEF To, n

LEMMA PatternTyped ==
  ASSUME NEW rs \in Seq(Found), NEW ms \in Seq(Found)
  PROVE  FoldLeft(Place, rs, ms) \in Seq(Found)
  <1> DEFINE P == {rs[i] : i \in 1 .. Len(rs)}
  <1>1. P \in SUBSET Found
    BY FoundTypes
  <1>2. SameBytes(rs, P)
    BY DEF SameBytes
  <1>3. Clusters(rs, P)
    BY FoundTypes, MadeOfItself DEF Clusters
  <1> HIDE DEF P
  <1>4. Stands(rs, P, FALSE)
    BY <1>2, <1>3 DEF Stands
  <1>5. Stands(FoldLeft(Place, rs, ms), P \cup FoundBy(ms, Len(ms)), FALSE)
    BY <1>1, <1>4, PatternKeeps
  <1>. QED
    BY <1>5 DEF Stands

\* The ranges after each pattern.
PatternWay(v, text, patterns, n) ==
    /\ v[0] = <<>>
    /\ \A k \in 1 .. n : v[k] = FoldLeft(Place, v[k - 1], text.matches[patterns[k]])
    /\ v[n] = RangesOf(text, patterns)

LEMMA PatternWays ==
  ASSUME NEW text, NEW patterns, NEW n \in Nat, DOMAIN patterns = 1 .. n,
         \A k \in 1 .. n : text.matches[patterns[k]] \in Seq(Found)
  PROVE  \E v : PatternWay(v, text, patterns, n)
  <1> DEFINE A == Seq(Found)
             Step(a, k) == FoldLeft(Place, a, text.matches[patterns[k]])
             F == [x \in A \X (1 .. n) |-> Step(x[1], x[2])]
             Fold(g) == g = [s \in SUBSET (1 .. n) |->
                                IF s = {} THEN <<>> ELSE Step(g[s \ {Max(s)}], Max(s))]
             w == CHOOSE g : Fold(g)
             v == [k \in 0 .. n |-> w[1 .. k]]
  <1>1. <<>> \in A
    OBVIOUS
  <1>3. RangesOf(text, patterns) = w[1 .. n]
    BY DEF RangesOf, FoldLeft, MapThenFoldSet
  <1>2. \A a \in A, k \in 1 .. n : Step(a, k) \in A
    BY PatternTyped
  <1> HIDE DEF A, Step
  <1>4. F \in [A \X (1 .. n) -> A] /\ \A a \in A, k \in 1 .. n : F[a, k] = Step(a, k)
    BY <1>2
  <1> HIDE DEF F, w
  <1>5. PICK g \in [SUBSET (1 .. n) -> A] : FoldBy(g, n, <<>>, F)
    BY <1>1, <1>4, FoldsExist DEF FoldExists
  <1>6. \A s \in SUBSET (1 .. n) : s # {} => s \ {Max(s)} \in SUBSET (1 .. n) /\ Max(s) \in 1 .. n
    BY LastIsIn
  <1>7. Fold(g)
    <2>1. \A s \in SUBSET (1 .. n) :
             g[s] = IF s = {} THEN <<>> ELSE Step(g[s \ {Max(s)}], Max(s))
      BY <1>4, <1>5, <1>6 DEF FoldBy
    <2>2. g = [s \in SUBSET (1 .. n) |-> g[s]]
      BY <1>5
    <2>. QED
      BY <2>1, <2>2
  <1>8. Fold(w)
    BY <1>7 DEF w
  <1>9. \A s \in SUBSET (1 .. n) : w[s] = IF s = {} THEN <<>> ELSE Step(w[s \ {Max(s)}], Max(s))
    BY <1>8
  <1>10. v[0] = <<>>
    <2>1. 1 .. 0 = {} /\ 0 \in 0 .. n
      OBVIOUS
    <2>. QED
      BY <1>9, <2>1
  <1>11. ASSUME NEW k \in 1 .. n PROVE v[k] = Step(v[k - 1], k)
    <2>1. 1 .. k \in SUBSET (1 .. n) /\ k \in 1 .. k /\ k \in Nat /\ k \in 0 .. n /\ k - 1 \in 0 .. n
      OBVIOUS
    <2>2. (1 .. k) \ {k} = 1 .. k - 1
      OBVIOUS
    <2>3. Max(1 .. k) = k
      BY <2>1, LastPosition
    <2>4. w[1 .. k] = Step(w[1 .. k - 1], k)
      BY <1>9, <2>1, <2>2, <2>3
    <2>. QED
      BY <2>1, <2>4
  <1>12. v[n] = RangesOf(text, patterns)
    BY <1>3
  <1> HIDE DEF v
  <1>. QED
    BY <1>10, <1>11, <1>12 DEF PatternWay, Step
---------------------------------------------------------------------------
(* What the patterns of a text match, and what that says of the ranges.    *)

MatchesOf(text, patterns, k) == Range(text.matches[patterns[k]])
Upto(text, patterns, k) == UNION {MatchesOf(text, patterns, j) : j \in 1 .. k}

\* As MatchesInOrder has it of one text and one list of patterns.
InOrder(text, patterns) ==
    \A k \in 1 .. Len(patterns) :
        LET ms == text.matches[patterns[k]]
        IN  /\ ms \in Seq(Found)
            /\ \A i, j \in 1 .. Len(ms) : i < j => ms[i].end <= ms[j].start

\* The first of the causes of PanicsHaveCauses.
Bridged(text, patterns) ==
    \E i, j, k \in DOMAIN patterns :
        /\ i <= k /\ j < k
        /\ \E a \in MatchesOf(text, patterns, i), b \in MatchesOf(text, patterns, j),
              c \in MatchesOf(text, patterns, k) :
              Apart(a, b) /\ Overlaps(c, a) /\ Overlaps(c, b)

LEMMA SwapSides ==
  ASSUME NEW text, NEW patterns, NEW n \in Nat, DOMAIN patterns = 1 .. n,
         NEW i \in 1 .. n, NEW j \in 1 .. n, NEW k \in 1 .. n, i <= k, j <= k, i < k \/ j < k,
         NEW a \in MatchesOf(text, patterns, i), NEW b \in MatchesOf(text, patterns, j),
         NEW c \in MatchesOf(text, patterns, k),
         Apart(a, b), Overlaps(c, a), Overlaps(c, b)
  PROVE  Bridged(text, patterns)
  <1>1. Apart(b, a)
    BY DEF Apart
  <1>2. CASE j < k
    BY <1>2 DEF Bridged
  <1>3. CASE i < k
    BY <1>1, <1>3 DEF Bridged
  <1>. QED
    BY <1>2, <1>3

\* Two matches of one pattern that are apart cannot both touch a later one.
LEMMA OwnMatches ==
  ASSUME NEW a \in Found, NEW b \in Found, NEW c \in Found,
         a.end <= c.start, b.end <= c.start, Overlaps(c, a), Overlaps(c, b)
  PROVE  ~ Apart(a, b)
  BY DEF Found, Overlaps, Apart

LEMMA NoBridges ==
  ASSUME NEW text, NEW patterns, NEW n \in Nat, DOMAIN patterns = 1 .. n, Len(patterns) = n,
         InOrder(text, patterns), ~ Bridged(text, patterns), NEW k \in 1 .. n,
         NEW ms, ms = text.matches[patterns[k]], NEW i \in 1 .. Len(ms)
  PROVE  ~ Bridges(Upto(text, patterns, k - 1) \cup FoundBy(ms, i - 1), ms[i])
  <1> DEFINE old == Upto(text, patterns, k - 1)
             own == FoundBy(ms, i - 1)
             c == ms[i]
  <1>1. /\ ms \in Seq(Found)
        /\ \A p, q \in 1 .. Len(ms) : p < q => ms[p].end <= ms[q].start
    BY DEF InOrder
  <1>2. Len(ms) \in Nat /\ DOMAIN ms = 1 .. Len(ms) /\ \A p \in 1 .. Len(ms) : ms[p] \in Found
    BY <1>1
  <1>3. c \in MatchesOf(text, patterns, k) /\ c \in Found
    BY <1>2 DEF MatchesOf, Range
  <1>4. ASSUME NEW a \in own PROVE a \in MatchesOf(text, patterns, k) /\ a \in Found
                                   /\ a.end <= c.start
    <2>1. PICK p \in 1 .. i - 1 : a = ms[p]
      BY DEF FoundBy
    <2>2. p \in 1 .. Len(ms) /\ p < i
      BY <1>2
    <2>. QED
      BY <1>1, <1>2, <2>1, <2>2 DEF MatchesOf, Range
  <1>5. ASSUME NEW a \in old
        PROVE  \E j \in 1 .. n : j < k /\ a \in MatchesOf(text, patterns, j)
    <2>1. PICK j \in 1 .. k - 1 : a \in MatchesOf(text, patterns, j)
      BY DEF Upto
    <2>2. j \in 1 .. n /\ j < k
      OBVIOUS
    <2>. QED
      BY <2>1, <2>2
  <1>6. ASSUME NEW a \in old \cup own
        PROVE  \E j \in 1 .. n : j <= k /\ a \in MatchesOf(text, patterns, j)
    <2>1. CASE a \in own
      BY <1>4, <2>1
    <2>2. CASE a \in old
      <3>1. PICK j \in 1 .. n : j < k /\ a \in MatchesOf(text, patterns, j)
        BY <1>5, <2>2
      <3>. QED
        BY <3>1
    <2>. QED
      BY <2>1, <2>2
  <1>7. SUFFICES ASSUME NEW a \in old \cup own, NEW b \in old \cup own,
                        Apart(a, b), Overlaps(c, a), Overlaps(c, b)
                 PROVE  FALSE
    BY DEF Bridges
  <1> HIDE DEF old, own, c
  <1>8. PICK p \in 1 .. n : p <= k /\ a \in MatchesOf(text, patterns, p)
    BY <1>6
  <1>9. PICK q \in 1 .. n : q <= k /\ b \in MatchesOf(text, patterns, q)
    BY <1>6
  <1>10. CASE a \in old
    <2>1. PICK j \in 1 .. n : j < k /\ a \in MatchesOf(text, patterns, j)
      BY <1>5, <1>10
    <2>2. j <= k
      BY <2>1
    <2>. QED
      BY <1>3, <1>7, <1>9, <2>1, <2>2, SwapSides
  <1>11. CASE b \in old
    <2>1. PICK j \in 1 .. n : j < k /\ b \in MatchesOf(text, patterns, j)
      BY <1>5, <1>11
    <2>2. j <= k
      BY <2>1
    <2>. QED
      BY <1>3, <1>7, <1>8, <2>1, <2>2, SwapSides
  <1>12. CASE a \in own /\ b \in own
    BY <1>3, <1>4, <1>7, <1>12, OwnMatches
  <1>. QED
    BY <1>10, <1>11, <1>12

\* What the ranges are, whatever the patterns match.
LEMMA RangesStand ==
  ASSUME NEW text, NEW S, NEW patterns \in Seq(S), InOrder(text, patterns)
  PROVE  Stands(RangesOf(text, patterns), Upto(text, patterns, Len(patterns)),
                ~ Bridged(text, patterns))
  <1> DEFINE n == Len(patterns)
             fine == ~ Bridged(text, patterns)
             To(k) == Upto(text, patterns, k)
             ms(k) == text.matches[patterns[k]]
  <1>1. n \in Nat /\ DOMAIN patterns = 1 .. n
    OBVIOUS
  <1>2. \A k \in 1 .. n : ms(k) \in Seq(Found)
    BY DEF InOrder
  <1>3. PICK v : PatternWay(v, text, patterns, n)
    BY <1>1, <1>2, PatternWays
  <1>4. v[0] = <<>> /\ (\A k \in 1 .. n : v[k] = FoldLeft(Place, v[k - 1], ms(k)))
        /\ v[n] = RangesOf(text, patterns)
    BY <1>3 DEF PatternWay
  <1>5. \A k \in 1 .. n : FoundBy(ms(k), Len(ms(k))) = MatchesOf(text, patterns, k)
    BY <1>2 DEF FoundBy, MatchesOf, Range
  <1>6. \A k \in 1 .. n : MatchesOf(text, patterns, k) \in SUBSET Found
    BY <1>2 DEF MatchesOf, Range
  <1>7. \A k \in Nat : k <= n => To(k) \in SUBSET Found
    BY <1>1, <1>6 DEF Upto
  <1>8. \A k \in 1 .. n : To(k) = To(k - 1) \cup MatchesOf(text, patterns, k)
    <2> SUFFICES ASSUME NEW k \in 1 .. n
                 PROVE  To(k) = To(k - 1) \cup MatchesOf(text, patterns, k)
      OBVIOUS
    <2>1. \A j : j \in 1 .. k <=> j \in 1 .. k - 1 \/ j = k
      BY <1>1
    <2>. QED
      BY <2>1 DEF Upto
  <1>9. \A k \in 1 .. n : fine =>
            \A i \in 1 .. Len(ms(k)) : ~ Bridges(To(k - 1) \cup FoundBy(ms(k), i - 1), ms(k)[i])
    BY <1>1, NoBridges
  <1>10. Stands(<<>>, To(0), fine)
    <2>1. To(0) = {}
      BY DEF Upto
    <2>2. <<>> \in Seq(Found) /\ Len(<<>>) = 0
      OBVIOUS
    <2>. QED
      BY <2>1, <2>2 DEF Stands, SameBytes, Clusters, OrderKept
  <1>11. fine \in BOOLEAN
    OBVIOUS
  <1> HIDE DEF n, fine, To, ms
  <1> DEFINE Bad == {k \in Nat : k <= n /\ ~ Stands(v[k], To(k), fine)}
  <1>12. Bad = {}
    <2> SUFFICES ASSUME Bad # {} PROVE FALSE
      OBVIOUS
    <2>0. Bad \in SUBSET Nat
      OBVIOUS
    <2> HIDE DEF Bad
    <2>1. PICK k \in Bad : \A m \in Bad : k <= m
      BY <2>0, LeastNumber
    <2>2. k \in Nat /\ k <= n /\ ~ Stands(v[k], To(k), fine)
      BY <2>1 DEF Bad
    <2>3. CASE k = 0
      BY <1>4, <1>10, <2>2, <2>3
    <2>4. CASE k > 0
      <3>1. k - 1 \in Nat /\ k - 1 <= n /\ ~ (k <= k - 1) /\ k \in 1 .. n
        BY <1>1, <2>2, <2>4
      <3>2. Stands(v[k - 1], To(k - 1), fine)
        BY <2>1, <3>1 DEF Bad
      <3>3. ms(k) \in Seq(Found) /\ To(k - 1) \in SUBSET Found
        BY <1>2, <1>7, <3>1
      <3>4. fine => \A i \in 1 .. Len(ms(k)) :
                        ~ Bridges(To(k - 1) \cup FoundBy(ms(k), i - 1), ms(k)[i])
        BY <1>9, <3>1
      <3>5. Stands(FoldLeft(Place, v[k - 1], ms(k)),
                   To(k - 1) \cup FoundBy(ms(k), Len(ms(k))), fine)
        BY <1>11, <3>2, <3>3, <3>4, PatternKeeps
      <3>. QED
        BY <1>4, <1>5, <1>8, <2>2, <3>1, <3>5
    <2>. QED
      BY <2>2, <2>3, <2>4
  <1>13. n <= n /\ n \notin Bad
    BY <1>1, <1>12
  <1>14. Stands(v[n], To(n), fine)
    BY <1>1, <1>13
  <1>. QED
    BY <1>4, <1>14 DEF To, n, fine
---------------------------------------------------------------------------
(* What the chain makes of a line.                                         *)

\* The slice between two ranges ends before it begins.
Disordered(ranges) == \E i \in 2 .. Len(ranges) : ranges[i].start < ranges[i - 1].end

LEMMA BytesAreTheirs ==
  ASSUME NEW rs, NEW P \in SUBSET Found, rs \in Seq(Found), SameBytes(rs, P)
  PROVE  Bytes(rs) = UNION {a.start .. (a.end - 1) : a \in P}
  <1>1. \A r \in Found : \A b : b \in r.start .. (r.end - 1) <=> b \in Nat /\ InBytes(r, b)
    BY DEF Found, InBytes
  <1>2. Range(rs) = {rs[i] : i \in 1 .. Len(rs)} /\ \A i \in 1 .. Len(rs) : rs[i] \in Found
    BY FoundTypes DEF Range
  <1>3. ASSUME NEW b PROVE b \in Bytes(rs) <=> b \in Nat /\ \E i \in 1 .. Len(rs) : InBytes(rs[i], b)
    BY <1>1, <1>2 DEF Bytes
  <1>4. ASSUME NEW b PROVE b \in UNION {a.start .. (a.end - 1) : a \in P}
                               <=> b \in Nat /\ \E a \in P : InBytes(a, b)
    BY <1>1
  <1>5. \A b \in Nat : (\E i \in 1 .. Len(rs) : InBytes(rs[i], b)) <=> \E a \in P : InBytes(a, b)
    BY DEF SameBytes
  <1>. QED
    BY <1>3, <1>4, <1>5

LEMMA OrderedSlices ==
  ASSUME NEW rs \in Seq(Found), OrderKept(rs)
  PROVE  ~ Disordered(rs)
  <1> SUFFICES ASSUME NEW i \in 2 .. Len(rs), rs[i].start < rs[i - 1].end PROVE FALSE
    BY DEF Disordered
  <1>1. i \in 1 .. Len(rs) /\ i - 1 \in 1 .. Len(rs) /\ i - 1 < i
    BY FoundTypes
  <1>2. rs[i - 1].end < rs[i].start
    BY <1>1 DEF OrderKept
  <1>. QED
    BY <1>1, <1>2, FoundTypes

\* A sequence of matches, each of which ends after it begins.
LEMMA FoundInOrder ==
  ASSUME NEW ms \in Seq([start : Nat, end : Nat]),
         \A i \in 1 .. Len(ms) : ms[i].start <= ms[i].end
  PROVE  ms \in Seq(Found)
  <1> DEFINE R == [start : Nat, end : Nat]
  <1>1. ms \in Seq(R)
    OBVIOUS
  <1>2. \A r \in R : r.start <= r.end => r \in Found
    BY DEF Found
  <1> HIDE DEF R
  <1>3. \A i \in 1 .. Len(ms) : ms[i] \in R
    BY <1>1
  <1>4. \A i \in 1 .. Len(ms) : ms[i] \in Found
    BY <1>2, <1>3
  <1>5. Len(ms) \in Nat /\ DOMAIN ms = 1 .. Len(ms)
    BY <1>1
  <1>. QED
    BY <1>1, <1>4, <1>5

\* The ranges of a text that a rule of the settings gives.
LEMMA RedactionOfText ==
  ASSUME settings \in AllSettings, NEW text \in Texts
  PROVE  LET patterns == settings.rules.redact
             ranges == RangesOf(text, patterns)
         IN  /\ Bytes(ranges) = UNION {Bytes(text.matches[p]) : p \in Patterns}
             /\ Disordered(ranges) => Bridged(text, patterns)
  <1> DEFINE patterns == settings.rules.redact
             n == Len(patterns)
             ranges == RangesOf(text, patterns)
             P == Upto(text, patterns, n)
  <1>1. /\ patterns \in Seq(DOMAIN text.matches)
        /\ \A p \in Range(patterns) :
              /\ text.matches[p] \in Seq([start : Nat, end : Nat])
              /\ \A i, j \in DOMAIN text.matches[p] :
                    /\ text.matches[p][i].start <= text.matches[p][i].end
                    /\ i < j => text.matches[p][i].end <= text.matches[p][j].start
    BY MatchesInOrder
  <1>2. n \in Nat /\ DOMAIN patterns = 1 .. n /\ Range(patterns) = {patterns[k] : k \in 1 .. n}
    BY <1>1 DEF Range
  <1>3. ASSUME NEW p \in Range(patterns)
        PROVE  /\ text.matches[p] \in Seq(Found)
               /\ \A i, j \in 1 .. Len(text.matches[p]) :
                     i < j => text.matches[p][i].end <= text.matches[p][j].start
    <2> DEFINE ms == text.matches[p]
    <2>1. /\ ms \in Seq([start : Nat, end : Nat])
          /\ \A i, j \in DOMAIN ms : ms[i].start <= ms[i].end
                                     /\ (i < j => ms[i].end <= ms[j].start)
      BY <1>1
    <2> HIDE DEF ms
    <2>2. DOMAIN ms = 1 .. Len(ms) /\ Len(ms) \in Nat
      BY <2>1
    <2>3. \A i \in 1 .. Len(ms) : ms[i].start <= ms[i].end
      BY <2>1, <2>2
    <2>4. ms \in Seq(Found)
      BY <2>1, <2>3, FoundInOrder
    <2>. QED
      BY <2>1, <2>2, <2>4 DEF ms
  <1>4. InOrder(text, patterns)
    BY <1>2, <1>3 DEF InOrder
  <1>5. Stands(ranges, P, ~ Bridged(text, patterns))
    BY <1>1, <1>4, RangesStand
  <1>6. P \in SUBSET Found
    BY <1>2, <1>3 DEF Upto, MatchesOf, Range
  <1>7. Bytes(ranges) = UNION {a.start .. (a.end - 1) : a \in P}
    BY <1>5, <1>6, BytesAreTheirs DEF Stands
  <1>8. P = UNION {Range(text.matches[p]) : p \in Range(patterns)}
    BY <1>2 DEF Upto, MatchesOf
  <1>9. UNION {a.start .. (a.end - 1) : a \in P}
            = UNION {Bytes(text.matches[p]) : p \in Range(patterns)}
    BY <1>8 DEF Bytes
  <1>10. Disordered(ranges) => Bridged(text, patterns)
    BY <1>5, OrderedSlices DEF Stands
  <1>. QED
    BY <1>7, <1>9, <1>10 DEF Patterns
---------------------------------------------------------------------------
LineFields == {"file", "text", "labels", "annotations", "fields", "redacted"}

\* The line as the rules let it pass.
Allowed(rules, text) ==
    /\ \A p \in rules.exclusion : ~ Matches(text, p)
    /\ rules.inclusion = {} \/ \E p \in rules.inclusion : Matches(text, p)

LEMMA NotStopped ==
  ASSUME NEW line, DOMAIN line = LineFields
  PROVE  ~ Stopped(line)
  <1>1. DOMAIN Skip = {"stopped"} /\ DOMAIN Panic = {"stopped"}
    BY DEF Skip, Panic
  <1>2. "file" \in LineFields
    BY DEF LineFields
  <1>. QED
    BY <1>1, <1>2 DEF Stopped

\* LineRules gives one of three things.
LEMMA LineRulesGive ==
  ASSUME NEW line, DOMAIN line = LineFields, NEW rules
  PROVE  \/ LineRules(rules, line) = Skip
         \/ LineRules(rules, line) = Panic /\ Disordered(RangesOf(line.text, rules.redact))
         \/ /\ Allowed(rules, line.text)
            /\ LineRules(rules, line) = [line EXCEPT !.redacted = RangesOf(line.text, rules.redact)]
  <1>1. \/ LineRules(rules, line) = Skip
        \/ Allowed(rules, line.text) /\ LineRules(rules, line) = Redact(line, rules.redact)
    BY DEF LineRules, Allowed
  <1>. QED
    BY <1>1 DEF Redact, Disordered

LEMMA MetaRulesGive ==
  ASSUME NEW line, DOMAIN line = LineFields, NEW over, NEW orders, NEW env
  PROVE  LET r == MetaRules(over, orders, env, line)
         IN  \/ r = Panic /\ "meta" \in DOMAIN over.fields
             \/ DOMAIN r = LineFields /\ r.redacted = line.redacted
  <1> DEFINE k8s == IsK8sLine(line)
             base == Joined(Prefixed("env", env),
                         Joined(Prefixed("annot", line.annotations),
                             Joined(Prefixed("label", line.labels), Prefixed("line", line.fields))))
             annotations == Override(over.annotations, IF k8s THEN orders.annotations ELSE <<>>,
                                     "annot", base, line.annotations)
             labels == Override(over.labels, IF k8s THEN orders.labels ELSE <<>>,
                                "label", annotations.map, line.labels)
             keys == DOMAIN over.fields \ (IF k8s THEN {} ELSE {"k8s_file"})
             fields == [k \in keys |-> Substitute(over.fields[k], labels.map)]
             joined == Joined(line.fields, fields)
  <1>1. MetaRules(over, orders, env, line)
            = IF "meta" \in keys /\ fields["meta"] = "invalid" THEN Panic
              ELSE [line EXCEPT !.annotations = annotations.new, !.labels = labels.new,
                                !.fields = Joined(@, fields)]
    BY DEF MetaRules
  <1>2. "meta" \in keys => "meta" \in DOMAIN over.fields
    OBVIOUS
  <1> HIDE DEF k8s, base, annotations, labels, keys, fields
  <1> DEFINE m == [line EXCEPT !.annotations = annotations.new, !.labels = labels.new,
                               !.fields = Joined(@, fields)]
  <1>3. DOMAIN m = LineFields /\ m.redacted = line.redacted
    BY DEF LineFields
  <1>. QED
    BY <1>1, <1>2, <1>3

\* The three ways of a line through the chain.
Passes(r, line) ==
    \/ r = Skip
    \/ /\ r = Panic
       /\ \/ Disordered(RangesOf(line.text, settings.rules.redact))
          \/ "meta" \in DOMAIN settings.over.fields
    \/ /\ DOMAIN r = LineFields
       /\ r.redacted = RangesOf(line.text, settings.rules.redact)
       /\ Allowed(settings.rules, line.text)

LEMMA ChainPasses ==
  ASSUME NEW line, DOMAIN line = LineFields
  PROVE  Passes(Chain(line), line)
  <1> DEFINE first == IF settings.enrichment THEN K8sLineFilter(settings.k8s, line) ELSE line
             second == LineRules(settings.rules, line)
             third == MetaRules(settings.over, settings.orders, settings.env, second)
  <1>1. first = line \/ first = Skip
    BY DEF K8sLineFilter
  <1>2. Stopped(Skip) /\ Stopped(Panic) /\ ~ Stopped(line)
    BY NotStopped DEF Stopped
  <1>3. Chain(line) = IF first = line THEN IF Stopped(second) THEN second ELSE third ELSE Skip
    BY <1>1, <1>2 DEF Chain, Then
  <1>4. \/ second = Skip
        \/ second = Panic /\ Disordered(RangesOf(line.text, settings.rules.redact))
        \/ /\ Allowed(settings.rules, line.text)
           /\ second = [line EXCEPT !.redacted = RangesOf(line.text, settings.rules.redact)]
    BY LineRulesGive
  <1> HIDE DEF first, second, third
  <1>5. CASE second = [line EXCEPT !.redacted = RangesOf(line.text, settings.rules.redact)]
             /\ Allowed(settings.rules, line.text)
    <2>1. /\ DOMAIN second = LineFields
          /\ second.redacted = RangesOf(line.text, settings.rules.redact)
      BY <1>5 DEF LineFields
    <2>2. ~ Stopped(second)
      BY <2>1, NotStopped
    <2>3. \/ third = Panic /\ "meta" \in DOMAIN settings.over.fields
          \/ DOMAIN third = LineFields /\ third.redacted = second.redacted
      BY <2>1, MetaRulesGive DEF third
    <2>. QED
      BY <1>3, <1>5, <2>1, <2>2, <2>3 DEF Passes
  <1>6. CASE second = Skip \/ (second = Panic
                               /\ Disordered(RangesOf(line.text, settings.rules.redact)))
    BY <1>2, <1>3, <1>6 DEF Passes
  <1>. QED
    BY <1>4, <1>5, <1>6
---------------------------------------------------------------------------
RedactionInv == RulesApplied /\ PanicsHaveCauses

\* What left is accounted for.
LEMMA LeftIsAccounted ==
  ASSUME settings \in AllSettings, settings' = settings, NEW text \in Texts, NEW line,
         DOMAIN line = LineFields, line.text = text, NEW file, NEW gen,
         last' = Left(Chain(line), text, file, gen)
  PROVE  RedactionInv'
  <1> DEFINE r == Chain(line)
             patterns == settings.rules.redact
             ranges == RangesOf(text, patterns)
  <1>1. Passes(r, line)
    BY ChainPasses
  <1>2. /\ Bytes(ranges) = UNION {Bytes(text.matches[p]) : p \in Patterns}
        /\ Disordered(ranges) => Bridged(text, patterns)
    BY RedactionOfText
  <1>3. Patterns' = Patterns
    BY DEF Patterns
  <1>4. Stopped(Skip) /\ Stopped(Panic) /\ Skip.stopped = "skip" /\ Panic.stopped = "panic"
    BY DEF Stopped, Skip, Panic
  <1> HIDE DEF r, ranges
  <1>5. CASE r = Skip
    <2>1. last'.result = "skip"
      BY <1>4, <1>5 DEF Left, r
    <2>. QED
      BY <2>1 DEF RedactionInv, RulesApplied, PanicsHaveCauses, Panicked
  <1>6. CASE r = Panic /\ (Disordered(ranges) \/ "meta" \in DOMAIN settings.over.fields)
    <2>1. last'.result = "panic" /\ last'.text = text
      BY <1>4, <1>6 DEF Left, r
    <2>2. Bridged(text, patterns) \/ "meta" \in DOMAIN settings.over.fields
      BY <1>2, <1>6
    <2>3. PanicsHaveCauses'
      BY <2>1, <2>2 DEF PanicsHaveCauses, Bridged, MatchesOf
    <2>. QED
      BY <2>1, <2>3 DEF RedactionInv, RulesApplied
  <1>7. CASE DOMAIN r = LineFields /\ r.redacted = ranges /\ Allowed(settings.rules, text)
    <2>1. ~ Stopped(r)
      BY <1>7, NotStopped
    <2>2. last'.result = "sent" /\ last'.text = text /\ last'.redacted = ranges
      BY <1>7, <2>1 DEF Left, r
    <2>3. RulesApplied'
      BY <1>2, <1>3, <1>7, <2>2 DEF RulesApplied, Allowed, Matches, Bytes
    <2>. QED
      BY <2>2, <2>3 DEF RedactionInv, PanicsHaveCauses, Panicked
  <1>. QED
    BY <1>1, <1>5, <1>6, <1>7 DEF Passes, r, ranges

LEMMA RedactionInit ==
  ASSUME last = None
  PROVE  RedactionInv
  BY DEF None, RedactionInv, RulesApplied, PanicsHaveCauses, Panicked

LEMMA RedactionKept ==
  ASSUME settings \in AllSettings, FromFiles, RedactionInv, [Next]_vars
  PROVE  settings' \in AllSettings /\ RedactionInv'
  <1>1. ASSUME UNCHANGED <<settings, last>> PROVE settings' \in AllSettings /\ RedactionInv'
    BY <1>1 DEF RedactionInv, RulesApplied, PanicsHaveCauses, Panicked, Patterns, Bytes
  <1>2. CASE Changed \/ Metadata \/ UNCHANGED vars
    BY <1>1, <1>2 DEF Changed, Metadata, vars, lineVars
  <1>3. ASSUME NEW f \in files, NEW t \in Texts, Read(f, t)
        PROVE  settings' \in AllSettings /\ RedactionInv'
    BY <1>1, <1>3 DEF Read
  <1>4. ASSUME NEW l \in lines, Validate(l) \/ Retry(l)
        PROVE  settings' \in AllSettings /\ RedactionInv'
    <2>1. UNCHANGED <<settings, last>>
      BY <1>4, Zenon DEF Validate, Retry
    <2>. QED
      BY <1>1, <2>1
  <1>5. ASSUME NEW l \in lines, SendAsIs(l) PROVE settings' \in AllSettings /\ RedactionInv'
    <2>1. last'.result = "bare" /\ settings' = settings
      BY <1>5 DEF SendAsIs, Bare
    <2>. QED
      BY <2>1 DEF RedactionInv, RulesApplied, PanicsHaveCauses, Panicked
  <1>6. ASSUME NEW l \in lines, Process(l) PROVE settings' \in AllSettings /\ RedactionInv'
    <2> DEFINE gen == IF settings.enrichment THEN View[l.file.pod] ELSE 0
               line == Enriched(LineOf(FileOf(l.file), l.text), l.file.pod, gen)
    <2>1. last' = Left(Chain(line), l.text, l.file, gen) /\ settings' = settings
      BY <1>6 DEF Process
    <2>2. l.text \in Texts
      BY DEF FromFiles, LineRecords
    <2> HIDE DEF gen
    <2>3. DOMAIN line = LineFields /\ line.text = l.text
      BY DEF Enriched, LineOf, LineFields
    <2> HIDE DEF line
    <2>. QED
      BY <2>1, <2>2, <2>3, LeftIsAccounted
  <1>7. ASSUME NEW file \in {NoFile, PlainFile}, NEW t \in Texts, OtherLine(file, t)
        PROVE  settings' \in AllSettings /\ RedactionInv'
    <2> DEFINE line == LineOf(file, t)
    <2>1. last' = Left(Chain(line), t, file, 0) /\ settings' = settings
      BY <1>7 DEF OtherLine
    <2>2. DOMAIN line = LineFields /\ line.text = t
      BY DEF LineOf, LineFields
    <2> HIDE DEF line
    <2>. QED
      BY <2>1, <2>2, LeftIsAccounted
  <1>. QED
    BY <1>2, <1>3, <1>4, <1>5, <1>6, <1>7 DEF Next, Lines

(* What some pattern matches is redacted and nothing else, for any texts   *)
(* and patterns, whatever the order in which the loop meets the matches    *)
(* and however they overlap; and a line passes by its inclusion and        *)
(* exclusion patterns only.                                                *)
THEOREM RedactionIsExact == Spec => []RulesApplied
  <1>1. Init => settings \in AllSettings /\ RedactionInv
    BY RedactionInit DEF Init
  <1>2. FromFiles /\ settings \in AllSettings /\ RedactionInv /\ [Next]_vars
            => (settings \in AllSettings /\ RedactionInv)'
    BY RedactionKept
  <1>3. RedactionInv => RulesApplied
    BY DEF RedactionInv
  <1>. QED
    BY <1>1, <1>2, <1>3, LinesComeFromFiles, PTL DEF Spec

(* The agent never panics in a redaction unless a match bridges two places *)
(* that were apart, one of which an earlier pattern matched: the ranges    *)
(* behind the one that grows are the only ones that the loop can leave     *)
(* overlapping.  And MetaRules panics for a "meta" override only.          *)
THEOREM PanicsAreExplained == Spec => []PanicsHaveCauses
  <1>1. Init => settings \in AllSettings /\ RedactionInv
    BY RedactionInit DEF Init
  <1>2. FromFiles /\ settings \in AllSettings /\ RedactionInv /\ [Next]_vars
            => (settings \in AllSettings /\ RedactionInv)'
    BY RedactionKept
  <1>3. RedactionInv => PanicsHaveCauses
    BY DEF RedactionInv
  <1>. QED
    BY <1>1, <1>2, <1>3, LinesComeFromFiles, PTL DEF Spec
==============================================================================
