----------------------------- MODULE FileWatching -----------------------------
(***************************************************************************)
(* How the agent keeps up with the files: the disk and what the system     *)
(* says of its changes (notify_stream), the debouncing queue, the cache of *)
(* FsCache, the events the tailer handles, retries, resumes, the watch for *)
(* a log directory that is not there yet, and the restart of the tailer.   *)
(* All changes of a history are taken to fall into one second, the unit of *)
(* the queue's priorities, so any path may come first.                     *)
(***************************************************************************)
EXTENDS FsCache

CONSTANTS
    Inodes,      \* the inodes of the instance
    Scenarios,   \* initial disks, each with the changes made to it
    BatchSize,   \* events the debouncer gives out before it looks for new ones
    MaxRead,     \* lines one event reads at most
    RetryLimit,  \* EVENT_RETRY_COUNT
    MaxLines,    \* bound: lines of a file
    MaxRestarts  \* bound: restarts of the tailer

ASSUME BoundsAssumption ==
    /\ Inodes = 1 .. Cardinality(Inodes)
    /\ {BatchSize, MaxRead, MaxLines} \subseteq Nat \ {0}
    /\ {RetryLimit, MaxRestarts} \subseteq Nat

VARIABLES
    scenario,   \* the scenario, fixed
    disk,       \* [node, len, young], as in FsCache
    used,       \* inodes used so far
    steps,      \* changes made so far
    channel,    \* events of the watcher, not yet taken
    seen,       \* paths the missing directory watcher saw created
    queue,      \* the debouncer's events of each path, the next one first
    left,       \* events left in its batch
    resumes,    \* inodes on the resume channel
    retries,    \* events sent back for a later try, with their count
    spotted,    \* the directory seen and about to be watched, or Root
    lookouts,   \* the directories the missing directory watcher watches
    cache,      \* the FileSystem
    todo,       \* events of the cache, for the tailer
    emitted,    \* fs_offsets: the end of the last line sent of each inode, or -1
    status,     \* of the tailer
    faults, restarts,
    delivered,  \* history: how often each line was sent, 2 for more than once
    past        \* history of the disk: names[i] the paths inode i had, vacated: paths
                \* that lost what was there, replaced: paths a file was moved over,
                \* unseen: inodes unlinked before the agent had opened them, cut: inodes
                \* forgotten with lines unread, dropped: paths of events given up,
                \* reused: used names made again in a directory not watched, slipped: directories made between the look for them and the watch

worldVars == <<scenario, disk, used, steps, channel, seen>>
agentVars == <<queue, left, resumes, retries, spotted, lookouts, cache, todo, emitted,
               status, faults, restarts, delivered>>
vars == <<worldVars, past, agentVars>>

Ev(is, p) == [is |-> is, path |-> p, to |-> Root]
Moved(p, q) == [is |-> "rename", path |-> p, to |-> q]

(***************************************************************************)
(* The disk, and what the watchers are told of it.                         *)
(***************************************************************************)
Exists(p) == disk.node[p].is # "none"
HasPlace(p) == Parent[p] # Root => disk.node[Parent[p]].is = "dir"

\* A watch is on the inode the path had when the path was registered.
Watched(p) ==
    /\ p # Root /\ LiveEntry(cache, p) /\ EntryAt(cache, p).kind # "link"
    /\ EntryAt(cache, p).ino = disk.node[p].ino

Opened(i) == \E k \in DOMAIN cache.entries : cache.entries[k].ino = i
DirTold(p) == Watched(Parent[p])
Told(p) == DirTold(p) \/ Watched(p)
When(cond, ev) == IF cond THEN <<ev>> ELSE <<>>

\* One change of the disk, with the events it makes.
Change(op, d, evs) ==
    /\ op \in scenario.ops /\ steps < scenario.steps
    /\ steps' = steps + 1
    /\ disk' = d
    /\ channel' = channel \o evs
    /\ UNCHANGED <<scenario, agentVars>>

\* A new file, directory or link.
Make(p, kind) ==
    LET i == IF kind = "link" THEN 0 ELSE used + 1
    IN  /\ ~Exists(p) /\ HasPlace(p) /\ i \in Inodes \cup {0}
        /\ used' = IF kind = "link" THEN used ELSE i
        /\ Change([op |-> "make", path |-> p, kind |-> kind],
                  [disk EXCEPT !.node[p] = [is |-> kind, ino |-> i, to |-> scenario.to[p]],
                               !.young = @ \cup ({i} \ {0})],
                  When(DirTold(p), Ev("create", p)))
        /\ seen' = IF Parent[p] \in lookouts THEN Append(seen, p) ELSE seen
        /\ past' = [past EXCEPT
               !.names = [j \in Inodes |-> IF j = i THEN @[j] \cup {p} ELSE @[j]],
               !.reused = IF p \in past.vacated /\ ~DirTold(p) THEN @ \cup {p} ELSE @,
               !.slipped = IF Parent[p] = spotted /\ spotted # Root THEN @ \cup {p} ELSE @]

\* A line is written.
Write(p) ==
    LET i == disk.node[p].ino
    IN  /\ disk.node[p].is = "file" /\ disk.len[i] < MaxLines
        /\ Change([op |-> "write", path |-> p, kind |-> "file"],
                  [disk EXCEPT !.len[i] = @ + 1], When(Told(p), Ev("write", p)))
        /\ UNCHANGED <<used, seen, past>>

\* A file or link is unlinked, or an empty directory is removed.
Unlink(p) ==
    LET n == disk.node[p]
    IN  /\ Exists(p) /\ Children(disk, p) = {}
        /\ Change([op |-> "unlink", path |-> p, kind |-> n.is],
                  [disk EXCEPT !.node[p] = Absent], When(Told(p), Ev("remove", p)))
        /\ past' = [past EXCEPT !.vacated = @ \cup {p},
                       !.unseen = IF n.is = "file" /\ ~Opened(n.ino) THEN @ \cup {n.ino} ELSE @]
        /\ UNCHANGED <<used, seen>>

\* A file is moved, maybe over another one. The system reports both halves,
\* and the whole when both directories are watched.
Move(p, q) ==
    LET whole == DirTold(p) /\ DirTold(q)
    IN  /\ disk.node[p].is = "file" /\ p # q /\ HasPlace(q)
        /\ disk.node[q].is \in {"none", "file"}
        /\ Change([op |-> "move", path |-> p, kind |-> q],
                  [disk EXCEPT !.node[q] = disk.node[p], !.node[p] = Absent],
                  When(Told(p), Ev("remove", p)) \o When(DirTold(q), Ev("create", q))
                      \o When(whole, Moved(p, q)))
        /\ past' = [past EXCEPT !.names[disk.node[p].ino] = @ \cup {q},
                       !.vacated = @ \cup {p},
                       !.replaced = IF Exists(q) THEN @ \cup {q} ELSE @]
        /\ UNCHANGED <<used, seen>>

(***************************************************************************)
(* The debouncer.                                                          *)
(***************************************************************************)
Running == status = "running"
QueueEmpty == \A p \in Paths : queue[p] = <<>>

\* A write that follows a write is the same event; an event without a path is lost.
InsertEvent(q, ev) ==
    LET old == q[ev.path]
    IN  IF ev.is = "write" /\ old # <<>> /\ Last(old).is = "write" THEN q
        ELSE [q EXCEPT ![ev.path] = Append(@, ev)]

RequeueEvent(q, ev) ==
    LET old == q[ev.path]
    IN  IF ev.is = "write" /\ old # <<>> /\ Head(old).is = "write" THEN q
        ELSE [q EXCEPT ![ev.path] = <<ev>> \o @]

\* The resume channel names an inode; the cache knows the path it had last.
ResumeEvents == {Ev("write", cache.inode[i]) : i \in {i \in resumes : cache.inode[i] # Root}}

\* Mutant: the resume events are read and not taken off their channel.
RefillKeeping ==
    /\ Running /\ todo = <<>> /\ (left = 0 \/ QueueEmpty)
    /\ <<channel, resumes>> # <<<<>>, {}>> \/ ~QueueEmpty
    /\ queue' = FoldLeft(InsertEvent, FoldLeft(RequeueEvent, queue, SetToSeq(ResumeEvents)),
                         channel)
    /\ channel' = <<>> /\ left' = BatchSize
    /\ UNCHANGED <<scenario, disk, used, steps, seen, past, resumes, retries, spotted, lookouts,
                   cache, todo, emitted, status, faults, restarts, delivered>>

Refill ==
    /\ Running /\ todo = <<>> /\ (left = 0 \/ QueueEmpty)
    /\ <<channel, resumes>> # <<<<>>, {}>> \/ ~QueueEmpty
    /\ queue' = FoldLeft(InsertEvent, FoldLeft(RequeueEvent, queue, SetToSeq(ResumeEvents)),
                         channel)
    /\ channel' = <<>> /\ resumes' = {}
    /\ left' = BatchSize
    /\ UNCHANGED <<scenario, disk, used, steps, seen, past, retries, spotted, lookouts, cache, todo, emitted, status, faults, restarts, delivered>>

(***************************************************************************)
(* The cache takes an event.                                               *)
(***************************************************************************)
\* What cannot be opened is sent back with its count; a path that is gone is not.
SentBack(c, ev, count) == IF c.res = "file" THEN {[ev |-> ev, count |-> count]} ELSE {}

Taken(c, ev, count, others) ==
    /\ cache' = [c EXCEPT !.events = <<>>]
    /\ todo' = todo \o (IF Answered(c) THEN c.events ELSE <<>>)
    /\ retries' = others \cup SentBack(c, ev, count)
    /\ status' = IF c.panic THEN "panicked" ELSE IF c.res = "rescan" THEN "rescan" ELSE status

\* Sometimes the path of the event, what it links to, or a path below them cannot
\* be opened or watched.
Unreadable(ev) ==
    LET near == {p \in Paths : /\ faults < scenario.faults /\ disk.node[p].is \in {"file", "dir"}
                              /\ {p, Parent[p]} \cap ({ev.path, scenario.to[ev.path]} \ {Root}) # {}}
    IN  {NoFaults} \cup {[NoFaults EXCEPT !.open = {p}] : p \in near}
                   \cup {[NoFaults EXCEPT !.watch = {p}] : p \in near}
Faulty(bad) == faults' = faults + Cardinality(bad.open \cup bad.watch)

ProcessEvent(p) ==
    /\ Running /\ todo = <<>> /\ left > 0 /\ queue[p] # <<>>
    /\ left' = left - 1
    /\ queue' = [queue EXCEPT ![p] = Tail(@)]
    /\ \E bad \in Unreadable(Head(queue[p])) :
          /\ Taken(Process(cache, disk, bad, Head(queue[p])), Head(queue[p]), 0, retries)
          /\ Faulty(bad)
    /\ UNCHANGED <<worldVars, past, resumes, spotted, lookouts, emitted, restarts, delivered>>

\* The delay is over. An event that was tried too often is dropped.
RetryEvent(r) ==
    /\ Running /\ todo = <<>> /\ r \in retries
    /\ \/ /\ r.count > RetryLimit
          /\ retries' = retries \ {r}
          /\ past' = [past EXCEPT !.dropped = @ \cup {r.ev.path}]
          /\ UNCHANGED <<cache, todo, status, faults>>
       \/ /\ r.count <= RetryLimit
          /\ \E bad \in Unreadable(r.ev) :
                /\ Taken(Process(cache, disk, bad, r.ev), r.ev, r.count + 1, retries \ {r})
                /\ Faulty(bad)
          /\ UNCHANGED past
    /\ UNCHANGED <<worldVars, queue, left, resumes, spotted, lookouts, emitted, restarts,
                   delivered>>

(***************************************************************************)
(* A log directory that is missing: the directories above it are watched.  *)
(***************************************************************************)
Missing == InitialDirs \cap scenario.missing

SpotDirectory ==
    LET p == Head(seen)
    IN  /\ Running /\ seen # <<>> /\ spotted = Root
        /\ seen' = Tail(seen)
        /\ \/ /\ p \in Missing
              /\ status' = "rescan"
              /\ UNCHANGED <<cache, todo, retries, spotted>>
           \/ /\ p \notin Missing /\ \E m \in Missing : p \in Above[m] /\ Exists(m)
              /\ LET m == CHOOSE m \in Missing : p \in Above[m] /\ Exists(m)
                 IN  Taken(Process(cache, disk, NoFaults, Ev("create", m)), Ev("create", m), 0, retries)
              /\ UNCHANGED spotted
           \/ /\ p \notin Missing
              /\ ~\E m \in Missing : p \in Above[m] /\ Exists(m)
              /\ spotted' = IF \E m \in Missing : p \in Above[m] THEN p ELSE Root
              /\ UNCHANGED <<cache, todo, retries, status>>
    /\ UNCHANGED <<scenario, disk, used, steps, channel, past, queue, left, resumes, lookouts, emitted, faults, restarts, delivered>>

\* The watch comes after the look, and tells of what is made from now on.
WatchDirectory ==
    /\ Running /\ spotted # Root
    /\ lookouts' = lookouts \cup {spotted}
    /\ spotted' = Root
    /\ UNCHANGED <<worldVars, past, queue, left, resumes, retries, cache, todo, emitted, status, faults,
                   restarts, delivered>>

(***************************************************************************)
(* The tailer handles an event of the cache: it reads, or reads to the end *)
(* and forgets the entry.                                                  *)
(***************************************************************************)
RECURSIVE FileForPath(_, _)
FileForPath(c, p) ==
    IF ~LiveEntry(c, p) THEN NoKey
    ELSE CASE EntryAt(c, p).kind = "file" -> c.wd[p]
           [] EntryAt(c, p).kind = "link" /\ EntryAt(c, p).on -> FileForPath(c, EntryAt(c, p).to)
           [] OTHER -> NoKey

\* Mutant: nothing is read of a file that was removed.
ReadForLive(ev) ==
    IF cache.entries[ev.key].kind = "file" /\ ev.is # "delete" THEN ev.key ELSE NoKey

\* The entry whose file is read for an event, or NoKey.
ReadFor(ev) ==
    LET e == cache.entries[ev.key]
    IN  CASE e.kind = "file" /\ (ev.is = "initialize" => InitialTarget(disk, e.path)) -> ev.key
          [] e.kind = "link" /\ e.on /\ ev.is = "initialize" -> FileForPath(cache, e.to)
          [] e.kind = "link" /\ e.on /\ ev.is = "delete" /\ LiveEntry(cache, e.to)
                /\ EntryAt(cache, e.to).kind = "file" -> cache.wd[e.to]
          [] OTHER -> NoKey

\* Each path an entry is known by gets every line once.
PathsFor(ev) ==
    ResolveValidPaths(cache, disk, IF ev.is = "initialize" /\ ReadFor(ev) # NoKey
                                   THEN ReadFor(ev) ELSE ev.key)

AtMost(n, m) == IF n <= m THEN n ELSE m

Upto(k) == AtMost(disk.len[cache.entries[k].ino], cache.entries[k].at + MaxRead)

Read(k, times) ==
    LET i == cache.entries[k].ino
    IN  /\ delivered' = [delivered EXCEPT ![i] = [n \in DOMAIN @ |->
                            IF n \in cache.entries[k].at + 1 .. Upto(k)
                            THEN AtMost(2, @[n] + times) ELSE @[n]]]
        /\ emitted' = [emitted EXCEPT ![i] = Upto(k)]
        /\ resumes' = resumes \cup {i}

\* The inode of an entry that goes with more unread than the one read it gets.
LeftUnread(k) ==
    {cache.entries[j].ino : j \in {j \in DOMAIN cache.entries \cap {k} :
        /\ cache.entries[j].kind = "file"
        /\ cache.entries[j].at + MaxRead < disk.len[cache.entries[j].ino]}}

HandleEvent ==
    LET ev   == Head(todo)
        k    == IF Known(cache, ev.key) THEN ReadFor(ev) ELSE NoKey
        ways == IF k = NoKey THEN 0 ELSE Len(PathsFor(ev))
        c    == IF ways > 0 THEN [cache EXCEPT !.entries[k].at = Upto(k)] ELSE cache
    IN  /\ Running /\ todo # <<>>
        /\ todo' = Tail(todo)
        /\ IF ways > 0 /\ Upto(k) > cache.entries[k].at
           THEN Read(k, ways)
           ELSE UNCHANGED <<delivered, emitted, resumes>>
        /\ cache' = IF ev.is # "delete" THEN c
                    ELSE [c EXCEPT !.entries = [j \in DOMAIN @ \ {ev.key} |-> @[j]]]
        /\ past' = [past EXCEPT !.cut = IF ev.is = "delete" THEN @ \cup LeftUnread(ev.key)
                                         ELSE @]
        /\ UNCHANGED <<worldVars, queue, left, retries, spotted, lookouts, status, faults,
                       restarts>>

(***************************************************************************)
(* RestartingTailer: a rescan, or the interval, builds everything anew.    *)
(***************************************************************************)
FreshTailer(d, saved) ==
    LET made == NewFileSystem(d, saved)
    IN  /\ cache' = [made EXCEPT !.events = <<>>]
        /\ todo' = made.events
        /\ channel' = <<>> /\ seen' = <<>> /\ resumes' = {} /\ retries' = {}
        /\ queue' = [p \in Paths |-> <<>>] /\ left' = 0 /\ spotted' = Root
        /\ disk' = [d EXCEPT !.young = {}]

\* The directory that stands in for a missing one: the nearest one there is.
Nearest[p \in Paths] ==
    IF Parent[p] = Root \/ Exists(Parent[p]) THEN Parent[p] ELSE Nearest[Parent[p]]

\* Files that only the entries dropped at a restart still lead to.
Nameless == {cache.entries[k].ino : k \in DOMAIN cache.entries}
                \ {disk.node[p].ino : p \in Paths}

RestartTailer ==
    /\ \/ status = "rescan"
       \/ Running /\ scenario.reloads
    /\ restarts < MaxRestarts
    /\ restarts' = restarts + 1
    /\ IF \A p \in InitialDirs : IsDir(disk, p) \/ p \in Missing
       THEN /\ FreshTailer(disk, emitted)
            /\ status' = "running"
            /\ lookouts' = {Nearest[p] : p \in {p \in Missing : ~Exists(p)}}
            /\ past' = [past EXCEPT !.cut = @ \cup Nameless]
       ELSE /\ status' = "stopped"
            /\ UNCHANGED <<cache, todo, channel, seen, resumes, retries, queue, left, spotted,
                           disk, lookouts, past>>
    /\ UNCHANGED <<scenario, used, steps, emitted, faults, delivered>>

(***************************************************************************)
(* Initial state, next-state relation, specification.                      *)
(***************************************************************************)
Init ==
    /\ scenario \in Scenarios
    /\ disk = [node |-> scenario.node, len |-> scenario.len, young |-> {}]
    /\ used = scenario.used
    /\ emitted = scenario.saved
    /\ LET made == NewFileSystem(disk, emitted)
       IN  cache = [made EXCEPT !.events = <<>>] /\ todo = made.events
    /\ steps = 0 /\ faults = 0 /\ restarts = 0
    /\ channel = <<>> /\ seen = <<>> /\ queue = [p \in Paths |-> <<>>] /\ left = 0
    /\ resumes = {} /\ retries = {} /\ spotted = Root /\ status = "running"
    /\ lookouts = {Nearest[p] : p \in {p \in Missing : ~Exists(p)}}
    /\ delivered = [i \in Inodes |-> [n \in 1 .. MaxLines |-> 0]]
    /\ past = [names |-> [i \in Inodes |-> {p \in Paths : disk.node[p].ino = i}],
               vacated |-> {}, replaced |-> {}, unseen |-> {}, cut |-> {}, dropped |-> {},
               reused |-> {}, slipped |-> {}]

World == \E p \in Paths :
    \/ \E kind \in {"file", "dir", "link"} : Make(p, kind)
    \/ Write(p) \/ Unlink(p)
    \/ \E q \in Paths : Move(p, q)

Agent ==
    \/ Refill
    \/ \E p \in Paths : ProcessEvent(p)
    \/ \E r \in retries : RetryEvent(r)
    \/ SpotDirectory \/ WatchDirectory
    \/ HandleEvent
    \/ RestartTailer

Next == World \/ Agent

(***************************************************************************)
(* All of it runs on one thread, which polls every part again and again.   *)
(***************************************************************************)
\* The agent has something to do, other than the restarts of the interval.
Busy ==
    \/ Running /\ \/ todo # <<>> \/ channel # <<>> \/ resumes # {} \/ ~QueueEmpty
                  \/ retries # {} \/ seen # <<>> \/ spotted # Root
    \/ status = "rescan" /\ restarts < MaxRestarts

\* Weak fairness of Agent, with its guard written out.
Spec == Init /\ [][Next]_vars /\ ([]<>~Busy \/ []<><<Agent>>_vars)

(***************************************************************************)
(* Properties.                                                             *)
(***************************************************************************)

\* Nothing is left to do until the disk changes again.
Quiet == /\ Running /\ channel = <<>> /\ seen = <<>> /\ QueueEmpty /\ resumes = {}
         /\ retries = {} /\ todo = <<>> /\ spotted = Root

\* The paths of which the agent is known to lose track: moved over, passed over
\* in the scan of a directory, given up, made again or made before the watch, or renamed in
\* the cache, which leaves both names to one entry.
Excused(p) ==
    ({p} \cup Above[p]) \cap (past.replaced \cup past.dropped \cup past.reused \cup past.slipped
                                  \cup cache.passedOver \cup cache.mistaken) # {}

LinkTo(p) == \E l \in RulesPass : /\ InInitial(l) /\ disk.node[l].is = "link"
                                  /\ disk.node[l].to \in {p} \cup Above[p] /\ ~Excused(l)
InWindow(p) == disk.node[p].is = "file" /\ (InitialTarget(disk, p) \/ LinkTo(p))

\* Once all events are handled, every file that passes, under its name or by a
\* link to it or to a directory above it, is tracked, and what is read is the
\* file that has the path now; and nothing that is gone is still tracked.
CacheAgreesWithDisk == Quiet =>
    \A p \in Paths : ~Excused(p) =>
        /\ InWindow(p) => LiveEntry(cache, p) /\ EntryAt(cache, p).ino = disk.node[p].ino
        /\ cache.wd[p] # NoKey => Exists(p)

\* Once all events are handled, every line of a file that passes was sent, also
\* when the file was moved or unlinked since, unless it was gone before it was
\* opened or forgotten with more unread than one read takes.
Readable(i) ==
    /\ \E p \in past.names[i] : InInitial(p) /\ p \in RulesPass
    /\ \A p \in past.names[i] : ~Excused(p)
    /\ i \notin past.unseen \cup past.cut
AllRead(S) == \A i \in S : Readable(i) => \A n \in 1 .. disk.len[i] : delivered[i][n] > 0

EveryLineRead == Quiet => AllRead(Inodes)

\* A line is sent twice only after a restart, or when its file, a directory it
\* is in or a link to one of them was moved or unlinked, or its name was in use
\* before.
Ways(i) == LET own == past.names[i] \cup UNION {Above[p] : p \in past.names[i]}
           IN  own \cup {l \in Paths : scenario.to[l] \in own}
Disturbed(i) == past.vacated \cap Ways(i) # {}
RepeatsHaveCauses == restarts = 0 =>
    \A i \in Inodes : ~Disturbed(i) => \A n \in 1 .. MaxLines : delivered[i][n] < 2

\* Whatever was done to the disk, the agent comes to rest: resumes and retries end.
SettlesDown == <>[](Quiet \/ ~Running)
=============================================================================
