------------------------------- MODULE FsCache -------------------------------
(***************************************************************************)
(* The FileSystem cache: which paths the agent tracks, which file handle   *)
(* each of them reads, which links lead where. The operators take the      *)
(* cache `c' and the disk `d' as a call finds them and return the cache    *)
(* the call leaves. A call is atomic: it runs between two polls of the     *)
(* event stream. FileWatching puts them together.                          *)
(***************************************************************************)
EXTENDS Integers, FiniteSets, SequencesExt

CONSTANTS
    Paths,        \* the paths of the instance
    Root,         \* the directory above them, never tracked
    Parent,       \* Parent[p]: the directory p is in
    InitialDirs,  \* the configured log directories
    RulesPass,    \* the paths the inclusion and exclusion rules pass
    Lookback,     \* the lookback strategy
    SmallFile     \* files shorter than this are small

ASSUME PathsAssumption ==
    /\ Root \notin Paths /\ Parent \in [Paths -> Paths \cup {Root}]
    /\ InitialDirs \subseteq Paths /\ RulesPass \subseteq Paths
    /\ Lookback \in {"start", "smallfiles", "none", "tail"}
    /\ SmallFile \in Nat

NoKey == 0

\* The disk is a record: node[p] = [is, ino, to], len[i] lines are in inode i,
\* young: the inodes created after the FileSystem was built.
Absent == [is |-> "none", ino |-> 0, to |-> Root]

\* metadata(): links are followed, as often as the system does at most.
RECURSIVE KindAt(_, _, _)
KindAt(d, hops, p) ==
    IF d.node[p].is # "link" THEN d.node[p].is
    ELSE IF hops = 0 THEN "none" ELSE KindAt(d, hops - 1, d.node[p].to)

MaxHops == 40
IsDir(d, p) == KindAt(d, MaxHops, p) = "dir"
LeadsNowhere(d, p) == KindAt(d, MaxHops, p) = "none"

Children(d, p) == {q \in Paths : Parent[q] = p /\ d.node[q].is # "none"}

Above[p \in Paths] == IF Parent[p] = Root THEN {} ELSE {Parent[p]} \cup Above[Parent[p]]
InInitial(p) == ({p} \cup Above[p]) \cap InitialDirs # {}

(***************************************************************************)
(* Which paths pass.                                                       *)
(***************************************************************************)
PassesRules(p) == InInitial(p) /\ p \in RulesPass
InitialTarget(d, p) == InInitial(p) /\ (p \in RulesPass \/ IsDir(d, p))

\* symlinks.get(path): the links known to lead to p, in the order they came.
IsSymlinkTarget(c, p) == c.links[p] # <<>>

Known(c, k) == k \in DOMAIN c.entries
LiveEntry(c, p) == c.wd[p] # NoKey /\ Known(c, c.wd[p])
EntryAt(c, p) == c.entries[c.wd[p]]

RECURSIVE Reachable(_, _, _, _), ClimbFrom(_, _, _, _)
Reachable(c, d, cuts, p) ==
    LET hop  == LiveEntry(c, p) /\ EntryAt(c, p).kind = "link" /\ EntryAt(c, p).on
        t    == IF hop THEN EntryAt(c, p).to ELSE p
        seen == IF hop THEN cuts \cup {p} ELSE cuts
    IN  IF c.wd[p] # NoKey /\ ~Known(c, c.wd[p])
        THEN [cuts |-> cuts, is |-> "error"]
        ELSE IF t \notin seen /\ (InitialTarget(d, t) \/ IsSymlinkTarget(c, t))
             THEN [cuts |-> seen, is |-> "yes"]
             ELSE ClimbFrom(c, d, seen, t)
ClimbFrom(c, d, cuts, p) ==
    IF Parent[p] = Root THEN [cuts |-> cuts, is |-> "no"]
    ELSE LET a == Parent[p]
             r == FoldLeft(LAMBDA acc, s :
                               IF acc.is = "error" THEN acc ELSE Reachable(c, d, acc.cuts, s),
                           [cuts |-> cuts, is |-> "no"], c.links[a])
         IN  CASE r.is = "error" -> r
               [] r.is # "error" /\ a \in r.cuts -> [r EXCEPT !.is = "no"]
               [] r.is # "error" /\ a \notin r.cuts
                     /\ (PassesRules(a) \/ IsSymlinkTarget(c, a)) -> [r EXCEPT !.is = "yes"]
               [] OTHER -> ClimbFrom(c, d, r.cuts, a)

Passes(c, d, p) == InitialTarget(d, p) \/ Reachable(c, d, {}, p).is = "yes"

(***************************************************************************)
(* Registering entries.                                                    *)
(***************************************************************************)
Answer(c, res) == [c EXCEPT !.res = res]
Announce(c, what, k) == [c EXCEPT !.events = Append(@, [is |-> what, key |-> k]),
                                  !.res = "ok"]

NewEntry(p, kind, ino, to, at) ==
    [path |-> p, kind |-> kind, ino |-> ino, to |-> to, on |-> TRUE, at |-> at,
     kids |-> [q \in Paths |-> NoKey]]

\* Every live link to p is switched. The code panics on an entry that is no link.
Toggle(c, p, on) ==
    LET keys == {c.wd[s] : s \in {s \in Range(c.links[p]) : LiveEntry(c, s)}}
    IN  [c EXCEPT !.entries = [k \in DOMAIN @ |->
                                  IF k \in keys THEN [@[k] EXCEPT !.on = on] ELSE @[k]],
                  !.panic = @ \/ \E k \in keys : c.entries[k].kind # "link"]

\* A path has one key at most: every push follows a look for the path. A path
\* that cannot be watched keeps its entry, and nothing leads to it.
Register(c, bad, k) ==
    LET e  == c.entries[k]
        c1 == IF e.kind = "link" THEN [c EXCEPT !.links[e.to] = Append(@, e.path)] ELSE c
    IN  IF e.kind # "link" /\ e.path \in bad.watch
        THEN [Answer(c, "watch") EXCEPT !.passedOver = @ \cup {e.path}]
        ELSE [Answer(Toggle(c1, e.path, TRUE), "ok") EXCEPT !.wd[e.path] = k]

AddEntry(c, bad, e) ==
    Register([c EXCEPT !.entries = (c.next :> e) @@ @, !.next = @ + 1], bad, c.next)

\* The key of the new entry is c.next of the cache it is called with.
RegisterAsChild(c, bad, e) ==
    LET c1 == AddEntry(c, bad, e)
        up == IF Parent[e.path] = Root THEN NoKey ELSE c1.wd[Parent[e.path]]
    IN  IF c1.res # "ok" THEN c1
        ELSE IF up = NoKey THEN Announce(c1, "new", c.next)
        ELSE IF ~Known(c1, up) \/ c1.entries[up].kind # "dir" THEN Answer(c1, "parent")
        ELSE Announce([c1 EXCEPT !.entries[up].kids[e.path] = c.next], "new", c.next)

\* The directory of a link, or of its target, is watched even when no rule passes it.
RegisterDirOf(c, d, bad, p) ==
    IF Parent[p] = Root \/ c.wd[Parent[p]] # NoKey THEN Answer(c, "ok")
    ELSE AddEntry(c, bad, NewEntry(Parent[p], "dir", d.node[Parent[p]].ino, Root, 0))

Unregister(c, k) ==
    LET e  == c.entries[k]
        p  == e.path
        c1 == [c EXCEPT !.wd[p] = IF @ = k THEN NoKey ELSE @]
        c2 == IF e.kind = "link" /\ e.on
              THEN [c1 EXCEPT !.links[e.to] = RemoveFirst(@, p)] ELSE c1
    IN  IF ~Known(c, k) \/ c.wd[p] = NoKey THEN c
        ELSE Toggle(c2, p, FALSE)

(***************************************************************************)
(* Where a new entry starts to read.                                       *)
(***************************************************************************)
DefaultOffset(d, i) ==
    CASE Lookback = "start"      -> 0
      [] Lookback = "smallfiles" -> IF d.len[i] < SmallFile THEN 0 ELSE d.len[i]
      [] Lookback = "none"       -> d.len[i]
      [] Lookback = "tail"       -> IF i \in d.young THEN 0 ELSE d.len[i]

InitialOffset(c, d, i) ==
    IF c.saved[i] >= 0 /\ c.saved[i] <= d.len[i] THEN c.saved[i] ELSE DefaultOffset(d, i)

(***************************************************************************)
(* Inserting a path: `bad' has the paths that cannot be opened and those   *)
(* that cannot be watched this time.                                       *)
(***************************************************************************)
NoFaults == [open |-> {}, watch |-> {}]

RECURSIVE InsertHelper(_, _, _, _)
Insert(c, d, bad, p) ==
    IF Passes(c, d, p) THEN InsertHelper(c, d, bad, p) ELSE Answer(c, "none")

InsertFile(c, d, bad, p) ==
    LET i  == d.node[p].ino
        c1 == [c EXCEPT !.inode[i] = p]
    IN  IF p \in bad.open THEN Answer(c1, "file")
        ELSE RegisterAsChild(c1, bad, NewEntry(p, "file", i, Root, InitialOffset(c, d, i)))

\* Mutant: what is in a new directory is not looked at.
InsertDirUnscanned(c, d, bad, p) ==
    IF p \in bad.open THEN Answer(c, "file")
    ELSE RegisterAsChild(c, bad, NewEntry(p, "dir", d.node[p].ino, Root, 0))

\* What goes wrong with a child is logged, and the child is left alone.
InsertDir(c, d, bad, p) ==
    LET c1 == RegisterAsChild(c, bad, NewEntry(p, "dir", d.node[p].ino, Root, 0))
        Child(acc, q) ==
            LET a == Insert(acc, d, bad, q)
            IN  IF a.res = "file" THEN [a EXCEPT !.passedOver = @ \cup {q}] ELSE a
    IN  IF p \in bad.open THEN Answer(c, "file")
        ELSE IF c1.res # "ok" THEN c1
        ELSE Answer(FoldLeft(Child, c1, SetToSeq(Children(d, p))), "ok")

\* A link to nothing is tracked, and the call then fails on its target.
InsertLink(c, d, bad, p) ==
    LET t  == d.node[p].to
        c0 == RegisterDirOf(c, d, bad, p)
        c1 == RegisterAsChild(c0, bad, NewEntry(p, "link", 0, t, 0))
        c2 == RegisterDirOf(c1, d, bad, t)
        c3 == InsertHelper(c2, d, bad, t)
    IN  IF c0.res # "ok" THEN c0
        ELSE IF c1.res # "ok" THEN c1
        ELSE IF c2.res # "ok" THEN c2
        ELSE IF d.node[t].is = "none" THEN Answer(c2, "missing")
        ELSE Answer(IF c3.res = "file" THEN [c3 EXCEPT !.passedOver = @ \cup {t}] ELSE c3, "ok")

\* Mutant: a path that is tracked already is inserted again.
InsertHelperAgain(c, d, bad, p) ==
    CASE d.node[p].is = "file" -> InsertFile(c, d, bad, p)
      [] d.node[p].is = "dir"  -> IF c.wd[p] # NoKey THEN Answer(c, "none")
                                  ELSE InsertDir(c, d, bad, p)
      [] OTHER -> Answer(c, "none")

InsertHelper(c, d, bad, p) ==
    CASE c.wd[p] # NoKey          -> Answer(c, "none")
      [] c.wd[p] = NoKey /\ d.node[p].is = "file" -> InsertFile(c, d, bad, p)
      [] c.wd[p] = NoKey /\ d.node[p].is = "dir"  -> InsertDir(c, d, bad, p)
      [] c.wd[p] = NoKey /\ d.node[p].is = "link" -> InsertLink(c, d, bad, p)
      [] OTHER                    -> Answer(c, "none")

(***************************************************************************)
(* Dropping entries.                                                       *)
(***************************************************************************)
\* WalkDir::new(p): p and all below it, in any order of the directories.
RECURSIVE Walk(_, _)
Walk(d, p) ==
    LET below == SetToSeq(Children(d, p))
    IN  <<p>> \o FlattenSeq([i \in DOMAIN below |-> Walk(d, below[i])])

\* The keys of the paths to which no other way leads than the link at `from'
\* that is gone. What one look has ruled out stays so for the next.
Unreachable(c, d, from, ps) ==
    LET Look(acc, p) ==
            LET r == Reachable(c, d, acc.cuts, p)
            IN  [cuts |-> r.cuts,
                 keys |-> IF r.is = "no" /\ c.wd[p] # NoKey
                          THEN Append(acc.keys, c.wd[p]) ELSE acc.keys]
    IN  FoldLeft(Look, [cuts |-> {from}, keys |-> <<>>], ps).keys

RECURSIVE DropEntry(_, _, _)
DropEntry(c, d, k) ==
    LET e    == c.entries[k]
        gone == Announce(Unregister(c, k), "delete", k)
        kids == SelectSeq(SetToSeq(Range(e.kids)), LAMBDA q : q # NoKey)
        \* What the link led to, and no other way leads to, goes with it.
        under == IF e.on /\ ~LeadsNowhere(d, e.to)
                 THEN SelectSeq(Walk(d, e.to), LAMBDA p : p \notin InitialDirs) ELSE <<>>
        lost == Unreachable(gone, d, e.path, under)
    IN  CASE ~Known(c, k) -> c
          [] Known(c, k) /\ e.kind = "file" -> gone
          [] Known(c, k) /\ e.kind = "dir" ->
                FoldLeft(LAMBDA acc, q : DropEntry(acc, d, q), gone, kids)
          [] Known(c, k) /\ e.kind = "link" ->
                FoldLeft(LAMBDA acc, q : DropEntry(acc, d, q), gone, lost)

\* The name is taken out of the parent by its full path, which is not how it
\* was put in: the parent keeps the child. The parent itself is never removed
\* with its last child, because the two counts compared are of an Option.
RemovePath(c, d, p) ==
    LET up == IF Parent[p] = Root THEN NoKey ELSE c.wd[Parent[p]]
    IN  IF up # NoKey /\ Known(c, up) /\ c.entries[up].kind # "dir" THEN Answer(c, "parent")
        ELSE Answer(DropEntry(c, d, c.wd[p]), "ok")

(***************************************************************************)
(* Events of the watcher.                                                  *)
(***************************************************************************)
\* Mutant: only files are taken off.
ProcessDeleteFiles(c, d, p) ==
    IF LiveEntry(c, p) /\ EntryAt(c, p).kind = "file" THEN RemovePath(c, d, p)
    ELSE Answer(c, "ok")

ProcessDelete(c, d, p) ==
    IF c.wd[p] = NoKey THEN Answer(c, "ok")
    ELSE IF ~Known(c, c.wd[p]) THEN Answer(c, "lookup")
    ELSE IF EntryAt(c, p).path \in InitialDirs THEN Answer(c, "rescan")
    ELSE RemovePath(c, d, EntryAt(c, p).path)

ProcessModify(c, p) ==
    IF c.wd[p] = NoKey THEN Answer(c, "untracked") ELSE Announce(c, "write", c.wd[p])

\* Only the entry at the new path is taken off the descriptors, so the old
\* path keeps leading to the entry that moved away.
ProcessRename(c, from, to) ==
    LET k    == c.wd[from]
        Without(up) == [c EXCEPT !.entries[up].kids[c.entries[k].path] = NoKey]
        c1   == IF Parent[from] # Root /\ LiveEntry(c, Parent[from])
                THEN Without(c.wd[Parent[from]]) ELSE c
        c2   == [c1 EXCEPT !.entries[k].path = to, !.wd[to] = k,
                               !.mistaken = @ \cup {from, to}]
    IN  Answer(IF Parent[to] # Root /\ LiveEntry(c, Parent[to])
               THEN [c2 EXCEPT !.entries[c.wd[Parent[to]]].kids[to] = k] ELSE c2, "ok")

Process(c0, d, bad, ev) ==
    LET c      == [c0 EXCEPT !.events = <<>>, !.res = "ok"]
        fromOk == ev.is = "rename" /\ LiveEntry(c, ev.path)
                     /\ Passes(c, d, EntryAt(c, ev.path).path)
        toOk   == ev.is = "rename" /\ Passes(c, d, ev.to)
        made   == Insert(c, d, bad, ev.path)
    IN  CASE ev.is = "create" -> made
          [] ev.is = "write"  -> IF c.wd[ev.path] # NoKey THEN ProcessModify(c, ev.path)
                                 ELSE IF made.res \in {"ok", "none"}
                                 THEN ProcessModify(made, ev.path) ELSE made
          [] ev.is = "remove" -> ProcessDelete(c, d, ev.path)
          [] ev.is = "rename" -> CASE toOk /\ fromOk  -> ProcessRename(c, ev.path, ev.to)
                                   [] toOk /\ ~fromOk -> Insert(c, d, bad, ev.to)
                                   [] ~toOk /\ fromOk -> ProcessDelete(c, d, ev.path)
                                   [] OTHER           -> c

\* The tailer looks at the events of a call that went well only.
Answered(c) == c.res \in {"ok", "none"}

(***************************************************************************)
(* The paths under which the lines of an entry are sent.                   *)
(***************************************************************************)
FromRoot[p \in Paths] ==
    IF Parent[p] = Root THEN <<p>> ELSE Append(FromRoot[Parent[p]], p)

\* The entry's own path, unless it is a directory, and those of the links to
\* it and to the directories above it. A path that leads through a link to a
\* directory is none of them: the link gives its own path only.
RECURSIVE ResolveValidPaths(_, _, _)
ResolveValidPaths(c, d, k) ==
    LET p    == c.entries[k].path
        self == IF InitialTarget(d, p) /\ ~IsDir(d, p) THEN <<p>> ELSE <<>>
        to   == FlattenSeq([i \in DOMAIN FromRoot[p] |-> c.links[FromRoot[p][i]]])
        ways == SelectSeq(to, LAMBDA s : LiveEntry(c, s))
    IN  self \o FlattenSeq([i \in DOMAIN ways |-> ResolveValidPaths(c, d, c.wd[ways[i]])])

(***************************************************************************)
(* A new FileSystem: everything under the log directories is inserted.     *)
(* saved[i] is the offset known for inode i, or -1.                        *)
(***************************************************************************)
EmptyCache(saved) ==
    [wd |-> [p \in Paths |-> NoKey], entries |-> [k \in {} |-> NoKey], next |-> 1,
     links |-> [p \in Paths |-> <<>>], inode |-> [i \in DOMAIN saved |-> Root],
     saved |-> saved, events |-> <<>>, res |-> "ok", panic |-> FALSE,
     passedOver |-> {}, mistaken |-> {}]

NewFileSystem(d, saved) ==
    LET made == FoldLeft(LAMBDA acc, p : Insert(acc, d, NoFaults, p), EmptyCache(saved),
                         SetToSeq(InitialDirs))
    IN  [made EXCEPT !.events = [i \in DOMAIN @ |-> [@[i] EXCEPT !.is = "initialize"]]]
=============================================================================
