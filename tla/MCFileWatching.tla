---------------------------- MODULE MCFileWatching ----------------------------
EXTENDS FileWatching

MCPaths == {"base", "logs", "app", "old", "sub", "deep", "link", "out", "target"}
MCParent == [p \in MCPaths |->
    CASE p \in {"base", "out"} -> "/"
      [] p = "logs" -> "base"
      [] p \in {"app", "old", "sub", "link"} -> "logs"
      [] p = "deep" -> "sub"
      [] p = "target" -> "out"]

D(i) == [is |-> "dir", ino |-> i, to |-> "/"]
F(i) == [is |-> "file", ino |-> i, to |-> "/"]
Link(t) == [is |-> "link", ino |-> 0, to |-> t]
Tree(t) == [p \in MCPaths |-> IF p \in DOMAIN t THEN t[p] ELSE Absent]
Logs == [base |-> D(1), logs |-> D(2)]

\* A scenario: the disk to start with, the changes that may be made to it, how
\* many, how often a path cannot be opened, and whether the tailer is restarted.
Scenario(t, n, lines, ops, changes, failures) ==
    [node |-> Tree(t), used |-> n, ops |-> ops, steps |-> changes, faults |-> failures,
     missing |-> {}, reloads |-> FALSE,
     len |-> [i \in 1 .. 6 |-> IF i \in lines THEN 1 ELSE 0],
     saved |-> [i \in 1 .. 6 |-> -1],
     to |-> [p \in MCPaths |-> IF p = "link" THEN "target" ELSE "/"]]

Op(op, p, kind) == [op |-> op, path |-> p, kind |-> kind]
FileOps(p) == {Op("make", p, "file"), Op("write", p, "file"), Op("unlink", p, "file")}
DirOps(p) == {Op("make", p, "dir"), Op("unlink", p, "dir")}
LinkOps == {Op("make", "link", "link"), Op("make", "link", "file"), Op("unlink", "link", "link")}

Rotation == Scenario(Logs @@ [app |-> F(3)], 3, {3},
                     FileOps("app") \cup {Op("move", "app", "old"), Op("write", "old", "file")},
                     6, 0)
Directories == Scenario(Logs, 2, {}, DirOps("sub") \cup FileOps("deep"), 6, 0)
Links == Scenario(Logs @@ [out |-> D(3), target |-> F(4), link |-> Link("target")], 4, {4},
                  LinkOps \cup FileOps("target"), 5, 0)
\* The link to a directory comes while the agent runs: one that is there at the
\* start is walked through as well, and its files get names of their own by it.
DirLinks == [Scenario(Logs @@ [out |-> D(3), target |-> F(4)], 4, {4},
                      {Op("make", "link", "link"), Op("unlink", "link", "link")}
                          \cup FileOps("target"), 5, 1) EXCEPT !.to["link"] = "out"]
MissingLogs == [Scenario([out |-> D(1)], 1, {},
                         {Op("make", "base", "dir"), Op("make", "logs", "dir")}
                             \cup FileOps("app"), 5, 0) EXCEPT !.missing = {"logs"}]
Faults == Scenario(Logs, 2, {}, {Op("make", "sub", "dir")} \cup FileOps("deep") \cup FileOps("app"), 4, 2)
Reloads == [Scenario(Logs @@ [app |-> F(3)], 3, {3}, FileOps("app") \cup DirOps("logs"), 5, 0)
               EXCEPT !.reloads = TRUE]

MCScenarios == {Rotation, Directories, Links, DirLinks, MissingLogs, Faults, Reloads}
=============================================================================
