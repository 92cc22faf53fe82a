------------------------------- MODULE PodLines -------------------------------
(***************************************************************************)
(* The lines of the containers on their way through the middlewares: the   *)
(* closure of lines_stream in bin/src/_main.rs, with the metadata of       *)
(* PodMetadata and the rules of LineMiddleware.                            *)
(*                                                                         *)
(* A line of a container is first validated: a line whose pod is not known *)
(* is put back for a while, and when its tries are used up it goes out as  *)
(* it is, past every rule.  The task that keeps the store may run between  *)
(* the validation of a line and its processing.  A panic ends the agent.   *)
(***************************************************************************)
EXTENDS PodMetadata, LineMiddleware

CONSTANTS
    AllSettings,   \* what may be configured: enrichment, retries, the rules
    Texts,         \* the texts of the lines
    PodFacts,      \* namespace of each pod, labels and annotations of its incarnations
    Tries,         \* RETRY_LIMIT
    LineCost       \* bound: a line that is read counts as this many changes
ASSUME PodLinesAssumption ==
    /\ Tries \in Nat /\ LineCost \in Nat \ {0}
    /\ DOMAIN PodFacts = Pods
    /\ NoFile.pod \notin Pods

\* What find_iter of an expression gives: its matches in the order of the text,
\* none beginning before the end of another.
ASSUME MatchesInOrder ==
    \A t \in Texts, s \in AllSettings :
        /\ s.rules.redact \in Seq(DOMAIN t.matches)
        /\ \A p \in Range(s.rules.redact) :
              /\ t.matches[p] \in Seq([start : Nat, end : Nat])
              /\ \A i, j \in DOMAIN t.matches[p] :
                    /\ t.matches[p][i].start <= t.matches[p][i].end
                    /\ i < j => t.matches[p][i].end <= t.matches[p][j].start

VARIABLES
    settings,
    lines,         \* lines of containers that were read, with their tries
    last           \* history: what became of the last line that left

lineVars == <<settings, lines, last>>
vars == <<podVars, lineVars>>

None == [result |-> "none"]
Panicked == last.result = "panic"

Init == PodInit /\ settings \in AllSettings /\ lines = {} /\ last = None
---------------------------------------------------------------------------
LineOf(file, text) ==
    [file |-> file, text |-> text, labels |-> Nothing, annotations |-> Nothing,
     fields |-> Nothing, redacted |-> <<>>]
FileOf(f) == [pod |-> f.pod, namespace |-> PodFacts[f.pod].namespace]

\* K8sMetadata::process
Enriched(line, pod, gen) ==
    IF gen = 0 THEN line
    ELSE [line EXCEPT !.labels = PodFacts[pod].labels[gen],
                      !.annotations = PodFacts[pod].annotations[gen]]

Then(r, F(_)) == IF Stopped(r) THEN r ELSE F(r)

\* Faulty variant: the overrides come before the filter.
ChainOverridesFirst(line) ==
    Then(MetaRules(settings.over, settings.orders, settings.env, line),
         LAMBDA m : Then(IF settings.enrichment THEN K8sLineFilter(settings.k8s, m) ELSE m,
                         LAMBDA l : LineRules(settings.rules, l)))

\* The executor, after the metadata: in the order in which _main registers.
Chain(line) ==
    Then(IF settings.enrichment THEN K8sLineFilter(settings.k8s, line) ELSE line,
         LAMBDA l : Then(LineRules(settings.rules, l),
                         LAMBDA m : MetaRules(settings.over, settings.orders, settings.env, m)))

\* What leaves: the line as the rules made it, or that it was skipped.
Left(r, text, file, gen) ==
    IF Stopped(r) THEN [result |-> r.stopped, text |-> text, file |-> file, known |-> gen]
    ELSE [result |-> "sent", text |-> text, file |-> file, known |-> gen,
          labels |-> r.labels, redacted |-> r.redacted]
Bare(l) == [result |-> "bare", text |-> l.text, file |-> l.file, known |-> 0]
---------------------------------------------------------------------------
Read(f, text) ==
    /\ count.changes + LineCost <= MaxChanges
    /\ count' = [count EXCEPT !.changes = @ + LineCost]
    /\ lines' = lines \cup {[file |-> f, text |-> text, tries |-> 0, valid |-> FALSE]}
    /\ UNCHANGED <<ident, live, gens, files, acks, watch, runner, store, waiting, past,
                   settings, last>>

\* K8sMetadata::validate; the other middlewares let every line pass.
Known(f) == ~settings.enrichment \/ View[f.pod] # 0

Validate(l) ==
    /\ ~l.valid /\ Known(l.file)
    /\ lines' = (lines \ {l}) \cup {[l EXCEPT !.valid = TRUE]}
    /\ UNCHANGED <<podVars, settings, last>>

Retry(l) ==
    /\ ~l.valid /\ ~Known(l.file)
    /\ settings.retries /\ l.tries < Tries
    /\ lines' = (lines \ {l}) \cup {[l EXCEPT !.tries = @ + 1]}
    /\ UNCHANGED <<podVars, settings, last>>

SendAsIs(l) ==
    /\ ~l.valid /\ ~Known(l.file)
    /\ settings.retries => l.tries = Tries
    /\ lines' = lines \ {l}
    /\ last' = Bare(l)
    /\ UNCHANGED <<podVars, settings>>

\* The pod may have left the store since the line was validated.
Process(l) ==
    /\ l.valid
    /\ LET gen == IF settings.enrichment THEN View[l.file.pod] ELSE 0
           line == Enriched(LineOf(FileOf(l.file), l.text), l.file.pod, gen)
       IN  last' = Left(Chain(line), l.text, l.file, gen)
    /\ lines' = lines \ {l}
    /\ UNCHANGED <<podVars, settings>>

\* Lines of the journal and of other files have no metadata to wait for.
OtherLine(file, text) ==
    /\ count.changes + LineCost <= MaxChanges
    /\ count' = [count EXCEPT !.changes = @ + LineCost]
    /\ last' = Left(Chain(LineOf(file, text)), text, file, 0)
    /\ UNCHANGED <<ident, live, gens, files, acks, watch, runner, store, waiting, past,
                   settings, lines>>

Lines == \/ \E f \in files, t \in Texts : Read(f, t)
         \/ \E l \in lines : Validate(l) \/ Retry(l) \/ SendAsIs(l) \/ Process(l)
         \/ \E file \in {NoFile, PlainFile}, t \in Texts : OtherLine(file, t)

\* Without enrichment no middleware for the metadata is registered.
Metadata == settings.enrichment /\ (Middleware \/ WatchFails) /\ UNCHANGED lineVars
Changed == Cluster /\ UNCHANGED lineVars

Next == ~Panicked /\ (Changed \/ Metadata \/ Lines)

\* The tasks of the runner and of the store are not starved.
Busy == /\ ~Panicked /\ settings.enrichment
        /\ runner.phase # "running" \/ ~watch.open \/ ~watch.listed
Spec == /\ Init /\ [][Next]_vars
        /\ []<>~Busy \/ []<><<Metadata>>_vars
---------------------------------------------------------------------------
Bytes(ranges) == UNION {r.start .. (r.end - 1) : r \in Range(ranges)}
Patterns == Range(settings.rules.redact)

(* Of a line that went through the rules exactly the bytes that some       *)
(* redaction pattern matches are replaced, however the matches of the      *)
(* patterns overlap, it matches an inclusion pattern if there is one and   *)
(* no exclusion pattern.                                                   *)
RulesApplied ==
    last.result = "sent" =>
        /\ Bytes(last.redacted) = UNION {Bytes(last.text.matches[p]) : p \in Patterns}
        /\ \A p \in settings.rules.exclusion : last.text.matches[p] = <<>>
        /\ \/ settings.rules.inclusion = {}
           \/ \E p \in settings.rules.inclusion : last.text.matches[p] # <<>>

Apart(a, b) == a.end < b.start \/ b.end < a.start

(* The agent panics in a redaction only when a match bridges two places    *)
(* that are apart, one of an earlier pattern and one of an earlier pattern *)
(* or of its own, which it touches; and otherwise only when a variable in  *)
(* the meta object has a value that makes it invalid.                      *)
PanicsHaveCauses ==
    Panicked =>
        \/ \E i, j, k \in DOMAIN settings.rules.redact :
              LET At(n) == Range(last.text.matches[settings.rules.redact[n]])
              IN  /\ i <= k /\ j < k
                  /\ \E a \in At(i), b \in At(j), c \in At(k) :
                        Apart(a, b) /\ Overlaps(c, a) /\ Overlaps(c, b)
        \/ "meta" \in DOMAIN settings.over.fields

ExcludedBy(map, rule) == \E key \in DOMAIN map \cap DOMAIN rule : map[key] \in rule[key]

(* A line of a pod whose labels are excluded leaves the agent in three     *)
(* ways only: as it is, when its tries are used up; without labels, when   *)
(* the pod left the store between the validation and the processing; or    *)
(* with the labels of another incarnation of the pod.  What an override    *)
(* makes of the labels does not count.                                     *)
ExcludedPodsSilent ==
    last.result = "sent" /\ last.known # 0 =>
        LET f == last.file
        IN  f.gen = last.known =>
                ~ExcludedBy(PodFacts[f.pod].labels[f.gen], settings.k8s.exclusion.labels)

(* Whatever fails, the runner gets a watch again whose list was taken, and *)
(* the middleware reads its store.                                         *)
WatchComesBack ==
    []<>(Panicked \/ ~settings.enrichment
         \/ (runner.phase = "running" /\ watch.listed /\ watch.open))

(* The ranges to redact stay in order and apart, as line_rules.rs:88 has   *)
(* it ("Order is guaranteed so there's no need to continue processing").   *)
RedactionKeepsOrder ==
    last.result \in {"sent", "panic"} =>
        \E ranges \in {RangesOf(last.text, settings.rules.redact)} :
            \A i \in 2 .. Len(ranges) : ranges[i - 1].end <= ranges[i].start
=============================================================================
