---------------------------- MODULE LineMiddleware ----------------------------
(***************************************************************************)
(* The rules a line passes on its way (common/middleware/src and the       *)
(* process() of common/k8s/src/middleware/metadata.rs), as operators from  *)
(* lines to lines.                                                         *)
(*                                                                         *)
(* A line is a record: its file, given by the pod and the namespace its    *)
(* path names, or PlainFile, or NoFile; its text; its labels, annotations  *)
(* and other fields; and the ranges of the text that were redacted.  A     *)
(* text is a record of the matches of each pattern in it, in the order of  *)
(* the text: what the expressions match is the library's business, and so  *)
(* is the CRIO prefix that MetaRules takes off.  A missing value is a      *)
(* function without that key.                                              *)
(***************************************************************************)
EXTENDS Naturals, Sequences, FiniteSets, SequencesExt

NoFile == [pod |-> "none", namespace |-> "none"]
PlainFile == [pod |-> "", namespace |-> ""]  \* outside the directory of the containers
Nothing == [k \in {} |-> ""]  \* a map without a key

\* What becomes of a line: it goes on, is skipped, or makes the agent panic.
Skip == [stopped |-> "skip"]
Panic == [stopped |-> "panic"]
Stopped(r) == r \in {Skip, Panic}

Matches(text, pattern) == text.matches[pattern] # <<>>
---------------------------------------------------------------------------
(* LineRules: inclusion, exclusion, and the ranges to redact.              *)

Overlaps(m, e) ==
    \/ m.start >= e.start /\ m.start <= e.end
    \/ m.start <= e.start /\ m.end >= e.start

\* Faulty variant: the end of the later match wins.
HullOfLater(m, e) == [start |-> IF m.start < e.start THEN m.start ELSE e.start, end |-> m.end]

HullOf(m, e) == [start |-> IF m.start < e.start THEN m.start ELSE e.start,
                 end |-> IF m.end > e.end THEN m.end ELSE e.end]

\* Faulty variant: only a match that lies within another one is merged.
PlaceInside(ranges, m) ==
    LET inside(i) == m.start >= ranges[i].start /\ m.end <= ranges[i].end
        at == SelectInSeq(ranges, LAMBDA e : (m.start >= e.start /\ m.end <= e.end)
                                             \/ m.start < e.start)
    IN  IF at = 0 THEN Append(ranges, m)
        ELSE IF inside(at) THEN ranges ELSE InsertAt(ranges, at, m)

\* The match is merged with the first range it overlaps, or goes before the
\* first that starts after it; the ranges behind are not looked at again.
Place(ranges, m) ==
    LET at == SelectInSeq(ranges, LAMBDA e : Overlaps(m, e) \/ m.start < e.start)
    IN  IF at = 0 THEN Append(ranges, m)
        ELSE IF Overlaps(m, ranges[at]) THEN ReplaceAt(ranges, at, HullOf(m, ranges[at]))
        ELSE InsertAt(ranges, at, m)

RangesOf(text, patterns) ==
    FoldLeft(LAMBDA rs, p : FoldLeft(Place, rs, text.matches[p]), <<>>, patterns)

\* The pieces between the ranges are copied; a range that starts before the one
\* before it ends makes the slice panic.
Redact(line, patterns) ==
    LET ranges == RangesOf(line.text, patterns)
    IN  IF \E i \in 2 .. Len(ranges) : ranges[i].start < ranges[i - 1].end THEN Panic
        ELSE [line EXCEPT !.redacted = ranges]

LineRules(rules, line) ==
    CASE rules.inclusion # {} /\ \A p \in rules.inclusion : ~Matches(line.text, p) -> Skip
      [] (rules.inclusion = {} \/ \E p \in rules.inclusion : Matches(line.text, p))
         /\ \E p \in rules.exclusion : Matches(line.text, p) -> Skip
      [] OTHER -> Redact(line, rules.redact)
---------------------------------------------------------------------------
(* K8sLineFilter.  A rule for labels or annotations is a map from keys to  *)
(* sets of values; names and namespaces are sets, empty if there is none.  *)

\* Inclusion: a value that is there has to be listed, one that is not may be missing.
Listed(rule, map) == \A k \in DOMAIN rule \cap DOMAIN map : map[k] \in rule[k]
Unlisted(rule, map) == \A k \in DOMAIN rule \cap DOMAIN map : map[k] \notin rule[k]

Included(r, line) ==
    /\ r.namespaces = {} \/ line.file.namespace \in r.namespaces
    /\ r.names = {} \/ line.file.pod \in r.names
    /\ Listed(r.labels, line.labels) /\ Listed(r.annotations, line.annotations)

PassedOver(r, line) ==
    /\ line.file.namespace \notin r.namespaces /\ line.file.pod \notin r.names
    /\ Unlisted(r.labels, line.labels) /\ Unlisted(r.annotations, line.annotations)

K8sLineFilter(r, line) ==
    IF line.file = NoFile \/ (Included(r.inclusion, line) /\ PassedOver(r.exclusion, line))
    THEN line ELSE Skip
---------------------------------------------------------------------------
(* MetaRules.  A template is a constant, or the name of a variable with a  *)
(* default; a variable that is not found and has no default stays as it is *)
(* written.                                                                *)

Const(v) == [variable |-> <<>>, value |-> v]
Var(key, default) == [variable |-> key, value |-> default]
Substitute(t, map) == IF t.variable \in DOMAIN map THEN map[t.variable] ELSE t.value

With(map, k, v) == [x \in DOMAIN map \cup {k} |-> IF x = k THEN v ELSE map[x]]
Without(map, k) == [x \in DOMAIN map \ {k} |-> map[x]]
Prefixed(prefix, map) ==
    [key \in {<<prefix, k>> : k \in DOMAIN map} |-> map[key[2]]]
Joined(f, g) == [k \in DOMAIN f \cup DOMAIN g |-> IF k \in DOMAIN g THEN g[k] ELSE f[k]]

\* The overrides of one kind, in the order the hash map gives them; a later one
\* sees the values of those before it.  An empty value removes the key.
Override(over, order, prefix, map, old) ==
    FoldLeft(LAMBDA acc, k :
                LET v == Substitute(over[k], acc.map)
                IN  [map |-> With(acc.map, <<prefix, k>>, v),
                     new |-> IF v = "" THEN Without(acc.new, k) ELSE With(acc.new, k, v)],
             [map |-> map, new |-> old], order)

IsK8sLine(line) == \/ line.labels # Nothing \/ line.annotations # Nothing
                   \/ line.file \notin {NoFile, PlainFile}

\* The map of variables: the environment and the line.  Annotations are
\* overridden before labels, the fields last; "k8s_file" is the file of Kubernetes
\* lines.  A meta that is no JSON makes the agent panic.
MetaRules(over, orders, env, line) ==
    LET k8s == IsK8sLine(line)
        base == Joined(Prefixed("env", env),
                    Joined(Prefixed("annot", line.annotations),
                        Joined(Prefixed("label", line.labels), Prefixed("line", line.fields))))
        annotations == Override(over.annotations, IF k8s THEN orders.annotations ELSE <<>>,
                                "annot", base, line.annotations)
        labels == Override(over.labels, IF k8s THEN orders.labels ELSE <<>>,
                           "label", annotations.map, line.labels)
        keys == DOMAIN over.fields \ (IF k8s THEN {} ELSE {"k8s_file"})
        fields == [k \in keys |-> Substitute(over.fields[k], labels.map)]
    IN  IF "meta" \in keys /\ fields["meta"] = "invalid" THEN Panic
        ELSE [line EXCEPT !.annotations = annotations.new, !.labels = labels.new,
                          !.fields = Joined(@, fields)]
=============================================================================
