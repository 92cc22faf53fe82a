---------------------------- MODULE Configuration ----------------------------
(***************************************************************************)
(* How the agent comes to its configuration (common/config/src): options   *)
(* of the command line and variables of the environment, the file of the   *)
(* former agent (properties), and the YAML file.                           *)
(*                                                                         *)
(* The two files are merged setting by setting (raw.rs), the options are   *)
(* put over the result (argv.rs), and what comes out is converted, or the  *)
(* agent does not start (lib.rs).  A setting is a name, its value a member *)
(* of a small set: "zero" is the default of its type (0, or an empty text) *)
(* and "d" the default of the agent.  An optional value is a sequence of   *)
(* length 0 or 1.  An entry of a list is a sequence of parts, which stand  *)
(* between its commas; a part may have commas of its own, behind a         *)
(* backslash each.                                                         *)
(***************************************************************************)
EXTENDS Naturals, Sequences, FiniteSets, SequencesExt

CONSTANTS
    Offered,     \* what may be written where: records of source, name and value
    Bases,       \* what YAML files may say to begin with: names with their values
    Escaped,     \* parts with commas behind a backslash, with what is between those
    MaxGiven     \* bound on the settings written down

VARIABLES
    given,       \* by source: the names written there, with their values
    files,       \* what is at the two default paths
    phase,       \* where the start of the agent is
    raw,         \* the raw configuration so far
    effective    \* the configuration with which the agent runs

vars == <<given, files, phase, raw, effective>>

\* What is left of a part when its backslashes are taken away.
Entry(part) == IF part \in DOMAIN Escaped THEN Escaped[part] ELSE <<part>>

None == <<>>
Some(v) == <<v>>
OrElse(option, default) == IF option = None THEN default ELSE option[1]
Either(option, other) == IF option = None THEN other ELSE option

Texts == {"host", "endpoint", "ingestion_key", "retry_dir", "db_path"}
Numbers == {"timeout", "gzip_level", "body_size", "flush_duration", "retry_disk_limit",
            "retry_base_delay_ms", "retry_step_delay_ms", "metrics_port",
            "clear_cache_interval", "metadata_retry_delay"}
Enumerated == {"lookback", "use_k8s_enrichment", "log_k8s_events", "log_metric_server_stats"}
Scalars == Texts \cup Numbers \cup Enumerated
Switches == {"use_ssl", "use_compression"}
Lists == {"line_exclusion_regex", "line_inclusion_regex", "line_redact_regex",
          "k8s_metadata_include", "k8s_metadata_exclude"}
Rules == {"include", "exclude"}
RegexOf == [include |-> "include_regex", exclude |-> "exclude_regex"]
TailerCommand == {"tailer_cmd", "tailer_args"}
Fields == Scalars \cup Switches \cup Lists \cup Rules \cup TailerCommand
          \cup {"dirs", "params", "journald", "startup"}

Tailer == "systemd_journal_tailer"
ListNames == Lists \cup Rules \cup {"include_regex", "exclude_regex"}
             \cup {"dirs", "tags", "journald_paths"}
ParamTexts == {"hostname", "ip", "mac"}

NoRules == [glob |-> <<>>, regex |-> <<>>]
NoParams == [hostname |-> None, ip |-> None, mac |-> None, tags |-> <<>>]
NoJournald == [paths |-> None, tailer |-> Some(TRUE)]  \* JournaldConfig::default()

\* Config::default()
Default ==
    [s \in Fields |->
        CASE s \in {"host", "endpoint", "timeout", "gzip_level", "body_size", "retry_dir",
                    "clear_cache_interval"} -> Some("d")
          [] s = "metadata_retry_delay" -> Some("zero")
          [] s \in Switches -> Some(TRUE)
          [] s = "dirs" -> Some(<<Entry("d")>>)
          [] s \in Rules -> Some([NoRules EXCEPT !.glob = <<Entry("d")>>])
          [] OTHER -> None]

Sources == {"deprecated", "argument", "logdna", "env", "yaml", "legacy"}

\* A switch is said to be on or off, and a list is a list: of items in the former
\* file, elsewhere of entries; a deprecated variable has a single one.
Worded(source, name, value) ==
    /\ name \in Switches \cup {Tailer} => value \in BOOLEAN
    /\ name \in ListNames => value \in (IF source = "legacy" THEN Seq(STRING) ELSE Seq(Seq(STRING)))
    /\ name \in ListNames /\ source = "deprecated" => Len(value) = 1

\* A YAML file without directories cannot be read.
ASSUME ConfigurationAssumption ==
    /\ MaxGiven \in Nat
    /\ \A o \in Offered : o.source \in Sources /\ Worded(o.source, o.name, o.value)
    /\ \A part \in DOMAIN Escaped : Escaped[part] \in Seq(STRING)
    /\ DOMAIN Bases \cap {"absent", "broken", "properties"} = {}
    /\ \A base \in DOMAIN Bases :
          /\ "dirs" \in DOMAIN Bases[base]
          /\ \A n \in DOMAIN Bases[base] : Worded("yaml", n, Bases[base][n])

Has(source, name) == name \in DOMAIN given[source]
Given(source, name) == IF Has(source, name) THEN Some(given[source][name]) ELSE None

Init ==
    /\ given = [source \in Sources |-> <<>>]
    /\ files = [yaml |-> "absent", legacy |-> "absent"]
    /\ phase = "stopped"
    /\ raw = None /\ effective = None
---------------------------------------------------------------------------
(* What the user writes, while the agent is not running.                   *)

\* What was written in a source, beyond what was there to begin with.
Written(source) ==
    IF source = "yaml" /\ files.yaml \in DOMAIN Bases
    THEN {n \in DOMAIN given.yaml : n \in DOMAIN Bases[files.yaml] =>
                                        given.yaml[n] # Bases[files.yaml][n]}
    ELSE DOMAIN given[source]
AmountGiven == FoldSet(LAMBDA source, n : n + Cardinality(Written(source)), 0, Sources)

CreateFile(file, is) ==
    /\ phase = "stopped" /\ files[file] = "absent"
    /\ files' = [files EXCEPT ![file] = is]
    /\ given' = [given EXCEPT ![file] = IF is \in DOMAIN Bases THEN Bases[is] ELSE @]
    /\ UNCHANGED <<phase, raw, effective>>

Write(o) ==
    /\ phase = "stopped" /\ AmountGiven < MaxGiven
    /\ o.name \notin Written(o.source)
    /\ o.source = "yaml" => files.yaml \in DOMAIN Bases
    /\ o.source = "legacy" => files.legacy = "properties"
    /\ given' = [given EXCEPT ![o.source] =
                    [n \in DOMAIN @ \cup {o.name} |-> IF n = o.name THEN o.value ELSE @[n]]]
    /\ UNCHANGED <<files, phase, raw, effective>>
---------------------------------------------------------------------------
(* A single value of a list is split at its commas; several values are     *)
(* taken as they are.                                                      *)

WithCsv(values) == IF Len(values) = 1 THEN [i \in DOMAIN values[1] |-> Entry(values[1][i])]
                   ELSE values
SplitByComma(value) == WithCsv(<<value>>)

Legacy(n) == Given("legacy", n)
LegacyItems(n) == IF Legacy(n) = None THEN <<>> ELSE SplitByComma(Legacy(n)[1])
LegacyList(n) == IF Legacy(n) = None THEN None ELSE Some(LegacyItems(n))
LegacyJournald ==
    IF Legacy("journald_paths") = None THEN None
    ELSE Some([paths |-> LegacyList("journald_paths"),
               tailer |-> Either(Legacy("systemd_journal_tailer"), Some(TRUE))])

\* The former file: what is given there, over the defaults.  Lists are appended to
\* them, directories replace them.
FromProperties ==
    [s \in Fields |->
        CASE s \in Scalars \cup Switches -> Either(Legacy(s), Default[s])
          [] s = "dirs" -> Either(LegacyList(s), Default[s])
          [] s \in Lists -> LegacyList(s)
          [] s \in Rules -> Some([glob |-> Default[s][1].glob \o LegacyItems(s),
                                  regex |-> LegacyItems(RegexOf[s])])
          [] s = "journald" -> LegacyJournald
          [] s = "startup" -> IF Legacy(s) = None THEN None ELSE Some([option |-> Legacy(s)])
          [] s = "params" ->
                IF \A n \in ParamTexts \cup {"tags"} : ~Has("legacy", n) THEN None
                ELSE Some([hostname |-> Legacy("hostname"), ip |-> Legacy("ip"),
                           mac |-> Legacy("mac"), tags |-> LegacyItems("tags")])
          [] OTHER -> None]

\* The YAML file: what is not written there is missing.
FromYaml ==
    LET its(n) == Given("yaml", n)
        list(n) == OrElse(its(n), <<>>)
        of(s) == CASE s \in Rules -> <<its(s), its(RegexOf[s])>>
                   [] s = "journald" -> <<its("journald_paths"), its("systemd_journal_tailer")>>
                   [] s = "params" -> <<its("hostname"), its("ip"), its("mac"), its("tags")>>
                   [] OTHER -> <<its(s)>>
    IN  [s \in Fields |->
            IF \A i \in DOMAIN of(s) : of(s)[i] = None THEN None
            ELSE CASE s \in Rules -> Some([glob |-> list(s), regex |-> list(RegexOf[s])])
                   [] s = "journald" -> Some([paths |-> its("journald_paths"),
                                              tailer |-> its("systemd_journal_tailer")])
                   [] s = "params" -> Some([hostname |-> its("hostname"), ip |-> its("ip"),
                                            mac |-> its("mac"), tags |-> list("tags")])
                   [] s = "startup" -> Some([option |-> its(s)])
                   [] OTHER -> its(s)]

\* A section of rules has both of its lists, or the YAML file cannot be read.
RulesWhole == \A s \in Rules : Has("yaml", s) <=> Has("yaml", RegexOf[s])

\* A file is read as properties first, where a file without any is refused.
Tried(file) ==
    CASE files[file] \in {"absent", "broken"} -> None
      [] files[file] = "properties" -> IF FromProperties = Default THEN None
                                       ELSE Some(FromProperties)
      [] OTHER -> IF RulesWhole THEN Some(FromYaml) ELSE None
---------------------------------------------------------------------------
(* Merge, with the value of the later file on the right.  A value that is  *)
(* a default, of the setting or of its type, does not replace another one, *)
(* and a switch stays on.                                                  *)

NonEmpty(a, b) == IF b = <<>> THEN a ELSE b

MergedOption(a, b, default, Inner(_, _)) ==
    IF b \in {default, None} THEN a
    ELSE IF a = None THEN b ELSE Some(Inner(a[1], b[1]))

MergedValue(s, a, b) ==
    CASE s \in Switches -> a \/ b
      [] s \in Scalars -> IF b = "zero" THEN a ELSE b
      [] s \in Lists -> NonEmpty(a, b)
      [] s \in Rules -> [glob |-> NonEmpty(a.glob, b.glob), regex |-> NonEmpty(a.regex, b.regex)]
      [] s = "journald" ->
            [paths |-> MergedOption(a.paths, b.paths, None, NonEmpty),
             tailer |-> MergedOption(a.tailer, b.tailer, Some(TRUE), LAMBDA x, y : x \/ y)]
      [] s = "startup" -> [option |-> MergedOption(a.option, b.option, None,
                                                   LAMBDA x, y : IF y = "zero" THEN x ELSE y)]
      [] OTHER -> b  \* dirs, params

\* tailer_cmd and tailer_args have no part in it.
MergedFiles(a, b) ==
    [s \in Fields |-> IF s \in TailerCommand THEN a[s]
                      ELSE MergedOption(a[s], b[s], Default[s],
                                        LAMBDA x, y : MergedValue(s, x, y))]

\* The first file counts if it says anything that is not a default.
MergedNext(acc, c) ==
    IF c = None THEN acc
    ELSE IF acc # None THEN Some(MergedFiles(acc[1], c[1]))
    ELSE IF c[1] = Default THEN None ELSE c
MergedAll(confs) == FoldLeft(MergedNext, None, confs)

\* A file that cannot be read or parsed is passed over, unless nothing is left.
Parsed(paths) ==
    LET confs == [i \in DOMAIN paths |-> Tried(paths[i])]
    IN  IF MergedAll(confs) # None THEN MergedAll(confs)
        ELSE IF None \in Range(confs) THEN None ELSE Some(Default)

Paths == IF Given("argument", "config") = Some("legacy") THEN <<"legacy">>
         ELSE <<"legacy", "yaml">>

Loaded == IF Range(files) = {"absent"} THEN Some(Default) ELSE Parsed(Paths)

Parse ==
    /\ phase = "stopped"
    /\ raw' = Loaded
    /\ phase' = IF raw' = None THEN "failed" ELSE "parsed"
    /\ UNCHANGED <<given, files, effective>>
---------------------------------------------------------------------------
(* The options: a deprecated variable of the environment before the        *)
(* command line, before the variables; one that begins with LOGDNA_        *)
(* replaces the one that begins with MZ_.                                  *)

\* A list is split here already, and once more like the others.
Deprecated(n) ==
    IF n \in ListNames /\ Has("deprecated", n) THEN Some(WithCsv(given["deprecated"][n]))
    ELSE Given("deprecated", n)
Environment(n) == Either(Given("logdna", n), Given("env", n))

\* Faulty variant: the environment before the command line.
OptionsEnvFirst(n) == Either(Deprecated(n), Either(Environment(n), Given("argument", n)))

Options(n) == Either(Deprecated(n), Either(Given("argument", n), Environment(n)))
Items(n) == IF Options(n) = None THEN <<>> ELSE WithCsv(Options(n)[1])

\* The tags of the files count only where params can be built: with a hostname.
ParamsOverridden(p) ==
    LET hostname == Either(Options("hostname"), p.hostname)
        before == IF hostname = None THEN <<>> ELSE p.tags
    IN  [hostname |-> hostname,
         ip |-> Either(Options("ip"), p.ip), mac |-> Either(Options("mac"), p.mac),
         tags |-> IF Options("tags") = None THEN p.tags ELSE before \o Items("tags")]

\* The tailer is switched only where there is a section for journald.
JournaldOverridden(j) ==
    LET section == IF Options("journald_paths") = None THEN j
                   ELSE Some([OrElse(j, NoJournald) EXCEPT
                                 !.paths = Some(OrElse(@, <<>>) \o Items("journald_paths"))])
    IN  IF section = None THEN None
        ELSE Some([section[1] EXCEPT !.tailer = Either(Options("systemd_journal_tailer"), @)])

\* Faulty variant: a list of the command line replaces that of the files.
AppendedReplacing(list, n) == IF Options(n) = None THEN list ELSE Items(n)

Appended(list, n) == list \o Items(n)

\* ArgumentOptions::merge
Overridden(r) ==
    [s \in Fields |->
        CASE s \in Scalars \cup Switches -> Either(Options(s), r[s])
          [] s = "dirs" -> Some(Appended(r[s][1], s))
          [] s \in Lists -> IF Options(s) = None THEN r[s]
                            ELSE Some(Appended(OrElse(r[s], <<>>), s))
          [] s \in Rules -> LET rules == OrElse(r[s], NoRules)
                            IN  Some([glob |-> Appended(rules.glob, s),
                                      regex |-> Appended(rules.regex, RegexOf[s])])
          [] s = "params" -> Some(ParamsOverridden(OrElse(r[s], NoParams)))
          [] s = "journald" -> JournaldOverridden(r[s])
          [] s = "startup" -> IF Options(s) = None THEN r[s] ELSE Some([option |-> Options(s)])
          [] OTHER -> r[s]]

Override ==
    /\ phase = "parsed"
    /\ raw' = Some(Overridden(raw[1]))
    /\ phase' = "merged"
    /\ UNCHANGED <<given, files, effective>>
---------------------------------------------------------------------------
(* Config::try_from.  Some settings must be there; others have a default   *)
(* here too, and a choice that is unknown counts as not made, but for the  *)
(* lookback.                                                               *)

Complete(r) ==
    /\ \A s \in {"ingestion_key", "host", "endpoint"} : r[s] \notin {None, Some("zero")}
    /\ \A s \in {"use_ssl", "use_compression", "gzip_level", "timeout", "body_size"} : r[s] # None
    /\ r["lookback"] # Some("zero")

Choice(option) == IF option \in {None, Some("zero")} THEN "d" ELSE option[1]
ConvertedJournald(j) == [paths |-> OrElse(j.paths, <<>>), tailer |-> OrElse(j.tailer, TRUE)]

Converted(r) ==
    [s \in Fields |->
        CASE s \in Enumerated -> Choice(r[s])
          [] s \in {"flush_duration", "retry_dir", "db_path", "retry_base_delay_ms",
                    "retry_step_delay_ms", "clear_cache_interval"} -> OrElse(r[s], "d")
          [] s \in Lists -> OrElse(r[s], <<>>)
          [] s = "params" -> [r[s][1] EXCEPT !.hostname = OrElse(@, "d")]
          [] s = "journald" -> ConvertedJournald(OrElse(r[s], NoJournald))
          [] s = "startup" -> Choice(OrElse(r[s], [option |-> None]).option)
          [] s \in {"retry_disk_limit", "metrics_port", "metadata_retry_delay"} \cup TailerCommand -> r[s]
          [] OTHER -> r[s][1]]

Convert ==
    /\ phase = "merged"
    /\ phase' = IF Complete(raw[1]) THEN "running" ELSE "failed"
    /\ effective' = IF Complete(raw[1]) THEN Some(Converted(raw[1])) ELSE None
    /\ UNCHANGED <<given, files, raw>>

\* The agent is stopped, or could not be started, and what is written may change.
Stop ==
    /\ phase \in {"running", "failed"}
    /\ phase' = "stopped" /\ raw' = None /\ effective' = None
    /\ UNCHANGED <<given, files>>

Next ==
    \/ \E is \in {"broken", "properties"} : CreateFile("legacy", is)
    \/ \E is \in {"broken"} \cup DOMAIN Bases : CreateFile("yaml", is)
    \/ \E o \in Offered : Write(o)
    \/ Parse \/ Override \/ Convert \/ Stop

Spec == Init /\ [][Next]_vars
---------------------------------------------------------------------------
Running == phase = "running"
Optional == {"retry_disk_limit", "metrics_port", "metadata_retry_delay"}
Effective(s) == IF s \in Optional THEN effective[1][s] ELSE Some(effective[1][s])

\* A file is read if it is there, is asked for, and says something.
IsRead(file) == file \in Range(Paths) /\ Tried(file) # None

\* What the YAML file says does not stand out beside the former file: a default, a
\* value of no consequence, or a tailer for the journal of the former file.
PassedOver(name, v) ==
    \/ name \in Fields /\ FromYaml[name] = Default[name]
    \/ name \in Scalars \cup {"startup"} /\ v = "zero"
    \/ name \in Switches /\ ~v
    \/ name \in ListNames \ {"dirs", "tags"} /\ v = <<>>
    \/ name = Tailer /\ Has("legacy", "journald_paths")

\* The parameters of the YAML file replace those of the former one as a whole, and
\* the former one switches the tailer only along with the paths of the journal.
LeftOut(name) ==
    \/ /\ name \in ParamTexts \cup {"tags"} /\ IsRead("yaml")
       /\ \E n \in ParamTexts \cup {"tags"} : Has("yaml", n)
    \/ name = Tailer /\ ~Has("legacy", "journald_paths")

\* What is said of a name where it counts, and which source leads among some: the
\* options come before the files.
Counts(source, name) ==
    /\ Has(source, name)
    /\ source = "yaml" => /\ IsRead("yaml")
                          /\ ~(IsRead("legacy") /\ PassedOver(name, given["yaml"][name]))
    /\ source = "legacy" => IsRead("legacy") /\ ~LeftOut(name)
Rank == [deprecated |-> 1, argument |-> 2, logdna |-> 3, env |-> 4, yaml |-> 5, legacy |-> 6]
Leads(source, name, among) ==
    /\ source \in among /\ Counts(source, name)
    /\ \A other \in among : Counts(other, name) => Rank[source] <= Rank[other]
FileSources == {"yaml", "legacy"}
OptionSources == Sources \ FileSources

(* The agent runs with the value of the source that ranks first, whatever  *)
(* the others say and in whatever order they were written.  A value of the *)
(* YAML file that is a default, zero, or FALSE does not count when the     *)
(* former file is there (raw.rs:126, 172), and the parameters are replaced *)
(* as a whole (raw.rs:196).  Excepted are a choice that is unknown, which  *)
(* is none, and the tailer of the journal, which cannot be switched where  *)
(* no source has anything else about journald (argv.rs:346).               *)
FirstSourceCounts ==
    Running =>
        \A source \in Sources :
            /\ \A s \in Scalars \cup Switches \cup {"startup"} :
                  Leads(source, s, Sources) =>
                      \/ Effective(s) = Some(given[source][s])
                      \/ s \in Enumerated \cup {"startup"} /\ given[source][s] = "zero"
            /\ Leads(source, Tailer, Sources) =>
                  \/ effective[1]["journald"].tailer = given[source][Tailer]
                  \/ ~Counts("yaml", Tailer) /\ \A other \in Sources : ~Counts(other, "journald_paths")
            /\ Leads(source, "hostname", Sources) =>
                  effective[1]["params"].hostname = given[source]["hostname"]
            /\ Leads(source, "ip", Sources) =>
                  effective[1]["params"].ip = Some(given[source]["ip"])
            /\ Leads(source, "mac", Sources) =>
                  effective[1]["params"].mac = Some(given[source]["mac"])

\* What a source says of a list, at its commas.
Parts(source, name) ==
    CASE source = "yaml" -> Range(given[source][name])
      [] source = "legacy" -> {Entry(p) : p \in Range(given[source][name])}
      [] OTHER -> {Entry(p) : p \in UNION {Range(v) : v \in Range(given[source][name])}}

ListOf(s) == CASE s \in Rules -> effective[1][s].glob
               [] s = "include_regex" -> effective[1]["include"].regex
               [] s = "exclude_regex" -> effective[1]["exclude"].regex
               [] s = "tags" -> effective[1]["params"].tags
               [] s = "journald_paths" -> effective[1]["journald"].paths
               [] OTHER -> effective[1][s]

\* Several values are not split, and the single entry of a deprecated variable is
\* split once more.
HasCommas(value) == Len(value) > 1 \/ Range(value) \cap DOMAIN Escaped # {}
CommasMisread(source, name) ==
    LET values == given[source][name]
    IN  \/ Len(values) > 1 /\ \E v \in Range(values) : HasCommas(v)
        \/ source = "deprecated" /\ Len(values[1]) = 1 /\ HasCommas(values[1])

(* A list of the options adds to those of the files: what the user asked   *)
(* not to send, or to mask, on either side is in force.  Of the options    *)
(* the first source counts, and of the files the YAML file where it counts *)
(* at all.  Excepted are several values one of which has commas, a         *)
(* deprecated variable with a single entry that has (argv.rs:469), and     *)
(* tags of a file that has no hostname, if the options have none either.   *)
ListsAddUp ==
    Running =>
        \A s \in ListNames, source \in Sources :
            /\ Leads(source, s, OptionSources) =>
                  Parts(source, s) \subseteq Range(ListOf(s)) \/ CommasMisread(source, s)
            /\ Leads(source, s, FileSources) =>
                  \/ Parts(source, s) \subseteq Range(ListOf(s))
                  \/ /\ s = "tags" /\ Options("tags") # None
                     /\ Options("hostname") = None /\ ~Has(source, "hostname")
=============================================================================
