------------------------- MODULE ConfigurationProofs -------------------------
(***************************************************************************)
(* Proofs about Configuration: with the agent runs the value of the source *)
(* that ranks first, and the lists of the options stand beside those of    *)
(* the files.                                                              *)
(*                                                                         *)
(* The invariant is small: what is written is worded as it must be, and    *)
(* what each step has come to is what the program makes of the sources as  *)
(* they are (StageInv).  The rest is about the operators, one class of     *)
(* settings after the other: what each file says of it, what is left of    *)
(* the two, what the options make of that, and what comes out.             *)
(***************************************************************************)
EXTENDS Configuration, TLAPS

\* An optional value that is there.
LEMMA SomeIsThere == \A v : Some(v) # None /\ Some(v)[1] = v
  BY DEF Some, None

\* What is where, and what the start of the agent has come to.
Kinds == {"absent", "broken"} \cup DOMAIN Bases
SaidInv ==
    /\ DOMAIN given = Sources
    /\ \A source \in Sources : \A n \in DOMAIN given[source] : Worded(source, n, given[source][n])
    /\ DOMAIN files = {"yaml", "legacy"}
    /\ files.yaml \in Kinds /\ files.legacy \in {"absent", "broken", "properties"}
    /\ files.yaml \in DOMAIN Bases => "dirs" \in DOMAIN given["yaml"]

StageInv ==
    /\ phase \in {"stopped", "parsed", "merged", "running", "failed"}
    /\ phase = "parsed" => raw = Loaded /\ Loaded # None
    /\ phase = "merged" => raw = Some(Overridden(Loaded[1])) /\ Loaded # None
    /\ phase = "running" => /\ Loaded # None /\ Complete(Overridden(Loaded[1]))
                            /\ effective = Some(Converted(Overridden(Loaded[1])))

LEMMA InitSaid == Init => SaidInv /\ StageInv
  <1> SUFFICES ASSUME Init PROVE SaidInv /\ StageInv
    OBVIOUS
  <1>1. SaidInv
    BY ConfigurationAssumption DEF Init, SaidInv, Kinds, Sources
  <1>2. StageInv
    BY DEF Init, StageInv
  <1>. QED
    BY <1>1, <1>2

LEMMA WriteKeeps ==
  ASSUME SaidInv, NEW o \in Offered, Write(o)
  PROVE  SaidInv'
  <1>1. o.source \in Sources /\ Worded(o.source, o.name, o.value)
    BY ConfigurationAssumption
  <1> DEFINE more == [n \in DOMAIN given[o.source] \cup {o.name} |->
                         IF n = o.name THEN o.value ELSE given[o.source][n]]
  <1>2. given' = [given EXCEPT ![o.source] = more] /\ files' = files
    BY DEF Write
  <1>3. DOMAIN given' = Sources /\ given'[o.source] = more
        /\ \A source \in Sources \ {o.source} : given'[source] = given[source]
    BY <1>1, <1>2 DEF SaidInv
  <1>4. ASSUME NEW source \in Sources, NEW n \in DOMAIN given'[source]
        PROVE  Worded(source, n, given'[source][n])
    <2>1. CASE source # o.source
      BY <1>3, <1>4, <2>1 DEF SaidInv
    <2>2. CASE source = o.source
      <3>1. n \in DOMAIN given[source] \cup {o.name}
        BY <1>3, <1>4, <2>2
      <3>2. given'[source][n] = IF n = o.name THEN o.value ELSE given[source][n]
        BY <1>3, <2>2, <3>1
      <3>3. n # o.name => Worded(source, n, given[source][n])
        BY <3>1, <1>4 DEF SaidInv
      <3>. QED
        BY <1>1, <2>2, <3>2, <3>3
    <2>. QED
      BY <2>1, <2>2
  <1>5. "dirs" \in DOMAIN given["yaml"] => "dirs" \in DOMAIN given'["yaml"]
    <2>1. "yaml" \in Sources
      BY DEF Sources
    <2>. QED
      BY <1>3, <2>1
  <1> HIDE DEF more
  <1>. QED
    BY <1>2, <1>3, <1>4, <1>5 DEF SaidInv

LEMMA FileKeeps ==
  ASSUME SaidInv, NEW file \in {"yaml", "legacy"}, NEW is,
         file = "yaml" => is \in {"broken"} \cup DOMAIN Bases,
         file = "legacy" => is \in {"broken", "properties"},
         CreateFile(file, is)
  PROVE  SaidInv'
  <1>1. file \in Sources /\ "yaml" \in Sources /\ "legacy" \in Sources
    BY DEF Sources
  <1>2. files' = [files EXCEPT ![file] = is]
        /\ given' = [given EXCEPT ![file] = IF is \in DOMAIN Bases THEN Bases[is] ELSE given[file]]
    BY DEF CreateFile
  <1>3. is \in DOMAIN Bases => /\ file = "yaml" /\ "dirs" \in DOMAIN Bases[is]
                               /\ \A n \in DOMAIN Bases[is] : Worded("yaml", n, Bases[is][n])
    BY ConfigurationAssumption
  <1>4. DOMAIN given' = Sources /\ DOMAIN files' = {"yaml", "legacy"}
        /\ files'[file] = is /\ \A f \in {"yaml", "legacy"} \ {file} : files'[f] = files[f]
        /\ given'[file] = (IF is \in DOMAIN Bases THEN Bases[is] ELSE given[file])
        /\ \A source \in Sources \ {file} : given'[source] = given[source]
    BY <1>1, <1>2 DEF SaidInv
  <1>5. ASSUME NEW source \in Sources, NEW n \in DOMAIN given'[source]
        PROVE  Worded(source, n, given'[source][n])
    <2>1. CASE source = file /\ is \in DOMAIN Bases
      BY <1>3, <1>4, <1>5, <2>1
    <2>2. CASE ~(source = file /\ is \in DOMAIN Bases)
      <3>1. given'[source] = given[source]
        BY <1>4, <2>2
      <3>. QED
        BY <1>5, <3>1 DEF SaidInv
    <2>. QED
      BY <2>1, <2>2
  <1>6. files'.yaml \in Kinds /\ files'.legacy \in {"absent", "broken", "properties"}
    BY <1>4 DEF SaidInv, Kinds
  <1>7. files'.yaml \in DOMAIN Bases => "dirs" \in DOMAIN given'["yaml"]
    <2>1. CASE file = "yaml"
      BY <1>3, <1>4, <2>1
    <2>2. CASE file # "yaml"
      BY <1>1, <1>3, <1>4, <2>2 DEF SaidInv
    <2>. QED
      BY <2>1, <2>2
  <1>. QED
    BY <1>4, <1>5, <1>6, <1>7 DEF SaidInv, Kinds

LEMMA SaidStays == SaidInv /\ UNCHANGED <<given, files>> => SaidInv'
  BY DEF SaidInv, Kinds

---------------------------------------------------------------------------
(* What the program makes of the sources does not change while they do not. *)

LEMMA SameLoaded == ASSUME UNCHANGED <<given, files>> PROVE Loaded' = Loaded
  <1>1. FromProperties' = FromProperties
    BY DEF FromProperties, Legacy, LegacyItems, LegacyList, LegacyJournald, Given, Has
  <1>2. FromYaml' = FromYaml
    BY DEF FromYaml, Given, Has
  <1>3. \A f : Tried(f)' = Tried(f)
    BY <1>1, <1>2 DEF Tried, RulesWhole, Has
  <1>4. Paths' = Paths
    BY DEF Paths, Given, Has
  <1>5. \A paths : Parsed(paths)' = Parsed(paths)
    <2>1. TAKE paths
    <2>2. [i \in DOMAIN paths |-> Tried(paths[i])'] = [i \in DOMAIN paths |-> Tried(paths[i])]
      BY <1>3
    <2>. QED
      BY <2>2 DEF Parsed
  <1>. QED
    BY <1>4, <1>5 DEF Loaded

LEMMA SameOverridden ==
  ASSUME UNCHANGED <<given, files>>, NEW r PROVE Overridden(r)' = Overridden(r)
  BY DEF Overridden, Options, Deprecated, Environment, Given, Has, ParamsOverridden,
         JournaldOverridden, Appended, Items

LEMMA StageKeeps == StageInv /\ [Next]_vars => StageInv'
  <1> SUFFICES ASSUME StageInv, [Next]_vars PROVE StageInv'
    OBVIOUS
  <1>1. ASSUME NEW file, NEW is, CreateFile(file, is) PROVE StageInv'
    BY <1>1 DEF CreateFile, StageInv
  <1>2. ASSUME NEW o \in Offered, Write(o) PROVE StageInv'
    BY <1>2 DEF Write, StageInv
  <1>3. CASE UNCHANGED <<given, files>>
    <2> DEFINE over == Overridden(Loaded[1])
    <2>1. Loaded' = Loaded
      BY <1>3, SameLoaded
    <2>2. PICK r : r = Loaded[1]
      OBVIOUS
    <2>3. Overridden(r)' = Overridden(r)
      BY <1>3, SameOverridden
    <2>4. over' = over
      BY <2>1, <2>2, <2>3
    <2>5. /\ Complete(over)' = Complete(over)
          /\ Converted(over)' = Converted(over)
      BY <2>4 DEF Complete, Converted, ConvertedJournald, Choice
    <2> HIDE DEF over
    <2>6. CASE Parse
      BY <2>1, <2>6 DEF Parse, StageInv
    <2>7. CASE Override
      BY <2>1, <2>4, <2>7 DEF Override, StageInv, over
    <2>8. CASE Convert
      <3>1. phase = "merged" /\ raw = Some(over) /\ Loaded # None /\ raw[1] = over
        BY <2>8, SomeIsThere DEF Convert, StageInv, over
      <3>2. /\ phase' = IF Complete(over) THEN "running" ELSE "failed"
            /\ effective' = IF Complete(over) THEN Some(Converted(over)) ELSE None
        BY <2>8, <3>1 DEF Convert
      <3>3. phase' = "running" =>
               Complete(over)' /\ effective' = Some(Converted(over)')
        BY <2>5, <3>2
      <3>. QED
        BY <2>1, <3>1, <3>2, <3>3 DEF StageInv, over
    <2>9. CASE Stop
      BY <2>9 DEF Stop, StageInv
    <2>10. CASE UNCHANGED vars
      <3>1. phase' = phase /\ raw' = raw /\ effective' = effective
        BY <2>10 DEF vars
      <3>. QED
        BY <2>1, <2>4, <2>5, <3>1 DEF StageInv, over
    <2>. QED
      BY <2>6, <2>7, <2>8, <2>9, <2>10, <1>1, <1>2 DEF Next
  <1>4. Parse \/ Override \/ Convert \/ Stop \/ UNCHANGED vars => UNCHANGED <<given, files>>
    BY DEF Parse, Override, Convert, Stop, vars
  <1>. QED
    BY <1>1, <1>2, <1>3, <1>4 DEF Next

LEMMA ConfigurationInv == Spec => [](SaidInv /\ StageInv)
  <1>1. SaidInv /\ [Next]_vars => SaidInv'
    <2> SUFFICES ASSUME SaidInv, [Next]_vars PROVE SaidInv'
      OBVIOUS
    <2>1. Parse \/ Override \/ Convert \/ Stop \/ UNCHANGED vars => SaidInv'
      BY SaidStays DEF Parse, Override, Convert, Stop, vars
    <2>2. ASSUME NEW is \in {"broken", "properties"}, CreateFile("legacy", is) PROVE SaidInv'
      BY <2>2, FileKeeps
    <2>3. ASSUME NEW is \in {"broken"} \cup DOMAIN Bases, CreateFile("yaml", is) PROVE SaidInv'
      BY <2>3, FileKeeps
    <2>. QED
      BY <2>1, <2>2, <2>3, WriteKeeps DEF Next
  <1>. QED
    BY <1>1, InitSaid, StageKeeps, PTL DEF Spec
---------------------------------------------------------------------------
(* The fold over the files, which are two at most.                         *)
Folds(g, confs) ==
    g = [s \in SUBSET DOMAIN confs |->
            IF s = {} THEN None ELSE MergedNext(g[s \ {Max(s)}], confs[Max(s)])]

LEMMA MergedIsFold ==
  ASSUME NEW confs
  PROVE  MergedAll(confs) = (CHOOSE g : Folds(g, confs))[DOMAIN confs]
  BY DEF MergedAll, FoldLeft, MapThenFoldSet, Folds

LEMMA LastOfTwo == Max({1}) = 1 /\ Max({2}) = 2 /\ Max({1, 2}) = 2
  BY DEF Max

LEMMA OneMerged == \A c : MergedAll(<<c>>) = MergedNext(None, c)
  <1> TAKE c
  <1> DEFINE g == CHOOSE g : Folds(g, <<c>>)
             h == [s \in SUBSET {1} |-> IF s = {} THEN None ELSE MergedNext(None, c)]
  <1>1. DOMAIN <<c>> = {1} /\ <<c>>[1] = c
    OBVIOUS
  <1>2. \A s \in SUBSET {1} : s = {} \/ s = {1} 
    OBVIOUS
  <1>3. {1} \ {1} = {} /\ {} \in SUBSET {1} /\ {1} \in SUBSET {1} /\ {1} # {}
    OBVIOUS
  <1>4. h[{}] = None /\ h[{1}] = MergedNext(None, c)
    BY <1>3
  <1>5. \A s \in SUBSET {1} : h[s] = IF s = {} THEN None ELSE MergedNext(h[s \ {Max(s)}], <<c>>[Max(s)])
    BY <1>1, <1>2, <1>3, <1>4, LastOfTwo
  <1>6. h = [s \in SUBSET {1} |-> h[s]]
    OBVIOUS
  <1> HIDE DEF h
  <1>7. Folds(h, <<c>>)
    BY <1>1, <1>5, <1>6 DEF Folds
  <1>8. Folds(g, <<c>>)
    BY <1>7
  <1> HIDE DEF g
  <1>9. \A s \in SUBSET {1} : g[s] = IF s = {} THEN None ELSE MergedNext(g[s \ {Max(s)}], <<c>>[Max(s)])
    BY <1>1, <1>8 DEF Folds
  <1>10. g[{1}] = MergedNext(None, c)
    BY <1>1, <1>3, <1>9, LastOfTwo
  <1>. QED
    BY <1>1, <1>10, MergedIsFold DEF g

LEMMA TwoMerged == \A c, d : MergedAll(<<c, d>>) = MergedNext(MergedNext(None, c), d)
  <1> TAKE c, d
  <1> DEFINE g == CHOOSE g : Folds(g, <<c, d>>)
             h == [s \in SUBSET {1, 2} |->
                      IF s = {} THEN None
                      ELSE IF s = {1} THEN MergedNext(None, c)
                      ELSE IF s = {2} THEN MergedNext(None, d)
                      ELSE MergedNext(MergedNext(None, c), d)]
  <1>1. DOMAIN <<c, d>> = {1, 2} /\ <<c, d>>[1] = c /\ <<c, d>>[2] = d
    OBVIOUS
  <1>2. \A s \in SUBSET {1, 2} : s \in {{}, {1}, {2}, {1, 2}}
    OBVIOUS
  <1>3. /\ {1} \ {1} = {} /\ {2} \ {2} = {} /\ {1, 2} \ {2} = {1}
        /\ {1} # {} /\ {2} # {} /\ {1, 2} # {} /\ {1} # {2} /\ {1, 2} # {1} /\ {1, 2} # {2}
        /\ {} \in SUBSET {1, 2} /\ {1} \in SUBSET {1, 2}
        /\ {2} \in SUBSET {1, 2} /\ {1, 2} \in SUBSET {1, 2}
    OBVIOUS
  <1>4. /\ h[{}] = None /\ h[{1}] = MergedNext(None, c) /\ h[{2}] = MergedNext(None, d)
        /\ h[{1, 2}] = MergedNext(MergedNext(None, c), d)
    BY <1>3
  <1>5. \A s \in SUBSET {1, 2} :
           h[s] = IF s = {} THEN None ELSE MergedNext(h[s \ {Max(s)}], <<c, d>>[Max(s)])
    <2> HIDE DEF h
    <2> DEFINE value(s) == MergedNext(h[s \ {Max(s)}], <<c, d>>[Max(s)])
    <2>1. h[{1}] = value({1})
      BY <1>1, <1>3, <1>4, LastOfTwo
    <2>2. h[{2}] = value({2})
      BY <1>1, <1>3, <1>4, LastOfTwo
    <2>3. h[{1, 2}] = value({1, 2})
      BY <1>1, <1>3, <1>4, LastOfTwo
    <2> HIDE DEF value
    <2>4. \A s \in SUBSET {1, 2} : h[s] = IF s = {} THEN None ELSE value(s)
      BY <1>2, <1>3, <1>4, <2>1, <2>2, <2>3
    <2>. QED
      BY <2>4 DEF value
  <1>6. h = [s \in SUBSET {1, 2} |-> h[s]]
    OBVIOUS
  <1> HIDE DEF h
  <1>7. Folds(h, <<c, d>>)
    BY <1>1, <1>5, <1>6 DEF Folds
  <1>8. Folds(g, <<c, d>>)
    BY <1>7
  <1> HIDE DEF g
  <1>9. \A s \in SUBSET {1, 2} :
           g[s] = IF s = {} THEN None ELSE MergedNext(g[s \ {Max(s)}], <<c, d>>[Max(s)])
    BY <1>1, <1>8 DEF Folds
  <1>10. g[{}] = None /\ g[{1}] = MergedNext(None, c)
    BY <1>1, <1>3, <1>9, LastOfTwo
  <1>11. g[{1, 2}] = MergedNext(g[{1}], d)
    BY <1>1, <1>3, <1>9, LastOfTwo
  <1>. QED
    BY <1>1, <1>10, <1>11, MergedIsFold DEF g
LegacyRead == IsRead("legacy")
YamlRead == IsRead("yaml")
LoadedIs(r) ==
    /\ LegacyRead /\ YamlRead => r = MergedFiles(FromProperties, FromYaml)
    /\ LegacyRead /\ ~YamlRead => r = FromProperties
    /\ ~LegacyRead /\ YamlRead => r = FromYaml
    /\ ~LegacyRead /\ ~YamlRead => r = Default

LEMMA LoadedCases ==
  ASSUME DOMAIN files = {"yaml", "legacy"}, files.yaml # "properties",
         files.legacy \in {"absent", "broken", "properties"}, Loaded # None
  PROVE  LoadedIs(Loaded[1])
  <1>1. Paths = <<"legacy">> \/ Paths = <<"legacy", "yaml">>
    BY DEF Paths
  <1>2. /\ Range(<<"legacy">>) = {"legacy"} /\ Range(<<"legacy", "yaml">>) = {"legacy", "yaml"}
        /\ Range(files) = {files.yaml, files.legacy}
    BY DEF Range
  <1>3. /\ LegacyRead = (Tried("legacy") # None)
        /\ YamlRead = (Paths = <<"legacy", "yaml">> /\ Tried("yaml") # None)
    BY <1>1, <1>2 DEF LegacyRead, YamlRead, IsRead
  <1>4. /\ Tried("legacy") # None => Tried("legacy") = Some(FromProperties) /\ FromProperties # Default
        /\ Tried("yaml") # None => Tried("yaml") = Some(FromYaml)
        /\ \A f \in {"legacy", "yaml"} : files[f] = "absent" => Tried(f) = None
    BY SomeIsThere DEF Tried
  <1>5. CASE Range(files) = {"absent"}
    <2>1. Tried("legacy") = None /\ Tried("yaml") = None
      BY <1>2, <1>4, <1>5
    <2>. QED
      BY <1>3, <1>5, <2>1, SomeIsThere DEF LoadedIs, Loaded
  <1>6. CASE Range(files) # {"absent"} /\ Paths = <<"legacy">>
    <2> DEFINE confs == [i \in DOMAIN <<"legacy">> |-> Tried(<<"legacy">>[i])]
    <2>1. confs = <<Tried("legacy")>>
      OBVIOUS
    <2>2. MergedAll(confs) = MergedNext(None, Tried("legacy"))
      BY <2>1, OneMerged
    <2>3. Range(confs) = {Tried("legacy")}
      BY <2>1 DEF Range
    <2>4. Loaded = IF MergedAll(confs) # None THEN MergedAll(confs)
                   ELSE IF None \in Range(confs) THEN None ELSE Some(Default)
      BY <1>6 DEF Loaded, Parsed
    <2> HIDE DEF confs
    <2>. QED
      BY <1>3, <1>4, <1>6, <2>2, <2>3, <2>4, SomeIsThere DEF LoadedIs, MergedNext
  <1>7. CASE Range(files) # {"absent"} /\ Paths = <<"legacy", "yaml">>
    <2> DEFINE confs == [i \in DOMAIN <<"legacy", "yaml">> |-> Tried(<<"legacy", "yaml">>[i])]
    <2>1. confs = <<Tried("legacy"), Tried("yaml")>>
      OBVIOUS
    <2>2. MergedAll(confs) = MergedNext(MergedNext(None, Tried("legacy")), Tried("yaml"))
      BY <2>1, TwoMerged
    <2>3. Range(confs) = {Tried("legacy"), Tried("yaml")}
      BY <2>1 DEF Range
    <2>4. Loaded = IF MergedAll(confs) # None THEN MergedAll(confs)
                   ELSE IF None \in Range(confs) THEN None ELSE Some(Default)
      BY <1>7 DEF Loaded, Parsed
    <2> HIDE DEF confs
    <2>5. CASE LegacyRead
      BY <1>3, <1>4, <1>7, <2>2, <2>3, <2>4, <2>5, SomeIsThere DEF LoadedIs, MergedNext
    <2>6. CASE ~LegacyRead
      BY <1>3, <1>4, <1>7, <2>2, <2>3, <2>4, <2>6, SomeIsThere DEF LoadedIs, MergedNext
    <2>. QED
      BY <2>5, <2>6
  <1>. QED
    BY <1>1, <1>5, <1>6, <1>7
---------------------------------------------------------------------------
(* The options: the source that leads is the one whose value they take.    *)

LEMMA FileIsNoOption == Sources = OptionSources \cup FileSources /\ OptionSources \cap FileSources = {}
  BY DEF Sources, OptionSources, FileSources

\* What the options make of it: a list of a deprecated variable is split.
OptionOf(source, n) == IF source = "deprecated" /\ n \in ListNames THEN WithCsv(given[source][n])
                       ELSE given[source][n]

LEMMA DeprecatedIs ==
  ASSUME NEW n
  PROVE  Deprecated(n) = IF Has("deprecated", n) THEN Some(OptionOf("deprecated", n)) ELSE None
  BY DEF Deprecated, Given, OptionOf

LEMMA ListOptionLeads ==
  ASSUME NEW n, NEW among \in {Sources, OptionSources}, NEW source \in OptionSources,
         Leads(source, n, among)
  PROVE  Options(n) = Some(OptionOf(source, n))
  <1>1. OptionSources = {"deprecated", "argument", "logdna", "env"} /\ OptionSources \subseteq among
    BY DEF OptionSources, Sources, FileSources
  <1>2. \A other \in OptionSources : Counts(other, n) <=> Has(other, n)
    BY <1>1 DEF Counts
  <1>3. Has(source, n) /\ \A other \in OptionSources : Has(other, n) => Rank[source] <= Rank[other]
    BY <1>1, <1>2 DEF Leads
  <1>4. Given(source, n) = Some(given[source][n]) /\ Given(source, n) # None
    BY <1>3, SomeIsThere DEF Given
  <1>5. \A other \in OptionSources : Rank[other] < Rank[source] => Given(other, n) = None
    <2>1. \A other \in OptionSources : Rank[other] \in Nat
      BY <1>1 DEF Rank
    <2>. QED
      BY <1>3, <2>1 DEF Given
  <1>6. Rank["deprecated"] = 1 /\ Rank["argument"] = 2 /\ Rank["logdna"] = 3 /\ Rank["env"] = 4
    BY DEF Rank
  <1>7. CASE source = "deprecated"
    BY <1>3, <1>7, DeprecatedIs, SomeIsThere DEF Options, Either
  <1>8. ASSUME source # "deprecated"
        PROVE  Deprecated(n) = None /\ Some(OptionOf(source, n)) = Given(source, n)
    <2>1. "deprecated" \in OptionSources /\ Rank["deprecated"] < Rank[source]
      BY <1>1, <1>6, <1>8
    <2>2. ~Has("deprecated", n)
      BY <1>5, <2>1, SomeIsThere DEF Given
    <2>. QED
      BY <1>4, <1>8, <2>2, DeprecatedIs DEF OptionOf
  <1>9. CASE source = "argument"
    BY <1>4, <1>8, <1>9 DEF Options, Either
  <1>10. CASE source = "logdna"
    BY <1>1, <1>4, <1>5, <1>6, <1>8, <1>10 DEF Options, Environment, Either
  <1>11. CASE source = "env"
    BY <1>1, <1>4, <1>5, <1>6, <1>8, <1>11 DEF Options, Environment, Either
  <1>. QED
    BY <1>1, <1>7, <1>9, <1>10, <1>11

LEMMA OptionLeads ==
  ASSUME NEW n, n \notin ListNames, NEW among \in {Sources, OptionSources},
         NEW source \in OptionSources, Leads(source, n, among)
  PROVE  Options(n) = Some(given[source][n])
  BY ListOptionLeads DEF OptionOf

LEMMA NoLists ==
  \A s \in Scalars \cup Switches \cup ParamTexts \cup {"startup", Tailer} : s \notin ListNames
  BY DEF ListNames, Lists, Rules, Scalars, Texts, Numbers, Enumerated, Switches, ParamTexts, Tailer

LEMMA NoOption ==
  ASSUME NEW n, \A other \in OptionSources : ~Counts(other, n)
  PROVE  Options(n) = None
  <1>1. OptionSources = {"deprecated", "argument", "logdna", "env"}
    BY DEF OptionSources, Sources, FileSources
  <1>2. \A other \in OptionSources : Given(other, n) = None /\ ~Has(other, n)
    BY <1>1 DEF Counts, Given
  <1>. QED
    BY <1>1, <1>2, DeprecatedIs DEF Options, Environment, Either

LEMMA FileLeads ==
  ASSUME NEW n, NEW source \in FileSources, Leads(source, n, Sources)
  PROVE  Options(n) = None /\ Leads(source, n, FileSources)
  <1>1. OptionSources = {"deprecated", "argument", "logdna", "env"} /\ FileSources = {"yaml", "legacy"}
        /\ FileSources \subseteq Sources /\ OptionSources \subseteq Sources
    BY DEF OptionSources, Sources, FileSources
  <1>2. \A other \in OptionSources : ~(Rank[source] <= Rank[other])
    BY <1>1 DEF Rank
  <1>3. \A other \in OptionSources : ~Counts(other, n)
    BY <1>1, <1>2 DEF Leads
  <1>. QED
    BY <1>1, <1>3, NoOption DEF Leads

\* Among the files the YAML file leads where it counts.
LEMMA LeadingFile ==
  ASSUME NEW n, NEW source \in FileSources, Leads(source, n, FileSources)
  PROVE  /\ Has(source, n)
         /\ source = "yaml" => YamlRead /\ ~(LegacyRead /\ PassedOver(n, given["yaml"][n]))
         /\ source = "legacy" => /\ LegacyRead /\ ~LeftOut(n)
                                 /\ YamlRead /\ Has("yaml", n) => PassedOver(n, given["yaml"][n])
  <1>1. source \in {"yaml", "legacy"} /\ ~(Rank["legacy"] <= Rank["yaml"])
    BY DEF FileSources, Rank
  <1>2. source = "legacy" => ~Counts("yaml", n)
    BY <1>1 DEF Leads, FileSources
  <1>. QED
    BY <1>1, <1>2 DEF Leads, Counts, YamlRead, LegacyRead

---------------------------------------------------------------------------
(* A setting that is one value.                                            *)
Plain == Scalars \cup Switches
LEMMA PlainFields ==
  ASSUME NEW s \in Plain \cup Lists \cup {"dirs"}
  PROVE  /\ s \in Fields /\ s \notin Rules \cup TailerCommand \cup {"journald", "startup", "params"}
         /\ s # Tailer /\ s \notin {"hostname", "tags", "journald_paths", "include_regex", "exclude_regex"}
         /\ s \in Plain => s \notin Lists \cup {"dirs"} /\ s \notin ListNames
         /\ s \in Scalars => s \notin Switches
         /\ s \in Lists => s # "dirs"
  BY DEF Plain, Scalars, Texts, Numbers, Enumerated, Switches, Fields, Rules, TailerCommand, Lists, Tailer, ListNames

LEMMA YamlSays ==
  ASSUME NEW s \in Plain \cup Lists \cup {"dirs"}
  PROVE  FromYaml[s] = Given("yaml", s)
  BY PlainFields DEF FromYaml

LEMMA LegacySays ==
  ASSUME NEW s \in Plain
  PROVE  FromProperties[s] = Either(Given("legacy", s), Default[s])
  BY PlainFields DEF FromProperties, Legacy, Plain

LEMMA PlainMerged ==
  ASSUME SaidInv, LegacyRead, YamlRead, NEW s \in Plain, NEW source \in FileSources,
         Leads(source, s, FileSources)
  PROVE  MergedFiles(FromProperties, FromYaml)[s] = Some(given[source][s])
  <1> DEFINE a == FromProperties[s]
             b == FromYaml[s]
  <1>1. /\ s \in Fields /\ s \notin TailerCommand
    BY PlainFields
  <1>2. MergedFiles(FromProperties, FromYaml)[s] =
           IF b \in {Default[s], None} THEN a
           ELSE IF a = None THEN b ELSE Some(MergedValue(s, a[1], b[1]))
    BY <1>1 DEF MergedFiles, MergedOption
  <1>3. b = Given("yaml", s) /\ a = Either(Given("legacy", s), Default[s])
    BY YamlSays, LegacySays
  <1> HIDE DEF a, b
  <1>4. s \notin ListNames /\ s # Tailer /\ s # "startup"
    BY PlainFields
  <1>5. s \in Scalars => MergedValue(s, a[1], b[1]) = IF b[1] = "zero" THEN a[1] ELSE b[1]
    BY <1>4, PlainFields DEF MergedValue
  <1>6. s \in Switches => MergedValue(s, a[1], b[1]) = (a[1] \/ b[1])
    BY <1>4, PlainFields DEF MergedValue
  <1>7. CASE source = "yaml"
    <2>1. b = Some(given["yaml"][s]) /\ ~PassedOver(s, given["yaml"][s])
      BY <1>3, <1>7, LeadingFile DEF Given, Has
    <2>2. b # Default[s] /\ b # None /\ b[1] = given["yaml"][s]
      BY <1>1, <2>1, SomeIsThere DEF PassedOver, b
    <2>3. CASE s \in Scalars
      <3>1. given["yaml"][s] # "zero"
        BY <2>1, <2>3 DEF PassedOver
      <3>. QED
        BY <1>2, <1>5, <1>7, <2>1, <2>2, <2>3, <3>1
    <2>4. CASE s \in Switches
      <3>1. given["yaml"][s] \in BOOLEAN /\ Default[s] = Some(TRUE)
        BY <1>7, <2>4, LeadingFile, PlainFields DEF SaidInv, Sources, Worded, Has, Default, Switches, Fields
      <3>2. given["yaml"][s] # FALSE
        BY <2>1, <2>4, <3>1 DEF PassedOver
      <3>. QED
        BY <2>1, <2>2, <3>1, <3>2
    <2>. QED
      BY <2>3, <2>4 DEF Plain
  <1>8. CASE source = "legacy"
    <2>1. a = Some(given["legacy"][s]) /\ a # None /\ a[1] = given["legacy"][s]
      BY <1>3, <1>8, LeadingFile, SomeIsThere DEF Given, Has, Either
    <2>2. CASE ~Has("yaml", s)
      <3>1. b = None
        BY <1>3, <2>2 DEF Given
      <3>. QED
        BY <1>2, <1>8, <2>1, <3>1
    <2>3. CASE Has("yaml", s)
      <3>1. PassedOver(s, given["yaml"][s]) /\ b = Some(given["yaml"][s]) /\ b[1] = given["yaml"][s]
        BY <1>3, <1>8, <2>3, LeadingFile, SomeIsThere DEF Given
      <3>2. \/ b = Default[s]
            \/ s \in Scalars /\ b[1] = "zero"
            \/ s \in Switches /\ ~b[1]
        BY <1>4, <3>1 DEF PassedOver, b
      <3>3. CASE b = Default[s]
        BY <1>2, <1>8, <2>1, <3>3
      <3>4. CASE s \in Scalars /\ b[1] = "zero"
        BY <1>2, <1>5, <1>8, <2>1, <3>4
      <3>5. CASE s \in Switches /\ ~b[1]
        <4>1. a[1] \in BOOLEAN
          BY <1>8, <2>1, <3>5, LeadingFile, PlainFields DEF SaidInv, Sources, Worded, Has
        <4>2. b[1] \in BOOLEAN
          BY <2>3, <3>1, <3>5 DEF SaidInv, Sources, Worded, Has
        <4>3. b[1] = FALSE
          BY <3>5, <4>2
        <4>4. MergedValue(s, a[1], b[1]) = a[1]
          BY <1>6, <3>5, <4>1, <4>3
        <4>. QED
          BY <1>2, <1>8, <2>1, <4>4
      <3>. QED
        BY <3>2, <3>3, <3>4, <3>5
    <2>. QED
      BY <2>2, <2>3
  <1>. QED
    BY <1>7, <1>8 DEF FileSources

LEMMA PlainLoaded ==
  ASSUME SaidInv, NEW r, LoadedIs(r), NEW s \in Plain, NEW source \in FileSources,
         Leads(source, s, FileSources)
  PROVE  r[s] = Some(given[source][s])
  <1>1. source \in {"yaml", "legacy"}
    BY DEF FileSources
  <1>2. CASE LegacyRead /\ YamlRead
    BY <1>2, PlainMerged DEF LoadedIs
  <1>3. CASE ~(LegacyRead /\ YamlRead)
    <2>1. CASE source = "yaml"
      <3>1. YamlRead /\ Has("yaml", s)
        BY <2>1, LeadingFile
      <3>. QED
        BY <1>3, <2>1, <3>1, YamlSays DEF LoadedIs, Given
    <2>2. CASE source = "legacy"
      <3>1. LegacyRead /\ Has("legacy", s)
        BY <2>2, LeadingFile
      <3>. QED
        BY <1>3, <2>2, <3>1, LegacySays, SomeIsThere DEF LoadedIs, Given, Either
    <2>. QED
      BY <1>1, <2>1, <2>2
  <1>. QED
    BY <1>2, <1>3

LEMMA PlainOverridden ==
  ASSUME NEW r, NEW s \in Plain
  PROVE  Overridden(r)[s] = Either(Options(s), r[s])
  BY PlainFields DEF Overridden, Plain

LEMMA PlainConverted ==
  ASSUME NEW r, NEW s \in Plain, NEW v, r[s] = Some(v),
         s \in Enumerated => v # "zero"
  PROVE  Converted(r)[s] = IF s \in Optional THEN Some(v) ELSE v
  <1>1. s \in Fields
    BY PlainFields
  <1>2. CASE s \in Enumerated
    <2>1. Converted(r)[s] = Choice(r[s])
      BY <1>1, <1>2, PlainFields DEF Converted, Enumerated
    <2>2. r[s] \notin {None, Some("zero")}
      BY <1>2, SomeIsThere
    <2>. QED
      BY <1>2, <2>1, <2>2, SomeIsThere DEF Choice, Optional, Enumerated
  <1>3. CASE s \in Optional
    BY <1>1, <1>3 DEF Converted, Optional, Enumerated, Lists
  <1>4. CASE s \notin Enumerated /\ s \notin Optional
    <2>1. Converted(r)[s] \in {OrElse(r[s], "d"), r[s][1]}
      BY <1>1, <1>4, PlainFields DEF Converted, Optional
    <2>2. r[s] # None /\ r[s][1] = v
      BY SomeIsThere
    <2>. QED
      BY <1>4, <2>1, <2>2 DEF OrElse
  <1>. QED
    BY <1>2, <1>3, <1>4
---------------------------------------------------------------------------
(* The start-up lease and the parameters.                                   *)

LEMMA StartupLoaded ==
  ASSUME NEW r, LoadedIs(r), NEW source \in FileSources, Leads(source, "startup", FileSources),
         given[source]["startup"] # "zero"
  PROVE  r["startup"] = Some([option |-> Some(given[source]["startup"])])
  <1> DEFINE v == given[source]["startup"]
             a == FromProperties["startup"]
             b == FromYaml["startup"]
  <1>1. /\ "startup" \in Fields /\ "startup" \notin TailerCommand
        /\ Default["startup"] = None
    BY DEF Fields, TailerCommand, Default, Scalars, Texts, Numbers, Enumerated, Switches, Lists, Rules
  <1>2. a = IF Has("legacy", "startup") THEN Some([option |-> Some(given["legacy"]["startup"])])
            ELSE None
    BY <1>1, SomeIsThere DEF FromProperties, Legacy, Given, Scalars, Texts, Numbers, Enumerated, Switches, Lists, Rules
  <1>3. b = IF Has("yaml", "startup") THEN Some([option |-> Some(given["yaml"]["startup"])])
            ELSE None
    BY <1>1, SomeIsThere DEF FromYaml, Given, Scalars, Texts, Numbers, Enumerated, Switches, Lists, Rules
  <1>4. LegacyRead /\ YamlRead =>
           r["startup"] =
               IF b \in {Default["startup"], None} THEN a
               ELSE IF a = None THEN b ELSE Some(MergedValue("startup", a[1], b[1]))
    BY <1>1 DEF LoadedIs, MergedFiles, MergedOption
  <1>5. /\ LegacyRead /\ ~YamlRead => r["startup"] = a
        /\ ~LegacyRead /\ YamlRead => r["startup"] = b
    BY DEF LoadedIs
  <1> HIDE DEF a, b
  <1>6. ASSUME NEW x, NEW y, a = Some([option |-> Some(x)]), b = Some([option |-> Some(y)])
        PROVE  MergedValue("startup", a[1], b[1]) =
                   [option |-> Some(IF y = "zero" THEN x ELSE y)]
    BY <1>6, SomeIsThere DEF MergedValue, MergedOption, Scalars, Texts, Numbers, Enumerated, Switches, Lists, Rules
  <1>7. CASE source = "yaml"
    <2>1. YamlRead /\ Has("yaml", "startup")
      BY <1>7, LeadingFile
    <2>2. b = Some([option |-> Some(v)]) /\ b # None
      BY <1>3, <1>7, <2>1, SomeIsThere
    <2>. QED
      BY <1>1, <1>2, <1>4, <1>5, <1>6, <1>7, <2>1, <2>2, SomeIsThere
  <1>8. CASE source = "legacy"
    <2>1. LegacyRead /\ Has("legacy", "startup")
      BY <1>8, LeadingFile
    <2>2. a = Some([option |-> Some(v)]) /\ a # None
      BY <1>2, <1>8, <2>1, SomeIsThere
    <2>3. CASE ~YamlRead
      BY <1>5, <2>1, <2>2, <2>3
    <2>4. CASE YamlRead /\ ~Has("yaml", "startup")
      BY <1>3, <1>4, <2>1, <2>2, <2>4
    <2>5. CASE YamlRead /\ Has("yaml", "startup")
      <3>1. b = Some([option |-> Some(given["yaml"]["startup"])]) /\ b # None
        BY <1>3, <2>5, SomeIsThere
      <3>2. given["yaml"]["startup"] = "zero"
        BY <1>1, <1>8, <2>5, <3>1, LeadingFile
           DEF PassedOver, b, Scalars, Texts, Numbers, Enumerated, Switches, Lists, Rules, ListNames, Tailer
      <3>. QED
        BY <1>1, <1>4, <1>6, <2>1, <2>2, <2>5, <3>1, <3>2
    <2>. QED
      BY <2>3, <2>4, <2>5
  <1>. QED
    BY <1>7, <1>8 DEF FileSources

LEMMA StartupCounts ==
  ASSUME NEW r, LoadedIs(r), NEW source \in Sources, Leads(source, "startup", Sources),
         given[source]["startup"] # "zero"
  PROVE  Converted(Overridden(r))["startup"] = given[source]["startup"]
  <1> DEFINE v == given[source]["startup"]
             o == Overridden(r)
  <1>1. "startup" \in Fields
    BY DEF Fields
  <1>2. o["startup"] = IF Options("startup") = None THEN r["startup"]
                       ELSE Some([option |-> Options("startup")])
    BY <1>1 DEF Overridden, Scalars, Texts, Numbers, Enumerated, Switches, Lists, Rules
  <1>3. o["startup"] = Some([option |-> Some(v)])
    <2>1. CASE source \in OptionSources
      BY <1>2, <2>1, NoLists, OptionLeads, SomeIsThere
    <2>2. CASE source \in FileSources
      BY <1>2, <2>2, FileLeads, StartupLoaded
    <2>. QED
      BY <2>1, <2>2, FileIsNoOption
  <1> HIDE DEF o
  <1>4. Converted(o)["startup"] = Choice(OrElse(o["startup"], [option |-> None]).option)
    BY <1>1 DEF Converted, Scalars, Texts, Numbers, Enumerated, Switches, Lists, Rules, TailerCommand
  <1>5. OrElse(o["startup"], [option |-> None]).option = Some(v)
    BY <1>3, SomeIsThere DEF OrElse
  <1>6. Some(v) \notin {None, Some("zero")}
    BY SomeIsThere
  <1>. QED
    BY <1>4, <1>5, <1>6, SomeIsThere DEF Choice, o

\* The parameters are those of one file.
ParamsOf(source) ==
    [hostname |-> Given(source, "hostname"), ip |-> Given(source, "ip"), mac |-> Given(source, "mac"),
     tags |-> IF source = "legacy" THEN LegacyItems("tags") ELSE OrElse(Given("yaml", "tags"), <<>>)]

ParamsIn(source) == \E n \in ParamTexts \cup {"tags"} : Has(source, n)

LEMMA ParamsAre ==
  ASSUME NEW r, LoadedIs(r)
  PROVE  r["params"] = IF YamlRead /\ ParamsIn("yaml") THEN Some(ParamsOf("yaml"))
                       ELSE IF LegacyRead /\ ParamsIn("legacy") THEN Some(ParamsOf("legacy"))
                       ELSE None
  <1> DEFINE a == FromProperties["params"]
             b == FromYaml["params"]
  <1>1. "params" \in Fields /\ "params" \notin TailerCommand /\ Default["params"] = None
    BY DEF Fields, TailerCommand, Default, Scalars, Texts, Numbers, Enumerated, Switches, Lists, Rules
  <1>2. a = IF ParamsIn("legacy") THEN Some(ParamsOf("legacy")) ELSE None
    BY <1>1 DEF FromProperties, Legacy, ParamsOf, ParamsIn, ParamTexts, Scalars, Texts, Numbers, Enumerated, Switches, Lists, Rules
  <1>3. b = IF ParamsIn("yaml") THEN Some(ParamsOf("yaml")) ELSE None
    <2> DEFINE of == <<Given("yaml", "hostname"), Given("yaml", "ip"), Given("yaml", "mac"),
                       Given("yaml", "tags")>>
    <2>1. b = IF \A i \in DOMAIN of : of[i] = None THEN None ELSE Some(ParamsOf("yaml"))
      BY <1>1 DEF FromYaml, ParamsOf, Scalars, Texts, Numbers, Enumerated, Switches, Lists, Rules
    <2>2. (\A i \in DOMAIN of : of[i] = None) <=> \A n \in ParamTexts \cup {"tags"} : Given("yaml", n) = None
      BY DEF ParamTexts
    <2>3. \A n : Given("yaml", n) = None <=> ~Has("yaml", n)
      BY SomeIsThere DEF Given
    <2> HIDE DEF of, b
    <2>. QED
      BY <2>1, <2>2, <2>3 DEF ParamsIn
  <1>4. LegacyRead /\ YamlRead =>
           r["params"] = IF b = None THEN a ELSE IF a = None THEN b
                         ELSE Some(MergedValue("params", a[1], b[1]))
    BY <1>1 DEF LoadedIs, MergedFiles, MergedOption
  <1>5. /\ LegacyRead /\ ~YamlRead => r["params"] = a
        /\ ~LegacyRead /\ YamlRead => r["params"] = b
        /\ ~LegacyRead /\ ~YamlRead => r["params"] = None
    BY <1>1 DEF LoadedIs
  <1>6. MergedValue("params", a[1], b[1]) = b[1]
    BY DEF MergedValue, Scalars, Texts, Numbers, Enumerated, Switches, Lists, Rules
  <1> HIDE DEF a, b
  <1>. QED
    BY <1>2, <1>3, <1>4, <1>5, <1>6, SomeIsThere

LEMMA ParamsLoaded ==
  ASSUME NEW r, LoadedIs(r), NEW n \in ParamTexts \cup {"tags"}, NEW source \in FileSources,
         Leads(source, n, FileSources)
  PROVE  r["params"] = Some(ParamsOf(source))
  <1>1. CASE source = "yaml"
    BY <1>1, ParamsAre, LeadingFile DEF ParamsIn
  <1>2. CASE source = "legacy"
    <2>1. LegacyRead /\ Has("legacy", n) /\ ~LeftOut(n)
      BY <1>2, LeadingFile
    <2>. QED
      BY <1>2, <2>1, ParamsAre DEF ParamsIn, LeftOut, YamlRead
  <1>. QED
    BY <1>1, <1>2 DEF FileSources

LEMMA ParamsConverted ==
  ASSUME NEW r
  PROVE  LET p == OrElse(r["params"], NoParams)
             c == Converted(Overridden(r))["params"]
             hostname == Either(Options("hostname"), p.hostname)
         IN  /\ c.hostname = OrElse(hostname, "d")
             /\ c.ip = Either(Options("ip"), p.ip) /\ c.mac = Either(Options("mac"), p.mac)
             /\ c.tags = IF Options("tags") = None THEN p.tags
                         ELSE (IF hostname = None THEN <<>> ELSE p.tags) \o Items("tags")
  <1> DEFINE p == OrElse(r["params"], NoParams)
             o == Overridden(r)
  <1>1. "params" \in Fields
    BY DEF Fields
  <1>2. o["params"] = Some(ParamsOverridden(p))
    BY <1>1 DEF Overridden, Scalars, Texts, Numbers, Enumerated, Switches, Lists, Rules
  <1>3. o["params"][1] = ParamsOverridden(p)
    BY <1>2, SomeIsThere
  <1> HIDE DEF o, p
  <1>4. Converted(o)["params"] = [o["params"][1] EXCEPT !.hostname = OrElse(o["params"][1].hostname, "d")]
    BY <1>1 DEF Converted, Scalars, Texts, Numbers, Enumerated, Switches, Lists, Rules, TailerCommand
  <1>. QED
    BY <1>3, <1>4 DEF ParamsOverridden, o, p

LEMMA HostnameCounts ==
  ASSUME NEW r, LoadedIs(r), NEW source \in Sources, Leads(source, "hostname", Sources)
  PROVE  Converted(Overridden(r))["params"].hostname = given[source]["hostname"]
  <1> DEFINE p == OrElse(r["params"], NoParams)
  <1>1. Either(Options("hostname"), p.hostname) = Some(given[source]["hostname"])
    <2>1. CASE source \in OptionSources
      BY <2>1, NoLists, OptionLeads, SomeIsThere DEF Either, ParamTexts
    <2>2. CASE source \in FileSources
      <3>1. Options("hostname") = None /\ r["params"] = Some(ParamsOf(source)) /\ Has(source, "hostname")
        BY <2>2, FileLeads, ParamsLoaded DEF Leads, Counts, ParamTexts
      <3>2. p = ParamsOf(source)
        BY <3>1, SomeIsThere DEF OrElse
      <3>. QED
        BY <3>1, <3>2 DEF ParamsOf, Given, Either
    <2>. QED
      BY <2>1, <2>2, FileIsNoOption
  <1>. QED
    BY <1>1, ParamsConverted, SomeIsThere DEF OrElse

LEMMA AddressCounts ==
  ASSUME NEW r, LoadedIs(r), NEW n \in {"ip", "mac"}, NEW source \in Sources,
         Leads(source, n, Sources)
  PROVE  LET c == Converted(Overridden(r))["params"]
         IN  Some(given[source][n]) = IF n = "ip" THEN c.ip ELSE c.mac
  <1> DEFINE p == OrElse(r["params"], NoParams)
  <1>1. n \in ParamTexts /\ n \notin ListNames
    BY NoLists DEF ParamTexts
  <1>2. Either(Options(n), IF n = "ip" THEN p.ip ELSE p.mac) = Some(given[source][n])
    <2>1. CASE source \in OptionSources
      BY <1>1, <2>1, OptionLeads, SomeIsThere DEF Either
    <2>2. CASE source \in FileSources
      <3>1. Options(n) = None /\ r["params"] = Some(ParamsOf(source)) /\ Has(source, n)
        BY <1>1, <2>2, FileLeads, ParamsLoaded DEF Leads, Counts
      <3>2. p = ParamsOf(source)
        BY <3>1, SomeIsThere DEF OrElse
      <3>. QED
        BY <3>1, <3>2 DEF ParamsOf, Given, Either
    <2>. QED
      BY <2>1, <2>2, FileIsNoOption
  <1>. QED
    BY <1>2, ParamsConverted
---------------------------------------------------------------------------
(* The section of the journal.                                             *)

LegacySection == [paths |-> Some(LegacyItems("journald_paths")),
                  tailer |-> Either(Given("legacy", Tailer), Some(TRUE))]
YamlSection == [paths |-> Given("yaml", "journald_paths"), tailer |-> Given("yaml", Tailer)]
MergedSection ==
    [paths |-> MergedOption(LegacySection.paths, YamlSection.paths, None, NonEmpty),
     tailer |-> MergedOption(LegacySection.tailer, YamlSection.tailer, Some(TRUE),
                             LAMBDA x, y : x \/ y)]
InLegacy == LegacyRead /\ Has("legacy", "journald_paths")
InYaml == YamlRead /\ (Has("yaml", "journald_paths") \/ Has("yaml", Tailer))

\* Where the section of the files comes from.
SectionIs(section) ==
    /\ InLegacy /\ InYaml => section = Some(MergedSection)
    /\ InLegacy /\ ~InYaml => section = Some(LegacySection)
    /\ ~InLegacy /\ InYaml => section = Some(YamlSection)
    /\ ~InLegacy /\ ~InYaml => section = None

LEMMA SectionLoaded == ASSUME NEW r, LoadedIs(r) PROVE SectionIs(r["journald"])
  <1> DEFINE a == FromProperties["journald"]
             b == FromYaml["journald"]
  <1>1. "journald" \in Fields /\ "journald" \notin TailerCommand /\ Default["journald"] = None
    BY DEF Fields, TailerCommand, Default, Scalars, Texts, Numbers, Enumerated, Switches, Lists, Rules
  <1>2. a = IF Has("legacy", "journald_paths") THEN Some(LegacySection) ELSE None
    <2>1. a = LegacyJournald
      BY <1>1 DEF FromProperties, Scalars, Texts, Numbers, Enumerated, Switches, Lists, Rules
    <2>. QED
      BY <2>1, SomeIsThere DEF LegacyJournald, LegacyList, Legacy, Given, LegacySection, Tailer
  <1>3. b = IF Has("yaml", "journald_paths") \/ Has("yaml", Tailer) THEN Some(YamlSection) ELSE None
    BY <1>1, SomeIsThere DEF FromYaml, Given, YamlSection, Tailer, Scalars, Texts, Numbers, Enumerated, Switches, Lists, Rules
  <1>4. LegacyRead /\ YamlRead =>
           r["journald"] = IF b = None THEN a ELSE IF a = None THEN b
                           ELSE Some(MergedValue("journald", a[1], b[1]))
    BY <1>1 DEF LoadedIs, MergedFiles, MergedOption
  <1>5. /\ LegacyRead /\ ~YamlRead => r["journald"] = a
        /\ ~LegacyRead /\ YamlRead => r["journald"] = b
        /\ ~LegacyRead /\ ~YamlRead => r["journald"] = None
    BY <1>1 DEF LoadedIs
  <1>6. a = Some(LegacySection) /\ b = Some(YamlSection) =>
           MergedValue("journald", a[1], b[1]) = MergedSection
    BY SomeIsThere DEF MergedValue, MergedSection, Scalars, Texts, Numbers, Enumerated, Switches, Lists, Rules
  <1> HIDE DEF a, b
  <1>. QED
    BY <1>2, <1>3, <1>4, <1>5, <1>6, SomeIsThere DEF SectionIs, InLegacy, InYaml

Section(r) == OrElse(r["journald"], NoJournald)
JournaldRuns(r) == Converted(Overridden(r))["journald"]

LEMMA SectionIsRecord ==
  ASSUME NEW r, LoadedIs(r)
  PROVE  /\ r["journald"] # None => r["journald"] = Some(Section(r))
         /\ Section(r) = [paths |-> Section(r).paths, tailer |-> Section(r).tailer]
  <1>1. /\ MergedSection = [paths |-> MergedSection.paths, tailer |-> MergedSection.tailer]
        /\ LegacySection = [paths |-> LegacySection.paths, tailer |-> LegacySection.tailer]
        /\ YamlSection = [paths |-> YamlSection.paths, tailer |-> YamlSection.tailer]
        /\ NoJournald = [paths |-> NoJournald.paths, tailer |-> NoJournald.tailer]
    BY DEF MergedSection, LegacySection, YamlSection, NoJournald
  <1>2. r["journald"] \in {None, Some(MergedSection), Some(LegacySection), Some(YamlSection)}
    BY SectionLoaded DEF SectionIs
  <1>3. /\ r["journald"] # None => r["journald"] = Some(Section(r))
        /\ Section(r) \in {NoJournald, MergedSection, LegacySection, YamlSection}
    BY <1>2, SomeIsThere DEF Section, OrElse
  <1>. QED
    BY <1>1, <1>3

LEMMA JournaldConverted ==
  ASSUME NEW r, LoadedIs(r)
  PROVE  /\ JournaldRuns(r).paths =
                IF Options("journald_paths") = None THEN OrElse(Section(r).paths, <<>>)
                ELSE OrElse(Section(r).paths, <<>>) \o Items("journald_paths")
         /\ ~(r["journald"] = None /\ Options("journald_paths") = None) =>
                JournaldRuns(r).tailer = OrElse(Either(Options(Tailer), Section(r).tailer), TRUE)
  <1> DEFINE full == OrElse(Section(r).paths, <<>>) \o Items("journald_paths")
             section == IF Options("journald_paths") = None THEN r["journald"]
                        ELSE Some([Section(r) EXCEPT !.paths = Some(full)])
             o == Overridden(r)
  <1>1. "journald" \in Fields
    BY DEF Fields
  <1>2. o["journald"] = IF section = None THEN None
                        ELSE Some([section[1] EXCEPT !.tailer = Either(Options(Tailer), section[1].tailer)])
    BY <1>1 DEF Overridden, JournaldOverridden, Section, Tailer, Scalars, Texts, Numbers, Enumerated, Switches, Lists, Rules
  <1>3. JournaldRuns(r) = ConvertedJournald(OrElse(o["journald"], NoJournald))
    BY <1>1 DEF JournaldRuns, Converted, Scalars, Texts, Numbers, Enumerated, Switches, Lists, Rules, TailerCommand
  <1> HIDE DEF o, full
  <1>4. CASE Options("journald_paths") # None
    <2>1. section = Some([paths |-> Some(full), tailer |-> Section(r).tailer])
      BY <1>4, SectionIsRecord
    <2> HIDE DEF section
    <2>2. o["journald"] = Some([paths |-> Some(full), tailer |-> Either(Options(Tailer), Section(r).tailer)])
      BY <1>2, <2>1, SomeIsThere
    <2>3. OrElse(o["journald"], NoJournald) = [paths |-> Some(full), tailer |-> Either(Options(Tailer), Section(r).tailer)]
      BY <2>2, SomeIsThere DEF OrElse
    <2>4. OrElse(Some(full), <<>>) = full
      BY SomeIsThere DEF OrElse
    <2> DEFINE w == OrElse(o["journald"], NoJournald)
    <2>5. w.paths = Some(full) /\ w.tailer = Either(Options(Tailer), Section(r).tailer)
      BY <2>3
    <2> HIDE DEF w
    <2>6. ConvertedJournald(w) =
             [paths |-> full, tailer |-> OrElse(Either(Options(Tailer), Section(r).tailer), TRUE)]
      BY <2>4, <2>5 DEF ConvertedJournald
    <2>. QED
      BY <1>3, <1>4, <2>6 DEF full, w
  <1>5. CASE Options("journald_paths") = None /\ r["journald"] # None
    <2>1. section = Some(Section(r)) /\ section # None /\ section[1] = Section(r)
      BY <1>5, SomeIsThere, SectionIsRecord
    <2> HIDE DEF section
    <2>2. o["journald"] = Some([paths |-> Section(r).paths, tailer |-> Either(Options(Tailer), Section(r).tailer)])
      BY <1>2, <2>1, SectionIsRecord
    <2>3. OrElse(o["journald"], NoJournald) = [paths |-> Section(r).paths, tailer |-> Either(Options(Tailer), Section(r).tailer)]
      BY <2>2, SomeIsThere DEF OrElse
    <2>. QED
      BY <1>3, <1>5, <2>3 DEF ConvertedJournald
  <1>6. CASE Options("journald_paths") = None /\ r["journald"] = None
    <2>1. OrElse(o["journald"], NoJournald) = Section(r)
      BY <1>2, <1>6 DEF OrElse, Section
    <2>2. JournaldRuns(r) = ConvertedJournald(Section(r))
      BY <1>3, <2>1
    <2>3. JournaldRuns(r).paths = OrElse(Section(r).paths, <<>>)
      BY <2>2 DEF ConvertedJournald
    <2>. QED
      BY <1>6, <2>3
  <1>. QED
    BY <1>4, <1>5, <1>6

LEMMA SomeOption ==
  ASSUME NEW n, NEW source \in OptionSources, Counts(source, n)
  PROVE  Options(n) # None
  <1>1. source \in {"deprecated", "argument", "logdna", "env"}
    BY DEF OptionSources, Sources, FileSources
  <1>2. Given(source, n) # None
    BY SomeIsThere DEF Counts, Given
  <1>3. Deprecated(n) # None \/ source # "deprecated"
    BY DeprecatedIs, SomeIsThere DEF Counts
  <1>. QED
    BY <1>1, <1>2, <1>3 DEF Options, Environment, Either

LEMMA TailerLoaded ==
  ASSUME SaidInv, NEW r, LoadedIs(r), NEW source \in FileSources, Leads(source, Tailer, FileSources)
  PROVE  r["journald"] # None /\ r["journald"][1].tailer = Some(given[source][Tailer])
  <1> DEFINE v == given[source][Tailer]
  <1>1. SectionIs(r["journald"])
    BY SectionLoaded
  <1>2. CASE source = "yaml"
    <2>1. YamlRead /\ Has("yaml", Tailer) /\ ~InLegacy
      BY <1>2, LeadingFile DEF PassedOver, InLegacy
    <2>. QED
      BY <1>1, <1>2, <2>1, SomeIsThere DEF SectionIs, InYaml, YamlSection, Given
  <1>3. CASE source = "legacy"
    <2>1. InLegacy /\ Has("legacy", Tailer)
      BY <1>3, LeadingFile DEF LeftOut, InLegacy
    <2>2. LegacySection.tailer = Some(v)
      BY <1>3, <2>1, SomeIsThere DEF LegacySection, Given, Either
    <2>3. CASE ~InYaml
      BY <1>1, <2>1, <2>2, <2>3, SomeIsThere DEF SectionIs
    <2>4. CASE InYaml
      <3>1. MergedSection.tailer =
               IF YamlSection.tailer \in {Some(TRUE), None} THEN Some(v)
               ELSE Some(v \/ YamlSection.tailer[1])
        BY <2>2, SomeIsThere DEF MergedSection, MergedOption
      <3>2. v \in BOOLEAN
        BY <1>3, <2>1 DEF SaidInv, Sources, Worded, Has
      <3>3. YamlSection.tailer \in {Some(TRUE), Some(FALSE), None}
        <4>1. CASE Has("yaml", Tailer)
          <5>1. given["yaml"][Tailer] \in BOOLEAN
            BY <4>1 DEF SaidInv, Sources, Worded, Has
          <5>2. given["yaml"][Tailer] = TRUE \/ given["yaml"][Tailer] = FALSE
            BY <5>1
          <5>. QED
            BY <4>1, <5>2 DEF YamlSection, Given
        <4>2. CASE ~Has("yaml", Tailer)
          BY <4>2 DEF YamlSection, Given
        <4>. QED
          BY <4>1, <4>2
      <3>4. (v \/ FALSE) = v
        BY <3>2
      <3>5. Some(FALSE)[1] = FALSE
        BY SomeIsThere
      <3>6. MergedSection.tailer = Some(v)
        BY <3>1, <3>3, <3>4, <3>5
      <3>. QED
        BY <1>1, <2>1, <2>4, <3>6, SomeIsThere DEF SectionIs
    <2>. QED
      BY <2>3, <2>4
  <1>. QED
    BY <1>2, <1>3 DEF FileSources

LEMMA TailerCounts ==
  ASSUME SaidInv, NEW r, LoadedIs(r), NEW source \in Sources, Leads(source, Tailer, Sources),
         ~(~Counts("yaml", Tailer) /\ \A other \in Sources : ~Counts(other, "journald_paths"))
  PROVE  JournaldRuns(r).tailer = given[source][Tailer]
  <1>1. CASE source \in FileSources
    <2>1. Options(Tailer) = None /\ Leads(source, Tailer, FileSources)
      BY <1>1, FileLeads
    <2>2. r["journald"] # None /\ r["journald"][1].tailer = Some(given[source][Tailer])
      BY <1>1, <2>1, TailerLoaded
    <2>3. Section(r).tailer = Some(given[source][Tailer])
      BY <2>2 DEF OrElse, Section
    <2>4. OrElse(Either(Options(Tailer), Section(r).tailer), TRUE) = given[source][Tailer]
      BY <2>1, <2>3, SomeIsThere DEF OrElse, Either
    <2>. QED
      BY <2>2, <2>4, JournaldConverted
  <1>2. CASE source \in OptionSources
    <2>1. Options(Tailer) = Some(given[source][Tailer])
      BY <1>2, NoLists, OptionLeads
    <2>2. Options("journald_paths") # None \/ InYaml \/ InLegacy
      <3>1. CASE Counts("yaml", Tailer)
        BY <3>1 DEF Counts, InYaml, YamlRead
      <3>2. CASE Counts("yaml", "journald_paths")
        BY <3>2 DEF Counts, InYaml, YamlRead
      <3>3. CASE Counts("legacy", "journald_paths")
        BY <3>3 DEF Counts, InLegacy, LegacyRead
      <3>4. ASSUME NEW other \in OptionSources, Counts(other, "journald_paths")
            PROVE  Options("journald_paths") # None
        BY <3>4, SomeOption
      <3>. QED
        BY <3>1, <3>2, <3>3, <3>4, FileIsNoOption DEF FileSources
    <2>3. r["journald"] # None \/ Options("journald_paths") # None
      BY <2>2, SectionLoaded, SomeIsThere DEF SectionIs
    <2>4. OrElse(Either(Options(Tailer), Section(r).tailer), TRUE) = given[source][Tailer]
      BY <2>1, SomeIsThere DEF OrElse, Either
    <2>. QED
      BY <2>3, <2>4, JournaldConverted
  <1>. QED
    BY <1>1, <1>2, FileIsNoOption
---------------------------------------------------------------------------
(* Lists.                                                                  *)
\* The provers know no literal for a member of STRING.
Words == STRING \cup {"d"}
Entries == Seq(Seq(Words))

LEMMA LargerSeq == \A S, T : S \subseteq T => Seq(S) \subseteq Seq(T)
  <1> SUFFICES ASSUME NEW S, NEW T, S \subseteq T, NEW q \in Seq(S) PROVE q \in Seq(T)
    OBVIOUS
  <1>1. Len(q) \in Nat /\ q = [m \in 1 .. Len(q) |-> q[m]] /\ \A m \in 1 .. Len(q) : q[m] \in T
    OBVIOUS
  <1>. QED
    BY <1>1

LEMMA ListSaid ==
  ASSUME SaidInv, NEW s \in ListNames, NEW source \in Sources, Has(source, s)
  PROVE  given[source][s] \in (IF source = "legacy" THEN Seq(Words) ELSE Entries)
  <1>1. Seq(STRING) \subseteq Seq(Words) /\ Seq(Seq(STRING)) \subseteq Seq(Seq(Words))
    BY LargerSeq DEF Words
  <1>. QED
    BY <1>1 DEF SaidInv, Worded, Has, Entries

LEMMA EntryTyped == ASSUME NEW p \in Words PROVE Entry(p) \in Seq(Words)
  <1>1. <<p>> \in Seq(Words)
    OBVIOUS
  <1>2. Seq(STRING) \subseteq Seq(Words)
    BY LargerSeq DEF Words
  <1>. QED
    BY <1>1, <1>2, ConfigurationAssumption DEF Entry

LEMMA ItemsOfOne ==
  ASSUME NEW v \in Seq(Words)
  PROVE  /\ SplitByComma(v) \in Entries /\ Len(SplitByComma(v)) = Len(v)
         /\ Range(SplitByComma(v)) = {Entry(p) : p \in Range(v)}
  <1>1. Len(<<v>>) = 1 /\ <<v>>[1] = v
    OBVIOUS
  <1>2. SplitByComma(v) = [i \in DOMAIN v |-> Entry(v[i])]
    BY <1>1 DEF SplitByComma, WithCsv
  <1>3. DOMAIN v = 1 .. Len(v) /\ Len(v) \in Nat /\ \A i \in DOMAIN v : Entry(v[i]) \in Seq(Words)
    BY EntryTyped
  <1>4. SplitByComma(v) \in Entries /\ Len(SplitByComma(v)) = Len(v)
    BY <1>2, <1>3 DEF Entries
  <1>. QED
    BY <1>2, <1>4 DEF Range

LEMMA CsvParts ==
  ASSUME NEW values \in Entries
  PROVE  /\ WithCsv(values) \in Entries
         /\ \/ {Entry(p) : p \in UNION {Range(v) : v \in Range(values)}} \subseteq Range(WithCsv(values))
            \/ Len(values) > 1 /\ \E v \in Range(values) : HasCommas(v)
  <1>1. CASE Len(values) = 1
    <2>0. DOMAIN values = {1} /\ values[1] \in Seq(Words)
      BY <1>1 DEF Entries
    <2>1. values[1] \in Seq(Words) /\ Range(values) = {values[1]}
      BY <2>0 DEF Range
    <2>2. WithCsv(values) = SplitByComma(values[1])
      <3>1. Len(<<values[1]>>) = 1 /\ <<values[1]>>[1] = values[1]
        OBVIOUS
      <3>. QED
        BY <1>1, <3>1 DEF WithCsv, SplitByComma
    <2>3. WithCsv(values) \in Entries /\ Range(WithCsv(values)) = {Entry(p) : p \in Range(values[1])}
      BY <2>1, <2>2, ItemsOfOne
    <2>4. UNION {Range(v) : v \in Range(values)} = Range(values[1])
      BY <2>1
    <2>. QED
      BY <2>3, <2>4
  <1>2. CASE Len(values) # 1
    <2>1. WithCsv(values) = values
      BY <1>2 DEF WithCsv
    <2>2. ASSUME ~(Len(values) > 1 /\ \E v \in Range(values) : HasCommas(v)),
                 NEW v \in Range(values), NEW p \in Range(v)
          PROVE  Entry(p) \in Range(values)
      <3>1. PICK i \in DOMAIN values : v = values[i]
        BY DEF Range
      <3>2. v \in Seq(Words) /\ Len(v) \in Nat /\ Len(values) \in Nat /\ DOMAIN values = 1 .. Len(values)
        BY <3>1 DEF Entries
      <3>3. Len(values) > 1
        BY <1>2, <3>1, <3>2
      <3>4. Len(v) <= 1 /\ p \notin DOMAIN Escaped
        BY <2>2, <3>2, <3>3 DEF HasCommas
      <3>5. PICK k \in DOMAIN v : p = v[k]
        BY DEF Range
      <3>6. Len(v) = 1 /\ k = 1
        <4>1. DOMAIN v = 1 .. Len(v) /\ Len(v) \in Nat
          BY <3>2
        <4>. QED
          BY <3>4, <3>5, <4>1
      <3>7. v = <<v[1]>>
        <4>1. DOMAIN v = 1 .. 1 /\ v = [m \in 1 .. 1 |-> v[m]]
          BY <3>2, <3>6
        <4>2. \A m \in 1 .. 1 : m = 1
          OBVIOUS
        <4>. QED
          BY <4>1, <4>2
      <3>. QED
        BY <3>1, <3>4, <3>5, <3>6, <3>7 DEF Entry, Range
    <2>. QED
      BY <2>1, <2>2
  <1>. QED
    BY <1>1, <1>2

LEMMA RangeOfBoth ==
  ASSUME NEW a \in Entries, NEW b \in Entries
  PROVE  a \o b \in Entries /\ Range(a \o b) = Range(a) \cup Range(b)
  <1>1. a \o b \in Entries /\ Len(a \o b) = Len(a) + Len(b) /\ Len(a) \in Nat /\ Len(b) \in Nat
        /\ DOMAIN a = 1 .. Len(a) /\ DOMAIN b = 1 .. Len(b) /\ DOMAIN (a \o b) = 1 .. Len(a) + Len(b)
    BY DEF Entries
  <1>2. /\ \A i \in DOMAIN a : (a \o b)[i] = a[i] /\ i \in DOMAIN (a \o b)
        /\ \A i \in DOMAIN b : (a \o b)[Len(a) + i] = b[i] /\ Len(a) + i \in DOMAIN (a \o b)
        /\ \A i \in DOMAIN (a \o b) : i \in DOMAIN a \/ (i - Len(a) \in DOMAIN b /\ (a \o b)[i] = b[i - Len(a)])
    BY <1>1 DEF Entries
  <1>3. Range(a \o b) \subseteq Range(a) \cup Range(b)
    BY <1>2 DEF Range
  <1>4. Range(a) \subseteq Range(a \o b) /\ Range(b) \subseteq Range(a \o b)
    BY <1>2 DEF Range
  <1>. QED
    BY <1>1, <1>3, <1>4

\* What the options add.
LEMMA OptionSaid ==
  ASSUME NEW n
  PROVE  Options(n) = None \/ \E source \in OptionSources : Has(source, n) /\ Options(n) = Some(OptionOf(source, n))
  <1>1. OptionSources = {"deprecated", "argument", "logdna", "env"}
    BY DEF OptionSources, Sources, FileSources
  <1>. QED
    BY <1>1, DeprecatedIs DEF Options, Environment, Either, Given, OptionOf

LEMMA ItemsTyped ==
  ASSUME SaidInv, NEW s \in ListNames
  PROVE  Items(s) \in Entries
  <1>1. CASE Options(s) = None
    BY <1>1 DEF Items, Entries
  <1>2. CASE Options(s) # None
    <2>1. PICK source \in OptionSources : Has(source, s) /\ Options(s) = Some(OptionOf(source, s))
      BY <1>2, OptionSaid
    <2>2. given[source][s] \in Entries
      BY <2>1, ListSaid, FileIsNoOption DEF FileSources
    <2>3. OptionOf(source, s) \in Entries
      BY <2>2, CsvParts DEF OptionOf
    <2>. QED
      BY <1>2, <2>1, <2>3, CsvParts, SomeIsThere DEF Items
  <1>. QED
    BY <1>1, <1>2

\* Splitting once more does no harm but to a single entry that has commas.
LEMMA SplitTwice ==
  ASSUME NEW v \in Seq(Words), ~(Len(v) = 1 /\ HasCommas(v))
  PROVE  WithCsv(SplitByComma(v)) = SplitByComma(v)
  <1>1. CASE Len(v) # 1
    BY <1>1, ItemsOfOne DEF WithCsv
  <1>2. CASE Len(v) = 1
    <2>1. DOMAIN v = {1} /\ v = <<v[1]>> /\ v[1] \notin DOMAIN Escaped
      <3>1. DOMAIN v = {1} /\ v[1] \in Range(v)
        BY <1>2 DEF Range
      <3>2. v = <<v[1]>>
        <4>1. v = [m \in 1 .. 1 |-> v[m]] /\ \A m \in 1 .. 1 : m = 1
          BY <1>2
        <4>. QED
          BY <4>1
      <3>. QED
        BY <1>2, <3>1, <3>2 DEF HasCommas
    <2>2. SplitByComma(v) = <<Entry(v[1])>>
      <3>1. Len(<<v>>) = 1 /\ <<v>>[1] = v
        OBVIOUS
      <3>2. SplitByComma(v) = [i \in {1} |-> Entry(v[i])]
        BY <2>1, <3>1 DEF SplitByComma, WithCsv
      <3>3. [i \in {1} |-> Entry(v[i])] = <<Entry(v[1])>>
        <4>1. \A m \in 1 .. 1 : m = 1
          OBVIOUS
        <4>. QED
          BY <4>1
      <3>. QED
        BY <3>2, <3>3
    <2>3. Entry(v[1]) = v
      BY <2>1 DEF Entry
    <2>4. WithCsv(<<v>>) = SplitByComma(v)
      BY DEF SplitByComma
    <2>. QED
      BY <2>2, <2>3, <2>4
  <1>. QED
    BY <1>1, <1>2

LEMMA OptionParts ==
  ASSUME SaidInv, NEW s \in ListNames, NEW source \in OptionSources, Leads(source, s, OptionSources)
  PROVE  /\ Options(s) # None
         /\ Parts(source, s) \subseteq Range(Items(s)) \/ CommasMisread(source, s)
  <1> DEFINE values == given[source][s]
  <1>1. Options(s) = Some(OptionOf(source, s)) /\ Options(s) # None
    BY ListOptionLeads, SomeIsThere
  <1>2. Items(s) = WithCsv(OptionOf(source, s))
    BY <1>1, SomeIsThere DEF Items
  <1>3. Has(source, s) /\ source \notin {"yaml", "legacy"} /\ source \in Sources
    BY FileIsNoOption DEF Leads, Counts, FileSources
  <1>4. values \in Entries
    BY <1>3, ListSaid
  <1>5. Parts(source, s) = {Entry(p) : p \in UNION {Range(v) : v \in Range(values)}}
    BY <1>3 DEF Parts
  <1>6. CASE source # "deprecated"
    <2>1. Items(s) = WithCsv(values)
      BY <1>2, <1>6 DEF OptionOf
    <2> HIDE DEF values
    <2>. QED
      BY <1>1, <1>4, <1>5, <2>1, CsvParts DEF CommasMisread, values
  <1>7. CASE source = "deprecated"
    <2>1. Len(values) = 1
      BY <1>3, <1>7 DEF SaidInv, Worded, Has
    <2>2. DOMAIN values = {1} /\ values[1] \in Seq(Words)
      BY <1>4, <2>1 DEF Entries
    <2>3. UNION {Range(v) : v \in Range(values)} = Range(values[1])
      BY <2>2 DEF Range
    <2>4. WithCsv(values) = SplitByComma(values[1])
      <3>1. Len(<<values[1]>>) = 1 /\ <<values[1]>>[1] = values[1]
        OBVIOUS
      <3>. QED
        BY <2>1, <3>1 DEF WithCsv, SplitByComma
    <2>5. Items(s) = WithCsv(SplitByComma(values[1]))
      BY <1>2, <1>7, <2>4 DEF OptionOf
    <2>6. CommasMisread(source, s) \/ ~(Len(values[1]) = 1 /\ HasCommas(values[1]))
      BY <1>7 DEF CommasMisread
    <2> HIDE DEF values
    <2>7. ASSUME ~(Len(values[1]) = 1 /\ HasCommas(values[1]))
          PROVE  Parts(source, s) \subseteq Range(Items(s))
      <3>1. Items(s) = SplitByComma(values[1])
        BY <2>2, <2>5, <2>7, SplitTwice
      <3>. QED
        BY <1>5, <2>2, <2>3, <3>1, ItemsOfOne
    <2>. QED
      BY <1>1, <2>6, <2>7
  <1>. QED
    BY <1>6, <1>7

\* What a file says of a list.
LEMMA LegacyListIs ==
  ASSUME SaidInv, NEW s \in ListNames
  PROVE  /\ LegacyItems(s) \in Entries
         /\ Has("legacy", s) => Parts("legacy", s) = Range(LegacyItems(s))
  <1>1. CASE Has("legacy", s)
    <2>1. given["legacy"][s] \in Seq(Words)
      BY <1>1, ListSaid DEF Sources
    <2>2. LegacyItems(s) = SplitByComma(given["legacy"][s])
      BY <1>1, SomeIsThere DEF LegacyItems, Legacy, Given
    <2>3. Parts("legacy", s) = {Entry(p) : p \in Range(given["legacy"][s])}
      BY DEF Parts
    <2>. QED
      BY <2>1, <2>2, <2>3, ItemsOfOne
  <1>2. CASE ~Has("legacy", s)
    BY <1>2 DEF LegacyItems, Legacy, Given, Entries
  <1>. QED
    BY <1>1, <1>2

LEMMA YamlListIs ==
  ASSUME SaidInv, NEW s \in ListNames, Has("yaml", s)
  PROVE  given["yaml"][s] \in Entries /\ Parts("yaml", s) = Range(given["yaml"][s])
  BY ListSaid DEF Parts, Sources

\* A list of the files that holds what the leading one says.
Holds(list, s) ==
    /\ list \in Entries
    /\ \A source \in FileSources :
          Leads(source, s, FileSources) => Parts(source, s) \subseteq Range(list)

LEMMA DefaultTyped == <<Entry("d")>> \in Entries
  <1>1. \A S, x : x \in S => <<x>> \in Seq(S)
    OBVIOUS
  <1>2. Entry("d") \in Seq(Words)
    BY EntryTyped DEF Words
  <1>. QED
    BY <1>1, <1>2 DEF Entries

LEMMA EmptyTyped == <<>> \in Entries
  BY DEF Entries

LEMMA ListsLoaded ==
  ASSUME SaidInv, NEW r, LoadedIs(r), NEW s \in Lists
  PROVE  Holds(OrElse(r[s], <<>>), s)
  <1> DEFINE a == FromProperties[s]
             b == FromYaml[s]
  <1>1. /\ s \in Fields /\ s \in ListNames /\ s \notin TailerCommand /\ s # "dirs" /\ s # Tailer
        /\ s \notin Scalars \cup Switches \cup {"startup", "tags"}
        /\ Default[s] = None
    BY DEF Lists, Fields, ListNames, TailerCommand, Tailer, Default, Scalars, Texts, Numbers, Enumerated, Switches, Rules
  <1>2. a = IF Has("legacy", s) THEN Some(LegacyItems(s)) ELSE None
    <2>1. a = LegacyList(s)
      BY <1>1, PlainFields DEF FromProperties
    <2>. QED
      BY <2>1, SomeIsThere DEF LegacyList, Legacy, Given
  <1>3. b = IF Has("yaml", s) THEN Some(given["yaml"][s]) ELSE None
    BY YamlSays DEF Given
  <1>4. LegacyRead /\ YamlRead =>
           r[s] = IF b = None THEN a ELSE IF a = None THEN b ELSE Some(MergedValue(s, a[1], b[1]))
    BY <1>1 DEF LoadedIs, MergedFiles, MergedOption
  <1>5. /\ LegacyRead /\ ~YamlRead => r[s] = a
        /\ ~LegacyRead /\ YamlRead => r[s] = b
        /\ ~LegacyRead /\ ~YamlRead => r[s] = None
    BY <1>1 DEF LoadedIs
  <1>6. MergedValue(s, a[1], b[1]) = NonEmpty(a[1], b[1])
    BY <1>1, PlainFields DEF MergedValue
  <1> HIDE DEF a, b
  <1>7. /\ LegacyItems(s) \in Entries
        /\ Has("legacy", s) => Parts("legacy", s) = Range(LegacyItems(s))
        /\ Has("yaml", s) => given["yaml"][s] \in Entries /\ Parts("yaml", s) = Range(given["yaml"][s])
    BY <1>1, LegacyListIs, YamlListIs
  <1>8. ASSUME NEW v, NEW w, a = Some(v), b = Some(w)
        PROVE  NonEmpty(a[1], b[1]) = IF w = <<>> THEN v ELSE w
    BY <1>8, SomeIsThere DEF NonEmpty
  <1>9. OrElse(r[s], <<>>) \in Entries
    BY <1>2, <1>3, <1>4, <1>5, <1>6, <1>7, <1>8, SomeIsThere, EmptyTyped DEF OrElse
  <1>10. ASSUME Leads("yaml", s, FileSources)
         PROVE  OrElse(r[s], <<>>) = given["yaml"][s] /\ Has("yaml", s)
    <2>1. YamlRead /\ Has("yaml", s) /\ (LegacyRead => given["yaml"][s] # <<>>)
      BY <1>1, <1>10, LeadingFile DEF PassedOver, FileSources
    <2>. QED
      BY <1>2, <1>3, <1>4, <1>5, <1>6, <1>8, <2>1, SomeIsThere DEF OrElse
  <1>11. ASSUME Leads("legacy", s, FileSources)
         PROVE  OrElse(r[s], <<>>) = LegacyItems(s) /\ Has("legacy", s)
    <2>1. LegacyRead /\ Has("legacy", s) /\ (YamlRead /\ Has("yaml", s) => given["yaml"][s] = <<>>)
      <3>1. Has("yaml", s) => FromYaml[s] # Default[s]
        BY <1>1, <1>3, SomeIsThere DEF b
      <3>. QED
        BY <1>1, <1>11, <3>1, LeadingFile DEF PassedOver, FileSources
    <2>. QED
      BY <1>2, <1>3, <1>4, <1>5, <1>6, <1>8, <2>1, SomeIsThere DEF OrElse
  <1>. QED
    BY <1>7, <1>9, <1>10, <1>11 DEF Holds, FileSources

LEMMA YamlHasDirs == ASSUME SaidInv, YamlRead PROVE Has("yaml", "dirs")
  <1>1. files.yaml \in DOMAIN Bases
    BY ConfigurationAssumption DEF SaidInv, YamlRead, IsRead, Tried, Kinds
  <1>. QED
    BY <1>1 DEF SaidInv, Has

LEMMA DirsLoaded ==
  ASSUME SaidInv, NEW r, LoadedIs(r)
  PROVE  Holds(r["dirs"][1], "dirs")
  <1> DEFINE a == FromProperties["dirs"]
             b == FromYaml["dirs"]
             v == given["yaml"]["dirs"]
  <1>1. /\ "dirs" \in Fields /\ "dirs" \in ListNames /\ "dirs" \notin TailerCommand /\ "dirs" # Tailer
        /\ "dirs" \notin Scalars \cup Switches \cup {"startup"}
        /\ Default["dirs"] = Some(<<Entry("d")>>)
    BY DEF Lists, Fields, ListNames, TailerCommand, Tailer, Default, Scalars, Texts, Numbers, Enumerated, Switches, Rules
  <1>2. a = IF Has("legacy", "dirs") THEN Some(LegacyItems("dirs")) ELSE Default["dirs"]
    <2>1. a = Either(LegacyList("dirs"), Default["dirs"])
      BY <1>1, PlainFields DEF FromProperties
    <2>. QED
      BY <2>1, SomeIsThere DEF LegacyList, Legacy, Given, Either
  <1>3. Has("yaml", "dirs") => b = Some(v)
    BY YamlSays DEF Given
  <1>4. LegacyRead /\ YamlRead =>
           r["dirs"] = IF b \in {Default["dirs"], None} THEN a
                       ELSE IF a = None THEN b ELSE Some(b[1])
    BY <1>1 DEF LoadedIs, MergedFiles, MergedOption, MergedValue, Lists, Rules
  <1>5. /\ LegacyRead /\ ~YamlRead => r["dirs"] = a
        /\ ~LegacyRead /\ YamlRead => r["dirs"] = b
        /\ ~LegacyRead /\ ~YamlRead => r["dirs"] = Default["dirs"]
    BY <1>1 DEF LoadedIs
  <1> HIDE DEF a, b, v
  <1>6. YamlRead => Has("yaml", "dirs") /\ b = Some(v) /\ b # None /\ b[1] = v
    BY <1>3, YamlHasDirs, SomeIsThere
  <1>7. /\ LegacyItems("dirs") \in Entries
        /\ Has("legacy", "dirs") => Parts("legacy", "dirs") = Range(LegacyItems("dirs"))
        /\ Has("yaml", "dirs") => v \in Entries /\ Parts("yaml", "dirs") = Range(v)
    BY <1>1, LegacyListIs, YamlListIs DEF v
  <1>8. <<Entry("d")>> \in Entries
    BY DefaultTyped
  <1>9. a[1] \in Entries /\ (Has("legacy", "dirs") => a[1] = LegacyItems("dirs")) /\ a # None
    BY <1>1, <1>2, <1>7, <1>8, SomeIsThere
  <1>10. r["dirs"][1] \in Entries
    BY <1>1, <1>4, <1>5, <1>6, <1>7, <1>8, <1>9, SomeIsThere
  <1>11. ASSUME Leads("yaml", "dirs", FileSources)
         PROVE  r["dirs"][1] = v /\ Has("yaml", "dirs")
    <2>1. YamlRead /\ Has("yaml", "dirs") /\ (LegacyRead => b # Default["dirs"])
      BY <1>1, <1>11, LeadingFile DEF PassedOver, FileSources, b
    <2>. QED
      BY <1>4, <1>5, <1>6, <1>9, <2>1, SomeIsThere
  <1>12. ASSUME Leads("legacy", "dirs", FileSources)
         PROVE  r["dirs"][1] = LegacyItems("dirs") /\ Has("legacy", "dirs")
    <2>1. LegacyRead /\ Has("legacy", "dirs") /\ (YamlRead => b = Default["dirs"])
      BY <1>1, <1>6, <1>12, LeadingFile DEF PassedOver, FileSources, b
    <2>. QED
      BY <1>4, <1>5, <1>9, <2>1
  <1>. QED
    BY <1>7, <1>10, <1>11, <1>12 DEF Holds, FileSources

\* The rules of one kind: globs, and regular expressions under a name of their own.
LegacyRules(s) == [glob |-> <<Entry("d")>> \o LegacyItems(s), regex |-> LegacyItems(RegexOf[s])]
YamlRules(s) == [glob |-> OrElse(Given("yaml", s), <<>>),
                 regex |-> OrElse(Given("yaml", RegexOf[s]), <<>>)]
RulesOf(r, s) == OrElse(r[s], NoRules)

LEMMA RuleNames ==
  ASSUME NEW s \in Rules
  PROVE  /\ s \in Fields /\ s \in ListNames /\ RegexOf[s] \in ListNames /\ RegexOf[s] \notin Fields
         /\ s \notin TailerCommand \cup Scalars \cup Switches \cup Lists
         /\ s \notin {"dirs", "startup", "tags", "journald", "params", "hostname"}
         /\ RegexOf[s] \notin {"startup", "tags", "dirs", "hostname"} \cup Scalars \cup Switches
         /\ s # Tailer /\ RegexOf[s] # Tailer
         /\ Default[s] = Some([glob |-> <<Entry("d")>>, regex |-> <<>>])
  <1>1. s = "include" \/ s = "exclude"
    BY DEF Rules
  <1>2. RegexOf[s] = "include_regex" \/ RegexOf[s] = "exclude_regex"
    BY <1>1 DEF RegexOf
  <1>3. /\ s \in Fields /\ s \in ListNames /\ RegexOf[s] \in ListNames /\ RegexOf[s] \notin Fields
        /\ s \notin TailerCommand \cup Scalars \cup Switches \cup Lists
        /\ s \notin {"dirs", "startup", "tags", "journald", "params", "hostname"}
        /\ RegexOf[s] \notin {"startup", "tags", "dirs", "hostname"} \cup Scalars \cup Switches
        /\ s # Tailer /\ RegexOf[s] # Tailer
    BY <1>1, <1>2 DEF Rules, Fields, ListNames, TailerCommand, Lists, Tailer, Scalars, Texts, Numbers, Enumerated, Switches
  <1>4. Default[s] = Some([NoRules EXCEPT !.glob = <<Entry("d")>>])
    BY <1>1, <1>3 DEF Default, Switches
  <1>5. [NoRules EXCEPT !.glob = <<Entry("d")>>] = [glob |-> <<Entry("d")>>, regex |-> <<>>]
    BY DEF NoRules
  <1>. QED
    BY <1>3, <1>4, <1>5

LEMMA RulesRead ==
  ASSUME NEW s \in Rules
  PROVE  /\ FromProperties[s] = Some(LegacyRules(s))
         /\ FromYaml[s] = IF Has("yaml", s) \/ Has("yaml", RegexOf[s]) THEN Some(YamlRules(s)) ELSE None
  <1>1. Default[s][1].glob = <<Entry("d")>>
    BY RuleNames, SomeIsThere
  <1>2. FromProperties[s] = Some([glob |-> Default[s][1].glob \o LegacyItems(s),
                                  regex |-> LegacyItems(RegexOf[s])])
    BY RuleNames DEF FromProperties
  <1>3. FromYaml[s] = IF Has("yaml", s) \/ Has("yaml", RegexOf[s]) THEN Some(YamlRules(s)) ELSE None
    <2> DEFINE its == <<Given("yaml", s), Given("yaml", RegexOf[s])>>
    <2>1. FromYaml[s] = IF \A i \in DOMAIN its : its[i] = None THEN None
                        ELSE Some([glob |-> OrElse(its[1], <<>>), regex |-> OrElse(its[2], <<>>)])
      BY RuleNames DEF FromYaml
    <2>2. (\A i \in DOMAIN its : its[i] = None) <=> its[1] = None /\ its[2] = None
      OBVIOUS
    <2>3. its[1] = None <=> ~Has("yaml", s)
      BY SomeIsThere DEF Given
    <2>4. its[2] = None <=> ~Has("yaml", RegexOf[s])
      BY SomeIsThere DEF Given
    <2>. QED
      BY <2>1, <2>2, <2>3, <2>4 DEF YamlRules
  <1>. QED
    BY <1>1, <1>2, <1>3 DEF LegacyRules

\* Which rules come from where.
RulesAre(rules, s) ==
    LET both == [glob |-> NonEmpty(LegacyRules(s).glob, YamlRules(s).glob),
                 regex |-> NonEmpty(LegacyRules(s).regex, YamlRules(s).regex)]
        silent == FromYaml[s] \in {Default[s], None}
    IN  /\ LegacyRead /\ YamlRead /\ ~silent => rules = both
        /\ LegacyRead /\ (YamlRead => silent) => rules = LegacyRules(s)
        /\ ~LegacyRead /\ YamlRead => rules = IF FromYaml[s] = None THEN NoRules ELSE YamlRules(s)
        /\ ~LegacyRead /\ ~YamlRead => rules = Default[s][1]

LEMMA RulesLoaded ==
  ASSUME NEW r, LoadedIs(r), NEW s \in Rules
  PROVE  RulesAre(RulesOf(r, s), s)
  <1> DEFINE a == FromProperties[s]
             b == FromYaml[s]
             both == [glob |-> NonEmpty(LegacyRules(s).glob, YamlRules(s).glob),
                      regex |-> NonEmpty(LegacyRules(s).regex, YamlRules(s).regex)]
  <1>1. a = Some(LegacyRules(s)) /\ a # None /\ a[1] = LegacyRules(s)
    BY RulesRead, SomeIsThere
  <1>2. b # None => b = Some(YamlRules(s)) /\ b[1] = YamlRules(s)
    BY RulesRead, SomeIsThere
  <1>3. LegacyRead /\ YamlRead =>
           r[s] = IF b \in {Default[s], None} THEN a
                  ELSE IF a = None THEN b ELSE Some(MergedValue(s, a[1], b[1]))
    BY RuleNames DEF LoadedIs, MergedFiles, MergedOption
  <1>4. b # None => MergedValue(s, a[1], b[1]) = both
    BY <1>1, <1>2, RuleNames DEF MergedValue
  <1>5. /\ LegacyRead /\ ~YamlRead => r[s] = a
        /\ ~LegacyRead /\ YamlRead => r[s] = b
        /\ ~LegacyRead /\ ~YamlRead => r[s] = Default[s]
    BY DEF LoadedIs
  <1>6. Default[s] = Some(Default[s][1])
    BY RuleNames, SomeIsThere
  <1>7. \A v : r[s] = Some(v) => RulesOf(r, s) = v
    BY SomeIsThere DEF RulesOf, OrElse
  <1>8. r[s] = None => RulesOf(r, s) = NoRules
    BY DEF RulesOf, OrElse
  <1>9. LegacyRead /\ YamlRead /\ b \notin {Default[s], None} => RulesOf(r, s) = both
    BY <1>1, <1>2, <1>3, <1>4, <1>7
  <1>10. LegacyRead /\ (YamlRead => b \in {Default[s], None}) => RulesOf(r, s) = LegacyRules(s)
    BY <1>1, <1>3, <1>5, <1>7
  <1>11. ~LegacyRead /\ YamlRead => RulesOf(r, s) = IF b = None THEN NoRules ELSE YamlRules(s)
    BY <1>2, <1>5, <1>7, <1>8
  <1>12. ~LegacyRead /\ ~YamlRead => RulesOf(r, s) = Default[s][1]
    BY <1>5, <1>6, <1>7
  <1>. QED
    BY <1>9, <1>10, <1>11, <1>12 DEF RulesAre

LEMMA RulesHold ==
  ASSUME SaidInv, NEW r, LoadedIs(r), NEW s \in Rules
  PROVE  Holds(RulesOf(r, s).glob, s) /\ Holds(RulesOf(r, s).regex, RegexOf[s])
  <1> DEFINE rules == RulesOf(r, s)
             x == RegexOf[s]
             a == LegacyRules(s)
             b == YamlRules(s)
             silent == FromYaml[s] \in {Default[s], None}
  <1>1. RulesAre(rules, s)
    BY RulesLoaded
  <1>2. /\ LegacyItems(s) \in Entries /\ LegacyItems(x) \in Entries
        /\ Has("legacy", s) => Parts("legacy", s) = Range(LegacyItems(s))
        /\ Has("legacy", x) => Parts("legacy", x) = Range(LegacyItems(x))
        /\ Has("yaml", s) => given["yaml"][s] \in Entries /\ Parts("yaml", s) = Range(given["yaml"][s])
        /\ Has("yaml", x) => given["yaml"][x] \in Entries /\ Parts("yaml", x) = Range(given["yaml"][x])
    BY RuleNames, LegacyListIs, YamlListIs
  <1>3. /\ a.glob = <<Entry("d")>> \o LegacyItems(s) /\ a.regex = LegacyItems(x)
        /\ a.glob \in Entries /\ Range(LegacyItems(s)) \subseteq Range(a.glob)
    BY <1>2, DefaultTyped, RangeOfBoth DEF LegacyRules
  <1>4. /\ b.glob = IF Has("yaml", s) THEN given["yaml"][s] ELSE <<>>
        /\ b.regex = IF Has("yaml", x) THEN given["yaml"][x] ELSE <<>>
        /\ b.glob \in Entries /\ b.regex \in Entries
    BY <1>2, SomeIsThere, EmptyTyped DEF YamlRules, Given, OrElse
  <1>5. /\ FromYaml[s] = IF Has("yaml", s) \/ Has("yaml", x) THEN Some(b) ELSE None
        /\ FromYaml[s] = Default[s] => b.regex = <<>> /\ (Has("yaml", s) \/ Has("yaml", x))
    <2>1. FromYaml[s] = IF Has("yaml", s) \/ Has("yaml", x) THEN Some(b) ELSE None
      BY RulesRead
    <2>2. ASSUME FromYaml[s] = Default[s] PROVE b.regex = <<>> /\ (Has("yaml", s) \/ Has("yaml", x))
      <3>1. Default[s] # None /\ Default[s][1].regex = <<>>
        BY RuleNames, SomeIsThere
      <3>2. FromYaml[s] = Some(b) /\ (Has("yaml", s) \/ Has("yaml", x))
        BY <2>1, <2>2, <3>1
      <3>. QED
        BY <2>2, <3>1, <3>2, SomeIsThere
    <2>. QED
      BY <2>1, <2>2
  <1>6. /\ Default[s][1].glob \in Entries /\ Default[s][1].regex \in Entries
        /\ NoRules.glob \in Entries /\ NoRules.regex \in Entries
    BY RuleNames, SomeIsThere, DefaultTyped, EmptyTyped DEF NoRules
  <1> HIDE DEF a, b, x, rules
  <1>7. /\ LegacyRead /\ YamlRead /\ ~silent => /\ rules.glob = IF b.glob = <<>> THEN a.glob ELSE b.glob
                                                /\ rules.regex = IF b.regex = <<>> THEN a.regex ELSE b.regex
        /\ LegacyRead /\ (YamlRead => silent) => rules = a
        /\ ~LegacyRead /\ YamlRead => rules = IF FromYaml[s] = None THEN NoRules ELSE b
        /\ ~LegacyRead /\ ~YamlRead => rules = Default[s][1]
    BY <1>1 DEF RulesAre, NonEmpty, a, b
  <1>8. rules.glob \in Entries /\ rules.regex \in Entries
    BY <1>2, <1>3, <1>4, <1>6, <1>7
  <1>9. ASSUME Leads("yaml", s, FileSources)
        PROVE  rules.glob = given["yaml"][s] /\ Has("yaml", s)
    <2>1. YamlRead /\ Has("yaml", s) /\ (LegacyRead => given["yaml"][s] # <<>> /\ FromYaml[s] # Default[s])
      BY <1>9, RuleNames, LeadingFile DEF PassedOver, FileSources
    <2>2. FromYaml[s] = Some(b) /\ FromYaml[s] # None
      BY <1>5, <2>1, SomeIsThere
    <2>. QED
      BY <1>4, <1>7, <2>1, <2>2
  <1>10. ASSUME Leads("legacy", s, FileSources)
         PROVE  rules.glob = a.glob /\ Has("legacy", s)
    <2>1. LegacyRead /\ Has("legacy", s)
          /\ (YamlRead /\ Has("yaml", s) => given["yaml"][s] = <<>> \/ FromYaml[s] = Default[s])
      BY <1>10, RuleNames, LeadingFile DEF PassedOver, FileSources
    <2>. QED
      BY <1>4, <1>7, <2>1
  <1>11. ASSUME Leads("yaml", x, FileSources)
         PROVE  rules.regex = given["yaml"][x] /\ Has("yaml", x)
    <2>1. YamlRead /\ Has("yaml", x) /\ (LegacyRead => given["yaml"][x] # <<>>)
      BY <1>11, RuleNames, LeadingFile DEF PassedOver, FileSources, x
    <2>2. FromYaml[s] = Some(b) /\ FromYaml[s] # None
      BY <1>5, <2>1, SomeIsThere
    <2>3. LegacyRead => FromYaml[s] # Default[s]
      BY <1>4, <1>5, <2>1
    <2>. QED
      BY <1>4, <1>7, <2>1, <2>2, <2>3
  <1>12. ASSUME Leads("legacy", x, FileSources)
         PROVE  rules.regex = a.regex /\ Has("legacy", x)
    <2>1. LegacyRead /\ Has("legacy", x) /\ (YamlRead /\ Has("yaml", x) => given["yaml"][x] = <<>>)
      BY <1>12, RuleNames, LeadingFile DEF PassedOver, FileSources, x
    <2>. QED
      BY <1>4, <1>7, <2>1
  <1>. QED
    BY <1>2, <1>3, <1>8, <1>9, <1>10, <1>11, <1>12 DEF Holds, FileSources, rules, x

LEMMA PathsHold ==
  ASSUME SaidInv, NEW r, LoadedIs(r)
  PROVE  Holds(OrElse(Section(r).paths, <<>>), "journald_paths")
  <1> DEFINE n == "journald_paths"
             a == LegacyItems(n)
             b == given["yaml"][n]
             paths == OrElse(Section(r).paths, <<>>)
  <1>1. /\ n \in ListNames /\ n \notin Fields /\ n # Tailer /\ n \notin {"startup", "dirs", "tags"}
        /\ n \notin Scalars \cup Switches
    BY DEF ListNames, Tailer, Fields, Scalars, Texts, Numbers, Enumerated, Switches, Lists, Rules, TailerCommand
  <1>2. /\ a \in Entries
        /\ Has("legacy", n) => Parts("legacy", n) = Range(a)
        /\ Has("yaml", n) => b \in Entries /\ Parts("yaml", n) = Range(b)
    BY <1>1, LegacyListIs, YamlListIs
  <1>3. /\ LegacySection.paths = Some(a)
        /\ YamlSection.paths = IF Has("yaml", n) THEN Some(b) ELSE None
        /\ MergedSection.paths = IF Has("yaml", n) THEN Some(IF b = <<>> THEN a ELSE b) ELSE Some(a)
        /\ NoJournald.paths = None
    BY SomeIsThere DEF LegacySection, YamlSection, MergedSection, MergedOption, Given, NonEmpty, NoJournald
  <1>4. SectionIs(r["journald"])
    BY SectionLoaded
  <1> HIDE DEF n, a, b
  <1>5. paths = IF InLegacy /\ InYaml THEN (IF Has("yaml", n) /\ b # <<>> THEN b ELSE a)
                ELSE IF InLegacy THEN a
                ELSE IF InYaml /\ Has("yaml", n) THEN b ELSE <<>>
    <2>1. \A section : r["journald"] = Some(section) => Section(r) = section
      BY SomeIsThere DEF Section, OrElse
    <2>2. r["journald"] = None => Section(r) = NoJournald
      BY DEF Section, OrElse
    <2>3. \A v : Section(r).paths = Some(v) => paths = v
      BY SomeIsThere DEF OrElse
    <2>4. Section(r).paths = None => paths = <<>>
      BY DEF OrElse
    <2> HIDE DEF paths
    <2>5. CASE InLegacy /\ InYaml
      BY <1>3, <1>4, <2>1, <2>3, <2>5 DEF SectionIs
    <2>6. CASE InLegacy /\ ~InYaml
      BY <1>3, <1>4, <2>1, <2>3, <2>6 DEF SectionIs
    <2>7. CASE ~InLegacy /\ InYaml
      BY <1>3, <1>4, <2>1, <2>3, <2>4, <2>7 DEF SectionIs
    <2>8. CASE ~InLegacy /\ ~InYaml
      BY <1>3, <1>4, <2>2, <2>4, <2>8 DEF SectionIs
    <2>. QED
      BY <2>5, <2>6, <2>7, <2>8
  <1> HIDE DEF paths
  <1>6. paths \in Entries
    BY <1>2, <1>5, EmptyTyped
  <1>7. ASSUME Leads("yaml", n, FileSources)
        PROVE  paths = b /\ Has("yaml", n)
    <2>1. YamlRead /\ Has("yaml", n) /\ (LegacyRead => b # <<>>)
      BY <1>1, <1>7, LeadingFile DEF PassedOver, FileSources, b
    <2>. QED
      BY <1>5, <2>1 DEF InYaml, InLegacy, n
  <1>8. ASSUME Leads("legacy", n, FileSources)
        PROVE  paths = a /\ Has("legacy", n)
    <2>1. LegacyRead /\ Has("legacy", n) /\ (YamlRead /\ Has("yaml", n) => b = <<>>)
      BY <1>1, <1>8, LeadingFile DEF PassedOver, FileSources, b
    <2>. QED
      BY <1>5, <2>1 DEF InYaml, InLegacy, n
  <1>. QED
    BY <1>2, <1>6, <1>7, <1>8 DEF Holds, FileSources, n, paths

LEMMA TagsAre ==
  ASSUME SaidInv, NEW r, LoadedIs(r)
  PROVE  /\ OrElse(r["params"], NoParams).tags \in Entries
         /\ \A source \in FileSources : Leads(source, "tags", FileSources) =>
               /\ Parts(source, "tags") = Range(OrElse(r["params"], NoParams).tags)
               /\ OrElse(r["params"], NoParams).hostname = Given(source, "hostname")
  <1> DEFINE p == OrElse(r["params"], NoParams)
  <1>1. "tags" \in ListNames
    BY DEF ListNames
  <1>2. /\ ParamsOf("legacy").tags = LegacyItems("tags")
        /\ ParamsOf("legacy").hostname = Given("legacy", "hostname")
        /\ ParamsOf("yaml").tags = IF Has("yaml", "tags") THEN given["yaml"]["tags"] ELSE <<>>
        /\ ParamsOf("yaml").hostname = Given("yaml", "hostname")
        /\ NoParams.tags = <<>>
    BY SomeIsThere DEF ParamsOf, Given, OrElse, NoParams
  <1>3. /\ LegacyItems("tags") \in Entries
        /\ Has("legacy", "tags") => Parts("legacy", "tags") = Range(LegacyItems("tags"))
        /\ Has("yaml", "tags") => /\ given["yaml"]["tags"] \in Entries
                                  /\ Parts("yaml", "tags") = Range(given["yaml"]["tags"])
    BY <1>1, LegacyListIs, YamlListIs
  <1>4. p \in {ParamsOf("yaml"), ParamsOf("legacy"), NoParams}
    BY ParamsAre, SomeIsThere DEF OrElse
  <1>5. p.tags \in Entries
    BY <1>2, <1>3, <1>4, EmptyTyped
  <1>6. ASSUME NEW source \in FileSources, Leads(source, "tags", FileSources)
        PROVE  p = ParamsOf(source) /\ Has(source, "tags")
    BY <1>6, ParamsLoaded, LeadingFile, SomeIsThere DEF OrElse
  <1> HIDE DEF p
  <1>7. ASSUME NEW source \in FileSources, Leads(source, "tags", FileSources)
        PROVE  Parts(source, "tags") = Range(p.tags) /\ p.hostname = Given(source, "hostname")
    BY <1>2, <1>3, <1>6, <1>7 DEF FileSources
  <1>. QED
    BY <1>5, <1>7 DEF p
---------------------------------------------------------------------------
(* What comes out.                                                         *)

\* The options put something after what the files say.
AddsUp(list, f, s) == list = f \o Items(s) \/ (Options(s) = None /\ list = f)

LEMMA SumHolds ==
  ASSUME SaidInv, NEW s \in ListNames, NEW f \in Entries, NEW list, AddsUp(list, f, s),
         NEW source \in Sources
  PROVE  /\ Leads(source, s, OptionSources) =>
               Parts(source, s) \subseteq Range(list) \/ CommasMisread(source, s)
         /\ Range(f) \subseteq Range(list)
  <1>1. Items(s) \in Entries
    BY ItemsTyped
  <1>2. Range(f \o Items(s)) = Range(f) \cup Range(Items(s))
    BY <1>1, RangeOfBoth
  <1>3. ASSUME Leads(source, s, OptionSources)
        PROVE  Parts(source, s) \subseteq Range(list) \/ CommasMisread(source, s)
    <2>1. source \in OptionSources
      BY <1>3 DEF Leads
    <2>. QED
      BY <1>2, <1>3, <2>1, OptionParts DEF AddsUp
  <1>. QED
    BY <1>2, <1>3 DEF AddsUp

LEMMA RulesConverted ==
  ASSUME NEW r, NEW s \in Rules
  PROVE  /\ Converted(Overridden(r))[s].glob = RulesOf(r, s).glob \o Items(s)
         /\ Converted(Overridden(r))[s].regex = RulesOf(r, s).regex \o Items(RegexOf[s])
  <1> DEFINE sum == [glob |-> RulesOf(r, s).glob \o Items(s),
                     regex |-> RulesOf(r, s).regex \o Items(RegexOf[s])]
             o == Overridden(r)
  <1>1. o[s] = Some(sum)
    BY RuleNames DEF Overridden, Appended, RulesOf
  <1> HIDE DEF o
  <1>2. Converted(o)[s] = o[s][1]
    BY RuleNames DEF Converted, Enumerated, Lists, Scalars, Texts, Numbers
  <1>3. Converted(o)[s] = sum
    BY <1>1, <1>2, SomeIsThere
  <1>4. sum.glob = RulesOf(r, s).glob \o Items(s) /\ sum.regex = RulesOf(r, s).regex \o Items(RegexOf[s])
    OBVIOUS
  <1> HIDE DEF sum
  <1>. QED
    BY <1>3, <1>4 DEF o

LEMMA DirsConverted ==
  ASSUME NEW r
  PROVE  Converted(Overridden(r))["dirs"] = r["dirs"][1] \o Items("dirs")
  <1> DEFINE o == Overridden(r)
  <1>1. "dirs" \in Fields /\ "dirs" \notin Enumerated \cup Lists \cup TailerCommand \cup Scalars \cup Switches \cup Rules
    BY DEF Fields, TailerCommand, Scalars, Texts, Numbers, Enumerated, Switches, Lists, Rules
  <1>2. o["dirs"] = Some(r["dirs"][1] \o Items("dirs"))
    BY <1>1 DEF Overridden, Appended
  <1> HIDE DEF o
  <1>3. Converted(o)["dirs"] = o["dirs"][1]
    BY <1>1 DEF Converted
  <1>. QED
    BY <1>2, <1>3, SomeIsThere DEF o

LEMMA ListConverted ==
  ASSUME NEW r, NEW s \in Lists
  PROVE  AddsUp(Converted(Overridden(r))[s], OrElse(r[s], <<>>), s)
  <1> DEFINE o == Overridden(r)
  <1>1. s \in Fields /\ s \notin Enumerated \cup {"dirs", "params", "journald", "startup"} \cup TailerCommand
                                  \cup Scalars \cup Switches \cup Rules
    BY PlainFields DEF Plain, Scalars
  <1>2. o[s] = IF Options(s) = None THEN r[s] ELSE Some(OrElse(r[s], <<>>) \o Items(s))
    BY <1>1 DEF Overridden, Appended
  <1> HIDE DEF o
  <1>3. Converted(o)[s] = OrElse(o[s], <<>>)
    <2>1. s \notin {"flush_duration", "retry_dir", "db_path", "retry_base_delay_ms",
                    "retry_step_delay_ms", "clear_cache_interval", "retry_disk_limit", "metrics_port",
                    "metadata_retry_delay"}
      BY <1>1 DEF Scalars, Texts, Numbers
    <2>. QED
      BY <1>1, <2>1 DEF Converted
  <1>4. CASE Options(s) = None
    BY <1>2, <1>3, <1>4 DEF AddsUp, o
  <1>5. CASE Options(s) # None
    <2>1. OrElse(o[s], <<>>) = OrElse(r[s], <<>>) \o Items(s)
      <3>1. \A v : OrElse(Some(v), <<>>) = v
        BY SomeIsThere DEF OrElse
      <3>. QED
        BY <1>2, <1>5, <3>1
    <2>. QED
      BY <1>3, <2>1 DEF AddsUp, o
  <1>. QED
    BY <1>4, <1>5

LEMMA PathsConverted ==
  ASSUME NEW r, LoadedIs(r)
  PROVE  AddsUp(JournaldRuns(r).paths, OrElse(Section(r).paths, <<>>), "journald_paths")
  BY JournaldConverted DEF AddsUp

\* A list that is no tag.
LEMMA ListHolds ==
  ASSUME SaidInv, NEW r, LoadedIs(r), effective[1] = Converted(Overridden(r)),
         NEW s \in ListNames \ {"tags"}
  PROVE  \E f : Holds(f, s) /\ AddsUp(ListOf(s), f, s)
  <1>1. CASE s \in Rules
    <2>1. ListOf(s) = Converted(Overridden(r))[s].glob
      BY <1>1 DEF ListOf, Rules
    <2>2. Holds(RulesOf(r, s).glob, s)
      BY <1>1, RulesHold
    <2>3. AddsUp(ListOf(s), RulesOf(r, s).glob, s)
      BY <1>1, <2>1, RulesConverted DEF AddsUp
    <2>. QED
      BY <2>2, <2>3
  <1>2. CASE s = "include_regex"
    <2>1. ListOf(s) = Converted(Overridden(r))["include"].regex
      BY <1>2 DEF ListOf, Rules
    <2>2. "include" \in Rules /\ RegexOf["include"] = s
      BY <1>2 DEF Rules, RegexOf
    <2>3. Holds(RulesOf(r, "include").regex, s)
      BY <2>2, RulesHold
    <2>4. AddsUp(ListOf(s), RulesOf(r, "include").regex, s)
      BY <2>1, <2>2, RulesConverted DEF AddsUp
    <2>. QED
      BY <2>3, <2>4
  <1>3. CASE s = "exclude_regex"
    <2>1. ListOf(s) = Converted(Overridden(r))["exclude"].regex
      BY <1>3 DEF ListOf, Rules
    <2>2. "exclude" \in Rules /\ RegexOf["exclude"] = s
      BY <1>3 DEF Rules, RegexOf
    <2>3. Holds(RulesOf(r, "exclude").regex, s)
      BY <2>2, RulesHold
    <2>4. AddsUp(ListOf(s), RulesOf(r, "exclude").regex, s)
      BY <2>1, <2>2, RulesConverted DEF AddsUp
    <2>. QED
      BY <2>3, <2>4
  <1>4. CASE s = "journald_paths"
    <2>1. ListOf(s) = JournaldRuns(r).paths
      BY <1>4 DEF ListOf, Rules, JournaldRuns
    <2>. QED
      BY <1>4, <2>1, PathsConverted, PathsHold
  <1>5. CASE s = "dirs"
    <2>1. ListOf(s) = Converted(Overridden(r))["dirs"]
      BY <1>5 DEF ListOf, Rules
    <2>. QED
      BY <1>5, <2>1, DirsConverted, DirsLoaded DEF AddsUp
  <1>6. CASE s \in Lists
    <2>1. ListOf(s) = Converted(Overridden(r))[s]
      BY <1>6, PlainFields DEF ListOf
    <2>. QED
      BY <1>6, <2>1, ListConverted, ListsLoaded
  <1>. QED
    BY <1>1, <1>2, <1>3, <1>4, <1>5, <1>6 DEF ListNames

LEMMA ListsRun ==
  ASSUME SaidInv, NEW r, LoadedIs(r), effective[1] = Converted(Overridden(r))
  PROVE  ListsAddUp
  <1> SUFFICES ASSUME NEW s \in ListNames, NEW source \in Sources
               PROVE  /\ Leads(source, s, OptionSources) =>
                            Parts(source, s) \subseteq Range(ListOf(s)) \/ CommasMisread(source, s)
                      /\ Leads(source, s, FileSources) =>
                            \/ Parts(source, s) \subseteq Range(ListOf(s))
                            \/ /\ s = "tags" /\ Options("tags") # None
                               /\ Options("hostname") = None /\ ~Has(source, "hostname")
    BY DEF ListsAddUp
  <1>1. CASE s # "tags"
    <2>1. PICK f : Holds(f, s) /\ AddsUp(ListOf(s), f, s)
      BY <1>1, ListHolds
    <2>2. f \in Entries /\ (Leads(source, s, FileSources) => Parts(source, s) \subseteq Range(f))
      BY <2>1 DEF Holds, Leads
    <2>. QED
      BY <2>1, <2>2, SumHolds
  <1>2. CASE s = "tags"
    <2> DEFINE p == OrElse(r["params"], NoParams)
               hostname == Either(Options("hostname"), p.hostname)
               f == IF Options("tags") = None \/ hostname # None THEN p.tags ELSE <<>>
    <2>1. ListOf(s) = Converted(Overridden(r))["params"].tags
      BY <1>2 DEF ListOf, Rules
    <2>2. AddsUp(ListOf(s), f, s)
      BY <1>2, <2>1, ParamsConverted DEF AddsUp
    <2>3. /\ p.tags \in Entries
          /\ \A file \in FileSources : Leads(file, "tags", FileSources) =>
                /\ Parts(file, "tags") = Range(p.tags)
                /\ p.hostname = Given(file, "hostname")
      BY TagsAre
    <2> HIDE DEF p
    <2>4. f \in Entries
      BY <2>3, EmptyTyped
    <2>5. Leads(source, s, FileSources) =>
             \/ Parts(source, s) \subseteq Range(f)
             \/ /\ s = "tags" /\ Options("tags") # None
                /\ Options("hostname") = None /\ ~Has(source, "hostname")
      <3>1. ASSUME Leads(source, s, FileSources) PROVE source \in FileSources
        BY <3>1 DEF Leads
      <3>. QED
        BY <1>2, <2>3, <3>1, SomeIsThere DEF Either, Given
    <2> HIDE DEF f
    <2>. QED
      BY <2>2, <2>4, <2>5, SumHolds
  <1>. QED
    BY <1>1, <1>2
---------------------------------------------------------------------------
(* Together.                                                               *)

LEMMA PlainCounts ==
  ASSUME SaidInv, NEW r, LoadedIs(r), effective[1] = Converted(Overridden(r)),
         NEW s \in Plain, NEW source \in Sources, Leads(source, s, Sources),
         s \in Enumerated => given[source][s] # "zero"
  PROVE  Effective(s) = Some(given[source][s])
  <1>1. Overridden(r)[s] = Some(given[source][s])
    <2>1. CASE source \in OptionSources
      BY <2>1, NoLists, OptionLeads, PlainOverridden, SomeIsThere DEF Either, Plain
    <2>2. CASE source \in FileSources
      BY <2>2, FileLeads, PlainLoaded, PlainOverridden DEF Either
    <2>. QED
      BY <2>1, <2>2, FileIsNoOption
  <1>2. Converted(Overridden(r))[s] =
           IF s \in Optional THEN Some(given[source][s]) ELSE given[source][s]
    BY <1>1, PlainConverted
  <1>. QED
    BY <1>2 DEF Effective

LEMMA FirstRuns ==
  ASSUME SaidInv, NEW r, LoadedIs(r), effective[1] = Converted(Overridden(r))
  PROVE  FirstSourceCounts
  <1> SUFFICES ASSUME NEW source \in Sources
               PROVE  /\ \A s \in Scalars \cup Switches \cup {"startup"} :
                            Leads(source, s, Sources) =>
                                \/ Effective(s) = Some(given[source][s])
                                \/ s \in Enumerated \cup {"startup"} /\ given[source][s] = "zero"
                      /\ Leads(source, Tailer, Sources) =>
                            \/ effective[1]["journald"].tailer = given[source][Tailer]
                            \/ ~Counts("yaml", Tailer)
                               /\ \A other \in Sources : ~Counts(other, "journald_paths")
                      /\ Leads(source, "hostname", Sources) =>
                            effective[1]["params"].hostname = given[source]["hostname"]
                      /\ Leads(source, "ip", Sources) =>
                            effective[1]["params"].ip = Some(given[source]["ip"])
                      /\ Leads(source, "mac", Sources) =>
                            effective[1]["params"].mac = Some(given[source]["mac"])
    BY DEF FirstSourceCounts
  <1>1. ASSUME NEW s \in Plain, Leads(source, s, Sources)
        PROVE  \/ Effective(s) = Some(given[source][s])
               \/ s \in Enumerated /\ given[source][s] = "zero"
    BY <1>1, PlainCounts
  <1>2. Leads(source, "startup", Sources) =>
           \/ Effective("startup") = Some(given[source]["startup"])
           \/ given[source]["startup"] = "zero"
    <2>1. "startup" \notin Optional
      BY DEF Optional
    <2>. QED
      BY <2>1, StartupCounts DEF Effective
  <1>3. Leads(source, Tailer, Sources) =>
           \/ effective[1]["journald"].tailer = given[source][Tailer]
           \/ ~Counts("yaml", Tailer) /\ \A other \in Sources : ~Counts(other, "journald_paths")
    BY TailerCounts DEF JournaldRuns
  <1>4. Leads(source, "hostname", Sources) =>
           effective[1]["params"].hostname = given[source]["hostname"]
    BY HostnameCounts
  <1>5. /\ Leads(source, "ip", Sources) => effective[1]["params"].ip = Some(given[source]["ip"])
        /\ Leads(source, "mac", Sources) => effective[1]["params"].mac = Some(given[source]["mac"])
    BY AddressCounts
  <1>. QED
    BY <1>1, <1>2, <1>3, <1>4, <1>5 DEF Plain

\* What runs is what was loaded, overridden and converted.
LEMMA RunsAsLoaded ==
  ASSUME SaidInv, StageInv, Running
  PROVE  LoadedIs(Loaded[1]) /\ effective[1] = Converted(Overridden(Loaded[1]))
  <1>1. Loaded # None /\ effective = Some(Converted(Overridden(Loaded[1])))
    BY DEF StageInv, Running
  <1>2. files.yaml # "properties"
    BY ConfigurationAssumption DEF SaidInv, Kinds
  <1>3. LoadedIs(Loaded[1])
    BY <1>1, <1>2, LoadedCases DEF SaidInv
  <1>. QED
    BY <1>1, <1>3, SomeIsThere

(* For every file, every variable and every command line: the agent runs   *)
(* with the value of the source that ranks first.                          *)
THEOREM FirstSourceDecides == Spec => []FirstSourceCounts
  <1>1. SaidInv /\ StageInv => FirstSourceCounts
    <2> SUFFICES ASSUME SaidInv, StageInv PROVE FirstSourceCounts
      OBVIOUS
    <2>1. CASE Running
      BY <2>1, RunsAsLoaded, FirstRuns
    <2>2. CASE ~Running
      BY <2>2 DEF FirstSourceCounts
    <2>. QED
      BY <2>1, <2>2
  <1>. QED
    BY <1>1, ConfigurationInv, PTL

(* For every one of them: the lists of the options and those of the files  *)
(* are in force together.                                                  *)
THEOREM ListsStandTogether == Spec => []ListsAddUp
  <1>1. SaidInv /\ StageInv => ListsAddUp
    <2> SUFFICES ASSUME SaidInv, StageInv PROVE ListsAddUp
      OBVIOUS
    <2>1. CASE Running
      BY <2>1, RunsAsLoaded, ListsRun
    <2>2. CASE ~Running
      BY <2>2 DEF ListsAddUp
    <2>. QED
      BY <2>1, <2>2
  <1>. QED
    BY <1>1, ConfigurationInv, PTL
=============================================================================
