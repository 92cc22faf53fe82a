--------------------------- MODULE MCConfiguration ---------------------------
(* Instances for TLC of Configuration: a setting of each kind, with values *)
(* that are defaults and values that are not.                              *)
EXTENDS Configuration

\* The part "bc" is written b\,c.
MCEscaped == [bc |-> <<"b", "c">>]

\* The YAML file of a package, a short one, and one with the settings as the agent
\* prints them.
Printed == [n \in {s \in Fields : Default[s] # None} \cup {RegexOf[s] : s \in Rules} |->
               CASE n \in Rules -> Default[n][1].glob
                 [] n \in Range(RegexOf) -> <<>>
                 [] OTHER -> Default[n][1]]
Required == {"host", "endpoint", "use_ssl", "use_compression", "gzip_level", "timeout",
             "body_size", "dirs"}
Packaged == [n \in DOMAIN Printed \cup {"ingestion_key"} |->
                IF n = "ingestion_key" THEN "d" ELSE Printed[n]]
Short == [n \in Required |-> Printed[n]]
MCBases == [packaged |-> Packaged, short |-> Short, printed |-> Printed]

Offer(sources, names, values) == [source : sources, name : names, value : values]
MCOffered ==
    UNION {Offer({"env"}, {"ingestion_key"}, {"x"}),
           Offer({"yaml"}, {"timeout", "metadata_retry_delay"}, {"zero", "d", "x"}),
           Offer({"legacy"}, {"timeout", "metadata_retry_delay"}, {"y"}),
           Offer({"argument", "logdna"}, {"timeout"}, {"z"}),
           Offer({"env"}, {"timeout"}, {"zero"}),
           Offer({"deprecated", "argument"}, {"host"}, {"zero", "x"}),
           Offer({"yaml", "legacy", "env"}, {"use_ssl"}, {TRUE, FALSE}),
           Offer({"yaml"}, {"lookback"}, {"zero", "x"}),
           Offer({"yaml"}, {"use_k8s_enrichment"}, {"zero"}),
           Offer({"argument"}, {"config"}, {"legacy"}),
           Offer({"yaml", "legacy", "env"}, {Tailer}, {FALSE}),
           Offer({"legacy"}, {"journald_paths"}, {<<"y">>}),
           Offer({"yaml"}, {"journald_paths"}, {<<Entry("x")>>}),
           Offer({"yaml", "legacy"}, {"hostname"}, {"y"}),
           Offer({"argument", "legacy"}, {"ip"}, {"y"}),
           Offer({"yaml"}, {"include_regex"}, {<<Entry("x")>>}),
           Offer({"deprecated"}, {"include"}, {<<<<"bc">>>>, <<<<"a", "bc">>>>}),
           Offer({"yaml"}, {"line_redact_regex", "include", "tags"}, {<<>>, <<Entry("x")>>}),
           Offer({"legacy"}, {"line_redact_regex", "include", "tags", "dirs"}, {<<"y", "z">>}),
           Offer({"argument", "env"}, {"line_redact_regex", "include", "tags", "dirs"},
                 {<<<<"a", "b">>>>}),
           Offer({"argument"}, {"line_redact_regex"}, {<<<<"a", "b">>, <<"c">>>>})}
=============================================================================
