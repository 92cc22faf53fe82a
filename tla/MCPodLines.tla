------------------------------ MODULE MCPodLines ------------------------------
(* Instances for TLC of PodLines. *)
EXTENDS PodLines

MCIdents == {[p \in Pods |-> p], [p \in Pods |-> "p-q"]}

MCContainers == [p \in Pods |-> IF p = "p" THEN {"a", "b"} ELSE {"a"}]
MCSidecars == [p \in Pods |-> IF p = "p" THEN {} ELSE {"init"}]

\* Two pods in two namespaces; one is labelled otherwise when it is made again.
Labelled(app) == [k \in {"app"} |-> app]
MCPodFacts ==
    [p \in Pods |->
        [namespace |-> IF p = "p" THEN "n" ELSE "m",
         labels |-> [g \in 1 .. MaxGens |->
                        IF p = "p" /\ g = 1 THEN Labelled("secret") ELSE Labelled("web")],
         annotations |-> [g \in 1 .. MaxGens |-> Nothing]]]

NoK8sRule == [namespaces |-> {}, names |-> {}, labels |-> Nothing, annotations |-> Nothing]
NoOverrides == [annotations |-> Nothing, labels |-> Nothing, fields |-> Nothing]
NoOrders == [annotations |-> <<>>, labels |-> <<>>]

\* The labels of secret pods are hidden from what is sent, but only after the filter.
Guarded ==
    [enrichment |-> TRUE, retries |-> TRUE,
     k8s |-> [inclusion |-> NoK8sRule,
              exclusion |-> [NoK8sRule EXCEPT !.labels = [k \in {"app"} |-> {"secret"}]]],
     rules |-> [inclusion |-> {}, exclusion |-> {"debug"}, redact |-> <<"name", "number">>],
     over |-> [NoOverrides EXCEPT !.labels = [k \in {"app"} |-> Const("web")]],
     orders |-> [NoOrders EXCEPT !.labels = <<"app">>],
     env |-> Nothing]

\* Without retries, and with a template whose variable may make it invalid.
Hasty ==
    [Guarded EXCEPT !.retries = FALSE,
        !.k8s.inclusion.namespaces = {"n"},
        !.rules.inclusion = {"name"},
        !.over.labels = [k \in {"app"} |-> Var(<<"label", "app">>, "none")]]

\* Without the metadata of the pods.
Unenriched ==
    [Guarded EXCEPT !.enrichment = FALSE, !.rules.exclusion = {},
        !.over.fields = [k \in {"meta", "k8s_file"} |-> Const("invalid")]]

MCSettings == {Guarded, Hasty, Unenriched}

\* Fewer changes of the cluster where only the rules differ, and where the watch
\* fails a second time.
FewerChanges ==
    /\ settings = Hasty => count.changes <= 5
    /\ count.errors = 2 => count.changes <= 4

At(s, e) == [start |-> s, end |-> e]
Text(names, numbers, debug) ==
    [matches |-> [p \in {"name", "number", "debug"} |->
        CASE p = "name" -> names [] p = "number" -> numbers [] OTHER -> debug]]

\* Matches that touch, overlap, contain one another, and bridge two others, of which
\* one may be the match before of the same pattern.
MCTexts ==
    {Text(<<>>, <<>>, <<>>),
     Text(<<>>, <<At(0, 1)>>, <<At(2, 3)>>),
     Text(<<At(2, 4)>>, <<At(0, 3), At(6, 7)>>, <<>>),
     Text(<<At(0, 2), At(4, 6)>>, <<At(2, 3), At(5, 7)>>, <<>>),
     Text(<<At(0, 2), At(4, 6)>>, <<At(1, 5)>>, <<>>),
     Text(<<At(3, 5)>>, <<At(0, 2), At(2, 4)>>, <<>>)}
=============================================================================
