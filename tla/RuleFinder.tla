------------------------------ MODULE RuleFinder ------------------------------
(***************************************************************************)
(* PrometheusRuleFinder (pkg/rules/prometheusrule.go), which finds the     *)
(* rule groups of a cluster for the notifier. A PrometheusRule object is   *)
(* [ns, groups], a group [name, interval, rules] with the sequence of its  *)
(* rules, a rule [name, for, valid]; a duration is "", "ok" or "bad". The  *)
(* namespaces are listed one after another, each at its own time: listing  *)
(* i is seen[i] = [ok, objects], the sequence of objects of its time.      *)
(***************************************************************************)
EXTENDS Naturals, SequencesExt

\* The blank name stands for every namespace.
AllNamespaces == ""

SearchNamespaces(namespaces) ==
    LET named == SelectSeq(namespaces, LAMBDA n : n # AllNamespaces)
    IN  IF named = <<>> THEN <<AllNamespaces>> ELSE named

InNamespace(objects, namespace) ==
    SelectSeq(objects, LAMBDA o : namespace \in {o.ns, AllNamespaces})

\* Rules whose duration does not parse or that do not validate are left out of
\* their group; groups whose interval does not parse are left out.
Parses(duration) == duration # "bad"
Convert(group) ==
    [group EXCEPT !.rules = SelectSeq(@, LAMBDA r : Parses(r.for) /\ r.valid)]

findRulesInNamespace(objects, namespace) ==
    LET listed == InNamespace(objects, namespace)
        groups == FlattenSeq([i \in DOMAIN listed |-> listed[i].groups])
        kept == SelectSeq(groups, LAMBDA g : Parses(g.interval))
    IN  [i \in DOMAIN kept |-> Convert(kept[i])]

\* A namespace that cannot be listed contributes nothing, and no error.
FindGroups(namespaces, seen) ==
    LET search == SearchNamespaces(namespaces)
    IN  FlattenSeq([i \in DOMAIN search |->
            IF seen[i].ok THEN findRulesInNamespace(seen[i].objects, search[i]) ELSE <<>>])
=============================================================================
