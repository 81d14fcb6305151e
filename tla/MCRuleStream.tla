---------------------------- MODULE MCRuleStream ----------------------------
(* The agent's stream and another receiver; lists of rule groups of no, two and one document. *)
EXTENDS RuleStream, SequencesExt, FiniteSets

CONSTANTS r, q, f

MCSize == [l \in Lists |-> IF l = 0 THEN 0 ELSE IF l = 1 THEN 2 ELSE 1]

-----------------------------------------------------------------------------
(* The search for rule groups, in a cluster whose objects come and go.     *)
Finder == INSTANCE RuleFinder

FinderRule(name, for, valid) == [name |-> name, for |-> for, valid |-> valid]
FinderGroup(name, interval) ==
    [name |-> name, interval |-> interval,
     rules |-> <<FinderRule(1, "bad", TRUE), FinderRule(2, "ok", TRUE), FinderRule(3, "", FALSE)>>]
Objects == <<[ns |-> "a", groups |-> <<FinderGroup("g1", ""), FinderGroup("g2", "bad")>>],
             [ns |-> "b", groups |-> <<FinderGroup("g3", "bad"), FinderGroup("g4", "ok")>>],
             [ns |-> "b", groups |-> <<FinderGroup("g5", "ok")>>]>>
Searches == {<<>>, <<"">>, <<"a">>, <<"b", "a">>, <<"", "a", "b">>}
Listings == {[ok |-> ok, objects |-> SelectSeq(Objects, LAMBDA o : o \in there)] :
                ok \in BOOLEAN, there \in SUBSET ToSet(Objects)}

\* Whatever comes, goes and cannot be listed during a search: a sound group that
\* every listing of its namespace saw is found once, with its sound rules and no
\* other, and every group that is found was seen. Groups of a namespace that could
\* not be listed are missing, as if they had been deleted.
ASSUME SearchFinds ==
    \A search \in Searches, l1, l2 \in Listings :
        LET names == Finder!SearchNamespaces(search)
            seen == SubSeq(<<l1, l2>>, 1, Len(names))
            result == Finder!FindGroups(search, seen)
            Sees(i, o) == seen[i].ok /\ o \in ToSet(seen[i].objects) /\ names[i] \in {"", o.ns}
            Expected == {g \in UNION {ToSet(o.groups) : o \in {x \in ToSet(Objects) :
                                          \E i \in DOMAIN seen : Sees(i, x)}} : g.interval # "bad"}
        IN  /\ {g.name : g \in ToSet(result)} = {g.name : g \in Expected}
            /\ Len(result) = Cardinality(Expected)
            /\ \A g \in ToSet(result) : g.rules = <<FinderRule(2, "ok", TRUE)>>
=============================================================================
