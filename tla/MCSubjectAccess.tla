--------------------------- MODULE MCSubjectAccess ---------------------------
(* Two clusters, two roles and two bindings; a role names a cluster or selects *)
(* by label and expressions.                                                   *)
EXTENDS SubjectAccess, TLC

CONSTANTS c1, c2, k1, v1, v2, r1, r2, b1, b2

OneLabel == [k \in Keys |-> v1]
Nothing == [matchLabels |-> NoLabels, matchExpressions |-> <<>>]
ByLabel ==
    [matchLabels |-> OneLabel,
     matchExpressions |-> <<[key |-> k1, op |-> "Exists", values |-> {}],
                            [key |-> k1, op |-> "In", values |-> {v1, v2}]>>]

MCRoleSet == {[ids |-> {c1}, selector |-> Nothing], [ids |-> {}, selector |-> ByLabel]}
MCLabelSet == {NoLabels, OneLabel}

Interchangeable == Permutations({r1, r2}) \cup Permutations({b1, b2})

-----------------------------------------------------------------------------
(* Selection on every selector of up to two requirements, without and with IDs. *)

Selectors ==
    [matchLabels : Labels, matchExpressions : UNION {[1 .. n -> Requirements] : n \in 0 .. 2}]

\* A selector without NotIn selects what it selects in Kubernetes: labels and
\* all requirements, in any order, or the ID, where it has IDs.
ASSUME AgreesWithoutNotIn ==
    \A s \in Selectors, l \in Labels, ids \in {{}, {c1}}, none \in BOOLEAN :
        ~IsEmpty(s) /\ (\A req \in Reqs(s) : req.op # "NotIn") =>
            (Predicate(ids, s, none, c1, l) <=> c1 \in ids \/ KubernetesMatch(s, l))

\* An empty selector never widens a selection: with IDs it selects only those,
\* and where SubjectAccess says so (EmptySelectorMatchesNone) nothing at all.
ASSUME EmptyNeverWidens ==
    \A l \in Labels, ids \in {{}, {c2}}, none \in BOOLEAN :
        ids # {} \/ none => ~Predicate(ids, Nothing, none, c1, l)
=============================================================================
