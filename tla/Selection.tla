------------------------------ MODULE Selection ------------------------------
(***************************************************************************)
(* Selecting clusters by ID and label (pkg/storage/selection.go).          *)
(*                                                                         *)
(* Labels are a function from Keys to a value, or to Missing for a key     *)
(* that is not there: labels have no empty values (validation.go), so the  *)
(* empty string Go's map lookup returns for such a key equals no value.    *)
(* A selector has MatchLabels, of the same form, and MatchExpressions, a   *)
(* sequence of requirements.                                               *)
(***************************************************************************)
EXTENDS Naturals, Sequences

CONSTANTS Keys, Values, Missing

ASSUME SelectionAssumption == Missing \notin Values

Operators == {"In", "NotIn", "Exists", "DoesNotExist"}
Labels == [Keys -> Values \cup {Missing}]
Requirements == [key : Keys, op : Operators, values : SUBSET Values]
NoLabels == [k \in Keys |-> Missing]

IsEmpty(selector) ==
    selector.matchLabels = NoLabels /\ selector.matchExpressions = <<>>

\* The loop over the requirements. The case of NotIn returns, whatever
\* requirements follow.
RequirementsHold(exprs, labels) ==
    LET from[i \in 1 .. Len(exprs) + 1] ==
            IF i > Len(exprs) THEN TRUE
            ELSE LET req == exprs[i] v == labels[req.key]
                 IN  CASE req.op = "In" -> v \in req.values /\ from[i + 1]
                       [] req.op = "NotIn" -> v # Missing /\ v \notin req.values
                       [] req.op = "Exists" -> v # Missing /\ from[i + 1]
                       [] req.op = "DoesNotExist" -> v = Missing /\ from[i + 1]
    IN  from[1]

labelSelectorMatches(selector, labels) ==
    /\ \A k \in Keys : selector.matchLabels[k] \in {Missing, labels[k]}
    /\ RequirementsHold(selector.matchExpressions, labels)

\* ClusterSelector.Predicate, applied to the cluster `id' with `labels'.
Predicate(ids, selector, emptyMatchesNone, id, labels) ==
    IF IsEmpty(selector) /\ ids = {}
    THEN ~emptyMatchesNone
    ELSE id \in ids \/ (~IsEmpty(selector) /\ labelSelectorMatches(selector, labels))

-----------------------------------------------------------------------------
(* What a selector means in Kubernetes; there NotIn also holds without the key. *)
Meets(req, labels) ==
    LET v == labels[req.key]
    IN  CASE req.op = "In" -> v \in req.values
          [] req.op = "NotIn" -> v \notin req.values
          [] req.op = "Exists" -> v # Missing
          [] req.op = "DoesNotExist" -> v = Missing

Reqs(selector) == {selector.matchExpressions[i] : i \in DOMAIN selector.matchExpressions}

KubernetesMatch(selector, labels) ==
    /\ \A k \in Keys : selector.matchLabels[k] # Missing => labels[k] = selector.matchLabels[k]
    /\ \A req \in Reqs(selector) : Meets(req, labels)
=============================================================================
