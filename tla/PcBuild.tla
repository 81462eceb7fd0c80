------------------------------ MODULE PcBuild ------------------------------
(***************************************************************************)
(* PcBuildService: rules that say which components do not fit together,    *)
(* the check of a selection against them, and the suggestions that go with *)
(* a selection.  Specs are compared after normalizeText; Normal maps each  *)
(* value to its normal form, and types are in normal form already.  A      *)
(* request reads the rules once, so they are a parameter: a set of records *)
(* [id, source, target, sourceKey, targetKey, strict].  How the search     *)
(* finds candidates, the wording of an issue and the order and number of   *)
(* suggestions are left out.                                               *)
(***************************************************************************)
EXTENDS Integers, FiniteSets

CONSTANTS
    None,
    Catalogue,   \* the products: records [id, type, specs]; specs[k] may be None
    Normal       \* Normal[value]: trimmed, in lower case

Differ(source, target) ==
    source # None /\ target # None /\ Normal[source] # Normal[target]

\* evaluateCompatibility: one issue for each rule and each two products it finds at odds.
Issues(rules, products) ==
    {i \in [rule : rules, source : products, target : products] :
        /\ i.source.type = i.rule.source /\ i.target.type = i.rule.target
        /\ i.source.id # i.target.id
        /\ Differ(i.source.specs[i.rule.sourceKey], i.target.specs[i.rule.targetKey])}

Errors(issues) == {i \in issues : i.rule.strict}

\* checkCompatibility
Compatible(rules, products) == Errors(Issues(rules, products)) = {}

\* suggestComponents: what speaks against adding a candidate to what is selected.
IssuesOf(rules, candidate, selected) ==
    {i \in Issues(rules, selected \union {candidate}) : candidate.id \in {i.source.id, i.target.id}}

Score(issues) ==
    LET errors == Cardinality(Errors(issues))
        points == 100 - 50 * errors - 10 * (Cardinality(issues) - errors)
    IN  IF points > 0 THEN points ELSE 0

Suggested(rules, selected) ==
    {c \in Catalogue \ selected : Score(IssuesOf(rules, c, selected)) > 0}

\* A suggestion without errors can be taken: a selection that passes checkCompatibility still
\* passes with it, and one whose errors cost it all its points would not have passed.
SuggestionsFit(rules) ==
    \A selected \in SUBSET Catalogue : \A c \in Catalogue \ selected :
        LET errors == Errors(IssuesOf(rules, c, selected)) IN
        Compatible(rules, selected) =>
            /\ c \in Suggested(rules, selected) /\ errors = {} => Compatible(rules, selected \union {c})
            /\ Cardinality(errors) >= 2 =>
                c \notin Suggested(rules, selected) /\ ~Compatible(rules, selected \union {c})
=============================================================================
