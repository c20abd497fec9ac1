---------------------------- MODULE QualityReport ----------------------------
(* The report of one data type (discogs/rules.rs, QualityReport): violations *)
(* by rule and severity, filters by field and reason, as bags.               *)
EXTENDS Sequences, SequencesExt, Integers, Bags

NewReport == [total |-> 0, skipped |-> <<>>, counts |-> EmptyBag,
              records |-> EmptyBag, values |-> EmptyBag]

IncrementTotal(report) == [report EXCEPT !.total = @ + 1]

RecordSkip(report, id, reason) ==
  [report EXCEPT !.skipped = Append(@, [id |-> id, reason |-> reason])]

RecordFilterActions(report, actions) ==
  LET keys == [i \in DOMAIN actions |-> actions[i].key]
      each == FlattenSeq([i \in DOMAIN actions |->
                            [j \in DOMAIN actions[i].removed |-> actions[i].key]])
  IN  [report EXCEPT !.records = @ (+) ToBag(keys), !.values = @ (+) ToBag(each)]

\* What a violation is counted under.
CountKey(violation) == <<violation.rule, violation.severity>>

RecordViolations(report, violations) ==
  [report EXCEPT !.counts = @ (+) ToBag([i \in DOMAIN violations |-> CountKey(violations[i])])]
=============================================================================
