-------------------------------- MODULE Rules --------------------------------
(* The data-quality rules as functions of one parsed record                 *)
(* (discogs/rules.rs). A field is the sequence of its segments; a pattern   *)
(* is the set of the texts it matches, an absent bound the empty set.       *)
EXTENDS Json, Integers

CONSTANTS
  Number(_),        \* {n} when a text parses as a number, {} otherwise
  LeadingYear(_)    \* the same for what precedes the first separator of a date

-----------------------------------------------------------------------------
(* Evaluation.                                                             *)

Child(value, segment) ==
  IF IsObj(value) /\ Has(value.fields, segment)
    THEN LET child == value.fields[segment] IN IF IsArr(child) THEN child.items ELSE <<child>>
    ELSE <<>>

ResolveField(fields, path) ==
  LET step(values, segment) == FlattenSeq([i \in DOMAIN values |-> Child(values[i], segment)])
      leaves == SelectSeq(FoldLeft(step, <<Obj(fields)>>, path), LAMBDA v : IsStr(v) \/ v = Null)
  IN  [i \in DOMAIN leaves |-> IF leaves[i] = Null THEN "" ELSE leaves[i].text]

Outside(n, below, above) == (\E b \in below : n < b) \/ (\E a \in above : n > a)

CheckCondition(condition, text) ==
  CASE condition.type = "range" ->
         \E n \in Number(text) : Outside(n, condition.min, condition.max)
    [] condition.type = "regex" -> text \in condition.matching
    [] condition.type = "length" -> Outside(Len(text), condition.min, condition.max)
    [] condition.type = "enum" -> text \notin condition.values

\* The values a rule objects to; a required field objects to its absence as "".
Objections(rule, fields) ==
  LET values == ResolveField(fields, rule.field)
  IN  CASE rule.condition.type = "required" /\ values = <<>> -> <<"">>
        [] rule.condition.type = "required" /\ values # <<>> -> SelectSeq(values, LAMBDA v : v = "")
        [] OTHER -> SelectSeq(values, LAMBDA v : CheckCondition(rule.condition, v))

EvaluateRules(rules, fields) ==
  FlattenSeq([r \in DOMAIN rules |->
    LET values == Objections(rules[r], fields)
    IN  [i \in DOMAIN values |-> [rule |-> rules[r].name, severity |-> rules[r].severity,
                                  value |-> values[i]]]])

-----------------------------------------------------------------------------
(* Skip conditions: the first that holds, as a sequence of at most one.    *)

ShouldSkip(conditions, fields) ==
  LET hits(c) == SelectSeq(ResolveField(fields, c.field), LAMBDA v : v \in c.containing)
      all == FlattenSeq([i \in DOMAIN conditions |->
               LET h == hits(conditions[i])
               IN  [j \in DOMAIN h |-> [reason |-> conditions[i].reason, value |-> h[j]]]])
  IN  IF all = <<>> THEN <<>> ELSE <<Head(all)>>

-----------------------------------------------------------------------------
(* Filters: what is left of the record, and the values taken out of it.    *)

Repair(fields, removed) == [fields |-> fields, removed |-> removed]

\* Mutant: a lone value is no array and is left alone.
RemoveLeafOfArrays(fields, leaf, matching) ==
  IF Has(fields, leaf) /\ IsArr(fields[leaf])
    THEN LET hit(v) == IsStr(v) /\ v.text \in matching
             kept == SelectSeq(fields[leaf].items, LAMBDA v : ~ hit(v))
             gone == SelectSeq(fields[leaf].items, hit)
         IN  Repair(With(fields, leaf, Arr(kept)), [i \in DOMAIN gone |-> gone[i].text])
    ELSE Repair(fields, <<>>)

RemoveLeaf(fields, leaf, matching) ==
  LET value == IF Has(fields, leaf) THEN fields[leaf] ELSE Null
      hit(v) == IsStr(v) /\ v.text \in matching
  IN  CASE IsArr(value) ->
             LET gone == SelectSeq(value.items, hit)
             IN  Repair(With(fields, leaf, Arr(SelectSeq(value.items, LAMBDA v : ~ hit(v)))),
                        [i \in DOMAIN gone |-> gone[i].text])
        [] hit(value) -> Repair(Without(fields, leaf), <<value.text>>)
        [] OTHER -> Repair(fields, <<>>)

RECURSIVE RemoveMatching(_, _, _)
RemoveMatching(fields, path, matching) ==
  CASE Len(path) = 1 -> RemoveLeaf(fields, Head(path), matching)
    [] Len(path) > 1 /\ Has(fields, Head(path)) /\ IsObj(fields[Head(path)]) ->
         LET inner == RemoveMatching(fields[Head(path)].fields, Tail(path), matching)
         IN  Repair(With(fields, Head(path), Obj(inner.fields)), inner.removed)
    [] OTHER -> Repair(fields, <<>>)

NumberOrYear(text) == IF Number(text) # {} THEN Number(text) ELSE LeadingYear(text)

NullifyWhen(fields, key, below, above) ==
  LET text == IF Has(fields, key) /\ IsStr(fields[key]) THEN {fields[key].text} ELSE {}
  IN  IF \E t \in text : \E n \in NumberOrYear(t) : Outside(n, below, above)
        THEN Repair(With(fields, key, Null), <<fields[key].text>>)
        ELSE Repair(fields, <<>>)

Filtered(filter, fields) ==
  IF filter.kind = "remove_matching"
    THEN RemoveMatching(fields, filter.field, filter.matching)
    ELSE NullifyWhen(fields, Head(filter.field), filter.below, filter.above)

\* The record after every filter, and one action for each that changed it.
ApplyFilters(filters, fields) ==
  FoldLeft(LAMBDA done, filter :
             LET repair == Filtered(filter, done.fields)
                 key == <<filter.field, filter.reason>>
             IN  [fields |-> repair.fields,
                  actions |-> IF repair.removed = <<>> THEN done.actions
                              ELSE Append(done.actions, [key |-> key, removed |-> repair.removed])],
           [fields |-> fields, actions |-> <<>>], filters)
=============================================================================
