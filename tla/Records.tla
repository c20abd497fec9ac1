------------------------------ MODULE Records ------------------------------
(* The records of one dump between the parser and the batcher: Validation   *)
(* with what the rules and the normalizer make of an XML element, and what  *)
(* a reader of the XML expects of it.                                       *)
EXTENDS Validation, Normalize, Rules, MediaBlock, CatalogBlocks

CONSTANTS
  SkipRecords,      \* data type -> skip conditions
  Filters,          \* data type -> filters
  QualityRules      \* data type -> rules

-----------------------------------------------------------------------------
(* The parameters of Validation; Read is MessageOf.                        *)

SkipOf(type, message) == ShouldSkip(SkipRecords[type], message.data)

RepairOf(type, message) == ApplyFilters(Filters[type], message.data)

\* Mutant: the rules see the record as it was parsed.
FlaggedUnrepaired(type, message) == EvaluateRules(QualityRules[type], message.data)

\* The violations of a record, after the filters.
Flagged(type, message) == EvaluateRules(QualityRules[type], RepairOf(type, message).fields)

Shaped(type, fields) ==
  LET flat == NormalizeRecord(type, fields)
  IN  IF type = "releases"
        THEN AttachCompaniesBlock(AttachIdentifiersBlock(AttachMediaBlock(flat)))
        ELSE flat

-----------------------------------------------------------------------------
(* What a reader of the XML would say: the elements and texts at a path,    *)
(* whatever JSON shape they take.                                           *)

Reached(record, path) ==
  FoldLeft(LAMBDA at, name : FlattenSeq([i \in DOMAIN at |-> ChildrenNamed(at[i], name)]),
           <<record>>, path)

IsLeaf(element) == DOMAIN element.attributes = {} /\ element.children = <<>>

Attributes(elements, a) ==
  LET having == SelectSeq(elements, LAMBDA e : a \in DOMAIN e.attributes)
  IN  [i \in DOMAIN having |-> having[i].attributes[a]]

LeafTexts(elements) ==
  LET leaves == SelectSeq(elements, IsLeaf) IN [i \in DOMAIN leaves |-> leaves[i].text]

TextsAt(record, path) ==
  IF SubSeq(Last(path), 1, 1) = "@"
    THEN Attributes(Reached(record, Front(path)), Unprefixed(Last(path)))
    ELSE LeafTexts(Reached(record, path))

\* The texts that the filters take out at a path.
Struck(path) ==
  UNION {f.matching : f \in {g \in ToSet(Filters[dump.type]) :
                               g.kind = "remove_matching" /\ g.field = path}}

\* Whether a filter takes a text for an impossible date.
Implausible(path, text) ==
  \E f \in ToSet(Filters[dump.type]) :
    /\ f.kind = "nullify_when" /\ f.field = path
    /\ \E n \in NumberOrYear(text) : Outside(n, f.below, f.above)

LeftAt(record, path) ==
  LET left == SelectSeq(TextsAt(record, path), LAMBDA t : t \notin Struck(path))
  IN  [i \in DOMAIN left |-> IF Implausible(path, left[i]) THEN "" ELSE left[i]]

\* An item of a list, flattened: attributes and children side by side, text as
\* its name, or as its id where items are wrapped.
FlatItem(element, wrapped) ==
  LET plain == [k \in DOMAIN element.attributes |-> Str(element.attributes[k])]
               @@ [k \in ChildNames(element) |-> ValueOf(element).fields[k]]
  IN  CASE ~ IsLeaf(element) /\ element.text # "" -> Obj(plain @@ [k \in {"name"} |-> Str(element.text)])
        [] ~ IsLeaf(element) /\ element.text = "" -> Obj(plain)
        [] wrapped -> Obj([k \in {"id"} |-> Str(element.text)])
        [] OTHER -> Str(element.text)

List(field, item, wrapped) == [field |-> field, item |-> item, wrapped |-> wrapped]

Lists ==
  CASE dump.type = "artists" -> {List(f, "name", TRUE) : f \in {"members", "groups", "aliases"}}
    [] dump.type = "labels" -> {List("sublabels", "label", TRUE)}
    [] OTHER -> {List("artists", "artist", TRUE), List("labels", "label", TRUE),
                 List("extraartists", "artist", TRUE), List("genres", "genre", FALSE),
                 List("styles", "style", FALSE), List("formats", "format", FALSE)}

\* The items that say something, less those the filters strike.
Stated(record, list) ==
  LET path == <<list.field, list.item>>
      struck == IF validated THEN Struck(path) ELSE {}
      says(c) == ~ IsLeaf(c) \/ c.text \notin ({""} \cup struck)
      items == SelectSeq(Reached(record, path), says)
  IN  [i \in DOMAIN items |-> FlatItem(items[i], list.wrapped)]

RecordOf(message) ==
  CHOOSE record \in ToSet(dump.records) : MessageOf(record).id = message.id

-----------------------------------------------------------------------------
(* Properties.                                                             *)

\* The elements outside the lists: a text, or one with attributes (parentLabel, master_id).
Single(record) ==
  {c \in ToSet(record.children) :
     c.name \notin {l.field : l \in Lists} \cup {"identifiers", "companies"} /\ c.children = <<>>}

\* Every list of a published record holds what the XML states, in order and once,
\* less what the filters strike, whether the parser made a scalar, an object or an
\* array of it; single elements stay, but for empty and implausible texts; the hash
\* is that of the data as sent (mod.rs:700-734).
PublishedWhole ==
  \A m \in ToSet(published) :
    /\ \A c \in Single(RecordOf(m)) :
         m.data[c.name] = IF c.text = "" \/ (validated /\ Implausible(<<c.name>>, c.text)) THEN Null
                         ELSE IF c.name = "master_id" THEN Str(c.text) ELSE FlatItem(c, FALSE)
    /\ \A l \in Lists :
         Stated(RecordOf(m), l)
           = IF Has(m.data, l.field) THEN SelectSeq(m.data[l.field].items, LAMBDA v : v # Null)
             ELSE <<>>
    /\ m.sha256 = Hash(m.data)

\* A value that an attribute of the element or a child of it states.
Says(element, attribute, child) ==
  LET texts == Attributes(<<element>>, attribute) \o LeafTexts(ChildrenNamed(element, child))
  IN  IF texts = <<>> THEN "" ELSE Trim(texts[1])

ItemsOf(message, block) == message.data[block].block.items
UnmappedIn(message, block) == message.data[block].block.unmapped

Flags(message, rule) ==
  {line.value : line \in {l \in ToSet(log \o buffer) : l.id = message.id /\ l.rule = rule}}

\* The canonical blocks are what the mappers promise of the raw lists, in whatever shape
\* these arrive: of every identifier with a type and a value, every credit with a name
\* and a role, every catalogue number and every format that names a medium an item, in
\* order; of their types, roles, names and descriptions those the vocabularies do not
\* know are listed as unmapped; and the format names listed so are the ones the rule
\* flags, which reads the record in another shape (identifiers.rs:241-248,
\* companies.rs:170-177, media.rs:430-477).
BlocksFollowLists ==
  dump.type = "releases" => \A m \in ToSet(published) :
    LET record == RecordOf(m)
        typed == SelectSeq(Reached(record, <<"identifiers", "identifier">>),
                           LAMBDA e : Says(e, "type", "") # "" /\ Says(e, "value", "") # "")
        numbered == SelectSeq(Reached(record, <<"labels", "label">>),
                              LAMBDA e : Says(e, "catno", "") # "" /\ ~ IsAbsent(Says(e, "catno", "")))
        credits == SelectSeq(Reached(record, <<"companies", "company">>),
                             LAMBDA e : Says(e, "", "name") # "" /\ Says(e, "", "entity_type_name") # "")
        names == TextsAt(record, <<"formats", "format", "@name">>)
        items == ItemsOf(m, "identifiers")
        media == m.data["media"].block
    IN  /\ [i \in DOMAIN items |-> <<items[i].source, items[i].value>>]
             = [i \in DOMAIN typed |-> <<Says(typed[i], "type", ""), Says(typed[i], "value", "")>>]
               \o [i \in DOMAIN numbered |-> <<None, Says(numbered[i], "catno", "")>>]
        /\ UnmappedIn(m, "identifiers") = {Says(e, "type", "") : e \in ToSet(typed)} \ DOMAIN IdentifierTypes
        /\ [i \in DOMAIN ItemsOf(m, "companies") |->
              <<ItemsOf(m, "companies")[i].name, ItemsOf(m, "companies")[i].role>>]
             = [i \in DOMAIN credits |-> <<Says(credits[i], "", "name"), Says(credits[i], "", "entity_type_name")>>]
        /\ UnmappedIn(m, "companies")
             = {Says(e, "", "entity_type_name") : e \in ToSet(credits)} \ DOMAIN CompanyRoles
        /\ [i \in DOMAIN media.items |-> media.items[i].source.name]
             = SelectSeq(names, LAMBDA n : n \in DOMAIN Formats /\ MakesItem(Formats[n]))
        /\ media.unmapped.formats = ToSet(names) \ DOMAIN Formats
        /\ validated => media.unmapped.formats = Flags(m, "format-not-recognized")
        /\ media.unmapped.descriptions
             = ToSet(TextsAt(record, <<"formats", "format", "descriptions", "description">>))
               \ DOMAIN Descriptions

\* "Nothing is dropped: every raw value survives inside the block, and an entry the
\* vocabulary does not recognise [...] is additionally recorded under unmapped, where
\* the [...] quality rules surface it" (docs/extraction.md:105-108); "Each rule flags
\* exactly the raw strings its vocabulary does not carry, which are the same strings
\* the canonical block records" (docs/extraction-rules-guide.md:229-230).  The code
\* passes over an entry of which one half is missing or blank, and the rules compare
\* texts untrimmed.
NothingDropped ==
  dump.type = "releases" => \A m \in ToSet(published) :
    LET record == RecordOf(m)
        identifiers == ToSet(Reached(record, <<"identifiers", "identifier">>))
        credits == ToSet(Reached(record, <<"companies", "company">>))
        kept(block, part(_)) == {part(i) : i \in ToSet(ItemsOf(m, block))} \cup {""}
    IN  /\ \A e \in identifiers :
             /\ Says(e, "type", "") \in kept("identifiers", LAMBDA i : i.source)
             /\ Says(e, "value", "") \in kept("identifiers", LAMBDA i : i.value)
        /\ \A e \in credits :
             /\ Says(e, "", "name") \in kept("companies", LAMBDA i : i.name)
             /\ Says(e, "", "entity_type_name") \in kept("companies", LAMBDA i : i.role)
        /\ validated =>
             /\ UnmappedIn(m, "identifiers") = Flags(m, "identifier-type-not-recognized")
             /\ UnmappedIn(m, "companies") = Flags(m, "company-role-not-recognized")

\* How often a rule should have objected to a record.
Objected(record, rule) ==
  LET values == LeftAt(record, rule.field)
  IN  IF rule.condition.type = "required"
        THEN IF values = <<>> THEN 1 ELSE Len(SelectSeq(values, LAMBDA t : t = ""))
        ELSE Len(SelectSeq(values, LAMBDA t : CheckCondition(rule.condition, t)))

ShouldBeSkipped(record) ==
  \E c \in ToSet(SkipRecords[dump.type]) : ToSet(TextsAt(record, c.field)) \cap c.containing # {}

\* When a validation ends, the report on disk tells what it did to the records it
\* took: which were skipped, how many values were struck, how often each rule
\* objected to what was left; and what it objected to is captured, also after a pass
\* that died (mod.rs:642-697, rules.rs:845-892).
ReportIsTrue ==
  stage = "ended" /\ next > 1 =>
    LET taken == SubSeq(dump.records, 1, next - 1)
        kept == SelectSeq(taken, LAMBDA r : ~ ShouldBeSkipped(r))
        skipped == SelectSeq(taken, ShouldBeSkipped)
        total(f(_), records) == FoldLeft(LAMBDA n, r : n + f(r), 0, records)
        struck(path) == total(LAMBDA r : Len(TextsAt(r, path)) - Len(LeftAt(r, path)), kept)
    IN  /\ reportFile.total = Len(taken)
        /\ [i \in DOMAIN skipped |-> MessageOf(skipped[i]).id]
             = [i \in DOMAIN reportFile.skipped |-> reportFile.skipped[i].id]
        /\ \A m \in ToSet(published) : ~ ShouldBeSkipped(RecordOf(m))
        /\ \A f \in ToSet(Filters[dump.type]) : f.kind = "remove_matching" =>
             CopiesIn(<<f.field, f.reason>>, reportFile.values) = struck(f.field)
        /\ \A rule \in ToSet(QualityRules[dump.type]) :
             CopiesIn(<<rule.name, rule.severity>>, reportFile.counts)
               = total(LAMBDA r : Objected(r, rule), kept)
        /\ \A r \in ToSet(kept) : \A rule \in ToSet(QualityRules[dump.type]) :
             rule.severity \in {"error", "warning"} /\ Objected(r, rule) > 0
               => MessageOf(r).id \in DOMAIN files
        /\ \A r \in ToSet(skipped) : MessageOf(r).id \in DOMAIN files
=============================================================================
