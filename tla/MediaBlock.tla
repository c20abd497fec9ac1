----------------------------- MODULE MediaBlock -----------------------------
(* The canonical media block of a release (discogs/media.rs). Lists that    *)
(* the code sorts and de-duplicates are sets.                               *)
EXTENDS Json, Integers

CONSTANTS
  Formats,          \* format name -> [family, medium, variant, container, flag]
  Descriptions,     \* description -> [target, value]
  Families,         \* family -> [attribute, map] or None
  Media,            \* medium -> [family, defaults]
  LeadingInteger(_) \* {n} for a text that starts with the integer n, else {}

ItemAttributes == {"size_inches", "speed_rpm", "channels", "codec"}

EmptyBlock == [items |-> <<>>, families |-> {}, release_kind |-> None, traits |-> {},
               edition |-> {}, packaging |-> None, container |-> None, flags |-> {},
               unmapped |-> [formats |-> {}, descriptions |-> {}]]

Fill(slot, value) == IF slot = None THEN value ELSE slot

-----------------------------------------------------------------------------
(* Input.                                                                  *)

TextOf(fields, key) == IF Has(fields, key) /\ IsStr(fields[key]) THEN fields[key].text ELSE None

Texts(value) ==
  CASE IsArr(value) -> LET strings == SelectSeq(value.items, IsStr)
                       IN  [i \in DOMAIN strings |-> strings[i].text]
    [] IsStr(value) -> <<value.text>>
    [] OTHER -> <<>>

\* A list, a lone string, or either of them wrapped in an element.
FlattenDescriptions(fields) ==
  LET value == IF Has(fields, "descriptions") THEN fields["descriptions"] ELSE Null
  IN  IF IsObj(value)
        THEN IF Has(value.fields, "description") THEN Texts(value.fields["description"]) ELSE <<>>
        ELSE Texts(value)

ParseQty(fields) ==
  LET read == IF TextOf(fields, "qty") = None THEN {1} ELSE LeadingInteger(TextOf(fields, "qty"))
  IN  IF \E n \in read : n >= 1 THEN CHOOSE n \in read : TRUE ELSE 1

NewItem(fields) ==
  [family |-> None, medium |-> None, qty |-> ParseQty(fields),
   attributes |-> [a \in ItemAttributes |-> None], variants |-> {}, appearance |-> {},
   source |-> [name |-> TextOf(fields, "name"), descriptions |-> FlattenDescriptions(fields),
               text |-> TextOf(fields, "text")]]

-----------------------------------------------------------------------------
(* The mapper. A format entry without family and medium makes no item.     *)

MakesItem(entry) == entry.family # None \/ entry.medium # None

\* The release-level half of apply_format_entry.
ApplyFormatEntry(block, entry) ==
  [block EXCEPT !.container = IF entry.container # None THEN entry.container ELSE @,
                !.flags = @ \cup ({entry.flag} \ {None})]

\* The item's half.
NamedItem(fields, entry) ==
  [NewItem(fields) EXCEPT !.medium = entry.medium, !.family = entry.family,
                          !.variants = {entry.variant} \ {None}]

DescribeItem(item, rule) ==
  CASE rule.target \in ItemAttributes -> [item EXCEPT !.attributes[rule.target] = Fill(@, rule.value)]
    [] rule.target = "variant" -> [item EXCEPT !.variants = @ \cup {rule.value}]
    [] rule.target = "appearance" -> [item EXCEPT !.appearance = @ \cup {rule.value}]
    [] OTHER -> item

\* Mutant: what the vocabulary does not know is dropped.
DescribeBlockDropping(block, description) ==
  IF description \notin DOMAIN Descriptions THEN block
    ELSE LET rule == Descriptions[description]
         IN  IF rule.target = "edition" THEN [block EXCEPT !.edition = @ \cup {rule.value}] ELSE block

DescribeBlock(block, description) ==
  IF description \notin DOMAIN Descriptions
    THEN [block EXCEPT !.unmapped.descriptions = @ \cup {description}]
    ELSE LET rule == Descriptions[description]
         IN  CASE rule.target = "trait" -> [block EXCEPT !.traits = @ \cup {rule.value}]
               [] rule.target = "edition" -> [block EXCEPT !.edition = @ \cup {rule.value}]
               [] rule.target = "flag" -> [block EXCEPT !.flags = @ \cup {rule.value}]
               [] rule.target = "release_kind" -> [block EXCEPT !.release_kind = Fill(@, rule.value)]
               [] rule.target = "packaging" -> [block EXCEPT !.packaging = Fill(@, rule.value)]
               [] rule.target = "container" -> [block EXCEPT !.container = Fill(@, rule.value)]
               [] OTHER -> block

\* The medium a family resolves to by an attribute, when nothing named one.
Resolved(item) ==
  LET resolve == IF item.family \in DOMAIN Families THEN Families[item.family] ELSE None
      key == IF resolve = None THEN None ELSE item.attributes[resolve.attribute]
  IN  IF key # None /\ key \in DOMAIN resolve.map THEN resolve.map[key]
      ELSE item.family \o "_unspecified"

FinishItem(item) ==
  LET family == IF item.family = None /\ item.medium \in DOMAIN Media
                  THEN Media[item.medium].family ELSE item.family
      medium == IF item.medium = None THEN Resolved([item EXCEPT !.family = family]) ELSE item.medium
      defaults == IF medium \in DOMAIN Media THEN Media[medium].defaults ELSE [a \in {} |-> None]
  IN  [item EXCEPT !.family = family, !.medium = medium,
                   !.attributes = [a \in ItemAttributes |->
                      IF a \in DOMAIN defaults THEN Fill(@[a], defaults[a]) ELSE @[a]]]

Known(descriptions) == SelectSeq(descriptions, LAMBDA d : d \in DOMAIN Descriptions)

MapFormat(block, fields) ==
  LET name == TextOf(fields, "name")
      descriptions == FlattenDescriptions(fields)
      entry == IF name \in DOMAIN Formats THEN Formats[name] ELSE None
      named == CASE entry # None -> ApplyFormatEntry(block, entry)
                 [] entry = None /\ name # None -> [block EXCEPT !.unmapped.formats = @ \cup {name}]
                 [] OTHER -> block
      described == FoldLeft(DescribeBlock, named, descriptions)
      item == FoldLeft(LAMBDA i, d : DescribeItem(i, Descriptions[d]),
                       NamedItem(fields, entry), Known(descriptions))
  IN  IF entry # None /\ MakesItem(entry)
        THEN [described EXCEPT !.items = Append(@, FinishItem(item))]
        ELSE described

\* map_discogs_formats, over the normalized list; an entry that is no object is passed over.
MapDiscogsFormats(fields) ==
  LET value == IF Has(fields, "formats") THEN fields["formats"] ELSE Null
      entries == IF IsArr(value) THEN SelectSeq(value.items, IsObj) ELSE <<>>
      block == FoldLeft(LAMBDA b, e : MapFormat(b, e.fields), EmptyBlock, entries)
  IN  [block EXCEPT !.families = {i.family : i \in ToSet(block.items)} \ {None}]

AttachMediaBlock(fields) ==
  With(fields, "media", [kind |-> "block", block |-> MapDiscogsFormats(fields)])
=============================================================================
