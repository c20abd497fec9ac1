---------------------------- MODULE CatalogBlocks ----------------------------
(* The canonical identifiers and companies blocks of a release              *)
(* (discogs/identifiers.rs, discogs/companies.rs). Lists that the code      *)
(* sorts and de-duplicates are sets.                                        *)
EXTENDS Json

CONSTANTS
  IdentifierTypes,   \* raw Discogs type -> canonical type
  Namespaces,        \* canonical type -> [provider, normalization]
  CompanyRoles,      \* raw Discogs role -> category
  Trim(_),           \* a text without the white space around it
  IsAbsent(_),       \* the marker for "no catalogue number", in any case
  NormalizedAlias(_, _), \* a value under a namespace's rule, or None
  DigitsOf(_),       \* a text that is all digits, as received; None otherwise
  LabelId(_)         \* the whole number of at least one a text stands for, or None

Unmapped == "other"

Trimmed(fields, key) ==
  LET text == IF Has(fields, key) /\ IsStr(fields[key]) THEN Trim(fields[key].text) ELSE ""
  IN  IF text = "" THEN None ELSE text

\* The entries of a list field that are objects.
Entries(fields, key) ==
  IF Has(fields, key) /\ IsArr(fields[key])
    THEN LET objects == SelectSeq(fields[key].items, IsObj)
         IN  [i \in DOMAIN objects |-> objects[i].fields]
    ELSE <<>>

Mapped(vocabulary, raw) == IF raw \in DOMAIN vocabulary THEN vocabulary[raw] ELSE Unmapped

-----------------------------------------------------------------------------
(* Identifiers: the typed values, then the catalogue numbers of the labels. *)

NamesIdentifier(entry) == Trimmed(entry, "type") # None /\ Trimmed(entry, "value") # None

IdentifierItem(entry) ==
  [type |-> Mapped(IdentifierTypes, Trimmed(entry, "type")), value |-> Trimmed(entry, "value"),
   description |-> Trimmed(entry, "description"), source |-> Trimmed(entry, "type")]

HasCatalogNumber(entry) == Trimmed(entry, "catno") # None /\ ~ IsAbsent(Trimmed(entry, "catno"))

CatalogNumberItem(entry) ==
  [type |-> "catalog_number", value |-> Trimmed(entry, "catno"), description |-> None, source |-> None]

Aliases(items) ==
  LET minting == {i \in ToSet(items) : i.type \in DOMAIN Namespaces}
      alias(i) == [provider |-> Namespaces[i.type].provider,
                   external_id |-> NormalizedAlias(Namespaces[i.type].normalization, i.value)]
  IN  {a \in {alias(i) : i \in minting} : a.external_id # None}

MapDiscogsIdentifiers(fields) ==
  LET named == SelectSeq(Entries(fields, "identifiers"), NamesIdentifier)
      labels == SelectSeq(Entries(fields, "labels"), HasCatalogNumber)
      items == [i \in DOMAIN named |-> IdentifierItem(named[i])]
               \o [i \in DOMAIN labels |-> CatalogNumberItem(labels[i])]
  IN  [items |-> items, types |-> {i.type : i \in ToSet(items)}, aliases |-> Aliases(items),
       unmapped |-> {Trimmed(e, "type") : e \in ToSet(named)} \ DOMAIN IdentifierTypes]

AttachIdentifiersBlock(fields) ==
  With(fields, "identifiers", [kind |-> "block", block |-> MapDiscogsIdentifiers(fields)])

-----------------------------------------------------------------------------
(* Companies.                                                              *)

NamesCredit(entry) == Trimmed(entry, "name") # None /\ Trimmed(entry, "entity_type_name") # None

DiscogsId(entry) == IF Trimmed(entry, "id") = None THEN None ELSE LabelId(Trimmed(entry, "id"))

EntityType(entry) ==
  IF Trimmed(entry, "entity_type") = None THEN None ELSE DigitsOf(Trimmed(entry, "entity_type"))

CompanyItem(entry) ==
  [name |-> Trimmed(entry, "name"), discogs_id |-> DiscogsId(entry),
   role |-> Trimmed(entry, "entity_type_name"),
   role_category |-> Mapped(CompanyRoles, Trimmed(entry, "entity_type_name")),
   catno |-> Trimmed(entry, "catno"), source |-> EntityType(entry)]

MapDiscogsCompanies(fields) ==
  LET named == SelectSeq(Entries(fields, "companies"), NamesCredit)
      items == [i \in DOMAIN named |-> CompanyItem(named[i])]
  IN  [items |-> items, role_categories |-> {i.role_category : i \in ToSet(items)},
       unmapped |-> {Trimmed(e, "entity_type_name") : e \in ToSet(named)} \ DOMAIN CompanyRoles]

AttachCompaniesBlock(fields) ==
  With(fields, "companies", [kind |-> "block", block |-> MapDiscogsCompanies(fields)])
=============================================================================
