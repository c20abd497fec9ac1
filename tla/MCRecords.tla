------------------------------ MODULE MCRecords ------------------------------
(* TLC instance of Records: a cut of the vendored vocabularies and of       *)
(* extraction-rules.yaml, and dumps of one record, one list of which varies *)
(* at a time, or of two.                                                    *)
EXTENDS Records

-----------------------------------------------------------------------------
(* Texts.                                                                  *)

MCNumber(text) == CASE text = "123" -> {123} [] text = "1969" -> {1969} [] OTHER -> {}
MCLeadingYear(text) ==
  CASE text = "1969-09-26" -> {1969} [] text = "0400-01-01" -> {400} [] OTHER -> {}
MCLeadingInteger(text) == CASE text = "2 discs" -> {2} [] text = "0" -> {0} [] OTHER -> {}
MCTrim(text) == CASE text = " " -> "" [] text = " Odd " -> "Odd" [] text = "Barcode " -> "Barcode" [] OTHER -> text
MCIsAbsent(text) == text = "None"
MCDigitsOf(text) == IF text = "23" THEN text ELSE None
MCLabelId(text) == IF text = "7" THEN 7 ELSE None
MCNormalizedAlias(rule, value) ==
  CASE rule = "digits_only" -> IF value = "5-0" THEN "50" ELSE None
    [] rule = "upper_collapse_space" -> IF value = "cat 1" THEN "CAT 1" ELSE value

-----------------------------------------------------------------------------
(* Vocabularies.                                                           *)

NoEntry == [family |-> None, medium |-> None, variant |-> None, container |-> None, flag |-> None]

MCFormats ==
  ("Vinyl" :> [NoEntry EXCEPT !.family = "vinyl"])
  @@ ("Hybrid" :> [NoEntry EXCEPT !.medium = "optical_sacd", !.variant = "hybrid_layer"])
  @@ ("Box Set" :> [NoEntry EXCEPT !.container = "box_set"])
  @@ ("All Media" :> [NoEntry EXCEPT !.flag = "all_media"])

Description(target, value) == [target |-> target, value |-> value]

MCDescriptions ==
  ("LP" :> Description("size_inches", 12))
  @@ ("Reissue" :> Description("edition", "reissue"))
  @@ ("Album" :> Description("release_kind", "album"))
  @@ ("Red" :> Description("appearance", "red"))
  @@ ("Picture Disc" :> Description("variant", "picture_disc"))
  @@ ("Numbered" :> Description("trait", "numbered"))
  @@ ("Gatefold" :> Description("packaging", "gatefold"))
  @@ ("Stereo" :> Description("ignore", None))

MCFamilies == "vinyl" :> [attribute |-> "size_inches", map |-> (12 :> "vinyl_12")]

MCMedia ==
  ("vinyl_12" :> [family |-> "vinyl", defaults |-> [size_inches |-> 12]])
  @@ ("optical_sacd" :> [family |-> "optical", defaults |-> [codec |-> "dsd"]])

MCIdentifierTypes == ("Barcode" :> "barcode") @@ ("ISRC" :> "other")

MCNamespaces ==
  ("barcode" :> [provider |-> "barcode", normalization |-> "digits_only"])
  @@ ("catalog_number" :> [provider |-> "catalog_number", normalization |-> "upper_collapse_space"])

MCCompanyRoles == "Pressed By" :> "pressing"

-----------------------------------------------------------------------------
(* Rules.                                                                  *)

Repairs ==
  <<[kind |-> "remove_matching", field |-> <<"genres", "genre">>, matching |-> {"123"},
     reason |-> "numeric genre"],
    [kind |-> "nullify_when", field |-> <<"released">>, below |-> {1860}, above |-> {2027},
     reason |-> "implausible date"]>>

Rule(name, field, condition, severity) ==
  [name |-> name, field |-> field, condition |-> condition, severity |-> severity]

Enum(values) == [type |-> "enum", values |-> values]
Required == [type |-> "required"]

ReleaseRules ==
  <<Rule("missing-title", <<"title">>, Required, "error"),
    Rule("genre-not-recognized", <<"genres", "genre">>, Enum({"Rock"}), "warning"),
    Rule("format-not-recognized", <<"formats", "format", "@name">>, Enum(DOMAIN MCFormats), "warning"),
    Rule("identifier-type-not-recognized", <<"identifiers", "identifier", "@type">>,
         Enum(DOMAIN MCIdentifierTypes), "info"),
    Rule("company-role-not-recognized", <<"companies", "company", "entity_type_name">>,
         Enum(DOMAIN MCCompanyRoles), "warning")>>

MasterRules ==
  <<Rule("early-year", <<"year">>, [type |-> "range", min |-> {1970}, max |-> {}], "info"),
    Rule("long-title", <<"title">>, [type |-> "length", min |-> {}, max |-> {3}], "warning"),
    Rule("no-polka", <<"genres", "genre">>, [type |-> "regex", matching |-> {"Polka", "123"}], "warning")>>

NamedRule == <<Rule("empty-name", <<"name">>, Required, "error")>>

MCSkipRecords ==
  LET junk == <<[field |-> <<"profile">>, containing |-> {"[do not use]"}, reason |-> "junk entry"]>>
  IN  [releases |-> <<>>, masters |-> <<>>, artists |-> junk, labels |-> junk]
MCFilters == [releases |-> Repairs, masters |-> Repairs, artists |-> <<>>, labels |-> <<>>]
MCQualityRules == [releases |-> ReleaseRules, masters |-> MasterRules, artists |-> NamedRule, labels |-> NamedRule]

-----------------------------------------------------------------------------
(* Elements of a dump.                                                     *)

NoAttributes == [a \in {} |-> ""]
Tag(name, text) == Element(name, NoAttributes, text, <<>>)
Container(name, children) == Element(name, NoAttributes, "", children)
Attribute(name, text) == IF text = None THEN NoAttributes ELSE name :> text

Release(id, children) == Element("release", "id" :> id, "", children)
Master(id, children) == Element("master", "id" :> id, "", children)
Artist(id, children) == Element("artist", NoAttributes, "", <<Tag("id", id)>> \o children)
Label(id, children) == Element("label", NoAttributes, "", <<Tag("id", id)>> \o children)

Genre == {Tag("genre", t) : t \in {"Rock", "123", "Polka", ""}}

Format(name, qty, descriptions) ==
  Element("format", [name |-> name, qty |-> qty, text |-> ""], "",
          IF descriptions = <<>> THEN <<>>
          ELSE <<Container("descriptions",
                           [i \in DOMAIN descriptions |-> Tag("description", descriptions[i])])>>)

SomeFormat ==
  {Format("Vinyl", "2 discs", <<"LP", "Album", "Red", "Stereo">>), Format("Vinyl", "0", <<"Odd">>),
   Format("Hybrid", "1", <<"Picture Disc", "Numbered">>), Format("Box Set", "1", <<"Gatefold">>),
   Format("All Media", "1", <<>>), Format("Wax", "1", <<"Reissue", "Odd">>)}

Identifier(type, value) ==
  Element("identifier", Attribute("type", type) @@ Attribute("value", value), "", <<>>)

SomeIdentifier ==
  {Identifier(t, v) : t \in {"Barcode", "Barcode ", " Odd ", " "}, v \in {"5-0", None}}

Company(name, role) ==
  Container("company", <<Tag("id", "7"), Tag("name", name), Tag("entity_type", "23"),
                         Tag("entity_type_name", role)>>)

SomeCompany == {Company(n, r) : n \in {"Plant", ""}, r \in {"Pressed By", "Odd", ""}}

SomeLabel ==
  {Element("label", [name |-> "L", id |-> "7", catno |-> c], "", <<>>) : c \in {"cat 1", "None", ""}}

Alias(id, name) == Element("name", "id" :> id, name, <<>>)
Parent(id, name) == Element("parentLabel", "id" :> id, name, <<>>)
SubLabel(id, name) == Element("label", "id" :> id, name, <<>>)

-----------------------------------------------------------------------------
(* Dumps.                                                                  *)

Title == Tag("title", "T")

Varied(name, children) ==
  {<<Release("1", <<Title, Container(name, c)>>)>> : c \in BoundedSeq(children, 2)}

Credit(name) == Container("artist", <<Tag("id", "3"), Tag("name", name)>>)

Lone ==
  UNION {Varied("genres", Genre), Varied("formats", SomeFormat), Varied("identifiers", SomeIdentifier),
         Varied("companies", SomeCompany), Varied("labels", SomeLabel),
         Varied("artists", {Credit("A"), Credit("B")})}
  \cup {<<Release("1", <<Tag("title", t), Tag("released", d)>>)>> :
          t \in {"T", ""}, d \in {"1969-09-26", "0400-01-01", "unknown"}}

Sample ==
  {Release("2", <<Container("genres", <<Tag("genre", "123")>>)>>),
   Release("2", <<Title, Container("genres", <<Tag("genre", "Polka"), Tag("genre", "123")>>),
                  Container("identifiers", <<Identifier(" Odd ", "5-0")>>),
                  Element("master_id", "is_main_release" :> "true", "9", <<>>)>>),
   Release("2", <<Title, Container("formats", <<Format("Wax", "1", <<>>)>>)>>)}

Pairs == {<<r, Release("1", <<Title, Container("genres", <<g>>)>>)>> : r \in Sample, g \in Genre}

Junk == Tag("profile", "[do not use]")

MCDumps ==
  {[type |-> "releases", records |-> r] : r \in Lone \cup Pairs}
  \cup {[type |-> "masters", records |-> <<Master("1", <<Tag("title", "Title"), Tag("year", y), Container("genres", g)>>)>>] :
          y \in {"1969", "123", ""}, g \in BoundedSeq(Genre, 2)}
  \cup {[type |-> "artists",
         records |-> <<Artist("1", <<Junk>>), Artist("2", <<Container(f, a)>>)>>] :
          f \in {"members", "aliases"},
          a \in BoundedSeq({Alias("5", "Ann"), Tag("name", "Bob")}, 2)}
  \cup {[type |-> "labels",
         records |-> <<Label("1", <<Tag("name", "L"), Parent("5", "P"), Container("sublabels", s)>>),
                       Label("2", <<Junk>>)>>] :
          s \in BoundedSeq({SubLabel("5", "Sub")}, 2)}
=============================================================================
