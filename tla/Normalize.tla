------------------------------ MODULE Normalize ------------------------------
(* The flat shape of a record (discogs/normalize.rs).                       *)
EXTENDS Json

\* A key without its @ prefix; #text becomes name unless there is a name. Two
\* keys may come out the same: the map is ordered, and the later one stays.
StrippedKey(keys, key) ==
  CASE SubSeq(key, 1, 1) = "@" -> Unprefixed(key)
    [] key = "#text" /\ "name" \notin keys -> "name"
    [] OTHER -> key

StripAtPrefixes(fields) ==
  LET keys == DOMAIN fields
      sources(k) == {o \in keys : StrippedKey(keys, o) = k}
  IN  [k \in {StrippedKey(keys, o) : o \in keys} |->
         fields[IF "@" \o k \in sources(k) THEN "@" \o k ELSE CHOOSE o \in sources(k) : TRUE]]

Strip(value) == IF IsObj(value) THEN Obj(StripAtPrefixes(value.fields)) ELSE value

EnsureList(value) ==
  CASE IsArr(value) -> value.items
    [] value = Null -> <<>>
    [] OTHER -> <<value>>

UnwrapContainer(value, key) ==
  IF IsObj(value)
    THEN IF Has(value.fields, key) THEN EnsureList(value.fields[key]) ELSE <<>>
    ELSE EnsureList(value)

NormalizeItem(item) ==
  IF IsStr(item) THEN Obj([k \in {"id"} |-> item]) ELSE Strip(item)

\* The items of a list field, out of their container.
Contents(fields, key, inner) ==
  IF Has(fields, key) THEN UnwrapContainer(fields[key], inner) ELSE <<>>

\* insert_if_nonempty after the field was taken out.
Replaced(fields, key, items) ==
  IF items = <<>> THEN Without(fields, key) ELSE With(fields, key, Arr(items))

NormalizeItems(fields, key, inner) ==
  LET items == Contents(fields, key, inner)
  IN  Replaced(fields, key, [i \in DOMAIN items |-> NormalizeItem(items[i])])

NormalizeStrings(fields, key, inner) == Replaced(fields, key, Contents(fields, key, inner))

NormalizeArtist(fields) ==
  FoldLeft(LAMBDA m, key : NormalizeItems(m, key, "name"), fields,
           <<"members", "groups", "aliases">>)

NormalizeLabel(fields) ==
  NormalizeItems(IF Has(fields, "parentLabel")
                   THEN With(fields, "parentLabel", Strip(fields["parentLabel"])) ELSE fields,
                 "sublabels", "label")

NormalizeMaster(fields) ==
  LET m1 == NormalizeItems(StripAtPrefixes(fields), "artists", "artist")
      m2 == NormalizeStrings(m1, "genres", "genre")
  IN  NormalizeStrings(m2, "styles", "style")

\* master_id may be an element with attributes: its text, or else its id.
MasterId(fields) ==
  LET m == IF Has(fields, "master_id") /\ IsObj(fields["master_id"])
             THEN fields["master_id"].fields ELSE NoFields
  IN  CASE Has(m, "#text") -> With(fields, "master_id", m["#text"])
        [] ~ Has(m, "#text") /\ Has(m, "id") -> With(fields, "master_id", m["id"])
        [] OTHER -> fields

ReleaseItems == <<<<"artists", "artist">>, <<"labels", "label">>, <<"extraartists", "artist">>,
                  <<"identifiers", "identifier">>, <<"companies", "company">>>>

\* formats take no item from a string.
NormalizeRelease(fields) ==
  LET m0 == MasterId(StripAtPrefixes(fields))
      m1 == FoldLeft(LAMBDA m, f : NormalizeItems(m, f[1], f[2]), m0, ReleaseItems)
      m2 == NormalizeStrings(NormalizeStrings(m1, "genres", "genre"), "styles", "style")
      formats == Contents(m2, "formats", "format")
  IN  Replaced(m2, "formats", [i \in DOMAIN formats |-> Strip(formats[i])])

NormalizeRecord(type, fields) ==
  CASE type = "artists" -> NormalizeArtist(fields)
    [] type = "labels" -> NormalizeLabel(fields)
    [] type = "masters" -> NormalizeMaster(fields)
    [] type = "releases" -> NormalizeRelease(fields)
=============================================================================
