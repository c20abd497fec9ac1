-------------------------------- MODULE Json --------------------------------
(* The JSON values of a record and how the parser builds one from an XML    *)
(* element (discogs/parser.rs).                                             *)
EXTENDS Sequences, SequencesExt

CONSTANT None   \* an absent value

Null == [kind |-> "null"]
Str(s) == [kind |-> "string", text |-> s]
Arr(items) == [kind |-> "array", items |-> items]
Obj(fields) == [kind |-> "object", fields |-> fields]

IsStr(v) == v.kind = "string"
IsArr(v) == v.kind = "array"
IsObj(v) == v.kind = "object"

NoFields == [k \in {} |-> Null]

Has(fields, key) == key \in DOMAIN fields
Without(fields, key) == Restrict(fields, DOMAIN fields \ {key})
With(fields, key, value) == (key :> value) @@ fields

\* An XML element: attributes by name, text, and child elements in order. Text
\* is "" when the element has nothing but white space between its children.
Element(name, attributes, text, children) ==
  [name |-> name, attributes |-> attributes, text |-> text, children |-> children]

ChildrenNamed(element, name) == SelectSeq(element.children, LAMBDA c : c.name = name)
ChildNames(element) == {c.name : c \in ToSet(element.children)}

-----------------------------------------------------------------------------
(* ElementContext.                                                         *)

Unprefixed(key) == SubSeq(key, 2, Len(key))
AttributeKeys(attributes) == {"@" \o a : a \in DOMAIN attributes}

\* add_child: a name that occurs again turns its value into an array.
Repeated(values) == IF Len(values) = 1 THEN values[1] ELSE Arr(values)

RECURSIVE ValueOf(_)
ValueOf(element) ==
  LET child(name) ==
        LET same == ChildrenNamed(element, name)
        IN  Repeated([i \in DOMAIN same |-> ValueOf(same[i])])
      attributes == [k \in AttributeKeys(element.attributes) |->
                       Str(element.attributes[Unprefixed(k)])]
      fields == [n \in ChildNames(element) |-> child(n)] @@ attributes
  IN  CASE DOMAIN fields # {} /\ element.text # "" -> Obj(With(fields, "#text", Str(element.text)))
        [] DOMAIN fields # {} -> Obj(fields)
        [] element.text # "" -> Str(element.text)
        [] OTHER -> Null

\* The end of a record: its id, and its data without an id that @id repeats.
MessageOf(element) ==
  LET fields == ValueOf(element).fields
      own == SelectSeq(<<"@id", "id">>, LAMBDA k : Has(fields, k))
  IN  [id |-> IF own # <<>> /\ IsStr(fields[own[1]]) THEN fields[own[1]].text ELSE "unknown",
       data |-> IF Has(fields, "@id") THEN Without(fields, "id") ELSE fields]
=============================================================================
