----------------------------- MODULE LexicalCast -----------------------------
(***************************************************************************)
(* mengSen/config: the conversions that the compiler makes for a type, out *)
(* of those for its elements, for scalars and for containers of any type   *)
(* that has them.  The conversions of a type are a record:                 *)
(*   values      the values of the type                                    *)
(*   texts       the texts that may be given, trees of its depth           *)
(*   printing    the values of which operator() makes a text: it does not  *)
(*               throw                                                     *)
(*   toText      the text that it makes                                    *)
(*   converting  the texts of which operator() makes a value               *)
(*   fromText    the value that it makes                                   *)
(* and, which no code has,                                                 *)
(*   plain       values all of whose strings YAML prints as it reads them  *)
(***************************************************************************)
EXTENDS Containers, FiniteSets

CONSTANTS
    Numerals,   \* the strings that are the text of an int
    Keys        \* the keys of maps

ASSUME CastAssumption == Numerals \subseteq Kept

\* A type: "int" or "string" after the containers it is in, as in <<"vector", "set", "int">>.
IsScalar(type) == Len(type) = 1

Types ==
    {type \in Seq({"int", "string", "vector", "set", "map"}) :
        /\ type # <<>>
        /\ \A i \in DOMAIN type : type[i] \in {"int", "string"} <=> i = Len(type)}

MapsTo(values) ==
    {entries \in SUBSET (Keys \X values) : \A e, f \in entries : e[1] = f[1] => e = f}

\* A text may be of any kind, whatever is asked for.
TextsOf(elements) ==
    {Text(s) : s \in Strings} \cup {NodeOf(leaf) : leaf \in Leaves}
        \cup [kind : {"sequence"}, items : Seq(elements)]
        \cup [kind : {"map"}, entries : MapsTo(elements)]

-----------------------------------------------------------------------------
ScalarCast(type) ==
    LET values == IF type = <<"int">> THEN Numerals ELSE Strings
        texts  == TextsOf({})
    IN  [values     |-> values,
         plain      |-> Kept,
         texts      |-> texts,
         printing   |-> values,
         toText     |-> [v \in values |-> Text(v)],
         converting |-> {t \in texts : /\ t.kind = "text"
                                       /\ type = <<"int">> => t.string \in Numerals},
         fromText   |-> [t \in texts |-> t.string]]

VectorCast(element) ==
    LET values == Seq(element.values)
        texts  == TextsOf(element.texts)
    IN  [values     |-> values,
         plain      |-> Seq(element.plain),
         texts      |-> texts,
         printing   |-> {v \in values :
                           \A i \in DOMAIN v : elementPrints(v[i], element.printing, element.toText)},
         toText     |-> [v \in values |-> vectorToText(v, element.toText)],
         converting |-> {t \in texts : itemsConvert(t, element.converting)},
         fromText   |-> [t \in texts |-> vectorFromText(t, element.fromText)]]

SetCast(element) ==
    LET values == {s \in SUBSET element.values : IsFiniteSet(s)}
        texts  == TextsOf(element.texts)
    IN  [values     |-> values,
         plain      |-> SUBSET element.plain,
         texts      |-> texts,
         printing   |-> {v \in values :
                           \A x \in v : elementPrints(x, element.printing, element.toText)},
         toText     |-> [v \in values |-> setToText(v, element.toText)],
         converting |-> {t \in texts : itemsConvert(t, element.converting)},
         fromText   |-> [t \in texts |-> setFromText(t, element.fromText)]]

MapCast(element) ==
    LET values == MapsTo(element.values)
        texts  == TextsOf(element.texts)
    IN  [values     |-> values,
         plain      |-> SUBSET (Keys \X element.plain),
         texts      |-> texts,
         printing   |-> {v \in values :
                           \A e \in v : elementPrints(e[2], element.printing, element.toText)},
         toText     |-> [v \in values |-> mapToText(v, element.toText)],
         converting |-> {t \in texts : entriesConvert(t, element.converting)},
         fromText   |-> [t \in texts |-> mapFromText(t, element.fromText)]]

ContainerCast(container, element) ==
    CASE container = "vector" -> VectorCast(element)
      [] container = "set"    -> SetCast(element)
      [] container = "map"    -> MapCast(element)

LexicalCast[type \in Types] ==
    IF IsScalar(type) THEN ScalarCast(type)
    ELSE ContainerCast(Head(type), LexicalCast[Tail(type)])
=============================================================================
