----------------------------- MODULE Containers -----------------------------
(***************************************************************************)
(* mengSen/config: the conversions of ConfigVar between a container and a  *)
(* text in YAML.  They are templates: what converts the elements to and    *)
(* from their texts is a function that they are given.                     *)
(*                                                                         *)
(* A text that is not of a container is a string; YAML::Load makes a node  *)
(* of it, which is a scalar or null, or throws.  What it makes of which    *)
(* string, and what it prints of which node, is left open: it drops quotes *)
(* and comments, and prints null as "~".  Of yaml-cpp it is only assumed   *)
(* that it reads back what it prints.  A container is given by its tree,   *)
(* as a node and as a text.                                                *)
(*                                                                         *)
(* vector and list are sequences here, the ordered and the unordered set   *)
(* are sets, and the maps sets of pairs of a key, which no other pair has, *)
(* and a value.                                                            *)
(***************************************************************************)
EXTENDS Integers, Sequences, SequencesExt

CONSTANTS
    Strings,    \* the texts that are not of containers
    Leaves,     \* what a node that is no container holds: a scalar, or null
    Throws,
    ReadAs,     \* what YAML::Load makes of a string: a leaf, or Throws
    PrintedAs   \* what operator<< makes of a leaf

ASSUME YamlAssumption ==
    /\ Throws \notin Leaves
    /\ ReadAs \in [Strings -> Leaves \cup {Throws}] /\ PrintedAs \in [Leaves -> Strings]
    /\ \A leaf \in Leaves : ReadAs[PrintedAs[leaf]] = leaf

Text(string)      == [kind |-> "text", string |-> string]
NodeOf(leaf)      == [kind |-> "leaf", leaf |-> leaf]
SequenceOf(items) == [kind |-> "sequence", items |-> items]
MapOf(entries)    == [kind |-> "map", entries |-> entries]

\* YAML::Load, when it does not throw, and the printing of a node.
Load(text)  == IF text.kind = "text" THEN NodeOf(ReadAs[text.string]) ELSE text
Loads(text) == text.kind = "text" => ReadAs[text.string] # Throws
Emit(node)  == IF node.kind = "leaf" THEN Text(PrintedAs[node.leaf]) ELSE node

\* The strings that are printed as they were read.
Kept == {s \in Strings : ReadAs[s] # Throws /\ PrintedAs[ReadAs[s]] = s}

-----------------------------------------------------------------------------
(* To texts *)

vectorToText(v, toText) == Emit(SequenceOf([i \in DOMAIN v |-> Load(toText[v[i]])]))

setToText(v, toText) == vectorToText(SetToSeq(v), toText)

mapToText(v, toText) == Emit(MapOf({<<e[1], Load(toText[e[2]])>> : e \in v}))

\* The text of an element is made, and loaded, without a throw.
elementPrints(x, printing, toText) == x \in printing /\ Loads(toText[x])

-----------------------------------------------------------------------------
(* From texts *)

\* What the stringstream holds for element i.  The variant: ss.str("") is not called,
\* and the text begins with the first element.
elementText_uncleared(items, i) == Emit(items[1])

elementText(items, i) == Emit(items[i])

\* node[i] for each i below node.size(), which is 0 for a scalar.
ItemsOf(text) == LET node == Load(text) IN IF node.kind = "sequence" THEN node.items ELSE <<>>

EntriesOf(text) == LET node == Load(text) IN IF node.kind = "map" THEN node.entries ELSE {}

\* The elements, converted one by one.
vectorFromText(text, fromText) ==
    [i \in DOMAIN ItemsOf(text) |-> fromText[elementText(ItemsOf(text), i)]]

setFromText(text, fromText) == Range(vectorFromText(text, fromText))

mapFromText(text, fromText) == {<<e[1], fromText[Emit(e[2])]>> : e \in EntriesOf(text)}

\* Neither Load throws, nor does the conversion of an element.
itemsConvert(text, converting) ==
    /\ Loads(text)
    /\ \A i \in DOMAIN ItemsOf(text) : elementText(ItemsOf(text), i) \in converting

entriesConvert(text, converting) ==
    /\ Loads(text)
    /\ \A e \in EntriesOf(text) : Emit(e[2]) \in converting
=============================================================================
