-------------------------------- MODULE Casts --------------------------------
(* Values of configuration variables, converted to their texts and back. *)
EXTENDS LexicalCast, Walk

CONSTANT Samples    \* values to convert, with their types

ASSUME SamplesAssumption ==
    \A s \in Samples : s.type \in Types /\ s.value \in LexicalCast[s.type].values

-----------------------------------------------------------------------------
\* A walk of no steps.
CastInit == walk = "cast" /\ \E s \in Samples : input = s.type /\ original = s.value

CastSpec == CastInit /\ [][FALSE]_walkVars

-----------------------------------------------------------------------------
\* config.h:28-319: a scalar is read back from its text, and nothing throws.  So is a value
\* in containers, and in containers of containers, exactly when YAML prints all strings in
\* it as it reads them: others throw, or come back as they are printed, "null" as "~".
ValueReadsBack ==
    walk = "cast" =>
        LET cast == LexicalCast[input]
            text == cast.toText[original]
        IN  (/\ original \in cast.printing
             /\ text \in cast.converting /\ cast.fromText[text] = original)
                <=> (IsScalar(input) \/ original \in cast.plain)
=============================================================================
