\* Every program of one or two script-style macro forms, at the top
\* level, in a lambda and inside a list, expands to the reference.
CONSTANT Programs <- ScriptPrograms
SPECIFICATION Spec
INVARIANT ExpansionMatchesReference
