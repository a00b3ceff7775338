------------------------- MODULE MCImportExpansion -------------------------
(***************************************************************************)
(* Dependency directories for ImportExpansion, laid out like deps/std:    *)
(* the root holds no module, std holds module a (definitions f and g) and  *)
(* module b (definition h), and optionally a second module b.  The        *)
(* keyword defining f, the imports in f's and h's bodies and at the top   *)
(* of module a vary over every choice, so imports form chains, self-      *)
(* loops, cycles through two modules, diamonds and dangling paths (a     *)
(* missing module, a bare name, a missing directory).                     *)
(***************************************************************************)
EXTENDS ImportExpansion, TLC

StdA  == <<"std", "a">>
StdB  == <<"std", "b">>
StdAF == <<"std", "a", "f">>
StdBH == <<"std", "b", "h">>
StdAX == <<"std", "a", "x">>
StdC  == <<"std", "c">>
BareA == <<"a">>
LibAF == <<"lib", "a", "f">>

MCNames == {"std", "lib", "a", "b", "c", "f", "g", "h", "x"}

GraphPaths   == {StdA, StdB, StdAF, StdBH, StdC, BareA, LibAF}
ExprPaths == {StdAF}

\* At most one import in a body.
Bodies(paths) == {<<>>} \cup {<<Import(q)>> : q \in paths}

Library(fkw, fbody, hbody, atop, dupB) ==
    (<<>> :> <<>>) @@
    (<<"std">> :>
        (<< [name |-> "a",
             items |-> atop \o <<Definition(fkw, "f", fbody),
                                 Definition("def", "g", <<>>)>>],
            [name |-> "b", items |-> <<Definition("defun", "h", hbody)>>] >>
         \o (IF dupB THEN <<[name |-> "b", items |-> <<>>]>> ELSE <<>>)))

LibrariesOver(paths, kws, dups) ==
    {Library(k, fb, hb, at, d) :
        k \in kws, fb \in Bodies(paths), hb \in Bodies(paths),
        at \in Bodies(paths), d \in dups}

\* Programs of one or two imports.
ProgramsOver(paths) ==
    {<<Import(q)>> : q \in paths} \cup {<<Import(q), Import(r)>> : q, r \in paths}

GraphLibraries  == LibrariesOver(GraphPaths, Keywords, BOOLEAN)
GraphPrograms   == ProgramsOver(GraphPaths)
ExprLibraries == LibrariesOver({}, Keywords, {FALSE})
ExprPrograms  == ProgramsOver(ExprPaths)
=============================================================================
