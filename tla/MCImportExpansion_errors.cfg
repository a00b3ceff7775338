\* Over every small import graph of a std-like dependency directory, the
\* import expansion fails exactly on cycles and unresolvable imports.
CONSTANTS
    Names <- MCNames
    ImportPaths <- GraphPaths
    Libraries <- GraphLibraries
    Programs <- GraphPrograms
    DepDirSet = TRUE
SPECIFICATION Spec
INVARIANT ExpansionErrorsExact
