\* Importing the single expression std/a/f, where f is defined with def,
\* defun or defrec: for defrec the expansion succeeds without pasting f.
CONSTANTS
    Names <- MCNames
    ImportPaths <- ExprPaths
    Libraries <- ExprLibraries
    Programs <- ExprPrograms
    DepDirSet = TRUE
SPECIFICATION Spec
INVARIANT ImportedExpressionDelivered
