-------------------------- MODULE ImportExpansion --------------------------
(***************************************************************************)
(* The import expansion of the Lurk macro preprocessor                    *)
(* (src/zk/lurk/macros/preprocessor.go): Preprocess, macroExpandImport,   *)
(* extractModule, extractModuleExpression and loadFilesFromFS.            *)
(*                                                                         *)
(* Text is abstracted to what the scanner finds in it.  A dependency      *)
(* directory is a function from directory paths (sequences of names,      *)
(* relative to the dependency root) to the modules its .lurk files        *)
(* declare, in file order.  A module's content is a sequence of items: an *)
(* !(import a/b/c) or a definition !(def|defun|defrec name ...) whose      *)
(* body holds the imports written inside it.  The output of an expansion  *)
(* is the sequence of definitions it pastes in.                           *)
(***************************************************************************)
EXTENDS Naturals, Sequences, SequencesExt

CONSTANTS
    Names,          \* directory, module and expression names
    ImportPaths,    \* the import paths any content may name
    Libraries,      \* the dependency directories to check
    Programs,       \* the programs to preprocess
    DepDirSet       \* whether WithDependencyDir was given

VARIABLES lib, program, result

vars == <<lib, program, result>>

Keywords == {"def", "defun", "defrec"}
Import(path) == [k |-> "import", path |-> path]
Definition(kw, name, body) == [k |-> "def", kw |-> kw, name |-> name, body |-> body]
Atom(kw, name) == [kw |-> kw, name |-> name]

Ok(x) == [err |-> "none", val |-> x]
Err(e) == [err |-> e, val |-> <<>>]

(***************************************************************************)
(* loadFilesFromFS: ReadDir fails exactly when the directory is missing.  *)
(***************************************************************************)
DirExists(dir) == dir \in DOMAIN lib

(***************************************************************************)
(* extractModule: the content of the one module called moduleName across  *)
(* the files; an error when there is none or more than one.              *)
(***************************************************************************)
ExtractModule(modules, moduleName) ==
    LET found == SelectSeq(modules, LAMBDA m : m.name = moduleName)
    IN  CASE Len(found) > 1 -> Err("multiple")
          [] Len(found) = 0 -> Err("notfound")
          [] OTHER          -> Ok(found[1].items)

(***************************************************************************)
(* The name extractModuleExpression reads after a definition keyword.     *)
(* "!(defun" is tested first and skips 8 characters.  "!(def" is tested   *)
(* next, skips 6, and is also a prefix of "!(defrec": for a defrec it     *)
(* skips "!(defr" and reads "ec" as the name, so the "!(defrec" branch is *)
(* never taken.                                                            *)
(***************************************************************************)
ReadName(d) == IF d.kw = "defrec" THEN "ec" ELSE d.name

(***************************************************************************)
(* extractModuleExpression: every top-level definition of the module      *)
(* whose read name is exprName, concatenated; never an error.             *)
(***************************************************************************)
ExtractModuleExpression(items, exprName) ==
    SelectSeq(items, LAMBDA it : it.k = "def" /\ ReadName(it) = exprName)

(***************************************************************************)
(* The two-pass lookup of an import path in macroExpandImport.  First     *)
(* pass: the last name is a module in the directory the others name.      *)
(* Only when that directory cannot be read, second pass: the last name is *)
(* an expression of the module the one before it names.                   *)
(***************************************************************************)
Resolve(path) ==
    IF DirExists(Front(path))
    THEN ExtractModule(lib[Front(path)], Last(path))
    ELSE IF Len(path) < 2 THEN Err("nofile")
    ELSE LET dir == SubSeq(path, 1, Len(path) - 2)
             m   == ExtractModule(lib[dir], path[Len(path) - 1])
         IN  CASE ~DirExists(dir)  -> Err("dirmissing")
               [] m.err # "none"   -> m
               [] OTHER            -> Ok(ExtractModuleExpression(m.val, Last(path)))

SecondPass(path) == ~DirExists(Front(path))

(***************************************************************************)
(* macroExpandImport.  ExpandItems is the scanning loop over a content,   *)
(* passing each import the chain of imports that led to the content;     *)
(* ExpandItem handles one item: a definition is pasted with its body      *)
(* expanded, an import is checked against the chain, resolved, and its   *)
(* content expanded with the path appended to a copy of the chain.  The   *)
(* first error ends the whole expansion.                                   *)
(***************************************************************************)
RECURSIVE ExpandItems(_, _), ExpandItem(_, _), ExpandItemsSharedChain(_, _)

\* Mutant of ExpandItems: one chain for all the imports of a content, as
\* if dependencyChain itself were appended instead of a copy.
ExpandItemsSharedChain(items, chain) ==
    IF items = <<>> THEN Ok(<<>>)
    ELSE LET h    == Head(items)
             r1   == ExpandItem(h, chain)
             next == IF h.k = "import" THEN Append(chain, h.path) ELSE chain
             r2   == ExpandItemsSharedChain(Tail(items), next)
         IN  CASE r1.err # "none" -> r1
               [] r2.err # "none" -> r2
               [] OTHER           -> Ok(r1.val \o r2.val)

ExpandItems(items, chain) ==
    IF items = <<>> THEN Ok(<<>>)
    ELSE LET r1 == ExpandItem(Head(items), chain)
             r2 == ExpandItems(Tail(items), chain)
         IN  CASE r1.err # "none" -> r1
               [] r2.err # "none" -> r2
               [] OTHER           -> Ok(r1.val \o r2.val)

ExpandItem(it, chain) ==
    IF it.k = "def"
    THEN LET body == ExpandItems(it.body, chain)
         IN  IF body.err # "none" THEN body
             ELSE Ok(<<Atom(it.kw, it.name)>> \o body.val)
    ELSE LET content == Resolve(it.path)
         IN  CASE it.path \in ToSet(chain) -> Err("circular")
               [] content.err # "none"     -> content
               [] OTHER -> ExpandItems(content.val, Append(chain, it.path))

ImportsIn(items) ==
    {items[i] : i \in {j \in 1..Len(items) : items[j].k = "import"}}
    \cup UNION {ToSet(items[i].body) : i \in {j \in 1..Len(items) : items[j].k = "def"}}

ImportTargets(items) == {it.path : it \in ImportsIn(items)}

\* strings.Contains(lurkProgram, "!(import"): an import anywhere in the text.
HasImport(items) == ImportsIn(items) # {}

(***************************************************************************)
(* Preprocess, up to and including the import expansion.                 *)
(***************************************************************************)
Init ==
    /\ lib \in Libraries
    /\ program \in Programs
    /\ result = [err |-> "pending", val |-> <<>>]

Preprocess ==
    /\ result.err = "pending"
    /\ result' = CASE ~HasImport(program) -> Ok(<<>>)
                   [] ~DepDirSet          -> Err("nodepdir")
                   [] OTHER               -> ExpandItems(program, <<>>)
    /\ UNCHANGED <<lib, program>>

Done == result.err # "pending" /\ UNCHANGED vars

Next == Preprocess \/ Done

Spec == Init /\ [][Next]_vars

(***************************************************************************)
(* Reference: the import graph of the library.  An edge leads from a path *)
(* to every import written in the content it resolves to.                 *)
(***************************************************************************)
ImportEdges == [p \in ImportPaths |->
                  IF Resolve(p).err = "none" THEN ImportTargets(Resolve(p).val) ELSE {}]

\* The paths reachable from the set S in one or more steps of E.
RECURSIVE ReachableFrom(_, _)
ReachableFrom(S, E) ==
    LET next == S \cup UNION {E[q] : q \in S}
    IN  IF next = S THEN S ELSE ReachableFrom(next, E)

Reached == ReachableFrom(ImportTargets(program), ImportEdges)

RefCycle ==
    LET E == ImportEdges
    IN  \E p \in Reached : p \in ReachableFrom(E[p], E)

RefUnresolved == \E p \in Reached : Resolve(p).err # "none"

(***************************************************************************)
(* Properties.                                                             *)
(***************************************************************************)

\* macroExpandImport reports an error exactly when the imports reachable
\* from the program are circular or one of them cannot be resolved, and
\* a circular-imports error only for a real cycle: an import repeated by
\* siblings or reached along two paths (a diamond) is not circular.
ExpansionErrorsExact ==
    result.err \notin {"pending", "nodepdir"} =>
        /\ (result.err = "none") <=> (~RefCycle /\ ~RefUnresolved)
        /\ result.err = "circular" => RefCycle
        /\ result.err \in {"multiple", "notfound", "nofile", "dirmissing"}
               => RefUnresolved

\* An import of a single expression (a/module/expr) that expands without
\* error pastes a definition of that expression: extractModuleExpression
\* finds it whatever keyword defines it.
ImportedExpressionDelivered ==
    result.err = "none" =>
        \A p \in Reached :
            SecondPass(p) => \E i \in 1..Len(result.val) : result.val[i].name = Last(p)
=============================================================================
