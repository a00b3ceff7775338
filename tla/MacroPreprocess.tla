-------------------------- MODULE MacroPreprocess --------------------------
(***************************************************************************)
(* The macro expansion of the Lurk preprocessor                           *)
(* (src/zk/lurk/macros/preprocessor.go): preProcess, which closes the     *)
(* scopes nested macros open, and the expansion passes it runs in order:  *)
(* def, defrec, defun, assert, assert-eq, list, param.                    *)
(*                                                                         *)
(* A program is a sequence of tokens: "(" and ")", a macro opener such as *)
(* "!def" for the text "!(def", words, the comment opener ";;" and the    *)
(* line break "\n" that ends a comment.  Spaces only separate tokens, so  *)
(* a scanner loop that stops at a space stops at the end of a word, and   *)
(* one that stops at ')' stops at the next ")" token.  The                *)
(* Parser (Peek, Consume, ReadUntil, ParseSExpr), IsMacro, IsNested and   *)
(* IsValidLurk live outside src/ and are modelled from their use here.    *)
(***************************************************************************)
EXTENDS Integers, Sequences, SequencesExt

CONSTANTS Programs      \* the token sequences to preprocess

VARIABLES
    program,
    removeComments, \* the MacroPreprocessor's option
    result

vars == <<program, removeComments, result>>

MacroToks == {"!def", "!defrec", "!defun", "!assert", "!asserteq", "!list", "!param"}

\* IsMacro(...) && IsNested(): the macros whose expansion leaves one list
\* open, "(let ((x v))", "(letrec ...", "(if (eq v nil) nil", to be closed
\* where the enclosing list closes.
NestedToks == {"!def", "!defrec", "!defun", "!assert", "!asserteq"}

Opens(t) == t = "(" \/ t \in MacroToks

Drop(s, k) == SubSeq(s, k + 1, Len(s))

Closers(k) == [j \in 1..k |-> ")"]

(***************************************************************************)
(* Parser helpers.                                                         *)
(***************************************************************************)

\* ParseSExpr at an opener: the length of the balanced expression.
RECURSIVE SExprEnd(_, _, _)
SExprEnd(s, j, depth) ==
    IF j > Len(s) THEN Len(s)
    ELSE LET d == IF Opens(s[j]) THEN depth + 1
                  ELSE IF s[j] = ")" THEN depth - 1 ELSE depth
         IN  IF d = 0 THEN j ELSE SExprEnd(s, j + 1, d)

SExpr(s) == SubSeq(s, 1, SExprEnd(s, 1, 0))

\* The number of tokens before the next ")" (a scan "until ')'").
UntilClose(s) ==
    IF \E j \in 1..Len(s) : s[j] = ")"
    THEN (CHOOSE j \in 1..Len(s) : s[j] = ")" /\ \A k \in 1..(j - 1) : s[k] # ")") - 1
    ELSE Len(s)

\* p.ReadUntil(')'); p.Consume(): what follows the next ")".
AfterClose(s) == Drop(s, UntilClose(s) + 1)

\* A macro argument: ParseSExpr when it starts with '(', otherwise every
\* character up to the next ')'.
Arg(s) == IF s # <<>> /\ Head(s) = "(" THEN SExpr(s) ELSE SubSeq(s, 1, UntilClose(s))

(***************************************************************************)
(* removeComments: bufio.Scanner splits the text into lines (no final     *)
(* empty line); a line whose first token is ";;" is dropped, every other  *)
(* line is written followed by "\n".  A comment after code on its line    *)
(* stays.                                                                  *)
(***************************************************************************)
RECURSIVE Lines(_)
Lines(s) ==
    IF s = <<>> THEN <<>>
    ELSE LET k == SelectInSeq(s, LAMBDA t : t = "\n")
             n == IF k = 0 THEN Len(s) + 1 ELSE k
         IN  <<SubSeq(s, 1, n - 1)>> \o Lines(Drop(s, n))

CommentLine(line) == line # <<>> /\ Head(line) = ";;"

\* Mutant of RemoveComments: a line is dropped when it holds ";;" anywhere
\* (strings.Contains for strings.HasPrefix).
RemoveCommentsAnywhere(s) ==
    FoldRight(LAMBDA line, acc : (IF ";;" \in ToSet(line) THEN <<>> ELSE line \o <<"\n">>) \o acc,
              Lines(s), <<>>)

RemoveComments(s) ==
    FoldRight(LAMBDA line, acc : (IF CommentLine(line) THEN <<>> ELSE line \o <<"\n">>) \o acc,
              Lines(s), <<>>)

(***************************************************************************)
(* preProcess: copy the tokens, counting open parentheses; at a nested    *)
(* macro, note one more ")" owed when the list around it closes           *)
(* (parenthesesMap[openCount-1]++), and write the owed ")" after the ")"  *)
(* that brings openCount back to that level.  The lines are joined with  *)
(* "\n" (bufio.Scanner drops a final one), and a last line holds the ")" *)
(* owed at level -1 (top-level macros).                                    *)
(***************************************************************************)
Owe(pm, c) == (c :> (IF c \in DOMAIN pm THEN pm[c] + 1 ELSE 1)) @@ pm

RECURSIVE CloseScopes(_, _, _), CloseScopesAtOwnLevel(_, _, _)

\* Mutant of CloseScopes: the ")" owed at the macro's own level
\* (parenthesesMap[openCount]++) instead of the enclosing one.
CloseScopesAtOwnLevel(s, open, pm) ==
    IF s = <<>>
    THEN <<"\n">> \o (IF -1 \in DOMAIN pm THEN Closers(pm[-1]) ELSE <<>>)
    ELSE LET t == Head(s) IN
         CASE s = <<"\n">> -> CloseScopesAtOwnLevel(<<>>, open, pm)
           [] t = ")" ->
                LET c == open - 1 IN
                <<t>> \o (IF c \in DOMAIN pm THEN Closers(pm[c]) ELSE <<>>)
                      \o CloseScopesAtOwnLevel(Tail(s), c, [x \in DOMAIN pm \ {c} |-> pm[x]])
           [] t \in NestedToks -> <<t>> \o CloseScopesAtOwnLevel(Tail(s), open + 1, Owe(pm, open))
           [] Opens(t) -> <<t>> \o CloseScopesAtOwnLevel(Tail(s), open + 1, pm)
           [] OTHER -> <<t>> \o CloseScopesAtOwnLevel(Tail(s), open, pm)

CloseScopes(s, open, pm) ==
    IF s = <<>>
    THEN <<"\n">> \o (IF -1 \in DOMAIN pm THEN Closers(pm[-1]) ELSE <<>>)
    ELSE LET t == Head(s) IN
         CASE s = <<"\n">> -> CloseScopes(<<>>, open, pm)
           [] t = ")" ->
                LET c == open - 1 IN
                <<t>> \o (IF c \in DOMAIN pm THEN Closers(pm[c]) ELSE <<>>)
                      \o CloseScopes(Tail(s), c, [x \in DOMAIN pm \ {c} |-> pm[x]])
           [] t \in NestedToks -> <<t>> \o CloseScopes(Tail(s), open + 1, Owe(pm, open - 1))
           [] Opens(t) -> <<t>> \o CloseScopes(Tail(s), open + 1, pm)
           [] OTHER -> <<t>> \o CloseScopes(Tail(s), open, pm)

PreProcessClose(s) == CloseScopes(s, 0, <<>>)

(***************************************************************************)
(* macroExpandDef and macroExpandDefrec: "!(def x v)" becomes             *)
(* "(let ((x v))", "!(defrec x v)" becomes "(letrec ((x v))".  One pass   *)
(* copies the value unexpanded; the pass is repeated while the program    *)
(* still contains the macro.                                               *)
(***************************************************************************)
Binder(kw) == IF kw = "!def" THEN "let" ELSE "letrec"

RECURSIVE DefPass(_, _)
DefPass(kw, s) ==
    IF s = <<>> THEN <<>>
    ELSE IF Head(s) # kw THEN <<Head(s)>> \o DefPass(kw, Tail(s))
    ELSE LET name == s[2]
             v    == Arg(Drop(s, 2))
         IN  <<"(", Binder(kw), "(", "(", name>> \o v \o <<")", ")">>
             \o DefPass(kw, AfterClose(Drop(s, 2 + Len(v))))

RECURSIVE DefLoop(_, _)
DefLoop(kw, s) == IF kw \in ToSet(s) THEN DefLoop(kw, DefPass(kw, s)) ELSE s

(***************************************************************************)
(* macroExpandDefun: "!(defun f (params) body)" becomes                   *)
(* "(letrec ((f (lambda (params) body)))", the outer parentheses of the   *)
(* body dropped when, without its comment lines and whitespace, it starts *)
(* with "((" or "(!(".  Repeated like def.                                 *)
(***************************************************************************)
DefunBody(b) ==
    LET c == RemoveComments(Remove(RemoveComments(b), "\n"))
    IN  IF Len(b) >= 2 /\ Opens(c[2]) THEN SubSeq(b, 2, Len(b) - 1) ELSE b

RECURSIVE DefunPass(_)
DefunPass(s) ==
    IF s = <<>> THEN <<>>
    ELSE IF Head(s) # "!defun" THEN <<Head(s)>> \o DefunPass(Tail(s))
    ELSE LET name   == s[2]
             params == SExpr(Drop(s, 2))
             body   == SExpr(Drop(s, 2 + Len(params)))
         IN  <<"(", "letrec", "(", "(", name, "(", "lambda">> \o params
             \o DefunBody(body) \o <<")", ")", ")">>
             \o DefunPass(AfterClose(Drop(s, 2 + Len(params) + Len(body))))

RECURSIVE DefunLoop(_)
DefunLoop(s) == IF "!defun" \in ToSet(s) THEN DefunLoop(DefunPass(s)) ELSE s

(***************************************************************************)
(* macroExpandAssert and macroExpandAssertEq, one pass each:              *)
(* "!(assert v)" becomes "(if (eq v nil) nil" and "!(assert-eq a b)"      *)
(* becomes "(if (eq (eq a b) nil) nil".                                    *)
(***************************************************************************)
RECURSIVE AssertPass(_)
AssertPass(s) ==
    IF s = <<>> THEN <<>>
    ELSE IF Head(s) # "!assert" THEN <<Head(s)>> \o AssertPass(Tail(s))
    ELSE LET v == Arg(Tail(s))
         IN  <<"(", "if", "(", "eq">> \o v \o <<"nil", ")", "nil">>
             \o AssertPass(AfterClose(Drop(s, 1 + Len(v))))

RECURSIVE AssertEqPass(_)
AssertEqPass(s) ==
    IF s = <<>> THEN <<>>
    ELSE IF Head(s) # "!asserteq" THEN <<Head(s)>> \o AssertEqPass(Tail(s))
    ELSE LET a == Arg(Tail(s))
             b == Arg(Drop(s, 1 + Len(a)))
         IN  <<"(", "if", "(", "eq", "(", "eq">> \o a \o b \o <<")", "nil", ")", "nil">>
             \o AssertEqPass(AfterClose(Drop(s, 1 + Len(a) + Len(b))))

(***************************************************************************)
(* macroExpandList: "!(list e1 ... en)" becomes                           *)
(* "(cons e1 (cons ... (cons en nil)))", or "nil" for no element.  An     *)
(* element is ParseSExpr at '(' and otherwise a word up to ' ' or ')'.   *)
(* Repeated while the program contains the macro.                         *)
(***************************************************************************)
RECURSIVE ListElems(_)
ListElems(s) ==
    IF s = <<>> \/ Head(s) = ")" THEN <<>>
    ELSE LET e == IF Head(s) = "(" THEN SExpr(s) ELSE <<Head(s)>>
         IN  <<e>> \o ListElems(Drop(s, Len(e)))

\* buildConsList
RECURSIVE ConsList(_)
ConsList(es) ==
    IF es = <<>> THEN <<"nil">>
    ELSE <<"(", "cons">> \o Head(es) \o ConsList(Tail(es)) \o <<")">>

RECURSIVE ListPass(_)
ListPass(s) ==
    IF s = <<>> THEN <<>>
    ELSE IF Head(s) # "!list" THEN <<Head(s)>> \o ListPass(Tail(s))
    ELSE LET es   == ListElems(Tail(s))
             used == FoldSeq(LAMBDA e, n : Len(e) + n, 0, es)
         IN  ConsList(es) \o ListPass(AfterClose(Drop(s, 1 + used)))

RECURSIVE ListLoop(_)
ListLoop(s) == IF "!list" \in ToSet(s) THEN ListLoop(ListPass(s)) ELSE s

(***************************************************************************)
(* macroExpandParam, one pass.  Every accessor it writes has the shape    *)
(* "(car " + k times "(cdr " + e + k+1 times ")": element k of list e.     *)
(* A paramMap name is element k of public-params.  nullifiers, priv-in,   *)
(* priv-out and pub-out name a list; the index after them selects an      *)
(* element, and for the last three a sub-param after the index selects a  *)
(* field of it through inputMap, outputMap or pubOutMap (an unknown       *)
(* sub-param selects the whole element).  An unknown name is kept as       *)
(* "!(param<name>)".  An index strconv.Atoi rejects makes the whole pass  *)
(* return "".                                                              *)
(***************************************************************************)
\* The numeral tokens the programs use; strconv.Atoi rejects any other.
Numerals == {"0", "1", "2"}
NumeralValue(t) == CASE t = "0" -> 0 [] t = "1" -> 1 [] t = "2" -> 2

\* paramMap, inputMap, outputMap and pubOutMap: each entry is the k of its
\* "(car (cdr^k ...))" string.
ParamMap == "sighash" :> 0 @@ "txo-root" :> 2 @@ "fee" :> 3 @@ "coinbase" :> 4
            @@ "mint-id" :> 5 @@ "mint-amount" :> 6 @@ "locktime" :> 8
            @@ "locktime-precision" :> 9
InputMap == "amount" :> 0 @@ "asset-id" :> 1 @@ "salt" :> 2 @@ "state" :> 3
            @@ "commitment-index" :> 4 @@ "inclusion-proof" :> 5 @@ "script" :> 6
            @@ "locking-params" :> 7 @@ "unlocking-params" :> 8
OutputMap == "script-hash" :> 0 @@ "amount" :> 1 @@ "asset-id" :> 2 @@ "salt" :> 3
             @@ "state" :> 4
PubOutMap == "commitment" :> 0 @@ "ciphertext" :> 1

Cdrs(k) == [j \in 1..(2 * k) |-> IF j % 2 = 1 THEN "(" ELSE "cdr"]

\* Mutant of CarCdr: the closing loop runs idx times instead of idx+1.
CarCdrShort(k, e) == <<"(", "car">> \o Cdrs(k) \o e \o Closers(k)

\* The string the code concatenates for element k of e.
CarCdr(k, e) == <<"(", "car">> \o Cdrs(k) \o e \o Closers(k + 1)

PublicParams == <<"public-params">>
PrivateParams == <<"private-params">>

\* The list each list-valued param reads, and the map of its sub-params.
ListParam == "nullifiers" :> CarCdr(1, PublicParams) @@ "priv-in" :> CarCdr(0, PrivateParams)
             @@ "priv-out" :> CarCdr(1, PrivateParams) @@ "pub-out" :> CarCdr(7, PublicParams)
SubParamMap == "priv-in" :> InputMap @@ "priv-out" :> OutputMap @@ "pub-out" :> PubOutMap

\* A word up to ' ' or ')': the next token unless it is ")".
Word(q) == IF q # <<>> /\ Head(q) # ")" THEN <<Head(q)>> ELSE <<>>

\* The text one param macro expands to, given its name, its index and its
\* sub-param: a field of a list element, the element itself when the field
\* is missing or unknown, a public param, or the macro kept as it was.
ParamExpansion(name, index, sub) ==
    LET elem == CarCdr(NumeralValue(index[1]), ListParam[name])
    IN  CASE name \in DOMAIN SubParamMap ->
               IF sub # <<>> /\ sub[1] \in DOMAIN SubParamMap[name]
               THEN CarCdr(SubParamMap[name][sub[1]], elem)
               ELSE elem
          [] name = "nullifiers"      -> elem
          [] name \in DOMAIN ParamMap -> CarCdr(ParamMap[name], PublicParams)
          [] OTHER                    -> <<"!param", name, ")">>

\* The index of nullifiers is read up to ')', that of the other lists up
\* to ' ' or ')'; p.ReadUntil(')') then skips whatever is left.
RECURSIVE ParamPass(_)
ParamPass(s) ==
    IF s = <<>> THEN [ok |-> TRUE, out |-> <<>>]
    ELSE IF Head(s) # "!param"
    THEN LET r == ParamPass(Tail(s)) IN [r EXCEPT !.out = <<Head(s)>> \o @]
    ELSE LET name  == s[2]
             rest  == Drop(s, 2)
             index == IF name = "nullifiers" THEN SubSeq(rest, 1, UntilClose(rest))
                      ELSE Word(rest)
             r     == ParamPass(AfterClose(rest))
         IN  CASE name \in DOMAIN ListParam /\ ~(Len(index) = 1 /\ index[1] \in Numerals) ->
                    [ok |-> FALSE, out |-> <<>>]
               [] ~r.ok -> r
               [] OTHER -> [ok |-> TRUE,
                            out |-> ParamExpansion(name, index, Word(Drop(rest, Len(index))))
                                    \o r.out]

(***************************************************************************)
(* preProcess: close the scopes, then run the expansions in the order of  *)
(* its loop over Def, Defrec, Defun, Assert, AssertEq, List, Param.       *)
(***************************************************************************)
PreProcess(s) ==
    LET params == ParamPass(ListLoop(AssertEqPass(AssertPass(DefunLoop(
                       DefLoop("!defrec", DefLoop("!def", PreProcessClose(s))))))))
    IN  IF params.ok THEN params.out ELSE <<>>

\* IsValidLurk: the parentheses match.
RECURSIVE Depths(_, _)
Depths(s, d) ==
    IF s = <<>> THEN d = 0
    ELSE LET d2 == IF Opens(Head(s)) THEN d + 1 ELSE IF Head(s) = ")" THEN d - 1 ELSE d
         IN  d2 >= 0 /\ Depths(Tail(s), d2)

IsValidLurk(s) == Depths(s, 0)

(***************************************************************************)
(* Preprocess for a program without imports: preProcess, removeComments  *)
(* when the option is set, and the parenthesis check.                     *)
(***************************************************************************)
Init ==
    /\ program \in Programs
    /\ removeComments \in BOOLEAN
    /\ result = [err |-> "pending", out |-> <<>>]

Preprocess ==
    /\ result.err = "pending"
    /\ result' = LET pre == PreProcess(program)
                     out == IF removeComments THEN RemoveComments(pre) ELSE pre
                 IN  IF IsValidLurk(out) THEN [err |-> "none", out |-> out]
                     ELSE [err |-> "mismatch", out |-> <<>>]
    /\ UNCHANGED <<program, removeComments>>

Done == result.err # "pending" /\ UNCHANGED vars

Next == Preprocess \/ Done

Spec == Init /\ [][Next]_vars

(***************************************************************************)
(* Reference: the program read as a tree, each macro expanded where it    *)
(* stands, a nested macro's scope running to the end of the list around   *)
(* it (or of the program).                                                 *)
(***************************************************************************)
RECURSIVE ParseForms(_)
ParseForms(s) ==
    IF s = <<>> \/ Head(s) = ")" THEN [forms |-> <<>>, rest |-> s]
    ELSE LET t == Head(s) IN
         IF Opens(t)
         THEN LET inner == ParseForms(Tail(s))
                  node  == [k |-> IF t = "(" THEN "list" ELSE t, kids |-> inner.forms]
                  r     == ParseForms(Drop(inner.rest, 1))
              IN  [forms |-> <<node>> \o r.forms, rest |-> r.rest]
         ELSE LET r == ParseForms(Tail(s))
              IN  [forms |-> <<[k |-> "word", w |-> t, kids |-> <<>>]>> \o r.forms,
                   rest |-> r.rest]

\* (nth i e) spelled with car and cdr: take the cdr i times, then the car.
RECURSIVE NthRef(_, _)
NthRef(i, e) ==
    IF i = 0 THEN <<"(", "car">> \o e \o <<")">>
    ELSE NthRef(i - 1, <<"(", "cdr">> \o e \o <<")">>)

\* What a param macro denotes: a public param; or element i of the
\* nullifiers (public param 1), the private inputs (private param 0), the
\* private outputs (private param 1) or the public outputs (public param
\* 7), and optionally one field of that element.
ParamRef(ws) ==
    LET name == ws[1]
        list == CASE name = "nullifiers" -> NthRef(1, PublicParams)
                  [] name = "priv-in"    -> NthRef(0, PrivateParams)
                  [] name = "priv-out"   -> NthRef(1, PrivateParams)
                  [] name = "pub-out"    -> NthRef(7, PublicParams)
        elem == NthRef(NumeralValue(ws[2]), list)
    IN  CASE name \in DOMAIN ParamMap -> NthRef(ParamMap[name], PublicParams)
          [] Len(ws) = 3 -> NthRef(SubParamMap[name][ws[3]], elem)
          [] OTHER -> elem

\* The forms of a list without its comments: a ";;" word and every form
\* after it up to the "\n" word that ends the line.
RECURSIVE Uncommented(_)
Uncommented(fs) ==
    IF fs = <<>> THEN <<>>
    ELSE IF Head(fs).k = "word" /\ Head(fs).w = ";;"
    THEN LET k == SelectInSeq(fs, LAMBDA f : f.k = "word" /\ f.w = "\n")
         IN  IF k = 0 THEN <<>> ELSE Uncommented(Drop(fs, k))
    ELSE <<Head(fs)>> \o Uncommented(Tail(fs))

\* The program without its comment lines: a ";;" that starts a line, up to
\* and with the "\n" that ends the line.
RECURSIVE Uncomment(_, _)
Uncomment(s, bol) ==
    IF s = <<>> THEN <<>>
    ELSE IF bol /\ Head(s) = ";;"
    THEN LET k == SelectInSeq(s, LAMBDA t : t = "\n")
         IN  IF k = 0 THEN <<>> ELSE Uncomment(Drop(s, k), TRUE)
    ELSE <<Head(s)>> \o Uncomment(Tail(s), Head(s) = "\n")

RECURSIVE Ref(_), RefSeq(_)

\* What a nested macro opens.
Open(f) ==
    LET a == f.kids IN
    CASE f.k \in {"!def", "!defrec"} ->
             <<"(", Binder(f.k), "(", "(">> \o Ref(a[1]) \o Ref(a[2]) \o <<")", ")">>
      [] f.k = "!defun" ->
             <<"(", "letrec", "(", "(">> \o Ref(a[1]) \o <<"(", "lambda">> \o Ref(a[2])
             \o (IF Uncommented(a[3].kids) # <<>> /\ Uncommented(a[3].kids)[1].k # "word"
                 THEN RefSeq(a[3].kids) ELSE Ref(a[3]))
             \o <<")", ")", ")">>
      [] f.k = "!assert" ->
             <<"(", "if", "(", "eq">> \o Ref(a[1]) \o <<"nil", ")", "nil">>
      [] f.k = "!asserteq" ->
             <<"(", "if", "(", "eq", "(", "eq">> \o Ref(a[1]) \o Ref(a[2])
             \o <<")", "nil", ")", "nil">>

Ref(f) ==
    CASE f.k = "word"   -> <<f.w>>
      [] f.k = "list"   -> <<"(">> \o RefSeq(f.kids) \o <<")">>
      [] f.k = "!list"  -> IF f.kids = <<>> THEN <<"nil">>
                           ELSE ConsList([j \in 1..Len(f.kids) |-> Ref(f.kids[j])])
      [] f.k = "!param" -> ParamRef([j \in 1..Len(f.kids) |-> f.kids[j].w])
      [] OTHER -> <<>>

RefSeq(fs) ==
    IF fs = <<>> THEN <<>>
    ELSE IF Head(fs).k \in NestedToks
         THEN Open(Head(fs)) \o RefSeq(Tail(fs)) \o <<")">>
         ELSE Ref(Head(fs)) \o RefSeq(Tail(fs))

Reference(s) == RefSeq(ParseForms(s).forms)

(***************************************************************************)
(* Properties.                                                             *)
(***************************************************************************)

\* Preprocess accepts a program of the macro forms the Lurk scripts use and
\* returns its expansion: every macro replaced where it stands, and every
\* scope a def, defrec, defun, assert or assert-eq opens closed exactly
\* where the list around it closes (preProcess's parenthesesMap); a defun
\* body that starts with a list, comments aside, loses its outer
\* parentheses; with the removeComments option every comment line is gone
\* and nothing else.  Line breaks are layout and not compared.
ExpansionMatchesReference ==
    result.err # "pending" =>
        /\ result.err = "none"
        /\ Remove(result.out, "\n")
             = Remove(Reference(IF removeComments THEN Uncomment(program, TRUE) ELSE program), "\n")

\* "preProcess ... expands all the macros": an accepted program keeps no
\* macro.
MacrosExpanded ==
    result.err = "none" => \A j \in 1..Len(result.out) : result.out[j] \notin MacroToks

\* Preprocess never turns a non-empty program into an empty one without
\* an error.
ProgramNotErased ==
    result.err = "none" /\ program # <<>> => result.out # <<>>
=============================================================================
