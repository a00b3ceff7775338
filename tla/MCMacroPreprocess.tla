------------------------- MODULE MCMacroPreprocess -------------------------
(***************************************************************************)
(* Token programs for MacroPreprocess, built from the macro forms the     *)
(* repository's Lurk scripts use (multisig_script.lurk: defs in a lambda, *)
(* a def of a param, a defun with a list body), and from forms whose     *)
(* arguments the scanner reads differently; comment lines, on their own  *)
(* line and after code in a defun body.                                   *)
(***************************************************************************)
EXTENDS MacroPreprocess, TLC

W == <<"x">>
L == <<"(", "f", "x", ")">>
LL == <<"(", "(", "f", "a", ")", ")">>
Def(b)       == <<"!def", "v">> \o b \o <<")">>
Defrec(b)    == <<"!defrec", "r">> \o b \o <<")">>
Defun(b)     == <<"!defun", "g", "(", "a", ")">> \o b \o <<")">>
AssertForm(b)    == <<"!assert">> \o b \o <<")">>
AssertEq(a, b) == <<"!asserteq">> \o a \o b \o <<")">>
List(es)     == <<"!list">> \o es \o <<")">>
Param        == <<"!param", "sighash", ")">>
Nullifier(i) == <<"!param", "nullifiers", i, ")">>
TxoRoot      == <<"!param", "txo-root", ")">>
PrivIn       == <<"!param", "priv-in", "1", "amount", ")">>
PrivOut      == <<"!param", "priv-out", "0", ")">>
PubOut       == <<"!param", "pub-out", "2", "ciphertext", ")">>
InList(f)    == <<"(", "h">> \o f \o <<"y", ")">>
Lambda(fs)   == <<"(", "lambda">> \o fs \o <<")">>
Comment(c)   == <<";;">> \o c \o <<"\n">>

\* The forms the scripts use, with list and macro arguments.
ScriptForms ==
    { Def(W), Def(L), Def(Param), Defrec(L), Defun(L), Defun(LL),
      Defun(<<"(">> \o Def(W) \o <<"v", ")">>),
      Def(InList(AssertForm(L))),
      AssertForm(L), AssertEq(L, L),
      List(<<"x", "y">>), List(L \o W), List(<<>>), List(InList(List(W))),
      Param, Nullifier("1"), TxoRoot, PrivIn, PrivOut, Def(PubOut), L,
      Comment(<<"note">>), Comment(L), Defun(<<"(">> \o L \o Comment(W) \o <<")">>) }

\* One or two forms, at the top level, in a lambda, or in a list in a
\* lambda.
ProgramsOf(forms) ==
    LET seqs == {<<f>> : f \in forms} \cup {<<f, g>> : f, g \in forms}
        flat(fs) == FoldRight(LAMBDA f, acc : f \o acc, fs, <<>>)
    IN  UNION {{flat(fs), Lambda(flat(fs)), Lambda(InList(flat(fs)))} : fs \in seqs}

ScriptPrograms == ProgramsOf(ScriptForms)

NestedAssertPrograms == ProgramsOf({AssertForm(InList(AssertForm(L))), L})
ListMacroPrograms    == ProgramsOf({List(Param), L})
AssertEqWordPrograms == ProgramsOf({AssertEq(W, L), L})
BadIndexPrograms     == ProgramsOf({Nullifier("z"), L})
=============================================================================
