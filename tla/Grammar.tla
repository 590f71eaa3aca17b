------------------------------- MODULE Grammar -------------------------------
(***************************************************************************)
(* The recursive-descent rules of lib/Parse, as data.  A rule is a sequence *)
(* of the things a parse function does, in its order; a function that only  *)
(* looks at the next token to pick another is a case of Choice.  A failing  *)
(* step makes the function return nullptr (or false), unless said otherwise.*)
(*                                                                          *)
(* A token is its kind.  Kinds that no parse function tells apart, but for  *)
(* the node it builds or a warning, share a name: "param" is param_int and  *)
(* param_str; "input" also output and inout; "func_in" also func_out;       *)
(* "interface" also simulation; "func" also function; "lit" every literal   *)
(* and system variable; "++" also "--"; "_task" the system tasks but _init  *)
(* and _delay; "other" whatever starts nothing.  Of the operators, "+" is   *)
(* those both prefix and infix, "~" the prefix ones, "*" and "||" the infix *)
(* ones of and below multiplicative level: between levels only the grouping *)
(* changes, never which token is accepted.                                  *)
(***************************************************************************)
EXTENDS Naturals, Sequences, TLC

InternalDeclStart == {"wire", "reg", "func_self", "proc_name", "state_name",
                      "first_state", "mem", "integer", "variable"}

IdentifierLike == {"id", "label"}

Keyword == InternalDeclStart \cup
  {"struct", "param", "declare", "module", "interface", "input", "func_in", "func",
   "proc", "state", "label_name", "alt", "any", "seq", "while", "for", "if", "else",
   "generate", "return", "goto", "finish", "invoke", "_init", "_delay", "_task"}

Punctuation == {"{", "}", "(", ")", "[", "]", ";", ",", ":", ".", ".{", "=", ":=",
                "++", "+", "~", "*", "||", "?", "#", "'"}

Kind == Keyword \cup Punctuation \cup IdentifierLike \cup {"lit", "line", "other", "eof"}

(* Recovery.h: the four recovery sets.                                      *)
kTopLevel == {"struct", "declare", "module", "param", "eof"}

kDeclareItem == {";", "}"}

kModuleItem == {";", "}", "func", "proc", "state"} \cup InternalDeclStart

kSeqItem == {";", "}", "if", "for", "while", "goto", "return"}

----------------------------------------------------------------------------
(* What a parse function can do.                                            *)

(* expect(), or a consume() of a token already looked at                    *)
Expect(K) == [op |-> "expect", on |-> K]

Tok(k) == Expect({k})

(* call `yes` when the next token is in K and `no` otherwise                *)
If(K, yes, no) == [op |-> "call", on |-> K, yes |-> yes, no |-> no, floor |-> 0]

Opt(k, r) == If({k}, r, "none")

Parse(r) == If({}, r, r)

ExprAt(floor) == [op |-> "call", on |-> {}, yes |-> "expr", no |-> "expr", floor |-> floor]

Expr == ExprAt(0)

(* call r as long as the next token is in K                                 *)
Many(K, r) == [op |-> "many", on |-> K, yes |-> r]

(* call r if the next token is in K; its failure is not looked at           *)
Try(K, r) == [op |-> "try", on |-> K, yes |-> r]

(* an error reported although the function goes on                          *)
Report == [op |-> "report"]

(* the loop over the items of a block                                       *)
Items == [op |-> "items"]

(* pendingExtraDecls_.push_back, and the caller's drainPendingDecls         *)
Defer == [op |-> "defer"]

Drain == [op |-> "drain"]

----------------------------------------------------------------------------
(* Parser.cpp                                                               *)

UnitRules ==
  [unit       |-> <<Items>>,
   scopedName |-> <<Expect(IdentifierLike), Parse("scopedTail")>>,
   scopedPart |-> <<Tok("."), Expect(IdentifierLike \cup {"invoke", "finish"}),
                    Parse("scopedTail")>>]

(* ParseDecl.cpp                                                            *)

StructRules ==
  [structDecl |-> <<Tok("struct"), Tok("id"), Tok("{"), Items, Tok("}"), Tok(";")>>,
   member     |-> <<Tok("id"), Opt("[", "width"), Tok(";")>>,
   width      |-> <<Tok("["), Expr, Tok("]")>>]

ParamRules ==
  [topLevelParam |-> <<Tok("param"), Tok("id"), Tok("="), Expr, Tok(";")>>]

(* The modifier comes before or after the name.  A bad modifier argument is *)
(* reported, but consumeModifierWithArgs still returns true.                *)
DeclareRules ==
  [declareBlock |-> <<Tok("declare"), If({"interface"}, "modifierName", "nameModifier"),
                      Tok("{"), Items, Tok("}")>>,
   modifierName |-> <<Parse("modifier"), Opt("id", "name")>>,
   nameModifier |-> <<Opt("id", "name"), Opt("interface", "modifier")>>,
   name         |-> <<Tok("id")>>,
   modifier     |-> <<Tok("interface"), Try({"("}, "modifierArgs")>>,
   modifierArgs |-> <<Tok("("), If({")", "eof"}, "none", "modifierArg"), Tok(")")>>,
   modifierArg  |-> <<Tok("id"), Tok("="), Tok("id"), Opt(",", "modifierMore")>>,
   modifierMore |-> <<Tok(","), If({")", "eof"}, "none", "modifierArg")>>]

DeclareItemRules ==
  [paramNames |-> <<Tok("param"), Parse("idList"), Tok(";")>>,
   idList     |-> <<Tok("id"), Many({","}, "commaId")>>,
   commaId    |-> <<Tok(","), Tok("id")>>,
   ports      |-> <<Expect({"input", "wire"}), Parse("signal"), Many({","}, "commaSignal"),
                    Tok(";")>>,
   signal     |-> <<Tok("id"), Opt("[", "width")>>,
   commaSignal |-> <<Tok(","), Parse("signal")>>,
   control    |-> <<Expect({"func_in", "func_self"}), Tok("id"), Opt("(", "dummyArgs"),
                    Opt(":", "returnTerminal"), Tok(";")>>,
   dummyArgs  |-> <<Tok("("), If({")"}, "none", "idList"), Tok(")")>>,
   returnTerminal |-> <<Tok(":"), Tok("id")>>]

ModuleRules ==
  [moduleBlock |-> <<Tok("module"), Tok("id"), Tok("{"), Items, Tok("}")>>,
   declItem    |-> <<Parse("internalDecl"), Drain>>]

(* A wire's initializer is parsed, its failure ignored, and always reported.*)
WireRules ==
  [wireDecl  |-> <<Tok("wire"), Expect(IdentifierLike), Opt("[", "width"),
                   Opt("=", "wireInit"), Many({","}, "commaWire"), Tok(";")>>,
   wireInit  |-> <<Tok("="), Try(Kind, "expr"), Report>>,
   commaWire |-> <<Tok(","), Expect(IdentifierLike), Opt("[", "width"),
                   Opt("=", "wireInit"), Defer>>]

RegRules ==
  [regDecl  |-> <<Tok("reg"), Tok("id"), Opt("[", "width"), Opt("=", "init"),
                  Many({","}, "commaReg"), Tok(";")>>,
   init     |-> <<Tok("="), Expr>>,
   commaReg |-> <<Tok(","), Tok("id"), Opt("[", "width"), Opt("=", "init"), Defer>>]

NameRules ==
  [procName       |-> <<Tok("proc_name"), Parse("procDeclarator"), Many({","}, "commaProc"),
                        Tok(";")>>,
   procDeclarator |-> <<Tok("id"), Opt("(", "dummyArgs")>>,
   commaProc      |-> <<Tok(","), Parse("procDeclarator")>>,
   stateName      |-> <<Tok("state_name"), Parse("idList"), Tok(";")>>,
   firstState     |-> <<Tok("first_state"), Tok("id"), Tok(";")>>]

StorageRules ==
  [memDecl       |-> <<Tok("mem"), Tok("id"), Parse("width"), Parse("width"),
                       Opt("=", "memInit"), Tok(";")>>,
   memInit       |-> <<Tok("="), Parse("braceInit")>>,
   braceInit     |-> <<Tok("{"), If({"}"}, "none", "exprList"), Tok("}")>>,
   integerDecl   |-> <<Tok("integer"), Tok("id"), Many({","}, "commaInteger"), Tok(";")>>,
   commaInteger  |-> <<Tok(","), Tok("id"), Defer>>,
   variableDecl  |-> <<Tok("variable"), Tok("id"), Opt("[", "width"),
                       Many({","}, "commaVariable"), Tok(";")>>,
   commaVariable |-> <<Tok(","), Tok("id"), Opt("[", "width"), Defer>>]

StructInstRules ==
  [instance         |-> <<Tok("id"), Parse("instanceTail")>>,
   structInst       |-> <<Expect({"reg", "wire"}), Parse("structDeclarator"),
                          Many({","}, "commaStruct"), Tok(";")>>,
   structDeclarator |-> <<Tok("id"), Opt("[", "width"), Opt("=", "structInit")>>,
   structInit       |-> <<Tok("="), If({"{"}, "braceInit", "expr")>>,
   commaStruct      |-> <<Tok(","), Parse("structDeclarator")>>]

(* The parameters of the second and later instances are skipped unread.     *)
SubmoduleRules ==
  [submodule    |-> <<Tok("id"), Opt("[", "width"), Opt("(", "paramAssigns"),
                      Many({","}, "commaSub"), Tok(";")>>,
   paramAssigns |-> <<Tok("("), If({")"}, "none", "paramAssign"), Tok(")")>>,
   paramAssign  |-> <<Tok("id"), Tok("="), Expr, Many({","}, "commaAssign")>>,
   commaAssign  |-> <<Tok(","), Tok("id"), Tok("="), Expr>>,
   commaSub     |-> <<Tok(","), Tok("id"), Opt("[", "width"), Opt("(", "skipParens")>>,
   skipParens   |-> <<Tok("("), Many(Kind \ {")", "eof"}, "anyToken"), Tok(")")>>,
   anyToken     |-> <<Expect(Kind \ {"eof"})>>]

DefnRules ==
  [funcDefn  |-> <<Tok("func"), Parse("scopedName"), Parse("action")>>,
   procDefn  |-> <<Tok("proc"), Tok("id"), Parse("action")>>,
   stateDefn |-> <<Tok("state"), Tok("id"), Parse("action")>>]

(* ParseStmt.cpp                                                            *)

LabelNameRules ==
  [labelName |-> <<Tok("label_name"), Parse("idList"), Tok(";")>>]

LValueRules ==
  [prefixIncDec   |-> <<Tok("++"), Parse("nud"), Parse("postfix"), Tok(";")>>,
   labeled        |-> <<Expect(IdentifierLike), Tok(":")>>,
   named          |-> <<Parse("scopedName"), If({"("}, "controlCall", "lvalue")>>,
   controlCall    |-> <<Tok("("), Parse("argumentList"), Tok(";")>>,
   lvalue         |-> <<Parse("postfix"), Parse("lvalueTail")>>,
   postfixIncDec  |-> <<Tok("++"), Tok(";")>>,
   transfer       |-> <<Expect({"=", ":="}), Expr, Tok(";")>>,
   concatTransfer |-> <<Expr, Parse("concatTail")>>]

ParallelBlock == <<Tok("{"), Items, Tok("}")>>

AltBlock == <<Tok("alt"), Tok("{"), Items, Tok("}")>>

AnyBlock == <<Tok("any"), Tok("{"), Items, Tok("}")>>

CaseRules ==
  [elseCase |-> <<Tok("else"), Tok(":"), Parse("action")>>,
   condCase |-> <<Expr, Tok(":"), Parse("action")>>]

SeqBlock == <<Tok("seq"), Tok("{"), Items, Tok("}")>>

WhileBlock == <<Tok("while"), Tok("("), Expr, Tok(")"), Tok("{"), Items, Tok("}")>>

ForRules ==
  [forBlock   |-> <<Tok("for"), Tok("("), If({"{"}, "parallelBlock", "forAssign"),
                    Parse("forHeader"), Tok(")"), Tok("{"), Items, Tok("}")>>,
   forAssign  |-> <<Tok("id"), Tok(":="), Expr>>,
   enumForm   |-> <<Tok(","), Expr>>,
   cForm      |-> <<Tok(";"), Expr, Tok(";"), If({"{"}, "parallelBlock", "forStep")>>,
   prefixStep |-> <<Tok("++"), Tok("id")>>,
   nameStep   |-> <<Tok("id"), If({"++"}, "increment", "forValue")>>,
   increment  |-> <<Tok("++")>>,
   forValue   |-> <<Tok(":="), Expr>>]

IfRules ==
  [ifStatement |-> <<Tok("if"), Tok("("), Expr, Tok(")"), Parse("action"),
                     Opt("else", "elseBranch")>>,
   elseBranch  |-> <<Tok("else"), Parse("action")>>]

StructuralGenerate ==
  <<Tok("generate"), Tok("("), Tok("id"), Tok("="), Expr, Tok(";"), Expr, Tok(";"),
    Tok("id"), Tok("="), Expr, Tok(")"), Parse("action")>>

JumpRules ==
  [returnStatement |-> <<Tok("return"), If({";"}, "none", "expr"), Tok(";")>>,
   gotoStatement   |-> <<Tok("goto"), Tok("id"), Tok(";")>>,
   finishStatement |-> <<Tok("finish"), Tok(";")>>,
   emptyStatement  |-> <<Tok(";")>>]

InitBlock == <<Tok("_init"), Tok("{"), Items, Tok("}")>>

TaskRules ==
  [delayTask  |-> <<Tok("_delay"), Tok("("), Expr, Tok(")"), Tok(";")>>,
   systemTask |-> <<Tok("_task"), Tok("("), Parse("argumentList"), Tok(";")>>]

(* ParseExpr.cpp                                                            *)

ArgumentRules ==
  [argumentList |-> <<If({")"}, "none", "exprList"), Tok(")")>>,
   exprList     |-> <<Expr, Many({","}, "commaExpr")>>,
   commaExpr    |-> <<Tok(","), Expr>>]

NudRules ==
  [leaf    |-> <<Expect(IdentifierLike \cup {"lit"})>>,
   paren   |-> <<Tok("("), Parse("parenTail")>>,
   grouped |-> <<Expr, Tok(")")>>,
   cast    |-> <<Tok("id"), Tok(")"), Tok("("), Expr, Tok(")"), Tok("."),
                 Expect(IdentifierLike), Many({"."}, "dotName")>>,
   dotName |-> <<Tok("."), Expect(IdentifierLike)>>,
   concat  |-> <<Expect({"{", ".{"}), If({"}"}, "none", "exprList"), Tok("}")>>,
   prefix  |-> <<Expect({"+", "~", "++"}), ExprAt(100)>>]

(* A conditional expression without `else` is reported and kept.            *)
IfExprRules ==
  [ifExpr      |-> <<Tok("if"), Tok("("), Expr, Tok(")"), ExprAt(10),
                     If({"else"}, "elseExpr", "missingElse")>>,
   elseExpr    |-> <<Tok("else"), ExprAt(10)>>,
   missingElse |-> <<Report>>]

PostfixRules ==
  [postfix |-> <<Many({"[", ".", "("}, "postfixPart")>>,
   slice   |-> <<Tok("["), Expr, Opt(":", "sliceLo"), Tok("]")>>,
   sliceLo |-> <<Tok(":"), Expr>>,
   call    |-> <<Tok("("), Parse("argumentList")>>]

(* PrecedenceTable.h: how tightly a token binds to the operand on its left  *)
Prec(k) ==
  CASE k = "?"            -> 5
    [] k = "||"           -> 10
    [] k = "+"            -> 90
    [] k \in {"*", "#", "'"} -> 100
    [] k = "++"           -> 110
    [] OTHER              -> 0

(* The Pratt loop: every operator form comes back to "led", which keeps the *)
(* floor of the expression it is part of.                                   *)
ExprRules ==
  [expr    |-> <<Parse("nud"), Parse("postfix"), Opt("{", "repeat"), Parse("led")>>,
   repeat  |-> <<Tok("{"), Expr, Tok("}")>>,
   ledSign |-> <<Tok("#"), Parse("nud"), Parse("postfix"), Parse("led")>>,
   ledZero |-> <<Tok("'"), Tok("("), Expr, Tok(")"), Parse("led")>>,
   ledInc  |-> <<Tok("++"), Parse("led")>>,
   ledCond |-> <<Tok("?"), ExprAt(5), Tok(":"), ExprAt(5), Parse("led")>>,
   ledOr   |-> <<Tok("||"), ExprAt(Prec("||") + 1), Parse("led")>>,
   ledAdd  |-> <<Tok("+"), ExprAt(Prec("+") + 1), Parse("led")>>,
   ledMul  |-> <<Tok("*"), ExprAt(Prec("*") + 1), Parse("led")>>]

OtherRules == StructRules @@ ParamRules @@ DeclareRules @@ DeclareItemRules
  @@ ModuleRules @@ WireRules @@ RegRules @@ NameRules @@ StorageRules
  @@ StructInstRules @@ SubmoduleRules @@ DefnRules @@ LabelNameRules @@ LValueRules
  @@ [parallelBlock |-> ParallelBlock, altBlock |-> AltBlock, anyBlock |-> AnyBlock,
      seqBlock |-> SeqBlock, whileBlock |-> WhileBlock, generate |-> StructuralGenerate,
      initBlock |-> InitBlock]
  @@ CaseRules @@ ForRules @@ IfRules @@ JumpRules @@ TaskRules @@ ArgumentRules
  @@ NudRules @@ IfExprRules @@ PostfixRules @@ ExprRules

Body ==
  [r \in DOMAIN UnitRules \cup DOMAIN OtherRules |->
     IF r \in DOMAIN UnitRules THEN UnitRules[r] ELSE OtherRules[r]]

----------------------------------------------------------------------------
(* The dispatchers: which rule the next tokens select, "none" when there is *)
(* nothing to parse and "error" when the function reports and fails.  t is  *)
(* the lookahead, as long as Lookahead asks for.                            *)

ScopedTail(t) == IF t[1] = "." /\ t[2] \in IdentifierLike \cup {"invoke", "finish"}
                 THEN "scopedPart" ELSE "none"

UnitItem(t) ==
  CASE t[1] = "struct"  -> "structDecl"
    [] t[1] = "param"   -> "topLevelParam"
    [] t[1] = "declare" -> "declareBlock"
    [] t[1] = "module"  -> "moduleBlock"
    [] OTHER            -> "error"

DeclareItem(t) ==
  CASE t[1] = "param"                    -> "paramNames"
    [] t[1] \in {"input", "wire"}        -> "ports"
    [] t[1] \in {"func_in", "func_self"} -> "control"
    [] OTHER                             -> "error"

ModuleItem(t) ==
  CASE t[1] \in InternalDeclStart                      -> "declItem"
    [] t[1] = "func"                                   -> "funcDefn"
    [] t[1] = "proc"                                   -> "procDefn"
    [] t[1] = "state"                                  -> "stateDefn"
    [] t[1] = "id" /\ t[2] \in {"reg", "wire"}         -> "declItem"
    [] t[1] = "id" /\ t[2] = "id"                      -> "internalDecl"
    [] OTHER                                           -> "action"

InternalDecl(t) ==
  CASE t[1] = "wire"        -> "wireDecl"
    [] t[1] = "reg"         -> "regDecl"
    [] t[1] = "func_self"   -> "control"
    [] t[1] = "proc_name"   -> "procName"
    [] t[1] = "state_name"  -> "stateName"
    [] t[1] = "first_state" -> "firstState"
    [] t[1] = "mem"         -> "memDecl"
    [] t[1] = "integer"     -> "integerDecl"
    [] t[1] = "variable"    -> "variableDecl"
    [] t[1] = "id"          -> "instance"
    [] OTHER                -> "error"

InstanceTail(t) ==
  CASE t[1] \in {"reg", "wire"} -> "structInst"
    [] t[1] = "id"              -> "submodule"
    [] OTHER                    -> "error"

Action(t) ==
  CASE t[1] = "{"        -> "parallelBlock"
    [] t[1] = "alt"      -> "altBlock"
    [] t[1] = "any"      -> "anyBlock"
    [] t[1] = "seq"      -> "seqBlock"
    [] t[1] = "while"    -> "whileBlock"
    [] t[1] = "for"      -> "forBlock"
    [] t[1] = "if"       -> "ifStatement"
    [] t[1] = "generate" -> "generate"
    [] t[1] = "return"   -> "returnStatement"
    [] t[1] = "goto"     -> "gotoStatement"
    [] t[1] = "finish"   -> "finishStatement"
    [] t[1] = "_init"    -> "initBlock"
    [] t[1] = "_delay"   -> "delayTask"
    [] t[1] = "_task"    -> "systemTask"
    [] t[1] = ";"        -> "emptyStatement"
    [] t[1] \in IdentifierLike \cup {".{", "++"} -> "lvalueLed"
    [] OTHER             -> "error"

LValueLed(t) ==
  CASE t[1] = "++"                              -> "prefixIncDec"
    [] t[1] \in IdentifierLike /\ t[2] = ":"    -> "labeled"
    [] t[1] \in IdentifierLike /\ t[2] # ":"    -> "named"
    [] OTHER                                    -> "concatTransfer"

LValueTail(t) ==
  CASE t[1] = "++"          -> "postfixIncDec"
    [] t[1] \in {"=", ":="} -> "transfer"
    [] OTHER                -> "error"

ConcatTail(t) == IF t[1] \in {"=", ":="} THEN "transfer" ELSE "error"

ForHeader(t) ==
  CASE t[1] = "," -> "enumForm"
    [] t[1] = ";" -> "cForm"
    [] OTHER      -> "error"

ForStep(t) == IF t[1] = "++" THEN "prefixStep" ELSE "nameStep"

Nud(t) ==
  CASE t[1] \in IdentifierLike \cup {"lit"} -> "leaf"
    [] t[1] = "("                           -> "paren"
    [] t[1] \in {"{", ".{"}                 -> "concat"
    [] t[1] \in {"+", "~", "++"}            -> "prefix"
    [] t[1] = "if"                          -> "ifExpr"
    [] OTHER                                -> "error"

(* `( id ) (` starts a struct cast                                          *)
ParenTail(t) == IF t[1] = "id" /\ t[2] = ")" /\ t[3] = "(" THEN "cast" ELSE "grouped"

PostfixPart(t) ==
  CASE t[1] = "[" -> "slice"
    [] t[1] = "." -> "dotName"
    [] OTHER      -> "call"

Led(t, floor) ==
  CASE Prec(t[1]) = 0 \/ Prec(t[1]) < floor -> "none"
    [] OTHER -> ("#" :> "ledSign" @@ "'" :> "ledZero" @@ "++" :> "ledInc"
                 @@ "?" :> "ledCond" @@ "||" :> "ledOr" @@ "+" :> "ledAdd"
                 @@ "*" :> "ledMul")[t[1]]

CaseItem(t) == IF t[1] = "else" THEN "elseCase" ELSE "condCase"

ParallelItem(t) ==
  CASE t[1] \in InternalDeclStart -> "declItem"
    [] t[1] = "state"             -> "stateDefn"
    [] OTHER                      -> "action"

SeqItem(t) ==
  CASE t[1] = "label_name"        -> "labelName"
    [] t[1] \in InternalDeclStart -> "declItem"
    [] OTHER                      -> "action"

(* `while` and `for` bodies drop the declaration and drain nothing.         *)
LoopItem(t) ==
  CASE t[1] = "label_name"        -> "labelName"
    [] t[1] \in InternalDeclStart -> "internalDecl"
    [] OTHER                      -> "action"

Dispatchers == {"scopedTail", "unitItem", "declareItem", "moduleItem", "internalDecl",
  "instanceTail", "action", "lvalueLed", "lvalueTail", "concatTail", "forHeader", "forStep",
  "nud", "parenTail", "postfixPart", "led", "caseItem", "parallelItem", "seqItem", "loopItem"}

Choice(r, t, floor) ==
  CASE r = "scopedTail"   -> ScopedTail(t)
    [] r = "unitItem"     -> UnitItem(t)
    [] r = "declareItem"  -> DeclareItem(t)
    [] r = "moduleItem"   -> ModuleItem(t)
    [] r = "internalDecl" -> InternalDecl(t)
    [] r = "instanceTail" -> InstanceTail(t)
    [] r = "action"       -> Action(t)
    [] r = "lvalueLed"    -> LValueLed(t)
    [] r = "lvalueTail"   -> LValueTail(t)
    [] r = "concatTail"   -> ConcatTail(t)
    [] r = "forHeader"    -> ForHeader(t)
    [] r = "forStep"      -> ForStep(t)
    [] r = "nud"          -> Nud(t)
    [] r = "parenTail"    -> ParenTail(t)
    [] r = "postfixPart"  -> PostfixPart(t)
    [] r = "led"          -> Led(t, floor)
    [] r = "caseItem"     -> CaseItem(t)
    [] r = "parallelItem" -> ParallelItem(t)
    [] r = "seqItem"      -> SeqItem(t)
    [] r = "loopItem"     -> LoopItem(t)

(* How many tokens the dispatcher looks at, given those it has seen.        *)
Lookahead(r, t) ==
  LET sees(i, K) == Len(t) >= i /\ t[i] \in K
  IN  CASE r = "scopedTail" /\ sees(1, {"."})            -> 2
        [] r = "moduleItem" /\ sees(1, {"id"})           -> 2
        [] r = "lvalueLed" /\ sees(1, IdentifierLike)    -> 2
        [] r = "parenTail" /\ sees(1, {"id"})            -> IF sees(2, {")"}) THEN 3 ELSE 2
        [] OTHER                                         -> 1

=============================================================================
