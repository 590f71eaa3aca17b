--------------------------- MODULE ResolutionPass ---------------------------
(* The single top-down walk of the semantic pass                            *)
(* (lib/Sema/ResolutionPass.cpp): it opens and leaves scopes, declares a    *)
(* symbol at the declarations it reaches, resolves the names it meets and   *)
(* gives every expression it reaches a type.                                *)
(*                                                                          *)
(* The recursion of Walker is a stack of pending work, innermost first.     *)
(* Visiting a node replaces it by what its handler does, in order: enter or *)
(* leave a scope, declare, visit a child, push or pop the width context,    *)
(* and, after the children, set the node's type.  One step does one of      *)
(* these, so every intermediate state of the walk is a state of the model.  *)
EXTENDS AST, SymbolTable, SequencesExt

CONSTANT Units          \* the compilation units to resolve

VARIABLES
  unit,                 \* the tree
  work,                 \* what is left to do
  contextWidth,         \* contextWidth_, innermost last
  reportedUnresolved,   \* names already reported
  diags,                \* what was reported, oldest first
  exprToSymbol,         \* ResolutionMap: path of an expression -> symbol
  inferredType          \* path of an expression -> its type

walkVars == <<work, contextWidth, reportedUnresolved, diags, exprToSymbol,
              inferredType>>
resVars == <<unit, scopes, retired, walkVars>>

-----------------------------------------------------------------------------
(* Types (include/nsl/Sema/TypeSystem.h).  Interning makes two types equal  *)
(* exactly when these records are.                                          *)

NoType == [t |-> "null", w |-> 0]
Bit == [t |-> "Bit", w |-> 1]
bitVector(w) == [t |-> "BitVector", w |-> w]
structType(name, total) == [t |-> "Struct", w |-> total, name |-> name]
memory(depth, element) == [t |-> "Memory", w |-> depth, element |-> element]
Unresolved == [t |-> "Unresolved", w |-> 0]

IsBitVector(t) == t.t = "BitVector"

\* The number of significant bits of v, at least 1.
minBits(v) ==
  IF v = 0 THEN 1
  ELSE CHOOSE b \in 1 .. 32 : 2 ^ (b - 1) <= v /\ v < 2 ^ b

RoundUp(w, q) == ((w + q - 1) \div q) * q

Wider(context, w) == IF context # 0 /\ context >= w THEN context ELSE w

OneIfZero(w) == IF w = 0 THEN 1 ELSE w

\* parseDecimal, parseHex and the octal loop: the value of a literal without a
\* size; one with a size does not parse and counts as 0.
parseDecimal(a) == IF a.size = 0 THEN a.v ELSE 0

\* The size before the tick; else every character of 0b... counts as a digit.
parseBinary(a) == IF a.size # 0 THEN a.size ELSE a.digits + 2

literalType(a, context) ==
  bitVector(CASE a.lit = "Decimal" -> Wider(context, minBits(parseDecimal(a)))
              [] a.lit = "Hex"     -> Wider(context, RoundUp(minBits(parseDecimal(a)), 4))
              [] a.lit = "Octal"   -> Wider(context, RoundUp(minBits(parseDecimal(a)), 3))
              [] a.lit = "Binary"  -> parseBinary(a)
              [] a.lit = "String"  -> 8 * (a.digits + 2))

\* The declared width of an optional width expression: 0 unless a decimal or
\* hexadecimal literal.
declaredWidth(slot) ==
  IF slot # Null /\ (IsDecimal(slot[1]) \/ IsHex(slot[1])) THEN parseDecimal(slot[1].a) ELSE 0

-----------------------------------------------------------------------------
(* Work items.                                                              *)

NodeAt(root, p) ==
  LET At[i \in 0 .. Len(p) \div 2] ==
        IF i = 0 THEN root ELSE At[i - 1].s[p[2 * i - 1]][p[2 * i]]
  IN  At[Len(p) \div 2]

Visit(p) == [do |-> "visit", at |-> p]
Enter(kind) == [do |-> "enter", kind |-> kind]
Leave == [do |-> "leave"]
\* Declare sym in the innermost scope of kind "" or of the given kind; report
\* a duplicate unless silent; do rest only when the name was free.
Declare(kind, sym, rest) ==
  [do |-> "declare", kind |-> kind, sym |-> sym, silent |-> FALSE, rest |-> rest]
DeclareSilently(sym) ==
  [do |-> "declare", kind |-> "", sym |-> sym, silent |-> TRUE, rest |-> <<>>]
DeclareIfNew(sym) == [do |-> "declareIfNew", sym |-> sym]
SetFields(p) == [do |-> "setFields", at |-> p]
Resolve(p) == [do |-> "resolve", at |-> p]
SetType(p) == [do |-> "setType", at |-> p]
PushWidthOf(p) == [do |-> "push", at |-> p]
PopWidth == [do |-> "pop"]

Slot(n, p, j) == [i \in 1 .. Len(n.s[j]) |-> Visit(Kid(p, j, i))]
Slots(n, p, js) == FlattenSeq([x \in 1 .. Len(js) |-> Slot(n, p, js[x])])
AllSlots(n, p) == Slots(n, p, [j \in 1 .. Len(n.s) |-> j])
Scoped(kind, items) == <<Enter(kind)>> \o items \o <<Leave>>

-----------------------------------------------------------------------------
(* Declarations: what each handler does, in its order.                      *)

declTopLevelParam(n, p) ==
  <<Declare("", Symbol("Integer", n.n, p, NoType), <<>>)>> \o AllSlots(n, p)

declStruct(n, p) ==
  <<Declare("", Symbol("StructType", n.n, p, NoType),
            Append(AllSlots(n, p), SetFields(p)))>>

declDeclareBlock(n, p) == Scoped("Declare", Slots(n, p, <<1, 2>>))

\* The last declare block of that name in the unit, or 0.
declareByName(root, name) ==
  LET Named == {i \in 1 .. Len(root.s[1]) : /\ root.s[1][i].k = "DeclareBlock"
                                            /\ root.s[1][i].n = name}
  IN  IF Named = {} \/ name = NoName THEN 0
      ELSE CHOOSE i \in Named : \A j \in Named : j <= i

\* u is the unit: the ports of the paired declare are declared once more.
declModuleBlock(u, n, p) ==
  LET d == declareByName(u, n.n)
      reimported ==
        IF d = 0 THEN <<>> ELSE Slots(u.s[1][d], <<1, d>>, <<1, 2>>)
  IN  Scoped("Module", reimported \o Slots(n, p, <<1, 2, 3, 4>>))

PortKind(dir) ==
  CASE dir \in {"Input", "Output", "Inout"} -> "Port"
    [] dir \in {"FuncIn", "FuncOut", "FuncSelf", "Wire"} -> dir

declPort(n, p) ==
  LET w == declaredWidth(n.s[1])
  IN  <<Declare("", Symbol(PortKind(n.a.dir), n.n, p,
                           IF w = 0 THEN Bit ELSE bitVector(w)), AllSlots(n, p))>>

declReg(n, p) ==
  <<Declare("", Symbol("Reg", n.n, p, bitVector(OneIfZero(declaredWidth(n.s[1])))),
            AllSlots(n, p))>>

declWire(n, p) ==
  <<Declare("", Symbol("Wire", n.n, p, bitVector(OneIfZero(declaredWidth(n.s[1])))),
            AllSlots(n, p))>>

declVariable(n, p) ==
  <<Declare("", Symbol("Variable", n.n, p,
                       bitVector(OneIfZero(declaredWidth(n.s[1])))),
            AllSlots(n, p))>>

declInteger(n, p) == <<Declare("", Symbol("Integer", n.n, p, bitVector(64)), <<>>)>>

declMem(n, p) ==
  <<Declare("", Symbol("Mem", n.n, p,
                       memory(OneIfZero(declaredWidth(n.s[1])),
                              bitVector(OneIfZero(declaredWidth(n.s[2]))))),
            AllSlots(n, p))>>

declFuncSelf(n, p) == <<Declare("", Symbol("FuncSelf", n.n, p, Bit), <<>>)>>

declProcName(n, p) == <<Declare("", Symbol("Proc", n.n, p, Bit), <<>>)>>

declStateName(n, p) ==
  [i \in 1 .. Len(n.a) |-> Declare("Module", Symbol("State", n.a[i], p, Bit), <<>>)]

declFirstState(n, p) == <<>>

declSubmodule(n, p) ==
  [i \in 1 .. Len(n.a) |->
     Declare("", Symbol("Submodule", n.a[i], p, Bit), Slot(n, p, i))]
  \o Slot(n, p, Len(n.a) + 1)

declStructInst(n, p) ==
  <<Declare("", Symbol("Reg", n.n, p, bitVector(1)), AllSlots(n, p))>>

declFuncDefn(n, p) ==
  (IF Len(n.n) = 1 THEN <<DeclareIfNew(Symbol("FuncIn", n.n[1], p, Bit))>> ELSE <<>>)
  \o Scoped("Function", AllSlots(n, p))

declProcDefn(n, p) ==
  <<DeclareIfNew(Symbol("Proc", n.n, p, Bit))>> \o Scoped("Proc", AllSlots(n, p))

declStateDefn(n, p) == Scoped("SeqOrParallel", AllSlots(n, p))

visitDecl(u, n, p) ==
  CASE n.k = "TopLevelParamDecl" -> declTopLevelParam(n, p)
    [] n.k = "StructDecl"        -> declStruct(n, p)
    [] n.k = "DeclareBlock"      -> declDeclareBlock(n, p)
    [] n.k = "ModuleBlock"       -> declModuleBlock(u, n, p)
    [] n.k = "PortDecl"          -> declPort(n, p)
    [] n.k = "RegDecl"           -> declReg(n, p)
    [] n.k = "WireDecl"          -> declWire(n, p)
    [] n.k = "VariableDecl"      -> declVariable(n, p)
    [] n.k = "IntegerDecl"       -> declInteger(n, p)
    [] n.k = "MemDecl"           -> declMem(n, p)
    [] n.k = "FuncSelfDecl"      -> declFuncSelf(n, p)
    [] n.k = "ProcNameDecl"      -> declProcName(n, p)
    [] n.k = "StateNameDecl"     -> declStateName(n, p)
    [] n.k = "FirstStateDecl"    -> declFirstState(n, p)
    [] n.k = "SubmoduleDecl"     -> declSubmodule(n, p)
    [] n.k = "StructInstDecl"    -> declStructInst(n, p)
    [] n.k = "FuncDefn"          -> declFuncDefn(n, p)
    [] n.k = "ProcDefn"          -> declProcDefn(n, p)
    [] n.k = "StateDefn"         -> declStateDefn(n, p)

-----------------------------------------------------------------------------
(* Statements.  seq and parallel blocks visit their items, not their decls. *)

stmtTransfer(n, p) ==
  Slot(n, p, 1) \o <<PushWidthOf(Kid(p, 1, 1))>> \o Slot(n, p, 2) \o <<PopWidth>>

stmtIncDec(n, p) == AllSlots(n, p)

stmtControlCall(n, p) ==
  (IF Len(n.n) = 1 THEN <<Resolve(p)>> ELSE <<>>) \o AllSlots(n, p)

stmtSystemTask(n, p) == AllSlots(n, p)

stmtReturn(n, p) == AllSlots(n, p)

stmtSeq(n, p) == Scoped("SeqOrParallel", Slot(n, p, 2))

stmtParallel(n, p) == Scoped("SeqOrParallel", Slot(n, p, 2))

stmtAlt(n, p) == Scoped("SeqOrParallel", Slots(n, p, <<1, 2>>))

stmtAny(n, p) == Scoped("SeqOrParallel", Slots(n, p, <<1, 2>>))

stmtIf(n, p) == Slots(n, p, <<1, 2, 3>>)

stmtWhile(n, p) == Scoped("SeqOrParallel", Slots(n, p, <<1, 2>>))

stmtFor(n, p) == Scoped("SeqOrParallel", Slots(n, p, <<1, 2, 3, 4>>))

stmtInitBlock(n, p) == Scoped("SeqOrParallel", Slot(n, p, 1))

stmtDelayTask(n, p) == AllSlots(n, p)

stmtLabeled(n, p) == AllSlots(n, p)

\* The loop variable is an integer of the block's own scope; its initial value
\* is not visited.
stmtStructuralGenerate(n, p) ==
  Scoped("SeqOrParallel",
         (IF n.n = NoName THEN <<>>
          ELSE <<DeclareSilently(Symbol("Integer", n.n, p, bitVector(64)))>>)
         \o Slots(n, p, <<2, 3, 4>>))

visitStmt(n, p) ==
  CASE n.k = "TransferStmt"       -> stmtTransfer(n, p)
    [] n.k = "ControlCallStmt"    -> stmtControlCall(n, p)
    [] n.k = "SeqBlock"           -> stmtSeq(n, p)
    [] n.k = "ParallelBlock"      -> stmtParallel(n, p)
    [] n.k = "AltBlock"           -> stmtAlt(n, p)
    [] n.k = "AnyBlock"           -> stmtAny(n, p)
    [] n.k = "IfStmt"             -> stmtIf(n, p)
    [] n.k = "WhileBlock"         -> stmtWhile(n, p)
    [] n.k = "ForBlock"           -> stmtFor(n, p)
    [] n.k = "InitBlockStmt"      -> stmtInitBlock(n, p)
    [] n.k = "StructuralGenerate" -> stmtStructuralGenerate(n, p)
    [] n.k = "IncDecStmt"         -> stmtIncDec(n, p)
    [] n.k = "SystemTaskStmt"     -> stmtSystemTask(n, p)
    [] n.k = "ReturnStmt"         -> stmtReturn(n, p)
    [] n.k = "DelayTaskStmt"      -> stmtDelayTask(n, p)
    [] n.k = "LabeledStmt"        -> stmtLabeled(n, p)
    [] n.k \in {"BareFinishStmt", "EmptyStmt", "GotoStmt"} -> <<>>

-----------------------------------------------------------------------------
(* Expressions: the children first, then the type; an identifier and the    *)
(* head of a one-part call are resolved on the way.                         *)

exprIdentifier(n, p) == <<Resolve(p)>>

exprCall(n, p) ==
  (IF Len(n.n) = 1 THEN <<Resolve(p)>> ELSE <<>>) \o AllSlots(n, p)
  \o <<SetType(p)>>

visitExpr(n, p) ==
  CASE n.k = "IdentifierExpr" -> exprIdentifier(n, p)
    [] n.k = "CallExpr"       -> exprCall(n, p)
    [] OTHER -> Append(AllSlots(n, p), SetType(p))

TypeOf(p, j, i) == inferredType[Kid(p, j, i)]

BitVectorWidth(t) == IF IsBitVector(t) THEN t.w ELSE 0

DecimalOr0(e) == IF IsDecimal(e) THEN parseDecimal(e.a) ELSE 0

topContext == IF contextWidth = <<>> THEN 0 ELSE Last(contextWidth)

exprLiteral(n) == literalType(n.a, topContext)

exprSystemVar(n) == bitVector(64)

exprUnary(n, p) ==
  IF n.a \in {"ReduceAnd", "ReduceOr", "ReduceXor", "LogicalNot"}
    THEN bitVector(1) ELSE TypeOf(p, 1, 1)

OneBitOps == {"Equal", "NotEqual", "Less", "LessEqual", "Greater",
              "GreaterEqual", "LogicalAnd", "LogicalOr"}

exprBinary(n, p) ==
  IF Unresolved \in {TypeOf(p, 1, 1), TypeOf(p, 2, 1)} THEN Unresolved
  ELSE IF n.a \in OneBitOps THEN bitVector(1) ELSE TypeOf(p, 1, 1)

exprConditional(n, p) == TypeOf(p, 2, 1)

\* Only BitVector parts count: a part of type Bit adds nothing.
exprConcat(n, p) ==
  LET parts == [i \in 1 .. Len(n.s[1]) |-> TypeOf(p, 1, i)]
  IN  IF \E i \in DOMAIN parts : parts[i] = Unresolved THEN Unresolved
      ELSE bitVector(OneIfZero(FoldLeft(LAMBDA acc, t : acc + BitVectorWidth(t),
                                        0, parts)))

exprRepeat(n, p) ==
  IF TypeOf(p, 2, 1) = Unresolved THEN Unresolved
  ELSE bitVector(OneIfZero(DecimalOr0(n.s[1][1]) * BitVectorWidth(TypeOf(p, 2, 1))))

exprSignExtend(n) == bitVector(OneIfZero(declaredWidth(n.s[1])))

exprZeroExtend(n) == bitVector(OneIfZero(declaredWidth(n.s[1])))

exprSlice(n, p) ==
  LET hi == DecimalOr0(n.s[2][1])
      lo == IF n.s[3] = Null THEN 0 ELSE DecimalOr0(n.s[3][1])
  IN  bitVector(IF n.s[3] # Null /\ hi >= lo THEN hi - lo + 1 ELSE 1)

exprFieldAccess(n, p) ==
  IF TypeOf(p, 1, 1) = Unresolved THEN Unresolved ELSE bitVector(1)

exprStructCast(n) ==
  LET sym == lookup(n.n)
  IN  IF sym.kind = "StructType" THEN bitVector(OneIfZero(sym.total))
      ELSE bitVector(1)

exprIncDec(n, p) == TypeOf(p, 1, 1)

ExprType(n, p) ==
  CASE n.k = "LiteralExpr"     -> exprLiteral(n)
    [] n.k = "SystemVarExpr"   -> exprSystemVar(n)
    [] n.k = "UnaryExpr"       -> exprUnary(n, p)
    [] n.k = "BinaryExpr"      -> exprBinary(n, p)
    [] n.k = "ConditionalExpr" -> exprConditional(n, p)
    [] n.k = "ConcatExpr"      -> exprConcat(n, p)
    [] n.k = "RepeatExpr"      -> exprRepeat(n, p)
    [] n.k = "SignExtendExpr"  -> exprSignExtend(n)
    [] n.k = "ZeroExtendExpr"  -> exprZeroExtend(n)
    [] n.k = "SliceExpr"       -> exprSlice(n, p)
    [] n.k = "FieldAccessExpr" -> exprFieldAccess(n, p)
    [] n.k = "CallExpr"        -> bitVector(1)
    [] n.k = "StructCastExpr"  -> exprStructCast(n)
    [] n.k = "IncDecExpr"      -> exprIncDec(n, p)

-----------------------------------------------------------------------------
(* Steps.                                                                   *)

With(f, k, v) == [x \in DOMAIN f \cup {k} |-> IF x = k THEN v ELSE f[x]]
WithNew(f, k, v) == IF k \in DOMAIN f THEN f ELSE With(f, k, v)

Diag(what, name, p) == [what |-> what, name |-> name, at |-> p]

Doing(what) == work # <<>> /\ Head(work).do = what
Then(items) == work' = items \o Tail(work)

\* runUnit: the global scope around the items of the unit.
ResInit ==
  /\ SymInit
  /\ unit \in Units
  /\ work = Scoped("Global", AllSlots(unit, <<>>))
  /\ contextWidth = <<>>
  /\ reportedUnresolved = {}
  /\ diags = <<>>
  /\ exprToSymbol = <<>>
  /\ inferredType = <<>>

VisitNode ==
  /\ Doing("visit")
  /\ LET p == Head(work).at
         n == NodeAt(unit, p)
     IN  Then(IF n.k \in ExprKinds THEN visitExpr(n, p)
              ELSE IF n.k \in DeclKinds THEN visitDecl(unit, n, p) ELSE visitStmt(n, p))
  /\ UNCHANGED <<unit, scopes, retired, contextWidth, reportedUnresolved, diags,
                 exprToSymbol, inferredType>>

EnterScope ==
  /\ Doing("enter")
  /\ enterScope(Head(work).kind)
  /\ Then(<<>>)
  /\ UNCHANGED <<unit, contextWidth, reportedUnresolved, diags, exprToSymbol,
                 inferredType>>

\* The scope is destroyed with its symbols.
LeaveScopeDestroys ==
  /\ Doing("leave")
  /\ scopes' = Front(scopes) /\ UNCHANGED retired
  /\ Then(<<>>)
  /\ UNCHANGED <<unit, contextWidth, reportedUnresolved, diags, exprToSymbol,
                 inferredType>>

LeaveScope ==
  /\ Doing("leave")
  /\ leaveScope
  /\ Then(<<>>)
  /\ UNCHANGED <<unit, contextWidth, reportedUnresolved, diags, exprToSymbol,
                 inferredType>>

DeclareSymbol ==
  /\ Doing("declare")
  /\ LET it == Head(work)
         i  == IF it.kind = "" THEN Len(scopes) ELSE ScopeFor(it.kind)
         ok == DeclaredIn(i, it.sym)
     IN  /\ IF it.kind = "" THEN declare(it.sym) ELSE declareInScope(it.kind, it.sym)
         /\ Then(IF ok THEN it.rest ELSE <<>>)
         /\ diags' = IF ok \/ it.silent THEN diags
                     ELSE Append(diags, Diag("duplicate", it.sym.name, it.sym.id))
  /\ UNCHANGED <<unit, contextWidth, reportedUnresolved, exprToSymbol, inferredType>>

DeclareDefinition ==
  /\ Doing("declareIfNew")
  /\ IF lookup(Head(work).sym.name) = NoSymbol
       THEN declare(Head(work).sym) ELSE UNCHANGED tableVars
  /\ Then(<<>>)
  /\ UNCHANGED <<unit, contextWidth, reportedUnresolved, diags, exprToSymbol,
                 inferredType>>

\* The struct's fields in declaration order, offsets from the first member up.
PackFields(n) ==
  LET w == [i \in 1 .. Len(n.a) |-> OneIfZero(declaredWidth(n.s[i]))]
      Below[i \in 0 .. Len(n.a)] == IF i = 0 THEN 0 ELSE Below[i - 1] + w[i]
  IN  [fields |-> [i \in 1 .. Len(n.a) |->
                     [name |-> n.a[i], w |-> w[i], off |-> Below[i - 1]]],
       total |-> Below[Len(n.a)]]

FinishStruct ==
  /\ Doing("setFields")
  /\ LET p == Head(work).at
         n == NodeAt(unit, p)
         packed == PackFields(n)
     IN  setFields([Symbol("StructType", n.n, p, structType(n.n, packed.total))
                      EXCEPT !.fields = packed.fields, !.total = packed.total])
  /\ Then(<<>>)
  /\ UNCHANGED <<unit, contextWidth, reportedUnresolved, diags, exprToSymbol,
                 inferredType>>

\* An unknown name is reported at its first use.
resolveName(name, p) ==
  IF lookup(name) = NoSymbol /\ name \notin reportedUnresolved
    THEN /\ diags' = Append(diags, Diag("unresolved", name, p))
         /\ reportedUnresolved' = reportedUnresolved \cup {name}
    ELSE UNCHANGED <<diags, reportedUnresolved>>

\* resolveName with what its three callers do with the answer: an identifier
\* records it and takes its type, a call records it, a control call drops it.
ResolveName ==
  /\ Doing("resolve")
  /\ LET p    == Head(work).at
         n    == NodeAt(unit, p)
         name == n.n[1]
         sym  == lookup(name)
         type == IF sym = NoSymbol THEN Unresolved
                 ELSE IF sym.type # NoType THEN sym.type
                 ELSE IF Len(n.n) = 1 THEN Unresolved ELSE bitVector(1)
     IN  /\ resolveName(name, p)
         /\ exprToSymbol' = IF sym # NoSymbol /\ n.k \in ExprKinds
                              THEN WithNew(exprToSymbol, p, sym) ELSE exprToSymbol
         /\ inferredType' = IF n.k = "IdentifierExpr"
                              THEN With(inferredType, p, type) ELSE inferredType
  /\ Then(<<>>)
  /\ UNCHANGED <<unit, scopes, retired, contextWidth>>

SetInferredType ==
  /\ Doing("setType")
  /\ LET p == Head(work).at
     IN  inferredType' = With(inferredType, p, ExprType(NodeAt(unit, p), p))
  /\ Then(<<>>)
  /\ UNCHANGED <<unit, scopes, retired, contextWidth, reportedUnresolved, diags,
                 exprToSymbol>>

PushContext ==
  /\ Doing("push")
  /\ contextWidth' = Append(contextWidth, BitVectorWidth(inferredType[Head(work).at]))
  /\ Then(<<>>)
  /\ UNCHANGED <<unit, scopes, retired, reportedUnresolved, diags, exprToSymbol,
                 inferredType>>

PopContext ==
  /\ Doing("pop")
  /\ contextWidth' = Front(contextWidth)
  /\ Then(<<>>)
  /\ UNCHANGED <<unit, scopes, retired, reportedUnresolved, diags, exprToSymbol,
                 inferredType>>

ResNext ==
  \/ VisitNode \/ EnterScope \/ LeaveScope \/ DeclareSymbol \/ DeclareDefinition
  \/ FinishStruct \/ ResolveName \/ SetInferredType \/ PushContext \/ PopContext

Resolved == work = <<>>
=============================================================================
