-------------------------------- MODULE AST --------------------------------
(* The abstract syntax tree of NSL (include/nsl/AST), as the values the     *)
(* semantic pass, the constraint checks and the lowering walk over.         *)
(*                                                                          *)
(* A node is a record: k is the class, n the identifier it carries (a       *)
(* sequence of parts where the class holds a ScopedName), a its other       *)
(* attributes and s its owned children, slot by slot in the order of the    *)
(* class's constructor.  A slot is a sequence of nodes; an owning pointer   *)
(* that may be null is a slot of length 0 or 1.  Source ranges are left     *)
(* out: a node is told from its copies by its path in the tree.             *)
EXTENDS Naturals, Sequences

Node(k, n, a, s) == [k |-> k, n |-> n, a |-> a, s |-> s]

NoName == ""
NoAttr == ""

Opt(e) == <<e>>
Null == <<>>

-----------------------------------------------------------------------------
(* Expressions.                                                             *)

\* v is the value, size the width before the tick (0 without one), digits the
\* number of digits after the prefix.
LiteralExpr(lit, v, size, digits) ==
  Node("LiteralExpr", NoName,
       [lit |-> lit, v |-> v, size |-> size, digits |-> digits], <<>>)
StringLiteral(text) ==
  Node("LiteralExpr", text, [lit |-> "String", v |-> 0, size |-> 0, digits |-> Len(text)], <<>>)
IdentifierExpr(parts) == Node("IdentifierExpr", parts, NoAttr, <<>>)
SystemVarExpr(var) == Node("SystemVarExpr", NoName, var, <<>>)
UnaryExpr(op, sub) == Node("UnaryExpr", NoName, op, <<Opt(sub)>>)
BinaryExpr(op, l, r) == Node("BinaryExpr", NoName, op, <<Opt(l), Opt(r)>>)
ConditionalExpr(c, t, e) ==
  Node("ConditionalExpr", NoName, NoAttr, <<Opt(c), Opt(t), Opt(e)>>)
ConcatExpr(parts) == Node("ConcatExpr", NoName, NoAttr, <<parts>>)
RepeatExpr(count, body) ==
  Node("RepeatExpr", NoName, NoAttr, <<Opt(count), Opt(body)>>)
SignExtendExpr(width, sub) ==
  Node("SignExtendExpr", NoName, NoAttr, <<Opt(width), Opt(sub)>>)
ZeroExtendExpr(width, sub) ==
  Node("ZeroExtendExpr", NoName, NoAttr, <<Opt(width), Opt(sub)>>)
SliceExpr(sub, hi, lo) ==
  Node("SliceExpr", NoName, NoAttr, <<Opt(sub), Opt(hi), lo>>)
FieldAccessExpr(obj, field) ==
  Node("FieldAccessExpr", field, NoAttr, <<Opt(obj)>>)
CallExpr(target, args) == Node("CallExpr", target, NoAttr, <<args>>)
StructCastExpr(type, sub, path) ==
  Node("StructCastExpr", type, path, <<Opt(sub)>>)
IncDecExpr(op, prefix, target) ==
  Node("IncDecExpr", NoName, <<op, prefix>>, <<Opt(target)>>)

-----------------------------------------------------------------------------
(* Statements.  The cases of alt and any alternate condition and body in    *)
(* their first slot: case i is s[1][2i-1], s[1][2i].                        *)

TransferStmt(op, l, r) == Node("TransferStmt", NoName, op, <<Opt(l), Opt(r)>>)
IncDecStmt(op, prefix, target) ==
  Node("IncDecStmt", NoName, <<op, prefix>>, <<Opt(target)>>)
ControlCallStmt(target, args) == Node("ControlCallStmt", target, NoAttr, <<args>>)
BareFinishStmt == Node("BareFinishStmt", NoName, NoAttr, <<>>)
SystemTaskStmt(name, args) == Node("SystemTaskStmt", name, NoAttr, <<args>>)
ReturnStmt(value) == Node("ReturnStmt", NoName, NoAttr, <<value>>)
EmptyStmt == Node("EmptyStmt", NoName, NoAttr, <<>>)
LabeledStmt(label, body) == Node("LabeledStmt", label, NoAttr, <<Opt(body)>>)
GotoStmt(target) == Node("GotoStmt", target, NoAttr, <<>>)
InitBlockStmt(items) == Node("InitBlockStmt", NoName, NoAttr, <<items>>)
DelayTaskStmt(count) == Node("DelayTaskStmt", NoName, NoAttr, <<Opt(count)>>)
ParallelBlock(decls, items) ==
  Node("ParallelBlock", NoName, NoAttr, <<decls, items>>)
SeqBlock(decls, items) == Node("SeqBlock", NoName, NoAttr, <<decls, items>>)
CondCase(cond, body) == <<cond, body>>
AltBlock(cases, else) == Node("AltBlock", NoName, NoAttr, <<cases, else>>)
AnyBlock(cases, else) == Node("AnyBlock", NoName, NoAttr, <<cases, else>>)
IfStmt(c, t, e) == Node("IfStmt", NoName, NoAttr, <<Opt(c), Opt(t), e>>)
WhileBlock(c, items) == Node("WhileBlock", NoName, NoAttr, <<Opt(c), items>>)
ForForm(init, cond, step) == <<Opt(init), Opt(cond), Opt(step)>>
ForBlock(form, items) == Node("ForBlock", NoName, NoAttr, Append(form, items))
StructuralGenerate(var, initValue, cond, step, body) ==
  Node("StructuralGenerate", var, NoAttr,
       <<initValue, Opt(cond), Opt(step), Opt(body)>>)

-----------------------------------------------------------------------------
(* Declarations.                                                            *)

TopLevelParamDecl(kind, name, init) ==
  Node("TopLevelParamDecl", name, kind, <<init>>)
StructMember(name, width) == [name |-> name, width |-> width]
StructDecl(name, members) ==
  Node("StructDecl", name, [i \in 1 .. Len(members) |-> members[i].name],
       [i \in 1 .. Len(members) |-> members[i].width])
PortDecl(dir, name, width, dummyArgs, returnTerminal) ==
  Node("PortDecl", name,
       [dir |-> dir, args |-> dummyArgs, ret |-> returnTerminal], <<width>>)
DeclareBlock(name, modifier, clock, reset, headerParams, ports) ==
  Node("DeclareBlock", name, [mod |-> modifier, clk |-> clock, rst |-> reset],
       <<headerParams, ports>>)
ModuleBlock(name, internals, funcs, procs, actions) ==
  Node("ModuleBlock", name, NoAttr, <<internals, funcs, procs, actions>>)
RegDecl(name, width, init) == Node("RegDecl", name, NoAttr, <<width, init>>)
WireDecl(name, width) == Node("WireDecl", name, NoAttr, <<width>>)
VariableDecl(name, width) == Node("VariableDecl", name, NoAttr, <<width>>)
IntegerDecl(name) == Node("IntegerDecl", name, NoAttr, <<>>)
MemDecl(name, depth, width, init) ==
  Node("MemDecl", name, NoAttr, <<depth, width, init>>)
FuncSelfDecl(name, dummyArgs, returnTerminal) ==
  Node("FuncSelfDecl", name, [args |-> dummyArgs, ret |-> returnTerminal], <<>>)
ProcNameDecl(name, regArgs) == Node("ProcNameDecl", name, regArgs, <<>>)
StateNameDecl(names) == Node("StateNameDecl", NoName, names, <<>>)
FirstStateDecl(target) == Node("FirstStateDecl", target, NoAttr, <<>>)
SubmoduleDecl(template, instances, sizes, params) ==
  Node("SubmoduleDecl", template, instances, Append(sizes, params))
StructInstDecl(type, name, storage, arraySize, init) ==
  Node("StructInstDecl", name, [type |-> type, storage |-> storage],
       <<arraySize, init>>)
FuncDefn(name, body) == Node("FuncDefn", name, NoAttr, <<Opt(body)>>)
ProcDefn(name, body) == Node("ProcDefn", name, NoAttr, <<Opt(body)>>)
StateDefn(name, body) == Node("StateDefn", name, NoAttr, <<Opt(body)>>)
CompilationUnit(items) == Node("CompilationUnit", NoName, NoAttr, <<items>>)

-----------------------------------------------------------------------------
(* Paths.  The child at index i of slot j of the node at p has the path     *)
(* p \o <<j, i>>.                                                           *)

Kid(p, j, i) == p \o <<j, i>>

(* The base classes' member lists: which classes are Expr, which Decl.      *)
ExprKinds ==
  {"LiteralExpr", "IdentifierExpr", "SystemVarExpr", "UnaryExpr", "BinaryExpr",
   "ConditionalExpr", "ConcatExpr", "RepeatExpr", "SignExtendExpr",
   "ZeroExtendExpr", "SliceExpr", "FieldAccessExpr", "CallExpr",
   "StructCastExpr", "IncDecExpr"}
DeclKinds ==
  {"TopLevelParamDecl", "StructDecl", "DeclareBlock", "ModuleBlock", "PortDecl",
   "RegDecl", "WireDecl", "VariableDecl", "IntegerDecl", "MemDecl",
   "FuncSelfDecl", "ProcNameDecl", "StateNameDecl", "FirstStateDecl",
   "SubmoduleDecl", "StructInstDecl", "FuncDefn", "ProcDefn", "StateDefn"}

IsLiteral(e) == e.k = "LiteralExpr"
IsDecimal(e) == IsLiteral(e) /\ e.a.lit = "Decimal"
IsHex(e) == IsLiteral(e) /\ e.a.lit = "Hex"
=============================================================================
