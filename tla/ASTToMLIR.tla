------------------------------ MODULE ASTToMLIR -----------------------------
(* The lowering of the tree to the nsl dialect (lib/Lower/ASTToMLIR.cpp).   *)
(*                                                                          *)
(* The visitor threads tables that are flat over the unit and never         *)
(* cleared: nameTable_, controlTable_, structTable_, paramTable_ and the    *)
(* ports parked for a later module.  A visit returns the tables it leaves   *)
(* and the operations it emits at its insertion point.  The result of an    *)
(* operation is identified by the path of the node it was emitted for.      *)
(*                                                                          *)
(* An expression that cannot be lowered yields NoVal, and what was emitted  *)
(* for its operands stays behind; a statement over it emits nothing itself. *)
EXTENDS AST, NSLOps

NoNode == Node("none", NoName, NoAttr, <<>>)

Tables(names, control, structs, params, pending, module, proc) ==
  [names |-> names, control |-> control, structs |-> structs, params |-> params,
   pending |-> pending, module |-> module, proc |-> proc]

NoTables == Tables(<<>>, {}, <<>>, <<>>, <<>>, NoNode, NoNode)

\* Setting an entry of a table.
Entry(f, k, v) == (k :> v) @@ f

Named(env, name, v) == [env EXCEPT !.names = Entry(@, name, v)]
Controls(env, name) == [env EXCEPT !.control = @ \cup {name}]

-----------------------------------------------------------------------------
(* Literals.                                                                *)

UnsizedDecimal(e) == IsDecimal(e) /\ e.a.size = 0

\* The width of a slot that may be null: 1 unless it is a plain decimal.
resolveWidth(slot) ==
  IF slot # Null /\ UnsizedDecimal(slot[1]) /\ slot[1].a.v # 0 THEN slot[1].a.v ELSE 1

resolveDecimalLiteral(e) == IF UnsizedDecimal(e) THEN e.a.v ELSE 0

\* width is 0 without an explicit one.  The b of 0b... is no binary digit, so
\* such a literal is malformed; the x of 0x... counts as 0.
parseNumericLiteral(e) ==
  [ok |-> e.a.lit # "String" /\ (e.a.lit = "Binary" => e.a.size > 0),
   value |-> e.a.v, width |-> e.a.size]

minUnsignedWidth(v) ==
  IF v = 0 THEN 1 ELSE CHOOSE w \in 1 .. 31 : 2 ^ (w - 1) <= v /\ v < 2 ^ w

\* A string literal carries its text as its name.
unquoteStringLiteral(e) == IF IsLiteral(e) /\ e.a.lit = "String" THEN e.n ELSE ""

\* The literal or single-part parameter name a bound may be.
resolveBound(env, e, fallback) ==
  CASE IsLiteral(e) -> resolveDecimalLiteral(e)
    [] /\ e.k = "IdentifierExpr"
       /\ Len(e.n) = 1
       /\ e.n[1] \in DOMAIN env.params -> env.params[e.n[1]]
    [] OTHER -> fallback

-----------------------------------------------------------------------------
(* Expressions: lowerExpr, one operator for each class.  hint is the type   *)
(* an unsized literal takes.                                                *)

Lowered(ops, v) == [ops |-> ops, v |-> v]
Fail(ops) == Lowered(ops, NoVal)
Emit(ops, op) == Lowered(Append(ops, op), Result(op))

RECURSIVE lowerExpr(_, _, _, _)

Operand(env, n, p, slot, hint) ==
  lowerExpr(env, n.s[slot][1], Kid(p, slot, 1), hint)

lowerLiteral(n, p, hint) ==
  LET parsed == parseNumericLiteral(n)
      w == CASE parsed.width > 0 -> parsed.width
             [] parsed.width = 0 /\ hint.ty = "bits" -> hint.w
             [] OTHER -> minUnsignedWidth(parsed.value)
  IN  IF ~parsed.ok THEN Fail(<<>>)
      ELSE Emit(<<>>, [Operation("constant", p) EXCEPT
                         !.t = BitsTy(w), !.v = <<parsed.value>>])

\* A control terminal leaves a marker and has no value.
lowerIdentifier(env, n, p) ==
  CASE Len(n.n) # 1 -> Fail(<<>>)
    [] Len(n.n) = 1 /\ n.n[1] \in env.control ->
         Fail(<<[Operation("fire_probe", p) EXCEPT !.ref = n.n[1]]>>)
    [] Len(n.n) = 1 /\ n.n[1] \in DOMAIN env.names \ env.control ->
         Lowered(<<>>, env.names[n.n[1]])
    [] OTHER -> Fail(<<>>)

SameTypeOps ==
  "Add" :> "add" @@ "Sub" :> "sub" @@ "Mul" :> "mul" @@ "BitAnd" :> "and" @@
  "BitOr" :> "or" @@ "BitXor" :> "xor" @@ "ShiftLeft" :> "shl" @@ "ShiftRight" :> "shr"

Bits1Ops ==
  "Equal" :> "eq" @@ "NotEqual" :> "ne" @@ "Less" :> "lt" @@ "LessEqual" :> "le" @@
  "Greater" :> "gt" @@ "GreaterEqual" :> "ge" @@ "LogicalAnd" :> "land" @@
  "LogicalOr" :> "lor"

\* The right operand takes the type of the left one; Div and Mod have no
\* operation.
lowerBinary(env, n, p, hint) ==
  LET l == Operand(env, n, p, 1, hint)
      r == Operand(env, n, p, 2, l.v.t)
      op(o, t) == Emit(l.ops \o r.ops,
                       [Operation(o, p) EXCEPT !.t = t, !.a = <<l.v, r.v>>])
  IN  CASE l.v = NoVal -> l
        [] l.v # NoVal /\ (r.v = NoVal \/ n.a \in {"Div", "Mod"}) -> Fail(l.ops \o r.ops)
        [] OTHER -> IF n.a \in DOMAIN Bits1Ops THEN op(Bits1Ops[n.a], BitsTy(1))
                    ELSE op(SameTypeOps[n.a], l.v.t)

UnaryOps ==
  "Neg" :> "neg" @@ "BitNot" :> "not" @@ "LogicalNot" :> "lnot" @@
  "ReduceAnd" :> "reduce_and" @@ "ReduceOr" :> "reduce_or" @@ "ReduceXor" :> "reduce_xor"

lowerUnary(env, n, p, hint) ==
  LET x == Operand(env, n, p, 1, hint)
      t == IF n.a \in {"Neg", "BitNot"} THEN x.v.t ELSE BitsTy(1)
  IN  IF x.v = NoVal \/ n.a = "Plus" THEN x
      ELSE Emit(x.ops, [Operation(UnaryOps[n.a], p) EXCEPT !.t = t, !.a = <<x.v>>])

lowerExtend(env, n, p, o) ==
  LET t == BitsTy(resolveWidth(n.s[1]))
      x == Operand(env, n, p, 2, t)
  IN  IF x.v = NoVal THEN x
      ELSE Emit(x.ops, [Operation(o, p) EXCEPT !.t = t, !.a = <<x.v>>])

lowerSignExtend(env, n, p) == lowerExtend(env, n, p, "sign_extend")
lowerZeroExtend(env, n, p) == lowerExtend(env, n, p, "zero_extend")

lowerConditional(env, n, p, hint) ==
  LET c == Operand(env, n, p, 1, BitsTy(1))
      t == Operand(env, n, p, 2, hint)
      e == Operand(env, n, p, 3, t.v.t)
  IN  CASE c.v = NoVal -> c
        [] c.v # NoVal /\ t.v = NoVal -> Fail(c.ops \o t.ops)
        [] c.v # NoVal /\ t.v # NoVal /\ e.v = NoVal -> Fail(c.ops \o t.ops \o e.ops)
        [] OTHER -> Emit(c.ops \o t.ops \o e.ops,
                         [Operation("mux", p) EXCEPT !.t = t.v.t, !.a = <<c.v, t.v, e.v>>])

lowerSlice(env, n, p) ==
  LET x  == Operand(env, n, p, 1, NoTy)
      hi == resolveDecimalLiteral(n.s[2][1])
      lo == IF n.s[3] = Null THEN hi ELSE resolveDecimalLiteral(n.s[3][1])
  IN  IF x.v = NoVal \/ hi < lo THEN Fail(x.ops)
      ELSE Emit(x.ops, [Operation("extract", p) EXCEPT
                          !.t = BitsTy(hi - lo + 1), !.a = <<x.v>>, !.v = <<lo>>])

\* Operands in order up to the first that has no value of an admitted type.
AddOperand(acc, x, types) ==
  [ok |-> x.v.t.ty \in types, ops |-> acc.ops \o x.ops, vs |-> Append(acc.vs, x.v)]

Operands(env, n, p, slot, types) ==
  FoldLeft(LAMBDA acc, i :
             IF ~acc.ok THEN acc
             ELSE AddOperand(acc, lowerExpr(env, n.s[slot][i], Kid(p, slot, i), NoTy), types),
           [ok |-> TRUE, ops |-> <<>>, vs |-> <<>>],
           [i \in 1 .. Len(n.s[slot]) |-> i])

lowerConcat(env, n, p) ==
  LET parts == Operands(env, n, p, 1, {"bits"})
      width == FoldLeft(LAMBDA acc, x : acc + x.t.w, 0, parts.vs)
  IN  IF ~parts.ok \/ parts.vs = <<>> THEN Fail(parts.ops)
      ELSE Emit(parts.ops, [Operation("concat", p) EXCEPT !.t = BitsTy(width), !.a = parts.vs])

FieldIndex(fields, name) ==
  LET is == {i \in 1 .. Len(fields) : fields[i].name = name}
  IN  IF is = {} THEN 0 ELSE Min(is)

\* The field_op chain of a member path.  A member after one of bits type is
\* looked up in the same struct again.
FieldChain(env, type, path, p, cast) ==
  FoldLeft(LAMBDA acc, k :
             LET fields == env.structs[acc.type]
                 i  == FieldIndex(fields, path[k])
                 op == [Operation("field", p \o <<0, k>>) EXCEPT
                          !.t = fields[i].t, !.a = <<acc.v>>, !.v = <<i - 1>>]
             IN  CASE acc.v = NoVal -> acc
                   [] acc.v # NoVal /\ i = 0 -> [acc EXCEPT !.v = NoVal]
                   [] OTHER -> [acc EXCEPT !.ops = Append(@, op), !.v = Result(op)],
           [ops |-> <<cast>>, v |-> Result(cast), type |-> type],
           [k \in 1 .. Len(path) |-> k])

lowerStructCast(env, n, p) ==
  LET x == Operand(env, n, p, 1, NoTy)
      cast == [Operation("struct_cast", p \o <<0>>) EXCEPT !.t = StructTy(n.n), !.a = <<x.v>>]
      chain == FieldChain(env, n.n, n.a, p, cast)
  IN  CASE x.v = NoVal -> x
        [] x.v # NoVal /\ n.a = <<>> -> Emit(x.ops, cast)
        [] x.v # NoVal /\ n.a # <<>> /\ n.n \notin DOMAIN env.structs -> Fail(x.ops)
        [] OTHER -> Lowered(x.ops \o chain.ops, chain.v)

lowerFieldAccess(env, n, p) ==
  LET x == Operand(env, n, p, 1, NoTy)
      known == x.v.t.ty = "struct" /\ x.v.t.name \in DOMAIN env.structs
      fields == env.structs[x.v.t.name]
      i == FieldIndex(fields, n.n)
  IN  IF x.v = NoVal \/ ~known THEN Fail(x.ops)
      ELSE IF i = 0 THEN Fail(x.ops)
      ELSE Emit(x.ops, [Operation("field", p) EXCEPT
                          !.t = fields[i].t, !.a = <<x.v>>, !.v = <<i - 1>>])

lowerRepeat(env, n, p) ==
  LET count == resolveBound(env, n.s[1][1], 0)
      x == Operand(env, n, p, 2, NoTy)
  IN  CASE count < 1 -> Fail(<<>>)
        [] count >= 1 /\ x.v.t.ty # "bits" -> Fail(x.ops)
        [] OTHER -> Emit(x.ops, [Operation("repeat", p) EXCEPT
                                   !.t = BitsTy(count * x.v.t.w), !.a = <<x.v>>, !.v = <<count>>])

lowerExpr(env, n, p, hint) ==
  CASE n.k = "LiteralExpr"     -> lowerLiteral(n, p, hint)
    [] n.k = "IdentifierExpr"  -> lowerIdentifier(env, n, p)
    [] n.k = "BinaryExpr"      -> lowerBinary(env, n, p, hint)
    [] n.k = "UnaryExpr"       -> lowerUnary(env, n, p, hint)
    [] n.k = "SignExtendExpr"  -> lowerSignExtend(env, n, p)
    [] n.k = "ZeroExtendExpr"  -> lowerZeroExtend(env, n, p)
    [] n.k = "ConditionalExpr" -> lowerConditional(env, n, p, hint)
    [] n.k = "SliceExpr"       -> lowerSlice(env, n, p)
    [] n.k = "ConcatExpr"      -> lowerConcat(env, n, p)
    [] n.k = "StructCastExpr"  -> lowerStructCast(env, n, p)
    [] n.k = "FieldAccessExpr" -> lowerFieldAccess(env, n, p)
    [] n.k = "RepeatExpr"      -> lowerRepeat(env, n, p)
    [] OTHER -> Fail(<<>>)

-----------------------------------------------------------------------------
(* Declarations and statements.  Made: the tables a visit leaves and what   *)
(* it emits.                                                                *)

Made(env, ops) == [ops |-> ops, env |-> env]

\* What a visit makes, put behind what was made before it.
After(acc, m) == Made(m.env, acc.ops \o m.ops)

\* An operation with one region, built from the visit that filled it.
Region(op, body) == Made(body.env, <<[op EXCEPT !.r = <<body.ops>>]>>)

RECURSIVE visit(_, _, _)

\* The nodes ns, each with its path, in order.
visitAll(env, ns) ==
  FoldLeft(LAMBDA acc, x : After(acc, visit(acc.env, x.n, x.p)), Made(env, <<>>), ns)

KidsOf(n, p, slots) ==
  FlattenSeq([j \in 1 .. Len(slots) |->
    [i \in 1 .. Len(n.s[slots[j]]) |-> [n |-> n.s[slots[j]][i], p |-> Kid(p, slots[j], i)]]])

visitSlots(env, n, p, slots) == visitAll(env, KidsOf(n, p, slots))

\* The braces of a body dissolve into the region of the construct.
lowerActionBody(env, n, p) ==
  IF n.k = "ParallelBlock" THEN visitSlots(env, n, p, <<1, 2>>) ELSE visit(env, n, p)

flatName(parts) ==
  FoldLeft(LAMBDA acc, x : acc \o "." \o x, parts[1], Tail(parts))

\* One operation that becomes the meaning of a name.
Storage(env, name, op) == Made(Named(env, name, Result(op)), <<op>>)

visitRegDecl(env, n, p) ==
  LET init == IF n.s[2] # Null /\ IsDecimal(n.s[2][1])
              THEN <<resolveDecimalLiteral(n.s[2][1])>> ELSE <<>>
  IN  Storage(env, n.n, [Operation("reg", p) EXCEPT
                           !.n = n.n, !.t = BitsTy(resolveWidth(n.s[1])), !.v = init])

visitWireDecl(env, n, p) ==
  Storage(env, n.n, [Operation("wire", p) EXCEPT !.n = n.n, !.t = BitsTy(resolveWidth(n.s[1]))])

visitVariableDecl(env, n, p) ==
  Storage(env, n.n, [Operation("variable", p) EXCEPT !.n = n.n, !.t = BitsTy(resolveWidth(n.s[1]))])

visitMemDecl(env, n, p) ==
  Storage(env, n.n, [Operation("mem", p) EXCEPT
                       !.n = n.n, !.t = MemTy(resolveWidth(n.s[1]), resolveWidth(n.s[2]))])

\* A struct wire is left out.
visitStructInstDecl(env, n, p) ==
  IF n.a.storage # "Reg" THEN Made(env, <<>>)
  ELSE Storage(env, n.n, [Operation("reg", p) EXCEPT !.n = n.n, !.t = StructTy(n.a.type)])

visitStructDecl(env, n, p) ==
  LET field(i) == [Operation("field_decl", p \o <<0, i>>) EXCEPT
                     !.n = n.a[i], !.t = BitsTy(resolveWidth(n.s[i]))]
      fields == [i \in 1 .. Len(n.a) |-> field(i)]
  IN  Made([env EXCEPT !.structs =
              Entry(@, n.n, [i \in 1 .. Len(fields) |-> [name |-> fields[i].n, t |-> fields[i].t]])],
           <<[Operation("struct", p) EXCEPT !.n = n.n, !.r = <<fields>>]>>)

Terminal(env, name, o, p) ==
  Made(Controls(env, name), <<[Operation(o, p) EXCEPT !.n = name]>>)

visitFuncSelfDecl(env, n, p) == Terminal(env, n.n, "func_self", p)

PortOps == "Input" :> "input_port" @@ "Output" :> "output_port" @@ "Inout" :> "inout_port"
TerminalOps == "FuncIn" :> "func_in" @@ "FuncOut" :> "func_out" @@ "FuncSelf" :> "func_self"

PortOp(n, p) ==
  [Operation(PortOps[n.a.dir], p) EXCEPT !.n = n.n, !.t = BitsTy(resolveWidth(n.s[1]))]

\* A port parked by its declare, when the module is entered.
visitPortDecl(env, n, p) ==
  CASE n.a.dir \in DOMAIN TerminalOps -> Terminal(env, n.n, TerminalOps[n.a.dir], p \o <<0>>)
    [] n.a.dir \in DOMAIN PortOps -> Storage(env, n.n, PortOp(n, p \o <<0>>))
    [] OTHER -> Made(env, <<>>)

visitDeclareBlock(env, n, p) ==
  LET ports == KidsOf(n, p, <<2>>)
      data == SelectSeq(ports, LAMBDA x : x.n.a.dir \in DOMAIN PortOps)
      parked == SelectSeq(ports, LAMBDA x : x.n.a.dir # "Wire")
      names == SelectSeq(<<n.a.clk, n.a.rst>>, LAMBDA x : x # NoName)
      earlier == IF n.n \in DOMAIN env.pending THEN env.pending[n.n] ELSE <<>>
  IN  Made([env EXCEPT !.pending = Entry(@, n.n, earlier \o parked)],
           <<[Operation("declare", p) EXCEPT
                !.n = n.n, !.x = IF n.a.mod = "Interface" THEN names ELSE <<>>,
                !.r = <<[i \in 1 .. Len(data) |-> PortOp(data[i].n, data[i].p)]>>]>>)

\* The parked ports, then internals, funcs, procs and actions.  Ports that a
\* later declare parks under this name are not seen.
visitModuleBlock(env, n, p) ==
  LET ports == IF n.n \in DOMAIN env.pending THEN env.pending[n.n] ELSE <<>>
      inside == [env EXCEPT
                   !.module = n,
                   !.pending = [d \in DOMAIN @ \ {n.n} |-> @[d]]]
      body == visitAll(inside, ports \o KidsOf(n, p, <<1, 2, 3, 4>>))
  IN  Region([Operation("module", p) EXCEPT !.n = n.n],
             Made([body.env EXCEPT !.module = env.module], body.ops))

visitFuncDefn(env, n, p) ==
  Region([Operation("func", p) EXCEPT !.n = flatName(n.n)],
         lowerActionBody(env, n.s[1][1], Kid(p, 1, 1)))

visitProcDefn(env, n, p) ==
  LET body == lowerActionBody([env EXCEPT !.proc = n], n.s[1][1], Kid(p, 1, 1))
  IN  Region([Operation("proc", p) EXCEPT !.n = n.n],
             Made([body.env EXCEPT !.proc = env.proc], body.ops))

visitStateDefn(env, n, p) ==
  Region([Operation("state", p) EXCEPT !.n = n.n],
         lowerActionBody(env, n.s[1][1], Kid(p, 1, 1)))

visitFirstStateDecl(env, n, p) ==
  Made(env, <<[Operation("first_state", p) EXCEPT !.ref = n.n]>>)

\* slot 3: the procs of a module; slot 1: the declarations of a block.
moduleHasProcBody(m, name) ==
  \E i \in 1 .. Len(m.s[3]) : m.s[3][i].k = "ProcDefn" /\ m.s[3][i].n = name

procHasStateBody(proc, name) ==
  LET body == proc.s[1][1]
  IN  /\ body.k = "ParallelBlock"
      /\ \E i \in 1 .. Len(body.s[1]) : body.s[1][i].k = "StateDefn" /\ body.s[1][i].n = name

visitProcNameDecl(env, n, p) ==
  Made(IF env.module # NoNode /\ moduleHasProcBody(env.module, n.n)
       THEN Controls(env, n.n) ELSE env, <<>>)

visitStateNameDecl(env, n, p) ==
  Made(IF env.proc = NoNode THEN env
       ELSE [env EXCEPT !.control = @ \cup
               {x \in ToSet(n.a) : procHasStateBody(env.proc, x)}], <<>>)

visitTopLevelParamDecl(env, n, p) ==
  LET value == IF n.s[1] = Null THEN 0 ELSE resolveDecimalLiteral(n.s[1][1])
      text == IF n.s[1] = Null THEN "" ELSE unquoteStringLiteral(n.s[1][1])
      op(o, v, x) == <<[Operation(o, p) EXCEPT !.n = n.n, !.v = v, !.x = x]>>
  IN  CASE n.n = NoName -> Made(env, <<>>)
        [] n.n # NoName /\ n.a = "Int" ->
             Made([env EXCEPT !.params = Entry(@, n.n, value)], op("param_int", <<value>>, <<>>))
        [] OTHER -> Made(env, op("param_str", <<>>, <<text>>))

visitInitBlockStmt(env, n, p) ==
  Region(Operation("sim_init", p), visitSlots(env, n, p, <<1>>))

visitDelayTaskStmt(env, n, p) ==
  Made(env, <<[Operation("sim_delay", p) EXCEPT !.v = <<resolveDecimalLiteral(n.s[1][1])>>]>>)

\* The text of a first argument that is a string; the others are dropped.
visitSystemTaskStmt(env, n, p) ==
  LET text == IF n.s[1] = <<>> THEN "" ELSE unquoteStringLiteral(n.s[1][1])
      op(o) == <<[Operation(o, p) EXCEPT !.n = text]>>
  IN  Made(env, CASE n.n = "_finish"  -> op("sim_finish")
                  [] n.n = "_display" -> op("sim_display")
                  [] OTHER -> <<>>)

visitBareFinishStmt(env, n, p) == Made(env, <<Operation("finish", p)>>)

visitSeqBlock(env, n, p) ==
  Region(Operation("seq", p), visitSlots(env, n, p, <<1, 2>>))

visitParallelBlock(env, n, p) ==
  Region(Operation("parallel", p), visitSlots(env, n, p, <<1, 2>>))

Transfer(env, n, p, l, r) ==
  LET o == IF n.a = "RegColonEq" THEN "clocked_transfer" ELSE "transfer"
  IN  Made(env, IF l.v = NoVal THEN l.ops
                ELSE IF r.v = NoVal THEN l.ops \o r.ops
                ELSE l.ops \o r.ops \o <<[Operation(o, p) EXCEPT !.a = <<l.v, r.v>>]>>)

TransferTo(env, n, p, l) == Transfer(env, n, p, l, Operand(env, n, p, 2, l.v.t))

visitTransferStmt(env, n, p) == TransferTo(env, n, p, Operand(env, n, p, 1, NoTy))

Call(env, n, p, args) ==
  LET call == [Operation("call", p) EXCEPT !.ref = flatName(n.n), !.a = args.vs]
  IN  Made(env, IF args.ok THEN Append(args.ops, call) ELSE args.ops)

visitControlCallStmt(env, n, p) ==
  Call(env, n, p, Operands(env, n, p, 1, {"bits", "struct", "mem"}))

\* A case whose condition c has no value is skipped; what the condition
\* emitted stays in the block.
Case(env, p, c, body) ==
  IF c.v = NoVal THEN Made(env, c.ops)
  ELSE After(c, Region([Operation("case", p \o <<0>>) EXCEPT !.a = <<c.v>>], body))

lowerCases(env, n, p) ==
  FoldLeft(LAMBDA acc, i :
             After(acc, Case(acc.env, Kid(p, 1, 2 * i),
                             lowerExpr(acc.env, n.s[1][2 * i - 1], Kid(p, 1, 2 * i - 1), BitsTy(1)),
                             lowerActionBody(acc.env, n.s[1][2 * i], Kid(p, 1, 2 * i)))),
           Made(env, <<>>), [i \in 1 .. Len(n.s[1]) \div 2 |-> i])

lowerDefault(cases, n, p) ==
  IF n.s[2] = Null THEN cases
  ELSE After(cases, Region(Operation("default", Kid(p, 2, 1) \o <<0>>),
                           lowerActionBody(cases.env, n.s[2][1], Kid(p, 2, 1))))

\* A block left without a case and without a default is erased.
Choice(op, body) ==
  IF \E i \in 1 .. Len(body.ops) : body.ops[i].o \in {"case", "default"}
  THEN Region(op, body) ELSE Made(body.env, <<>>)

visitAltBlock(env, n, p) ==
  Choice(Operation("alt", p), lowerDefault(lowerCases(env, n, p), n, p))

visitAnyBlock(env, n, p) ==
  Choice(Operation("any", p), lowerDefault(lowerCases(env, n, p), n, p))

visitIfStmt(env, n, p) ==
  LET c == Operand(env, n, p, 1, BitsTy(1))
      t == lowerActionBody(env, n.s[2][1], Kid(p, 2, 1))
      e == IF n.s[3] = Null THEN Made(t.env, <<>>)
           ELSE lowerActionBody(t.env, n.s[3][1], Kid(p, 3, 1))
  IN  IF c.v = NoVal THEN Made(env, c.ops)
      ELSE Made(e.env, Append(c.ops, [Operation("if", p) EXCEPT
                                        !.a = <<c.v>>, !.r = <<t.ops, e.ops>>]))

visitWhileBlock(env, n, p) ==
  LET c == Operand(env, n, p, 1, BitsTy(1))
      body == visitSlots(env, n, p, <<2>>)
      while == Region([Operation("while", p) EXCEPT !.a = <<c.v>>], body)
  IN  IF c.v = NoVal THEN Made(env, c.ops) ELSE Made(while.env, c.ops \o while.ops)

\* The operand that a form of a for loop names: the left side of a transfer
\* or the target of an increment.
FormTarget(env, n, p, slot) ==
  LET form == n.s[slot][1]
  IN  lowerExpr(env, form.s[1][1], Kid(Kid(p, slot, 1), 1, 1), NoTy)

ForLoop(env, n, p, init, cond, step) ==
  LET ops == init.ops \o cond.ops
      loop(before, operands) ==
        After(Made(env, before), Region([Operation("for", p) EXCEPT !.a = operands],
                                        visitSlots(env, n, p, <<4>>)))
  IN  IF init.v = NoVal \/ cond.v = NoVal THEN Made(env, ops)
      ELSE IF n.s[3] = Null THEN loop(ops, <<init.v, cond.v>>)
      ELSE IF n.s[3][1].k \notin {"TransferStmt", "IncDecStmt"} THEN Made(env, ops)
      ELSE IF step.v = NoVal THEN Made(env, ops \o step.ops)
      ELSE loop(ops \o step.ops, <<init.v, cond.v, step.v>>)

visitForBlock(env, n, p) ==
  IF n.s[1][1].k # "TransferStmt" THEN Made(env, <<>>)
  ELSE ForLoop(env, n, p, FormTarget(env, n, p, 1), Operand(env, n, p, 2, BitsTy(1)),
               FormTarget(env, n, p, 3))

\* The bounds are read off the right sides of the condition and the step,
\* whatever their operators are.
visitStructuralGenerate(env, n, p) ==
  LET lower == IF n.s[1] = Null THEN 0 ELSE resolveBound(env, n.s[1][1], 0)
      cond  == n.s[2][1]
      upper == resolveBound(env, IF cond.k = "BinaryExpr" THEN cond.s[2][1] ELSE cond, 0)
      step  == n.s[3][1]
      by    == IF step.k = "BinaryExpr" THEN resolveBound(env, step.s[2][1], 1) ELSE 1
  IN  Region([Operation("structural_generate", p) EXCEPT
                !.n = n.n, !.v = <<lower, upper, IF by = 0 THEN 1 ELSE by>>],
             lowerActionBody(env, n.s[4][1], Kid(p, 4, 1)))

visit(env, n, p) ==
  CASE n.k = "ModuleBlock"         -> visitModuleBlock(env, n, p)
    [] n.k = "DeclareBlock"        -> visitDeclareBlock(env, n, p)
    [] n.k = "StructDecl"          -> visitStructDecl(env, n, p)
    [] n.k = "TopLevelParamDecl"   -> visitTopLevelParamDecl(env, n, p)
    [] n.k = "PortDecl"            -> visitPortDecl(env, n, p)
    [] n.k = "RegDecl"             -> visitRegDecl(env, n, p)
    [] n.k = "WireDecl"            -> visitWireDecl(env, n, p)
    [] n.k = "VariableDecl"        -> visitVariableDecl(env, n, p)
    [] n.k = "MemDecl"             -> visitMemDecl(env, n, p)
    [] n.k = "StructInstDecl"      -> visitStructInstDecl(env, n, p)
    [] n.k = "FuncSelfDecl"        -> visitFuncSelfDecl(env, n, p)
    [] n.k = "ProcNameDecl"        -> visitProcNameDecl(env, n, p)
    [] n.k = "StateNameDecl"       -> visitStateNameDecl(env, n, p)
    [] n.k = "FirstStateDecl"      -> visitFirstStateDecl(env, n, p)
    [] n.k = "FuncDefn"            -> visitFuncDefn(env, n, p)
    [] n.k = "ProcDefn"            -> visitProcDefn(env, n, p)
    [] n.k = "StateDefn"           -> visitStateDefn(env, n, p)
    [] n.k = "InitBlockStmt"       -> visitInitBlockStmt(env, n, p)
    [] n.k = "DelayTaskStmt"       -> visitDelayTaskStmt(env, n, p)
    [] n.k = "SystemTaskStmt"      -> visitSystemTaskStmt(env, n, p)
    [] n.k = "BareFinishStmt"      -> visitBareFinishStmt(env, n, p)
    [] n.k = "SeqBlock"            -> visitSeqBlock(env, n, p)
    [] n.k = "ParallelBlock"       -> visitParallelBlock(env, n, p)
    [] n.k = "TransferStmt"        -> visitTransferStmt(env, n, p)
    [] n.k = "ControlCallStmt"     -> visitControlCallStmt(env, n, p)
    [] n.k = "AltBlock"            -> visitAltBlock(env, n, p)
    [] n.k = "AnyBlock"            -> visitAnyBlock(env, n, p)
    [] n.k = "IfStmt"              -> visitIfStmt(env, n, p)
    [] n.k = "WhileBlock"          -> visitWhileBlock(env, n, p)
    [] n.k = "ForBlock"            -> visitForBlock(env, n, p)
    [] n.k = "StructuralGenerate"  -> visitStructuralGenerate(env, n, p)
    [] OTHER -> Made(env, <<>>)
=============================================================================
