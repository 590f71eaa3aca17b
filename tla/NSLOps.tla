------------------------------- MODULE NSLOps -------------------------------
(* The nsl dialect (lib/Dialect/NSL/IR): its types, its operations with     *)
(* their traits, and the verifier that the pass manager runs after a pass.  *)
(*                                                                          *)
(* An operation is a record: o its mnemonic, id the identity of its result, *)
(* n its name (a StringAttr: sym_name, name, format, loop_var), x its other *)
(* StringAttrs, ref its FlatSymbolRefAttr, t its result type, a its         *)
(* operands, v its integer attributes and r its regions, each a sequence of *)
(* operations.  An operand is a value: the id and type of the operation     *)
(* that defines it, and whether that is a register or a field of one.       *)
EXTENDS Integers, Sequences, FiniteSets, TLC, SequencesExt, FiniteSetsExt

NoTy == [ty |-> "none", w |-> 0]
BitsTy(w) == [ty |-> "bits", w |-> w]
StructTy(name) == [ty |-> "struct", w |-> 0, name |-> name]
MemTy(depth, w) == [ty |-> "mem", w |-> w, depth |-> depth]

NoVal == [id |-> <<>>, t |-> NoTy, reg |-> FALSE]

Operation(o, id) ==
  [o |-> o, id |-> id, n |-> "", x |-> <<>>, ref |-> "", t |-> NoTy, a |-> <<>>,
   v |-> <<>>, r |-> <<>>]

\* What is left of a symbol reference that was replaced by an integer.
IntegerRef == "<integer>"

\* isRegLikeValue: the result of a reg, or a field of such a value.
isRegLike(op) == op.o = "reg" \/ (op.o = "field" /\ op.a[1].reg)

Result(op) == [id |-> op.id, t |-> op.t, reg |-> isRegLike(op)]

-----------------------------------------------------------------------------
(* Operation definitions (NSLOps.td): the parents a trait admits ({} for    *)
(* any), the classes of the fixed operands, of further operands and of the  *)
(* result, and the traits that relate types and names.                      *)

Def(parents, ins, rest, out, traits) ==
  [parents |-> parents, ins |-> ins, rest |-> rest, out |-> out, traits |-> traits]

Data == {"bits", "struct"}
Bits == {"bits"}
None == {"none"}

StructuralDefs ==
  "module" :> Def({"builtin"}, <<>>, {}, None, {"Symbol", "SymbolTable"}) @@
  "struct" :> Def({"builtin", "module"}, <<>>, {}, None, {"Symbol"}) @@
  "submodule" :> Def({"module"}, <<>>, {}, None, {"Symbol"}) @@
  "connect" :> Def({"module"}, <<Data, Data>>, {}, None, {"SameTypeOperands"})

DeclareDefs ==
  "declare" :> Def({"builtin"}, <<>>, {}, None, {}) @@
  [o \in {"input_port", "output_port", "inout_port"} |->
     Def({"declare", "module"}, <<>>, {}, Bits, {})]

ParamDefs ==
  [o \in {"param_int", "param_str"} |-> Def({"builtin"}, <<>>, {}, None, {"Symbol"})]

StorageDefs ==
  "reg" :> Def({"module", "proc", "structural_generate"}, <<>>, {}, Data, {}) @@
  "wire" :> Def({"module", "func"}, <<>>, {}, Bits, {}) @@
  "variable" :> Def({"module", "func"}, <<>>, {}, Data, {}) @@
  "mem" :> Def({"module"}, <<>>, {}, {"mem"}, {}) @@
  "constant" :> Def({}, <<>>, {}, Bits, {})

ArithDefs ==
  [o \in {"add", "sub", "mul", "and", "or", "xor", "shl", "shr"} |->
     Def({}, <<Bits, Bits>>, {}, Bits, {"SameOperandsAndResultType"})]

CompareDefs ==
  [o \in {"eq", "ne", "lt", "le", "gt", "ge", "land", "lor"} |->
     Def({}, <<Bits, Bits>>, {}, Bits, {"SameTypeOperands"})]

UnaryDefs ==
  [o \in {"not", "neg"} |-> Def({}, <<Bits>>, {}, Bits, {"SameOperandsAndResultType"})] @@
  [o \in {"lnot", "reduce_and", "reduce_or", "reduce_xor"} |->
     Def({}, <<Bits>>, {}, Bits, {})]

ShapeDefs ==
  [o \in {"sign_extend", "zero_extend", "extract", "repeat"} |->
     Def({}, <<Bits>>, {}, Bits, {})] @@
  "mux" :> Def({}, <<Bits, Data, Data>>, {}, Data, {}) @@
  "concat" :> Def({}, <<>>, Bits, Bits, {})

TerminalDefs ==
  "func_in" :> Def({"module"}, <<>>, Data, Data \cup None, {}) @@
  [o \in {"func_out", "func_self"} |-> Def({"module"}, <<>>, Data, None, {})]

BlockDefs ==
  [o \in {"alt", "any", "parallel"} |-> Def({}, <<>>, {}, None, {})] @@
  [o \in {"if", "while"} |-> Def({}, <<Bits>>, {}, None, {})] @@
  "seq" :> Def({"func", "proc", "state"}, <<>>, {}, None, {}) @@
  "for" :> Def({}, <<Data, Bits>>, Data, None, {})

AtomicDefs ==
  "case" :> Def({"alt", "any"}, <<Bits>>, {}, None, {}) @@
  "default" :> Def({"alt", "any"}, <<>>, {}, None, {}) @@
  [o \in {"transfer", "clocked_transfer"} |->
     Def({}, <<Data, Data>>, {}, None, {"SameTypeOperands"})] @@
  "incdec" :> Def({}, <<Bits>>, {}, None, {}) @@
  [o \in {"call", "invoke_method"} |-> Def({}, <<>>, Data, Data \cup None, {})] @@
  [o \in {"finish", "finish_method"} |-> Def({}, <<>>, {}, None, {})]

ProcDefs ==
  "proc" :> Def({"module"}, <<>>, {}, None, {"Symbol", "SymbolTable"}) @@
  "first_state" :> Def({"proc"}, <<>>, {}, None, {}) @@
  "state" :> Def({"module", "proc"}, <<>>, {}, None, {"Symbol"}) @@
  "func" :> Def({"module"}, <<>>, {}, None, {"Symbol"}) @@
  "goto" :> Def({}, <<>>, {}, None, {})

SimDefs ==
  "sim_init" :> Def({"module"}, <<>>, {}, None, {}) @@
  "sim_display" :> Def({"module", "sim_init"}, <<>>, Data, None, {}) @@
  [o \in {"sim_finish", "sim_delay"} |-> Def({"module", "sim_init"}, <<>>, {}, None, {})]

MarkerDefs ==
  "fire_probe" :> Def({}, <<>>, {}, None, {}) @@
  "struct_cast" :> Def({}, <<Data>>, {}, Data, {}) @@
  "field" :> Def({}, <<{"struct"}>>, {}, Data, {}) @@
  "field_decl" :> Def({"struct"}, <<>>, {}, Data, {}) @@
  "structural_generate" :> Def({}, <<>>, {}, None, {})

OpDefs ==
  StructuralDefs @@ DeclareDefs @@ ParamDefs @@ StorageDefs @@ ArithDefs @@
  CompareDefs @@ UnaryDefs @@ ShapeDefs @@ TerminalDefs @@ BlockDefs @@
  AtomicDefs @@ ProcDefs @@ SimDefs @@ MarkerDefs

SymbolOps == {o \in DOMAIN OpDefs : "Symbol" \in OpDefs[o].traits}
SymbolTables == {"builtin"} \cup {o \in DOMAIN OpDefs : "SymbolTable" \in OpDefs[o].traits}

-----------------------------------------------------------------------------
(* Lookups the verifiers make.  up is the chain of the operations around    *)
(* one, outermost (the builtin module) first.                               *)

Body(op) == op.r[1]

NoOp == Operation("none", <<>>)

\* The first operation of block that satisfies P, or NoOp.
FirstOp(block, P(_)) ==
  LET found == SelectSeq(block, P) IN IF found = <<>> THEN NoOp ELSE found[1]

\* getParentOfType.
Around(up, o) ==
  LET is == {i \in 1 .. Len(up) : up[i].o = o} IN IF is = {} THEN NoOp ELSE up[Max(is)]

Enclosed(up, o) == Around(up, o) # NoOp

nearestSymTable(up) == up[Max({i \in 1 .. Len(up) : up[i].o \in SymbolTables})]

lookupSymbolIn(table, name) ==
  FirstOp(Body(table), LAMBDA c : c.o \in SymbolOps /\ c.n = name)

StructOf(up, ty) ==
  LET s == lookupSymbolIn(nearestSymTable(up), ty.name)
  IN  IF s.o = "struct" THEN s ELSE NoOp

fieldDecls(s) == SelectSeq(Body(s), LAMBDA c : c.o = "field_decl")

\* -1 when the struct is not found or a field is itself a struct.
computeStructTotalWidth(up, ty) ==
  LET s == StructOf(up, ty)
      fs == fieldDecls(s)
  IN  IF s = NoOp THEN -1
      ELSE IF \E i \in 1 .. Len(fs) : fs[i].t.ty # "bits" THEN -1
      ELSE FoldLeft(LAMBDA acc, f : acc + f.t.w, 0, fs)

-----------------------------------------------------------------------------
(* The hand-written verifiers (NSLOps.cpp).                                 *)

verifyModuleOp(op, up) == op.n # ""

\* No struct reaches itself through the struct types of its fields.
verifyStructOp(op, up) ==
  LET table == Body(nearestSymTable(up))
      structs == {c.n : c \in {d \in ToSet(table) : d.o = "struct"}}
      named(x) == FirstOp(table, LAMBDA c : c.o = "struct" /\ c.n = x)
      uses(x) == {f.t.name : f \in {g \in ToSet(Body(named(x))) : g.t.ty = "struct"}} \cap structs
      Reach[k \in 0 .. Cardinality(structs)] ==
        IF k = 0 THEN uses(op.n) ELSE Reach[k - 1] \cup UNION {uses(x) : x \in Reach[k - 1]}
  IN  op.n # "" /\ op.n \notin Reach[Cardinality(structs)]

verifyConnectOp(op, up) == op.a[1].t = op.a[2].t

\* x holds the clock and the reset of the interface modifier.
verifyDeclareOp(op, up) ==
  /\ op.n # ""
  /\ \A i \in 1 .. Len(Body(op)) : Body(op)[i].o \in {"input_port", "output_port", "inout_port"}
  /\ Len(op.x) \in {0, 2}
  /\ \A i \in 1 .. Len(op.x) : op.x[i] # ""

verifyConstantOp(op, up) == op.t.w >= 31 \/ op.v[1] < 2 ^ op.t.w

verifyCmpResultWidth1(op, up) == op.t.w = 1

verifyLogical(op, up) == op.t.w = 1 /\ \A i \in 1 .. Len(op.a) : op.a[i].t.w = 1

verifyExtendWidthsMonotonic(op, up) == op.t.w >= op.a[1].t.w

verifyMuxOp(op, up) ==
  op.a[1].t = BitsTy(1) /\ op.a[2].t = op.a[3].t /\ op.t = op.a[2].t

verifyConcatOp(op, up) ==
  op.a # <<>> /\ op.t.w = FoldLeft(LAMBDA acc, x : acc + x.t.w, 0, op.a)

verifyExtractOp(op, up) == op.v[1] >= 0 /\ op.v[1] + op.t.w <= op.a[1].t.w

verifyRepeatOp(op, up) == op.v[1] >= 1 /\ op.t.w = op.v[1] * op.a[1].t.w

verifyAltOp(op, up) == \E i \in 1 .. Len(Body(op)) : Body(op)[i].o \in {"case", "default"}

verifyAnyOp(op, up) == \E i \in 1 .. Len(Body(op)) : Body(op)[i].o \in {"case", "default"}

verifyWhileOp(op, up) == Enclosed(up, "seq")

verifyForOp(op, up) == Enclosed(up, "seq") /\ Len(op.a) <= 3

verifyClockedTransferOp(op, up) == op.a[1].reg

verifyIncDecOp(op, up) == op.a[1].reg /\ op.v[1] \in 0 .. 3

Terminals == {"func_in", "func_out", "func_self"}

\* The first control terminal of the module that has the callee's name takes
\* as many arguments; an unknown callee is let through.
verifyCallOp(op, up) ==
  LET m == Around(up, "module")
      callee == FirstOp(Body(m), LAMBDA c : c.o \in Terminals /\ c.n = op.ref)
  IN  m # NoOp /\ callee # NoOp => Len(callee.a) = Len(op.a)

verifyFinishOp(op, up) == Enclosed(up, "proc")

verifyProcOp(op, up) ==
  /\ op.n # ""
  /\ Len(SelectSeq(Body(op), LAMBDA c : c.o = "first_state")) <= 1

\* A name that means something other than a state in the proc, or failing a
\* state there in the module, is an error; so is a name that means nothing.
verifyFirstStateOp(op, up) ==
  LET p == Around(up, "proc")
      inProc == lookupSymbolIn(p, op.ref)
      inModule == lookupSymbolIn(Around(up, "module"), op.ref)
  IN  inProc.o = "state" \/ (inProc = NoOp /\ inModule.o = "state")

verifyGotoOp(op, up) ==
  LET inProc == Enclosed(up, "proc") /\ lookupSymbolIn(Around(up, "proc"), op.ref).o = "state"
      inModule == /\ Enclosed(up, "module")
                  /\ lookupSymbolIn(Around(up, "module"), op.ref).o = "state"
  IN  IF Enclosed(up, "state") THEN inProc \/ inModule ELSE Enclosed(up, "seq")

verifyFireProbeOp(op, up) ==
  LET m == Around(up, "module")
  IN  \/ m = NoOp
      \/ \E i \in 1 .. Len(Body(m)) : Body(m)[i].o \in Terminals /\ Body(m)[i].n = op.ref
      \/ lookupSymbolIn(m, op.ref).o \in {"proc", "state"}
      \/ Enclosed(up, "proc") /\ lookupSymbolIn(Around(up, "proc"), op.ref).o = "state"

\* Widths are compared only when the struct is found.
verifyStructCastOp(op, up) ==
  LET src == op.a[1].t
      total(ty) == computeStructTotalWidth(up, ty)
  IN  CASE src.ty = "bits" /\ op.t.ty = "bits" -> src.w = op.t.w
        [] src.ty = "bits" /\ op.t.ty = "struct" -> total(op.t) \in {-1, src.w}
        [] src.ty = "struct" /\ op.t.ty = "bits" -> total(src) \in {-1, op.t.w}
        [] OTHER -> TRUE

\* So are the index and the type of a field.
verifyFieldOp(op, up) ==
  LET s == StructOf(up, op.a[1].t)
      fs == fieldDecls(s)
  IN  s # NoOp => op.v[1] < Len(fs) /\ fs[op.v[1] + 1].t = op.t

verifyStructuralGenerateOp(op, up) == op.v[3] # 0

verifyOwn(op, up) ==
  CASE op.o = "module" -> verifyModuleOp(op, up)
    [] op.o = "struct" -> verifyStructOp(op, up)
    [] op.o = "connect" -> verifyConnectOp(op, up)
    [] op.o = "declare" -> verifyDeclareOp(op, up)
    [] op.o = "constant" -> verifyConstantOp(op, up)
    [] op.o \in {"eq", "ne", "lt", "le", "gt", "ge", "reduce_and", "reduce_or",
                 "reduce_xor"} -> verifyCmpResultWidth1(op, up)
    [] op.o \in {"land", "lor", "lnot"} -> verifyLogical(op, up)
    [] op.o \in {"sign_extend", "zero_extend"} -> verifyExtendWidthsMonotonic(op, up)
    [] op.o = "mux" -> verifyMuxOp(op, up)
    [] op.o = "concat" -> verifyConcatOp(op, up)
    [] op.o = "extract" -> verifyExtractOp(op, up)
    [] op.o = "repeat" -> verifyRepeatOp(op, up)
    [] op.o = "alt" -> verifyAltOp(op, up)
    [] op.o = "any" -> verifyAnyOp(op, up)
    [] op.o = "while" -> verifyWhileOp(op, up)
    [] op.o = "for" -> verifyForOp(op, up)
    [] op.o = "clocked_transfer" -> verifyClockedTransferOp(op, up)
    [] op.o = "incdec" -> verifyIncDecOp(op, up)
    [] op.o = "call" -> verifyCallOp(op, up)
    [] op.o = "finish" -> verifyFinishOp(op, up)
    [] op.o = "proc" -> verifyProcOp(op, up)
    [] op.o = "first_state" -> verifyFirstStateOp(op, up)
    [] op.o = "goto" -> verifyGotoOp(op, up)
    [] op.o = "fire_probe" -> verifyFireProbeOp(op, up)
    [] op.o = "struct_cast" -> verifyStructCastOp(op, up)
    [] op.o = "field" -> verifyFieldOp(op, up)
    [] op.o = "structural_generate" -> verifyStructuralGenerateOp(op, up)
    [] OTHER -> TRUE

-----------------------------------------------------------------------------
(* MLIR's own part of verification: operand and result constraints, the     *)
(* traits, unique names in a symbol table, and dominance.                   *)

verifyTraits(op, up) ==
  LET d == OpDefs[op.o]
      types == {x.t : x \in ToSet(op.a)}
  IN  /\ d.parents # {} => Last(up).o \in d.parents
      /\ Len(op.a) >= Len(d.ins)
      /\ \A i \in 1 .. Len(op.a) :
           op.a[i].t.ty \in (IF i <= Len(d.ins) THEN d.ins[i] ELSE d.rest)
      /\ op.t.ty \in d.out
      /\ op.ref # IntegerRef
      /\ "SameTypeOperands" \in d.traits => Cardinality(types) = 1
      /\ "SameOperandsAndResultType" \in d.traits => types = {op.t}

UniqueSymbols(op) ==
  op.o \in SymbolTables =>
    LET names == SelectSeq(Body(op), LAMBDA c : c.o \in SymbolOps)
    IN  \A i, j \in 1 .. Len(names) : names[i].n = names[j].n => i = j

\* seen: the values that dominate the start of the block.
RECURSIVE verifyBlock(_, _, _)
verifyBlock(block, up, seen) ==
  \A i \in 1 .. Len(block) :
    LET op == block[i]
        before == seen \cup {block[j].id : j \in 1 .. i - 1}
    IN  /\ \A k \in 1 .. Len(op.a) : op.a[k].id \in before
        /\ verifyTraits(op, up)
        /\ UniqueSymbols(op)
        /\ verifyOwn(op, up)
        /\ \A k \in 1 .. Len(op.r) : verifyBlock(op.r[k], Append(up, op), before)

Builtin(ops) == [Operation("builtin", <<0>>) EXCEPT !.r = <<ops>>]

\* ops: the body of the builtin module.
verify(ops) ==
  UniqueSymbols(Builtin(ops)) /\ verifyBlock(ops, <<Builtin(ops)>>, {})

-----------------------------------------------------------------------------
(* Walking a tree of operations.                                            *)

RECURSIVE OpsIn(_)
OpsIn(block) ==
  UNION {{block[i]} \cup UNION {OpsIn(block[i].r[k]) : k \in 1 .. Len(block[i].r)} :
           i \in 1 .. Len(block)}
=============================================================================
