-------------------------- MODULE StructuralPasses --------------------------
(* The six passes over the nsl dialect (lib/Lower/Pass) that run between    *)
(* the lowering of the tree and the conversion to CIRCT.                    *)
(*                                                                          *)
(* A pass maps the body of the builtin module to a Rewrite: the new body    *)
(* and whether the pass signalled failure.  The pass manager then verifies  *)
(* the body and runs the next pass only when both went well.                *)
EXTENDS NSLOps

CONSTANT Spliced        \* the texts that hold splices, each with its splices

ASSUME SplicedAssumption ==
  \A text \in DOMAIN Spliced : \A s \in Spliced[text] :
    DOMAIN s = {"pre", "var", "post"}

Rewrite(ops, ok) == [ops |-> ops, ok |-> ok]

\* The regions of an operation rewritten block by block.
InRegions(op, F(_)) == [op EXCEPT !.r = [k \in 1 .. Len(op.r) |-> F(op.r[k])]]

-----------------------------------------------------------------------------
(* Slot 1, nsl-resolve-params: a symbol reference to an integer parameter   *)
(* becomes an integer attribute.  No operation admits one in that place.    *)

RECURSIVE replaceRefs(_, _)
replaceRefs(block, params) ==
  [i \in 1 .. Len(block) |->
     LET op == InRegions(block[i], LAMBDA b : replaceRefs(b, params))
     IN  IF op.ref \in params THEN [op EXCEPT !.ref = IntegerRef] ELSE op]

resolveParams(ops) ==
  LET params == {ops[i].n : i \in {j \in 1 .. Len(ops) : ops[j].o = "param_int"}}
  IN  Rewrite(replaceRefs(ops, params), TRUE)

-----------------------------------------------------------------------------
(* Slot 2, nsl-expand-generate: a structural_generate is replaced by one    *)
(* copy of its body for each value of the loop variable, innermost first.   *)

Splices(text) == IF text \in DOMAIN Spliced THEN Spliced[text] ELSE {}

\* A splice of the variable is replaced by the decimal of its value.
substituteLoopVar(text, var, value) ==
  LET own == {s \in Splices(text) : s.var = var}
  IN  IF own = {} THEN text
      ELSE LET s == CHOOSE x \in own : TRUE IN s.pre \o ToString(value) \o s.post

\* Only StringAttrs are rewritten, in the copy and in every region under it;
\* symbol references keep their splices.
RECURSIVE substituteLoopVarInBlock(_, _, _)
substituteLoopVarInBlock(block, var, value) ==
  [i \in 1 .. Len(block) |->
     LET op == InRegions(block[i], LAMBDA b : substituteLoopVarInBlock(b, var, value))
     IN  [op EXCEPT !.n = substituteLoopVar(@, var, value),
                    !.x = [k \in 1 .. Len(@) |-> substituteLoopVar(@[k], var, value)]]]

CloneId(id, k) == Append(id, -1 - k)

\* op.clone: operands defined in the body are mapped to their copies.
RECURSIVE clone(_, _, _)
clone(block, k, own) ==
  [i \in 1 .. Len(block) |->
     LET op == InRegions(block[i], LAMBDA b : clone(b, k, own))
     IN  [op EXCEPT
            !.id = CloneId(@, k),
            !.a = [j \in 1 .. Len(@) |->
                     IF @[j].id \in own THEN [@[j] EXCEPT !.id = CloneId(@, k)] ELSE @[j]]]]

\* The division is not rounded up.
copiesRoundedDown(lower, upper, step) ==
  CASE step > 0 /\ upper > lower -> (upper - lower) \div step
    [] step < 0 /\ lower > upper -> (lower - upper) \div (-step)
    [] OTHER -> 0

\* How many copies: upper is exclusive.
copies(lower, upper, step) ==
  CASE step > 0 /\ upper > lower -> (upper - lower + step - 1) \div step
    [] step < 0 /\ lower > upper -> (lower - upper + (-step) - 1) \div (-step)
    [] OTHER -> 0

expandGen(gen, body) ==
  LET own == {op.id : op \in OpsIn(body)}
      copy(k) == substituteLoopVarInBlock(clone(body, k, own), gen.n, gen.v[1] + k * gen.v[3])
  IN  FlattenSeq([k \in 1 .. copies(gen.v[1], gen.v[2], gen.v[3]) |-> copy(k - 1)])

RECURSIVE expandBlock(_)
expandBlock(block) ==
  FlattenSeq([i \in 1 .. Len(block) |->
    IF block[i].o = "structural_generate"
    THEN expandGen(block[i], expandBlock(Body(block[i])))
    ELSE <<InRegions(block[i], expandBlock)>>])

expandGenerate(ops) == Rewrite(expandBlock(ops), TRUE)

-----------------------------------------------------------------------------
(* Slot 3, nsl-expand-variables: each whole write of a variable directly in *)
(* a module or func gets a wire of its own, and every later use in source   *)
(* order reads the latest wire.                                             *)

isVariableWriteOp(op) == op.o \in {"transfer", "clocked_transfer"}

WireParents == {"module", "func"}

\* The order of the walk: the regions of an operation, then the operation,
\* each with the kind of its parent.
RECURSIVE PostOrder(_, _)
PostOrder(block, parent) ==
  FlattenSeq([i \in 1 .. Len(block) |->
    Append(FlattenSeq([k \in 1 .. Len(block[i].r) |-> PostOrder(block[i].r[k], block[i].o)]),
           [op |-> block[i], parent |-> parent])])

\* The writes of the variable that get a wire, in that order.
Versions(block, parent, var) ==
  SelectSeq(PostOrder(block, parent), LAMBDA x :
    isVariableWriteOp(x.op) /\ x.parent \in WireParents /\ x.op.a[1].id = var.id)

versionWire(var, op, k) ==
  [Operation("wire", Append(op.id, 0)) EXCEPT
     !.n = IF k = 1 THEN var.n ELSE var.n \o "_" \o ToString(k - 1), !.t = var.t]

\* wires: the new wires by the identity of the write they precede; cur: what
\* a use in each operation reads.  The destination of a write is set before
\* its source is looked at, so both become the new wire.
RECURSIVE rewire(_, _, _, _)
rewire(block, var, wires, cur) ==
  FlattenSeq([i \in 1 .. Len(block) |->
    LET op == InRegions(block[i], LAMBDA b : rewire(b, var, wires, cur))
        use == [op EXCEPT !.a = [j \in 1 .. Len(@) |->
                                   IF @[j].id = var.id THEN cur[op.id] ELSE @[j]]]
    IN  IF op.id \in DOMAIN wires THEN <<wires[op.id], use>> ELSE <<use>>])

\* The variable is erased when nothing uses it any more.
Uses(block, id) == \E op \in OpsIn(block) : \E j \in 1 .. Len(op.a) : op.a[j].id = id

expandOne(block, parent, var) ==
  LET order == PostOrder(block, parent)
      writes == Versions(block, parent, var)
      at(id) == CHOOSE i \in 1 .. Len(order) : order[i].op.id = id
      version(id) == CHOOSE k \in 1 .. Len(writes) : writes[k].op.id = id
      wires == [id \in {w.op.id : w \in ToSet(writes)} |->
                  versionWire(var, order[at(id)].op, version(id))]
      before(id) == {w \in DOMAIN wires : at(w) <= at(id)}
      latest(id) == CHOOSE w \in before(id) : \A u \in before(id) : at(u) <= at(w)
      cur == [id \in {x.op.id : x \in ToSet(order)} |->
                IF before(id) = {} THEN Result(var) ELSE Result(wires[latest(id)])]
      new == rewire(block, var, wires, cur)
  IN  IF Uses(new, var.id) THEN new ELSE SelectSeq(new, LAMBDA op : op.id # var.id)

\* A write has one destination, so variables do not disturb one another.
RECURSIVE expandVarsIn(_, _)
expandVarsIn(block, parent) ==
  LET inner == [i \in 1 .. Len(block) |->
                  InRegions(block[i], LAMBDA b : expandVarsIn(b, block[i].o))]
      vars == SelectSeq(inner, LAMBDA op : op.o = "variable")
  IN  IF parent \notin WireParents THEN inner
      ELSE FoldLeft(LAMBDA b, var : expandOne(b, parent, var), inner, vars)

expandVariables(ops) == Rewrite(expandVarsIn(ops, "builtin"), TRUE)

-----------------------------------------------------------------------------
(* Slot 4, nsl-explode-submod-array, and slot 5, which does nothing.        *)

RECURSIVE explodeBlock(_)
explodeBlock(block) ==
  FlattenSeq([i \in 1 .. Len(block) |->
    LET sub == block[i]
    IN  IF sub.o = "submodule" /\ sub.v # <<>> /\ sub.v[1] >= 0
        THEN [k \in 1 .. sub.v[1] |->
                [sub EXCEPT !.id = CloneId(@, k - 1), !.v = <<>>,
                            !.n = @ \o "_" \o ToString(k - 1)]]
        ELSE <<InRegions(sub, explodeBlock)>>])

explodeSubmodArray(ops) ==
  Rewrite(explodeBlock(ops),
          \A sub \in OpsIn(ops) : sub.o = "submodule" /\ sub.v # <<>> => sub.v[1] >= 0)

inlineInternalFunc(ops) == Rewrite(ops, TRUE)

-----------------------------------------------------------------------------
(* Slot 6, nsl-check-semantics.                                             *)

Residue(op) ==
  \/ Splices(op.n) # {}
  \/ Splices(op.ref) # {}
  \/ \E k \in 1 .. Len(op.x) : Splices(op.x[k]) # {}

checkS10LoopVarResidue(ops) == \E op \in OpsIn(ops) : op.o = "structural_generate"

checkS16PureNsl(ops) == \E i \in 1 .. Len(ops) : ops[i].o \in {"param_int", "param_str"}

\* Only registers are compared.
checkS25RegsOnly(ops) ==
  \E m \in OpsIn(ops) :
    /\ m.o = "module"
    /\ \E i, j \in 1 .. Len(Body(m)) :
         /\ i < j
         /\ Body(m)[i].o = "reg" /\ Body(m)[j].o = "reg"
         /\ Body(m)[i].n = Body(m)[j].n

\* Two storage declarations of one name directly in a module.
checkS25ReplicatedCollision(ops) ==
  \E m \in OpsIn(ops) :
    /\ m.o = "module"
    /\ \E i, j \in 1 .. Len(Body(m)) :
         /\ i < j
         /\ {Body(m)[i].o, Body(m)[j].o} \subseteq {"reg", "wire", "variable", "mem"}
         /\ Body(m)[i].n = Body(m)[j].n

checkSemantics(ops) ==
  Rewrite(ops, ~ \/ \E op \in OpsIn(ops) : Residue(op)
                 \/ checkS10LoopVarResidue(ops)
                 \/ checkS16PureNsl(ops)
                 \/ checkS25ReplicatedCollision(ops))

-----------------------------------------------------------------------------
(* The pipeline (runNSLPasses).                                             *)

NumSlots == 6

runPass(slot, ops) ==
  CASE slot = 1 -> resolveParams(ops)
    [] slot = 2 -> expandGenerate(ops)
    [] slot = 3 -> expandVariables(ops)
    [] slot = 4 -> explodeSubmodArray(ops)
    [] slot = 5 -> inlineInternalFunc(ops)
    [] slot = 6 -> checkSemantics(ops)
=============================================================================
