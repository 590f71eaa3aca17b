--------------------------- MODULE ModulePatterns ---------------------------
(* The conversion of nsl.module to hw.module                                *)
(* (lib/Lower/Pass/CIRCTPatterns/ModulePatterns.cpp).                       *)
(*                                                                          *)
(* The body is walked once, in order.  A context keeps the CIRCT value of   *)
(* each nsl value lowered so far, and for each register, wire and output    *)
(* port the value that the writes met so far add up to.  A CIRCT value is   *)
(* the tree of the comb operations that compute it.                         *)
EXTENDS NSLOps

Comb(c, w, a, k) == [c |-> c, w |-> w, a |-> a, k |-> k, n |-> "", id |-> <<>>]
Const(w, k) == Comb("constant", w, <<>>, k)
Arg(n, w) == [Comb("arg", w, <<>>, 0) EXCEPT !.n = n]
RegOut(op) == [Comb("reg", op.t.w, <<>>, 0) EXCEPT !.id = op.id]
Mux(c, x, y) == Comb("mux", x.w, <<c, x, y>>, 0)
IsZero(v) == Comb("eq", 1, <<v, Const(v.w, 0)>>, 0)
AndOf(x, y) == Comb("and", x.w, <<x, y>>, 0)
OrOf(x, y) == Comb("or", x.w, <<x, y>>, 0)
Ones(w) == Const(w, 2 ^ w - 1)

\* An nsl value in the place of a CIRCT value.
Unlowered(x) == [Comb("nsl", x.t.w, <<>>, 0) EXCEPT !.id = x.id]

-----------------------------------------------------------------------------
(* ModuleLoweringCtx.  A gate is <<>> (unconditional) or <<condition>>.     *)
(* made: every value an operation was created for; ok: no step has failed.  *)

Ctx(vm, outIds, clocked) ==
  [vm |-> vm, regs |-> <<>>, wires |-> <<>>, outIds |-> outIds, outs |-> <<>>,
   calls |-> <<>>, sims |-> <<>>, mems |-> <<>>, insts |-> <<>>, rest |-> <<>>,
   made |-> {}, clocked |-> clocked, ok |-> TRUE]

Failed(ctx) == [ctx EXCEPT !.ok = FALSE]

Create(ctx, v) == [ctx EXCEPT !.made = @ \cup {v}]

\* The original value when none is recorded.
lookupValue(ctx, x) == IF x.id \in DOMAIN ctx.vm THEN ctx.vm[x.id] ELSE Unlowered(x)

recordValueMapping(ctx, id, v) == [Create(ctx, v) EXCEPT !.vm = (id :> v) @@ @]

IndexOf(entries, id) ==
  LET is == {i \in 1 .. Len(entries) : entries[i].id = id}
  IN  IF is = {} THEN 0 ELSE Min(is)

-----------------------------------------------------------------------------
(* Ports.                                                                   *)

findPairedDeclare(ops, m) == FirstOp(ops, LAMBDA c : c.o = "declare" /\ c.n = m.n)

Inputs == {"input_port", "inout_port"}

\* Data inputs in order, then clock and reset; outputs after them.
buildPortInfo(declare) ==
  LET ports(os) == SelectSeq(IF declare = NoOp THEN <<>> ELSE Body(declare),
                             LAMBDA c : c.o \in os)
      info(s) == [i \in 1 .. Len(s) |-> [n |-> s[i].n, w |-> s[i].t.w]]
      clocks == IF declare = NoOp THEN <<>>
                ELSE IF Len(declare.x) = 2 THEN declare.x ELSE <<"m_clock", "p_reset">>
  IN  [ins  |-> info(ports(Inputs)) \o [i \in 1 .. Len(clocks) |-> [n |-> clocks[i], w |-> 1]],
       outs |-> info(ports({"output_port"}))]

collectInstanceParameters(ops) ==
  LET ps == SelectSeq(ops, LAMBDA c : c.o \in {"param_int", "param_str"})
  IN  [i \in 1 .. Len(ps) |-> ps[i].n]

-----------------------------------------------------------------------------
(* Expressions.                                                             *)

icmpPredicateFor ==
  "eq" :> "eq" @@ "ne" :> "ne" @@ "lt" :> "ult" @@ "le" :> "ule" @@ "gt" :> "ugt" @@ "ge" :> "uge"

CombOps ==
  icmpPredicateFor @@ [o \in {"add", "sub", "mul", "and", "or", "xor", "shl"} |-> o] @@
  "shr" :> "shru" @@ "land" :> "and" @@ "lor" :> "or"

lowerArithOp(op, a) == Comb(CombOps[op.o], op.t.w, a, 0)

BitOps == {"not", "neg", "lnot", "reduce_and", "reduce_or", "reduce_xor", "sign_extend",
           "zero_extend", "mux", "concat", "extract", "repeat"}

lowerBitOp(op, a) ==
  LET x == a[1]
      w == op.t.w
      Extended(high) == IF w = x.w THEN x ELSE Comb("concat", w, <<high, x>>, 0)
      sign == Comb("extract", 1, <<x>>, x.w - 1)
  IN  CASE op.o = "not" -> Comb("xor", w, <<x, Ones(w)>>, 0)
        [] op.o = "neg" -> Comb("sub", w, <<Const(w, 0), x>>, 0)
        [] op.o = "lnot" -> IsZero(x)
        [] op.o = "reduce_and" -> Comb("eq", 1, <<x, Ones(x.w)>>, 0)
        [] op.o = "reduce_or" -> Comb("ne", 1, <<x, Const(x.w, 0)>>, 0)
        [] op.o = "reduce_xor" -> Comb("parity", 1, <<x>>, 0)
        [] op.o = "sign_extend" -> Extended(Comb("replicate", w - x.w, <<sign>>, 0))
        [] op.o = "zero_extend" -> Extended(Const(w - x.w, 0))
        [] op.o = "mux" -> Comb("mux", w, a, 0)
        [] op.o = "concat" -> Comb("concat", w, a, 0)
        [] op.o = "extract" -> Comb("extract", w, a, op.v[1])
        [] op.o = "repeat" -> Comb("replicate", w, a, 0)

lowerValueOp(ctx, op) ==
  LET a == [i \in 1 .. Len(op.a) |-> lookupValue(ctx, op.a[i])]
  IN  recordValueMapping(ctx, op.id,
        CASE op.o = "constant" -> Const(op.t.w, op.v[1])
          [] op.o \in DOMAIN CombOps -> lowerArithOp(op, a)
          [] op.o \in BitOps -> lowerBitOp(op, a))

ValueOps == {"constant"} \cup DOMAIN CombOps \cup BitOps

-----------------------------------------------------------------------------
(* Storage.  The next value of a register starts as the register itself.    *)

\* Without a declare there is no clock, and a struct has no integer type.
lowerRegOp(ctx, op) ==
  IF ~ctx.clocked \/ op.t.ty # "bits" THEN Failed(ctx)
  ELSE [recordValueMapping(ctx, op.id, RegOut(op)) EXCEPT
          !.regs = Append(@, [id |-> op.id, n |-> op.n, w |-> op.t.w, next |-> RegOut(op),
                              init |-> IF op.v = <<>> THEN 0 ELSE op.v[1]])]

lowerWireOp(ctx, op) ==
  [ctx EXCEPT !.wires = Append(@, [id |-> op.id, n |-> op.n, w |-> op.t.w, driver |-> <<>>])]

lowerMemOp(ctx, op) == [ctx EXCEPT !.mems = Append(@, [n |-> op.n, t |-> op.t])]

SetOut(ctx, name, v) == [Create(ctx, v) EXCEPT !.outs = (name :> v) @@ @]

\* Later reads of the wire see the driver collected so far.
SetDriver(ctx, i, v) ==
  [recordValueMapping(ctx, ctx.wires[i].id, v) EXCEPT !.wires[i].driver = <<v>>]

SetNext(ctx, i, v) == [Create(ctx, v) EXCEPT !.regs[i].next = v]

\* The value written so far, or zero.
OutSoFar(ctx, name, w) == IF name \in DOMAIN ctx.outs THEN ctx.outs[name] ELSE Const(w, 0)
DriverSoFar(ctx, i) ==
  IF ctx.wires[i].driver = <<>> THEN Const(ctx.wires[i].w, 0) ELSE ctx.wires[i].driver[1]

Gated(gate, v, prev) == IF gate = <<>> THEN v ELSE Mux(gate[1], v, prev)

lowerTransferOp(ctx, op, gate) ==
  LET src == lookupValue(ctx, op.a[2])
      dst == op.a[1].id
      i == IndexOf(ctx.wires, dst)
  IN  IF dst \in DOMAIN ctx.outIds
      THEN LET name == ctx.outIds[dst]
           IN  SetOut(ctx, name, Gated(gate, src, OutSoFar(ctx, name, src.w)))
      ELSE IF i # 0 THEN SetDriver(ctx, i, Gated(gate, src, DriverSoFar(ctx, i)))
      ELSE Failed(ctx)

\* The register a destination stands for: 0 for a field of one.
findRegInfo(ctx, x) ==
  LET v == lookupValue(ctx, x) IN IF v.c = "reg" THEN IndexOf(ctx.regs, v.id) ELSE 0

lowerClockedTransferOp(ctx, op, gate) ==
  LET i == findRegInfo(ctx, op.a[1])
  IN  IF i = 0 THEN Failed(ctx)
      ELSE SetNext(ctx, i, Gated(gate, lookupValue(ctx, op.a[2]), ctx.regs[i].next))

-----------------------------------------------------------------------------
(* Control flow.                                                            *)

\* The condition around is forgotten.
andCondsInner(gate, cond) == <<cond>>

andConds(gate, cond) == IF gate = <<>> THEN <<cond>> ELSE <<AndOf(gate[1], cond)>>

RECURSIVE lowerControlOp(_, _, _)

lowerAll(ctx, block, gate) ==
  FoldLeft(LAMBDA c, op : IF c.ok THEN lowerControlOp(c, op, gate) ELSE c, ctx, block)

lowerIfOp(ctx, op, gate) ==
  LET cond == lookupValue(ctx, op.a[1])
      then == andConds(gate, cond)
      else == andConds(gate, IsZero(cond))
  IN  lowerAll(lowerAll(Create(Create(ctx, then[1]), else[1]), op.r[1], then), op.r[2], else)

\* Only cases and defaults are visited: an operation that computes a
\* condition inside the block is not lowered.
Arms(op) == SelectSeq(Body(op), LAMBDA c : c.o \in {"case", "default"})

\* covered: <<>>, or whether an earlier case holds.
lowerAltOp(ctx, op, gate) ==
  LET arm(acc, c) ==
        LET cond == lookupValue(acc.ctx, c.a[1])
            open == IF acc.covered = <<>> THEN Const(1, 1) ELSE IsZero(acc.covered[1])
            fires == andConds(gate, AndOf(open, cond))
        IN  [ctx |-> lowerAll(Create(acc.ctx, fires[1]), Body(c), fires),
             covered |-> IF acc.covered = <<>> THEN <<cond>>
                         ELSE <<OrOf(acc.covered[1], cond)>>]
      default(acc, c) ==
        LET fires == IF acc.covered = <<>> THEN gate
                     ELSE andConds(gate, IsZero(acc.covered[1]))
        IN  [acc EXCEPT !.ctx = lowerAll(acc.ctx, Body(c), fires)]
  IN  FoldLeft(LAMBDA acc, c : IF ~acc.ctx.ok THEN acc
                               ELSE IF c.o = "case" THEN arm(acc, c) ELSE default(acc, c),
               [ctx |-> ctx, covered |-> <<>>], Arms(op)).ctx

\* accums: for each target, in the order met, the values of the arms that
\* write it, each masked by its condition, or'ed together.
accumulateAnyCaseBody(ctx, accums, block, cond) ==
  LET write(acc, op) ==
        LET src == lookupValue(acc.ctx, op.a[2])
            masked == Mux(cond, src, Const(src.w, 0))
            is == {i \in 1 .. Len(acc.accums) :
                     /\ acc.accums[i].target.id = op.a[1].id
                     /\ acc.accums[i].clocked = (op.o = "clocked_transfer")}
        IN  [ctx |-> Create(acc.ctx, masked),
             accums |-> IF is = {}
                        THEN Append(acc.accums, [target |-> op.a[1], v |-> masked,
                                                 clocked |-> op.o = "clocked_transfer"])
                        ELSE [acc.accums EXCEPT ![Min(is)].v = OrOf(@, masked)]]
  IN  FoldLeft(LAMBDA acc, op :
                 IF ~acc.ctx.ok THEN acc
                 ELSE IF op.o \in {"transfer", "clocked_transfer"} THEN write(acc, op)
                 ELSE [acc EXCEPT !.ctx = lowerControlOp(acc.ctx, op, <<cond>>)],
               [ctx |-> ctx, accums |-> accums], block)

\* One write per target, or'ed onto what was written before the block.
applyAccum(ctx, acc) ==
  LET r == findRegInfo(ctx, acc.target)
      i == IndexOf(ctx.wires, acc.target.id)
      name == ctx.outIds[acc.target.id]
  IN  IF ~ctx.ok THEN ctx
      ELSE IF acc.clocked
      THEN IF r = 0 THEN Failed(ctx) ELSE SetNext(ctx, r, OrOf(ctx.regs[r].next, acc.v))
      ELSE IF acc.target.id \in DOMAIN ctx.outIds
      THEN SetOut(ctx, name, IF name \in DOMAIN ctx.outs THEN OrOf(ctx.outs[name], acc.v)
                             ELSE acc.v)
      ELSE IF i = 0 THEN Failed(ctx)
      ELSE SetDriver(ctx, i, IF ctx.wires[i].driver = <<>> THEN acc.v
                             ELSE OrOf(ctx.wires[i].driver[1], acc.v))

\* The default of an any always fires.
lowerAnyOp(ctx, op, gate) ==
  LET arm(acc, c) ==
        LET fires == IF c.o = "case" THEN andConds(gate, lookupValue(acc.ctx, c.a[1]))
                     ELSE IF gate = <<>> THEN <<Const(1, 1)>> ELSE gate
        IN  accumulateAnyCaseBody(acc.ctx, acc.accums, Body(c), fires[1])
      done == FoldLeft(LAMBDA acc, c : IF acc.ctx.ok THEN arm(acc, c) ELSE acc,
                       [ctx |-> ctx, accums |-> <<>>], Arms(op))
  IN  FoldLeft(applyAccum, done.ctx, done.accums)

\* A wire named after the callee carries the condition of the call.
lowerCallOp(ctx, op, gate) ==
  [ctx EXCEPT !.calls = Append(@, [callee |-> op.ref,
                                   valid |-> IF gate = <<>> THEN Const(1, 1) ELSE gate[1]])]

\* Declarations met here are left to the module's own walk, and a simulation
\* task goes with the block it is in.
Skipped == {"input_port", "output_port", "inout_port", "reg", "wire", "mem", "submodule", "proc",
            "func_in", "func_out", "func_self", "first_state", "state",
            "sim_display", "sim_finish", "sim_delay", "sim_init"}

lowerControlOp(ctx, op, gate) ==
  CASE op.o \in ValueOps -> lowerValueOp(ctx, op)
    [] op.o = "transfer" -> lowerTransferOp(ctx, op, gate)
    [] op.o = "clocked_transfer" -> lowerClockedTransferOp(ctx, op, gate)
    [] op.o = "if" -> lowerIfOp(ctx, op, gate)
    [] op.o = "alt" -> lowerAltOp(ctx, op, gate)
    [] op.o = "any" -> lowerAnyOp(ctx, op, gate)
    [] op.o = "call" -> lowerCallOp(ctx, op, gate)
    [] op.o \in {"parallel", "func"} -> lowerAll(ctx, Body(op), gate)
    [] op.o \in Skipped -> ctx
    [] OTHER -> Failed(ctx)

-----------------------------------------------------------------------------
(* Simulation tasks: the initial blocks of the module's one ifdef, in order. *)

lowerSimOp(ctx, op) ==
  [o |-> op.o, text |-> op.n,
   args |-> [i \in 1 .. Len(op.a) |-> lookupValue(ctx, op.a[i])]]

SimTasks == {"sim_display", "sim_finish", "sim_delay"}

\* Anything else in an init block goes with the block.
lowerSimOpsInside(ctx, block) ==
  LET tasks == SelectSeq(block, LAMBDA c : c.o \in SimTasks)
  IN  [i \in 1 .. Len(tasks) |-> lowerSimOp(ctx, tasks[i])]

lowerSimInitOp(ctx, op) ==
  [ctx EXCEPT !.sims = Append(@, lowerSimOpsInside(ctx, Body(op)))]

\* A task of the module's own gets an initial block of its own.
lowerTopLevelSimOp(ctx, op) ==
  [ctx EXCEPT !.sims = Append(@, << lowerSimOp(ctx, op) >>)]

-----------------------------------------------------------------------------
(* The body of a module.                                                    *)

\* A func with a seq of its own, like a proc, stays for the next step.
HasSeq(op) == \E i \in 1 .. Len(Body(op)) : Body(op)[i].o = "seq"

lowerBodyOp(ctx, op) ==
  CASE op.o = "reg" -> lowerRegOp(ctx, op)
    [] op.o = "wire" -> lowerWireOp(ctx, op)
    [] op.o = "mem" -> lowerMemOp(ctx, op)
    [] op.o = "sim_init" -> lowerSimInitOp(ctx, op)
    [] op.o \in SimTasks -> lowerTopLevelSimOp(ctx, op)
    [] op.o \in {"proc", "state"} \/ (op.o = "func" /\ HasSeq(op)) ->
         [ctx EXCEPT !.rest = Append(@, op)]
    [] OTHER -> lowerControlOp(ctx, op, <<>>)

lowerBodyOps(ctx, block) ==
  FoldLeft(LAMBDA c, op : IF c.ok THEN lowerBodyOp(c, op) ELSE c, ctx, block)

\* A wire that is never written carries zero.
finaliseWires(ctx) ==
  [i \in 1 .. Len(ctx.wires) |-> [n |-> ctx.wires[i].n, id |-> ctx.wires[i].id,
                                  v |-> DriverSoFar(ctx, i)]]

finaliseRegs(ctx) == ctx.regs

\* names: the hw modules that exist by now, the one being filled included; a
\* submodule's template is one of them, and its instance has no operands.
lowerSubmodule(ctx, names, op) ==
  IF op.ref \in names
  THEN [ctx EXCEPT !.insts = Append(@, [n |-> op.n, ref |-> op.ref, ins |-> <<>>])]
  ELSE Failed(ctx)

hwModule(m, ports, params, ctx) ==
  LET out(p) == IF p.n \in DOMAIN ctx.outs THEN ctx.outs[p.n] ELSE Const(p.w, 0)
  IN  [n |-> m.n, from |-> m.id, ins |-> ports.ins, params |-> params,
       outs |-> [i \in 1 .. Len(ports.outs) |-> [n |-> ports.outs[i].n, v |-> out(ports.outs[i])]],
       regs |-> finaliseRegs(ctx), wires |-> finaliseWires(ctx), calls |-> ctx.calls,
       sims |-> ctx.sims, mems |-> ctx.mems, insts |-> ctx.insts, rest |-> ctx.rest,
       made |-> ctx.made, ok |-> ctx.ok]

\* The values that the ports of a module stand for at the start.
portContext(m, ports, clocked) ==
  LET named(n) == {i \in 1 .. Len(ports.ins) : ports.ins[i].n = n}
      marks(os) == {c \in ToSet(Body(m)) : c.o \in os}
      ins == {c \in marks(Inputs) : named(c.n) # {}}
      arg(c) == Arg(c.n, ports.ins[Min(named(c.n))].w)
      at(s, id) == CHOOSE c \in s : c.id = id
      outs == marks({"output_port"})
      start == Ctx([id \in {c.id : c \in ins} |-> arg(at(ins, id))],
                   [id \in {c.id : c \in outs} |-> at(outs, id).n], clocked)
  IN  IF marks(Inputs) # ins THEN Failed(start) ELSE start

lowerOneModule(ops, hws, m) ==
  LET declare == findPairedDeclare(ops, m)
      ports == buildPortInfo(declare)
      subs == SelectSeq(Body(m), LAMBDA c : c.o = "submodule")
      names == {h.n : h \in ToSet(hws)} \cup {m.n}
      placed == FoldLeft(LAMBDA c, op : IF c.ok THEN lowerSubmodule(c, names, op) ELSE c,
                         portContext(m, ports, declare # NoOp), subs)
  IN  hwModule(m, ports, collectInstanceParameters(ops), lowerBodyOps(placed, Body(m)))

-----------------------------------------------------------------------------
(* What the CIRCT dialects verify of the result (external).                 *)

RECURSIVE WellTyped(_)
WellTyped(v) ==
  /\ v.c # "nsl"
  /\ \A i \in 1 .. Len(v.a) : WellTyped(v.a[i])
  /\ v.c = "mux" => v.a[1].w = 1 /\ v.a[2].w = v.a[3].w
  /\ v.c \in {"add", "sub", "mul", "and", "or", "xor", "shl", "shru", "eq", "ne", "ult", "ule",
              "ugt", "uge"} => v.a[1].w = v.a[2].w

ValuesOf(h) ==
  h.made \cup {h.outs[i].v : i \in 1 .. Len(h.outs)} \cup {h.regs[i].next : i \in 1 .. Len(h.regs)}
    \cup {h.wires[i].v : i \in 1 .. Len(h.wires)} \cup {h.calls[i].valid : i \in 1 .. Len(h.calls)}
    \cup UNION {ToSet(task.args) : task \in UNION {ToSet(h.sims[i]) : i \in 1 .. Len(h.sims)}}

\* A value left in the nsl dialect loses its definition when the body is
\* erased: the process aborts, or the verifier finds a null operand.
HasDangling(h) ==
  LET RECURSIVE dangles(_)
      dangles(v) == v.c = "nsl" \/ \E i \in 1 .. Len(v.a) : dangles(v.a[i])
  IN  \E v \in ValuesOf(h) : dangles(v)

\* hws: all of them.
verifyHWModule(h, hws) ==
  /\ \A v \in ValuesOf(h) : WellTyped(v)
  /\ \A i \in 1 .. Len(h.insts) : \E g \in ToSet(hws) :
       g.n = h.insts[i].ref /\ Len(g.ins) = Len(h.insts[i].ins)
=============================================================================
