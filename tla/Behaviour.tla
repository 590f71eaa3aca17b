----------------------------- MODULE Behaviour ------------------------------
(* Reference: what one clock cycle of an NSL module means, read off the     *)
(* tree, and what a lowered module computes in that cycle.                  *)
(*                                                                          *)
(* In NSL the actions of a module take place together in every cycle.  The  *)
(* later of two writes that happen wins; a register that is not written     *)
(* holds, a wire or an output that is not written is zero; an alt takes its *)
(* first true case only; an any takes every true case and ors what they     *)
(* write.  A variable is written and read in the order of the text.         *)
EXTENDS AST, ModulePatterns, Bitwise

Num(v, w) == [v |-> v % (2 ^ w), w |-> w]

Flag(b) == Num(IF b THEN 1 ELSE 0, 1)

Odd(v, w) == Cardinality({i \in 0 .. w - 1 : (v \div (2 ^ i)) % 2 = 1}) % 2 = 1

\* The most significant part first.
Joined(parts) ==
  FoldLeft(LAMBDA acc, x : Num(acc.v * (2 ^ x.w) + x.v, acc.w + x.w), Num(0, 0), parts)

Copies(n, x) == Joined([i \in 1 .. n |-> x])

-----------------------------------------------------------------------------
(* The value of an expression; val gives the value of each name, and w the  *)
(* width an unsized literal takes.                                          *)

Binary(op, x, y) ==
  CASE op = "Add" -> Num(x.v + y.v, x.w)
    [] op = "Sub" -> Num(x.v + 2 ^ x.w - y.v, x.w)
    [] op = "Mul" -> Num(x.v * y.v, x.w)
    [] op = "BitAnd" -> Num(x.v & y.v, x.w)
    [] op = "BitOr" -> Num(x.v | y.v, x.w)
    [] op = "BitXor" -> Num(x.v ^^ y.v, x.w)
    [] op = "ShiftLeft" -> Num(x.v * 2 ^ y.v, x.w)
    [] op = "ShiftRight" -> Num(x.v \div 2 ^ y.v, x.w)
    [] op = "Equal" -> Flag(x.v = y.v)
    [] op = "NotEqual" -> Flag(x.v # y.v)
    [] op = "Less" -> Flag(x.v < y.v)
    [] op = "LessEqual" -> Flag(x.v <= y.v)
    [] op = "Greater" -> Flag(x.v > y.v)
    [] op = "GreaterEqual" -> Flag(x.v >= y.v)
    [] op = "LogicalAnd" -> Flag(x.v # 0 /\ y.v # 0)
    [] op = "LogicalOr" -> Flag(x.v # 0 \/ y.v # 0)

Unary(op, x) ==
  CASE op = "Plus" -> x
    [] op = "Neg" -> Num(2 ^ x.w - x.v, x.w)
    [] op = "BitNot" -> Num(2 ^ x.w - 1 - x.v, x.w)
    [] op = "LogicalNot" -> Flag(x.v = 0)
    [] op = "ReduceAnd" -> Flag(x.v = 2 ^ x.w - 1)
    [] op = "ReduceOr" -> Flag(x.v # 0)
    [] op = "ReduceXor" -> Flag(Odd(x.v, x.w))

RECURSIVE Meaning(_, _, _)
Meaning(e, val, w) ==
  LET sub(j) == Meaning(e.s[j][1], val, w)
      number(j) == e.s[j][1].a.v
      Extended(x, high) == Num(x.v + high * (2 ^ number(1) - 2 ^ x.w), number(1))
  IN  CASE e.k = "LiteralExpr" -> Num(e.a.v, IF e.a.size > 0 THEN e.a.size ELSE w)
        [] e.k = "IdentifierExpr" -> val[e.n[1]]
        [] e.k = "BinaryExpr" -> Binary(e.a, sub(1), Meaning(e.s[2][1], val, sub(1).w))
        [] e.k = "UnaryExpr" -> Unary(e.a, sub(1))
        [] e.k = "ConditionalExpr" -> IF sub(1).v # 0 THEN sub(2) ELSE sub(3)
        [] e.k = "ZeroExtendExpr" -> Extended(sub(2), 0)
        [] e.k = "SignExtendExpr" -> Extended(sub(2), sub(2).v \div 2 ^ (sub(2).w - 1))
        [] e.k = "SliceExpr" ->
             LET lo == IF e.s[3] = Null THEN number(2) ELSE number(3)
             IN  Num(sub(1).v \div 2 ^ lo, number(2) - lo + 1)
        [] e.k = "ConcatExpr" ->
             Joined([i \in 1 .. Len(e.s[1]) |-> Meaning(e.s[1][i], val, w)])
        [] e.k = "RepeatExpr" -> Copies(number(1), sub(2))

-----------------------------------------------------------------------------
(* A cycle: val, what reading a name gives; new, what was written to it so  *)
(* far; wrote, the names written.  vars are the variables.                  *)

Write(st, vars, name, x) ==
  [val |-> IF name \in vars THEN [st.val EXCEPT ![name] = x] ELSE st.val,
   new |-> [st.new EXCEPT ![name] = x],
   wrote |-> st.wrote \cup {name}]

RECURSIVE Act(_, _, _)

ActAll(st, vars, ns) == FoldLeft(LAMBDA s, n : Act(s, vars, n), st, ns)

True(st, e) == Meaning(e, st.val, 1).v # 0

Cases(n) == 1 .. Len(n.s[1]) \div 2
CaseCond(n, i) == n.s[1][2 * i - 1]
CaseBody(n, i) == n.s[1][2 * i]

ActAlt(st, vars, n) ==
  LET fires == {i \in Cases(n) : True(st, CaseCond(n, i))}
  IN  IF fires = {} THEN ActAll(st, vars, n.s[2])
      ELSE Act(st, vars, CaseBody(n, Min(fires)))

ActAny(st, vars, n) ==
  LET bodies == [i \in Cases(n) |-> CaseBody(n, i)] \o n.s[2]
      fires == {i \in 1 .. Len(bodies) : i \in Cases(n) => True(st, CaseCond(n, i))}
      done == [i \in fires |-> Act([st EXCEPT !.wrote = {}], vars, bodies[i])]
      ors(name) == FoldSet(LAMBDA x, acc : acc | x, 0,
                           {done[i].new[name].v : i \in {j \in fires : name \in done[j].wrote}})
      written == UNION {done[i].wrote : i \in fires}
  IN  [st EXCEPT !.new = [name \in DOMAIN @ |->
                            IF name \in written THEN Num(ors(name), @[name].w) ELSE @[name]],
                 !.wrote = @ \cup written]

Act(st, vars, n) ==
  CASE n.k = "TransferStmt" ->
         LET name == n.s[1][1].n[1]
         IN  Write(st, vars, name, Meaning(n.s[2][1], st.val, st.val[name].w))
    [] n.k = "IfStmt" ->
         IF True(st, n.s[1][1]) THEN Act(st, vars, n.s[2][1]) ELSE ActAll(st, vars, n.s[3])
    [] n.k = "AltBlock" -> ActAlt(st, vars, n)
    [] n.k = "AnyBlock" -> ActAny(st, vars, n)
    [] n.k = "ParallelBlock" -> ActAll(st, vars, n.s[2])
    [] OTHER -> st

-----------------------------------------------------------------------------
(* The names of a module m with declare d (both nodes).                     *)

NamesOf(decls, kind) == {x.n : x \in {y \in ToSet(decls) : y.k = kind}}
Ports(d, dir) == {x.n : x \in {y \in ToSet(d.s[2]) : y.a.dir = dir}}

Width(m, d) ==
  LET ds == {x \in ToSet(m.s[1]) : x.k \in {"RegDecl", "WireDecl", "VariableDecl"}}
              \cup ToSet(d.s[2])
      of(x) == IF x.s[1] = Null THEN 1 ELSE x.s[1][1].a.v
  IN  [name \in {x.n : x \in ds} |-> of(CHOOSE x \in ds : x.n = name)]

Regs(m) == NamesOf(m.s[1], "RegDecl")
Wires(m) == NamesOf(m.s[1], "WireDecl")
Variables(m) == NamesOf(m.s[1], "VariableDecl")

\* What the environment and the registers may hold at the start of a cycle.
Held(m, d) == Regs(m) \cup Ports(d, "Input") \cup Ports(d, "Inout")
Valuations(m, d) ==
  LET w == Width(m, d)
      max == Max({0} \cup {2 ^ w[n] - 1 : n \in Held(m, d)})
  IN  {f \in [Held(m, d) -> 0 .. max] : \A n \in Held(m, d) : f[n] < 2 ^ w[n]}

\* The cycle in which reading a wire gives what the cycle itself writes to it:
\* as many rounds as there are wires settle every acyclic network.
CycleOf(m, d, f) ==
  LET w == Width(m, d)
      start ==
        [val |-> [n \in DOMAIN w |-> Num(IF n \in Held(m, d) THEN f[n] ELSE 0, w[n])],
         new |-> [n \in DOMAIN w |-> Num(IF n \in Regs(m) THEN f[n] ELSE 0, w[n])],
         wrote |-> {}]
      from(new) == [start EXCEPT !.val = [n \in DOMAIN @ |->
                                               IF n \in Wires(m) THEN new[n] ELSE @[n]]]
      Round[k \in 0 .. Cardinality(Wires(m))] ==
        ActAll(from(IF k = 0 THEN start.new ELSE Round[k - 1].new), Variables(m), m.s[4])
  IN  Round[Cardinality(Wires(m))].new

-----------------------------------------------------------------------------
(* The value of a CIRCT value; ins and regs give the arguments by name and  *)
(* the registers by identity.                                               *)

RECURSIVE Eval(_, _, _)
Eval(v, ins, regs) ==
  LET x(i) == Eval(v.a[i], ins, regs)
  IN  CASE v.c = "constant" -> Num(v.k, v.w)
        [] v.c = "arg" -> Num(ins[v.n], v.w)
        [] v.c = "reg" -> Num(regs[v.id], v.w)
        [] v.c = "mux" -> IF x(1).v # 0 THEN x(2) ELSE x(3)
        [] v.c = "eq" -> Flag(x(1).v = x(2).v)
        [] v.c = "ne" -> Flag(x(1).v # x(2).v)
        [] v.c = "ult" -> Flag(x(1).v < x(2).v)
        [] v.c = "ule" -> Flag(x(1).v <= x(2).v)
        [] v.c = "ugt" -> Flag(x(1).v > x(2).v)
        [] v.c = "uge" -> Flag(x(1).v >= x(2).v)
        [] v.c = "and" -> Num(x(1).v & x(2).v, v.w)
        [] v.c = "or" -> Num(x(1).v | x(2).v, v.w)
        [] v.c = "xor" -> Num(x(1).v ^^ x(2).v, v.w)
        [] v.c = "add" -> Num(x(1).v + x(2).v, v.w)
        [] v.c = "sub" -> Num(x(1).v + 2 ^ v.w - x(2).v, v.w)
        [] v.c = "mul" -> Num(x(1).v * x(2).v, v.w)
        [] v.c = "shl" -> Num(x(1).v * 2 ^ x(2).v, v.w)
        [] v.c = "shru" -> Num(x(1).v \div 2 ^ x(2).v, v.w)
        [] v.c = "parity" -> Flag(Odd(x(1).v, x(1).w))
        [] v.c = "concat" -> Joined([i \in 1 .. Len(v.a) |-> x(i)])
        [] v.c = "extract" -> Num(x(1).v \div 2 ^ v.k, v.w)
        [] v.c = "replicate" -> Copies(v.w \div x(1).w, x(1))

\* The lowered module h and the source agree in every cycle, on every output,
\* every wire and the next value of every register.
Agree(h, m, d) ==
  \A f \in Valuations(m, d) :
    LET new == CycleOf(m, d, f)
        rs == [id \in {h.regs[i].id : i \in 1 .. Len(h.regs)} |->
                 f[h.regs[CHOOSE i \in 1 .. Len(h.regs) : h.regs[i].id = id].n]]
        is(name, v) == Eval(v, f, rs) = new[name]
    IN  /\ \A i \in 1 .. Len(h.outs) : is(h.outs[i].n, h.outs[i].v)
        /\ \A i \in 1 .. Len(h.regs) : is(h.regs[i].n, h.regs[i].next)
        /\ \A i \in 1 .. Len(h.wires) : h.wires[i].n \in Wires(m) => is(h.wires[i].n, h.wires[i].v)

-----------------------------------------------------------------------------
(* What the actions read and write, in the order of the text.               *)

Read(name) == [rw |-> "read", n |-> name]
Written(name) == [rw |-> "write", n |-> name]

RECURSIVE Events(_)
EventsIn(slot) == FlattenSeq([i \in 1 .. Len(slot) |-> Events(slot[i])])
Events(n) ==
  CASE n.k = "IdentifierExpr" -> <<Read(n.n[1])>>
    [] n.k = "TransferStmt" -> EventsIn(n.s[2]) \o <<Written(n.s[1][1].n[1])>>
    [] OTHER -> FlattenSeq([j \in 1 .. Len(n.s) |-> EventsIn(n.s[j])])

RECURSIVE Anys(_)
Anys(n) ==
  LET below == UNION {ToSet(n.s[j]) : j \in 1 .. Len(n.s)}
  IN  (IF n.k = "AnyBlock" THEN {n} ELSE {}) \cup UNION {Anys(c) : c \in below}

WritesOf(ns) == SelectSeq(EventsIn(ns), LAMBDA e : e.rw = "write")

\* No wire is read before the last write of it, and no output is read.
SettledBeforeRead(m, d) ==
  LET es == EventsIn(m.s[4])
  IN  /\ \A i, j \in 1 .. Len(es) :
           i < j /\ es[i] = Read(es[j].n) /\ es[j].rw = "write" => es[j].n \notin Wires(m)
      /\ \A i \in 1 .. Len(es) : es[i].rw = "read" => es[i].n \notin Ports(d, "Output")

\* The case bodies of an any are transfers, and its targets are written once
\* in a case and nowhere else.
AnyStandsAlone(m, n) ==
  LET bodies == [i \in Cases(n) |-> CaseBody(n, i)] \o n.s[2]
      items(b) == IF b.k = "ParallelBlock" THEN b.s[2] ELSE <<b>>
      count(ns, e) == Len(SelectSeq(WritesOf(ns), LAMBDA x : x = e))
  IN  /\ \A b \in ToSet(bodies) : \A x \in ToSet(items(b)) : x.k = "TransferStmt"
      /\ \A b \in ToSet(bodies) : \A e \in ToSet(WritesOf(<<b>>)) :
           count(<<b>>, e) = 1 /\ count(m.s[4], e) = count(<<n>>, e)

AnyTargets(m) ==
  UNION {{e.n : e \in ToSet(WritesOf(<<n>>))} : n \in UNION {Anys(x) : x \in ToSet(m.s[4])}}

\* The modules the comparison is about: storage, and actions that transfer,
\* choose and compute.
PlainKinds ==
  {"RegDecl", "WireDecl", "VariableDecl", "TransferStmt", "ParallelBlock", "AltBlock", "AnyBlock",
   "IfStmt", "LiteralExpr", "IdentifierExpr", "UnaryExpr", "BinaryExpr", "ConditionalExpr",
   "ConcatExpr", "RepeatExpr", "SignExtendExpr", "ZeroExtendExpr", "SliceExpr"}

RECURSIVE IsPlain(_)
IsPlain(n) ==
  /\ n.k \in PlainKinds
  /\ n.k = "BinaryExpr" => n.a \notin {"Div", "Mod"}
  /\ \A j \in 1 .. Len(n.s) : \A c \in ToSet(n.s[j]) : IsPlain(c)

Comparable(m, d) ==
  /\ m.s[2] = <<>> /\ m.s[3] = <<>>
  /\ \A n \in ToSet(m.s[1] \o m.s[4]) : IsPlain(n)
  /\ SettledBeforeRead(m, d)
  /\ \A x \in ToSet(m.s[4]) : \A n \in Anys(x) : AnyStandsAlone(m, n)
=============================================================================
