---------------------------- MODULE MCCompilation ---------------------------
(* Small programs for the compiler, and small files for nsl-opt.            *)
EXTENDS Compilation

(* Units for the semantic pass, and the abbreviations all are written with. *)
Lit(k) == LiteralExpr("Decimal", k, 0, 1)
Id(x) == IdentifierExpr(<<x>>)
W(w) == Opt(Lit(w))
Asg(x, e) == TransferStmt("WireEq", Id(x), e)
Clk(x, e) == TransferStmt("RegColonEq", Id(x), e)
Port(dir, name, w) == PortDecl(dir, name, w, <<>>, NoName)
Decls(name, ports) == DeclareBlock(name, "None", NoName, NoName, <<>>, ports)
Mod(name, internals, actions) == ModuleBlock(name, internals, <<>>, <<>>, actions)

\* A declaration of q or r of each storage kind.
Stored(kind, x) ==
  CASE kind = "Reg"      -> RegDecl(x, W(2), Null)
    [] kind = "Wire"     -> WireDecl(x, W(2))
    [] kind = "Variable" -> VariableDecl(x, Null)
    [] kind = "Integer"  -> IntegerDecl(x)
    [] kind = "Mem"      -> MemDecl(x, W(4), W(2), Null)

(* Two modules that each declare a name, and one transfer in the first.     *)
TwoModules ==
  {CompilationUnit(<<
     Mod("A", <<Stored(kA, "q")>>, <<TransferStmt(op, lhs, Lit(1))>>),
     Mod("B", <<Stored(kB, nB)>>, <<Asg("q", Id("r"))>>)>>) :
     kA \in {"Reg", "Wire", "Variable", "Integer", "Mem"},
     kB \in {"Reg", "Wire"}, nB \in {"q", "r"},
     op \in {"WireEq", "RegColonEq"},
     lhs \in {Id("q"), SliceExpr(Id("q"), Lit(1), Opt(Lit(0)))}}

(* A module, its declare block before or after it, and a local of the name  *)
(* of a port.                                                               *)
Paired ==
  LET m(local) == Mod("M", <<WireDecl(local, Null)>>,
                          <<Asg("o", BinaryExpr("Add", Id("i"), Id(local)))>>)
      d == Decls("M", <<Port("Input", "i", Null), Port("Output", "o", Null),
                        PortDecl("FuncIn", "f", Null, <<"o">>, "i")>>)
  IN  {CompilationUnit(IF first THEN <<d, m(x)>> ELSE <<m(x), d>>) :
         first \in BOOLEAN, x \in {"i", "w", "f"}}

(* Structs, their casts and instances, with a repeated name.                *)
Structs ==
  {CompilationUnit(<<
     StructDecl("P", <<StructMember("a", W(w)), StructMember("b", Null),
                       StructMember("c", W(2))>>),
     Mod("M", <<StructInstDecl("P", name, "Reg", Null, Null), WireDecl("x", W(4))>>,
             <<Asg("x", StructCastExpr("P", Id("x"), <<"a">>)),
               Asg("x", FieldAccessExpr(Id(name), "b")),
               Asg("x", IdentifierExpr(<<name, "b">>))>>)>>) :
     w \in {1, 3}, name \in {"s", "P", "x"}}

(* Parameters, which have no type.                                          *)
Params ==
  {CompilationUnit(<<TopLevelParamDecl(kind, "N", Opt(Lit(3))),
                     Mod("M", <<WireDecl("x", Opt(Id("N")))>>,
                             <<Asg("x", UnaryExpr(op, Id("N")))>>)>>) :
     kind \in {"Int", "Str"}, op \in {"Neg", "ReduceOr"}}

(* Control: funcs, procs, states, loops and generates.                      *)
Control ==
  LET state(s, g) == StateDefn(s, ParallelBlock(<<>>, <<GotoStmt(g)>>))
      proc(first, g) ==
        ProcDefn("p", ParallelBlock(
          <<StateNameDecl(<<"s", "t">>), FirstStateDecl(first),
            state("s", g), state("t", "s")>>, <<BareFinishStmt>>))
      loop == ForBlock(ForForm(Clk("i", Lit(0)),
                               BinaryExpr("Less", Id("i"), Lit(2)),
                               IncDecStmt("Inc", FALSE, Id("i"))),
                       <<Clk("r", Id("i"))>>)
      gen(v) == StructuralGenerate(v, Opt(Lit(0)), BinaryExpr("Less", Id(v), Lit(2)),
                                   IncDecExpr("Inc", FALSE, Id(v)),
                                   ParallelBlock(<<>>, <<Asg("w", Id(v))>>))
  IN  {CompilationUnit(<<
         Decls("M", <<Port("FuncIn", "f", Null), Port("Output", "o", Null)>>),
         ModuleBlock("M",
           <<RegDecl("i", W(2), Opt(Lit(0))), RegDecl("r", W(2), Null), WireDecl("w", W(2)),
             ProcNameDecl("p", <<arg>>), FuncSelfDecl("g", <<>>, NoName)>>,
           <<FuncDefn(<<"f">>, SeqBlock(<<>>, <<body, ReturnStmt(Opt(Id("w")))>>)),
             FuncDefn(<<"h">>, ParallelBlock(<<>>, <<ControlCallStmt(<<"p">>, <<Id("r")>>)>>))>>,
           <<proc("s", tgt)>>,
           <<gen(v), ControlCallStmt(<<"p", "finish">>, <<>>),
             LabeledStmt("lab", EmptyStmt)>>)>>) :
         arg \in {"r", "w"}, tgt \in {"t", "u"}, v \in {"k", "w"},
         body \in {loop, WhileBlock(Id("w"), <<Clk("r", Id("w"))>>)}}

(* Every expression class, and names that are unknown or used twice.        *)
Typed ==
  LET es == {ConditionalExpr(Id("b"), Id("x"), Lit(5)),
             ConcatExpr(<<Id("b"), Id("x"), Id("nope")>>),
             ConcatExpr(<<Id("i"), Id("x")>>),
             RepeatExpr(Lit(2), Id("x")), SignExtendExpr(Lit(4), Id("x")),
             ZeroExtendExpr(LiteralExpr("Hex", 8, 0, 1), Id("x")),
             SliceExpr(Id("x"), Id("b"), Null), CallExpr(<<"nope">>, <<Id("nope")>>),
             CallExpr(<<"b", "f">>, <<>>), SystemVarExpr("_time"),
             IncDecExpr("Inc", TRUE, Id("x")),
             LiteralExpr("Binary", 2, 0, 2), LiteralExpr("Hex", 2, 8, 2),
             LiteralExpr("Octal", 2, 3, 1), StringLiteral("s")}
  IN  {CompilationUnit(<<
         DeclareBlock("M", mod, clk, "rst", <<>>, <<Port("Input", "i", Null)>>),
         Mod("M", <<WireDecl("b", Null), RegDecl("x", W(2), Null)>>,
           <<Clk("x", e), AltBlock(CondCase(Id("b"), Asg("b", e)), Opt(EmptyStmt)),
             AnyBlock(CondCase(Id("nope"), DelayTaskStmt(Lit(1))), Null),
             IfStmt(Id("b"), SystemTaskStmt("_display", <<e>>), Null),
             InitBlockStmt(<<IncDecStmt("Inc", TRUE, Id("x"))>>)>>)>>) :
         e \in es, <<mod, clk>> \in {<<"Simulation", NoName>>, <<"Interface", "c">>,
                                     <<"Interface", NoName>>}}

ReservedNames ==
  {CompilationUnit(<<Decls("M", <<>>),
     Mod("M", <<WireDecl(x, W(1)), SubmoduleDecl("M", <<"u", y>>, <<Null, Null>>, <<>>)>>, <<>>)>>) :
     x \in {"a__b", "w"}, y \in {"a__b", "u", "w"}}

CheckedUnits ==
  TwoModules \cup Paired \cup Structs \cup Params \cup Control \cup Typed \cup ReservedNames

-----------------------------------------------------------------------------
(* Units for lowering.                                                      *)
Sized(k, w) == LiteralExpr("Binary", k, w, w)
Par(items) == ParallelBlock(<<>>, items)
Plus(l, r) == BinaryExpr("Add", l, r)

\* Two conditions, a word, an output; a register, a wire and a variable.
Pins == <<Port("Input", "a", W(1)), Port("Input", "b", W(1)), Port("Input", "x", W(2)),
          Port("Output", "o", W(2))>>
Locals == <<RegDecl("r", W(2), Opt(Lit(1))), WireDecl("w", W(2)), VariableDecl("v", W(2))>>

Program(actions) ==
  CompilationUnit(<<Decls("M", Pins), ModuleBlock("M", Locals, <<>>, <<>>, actions)>>)

\* The statements that programs are made of.
Statements ==
  {Asg("o", Id("x")),
   IfStmt(Id("a"), Asg("o", Id("x")), Opt(Asg("o", Id("r")))),
   IfStmt(Id("a"), Par(<<Clk("r", Id("x")), Asg("w", Lit(2))>>), Null),
   AltBlock(CondCase(Id("a"), Clk("r", Id("x"))) \o CondCase(Id("b"), Clk("r", Lit(3))),
            Opt(Clk("r", Plus(Id("r"), Lit(1))))),
   AltBlock(CondCase(Id("a"), Asg("o", Id("x"))) \o CondCase(Id("b"), Asg("o", Lit(1))), Null),
   AnyBlock(CondCase(Id("a"), Asg("o", Id("x"))) \o CondCase(Id("b"), Asg("o", Id("r"))), Null),
   IfStmt(Id("a"), AltBlock(CondCase(Id("b"), Clk("r", Id("x"))), Opt(Asg("w", Id("x")))), Null),
   IfStmt(Id("a"), AnyBlock(CondCase(Id("b"), Asg("w", Id("x"))), Opt(Asg("w", Id("r")))),
          Opt(Clk("r", Lit(0)))),
   Par(<<Asg("w", Id("x")), Asg("o", Plus(Id("w"), Id("r")))>>),
   Clk("r", Plus(Id("x"), Id("w"))),
   Asg("v", Plus(Id("x"), Lit(1))),
   Asg("o", Id("v")),
   IfStmt(Id("b"), Asg("o", Id("v")), Opt(Clk("r", Id("v")))),
   AltBlock(CondCase(Id("a"), IfStmt(Id("b"), Asg("o", Id("x")), Opt(Clk("r", Id("x"))))),
            Opt(Asg("o", Id("r"))))}

Conditions == {Program(<<s>>) : s \in Statements} \cup {Program(<<s, t>>) : s, t \in Statements}

(* Expressions of every class.                                              *)
Words ==
  {BinaryExpr(op, Id("x"), Id("r")) :
     op \in {"Add", "Sub", "Mul", "BitAnd", "BitOr", "BitXor", "ShiftLeft", "ShiftRight", "Div"}}
  \cup {UnaryExpr(op, Id("x")) : op \in {"Plus", "Neg", "BitNot"}}
  \cup {ConcatExpr(<<UnaryExpr("ReduceAnd", Id("x")), UnaryExpr(op, Id("x"))>>) :
          op \in {"ReduceOr", "ReduceXor"}}
  \cup {ConcatExpr(<<BinaryExpr(op, Id("x"), Id("r")), Id("a")>>) :
          op \in {"Equal", "NotEqual", "Less", "LessEqual", "Greater", "GreaterEqual"}}
  \cup {ConcatExpr(<<BinaryExpr(op, Id("a"), Id("b")), UnaryExpr("LogicalNot", Id("a"))>>) :
          op \in {"LogicalAnd", "LogicalOr"}}
  \cup {ConditionalExpr(Id("a"), Id("x"), Lit(1)), RepeatExpr(Lit(2), Id("a")),
         SignExtendExpr(Lit(2), Id("a")), ZeroExtendExpr(Lit(2), Id("b")),
         ConcatExpr(<<SliceExpr(Id("x"), Lit(0), Null), SliceExpr(Id("x"), Lit(1), Opt(Lit(1)))>>),
         Sized(2, 2), Sized(2, 3), Lit(7), BinaryExpr("LogicalAnd", Id("x"), Id("a")),
         SliceExpr(Id("x"), Lit(2), Opt(Lit(1))), CallExpr(<<"x">>, <<>>)}

Expressions == {Program(<<Asg("o", e)>>) : e \in Words}

(* Units of other shapes, one of each construct.                            *)
Body1 == <<Asg("o", Id("x"))>>
Unit(internals, funcs, procs, actions) ==
  CompilationUnit(<<Decls("M", Append(Pins, PortDecl("FuncIn", "f", Null, <<>>, NoName))),
                    ModuleBlock("M", internals, funcs, procs, actions)>>)
StateOf(s, items) == StateDefn(s, Par(items))
ProcOf(decls, items) == ProcDefn("p", ParallelBlock(decls, items))
Seq1(items) == FuncDefn(<<"f">>, SeqBlock(<<>>, items))

Gen(init, cond, step, items) ==
  StructuralGenerate("i", Opt(init), BinaryExpr(cond, Id("i"), Lit(2)), step, Par(items))

TwoStates ==
  Unit(<<ProcNameDecl("p", <<>>)>>, <<>>,
       <<ProcOf(<<StateNameDecl(<<"s", "t">>), FirstStateDecl("t"),
                  StateOf("s", <<GotoStmt("t")>>), StateOf("t", <<BareFinishStmt>>)>>, <<>>)>>,
       <<ControlCallStmt(<<"p">>, <<>>)>>)

Shapes ==
  {CompilationUnit(<<Mod("M", Locals, Body1), Decls("M", Pins)>>),
   CompilationUnit(<<Mod("M", <<>>, <<>>)>>),
   CompilationUnit(<<Mod("M", Locals, <<>>)>>),
   CompilationUnit(<<Decls("M", Pins), Decls("N", <<Port("Inout", "x", W(2)), Port("Output", "o", W(2))>>),
                     Mod("M", <<>>, Body1), Mod("N", <<>>, Body1)>>),
   CompilationUnit(<<Decls("M", Pins)>>),
   CompilationUnit(<<StructDecl("P", <<StructMember("a", W(1)), StructMember("b", W(1))>>),
                     Decls("M", Pins),
                     Mod("M", <<StructInstDecl("P", "s", "Reg", Null, Null)>>,
                         <<Asg("o", StructCastExpr("P", Id("x"), <<"b">>)),
                           Clk("s", StructCastExpr("P", Id("x"), <<>>))>>)>>),
   CompilationUnit(<<TopLevelParamDecl("Int", "K", Opt(Lit(2))),
                     TopLevelParamDecl("Str", "T", Opt(StringLiteral("t"))),
                     Decls("M", Pins), Mod("M", <<>>, Body1)>>),
   CompilationUnit(<<DeclareBlock("M", "Interface", "c", "n", <<>>, Pins), Mod("M", Locals, Body1)>>),
   CompilationUnit(<<DeclareBlock("M", "Simulation", NoName, NoName, <<>>, Pins),
                     Mod("M", Locals, <<InitBlockStmt(<<SystemTaskStmt("_display", <<StringLiteral("t")>>),
                                                        DelayTaskStmt(Lit(1)),
                                                        SystemTaskStmt("_finish", <<>>)>>),
                                      SystemTaskStmt("_display", <<StringLiteral("t")>>)>>)>>),
   Unit(<<MemDecl("m", W(4), W(2), Null), WireDecl("w", W(2))>>, <<>>, <<>>, Body1),
   Unit(<<FuncSelfDecl("g", <<>>, NoName)>>,
        <<FuncDefn(<<"f">>, Par(<<Asg("o", Id("x"))>>))>>, <<>>,
        <<IfStmt(Id("a"), ControlCallStmt(<<"g">>, <<>>), Null)>>),
   Unit(<<RegDecl("r", W(2), Null)>>, <<Seq1(<<Clk("r", Id("x"))>>)>>, <<>>, <<>>),
   Unit(<<>>, <<Seq1(<<>>)>>, <<>>, <<>>),
   Unit(<<RegDecl("r", W(1), Null)>>, <<Seq1(<<WhileBlock(Id("a"), <<Clk("r", Id("b"))>>)>>)>>, <<>>, <<>>),
   Unit(<<RegDecl("r", W(1), Null)>>,
        <<Seq1(<<ForBlock(ForForm(Clk("r", Lit(0)), Id("a"), IncDecStmt("Inc", FALSE, Id("r"))),
                          <<Clk("r", Id("b"))>>)>>)>>, <<>>, <<>>),
   TwoStates,
   Unit(<<ProcNameDecl("p", <<>>)>>, <<>>, <<ProcOf(<<>>, <<BareFinishStmt>>)>>, <<>>),
   Unit(<<>>, <<>>, <<>>, <<IfStmt(Id("f"), Asg("o", Id("x")), Null)>>),
   Unit(<<>>, <<>>, <<>>, <<IfStmt(Id("x"), Asg("o", Id("x")), Null)>>),
   Unit(<<>>, <<>>, <<>>, <<AltBlock(CondCase(BinaryExpr("Equal", Id("x"), Lit(1)), Asg("o", Id("x"))), Null)>>),
   Unit(<<SubmoduleDecl("M", <<"u">>, <<Null>>, <<>>)>>, <<>>, <<>>, Body1),
   Unit(<<WireDecl("a__b", Null)>>, <<>>, <<>>, Body1),
   Unit(<<VariableDecl("v", W(2)), WireDecl("v_1", W(2))>>, <<>>, <<>>,
        <<Asg("v", Id("x")), Asg("v", Lit(1)), Asg("v_1", Id("v"))>>),
   Unit(Locals, <<>>, <<>>, <<AnyBlock(CondCase(Id("a"), Clk("r", Id("x"))), Null)>>),
   Unit(<<RegDecl("r", W(2), Opt(LiteralExpr("Hex", 3, 0, 1)))>>, <<>>, <<>>, Body1)}
  \cup {Unit(<<IntegerDecl("i")>>, <<>>, <<>>,
             <<Gen(Lit(0), cond, step, <<Asg("o", Id("x"))>>)>>) :
          cond \in {"Less", "LessEqual"},
          step \in {IncDecExpr("Inc", FALSE, Id("i")), Plus(Id("i"), Lit(2))}}

-----------------------------------------------------------------------------
(* Argument lists, for one program.                                         *)

Emit1(s) == Argument("-emit", s)
File == Argument("file", "")
HW == <<Emit1("hw"), File>>
MLIR == <<Emit1("mlir"), File>>

ArgumentLists ==
  {<<>>, <<Argument("--version", "")>>, <<File>>, <<Emit1("ast")>>, <<Argument("unknown", ""), File>>,
   <<Emit1("tokens"), File, File>>, <<Argument("-I", ""), File, Emit1("tokens"), File>>,
   <<Emit1("ast"), File, Argument("-D", "")>>, <<Argument("option", ""), Emit1("verilog"), File>>,
   <<Emit1("mlir"), Argument("-", "")>>, <<Emit1("circt"), Emit1("ast"), File>>}

Nslc(as, u) == [tool |-> "nslc", args |-> as, unit |-> u, ops |-> <<>>, flags |-> <<>>]

-----------------------------------------------------------------------------
(* Files for nsl-opt.                                                       *)

OpN(o, id, n) == [Operation(o, id) EXCEPT !.n = n]
InModule(body) == <<[OpN("module", <<1>>, "M") EXCEPT !.r = <<body>>]>>
RegNamed(id, n) == [OpN("reg", id, n) EXCEPT !.t = BitsTy(1)]
Write1(id, r, s) == [Operation("clocked_transfer", id) EXCEPT !.a = <<Result(r), Result(s)>>]
Loop(id, var, lo, hi, st, body) ==
  [OpN("structural_generate", id, var) EXCEPT !.v = <<lo, hi, st>>, !.r = <<body>>]

MCSpliced ==
  "r%i%" :> {[pre |-> "r", var |-> "i", post |-> ""]} @@
  "s%i%%j%" :> {[pre |-> "s", var |-> "i", post |-> "%j%"], [pre |-> "s%i%", var |-> "j", post |-> ""]} @@
  [t \in {"s%i%0", "s%i%1", "s%i%2", "s%i%3"} |->
     {[pre |-> "s", var |-> "i",
       post |-> CASE t = "s%i%0" -> "0" [] t = "s%i%1" -> "1" [] t = "s%i%2" -> "2" [] OTHER -> "3"]}]

Copied ==
  LET r == RegNamed(<<1, 2>>, "r%i%")
      s == RegNamed(<<1, 3, 1>>, "s%i%%j%")
      t == RegNamed(<<1, 4>>, "t")
  IN  {InModule(<<t, Loop(<<1, 9>>, "i", b[1], b[2], b[3],
                         <<r, Write1(<<1, 5>>, r, t),
                           Loop(<<1, 8>>, "j", 0, n, 1, <<s, Write1(<<1, 6>>, s, r)>>)>>)>>) :
         b \in {<<0, 2, 1>>, <<0, 3, 2>>, <<2, 0, -1>>, <<3, 0, -2>>, <<1, 1, 1>>, <<2, 0, 1>>},
         n \in {0, 2}}
      \cup {InModule(<<Loop(<<1, 9>>, "i", 0, 2, 1, <<t>>)>>),
            InModule(<<Loop(<<1, 9>>, "j", 0, 2, 1, <<r>>)>>)}

StateWith(id, n, body) == [OpN("state", id, n) EXCEPT !.r = <<body>>]
GotoTo(id, s) == [Operation("goto", id) EXCEPT !.ref = s]
CallOf(id, f) == [Operation("call", id) EXCEPT !.ref = f]

Leaving(id) == {<<>>, <<GotoTo(id, "s")>>, <<GotoTo(id, "t")>>, <<Operation("finish", id)>>,
                <<CallOf(id, "q")>>, <<CallOf(id, "f")>>}

Machines ==
  LET first(s) == [Operation("first_state", <<1, 5>>) EXCEPT !.ref = s]
      proc(n, id, body) == [OpN("proc", id, n) EXCEPT !.r = <<body>>]
      q == proc("q", <<3>>, <<StateWith(<<3, 1>>, "u", <<>>)>>)
  IN  {InModule(<<proc("p", <<2>>, f \o <<StateWith(<<2, 1>>, "s", x), StateWith(<<2, 2>>, "t", y)>>), q>>) :
         f \in {<<>>, <<first("t")>>}, x \in Leaving(<<2, 3>>), y \in Leaving(<<2, 4>>)}
      \cup {InModule(<<proc("p", <<2>>, <<StateWith(<<2, 1>>, "__sink__", <<Operation("finish", <<2, 3>>)>>)>>)>>),
            InModule(<<proc("p", <<2>>, <<>>)>>),
            InModule(<<proc("p", <<2>>, <<first("z")>>)>>),
            InModule(<<StateWith(<<2, 1>>, "s", <<>>)>>),
            InModule(<<proc("M", <<2>>, <<StateWith(<<2, 1>>, "s", <<Operation("seq", <<4>>)>>)>>)>>),
            InModule(<<[OpN("func", <<2>>, "f") EXCEPT !.r =
                          <<<<[Operation("seq", <<3>>) EXCEPT
                                 !.r = <<<<GotoTo(<<4>>, "l"), GotoTo(<<5>>, "l")>>>>]>>>>]>>)}

Instances ==
  LET sub(n, ref, size) == [OpN("submodule", <<1, 2>>, n) EXCEPT !.ref = ref, !.v = size]
      leaf == [OpN("module", <<7>>, "L") EXCEPT !.r = <<<<>>>>]
      param == [OpN("param_int", <<8>>, "K") EXCEPT !.v = <<2>>]
  IN  {<<leaf>> \o InModule(<<sub("u", "L", size)>>) : size \in {<<>>, <<2>>, <<0>>, <<-1>>}}
      \cup {InModule(<<sub("u", "L", <<>>)>>) \o <<leaf>>, InModule(<<sub("u", "M", <<>>)>>),
            <<param>> \o InModule(<<>>), <<param>> \o InModule(<<sub("u", "K", <<>>)>>)}

(* What only a file can hold: each form with a type that fits and one that  *)
(* does not.                                                                *)
Verified ==
  LET reg(k, t) == [OpN("reg", <<1, k>>, ToString(k)) EXCEPT !.t = t]
      bit == reg(2, BitsTy(1))
      use(o, as, vs) == [Operation(o, <<1, 9>>) EXCEPT !.a = as, !.v = vs]
      struct(id, n, t) ==
        [OpN("struct", id, n) EXCEPT !.r = <<<<[OpN("field_decl", id \o <<1>>, "x") EXCEPT !.t = t]>>>>]
      part(t) == [use("field", <<Result(reg(3, StructTy("S")))>>, <<0>>) EXCEPT !.t = t]
      ofS(t) == InModule(<<struct(<<4>>, "S", BitsTy(1)), reg(3, StructTy("S")), part(t),
                           Write1(<<1, 7>>, part(t), part(t))>>)
  IN  {InModule(<<bit, reg(3, t), use("connect", <<Result(bit), Result(reg(3, t))>>, <<>>)>>) :
         t \in {BitsTy(1), BitsTy(2), StructTy("S")}}
      \cup {InModule(<<bit, use("incdec", <<Result(bit)>>, <<v>>)>>) : v \in {1, 4}}
      \cup {ofS(t) : t \in {BitsTy(1), BitsTy(2)}}
      \cup {<<struct(<<4>>, "S", StructTy("T")), struct(<<5>>, "T", t)>> :
              t \in {BitsTy(1), StructTy("S")}}
      \cup {InModule(<<use("connect", <<Result(bit), Result(bit)>>, <<>>), bit>>),
            InModule(<<>>) \o InModule(<<>>),
            InModule(<<[use("invoke_method", <<>>, <<>>) EXCEPT !.ref = "q"]>>)}

AllSlots7 == <<1, 2, 3, 4, 5, 6, CIRCTSlot>>
NoUnit == CompilationUnit(<<>>)
NslOpt(ops1, slots) ==
  [tool |-> "nsl-opt", args |-> <<>>, unit |-> NoUnit, ops |-> ops1, flags |-> slots]

-----------------------------------------------------------------------------

MCRuns ==
  {Nslc(HW, u) : u \in Conditions \cup Expressions \cup Shapes}
  \cup {Nslc(MLIR, u) : u \in Shapes}
  \cup {Nslc(<<Emit1("ast"), File>>, u) : u \in CheckedUnits}
  \cup {Nslc(as, Program(Body1)) : as \in ArgumentLists}
  \cup {NslOpt(f, <<1, 2, 3, 4, 5, 6>>) : f \in Copied}
  \cup {NslOpt(f, <<>>) : f \in Verified}
  \cup {NslOpt(f, AllSlots7) : f \in Machines \cup Instances}

MCUnits == {r.unit : r \in MCRuns}

\* The example of the acceptance scenario, by itself.
GotoUnits == {TwoStates}
GotoRuns == {Nslc(MLIR, u) : u \in GotoUnits}

MCBadNames == {"a__b"}
=============================================================================
