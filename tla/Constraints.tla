---------------------------- MODULE Constraints ----------------------------
(* The constraint checks S1-S29 that run after the resolution walk          *)
(* (lib/Sema/Constraints): each reads the tree and the finished symbol      *)
(* table and appends its reports.  A check is an operator from the unit to  *)
(* the sequence of its reports; the registry runs them in the order of      *)
(* their numbers.  Where a check asks the symbol table for a name, every    *)
(* scope has been left by then, so lookup searches the retired scopes.      *)
EXTENDS ResolutionPass

CONSTANT BadNames       \* the identifiers that contain "__"

-----------------------------------------------------------------------------
(* ConstraintHelpers.h: the shared walk, as the sequence of the nodes it    *)
(* hands to the callbacks, each with its path and its lexical context.      *)

At(n, p, ctx) == [n |-> n, p |-> p, ctx |-> ctx]

\* The bit a statement adds to the context of the statements under it.
LexCtx == [SeqBlock |-> "InSeq", ParallelBlock |-> "InParallel",
           AltBlock |-> "InAlt", AnyBlock |-> "InAny", IfStmt |-> "InIf",
           WhileBlock |-> "InWhile", ForBlock |-> "InFor",
           InitBlockStmt |-> "InInitBlock", LabeledStmt |-> "InAnyAction",
           StructuralGenerate |-> "InGenerate"]

\* The statements directly under one: the slots that hold them, and of the
\* first slot of alt and any only the bodies.
SubStmtSlots == [SeqBlock |-> {2}, ParallelBlock |-> {2}, AltBlock |-> {1, 2},
                 AnyBlock |-> {1, 2}, IfStmt |-> {2, 3}, WhileBlock |-> {2},
                 ForBlock |-> {4}, InitBlockStmt |-> {1}, LabeledStmt |-> {1},
                 StructuralGenerate |-> {4}]

KidsIn(n, p, slots) ==
  FlattenSeq([j \in 1 .. Len(n.s) |->
    IF j \notin slots THEN <<>>
    ELSE [i \in 1 .. Len(n.s[j]) |-> [n |-> n.s[j][i], p |-> Kid(p, j, i)]]])

SubStmts(n, p) ==
  IF n.k \notin DOMAIN SubStmtSlots THEN <<>>
  ELSE SelectSeq(KidsIn(n, p, SubStmtSlots[n.k]), LAMBDA c : c.n.k \notin ExprKinds)

RECURSIVE walkStmt(_, _, _)
walkStmt(n, p, ctx) ==
  LET kids == SubStmts(n, p)
  IN  <<At(n, p, ctx)>>
      \o FlattenSeq([i \in 1 .. Len(kids) |->
           walkStmt(kids[i].n, kids[i].p, ctx \cup {"InAnyAction", LexCtx[n.k]})])

walkStmts(n, p, slots, ctx) ==
  LET kids == KidsIn(n, p, slots)
  IN  FlattenSeq([i \in 1 .. Len(kids) |-> walkStmt(kids[i].n, kids[i].p, ctx)])

RECURSIVE walkDecl(_, _, _)
walkDecl(n, p, ctx) ==
  LET decls(slots, c) ==
        LET kids == KidsIn(n, p, slots)
        IN  FlattenSeq([i \in 1 .. Len(kids) |-> walkDecl(kids[i].n, kids[i].p, c)])
  IN  <<At(n, p, ctx)>> \o
      CASE n.k = "DeclareBlock" -> decls({1, 2}, ctx)
        [] n.k = "ModuleBlock" ->
             decls({1, 2, 3}, ctx \cup {"InModule"})
             \o walkStmts(n, p, {4}, ctx \cup {"InModule"})
        [] n.k = "FuncDefn"  -> walkStmts(n, p, {1}, ctx \cup {"InFunc"})
        [] n.k = "ProcDefn"  -> walkStmts(n, p, {1}, ctx \cup {"InProc"})
        [] n.k = "StateDefn" -> walkStmts(n, p, {1}, ctx \cup {"InProc", "InState"})
        [] OTHER -> <<>>

walkUnit ==
  LET items == KidsIn(unit, <<>>, {1})
  IN  FlattenSeq([i \in 1 .. Len(items) |-> walkDecl(items[i].n, items[i].p, {})])

\* One report of the check at every visited node that is bad.
Report(sn, visits, Bad(_)) ==
  LET bad == SelectSeq(visits, Bad)
  IN  [i \in 1 .. Len(bad) |-> Diag(sn, NoName, bad[i].p)]

\* n reports of the check at p.
Reports(sn, p, n) == [i \in 1 .. n |-> Diag(sn, NoName, p)]

Top(kind) == SelectSeq(KidsIn(unit, <<>>, {1}), LAMBDA c : c.n.k = kind)

RECURSIVE headIdentifier(_)
headIdentifier(e) ==
  CASE e.k = "IdentifierExpr" -> e.n[1]
    [] e.k = "SliceExpr"      -> headIdentifier(e.s[1][1])
    [] OTHER                  -> NoName

\* What a check that was given a name asks of the table: no symbol for no name.
KindOf(name) == IF name = NoName THEN "null" ELSE lookup(name).kind

-----------------------------------------------------------------------------
(* S1: declared identifiers without "__".                                   *)

DeclaredNames(n) ==
  CASE n.k \in {"StructDecl"} -> <<n.n>> \o n.a
    [] n.k \in {"StateNameDecl", "SubmoduleDecl"} -> n.a
    [] n.k = "FuncDefn" -> <<Last(n.n)>>
    [] n.k = "FirstStateDecl" -> <<>>
    [] n.k \in DeclKinds \ {"StructDecl", "StateNameDecl", "SubmoduleDecl",
                            "FuncDefn", "FirstStateDecl"} -> <<n.n>>
    [] OTHER -> <<>>

DeclaredInStmt(n) ==
  IF n.k \in {"LabeledStmt", "StructuralGenerate"} THEN <<n.n>> ELSE <<>>

S01 ==
  LET visits == walkUnit
  IN  FlattenSeq([i \in 1 .. Len(visits) |->
    LET v == visits[i]
    IN  Reports("S1", v.p, Len(SelectSeq(DeclaredNames(v.n) \o DeclaredInStmt(v.n),
                                         LAMBDA nm : nm \in BadNames)))])

(* S3: '=' not on a reg, ':=' only on a reg; memories are exempt.           *)
S03 ==
  Report("S3", walkUnit, LAMBDA v :
    /\ v.n.k = "TransferStmt"
    /\ LET k == KindOf(headIdentifier(v.n.s[1][1]))
       IN  /\ k \notin {"null", "Mem"}
           /\ (v.n.a = "WireEq") <=> (k = "Reg"))

\* The direction each port name has in its declare block, the last one
\* winning; "" for a name that is no port of the block.
portDirs(d, name) ==
  LET Is == {i \in 1 .. Len(d.s[2]) : d.s[2][i].n = name}
  IN  IF Is = {} THEN "" ELSE d.s[2][CHOOSE i \in Is : \A j \in Is : j <= i].a.dir

ForEachPort(sn, Bad(_, _)) ==
  LET blocks == Top("DeclareBlock")
      ports(b) == KidsIn(b.n, b.p, {2})
  IN  FlattenSeq([i \in 1 .. Len(blocks) |->
        FlattenSeq([j \in 1 .. Len(ports(blocks[i])) |->
          Reports(sn, ports(blocks[i])[j].p,
                  Bad(blocks[i].n, ports(blocks[i])[j].n))])])

(* S4: the dummy arguments of a control terminal have its direction.        *)
S04 ==
  LET wanted == [FuncIn |-> "Input", FuncOut |-> "Output", FuncSelf |-> "Wire"]
  IN  ForEachPort("S4", LAMBDA d, pd :
        IF pd.a.dir \notin DOMAIN wanted THEN 0
        ELSE Len(SelectSeq(pd.a.args, LAMBDA arg :
                   portDirs(d, arg) \notin {"", wanted[pd.a.dir]})))

(* S5: so has its return terminal.                                          *)
S05 ==
  LET wanted == [FuncIn |-> {"Output", "Inout"}, FuncOut |-> {"Input", "Inout"}]
  IN  ForEachPort("S5", LAMBDA d, pd :
        IF /\ pd.a.dir \in DOMAIN wanted
           /\ pd.a.ret # NoName
           /\ portDirs(d, pd.a.ret) \notin wanted[pd.a.dir] \cup {""}
          THEN 1 ELSE 0)

(* S6: the arguments of a proc_name are registers.                          *)
S06 ==
  LET visits == walkUnit
  IN  FlattenSeq([i \in 1 .. Len(visits) |->
    LET v == visits[i]
    IN  IF v.n.k # "ProcNameDecl" THEN <<>>
        ELSE Reports("S6", v.p, Len(SelectSeq(v.n.a, LAMBDA arg :
                                      KindOf(arg) \notin {"null", "Reg"})))])

InFuncOrProc(v) == v.ctx \cap {"InFunc", "InProc"} # {}

(* S7: seq, while and for only in a func or proc; S8: loops only in a seq.  *)
S07 ==
  Report("S7", walkUnit, LAMBDA v :
    v.n.k \in {"SeqBlock", "WhileBlock", "ForBlock"} /\ ~InFuncOrProc(v))

S08 ==
  Report("S8", walkUnit, LAMBDA v :
    /\ v.n.k \in {"WhileBlock", "ForBlock"}
    /\ InFuncOrProc(v) /\ "InSeq" \notin v.ctx)

loopVarFromInit(init) ==
  IF /\ init.k \in {"TransferStmt", "IncDecStmt"}
     /\ init.s[1][1].k = "IdentifierExpr"
    THEN init.s[1][1].n[1] ELSE NoName

(* S9: the variable of a for loop is a register.                            *)
S09 ==
  Report("S9", walkUnit, LAMBDA v :
    /\ v.n.k = "ForBlock"
    /\ KindOf(loopVarFromInit(v.n.s[1][1])) \notin {"null", "Reg"})

(* S10: the variable of a generate is an integer.                           *)
S10 ==
  Report("S10", walkUnit, LAMBDA v :
    v.n.k = "StructuralGenerate" /\ KindOf(v.n.n) \notin {"null", "Integer"})

-----------------------------------------------------------------------------
(* S11: a state name is used only in the proc that declares it.             *)

RECURSIVE stateNamesIn(_)
stateNamesIn(s) ==
  IF s.k # "ParallelBlock" THEN {}
  ELSE UNION {ToSet(d.a) : d \in {x \in ToSet(s.s[1]) : x.k = "StateNameDecl"}}
       \cup UNION {stateNamesIn(x) : x \in ToSet(s.s[2])}

Procs(m) == SelectSeq(KidsIn(m.n, m.p, {3}), LAMBDA c : c.n.k = "ProcDefn")
AllProcs ==
  LET ms == Top("ModuleBlock")
  IN  FlattenSeq([i \in 1 .. Len(ms) |-> Procs(ms[i])])

\* The proc the index names for a state name: the last one that declares it.
stateOwner(name) ==
  LET Is == {i \in 1 .. Len(AllProcs) : name \in stateNamesIn(AllProcs[i].n.s[1][1])}
  IN  IF Is = {} THEN NoName
      ELSE AllProcs[CHOOSE i \in Is : \A j \in Is : j <= i].n.n

\* The identifiers walkExpr and walkStmt of this check reach.
S11Descends == {"TransferStmt", "ParallelBlock", "SeqBlock", "AltBlock",
                "AnyBlock", "IfStmt", "BinaryExpr", "UnaryExpr",
                "ConditionalExpr", "SliceExpr", "ConcatExpr"}

RECURSIVE identifiersUnder(_, _)
identifiersUnder(n, p) ==
  IF n.k = "IdentifierExpr" THEN <<[n |-> n, p |-> p]>>
  ELSE IF n.k \notin S11Descends THEN <<>>
  ELSE LET slots == IF n.k \in {"ParallelBlock", "SeqBlock"} THEN {2}
                    ELSE 1 .. Len(n.s)
           kids == KidsIn(n, p, slots)
       IN  FlattenSeq([i \in 1 .. Len(kids) |->
             identifiersUnder(kids[i].n, kids[i].p)])

usesOutside(kids, proc) ==
  LET uses == FlattenSeq([i \in 1 .. Len(kids) |->
                identifiersUnder(kids[i].n, kids[i].p)])
  IN  Report("S11", uses, LAMBDA u : stateOwner(u.n.n[1]) \notin {NoName, proc})

S11 ==
  LET ms == Top("ModuleBlock")
      bodies(ds) == FlattenSeq([i \in 1 .. Len(ds) |-> KidsIn(ds[i].n, ds[i].p, {1})])
      inProcs(ps) == FlattenSeq([i \in 1 .. Len(ps) |->
                       usesOutside(KidsIn(ps[i].n, ps[i].p, {1}), ps[i].n.n)])
  IN  FlattenSeq([i \in 1 .. Len(ms) |->
        usesOutside(bodies(KidsIn(ms[i].n, ms[i].p, {2})), NoName)
        \o inProcs(Procs(ms[i]))
        \o usesOutside(KidsIn(ms[i].n, ms[i].p, {4}), NoName)])

(* S12: a slice is assigned only on a variable (or a memory cell).          *)
S12 ==
  Report("S12", walkUnit, LAMBDA v :
    /\ v.n.k = "TransferStmt"
    /\ v.n.s[1][1].k = "SliceExpr"
    /\ KindOf(headIdentifier(v.n.s[1][1])) \notin {"null", "Mem", "Variable"})

-----------------------------------------------------------------------------
(* S15: slice indices are literals, except into a memory.                   *)

RECURSIVE exprsUnder(_, _)
exprsUnder(n, p) ==
  LET kids == KidsIn(n, p, 1 .. Len(n.s))
  IN  <<[n |-> n, p |-> p]>>
      \o FlattenSeq([i \in 1 .. Len(kids) |-> exprsUnder(kids[i].n, kids[i].p)])

\* The nodes whose expressions the check looks at.
ExprsInDeclOrStmt ==
  {"RegDecl", "WireDecl", "VariableDecl", "MemDecl", "StructInstDecl",
   "TransferStmt"}

isCompileTimeConst(slot) == slot = Null \/ IsLiteral(slot[1])

walkSliceCheck(e) ==
  /\ KindOf(headIdentifier(e.s[1][1])) # "Mem"
  /\ ~(isCompileTimeConst(e.s[2]) /\ isCompileTimeConst(e.s[3]))

S15 ==
  LET from == SelectSeq(walkUnit, LAMBDA v : v.n.k \in ExprsInDeclOrStmt)
      exprs == FlattenSeq([i \in 1 .. Len(from) |-> Tail(exprsUnder(from[i].n, from[i].p))])
  IN  Report("S15", exprs, LAMBDA v : v.n.k = "SliceExpr" /\ walkSliceCheck(v.n))

(* S16: top-level parameters; S20: the clock and reset of an interface.     *)
S16 == Report("S16", Top("TopLevelParamDecl"), LAMBDA v : TRUE)

S20 ==
  Report("S20", Top("DeclareBlock"), LAMBDA v :
    v.n.a.mod = "Interface" /\ NoName \in {v.n.a.clk, v.n.a.rst})

simModules == {d.n.n : d \in {x \in ToSet(Top("DeclareBlock")) : x.n.a.mod = "Simulation"}}

(* S17: system tasks only in a simulation module.                           *)
S17 ==
  LET ms == SelectSeq(Top("ModuleBlock"), LAMBDA m : m.n.n \notin simModules)
      under(ds) == FlattenSeq([i \in 1 .. Len(ds) |-> walkDecl(ds[i].n, ds[i].p, {})])
  IN  FlattenSeq([i \in 1 .. Len(ms) |->
        Report("S17", walkStmts(ms[i].n, ms[i].p, {4}, {})
                      \o under(KidsIn(ms[i].n, ms[i].p, {3}))
                      \o under(KidsIn(ms[i].n, ms[i].p, {2})),
               LAMBDA v : v.n.k = "SystemTaskStmt")])

(* S29: _init only at the top level of a simulation module.                 *)
S29 ==
  LET ms == Top("ModuleBlock")
  IN  FlattenSeq([i \in 1 .. Len(ms) |->
        Report("S29", walkStmts(ms[i].n, ms[i].p, {4}, {}), LAMBDA v :
          /\ v.n.k = "InitBlockStmt"
          /\ ms[i].n.n \in simModules => "InAnyAction" \in v.ctx)])

(* S21: finish and invoke.                                                  *)
S21 ==
  Report("S21", walkUnit, LAMBDA v :
    \/ v.n.k = "BareFinishStmt" /\ "InProc" \notin v.ctx
    \/ /\ v.n.k = "ControlCallStmt"
       /\ Len(v.n.n) >= 2
       /\ Last(v.n.n) \in {"finish", "invoke"}
       /\ KindOf(v.n.n[1]) # "Proc")

-----------------------------------------------------------------------------
(* S22: return only in a func, with the width of its return terminal.       *)

exprWidth(p) == LET t == inferredType[p]
                IN  IF t.t = "Bit" THEN 1 ELSE BitVectorWidth(t)

AllPorts ==
  LET ds == Top("DeclareBlock")
  IN  FlattenSeq([i \in 1 .. Len(ds) |-> ds[i].n.s[2]])

\* The width lookup gives for the name of any port of any declare; 0 when
\* the name is no port.
portWidths(name) ==
  IF \A i \in 1 .. Len(AllPorts) : AllPorts[i].n # name THEN 0
  ELSE LET t == IF lookup(name) = NoSymbol THEN NoType ELSE lookup(name).type
       IN  IF IsBitVector(t) THEN t.w ELSE 1

\* The return terminal of the last func_in or func_out of that name that has
\* one, whatever declare it is in.
funcReturn(name) ==
  LET Is == {i \in 1 .. Len(AllPorts) :
               /\ AllPorts[i].a.dir \in {"FuncIn", "FuncOut"}
               /\ AllPorts[i].n = name /\ AllPorts[i].a.ret # NoName}
  IN  IF Is = {} THEN NoName
      ELSE AllPorts[CHOOSE i \in Is : \A j \in Is : j <= i].a.ret

S22InFunc(f) ==
  LET terminal == funcReturn(Last(f.n.n))
      w        == IF terminal = NoName THEN 0 ELSE portWidths(terminal)
  IN  Report("S22", walkStmts(f.n, f.p, {1}, {}), LAMBDA v :
        /\ v.n.k = "ReturnStmt"
        /\ terminal # NoName
        /\ \/ v.n.s[1] = Null
           \/ /\ v.n.s[1] # Null
              /\ LET rw == exprWidth(Kid(v.p, 1, 1))
                 IN  rw # 0 /\ w # 0 /\ rw # w)

S22 ==
  LET ms == Top("ModuleBlock")
      funcs == FlattenSeq([i \in 1 .. Len(ms) |-> KidsIn(ms[i].n, ms[i].p, {2})])
  IN  Report("S22", walkUnit, LAMBDA v :
               v.n.k = "ReturnStmt" /\ "InFunc" \notin v.ctx)
      \o FlattenSeq([i \in 1 .. Len(funcs) |-> S22InFunc(funcs[i])])

-----------------------------------------------------------------------------
(* S25: the two kinds of goto.                                              *)

ownStateNames(s) ==
  IF s.k # "ParallelBlock" THEN {}
  ELSE UNION {ToSet(d.a) : d \in {x \in ToSet(s.s[1]) : x.k = "StateNameDecl"}}

RECURSIVE collectLabels(_)
collectLabels(s) ==
  CASE s.k = "LabeledStmt" -> {s.n} \cup collectLabels(s.s[1][1])
    [] s.k = "SeqBlock"    -> UNION {collectLabels(x) : x \in ToSet(s.s[2])}
    [] OTHER -> {}

\* The gotos reached from s through statements of the given kinds.
RECURSIVE gotosUnder(_, _, _)
gotosUnder(n, p, kinds) ==
  IF n.k = "GotoStmt" THEN <<[n |-> n, p |-> p]>>
  ELSE IF n.k \notin kinds THEN <<>>
  ELSE LET kids == SubStmts(n, p)
       IN  FlattenSeq([i \in 1 .. Len(kids) |->
             gotosUnder(kids[i].n, kids[i].p, kinds)])

walkStateBody(c, names) ==
  Report("S25", gotosUnder(c.n, c.p, {"ParallelBlock", "AltBlock", "AnyBlock", "IfStmt"}),
         LAMBDA g : g.n.n \notin names)

walkSeqBody(c, labels) ==
  Report("S25", gotosUnder(c.n, c.p, {"LabeledStmt", "SeqBlock", "WhileBlock",
                                      "ForBlock", "IfStmt"}),
         LAMBDA g : g.n.n \notin labels)

RECURSIVE dispatch(_, _)
dispatch(c, names) ==
  LET each(kids) == FlattenSeq([i \in 1 .. Len(kids) |-> dispatch(kids[i], names)])
      states == SelectSeq(KidsIn(c.n, c.p, {1}), LAMBDA d : d.n.k = "StateDefn")
      bodies == FlattenSeq([i \in 1 .. Len(states) |-> KidsIn(states[i].n, states[i].p, {1})])
  IN  CASE c.n.k = "SeqBlock" -> walkSeqBody(c, collectLabels(c.n))
        [] c.n.k = "ParallelBlock" ->
             FlattenSeq([i \in 1 .. Len(bodies) |-> walkStateBody(bodies[i], names)])
             \o each(SubStmts(c.n, c.p))
        [] c.n.k \in {"AltBlock", "AnyBlock", "IfStmt"} -> each(SubStmts(c.n, c.p))
        [] OTHER -> <<>>

S25 ==
  FlattenSeq([i \in 1 .. Len(AllProcs) |->
    LET body == KidsIn(AllProcs[i].n, AllProcs[i].p, {1})[1]
    IN  dispatch(body, ownStateNames(body.n))])

-----------------------------------------------------------------------------
(* S28: first_state, at most once per proc and naming one of its states.    *)

RECURSIVE firstStatesIn(_, _)
firstStatesIn(n, p) ==
  IF n.k # "ParallelBlock" THEN <<>>
  ELSE LET items == KidsIn(n, p, {2})
       IN  SelectSeq(KidsIn(n, p, {1}), LAMBDA d : d.n.k = "FirstStateDecl")
           \o FlattenSeq([i \in 1 .. Len(items) |->
                firstStatesIn(items[i].n, items[i].p)])

S28InProc(pd) ==
  LET body  == KidsIn(pd.n, pd.p, {1})[1]
      firsts == firstStatesIn(body.n, body.p)
  IN  [i \in 1 .. (IF Len(firsts) > 1 THEN Len(firsts) - 1 ELSE 0) |->
         Diag("S28", NoName, firsts[i + 1].p)]
      \o Report("S28", firsts, LAMBDA f : f.n.n \notin stateNamesIn(body.n))

S28 == FlattenSeq([i \in 1 .. Len(AllProcs) |-> S28InProc(AllProcs[i])])

-----------------------------------------------------------------------------
(* The registry.  Some checks are registered and empty: their rule holds by *)
(* the grammar, or is the lowering's.  S14 walks the expressions and        *)
(* reports nothing, since the parser has; S18 changes the table.            *)

S02 == <<>>
S13 == <<>>
S14 == <<>>
S19 == <<>>
S23 == <<>>
S24 == <<>>
S26 == <<>>
S27 == <<>>

Sn == <<1, 2, 3, 4, 5, 6, 7, 8, 9, 10, 11, 12, 13, 14, 15, 16, 17, 18, 19, 20,
        21, 22, 23, 24, 25, 26, 27, 28, 29>>

run(sn) ==
  CASE sn = 1 -> S01 [] sn = 2 -> S02 [] sn = 3 -> S03 [] sn = 4 -> S04
    [] sn = 5 -> S05 [] sn = 6 -> S06 [] sn = 7 -> S07 [] sn = 8 -> S08
    [] sn = 9 -> S09 [] sn = 10 -> S10 [] sn = 11 -> S11 [] sn = 12 -> S12
    [] sn = 13 -> S13 [] sn = 14 -> S14 [] sn = 15 -> S15 [] sn = 16 -> S16
    [] sn = 17 -> S17 [] sn = 18 -> <<>> [] sn = 19 -> S19 [] sn = 20 -> S20
    [] sn = 21 -> S21 [] sn = 22 -> S22 [] sn = 23 -> S23 [] sn = 24 -> S24
    [] sn = 25 -> S25 [] sn = 26 -> S26 [] sn = 27 -> S27 [] sn = 28 -> S28
    [] sn = 29 -> S29

\* S18: the fields of the struct a top-level struct's name is found to name,
\* from the first member down.
PackMSBFirst(sym) ==
  LET w == [i \in 1 .. Len(sym.fields) |-> sym.fields[i].w]
      Above[i \in 0 .. Len(w)] == IF i = 0 THEN 0 ELSE Above[i - 1] + w[i]
  IN  [sym EXCEPT !.fields = [i \in 1 .. Len(w) |->
         [sym.fields[i] EXCEPT !.off = sym.total - Above[i - 1] - w[i]]]]

S18 ==
  LET structs == {d.n.n : d \in ToSet(Top("StructDecl"))}
      found == {lookup(n) : n \in structs}
  IN  retired' = [i \in 1 .. Len(retired) |->
        [retired[i] EXCEPT !.table = [n \in DOMAIN retired[i].table |->
           LET sym == retired[i].table[n]
           IN  IF sym \in found /\ sym.kind = "StructType"
                 THEN PackMSBFirst(sym) ELSE sym]]]
=============================================================================
