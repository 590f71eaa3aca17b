---------------------------- MODULE Compilation -----------------------------
(* The compiler as a whole: nslc (tools/nslc/main.cpp) and its stages       *)
(* (lib/Driver), and nsl-opt, which drives the same passes over a file of   *)
(* operations.                                                              *)
(*                                                                          *)
(* Reading, preprocessing and lexing are modelled elsewhere; here each has  *)
(* its outcomes.  The semantic pass takes its own steps.  The lowering      *)
(* takes one step for each item of the unit, the pass manager one for each  *)
(* pass, and the conversion to CIRCT one for each module, proc and func.    *)
EXTENDS Sema, ASTToMLIR, StructuralPasses, FSMPatterns, Behaviour

CONSTANT Runs           \* the ways the tools are started

VARIABLES
  phase,                \* where the tool is
  args,                 \* the arguments not yet read
  stage, input,         \* what they have set
  exit,                 \* the exit code, NoExit while the tool runs
  printed,              \* whether a result was written to the output
  engineError,          \* an error in the engine from before the semantic pass
  item,                 \* the next item of the unit, module, proc or func
  env,                  \* the tables of the visitor
  ops,                  \* the body of the builtin module
  lowered,              \* ops as the first pass met it
  todo,                 \* the slots still to run; CIRCTSlot is nsl-to-circt
  hws, machines         \* what the conversion has made so far

cliVars == <<args, stage, input>>
irVars == <<item, env, ops, lowered, todo>>
circtVars == <<hws, machines>>
compVars == <<phase, cliVars, exit, printed, engineError, irVars, circtVars, semaVars>>

NoExit == -1
Aborted == 134
CIRCTSlot == NumSlots + 1

\* Arguments are records: k tells them apart, v is the stage that one names.
Argument(k, v) == [k |-> k, v |-> v]

Stages == {"tokens", "ast", "mlir", "hw", "circt"}

PassSlots(s) ==
  [i \in 1 .. IF s = "mlir" THEN NumSlots ELSE CIRCTSlot |-> i]

-----------------------------------------------------------------------------

CompInit ==
  /\ SemaInit
  /\ \E r \in Runs :
       /\ r.unit = unit
       /\ phase = IF r.tool = "nslc" THEN "args" ELSE "verify"
       /\ args = r.args
       /\ ops = r.ops
       /\ todo = r.flags
  /\ stage = "" /\ input = ""
  /\ exit = NoExit /\ printed = FALSE /\ engineError = FALSE
  /\ item = 1 /\ env = NoTables /\ lowered = <<>>
  /\ hws = <<>> /\ machines = <<>>

Continue(p) == phase' = p /\ UNCHANGED <<exit, printed>>
Return(code) == phase' = "exit" /\ exit' = code /\ UNCHANGED printed
PrintResult == phase' = "exit" /\ exit' = 0 /\ printed' = TRUE

\* diag.hasError().
hasError == engineError \/ hasErrors

-----------------------------------------------------------------------------
(* main: the arguments in order, then the stage.                            *)

ParseArgument ==
  /\ phase = "args" /\ args # <<>>
  /\ LET a == Head(args)
         next(n) == args' = SubSeq(args, n + 1, Len(args)) /\ Continue("args")
         value == a.k \in {"-I", "-D"} /\ Len(args) > 1
         file == a.k \in {"-", "file"} /\ input = ""
     IN  \/ a.k = "--version" /\ PrintResult /\ UNCHANGED cliVars
         \/ a.k = "-emit" /\ stage' = a.v /\ next(1) /\ UNCHANGED input
         \/ value /\ next(2) /\ UNCHANGED <<stage, input>>
         \/ a.k = "option" /\ next(1) /\ UNCHANGED <<stage, input>>
         \/ file /\ input' = a.k /\ next(1) /\ UNCHANGED stage
         \/ /\ a.k \notin {"--version", "-emit", "option"} /\ ~value /\ ~file
            /\ Return(2) /\ UNCHANGED cliVars
  /\ UNCHANGED <<engineError, irVars, circtVars, semaVars>>

\* The standard input is copied to a file before the stage is looked at.
Dispatch ==
  /\ phase = "args" /\ args = <<>>
  /\ IF stage = "" \/ input = "" THEN Return(2)
     ELSE \/ input = "-" /\ Return(3)
          \/ IF stage \in Stages THEN Continue("load") ELSE Return(2)
  /\ UNCHANGED <<cliVars, engineError, irVars, circtVars, semaVars>>

-----------------------------------------------------------------------------
(* The stages up to the semantic pass.                                      *)

loadFile ==
  /\ phase = "load"
  /\ Return(3) \/ Continue("preprocess")
  /\ UNCHANGED <<cliVars, engineError, irVars, circtVars, semaVars>>

Preprocess ==
  /\ phase = "preprocess"
  /\ \/ engineError' = TRUE /\ Return(1)
     \/ engineError' = FALSE /\ Continue(IF stage = "tokens" THEN "lex" ELSE "parse")
  /\ UNCHANGED <<cliVars, irVars, circtVars, semaVars>>

emitTokens ==
  /\ phase = "lex"
  /\ \/ engineError' = TRUE /\ Return(1)
     \/ engineError' = FALSE /\ PrintResult
  /\ UNCHANGED <<cliVars, irVars, circtVars, semaVars>>

\* A tree, with or without errors of the lexer; or none, with an error.  The
\* semantic pass runs over any tree.
parseCompilationUnit ==
  /\ phase = "parse"
  /\ \/ engineError' \in BOOLEAN /\ Continue("sema")
     \/ engineError' = TRUE /\ Return(1)
  /\ UNCHANGED <<cliVars, irVars, circtVars, semaVars>>

runSema ==
  /\ phase = "sema"
  /\ ResolutionStep \/ RunConstraint
  /\ UNCHANGED <<phase, cliVars, exit, printed, engineError, irVars, circtVars>>

SemaGate ==
  /\ phase = "sema" /\ SemaDone
  /\ IF hasError THEN Return(1) ELSE IF stage = "ast" THEN PrintResult ELSE Continue("lower")
  /\ UNCHANGED <<cliVars, engineError, irVars, circtVars, semaVars>>

-----------------------------------------------------------------------------
(* lowerToNSL: the items of the unit in order, then the passes.  What MLIR  *)
(* reports does not reach the engine.                                       *)

LowerItem ==
  /\ phase = "lower" /\ item <= Len(unit.s[1])
  /\ \E m \in {visit(env, unit.s[1][item], Kid(<<>>, 1, item))} :
       env' = m.env /\ ops' = ops \o m.ops
  /\ item' = item + 1
  /\ UNCHANGED <<phase, cliVars, exit, printed, engineError, lowered, todo, circtVars, semaVars>>

lowerToNSL ==
  /\ phase = "lower" /\ item > Len(unit.s[1])
  /\ lowered' = ops /\ todo' = PassSlots(stage) /\ item' = 1
  /\ Continue("passes")
  /\ UNCHANGED <<cliVars, engineError, env, ops, circtVars, semaVars>>

\* nsl-opt verifies what it has read.
OptVerify ==
  /\ phase = "verify"
  /\ lowered' = ops
  /\ IF verify(ops) THEN Continue("passes") ELSE Return(1)
  /\ UNCHANGED <<cliVars, engineError, item, env, ops, todo, circtVars, semaVars>>

runNSLPasses ==
  /\ phase = "passes" /\ todo # <<>> /\ Head(todo) # CIRCTSlot
  /\ \E r \in {runPass(Head(todo), ops)} :
         /\ ops' = r.ops
         /\ IF r.ok /\ verify(r.ops) THEN todo' = Tail(todo) /\ Continue("passes")
            ELSE Return(1) /\ UNCHANGED todo
  /\ UNCHANGED <<cliVars, engineError, item, env, lowered, circtVars, semaVars>>

-----------------------------------------------------------------------------
(* nsl-to-circt.                                                            *)

Modules == SelectSeq(ops, LAMBDA c : c.o = "module")

RestOps(o) ==
  FlattenSeq([i \in 1 .. Len(hws) |-> SelectSeq(hws[i].rest, LAMBDA c : c.o = o)])
ProcOps == RestOps("proc")
FuncSeqs == RestOps("func")
ProcNames == {p.n : p \in ToSet(ProcOps)}

lowerToCIRCT ==
  /\ phase = "passes" /\ todo # <<>> /\ Head(todo) = CIRCTSlot
  /\ todo' = Tail(todo) /\ item' = 1
  /\ Continue("modules")
  /\ UNCHANGED <<cliVars, engineError, env, ops, lowered, circtVars, semaVars>>

Convert(ok, next) ==
  IF ok THEN item' = item + 1 /\ Continue(next) ELSE Return(1) /\ UNCHANGED item

lowerNSLModulesToHWModules ==
  /\ phase = "modules" /\ item <= Len(Modules)
  /\ \E h \in {lowerOneModule(ops, hws, Modules[item])} :
         /\ hws' = Append(hws, h)
         /\ \/ Convert(h.ok /\ ~HasDangling(h), "modules")
            \/ h.ok /\ HasDangling(h) /\ Return(Aborted) /\ UNCHANGED item
  /\ UNCHANGED <<cliVars, engineError, env, ops, lowered, todo, machines, semaVars>>

ModulesDone ==
  /\ phase = "modules" /\ item > Len(Modules)
  /\ item' = 1 /\ Continue("machines")
  /\ UNCHANGED <<cliVars, engineError, env, ops, lowered, todo, circtVars, semaVars>>

\* All procs of the unit, then all funcs.
lowerNSLProcsToFSMMachines ==
  /\ phase = "machines" /\ item <= Len(ProcOps \o FuncSeqs)
  /\ \E m \in {IF item <= Len(ProcOps) THEN lowerOneProc(ProcOps[item], ProcNames)
              ELSE lowerOneFuncSeq(FuncSeqs[item - Len(ProcOps)])} :
       machines' = Append(machines, m) /\ Convert(m.ok, "machines")
  /\ UNCHANGED <<cliVars, engineError, env, ops, lowered, todo, hws, semaVars>>

\* No pattern is registered: an operation of the nsl dialect that is left
\* fails the conversion.  Parameters were erased with the modules.
Illegal ==
  \/ \E op \in ToSet(ops) :
       \/ op.o = "struct"
       \/ op.o = "declare" /\ FirstOp(Modules, LAMBDA m : m.n = op.n) = NoOp
  \/ RestOps("state") # <<>>

Symbols ==
  [i \in 1 .. Len(hws) |-> hws[i].n] \o [i \in 1 .. Len(machines) |-> machines[i].n]

verifyCIRCT ==
  /\ \A h \in ToSet(hws) : verifyHWModule(h, hws)
  /\ \A m \in ToSet(machines) : verifyMachine(m)
  /\ \A i, j \in 1 .. Len(Symbols) : Symbols[i] = Symbols[j] => i = j

applyFullConversion ==
  /\ phase = "machines" /\ item > Len(ProcOps \o FuncSeqs)
  /\ IF ~Illegal /\ verifyCIRCT THEN Continue("passes") ELSE Return(1)
  /\ UNCHANGED <<cliVars, engineError, irVars, circtVars, semaVars>>

\* The result is printed to a buffer and the buffer to the output.
PrintModule ==
  /\ phase = "passes" /\ todo = <<>>
  /\ IF hasError THEN Return(1) ELSE PrintResult
  /\ UNCHANGED <<cliVars, engineError, irVars, circtVars, semaVars>>

Exited == phase = "exit" /\ UNCHANGED compVars

CompNext ==
  \/ ParseArgument \/ Dispatch \/ loadFile \/ Preprocess \/ emitTokens
  \/ parseCompilationUnit \/ runSema \/ SemaGate \/ LowerItem \/ lowerToNSL
  \/ OptVerify \/ runNSLPasses \/ lowerToCIRCT \/ lowerNSLModulesToHWModules
  \/ ModulesDone \/ lowerNSLProcsToFSMMachines \/ applyFullConversion
  \/ PrintModule \/ Exited

CompSpec == CompInit /\ [][CompNext]_compVars

-----------------------------------------------------------------------------
(* Properties.                                                              *)

Hardware == {"hw", "circt"}

\* The declare block before item i that names the same module, if any.
DeclaresBefore(i) ==
  {unit.s[1][j] : j \in {k \in 1 .. i - 1 :
     unit.s[1][k].k = "DeclareBlock" /\ unit.s[1][k].n = unit.s[1][i].n}}

\* The reset values a register may be declared with; a literal that is not a
\* plain decimal is left open.
DeclaredInits(m, name) ==
  LET d == CHOOSE x \in ToSet(m.s[1]) : x.k = "RegDecl" /\ x.n = name
  IN  IF d.s[2] = Null THEN {0}
      ELSE IF UnsizedDecimal(d.s[2][1]) THEN {d.s[2][1].a.v} ELSE Nat

\* The modules of the unit that are compared, each with its declare.
Compared ==
  {<<i, d>> \in (1 .. Len(unit.s[1])) \X ToSet(unit.s[1]) :
     /\ unit.s[1][i].k = "ModuleBlock"
     /\ DeclaresBefore(i) = {d}
     /\ Comparable(unit.s[1][i], d)}

SameCycle(i, d) ==
  LET m == unit.s[1][i]
      h == CHOOSE x \in ToSet(hws) : x.from = Kid(<<>>, 1, i)
  IN  Agree(h, m, d)

SameReset(i) ==
  LET m == unit.s[1][i]
      h == CHOOSE x \in ToSet(hws) : x.from = Kid(<<>>, 1, i)
  IN  \A r \in ToSet(h.regs) : r.init \in DeclaredInits(m, r.n)

\* Whenever nslc writes a hardware module, that module computes in every
\* cycle, from every value of its inputs and registers, what the source says:
\* the same outputs, the same wires, the same next value of every register,
\* with the same decimal reset values.  The conditions of nested if, alt and any
\* blocks, the order of writes and the expansion of variables all have to
\* fit together for this (lowerControlOp and its callees).
NetworkMatchesSource ==
  exit = 0 /\ stage \in Hardware =>
    \A c \in Compared :
      AnyTargets(unit.s[1][c[1]]) \cap Regs(unit.s[1][c[1]]) = {} =>
        SameCycle(c[1], c[2]) /\ SameReset(c[1])

\* What nslc writes is sound.  A tree, the operations or the hardware come out
\* only when neither the lexer nor the semantic pass reported anything and every
\* expression has a type, so that an unknown name never goes on silently; and
\* nothing but a failed run leaves the output empty.  What is written as mlir or
\* hardware went through all passes: it verifies, no generate, parameter or splice
\* is left, and no two storage declarations of a module share a name, whatever the
\* unit declared and however often a generate copied it (main,
\* markUnresolved, NSLCheckSemanticsPass).
OutputSound ==
  /\ exit # NoExit => (printed <=> exit = 0)
  /\ printed => /\ ~engineError /\ ~hasErrors
                /\ \A p \in DOMAIN inferredType : inferredType[p] # Unresolved
  /\ printed /\ stage \in {"mlir"} \cup Hardware =>
       /\ verify(ops)
       /\ \A op \in OpsIn(ops) : op.o # "structural_generate" /\ ~Residue(op)
       /\ \A op \in ToSet(ops) : op.o \notin {"param_int", "param_str"}
       /\ \A m \in ToSet(Modules) :
            LET names(o) == SelectSeq(Body(m), LAMBDA c : c.o \in o)
                store == names({"reg", "wire", "variable", "mem"})
            IN  Cardinality({c.n : c \in ToSet(store)}) = Len(store)

\* The paths of all gotos under node n, which stands at p.
RECURSIVE Gotos(_, _)
Gotos(n, p) ==
  (IF n.k = "GotoStmt" THEN {p} ELSE {})
  \cup UNION {UNION {Gotos(n.s[j][i], Kid(p, j, i)) : i \in 1 .. Len(n.s[j])} : j \in 1 .. Len(n.s)}

\* A unit that passes the semantic checks and is compiled loses no goto: the
\* operations made from it hold one goto for each goto of the source
\* (visit(GotoStmt) of ASTToMLIR.cpp).
GotosKept ==
  printed /\ stage \in {"mlir"} \cup Hardware =>
    \A p \in Gotos(unit, <<>>) : \E op \in OpsIn(lowered) : op.o = "goto" /\ op.id = p

-----------------------------------------------------------------------------
(* Reference: a generate as the loop it is written as.                      *)

RECURSIVE LoopValues(_, _, _)
LoopValues(i, upper, step) ==
  IF (step > 0 /\ i < upper) \/ (step < 0 /\ i > upper)
  THEN <<i>> \o LoopValues(i + step, upper, step) ELSE <<>>

NameOf(block, id) == (CHOOSE op \in OpsIn(block) : op.id = id).n

\* around: the loop variables and their values, the innermost last.
InLoops(text, around) ==
  FoldRight(LAMBDA l, t : substituteLoopVar(t, l.var, l.value), around, text)

\* The operations of a block in order, each with the name it gets and the
\* names of the values it uses, the body of a loop once for each value.
RECURSIVE Unrolled(_, _, _)
Unrolled(block, all, around) ==
  FlattenSeq([i \in 1 .. Len(block) |->
    LET op == block[i]
        inner(k, loops) == Unrolled(op.r[k], all, loops)
        values == LoopValues(op.v[1], op.v[2], op.v[3])
    IN  IF op.o = "structural_generate"
        THEN FlattenSeq([j \in 1 .. Len(values) |->
               inner(1, Append(around, [var |-> op.n, value |-> values[j]]))])
        ELSE <<[o |-> op.o, n |-> InLoops(op.n, around),
                uses |-> [j \in 1 .. Len(op.a) |-> InLoops(NameOf(all, op.a[j].id), around)]]>>
             \o FlattenSeq([k \in 1 .. Len(op.r) |-> inner(k, around)])])

\* After nsl-expand-generate the operations are those that running the loops
\* gives, in that order: as many copies as the loop has iterations, also when
\* it counts down, is nested or is empty, with the value of each iteration in
\* the names, and every use inside a copy bound to that copy
\* (NSLExpandGeneratePass.cpp, expandOne).
GenerateUnrolled ==
  phase = "passes" /\ todo # <<>> /\ Head(todo) = 3 =>
    Unrolled(ops, ops, <<>>) = Unrolled(lowered, lowered, <<>>)

-----------------------------------------------------------------------------
(* Reference: the states a proc can be in.                                  *)

\* What state s of proc p does, the states it may go to, and whether it may
\* end this machine.
InState(p, s) == ToSet(Body(CHOOSE c \in ToSet(Body(p)) : c.o = "state" /\ c.n = s))

Leaves(p, s) == {c.ref : c \in {x \in InState(p, s) : x.o = "goto"}}

EndsIn(p, s) ==
  \E c \in InState(p, s) :
    c.o \in {"finish", "finish_method"} \/ (c.o = "call" /\ c.ref \in ProcNames)

StatesOf(p) == {c.n : c \in {x \in ToSet(Body(p)) : x.o = "state"}}

RECURSIVE Reached(_, _)
Reached(p, from) ==
  LET next == from \cup UNION {Leaves(p, s) : s \in from \cap StatesOf(p)}
  IN  IF next = from THEN from ELSE Reached(p, next)

\* The states a machine can be in.
RECURSIVE Visited(_, _)
Visited(m, from) ==
  LET next == from \cup UNION {ToSet(s.to) : s \in {x \in ToSet(m.states) : x.n \in from}}
  IN  IF next = from THEN from ELSE Visited(m, next)

\* Every proc whose conversion succeeds becomes one machine that starts where
\* the proc starts, can be in exactly the states of the proc that its gotos
\* lead to, and stops, in a state it never leaves, exactly when the proc can
\* finish or hand over to another proc (FSMPatterns.cpp).
MachineFollowsProc ==
  exit = 0 /\ machines # <<>> =>
    \A p \in ToSet(ProcOps) :
      LET firsts == {c.ref : c \in {x \in ToSet(Body(p)) : x.o = "first_state"}}
          start == IF firsts = {} THEN FirstOp(Body(p), LAMBDA c : c.o = "state").n
                   ELSE CHOOSE f \in firsts : TRUE
          own == {m \in ToSet(machines) : m.from = p.id}
          m == CHOOSE x \in own : TRUE
          reached == Reached(p, {start})
          ends == Visited(m, {m.initial}) \ reached
      IN  /\ Cardinality(own) = 1
          /\ m.n = p.n
          /\ m.initial = start
          /\ reached \subseteq Visited(m, {m.initial})
          /\ ends \cap StatesOf(p) = {}
          /\ (ends # {}) <=> \E s \in reached : EndsIn(p, s)
          /\ \A s \in ToSet(m.states) : s.n \in ends => s.to = <<>>
=============================================================================
