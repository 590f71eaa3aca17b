------------------------------ MODULE MacroLines ------------------------------
(***************************************************************************)
(* The lines of a source whose text matters to the macros: `#define`,       *)
(* `#undef`, `#if` and passthrough lines, as Preprocessor.cpp hands them to *)
(* the macro table, the expression evaluator and the splicer.  Files,       *)
(* conditionals and positions are in Preprocessor.tla.                      *)
(***************************************************************************)
EXTENDS IdentSplicer, FiniteSets

CONSTANTS Macro,        \* macro names
          Body,         \* bodies a `#define` may have
          Literal,      \* conditions without macros, read before any is defined
          Condition,    \* conditions, and
          TextLine,     \* passthrough lines, that use the macros
          MaxLines      \* bound: lines read

VARIABLES macros,       \* the MacroTable
          last,         \* the last line, and what was made of it
          lines         \* lines read

mvars == <<macros, last, lines>>

Nothing == [kind |-> "none", text |-> <<>>, out |-> <<>>, v |-> Int64(0),
            errs |-> 0, warns |-> 0, overflow |-> FALSE]

Init ==
  /\ macros = [n \in Macro |-> NoMacro]
  /\ last = Nothing
  /\ lines = 0

(* The next line is read.  A condition and a line of text leave the macro   *)
(* table as it is, so nothing is lost by reading no line after one.         *)
Reads == lines < MaxLines /\ last.kind = "none" /\ lines' = lines + 1

(* handleDefine, handleUndef *)
Define ==
  /\ Reads
  /\ \E n \in Macro, b \in Body : macros' = redefine(macros, n, b)
  /\ last' = Nothing

Undef ==
  /\ Reads
  /\ \E n \in Macro : macros[n].def /\ macros' = undef(macros, n)
  /\ last' = Nothing

(* handleIf *)
If ==
  /\ Reads
  /\ \E t \in Condition \cup (IF \E n \in Macro : macros[n].def THEN {} ELSE Literal) :
       \E r \in {parse(macros, t)} :
         last' = [kind |-> "if", text |-> t, out |-> <<>>, v |-> r.v,
                  errs |-> r.errs, warns |-> r.warns, overflow |-> r.overflow]
  /\ UNCHANGED macros

(* The guards look at the line as it was before the splice. *)
GuardedBefore(t, x) == Cardinality(scanForHelper(t)) + Cardinality(scanForFloat(t))

(* The errors of the seam guards on line t, spliced to x.                   *)
Guarded(t, x) == Cardinality(scanForHelper(x)) + Cardinality(scanForFloat(x))

(* Kind::None in runFile *)
Passthrough ==
  /\ Reads
  /\ \E t \in TextLine :
       \E x \in {splice(macros, t)} :
         last' = [kind |-> "text", text |-> t, out |-> x.text, v |-> Int64(0),
                  errs |-> x.errs + Guarded(t, x.text), warns |-> x.warns,
                  overflow |-> x.overflow]
  /\ UNCHANGED macros

Next == Define \/ Undef \/ If \/ Passthrough

Spec == Init /\ [][Next]_mvars

----------------------------------------------------------------------------
(* The grammar of nsl_pp.ebnf section 3, read as a definition: the set of   *)
(* meanings of text t as a phrase of level l, one for each way of deriving  *)
(* it.  A meaning is a value and whether finding it is an error.            *)
PPLevel == << {"||"}, {"&&"}, {"==", "!="}, {"<", "<=", ">", ">="}, {"+", "-"}, {"*", "/", "%"} >>

Meaning(v, err) == [v |-> v, err |-> err]

Combined(o, a, b) ==
  IF DividesByZero(o, b.v) THEN Meaning(Int64(0), TRUE)
  ELSE Meaning(Value(o, a.v, b.v), a.err \/ b.err)

Called(name, args) ==
  LET r == invoke(name, [i \in 1..Len(args) |-> args[i].v])
  IN  Meaning(r.v, r.errs > 0 \/ \E i \in 1..Len(args) : args[i].err)

IsOp(p, ops) == p.t = "op" /\ p.o \in ops

(* Numbers, with digits before the point or after it, and an undefined      *)
(* macro between percent signs.                                             *)
Atom(t) ==
  CASE Len(t) = 1 /\ t[1].t = "num" -> {Meaning(Int64(t[1].v), FALSE)}
    [] Len(t) = 1 /\ t[1].t = "frac" /\ t[1].digits -> {Meaning(LongDouble(t[1].v, t[1].d), FALSE)}
    [] Len(t) = 1 /\ t[1].t = "splice" -> {Meaning(Int64(0), FALSE)}
    [] Len(t) = 2 /\ t[1].t = "num" /\ t[2].t = "frac" ->
         {Meaning(LongDouble(t[1].v * t[2].d + t[2].v, t[2].d), FALSE)}
    [] OTHER -> {}

Within(t, i) == Len(t) > i /\ t[i] = Op("(") /\ t[Len(t)] = Op(")")

RECURSIVE Denotes(_, _), Arguments(_)
Denotes(l, t) ==
  UNION {Atom(t),
         UNION {{Combined(t[x[2]].o, a, b) : a \in Denotes(x[1], SubSeq(t, 1, x[2] - 1)),
                                             b \in Denotes(x[1] + 1, SubSeq(t, x[2] + 1, Len(t)))} :
                x \in {y \in (l..Len(PPLevel)) \X (1..Len(t)) : IsOp(t[y[2]], PPLevel[y[1]])}},
         {Meaning(Unary(t[1].o, a.v), a.err) :
            a \in IF Len(t) > 1 /\ IsOp(t[1], {"+", "-", "!", "~"})
                  THEN Denotes(Len(PPLevel) + 1, Tail(t)) ELSE {}},
         IF Within(t, 1) THEN Denotes(1, SubSeq(t, 2, Len(t) - 1)) ELSE {},
         {Called(t[1].n, args) :
            args \in IF Within(t, 2) /\ t[1].t = "id"
                     THEN {s \in Arguments(SubSeq(t, 3, Len(t) - 1)) :
                             lookupHelper(t[1].n) /\ Len(s) = kHelpers[t[1].n]}
                     ELSE {}}}

(* The sequences of meanings of a text as a list of arguments.              *)
Arguments(t) ==
  {<<a>> : a \in Denotes(1, t)} \cup
  UNION {{<<a>> \o s : a \in Denotes(1, SubSeq(t, 1, k - 1)),
                       s \in Arguments(SubSeq(t, k + 1, Len(t)))} :
         k \in {j \in 1..Len(t) : IsOp(t[j], {","})}}

(* The names a text refers to, and the macros each macro leads to.          *)
Names(text) == {text[i].n : i \in {j \in 1..Len(text) : Refers(macros, text[j])}}

Leads(n, k) ==
  \A S \in SUBSET Macro :
    (\A a \in S \cup {n} : Names(macros[a].body) \subseteq S) => k \in S

(* An expansion of text need never end: some macros each refer to one of    *)
(* them, and the text does.                                                 *)
ReachesCycle(text) ==
  \E C \in SUBSET Macro :
    /\ Names(text) \cap C # {}
    /\ \A n \in C : Names(macros[n].body) \cap C # {}

----------------------------------------------------------------------------
(* The evaluator decides the grammar: an expanded condition that is no      *)
(* expression is reported, and one that is has the value the grammar gives  *)
(* it, with the precedence and the grouping to the left of its levels and   *)
(* an error exactly when evaluating it is one.                              *)
GrammarDecides ==
  last.kind = "if" /\ ~last.overflow /\ expand(macros, last.text).errs = 0 =>
    LET d == Denotes(1, expand(macros, last.text).text) IN
    IF d = {} THEN last.errs > 0 ELSE d = {Meaning(last.v, last.errs > 0)}

(* MacroExpander reports a recursion exactly for the texts from which a     *)
(* cycle of macros can be reached; what it returns otherwise refers to no   *)
(* macro.  A chain as long as there are macros is not mistaken for a cycle. *)
RecursionReportedExactly ==
  last.kind = "if" =>
    LET x == expand(macros, last.text) IN
    /\ x.errs > 0 <=> ReachesCycle(last.text)
    /\ x.errs = 0 => Names(x.text) = {}

(* No float and no helper call crosses the seam without an error, whether   *)
(* it stood on the line, came from a macro's body, was the value of one, or *)
(* was put together from a body and what adjoins it.                        *)
SeamHolds ==
  last.kind = "text" /\ last.errs = 0 =>
    \A i \in 1..Len(last.out) :
      ~FloatAt(last.out, i) /\ ~(CallAt(last.out, i) /\ lookupHelper(last.out[i].n))

(* A macro means the same number on a line as in a condition: evaluating    *)
(* what `%NAME%` became gives the value of the reference itself, although   *)
(* some bodies are spliced as text and others reduced and rendered.         *)
OneMeaning ==
  last.kind = "text" /\ ~last.overflow /\ Len(last.text) = 1 =>
    LET asked == parse(macros, last.text)
        read  == parse(macros, last.out)
    IN  asked.errs = 0 /\ asked.v.d # 0 => read.errs = 0 /\ read.v = asked.v
=============================================================================
