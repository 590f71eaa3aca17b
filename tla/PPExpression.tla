----------------------------- MODULE PPExpression -----------------------------
(***************************************************************************)
(* lib/Preprocess/PPExpression.cpp: the recursive-descent evaluator of      *)
(* compile-time expressions, in `#if` conditions and in macro bodies that   *)
(* are reduced to a value.                                                  *)
(*                                                                          *)
(* A Parser is a record: the rest of its text, the value of what it read    *)
(* last, whether it has reported an error (errored_), and the errors and    *)
(* warnings the engine received since it was made.  A `%NAME%` reference    *)
(* makes a nested Parser; kMaxParsers stands for the depth at which the     *)
(* stack of the process is used up, after which nothing else happens.       *)
(***************************************************************************)
EXTENDS HelperEvaluator, MacroExpander

CONSTANT kMaxParsers

ASSUME ParsersAssumption == kMaxParsers \in Nat \ {0}

NewParser(text, nested) ==
  [rest |-> text, v |-> Int64(0), errored |-> FALSE, errs |-> 0, warns |-> 0,
   args |-> <<>>, nested |-> nested, overflow |-> FALSE]

(* report: the first error of a Parser is the only one it reports.          *)
report(s) == IF s.errored THEN s ELSE [s EXCEPT !.errored = TRUE, !.errs = @ + 1]

Fails(s) == [report(s) EXCEPT !.v = Int64(0)]

(* peek, peek2: the operator the text goes on with.  After an operand the   *)
(* percent sign of a `%NAME%` is the modulo operator.                       *)
peek(s) ==
  IF s.rest = <<>> THEN "end"
  ELSE CASE Head(s.rest).t = "op"     -> Head(s.rest).o
         [] Head(s.rest).t = "splice" -> "%"
         [] OTHER                     -> "operand"

(* match, match2 *)
match(s) ==
  LET p == Head(s.rest) IN
  [s EXCEPT !.rest = IF p.t = "splice" THEN <<Id(p.n), Op("%")>> \o Tail(@) ELSE Tail(@)]

----------------------------------------------------------------------------
(* The precedence ladder: the operators of each level, loosest first, and   *)
(* what they make of their operands.                                        *)
LevelFlat == << {"||", "&&"}, {"==", "!="}, {"<=", ">=", "<", ">"}, {"+", "-"},
                {"*", "/", "%"} >>

Level == << {"||"}, {"&&"}, {"==", "!="}, {"<=", ">=", "<", ">"}, {"+", "-"},
            {"*", "/", "%"} >>

LogicalOr(a, b) == Truth(isTruthy(a) \/ isTruthy(b))

LogicalAnd(a, b) == Truth(isTruthy(a) /\ isTruthy(b))

Equality(o, a, b) == Truth((a.n * b.d = b.n * a.d) = (o = "=="))

Relational(o, a, b) ==
  Truth(CASE o = "<=" -> ~Less(b, a) [] o = ">=" -> ~Less(a, b)
          [] o = "<"  -> Less(a, b)  [] o = ">"  -> Less(b, a))

Additive(o, a, b) ==
  LET n == IF o = "+" THEN a.n * b.d + b.n * a.d ELSE a.n * b.d - b.n * a.d
  IN  IF a.real \/ b.real THEN LongDouble(n, a.d * b.d) ELSE Int64(n)

(* Of two integers `/` and `%` truncate; with a real they divide exactly    *)
(* and leave the remainder of the truncated quotient.  The divisor is not 0. *)
Multiplicative(o, a, b) ==
  LET q == Trunc(a.n * b.d, a.d * b.n) IN
  IF a.real \/ b.real
  THEN CASE o = "*" -> LongDouble(a.n * b.n, a.d * b.d)
         [] o = "/" -> LongDouble(a.n * b.d, a.d * b.n)
         [] o = "%" -> LongDouble(a.n * b.d - q * b.n * a.d, a.d * b.d)
  ELSE CASE o = "*" -> Int64(a.n * b.n) [] o = "/" -> Int64(q) [] o = "%" -> Int64(a.n - q * b.n)

DividesByZero(o, b) == o \in {"/", "%"} /\ ~isTruthy(b)

Value(o, a, b) ==
  CASE o = "||" -> LogicalOr(a, b)
    [] o = "&&" -> LogicalAnd(a, b)
    [] o \in {"==", "!="} -> Equality(o, a, b)
    [] o \in {"<=", ">=", "<", ">"} -> Relational(o, a, b)
    [] o \in {"+", "-"} -> Additive(o, a, b)
    [] o \in {"*", "/", "%"} -> Multiplicative(o, a, b)

(* Parser s has read the operand after a and operator o.                    *)
Applied(o, a, s) ==
  CASE s.overflow -> s
    [] OTHER -> IF DividesByZero(o, s.v) THEN Fails(s) ELSE [s EXCEPT !.v = Value(o, a, @)]

Unary(o, v) ==
  CASE o = "+" -> v
    [] o = "-" -> IF v.real THEN LongDouble(-v.n, v.d) ELSE Int64(-v.n)
    [] o = "!" -> Truth(~isTruthy(v))
    [] o = "~" -> Int64(-toInt(v) - 1)

----------------------------------------------------------------------------
(* parseNumber: a float if a fraction adjoins the digits.                   *)
parseNumber(s) ==
  LET p     == Head(s.rest)
      whole == IF p.t = "num" THEN p.v ELSE 0
      tail  == IF p.t = "num" THEN Tail(s.rest) ELSE s.rest
  IN  IF tail # <<>> /\ Head(tail).t = "frac"
      THEN [s EXCEPT !.rest = Tail(tail),
                     !.v = LongDouble(whole * Head(tail).d + Head(tail).v, Head(tail).d)]
      ELSE [s EXCEPT !.rest = tail, !.v = Int64(whole)]

(* skipBalancedParens *)
RECURSIVE SkipParens(_, _)
SkipParens(text, depth) ==
  IF text = <<>> THEN <<>>
  ELSE LET p == Head(text)
           d == IF p = Op("(") THEN depth + 1 ELSE IF p = Op(")") THEN depth - 1 ELSE depth
       IN  IF p = Op(")") /\ d = 0 THEN Tail(text) ELSE SkipParens(Tail(text), d)

(* Names that begin with an underscore; `_` alone stands for one that is    *)
(* not a helper.                                                            *)
Underscored(name) == lookupHelper(name) \/ name = "_"

(* What is left of a misplaced operator p once its first character has been *)
(* skipped.                                                                 *)
Junk(p) == IF p.t = "op" /\ p.o \in {"||", "&&", "==", "<=", ">="} THEN <<Op("?")>> ELSE <<>>

(* Parser s goes on with the value, and the diagnostics, of r.              *)
TakesOver(s, r) ==
  [s EXCEPT !.v = r.v, !.errs = @ + r.errs, !.warns = @ + r.warns,
            !.overflow = @ \/ r.overflow]

(* parseLogicalOr .. parseMultiplicative: an operand of the next level,     *)
(* then as many operators of this level as follow, each with an operand of  *)
(* the next level, applied left to right.  The ladder is climbed from the   *)
(* inside: the unary operand comes first, then the operators of level l or  *)
(* tighter; the operand of one leaves no tighter operator behind it.        *)
RECURSIVE Climb(_, _, _), parseArgs(_, _), parseUnary(_, _)

parseLevel(m, l, s) == Climb(m, l, parseUnary(m, s))

AtEnd(s) == IF s.overflow \/ s.rest = <<>> THEN s ELSE report(s)

(* A Parser's whole text; what is left over is an error.                    *)
parseTop(m, text, nested) ==
  IF nested > kMaxParsers THEN [NewParser(text, nested) EXCEPT !.overflow = TRUE]
  ELSE AtEnd(parseLevel(m, 1, NewParser(text, nested)))

(* The body of a macro, as the operand Parser s stands at.                  *)
Nested(m, s, name) ==
  LET x == expand(m, lookup(m, name).body)
  IN  [TakesOver(s, parseTop(m, x.text, s.nested + 1)) EXCEPT !.errs = @ + x.errs]

(* A bare identifier MacroExpander did not replace: it is undefined, has an *)
(* empty body, or is in a cycle; in a cycle nothing more is said if this    *)
(* Parser has seen an error reported.                                       *)
Unresolved(m, s, name) ==
  LET def == lookup(m, name) IN
  IF def.def /\ def.body # <<>> /\ s.errs > 0 THEN [s EXCEPT !.v = Int64(0)] ELSE Fails(s)

(* `%NAME%`: undefined it counts 0 under a warning; otherwise its body is   *)
(* expanded and evaluated by a Parser of its own.                           *)
parsePercentMacroRef(m, s) ==
  LET name == Head(s.rest).n
      past == [s EXCEPT !.rest = Tail(@)]
  IN  IF lookup(m, name).def THEN Nested(m, past, name)
      ELSE [past EXCEPT !.v = Int64(0), !.warns = @ + 1]

Collects(args, s) == [s EXCEPT !.args = Append(args, s.v)]

(* The arguments of a helper call, each appended to args.                   *)
parseArgs(m, s) ==
  LET t == Collects(s.args, parseLevel(m, 1, s))
  IN  IF peek(t) = "," THEN parseArgs(m, match(t)) ELSE t

(* Parser s has read the arguments of a call of helper `name`.              *)
Invokes(name, s) ==
  CASE s.overflow -> s
    [] OTHER -> IF peek(s) # ")" THEN Fails(s)
                ELSE IF Len(s.args) # kHelpers[name] THEN Fails(match(s))
                ELSE TakesOver(match(s), invoke(name, s.args))

(* A helper call, or a bare macro name.                                     *)
parseIdentOrHelper(m, s) ==
  LET name == Head(s.rest).n
      past == [s EXCEPT !.rest = Tail(@)]
      open == [match(past) EXCEPT !.args = <<>>]
  IN  IF ~Underscored(name) \/ peek(past) # "(" THEN Unresolved(m, past, name)
      ELSE IF ~lookupHelper(name) THEN [Fails(past) EXCEPT !.rest = SkipParens(@, 0)]
      ELSE [Invokes(name, IF peek(open) = ")" THEN open ELSE parseArgs(m, open))
              EXCEPT !.args = s.args]

Closes(s) ==
  CASE s.overflow -> s
    [] OTHER -> IF peek(s) = ")" THEN match(s) ELSE report(s)

parsePrimary(m, s) ==
  LET p == Head(s.rest) IN
  CASE p = Op("(") -> Closes(parseLevel(m, 1, match(s)))
    [] p.t = "splice" -> parsePercentMacroRef(m, s)
    [] p.t \in {"num", "frac"} /\ p # Point -> parseNumber(s)
    [] p.t = "id" -> parseIdentOrHelper(m, s)
    [] OTHER -> Fails([s EXCEPT !.rest = Junk(p) \o Tail(@)])

(* The `!` of a misplaced `!=` negates the operand missing before `=`.      *)
parseUnary(m, s) ==
  CASE s.rest = <<>> -> Fails(s)
    [] peek(s) \in {"+", "-", "!", "~"} ->
         [parseUnary(m, match(s)) EXCEPT !.v = Unary(peek(s), @)]
    [] peek(s) = "!=" -> [Fails(match(s)) EXCEPT !.v = Truth(TRUE)]
    [] OTHER -> parsePrimary(m, s)

(* Once the stack is used up nothing goes on.                               *)
Climb(m, l, s) ==
  CASE s.overflow -> s
    [] OTHER ->
         LET at == {k \in l..Len(Level) : peek(s) \in Level[k]}
             k  == CHOOSE k \in at : TRUE
         IN  IF at = {} THEN s
             ELSE Climb(m, l, Applied(peek(s), s.v, parseLevel(m, k + 1, match(s))))

Verdict(errs, s) ==
  [v |-> s.v, errs |-> errs + s.errs, warns |-> s.warns, overflow |-> s.overflow]

(* PPExpression::parse: expansion first, then one Parser on what it left.   *)
parse(m, text) ==
  LET x == expand(m, text) IN Verdict(x.errs, parseTop(m, x.text, 1))
=============================================================================
