--------------------------- MODULE HelperEvaluator ---------------------------
(***************************************************************************)
(* lib/Preprocess/HelperEvaluator.cpp: the values of compile-time           *)
(* expressions (PPValue) and the closed set of helper functions.            *)
(*                                                                          *)
(* A value is an integer or a real; a real is a fraction in lowest terms,   *)
(* with the denominator 0 for the infinities and NaN together.  Rounding of *)
(* the long doubles and the 64-bit bounds of the integers are left out: the *)
(* values of the runs are small and dyadic.                                 *)
(***************************************************************************)
EXTENDS Integers, Sequences, TLC

RECURSIVE Gcd(_, _)
Gcd(a, b) == IF b = 0 THEN a ELSE Gcd(b, a % b)

Magnitude(n) == IF n < 0 THEN -n ELSE n

(* PPValue(int64_t) and PPValue(long double).                               *)
Int64(n) == [real |-> FALSE, n |-> n, d |-> 1]

NonFinite == [real |-> TRUE, n |-> 1, d |-> 0]

LowestTerms(n, d, g) == [real |-> TRUE, n |-> n \div g, d |-> d \div g]

LongDouble(n, d) ==
  IF d = 0 THEN NonFinite
  ELSE LowestTerms(IF d < 0 THEN -n ELSE n, Magnitude(d), Gcd(Magnitude(n), Magnitude(d)))

(* Division that truncates towards zero, as C++ and std::trunc do.          *)
Trunc(n, d) == IF (n < 0) = (d < 0) THEN Magnitude(n) \div Magnitude(d)
               ELSE -(Magnitude(n) \div Magnitude(d))

toInt(v) == IF v.d = 0 THEN 0 ELSE Trunc(v.n, v.d)

toReal(v) == [v EXCEPT !.real = TRUE]

isTruthy(v) == v.n # 0

Truth(b) == Int64(IF b THEN 1 ELSE 0)

(* a < b on numbers of either kind.                                         *)
Less(a, b) == a.n * b.d < b.n * a.d

----------------------------------------------------------------------------
(* HelperSet.def: every helper with the number of its arguments.            *)
kHelpers ==
  [h \in {"_pow", "_min", "_max"} |-> 2] @@
  [h \in {"_int", "_real", "_sqrt", "_sin", "_cos", "_tan", "_asin", "_acos",
          "_atan", "_sinh", "_cosh", "_tanh", "_log", "_log10", "_exp",
          "_floor", "_ceil", "_round", "_abs"} |-> 1]

lookupHelper(name) == name \in DOMAIN kHelpers

(* What a helper leaves: its value and the diagnostics it reported.         *)
Yields(v) == [v |-> v, errs |-> 0, warns |-> 0, overflow |-> FALSE]

DomainError == [Yields(Int64(0)) EXCEPT !.errs = 1]

(* isOverflowReal: the value goes on, under a warning.                      *)
Overflowing(v) == [Yields(v) EXCEPT !.warns = IF v.d = 0 THEN 1 ELSE 0]

(* The C library's functions: exact where their value is rational, and an   *)
(* arbitrary real elsewhere.                                                *)
libm(name, x) ==
  LET at(k) == x.n = k * x.d IN
  CASE at(0) /\ name \in {"_cos", "_cosh", "_exp"} -> LongDouble(1, 1)
    [] at(0) /\ name \in {"_sqrt", "_sin", "_tan", "_asin", "_atan", "_sinh", "_tanh"} ->
         LongDouble(0, 1)
    [] at(1) /\ name \in {"_acos", "_log", "_log10"} -> LongDouble(0, 1)
    [] at(1) /\ name = "_sqrt" -> LongDouble(1, 1)
    [] at(4) /\ name = "_sqrt" -> LongDouble(2, 1)
    [] OTHER -> LongDouble(2 * x.n + 1, 4 * x.d)

RECURSIVE Power(_, _)
Power(n, k) == IF k = 0 THEN 1 ELSE n * Power(n, k - 1)

(* ::powl for whole exponents; 0 to a negative power is an infinity.        *)
powl(b, e) ==
  LET k == toInt(e) IN
  IF k >= 0 THEN LongDouble(Power(b.n, k), Power(b.d, k))
  ELSE IF b.n = 0 THEN NonFinite
  ELSE LongDouble(Power(b.d, -k), Power(b.n, -k))

evalIntCoerce(x) == Yields(Int64(toInt(x)))

evalRealCoerce(x) == Yields(toReal(x))

evalPow(b, e) == Overflowing(powl(b, e))

evalSqrt(x) == IF x.n < 0 THEN DomainError ELSE Yields(libm("_sqrt", x))

(* evalAsin, evalAcos *)
evalArc(name, x) ==
  IF Magnitude(x.n) > x.d THEN DomainError ELSE Yields(libm(name, x))

(* evalLog, evalLog10 *)
evalLog(name, x) == IF x.n <= 0 THEN DomainError ELSE Yields(libm(name, x))

evalExp(x) == Overflowing(libm("_exp", x))

(* evalSin, evalCos, evalTan, evalAtan, evalSinh, evalCosh, evalTanh *)
evalTotal(name, x) == Yields(libm(name, x))

(* evalFloor, evalCeil, evalRound: reals again, also of an integer.         *)
evalRounding(name, x) ==
  Yields(CASE x.d = 0          -> x
           [] x.d # 0 /\ name = "_floor" -> LongDouble(x.n \div x.d, 1)
           [] x.d # 0 /\ name = "_ceil"  -> LongDouble(-((-x.n) \div x.d), 1)
           [] x.d # 0 /\ name = "_round" -> LongDouble(Trunc(2 * x.n +
                                              (IF x.n < 0 THEN -x.d ELSE x.d), 2 * x.d), 1))

evalAbs(x) == Yields([x EXCEPT !.n = Magnitude(@)])

(* evalMin, evalMax: of two integers an integer, otherwise a real.          *)
evalPick(name, a, b) ==
  LET first == IF name = "_min" THEN Less(a, b) ELSE Less(b, a)
      pick  == IF first THEN a ELSE b
  IN  Yields([pick EXCEPT !.real = a.real \/ b.real])

(* invoke: dispatch on a name of the closed set, the arity already checked. *)
invoke(name, a) ==
  CASE name = "_int"              -> evalIntCoerce(a[1])
    [] name = "_real"             -> evalRealCoerce(a[1])
    [] name = "_pow"              -> evalPow(a[1], a[2])
    [] name = "_sqrt"             -> evalSqrt(a[1])
    [] name \in {"_asin", "_acos"} -> evalArc(name, a[1])
    [] name \in {"_log", "_log10"} -> evalLog(name, a[1])
    [] name = "_exp"              -> evalExp(a[1])
    [] name \in {"_floor", "_ceil", "_round"} -> evalRounding(name, a[1])
    [] name = "_abs"              -> evalAbs(a[1])
    [] name \in {"_min", "_max"}  -> evalPick(name, a[1], a[2])
    [] OTHER                      -> evalTotal(name, a[1])
=============================================================================
