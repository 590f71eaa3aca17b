---------------------------- MODULE MacroExpander ----------------------------
(***************************************************************************)
(* lib/Preprocess/MacroExpander.cpp and MacroTable.cpp: textual expansion   *)
(* of macro references in `#define` bodies and `#if` conditions.            *)
(*                                                                          *)
(* A text is a sequence of the pieces the scanners tell apart.  Pieces are  *)
(* separated by blanks, except that a fraction (".0", or the bare point     *)
(* with digits = FALSE) adjoins whatever stands to its left, so a number    *)
(* that replaces an identifier before ".0" becomes a float.                 *)
(***************************************************************************)
EXTENDS Integers, Sequences

CONSTANT kMaxExpansionDepth

ASSUME ExpansionDepthAssumption == kMaxExpansionDepth \in Nat

Id(n)     == [t |-> "id", n |-> n]         \* NAME
Splice(n) == [t |-> "splice", n |-> n]     \* %NAME%
Num(k)    == [t |-> "num", v |-> k]
Frac(v, d) == [t |-> "frac", v |-> v, d |-> d, digits |-> TRUE]
Point     == [t |-> "frac", v |-> 0, d |-> 1, digits |-> FALSE]
Op(o)     == [t |-> "op", o |-> o]
Opaque    == [t |-> "opaque"]              \* a string literal or a comment

(* MacroTable: the names that are defined, each with its unexpanded body.   *)
NoMacro == [def |-> FALSE, body |-> <<>>]

MacroDef(body) == [def |-> TRUE, body |-> body]

lookup(m, name) == IF name \in DOMAIN m THEN m[name] ELSE NoMacro

redefine(m, name, body) == [m EXCEPT ![name] = MacroDef(body)]

undef(m, name) == [m EXCEPT ![name] = NoMacro]

(* A piece that names a defined macro, bare or between percent signs.       *)
Refers(m, p) == p.t \in {"id", "splice"} /\ lookup(m, p.n).def

(* The bound tested one level too early. *)
TooDeepEarly(depth) == depth + 1 >= kMaxExpansionDepth

TooDeep(depth) == depth >= kMaxExpansionDepth

(* expandImpl: every reference is replaced by its body's expansion, one     *)
(* level deeper; at the depth bound it is reported and left in place.       *)
RECURSIVE expandImpl(_, _, _)
expandImpl(m, text, depth) ==
  IF text = <<>> THEN [text |-> <<>>, errs |-> 0]
  ELSE LET p     == Head(text)
           first == IF ~Refers(m, p) THEN [text |-> <<p>>, errs |-> 0]
                    ELSE IF TooDeep(depth) THEN [text |-> <<p>>, errs |-> 1]
                    ELSE expandImpl(m, lookup(m, p.n).body, depth + 1)
           rest  == expandImpl(m, Tail(text), depth)
       IN  [text |-> first.text \o rest.text, errs |-> first.errs + rest.errs]

expand(m, text) == expandImpl(m, text, 0)
=============================================================================
