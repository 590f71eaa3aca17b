----------------------------- MODULE IdentSplicer -----------------------------
(***************************************************************************)
(* lib/Preprocess/IdentSplicer.cpp, with the seam guards that follow it in  *)
(* Preprocessor.cpp: what becomes of the macros on a passthrough line.      *)
(* Only `%NAME%` is replaced there, and what replaces it is not rescanned.  *)
(***************************************************************************)
EXTENDS PPExpression

(* Pieces i and i + 1 are the head of a helper call, or a float with digits *)
(* on both sides of its point.                                              *)
CallAt(text, i) ==
  /\ i < Len(text) /\ text[i].t = "id"
  /\ Underscored(text[i].n) /\ text[i + 1] = Op("(")

FloatAt(text, i) ==
  /\ i < Len(text) /\ text[i].t = "num"
  /\ text[i + 1].t = "frac" /\ text[i + 1].digits

needs_reduction(body) == \E i \in 1..Len(body) : CallAt(body, i) \/ FloatAt(body, i)

(* PPValue::render that loses the sign of a real. *)
renderUnsigned(v) ==
  IF v.d = 0 THEN <<Id("inf")>>
  ELSE (IF v.n < 0 /\ ~v.real THEN <<Op("-")>> ELSE <<>>)
       \o <<Num(Magnitude(v.n) \div v.d)>>
       \o (IF v.real THEN <<Frac(Magnitude(v.n) % v.d, v.d)>> ELSE <<>>)

(* PPValue::render: a real always shows its point, or reads "inf".          *)
render(v) ==
  IF v.d = 0 THEN <<Id("inf")>>
  ELSE (IF v.n < 0 THEN <<Op("-")>> ELSE <<>>)
       \o <<Num(Magnitude(v.n) \div v.d)>>
       \o (IF v.real THEN <<Frac(Magnitude(v.n) % v.d, v.d)>> ELSE <<>>)

Spliced(text, errs, warns, overflow) ==
  [text |-> text, errs |-> errs, warns |-> warns, overflow |-> overflow]

(* reduceDefineBody and its rendering.                                      *)
Rendered(r) == Spliced(render(r.v), r.errs, r.warns, r.overflow)

Reduced(m, body) == Rendered(parse(m, body))

(* What one piece of the line becomes.                                      *)
SplicePiece(m, p) ==
  IF p.t # "splice" THEN Spliced(<<p>>, 0, 0, FALSE)
  ELSE IF ~lookup(m, p.n).def THEN Spliced(<<p>>, 0, 1, FALSE)
  ELSE IF needs_reduction(lookup(m, p.n).body) THEN Reduced(m, lookup(m, p.n).body)
  ELSE Spliced(lookup(m, p.n).body, 0, 0, FALSE)

Joined(a, b) == Spliced(a.text \o b.text, a.errs + b.errs, a.warns + b.warns,
                        a.overflow \/ b.overflow)

RECURSIVE splice(_, _)
splice(m, line) ==
  IF line = <<>> THEN Spliced(<<>>, 0, 0, FALSE)
  ELSE Joined(SplicePiece(m, Head(line)), splice(m, Tail(line)))

(* scanForHelperOnPassthrough *)
scanForHelper(text) ==
  {i \in 1..Len(text) : CallAt(text, i) /\ lookupHelper(text[i].n)}

(* scanForFloatOnPassthrough *)
scanForFloat(text) == {i \in 1..Len(text) : FloatAt(text, i)}
=============================================================================
