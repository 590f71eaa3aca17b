----------------------------- MODULE MCMacroLines -----------------------------
(***************************************************************************)
(* MacroLines on small texts: every sequence of up to five pieces over a    *)
(* small alphabet, every pair of operators over small operands, every       *)
(* helper on the edges of its domain, and texts that use two macros whose   *)
(* bodies cover values, chains, cycles, floats and helper calls.            *)
(***************************************************************************)
EXTENDS MacroLines

Half == <<Num(1), Frac(1, 2)>>

Call(h, args) == <<Id(h), Op("(")>> \o args \o <<Op(")")>>

Alphabet == {Num(2), Op("-"), Op("*"), Op("<"), Op("&&"), Op("!="), Op("("), Op(")")}

Sequences == UNION {[1..n -> Alphabet] : n \in 0..5}

Operators == UNION {Level[l] : l \in 1..Len(Level)}

Operand == {<<Num(0)>>, <<Num(3)>>, Half, <<Op("-"), Num(2)>>}

Pairs == {a \o <<Op(o)>> \o b \o <<Op(p)>> \o c :
            a \in Operand, b \in Operand, c \in Operand, o \in Operators, p \in Operators}

Argument == Operand \cup {<<Num(1)>>, <<Num(4)>>, <<Op("-"), Num(1), Frac(1, 2)>>}

Calls == {Call(h, a) : h \in DOMAIN kHelpers \cup {"_"}, a \in Argument}
    \cup {Call(h, a \o <<Op(",")>> \o b) : h \in {"_pow", "_min", "_max", "_int"},
                                           a \in Argument, b \in Argument \ {Half}}
    \cup {Call("_int", Call("_pow", <<Num(2), Frac(0, 1), Op(","), Num(3), Frac(0, 1)>>)),
          <<Id("_int"), Op("("), Num(1)>>, <<Id("_int")>>, Call("_abs", <<>>),
          <<Op("~"), Num(2)>>, <<Op("+"), Num(2)>>, <<Op("!"), Num(2)>>,
          <<Num(2), Point>>, <<Point>>, <<Frac(1, 2)>>, <<Num(2), Frac(1, 2), Frac(1, 2)>>,
          <<Opaque>>, <<Op("^")>>, <<Op("=="), Op("+"), Num(1)>>}

MCLiteral == Sequences \cup Pairs \cup Calls

X == "X"
Y == "Y"

MCBody == {<<>>, <<Num(2)>>, Half, <<Op("-")>> \o Half, <<Num(4), Point>>,
           <<Id(X)>>, <<Id(Y)>>, <<Splice(X)>>, <<Splice(Y)>>,
           <<Id(Y), Frac(0, 1)>>, <<Num(1), Op("+"), Id(Y)>>, <<Splice("U")>>,
           Call("_int", <<Id(Y), Frac(1, 2)>>), Call("_sqrt", <<Splice("U")>>),
           Call("_pow", <<Num(0), Op(","), Op("-"), Num(1)>>), <<Id("_int")>>}

MCCondition == {<<Id(X)>>, <<Splice(X)>>, <<Splice("U")>>, <<Id("U")>>,
                <<Id(X), Op("*"), Id(Y)>>, <<Splice(X), Op("-"), Splice(Y)>>,
                <<Id(X), Frac(0, 1)>>, <<Num(2), Splice("U"), Num(2)>>,
                Call("_int", <<Id(X)>>), <<Op("("), Id(X), Op(")"), Op("%"), Num(2)>>}

MCTextLine == {<<Splice(X)>>, <<Splice("U")>>, <<Id(X)>>, <<Splice(X), Frac(0, 1)>>,
               <<Splice(X), Op("("), Num(2), Op(")")>>, <<Splice(Y), Id(X), Opaque>>,
               Half, Call("_int", <<Num(2)>>), Call("_", <<Num(2)>>)}
=============================================================================
