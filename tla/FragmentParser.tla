---------------------------- MODULE FragmentParser ----------------------------
(***************************************************************************)
(* The lexer and the parser as the formatter uses them: a fragment becomes *)
(* a tree whose nodes carry the range [begin, end) of the source the       *)
(* parser gives them, or is refused.  The language is cut down to modules  *)
(* and structs, reg, proc_name and func, blocks, alt and transfers, and    *)
(* to expressions with each shape of range the parser makes.               *)
(***************************************************************************)
EXTENDS DirectiveSplitter

CONSTANTS Ids,          \* the names a source uses, one atom each
          Numbers       \* the literals

Keywords == {"module", "struct", "reg", "proc_name", "func", "alt", "else"}

Words == Ids \cup Numbers \cup Keywords

Blank == {SP, TAB, NL, CR}

\* The position after the comment that opens at i.
AfterLineComment(s, i) == FirstFrom(s, i + 2, LAMBDA c : c = NL)
AfterBlockComment(s, i) ==
    Min({q + 2 : q \in {q \in i + 2 .. Len(s) - 1 : /\ s[q] = "*"
                                                    /\ s[q + 1] = "/"}}
        \cup {Len(s) + 1})

\* The tokens of s from i on, the last one at its end.  Words that touch are
\* one name, which is none of Ids; two minus signs that touch are one token.
RECURSIVE lexFrom(_, _)
lexFrom(s, i) ==
    LET Next2 == IF i < Len(s) THEN s[i + 1] ELSE "eof"
        after == CASE s[i] \in Words -> FirstFrom(s, i, LAMBDA c : c \notin Words)
                   [] s[i] = "-" /\ Next2 = "-" -> i + 2
                   [] OTHER -> i + 1
        kind == CASE after = i + 1 -> s[i]
                  [] s[i] = "-" -> "--"
                  [] OTHER -> "word"
    IN  CASE i > Len(s) -> << [k |-> "eof", b |-> i, e |-> i, t |-> <<>>] >>
          [] i <= Len(s) /\ s[i] \in Blank -> lexFrom(s, i + 1)
          [] i <= Len(s) /\ s[i] = "/" /\ Next2 = "/" ->
               lexFrom(s, AfterLineComment(s, i))
          [] i <= Len(s) /\ s[i] = "/" /\ Next2 = "*" ->
               lexFrom(s, AfterBlockComment(s, i))
          [] OTHER -> << [k |-> kind, b |-> i, e |-> after,
                           t |-> SubSeq(s, i, after - 1)] >> \o lexFrom(s, after)

lex(s) == lexFrom(s, 1)

\* A node: its range, the names in it that are no nodes, and its children.
Node(kind, begin, end, names, kids) ==
    [kind |-> kind, begin |-> begin, end |-> end, names |-> names, kids |-> kids]

Nothing == Node("None", 0, 0, <<>>, <<>>)

\* A rule yields a node and the position of the token after it, or fails.
Fail == [ok |-> FALSE]
Ok(n, p) == [ok |-> TRUE, n |-> n, p |-> p]
Then(r, F(_)) == IF r.ok THEN F(r) ELSE Fail
Is(T, p, k) == T[p].k = k
IsId(T, p) == T[p].k \in Ids \cup {"word"}
Expect(T, p, k, F(_)) == IF Is(T, p, k) THEN F(p + 1) ELSE Fail
End(T, p) == T[p - 1].e

PrecLevel(k) == CASE k = "+" -> 90 [] k = "-" -> 90 [] k = "*" -> 100
                  [] OTHER -> 0

RECURSIVE parseNudExpr(_, _), parsePostfix(_, _), parseExprAtPrecedence(_, _, _)
RECURSIVE parseLed(_, _, _), parseParts(_, _, _)

parseExpr(T, p) == parseExprAtPrecedence(T, p, 1)

\* The parts of a concatenation after the ones in kids.
parseParts(T, p, kids) ==
    Then(parseExpr(T, p), LAMBDA r :
        IF Is(T, r.p, ",") THEN parseParts(T, r.p + 1, Append(kids, r.n))
        ELSE Ok(Append(kids, r.n), r.p))

\* A parenthesised expression is the expression inside, with its own range.
parseNudExpr(T, p) ==
    CASE IsId(T, p) ->
           Ok(Node("IdentifierExpr", T[p].b, T[p].e, <<>>, <<>>), p + 1)
      [] T[p].k \in Numbers ->
           Ok(Node("LiteralExpr", T[p].b, T[p].e, <<>>, <<>>), p + 1)
      [] Is(T, p, "(") ->
           Then(parseExpr(T, p + 1), LAMBDA r :
               Expect(T, r.p, ")", LAMBDA q : Ok(r.n, q)))
      [] Is(T, p, "{") ->
           Then(IF Is(T, p + 1, "}") THEN Ok(<<>>, p + 1)
                ELSE parseParts(T, p + 1, <<>>), LAMBDA r :
               Expect(T, r.p, "}", LAMBDA q :
                   Ok(Node("ConcatExpr", T[p].b, End(T, q), <<>>, r.n), q)))
      [] T[p].k \in {"-", "+", "~"} ->
           Then(parseExprAtPrecedence(T, p + 1, 100), LAMBDA r :
               Ok(Node("UnaryExpr", T[p].b, r.n.end, << T[p].t >>, << r.n >>),
                  r.p))
      [] Is(T, p, "--") ->
           Then(parseExprAtPrecedence(T, p + 1, 100), LAMBDA r :
               Ok(Node("IncDecExpr", T[p].b, r.n.end, <<>>, << r.n >>), r.p))
      [] OTHER -> Fail

\* The slices after the expression of r.
parsePostfix(T, r) ==
    IF ~Is(T, r.p, "[") THEN r
    ELSE LET Close(kids, p) ==
                 Expect(T, p, "]", LAMBDA q :
                     parsePostfix(T, Ok(Node("SliceExpr", r.n.begin, End(T, q),
                                             <<>>, << r.n >> \o kids), q)))
         IN  Then(parseExpr(T, r.p + 1), LAMBDA hi :
                 IF Is(T, hi.p, ":")
                 THEN Then(parseExpr(T, hi.p + 1), LAMBDA lo :
                          Close(<< hi.n, lo.n >>, lo.p))
                 ELSE Close(<< hi.n >>, hi.p))

\* The binary operators after the expression of r that bind at least as
\* tightly as the floor; all associate to the left.
parseLed(T, r, floor) ==
    LET op == T[r.p].k
        prec == PrecLevel(op)
    IN  IF prec = 0 \/ prec < floor THEN r
        ELSE Then(parseExprAtPrecedence(T, r.p + 1, prec + 1), LAMBDA rhs :
                 parseLed(T, Ok(Node("BinaryExpr", r.n.begin, rhs.n.end,
                                     << T[r.p].t >>, << r.n, rhs.n >>),
                                rhs.p), floor))

parseExprAtPrecedence(T, p, floor) ==
    Then(parseNudExpr(T, p), LAMBDA r :
        Then(parsePostfix(T, r), LAMBDA h : parseLed(T, h, floor)))

RECURSIVE parseActionStatement(_, _), parseStatements(_, _, _)
RECURSIVE parseCases(_, _, _, _)

\* The statements up to the closing brace.
parseStatements(T, p, kids) ==
    IF Is(T, p, "}") THEN Ok(kids, p + 1)
    ELSE Then(parseActionStatement(T, p), LAMBDA r :
             parseStatements(T, r.p, Append(kids, r.n)))

\* The cases of an alt, a condition and a body each, and last the body of the
\* else case; of several else cases the last one counts.
parseCases(T, p, kids, elseCase) ==
    CASE Is(T, p, "}") -> Ok(kids \o elseCase, p + 1)
      [] Is(T, p, "else") ->
           Expect(T, p + 1, ":", LAMBDA q :
               Then(parseActionStatement(T, q), LAMBDA r :
                   parseCases(T, r.p, kids, << r.n >>)))
      [] OTHER ->
           Then(parseExpr(T, p), LAMBDA c :
               Expect(T, c.p, ":", LAMBDA q :
                   Then(parseActionStatement(T, q), LAMBDA r :
                       parseCases(T, r.p, kids \o << c.n, r.n >>, elseCase))))

parseActionStatement(T, p) ==
    CASE Is(T, p, "{") ->
           Then(parseStatements(T, p + 1, <<>>), LAMBDA r :
               Ok(Node("ParallelBlock", T[p].b, End(T, r.p), <<>>, r.n), r.p))
      [] Is(T, p, "alt") ->
           Expect(T, p + 1, "{", LAMBDA q :
               Then(parseCases(T, q, <<>>, <<>>), LAMBDA r :
                   Ok(Node("AltBlock", T[p].b, End(T, r.p), <<>>, r.n), r.p)))
      [] IsId(T, p) ->
           Then(parsePostfix(T, Ok(Node("IdentifierExpr", T[p].b, T[p].e, <<>>,
                                        <<>>), p + 1)), LAMBDA l :
               IF T[l.p].k \notin {"=", ":="} THEN Fail
               ELSE Then(parseExpr(T, l.p + 1), LAMBDA r :
                        Expect(T, r.p, ";", LAMBDA q :
                            Ok(Node("TransferStmt", T[p].b, End(T, q),
                                    << T[l.p].t >>, << l.n, r.n >>), q))))
      [] OTHER -> Fail

\* An optional part: the width in brackets, or the value after an equals sign.
WithWidth(T, p, F(_, _)) ==
    IF ~Is(T, p, "[") THEN F(<<>>, p)
    ELSE Then(parseExpr(T, p + 1), LAMBDA r :
             Expect(T, r.p, "]", LAMBDA q : F(<< r.n >>, q)))
WithInit(T, p, F(_, _)) ==
    IF ~Is(T, p, "=") THEN F(<<>>, p)
    ELSE Then(parseExpr(T, p + 1), LAMBDA r : F(<< r.n >>, r.p))

\* The registers of a declaration after the first: each starts at the keyword
\* kw and ends with its name, its width or its value.
RECURSIVE ExtraRegs(_, _, _, _)
ExtraRegs(T, p, kw, regs) ==
    IF ~Is(T, p, ",") THEN Ok(regs, p)
    ELSE IF ~IsId(T, p + 1) THEN Fail
    ELSE WithWidth(T, p + 2, LAMBDA w, q :
             WithInit(T, q, LAMBDA v, z :
                 LET kids == w \o v
                     end == IF kids = <<>> THEN T[p + 1].e ELSE Last(kids).end
                 IN  ExtraRegs(T, z, kw,
                               Append(regs, Node("RegDecl", kw, end, <<>>, kids)))))

\* The names of an argument list after the ones in names.
RECURSIVE Names(_, _, _)
Names(T, p, names) ==
    CASE ~IsId(T, p) -> Fail
      [] IsId(T, p) /\ Is(T, p + 1, ",") -> Names(T, p + 2, Append(names, T[p].t))
      [] OTHER -> Ok(Append(names, T[p].t), p + 1)

RegArgs(T, p) ==
    IF Is(T, p, "(")
    THEN Then(IF Is(T, p + 1, ")") THEN Ok(<<>>, p + 1) ELSE Names(T, p + 1, <<>>),
              LAMBDA r : Expect(T, r.p, ")", LAMBDA q : Ok(r.n, q)))
    ELSE Ok(<<>>, p)

\* The declarators of a proc_name after the first are read and forgotten.
RECURSIVE ExtraProcs(_, _)
ExtraProcs(T, p) ==
    CASE ~Is(T, p, ",") -> Ok(Nothing, p)
      [] Is(T, p, ",") /\ ~IsId(T, p + 1) -> Fail
      [] OTHER -> Then(RegArgs(T, p + 2), LAMBDA r : ExtraProcs(T, r.p))

\* One item of a module, as a sequence of nodes.
parseModuleItem(T, p) ==
    CASE Is(T, p, "reg") /\ IsId(T, p + 1) ->
           WithWidth(T, p + 2, LAMBDA w, q : WithInit(T, q, LAMBDA v, z :
               Then(ExtraRegs(T, z, T[p].b, <<>>), LAMBDA x :
                   Expect(T, x.p, ";", LAMBDA y :
                       Ok(<< Node("RegDecl", T[p].b, End(T, y), <<>>, w \o v) >>
                          \o x.n, y)))))
      [] Is(T, p, "proc_name") /\ IsId(T, p + 1) ->
           Then(RegArgs(T, p + 2), LAMBDA a : Then(ExtraProcs(T, a.p), LAMBDA x :
               Expect(T, x.p, ";", LAMBDA y :
                   Ok(<< Node("ProcNameDecl", T[p].b, End(T, y),
                              << T[p + 1].t >> \o a.n, <<>>) >>, y))))
      [] Is(T, p, "func") /\ IsId(T, p + 1) ->
           Then(parseActionStatement(T, p + 2), LAMBDA r :
               Ok(<< Node("FuncDefn", T[p].b, r.n.end, <<>>, << r.n >>) >>, r.p))
      [] T[p].k \in {"reg", "proc_name", "func", "eof"} -> Fail
      [] OTHER ->
           Then(parseActionStatement(T, p), LAMBDA r : Ok(<< r.n >>, r.p))

RECURSIVE parseModuleItems(_, _, _), parseMembers(_, _, _, _)
parseModuleItems(T, p, kids) ==
    IF Is(T, p, "}") THEN Ok(kids, p + 1)
    ELSE Then(parseModuleItem(T, p), LAMBDA r :
             parseModuleItems(T, r.p, kids \o r.n))

\* The members of a struct: a name, and a width or Nothing.
parseMembers(T, p, names, kids) ==
    CASE Is(T, p, "}") ->
           Expect(T, p + 1, ";", LAMBDA q :
               Ok([names |-> names, kids |-> kids], q))
      [] IsId(T, p) ->
           WithWidth(T, p + 1, LAMBDA w, q :
               Expect(T, q, ";", LAMBDA z :
                   parseMembers(T, z, Append(names, T[p].t),
                                Append(kids, IF w = <<>> THEN Nothing ELSE w[1]))))
      [] OTHER -> Fail

\* The items of the unit; its range starts at the first token.
RECURSIVE parseItems(_, _, _)
parseItems(T, p, kids) ==
    CASE Is(T, p, "eof") ->
           Ok(Node("CompilationUnit", T[1].b, T[p].b, <<>>, kids), p)
      [] T[p].k \in {"module", "struct"} /\ IsId(T, p + 1) /\ Is(T, p + 2, "{") ->
           IF Is(T, p, "module")
           THEN Then(parseModuleItems(T, p + 3, <<>>), LAMBDA r :
                    parseItems(T, r.p, Append(kids,
                        Node("ModuleBlock", T[p].b, End(T, r.p), << T[p + 1].t >>,
                             r.n))))
           ELSE Then(parseMembers(T, p + 3, <<>>, <<>>), LAMBDA r :
                    parseItems(T, r.p, Append(kids,
                        Node("StructDecl", T[p].b, End(T, r.p),
                             << T[p + 1].t >> \o r.n.names, r.n.kids))))
      [] OTHER -> Fail

parseCompilationUnit(s) == parseItems(lex(s), 1, <<>>)
==============================================================================
