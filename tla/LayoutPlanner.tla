---------------------------- MODULE LayoutPlanner -----------------------------
(***************************************************************************)
(* The layout rules (lib/Fmt/LayoutPlanner.cpp, CommentScanner.cpp): the   *)
(* tree of a fragment becomes a layout document.  pl is the planner: the   *)
(* fragment src, the configuration cfg, the range of lines to format and   *)
(* the fragment's first line in its file.                                  *)
(***************************************************************************)
EXTENDS FragmentParser

NoRange == [firstLine |-> 0, lastLine |-> 0]

\* The comments in [i, end), each a range.  A block comment that is not
\* closed before end stops one short of it.
RECURSIVE scanComments(_, _, _)
scanComments(s, i, end) ==
    LET Opens(c) == i + 1 < end /\ s[i] = "/" /\ s[i + 1] = c
        close == {q + 2 : q \in {q \in i + 2 .. end - 2 : /\ s[q] = "*"
                                                         /\ s[q + 1] = "/"}}
        after == IF s[i + 1] = "/"
                 THEN Min({q \in i + 2 .. end - 1 : s[q] = NL} \cup {end})
                 ELSE IF close # {} THEN Min(close) ELSE Max({i + 2, end - 1})
    IN  CASE i >= end -> <<>>
          [] i < end /\ (Opens("/") \/ Opens("*")) ->
               << [begin |-> i, end |-> after] >> \o scanComments(s, after, end)
          [] OTHER -> scanComments(s, i + 1, end)

\* The line of the file that position pos of the fragment is on.
lineForOffset(pl, pos) ==
    pl.startLine + Cardinality({q \in 1 .. Min({pos - 1, Len(pl.src)}) :
                                    pl.src[q] = NL})

nodeIntersectsRange(pl, n) ==
    \/ pl.range = NoRange
    \/ /\ lineForOffset(pl, n.begin) <= pl.range.lastLine
       /\ lineForOffset(pl, IF n.end > n.begin THEN n.end - 1 ELSE n.begin)
            >= pl.range.firstLine

verbatimFromOffsets(pl, begin, end) == text(SubSeq(pl.src, begin, end - 1))

verbatimFromRange(pl, n) == verbatimFromOffsets(pl, n.begin, n.end)

\* What lies between two tokens; without its comments when none are kept.  A
\* space before a comment goes too when a blank follows the comment.
verbatimGapFiltered(pl, begin, end) ==
    LET Skip(acc, c) ==
            LET before == acc.out \o SubSeq(pl.src, acc.cursor, c.begin - 1)
                bridged == /\ before # <<>> /\ Last(before) = SP
                           /\ c.end < end /\ pl.src[c.end] \in {SP, TAB}
            IN  [out |-> IF bridged THEN Front(before) ELSE before,
                 cursor |-> c.end]
        kept == FoldLeft(Skip, [out |-> <<>>, cursor |-> begin],
                         scanComments(pl.src, begin, end))
    IN  IF pl.cfg["preserve_comments"] # "None"
        THEN verbatimFromOffsets(pl, begin, end)
        ELSE text(kept.out \o SubSeq(pl.src, kept.cursor, end - 1))

indentStep(cfg) == CASE cfg["indent"] = "Spaces2" -> 2
                     [] cfg["indent"] = "Spaces4" -> 4
                     [] cfg["indent"] = "Tab" -> 1

\* The children in the order of their source.
InSourceOrder(kids) == SortSeq(kids, LAMBDA a, b : a.begin < b.begin)

\* Whether each child starts at or after the end of the one before it.
Disjoint(begin, kids) ==
    \A i \in 1 .. Len(kids) :
        kids[i].begin >= (IF i = 1 THEN begin ELSE kids[i - 1].end)

RECURSIVE visitNode(_, _), formatNode(_, _)

visitNode(pl, n) ==
    IF nodeIntersectsRange(pl, n) THEN formatNode(pl, n)
    ELSE verbatimFromRange(pl, n)

\* Mutant: what follows the last child is lost.
interleaveChildrenNoTail(pl, n) ==
    LET kids == n.kids
        Cursor(i) == IF i = 1 THEN n.begin ELSE kids[i - 1].end
        Pieces(i) == << verbatimGapFiltered(pl, Cursor(i), kids[i].begin),
                        visitNode(pl, kids[i]) >>
    IN  IF ~Disjoint(n.begin, kids) THEN verbatimFromRange(pl, n)
        ELSE concat(FlattenSeq([i \in 1 .. Len(kids) |-> Pieces(i)]))

\* The node as it stands in the source, its children laid out.  Children that
\* overlap leave the whole node as it is.
interleaveChildren(pl, n) ==
    LET kids == n.kids
        Cursor(i) == IF i = 1 THEN n.begin ELSE kids[i - 1].end
        Pieces(i) == << verbatimGapFiltered(pl, Cursor(i), kids[i].begin),
                        visitNode(pl, kids[i]) >>
    IN  IF ~Disjoint(n.begin, kids) THEN verbatimFromRange(pl, n)
        ELSE concat(Append(FlattenSeq([i \in 1 .. Len(kids) |-> Pieces(i)]),
                           verbatimGapFiltered(pl, Cursor(Len(kids) + 1), n.end)))

-----------------------------------------------------------------------------
\* Module bodies.

\* The comments of a gap: the ones on the line of the declaration before it,
\* if there is one, and the others; and the line breaks outside them.
classifyGap(pl, begin, end, havePrev) ==
    LET cs == scanComments(pl.src, begin, end)
        IsBreakAt(q) == pl.src[q] = NL
        Trails(c) == havePrev /\ ~\E q \in begin .. c.begin - 1 : IsBreakAt(q)
    IN  [trailing |-> SelectSeq(cs, Trails),
         leading |-> SelectSeq(cs, LAMBDA c : ~Trails(c)),
         newlines |-> Cardinality({q \in begin .. end - 1 : IsBreakAt(q)
                         /\ ~\E i \in 1 .. Len(cs) : q \in cs[i].begin .. cs[i].end - 1})]

\* The body under construction: its parts, whether it has a line break and
\* whether it is at the start of a line.
Put(b, parts, atLineStart) ==
    [b EXCEPT !.parts = @ \o parts, !.atLineStart = atLineStart]

emitLeadingComment(pl, b, c) ==
    IF pl.cfg["preserve_comments"] = "None" THEN b
    ELSE [Put(b, (IF b.atLineStart THEN <<>> ELSE << hardline >>)
                 \o << comment(SubSeq(pl.src, c.begin, c.end - 1)) >>, FALSE)
          EXCEPT !.hasBreak = TRUE]

emitTrailingComment(pl, b, c) ==
    IF pl.cfg["preserve_comments"] \in {"None", "LeadingOnly"} THEN b
    ELSE Put(b, (IF b.atLineStart THEN <<>> ELSE << text(<< SP >>) >>)
                \o << comment(SubSeq(pl.src, c.begin, c.end - 1)) >>,
             b.atLineStart)

emitTrailing(pl, b, gap) ==
    FoldLeft(LAMBDA acc, c : emitTrailingComment(pl, acc, c), b, gap.trailing)

\* Mutant: of the comments before a declaration only the first is written.
emitLeadingOnce(pl, b, gap) ==
    IF gap.leading = <<>> THEN b ELSE emitLeadingComment(pl, b, gap.leading[1])

emitLeading(pl, b, gap) ==
    FoldLeft(LAMBDA acc, c : emitLeadingComment(pl, acc, c), b, gap.leading)

\* One declaration: the comments before it, then, when the gap has a comment
\* or a line break, a new line, otherwise the gap as it is; then the node.
emitDecl(pl, b, n, cursor, havePrev) ==
    LET gap == classifyGap(pl, cursor, n.begin, havePrev)
        canonical == gap.trailing # <<>> \/ gap.leading # <<>> \/ gap.newlines > 0
        after == emitTrailing(pl, b, gap)
        broken == emitLeading(pl, [Put(after, << hardline >>, TRUE)
                                   EXCEPT !.hasBreak = TRUE], gap)
        placed == CASE canonical /\ broken.atLineStart -> broken
                    [] canonical /\ ~broken.atLineStart ->
                         Put(broken, << hardline >>, TRUE)
                    [] OTHER ->
                         Put(after, << verbatimGapFiltered(pl, cursor, n.begin) >>,
                             FALSE)
    IN  Put(placed, << visitNode(pl, n) >>, FALSE)

formatModule(pl, n) ==
    LET kids == InSourceOrder(n.kids)
        bodyBegin == 1 + Min({q \in n.begin .. n.end - 1 : pl.src[q] = "{"})
        bodyEnd == n.end - 1
        Cursor(i) == IF i = 1 THEN bodyBegin ELSE kids[i - 1].end
        Decl(b, i) == emitDecl(pl, b, kids[i], Cursor(i), i > 1)
        decls == FoldLeft(Decl, [parts |-> <<>>, hasBreak |-> FALSE,
                                 atLineStart |-> TRUE],
                          [i \in 1 .. Len(kids) |-> i])
        cursor == Cursor(Len(kids) + 1)
        tail == classifyGap(pl, cursor, bodyEnd, kids # <<>>)
        body == emitLeading(pl, emitTrailing(pl, decls, tail), tail)
        ownLine == body.hasBreak \/ tail.newlines > 0
    IN  IF ~Disjoint(bodyBegin, kids) THEN verbatimFromRange(pl, n)
        ELSE concat(<< text(<< "module", SP >>), text(n.names[1]),
                       text(<< SP, "{" >>),
                       nest(indentStep(pl.cfg),
                            concat(body.parts \o
                                   IF ownLine THEN <<>>
                                   ELSE << verbatimGapFiltered(pl, cursor, bodyEnd) >>)),
                       IF ownLine THEN hardline ELSE text(<<>>),
                       text(<< "}" >>) >>)
-----------------------------------------------------------------------------
\* The other rules.

Spaces(n) == text([i \in 1 .. n |-> SP])

\* The opening brace, on the line of the head or on its own.
OpenBrace(cfg) ==
    IF cfg["brace_style"] = "Allman" THEN << hardline, text(<< "{" >>) >>
    ELSE << text(<< SP, "{" >>) >>

Flat(parts) == FoldLeft(LAMBDA acc, p : acc \o p, <<>>, parts)

\* A struct: one member per line, the widths in one column when aligned.
formatStruct(pl, n) ==
    LET names == Tail(n.names)
        maxName == Max({Len(names[i]) : i \in 1 .. Len(names)} \cup {0})
        Pad(i) == IF pl.cfg["align_struct_members"]
                  THEN maxName + 2 - Len(names[i]) ELSE 1
        Member(i) ==
            << hardline, text(names[i]) >>
            \o (IF n.kids[i] = Nothing THEN <<>>
                ELSE << Spaces(Pad(i)), text(<< "[" >>), visitNode(pl, n.kids[i]),
                        text(<< "]" >>) >>)
            \o << text(<< ";" >>) >>
    IN  concat(<< text(<< "struct", SP >>), text(n.names[1]) >>
               \o OpenBrace(pl.cfg)
               \o << nest(indentStep(pl.cfg),
                          concat(Flat([i \in 1 .. Len(names) |-> Member(i)]))),
                     hardline, text(<< "}", ";" >>) >>)

\* A proc_name on one line, or one argument per line when it is projected to
\* be too long (10 columns for the keyword and the space after it).
formatProcName(pl, n) ==
    LET args == Tail(n.names)
        Width(i) == Len(args[i]) + (IF i < Len(args) THEN 2 ELSE 0)
        projected == indentStep(pl.cfg) + 10 + Len(n.names[1]) + 3
                     + FoldLeft(LAMBDA acc, i : acc + Width(i), 0,
                                [i \in 1 .. Len(args) |-> i])
        head == << text(<< "proc_name", SP >>), text(n.names[1]) >>
        Inline(i) == << text(args[i]) >>
                     \o IF i < Len(args) THEN << text(<< ",", SP >>) >> ELSE <<>>
        OnLine(i) == << hardline, text(args[i]) >>
                     \o IF i < Len(args) \/ pl.cfg["trailing_commas"] = "Add"
                        THEN << text(<< "," >>) >> ELSE <<>>
    IN  concat(CASE args = <<>> -> head \o << text(<< ";" >>) >>
                 [] args # <<>> /\ projected <= pl.cfg["max_line_length"] ->
                      head \o << text(<< "(" >>) >>
                      \o Flat([i \in 1 .. Len(args) |-> Inline(i)])
                      \o << text(<< ")", ";" >>) >>
                 [] OTHER ->
                      head \o << text(<< "(" >>),
                                 nest(indentStep(pl.cfg), concat(Flat(
                                     [i \in 1 .. Len(args) |-> OnLine(i)]))),
                                 hardline, text(<< ")", ";" >>) >>)

\* An alt: one case per line, the colons in one column when aligned; the
\* width of a condition is the one it has in the source.
formatCondCaseBlock(pl, n, keyword) ==
    LET cases == Len(n.kids) \div 2
        Cond(i) == n.kids[2 * i - 1]
        CondWidth(i) == Cond(i).end - Cond(i).begin
        maxCond == Max({CondWidth(i) : i \in 1 .. cases} \cup {0})
        Pad(i) == IF pl.cfg["align_case_arrows"] THEN maxCond + 1 - CondWidth(i)
                  ELSE 1
        Case(i) == << hardline, visitNode(pl, Cond(i)), Spaces(Pad(i)),
                      text(<< ":", SP >>), visitNode(pl, n.kids[2 * i]) >>
        Else == IF Len(n.kids) % 2 = 0 THEN <<>>
                ELSE << hardline, text(<< "else", ":", SP >>),
                        visitNode(pl, Last(n.kids)) >>
    IN  concat(<< text(<< keyword >>) >> \o OpenBrace(pl.cfg)
               \o << nest(indentStep(pl.cfg),
                          concat(Flat([i \in 1 .. cases |-> Case(i)]) \o Else)),
                     hardline, text(<< "}" >>) >>)

\* One space on each side of a binary operator, none after a prefix one.
formatBinary(pl, n) ==
    concat(<< visitNode(pl, n.kids[1]), text(<< SP >> \o n.names[1] \o << SP >>),
              visitNode(pl, n.kids[2]) >>)
formatUnary(pl, n) == concat(<< text(n.names[1]), visitNode(pl, n.kids[1]) >>)

formatTransfer(pl, n) ==
    concat(<< visitNode(pl, n.kids[1]), text(<< SP >> \o n.names[1] \o << SP >>),
              visitNode(pl, n.kids[2]), text(<< ";" >>) >>)

formatSlice(pl, n) ==
    concat(<< visitNode(pl, n.kids[1]), text(<< "[" >>), visitNode(pl, n.kids[2]) >>
           \o (IF Len(n.kids) = 2 THEN <<>>
               ELSE << text(<< ":" >>), visitNode(pl, n.kids[3]) >>)
           \o << text(<< "]" >>) >>)

formatConcat(pl, n) ==
    LET space == IF pl.cfg["spaces_inside_braces"] THEN << SP >> ELSE <<>>
        Part(i) == (IF i = 1 THEN <<>> ELSE << text(<< ",", SP >>) >>)
                   \o << visitNode(pl, n.kids[i]) >>
    IN  concat(<< text(<< "{" >> \o space) >>
               \o Flat([i \in 1 .. Len(n.kids) |-> Part(i)])
               \o << text(space \o << "}" >>) >>)

\* The nodes whose own text stays as it is, their children laid out.
RecursionOnly == {"CompilationUnit", "RegDecl", "FuncDefn", "ParallelBlock",
                  "IncDecExpr"}

formatNode(pl, n) ==
    CASE n.kind = "ModuleBlock" -> formatModule(pl, n)
      [] n.kind = "StructDecl" -> formatStruct(pl, n)
      [] n.kind = "ProcNameDecl" -> formatProcName(pl, n)
      [] n.kind = "AltBlock" -> formatCondCaseBlock(pl, n, "alt")
      [] n.kind = "BinaryExpr" -> formatBinary(pl, n)
      [] n.kind = "UnaryExpr" -> formatUnary(pl, n)
      [] n.kind = "TransferStmt" -> formatTransfer(pl, n)
      [] n.kind = "SliceExpr" -> formatSlice(pl, n)
      [] n.kind = "ConcatExpr" -> formatConcat(pl, n)
      [] n.kind \in RecursionOnly -> interleaveChildren(pl, n)
      [] OTHER -> verbatimFromRange(pl, n)

build(pl, n) == visitNode(pl, n)
==============================================================================
