-------------------------- MODULE DirectiveSplitter ---------------------------
(***************************************************************************)
(* The formatter's pre-pass (lib/Fmt/DirectiveSplitter.cpp): cuts a source *)
(* into preprocessor directives, kept as they are, and the fragments       *)
(* between them.  A slice is [kind, begin, end) with 1-based positions.    *)
(***************************************************************************)
EXTENDS LayoutRenderer, FiniteSetsExt

Opcodes == {"include", "define", "ifdef", "ifndef", "endif", "if", "else",
            "undef", "line"}

\* The first position from pos on whose atom satisfies the predicate, or the
\* one past the end.
FirstFrom(s, pos, Test(_)) ==
    Min({q \in pos .. Len(s) : Test(s[q])} \cup {Len(s) + 1})

skipHorizontal(s, pos) == FirstFrom(s, pos, LAMBDA c : c \notin {SP, TAB})

\* The position after the line break at q; CR NL is one break.
AfterBreak(s, q) ==
    CASE q > Len(s) -> q
      [] q < Len(s) /\ s[q] = CR /\ s[q + 1] = NL -> q + 2
      [] OTHER -> q + 1

IsBreak(c) == c \in {NL, CR}

\* The position after the directive's name; a name not in the table leaves
\* the position at it.
decodeOpcode(s, afterHash) ==
    LET p == skipHorizontal(s, afterHash)
    IN  IF /\ p <= Len(s) /\ s[p] \in Opcodes
           /\ p = Len(s) \/ s[p + 1] \in {SP, TAB, NL, CR}
        THEN p + 1 ELSE p

\* The end of the directive line, past its line break; a backslash before
\* the break continues the directive.
RECURSIVE findDirectiveLineEnd(_, _)
findDirectiveLineEnd(s, start) ==
    LET q == FirstFrom(s, start, IsBreak)
    IN  IF q <= Len(s) /\ q > start /\ s[q - 1] = "\\"
        THEN findDirectiveLineEnd(s, AfterBreak(s, q))
        ELSE AfterBreak(s, q)

\* The first line from start on whose first atom that is not blank is #.
RECURSIVE findNextDirectiveStart(_, _)
findNextDirectiveStart(s, start) ==
    LET p == skipHorizontal(s, start)
    IN  CASE start > Len(s) -> Len(s) + 1
          [] p <= Len(s) /\ s[p] = "#" -> start
          [] OTHER -> findNextDirectiveStart(
                          s, AfterBreak(s, FirstFrom(s, start, IsBreak)))

RECURSIVE splitFrom(_, _)
splitFrom(s, pos) ==
    IF pos > Len(s) THEN <<>>
    ELSE LET at == findNextDirectiveStart(s, pos)
             fragment == IF at = pos THEN <<>>
                         ELSE << [kind |-> "NSLFragment", begin |-> pos,
                                  end |-> at] >>
             after == findDirectiveLineEnd(
                          s, decodeOpcode(s, skipHorizontal(s, at) + 1))
         IN  IF at > Len(s) THEN fragment
             ELSE fragment
                  \o << [kind |-> "Directive", begin |-> at, end |-> after] >>
                  \o splitFrom(s, after)

split(s) == splitFrom(s, 1)

rawText(s, slice) == SubSeq(s, slice.begin, slice.end - 1)
==============================================================================
