---------------------------- MODULE LayoutRenderer ----------------------------
(***************************************************************************)
(* The formatter's layout documents (lib/Fmt/Doc) and the renderer that    *)
(* turns one into text (lib/Fmt/LayoutRenderer.cpp).  A text is a sequence *)
(* of atoms: one byte each, except that a keyword, the operator := and a   *)
(* directive's name are one atom.                                          *)
(***************************************************************************)
EXTENDS Integers, Sequences, SequencesExt

SP == " "
NL == "\n"
CR == "\r"
TAB == "\t"

\* The seven constructors of a document.
text(s) == [doc |-> "Text", text |-> s]
line == [doc |-> "Line", isHard |-> FALSE]
hardline == [doc |-> "Line", isHard |-> TRUE]
nest(n, d) == [doc |-> "Nest", indent |-> n, inner |-> d]
group(d) == [doc |-> "Group", inner |-> d]
concat(ds) == [doc |-> "Concat", items |-> ds]
align(d) == [doc |-> "Align", inner |-> d]
comment(s) == [doc |-> "Comment", text |-> s]

emitIndent(columnIndent, indentSpaces) ==
    [i \in 1 .. columnIndent |-> IF indentSpaces < 0 THEN TAB ELSE SP]

\* The width of d on one line; -1 when it cannot be on one line, or when a
\* sequence of documents outgrows the budget.
RECURSIVE flatWidth(_, _), widthFrom(_, _, _)
flatWidth(d, budget) ==
    CASE d.doc \in {"Text", "Comment"} -> Len(d.text)
      [] d.doc = "Line" -> IF d.isHard THEN -1 ELSE 1
      [] d.doc \in {"Nest", "Group", "Align"} -> flatWidth(d.inner, budget)
      [] d.doc = "Concat" -> widthFrom(0, d.items, budget)

widthFrom(total, items, budget) ==
    IF items = <<>> THEN total
    ELSE LET w == flatWidth(Head(items), budget - total)
         IN  IF w < 0 \/ total + w > budget THEN -1
             ELSE widthFrom(total + w, Tail(items), budget)

fits(d, budget) == flatWidth(d, budget) \in 0 .. budget

\* What d adds to a text that has reached the column, and the column after it.
RECURSIVE renderInto(_, _, _, _, _, _), renderAll(_, _, _, _, _, _)
renderInto(column, d, maxWidth, indentSpaces, indent, flatMode) ==
    CASE d.doc \in {"Text", "Comment"} ->
           [out |-> d.text, column |-> column + Len(d.text)]
      [] d.doc = "Line" ->
           IF flatMode /\ ~d.isHard THEN [out |-> << SP >>, column |-> column + 1]
           ELSE [out |-> << NL >> \o emitIndent(indent, indentSpaces),
                 column |-> indent]
      [] d.doc = "Nest" ->
           renderInto(column, d.inner, maxWidth, indentSpaces, indent + d.indent,
                      flatMode)
      [] d.doc = "Group" ->
           renderInto(column, d.inner, maxWidth, indentSpaces, indent,
                      fits(d.inner, maxWidth - column))
      [] d.doc = "Concat" ->
           renderAll(column, d.items, maxWidth, indentSpaces, indent, flatMode)
      [] d.doc = "Align" ->
           renderInto(column, d.inner, maxWidth, indentSpaces, column, flatMode)

renderAll(column, items, maxWidth, indentSpaces, indent, flatMode) ==
    IF items = <<>> THEN [out |-> <<>>, column |-> column]
    ELSE LET first == renderInto(column, Head(items), maxWidth, indentSpaces, indent,
                                 flatMode)
             rest == renderAll(first.column, Tail(items), maxWidth, indentSpaces,
                               indent, flatMode)
         IN  [out |-> first.out \o rest.out, column |-> rest.column]

render(d, maxLineLength, indentSpaces) ==
    renderInto(0, d, maxLineLength, indentSpaces, 0, FALSE).out
==============================================================================
