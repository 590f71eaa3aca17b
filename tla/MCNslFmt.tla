------------------------------- MODULE MCNslFmt -------------------------------
(***************************************************************************)
(* nsl-fmt with the formatter's library, on a corpus of small sources,     *)
(* configurations and command lines; and what the library promises of the  *)
(* texts it is given there.                                                *)
(***************************************************************************)
EXTENDS Format, NslFmt

countLines(s) ==
    Cardinality({q \in 1 .. Len(s) : s[q] = NL})
    + IF s = <<>> \/ Last(s) = NL THEN 0 ELSE 1

MCIds == {"a", "b", "m"}
MCNumbers == {"8"}
-----------------------------------------------------------------------------
\* The corpus.
LineComment == << "/", "/", "c" >>
BlockComment == << "/", "*", "c", "*", "/" >>
Module(body) == << "module", SP, "m", "{" >> \o body \o << "}", NL >>
Reg(name, rest) == << "reg", SP, name >> \o rest \o << ";" >>
Alt(cond) ==
    << "alt", "{" >> \o cond \o << ":", "a", ":=", "b", ";", "b", ":", "a", "=",
       "8", ";", "else", ":", "b", "=", "a", ";", "}" >>

CleanSource ==
    << "module", SP, "m", SP, "{", NL, SP, SP, SP, SP >> \o Reg("a", <<>>)
    \o << NL, "}", NL >>
RefusedSource == Module(<< "reg", NL >>)

\* What is on the disk of a text that was not written out.
MCTorn == << "module" >>

\* Declarations with comments between them, initial values, several registers
\* in one declaration, statements, a long line, directives.
Sources == {
    <<>>,
    CleanSource,
    RefusedSource,
    Module(Reg("a", << "[", "8", "]" >>) \o << SP >> \o LineComment \o << NL >>
           \o BlockComment \o Reg("b", << "=", "a", "+", "b", "*", "8" >>)),
    Module(BlockComment \o << NL, NL >> \o LineComment \o << NL >> \o Reg("a", <<>>)
           \o BlockComment \o << NL >> \o LineComment \o << NL >>),
    Module(Reg("a", << ",", "b", SP, "=", "-", SP, "8" >>) \o LineComment
           \o << NL >>),
    Module(<< "func", SP, "b", SP >> \o Alt(<< "a", "+", "b" >>)),
    Module(<< "func", SP, "b", "{", "a", "[", "8", SP, ":", SP, "b", "]", ":=",
              "{", "a", ",", "b", "}", ";", NL >> \o Alt(<< "~", "a" >>)
           \o << "}" >>),
    Module(<< "proc_name", SP, "a", "(", "a", ",", "b", ")", ";", NL, CR >>),
    << "struct", SP, "m", "{", "a", "[", "8", "]", ";", "b", ";", "}", ";", CR, NL,
       "#", "define", SP, "a", "\\", NL, SP, "8", NL >> \o Module(<< NL >>),
    << "#", "ifdef", SP, "a", NL >> \o Module(Reg("a", <<>>) \o << SP >>
       \o Reg("b", <<>>)) \o << SP, "#", "endif", NL, NL >> }

\* An operand in parentheses.
Parenthesised ==
    Module(Reg("a", << "=", "(", "a", "+", "b", ")", "*", "8" >>))

NoKeys == [x \in {} |-> x]
Configurations == {
    NoKeys, Malformed,
    "indent" :> [int |-> 3],
    "brace_style" :> [str |-> "allman"] @@ "indent" :> [str |-> "tab"],
    "preserve_comments" :> [str |-> "none"] @@ "indent" :> [int |-> 2],
    "preserve_comments" :> [str |-> "leading_only"] @@ "colour" :> [int |-> 1],
    "max_line_length" :> [int |-> 16] @@ "spaces_inside_braces" :> [int |-> 1],
    "align_struct_members" :> [bool |-> FALSE]
        @@ "align_case_arrows" :> [bool |-> FALSE] }
-----------------------------------------------------------------------------
\* The command lines.  x/a and b are sources; x and the current directory may
\* have a configuration, and c.toml is one that is named.
MCPositional == {"x/a", "b"}
MCConfigFiles == {"x/.nsl-fmt.toml", ".nsl-fmt.toml", "c.toml"}
MCAncestors(p) == IF p = "x/a" THEN << "x/.nsl-fmt.toml", ".nsl-fmt.toml" >>
                  ELSE << ".nsl-fmt.toml" >>
MCTemp(p) == IF p = "x/a" THEN "x/a.tmp.nslfmt" ELSE "b.tmp.nslfmt"
MCConfigEq == "--config=c.toml" :> "c.toml" @@ "--config=none" :> "none"
MCRangeEq == "--range=2:2" :> "2:2" @@ "--range=2:1" :> "2:1"
MCRangeArgs == "2:2" :> [firstLine |-> 2, lastLine |-> 2]
               @@ "2:1" :> [firstLine |-> 2, lastLine |-> 1]

Disk(a, b, x, root, c) ==
    "x/a" :> a @@ "b" :> b @@ "x/.nsl-fmt.toml" :> x @@ ".nsl-fmt.toml" :> root
    @@ "c.toml" :> c @@ "x/a.tmp.nslfmt" :> NoFile @@ "b.tmp.nslfmt" :> NoFile

Call(v, disk, text_) == [argv |-> v, disk |-> disk, stdin |-> text_]

\* One source under every configuration, in whole and from its second line.
OneFile(sources) ==
    { Call(v, Disk(s, NoFile, x, NoFile, NoFile), <<>>) :
        v \in { << "x/a" >>, << "--range", "2:2", "x/a" >> }, s \in sources,
        x \in Configurations }

\* Two files and the configurations that may apply to them.
TwoFiles ==
    { Call(v, Disk(CleanSource, b, x, root, NoKeys), <<>>) :
        v \in { << "-i", "x/a", "b" >>, << "--check", "b", "x/a" >>,
                << "b", "x/a" >>, << "-i", "b", "b" >> },
        b \in {NoFile, CleanSource, RefusedSource, Module(Reg("b", <<>>))},
        x \in {NoFile, Malformed, "indent" :> [str |-> "spaces2"]},
        root \in {NoFile, NoKeys} }

\* Everything else about the command line.
Options ==
    { Call(v, Disk(CleanSource, RefusedSource, NoFile, NoFile, c), s) :
        v \in { << >>, << "--version" >>, << "b", "-h" >>, << "--colour" >>,
                << "--config" >>, << "-c", "-i", "b" >>, << "--stdin", "-i" >>,
                << "--stdin", "b" >>, << "--range", "2:2", "x/a", "b" >>,
                << "--check" >>, << "--range=2:1", "b" >>,
                << "--range=2:2", "--stdin" >>, << "--stdin", "--check" >>,
                << "--config=c.toml", "--in-place", "x/a" >>,
                << "--config", "c.toml", "--stdin" >>, << "--config=none", "b" >>,
                << "--range", "b" >> },
        c \in {NoKeys, Malformed},
        s \in {<<>>, CleanSource, RefusedSource, Module(Reg("b", <<>>))} }

MCInvocations == OneFile(Sources) \cup TwoFiles \cup Options
ParenthesisedInvocations == OneFile({Parenthesised})
-----------------------------------------------------------------------------
\* What is being formatted, and what comes of it.
Formatting == pc = "format" /\ FormatBuffer(content, fileCfg, range).status = "Success"
After == FormatBuffer(content, fileCfg, range).formattedText

Fragments(s) == SelectSeq(split(s), LAMBDA sl : sl.kind = "NSLFragment")

\* The tokens of a source, a directive being one token, and its comments.
SourceTokens(s) ==
    Flat([n \in 1 .. Len(split(s)) |->
            LET raw == rawText(s, split(s)[n])
            IN  IF split(s)[n].kind = "Directive"
                THEN << OneFinalBreak(NormalizeBreaks(raw)) >>
                ELSE [p \in 1 .. Len(lex(raw)) - 1 |-> lex(raw)[p].t]])

CommentsOf(raw) == [n \in 1 .. Len(scanComments(raw, 1, Len(raw) + 1)) |->
                      LET c == scanComments(raw, 1, Len(raw) + 1)[n]
                      IN  SubSeq(raw, c.begin, c.end - 1)]
SourceComments(s) ==
    Flat([n \in 1 .. Len(Fragments(s)) |-> CommentsOf(rawText(s, Fragments(s)[n]))])

\* No operand in parentheses and no prefix operator after its equal: the tree
\* does not show either.
Ordinary(s) ==
    \A n \in 1 .. Len(Fragments(s)) :
        LET T == lex(rawText(s, Fragments(s)[n]))
        IN  \A p \in 2 .. Len(T) - 1 :
                /\ T[p].k = "(" => IsId(T, p - 1)
                /\ T[p].k \in {"-", "+"} => T[p + 1].k # T[p].k

\* Every comment stands in the body of a module, outside its declarations.
BetweenDeclarations(s) ==
    \A n \in 1 .. Len(Fragments(s)) :
        LET raw == rawText(s, Fragments(s)[n])
            cs == scanComments(raw, 1, Len(raw) + 1)
            unit == parseCompilationUnit(raw).n
            Inside(c, d) == d.begin <= c.begin /\ c.end <= d.end
        IN  \A q \in 1 .. Len(cs) : \E m \in 1 .. Len(unit.kids) :
                /\ unit.kids[m].kind = "ModuleBlock"
                /\ Inside(cs[q], unit.kids[m])
                /\ ~\E d \in 1 .. Len(unit.kids[m].kids) :
                       Inside(cs[q], unit.kids[m].kids[d])

\* Formatting changes the layout of an ordinary source and nothing else: the
\* tokens and the directives come out as they went in, in the same order, under
\* every configuration and range (format_buffer, and every rule of formatNode
\* that writes a node anew from its parts).
TokensKept ==
    Formatting /\ Ordinary(content) => SourceTokens(After) = SourceTokens(content)

\* Comments between the declarations of a module all survive, in their order,
\* when the configuration keeps comments (classifyGap and the module rule).
CommentsKept ==
    Formatting /\ fileCfg["preserve_comments"] = "All"
        /\ BetweenDeclarations(content)
        => SourceComments(After) = SourceComments(content)

\* Formatting settles: what the second pass makes of the first one's text is
\* not changed by a third (format_buffer on its own output).
Settles ==
    Formatting /\ Ordinary(content) =>
        LET Again(s) == FormatBuffer(s, fileCfg, WholeFile).formattedText
        IN  Again(Again(After)) = Again(After)

\* The lines that applying hunks to old gives, and whether they fit.
Patched(old, hunks) ==
    LET Side(h, other) == SelectSeq(h.edits, LAMBDA e : e.kind # other)
        Texts(es) == [n \in 1 .. Len(es) |-> es[n].text]
        First(h) == IF h.oldCount = 0 THEN h.oldStart + 1 ELSE h.oldStart
        Apply(acc, h) ==
            [new |-> acc.new \o SubSeq(old, acc.next, First(h) - 1)
                     \o Texts(Side(h, "Removed")),
             next |-> First(h) + h.oldCount,
             ok |-> /\ acc.ok
                    /\ Texts(Side(h, "Added"))
                         = SubSeq(old, First(h), First(h) + h.oldCount - 1)
                    /\ h.newCount = Len(Side(h, "Removed"))
                    /\ LET n == Len(acc.new) + First(h) - acc.next
                       IN  h.newStart = IF h.newCount = 0 THEN n ELSE n + 1]
        all == FoldLeft(Apply, [new |-> <<>>, next |-> 1, ok |-> TRUE], hunks)
    IN  [new |-> all.new \o SubSeq(old, all.next, Len(old)), ok |-> all.ok]

\* The hunks of the diff that --check prints, applied to the lines of the old
\* text, give the lines of the new one (computeUnifiedDiff: the traceback, the
\* grouping and the line numbers of the hunks).
DiffApplies ==
    Formatting =>
        LET d == Patched(splitLines(content),
                         emit_unified_diff(content, After).hunks)
        IN  d.ok /\ d.new = splitLines(After)

\* Formatting is idempotent: a source that was accepted is accepted again once
\* it is formatted, and does not change (format_buffer on its own output).
Idempotent ==
    Formatting =>
        FormatBuffer(After, fileCfg, range)
            = [status |-> "Success", formattedText |-> After]
==============================================================================
