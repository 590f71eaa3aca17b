--------------------------------- MODULE Diff ---------------------------------
(***************************************************************************)
(* The unified diff that nsl-fmt --check prints (lib/Fmt/Diff.cpp).  Lines *)
(* are compared as a whole; the diff is a header and a sequence of hunks.  *)
(***************************************************************************)
EXTENDS DirectiveSplitter

CONSTANT kContextLines        \* 3 in the code

\* The lines of a text, without their line breaks; a break at the end does
\* not start another line.
RECURSIVE splitLines(_)
splitLines(s) ==
    IF s = <<>> THEN <<>>
    ELSE LET q == FirstFrom(s, 1, LAMBDA c : c = NL)
         IN  << SubSeq(s, 1, q - 1) >> \o splitLines(SubSeq(s, q + 1, Len(s)))

\* The length of the longest common subsequence of every two prefixes.
fillLCS(a, b) ==
    LET L[i \in 0 .. Len(a), j \in 0 .. Len(b)] ==
            CASE i = 0 \/ j = 0 -> 0
              [] i > 0 /\ j > 0 /\ a[i] = b[j] -> L[i - 1, j - 1] + 1
              [] OTHER -> Max({L[i - 1, j], L[i, j - 1]})
    IN  L

\* The edits that lead from a[1..i] to b[1..j], found walking back from the
\* ends; a tie takes the added line first, so that it comes out last.
RECURSIVE traceFrom(_, _, _, _, _)
traceFrom(L, a, b, i, j) ==
    CASE i > 0 /\ j > 0 /\ a[i] = b[j] ->
           Append(traceFrom(L, a, b, i - 1, j - 1),
                  [kind |-> "Context", text |-> a[i]])
      [] i > 0 /\ (j = 0 \/ (a[i] # b[j] /\ L[i - 1, j] > L[i, j - 1])) ->
           Append(traceFrom(L, a, b, i - 1, j),
                  [kind |-> "Removed", text |-> a[i]])
      [] j > 0 /\ (i = 0 \/ (a[i] # b[j] /\ L[i - 1, j] <= L[i, j - 1])) ->
           Append(traceFrom(L, a, b, i, j - 1),
                  [kind |-> "Added", text |-> b[j]])
      [] OTHER -> <<>>

traceDiff(a, b) == traceFrom(fillLCS(a, b), a, b, Len(a), Len(b))

\* How many of the edits before position e are lines of the given side.
LinesBefore(edits, e, other) ==
    Cardinality({i \in 1 .. e - 1 : edits[i].kind # other})

\* Mutant: the hunk stops one line early.
hunkOfShort(edits, first, last) ==
    LET lo == Max({first - kContextLines, 1})
        hi == Min({last + kContextLines, Len(edits)})
        oldStart == 1 + LinesBefore(edits, lo, "Added")
        newStart == 1 + LinesBefore(edits, lo, "Removed")
    IN  [oldStart |-> oldStart,
         oldCount |-> 1 + LinesBefore(edits, hi, "Added") - oldStart,
         newStart |-> newStart,
         newCount |-> 1 + LinesBefore(edits, hi, "Removed") - newStart,
         edits |-> SubSeq(edits, lo, hi - 1)]

\* The hunk that shows the changes from first to last, with up to
\* kContextLines lines around them.
hunkOf(edits, first, last) ==
    LET lo == Max({first - kContextLines, 1})
        hi == Min({last + kContextLines + 1, Len(edits) + 1})
        oldStart == 1 + LinesBefore(edits, lo, "Added")
        newStart == 1 + LinesBefore(edits, lo, "Removed")
    IN  [oldStart |-> oldStart,
         oldCount |-> 1 + LinesBefore(edits, hi, "Added") - oldStart,
         newStart |-> newStart,
         newCount |-> 1 + LinesBefore(edits, hi, "Removed") - newStart,
         edits |-> SubSeq(edits, lo, hi - 1)]

\* One hunk for each group of changes at most twice the context apart.
groupIntoHunks(edits) ==
    LET changeIdx == {i \in 1 .. Len(edits) : edits[i].kind # "Context"}
        Near(i, j) == j - i <= 2 * kContextLines
        Starts == {i \in changeIdx : ~\E j \in changeIdx : j < i /\ Near(j, i)}
        EndOf(i) == Min({j \in changeIdx : j >= i
                          /\ ~\E k \in changeIdx : k > j /\ Near(j, k)})
    IN  [n \in 1 .. Cardinality(Starts) |->
            LET i == SetToSortSeq(Starts, <)[n] IN hunkOf(edits, i, EndOf(i))]

\* The hunk as printed: an empty side starts on the line before.
emitHunk(h) ==
    [h EXCEPT !.oldStart = IF h.oldCount = 0 THEN @ - 1 ELSE @,
              !.newStart = IF h.newCount = 0 THEN @ - 1 ELSE @]

\* The diff of two texts: whether the header is printed, and the hunks.
computeUnifiedDiff(oldText, newText) ==
    IF oldText = newText THEN [header |-> FALSE, hunks |-> <<>>]
    ELSE LET hunks == groupIntoHunks(traceDiff(splitLines(oldText),
                                               splitLines(newText)))
         IN  [header |-> TRUE, hunks |-> [n \in 1 .. Len(hunks) |->
                                             emitHunk(hunks[n])]]
==============================================================================
