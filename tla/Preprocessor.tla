----------------------------- MODULE Preprocessor -----------------------------
(***************************************************************************)
(* lib/Preprocess/Preprocessor.cpp: the line loop over the stack of include *)
(* frames, with its conditionals, macro table, `#line` handling and output, *)
(* followed by what the driver does with the output (it becomes a synthetic *)
(* buffer labelled with the input's path, onto which the surviving `#line`  *)
(* directives are replayed).                                                *)
(*                                                                          *)
(* The sources are not fixed: a line is chosen when it is first read and    *)
(* remembered, so that a run covers every set of files of the given size.   *)
(***************************************************************************)
EXTENDS SourceManager, FiniteSetsExt

CONSTANTS Macro,             \* macro names
          Body,              \* macro bodies the sources use, among "0", "1", "empty"
          LineNo,            \* the numbers user `#line` directives carry
          Missing,           \* a file name no search path resolves
          MaxIncludeDepth,   \* kMaxIncludeDepth
          MaxLines,          \* bound: source lines of the whole compilation
          Quirks             \* which of the forms below the sources may use

(* "reinclude":       a file is included more than once, or includes itself *)
(* "includeRoot":     the input file is included by another                 *)
(* "lineThenInclude": an `#include` follows a `#line` of the same file      *)
(* "barePath":        a `#line N` without a path in an included file        *)
(* "noNewline":       an included file does not end in a newline            *)
AllQuirks == {"reinclude", "includeRoot", "lineThenInclude", "barePath", "noNewline"}

ASSUME QuirksAssumption == Quirks \subseteq AllQuirks

ASSUME DepthAssumption == MaxIncludeDepth \in Nat \ {0}

ASSUME LineNoAssumption == LineNo \subseteq Nat

VARIABLES files,          \* the sources as far as they have been read
          include_stack,  \* Impl::include_stack
          macros,         \* the MacroTable
          output,         \* the output buffer
          diags,          \* the DiagnosticEngine's buffer
          status          \* "running", "ok", "error" or "abort"

vars == <<smVars, files, include_stack, macros, output, diags, status>>

Undefined == [body |-> "none", sited |-> FALSE]

(* What a line says, once DirectiveParser::classifyLine has read it.  A     *)
(* "text" line passes through; a "residue" line also passes through, but a  *)
(* helper call or a float literal in it is reported as an error.            *)
Directive ==
       [kind : {"text", "residue", "else", "endif", "unknown", "badline"}]
  \cup [kind : {"define"}, macro : Macro, body : Body]
  \cup [kind : {"undef", "ifdef", "ifndef", "if"}, macro : Macro]
  \cup [kind : {"include"}, file : File \cup {Missing}]
  \cup [kind : {"line"}, n : LineNo, path : {Alias, NoPath}]

Line == [dir : Directive, nl : BOOLEAN]

----------------------------------------------------------------------------
Top == include_stack[Len(include_stack)]

Frame(f) == [fid |-> f, physical_line |-> 1, cond_stack |-> <<>>]

Emitting(conds) == conds = <<>> \/ conds[Len(conds)].currently_emitting

isEmitting == Emitting(Top.cond_stack)

HasError == \E d \in diags : d.sev = "error"

Init ==
  /\ SMInit
  /\ files = [f \in File |-> [lines |-> <<>>, closed |-> FALSE]]
  /\ include_stack = <<Frame(Root)>>
  /\ macros \in [Macro -> {Undefined} \cup [body : Body, sited : {FALSE}]]
  /\ output = <<>>
  /\ diags = {}
  /\ status = "running"

----------------------------------------------------------------------------
(* The sources.  Which line may come next in file f, given what it holds.   *)
LinesRead == MapThenSumSet(LAMBDA f : Len(files[f].lines), File)

HasLine(f) == \E i \in 1..Len(files[f].lines) : files[f].lines[i].dir.kind = "line"

Allowed(f, l) ==
  /\ l.dir.kind = "include" /\ l.dir.file # Missing =>
       /\ l.dir.file = Root => "includeRoot" \in Quirks
       /\ Loaded(l.dir.file) /\ l.dir.file # Root => "reinclude" \in Quirks
       /\ HasLine(f) => "lineThenInclude" \in Quirks
  /\ l.dir.kind = "line" /\ l.dir.path = NoPath /\ f # Root => "barePath" \in Quirks
  /\ ~l.nl /\ f # Root => "noNewline" \in Quirks

(* readLine: the lines the active frame may find next; none at the end.     *)
NextLines ==
  LET f == files[Top.fid] IN
  IF Top.physical_line <= Len(f.lines) THEN {f.lines[Top.physical_line]}
  ELSE IF f.closed \/ LinesRead >= MaxLines THEN {}
  ELSE {l \in Line : Allowed(Top.fid, l)}

(* One turn of the loop on line l, when its kind is one of `kinds`.         *)
Reads(kinds, l) ==
  /\ l.dir.kind \in kinds
  /\ files' = IF Top.physical_line <= Len(files[Top.fid].lines) THEN files
              ELSE [files EXCEPT ![Top.fid] =
                      [lines |-> Append(@.lines, l), closed |-> ~l.nl]]

(* The frame's line counter moves on before the line is handled.            *)
Advanced == [Top EXCEPT !.physical_line = @ + 1]

SetTop(frame) == include_stack' = [include_stack EXCEPT ![Len(include_stack)] = frame]

Here(sev) == Report(sev, Top.fid, Top.physical_line)

(* Output items.  A line without a newline leaves the next item on the same *)
(* output line.                                                             *)
Text(nl) == [kind |-> "text", file |-> Top.fid, line |-> Top.physical_line, nl |-> nl]

Blank(nl) == IF nl THEN <<[kind |-> "blank", nl |-> TRUE]>> ELSE <<>>

LineDirective(n, path) == [kind |-> "line", n |-> n, path |-> path, nl |-> TRUE]

Emit(items) == output' = output \o items

----------------------------------------------------------------------------
(* scanForHelperOnPassthrough, scanForFloatOnPassthrough: what is left after *)
(* splicing that must not cross the seam.                                    *)
Residue(l) == l.dir.kind = "residue"

(* Kind::None *)
Passthrough(l) ==
  /\ Reads({"text", "residue"}, l)
  /\ SetTop(Advanced)
  /\ IF isEmitting
     THEN /\ Emit(<<Text(l.nl)>>)
          /\ diags' = IF Residue(l) THEN diags \cup {Here("error")} ELSE diags
     ELSE Emit(Blank(l.nl)) /\ UNCHANGED diags
  /\ UNCHANGED <<smVars, macros, status>>

(* handleDefine, handleUndef and Kind::Unknown, all of them only if the     *)
(* line is in a branch that is emitting.                                    *)
Define(l) ==
  /\ Reads({"define"}, l)
  /\ SetTop(Advanced) /\ Emit(Blank(l.nl))
  /\ IF isEmitting
     THEN /\ macros' = [macros EXCEPT ![l.dir.macro] = [body |-> l.dir.body, sited |-> TRUE]]
          /\ diags' = IF macros[l.dir.macro].sited THEN diags \cup {Here("warning")} ELSE diags
     ELSE UNCHANGED <<macros, diags>>
  /\ UNCHANGED <<smVars, status>>

Undef(l) ==
  /\ Reads({"undef"}, l)
  /\ SetTop(Advanced) /\ Emit(Blank(l.nl))
  /\ macros' = IF isEmitting THEN [macros EXCEPT ![l.dir.macro] = Undefined] ELSE macros
  /\ UNCHANGED <<smVars, diags, status>>

Unknown(l) ==
  /\ Reads({"unknown"}, l)
  /\ SetTop(Advanced) /\ Emit(Blank(l.nl))
  /\ diags' = IF isEmitting THEN diags \cup {Here("error")} ELSE diags
  /\ UNCHANGED <<smVars, macros, status>>

(* pushCondFrame: a conditional inside a suppressed branch emits neither of *)
(* its own.                                                                 *)
PushCondFrame(taken) ==
  [Advanced EXCEPT !.cond_stack =
     Append(@, [currently_emitting |-> isEmitting /\ taken,
                any_branch_taken   |-> isEmitting /\ taken,
                parent_suppressed  |-> ~isEmitting,
                opener             |-> Top.physical_line])]

Ifdef(l) ==
  /\ Reads({"ifdef", "ifndef"}, l)
  /\ SetTop(PushCondFrame((macros[l.dir.macro] # Undefined) <=> (l.dir.kind = "ifdef")))
  /\ Emit(Blank(l.nl))
  /\ UNCHANGED <<smVars, macros, diags, status>>

(* PPExpression::parse on a condition that is one macro: its body's value;  *)
(* an undefined macro, or one with an empty body, is an error and counts 0. *)
Evaluates(m) == macros[m].body \in {"0", "1"}

Truthy(m) == macros[m].body = "1"

(* handleIf evaluates the condition even in a suppressed branch.            *)
If(l) ==
  /\ Reads({"if"}, l)
  /\ SetTop(PushCondFrame(Truthy(l.dir.macro)))
  /\ Emit(Blank(l.nl))
  /\ diags' = IF Evaluates(l.dir.macro) THEN diags ELSE diags \cup {Here("error")}
  /\ UNCHANGED <<smVars, macros, status>>

(* An `#else` that forgets that a branch was taken. *)
FlippedForgetful(c) ==
  IF c.parent_suppressed THEN [c EXCEPT !.currently_emitting = FALSE]
  ELSE [c EXCEPT !.currently_emitting = ~@]

(* What handleElse does to the innermost conditional. *)
Flipped(c) ==
  IF c.parent_suppressed \/ c.any_branch_taken
  THEN [c EXCEPT !.currently_emitting = FALSE]
  ELSE [c EXCEPT !.currently_emitting = TRUE, !.any_branch_taken = TRUE]

Else(l) ==
  /\ Reads({"else"}, l)
  /\ Emit(Blank(l.nl))
  /\ IF Top.cond_stack = <<>>
     THEN SetTop(Advanced) /\ diags' = diags \cup {Here("error")}
     ELSE /\ SetTop([Advanced EXCEPT !.cond_stack[Len(Top.cond_stack)] = Flipped(@)])
          /\ UNCHANGED diags
  /\ UNCHANGED <<smVars, macros, status>>

Endif(l) ==
  /\ Reads({"endif"}, l)
  /\ Emit(Blank(l.nl))
  /\ IF Top.cond_stack = <<>>
     THEN SetTop(Advanced) /\ diags' = diags \cup {Here("error")}
     ELSE /\ SetTop([Advanced EXCEPT !.cond_stack = SubSeq(@, 1, Len(@) - 1)])
          /\ UNCHANGED diags
  /\ UNCHANGED <<smVars, macros, status>>

(* handleLine: the override takes effect on the line after the directive.   *)
(* A second reading of the same directive finds its override registered and *)
(* aborts the process.                                                      *)
UserLine(l) ==
  /\ Reads({"line", "badline"}, l)
  /\ IF ~isEmitting
     THEN SetTop(Advanced) /\ Emit(Blank(l.nl)) /\ UNCHANGED <<line_overrides, diags, status>>
     ELSE IF l.dir.kind = "badline"
     THEN SetTop(Advanced) /\ diags' = diags \cup {Here("error")}
          /\ UNCHANGED <<line_overrides, output, status>>
     ELSE IF InOrder(Top.fid, Top.physical_line + 1)
     THEN /\ AddLineDirective(Top.fid, Top.physical_line + 1, l.dir.n, l.dir.path)
          /\ SetTop(Advanced)
          /\ Emit(<<LineDirective(l.dir.n, l.dir.path)>>)
          /\ UNCHANGED <<diags, status>>
     ELSE status' = "abort" /\ UNCHANGED <<include_stack, line_overrides, output, diags>>
  /\ UNCHANGED <<buffers, sm_include_stack, include_sites, macros>>

(* handleInclude: search, depth guard, load, push both stacks, announce.    *)
Include(l) ==
  /\ Reads({"include"}, l)
  /\ IF ~isEmitting
     THEN SetTop(Advanced) /\ Emit(Blank(l.nl)) /\ UNCHANGED <<smVars, diags>>
     ELSE IF l.dir.file = Missing \/ Len(include_stack) + 1 > MaxIncludeDepth
     THEN SetTop(Advanced) /\ diags' = diags \cup {Here("error")} /\ UNCHANGED <<smVars, output>>
     ELSE /\ LoadFile(l.dir.file)
          /\ PushIncludeFrame([file |-> Top.fid, line |-> Top.physical_line], l.dir.file)
          /\ include_stack' = Append([include_stack EXCEPT ![Len(include_stack)] = Advanced],
                                     Frame(l.dir.file))
          /\ Emit(<<LineDirective(1, l.dir.file)>>)
          /\ UNCHANGED <<line_overrides, diags>>
  /\ UNCHANGED <<macros, status>>

(* The line of the `#include` itself instead of the one after it. *)
emitLineForDirective(stack) ==
  LET f == stack[Len(stack)] IN <<LineDirective(f.physical_line - 1, f.fid)>>

(* The `#line` that takes the reader back to the file on top of `stack`.    *)
emitLineForFrame(stack) ==
  LET f == stack[Len(stack)] IN <<LineDirective(f.physical_line, f.fid)>>

(* The pop moved into the branch for included files: the root is never left. *)
EndOfFileKeepsRoot ==
  /\ status = "running" /\ include_stack # <<>>
  /\ Top.physical_line > Len(files[Top.fid].lines)
  /\ files' = [files EXCEPT ![Top.fid].closed = TRUE]
  /\ diags' = diags \cup {Report("error", Top.fid, Top.cond_stack[i].opener) :
                            i \in 1..Len(Top.cond_stack)}
  /\ IF Len(include_stack) = 1
     THEN UNCHANGED <<include_stack, sm_include_stack, output>>
     ELSE /\ include_stack' = SubSeq(include_stack, 1, Len(include_stack) - 1)
          /\ PopIncludeFrame /\ Emit(emitLineForFrame(include_stack'))
  /\ UNCHANGED <<buffers, line_overrides, include_sites, macros, status>>

(* EOF on the active frame: its open conditionals are reported, both stacks *)
(* are popped, and the including file's place is announced.                 *)
EndOfFile ==
  /\ status = "running" /\ include_stack # <<>>
  /\ Top.physical_line > Len(files[Top.fid].lines)
  /\ files' = [files EXCEPT ![Top.fid].closed = TRUE]
  /\ diags' = diags \cup {Report("error", Top.fid, Top.cond_stack[i].opener) :
                            i \in 1..Len(Top.cond_stack)}
  /\ include_stack' = SubSeq(include_stack, 1, Len(include_stack) - 1)
  /\ IF Len(include_stack) = 1
     THEN UNCHANGED <<sm_include_stack, output>>
     ELSE PopIncludeFrame /\ Emit(emitLineForFrame(include_stack'))
  /\ UNCHANGED <<buffers, line_overrides, include_sites, macros, status>>

(* Preprocessor::run returns to the driver, which stops on an error.        *)
Return ==
  /\ status = "running" /\ include_stack = <<>>
  /\ status' = IF HasError THEN "error" ELSE "ok"
  /\ UNCHANGED <<smVars, files, include_stack, macros, output, diags>>

Done == status # "running" /\ UNCHANGED vars

HandleLine(l) ==
  \/ Passthrough(l) \/ Define(l) \/ Undef(l) \/ Unknown(l)
  \/ Ifdef(l) \/ If(l) \/ Else(l) \/ Endif(l)
  \/ UserLine(l) \/ Include(l)

ReadLine == /\ status = "running" /\ include_stack # <<>>
            /\ \E l \in NextLines : HandleLine(l)

Step == ReadLine \/ EndOfFile \/ Return

Next == Step \/ Done

Spec == Init /\ [][Next]_vars

(* The loop is one thread that never waits. *)
FairSpec == Spec /\ WF_vars(Step)

----------------------------------------------------------------------------
(* The synthetic buffer: the line an output item is on, and the overrides   *)
(* that replayLineDirectives finds on it.  Only a directive at the start of *)
(* an output line is seen.                                                  *)
OutLine(k) == 1 + Cardinality({j \in 1..(k - 1) : output[j].nl})

AtColumnZero(k) == k = 1 \/ output[k - 1].nl

SynthOverrides ==
  {Override(output[k].n, output[k].path, OutLine(k) + 1) :
     k \in {j \in 1..Len(output) : output[j].kind = "line" /\ AtColumnZero(j)}}

SynthPosition(k) == ResolveVirtual(Root, SynthOverrides, OutLine(k))

----------------------------------------------------------------------------
(* The readings of a file: handleInclude announces each one of an included  *)
(* file with `#line 1`, and the input file is read once without it.         *)
Readings(f) ==
  {k \in 1..Len(output) : output[k] = LineDirective(1, f)}
  \cup (IF f = Root THEN {0} ELSE {})

Reread(f) == \E j, k \in Readings(f) : j # k

(* loadFile gives all readings of a file one FileID, and with it one list   *)
(* of overrides: those of a file that is read again need not be the ones    *)
(* this reading has passed.                                                 *)
Stale(f) == Reread(f) /\ line_overrides[f] # {}

(* After a successful run every line of text stands, in the buffer the      *)
(* lexer scans, at the place its own file gives it: resolveVirtual on the   *)
(* synthetic buffer, after the replay of the `#line` directives, and        *)
(* resolveVirtual on the original file agree.  Blank lines for suppressed   *)
(* and consumed lines, the directives around an include and the user's own  *)
(* all have to add up for this.  (A file with overrides of its own that is  *)
(* read again is the exception.)                                            *)
SeamPositions ==
  status = "ok" =>
    \A k \in 1..Len(output) :
      output[k].kind = "text" /\ ~Stale(output[k].file) =>
        SynthPosition(k) =
          ResolveVirtual(output[k].file, line_overrides[output[k].file], output[k].line)

(* The NSL_ABORT of addLineDirective is met in one way only: the directive  *)
(* stands in a file that is being read for the second time.  loadFile gives *)
(* both readings one FileID, so the override of the first is still there.   *)
AbortsOnReinclusionOnly == status = "abort" => Reread(Top.fid)

(* A conditional emits at most one of its branches: once the branch it took *)
(* has ended, no further `#else` turns it on again.                         *)
OneBranch ==
  [][\A i \in 1..Len(include_stack) :
       i <= Len(include_stack') =>
         LET old == include_stack[i].cond_stack
             new == include_stack'[i].cond_stack
         IN  \A j \in 1..Len(old) :
               /\ j <= Len(new)
               /\ old[j].any_branch_taken /\ ~old[j].currently_emitting
               => ~new[j].currently_emitting]_vars

(* The preprocessor finishes on every set of files, files that include      *)
(* themselves included: the depth guard ends every chain of includes.       *)
Terminates == <>(status # "running")
=============================================================================
