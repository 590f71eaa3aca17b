-------------------------------- MODULE NslFmt --------------------------------
(***************************************************************************)
(* The nsl-fmt command (tools/nsl-fmt/main.cpp) and what it does to the    *)
(* file system: the argument vector, the configuration that applies to     *)
(* each input, the atomic rewrite and the exit code.  Formatting itself,   *)
(* the configuration reader and the line count are parameters.             *)
(***************************************************************************)
EXTENDS Integers, Sequences, FiniteSetsExt

CONSTANTS
    Invocations,        \* arguments, disk and standard input: [argv, disk, stdin]
    Positional,         \* the arguments that do not begin with a dash
    ConfigEq, RangeEq,  \* --config=PATH and --range=LINES, to what they give
    RangeArgs,          \* the well-formed LINE:LINE texts, to the two numbers
    ConfigFiles,        \* the configuration files
    Ancestors(_),       \* the .nsl-fmt.toml paths from a file's directory up
    Temp(_),            \* a file's name with .tmp.nslfmt appended
    Faults,             \* the calls that may fail: subset of AllFaults
    NoFile, Torn,       \* no such file; a file with part of its text
    WholeFile,          \* the range when none is given
    Stdin, DefaultConfig,
    FormatBuffer(_, _, _), ParseConfig(_), CountLines(_)

AllFaults == {"read", "config", "stdin", "create", "write", "flush", "rename"}

UserFiles == Positional \cup ConfigFiles
Files == UserFiles \cup {Temp(p) : p \in Positional}

ASSUME FilesAssumption ==
    /\ \A p \in Positional : Temp(p) \notin UserFiles
    /\ \A p, q \in Positional : Temp(p) = Temp(q) => p = q
    /\ Positional \cap ConfigFiles = {}
    /\ \A p \in Positional : Ancestors(p) \in Seq(ConfigFiles)
    /\ Stdin \notin Positional
    /\ Faults \subseteq AllFaults
    /\ ConfigEq \in [DOMAIN ConfigEq -> STRING]
    /\ RangeEq \in [DOMAIN RangeEq -> STRING]
    /\ \A v \in Invocations : v.argv \in Seq(STRING)
    /\ \A v \in Invocations : v.disk = [p \in Files |-> v.disk[p]]

VARIABLES
    argv, i,            \* the arguments and the next one to look at
    opts,               \* the flags seen so far
    pc,                 \* where main is
    range, cfg,         \* parsedRange and the configuration of --config
    k,                  \* the input of the loop that is being handled
    content, fileCfg,   \* its text and its configuration
    formatted,          \* the text to write in place
    aggregateExit, exit,
    fs0, fs,            \* the disk at the start and now
    stdin,
    printed,            \* what went to standard output
    faulted, cfgLost,   \* inputs a failing call hit; whose configuration was lost
    unflushed           \* inputs whose new text was lost when its stream was closed

vars == << argv, i, opts, pc, range, cfg, k, content, fileCfg, formatted,
           aggregateExit, exit, fs0, fs, stdin, printed, faulted, cfgLost, unflushed >>

None == [given |-> FALSE, val |-> ""]
Given(a) == [given |-> TRUE, val |-> a]

Init ==
    /\ \E v \in Invocations : argv = v.argv /\ fs0 = v.disk /\ stdin = v.stdin
    /\ i = 1
    /\ opts = [useStdin |-> FALSE, inPlace |-> FALSE, checkMode |-> FALSE,
               rangeArg |-> None, configPath |-> None, inputs |-> <<>>]
    /\ pc = "argv"
    /\ range = WholeFile /\ cfg = DefaultConfig
    /\ k = 1
    /\ content = Torn /\ fileCfg = DefaultConfig /\ formatted = Torn
    /\ aggregateExit = 0 /\ exit = -1
    /\ fs = fs0
    /\ printed = <<>>
    /\ faulted = {} /\ cfgLost = {} /\ unflushed = {}

Loop == << k, content, fileCfg, formatted, aggregateExit, faulted, cfgLost, unflushed >>
World == << fs, fs0, stdin, printed >>

Exit(code) == pc' = "done" /\ exit' = code

-----------------------------------------------------------------------------
\* One argument of the vector.

Flag(a, o) ==
    CASE a = "--stdin" -> [o EXCEPT !.useStdin = TRUE]
      [] a \in {"-i", "--in-place"} -> [o EXCEPT !.inPlace = TRUE]
      [] a \in {"-c", "--check"} -> [o EXCEPT !.checkMode = TRUE]
      [] a \in DOMAIN ConfigEq -> [o EXCEPT !.configPath = Given(ConfigEq[a])]
      [] a \in DOMAIN RangeEq -> [o EXCEPT !.rangeArg = Given(RangeEq[a])]
      [] a \in Positional -> [o EXCEPT !.inputs = Append(@, a)]

Flags == {"--stdin", "-i", "--in-place", "-c", "--check"} \cup DOMAIN ConfigEq
         \cup DOMAIN RangeEq \cup Positional

ParseArg ==
    /\ pc = "argv" /\ i <= Len(argv)
    /\ LET a == argv[i] IN
       \/ /\ a \in {"--version", "--help", "-h"}
          /\ printed' = Append(printed, [what |-> "banner", name |-> a, text |-> Torn])
          /\ Exit(0)
          /\ UNCHANGED << i, opts >>
       \/ /\ a \in {"--config", "--range"} /\ i < Len(argv)
          /\ opts' = IF a = "--config"
                     THEN [opts EXCEPT !.configPath = Given(argv[i + 1])]
                     ELSE [opts EXCEPT !.rangeArg = Given(argv[i + 1])]
          /\ i' = i + 2
          /\ UNCHANGED << pc, exit, printed >>
       \/ /\ a \in Flags
          /\ opts' = Flag(a, opts)
          /\ i' = i + 1
          /\ UNCHANGED << pc, exit, printed >>
       \/ /\ a \notin Flags \cup {"--version", "--help", "-h"}
          /\ ~(a \in {"--config", "--range"} /\ i < Len(argv))
          /\ Exit(2)
          /\ UNCHANGED << i, opts, printed >>
    /\ UNCHANGED << argv, range, cfg, fs, fs0, stdin, Loop >>

\* The combinations that are refused.
Conflicting(o) ==
    \/ o.checkMode /\ o.inPlace
    \/ o.inPlace /\ o.useStdin
    \/ o.useStdin /\ o.inputs # <<>>
    \/ o.rangeArg.given /\ Len(o.inputs) > 1
    \/ o.checkMode /\ o.inputs = <<>> /\ ~o.useStdin

\* Whether a --range text is LINE:LINE with 1 <= first <= last.
parseLineRange(s) ==
    /\ s \in DOMAIN RangeArgs
    /\ RangeArgs[s].firstLine >= 1 /\ RangeArgs[s].lastLine >= 1
    /\ RangeArgs[s].firstLine <= RangeArgs[s].lastLine

CheckArgs ==
    /\ pc = "argv" /\ i > Len(argv)
    /\ LET bad == Conflicting(opts)
                  \/ (opts.rangeArg.given /\ ~parseLineRange(opts.rangeArg.val))
       IN  \/ bad /\ Exit(2) /\ range' = range
           \/ /\ ~bad
              /\ range' = IF opts.rangeArg.given THEN RangeArgs[opts.rangeArg.val]
                          ELSE WholeFile
              /\ pc' = "config" /\ exit' = exit
    /\ UNCHANGED << argv, i, opts, cfg, World, Loop >>

\* The file named by --config must be there and be a configuration.
LoadConfig ==
    /\ pc = "config"
    /\ LET p == opts.configPath.val
           there == p \in Files /\ fs[p] # NoFile
           loaded == ParseConfig(fs[p])
       IN  \/ ~opts.configPath.given /\ pc' = "input" /\ UNCHANGED << cfg, exit >>
           \/ /\ opts.configPath.given
              /\ ~there \/ "config" \in Faults
              /\ Exit(2) /\ cfg' = cfg
           \/ /\ opts.configPath.given /\ there
              /\ cfg' = loaded.cfg
              /\ IF loaded.status = "Success" THEN pc' = "input" /\ exit' = exit
                 ELSE Exit(2)
    /\ UNCHANGED << argv, i, opts, range, World, Loop >>

\* Standard input, the input files, or neither.
ChooseInput ==
    /\ pc = "input"
    /\ \/ opts.useStdin /\ pc' = "stdin" /\ exit' = exit
       \/ ~opts.useStdin /\ opts.inputs = <<>> /\ Exit(2)
       \/ ~opts.useStdin /\ opts.inputs # <<>> /\ pc' = "file" /\ exit' = exit
    /\ UNCHANGED << argv, i, opts, range, cfg, World, Loop >>

OutOfBounds(s) == /\ range # WholeFile
                  /\ \/ range.firstLine > CountLines(s)
                     \/ range.lastLine > CountLines(s)

ReadStdin ==
    /\ pc = "stdin"
    /\ \/ /\ "stdin" \in Faults
          /\ Exit(1) /\ UNCHANGED << content, fileCfg >>
       \/ /\ OutOfBounds(stdin)
          /\ Exit(2) /\ UNCHANGED << content, fileCfg >>
       \/ /\ ~OutOfBounds(stdin)
          /\ content' = stdin /\ fileCfg' = cfg
          /\ pc' = "format" /\ exit' = exit
    /\ UNCHANGED << argv, i, opts, range, cfg, World, k, formatted, aggregateExit,
                    faulted, cfgLost, unflushed >>

-----------------------------------------------------------------------------
\* The loop over the input files.

Input == opts.inputs[k]

\* Mutant: the loop stops at the first input that fails.
NextFileBreaks(rc) ==
    /\ aggregateExit' = IF rc = 0 THEN aggregateExit ELSE 1
    /\ k' = IF rc = 0 THEN k + 1 ELSE Len(opts.inputs) + 1
    /\ pc' = "file" /\ exit' = exit

\* Mutant: the last input decides the exit code.
NextFileLastWins(rc) ==
    /\ aggregateExit' = rc
    /\ k' = k + 1 /\ pc' = "file" /\ exit' = exit

\* The loop goes on to the next file.
NextFile(rc) ==
    /\ aggregateExit' = IF rc = 0 THEN aggregateExit ELSE 1
    /\ k' = k + 1 /\ pc' = "file" /\ exit' = exit

ReadFile ==
    /\ pc = "file" /\ k <= Len(opts.inputs)
    /\ \/ /\ fs[Input] = NoFile
          /\ NextFile(1) /\ UNCHANGED << content, faulted >>
       \/ /\ "read" \in Faults
          /\ NextFile(1) /\ faulted' = faulted \cup {k} /\ content' = content
       \/ /\ fs[Input] # NoFile
          /\ content' = fs[Input]
          /\ pc' = "resolve"
          /\ UNCHANGED << aggregateExit, k, exit, faulted >>
    /\ UNCHANGED << argv, i, opts, range, cfg, World, fileCfg, formatted, cfgLost,
                    unflushed >>

\* The texts of the configuration files above the input, nearest first; the
\* nearest that is there, or NoFile.
Above(disk, p) == [n \in 1 .. Len(Ancestors(p)) |-> disk[Ancestors(p)[n]]]

discover_config(disk, p) ==
    LET above == Above(disk, p)
        there == {n \in 1 .. Len(Ancestors(p)) : above[n] # NoFile}
    IN  IF there = {} THEN NoFile ELSE above[Min(there)]

Discovers(p) == ~opts.configPath.given /\ discover_config(fs, p) # NoFile

\* The configuration of the input; one that is found and cannot be read leaves
\* the defaults in force.
Resolved(disk, p, lost) ==
    LET found == discover_config(disk, p)
    IN  IF opts.configPath.given \/ found = NoFile \/ lost
        THEN [status |-> "Success", cfg |-> cfg]
        ELSE ParseConfig(found)

ResolveConfig ==
    /\ pc = "resolve"
    /\ \E lost \in {l \in BOOLEAN : l => "config" \in Faults /\ Discovers(Input)} :
         LET r == Resolved(fs, Input, lost) IN
         /\ fileCfg' = r.cfg
         /\ cfgLost' = IF lost THEN cfgLost \cup {k} ELSE cfgLost
         /\ \/ r.status # "Success" /\ NextFile(1)
            \/ /\ r.status = "Success" /\ OutOfBounds(content)
               /\ Exit(2) /\ UNCHANGED << k, aggregateExit >>
            \/ /\ r.status = "Success" /\ ~OutOfBounds(content)
               /\ pc' = "format" /\ UNCHANGED << k, aggregateExit, exit >>
    /\ UNCHANGED << argv, i, opts, range, cfg, World, content, formatted, faulted,
                    unflushed >>

\* What processInput returns ends the program for standard input and one turn
\* of the loop for a file.
Return(rc) ==
    IF opts.useStdin THEN Exit(rc) /\ UNCHANGED << k, aggregateExit >>
    ELSE NextFile(rc)

Name == IF opts.useStdin THEN Stdin ELSE Input

Say(what, s) ==
    printed' = Append(printed, [what |-> what, name |-> Name, text |-> s])

Process ==
    /\ pc = "format"
    /\ LET res == FormatBuffer(content, fileCfg, range) IN
       \/ /\ res.status # "Success"
          /\ Return(1) /\ UNCHANGED << printed, formatted >>
       \/ /\ res.status = "Success" /\ opts.checkMode
          /\ IF res.formattedText = content
             THEN Return(0) /\ printed' = printed
             ELSE Return(1) /\ Say("diff", res.formattedText)
          /\ formatted' = formatted
       \/ /\ res.status = "Success" /\ ~opts.checkMode /\ opts.inPlace
          /\ formatted' = res.formattedText
          /\ pc' = "create" /\ UNCHANGED << k, aggregateExit, exit, printed >>
       \/ /\ res.status = "Success" /\ ~opts.checkMode /\ ~opts.inPlace
          /\ Say("text", res.formattedText)
          /\ Return(0) /\ formatted' = formatted
    /\ UNCHANGED << argv, i, opts, range, cfg, fs, fs0, stdin, content, fileCfg,
                    faulted, cfgLost, unflushed >>

\* The steps of writeFileAtomically.  The text reaches the disk when the
\* stream is closed; whether that succeeds is not looked at.
Fails(call) == call \in Faults /\ NextFile(1) /\ faulted' = faulted \cup {k}

Goes(next) == pc' = next /\ UNCHANGED << k, aggregateExit, exit, faulted >>

\* Mutant: the text is written over the target.
CreateTruncates ==
    /\ pc = "create"
    /\ \/ Fails("create") /\ fs' = fs
       \/ Goes("write") /\ fs' = [fs EXCEPT ![Input] = Torn]
    /\ UNCHANGED << argv, i, opts, range, cfg, fs0, stdin, printed, content,
                    fileCfg, formatted, cfgLost, unflushed >>

Create ==
    /\ pc = "create"
    /\ \/ Fails("create") /\ fs' = fs
       \/ Goes("write") /\ fs' = [fs EXCEPT ![Temp(Input)] = Torn]
    /\ UNCHANGED << argv, i, opts, range, cfg, fs0, stdin, printed, content,
                    fileCfg, formatted, cfgLost, unflushed >>

Write ==
    /\ pc = "write"
    /\ \/ Fails("write")
       \/ Goes("close")
    /\ UNCHANGED << argv, i, opts, range, cfg, World, content, fileCfg, formatted,
                    cfgLost, unflushed >>

Close ==
    /\ pc = "close"
    /\ Goes("rename")
    /\ \/ "flush" \in Faults /\ fs' = fs /\ unflushed' = unflushed \cup {k}
       \/ fs' = [fs EXCEPT ![Temp(Input)] = formatted] /\ unflushed' = unflushed
    /\ UNCHANGED << argv, i, opts, range, cfg, fs0, stdin, printed, content,
                    fileCfg, formatted, cfgLost >>

\* Mutant: the temporary file is copied over the target and stays.
RenameCopies ==
    /\ pc = "rename"
    /\ \/ Fails("rename") /\ fs' = fs
       \/ /\ NextFile(0) /\ faulted' = faulted
          /\ fs' = [fs EXCEPT ![Input] = fs[Temp(Input)]]
    /\ UNCHANGED << argv, i, opts, range, cfg, fs0, stdin, printed, content,
                    fileCfg, formatted, cfgLost, unflushed >>

Rename ==
    /\ pc = "rename"
    /\ \/ Fails("rename") /\ fs' = fs
       \/ /\ NextFile(0) /\ faulted' = faulted
          /\ fs' = [fs EXCEPT ![Input] = fs[Temp(Input)], ![Temp(Input)] = NoFile]
    /\ UNCHANGED << argv, i, opts, range, cfg, fs0, stdin, printed, content,
                    fileCfg, formatted, cfgLost, unflushed >>

Finish ==
    /\ pc = "file" /\ k > Len(opts.inputs)
    /\ Exit(aggregateExit)
    /\ UNCHANGED << argv, i, opts, range, cfg, World, Loop >>

\* The process dies between two of its steps.
Crash ==
    /\ pc \notin {"done", "crashed"}
    /\ pc' = "crashed"
    /\ UNCHANGED << argv, i, opts, range, cfg, exit, World, Loop >>

Step == \/ ParseArg \/ CheckArgs \/ LoadConfig \/ ChooseInput \/ ReadStdin
        \/ ReadFile \/ ResolveConfig \/ Process
        \/ Create \/ Write \/ Close \/ Rename \/ Finish

Next == Step \/ Crash

Spec == Init /\ [][Next]_vars
-----------------------------------------------------------------------------
\* What should become of the j-th input: its text and configuration as they
\* were at the start, and the result of formatting the one under the other.
Text0(j) == fs0[opts.inputs[j]]
Conf(j) == Resolved(fs0, opts.inputs[j], j \in cfgLost)
Want(j) == FormatBuffer(Text0(j), Conf(j).cfg, range)
Formattable(j) == /\ Text0(j) # NoFile
                  /\ Conf(j).status = "Success"
                  /\ Want(j).status = "Success"

Clean(j) == Want(j).formattedText = Text0(j)
Printed(what, j) ==
    \E n \in 1 .. Len(printed) :
        printed[n] = [what |-> what, name |-> opts.inputs[j],
                      text |-> Want(j).formattedText]

Outcome(j) ==
    /\ opts.checkMode => Clean(j) \/ Printed("diff", j)
    /\ ~opts.checkMode /\ opts.inPlace =>
         fs[opts.inputs[j]] = Want(j).formattedText
    /\ ~opts.checkMode /\ ~opts.inPlace => Printed("text", j)

\* The inputs the loop has dealt with, and whether no file is named twice.
Handled == 1 .. k - 1
Distinct == \A a, b \in 1 .. Len(opts.inputs) :
                opts.inputs[a] = opts.inputs[b] => a = b

\* A source file only ever changes from one text to that text's formatting, in
\* one step, and only under -i: whatever fails or dies in between, it holds
\* the whole of the old text or the whole of the new one.  The one exception
\* is a text that did not reach the disk when its stream was closed
\* (writeFileAtomically, and the text processInput was given).
TargetsRewritten ==
    [][\A p \in UserFiles : fs'[p] # fs[p] =>
          LET res == FormatBuffer(fs[p], fileCfg, range)
          IN  /\ opts.inPlace /\ ~opts.checkMode
              /\ res.status = "Success"
              /\ fs'[p] = IF k \in unflushed THEN Torn ELSE res.formattedText]_vars

\* One bad input does not stop the others: once the loop has passed an input
\* that can be read, configured and formatted, and no call failed on it, it is
\* rewritten, printed or, under --check, shown to differ (the continue
\* statements of main's loop).
InputsHandled ==
    Distinct => \A j \in Handled :
        Formattable(j) /\ j \notin faulted \cup unflushed => Outcome(j)

\* The exit code tells what happened: 2 only when nothing was written or
\* printed; after the loop, 1 exactly when some input was unreadable, refused,
\* hit by a failing call or, under --check, not formatted, and 0 otherwise.
ExitTells ==
    pc = "done" /\ Distinct =>
        /\ exit = 2 => fs = fs0 /\ printed = <<>>
        /\ opts.inputs # <<>> /\ k > Len(opts.inputs) =>
             exit = IF \E j \in 1 .. Len(opts.inputs) :
                           \/ j \in faulted \/ ~Formattable(j)
                           \/ opts.checkMode /\ ~Clean(j)
                    THEN 1 ELSE 0

\* A temporary file that writeFileAtomically made is gone after the rename; it
\* stays only when a call failed on its input or the process died.
NoLitter ==
    \A p \in Positional :
        fs[Temp(p)] \in {fs0[Temp(p)], NoFile}
        \/ \E j \in 1 .. Len(opts.inputs) :
               /\ opts.inputs[j] = p
               /\ \/ j \in faulted
                  \/ j = k /\ pc \in {"write", "close", "rename", "crashed"}
==============================================================================
