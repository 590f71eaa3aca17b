--------------------------- MODULE NslFmtInvariant ----------------------------
(***************************************************************************)
(* The invariant of main's variables, for every formatter, configuration   *)
(* reader, set of files, command line and pattern of failing calls: where  *)
(* the command is, what it holds of the input it is at, and that a text    *)
(* reaches a source by way of its temporary file alone.                    *)
(***************************************************************************)
EXTENDS NslFmt, TLAPS

\* The provers a leaf is given to, one after the other, and their time.
USE SMTT(60), Z3T(60), ZenonT(60)

Before == {"argv", "config", "input", "stdin"}
Turn == {"file", "resolve"}
Writing == {"create", "write", "close", "rename"}
Ended == {"done", "crashed"}
Places == Before \cup Turn \cup {"format"} \cup Writing \cup Ended

Opt == [given : BOOLEAN, val : {""} \cup STRING]
Options_ == [useStdin : BOOLEAN, inPlace : BOOLEAN, checkMode : BOOLEAN,
             rangeArg : Opt, configPath : Opt, inputs : Seq(Positional)]

OnFiles(f) == f = [p \in Files |-> f[p]]
IsSeq(s) == s \in Seq({s[n] : n \in DOMAIN s})

Typed ==
    /\ argv \in Seq(STRING)
    /\ i \in Nat \ {0}
    /\ opts \in Options_
    /\ pc \in Places
    /\ k \in Nat \ {0}
    /\ aggregateExit \in {0, 1}
    /\ OnFiles(fs) /\ OnFiles(fs0)
    /\ IsSeq(printed)

\* Nothing has happened yet.
Untouched == fs = fs0 /\ printed = <<>>

Flow ==
    /\ pc \in Before => k = 1 /\ aggregateExit = 0 /\ Untouched
    /\ pc \in Turn /\ k = 1 => Untouched
    /\ pc \notin {"argv"} \cup Ended =>
         ~Conflicting(opts) /\ (range # WholeFile => opts.rangeArg.given)
    /\ pc = "stdin" => opts.useStdin
    /\ pc \in Turn => ~opts.useStdin
    /\ pc \in Writing => opts.inPlace

\* The configuration files are as they were, and the inputs that failed or
\* lost their configuration or their text are among those the loop has met.
Kept ==
    /\ \A p \in ConfigFiles : fs[p] = fs0[p]
    /\ k <= Len(opts.inputs) + 1
    /\ faulted \subseteq 1 .. k - 1
    /\ cfgLost \subseteq 1 .. k
    /\ pc \in Before \cup Turn => cfgLost \subseteq 1 .. k - 1
    /\ unflushed \subseteq 1 .. k
    /\ pc \notin {"rename"} \cup Ended => unflushed \subseteq 1 .. k - 1

\* The input the loop is at: its text, its configuration, its formatting.
OnFile == pc \in {"resolve", "format"} \cup Writing /\ ~opts.useStdin

Current ==
    /\ OnFile => k <= Len(opts.inputs) /\ content = fs[Input] /\ content # NoFile
    /\ OnFile /\ pc # "resolve" =>
         Conf(k).status = "Success" /\ fileCfg = Conf(k).cfg
    /\ pc \in Writing =>
         /\ FormatBuffer(content, fileCfg, range).status = "Success"
         /\ FormatBuffer(content, fileCfg, range).formattedText = formatted
    /\ pc \in {"write", "close"} => fs[Temp(Input)] = Torn
    /\ pc = "rename" => fs[Temp(Input)] = IF k \in unflushed THEN Torn ELSE formatted

State == Typed /\ Flow /\ Kept /\ Current
-----------------------------------------------------------------------------
\* Names and options.

LEMMA FileNames ==
    ASSUME NEW p \in Positional
    PROVE  /\ p \in Files /\ Temp(p) \in Files /\ p # Temp(p)
           /\ \A q \in UserFiles : q \in Files /\ q # Temp(p)
           /\ \A q \in ConfigFiles : q \in Files /\ q # p /\ q # Temp(p)
           /\ \A q \in Positional : q # p => Temp(q) # Temp(p)
  BY FilesAssumption DEF Files, UserFiles

LEMMA InputNames ==
    ASSUME Typed
    PROVE  /\ Len(opts.inputs) \in Nat
           /\ \A j \in 1 .. Len(opts.inputs) : opts.inputs[j] \in Positional
           /\ opts.inputs = <<>> <=> Len(opts.inputs) = 0
  BY DEF Typed, Options_

LEMMA NoOptions == None \in Opt /\ <<>> \in Seq(Positional)
<1>1. None \in Opt
  BY DEF None, Opt
<1> QED
  BY <1>1

LEMMA GivenTyped ==
    ASSUME NEW o \in Options_, NEW t \in STRING
    PROVE  /\ [o EXCEPT !.configPath = Given(t)] \in Options_
           /\ [o EXCEPT !.rangeArg = Given(t)] \in Options_
<1>1. Given(t) \in Opt
  BY ZenonT(60) DEF Given, Opt
<1> HIDE DEF Given
<1>2. [o EXCEPT !.configPath = Given(t)] \in Options_
  BY <1>1 DEF Options_
<1>3. [o EXCEPT !.rangeArg = Given(t)] \in Options_
  BY <1>1 DEF Options_
<1> QED
  BY <1>2, <1>3

LEMMA FlagTyped ==
    ASSUME NEW o \in Options_, NEW a \in Flags
    PROVE  Flag(a, o) \in Options_
<1>1. /\ [o EXCEPT !.useStdin = TRUE] \in Options_
      /\ [o EXCEPT !.inPlace = TRUE] \in Options_
      /\ [o EXCEPT !.checkMode = TRUE] \in Options_
  BY ZenonT(60) DEF Options_
<1>2. a \in Positional => [o EXCEPT !.inputs = Append(@, a)] \in Options_
  BY DEF Options_
<1>3. a \in DOMAIN ConfigEq => ConfigEq[a] \in STRING
  BY FilesAssumption
<1>4. a \in DOMAIN RangeEq => RangeEq[a] \in STRING
  BY FilesAssumption
<1>5. a \in DOMAIN ConfigEq => [o EXCEPT !.configPath = Given(ConfigEq[a])] \in Options_
  BY <1>3, GivenTyped, ZenonT(60)
<1>6. a \in DOMAIN RangeEq => [o EXCEPT !.rangeArg = Given(RangeEq[a])] \in Options_
  BY <1>4, GivenTyped, ZenonT(60)
<1> QED
  BY <1>1, <1>2, <1>5, <1>6, ZenonT(60) DEF Flag, Flags

LEMMA Appended ==
    ASSUME NEW s, NEW e, IsSeq(s)
    PROVE  /\ IsSeq(Append(s, e))
           /\ Len(s) \in Nat
           /\ Len(Append(s, e)) = Len(s) + 1
           /\ Append(s, e)[Len(s) + 1] = e
           /\ \A n \in 1 .. Len(s) : Append(s, e)[n] = s[n]
<1> DEFINE S == {s[n] : n \in DOMAIN s} \cup {e}
<1>1. s \in Seq(S)
  BY DEF IsSeq
<1>2. Append(s, e) \in Seq(S) /\ DOMAIN s = 1 .. Len(s)
  BY <1>1
<1>3. /\ Len(s) \in Nat /\ Len(Append(s, e)) = Len(s) + 1
      /\ Append(s, e)[Len(s) + 1] = e
      /\ \A n \in 1 .. Len(s) : Append(s, e)[n] = s[n]
  BY <1>1
<1>4. IsSeq(Append(s, e))
  BY <1>2 DEF IsSeq
<1> QED
  BY <1>3, <1>4

LEMMA StillSeq ==
    ASSUME NEW s, NEW t, IsSeq(s), t = s \/ \E e : t = Append(s, e)
    PROVE  IsSeq(t)
<1>1. CASE t = s
  BY <1>1
<1>2. CASE \E e : t = Append(s, e)
  <2>1. PICK e : t = Append(s, e)
    BY <1>2
  <2>2. IsSeq(Append(s, e))
    BY Appended
  <2> QED
    BY <2>1, <2>2, ZenonT(60)
<1> QED
  BY <1>1, <1>2

\* Writing a file and renaming one.
LEMMA Put ==
    ASSUME NEW f, OnFiles(f), NEW q \in Files, NEW t
    PROVE  /\ OnFiles([f EXCEPT ![q] = t])
           /\ [f EXCEPT ![q] = t][q] = t
           /\ \A p \in Files : p # q => [f EXCEPT ![q] = t][p] = f[p]
<1>1. DOMAIN f = Files
  BY DEF OnFiles
<1> QED
  BY <1>1 DEF OnFiles

Renamed(f, q, p) == [f EXCEPT ![p] = f[q], ![q] = NoFile]

LEMMA Moved ==
    ASSUME NEW f, OnFiles(f), NEW p \in Files, NEW q \in Files, p # q
    PROVE  /\ OnFiles(Renamed(f, q, p))
           /\ Renamed(f, q, p)[p] = f[q] /\ Renamed(f, q, p)[q] = NoFile
           /\ \A r \in Files : r # p /\ r # q => Renamed(f, q, p)[r] = f[r]
<1> DEFINE h == [f EXCEPT ![p] = f[q]]
<1>1. OnFiles(h) /\ h[p] = f[q] /\ \A r \in Files : r # p => h[r] = f[r]
  BY Put
<1>2. Renamed(f, q, p) = [h EXCEPT ![q] = NoFile]
  BY DEF Renamed
<1> HIDE DEF h
<1>3. /\ OnFiles([h EXCEPT ![q] = NoFile])
      /\ [h EXCEPT ![q] = NoFile][q] = NoFile
      /\ \A r \in Files : r # q => [h EXCEPT ![q] = NoFile][r] = h[r]
  BY <1>1, Put
<1>4. /\ OnFiles(Renamed(f, q, p)) /\ Renamed(f, q, p)[q] = NoFile
      /\ \A r \in Files : r # q => Renamed(f, q, p)[r] = h[r]
  BY <1>2, <1>3, ZenonT(60)
<1> QED
  BY <1>1, <1>4


LEMMA JustPut ==
    ASSUME NEW f, OnFiles(f), NEW q \in Files, NEW t, NEW g, g = [f EXCEPT ![q] = t]
    PROVE  g[q] = t
<1>1. DOMAIN f = Files
  BY DEF OnFiles
<1> QED
  BY <1>1

\* The disk after a step that may write a file or rename one.
LEMMA AfterPut ==
    ASSUME NEW f, OnFiles(f), NEW q \in Files, NEW g,
           g = f \/ \E t : g = [f EXCEPT ![q] = t]
    PROVE  OnFiles(g) /\ \A p \in Files : p # q => g[p] = f[p]
<1>1. CASE g = f
  BY <1>1, ZenonT(60)
<1>2. CASE \E t : g = [f EXCEPT ![q] = t]
  <2>1. PICK t : g = [f EXCEPT ![q] = t]
    BY <1>2, ZenonT(60)
  <2>2. /\ OnFiles([f EXCEPT ![q] = t])
        /\ \A p \in Files : p # q => [f EXCEPT ![q] = t][p] = f[p]
    BY Put
  <2> QED
    BY <2>1, <2>2, ZenonT(60)
<1> QED
  BY <1>1, <1>2

LEMMA AfterRename ==
    ASSUME NEW f, OnFiles(f), NEW p \in Files, NEW q \in Files, p # q, NEW g,
           g = Renamed(f, q, p)
    PROVE  /\ OnFiles(g) /\ g[p] = f[q] /\ g[q] = NoFile
           /\ \A r \in Files : r # p /\ r # q => g[r] = f[r]
<1>1. /\ OnFiles(Renamed(f, q, p))
      /\ Renamed(f, q, p)[p] = f[q] /\ Renamed(f, q, p)[q] = NoFile
      /\ \A r \in Files : r # p /\ r # q => Renamed(f, q, p)[r] = f[r]
  BY Moved
<1> QED
  BY <1>1, ZenonT(60)
-----------------------------------------------------------------------------
\* The invariant of main's variables.

LEMMA AtFile ==
    ASSUME State, pc \in {"resolve"} \cup Writing
    PROVE  /\ OnFile /\ k \in 1 .. Len(opts.inputs)
           /\ Input \in Positional /\ fs[Input] = content
           /\ ~opts.useStdin
           /\ pc \in Writing => opts.inPlace /\ ~opts.checkMode
<1>1. ~opts.useStdin /\ (pc \in Writing => opts.inPlace /\ ~opts.checkMode)
  BY DEF State, Typed, Flow, Conflicting, Writing, Turn, Ended, Options_
<1>2. OnFile
  BY <1>1 DEF OnFile
<1>3. k \in 1 .. Len(opts.inputs) /\ fs[Input] = content
  BY <1>2, InputNames DEF State, Typed, Current
<1> QED
  BY <1>1, <1>2, <1>3, InputNames DEF State, Input

LEMMA TypedInit == Init => Typed
<1> SUFFICES ASSUME Init PROVE Typed
  OBVIOUS
<1>1. argv \in Seq(STRING) /\ OnFiles(fs0)
  BY FilesAssumption DEF Init, OnFiles
<1>2. opts \in Options_
  BY NoOptions DEF Init, Options_
<1>3. IsSeq(printed)
  BY DEF Init, IsSeq
<1> QED
  BY <1>1, <1>2, <1>3 DEF Init, Typed, Places, Before

\* Before the first argument nothing has been done, and no input is current.
LEMMA StartInit == Init => Flow /\ Kept /\ Current
<1> SUFFICES ASSUME Init PROVE Flow /\ Kept /\ Current
  OBVIOUS
<1>1. /\ pc = "argv" /\ k = 1 /\ aggregateExit = 0 /\ fs = fs0 /\ printed = <<>>
      /\ opts.inputs = <<>> /\ faulted = {} /\ cfgLost = {} /\ unflushed = {}
  BY DEF Init
<1>2. Untouched
  BY DEF Init, Untouched
<1>3. Flow
  BY <1>1, <1>2 DEF Flow, Before, Turn, Writing, Ended
<1>4. Kept
  BY <1>1 DEF Kept
<1>5. Current
  BY <1>1 DEF Current, OnFile, Writing
<1> QED
  BY <1>3, <1>4, <1>5

\* The invariant is about the state alone.
LEMMA StateStutters == ASSUME State, UNCHANGED vars PROVE State'
<1>1. Typed' /\ Flow' /\ Kept'
  BY DEF vars, State, Typed, Flow, Untouched, Kept
<1>2. Conf(k)' = Conf(k)
  BY DEF vars, Conf, Resolved
<1>3. Current'
  BY <1>2, ZenonT(60) DEF vars, State, Current, OnFile, Input
<1> QED
  BY <1>1, <1>3 DEF State

\* Where main is when each of its steps is taken.
LEMMA Sites ==
    ASSUME Next
    PROVE  /\ pc \in Before => \/ ParseArg \/ CheckArgs \/ LoadConfig \/ ChooseInput
                               \/ ReadStdin \/ Crash
           /\ pc \in Writing => Create \/ Write \/ Close \/ Rename \/ Crash
           /\ pc \notin Before \cup Writing =>
                \/ ReadFile \/ ResolveConfig \/ Process \/ Finish \/ Crash
           /\ pc \notin Ended
<1>1. ParseArg \/ CheckArgs => pc = "argv"
  BY DEF ParseArg, CheckArgs
<1>2. (LoadConfig => pc = "config") /\ (ChooseInput => pc = "input")
      /\ (ReadStdin => pc = "stdin")
  BY DEF LoadConfig, ChooseInput, ReadStdin
<1>3. /\ ReadFile => pc = "file"
      /\ ResolveConfig => pc = "resolve"
      /\ Process => pc = "format"
      /\ Finish => pc = "file"
  BY DEF ReadFile, ResolveConfig, Process, Finish
<1>4. Create \/ Write \/ Close \/ Rename => pc \in Writing
  BY DEF Create, Write, Close, Rename, Writing
<1>5. Crash => pc \notin Ended
  BY DEF Crash, Ended
<1> QED
  BY <1>1, <1>2, <1>3, <1>4, <1>5 DEF Next, Step, Before, Writing, Ended

\* The steps of ParseArg.
LEMMA TypedArgs ==
    ASSUME Typed, ParseArg
    PROVE  /\ i' \in Nat \ {0} /\ opts' \in Options_ /\ IsSeq(printed')
           /\ pc' \in {"argv", "done"}
<1>1. argv[i] \in STRING /\ (i < Len(argv) => argv[i + 1] \in STRING)
  BY DEF Typed, ParseArg
<1> DEFINE Banner == \E e : printed' = Append(printed, e)
           Stops == opts' = opts /\ i' = i /\ pc' = "done" /\ (printed' = printed \/ Banner)
           Stays == printed' = printed /\ pc' = "argv"
           Value == /\ i < Len(argv) /\ i' = i + 2 /\ Stays
                    /\ \/ opts' = [opts EXCEPT !.configPath = Given(argv[i + 1])]
                       \/ opts' = [opts EXCEPT !.rangeArg = Given(argv[i + 1])]
           Plain == argv[i] \in Flags /\ opts' = Flag(argv[i], opts) /\ i' = i + 1 /\ Stays
<1>2. Stops \/ Value \/ Plain
  BY ZenonT(60) DEF ParseArg, Exit
<1>3. CASE Stops
  <2>1. IsSeq(printed')
    BY <1>3, StillSeq DEF Typed
  <2> QED
    BY <1>3, <2>1 DEF Typed
<1>4. CASE Value
  <2>1. opts' \in Options_
    BY <1>1, <1>4, GivenTyped, ZenonT(60) DEF Typed
  <2> QED
    BY <1>4, <2>1 DEF Typed
<1>5. CASE Plain
  <2>1. opts' \in Options_
    BY <1>5, FlagTyped, ZenonT(60) DEF Typed
  <2> QED
    BY <1>5, <2>1 DEF Typed
<1> QED
  BY <1>2, <1>3, <1>4, <1>5

LEMMA TypedStep == ASSUME State, Next PROVE Typed'
<1>0. Typed
  BY DEF State
<1>1. CASE ParseArg
  BY <1>0, <1>1, TypedArgs DEF ParseArg, Loop, Typed, Places, Before, Ended
<1>2. CASE CheckArgs \/ LoadConfig \/ ChooseInput \/ ReadStdin \/ Finish \/ Crash
  BY <1>0, <1>2 DEF CheckArgs, LoadConfig, ChooseInput, ReadStdin, Finish, Crash, Exit,
                    Loop, World, Typed, Places, Before, Turn, Ended
<1>3. CASE ReadFile \/ ResolveConfig \/ Write
  BY <1>0, <1>3 DEF ReadFile, ResolveConfig, Write, Fails, Goes, NextFile, Exit,
                    World, Typed, Places, Turn, Writing, Ended
<1>4. CASE Process
  <2>1. printed' = printed \/ \E e : printed' = Append(printed, e)
    BY <1>4 DEF Process, Say
  <2>2. IsSeq(printed')
    BY <1>0, <2>1, StillSeq DEF Typed
  <2> QED
    BY <1>0, <1>4, <2>2 DEF Process, Return, NextFile, Exit, Typed, Places, Turn,
                            Writing, Ended
<1>5. CASE Create \/ Close
  <2>1. Temp(Input) \in Files
    BY <1>5, AtFile, FileNames DEF Create, Close, Writing
  <2>2. fs' = fs \/ \E t : fs' = [fs EXCEPT ![Temp(Input)] = t]
    BY <1>5 DEF Create, Close
  <2>3. OnFiles(fs')
    BY <1>0, <2>1, <2>2, AfterPut DEF Typed
  <2> QED
    BY <1>0, <1>5, <2>3 DEF Create, Close, Fails, Goes, NextFile, Typed,
                            Places, Turn, Writing
<1>6. CASE Rename
  <2>1. Input \in Files /\ Temp(Input) \in Files /\ Input # Temp(Input)
    BY <1>6, AtFile, FileNames DEF Rename, Writing
  <2>2. fs' = fs \/ fs' = Renamed(fs, Temp(Input), Input)
    BY <1>6 DEF Rename, Renamed
  <2>3. OnFiles(fs')
    BY <1>0, <2>1, <2>2, AfterRename, ZenonT(60) DEF Typed
  <2> QED
    BY <1>0, <1>6, <2>3 DEF Rename, Fails, NextFile, Typed, Places, Turn
<1> QED
  BY <1>1, <1>2, <1>3, <1>4, <1>5, <1>6 DEF Next, Step

LEMMA FlowStep == ASSUME State, Next PROVE Flow'
<1>0. Typed /\ Flow
  BY DEF State
<1>1. CASE ParseArg
  <2>1. pc' \in {"argv", "done"} /\ pc = "argv"
    BY <1>0, <1>1, TypedArgs DEF ParseArg
  <2>2. /\ k' = k /\ aggregateExit' = aggregateExit /\ fs' = fs /\ fs0' = fs0
        /\ pc' = "argv" => printed' = printed
    BY <1>1 DEF ParseArg, Exit, Loop
  <2> QED
    BY <1>0, <2>1, <2>2 DEF Flow, Untouched, Before, Turn, Writing, Ended
<1>2. CASE CheckArgs
  BY <1>0, <1>2 DEF CheckArgs, Exit, Loop, World, Flow, Untouched, Before, Turn,
                    Writing, Ended
<1>3. CASE LoadConfig
  BY <1>0, <1>3 DEF LoadConfig, Exit, Loop, World, Flow, Untouched, Before, Turn,
                    Writing, Ended
<1>4. CASE ChooseInput
  BY <1>0, <1>4 DEF ChooseInput, Exit, Loop, World, Flow, Untouched, Before, Turn,
                    Writing, Ended
<1>5. CASE ReadStdin
  BY <1>0, <1>5 DEF ReadStdin, Exit, World, Flow, Untouched, Before, Turn, Writing,
                    Ended
<1>6. CASE ReadFile
  BY <1>0, <1>6 DEF ReadFile, NextFile, World, Typed, Flow, Untouched, Before, Turn,
                    Writing, Ended
<1>7. CASE ResolveConfig
  BY <1>0, <1>7 DEF ResolveConfig, NextFile, Exit, World, Typed, Flow, Untouched,
                    Before, Turn, Writing, Ended
<1>8. CASE Process
  <2>1. /\ pc' \in {"file", "create", "done"} /\ opts' = opts /\ range' = range
        /\ pc' = "create" => opts.inPlace
        /\ pc' = "file" => ~opts.useStdin /\ k' = k + 1
    BY <1>8 DEF Process, Return, NextFile, Exit
  <2> QED
    BY <1>0, <1>8, <2>1 DEF Process, Typed, Flow, Before, Turn, Writing, Ended
<1>9. CASE Create \/ Write \/ Close \/ Rename
  <2>1. /\ pc \in Writing /\ opts' = opts /\ range' = range
        /\ pc' \in {"file", "write", "close", "rename"}
        /\ pc' = "file" => k' = k + 1
    BY <1>9 DEF Create, Write, Close, Rename, Fails, Goes, NextFile, Writing
  <2>2. ~opts.useStdin
    BY <2>1, AtFile
  <2> QED
    BY <1>0, <2>1, <2>2 DEF Typed, Flow, Before, Turn, Writing, Ended
<1>10. CASE Finish \/ Crash
  BY <1>10 DEF Finish, Crash, Exit, Flow, Before, Turn, Writing, Ended
<1> QED
  BY <1>1, <1>2, <1>3, <1>4, <1>5, <1>6, <1>7, <1>8, <1>9, <1>10 DEF Next, Step

\* What a step does to the disk: nothing, except in the calls that write.
LEMMA DiskStep ==
    ASSUME State, Next
    PROVE  /\ fs0' = fs0
           /\ \/ fs' = fs
              \/ /\ Create \/ Close
                 /\ \A p \in Files : p # Temp(Input) => fs'[p] = fs[p]
              \/ /\ Rename /\ fs'[Input] = fs[Temp(Input)] /\ fs'[Temp(Input)] = NoFile
                 /\ \A p \in Files : p # Input /\ p # Temp(Input) => fs'[p] = fs[p]
<1>0. Typed
  BY DEF State
<1>1. CASE ParseArg \/ CheckArgs \/ LoadConfig \/ ChooseInput \/ ReadStdin
  BY <1>1 DEF ParseArg, CheckArgs, LoadConfig, ChooseInput, ReadStdin, World
<1>2. CASE ReadFile \/ ResolveConfig \/ Process \/ Write \/ Finish \/ Crash
  BY <1>2 DEF ReadFile, ResolveConfig, Process, Write, Finish, Crash, World
<1>3. CASE Create \/ Close
  <2>1. Temp(Input) \in Files
    BY <1>3, AtFile, FileNames DEF Create, Close, Writing
  <2>2. fs0' = fs0 /\ (fs' = fs \/ \E t : fs' = [fs EXCEPT ![Temp(Input)] = t])
    BY <1>3 DEF Create, Close
  <2>3. fs' = fs \/ \A p \in Files : p # Temp(Input) => fs'[p] = fs[p]
    BY <1>0, <2>1, <2>2, AfterPut DEF Typed
  <2> QED
    BY <1>3, <2>2, <2>3
<1>4. CASE Rename
  <2>1. Input \in Files /\ Temp(Input) \in Files /\ Input # Temp(Input)
    BY <1>4, AtFile, FileNames DEF Rename, Writing
  <2>2. fs0' = fs0 /\ (fs' = fs \/ fs' = Renamed(fs, Temp(Input), Input))
    BY <1>4 DEF Rename, Renamed
  <2>3. \/ fs' = fs
        \/ /\ fs'[Input] = fs[Temp(Input)] /\ fs'[Temp(Input)] = NoFile
           /\ \A p \in Files : p # Input /\ p # Temp(Input) => fs'[p] = fs[p]
    <3>1. CASE fs' = Renamed(fs, Temp(Input), Input)
      BY <1>0, <2>1, <3>1, AfterRename DEF Typed
    <3> QED
      BY <2>2, <3>1
  <2> QED
    BY <1>4, <2>2, <2>3
<1> QED
  BY <1>1, <1>2, <1>3, <1>4 DEF Next, Step

LEMMA EarlyStep ==
    ASSUME State, Next, pc \in Before
    PROVE  /\ k = 1 /\ k' = k /\ aggregateExit = 0 /\ aggregateExit' = aggregateExit
           /\ fs = fs0 /\ fs' = fs /\ fs0' = fs0
           /\ faulted' = faulted /\ cfgLost' = cfgLost /\ unflushed' = unflushed
           /\ pc' \notin {"resolve"} \cup Writing
           /\ pc' = "format" => pc = "stdin" /\ opts' = opts
<1>1. k = 1 /\ aggregateExit = 0 /\ fs = fs0
  BY DEF State, Flow, Untouched
<1>2. CASE ParseArg
  <2>1. pc' \in {"argv", "done"}
    BY <1>2, TypedArgs DEF State
  <2> QED
    BY <1>1, <1>2, <2>1 DEF ParseArg, Loop, Writing
<1>3. CASE CheckArgs \/ LoadConfig \/ ChooseInput
  BY <1>1, <1>3 DEF CheckArgs, LoadConfig, ChooseInput, Exit, Loop, World, Writing
<1>4. CASE ReadStdin \/ Crash
  BY <1>1, <1>4 DEF ReadStdin, Crash, Exit, Loop, World, Writing
<1> QED
  BY <1>2, <1>3, <1>4, Sites

\* The choices of the command line stand.
Fixed == opts' = opts /\ range' = range /\ cfg' = cfg /\ fs0' = fs0

\* A step of the loop goes on to the next input or stays with this one.
Advances == /\ k' = k + 1
            /\ faulted' \subseteq faulted \cup {k} /\ faulted \subseteq faulted'
            /\ cfgLost' \in {cfgLost, cfgLost \cup {k}}
            /\ unflushed' = unflushed
            /\ pc' = "file"

Remains == /\ k' = k /\ faulted' = faulted /\ aggregateExit' = aggregateExit
           /\ cfgLost' \in {cfgLost, cfgLost \cup {k}}
           /\ unflushed' \in {unflushed, unflushed \cup {k}}
           /\ pc' \in Before \cup Turn => pc \in Turn /\ cfgLost' = cfgLost
           /\ pc' \notin {"rename"} \cup Ended =>
                pc \notin {"rename"} \cup Ended /\ unflushed' = unflushed

LEMMA LateStep ==
    ASSUME State, Next, pc \notin Before
    PROVE  /\ Fixed
           /\ Advances \/ Remains
           /\ k' = k + 1 => k <= Len(opts.inputs)
           /\ printed' = printed \/ \E e : printed' = Append(printed, e)
<1>0. k \in Nat
  BY DEF State, Typed
<1>1. CASE ReadFile
  BY <1>0, <1>1 DEF ReadFile, NextFile, World, Fixed, Advances, Remains, Turn, Before,
                    Ended
<1>2. CASE ResolveConfig
  <2>1. k <= Len(opts.inputs)
    BY <1>2, AtFile DEF ResolveConfig
  <2> QED
    BY <1>0, <1>2, <2>1 DEF ResolveConfig, NextFile, Exit, World, Fixed, Advances,
                            Remains, Turn, Before, Ended
<1>3. CASE Process
  <2>1. k' = k + 1 => ~opts.useStdin
    BY <1>0, <1>3 DEF Process, Return
  <2>2. k' = k + 1 => k <= Len(opts.inputs)
    BY <1>3, <2>1 DEF Process, State, Current, OnFile
  <2>3. Fixed /\ (printed' = printed \/ \E e : printed' = Append(printed, e))
    BY <1>3 DEF Process, Say, Fixed
  <2>4. Advances \/ Remains
    BY <1>0, <1>3 DEF Process, Return, NextFile, Exit, Advances, Remains, Turn, Before,
                      Ended
  <2> QED
    BY <2>2, <2>3, <2>4
<1>4. CASE Create \/ Write \/ Close \/ Rename
  <2>1. k <= Len(opts.inputs)
    BY <1>4, AtFile DEF Create, Write, Close, Rename, Writing
  <2>2. Fixed /\ printed' = printed
    BY <1>4 DEF Create, Write, Close, Rename, World, Fixed
  <2>3. Advances \/ Remains
    BY <1>0, <1>4 DEF Create, Write, Close, Rename, Fails, Goes, NextFile, Advances,
                      Remains, Turn, Before, Ended
  <2> QED
    BY <2>1, <2>2, <2>3
<1>5. CASE Finish \/ Crash
  BY <1>0, <1>5 DEF Finish, Crash, Exit, World, Loop, Fixed, Remains, Turn, Before, Ended
<1> QED
  BY <1>1, <1>2, <1>3, <1>4, <1>5, Sites

LEMMA KeptStep == ASSUME State, Next PROVE Kept'
<1>0. Typed /\ Flow /\ Kept
  BY DEF State
<1>1. \A p \in ConfigFiles : fs'[p] = fs0'[p]
  <2> SUFFICES ASSUME NEW p \in ConfigFiles PROVE fs'[p] = fs[p]
    BY <1>0, DiskStep DEF Kept
  <2>1. CASE fs' = fs
    BY <2>1
  <2>2. CASE fs' # fs
    <3>1. pc \in Writing /\ (Create \/ Close \/ Rename)
      BY <2>2, DiskStep DEF Create, Close, Rename, Writing
    <3>2. p \in Files /\ p # Input /\ p # Temp(Input)
      BY <3>1, AtFile, FileNames
    <3> QED
      BY <2>2, <3>2, DiskStep
  <2> QED
    BY <2>1, <2>2
<1>2. CASE pc \in Before
  <2>1. k = 1 /\ k' = k /\ faulted' = faulted /\ cfgLost' = cfgLost /\ unflushed' = unflushed
    BY <1>0, <1>2, EarlyStep
  <2>2. Len(opts.inputs') \in Nat
    BY TypedStep DEF Typed, Options_
  <2> QED
    BY <1>0, <1>1, <1>2, <2>1, <2>2 DEF Kept, Before, Ended
<1>3. CASE pc \notin Before
  <2>1. k \in Nat \ {0} /\ Len(opts.inputs) \in Nat /\ opts' = opts
    BY <1>0, <1>3, InputNames, LateStep DEF Typed, Fixed
  <2>2. CASE Advances
    <3>1. k <= Len(opts.inputs)
      BY <1>3, <2>2, LateStep DEF Advances
    <3>2. faulted' \subseteq 1 .. k /\ cfgLost' \subseteq 1 .. k /\ unflushed' \subseteq 1 .. k
      BY <1>0, <2>1, <2>2 DEF Advances, Kept
    <3> QED
      BY <1>1, <2>1, <2>2, <3>1, <3>2 DEF Kept, Advances
  <2>3. CASE Remains
    <3>1. cfgLost' \subseteq 1 .. k /\ unflushed' \subseteq 1 .. k
      BY <1>0, <2>1, <2>3 DEF Remains, Kept
    <3>2. pc' \in Before \cup Turn => cfgLost' \subseteq 1 .. k - 1
      BY <1>0, <2>1, <2>3 DEF Remains, Kept
    <3>3. pc' \notin {"rename"} \cup Ended => unflushed' \subseteq 1 .. k - 1
      BY <1>0, <2>1, <2>3 DEF Remains, Kept
    <3> QED
      BY <1>0, <1>1, <2>1, <2>3, <3>1, <3>2, <3>3 DEF Kept, Remains
  <2> QED
    BY <1>3, <2>2, <2>3, LateStep
<1> QED
  BY <1>2, <1>3
-----------------------------------------------------------------------------
\* The configuration of an input is the same on the disk of now as on that of
\* the start.

LEMMA SameConfig ==
    ASSUME Kept, NEW p \in Positional, NEW lost \in BOOLEAN
    PROVE  Resolved(fs, p, lost) = Resolved(fs0, p, lost)
<1>1. \A n \in 1 .. Len(Ancestors(p)) : Ancestors(p)[n] \in ConfigFiles
  BY FilesAssumption
<1>2. Above(fs, p) = Above(fs0, p)
  BY <1>1 DEF Above, Kept
<1>3. discover_config(fs, p) = discover_config(fs0, p)
  BY <1>2, ZenonT(60) DEF discover_config
<1> QED
  BY <1>3, ZenonT(60) DEF Resolved

LEMMA ConfNow ==
    ASSUME Fixed, k' = k, cfgLost' = cfgLost
    PROVE  Conf(k)' = Conf(k)
  BY DEF Fixed, Conf, Resolved

LEMMA CurrentStep == ASSUME State, Next PROVE Current'
<1>0. Typed /\ Flow /\ Kept /\ Current
  BY DEF State
<1>1. CASE pc' \notin {"resolve", "format"} \cup Writing
  BY <1>1 DEF Current, OnFile, Writing
<1>2. CASE pc \in Before
  <2>1. pc' \notin {"resolve"} \cup Writing /\ (pc' = "format" => pc = "stdin" /\ opts' = opts)
    BY <1>2, EarlyStep
  <2>2. ~OnFile'
    BY <1>0, <2>1 DEF OnFile, Flow
  <2> QED
    BY <2>1, <2>2 DEF Current, Writing
<1>3. CASE ReadFile
  <2>1. pc' = "resolve" => /\ k' = k /\ opts' = opts /\ fs' = fs /\ k <= Len(opts.inputs)
                           /\ content' = fs[Input] /\ content' # NoFile
    BY <1>3 DEF ReadFile, NextFile, World
  <2>2. pc' \in {"file", "resolve"}
    BY <1>3 DEF ReadFile, NextFile
  <2> QED
    BY <2>1, <2>2 DEF Current, OnFile, Input, Writing
<1>4. CASE ResolveConfig /\ pc' = "format"
  <2>1. PICK lost \in BOOLEAN :
           /\ fileCfg' = Resolved(fs, Input, lost).cfg
           /\ Resolved(fs, Input, lost).status = "Success"
           /\ cfgLost' = IF lost THEN cfgLost \cup {k} ELSE cfgLost
    BY <1>4 DEF ResolveConfig, NextFile, Exit
  <2>2. Fixed /\ k' = k /\ fs' = fs /\ content' = content /\ pc = "resolve"
    BY <1>4 DEF ResolveConfig, NextFile, Exit, World, Fixed
  <2>3. Input \in Positional /\ k <= Len(opts.inputs) /\ content = fs[Input] /\ content # NoFile
    BY <1>0, <2>2, AtFile DEF Current
  <2>4. lost <=> k' \in cfgLost'
    BY <1>0, <2>1, <2>2 DEF Kept, Turn, Typed
  <2>5. Resolved(fs, Input, lost) = Resolved(fs0, Input, lost)
    BY <1>0, <2>3, SameConfig
  <2>6. Conf(k)' = Resolved(fs0, Input, lost)
    BY <2>2, <2>4 DEF Conf, Fixed, Input, Resolved
  <2> QED
    BY <1>4, <2>1, <2>2, <2>3, <2>5, <2>6 DEF Current, OnFile, Input, Fixed, Writing
<1>5. CASE Process /\ pc' = "create"
  <2>1. /\ Fixed /\ k' = k /\ fs' = fs /\ content' = content /\ fileCfg' = fileCfg
        /\ cfgLost' = cfgLost /\ pc = "format"
        /\ FormatBuffer(content, fileCfg, range).status = "Success"
        /\ FormatBuffer(content, fileCfg, range).formattedText = formatted'
    BY <1>5 DEF Process, Return, NextFile, Exit, Fixed
  <2>2. Conf(k)' = Conf(k)
    BY <2>1, ConfNow
  <2>3. OnFile' => OnFile
    BY <2>1 DEF OnFile, Fixed
  <2> QED
    BY <1>0, <1>5, <2>1, <2>2, <2>3 DEF Current, Input, Fixed
<1>6. CASE (Create \/ Write \/ Close) /\ pc' \in Writing
  <2>1. /\ Fixed /\ k' = k /\ content' = content /\ fileCfg' = fileCfg
        /\ formatted' = formatted /\ cfgLost' = cfgLost /\ pc \in Writing
    BY <1>6 DEF Create, Write, Close, Fails, Goes, NextFile, World, Fixed, Writing
  <2>2. Conf(k)' = Conf(k)
    BY <2>1, ConfNow
  <2>3. OnFile /\ Input' = Input /\ Input \in Files /\ Input # Temp(Input)
        /\ Temp(Input) \in Files
    BY <2>1, AtFile, FileNames DEF Fixed, Input
  <2>4. fs'[Input] = fs[Input]
    BY <1>6, <2>3, DiskStep DEF Create, Write, Close, Rename
  <2>d. OnFiles(fs)
    BY <1>0 DEF Typed
  <2>5. /\ pc' \in {"write", "close"} => fs'[Temp(Input)] = Torn
        /\ pc' = "rename" =>
             fs'[Temp(Input)] = IF k \in unflushed' THEN Torn ELSE formatted
    <3>1. CASE Create
      <4>1. pc' = "write" /\ fs' = [fs EXCEPT ![Temp(Input)] = Torn]
        BY <1>6, <3>1 DEF Create, Fails, Goes, NextFile, Writing
      <4>2. fs'[Temp(Input)] = Torn
        BY <2>3, <2>d, <4>1, JustPut
      <4> QED
        BY <4>1, <4>2
    <3>2. CASE Write
      <4>1. pc = "write" /\ pc' = "close" /\ fs' = fs
        BY <1>6, <3>2 DEF Write, Fails, Goes, NextFile, World, Writing
      <4> QED
        BY <1>0, <4>1 DEF Current
    <3>3. CASE Close
      <4>1. pc = "close" /\ pc' = "rename"
        BY <3>3 DEF Close, Goes
      <4>2. CASE fs' = fs /\ unflushed' = unflushed \cup {k}
        BY <1>0, <4>1, <4>2 DEF Current
      <4>3. CASE fs' = [fs EXCEPT ![Temp(Input)] = formatted] /\ unflushed' = unflushed
        <5>1. fs'[Temp(Input)] = formatted
          BY <2>3, <2>d, <4>3, JustPut
        <5>2. k \notin unflushed
          BY <1>0, <4>1 DEF Kept, Typed, Ended
        <5> QED
          BY <4>1, <4>3, <5>1, <5>2
      <4> QED
        BY <3>3, <4>2, <4>3 DEF Close
    <3> QED
      BY <1>6, <3>1, <3>2, <3>3
  <2>6. /\ k <= Len(opts.inputs) /\ content = fs[Input] /\ content # NoFile
        /\ Conf(k).status = "Success" /\ fileCfg = Conf(k).cfg
        /\ FormatBuffer(content, fileCfg, range).status = "Success"
        /\ FormatBuffer(content, fileCfg, range).formattedText = formatted
    BY <1>0, <2>1, <2>3 DEF Current, Writing
  <2> QED
    BY <2>1, <2>2, <2>3, <2>4, <2>5, <2>6 DEF Current, Fixed
<1>7. CASE ResolveConfig /\ pc' # "format"
  BY <1>1, <1>7 DEF ResolveConfig, NextFile, Exit, Writing
<1>8. CASE Process /\ pc' # "create"
  BY <1>1, <1>8 DEF Process, Return, NextFile, Exit, Writing
<1>9. CASE Rename \/ Finish \/ Crash
  BY <1>1, <1>9 DEF Rename, Fails, Finish, Crash, NextFile, Exit, Writing
<1>10. CASE (Create \/ Write \/ Close) /\ pc' \notin Writing
  BY <1>1, <1>10 DEF Create, Write, Close, Fails, Goes, NextFile, Writing
<1> QED
  BY <1>2, <1>3, <1>4, <1>5, <1>6, <1>7, <1>8, <1>9, <1>10, Sites

LEMMA StateInvariant == Spec => []State
<1>1. Init => State
  BY TypedInit, StartInit DEF State
<1>2. State /\ [Next]_vars => State'
  <2> SUFFICES ASSUME State, [Next]_vars PROVE State'
    OBVIOUS
  <2>1. CASE Next
    BY <2>1, TypedStep, FlowStep, KeptStep, CurrentStep DEF State
  <2>2. CASE UNCHANGED vars
    BY <2>2, StateStutters
  <2> QED
    BY <2>1, <2>2
<1> QED
  BY <1>1, <1>2, PTL DEF Spec
==============================================================================
