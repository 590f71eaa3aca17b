----------------------------- MODULE NslFmtProofs -----------------------------
(***************************************************************************)
(* The safety properties of NslFmt, for every formatter, configuration     *)
(* reader, set of files, command line and pattern of failing calls.        *)
(***************************************************************************)
EXTENDS NslFmtInvariant

\* The provers a leaf is given to, one after the other, and their time.
USE SMTT(60), Z3T(60), ZenonT(60)

\* The inputs still to come are as they were.
ToCome == Distinct => \A j \in k .. Len(opts.inputs) : fs[opts.inputs[j]] = Text0(j)

\* The running exit code is that of the inputs dealt with.
Bad(j) == \/ j \in faulted \/ ~Formattable(j)
          \/ opts.checkMode /\ ~Clean(j)
Tally == Distinct => (aggregateExit = IF \E j \in Handled : Bad(j) THEN 1 ELSE 0)
-----------------------------------------------------------------------------
\* The inputs the loop has dealt with.

\* What a step leaves alone of the inputs dealt with.
LEMMA LoopStep ==
    ASSUME State, Next, pc \notin Before
    PROVE  /\ Fixed
           /\ k' = k \/ k' = k + 1
           /\ printed' = printed \/ \E e : printed' = Append(printed, e)
           /\ \A j \in 1 .. k - 1 : /\ j \in cfgLost' <=> j \in cfgLost
                                    /\ j \in faulted' <=> j \in faulted
                                    /\ j \in unflushed' <=> j \in unflushed
           /\ k' = k => aggregateExit' = aggregateExit
<1>0. k \in Nat
  BY DEF State, Typed
<1>1. CASE Advances
  BY <1>0, <1>1, LateStep DEF Advances
<1>2. CASE Remains
  BY <1>0, <1>2, LateStep DEF Remains
<1> QED
  BY <1>1, <1>2, LateStep

\* What is wanted of an input stays the same.
LEMMA WantFixed ==
    ASSUME Fixed, NEW j, j \in cfgLost' <=> j \in cfgLost
    PROVE  /\ Text0(j)' = Text0(j) /\ Conf(j)' = Conf(j) /\ Want(j)' = Want(j)
           /\ Formattable(j)' <=> Formattable(j)
           /\ Clean(j)' <=> Clean(j)
<1>1. Text0(j)' = Text0(j)
  BY DEF Text0, Fixed
<1>2. Conf(j)' = Conf(j)
  BY DEF Conf, Resolved, Fixed
<1>3. Want(j)' = Want(j)
  BY <1>1, <1>2 DEF Want, Fixed
<1>4. Formattable(j)' <=> Formattable(j)
  BY <1>1, <1>2, <1>3 DEF Formattable
<1>5. Clean(j)' <=> Clean(j)
  BY <1>1, <1>3 DEF Clean
<1> QED
  BY <1>1, <1>2, <1>3, <1>4, <1>5

LEMMA StillPrinted ==
    ASSUME Typed, Fixed, NEW j, NEW what, Want(j)' = Want(j), Printed(what, j),
           printed' = printed \/ \E e : printed' = Append(printed, e)
    PROVE  Printed(what, j)'
<1>1. PICK n \in 1 .. Len(printed) :
         printed[n] = [what |-> what, name |-> opts.inputs[j],
                       text |-> Want(j).formattedText]
  BY DEF Printed
<1>2. n \in 1 .. Len(printed') /\ printed'[n] = printed[n]
  BY Appended DEF Typed
<1> QED
  BY <1>1, <1>2 DEF Printed, Fixed

LEMMA JustPrinted ==
    ASSUME Typed, Fixed, NEW j, NEW what, j = k, ~opts.useStdin,
           Say(what, Want(j).formattedText), Want(j)' = Want(j)
    PROVE  Printed(what, j)'
<1>1. printed' = Append(printed, [what |-> what, name |-> opts.inputs[j],
                                  text |-> Want(j).formattedText])
  BY DEF Say, Name, Input
<1>2. /\ Len(printed) + 1 \in 1 .. Len(printed')
      /\ printed'[Len(printed) + 1] = [what |-> what, name |-> opts.inputs[j],
                                       text |-> Want(j).formattedText]
  BY <1>1, Appended DEF Typed
<1> QED
  BY <1>2 DEF Printed, Fixed

\* An input that has been dealt with stays dealt with.
LEMMA PastStep ==
    ASSUME State, Next, pc \notin Before, NEW j \in 1 .. k - 1
    PROVE  /\ Formattable(j)' <=> Formattable(j)
           /\ Bad(j)' <=> Bad(j)
           /\ Distinct /\ Outcome(j) => Outcome(j)'
<1>1. Fixed /\ (j \in cfgLost' <=> j \in cfgLost) /\ (j \in faulted' <=> j \in faulted)
  BY LoopStep
<1>2. /\ Text0(j)' = Text0(j) /\ Want(j)' = Want(j)
      /\ Formattable(j)' <=> Formattable(j)
      /\ Clean(j)' <=> Clean(j)
  BY <1>1, WantFixed
<1>3. Bad(j)' <=> Bad(j)
  BY <1>1, <1>2 DEF Bad, Fixed
<1>4. ASSUME Distinct, Outcome(j)
      PROVE  Outcome(j)'
  <2>1. j \in 1 .. Len(opts.inputs) /\ opts.inputs[j] \in Positional
    BY InputNames DEF State, Typed, Kept
  <2>2. fs'[opts.inputs[j]] = fs[opts.inputs[j]]
    <3>1. CASE fs' = fs
      BY <3>1
    <3>2. CASE fs' # fs
      <4>1. pc \in Writing
        BY <3>2, DiskStep DEF Create, Close, Rename, Writing
      <4>2. k \in 1 .. Len(opts.inputs) /\ Input \in Positional
        BY <4>1, AtFile
      <4>3. opts.inputs[j] # Input
        BY <1>4, <2>1, <4>2 DEF Distinct, Input
      <4>4. opts.inputs[j] \in Files /\ opts.inputs[j] # Temp(Input)
        BY <2>1, <4>2, FileNames DEF UserFiles
      <4> QED
        BY <3>2, <4>3, <4>4, DiskStep
    <3> QED
      BY <3>1, <3>2
  <2>3. \A what : Printed(what, j) => Printed(what, j)'
    BY <1>1, <1>2, LoopStep, StillPrinted DEF State
  <2> QED
    BY <1>1, <1>2, <1>4, <2>2, <2>3 DEF Outcome, Fixed
<1> QED
  BY <1>2, <1>3, <1>4

\* The input the loop is at is the one it was at the start.
LEMMA AtInput ==
    ASSUME State, ToCome, Distinct, OnFile, NEW j, j = k
    PROVE  /\ opts.inputs[j] = Input
           /\ Text0(j) = content /\ Text0(j) # NoFile
           /\ j \notin faulted
           /\ pc # "resolve" => /\ Want(j) = FormatBuffer(content, fileCfg, range)
                                /\ Formattable(j) <=> Want(j).status = "Success"
                                /\ Clean(j) <=> Want(j).formattedText = content
<1>1. k \in 1 .. Len(opts.inputs) /\ content = fs[Input] /\ content # NoFile
  BY InputNames DEF State, Typed, Current
<1>2. opts.inputs[j] = Input
  BY DEF Input
<1>3. Text0(j) = content
  BY <1>1, <1>2, InputNames DEF ToCome, State
<1>4. j \notin faulted
  BY <1>1 DEF State, Kept
<1>5. pc # "resolve" => Conf(j).status = "Success" /\ fileCfg = Conf(j).cfg
  BY DEF State, Current
<1>6. pc # "resolve" => Want(j) = FormatBuffer(content, fileCfg, range)
  BY <1>3, <1>5 DEF Want
<1> QED
  BY <1>1, <1>2, <1>3, <1>4, <1>5, <1>6 DEF Formattable, Clean

\* The input a turn of the loop ends with: it is dealt with, and the exit code
\* knows of it.
EndsWell(j) == Formattable(j) /\ j \notin faulted \cup unflushed => Outcome(j)

LEMMA TurnEnds ==
    ASSUME State, ToCome, Distinct, Next, k' = k + 1, NEW j, j = k
    PROVE  /\ EndsWell(j)'
           /\ aggregateExit' = IF Bad(j)' THEN 1 ELSE aggregateExit
<1>0. Typed /\ k # k + 1
  BY DEF State, Typed
<1>1. pc \notin Before
  BY <1>0, EarlyStep DEF Typed
<1>2. Fixed
  BY <1>1, LoopStep
<1>3. ASSUME j \in faulted', aggregateExit' = 1
      PROVE  EndsWell(j)' /\ Bad(j)'
  BY <1>3 DEF EndsWell, Bad
<1>4. ASSUME ~Formattable(j)', aggregateExit' = 1
      PROVE  EndsWell(j)' /\ Bad(j)'
  BY <1>4 DEF EndsWell, Bad
<1>5. CASE ReadFile
  <2>1. CASE j \in faulted'
    BY <1>3, <1>5, <2>1, <1>0, InputNames DEF ReadFile, NextFile
  <2>2. CASE j \notin faulted'
    <3>1. fs[Input] = NoFile /\ k <= Len(opts.inputs) /\ aggregateExit' = 1
      BY <1>0, <1>5, <2>2 DEF ReadFile, NextFile
    <3>2. fs0[opts.inputs[j]] = NoFile
      BY <1>0, <3>1, InputNames DEF ToCome, Text0, Input, Typed
    <3>3. ~Formattable(j)'
      BY <1>2, <3>2 DEF Formattable, Text0, Fixed
    <3> QED
      BY <1>4, <3>1, <3>3
  <2> QED
    BY <2>1, <2>2
<1>6. CASE ResolveConfig
  <2>1. PICK lost \in BOOLEAN :
           /\ Resolved(fs, Input, lost).status # "Success"
           /\ cfgLost' = IF lost THEN cfgLost \cup {k} ELSE cfgLost
    BY <1>0, <1>6 DEF ResolveConfig, NextFile, Exit
  <2>2. pc = "resolve" /\ aggregateExit' = 1
    BY <1>0, <1>6 DEF ResolveConfig, NextFile, Exit
  <2>3. Input \in Positional
    BY <2>2, AtFile
  <2>4. lost <=> j \in cfgLost'
    BY <1>0, <2>1, <2>2 DEF State, Kept, Turn, Typed
  <2>5. Resolved(fs, Input, lost) = Resolved(fs0, Input, lost)
    BY <2>3, SameConfig DEF State
  <2>6. Conf(j)' = Resolved(fs0, Input, lost)
    BY <1>2, <2>4 DEF Conf, Fixed, Input, Resolved
  <2>7. ~Formattable(j)'
    BY <2>1, <2>5, <2>6 DEF Formattable
  <2> QED
    BY <1>4, <2>2, <2>7
<1>7. CASE Process
  <2>1. /\ pc = "format" /\ ~opts.useStdin /\ cfgLost' = cfgLost /\ faulted' = faulted
        /\ fs' = fs
    BY <1>0, <1>7 DEF Process, Return, Exit
  <2>2. OnFile
    BY <2>1 DEF OnFile
  <2>3. /\ Want(j) = FormatBuffer(content, fileCfg, range)
        /\ Formattable(j) <=> Want(j).status = "Success"
        /\ Clean(j) <=> Want(j).formattedText = content
        /\ j \notin faulted
    BY <2>1, <2>2, AtInput
  <2>4. /\ Want(j)' = Want(j)
        /\ Formattable(j)' <=> Formattable(j)
        /\ Clean(j)' <=> Clean(j)
    BY <1>2, <2>1, WantFixed
  <2>5. CASE Want(j).status # "Success"
    <3>1. aggregateExit' = 1
      BY <1>7, <2>1, <2>3, <2>5 DEF Process, Return, NextFile
    <3> QED
      BY <1>4, <2>3, <2>4, <2>5, <3>1
  <2>6. CASE Want(j).status = "Success" /\ opts.checkMode /\ Clean(j)
    <3>1. aggregateExit' = aggregateExit
      BY <1>7, <2>1, <2>3, <2>6 DEF Process, Return, NextFile
    <3>2. Outcome(j)' /\ ~Bad(j)'
      BY <1>2, <2>1, <2>3, <2>4, <2>6 DEF Outcome, Bad, Fixed
    <3> QED
      BY <3>1, <3>2 DEF EndsWell
  <2>7. CASE Want(j).status = "Success" /\ opts.checkMode /\ ~Clean(j)
    <3>1. aggregateExit' = 1 /\ Say("diff", Want(j).formattedText)
      BY <1>7, <2>1, <2>3, <2>7 DEF Process, Return, NextFile
    <3>2. Printed("diff", j)'
      BY <1>0, <1>2, <2>1, <2>4, <3>1, JustPrinted
    <3>3. Outcome(j)' /\ Bad(j)'
      BY <1>2, <2>4, <2>7, <3>2 DEF Outcome, Bad, Fixed
    <3> QED
      BY <3>1, <3>3 DEF EndsWell
  <2>8. CASE Want(j).status = "Success" /\ ~opts.checkMode
    <3>1. aggregateExit' = aggregateExit /\ ~opts.inPlace /\ Say("text", Want(j).formattedText)
      BY <1>0, <1>7, <2>1, <2>3, <2>8 DEF Process, Return, NextFile
    <3>2. Printed("text", j)'
      BY <1>0, <1>2, <2>1, <2>4, <3>1, JustPrinted
    <3>3. Outcome(j)' /\ ~Bad(j)'
      BY <1>2, <2>1, <2>3, <2>4, <2>8, <3>1, <3>2 DEF Outcome, Bad, Fixed
    <3> QED
      BY <3>1, <3>3 DEF EndsWell
  <2> QED
    BY <2>5, <2>6, <2>7, <2>8
<1>8. CASE Create \/ Write \/ Close \/ Rename
  <2>1. pc \in Writing /\ cfgLost' = cfgLost
    BY <1>8 DEF Create, Write, Close, Rename, Writing
  <2>2. CASE j \in faulted'
    <3>1. j \notin faulted
      BY DEF State, Kept, Typed
    <3>2. aggregateExit' = 1
      BY <1>8, <2>2, <3>1 DEF Create, Write, Close, Rename, Fails, Goes, NextFile
    <3> QED
      BY <1>3, <2>2, <3>2
  <2>3. CASE j \notin faulted'
    <3>1. /\ Rename /\ pc = "rename" /\ aggregateExit' = aggregateExit
          /\ unflushed' = unflushed
          /\ fs' = Renamed(fs, Temp(Input), Input)
      BY <1>0, <1>8, <2>3 DEF Create, Write, Close, Rename, Renamed, Fails, Goes, NextFile
    <3>2. OnFile /\ opts.inPlace /\ ~opts.checkMode /\ Input \in Positional
      BY <2>1, AtFile
    <3>3. /\ opts.inputs[j] = Input /\ Want(j) = FormatBuffer(content, fileCfg, range)
          /\ Formattable(j) <=> Want(j).status = "Success"
      BY <3>1, <3>2, AtInput
    <3>4. /\ FormatBuffer(content, fileCfg, range).status = "Success"
          /\ FormatBuffer(content, fileCfg, range).formattedText = formatted
          /\ j \notin unflushed => fs[Temp(Input)] = formatted
      BY <2>1, <3>1 DEF State, Current
    <3>5. fs'[Input] = fs[Temp(Input)]
      <4>1. Input \in Files /\ Temp(Input) \in Files /\ Input # Temp(Input)
        BY <3>2, FileNames
      <4> QED
        BY <1>0, <3>1, <4>1, AfterRename DEF Typed
    <3>6. /\ Want(j)' = Want(j) /\ (Formattable(j)' <=> Formattable(j))
      BY <1>2, <2>1, WantFixed
    <3>7. ~Bad(j)'
      BY <1>2, <2>3, <3>2, <3>3, <3>4, <3>6 DEF Bad, Fixed
    <3>8. j \notin unflushed' => Outcome(j)'
      BY <1>2, <3>1, <3>2, <3>3, <3>4, <3>5, <3>6 DEF Outcome, Fixed
    <3> QED
      BY <3>1, <3>7, <3>8 DEF EndsWell
  <2> QED
    BY <2>2, <2>3
<1>9. CASE Finish \/ Crash
  BY <1>0, <1>9 DEF Finish, Crash, Loop
<1> QED
  BY <1>1, <1>5, <1>6, <1>7, <1>8, <1>9 DEF Next, Step, ParseArg, CheckArgs, LoadConfig,
     ChooseInput, ReadStdin, Before

LEMMA ToComeStep == ASSUME State, ToCome, Next PROVE ToCome'
<1>1. CASE pc \in Before
  BY <1>1, EarlyStep DEF ToCome, Text0
<1>2. CASE pc \notin Before
  <2>1. Fixed /\ (k' = k \/ k' = k + 1) /\ k \in Nat \ {0}
    BY <1>2, LoopStep DEF State, Typed
  <2> SUFFICES ASSUME Distinct', NEW j \in k' .. Len(opts'.inputs)
               PROVE  fs'[opts'.inputs[j]] = Text0(j)'
    BY DEF ToCome
  <2>2. Distinct /\ j \in k .. Len(opts.inputs) /\ j \in 1 .. Len(opts.inputs)
    BY <2>1, InputNames DEF Distinct, Fixed, State
  <2>3. fs[opts.inputs[j]] = Text0(j) /\ Text0(j)' = Text0(j) /\ opts' = opts
    BY <2>1, <2>2 DEF ToCome, Text0, Fixed
  <2>4. CASE fs' = fs
    BY <2>3, <2>4
  <2>5. CASE fs' # fs
    <3>1. pc \in Writing /\ (Rename /\ fs' # fs => k' = k + 1)
      BY <2>5, DiskStep DEF Create, Close, Rename, Fails, NextFile, Writing
    <3>2. k \in 1 .. Len(opts.inputs) /\ Input \in Positional
      BY <3>1, AtFile
    <3>3. opts.inputs[j] \in Positional
      BY <2>2, InputNames DEF State
    <3>4. opts.inputs[j] \in Files /\ opts.inputs[j] # Temp(Input)
      BY <3>2, <3>3, FileNames DEF UserFiles
    <3>5. k' = k + 1 => opts.inputs[j] # Input
      BY <2>1, <2>2, <3>2 DEF Distinct, Input
    <3>6. fs'[opts.inputs[j]] = fs[opts.inputs[j]]
      BY <2>5, <3>1, <3>4, <3>5, DiskStep
    <3> QED
      BY <2>3, <3>6
  <2> QED
    BY <2>4, <2>5
<1> QED
  BY <1>1, <1>2

LEMMA TallyStep == ASSUME State, ToCome, Tally, Next PROVE Tally'
<1>0. k \in Nat \ {0} /\ aggregateExit \in {0, 1}
  BY DEF State, Typed
<1>1. CASE pc \in Before
  BY <1>1, EarlyStep DEF Tally, Handled
<1>2. CASE pc \notin Before
  <2> SUFFICES ASSUME Distinct'
               PROVE  aggregateExit' = IF \E j \in Handled' : Bad(j)' THEN 1 ELSE 0
    BY DEF Tally
  <2>1. Distinct
    BY <1>2, LoopStep DEF Distinct, Fixed
  <2>2. aggregateExit = IF \E j \in Handled : Bad(j) THEN 1 ELSE 0
    BY <2>1 DEF Tally
  <2>3. \A j \in Handled : Bad(j)' <=> Bad(j)
    BY <1>2, PastStep DEF Handled
  <2>4. CASE k' = k
    <3>1. Handled' = Handled /\ aggregateExit' = aggregateExit
      BY <1>2, <2>4, LoopStep DEF Handled
    <3> QED
      BY <2>2, <2>3, <3>1
  <2>5. CASE k' = k + 1
    <3>1. PICK n \in Nat \ {0} : n = k
      BY <1>0
    <3>2. aggregateExit' = IF Bad(n)' THEN 1 ELSE aggregateExit
      BY <2>1, <2>5, <3>1, TurnEnds
    <3>3. Handled' = Handled \cup {n}
      BY <1>0, <2>5, <3>1 DEF Handled
    <3> QED
      BY <2>2, <2>3, <3>2, <3>3
  <2> QED
    BY <1>2, <2>4, <2>5, LoopStep
<1> QED
  BY <1>1, <1>2

LEMMA HandledStep ==
    ASSUME State, ToCome, InputsHandled, Next
    PROVE  InputsHandled'
<1>0. k \in Nat \ {0}
  BY DEF State, Typed
<1>1. CASE pc \in Before
  BY <1>1, EarlyStep DEF InputsHandled, Handled
<1>2. CASE pc \notin Before
  <2> SUFFICES ASSUME Distinct', NEW j \in Handled', Formattable(j)',
                      j \notin (faulted \cup unflushed)'
               PROVE  Outcome(j)'
    BY DEF InputsHandled
  <2>1. Distinct
    BY <1>2, LoopStep DEF Distinct, Fixed
  <2>2. CASE j \in Handled
    <3>1. j \in 1 .. k - 1
      BY <2>2 DEF Handled
    <3>2. Formattable(j) /\ j \notin faulted \cup unflushed
      BY <1>2, <3>1, LoopStep, PastStep
    <3>3. Outcome(j)
      BY <2>1, <2>2, <3>2 DEF InputsHandled
    <3> QED
      BY <1>2, <2>1, <3>1, <3>3, PastStep
  <2>3. CASE j \notin Handled
    <3>1. k' = k + 1 /\ j = k
      BY <1>0, <1>2, <2>3, LoopStep DEF Handled
    <3>2. EndsWell(j)'
      BY <2>1, <3>1, TurnEnds, ZenonT(60)
    <3> QED
      BY <3>2 DEF EndsWell
  <2> QED
    BY <2>2, <2>3
<1> QED
  BY <1>1, <1>2

LEMMA ExitStep == ASSUME State, Tally, Next PROVE ExitTells'
<1> SUFFICES ASSUME pc' = "done", Distinct'
             PROVE  /\ exit' = 2 => Untouched'
                    /\ opts'.inputs # <<>> /\ k' > Len(opts'.inputs) =>
                         exit' = IF \E j \in 1 .. Len(opts'.inputs) : Bad(j)'
                                 THEN 1 ELSE 0
  BY DEF ExitTells, Untouched, Bad
<1>0. Typed /\ Flow
  BY DEF State
<1>1. CASE pc \in Before
  <2>1. exit' = 2 => Untouched'
    <3>1. Untouched
      BY <1>0, <1>1 DEF Flow
    <3>2. CASE ParseArg
      BY <3>1, <3>2 DEF ParseArg, Exit, Untouched
    <3>3. CASE CheckArgs \/ LoadConfig \/ ChooseInput \/ ReadStdin
      BY <3>1, <3>3 DEF CheckArgs, LoadConfig, ChooseInput, ReadStdin, World, Untouched
    <3>4. CASE Crash
      BY <3>4 DEF Crash
    <3> QED
      BY <1>1, <3>2, <3>3, <3>4, Sites
  <2>2. opts'.inputs # <<>> => Len(opts'.inputs) >= 1
    BY TypedStep DEF Typed, Options_
  <2> QED
    BY <1>1, <2>1, <2>2, EarlyStep, TypedStep DEF Typed, Options_
<1>2. CASE ResolveConfig
  <2>1. /\ pc = "resolve" /\ k' = k /\ opts' = opts /\ fs' = fs /\ fs0' = fs0
        /\ printed' = printed /\ range # WholeFile
    BY <1>2 DEF ResolveConfig, NextFile, Exit, OutOfBounds, World
  <2>2. k \in 1 .. Len(opts.inputs) /\ Len(opts.inputs) \in Nat
    BY <1>0, <2>1, AtFile, InputNames
  <2>3. Len(opts.inputs) <= 1
    BY <1>0, <2>1, <2>2 DEF Flow, Conflicting, Ended
  <2> QED
    BY <1>0, <2>1, <2>2, <2>3 DEF Flow, Untouched, Turn
<1>3. CASE Process
  <2>1. pc = "format" /\ opts.useStdin /\ opts' = opts /\ exit' \in {0, 1}
    BY <1>3 DEF Process, Return, NextFile, Exit
  <2>2. opts.inputs = <<>>
    BY <1>0, <2>1 DEF Flow, Conflicting, Ended
  <2> QED
    BY <2>1, <2>2
<1>4. CASE Finish
  <2>1. pc \notin Before /\ k > Len(opts.inputs) /\ exit' = aggregateExit
    BY <1>4 DEF Finish, Exit, Before
  <2>2. k \in Nat /\ Len(opts.inputs) \in Nat /\ k <= Len(opts.inputs) + 1
    BY <1>0, InputNames DEF State, Typed, Kept
  <2>3. Handled = 1 .. Len(opts.inputs) /\ opts' = opts
    BY <1>4, <2>1, <2>2 DEF Handled, Finish
  <2>4. Distinct
    BY <2>3 DEF Distinct
  <2>5. \A j \in Handled : Bad(j)' <=> Bad(j)
    BY <2>1, PastStep DEF Handled
  <2>6. exit' = IF \E j \in Handled : Bad(j) THEN 1 ELSE 0
    BY <2>1, <2>4 DEF Tally
  <2> QED
    BY <2>3, <2>5, <2>6
<1> QED
  BY <1>1, <1>2, <1>3, <1>4 DEF Next, Step, ParseArg, CheckArgs, LoadConfig, ChooseInput,
     ReadStdin, ReadFile, Create, Write, Close, Rename, Crash, Fails, Goes, NextFile,
     Before

\* A temporary file that is left, and why.
Excused(p) ==
    \E j \in 1 .. Len(opts.inputs) :
        /\ opts.inputs[j] = p
        /\ \/ j \in faulted
           \/ j = k /\ pc \in {"write", "close", "rename", "crashed"}

LEMMA Grows == ASSUME State, Next, pc \notin Before PROVE faulted \subseteq faulted'
  BY LateStep DEF Advances, Remains

LEMMA LitterStep == ASSUME State, NoLitter, Next PROVE NoLitter'
<1>0. Typed
  BY DEF State
<1> SUFFICES ASSUME NEW p \in Positional
             PROVE  fs'[Temp(p)] \in {fs0'[Temp(p)], NoFile} \/ Excused(p)'
  BY DEF NoLitter, Excused
<1>1. CASE pc \in Before
  BY <1>1, EarlyStep
<1>2. CASE pc \notin Before
  <2>1. Fixed /\ fs0' = fs0 /\ opts' = opts
    BY <1>2, LoopStep DEF Fixed
  <2>2. fs[Temp(p)] \in {fs0[Temp(p)], NoFile} \/ Excused(p)
    BY DEF NoLitter, Excused
  <2>3. CASE pc \notin Writing
    <3>1. fs' = fs /\ faulted \subseteq faulted' /\ pc # "crashed"
      BY <1>2, <2>3, Sites, DiskStep, Grows DEF Create, Close, Rename, Writing, Ended
    <3>2. Excused(p) => Excused(p)'
      BY <2>1, <2>3, <3>1 DEF Excused, Writing
    <3> QED
      BY <2>1, <2>2, <3>1, <3>2
  <2>4. CASE pc \in Writing /\ p = Input
    <3>1. k \in 1 .. Len(opts.inputs) /\ opts.inputs[k] = p
      BY <2>4, AtFile DEF Input
    <3>2. CASE k' = k /\ pc' \in {"write", "close", "rename", "crashed"}
      BY <2>1, <3>1, <3>2 DEF Excused
    <3>3. CASE k \in faulted'
      BY <2>1, <3>1, <3>3 DEF Excused
    <3>4. CASE Rename /\ fs'[Temp(Input)] = NoFile
      BY <2>4, <3>4
    <3>5. CASE Create \/ Write \/ Close
      <4>1. Fails("create") \/ Fails("write") \/ Goes("write") \/ Goes("close")
            \/ Goes("rename")
        BY <3>5 DEF Create, Write, Close
      <4> QED
        BY <3>2, <3>3, <4>1 DEF Fails, Goes
    <3>6. CASE Rename
      <4>1. k \in faulted' \/ fs' = Renamed(fs, Temp(Input), Input)
        BY <3>6 DEF Rename, Renamed, Fails
      <4>2. Input \in Files /\ Temp(Input) \in Files /\ Input # Temp(Input)
        BY <2>4, AtFile, FileNames
      <4> QED
        BY <1>0, <3>3, <3>4, <3>6, <4>1, <4>2, AfterRename DEF Typed
    <3>7. CASE Crash
      BY <3>2, <3>7 DEF Crash, Loop
    <3> QED
      BY <2>4, <3>5, <3>6, <3>7, Sites
  <2>5. CASE pc \in Writing /\ p # Input
    <3>1. Input \in Positional /\ k \in 1 .. Len(opts.inputs)
      BY <2>5, AtFile
    <3>2. Temp(p) \in Files /\ Temp(p) # Temp(Input) /\ Temp(p) # Input
      BY <2>5, <3>1, FileNames DEF UserFiles
    <3>3. fs'[Temp(p)] = fs[Temp(p)]
      BY <3>2, DiskStep
    <3>4. faulted \subseteq faulted'
      BY <1>2, Grows
    <3>5. Excused(p) => Excused(p)'
      BY <2>1, <2>5, <3>4 DEF Excused, Input
    <3> QED
      BY <2>1, <2>2, <3>3, <3>5
  <2> QED
    BY <2>3, <2>4, <2>5
<1> QED
  BY <1>1, <1>2
-----------------------------------------------------------------------------
\* The results.

LEMMA StillSame ==
    ASSUME UNCHANGED vars
    PROVE  /\ ToCome => ToCome'
           /\ Tally => Tally'
           /\ InputsHandled => InputsHandled'
           /\ ExitTells => ExitTells'
           /\ NoLitter => NoLitter'
<1>1. Fixed /\ cfgLost' = cfgLost
  BY DEF vars, Fixed
<1>2. /\ opts' = opts /\ fs0' = fs0 /\ fs' = fs /\ printed' = printed
      /\ k' = k /\ pc' = pc /\ exit' = exit /\ aggregateExit' = aggregateExit
      /\ faulted' = faulted /\ unflushed' = unflushed
  BY DEF vars
<1>3. \A j : /\ Text0(j)' = Text0(j) /\ Want(j)' = Want(j)
             /\ Formattable(j)' <=> Formattable(j)
             /\ Clean(j)' <=> Clean(j)
  BY <1>1, WantFixed
<1>4. (Distinct' <=> Distinct) /\ Handled' = Handled
  BY <1>2 DEF Distinct, Handled
<1>5. \A j : Bad(j)' <=> Bad(j)
  BY <1>2, <1>3 DEF Bad
<1>6. ToCome => ToCome'
  BY <1>2, <1>3, <1>4 DEF ToCome
<1>7. Tally => Tally'
  BY <1>2, <1>4, <1>5 DEF Tally
<1>8. \A j : Outcome(j)' <=> Outcome(j)
  <2>1. \A j, what : Printed(what, j)' <=> Printed(what, j)
    BY <1>2, <1>3 DEF Printed
  <2> QED
    BY <1>2, <1>3, <2>1 DEF Outcome
<1>9. InputsHandled => InputsHandled'
  BY <1>2, <1>3, <1>4, <1>8 DEF InputsHandled
<1>10. ExitTells => ExitTells'
  BY <1>2, <1>3, <1>4, ZenonT(60) DEF ExitTells
<1>11. NoLitter => NoLitter'
  BY <1>2, ZenonT(60) DEF NoLitter
<1> QED
  BY <1>6, <1>7, <1>9, <1>10, <1>11

LEMMA LoopInvariant == Spec => [](ToCome /\ Tally)
<1>1. Init => ToCome /\ Tally
  BY DEF Init, ToCome, Tally, Handled, Text0
<1>2. State /\ ToCome /\ Tally /\ [Next]_vars => (ToCome /\ Tally)'
  BY ToComeStep, TallyStep, StillSame
<1> QED
  BY <1>1, <1>2, StateInvariant, PTL DEF Spec

\* Every input that can be read, configured and formatted, and that no failing
\* call hit, is dealt with once the loop has passed it, whatever the others met
\* (main's loop, processInput, writeFileAtomically).
THEOREM InputsAreHandled == Spec => []InputsHandled
<1>1. Init => InputsHandled
  BY DEF Init, InputsHandled, Handled
<1>2. State /\ ToCome /\ InputsHandled /\ [Next]_vars => InputsHandled'
  BY HandledStep, StillSame
<1> QED
  BY <1>1, <1>2, StateInvariant, LoopInvariant, PTL DEF Spec

\* The exit code tells what happened: 2 only when nothing was written or printed,
\* and after the loop 1 exactly when some input was not dealt with or, under
\* --check, not formatted; whichever calls fail (aggregateExit and main's returns).
THEOREM ExitIsTrue == Spec => []ExitTells
<1>1. Init => ExitTells
  BY DEF Init, ExitTells
<1>2. State /\ Tally /\ ExitTells /\ [Next]_vars => ExitTells'
  BY ExitStep, StillSame
<1> QED
  BY <1>1, <1>2, StateInvariant, LoopInvariant, PTL DEF Spec

\* A temporary file of writeFileAtomically is left only where a call failed or
\* the process died.
THEOREM LitterIsExcused == Spec => []NoLitter
<1>1. Init => NoLitter
  BY DEF Init, NoLitter
<1>2. State /\ NoLitter /\ [Next]_vars => NoLitter'
  BY LitterStep, StillSame
<1> QED
  BY <1>1, <1>2, StateInvariant, PTL DEF Spec

\* A source or a configuration only ever changes from one text to the whole of
\* that text's formatting, in one step and under -i, even if the process dies;
\* what a failed close left is the one exception (writeFileAtomically's rename).
THEOREM RewritesAreWhole == Spec => TargetsRewritten
<1> DEFINE Whole == \A p \in UserFiles : fs'[p] # fs[p] =>
                       LET res == FormatBuffer(fs[p], fileCfg, range)
                       IN  /\ opts.inPlace /\ ~opts.checkMode
                           /\ res.status = "Success"
                           /\ fs'[p] = IF k \in unflushed THEN Torn ELSE res.formattedText
<1>1. State /\ [Next]_vars => [Whole]_vars
  <2> SUFFICES ASSUME State, Next, NEW p \in UserFiles, fs'[p] # fs[p]
               PROVE  LET res == FormatBuffer(fs[p], fileCfg, range)
                      IN  /\ opts.inPlace /\ ~opts.checkMode
                          /\ res.status = "Success"
                          /\ fs'[p] = IF k \in unflushed THEN Torn ELSE res.formattedText
    OBVIOUS
  <2>1. pc \in Writing
    BY DiskStep DEF Create, Close, Rename, Writing
  <2>2. /\ Input \in Positional /\ opts.inPlace /\ ~opts.checkMode /\ fs[Input] = content
    BY <2>1, AtFile
  <2>3. p \in Files /\ p # Temp(Input)
    BY <2>2, FileNames
  <2>4. Rename /\ p = Input /\ fs'[p] = fs[Temp(Input)]
    BY <2>3, DiskStep
  <2>5. /\ FormatBuffer(content, fileCfg, range).status = "Success"
        /\ FormatBuffer(content, fileCfg, range).formattedText = formatted
        /\ fs[Temp(Input)] = IF k \in unflushed THEN Torn ELSE formatted
    BY <2>1, <2>4 DEF State, Current, Rename
  <2> QED
    BY <2>2, <2>4, <2>5
<1> QED
  BY <1>1, StateInvariant, PTL DEF Spec, TargetsRewritten
=============================================================================
