------------------------- MODULE PreprocessorProofs -------------------------
(***************************************************************************)
(* Proofs about the preprocessor's two stacks, the include frames and the  *)
(* conditionals of each, and about the abort of addLineDirective, for any  *)
(* set of files, any macros and any depth limit, and for sources with      *)
(* every quirk.  What needs only stacks and outputs comes first; then what *)
(* each handler does to them; then the invariants.                         *)
(***************************************************************************)
EXTENDS Preprocessor, TLAPS

\* The provers a leaf is given to, one after the other, and their time.
USE SMTT(60), Z3T(60), ZenonT(60)

Cond == [currently_emitting : BOOLEAN, any_branch_taken : BOOLEAN,
         parent_suppressed : BOOLEAN, opener : Nat]

IncludeFrame == [fid : File, physical_line : Nat \ {0}, cond_stack : Seq(Cond)]

Source == [lines : Seq(Line), closed : BOOLEAN]

Types == /\ files \in [File -> Source]
         /\ include_stack \in Seq(IncludeFrame)

----------------------------------------------------------------------------
(* Lists. *)

(* Replacing one element of a list. *)
LEMMA SeqUpdate ==
  ASSUME NEW S, NEW s \in Seq(S), NEW k \in 1 .. Len(s), NEW e \in S
  PROVE  /\ [s EXCEPT ![k] = e] \in Seq(S)
         /\ Len([s EXCEPT ![k] = e]) = Len(s)
         /\ [s EXCEPT ![k] = e][k] = e
         /\ \A i \in 1 .. Len(s) : i # k => [s EXCEPT ![k] = e][i] = s[i]
  OBVIOUS

(* Appending to a list. *)
LEMMA SeqAppend ==
  ASSUME NEW S, NEW s \in Seq(S), NEW e \in S
  PROVE  /\ Append(s, e) \in Seq(S)
         /\ Len(Append(s, e)) = Len(s) + 1
         /\ \A i \in 1 .. Len(s) : Append(s, e)[i] = s[i]
         /\ Append(s, e)[Len(s) + 1] = e
  OBVIOUS

(* Dropping the last element of a list. *)
LEMMA SeqFront ==
  ASSUME NEW S, NEW s \in Seq(S), s # <<>>
  PROVE  /\ SubSeq(s, 1, Len(s) - 1) \in Seq(S)
         /\ Len(SubSeq(s, 1, Len(s) - 1)) = Len(s) - 1
         /\ \A i \in 1 .. (Len(s) - 1) : SubSeq(s, 1, Len(s) - 1)[i] = s[i]
<1>1. Len(s) \in Nat \ {0}
  OBVIOUS
<1>2. Len(SubSeq(s, 1, Len(s) - 1)) = Len(s) - 1
  <2>1. CASE Len(s) = 1
    BY <2>1
  <2>2. CASE Len(s) > 1
    BY <1>1, <2>2
  <2> QED
    BY <1>1, <2>1, <2>2
<1> QED
  BY <1>1, <1>2

----------------------------------------------------------------------------
(* What the output is made of, and what the files carry.                    *)
Item ==
       [kind : {"text"}, file : File, line : Nat \ {0}, nl : BOOLEAN]
  \cup [kind : {"blank"}, nl : {TRUE}]
  \cup [kind : {"line"}, n : Nat, path : File \cup {Alias, NoPath}, nl : {TRUE}]

LineOverride == [at : Nat \ {0, 1}, line : Nat, path : {Alias, NoPath}]

(* What the handlers emit. *)
LEMMA ItemsEmitted ==
  /\ \A nl \in BOOLEAN : Blank(nl) \in Seq(Item)
  /\ \A n \in Nat, path \in File \cup {Alias, NoPath} : <<LineDirective(n, path)>> \in Seq(Item)
  /\ \A f \in File, n \in Nat \ {0}, nl \in BOOLEAN :
       <<[kind |-> "text", file |-> f, line |-> n, nl |-> nl]>> \in Seq(Item)
<1>0. \A e \in Item : <<e>> \in Seq(Item)
  OBVIOUS
<1>1. [kind |-> "blank", nl |-> TRUE] \in Item
  BY DEF Item
<1>2. ASSUME NEW n \in Nat, NEW path \in File \cup {Alias, NoPath}
      PROVE  LineDirective(n, path) \in Item
  <2>1. LineDirective(n, path) \in
          [kind : {"line"}, n : Nat, path : File \cup {Alias, NoPath}, nl : {TRUE}]
    BY DEF LineDirective
  <2> QED
    BY <2>1, ZenonT(60) DEF Item
<1>3. ASSUME NEW f \in File, NEW n \in Nat \ {0}, NEW nl \in BOOLEAN
      PROVE  [kind |-> "text", file |-> f, line |-> n, nl |-> nl] \in Item
  <2>1. [kind |-> "text", file |-> f, line |-> n, nl |-> nl] \in
          [kind : {"text"}, file : File, line : Nat \ {0}, nl : BOOLEAN]
    OBVIOUS
  <2> QED
    BY <2>1, ZenonT(60) DEF Item
<1>4. \A nl \in BOOLEAN : Blank(nl) \in Seq(Item)
  BY <1>0, <1>1 DEF Blank
<1> QED
  BY <1>0, <1>2, <1>3, <1>4, ZenonT(60)

----------------------------------------------------------------------------
(* What the steps do to a stack of frames: a line that stays in the active  *)
(* file, an `#include` of g that is followed, the end of a file.            *)
Turned(s, t) ==
  /\ t \in Seq(IncludeFrame) /\ Len(t) = Len(s)
  /\ \A i \in 1 .. Len(s) : t[i].fid = s[i].fid /\ (i # Len(s) => t[i] = s[i])
  /\ t[Len(s)].physical_line = s[Len(s)].physical_line + 1

Entered(s, t, g) ==
  /\ t \in Seq(IncludeFrame) /\ Len(t) = Len(s) + 1
  /\ \A i \in 1 .. Len(s) : t[i].fid = s[i].fid /\ (i # Len(s) => t[i] = s[i])
  /\ t[Len(s)].physical_line = s[Len(s)].physical_line + 1
  /\ t[Len(t)].fid = g /\ t[Len(t)].physical_line = 1

Left(s, t) ==
  /\ t \in Seq(IncludeFrame) /\ Len(t) = Len(s) - 1
  /\ \A i \in 1 .. Len(t) : t[i] = s[i]

----------------------------------------------------------------------------
(* How often a file has been read, on an output.                            *)
Read(out, f) ==
  {k \in 1 .. Len(out) : out[k] = LineDirective(1, f)} \cup (IF f = Root THEN {0} ELSE {})

Twice(out, f) == \E j, k \in Read(out, f) : j # k

(* The output only grows. *)
Grown(out, new) ==
  \A f \in File : Read(out, f) \subseteq Read(new, f) /\ (Twice(out, f) => Twice(new, f))

(* What is emitted keeps every reading and takes none away. *)
LEMMA EmitGrows ==
  ASSUME NEW out \in Seq(Item), NEW items \in Seq(Item)
  PROVE  out \o items \in Seq(Item) /\ Grown(out, out \o items)
<1> DEFINE new == out \o items
<1>1. /\ new \in Seq(Item) /\ Len(new) = Len(out) + Len(items)
      /\ \A k \in 1 .. Len(out) : new[k] = out[k]
      /\ Len(out) \in Nat /\ Len(items) \in Nat
  OBVIOUS
<1> HIDE DEF new
<1>2. \A f \in File : Read(out, f) \subseteq Read(new, f)
  BY <1>1 DEF Read
<1>3. \A f \in File : Twice(out, f) => Twice(new, f)
  BY <1>2 DEF Twice
<1> QED
  BY <1>1, <1>2, <1>3 DEF Grown, new

(* An announcement is a new reading. *)
LEMMA Announces ==
  ASSUME NEW out \in Seq(Item), NEW g \in File
  PROVE  LET new == out \o <<LineDirective(1, g)>>
         IN  Read(new, g) # {} /\ (Read(out, g) # {} => Twice(new, g))
<1> DEFINE new == out \o <<LineDirective(1, g)>>
           n == Len(out) + 1
<1>1. Len(new) = n /\ new[n] = LineDirective(1, g) /\ n \in 1 .. n /\ Len(out) \in Nat
  OBVIOUS
<1>2. Read(out, g) \subseteq Read(new, g)
  <2>1. <<LineDirective(1, g)>> \in Seq(Item)
    BY ItemsEmitted
  <2> QED
    BY <2>1, EmitGrows, ZenonT(60) DEF Grown
<1> HIDE DEF new
<1>3. n \in Read(new, g)
  BY <1>1 DEF Read
<1>4. n \notin Read(out, g)
  BY <1>1 DEF Read
<1>5. Read(out, g) # {} => Twice(new, g)
  BY <1>2, <1>3, <1>4 DEF Twice
<1> QED
  BY <1>3, <1>5 DEF new

----------------------------------------------------------------------------
(* A file that is open has been announced, one that is open twice has been  *)
(* announced twice, and a file that has been announced once carries no      *)
(* override its only reader has not passed.                                 *)
ReadOK(s, out, ovs) ==
  /\ \A f \in File : Read(out, f) = {} => ovs[f] = {}
  /\ \A i \in 1 .. Len(s) : Read(out, s[i].fid) # {}
  /\ \A i, j \in 1 .. Len(s) : i # j /\ s[i].fid = s[j].fid => Twice(out, s[i].fid)
  /\ \A i \in 1 .. Len(s) :
       Twice(out, s[i].fid) \/ \A o \in ovs[s[i].fid] : o.at <= s[i].physical_line

Overrides == [File -> SUBSET LineOverride]

(* A frame of a stack of frames has a file and a line. *)
LEMMA FrameTypes ==
  ASSUME NEW s \in Seq(IncludeFrame), NEW i \in 1 .. Len(s)
  PROVE  s[i].fid \in File /\ s[i].physical_line \in Nat \ {0}
<1>1. s[i] \in IncludeFrame
  OBVIOUS
<1> QED
  BY <1>1 DEF IncludeFrame

(* A line that stays in the active file keeps ReadOK. *)
LEMMA TurnReads ==
  ASSUME NEW s \in Seq(IncludeFrame), s # <<>>, NEW t, Turned(s, t), NEW ovs \in Overrides,
         NEW out, NEW new, Grown(out, new), ReadOK(s, out, ovs)
  PROVE  ReadOK(t, new, ovs)
<1>0. Len(s) \in Nat \ {0} /\ Len(t) = Len(s)
  BY DEF Turned
<1>1. \A i \in 1 .. Len(s) : /\ s[i].fid \in File /\ t[i].fid = s[i].fid
                              /\ s[i].physical_line \in Nat /\ t[i].physical_line \in Nat
                              /\ s[i].physical_line <= t[i].physical_line
  <2>1. ASSUME NEW i \in 1 .. Len(s)
        PROVE  s[i].physical_line \in Nat /\ t[i].physical_line \in Nat
    BY <1>0, FrameTypes DEF Turned
  <2>2. ASSUME NEW i \in 1 .. Len(s) PROVE s[i].physical_line <= t[i].physical_line
    <3>1. CASE i = Len(s)
      BY <2>1, <3>1 DEF Turned
    <3>2. CASE i # Len(s)
      BY <2>1, <3>2 DEF Turned
    <3> QED
      BY <3>1, <3>2
  <2> QED
    BY <2>1, <2>2, FrameTypes DEF Turned
<1>2. \A f \in File : Read(new, f) = {} => ovs[f] = {}
  BY DEF Grown, ReadOK
<1>3. \A i \in 1 .. Len(t) : Read(new, t[i].fid) # {}
  BY <1>0, <1>1, ZenonT(60) DEF Grown, ReadOK
<1>4. \A i, j \in 1 .. Len(t) : i # j /\ t[i].fid = t[j].fid => Twice(new, t[i].fid)
  BY <1>0, <1>1, ZenonT(60) DEF Grown, ReadOK
<1>5. ASSUME NEW i \in 1 .. Len(t), ~Twice(new, t[i].fid), NEW o \in ovs[t[i].fid]
      PROVE  o.at <= t[i].physical_line
  <2>1. o \in ovs[s[i].fid] /\ ~Twice(out, s[i].fid) /\ i \in 1 .. Len(s)
    BY <1>0, <1>1, <1>5 DEF Grown
  <2>2. o.at <= s[i].physical_line /\ o \in LineOverride
    BY <1>1, <2>1 DEF ReadOK, Overrides
  <2>3. o.at \in Nat
    BY <2>2 DEF LineOverride
  <2> QED
    BY <1>1, <2>1, <2>2, <2>3
<1> QED
  BY <1>2, <1>3, <1>4, <1>5 DEF ReadOK

(* So does a `#line` whose override is for the line read next. *)
LEMMA MarkReads ==
  ASSUME NEW s \in Seq(IncludeFrame), s # <<>>, NEW t, Turned(s, t), NEW ovs \in Overrides,
         NEW out, NEW new, Grown(out, new), ReadOK(s, out, ovs), NEW o \in LineOverride,
         o.at = s[Len(s)].physical_line + 1, NEW f, f = s[Len(s)].fid
  PROVE  ReadOK(t, new, [ovs EXCEPT ![f] = @ \cup {o}])
<1> DEFINE ovs2 == [ovs EXCEPT ![f] = @ \cup {o}]
           n == Len(s)
<1>0. n \in Nat \ {0} /\ n \in 1 .. n /\ Len(t) = n
  BY DEF Turned
<1>1. ReadOK(t, new, ovs)
  BY TurnReads
<1>2. f \in File /\ t[n].fid = f /\ t[n].physical_line = o.at /\ o.at \in Nat
  BY <1>0, FrameTypes DEF Turned, LineOverride
<1>3. ovs2[f] = ovs[f] \cup {o} /\ \A g \in File : g # f => ovs2[g] = ovs[g]
  BY <1>2 DEF Overrides
<1> HIDE DEF ovs2
<1>4. \A g \in File : Read(new, g) = {} => ovs2[g] = {}
  <2>1. Read(new, f) # {}
    BY <1>0, <1>1, <1>2 DEF ReadOK
  <2> QED
    BY <1>1, <1>3, <2>1 DEF ReadOK
<1>5. ASSUME NEW i \in 1 .. n, ~Twice(new, t[i].fid), NEW x \in ovs2[t[i].fid]
      PROVE  x.at <= t[i].physical_line
  <2>0. t[i].fid \in File
    BY <1>0, <1>5, FrameTypes DEF Turned
  <2>1. CASE t[i].fid # f
    BY <1>0, <1>1, <1>3, <1>5, <2>0, <2>1 DEF ReadOK
  <2>2. CASE t[i].fid = f
    <3>1. i = n
      BY <1>0, <1>1, <1>2, <1>5, <2>2 DEF ReadOK
    <3>2. CASE x = o
      BY <1>2, <3>1, <3>2
    <3>3. CASE x \in ovs[f]
      BY <1>0, <1>1, <1>5, <2>2, <3>3 DEF ReadOK
    <3> QED
      BY <1>3, <1>5, <2>2, <3>2, <3>3
  <2> QED
    BY <2>1, <2>2
<1>6. ReadOK(t, new, ovs2)
  BY <1>0, <1>1, <1>4, <1>5 DEF ReadOK
<1> QED
  BY <1>6 DEF ovs2

(* So does an `#include` that announces the file it enters. *)
LEMMA EnterReads ==
  ASSUME NEW s \in Seq(IncludeFrame), s # <<>>, NEW t, NEW g \in File, Entered(s, t, g),
         NEW ovs \in Overrides, NEW out, NEW new, Grown(out, new), ReadOK(s, out, ovs),
         Read(new, g) # {}, Read(out, g) # {} => Twice(new, g)
  PROVE  ReadOK(t, new, ovs)
<1> DEFINE n == Len(s)
<1>0. n \in Nat \ {0} /\ n \in 1 .. n /\ Len(t) = n + 1 /\ t[n + 1].fid = g
  BY DEF Entered
<1>1. ASSUME NEW i \in 1 .. n
      PROVE  /\ s[i].fid \in File /\ t[i].fid = s[i].fid
             /\ s[i].physical_line \in Nat /\ t[i].physical_line \in Nat
             /\ s[i].physical_line <= t[i].physical_line
  <2>0. i \in 1 .. Len(t)
    BY <1>0
  <2>1. s[i].physical_line \in Nat /\ t[i].physical_line \in Nat
    BY <2>0, FrameTypes DEF Entered
  <2>2. s[i].physical_line <= t[i].physical_line
    <3>1. CASE i = n
      BY <2>1, <3>1 DEF Entered
    <3>2. CASE i # n
      BY <2>1, <3>2 DEF Entered
    <3> QED
      BY <3>1, <3>2
  <2> QED
    BY <2>1, <2>2, FrameTypes DEF Entered
<1>2. \A i \in 1 .. (n + 1) : i \in 1 .. n \/ i = n + 1
  BY <1>0
<1>3. \A f \in File : Read(new, f) = {} => ovs[f] = {}
  BY DEF Grown, ReadOK
<1>4. \A i \in 1 .. (n + 1) : Read(new, t[i].fid) # {}
  BY <1>0, <1>1, <1>2 DEF Grown, ReadOK
<1>5. ASSUME NEW i \in 1 .. (n + 1), NEW j \in 1 .. (n + 1), i # j, t[i].fid = t[j].fid
      PROVE  Twice(new, t[i].fid)
  <2>1. CASE i \in 1 .. n /\ j \in 1 .. n
    BY <1>1, <1>5, <2>1 DEF Grown, ReadOK
  <2>2. CASE i = n + 1 \/ j = n + 1
    <3>1. PICK k \in 1 .. n : t[k].fid = g /\ t[i].fid = g
      BY <1>0, <1>2, <1>5, <2>2
    <3>2. Read(out, g) # {}
      BY <1>1, <3>1 DEF ReadOK
    <3> QED
      BY <3>1, <3>2
  <2> QED
    BY <1>2, <2>1, <2>2
<1>6. ASSUME NEW i \in 1 .. (n + 1), ~Twice(new, t[i].fid), NEW o \in ovs[t[i].fid]
      PROVE  o.at <= t[i].physical_line
  <2>1. CASE i \in 1 .. n
    <3>1. o \in ovs[s[i].fid] /\ ~Twice(out, s[i].fid)
      BY <1>1, <1>6, <2>1 DEF Grown
    <3>2. o.at <= s[i].physical_line /\ o \in LineOverride
      BY <1>1, <2>1, <3>1 DEF ReadOK, Overrides
    <3>3. o.at \in Nat
      BY <3>2 DEF LineOverride
    <3> QED
      BY <1>1, <2>1, <3>2, <3>3
  <2>2. CASE i = n + 1
    BY <1>0, <1>6, <2>2 DEF ReadOK
  <2> QED
    BY <1>2, <2>1, <2>2
<1> QED
  BY <1>0, <1>3, <1>4, <1>5, <1>6 DEF ReadOK

(* So does the end of a file. *)
LEMMA LeaveReads ==
  ASSUME NEW s \in Seq(IncludeFrame), s # <<>>, NEW t, Left(s, t), NEW ovs \in Overrides,
         NEW out, NEW new, Grown(out, new), ReadOK(s, out, ovs)
  PROVE  ReadOK(t, new, ovs)
<1>1. \A i \in 1 .. Len(t) : i \in 1 .. Len(s) /\ t[i] = s[i] /\ s[i].fid \in File
  <2>1. Len(s) \in Nat \ {0} /\ Len(t) = Len(s) - 1
    BY DEF Left
  <2>2. \A i \in 1 .. Len(t) : i \in 1 .. Len(s)
    BY <2>1
  <2> QED
    BY <2>2, FrameTypes, ZenonT(60) DEF Left
<1>2. \A f \in File : Read(new, f) = {} => ovs[f] = {}
  BY DEF Grown, ReadOK
<1>3. \A i \in 1 .. Len(t) : Read(new, t[i].fid) # {}
  BY <1>1 DEF Grown, ReadOK
<1>4. \A i, j \in 1 .. Len(t) : i # j /\ t[i].fid = t[j].fid => Twice(new, t[i].fid)
  BY <1>1 DEF Grown, ReadOK
<1>5. \A i \in 1 .. Len(t) :
        Twice(new, t[i].fid) \/ \A o \in ovs[t[i].fid] : o.at <= t[i].physical_line
  BY <1>1 DEF Grown, ReadOK
<1> QED
  BY <1>2, <1>3, <1>4, <1>5 DEF ReadOK

----------------------------------------------------------------------------
(* What a step may do to the stacks.                                        *)

(* pushCondFrame: a new conditional that emits knows so, and is not nested  *)
(* in a suppressed branch unless it says so.                                *)
Pushes(old, new) ==
  \E c \in Cond : /\ new = Append(old, c)
                  /\ c.currently_emitting => c.any_branch_taken /\ ~c.parent_suppressed
                  /\ ~c.parent_suppressed => Emitting(old)

(* handleElse on the innermost conditional. *)
Flips(old, new) ==
  /\ old # <<>>
  /\ \E c \in Cond :
       LET o == old[Len(old)] IN
       /\ new = [old EXCEPT ![Len(old)] = c]
       /\ c.parent_suppressed = o.parent_suppressed
       /\ c.currently_emitting =>
            ~o.parent_suppressed /\ ~o.any_branch_taken /\ c.any_branch_taken

(* handleEndif. *)
Pops(old, new) == old # <<>> /\ new = SubSeq(old, 1, Len(old) - 1)

CondStep(old, new) == new = old \/ Pushes(old, new) \/ Flips(old, new) \/ Pops(old, new)

(* A line that stays in the active file. *)
TurnStep ==
  /\ UNCHANGED sm_include_stack
  /\ \E f \in IncludeFrame :
       /\ SetTop(f)
       /\ f.fid = Top.fid /\ f.physical_line = Top.physical_line + 1
       /\ CondStep(Top.cond_stack, f.cond_stack)

(* An `#include` that is followed. *)
Enters(g) ==
  \E f \in IncludeFrame :
    /\ isEmitting
    /\ Len(include_stack) + 1 <= MaxIncludeDepth
    /\ f.fid = Top.fid /\ f.cond_stack = Top.cond_stack
    /\ f.physical_line = Top.physical_line + 1
    /\ include_stack' = Append([include_stack EXCEPT ![Len(include_stack)] = f], Frame(g))
    /\ sm_include_stack' = Append(sm_include_stack,
         [site |-> [file |-> Top.fid, line |-> Top.physical_line], included |-> g])

EnterStep == \E g \in File : Enters(g)

LeaveStep ==
  /\ include_stack' = SubSeq(include_stack, 1, Len(include_stack) - 1)
  /\ IF Len(include_stack) = 1 THEN UNCHANGED sm_include_stack ELSE PopIncludeFrame

StackStep == include_stack # <<>> /\ (TurnStep \/ EnterStep \/ LeaveStep)

(* And to the output and the overrides: a line that emits items or nothing, *)
Emits == UNCHANGED output \/ \E items \in Seq(Item) : Emit(items)

PlainOut == TurnStep /\ Emits /\ UNCHANGED <<line_overrides, status>>

(* the user's `#line`, registered                                           *)
MarkOut ==
  /\ TurnStep /\ Emits /\ UNCHANGED status
  /\ \E n \in Nat, path \in {Alias, NoPath} :
       AddLineDirective(Top.fid, Top.physical_line + 1, n, path)

(* or refused because it is out of order,                                   *)
AbortOut ==
  /\ ~InOrder(Top.fid, Top.physical_line + 1)
  /\ status' = "abort"
  /\ UNCHANGED <<include_stack, sm_include_stack, line_overrides, output>>

(* an `#include` that is followed,                                          *)
EnterOut ==
  \E g \in File : /\ Enters(g) /\ Emit(<<LineDirective(1, g)>>)
                   /\ UNCHANGED <<line_overrides, status>>

(* the end of a file.                                                       *)
LeaveOut == LeaveStep /\ Emits /\ UNCHANGED <<line_overrides, status>>

----------------------------------------------------------------------------
(* A frame stays one when its line counter moves. *)
LEMMA FrameAdvances ==
  ASSUME NEW t \in IncludeFrame
  PROVE  LET a == [t EXCEPT !.physical_line = @ + 1]
         IN  /\ a \in IncludeFrame /\ a.fid = t.fid /\ a.cond_stack = t.cond_stack
             /\ a.physical_line = t.physical_line + 1
  BY DEF IncludeFrame

(* The active frame is a frame, and stays one when its line counter moves.  *)
LEMMA TopFacts ==
  ASSUME include_stack \in Seq(IncludeFrame), include_stack # <<>>
  PROVE  /\ Len(include_stack) \in Nat \ {0}
         /\ Len(include_stack) \in 1 .. Len(include_stack)
         /\ Top \in IncludeFrame
         /\ Advanced \in IncludeFrame
         /\ Advanced.fid = Top.fid
         /\ Advanced.cond_stack = Top.cond_stack
         /\ Advanced.physical_line = Top.physical_line + 1
<1>1. Len(include_stack) \in Nat \ {0}
  OBVIOUS
<1>2. Len(include_stack) \in 1 .. Len(include_stack)
  BY <1>1
<1>3. Top \in IncludeFrame
  BY <1>2 DEF Top
<1>4. /\ Advanced \in IncludeFrame /\ Advanced.fid = Top.fid
      /\ Advanced.cond_stack = Top.cond_stack
      /\ Advanced.physical_line = Top.physical_line + 1
  BY <1>3, FrameAdvances DEF Advanced
<1> QED
  BY <1>1, <1>2, <1>3, <1>4

(* A line that moves the counter and leaves the conditionals alone. *)
LEMMA AdvanceTurns ==
  ASSUME include_stack \in Seq(IncludeFrame), include_stack # <<>>, SetTop(Advanced),
         UNCHANGED sm_include_stack
  PROVE  TurnStep
<1>1. CondStep(Top.cond_stack, Advanced.cond_stack)
  BY TopFacts DEF CondStep
<1> QED
  BY <1>1, TopFacts DEF TurnStep

(* A line that replaces the conditionals of the active frame. *)
LEMMA CondTurns ==
  ASSUME include_stack \in Seq(IncludeFrame), include_stack # <<>>,
         NEW cs \in Seq(Cond), CondStep(Top.cond_stack, cs),
         SetTop([Advanced EXCEPT !.cond_stack = cs]), UNCHANGED sm_include_stack
  PROVE  TurnStep
<1> DEFINE f == [Advanced EXCEPT !.cond_stack = cs]
<1>1. /\ f \in IncludeFrame /\ f.fid = Top.fid /\ f.cond_stack = cs
      /\ f.physical_line = Top.physical_line + 1
  BY TopFacts, ZenonT(60) DEF IncludeFrame
<1>2. SetTop(f)
  OBVIOUS
<1> HIDE DEF f
<1> QED
  BY <1>1, <1>2 DEF TurnStep

(* pushCondFrame, whatever the condition is worth. *)
LEMMA PushTurns ==
  ASSUME include_stack \in Seq(IncludeFrame), include_stack # <<>>,
         NEW taken \in BOOLEAN, SetTop(PushCondFrame(taken)), UNCHANGED sm_include_stack
  PROVE  TurnStep
<1> DEFINE c == [currently_emitting |-> isEmitting /\ taken,
                 any_branch_taken   |-> isEmitting /\ taken,
                 parent_suppressed  |-> ~isEmitting,
                 opener             |-> Top.physical_line]
           cs == Append(Top.cond_stack, c)
<1>0. Top.cond_stack \in Seq(Cond) /\ Top.physical_line \in Nat
  BY TopFacts DEF IncludeFrame
<1>1. c \in Cond
  BY <1>0 DEF Cond
<1>2. /\ c.currently_emitting => c.any_branch_taken /\ ~c.parent_suppressed
      /\ ~c.parent_suppressed => Emitting(Top.cond_stack)
  BY ZenonT(60) DEF isEmitting
<1>3. PushCondFrame(taken) = [Advanced EXCEPT !.cond_stack = cs]
  BY TopFacts, ZenonT(60) DEF PushCondFrame
<1> HIDE DEF c
<1>4. cs \in Seq(Cond) /\ Pushes(Top.cond_stack, cs)
  BY <1>0, <1>1, <1>2 DEF Pushes
<1> HIDE DEF cs
<1> QED
  BY <1>3, <1>4, CondTurns DEF CondStep

(* handleElse keeps a conditional a conditional, and turns it on only if it *)
(* has not emitted a branch and is not nested in a suppressed one.          *)
LEMMA FlippedFacts ==
  ASSUME NEW c \in Cond
  PROVE  /\ Flipped(c) \in Cond
         /\ Flipped(c).parent_suppressed = c.parent_suppressed
         /\ Flipped(c).currently_emitting =>
              ~c.parent_suppressed /\ ~c.any_branch_taken /\ Flipped(c).any_branch_taken
<1>1. CASE c.parent_suppressed \/ c.any_branch_taken
  <2>1. Flipped(c) = [c EXCEPT !.currently_emitting = FALSE]
    BY <1>1 DEF Flipped
  <2> QED
    BY <2>1, ZenonT(60) DEF Cond
<1>2. CASE ~(c.parent_suppressed \/ c.any_branch_taken)
  <2>1. Flipped(c) = [c EXCEPT !.currently_emitting = TRUE, !.any_branch_taken = TRUE]
    BY <1>2 DEF Flipped
  <2> QED
    BY <1>2, <2>1, ZenonT(60) DEF Cond
<1> QED
  BY <1>1, <1>2

(* `#else`, matched or not. *)
LEMMA ElseTurns ==
  ASSUME include_stack \in Seq(IncludeFrame), include_stack # <<>>, NEW l, Else(l)
  PROVE  TurnStep
<1>0. Top.cond_stack \in Seq(Cond)
  BY TopFacts DEF IncludeFrame
<1>1. CASE Top.cond_stack = <<>>
  BY <1>1, AdvanceTurns DEF Else, smVars
<1>2. CASE Top.cond_stack # <<>>
  <2> DEFINE old == Top.cond_stack
             c == Flipped(old[Len(old)])
             cs == [old EXCEPT ![Len(old)] = c]
  <2>1. SetTop([Advanced EXCEPT !.cond_stack[Len(Top.cond_stack)] = Flipped(@)])
    BY <1>2 DEF Else
  <2>2. [Advanced EXCEPT !.cond_stack[Len(Top.cond_stack)] = Flipped(@)]
        = [Advanced EXCEPT !.cond_stack = cs]
    BY TopFacts
  <2>3. Len(old) \in 1 .. Len(old)
    BY <1>0, <1>2
  <2>4. old[Len(old)] \in Cond
    BY <1>0, <2>3
  <2>5. c \in Cond
    BY <2>4, FlippedFacts
  <2>6. cs \in Seq(Cond)
    BY <1>0, <2>3, <2>5, SeqUpdate
  <2>7. Flips(old, cs)
    BY <1>2, <2>4, FlippedFacts, ZenonT(60) DEF Flips
  <2>8. UNCHANGED sm_include_stack
    BY DEF Else, smVars
  <2> HIDE DEF cs
  <2> QED
    BY <2>1, <2>2, <2>6, <2>7, <2>8, CondTurns DEF CondStep
<1> QED
  BY <1>1, <1>2

(* `#endif`, matched or not. *)
LEMMA EndifTurns ==
  ASSUME include_stack \in Seq(IncludeFrame), include_stack # <<>>, NEW l, Endif(l)
  PROVE  TurnStep
<1>0. Top.cond_stack \in Seq(Cond)
  BY TopFacts DEF IncludeFrame
<1>1. CASE Top.cond_stack = <<>>
  BY <1>1, AdvanceTurns DEF Endif, smVars
<1>2. CASE Top.cond_stack # <<>>
  <2> DEFINE old == Top.cond_stack
             cs == SubSeq(old, 1, Len(old) - 1)
  <2>1. SetTop([Advanced EXCEPT !.cond_stack = SubSeq(@, 1, Len(@) - 1)])
    BY <1>2 DEF Endif
  <2>2. [Advanced EXCEPT !.cond_stack = SubSeq(@, 1, Len(@) - 1)]
        = [Advanced EXCEPT !.cond_stack = cs]
    BY TopFacts, ZenonT(60)
  <2>3. Len(old) \in Nat \ {0}
    BY <1>0, <1>2
  <2>4. cs \in Seq(Cond)
    BY <1>0, <2>3
  <2>5. Pops(old, cs)
    BY <1>2 DEF Pops
  <2>6. UNCHANGED sm_include_stack
    BY DEF Endif, smVars
  <2> HIDE DEF cs
  <2> QED
    BY <2>1, <2>2, <2>4, <2>5, <2>6, CondTurns DEF CondStep
<1> QED
  BY <1>1, <1>2

----------------------------------------------------------------------------
(* Types.                                                                   *)

(* The line a frame reads next is a line of the sources. *)
LEMMA LinesAreLines ==
  ASSUME Types, include_stack # <<>>, NEW l \in NextLines
  PROVE  l \in Line /\ Top.fid \in File
<1>1. Top.fid \in File /\ Top.physical_line \in Nat \ {0}
  BY TopFacts DEF Types, IncludeFrame
<1>2. files[Top.fid].lines \in Seq(Line)
  BY <1>1 DEF Types, Source
<1>3. CASE Top.physical_line <= Len(files[Top.fid].lines)
  <2>1. l = files[Top.fid].lines[Top.physical_line]
    BY <1>3 DEF NextLines
  <2>2. Top.physical_line \in 1 .. Len(files[Top.fid].lines)
    BY <1>1, <1>2, <1>3
  <2> QED
    BY <1>1, <1>2, <2>1, <2>2
<1>4. CASE ~(Top.physical_line <= Len(files[Top.fid].lines))
  BY <1>1, <1>4 DEF NextLines
<1> QED
  BY <1>3, <1>4

(* What an `#include` names. *)
LEMMA IncludeNames ==
  ASSUME NEW l \in Line, l.dir.kind = "include"
  PROVE  l.dir.file \in File \cup {Missing}
  BY DEF Line, Directive

(* Reading a line keeps the sources typed. *)
LEMMA ReadsTyped ==
  ASSUME Types, include_stack # <<>>, NEW l \in NextLines, NEW kinds, Reads(kinds, l)
  PROVE  files' \in [File -> Source]
<1>1. l \in Line /\ Top.fid \in File /\ files \in [File -> Source] /\ files[Top.fid] \in Source
  BY LinesAreLines DEF Types
<1>2. CASE files' = files
  BY <1>1, <1>2
<1>3. CASE files' = [files EXCEPT ![Top.fid] =
                       [lines |-> Append(@.lines, l), closed |-> ~l.nl]]
  <2> DEFINE n == [lines |-> Append(files[Top.fid].lines, l), closed |-> ~l.nl]
  <2>1. files' = [files EXCEPT ![Top.fid] = n]
    BY <1>1, <1>3
  <2>2. files[Top.fid].lines \in Seq(Line)
    BY <1>1 DEF Source
  <2>3. Append(files[Top.fid].lines, l) \in Seq(Line) /\ (~l.nl) \in BOOLEAN
    BY <1>1, <2>2
  <2>4. n \in Source
    BY <2>3 DEF Source
  <2> HIDE DEF n
  <2> QED
    BY <1>1, <2>1, <2>4
<1> QED
  BY <1>2, <1>3 DEF Reads

(* A `#line` that is read carries a number and one of the two paths. *)
LEMMA MarkNames ==
  ASSUME NEW l \in Line, l.dir.kind = "line"
  PROVE  l.dir.n \in Nat /\ l.dir.path \in {Alias, NoPath}
<1>1. l.dir \in [kind : {"line"}, n : LineNo, path : {Alias, NoPath}]
  BY DEF Line, Directive
<1>2. l.dir.n \in LineNo /\ l.dir.path \in {Alias, NoPath}
  BY <1>1
<1> QED
  BY <1>2, LineNoAssumption, ZenonT(60)

(* What the handlers of the plain lines emit. *)
LEMMA PlainEmits ==
  ASSUME Types, include_stack # <<>>, NEW nl \in BOOLEAN,
         Emit(<<Text(nl)>>) \/ Emit(Blank(nl)) \/ UNCHANGED output
  PROVE  Emits
<1>1. Top.fid \in File /\ Top.physical_line \in Nat \ {0}
  BY TopFacts DEF Types, IncludeFrame
<1>2. <<Text(nl)>> \in Seq(Item) /\ Blank(nl) \in Seq(Item)
  BY <1>1, ItemsEmitted DEF Text
<1> QED
  BY <1>2, ZenonT(60) DEF Emits

(* Every line has one of these effects. *)
LEMMA LineOut ==
  ASSUME Types, include_stack # <<>>, NEW l \in NextLines, HandleLine(l)
  PROVE  /\ PlainOut \/ MarkOut \/ AbortOut \/ EnterOut
         /\ files' \in [File -> Source]
<1>0. include_stack \in Seq(IncludeFrame) /\ l \in Line /\ l.nl \in BOOLEAN
  BY LinesAreLines DEF Types, Line
<1>1. CASE Passthrough(l) \/ Define(l) \/ Undef(l) \/ Unknown(l)
  <2>1. /\ SetTop(Advanced) /\ UNCHANGED <<sm_include_stack, line_overrides, status>>
        /\ Emit(<<Text(l.nl)>>) \/ Emit(Blank(l.nl))
        /\ \E kinds : Reads(kinds, l)
    BY <1>1 DEF Passthrough, Define, Undef, Unknown, smVars
  <2>2. Emits
    BY <1>0, <2>1, PlainEmits, ZenonT(60)
  <2> QED
    BY <1>0, <2>1, <2>2, AdvanceTurns, ReadsTyped DEF PlainOut
<1>2. CASE Ifdef(l) \/ If(l)
  <2>1. PICK taken \in BOOLEAN : SetTop(PushCondFrame(taken))
    BY <1>2, ZenonT(60) DEF Ifdef, If, Truthy
  <2>2. /\ UNCHANGED <<sm_include_stack, line_overrides, status>>
        /\ Emit(Blank(l.nl)) /\ \E kinds : Reads(kinds, l)
    BY <1>2 DEF Ifdef, If, smVars
  <2>3. Emits
    BY <1>0, <2>2, PlainEmits, ZenonT(60)
  <2> QED
    BY <1>0, <2>1, <2>2, <2>3, PushTurns, ReadsTyped DEF PlainOut
<1>3. CASE Else(l) \/ Endif(l)
  <2>1. TurnStep
    BY <1>0, <1>3, ElseTurns, EndifTurns
  <2>2. /\ UNCHANGED <<line_overrides, status>>
        /\ Emit(Blank(l.nl)) /\ \E kinds : Reads(kinds, l)
    BY <1>3 DEF Else, Endif, smVars
  <2>3. Emits
    BY <1>0, <2>2, PlainEmits, ZenonT(60)
  <2> QED
    BY <2>1, <2>2, <2>3, ReadsTyped DEF PlainOut
<1>4. CASE UserLine(l)
  <2>0. Reads({"line", "badline"}, l) /\ UNCHANGED sm_include_stack
    BY <1>4, ZenonT(60) DEF UserLine
  <2>1. CASE /\ SetTop(Advanced) /\ (Emit(Blank(l.nl)) \/ UNCHANGED output)
             /\ UNCHANGED <<line_overrides, status>>
    <3>1. Emits
      BY <1>0, <2>1, PlainEmits, ZenonT(60)
    <3> QED
      BY <1>0, <2>0, <2>1, <3>1, AdvanceTurns, ReadsTyped DEF PlainOut
  <2>2. CASE /\ l.dir.kind = "line"
             /\ AddLineDirective(Top.fid, Top.physical_line + 1, l.dir.n, l.dir.path)
             /\ SetTop(Advanced) /\ Emit(<<LineDirective(l.dir.n, l.dir.path)>>)
             /\ UNCHANGED status
    <3>1. l.dir.n \in Nat /\ l.dir.path \in {Alias, NoPath}
      BY <1>0, <2>2, MarkNames
    <3>2. <<LineDirective(l.dir.n, l.dir.path)>> \in Seq(Item)
      BY <3>1, ItemsEmitted
    <3>3. Emits
      BY <2>2, <3>2, ZenonT(60) DEF Emits
    <3> QED
      BY <1>0, <2>0, <2>2, <3>1, <3>3, AdvanceTurns, ReadsTyped DEF MarkOut
  <2>3. CASE /\ ~InOrder(Top.fid, Top.physical_line + 1) /\ status' = "abort"
             /\ UNCHANGED <<include_stack, line_overrides, output>>
    BY <2>0, <2>3, ReadsTyped DEF AbortOut
  <2>4. l.dir.kind \in {"line", "badline"}
    BY <2>0, ZenonT(60) DEF Reads
  <2> QED
    BY <1>4, <2>1, <2>2, <2>3, <2>4, ZenonT(60) DEF UserLine
<1>5. CASE Include(l)
  <2>0. Reads({"include"}, l) /\ l.dir.kind = "include" /\ UNCHANGED status
    BY <1>5, ZenonT(60) DEF Include, Reads
  <2>1. CASE /\ SetTop(Advanced) /\ (Emit(Blank(l.nl)) \/ UNCHANGED output)
             /\ UNCHANGED smVars
    <3>1. Emits
      BY <1>0, <2>1, PlainEmits, ZenonT(60)
    <3> QED
      BY <1>0, <2>0, <2>1, <3>1, AdvanceTurns, ReadsTyped DEF PlainOut, smVars
  <2>2. CASE /\ isEmitting /\ l.dir.file # Missing
             /\ ~(Len(include_stack) + 1 > MaxIncludeDepth)
             /\ PushIncludeFrame([file |-> Top.fid, line |-> Top.physical_line], l.dir.file)
             /\ include_stack' = Append([include_stack EXCEPT ![Len(include_stack)] = Advanced],
                                        Frame(l.dir.file))
             /\ Emit(<<LineDirective(1, l.dir.file)>>) /\ UNCHANGED line_overrides
    <3>1. l.dir.file \in File
      BY <1>0, <2>0, <2>2, IncludeNames
    <3>2. Len(include_stack) + 1 <= MaxIncludeDepth
      BY <1>0, <2>2, TopFacts, DepthAssumption
    <3>3. Enters(l.dir.file)
      BY <1>0, <2>2, <3>2, TopFacts DEF Enters, PushIncludeFrame
    <3> QED
      BY <2>0, <2>2, <3>1, <3>3, ReadsTyped DEF EnterOut
  <2> QED
    BY <1>5, <2>1, <2>2, ZenonT(60) DEF Include
<1> QED
  BY <1>1, <1>2, <1>3, <1>4, <1>5 DEF HandleLine

(* So does the end of a file. *)
LEMMA EndOut ==
  ASSUME Types, EndOfFile
  PROVE  LeaveOut /\ include_stack # <<>> /\ files' \in [File -> Source]
<1> DEFINE n == Len(include_stack)
<1>0. /\ include_stack \in Seq(IncludeFrame) /\ include_stack # <<>> /\ n \in Nat \ {0}
      /\ Top.fid \in File /\ include_stack' = SubSeq(include_stack, 1, n - 1)
  BY TopFacts DEF Types, EndOfFile, IncludeFrame
<1>1. files' \in [File -> Source]
  BY <1>0, ZenonT(60) DEF EndOfFile, Types, Source
<1>2. LeaveStep /\ UNCHANGED <<line_overrides, status>>
  BY DEF EndOfFile, LeaveStep
<1>3. CASE n = 1
  BY <1>0, <1>1, <1>2, <1>3 DEF EndOfFile, LeaveOut, Emits
<1>4. CASE n # 1
  <2>1. /\ Len(include_stack') = n - 1 /\ n - 1 \in 1 .. (n - 1)
        /\ include_stack' \in Seq(IncludeFrame)
    BY <1>0, <1>4, SeqFront
  <2>2. /\ include_stack'[n - 1].fid \in File
        /\ include_stack'[n - 1].physical_line \in Nat
    BY <2>1, FrameTypes
  <2>3. emitLineForFrame(include_stack') \in Seq(Item)
    BY <2>1, <2>2, ItemsEmitted DEF emitLineForFrame
  <2>4. Emit(emitLineForFrame(include_stack'))
    BY <1>4 DEF EndOfFile
  <2> QED
    BY <1>0, <1>1, <1>2, <2>3, <2>4 DEF LeaveOut, Emits
<1> QED
  BY <1>3, <1>4

(* Every step of the preprocessor, seen on the include stack. *)
LEMMA StackSteps ==
  ASSUME Types, [Next]_vars
  PROVE  /\ UNCHANGED <<include_stack, sm_include_stack>> \/ StackStep
         /\ files' \in [File -> Source]
<1>1. CASE ReadLine
  <2>1. /\ PlainOut \/ MarkOut \/ AbortOut \/ EnterOut
        /\ include_stack # <<>> /\ files' \in [File -> Source]
    BY <1>1, LineOut, ZenonT(60) DEF ReadLine
  <2> QED
    BY <2>1, ZenonT(60) DEF StackStep, PlainOut, MarkOut, AbortOut, EnterOut, EnterStep
<1>2. CASE EndOfFile
  BY <1>2, EndOut DEF LeaveOut, StackStep
<1>3. CASE Return
  BY <1>3 DEF Return, Types, smVars
<1>4. CASE UNCHANGED vars
  BY <1>4 DEF vars, Types, smVars
<1> QED
  BY <1>1, <1>2, <1>3, <1>4 DEF Next, Step, Done

----------------------------------------------------------------------------
(* The inductive invariant.                                                 *)

(* In a stack of conditionals, one that emits has taken a branch and is not *)
(* nested in a suppressed one, and one that says it is not nested in a      *)
(* suppressed branch has only emitting ones around it.                      *)
Nested(conds) ==
  \A j \in 1 .. Len(conds) :
    /\ conds[j].currently_emitting =>
         conds[j].any_branch_taken /\ ~conds[j].parent_suppressed
    /\ ~conds[j].parent_suppressed =>
         \A k \in 1 .. (j - 1) : conds[k].currently_emitting

StackInv ==
  /\ Types
  /\ Len(include_stack) <= MaxIncludeDepth
  /\ \A i \in 1 .. Len(include_stack) :
       /\ Nested(include_stack[i].cond_stack)
       /\ i < Len(include_stack) => Emitting(include_stack[i].cond_stack)

(* An emitting stack of conditionals emits at every level. *)
LEMMA EmittingThroughout ==
  ASSUME NEW conds \in Seq(Cond), Nested(conds), Emitting(conds)
  PROVE  \A j \in 1 .. Len(conds) : conds[j].currently_emitting
<1>1. CASE conds = <<>>
  BY <1>1
<1>2. CASE conds # <<>>
  <2>1. Len(conds) \in 1 .. Len(conds) /\ Len(conds) \in Nat
    BY <1>2
  <2>2. conds[Len(conds)].currently_emitting
    BY <1>2 DEF Emitting
  <2>3. \A k \in 1 .. (Len(conds) - 1) : conds[k].currently_emitting
    BY <2>1, <2>2 DEF Nested
  <2>4. \A j \in 1 .. Len(conds) : j = Len(conds) \/ j \in 1 .. (Len(conds) - 1)
    BY <2>1
  <2> QED
    BY <2>2, <2>3, <2>4
<1> QED
  BY <1>1, <1>2

(* What a step does to a stack of conditionals keeps the levels below, types *)
(* and nesting, and turns no conditional on that has emitted before.         *)
LEMMA CondStepFacts ==
  ASSUME NEW old \in Seq(Cond), NEW new, CondStep(old, new), Nested(old)
  PROVE  /\ new \in Seq(Cond)
         /\ Nested(new)
         /\ \A j \in 1 .. Len(old) :
              /\ j <= Len(new)
              /\ old[j].any_branch_taken /\ ~old[j].currently_emitting
              => ~new[j].currently_emitting
<1>0. Len(old) \in Nat
  OBVIOUS
<1>1. CASE new = old
  BY <1>1
<1>2. CASE Pushes(old, new)
  <2>1. PICK c \in Cond :
           /\ new = Append(old, c)
           /\ c.currently_emitting => c.any_branch_taken /\ ~c.parent_suppressed
           /\ ~c.parent_suppressed => Emitting(old)
    BY <1>2 DEF Pushes
  <2>2. /\ new \in Seq(Cond) /\ Len(new) = Len(old) + 1
        /\ \A i \in 1 .. Len(old) : new[i] = old[i]
        /\ new[Len(old) + 1] = c
    BY <2>1, SeqAppend
  <2>3. ~c.parent_suppressed => \A k \in 1 .. Len(old) : old[k].currently_emitting
    BY <2>1, EmittingThroughout
  <2>4. ASSUME NEW j \in 1 .. Len(new)
        PROVE  /\ new[j].currently_emitting =>
                    new[j].any_branch_taken /\ ~new[j].parent_suppressed
               /\ ~new[j].parent_suppressed =>
                    \A k \in 1 .. (j - 1) : new[k].currently_emitting
    <3>1. CASE j \in 1 .. Len(old)
      <4>1. new[j] = old[j] /\ \A k \in 1 .. (j - 1) : k \in 1 .. Len(old) /\ new[k] = old[k]
        BY <1>0, <2>2, <3>1
      <4> QED
        BY <3>1, <4>1 DEF Nested
    <3>2. CASE j = Len(old) + 1
      <4>1. new[j] = c /\ \A k \in 1 .. (j - 1) : k \in 1 .. Len(old) /\ new[k] = old[k]
        BY <1>0, <2>2, <3>2
      <4> QED
        BY <2>1, <2>3, <4>1
    <3> QED
      BY <1>0, <2>2, <2>4, <3>1, <3>2
  <2> QED
    BY <2>2, <2>4 DEF Nested
<1>3. CASE Flips(old, new)
  <2> DEFINE n == Len(old)
             o == old[n]
  <2>0. n \in 1 .. Len(old) /\ old # <<>>
    BY <1>0, <1>3 DEF Flips
  <2>1. PICK c \in Cond :
           /\ new = [old EXCEPT ![n] = c]
           /\ c.parent_suppressed = o.parent_suppressed
           /\ c.currently_emitting =>
                ~o.parent_suppressed /\ ~o.any_branch_taken /\ c.any_branch_taken
    BY <1>3, ZenonT(60) DEF Flips
  <2>2. /\ new \in Seq(Cond) /\ Len(new) = Len(old) /\ new[n] = c
        /\ \A i \in 1 .. Len(old) : i # n => new[i] = old[i]
    BY <2>0, <2>1, SeqUpdate
  <2>4. ASSUME NEW j \in 1 .. Len(new)
        PROVE  /\ new[j].currently_emitting =>
                    new[j].any_branch_taken /\ ~new[j].parent_suppressed
               /\ ~new[j].parent_suppressed =>
                    \A k \in 1 .. (j - 1) : new[k].currently_emitting
    <3>0. \A k \in 1 .. (j - 1) : k \in 1 .. Len(old) /\ new[k] = old[k]
      BY <1>0, <2>2, <2>4
    <3>1. CASE j # n
      <4>1. new[j] = old[j] /\ j \in 1 .. Len(old)
        BY <2>2, <2>4, <3>1
      <4> QED
        BY <3>0, <4>1 DEF Nested
    <3>2. CASE j = n
      <4>1. ~o.parent_suppressed => \A k \in 1 .. (n - 1) : old[k].currently_emitting
        BY <2>0 DEF Nested
      <4> QED
        BY <2>1, <2>2, <3>0, <3>2, <4>1
    <3> QED
      BY <3>1, <3>2
  <2>5. ASSUME NEW j \in 1 .. Len(old), old[j].any_branch_taken, ~old[j].currently_emitting
        PROVE  ~new[j].currently_emitting
    <3>1. CASE j # n
      BY <2>2, <2>5, <3>1
    <3>2. CASE j = n
      BY <2>1, <2>2, <2>5, <3>2
    <3> QED
      BY <3>1, <3>2
  <2> QED
    BY <2>2, <2>4, <2>5 DEF Nested
<1>4. CASE Pops(old, new)
  <2>1. /\ new \in Seq(Cond) /\ Len(new) = Len(old) - 1
        /\ \A i \in 1 .. (Len(old) - 1) : new[i] = old[i]
    BY <1>4, SeqFront DEF Pops
  <2>2. \A j \in 1 .. Len(new) : /\ j \in 1 .. Len(old) /\ new[j] = old[j]
                                  /\ \A k \in 1 .. (j - 1) : k \in 1 .. Len(new)
    BY <1>0, <2>1
  <2>3. Nested(new)
    BY <2>2 DEF Nested
  <2>4. \A j \in 1 .. Len(old) : j <= Len(new) => j \in 1 .. Len(new)
    BY <1>0, <2>1
  <2> QED
    BY <2>1, <2>2, <2>3, <2>4
<1> QED
  BY <1>1, <1>2, <1>3, <1>4 DEF CondStep

(* A freshly entered file has no conditionals. *)
LEMMA FrameFacts ==
  ASSUME NEW g \in File
  PROVE  /\ Frame(g) \in IncludeFrame /\ Frame(g).fid = g
         /\ Nested(Frame(g).cond_stack)
  BY DEF Frame, IncludeFrame, Nested

(* The frames around the active one stay; the active one changes as its     *)
(* conditionals may.                                                        *)
LEMMA FrameSteps ==
  ASSUME StackInv, StackStep
  PROVE  /\ include_stack' \in Seq(IncludeFrame)
         /\ Len(include_stack') <= MaxIncludeDepth
         /\ \A i \in 1 .. Len(include_stack) :
              i <= Len(include_stack') =>
                CondStep(include_stack[i].cond_stack, include_stack'[i].cond_stack)
         /\ \A i \in 1 .. Len(include_stack') :
              i > Len(include_stack) => Nested(include_stack'[i].cond_stack)
         /\ \A i \in 1 .. Len(include_stack') :
              i < Len(include_stack') => Emitting(include_stack'[i].cond_stack)
<1> DEFINE n == Len(include_stack)
<1>0. /\ include_stack \in Seq(IncludeFrame) /\ include_stack # <<>>
      /\ n \in Nat \ {0} /\ n \in 1 .. n /\ n <= MaxIncludeDepth /\ MaxIncludeDepth \in Nat
  BY TopFacts, DepthAssumption DEF StackInv, Types, StackStep
<1>1. CASE TurnStep
  <2>1. PICK f \in IncludeFrame :
           /\ include_stack' = [include_stack EXCEPT ![n] = f]
           /\ CondStep(include_stack[n].cond_stack, f.cond_stack)
    BY <1>1, ZenonT(60) DEF TurnStep, SetTop, Top
  <2>2. /\ include_stack' \in Seq(IncludeFrame) /\ Len(include_stack') = n
        /\ include_stack'[n] = f
        /\ \A i \in 1 .. n : i # n => include_stack'[i] = include_stack[i]
    BY <1>0, <2>1, SeqUpdate
  <2>3. \A i \in 1 .. n :
          CondStep(include_stack[i].cond_stack, include_stack'[i].cond_stack)
    BY <2>1, <2>2, ZenonT(60) DEF CondStep
  <2>4. \A i \in 1 .. n : i < n => Emitting(include_stack'[i].cond_stack)
    BY <1>0, <2>2 DEF StackInv
  <2>5. \A i \in 1 .. n : ~(i > n)
    BY <1>0
  <2> QED
    BY <1>0, <2>2, <2>3, <2>4, <2>5
<1>2. CASE EnterStep
  <2>1. PICK f \in IncludeFrame, g \in File :
           /\ Emitting(include_stack[n].cond_stack)
           /\ n + 1 <= MaxIncludeDepth
           /\ f.cond_stack = include_stack[n].cond_stack
           /\ include_stack' = Append([include_stack EXCEPT ![n] = f], Frame(g))
    BY <1>2 DEF EnterStep, Enters, isEmitting, Top
  <2> DEFINE m == [include_stack EXCEPT ![n] = f]
  <2>2. /\ m \in Seq(IncludeFrame) /\ Len(m) = n /\ m[n] = f
        /\ \A i \in 1 .. n : i # n => m[i] = include_stack[i]
    BY <1>0, <2>1, SeqUpdate
  <2>3. \A i \in 1 .. n : m[i].cond_stack = include_stack[i].cond_stack
    BY <2>1, <2>2, ZenonT(60)
  <2>4. include_stack' = Append(m, Frame(g))
    BY <2>1
  <2> HIDE DEF m
  <2>5. /\ include_stack' \in Seq(IncludeFrame) /\ Len(include_stack') = n + 1
        /\ \A i \in 1 .. n : include_stack'[i] = m[i]
        /\ include_stack'[n + 1] = Frame(g)
    BY <2>2, <2>4, FrameFacts, SeqAppend
  <2>6. \A i \in 1 .. n :
          CondStep(include_stack[i].cond_stack, include_stack'[i].cond_stack)
    BY <2>3, <2>5 DEF CondStep
  <2>7. \A i \in 1 .. (n + 1) : (i > n => i = n + 1) /\ (i < n + 1 => i \in 1 .. n)
                                 /\ (i \in 1 .. n => i = n \/ i < n)
    BY <1>0
  <2>8. \A i \in 1 .. n : Emitting(include_stack'[i].cond_stack)
    <3>1. \A i \in 1 .. n : i = n \/ i < n
      BY <1>0
    <3>2. \A i \in 1 .. n : Emitting(include_stack[i].cond_stack)
      BY <2>1, <3>1 DEF StackInv
    <3> QED
      BY <2>3, <2>5, <3>2
  <2>9. Nested(include_stack'[n + 1].cond_stack)
    BY <2>5, FrameFacts
  <2> QED
    BY <2>1, <2>5, <2>6, <2>7, <2>8, <2>9
<1>3. CASE LeaveStep
  <2>1. /\ include_stack' \in Seq(IncludeFrame) /\ Len(include_stack') = n - 1
        /\ \A i \in 1 .. (n - 1) : include_stack'[i] = include_stack[i]
    BY <1>0, <1>3, SeqFront DEF LeaveStep
  <2>2. /\ n - 1 <= MaxIncludeDepth
        /\ \A i \in 1 .. n : i <= n - 1 => i \in 1 .. (n - 1)
        /\ \A i \in 1 .. (n - 1) : ~(i > n) /\ i < n /\ i \in 1 .. n
    BY <1>0
  <2>3. \A i \in 1 .. (n - 1) : Emitting(include_stack'[i].cond_stack)
    BY <2>1, <2>2 DEF StackInv
  <2> QED
    BY <2>1, <2>2, <2>3, ZenonT(60) DEF CondStep
<1> QED
  BY <1>1, <1>2, <1>3 DEF StackStep

(* The invariant holds at the start, in the input file. *)
LEMMA StackInit == Init => StackInv
<1> SUFFICES ASSUME Init PROVE StackInv
  OBVIOUS
<1>1. files \in [File -> Source]
  BY DEF Init, Source
<1>2. Frame(Root) \in IncludeFrame /\ Nested(Frame(Root).cond_stack)
  BY RootIsFile, FrameFacts
<1>3. /\ include_stack \in Seq(IncludeFrame) /\ Len(include_stack) = 1
      /\ include_stack[1] = Frame(Root)
  BY <1>2 DEF Init
<1>4. \A i \in 1 .. 1 : i = 1 /\ ~(i < 1)
  OBVIOUS
<1> QED
  BY <1>1, <1>2, <1>3, <1>4, DepthAssumption DEF StackInv, Types

(* The conditionals of any frame. *)
LEMMA FrameConds ==
  ASSUME StackInv, NEW i \in 1 .. Len(include_stack)
  PROVE  /\ include_stack[i].cond_stack \in Seq(Cond)
         /\ Nested(include_stack[i].cond_stack)
<1>1. include_stack \in Seq(IncludeFrame)
  BY DEF StackInv, Types
<1>2. include_stack[i] \in IncludeFrame
  BY <1>1
<1>3. include_stack[i].cond_stack \in Seq(Cond)
  BY <1>2 DEF IncludeFrame
<1> QED
  BY <1>3 DEF StackInv

(* Every step keeps it. *)
LEMMA StackKept == ASSUME StackInv, [Next]_vars PROVE StackInv'
<1>1. /\ UNCHANGED <<include_stack, sm_include_stack>> \/ StackStep
      /\ files' \in [File -> Source]
  BY StackSteps DEF StackInv
<1>2. CASE UNCHANGED include_stack
  BY <1>1, <1>2 DEF StackInv, Types
<1>3. CASE StackStep
  <2>1. \A i \in 1 .. Len(include_stack') :
          i <= Len(include_stack) => i \in 1 .. Len(include_stack)
    BY <1>3, FrameSteps DEF StackInv, Types
  <2>2. \A i \in 1 .. Len(include_stack') :
          i <= Len(include_stack) \/ i > Len(include_stack)
    BY <1>3, FrameSteps DEF StackInv, Types
  <2>3. ASSUME NEW i \in 1 .. Len(include_stack'), i <= Len(include_stack)
        PROVE  Nested(include_stack'[i].cond_stack)
    <3>1. i \in 1 .. Len(include_stack) /\ i <= Len(include_stack')
      BY <1>3, <2>1, <2>3, FrameSteps
    <3>2. include_stack[i].cond_stack \in Seq(Cond) /\ Nested(include_stack[i].cond_stack)
      BY <3>1, FrameConds
    <3>3. CondStep(include_stack[i].cond_stack, include_stack'[i].cond_stack)
      BY <1>3, <3>1, FrameSteps
    <3> QED
      BY <3>2, <3>3, CondStepFacts
  <2> QED
    BY <1>1, <1>3, <2>2, <2>3, FrameSteps DEF StackInv, Types
<1> QED
  BY <1>1, <1>2, <1>3

(* The invariant of the two stacks. *)
LEMMA StackHolds == Spec => []StackInv
  BY StackInit, StackKept, PTL DEF Spec

----------------------------------------------------------------------------
(* A text line is emitted only if every conditional around it, in its own   *)
(* file and in every file that includes it, is in a branch that emits.      *)
SuppressionCascades ==
  include_stack # <<>> /\ isEmitting =>
    \A i \in 1 .. Len(include_stack) :
      \A j \in 1 .. Len(include_stack[i].cond_stack) :
        include_stack[i].cond_stack[j].currently_emitting

(* pushCondFrame and handleElse look at the innermost conditional only, and *)
(* handleInclude at none but the active frame's; suppression still reaches  *)
(* through all levels and files.                                            *)
THEOREM SuppressionReachesAll == Spec => []SuppressionCascades
<1>1. ASSUME StackInv, include_stack # <<>>, isEmitting,
             NEW i \in 1 .. Len(include_stack)
      PROVE  \A j \in 1 .. Len(include_stack[i].cond_stack) :
               include_stack[i].cond_stack[j].currently_emitting
  <2>1. Emitting(include_stack[i].cond_stack)
    <3>1. i = Len(include_stack) \/ i < Len(include_stack)
      BY <1>1 DEF StackInv, Types
    <3> QED
      BY <1>1, <3>1 DEF isEmitting, Top, StackInv
  <2>2. include_stack[i].cond_stack \in Seq(Cond) /\ Nested(include_stack[i].cond_stack)
    BY <1>1, FrameConds
  <2> QED
    BY <2>1, <2>2, EmittingThroughout
<1>2. StackInv => SuppressionCascades
  BY <1>1 DEF SuppressionCascades
<1> QED
  BY <1>2, StackHolds, PTL

(* The depth guard of handleInclude is exact: the stack never holds more    *)
(* than kMaxIncludeDepth frames, however files include one another.         *)
DepthBounded == Len(include_stack) <= MaxIncludeDepth

(* A file that includes itself, directly or not, stops at the limit.        *)
THEOREM DepthIsBounded == Spec => []DepthBounded
<1>1. StackInv => DepthBounded
  BY DEF StackInv, DepthBounded
<1> QED
  BY <1>1, StackHolds, PTL

(* A conditional emits at most one of its branches, however many `#else`s   *)
(* it has and however it is nested (handleElse and any_branch_taken).       *)
THEOREM OneBranchEach == Spec => OneBranch
<1>1. ASSUME StackInv, [Next]_vars, NEW i \in 1 .. Len(include_stack),
             i <= Len(include_stack'), NEW j \in 1 .. Len(include_stack[i].cond_stack),
             j <= Len(include_stack'[i].cond_stack),
             include_stack[i].cond_stack[j].any_branch_taken,
             ~include_stack[i].cond_stack[j].currently_emitting
      PROVE  ~include_stack'[i].cond_stack[j].currently_emitting
  <2>1. CASE UNCHANGED include_stack
    BY <1>1, <2>1
  <2>2. CASE StackStep
    <3>1. CondStep(include_stack[i].cond_stack, include_stack'[i].cond_stack)
      BY <1>1, <2>2, FrameSteps
    <3>2. include_stack[i].cond_stack \in Seq(Cond) /\ Nested(include_stack[i].cond_stack)
      BY <1>1, FrameConds
    <3> QED
      BY <1>1, <3>1, <3>2, CondStepFacts
  <2> QED
    BY <1>1, <2>1, <2>2, StackSteps DEF StackInv
<1>2. ASSUME StackInv, [Next]_vars
      PROVE  [\A i \in 1..Len(include_stack) :
                i <= Len(include_stack') =>
                  LET old == include_stack[i].cond_stack
                      new == include_stack'[i].cond_stack
                  IN  \A j \in 1..Len(old) :
                        /\ j <= Len(new)
                        /\ old[j].any_branch_taken /\ ~old[j].currently_emitting
                        => ~new[j].currently_emitting]_vars
  BY <1>1, <1>2
<1> QED
  BY <1>2, StackHolds, PTL DEF Spec, OneBranch

----------------------------------------------------------------------------
(* The SourceManager's include stack mirrors the preprocessor's: the same   *)
(* files above the root, each pushed from the line just before the one its  *)
(* includer will read next.                                                 *)
FramesInSync ==
  include_stack # <<>> =>
    /\ Len(sm_include_stack) = Len(include_stack) - 1
    /\ \A i \in 1 .. Len(sm_include_stack) :
         /\ sm_include_stack[i].included = include_stack[i + 1].fid
         /\ sm_include_stack[i].site =
              [file |-> include_stack[i].fid, line |-> include_stack[i].physical_line - 1]

Site == [site : [file : File, line : Nat], included : File]

SyncInv == sm_include_stack \in Seq(Site) /\ FramesInSync

(* A line of the active file leaves the frames the mirror shows alone. *)
LEMMA TurnInSync == ASSUME StackInv, SyncInv, include_stack # <<>>, TurnStep PROVE SyncInv'
<1> DEFINE n == Len(include_stack)
           m == Len(sm_include_stack)
<1>0. /\ include_stack \in Seq(IncludeFrame) /\ n \in Nat \ {0} /\ n \in 1 .. n
      /\ m \in Nat /\ m = n - 1
  BY TopFacts DEF StackInv, Types, SyncInv, FramesInSync
<1>1. PICK f \in IncludeFrame :
         include_stack' = [include_stack EXCEPT ![n] = f] /\ f.fid = include_stack[n].fid
  BY ZenonT(60) DEF TurnStep, SetTop, Top
<1>2. /\ Len(include_stack') = n /\ include_stack'[n] = f
      /\ \A i \in 1 .. n : i # n => include_stack'[i] = include_stack[i]
  BY <1>0, <1>1, SeqUpdate
<1>3. \A i \in 1 .. m : i \in 1 .. n /\ i # n /\ i + 1 \in 1 .. n
  BY <1>0
<1>4. \A i \in 1 .. n : include_stack'[i].fid = include_stack[i].fid
  BY <1>1, <1>2, ZenonT(60)
<1>5. UNCHANGED sm_include_stack
  BY DEF TurnStep
<1>6. Len(sm_include_stack') = Len(include_stack') - 1
  BY <1>0, <1>2, <1>5
<1>7. ASSUME NEW i \in 1 .. m
      PROVE  /\ sm_include_stack'[i].included = include_stack'[i + 1].fid
             /\ sm_include_stack'[i].site =
                  [file |-> include_stack'[i].fid, line |-> include_stack'[i].physical_line - 1]
  <2>1. include_stack'[i] = include_stack[i] /\ include_stack'[i + 1].fid = include_stack[i + 1].fid
    BY <1>2, <1>3, <1>4
  <2> QED
    BY <1>5, <2>1 DEF SyncInv, FramesInSync
<1> QED
  BY <1>5, <1>6, <1>7 DEF SyncInv, FramesInSync

(* handleInclude pushes both stacks. *)
LEMMA EnterInSync == ASSUME StackInv, SyncInv, include_stack # <<>>, EnterStep PROVE SyncInv'
<1> DEFINE n == Len(include_stack)
           m == Len(sm_include_stack)
<1>0. /\ include_stack \in Seq(IncludeFrame) /\ n \in Nat \ {0} /\ n \in 1 .. n
      /\ m \in Nat /\ m = n - 1 /\ sm_include_stack \in Seq(Site)
  BY TopFacts DEF StackInv, Types, SyncInv, FramesInSync
<1>1. PICK f \in IncludeFrame, g \in File :
         /\ f.fid = Top.fid /\ f.physical_line = Top.physical_line + 1
         /\ include_stack' = Append([include_stack EXCEPT ![n] = f], Frame(g))
         /\ sm_include_stack' = Append(sm_include_stack,
              [site |-> [file |-> Top.fid, line |-> Top.physical_line], included |-> g])
  BY DEF EnterStep, Enters
<1> DEFINE below == [include_stack EXCEPT ![n] = f]
           e == [site |-> [file |-> Top.fid, line |-> Top.physical_line], included |-> g]
<1>2. /\ below \in Seq(IncludeFrame) /\ Len(below) = n /\ below[n] = f
      /\ \A i \in 1 .. n : i # n => below[i] = include_stack[i]
  BY <1>0, <1>1, SeqUpdate
<1>3. Top.fid \in File /\ Top.physical_line \in Nat
  BY <1>0, TopFacts DEF IncludeFrame
<1>4. e \in Site /\ e.included = g /\ e.site = [file |-> Top.fid, line |-> Top.physical_line]
  BY <1>3 DEF Site
<1>5. Frame(g) \in IncludeFrame /\ Frame(g).fid = g
  BY FrameFacts
<1>6. include_stack' = Append(below, Frame(g)) /\ sm_include_stack' = Append(sm_include_stack, e)
  BY <1>1
<1> HIDE DEF below, e
<1>7. /\ include_stack' \in Seq(IncludeFrame) /\ Len(include_stack') = n + 1
      /\ \A i \in 1 .. n : include_stack'[i] = below[i]
      /\ include_stack'[n + 1] = Frame(g)
  BY <1>2, <1>5, <1>6, SeqAppend
<1>8. /\ sm_include_stack' \in Seq(Site) /\ Len(sm_include_stack') = m + 1
      /\ \A i \in 1 .. m : sm_include_stack'[i] = sm_include_stack[i]
      /\ sm_include_stack'[m + 1] = e
  BY <1>0, <1>4, <1>6, SeqAppend
<1>9. ASSUME NEW i \in 1 .. (m + 1)
      PROVE  /\ sm_include_stack'[i].included = include_stack'[i + 1].fid
             /\ sm_include_stack'[i].site =
                  [file |-> include_stack'[i].fid, line |-> include_stack'[i].physical_line - 1]
  <2>1. CASE i = m + 1
    <3>1. i = n /\ include_stack'[i] = f /\ include_stack'[i + 1] = Frame(g)
      BY <1>0, <1>2, <1>7, <2>1
    <3>2. f.physical_line - 1 = Top.physical_line
      BY <1>1, <1>3
    <3> QED
      BY <1>1, <1>4, <1>5, <1>8, <2>1, <3>1, <3>2
  <2>2. CASE i # m + 1
    <3>1. i \in 1 .. m /\ i \in 1 .. n /\ i # n /\ i + 1 \in 1 .. n
      BY <1>0, <1>9, <2>2
    <3>2. include_stack'[i] = include_stack[i]
      BY <1>2, <1>7, <3>1
    <3>3. include_stack'[i + 1].fid = include_stack[i + 1].fid
      BY <1>1, <1>2, <1>7, <3>1 DEF Top
    <3> QED
      BY <1>8, <3>1, <3>2, <3>3 DEF SyncInv, FramesInSync
  <2> QED
    BY <2>1, <2>2
<1>10. Len(sm_include_stack') = Len(include_stack') - 1
  BY <1>0, <1>7, <1>8
<1> QED
  BY <1>8, <1>9, <1>10 DEF SyncInv, FramesInSync

(* The end of a file pops both, except at the end of the input. *)
LEMMA LeaveInSync == ASSUME StackInv, SyncInv, include_stack # <<>>, LeaveStep PROVE SyncInv'
<1> DEFINE n == Len(include_stack)
           m == Len(sm_include_stack)
<1>0. /\ include_stack \in Seq(IncludeFrame) /\ n \in Nat \ {0}
      /\ m \in Nat /\ m = n - 1 /\ sm_include_stack \in Seq(Site)
  BY TopFacts DEF StackInv, Types, SyncInv, FramesInSync
<1>1. /\ include_stack' \in Seq(IncludeFrame) /\ Len(include_stack') = n - 1
      /\ \A i \in 1 .. (n - 1) : include_stack'[i] = include_stack[i]
  BY <1>0, SeqFront DEF LeaveStep
<1>2. CASE n = 1
  <2>1. include_stack' = <<>> /\ UNCHANGED sm_include_stack
    BY <1>1, <1>2 DEF LeaveStep
  <2> QED
    BY <1>0, <2>1 DEF SyncInv, FramesInSync
<1>3. CASE n # 1
  <2>1. sm_include_stack # <<>>
    BY <1>0, <1>3
  <2>2. /\ sm_include_stack' \in Seq(Site) /\ Len(sm_include_stack') = m - 1
        /\ \A i \in 1 .. (m - 1) : sm_include_stack'[i] = sm_include_stack[i]
    BY <1>0, <1>3, <2>1, SeqFront, ZenonT(60) DEF LeaveStep, PopIncludeFrame
  <2>3. \A i \in 1 .. (m - 1) : i \in 1 .. m /\ i \in 1 .. (n - 1) /\ i + 1 \in 1 .. (n - 1)
    BY <1>0
  <2>4. ASSUME NEW i \in 1 .. (m - 1)
        PROVE  /\ sm_include_stack'[i].included = include_stack'[i + 1].fid
               /\ sm_include_stack'[i].site =
                    [file |-> include_stack'[i].fid, line |-> include_stack'[i].physical_line - 1]
    <3>1. /\ sm_include_stack'[i] = sm_include_stack[i]
          /\ include_stack'[i] = include_stack[i] /\ include_stack'[i + 1] = include_stack[i + 1]
      BY <1>1, <2>2, <2>3
    <3> QED
      BY <2>3, <3>1 DEF SyncInv, FramesInSync
  <2>5. Len(sm_include_stack') = Len(include_stack') - 1
    BY <1>0, <1>1, <2>2
  <2> QED
    BY <2>2, <2>4, <2>5 DEF SyncInv, FramesInSync
<1> QED
  BY <1>2, <1>3

(* popIncludeFrame never meets an empty stack, and the notes of a           *)
(* diagnostic are taken from the chain of files that are really open.       *)
THEOREM StacksInSync == Spec => []FramesInSync
<1>1. Init => SyncInv
  BY DEF Init, SMInit, SyncInv, FramesInSync
<1>2. ASSUME StackInv, SyncInv, [Next]_vars PROVE SyncInv'
  <2>1. CASE UNCHANGED <<include_stack, sm_include_stack>>
    BY <1>2, <2>1 DEF SyncInv, FramesInSync
  <2>2. CASE StackStep
    BY <1>2, <2>2, TurnInSync, EnterInSync, LeaveInSync DEF StackStep
  <2> QED
    BY <1>2, <2>1, <2>2, StackSteps DEF StackInv
<1>3. SyncInv => FramesInSync
  BY DEF SyncInv
<1> QED
  BY <1>1, <1>2, <1>3, StackHolds, PTL DEF Spec

----------------------------------------------------------------------------
(* Readings.  The steps do to the include stack what Turned, Entered and Left say. *)
LEMMA TurnFrames ==
  ASSUME include_stack \in Seq(IncludeFrame), include_stack # <<>>, TurnStep
  PROVE  Turned(include_stack, include_stack')
<1> DEFINE n == Len(include_stack)
<1>0. n \in Nat \ {0} /\ n \in 1 .. n
  BY TopFacts
<1>1. PICK f \in IncludeFrame :
         /\ include_stack' = [include_stack EXCEPT ![n] = f]
         /\ f.fid = include_stack[n].fid
         /\ f.physical_line = include_stack[n].physical_line + 1
  BY ZenonT(60) DEF TurnStep, SetTop, Top
<1>2. /\ include_stack' \in Seq(IncludeFrame) /\ Len(include_stack') = n
      /\ include_stack'[n] = f
      /\ \A i \in 1 .. n : i # n => include_stack'[i] = include_stack[i]
  BY <1>0, <1>1, SeqUpdate
<1> QED
  BY <1>1, <1>2, ZenonT(60) DEF Turned

(* An `#include` that is followed: *)
LEMMA EnterFrames ==
  ASSUME include_stack \in Seq(IncludeFrame), include_stack # <<>>, NEW g \in File, Enters(g)
  PROVE  Entered(include_stack, include_stack', g)
<1> DEFINE n == Len(include_stack)
<1>0. n \in Nat \ {0} /\ n \in 1 .. n
  BY TopFacts
<1>1. PICK f \in IncludeFrame :
         /\ f.fid = include_stack[n].fid
         /\ f.physical_line = include_stack[n].physical_line + 1
         /\ include_stack' = Append([include_stack EXCEPT ![n] = f], Frame(g))
  BY DEF Enters, Top
<1> DEFINE m == [include_stack EXCEPT ![n] = f]
<1>2. /\ m \in Seq(IncludeFrame) /\ Len(m) = n /\ m[n] = f
      /\ \A i \in 1 .. n : i # n => m[i] = include_stack[i]
  BY <1>0, SeqUpdate
<1>3. Frame(g) \in IncludeFrame /\ Frame(g).fid = g /\ Frame(g).physical_line = 1
  BY FrameFacts DEF Frame
<1>4. include_stack' = Append(m, Frame(g))
  BY <1>1
<1> HIDE DEF m
<1>5. /\ include_stack' \in Seq(IncludeFrame) /\ Len(include_stack') = n + 1
      /\ \A i \in 1 .. n : include_stack'[i] = m[i]
      /\ include_stack'[n + 1] = Frame(g)
  BY <1>2, <1>3, <1>4, SeqAppend
<1>6. \A i \in 1 .. n : /\ include_stack'[i].fid = include_stack[i].fid
                         /\ i # n => include_stack'[i] = include_stack[i]
  BY <1>1, <1>2, <1>5, ZenonT(60)
<1> QED
  BY <1>0, <1>1, <1>2, <1>3, <1>5, <1>6 DEF Entered

(* the end of a file: *)
LEMMA LeaveFrames ==
  ASSUME include_stack \in Seq(IncludeFrame), include_stack # <<>>, LeaveStep
  PROVE  Left(include_stack, include_stack')
  BY SeqFront DEF LeaveStep, Left

----------------------------------------------------------------------------
(* The readings the properties count are the ones of the output. *)
LEMMA ReadingsRead == \A f : Readings(f) = Read(output, f) /\ (Reread(f) <=> Twice(output, f))
  BY DEF Readings, Read, Reread, Twice

----------------------------------------------------------------------------
(* What the output and the overrides are made of. *)
OutTypes == output \in Seq(Item) /\ line_overrides \in [File -> SUBSET LineOverride]

(* The inductive invariant: the output, the overrides and the stack agree   *)
(* on who has been read how often, and an abort is in a file read twice.    *)
ReadInv ==
  /\ OutTypes
  /\ ReadOK(include_stack, output, line_overrides)
  /\ status = "abort" => include_stack # <<>> /\ Twice(output, Top.fid)

(* What is emitted makes the output grow. *)
LEMMA OutputGrows ==
  ASSUME OutTypes, Emits PROVE output' \in Seq(Item) /\ Grown(output, output')
<1>1. Grown(output, output)
  BY DEF Grown
<1>2. ASSUME NEW items \in Seq(Item), Emit(items)
      PROVE  output' \in Seq(Item) /\ Grown(output, output')
  BY <1>2, EmitGrows, ZenonT(60) DEF OutTypes, Emit
<1> QED
  BY <1>1, <1>2 DEF OutTypes, Emits

(* A line keeps the invariant. *)
LEMMA LineReads ==
  ASSUME Types, ReadInv, status = "running", include_stack # <<>>,
         PlainOut \/ MarkOut \/ AbortOut \/ EnterOut
  PROVE  ReadInv'
<1> DEFINE n == Len(include_stack)
<1>0. /\ include_stack \in Seq(IncludeFrame)
      /\ Top.fid \in File /\ Top.physical_line \in Nat \ {0} /\ Top = include_stack[n]
      /\ OutTypes /\ line_overrides \in Overrides /\ output \in Seq(Item)
      /\ ReadOK(include_stack, output, line_overrides)
  BY TopFacts DEF Types, IncludeFrame, ReadInv, OutTypes, Overrides, Top
<1>1. CASE PlainOut
  <2>1. output' \in Seq(Item) /\ Grown(output, output')
    BY <1>0, <1>1, OutputGrows DEF PlainOut
  <2>2. /\ Turned(include_stack, include_stack') /\ status' = "running"
        /\ line_overrides' = line_overrides
    BY <1>0, <1>1, TurnFrames DEF PlainOut
  <2>3. ReadOK(include_stack', output', line_overrides')
    BY <1>0, <2>1, <2>2, TurnReads
  <2> QED
    BY <1>0, <2>1, <2>2, <2>3 DEF ReadInv, OutTypes
<1>2. CASE MarkOut
  <2>1. output' \in Seq(Item) /\ Grown(output, output')
    BY <1>0, <1>2, OutputGrows DEF MarkOut
  <2>2. Turned(include_stack, include_stack') /\ status' = "running"
    BY <1>0, <1>2, TurnFrames DEF MarkOut
  <2>3. PICK o \in LineOverride :
          /\ o.at = Top.physical_line + 1
          /\ line_overrides' = [line_overrides EXCEPT ![Top.fid] = @ \cup {o}]
    <3>1. PICK k \in Nat, path \in {Alias, NoPath} :
            AddLineDirective(Top.fid, Top.physical_line + 1, k, path)
      BY <1>2 DEF MarkOut
    <3>2. LET o == Override(k, path, Top.physical_line + 1)
          IN  o \in LineOverride /\ o.at = Top.physical_line + 1
      BY <1>0 DEF Override, LineOverride
    <3> QED
      BY <3>1, <3>2, ZenonT(60) DEF AddLineDirective
  <2>4. ReadOK(include_stack', output', [line_overrides EXCEPT ![Top.fid] = @ \cup {o}])
    <3>1. o.at = include_stack[n].physical_line + 1 /\ Top.fid = include_stack[n].fid
      BY <1>0, <2>3
    <3> QED
      BY <1>0, <2>1, <2>2, <3>1, MarkReads, ZenonT(60)
  <2>5. line_overrides' \in Overrides
    <3>1. line_overrides[Top.fid] \cup {o} \in SUBSET LineOverride
      BY <1>0 DEF Overrides
    <3> QED
      BY <1>0, <2>3, <3>1 DEF Overrides
  <2> QED
    BY <2>1, <2>2, <2>3, <2>4, <2>5, ZenonT(60) DEF ReadInv, OutTypes, Overrides
<1>3. CASE AbortOut
  <2>1. PICK o \in line_overrides[Top.fid] : ~(o.at < Top.physical_line + 1)
    BY <1>3 DEF AbortOut, InOrder
  <2>2. o.at \in Nat
    BY <1>0, <2>1 DEF Overrides, LineOverride
  <2>3. ~(o.at <= Top.physical_line)
    BY <1>0, <2>1, <2>2
  <2>4. Twice(output, Top.fid)
    BY <1>0, <2>1, <2>3, TopFacts DEF ReadOK
  <2> QED
    BY <1>0, <1>3, <2>4 DEF AbortOut, ReadInv, OutTypes, Overrides, Top
<1>4. CASE EnterOut
  <2>1. PICK g \in File : /\ Enters(g) /\ status' = "running"
                           /\ line_overrides' = line_overrides
                           /\ output' = output \o <<LineDirective(1, g)>>
    BY <1>4 DEF EnterOut, Emit
  <2>2. Entered(include_stack, include_stack', g)
    BY <1>0, <2>1, EnterFrames
  <2>3. output' \in Seq(Item) /\ Grown(output, output')
    <3>1. <<LineDirective(1, g)>> \in Seq(Item)
      BY ItemsEmitted
    <3> QED
      BY <1>0, <2>1, <3>1, EmitGrows, ZenonT(60)
  <2>4. Read(output', g) # {} /\ (Read(output, g) # {} => Twice(output', g))
    BY <1>0, <2>1, Announces, ZenonT(60)
  <2>5. ReadOK(include_stack', output', line_overrides')
    <3>1. ReadOK(include_stack', output', line_overrides)
      BY <1>0, <2>2, <2>3, <2>4, EnterReads
    <3> QED
      BY <2>1, <3>1, ZenonT(60)
  <2> QED
    BY <1>0, <2>1, <2>3, <2>5 DEF ReadInv, OutTypes
<1> QED
  BY <1>1, <1>2, <1>3, <1>4

(* So does the end of a file. *)
LEMMA EndReads ==
  ASSUME Types, ReadInv, status = "running", include_stack # <<>>, LeaveOut PROVE ReadInv'
<1>0. /\ include_stack \in Seq(IncludeFrame)
      /\ OutTypes /\ line_overrides \in Overrides
      /\ ReadOK(include_stack, output, line_overrides)
  BY DEF Types, ReadInv, OutTypes, Overrides
<1>1. /\ Left(include_stack, include_stack') /\ status' = "running"
      /\ line_overrides' = line_overrides
  BY <1>0, LeaveFrames DEF LeaveOut
<1>2. output' \in Seq(Item) /\ Grown(output, output')
  BY <1>0, OutputGrows DEF LeaveOut
<1>3. ReadOK(include_stack', output', line_overrides')
  BY <1>0, <1>1, <1>2, LeaveReads
<1> QED
  BY <1>0, <1>1, <1>2, <1>3 DEF ReadInv, OutTypes

(* Before the first line the input file is being read for the first time. *)
LEMMA ReadInit == Init => ReadInv
<1> SUFFICES ASSUME Init PROVE ReadInv
  OBVIOUS
<1>1. output = <<>> /\ line_overrides = [f \in File |-> {}] /\ status = "running"
  BY DEF Init, SMInit
<1>2. OutTypes
  BY <1>1 DEF OutTypes
<1>3. /\ Len(include_stack) = 1 /\ include_stack[1].fid = Root
  BY DEF Init, Frame
<1>4. 0 \in Read(output, Root) /\ Root \in File
  BY RootIsFile DEF Read
<1>5. \A i, j \in 1 .. 1 : i = j
  OBVIOUS
<1>6. ReadOK(include_stack, output, line_overrides)
  BY <1>1, <1>3, <1>4, <1>5 DEF ReadOK
<1> QED
  BY <1>1, <1>2, <1>6 DEF ReadInv

(* Every step keeps the invariant. *)
LEMMA ReadKept == ASSUME Types, ReadInv, [Next]_vars PROVE ReadInv'
<1>1. CASE ReadLine
  BY <1>1, LineOut, LineReads DEF ReadLine
<1>2. CASE EndOfFile
  BY <1>2, EndOut, EndReads DEF EndOfFile
<1>3. CASE Return
  BY <1>3 DEF Return, smVars, ReadInv, OutTypes, Top
<1>4. CASE UNCHANGED vars
  BY <1>4 DEF vars, smVars, ReadInv, OutTypes, Top
<1> QED
  BY <1>1, <1>2, <1>3, <1>4 DEF Next, Step, Done

(* So it always holds. *)
LEMMA ReadHolds == Spec => []ReadInv
<1>1. StackInv => Types
  BY DEF StackInv
<1> QED
  BY <1>1, StackHolds, ReadInit, ReadKept, PTL DEF Spec

(* addLineDirective aborts the process in a file that is read again, and in *)
(* no other case: the overrides of a file that has been entered once stay   *)
(* behind the line its only reader is at.                                   *)
THEOREM AbortMeansReread == Spec => []AbortsOnReinclusionOnly
<1>1. ReadInv => AbortsOnReinclusionOnly
  BY ReadingsRead DEF ReadInv, AbortsOnReinclusionOnly
<1> QED
  BY <1>1, ReadHolds, PTL
=============================================================================
