-------------------------------- MODULE Parser --------------------------------
(***************************************************************************)
(* lib/Parse: the recursive-descent parser running the rules of Grammar,    *)
(* with its call stack, its lookahead, and its error recovery.  The input   *)
(* is not fixed: a token is chosen when the lexer is first asked for it.    *)
(***************************************************************************)
EXTENDS Grammar, Functions

CONSTANT Kinds   \* for each position of the input, the kinds its token may have

ASSUME KindsAssumption == Kinds \in Seq(SUBSET (Kind \ {"eof"}))

(* Bound: the longest input.                                                *)
MaxTokens == Len(Kinds)

VARIABLES stack,     \* the parse functions being executed, innermost last
          ret,       \* "run", what a call returned ("ok", "null"), or the phase of a loop
          la,        \* Lexer::Impl::peek_cache
          at,        \* how many tokens have been consumed
          errors,    \* DiagnosticEngine::hasError
          pending,   \* pendingExtraDecls_: the kinds of declaration in it
          decl       \* parseInternalDecl's local k

vars == <<stack, ret, la, at, errors, pending, decl>>

Floored == {"expr", "led", "ledSign", "ledZero", "ledInc", "ledCond", "ledOr", "ledAdd",
            "ledMul"}

Frame(r, floor) ==
  [rule |-> r, pc |-> 1, floor |-> IF r \in Floored THEN floor ELSE 0, mark |-> 0]

Init ==
  /\ stack = <<Frame("unit", 0)>>
  /\ ret = "run"
  /\ la = <<>>
  /\ at = 0
  /\ errors = FALSE
  /\ pending = {}
  /\ decl = "none"

----------------------------------------------------------------------------
Top == stack[Len(stack)]

Running == ret = "run" /\ stack # <<>>

InBody == Top.rule \notin Dispatchers /\ Top.pc <= Len(Body[Top.rule])

Instr == Body[Top.rule][Top.pc]

At(op) == stack # <<>> /\ InBody /\ Instr.op = op

Caller == SubSeq(stack, 1, Len(stack) - 1)

WithTop(f) == Append(Caller, f)

Advanced == WithTop([Top EXCEPT !.pc = @ + 1])

(* A call in tail position replaces the frame: what it returns is returned. *)
Invoke(r, floor) ==
  IF Top.pc = Len(Body[Top.rule])
  THEN WithTop(Frame(r, floor))
  ELSE Append(stack, Frame(r, floor))

(* currentRecoverySet: the union of the guards of the functions being       *)
(* executed.  A guard is pushed right before the loop over the items.       *)
Guard == [unit |-> kTopLevel, declareBlock |-> kDeclareItem,
          moduleBlock |-> kModuleItem, seqBlock |-> kSeqItem]

Guarding(f) == f.rule \in DOMAIN Guard /\ \E i \in 1..f.pc :
                 i \in DOMAIN Body[f.rule] /\ Body[f.rule][i] = Items

InnermostRecoverySet ==
  LET G == {j \in DOMAIN stack : Guarding(stack[j])}
  IN  UNION {Guard[stack[i].rule] : i \in {j \in G : \A h \in G : h <= j}}

currentRecoverySet ==
  UNION {Guard[stack[i].rule] : i \in {j \in DOMAIN stack : Guarding(stack[j])}}

ItemRule ==
  [unit |-> "unitItem", structDecl |-> "member", declareBlock |-> "declareItem",
   moduleBlock |-> "moduleItem", parallelBlock |-> "parallelItem", altBlock |-> "caseItem",
   anyBlock |-> "caseItem", seqBlock |-> "seqItem", whileBlock |-> "loopItem",
   forBlock |-> "loopItem", initBlock |-> "action"]

(* These loops test for end of input before they drop line markers, not     *)
(* after.                                                                   *)
TestsEofFirst == {"structDecl", "declareBlock", "moduleBlock"}

Peeks == ret \in {"run", "marked", "skip"} \/ (ret = "ok" /\ At("items"))

(* How many tokens the next step looks at.                                  *)
Needed ==
  IF stack = <<>> \/ ~Peeks THEN 0
  ELSE IF Top.rule \in Dispatchers THEN Lookahead(Top.rule, la)
  ELSE IF At("expect") \/ At("call") \/ At("many") \/ At("try") \/ At("items") THEN 1
  ELSE 0

Looked == Len(la) >= Needed

----------------------------------------------------------------------------
(* Lexer::peek: after the end of the input the lexer answers eof for ever.  *)
Lex ==
  /\ ~Looked
  /\ LET i == at + Len(la) + 1
         More == IF i > MaxTokens \/ "eof" \in Range(la) THEN {} ELSE Kinds[i]
     IN  \E k \in More \cup {"eof"} : la' = Append(la, k)
  /\ UNCHANGED <<stack, ret, at, errors, pending, decl>>

(* Lexer::next                                                              *)
Consume == la' = Tail(la) /\ at' = at + 1

Stay == UNCHANGED <<la, at>>

ExpectStep ==
  /\ Running /\ Looked /\ At("expect")
  /\ IF la[1] \in Instr.on
     THEN Consume /\ stack' = Advanced /\ UNCHANGED <<ret, errors>>
     ELSE Stay /\ stack' = Caller /\ ret' = "null" /\ errors' = TRUE
  /\ UNCHANGED <<pending, decl>>

CallStep ==
  /\ Running /\ Looked /\ At("call")
  /\ LET r == IF la[1] \in Instr.on THEN Instr.yes ELSE Instr.no
     IN  stack' = IF r = "none" THEN Advanced
                  ELSE Invoke(r, IF r = "expr" THEN Instr.floor ELSE Top.floor)
  /\ UNCHANGED <<ret, la, at, errors, pending, decl>>

ManyStep ==
  /\ Running /\ Looked /\ At("many")
  /\ stack' = IF la[1] \in Instr.on THEN Append(stack, Frame(Instr.yes, 0)) ELSE Advanced
  /\ UNCHANGED <<ret, la, at, errors, pending, decl>>

TryStep ==
  /\ Running /\ Looked /\ At("try")
  /\ stack' = IF la[1] \in Instr.on THEN Append(stack, Frame(Instr.yes, 0)) ELSE Advanced
  /\ UNCHANGED <<ret, la, at, errors, pending, decl>>

ReportStep ==
  /\ Running /\ At("report")
  /\ stack' = Advanced
  /\ errors' = TRUE
  /\ UNCHANGED <<ret, la, at, pending, decl>>

DeferStep ==
  /\ Running /\ At("defer")
  /\ stack' = Advanced
  /\ pending' = pending \cup {decl}
  /\ UNCHANGED <<ret, la, at, errors, decl>>

DrainStep ==
  /\ Running /\ At("drain")
  /\ stack' = Advanced
  /\ pending' = {}
  /\ UNCHANGED <<ret, la, at, errors, decl>>

EnterKeepsPending(r) ==
  IF r = "internalDecl" THEN pending' = pending /\ decl' = la[1]
  ELSE UNCHANGED <<pending, decl>>

(* What parseInternalDecl does before it looks at the token.                *)
Enter(r) ==
  IF r = "internalDecl" THEN pending' = {} /\ decl' = la[1]
  ELSE UNCHANGED <<pending, decl>>

DispatchStepQuiet ==
  /\ Running /\ Looked /\ Top.rule \in Dispatchers
  /\ LET r == Choice(Top.rule, la, Top.floor)
     IN  CASE r = "error" -> stack' = Caller /\ ret' = "null"
           [] r = "none"  -> stack' = Caller /\ ret' = "ok"
           [] OTHER       -> stack' = WithTop(Frame(r, Top.floor)) /\ UNCHANGED ret
  /\ Enter(Top.rule)
  /\ UNCHANGED <<la, at, errors>>

DispatchStep ==
  /\ Running /\ Looked /\ Top.rule \in Dispatchers
  /\ LET r == Choice(Top.rule, la, Top.floor)
     IN  CASE r = "error" -> stack' = Caller /\ ret' = "null" /\ errors' = TRUE
           [] r = "none"  -> stack' = Caller /\ ret' = "ok" /\ UNCHANGED errors
           [] OTHER       -> stack' = WithTop(Frame(r, Top.floor)) /\ UNCHANGED <<ret, errors>>
  /\ Enter(Top.rule)
  /\ UNCHANGED <<la, at>>

ReturnOk ==
  /\ Running /\ Top.rule \notin Dispatchers /\ ~InBody
  /\ stack' = Caller
  /\ ret' = "ok"
  /\ UNCHANGED <<la, at, errors, pending, decl>>

(* The caller looks at what the call returned.                              *)
Resume ==
  /\ ret = "ok"
  /\ \/ (At("call") \/ At("try")) /\ stack' = Advanced
     \/ At("many") /\ UNCHANGED stack
  /\ ret' = "run"
  /\ UNCHANGED <<la, at, errors, pending, decl>>

Fail ==
  /\ ret = "null"
  /\ \/ /\ At("call") \/ At("many") \/ (At("items") /\ Top.rule = "structDecl")
        /\ stack' = Caller /\ UNCHANGED ret
     \/ At("try") /\ stack' = Advanced /\ ret' = "run"
  /\ UNCHANGED <<la, at, errors, pending, decl>>

----------------------------------------------------------------------------
(* The loop over the items of a block.                                      *)

AtLoop == ret \in {"run", "marked"} /\ Looked /\ At("items")

LeavesLoopAtBrace(k) == k \in {"}", "eof"}

LeavesLoop(k) ==
  \/ k = "eof" /\ ret # "marked"
  \/ k = "}" /\ Top.rule # "unit"

DropMarker ==
  /\ AtLoop
  /\ la[1] = "line"
  /\ Consume
  /\ ret' = IF Top.rule \in TestsEofFirst THEN "marked" ELSE "run"
  /\ UNCHANGED <<stack, errors, pending, decl>>

LeaveLoop ==
  /\ AtLoop
  /\ LeavesLoop(la[1])
  /\ stack' = Advanced
  /\ ret' = "run"
  /\ UNCHANGED <<la, at, errors, pending, decl>>

(* parseParallelBlock remembers where the iteration started.                *)
ParseItem ==
  /\ AtLoop
  /\ la[1] # "line"
  /\ ~LeavesLoop(la[1])
  /\ LET f == IF Top.rule = "parallelBlock" THEN [Top EXCEPT !.mark = at] ELSE Top
     IN  stack' = Append(WithTop(f), Frame(ItemRule[Top.rule], 0))
  /\ ret' = "run"
  /\ UNCHANGED <<la, at, errors, pending, decl>>

ItemFailed ==
  /\ ret = "null" /\ At("items") /\ Top.rule # "structDecl"
  /\ ret' = "skip"
  /\ UNCHANGED <<stack, la, at, errors, pending, decl>>

Recovered == la[1] = "eof" \/ la[1] \in currentRecoverySet

skipUntil ==
  /\ ret = "skip" /\ Looked /\ At("items")
  /\ ~Recovered
  /\ Consume
  /\ UNCHANGED <<stack, ret, errors, pending, decl>>

(* After the skip: which tokens end the block, as if its end had been seen. *)
Unwinds(k) ==
  CASE Top.rule = "unit" -> k = "eof"
    [] Top.rule \in {"declareBlock", "moduleBlock", "seqBlock"} ->
         k = "eof" \/ k \notin Guard[Top.rule]
    [] OTHER -> k \in {"}", "eof"}

Separator == IF Top.rule = "unit" THEN {";", "}"} ELSE {";"}

SpunNever == FALSE

(* parseParallelBlock consumes a token when an iteration did not.           *)
Spun == Top.rule = "parallelBlock" /\ Top.mark = at /\ la[1] \notin {"eof", "}"}

Unmarked == WithTop([Top EXCEPT !.mark = 0])

Resynced ==
  /\ ret = "skip" /\ Looked /\ At("items")
  /\ Recovered
  /\ IF Unwinds(la[1])
     THEN Stay /\ stack' = Advanced
     ELSE /\ stack' = Unmarked
          /\ IF la[1] \in Separator \/ Spun THEN Consume ELSE Stay
  /\ ret' = "run"
  /\ UNCHANGED <<errors, pending, decl>>

Iterate ==
  /\ ret = "ok" /\ Looked /\ At("items")
  /\ stack' = Unmarked
  /\ IF Spun THEN Consume ELSE Stay
  /\ ret' = "run"
  /\ UNCHANGED <<errors, pending, decl>>

Returned == stack = <<>>

Done == Returned /\ UNCHANGED vars

Step ==
  \/ Lex
  \/ ExpectStep \/ CallStep \/ ManyStep \/ TryStep \/ ReportStep \/ DeferStep \/ DrainStep
  \/ DispatchStep \/ ReturnOk \/ Resume \/ Fail
  \/ DropMarker \/ LeaveLoop \/ ParseItem \/ ItemFailed \/ skipUntil \/ Resynced \/ Iterate

Next == Step \/ Done

Spec == Init /\ [][Next]_vars

FairSpec == Spec /\ WF_vars(Step)

----------------------------------------------------------------------------
(* A parse function that gives up has reported an error: recovery never     *)
(* drops part of the program while the driver, which only asks hasError,    *)
(* goes on to compile the rest.                                             *)
NoSilentFailure == ret \in {"null", "skip"} => errors

(* parseCompilationUnit returns only at the end of the input: whatever the  *)
(* recovery did, no trailing text is left unread.                           *)
WholeInputRead == Returned => la # <<>> /\ la[1] = "eof"

(* The declarators a caller takes from pendingExtraDecls_ are those of the  *)
(* declaration just parsed, never left over from one that failed or from    *)
(* the body of a `while` or `for`, which does not take them.                *)
DrainedIsOwn == Running /\ At("drain") => pending \subseteq {decl}

(* The rule that starts with each top-level keyword.                        *)
KeywordOwner ==
  "struct" :> "structDecl" @@ "declare" :> "declareBlock" @@ "module" :> "moduleBlock"

(* A keyword that starts a top-level item is consumed only by the rule it   *)
(* starts, by the iteration guard of a parallel block, or inside the        *)
(* skipped parameters of a later submodule instance; error recovery by      *)
(* skipping never passes over one.                                          *)
TopKeywordsKept ==
  [][la # <<>> /\ la[1] \in kTopLevel \ {"eof"} /\ Len(la') < Len(la) =>
       \/ Top.rule \in {"parallelBlock", "anyToken"}
       \/ IF la[1] = "param" THEN Top.rule \in {"topLevelParam", "paramNames"}
          ELSE Top.rule = KeywordOwner[la[1]]]_vars

(* The loops without the iteration guard, stopped at a token at which an    *)
(* enclosing block would resume but which starts none of their items.       *)
Unguarded == {"altBlock", "anyBlock", "whileBlock", "forBlock", "initBlock"}

Starts(r) ==
  CASE r \in {"altBlock", "anyBlock"}   -> {"if"}
    [] r \in {"whileBlock", "forBlock"} -> kSeqItem \cup InternalDeclStart
    [] OTHER                            -> kSeqItem

Stuck ==
  /\ ret = "run" /\ At("items") /\ Top.rule \in Unguarded
  /\ la # <<>>
  /\ la[1] \in currentRecoverySet \ ({";", "}", "eof"} \cup Starts(Top.rule))

(* Parsing ends, but for those loops: everywhere else each error is         *)
(* followed by progress through the input.                                  *)
EndsOrStuck == <>(Returned \/ Stuck)

(* parseCompilationUnit returns (the partial unit, when there are errors).  *)
Ends == <>Returned

=============================================================================
