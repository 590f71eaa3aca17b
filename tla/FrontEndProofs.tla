---------------------------- MODULE FrontEndProofs ----------------------------
(***************************************************************************)
(* What the parser's recovery promises, for inputs of any length, and what *)
(* the symbol table promises to every client, however many scopes it opens *)
(* and whatever it declares.  Nothing is assumed of the grammar beyond the *)
(* rule of parseCompilationUnit.                                           *)
(***************************************************************************)
EXTENDS Parser, SymbolTable, TLAPS

\* The provers a leaf is given to, one after the other, and their time.
USE SMTT(60), Z3T(60), ZenonT(60)

(* A sequence, of whatever elements: the frames carry rules of the grammar, *)
(* whose shape the proofs do not depend on.                                 *)
IsSeq(s) == \E S : s \in Seq(S)

UnitFrame == [rule : {"unit"}, pc : {1, 2}, floor : {0}, mark : {0}]

(* parseCompilationUnit is the outermost function being executed; it calls  *)
(* others from its loop only, leaves the loop at the end of the input only, *)
(* and then returns.                                                        *)
UnitAtBottom ==
  /\ IsSeq(stack)
  /\ IsSeq(la)
  /\ stack # <<>> =>
       /\ stack[1] \in UnitFrame
       /\ Len(stack) > 1 => stack[1].pc = 1
       /\ stack[1].pc = 2 => ret = "run" /\ la # <<>> /\ la[1] = "eof"
  /\ stack = <<>> => ret = "ok" /\ la # <<>> /\ la[1] = "eof"

----------------------------------------------------------------------------
(* What pushing a frame or a scope, or peeking one more token, leaves alone. *)
LEMMA AppendFacts ==
  ASSUME NEW s, IsSeq(s), NEW e
  PROVE  /\ IsSeq(Append(s, e))
         /\ Append(s, e) # <<>>
         /\ Len(Append(s, e)) = Len(s) + 1
         /\ s # <<>> => Append(s, e)[1] = s[1]
         /\ s = <<>> => Append(s, e)[1] = e
         /\ \A i \in 1 .. Len(s) : Append(s, e)[i] = s[i]
         /\ Append(s, e)[Len(s) + 1] = e
<1>1. PICK S : s \in Seq(S)
  BY DEF IsSeq
<1>2. Append(s, e) \in Seq(S \cup {e})
  BY <1>1
<1>3. IsSeq(Append(s, e))
  BY <1>2 DEF IsSeq
<1>4. QED
  BY <1>1, <1>3

(* What returning from a function leaves alone.                             *)
LEMMA ButLastFacts ==
  ASSUME NEW s, IsSeq(s), s # <<>>
  PROVE  /\ IsSeq(SubSeq(s, 1, Len(s) - 1))
         /\ Len(s) \in Nat \ {0}
         /\ Len(s) = 1 \/ Len(s) > 1
         /\ Len(s) = 1 => SubSeq(s, 1, Len(s) - 1) = <<>>
         /\ Len(s) > 1 => /\ SubSeq(s, 1, Len(s) - 1) # <<>>
                          /\ SubSeq(s, 1, Len(s) - 1)[1] = s[1]
                          /\ Len(SubSeq(s, 1, Len(s) - 1)) = Len(s) - 1
<1>1. PICK S : s \in Seq(S)
  BY DEF IsSeq
<1>2. Len(s) \in Nat \ {0}
  BY <1>1
<1>3. SubSeq(s, 1, Len(s) - 1) \in Seq(S)
  BY <1>1, <1>2
<1>4. IsSeq(SubSeq(s, 1, Len(s) - 1))
  BY <1>3 DEF IsSeq
<1>5. Len(s) = 1 => SubSeq(s, 1, Len(s) - 1) = <<>>
  BY <1>1
<1>6. Len(s) > 1 => Len(SubSeq(s, 1, Len(s) - 1)) = Len(s) - 1
  BY <1>1, <1>2
<1>7. Len(s) > 1 => SubSeq(s, 1, Len(s) - 1)[1] = s[1]
  BY <1>1, <1>2
<1>8. \A t \in Seq(S) : Len(t) >= 1 => t # <<>>
  OBVIOUS
<1>9. Len(s) > 1 => SubSeq(s, 1, Len(s) - 1) # <<>>
  <2>1. Len(s) > 1 => Len(SubSeq(s, 1, Len(s) - 1)) >= 1
    BY <1>2, <1>6
  <2>2. QED
    BY <2>1, <1>3, <1>8, ZenonT(60)
<1>10. Len(s) = 1 \/ Len(s) > 1
  <2>1. \A n \in Nat \ {0} : n = 1 \/ n > 1
    OBVIOUS
  <2>2. QED
    BY <1>2, <2>1, ZenonT(60)
<1>11. QED
  BY <1>2, <1>4, <1>5, <1>6, <1>7, <1>9, <1>10

(* What consuming a token leaves alone.                                     *)
LEMMA TailIsSeq ==
  ASSUME NEW s, IsSeq(s), s # <<>>
  PROVE  IsSeq(Tail(s))
<1>1. PICK S : s \in Seq(S)
  BY DEF IsSeq
<1>2. Tail(s) \in Seq(S)
  BY <1>1
<1>3. QED
  BY <1>2 DEF IsSeq

(* parseCompilationUnit is its loop over the top-level items.               *)
LEMMA UnitBody == Body["unit"] = <<Items>>
<1>1. "unit" \in DOMAIN UnitRules /\ UnitRules["unit"] = <<Items>>
  BY DEF UnitRules
<1>2. QED
  BY <1>1 DEF Body

(* Its frame is in the loop, or has left it.                                *)
LEMMA UnitSteps ==
  ASSUME UnitAtBottom, stack # <<>>, Len(stack) = 1
  PROVE  /\ Top = stack[1]
         /\ Top \in UnitFrame
         /\ Top.rule \notin Dispatchers
         /\ Top.pc = 1 => InBody /\ At("items")
         /\ Top.pc = 2 => ~InBody
         /\ \A op \in {"expect", "call", "many", "try", "report", "defer", "drain"} : ~At(op)
<1>1. Top = stack[1] /\ Top \in UnitFrame /\ Top.rule = "unit" /\ Top.pc \in {1, 2}
  BY DEF UnitAtBottom, Top, UnitFrame
<1>2. Top.rule \notin Dispatchers
  BY <1>1 DEF Dispatchers
<1>3. Len(Body[Top.rule]) = 1 /\ Body[Top.rule][1] = Items
  BY <1>1, UnitBody
<1>4. Top.pc = 2 => ~InBody
  BY <1>1, <1>3 DEF InBody
<1>5. Top.pc = 1 => InBody /\ Instr = Items
  BY <1>1, <1>2, <1>3 DEF InBody, Instr
<1>6. QED
  BY <1>1, <1>2, <1>4, <1>5 DEF At, Items

----------------------------------------------------------------------------
(* The moves of the stack.                                                  *)
LEMMA PushKeeps ==
  ASSUME UnitAtBottom, stack # <<>>, stack[1].pc = 1, IsSeq(la'),
         NEW f, stack' = Append(stack, f)
  PROVE  UnitAtBottom'
<1>1. /\ IsSeq(stack') /\ stack' # <<>> /\ stack'[1] = stack[1]
  BY AppendFacts DEF UnitAtBottom
<1>2. stack'[1] \in UnitFrame /\ stack'[1].pc = 1
  BY <1>1 DEF UnitAtBottom
<1>3. QED
  BY <1>1, <1>2 DEF UnitAtBottom

StackMove ==
  \/ stack' = Caller
  \/ stack' = stack
  \/ \E f : stack' = WithTop(f)
  \/ \E f : stack' = Append(stack, f)
  \/ \E f, g : stack' = Append(WithTop(f), g)

(* A move of a frame above parseCompilationUnit's.                          *)
LEMMA InnerKeeps ==
  ASSUME UnitAtBottom, stack # <<>>, Len(stack) # 1, IsSeq(la'), StackMove
  PROVE  UnitAtBottom'
<1>1. IsSeq(stack) /\ Len(stack) \in Nat \ {0}
  BY ButLastFacts DEF UnitAtBottom
<1>2. Len(stack) > 1
  BY <1>1, ButLastFacts
<1>3. stack[1] \in UnitFrame /\ stack[1].pc = 1
  BY <1>2 DEF UnitAtBottom
<1>4. IsSeq(Caller) /\ Caller # <<>> /\ Caller[1] = stack[1]
  BY <1>1, <1>2, ButLastFacts DEF Caller
<1>5. \A f : IsSeq(WithTop(f)) /\ WithTop(f) # <<>> /\ WithTop(f)[1] = stack[1]
  BY <1>4, AppendFacts DEF WithTop
<1>6. \A f : /\ IsSeq(Append(stack, f))
             /\ Append(stack, f) # <<>>
             /\ Append(stack, f)[1] = stack[1]
  BY <1>1, AppendFacts
<1>7. \A f, g : /\ IsSeq(Append(WithTop(f), g))
                /\ Append(WithTop(f), g) # <<>>
                /\ Append(WithTop(f), g)[1] = stack[1]
  BY <1>5, AppendFacts
<1>8. IsSeq(stack') /\ stack' # <<>> /\ stack'[1] = stack[1]
  BY <1>1, <1>3, <1>4, <1>5, <1>6, <1>7, ZenonT(60) DEF StackMove
<1>9. QED
  BY <1>3, <1>8 DEF UnitAtBottom

(* A move of parseCompilationUnit's own frame.                              *)
LEMMA UnitMoves ==
  ASSUME UnitAtBottom, stack # <<>>, Len(stack) = 1, IsSeq(la'),
         NEW f \in UnitFrame, stack' = WithTop(f),
         f.pc = 2 => ret' = "run" /\ la' # <<>> /\ la'[1] = "eof"
  PROVE  UnitAtBottom'
<1>1. Caller = <<>> /\ IsSeq(Caller)
  BY ButLastFacts DEF UnitAtBottom, Caller
<1>2. IsSeq(stack') /\ stack' # <<>> /\ stack'[1] = f /\ Len(stack') = Len(Caller) + 1
  BY <1>1, AppendFacts, ZenonT(60) DEF WithTop
<1>3. Len(stack') = 1
  BY <1>1, <1>2
<1>4. ~(Len(stack') > 1)
  BY <1>3
<1>5. QED
  BY <1>2, <1>4 DEF UnitAtBottom

(* A step that looks at a token has one.                                    *)
LEMMA LookedAt ==
  ASSUME IsSeq(la), Looked, Peeks, NEW op \in {"expect", "call", "many", "try", "items"},
         At(op)
  PROVE  la # <<>>
<1>1. Needed = 1
  BY DEF Needed, At, InBody
<1>2. Len(la) >= 1
  BY <1>1 DEF Looked
<1>3. QED
  BY <1>2

----------------------------------------------------------------------------
(* parseCompilationUnit stays the outermost function, step by step.         *)
LEMMA UnitAtBottomNext ==
  ASSUME UnitAtBottom, Next
  PROVE  UnitAtBottom'
<1> USE ButLastFacts
<1>1. IsSeq(stack) /\ IsSeq(la)
  BY DEF UnitAtBottom
<1>2. ASSUME Consume, la # <<>> PROVE IsSeq(la')
  BY <1>1, <1>2, TailIsSeq DEF Consume
<1>3. ASSUME Stay PROVE IsSeq(la')
  BY <1>1, <1>3 DEF Stay
<1>4. CASE Lex
  <2>1. stack # <<>>
    BY <1>1, <1>4 DEF Lex, Looked, Needed, IsSeq
  <2>2. IsSeq(la')
    BY <1>1, <1>4, AppendFacts DEF Lex
  <2>3. ASSUME Len(stack) = 1, stack[1].pc = 2 PROVE FALSE
    <3>1. ~InBody /\ Top.rule \notin Dispatchers
      BY <2>1, <2>3, UnitSteps
    <3>2. Needed = 0
      BY <3>1 DEF Needed, At
    <3>3. QED
      BY <1>1, <1>4, <3>2 DEF Lex, Looked, IsSeq
  <2>4. stack[1] \in UnitFrame /\ stack[1].pc = 1
    BY <1>1, <2>1, <2>3 DEF UnitAtBottom, UnitFrame
  <2>5. QED
    BY <1>1, <1>4, <2>1, <2>2, <2>4 DEF Lex, UnitAtBottom
<1>5. CASE ExpectStep
  <2>1. stack # <<>> /\ Len(stack) # 1
    BY <1>5, UnitSteps DEF ExpectStep, Running
  <2>2. IsSeq(la')
    BY <1>1, <1>2, <1>3, <1>5, LookedAt DEF ExpectStep, Running, Peeks
  <2>3. StackMove
    BY <1>5 DEF ExpectStep, Advanced, StackMove
  <2>4. QED
    BY <2>1, <2>2, <2>3, InnerKeeps
<1>6. CASE CallStep
  <2>1. stack # <<>> /\ Len(stack) # 1
    BY <1>6, UnitSteps DEF CallStep, Running
  <2>2. IsSeq(la')
    BY <1>1, <1>6 DEF CallStep
  <2>3. StackMove
    BY <1>6 DEF CallStep, Advanced, Invoke, StackMove
  <2>4. QED
    BY <2>1, <2>2, <2>3, InnerKeeps
<1>7. CASE ManyStep \/ TryStep
  <2>1. stack # <<>> /\ Len(stack) # 1
    BY <1>7, UnitSteps DEF ManyStep, TryStep, Running
  <2>2. IsSeq(la')
    BY <1>1, <1>7 DEF ManyStep, TryStep
  <2>3. StackMove
    BY <1>7 DEF ManyStep, TryStep, Advanced, StackMove
  <2>4. QED
    BY <2>1, <2>2, <2>3, InnerKeeps
<1>8. CASE ReportStep \/ DeferStep \/ DrainStep
  <2>1. stack # <<>> /\ Len(stack) # 1
    BY <1>8, UnitSteps DEF ReportStep, DeferStep, DrainStep, Running
  <2>2. IsSeq(la')
    BY <1>1, <1>8 DEF ReportStep, DeferStep, DrainStep
  <2>3. StackMove
    BY <1>8 DEF ReportStep, DeferStep, DrainStep, Advanced, StackMove
  <2>4. QED
    BY <2>1, <2>2, <2>3, InnerKeeps
<1>9. CASE DispatchStep
  <2>1. stack # <<>> /\ Len(stack) # 1
    BY <1>9, UnitSteps DEF DispatchStep, Running
  <2>2. IsSeq(la')
    BY <1>1, <1>9 DEF DispatchStep
  <2>3. StackMove
    BY <1>9 DEF DispatchStep, StackMove
  <2>4. QED
    BY <2>1, <2>2, <2>3, InnerKeeps
<1>10. CASE ReturnOk
  <2>1. stack # <<>> /\ IsSeq(la')
    BY <1>1, <1>10 DEF ReturnOk, Running
  <2>2. CASE Len(stack) = 1
    <3>1. la # <<>> /\ la[1] = "eof"
      BY <1>10, <2>1, <2>2, UnitSteps DEF ReturnOk, UnitAtBottom, UnitFrame
    <3>2. stack' = <<>> /\ IsSeq(stack')
      BY <1>1, <1>10, <2>1, <2>2 DEF ReturnOk, Caller
    <3>3. QED
      BY <1>10, <2>1, <3>1, <3>2 DEF ReturnOk, UnitAtBottom
  <2>3. CASE Len(stack) # 1
    BY <1>10, <2>1, <2>3, InnerKeeps DEF ReturnOk, StackMove
  <2>4. QED
    BY <2>2, <2>3
<1>11. CASE Resume
  <2>1. stack # <<>> /\ Len(stack) # 1
    BY <1>11, UnitSteps DEF Resume, At
  <2>2. IsSeq(la')
    BY <1>1, <1>11 DEF Resume
  <2>3. StackMove
    BY <1>11 DEF Resume, Advanced, StackMove
  <2>4. QED
    BY <2>1, <2>2, <2>3, InnerKeeps
<1>12. CASE Fail
  <2>1. stack # <<>> /\ Len(stack) # 1
    BY <1>12, UnitSteps DEF Fail, At, UnitFrame
  <2>2. IsSeq(la')
    BY <1>1, <1>12 DEF Fail
  <2>3. StackMove
    BY <1>12 DEF Fail, Advanced, StackMove
  <2>4. QED
    BY <2>1, <2>2, <2>3, InnerKeeps
<1>13. ASSUME At("items")
       PROVE  stack # <<>> /\ (Len(stack) = 1 => Top \in UnitFrame /\ Top.pc = 1)
  BY <1>13, UnitSteps DEF At, UnitFrame
<1>14. CASE DropMarker \/ ItemFailed \/ skipUntil
  <2>1. At("items") /\ stack' = stack
    BY <1>14 DEF DropMarker, ItemFailed, skipUntil, AtLoop
  <2>2. IsSeq(la')
    BY <1>1, <1>2, <1>14, LookedAt DEF DropMarker, ItemFailed, skipUntil, AtLoop, Peeks
  <2>3. stack # <<>> /\ stack[1] \in UnitFrame /\ stack[1].pc = 1
    BY <1>1, <1>13, <2>1, UnitSteps DEF UnitAtBottom
  <2>4. QED
    BY <1>1, <2>1, <2>2, <2>3 DEF UnitAtBottom
<1>15. CASE LeaveLoop
  <2>1. At("items") /\ la # <<>>
    BY <1>1, <1>15, LookedAt DEF LeaveLoop, AtLoop, Peeks
  <2>2. IsSeq(la')
    BY <1>1, <1>15 DEF LeaveLoop
  <2>3. CASE Len(stack) = 1
    <3>1. [Top EXCEPT !.pc = @ + 1] \in UnitFrame
      BY <1>13, <2>1, <2>3 DEF UnitFrame
    <3>2. la[1] = "eof"
      BY <1>13, <1>15, <2>1, <2>3, ZenonT(60) DEF LeaveLoop, LeavesLoop, UnitFrame
    <3>3. QED
      BY <1>13, <1>15, <2>1, <2>2, <2>3, <3>1, <3>2, UnitMoves DEF LeaveLoop, Advanced
  <2>4. CASE Len(stack) # 1
    BY <1>13, <1>15, <2>1, <2>2, <2>4, InnerKeeps DEF LeaveLoop, Advanced, StackMove
  <2>5. QED
    BY <2>3, <2>4
<1>16. CASE ParseItem
  <2>1. At("items") /\ stack # <<>> /\ IsSeq(la')
    BY <1>1, <1>13, <1>16 DEF ParseItem, AtLoop
  <2>2. PICK f : /\ stack' = Append(WithTop(f), Frame(ItemRule[Top.rule], 0))
                 /\ Top.rule # "parallelBlock" => f = Top
    BY <1>16 DEF ParseItem
  <2>3. CASE Len(stack) = 1
    <3>1. f \in UnitFrame /\ f.pc = 1
      BY <1>13, <2>1, <2>2, <2>3 DEF UnitFrame
    <3>2. IsSeq(WithTop(f)) /\ WithTop(f) # <<>> /\ WithTop(f)[1] = f
      BY <1>1, <2>1, <2>3, AppendFacts DEF WithTop, Caller
    <3>3. IsSeq(stack') /\ stack' # <<>> /\ stack'[1] = f
      BY <2>2, <3>2, AppendFacts
    <3>4. QED
      BY <2>1, <3>1, <3>3 DEF UnitAtBottom
  <2>4. CASE Len(stack) # 1
    BY <2>1, <2>2, <2>4, InnerKeeps DEF StackMove
  <2>5. QED
    BY <2>3, <2>4
<1>17. CASE Resynced
  <2>1. At("items") /\ stack # <<>> /\ la # <<>>
    BY <1>1, <1>13, <1>17, LookedAt DEF Resynced, Peeks
  <2>2. IsSeq(la')
    BY <1>2, <1>3, <1>17, <2>1 DEF Resynced
  <2>3. CASE Len(stack) = 1
    <3>1. [Top EXCEPT !.pc = @ + 1] \in UnitFrame
      BY <1>13, <2>1, <2>3 DEF UnitFrame
    <3>2. [Top EXCEPT !.mark = 0] \in UnitFrame /\ [Top EXCEPT !.mark = 0].pc = 1
      BY <1>13, <2>1, <2>3 DEF UnitFrame
    <3>3. CASE Unwinds(la[1])
      <4>1. la[1] = "eof"
        BY <1>13, <2>1, <2>3, <3>3, ZenonT(60) DEF Unwinds, UnitFrame
      <4>2. /\ la' = la /\ ret' = "run"
            /\ stack' = WithTop([Top EXCEPT !.pc = @ + 1])
        BY <1>17, <3>3 DEF Resynced, Stay, Advanced
      <4>3. QED
        BY <2>1, <2>2, <2>3, <3>1, <4>1, <4>2, UnitMoves
    <3>4. CASE ~Unwinds(la[1])
      <4>1. PICK f : f = [Top EXCEPT !.mark = 0]
        BY ZenonT(60)
      <4>2. f \in UnitFrame /\ f.pc = 1 /\ stack' = WithTop(f)
        BY <1>17, <3>2, <3>4, <4>1 DEF Resynced, Unmarked
      <4>3. QED
        BY <2>1, <2>2, <2>3, <4>2, UnitMoves
    <3>5. QED
      BY <3>3, <3>4
  <2>4. CASE Len(stack) # 1
    <3>1. StackMove
      BY <1>17 DEF Resynced, Unmarked, Advanced, StackMove
    <3>2. QED
      BY <2>1, <2>2, <2>4, <3>1, InnerKeeps
  <2>5. QED
    BY <2>3, <2>4
<1>18. CASE Iterate
  <2>1. At("items") /\ stack # <<>> /\ la # <<>>
    BY <1>1, <1>13, <1>18, LookedAt DEF Iterate, Peeks
  <2>2. IsSeq(la')
    BY <1>2, <1>3, <1>18, <2>1 DEF Iterate
  <2>3. CASE Len(stack) = 1
    <3>1. [Top EXCEPT !.mark = 0] \in UnitFrame /\ [Top EXCEPT !.mark = 0].pc = 1
      BY <1>13, <2>1, <2>3 DEF UnitFrame
    <3>2. PICK f : f = [Top EXCEPT !.mark = 0]
      BY ZenonT(60)
    <3>3. f \in UnitFrame /\ f.pc = 1 /\ stack' = WithTop(f)
      BY <1>18, <3>1, <3>2 DEF Iterate, Unmarked
    <3>4. QED
      BY <2>1, <2>2, <2>3, <3>3, UnitMoves
  <2>4. CASE Len(stack) # 1
    <3>1. StackMove
      BY <1>18 DEF Iterate, Unmarked, StackMove
    <3>2. QED
      BY <2>1, <2>2, <2>4, <3>1, InnerKeeps
  <2>5. QED
    BY <2>3, <2>4
<1>19. CASE Done
  BY <1>19 DEF Done, vars, UnitAtBottom
<1>20. QED
  BY <1>4, <1>5, <1>6, <1>7, <1>8, <1>9, <1>10, <1>11, <1>12, <1>14, <1>15, <1>16, <1>17,
     <1>18, <1>19 DEF Next, Step

(* The invariant holds at the start, and whatever the parser does.          *)
LEMMA UnitAtBottomAlways == Spec => []UnitAtBottom
<1>1. Init => UnitAtBottom
  <2> SUFFICES ASSUME Init PROVE UnitAtBottom
    OBVIOUS
  <2>1. Frame("unit", 0) \in UnitFrame /\ Frame("unit", 0).pc = 1
    BY DEF Frame, UnitFrame, Floored
  <2>2. stack \in Seq({Frame("unit", 0)}) /\ Len(stack) = 1 /\ stack[1] = Frame("unit", 0)
    BY DEF Init
  <2>3. la \in Seq({})
    BY DEF Init
  <2>4. IsSeq(stack) /\ IsSeq(la)
    BY <2>2, <2>3 DEF IsSeq
  <2>5. stack # <<>>
    BY <2>2
  <2>6. QED
    BY <2>1, <2>2, <2>4, <2>5 DEF UnitAtBottom
<1>2. UnitAtBottom /\ [Next]_vars => UnitAtBottom'
  <2>1. UnitAtBottom /\ UNCHANGED vars => UnitAtBottom'
    BY DEF UnitAtBottom, vars
  <2>2. QED
    BY <2>1, UnitAtBottomNext
<1>3. QED
  BY <1>1, <1>2, PTL DEF Spec

(* parseCompilationUnit returns only when the lexer answers eof, for an     *)
(* input of any length and whatever errors were met on the way.             *)
THEOREM EverythingRead == Spec => []WholeInputRead
<1>1. UnitAtBottom => WholeInputRead
  BY DEF UnitAtBottom, WholeInputRead, Returned
<1>2. QED
  BY <1>1, UnitAtBottomAlways, PTL

(* skipUntil, from however deep a block it is called, never discards a      *)
(* token at which parseCompilationUnit would resume.                        *)
THEOREM TopLevelNeverSkipped == Spec => [][skipUntil => la[1] \notin kTopLevel]_vars
<1>1. UnitAtBottom /\ skipUntil => la[1] \notin kTopLevel
  <2> SUFFICES ASSUME UnitAtBottom, skipUntil PROVE la[1] \notin kTopLevel
    OBVIOUS
  <2>1. ret = "skip" /\ stack # <<>> /\ la[1] \notin currentRecoverySet
    BY DEF skipUntil, At, Recovered
  <2>2. stack[1].rule = "unit" /\ stack[1].pc = 1
    BY <2>1 DEF UnitAtBottom, UnitFrame
  <2>3. 1 \in DOMAIN stack
    BY <2>1, ButLastFacts DEF UnitAtBottom, IsSeq
  <2>4. Guarding(stack[1])
    <3>1. "unit" \in DOMAIN Guard
      BY DEF Guard
    <3>2. 1 \in 1..1 /\ 1 \in DOMAIN Body["unit"] /\ Body["unit"][1] = Items
      BY UnitBody
    <3>3. QED
      BY <2>2, <3>1, <3>2 DEF Guarding
  <2>5. Guard["unit"] = kTopLevel
    BY DEF Guard
  <2>6. kTopLevel \subseteq currentRecoverySet
    BY <2>2, <2>3, <2>4, <2>5 DEF currentRecoverySet
  <2>7. QED
    BY <2>1, <2>6
<1>2. UnitAtBottom /\ [Next]_vars => [skipUntil => la[1] \notin kTopLevel]_vars
  BY <1>1
<1>3. QED
  BY <1>2, UnitAtBottomAlways, PTL DEF Spec

----------------------------------------------------------------------------
(* A parse function that returns nullptr, and the recovery that follows,    *)
(* leave an error reported: the driver does not take the partial unit for   *)
(* the whole program.                                                       *)
THEOREM FailureIsReported == Spec => []NoSilentFailure
<1>1. Init => NoSilentFailure
  BY DEF Init, NoSilentFailure
<1>2. NoSilentFailure /\ [Next]_vars => NoSilentFailure'
  <2> SUFFICES ASSUME NoSilentFailure, [Next]_vars PROVE NoSilentFailure'
    OBVIOUS
  <2> USE DEF NoSilentFailure
  <2>1. CASE ExpectStep
    BY <2>1 DEF ExpectStep, Running
  <2>2. CASE DispatchStep
    BY <2>2 DEF DispatchStep, Running
  <2>3. CASE CallStep \/ ManyStep \/ TryStep \/ ReportStep \/ DeferStep \/ DrainStep
    BY <2>3 DEF CallStep, ManyStep, TryStep, ReportStep, DeferStep, DrainStep
  <2>4. CASE Lex \/ ReturnOk \/ Resume \/ Fail
    BY <2>4 DEF Lex, ReturnOk, Resume, Fail
  <2>5. CASE DropMarker \/ LeaveLoop \/ ParseItem
    BY <2>5 DEF DropMarker, LeaveLoop, ParseItem
  <2>6. CASE ItemFailed \/ skipUntil \/ Resynced \/ Iterate
    BY <2>6 DEF ItemFailed, skipUntil, Resynced, Iterate
  <2>7. CASE UNCHANGED vars
    BY <2>7 DEF vars
  <2>8. QED
    BY <2>1, <2>2, <2>3, <2>4, <2>5, <2>6, <2>7 DEF Next, Step, Done
<1>3. QED
  BY <1>1, <1>2, PTL DEF Spec

----------------------------------------------------------------------------
(* What parseInternalDecl defers.  Two facts keep it the current            *)
(* declaration's: the function that changes k empties the list, and nothing *)
(* but k is ever added to it.                                               *)
DeferredIsCurrent == pending \subseteq {decl}

(* A caller that takes the deferred declarators takes those of the          *)
(* declaration it has just parsed, for inputs of any length and whatever    *)
(* failed or was never drained before.                                      *)
THEOREM DrainTakesItsOwn == Spec => []DrainedIsOwn
<1>1. Init => DeferredIsCurrent
  BY DEF Init, DeferredIsCurrent
<1>2. DeferredIsCurrent /\ [Next]_vars => DeferredIsCurrent'
  <2> SUFFICES ASSUME DeferredIsCurrent, [Next]_vars PROVE DeferredIsCurrent'
    OBVIOUS
  <2> USE DEF DeferredIsCurrent
  <2>1. CASE ExpectStep
    BY <2>1 DEF ExpectStep
  <2>2. CASE DispatchStep
    <3>1. Enter(Top.rule)
      BY <2>2 DEF DispatchStep
    <3>2. QED
      BY <3>1 DEF Enter
  <2>3. CASE CallStep \/ ManyStep \/ TryStep \/ ReportStep \/ DeferStep \/ DrainStep
    BY <2>3 DEF CallStep, ManyStep, TryStep, ReportStep, DeferStep, DrainStep
  <2>4. CASE Lex \/ ReturnOk \/ Resume \/ Fail
    BY <2>4 DEF Lex, ReturnOk, Resume, Fail
  <2>5. CASE DropMarker \/ LeaveLoop \/ ParseItem
    BY <2>5 DEF DropMarker, LeaveLoop, ParseItem
  <2>6. CASE ItemFailed \/ skipUntil \/ Resynced \/ Iterate
    BY <2>6 DEF ItemFailed, skipUntil, Resynced, Iterate
  <2>7. CASE UNCHANGED vars
    BY <2>7 DEF vars
  <2>8. QED
    BY <2>1, <2>2, <2>3, <2>4, <2>5, <2>6, <2>7 DEF Next, Step, Done
<1>3. DeferredIsCurrent => DrainedIsOwn
  BY DEF DeferredIsCurrent, DrainedIsOwn
<1>4. QED
  BY <1>1, <1>2, <1>3, PTL DEF Spec

-----------------------------------------------------------------------------
(* The symbol table.  Its inductive invariant: the two lists are lists.     *)
(* The indices the operations compute are then indices of open scopes.      *)
Lists == IsSeq(scopes) /\ IsSeq(retired)

-----------------------------------------------------------------------------
(* Facts about lists.                                                       *)

(* The length of a list and its indices. *)
LEMMA SeqFacts ==
  ASSUME NEW s, IsSeq(s)
  PROVE  /\ Len(s) \in Nat
         /\ DOMAIN s = 1 .. Len(s)
         /\ s # <<>> => Len(s) \in 1 .. Len(s)
<1>1. PICK S : s \in Seq(S)
  BY DEF IsSeq
<1>2. QED
  BY <1>1

(* Leaving the innermost scope keeps the others where they are. *)
LEMMA FrontFacts ==
  ASSUME NEW s, IsSeq(s), s # <<>>
  PROVE  /\ IsSeq(SubSeq(s, 1, Len(s) - 1))
         /\ Len(SubSeq(s, 1, Len(s) - 1)) = Len(s) - 1
         /\ \A i \in 1 .. Len(s) - 1 : SubSeq(s, 1, Len(s) - 1)[i] = s[i]
<1>1. PICK S : s \in Seq(S)
  BY DEF IsSeq
<1>2. Len(s) \in Nat \ {0}
  BY <1>1
<1>3. SubSeq(s, 1, Len(s) - 1) \in Seq(S)
  BY <1>1, <1>2
<1>4. IsSeq(SubSeq(s, 1, Len(s) - 1))
  BY <1>3 DEF IsSeq
<1>5. Len(SubSeq(s, 1, Len(s) - 1)) = Len(s) - 1
  <2>1. CASE Len(s) = 1
    BY <1>1, <2>1
  <2>2. CASE Len(s) > 1
    BY <1>1, <1>2, <2>2
  <2>3. \A n \in Nat \ {0} : n = 1 \/ n > 1
    OBVIOUS
  <2>4. Len(s) = 1 \/ Len(s) > 1
    BY <1>2, <2>3, ZenonT(60)
  <2>5. QED
    BY <2>1, <2>2, <2>4
<1>6. ASSUME NEW i \in 1 .. Len(s) - 1
      PROVE  SubSeq(s, 1, Len(s) - 1)[i] = s[i]
  BY <1>1, <1>2
<1>7. QED
  BY <1>4, <1>5, <1>6

-----------------------------------------------------------------------------
(* Facts about scopes.                                                      *)

(* A scope with one more symbol, or with one replaced. *)
LEMMA InsertFacts ==
  ASSUME NEW scope, NEW sym
  PROVE  /\ DOMAIN insert(scope, sym).table = DOMAIN scope.table \cup {sym.name}
         /\ insert(scope, sym).table[sym.name] = sym
         /\ \A n \in DOMAIN scope.table :
              n # sym.name => insert(scope, sym).table[n] = scope.table[n]
BY DEF insert

(* A scope holds what the other one holds, by name and identity. *)
Keeps(old, new) ==
  \A n \in DOMAIN old.table :
    n \in DOMAIN new.table /\ new.table[n].id = old.table[n].id

(* The table loses nothing when every scope it had is still one of its      *)
(* scopes, with at least the symbols it held.                               *)
LEMMA KeepsOwned ==
  ASSUME \A s \in AllScopes : \E t \in AllScopes' : Keeps(s, t)
  PROVE  Owned \subseteq Owned'
<1>1. SUFFICES ASSUME NEW s \in AllScopes, NEW n \in DOMAIN s.table
               PROVE  <<s.table[n].id, n>> \in Owned'
  BY DEF Owned
<1>2. PICK t \in AllScopes' : Keeps(s, t)
  OBVIOUS
<1>3. n \in DOMAIN t.table /\ t.table[n].id = s.table[n].id
  BY <1>2 DEF Keeps
<1>4. <<t.table[n].id, n>> \in Owned'
  BY <1>2, <1>3 DEF Owned
<1>5. QED
  BY <1>3, <1>4

-----------------------------------------------------------------------------
(* The operations, one by one.                                              *)

(* A scope that stays where it is is still one of the table's. *)
LEMMA SameIsKept ==
  ASSUME NEW s
  PROVE  Keeps(s, s)
BY DEF Keeps

(* enterScope adds an empty scope. *)
LEMMA EnterKeeps ==
  ASSUME Lists, NEW kind, enterScope(kind)
  PROVE  Lists' /\ Owned \subseteq Owned'
<1>1. /\ IsSeq(scopes') /\ Len(scopes') = Len(scopes) + 1
      /\ \A i \in 1 .. Len(scopes) : scopes'[i] = scopes[i]
  BY AppendFacts DEF enterScope, Lists
<1>2. Len(scopes) \in Nat
  BY SeqFacts DEF Lists
<1>3. AllScopes \subseteq AllScopes'
  BY <1>1, <1>2 DEF AllScopes, enterScope
<1>4. QED
  BY <1>1, <1>3, KeepsOwned, SameIsKept DEF Lists, enterScope

(* leaveScope moves a scope from one list to the other. *)
LEMMA LeaveKeeps ==
  ASSUME Lists, leaveScope
  PROVE  Lists' /\ Owned \subseteq Owned'
<1>1. /\ IsSeq(scopes') /\ Len(scopes') = Len(scopes) - 1
      /\ \A i \in 1 .. Len(scopes) - 1 : scopes'[i] = scopes[i]
  BY FrontFacts DEF leaveScope, Lists
<1>2. /\ IsSeq(retired') /\ Len(retired') = Len(retired) + 1
      /\ \A i \in 1 .. Len(retired) : retired'[i] = retired[i]
      /\ retired'[Len(retired) + 1] = scopes[Len(scopes)]
  BY AppendFacts DEF leaveScope, Lists
<1>3. Len(scopes) \in Nat /\ Len(retired) \in Nat
  BY SeqFacts DEF Lists
<1>4. ASSUME NEW s \in AllScopes
      PROVE  s \in AllScopes'
  <2>1. CASE \E i \in 1 .. Len(scopes) : s = scopes[i]
    <3>1. PICK i \in 1 .. Len(scopes) : s = scopes[i]
      BY <2>1
    <3>2. CASE i = Len(scopes)
      BY <1>2, <1>3, <3>1, <3>2 DEF AllScopes
    <3>3. CASE i # Len(scopes)
      BY <1>1, <1>3, <3>1, <3>3 DEF AllScopes
    <3>4. QED
      BY <3>2, <3>3
  <2>2. CASE \E i \in 1 .. Len(retired) : s = retired[i]
    BY <1>2, <1>3, <2>2 DEF AllScopes
  <2>3. QED
    BY <2>1, <2>2 DEF AllScopes
<1>5. QED
  BY <1>1, <1>2, <1>4, KeepsOwned, SameIsKept DEF Lists

(* One open scope gets a symbol in a free place, or in the place of one     *)
(* with the same identity.                                                  *)
LEMMA InsertKeeps ==
  ASSUME Lists, NEW i \in 1 .. Len(scopes), NEW sym,
         scopes' = [scopes EXCEPT ![i] = insert(@, sym)], UNCHANGED retired,
         sym.name \in DOMAIN scopes[i].table => scopes[i].table[sym.name].id = sym.id
  PROVE  Lists' /\ Owned \subseteq Owned'
<1>1. /\ IsSeq(scopes') /\ Len(scopes') = Len(scopes)
      /\ scopes'[i] = insert(scopes[i], sym)
      /\ \A j \in 1 .. Len(scopes) : j # i => scopes'[j] = scopes[j]
  <2> DEFINE e == insert(scopes[i], sym)
  <2>1. scopes' = [scopes EXCEPT ![i] = e]
    OBVIOUS
  <2> HIDE DEF e
  <2>2. PICK S : scopes \in Seq(S)
    BY DEF Lists, IsSeq
  <2>3. scopes' \in Seq(S \cup {e})
    BY <2>1, <2>2
  <2>4. IsSeq(scopes')
    BY <2>3 DEF IsSeq
  <2>5. Len(scopes') = Len(scopes) /\ scopes'[i] = e
    BY <2>1, <2>2
  <2>6. \A j \in 1 .. Len(scopes) : j # i => scopes'[j] = scopes[j]
    BY <2>1, <2>2
  <2>7. QED
    BY <2>4, <2>5, <2>6 DEF e
<1>2. Keeps(scopes[i], scopes'[i])
  BY <1>1, InsertFacts DEF Keeps
<1>3. ASSUME NEW s \in AllScopes
      PROVE  \E t \in AllScopes' : Keeps(s, t)
  <2>1. CASE \E j \in 1 .. Len(scopes) : s = scopes[j]
    BY <1>1, <1>2, <2>1, SameIsKept DEF AllScopes
  <2>2. CASE \E j \in 1 .. Len(retired) : s = retired[j]
    BY <2>2, SameIsKept DEF AllScopes
  <2>3. QED
    BY <2>1, <2>2 DEF AllScopes
<1>4. QED
  BY <1>1, <1>3, KeepsOwned DEF Lists

(* declare and declareInScope refuse a name that is taken. *)
LEMMA DeclareKeeps ==
  ASSUME Lists, NEW i \in 1 .. Len(scopes), NEW sym, DeclareAt(i, sym)
  PROVE  Lists' /\ Owned \subseteq Owned'
<1>1. CASE DeclaredIn(i, sym)
  BY <1>1, InsertKeeps, ZenonT(60) DEF DeclareAt, DeclaredIn, Holds
<1>2. CASE ~DeclaredIn(i, sym)
  BY <1>2 DEF DeclareAt, Lists, Owned, AllScopes
<1>3. QED
  BY <1>1, <1>2

(* setFields replaces a symbol by one of its identity. *)
LEMMA SetFieldsKeeps ==
  ASSUME Lists, NEW sym, setFields(sym)
  PROVE  Lists' /\ Owned \subseteq Owned'
<1>1. Len(scopes) \in 1 .. Len(scopes)
  BY SeqFacts DEF Lists, setFields
<1>2. QED
  BY <1>1, InsertKeeps, ZenonT(60) DEF setFields

(* S18 changes the fields of symbols in scopes that were left. *)
LEMMA SetRetiredFieldsKeeps ==
  ASSUME Lists, setRetiredFields
  PROVE  Lists' /\ Owned \subseteq Owned'
<1>1. Len(retired) \in Nat
  BY SeqFacts DEF Lists
<1> DEFINE S == {retired'[i] : i \in 1 .. Len(retired)}
<1>2. retired' \in [1 .. Len(retired) -> S]
  BY DEF setRetiredFields
<1>3. retired' \in Seq(S) /\ Len(retired') = Len(retired)
  BY <1>1, <1>2
<1>4. \A i \in 1 .. Len(retired) : Keeps(retired[i], retired'[i])
  BY DEF setRetiredFields, Keeps
<1>5. ASSUME NEW s \in AllScopes
      PROVE  \E t \in AllScopes' : Keeps(s, t)
  <2>1. CASE \E j \in 1 .. Len(scopes) : s = scopes[j]
    BY <2>1, SameIsKept DEF AllScopes, setRetiredFields
  <2>2. CASE \E j \in 1 .. Len(retired) : s = retired[j]
    BY <1>3, <1>4, <2>2 DEF AllScopes
  <2>3. QED
    BY <2>1, <2>2 DEF AllScopes
<1>6. QED
  BY <1>3, <1>5, KeepsOwned DEF Lists, setRetiredFields, IsSeq

-----------------------------------------------------------------------------

(* Every step of every client. *)
LEMMA StepKeeps ==
  ASSUME Lists, [SymNext]_tableVars
  PROVE  Lists' /\ Owned \subseteq Owned'
<1>1. CASE \E kind \in ScopeKinds : enterScope(kind)
  BY <1>1, EnterKeeps
<1>2. CASE leaveScope
  BY <1>2, LeaveKeeps
<1>3. CASE \E i \in 1 .. Len(scopes) : \E sym \in SymbolsIn(scopes'[i]) : DeclareAt(i, sym)
  BY <1>3, DeclareKeeps
<1>4. CASE \E sym \in SymbolsIn(scopes'[Len(scopes)]) : setFields(sym)
  BY <1>4, SetFieldsKeeps
<1>5. CASE setRetiredFields
  BY <1>5, SetRetiredFieldsKeeps
<1>6. CASE UNCHANGED tableVars
  BY <1>6 DEF tableVars, Lists, Owned, AllScopes
<1>7. QED
  BY <1>1, <1>2, <1>3, <1>4, <1>5, <1>6 DEF SymNext

(* No step of any client of the symbol table, of any number of scopes and   *)
(* symbols, ever drops a symbol: the pointers that the resolution map keeps *)
(* after the walk are good until the table is destroyed.                    *)
THEOREM SymbolsAreNeverDropped == SymSpec => SymbolsOutlive
<1>1. SymInit => Lists
  <2>1. <<>> \in Seq({})
    OBVIOUS
  <2>2. QED
    BY <2>1 DEF SymInit, Lists, IsSeq
<1>2. Lists /\ [SymNext]_tableVars => Lists'
  BY StepKeeps
<1>3. Lists /\ [SymNext]_tableVars => [Owned \subseteq Owned']_tableVars
  BY StepKeeps
<1>4. QED
  BY <1>1, <1>2, <1>3, PTL DEF SymSpec, SymbolsOutlive
=============================================================================
