---------------------------- MODULE FSMPatterns -----------------------------
(* The conversion of procs, and of funcs that hold a seq, to fsm.machine    *)
(* (lib/Lower/Pass/CIRCTPatterns/FSMPatterns.cpp).                          *)
EXTENDS NSLOps

\* A machine: its states in order, each with the targets of its transitions.
State(n) == [n |-> n, to |-> <<>>]
Machine(n, from, initial, states) ==
  [n |-> n, from |-> from, initial |-> initial, states |-> states, ok |-> TRUE]

HasState(m, n) == \E i \in 1 .. Len(m.states) : m.states[i].n = n

\* ensureSinkState and ensureCrossMachinePlaceholder: added at the end, once.
\* Only states that were added this way count as present.
Synthetic(m, added, n) ==
  IF n \in added THEN m ELSE [m EXCEPT !.states = Append(@, State(n))]

Sink == "__sink__"

ensureSinkState(mb) ==
  [mb EXCEPT !.m = Synthetic(@, mb.added, Sink), !.added = @ \cup {Sink}]

placeholder(callee) == callee \o "_initial_state"

ensureCrossMachinePlaceholder(mb, callee) ==
  [mb EXCEPT !.m = Synthetic(@, mb.added, placeholder(callee)),
             !.added = @ \cup {placeholder(callee)}]

Transition(mb, i, n) == [mb EXCEPT !.m.states[i].to = Append(@, n)]

\* procs: the names of the procs and machines of the whole unit.  A call of
\* anything else is passed over, and goes with the proc.
lowerStateOp(mb, i, op, procs) ==
  CASE op.o = "goto" -> Transition(mb, i, op.ref)
    [] op.o \in {"finish", "finish_method"} -> Transition(ensureSinkState(mb), i, Sink)
    [] op.o = "call" /\ op.ref \in procs ->
         Transition(ensureCrossMachinePlaceholder(mb, op.ref), i, placeholder(op.ref))
    [] op.o = "call" /\ op.ref \notin procs -> mb
    [] OTHER -> [mb EXCEPT !.m.ok = FALSE]

\* A state is found by its name: of two with one name, the later.
lowerStateBody(mb, state, procs) ==
  LET i == Max({j \in 1 .. Len(mb.m.states) : mb.m.states[j].n = state.n})
  IN  FoldLeft(LAMBDA acc, op : IF acc.m.ok THEN lowerStateOp(acc, i, op, procs) ELSE acc,
               mb, Body(state))

\* The first state written, whatever first_state says.
initialStateFirstWritten(proc) ==
  FirstOp(Body(proc), LAMBDA c : c.o = "state").n

initialStateName(proc) ==
  LET first == FirstOp(Body(proc), LAMBDA c : c.o = "first_state")
      state == FirstOp(Body(proc), LAMBDA c : c.o = "state")
  IN  IF first # NoOp /\ first.ref # "" THEN first.ref ELSE state.n

lowerOneProc(proc, procs) ==
  LET states == SelectSeq(Body(proc), LAMBDA c : c.o = "state")
      shell == Machine(proc.n, proc.id, initialStateName(proc),
                       [i \in 1 .. Len(states) |-> State(states[i].n)])
  IN  IF initialStateName(proc) = "" THEN [shell EXCEPT !.ok = FALSE]
      ELSE FoldLeft(LAMBDA mb, s : IF mb.m.ok THEN lowerStateBody(mb, s, procs) ELSE mb,
                    [m |-> shell, added |-> {}], states).m

\* A chain: the n-th goto leads from state n - 1 to state n, whatever it names.
seqState(i) == "seq_" \o ToString(i)

lowerOneFuncSeq(fn) ==
  LET seqs == SelectSeq(Body(fn), LAMBDA c : c.o = "seq")
      gotos == Len(SelectSeq(Body(seqs[1]), LAMBDA c : c.o = "goto"))
      chain == [i \in 1 .. gotos + 1 |->
                  [n |-> seqState(i - 1), to |-> IF i <= gotos THEN <<seqState(i)>> ELSE <<>>]]
  IN  [Machine(fn.n, fn.id, seqState(0), chain) EXCEPT
         !.ok = Len(seqs) = 1 /\ gotos = Len(Body(seqs[1]))]

\* What the fsm dialect verifies of a machine (external): distinct names, and
\* every state that is named exists.
verifyMachine(m) ==
  /\ HasState(m, m.initial)
  /\ \A i, j \in 1 .. Len(m.states) : m.states[i].n = m.states[j].n => i = j
  /\ \A i \in 1 .. Len(m.states) : \A t \in ToSet(m.states[i].to) : HasState(m, t)
=============================================================================
