------------------------- MODULE DocumentSyncProofs -------------------------
(***************************************************************************)
(* Proofs about document synchronisation, for any number of documents,     *)
(* workers, versions and texts.                                            *)
(***************************************************************************)
EXTENDS DocumentSync, TLAPS

\* The provers a leaf is given to, one after the other, and their time.
USE SMTT(60), Z3T(60), ZenonT(60)

\* Appending a unit keeps the heap a sequence of units and the old units in
\* place (make_shared in open, update and schedule).
LEMMA HeapAppend ==
    ASSUME NEW h \in Seq(TU), NEW t \in TU
    PROVE  /\ Append(h, t) \in Seq(TU)
           /\ Len(Append(h, t)) = Len(h) + 1
           /\ \A i \in 1 .. Len(h) : Append(h, t)[i] = h[i]
           /\ Append(h, t)[Len(h) + 1] = t
  OBVIOUS

\* Replacing one unit keeps the heap a sequence of units of the same length.
LEMMA HeapUpdate ==
    ASSUME NEW h \in Seq(TU), NEW k \in 1 .. Len(h), NEW t \in TU
    PROVE  /\ [h EXCEPT ![k] = t] \in Seq(TU)
           /\ Len([h EXCEPT ![k] = t]) = Len(h)
           /\ [h EXCEPT ![k] = t][k] = t
           /\ \A i \in 1 .. Len(h) : i # k => [h EXCEPT ![k] = t][i] = h[i]
  OBVIOUS

\* What make_shared<NslTU> builds is a unit.
LEMMA FreshIsTU == FreshTU \in TU /\ FreshState \in State
  BY DEF FreshTU, TU, FreshState, State

\* A fresh unit that noted a version is a unit.
LEMMA NotedIsTU ==
    ASSUME NEW t \in TU, NEW v \in Int
    PROVE  [t EXCEPT !.received = Raise(@, v)] \in TU
  BY DEF TU, Raise

\* ensureTU and update touch the heap and the map only; the old units keep
\* their places and every document keeps or gains a unit.
LEMMA EnsureTUType ==
    ASSUME heap \in Seq(TU), tus \in [Uri -> 0 .. Len(heap)],
           NEW u \in Uri, EnsureTU(u)
    PROVE  /\ heap' \in Seq(TU)
           /\ tus' \in [Uri -> 0 .. Len(heap')]
           /\ Len(heap) <= Len(heap')
<1>1. CASE tus[u] = NoTu
  <2>1. heap' = Append(heap, FreshTU) /\ tus' = [tus EXCEPT ![u] = Len(heap) + 1]
    BY <1>1 DEF EnsureTU
  <2>2. heap' \in Seq(TU) /\ Len(heap') = Len(heap) + 1
    BY <2>1, HeapAppend, FreshIsTU
  <2>3. Len(heap) \in Nat
    OBVIOUS
  <2>4. 0 .. Len(heap) \subseteq 0 .. Len(heap')
    BY <2>2, <2>3
  <2>5. Len(heap) + 1 \in 0 .. Len(heap')
    BY <2>2, <2>3
  <2> QED
    BY <2>1, <2>2, <2>3, <2>4, <2>5
<1>2. CASE tus[u] # NoTu
  BY <1>2 DEF EnsureTU
<1> QED
  BY <1>1, <1>2

\* The same for update, which also notes the version in the unit.
LEMMA UpdateType ==
    ASSUME heap \in Seq(TU), tus \in [Uri -> 0 .. Len(heap)],
           NEW u \in Uri, NEW v \in Int, Update(u, v)
    PROVE  /\ heap' \in Seq(TU)
           /\ tus' \in [Uri -> 0 .. Len(heap')]
           /\ Len(heap) <= Len(heap')
<1>1. CASE tus[u] = NoTu
  <2> DEFINE t == [FreshTU EXCEPT !.received = Raise(@, v)]
  <2>1. heap' = Append(heap, t) /\ tus' = [tus EXCEPT ![u] = Len(heap) + 1]
    BY <1>1 DEF Update
  <2>0. t \in TU
    BY FreshIsTU, NotedIsTU
  <2> HIDE DEF t
  <2>2. heap' \in Seq(TU) /\ Len(heap') = Len(heap) + 1
    BY <2>0, <2>1, HeapAppend
  <2>3. Len(heap) \in Nat
    OBVIOUS
  <2>4. 0 .. Len(heap) \subseteq 0 .. Len(heap')
    BY <2>2, <2>3
  <2>5. Len(heap) + 1 \in 0 .. Len(heap')
    BY <2>2, <2>3
  <2> QED
    BY <2>1, <2>2, <2>3, <2>4, <2>5
<1>2. CASE tus[u] # NoTu
  <2> DEFINE t == [heap[tus[u]] EXCEPT !.received = Raise(@, v)]
  <2>1. heap' = [heap EXCEPT ![tus[u]] = t] /\ tus' = tus
    BY <1>2 DEF Update
  <2>2. tus[u] \in 1 .. Len(heap)
    BY <1>2 DEF NoTu
  <2>3. t \in TU
    BY <2>2, NotedIsTU
  <2> HIDE DEF t
  <2> QED
    BY <2>1, <2>2, <2>3, HeapUpdate
<1> QED
  BY <1>1, <1>2

\* A busy worker's job has all the fields (the captures of the lambda).
LEMMA BusyJob ==
    ASSUME NEW j \in Job, j.phase # "idle"
    PROVE  /\ j \in [phase: Phase, uri: Uri, version: Int, text: Nat, tu: Nat]
           /\ j # Idle
  BY DEF Job, Idle

\* Moving a busy worker on keeps its document, version and text.
LEMMA JobMoves ==
    ASSUME NEW j \in Job, j.phase # "idle", NEW p \in Phase
    PROVE  LET k == [j EXCEPT !.phase = p]
           IN  /\ k \in Job
               /\ k.phase = p /\ k.uri = j.uri /\ k.version = j.version
               /\ k.text = j.text /\ k.tu = j.tu
<1>1. j \in [phase: Phase, uri: Uri, version: Int, text: Nat, tu: Nat]
  BY BusyJob
<1> QED
  BY <1>1 DEF Job

\* The same, for a worker that finds its unit.
LEMMA JobFinds ==
    ASSUME NEW j \in Job, j.phase # "idle", NEW t \in Nat
    PROVE  LET k == [j EXCEPT !.phase = "reparse", !.tu = t]
           IN  /\ k \in Job
               /\ k.phase = "reparse" /\ k.uri = j.uri /\ k.version = j.version
               /\ k.text = j.text /\ k.tu = t
<1>1. j \in [phase: Phase, uri: Uri, version: Int, text: Nat, tu: Nat]
  BY BusyJob
<1> QED
  BY <1>1, ZenonT(60) DEF Job, Phase

\* An idle worker.
LEMMA IdleJob == Idle \in Job /\ Idle.phase = "idle"
  BY DEF Job, Idle

\* The initial state has the types.
LEMMA InitType == Init => TypeOK
  BY SyncAssumption DEF Init, SchedInit, TypeOK, SchedTypeOK, NoTu, Job, Idle,
     NoReport, Report, FreshState, State, Waiting, Handler

\* Each step of a worker keeps the types.
LEMMA WorkerType ==
    ASSUME TypeOK, NEW w \in Worker, WorkerStep(w), UNCHANGED <<dispatch, edits, client>>
    PROVE  TypeOK'
<1>0. /\ heap \in Seq(TU) /\ queue \in Seq(Edit) /\ tus \in [Uri -> 0 .. Len(heap)]
      /\ job \in [Worker -> Job] /\ job[w] \in Job /\ shown \in [Uri -> Report]
      /\ \A x \in Worker : job[x].phase \in {"reparse", "check", "publish"} =>
                              job[x].tu \in 1 .. Len(heap)
  BY DEF TypeOK, SchedTypeOK
<1>1. CASE Take(w)
  <2>1. Head(queue) \in Edit /\ Tail(queue) \in Seq(Edit)
    BY <1>0, <1>1 DEF Take
  <2> DEFINE j == [phase |-> "lookup", uri |-> Head(queue).uri,
                   version |-> Head(queue).version, text |-> Head(queue).text, tu |-> NoTu]
  <2>2. j \in Job /\ j.phase = "lookup"
    BY <2>1 DEF Edit, Job, Phase, NoTu
  <2>3. job' = [job EXCEPT ![w] = j] /\ queue' = Tail(queue) /\ UNCHANGED <<tus, heap, shown>>
    BY <1>1 DEF Take
  <2> HIDE DEF j
  <2> QED
    BY <1>0, <2>1, <2>2, <2>3 DEF TypeOK, SchedTypeOK
<1>2. CASE Lookup(w)
  <2> DEFINE t == tus[job[w].uri]
             j == IF t = NoTu THEN Idle ELSE [job[w] EXCEPT !.phase = "reparse", !.tu = t]
  <2>1. job[w].phase = "lookup" /\ job' = [job EXCEPT ![w] = j]
        /\ UNCHANGED <<tus, heap, queue, shown>>
    BY <1>0, <1>2 DEF Lookup
  <2>2. job[w].uri \in Uri
    BY <1>0, <2>1, BusyJob
  <2>3. t \in 0 .. Len(heap) /\ Len(heap) \in Nat
    BY <1>0, <2>2
  <2>4. j \in Job /\ (j.phase = "idle" \/ j.tu \in 1 .. Len(heap))
    <3>1. CASE t = NoTu
      BY <3>1, IdleJob
    <3>2. CASE t # NoTu
      <4>1. j = [job[w] EXCEPT !.phase = "reparse", !.tu = t] /\ t \in 1 .. Len(heap)
            /\ t \in Nat
        BY <2>3, <3>2 DEF NoTu
      <4>2. job[w] \in Job /\ job[w].phase # "idle"
        BY <1>0, <2>1
      <4> HIDE DEF j, t
      <4>3. j \in Job /\ j.tu = t
        BY <4>1, <4>2, JobFinds, ZenonT(60)
      <4> QED
        BY <4>1, <4>3
    <3> QED
      BY <3>1, <3>2
  <2> HIDE DEF j
  <2> QED
    BY <1>0, <2>1, <2>4 DEF TypeOK, SchedTypeOK
<1>3. CASE Reparse(w)
  <2> DEFINE t == job[w].tu
             n == [heap[t] EXCEPT !.state = [version |-> job[w].version, text |-> job[w].text]]
             j == [job[w] EXCEPT !.phase = "check"]
  <2>1. job[w].phase = "reparse" /\ heap' = [heap EXCEPT ![t] = n]
        /\ job' = [job EXCEPT ![w] = j] /\ UNCHANGED <<tus, queue, shown>>
    BY <1>0, <1>3 DEF Reparse
  <2>2. t \in 1 .. Len(heap) /\ heap[t] \in TU
    BY <1>0, <2>1
  <2>3. job[w].version \in Int /\ job[w].text \in Nat
    BY <1>0, <2>1, BusyJob
  <2>4. n \in TU
    BY <2>2, <2>3 DEF TU, State
  <2>5. j \in Job /\ j.tu = t
    BY <1>0, <2>1, JobMoves, ZenonT(60) DEF Phase
  <2> HIDE DEF n, j
  <2>6. heap' \in Seq(TU) /\ Len(heap') = Len(heap)
    BY <1>0, <2>1, <2>2, <2>4, HeapUpdate
  <2> QED
    BY <1>0, <2>1, <2>2, <2>5, <2>6 DEF TypeOK, SchedTypeOK
<1>4. CASE StaleCheck(w)
  <2> DEFINE k == [job[w] EXCEPT !.phase = "publish"]
             j == IF job[w].version < heap[job[w].tu].received THEN Idle ELSE k
  <2>1. job[w].phase = "check" /\ job' = [job EXCEPT ![w] = j]
        /\ UNCHANGED <<tus, heap, queue, shown>>
    BY <1>0, <1>4 DEF StaleCheck
  <2>2. k \in Job /\ k.tu = job[w].tu
    BY <1>0, <2>1, JobMoves, ZenonT(60) DEF Phase
  <2>3. j \in Job /\ (j.phase = "idle" \/ j.tu \in 1 .. Len(heap))
    BY <1>0, <2>1, <2>2, IdleJob
  <2> HIDE DEF j
  <2> QED
    BY <1>0, <2>1, <2>3 DEF TypeOK, SchedTypeOK
<1>5. CASE Publish(w)
  <2> DEFINE t == job[w].tu
             n == [heap[t] EXCEPT !.published = @ \cup {job[w].version}]
             r == [label |-> job[w].version, diags |-> heap[t].state]
  <2>1. job[w].phase = "publish" /\ heap' = [heap EXCEPT ![t] = n]
        /\ shown' = [shown EXCEPT ![job[w].uri] = r]
        /\ job' = [job EXCEPT ![w] = Idle] /\ UNCHANGED <<tus, queue>>
    BY <1>0, <1>5 DEF Publish
  <2>2. t \in 1 .. Len(heap) /\ heap[t] \in TU
    BY <1>0, <2>1
  <2>3. job[w].version \in Int
    BY <1>0, <2>1, BusyJob
  <2>4. n \in TU
    BY <2>2, <2>3 DEF TU
  <2>5. r \in Report
    BY <2>2, <2>3 DEF TU, Report
  <2> HIDE DEF n, r
  <2>6. heap' \in Seq(TU) /\ Len(heap') = Len(heap)
    BY <1>0, <2>1, <2>2, <2>4, HeapUpdate
  <2>7. shown' \in [Uri -> Report]
    BY <1>0, <2>1, <2>5, ZenonT(60)
  <2> QED
    BY <1>0, <2>1, <2>6, <2>7, IdleJob DEF TypeOK, SchedTypeOK
<1> QED
  BY <1>1, <1>2, <1>3, <1>4, <1>5 DEF WorkerStep

\* A running handler knows its document, version and text, and keeps them.
LEMMA HandlerMoves ==
    ASSUME NEW d \in Handler, d.pc # "idle", NEW p \in HandlerPc
    PROVE  LET e == [d EXCEPT !.pc = p]
           IN  /\ d.uri \in Uri /\ d.version \in Int /\ d.text \in Nat
               /\ e \in Handler /\ e.pc = p /\ e.uri = d.uri
               /\ e.version = d.version /\ e.text = d.text
<1>1. d \in [pc: HandlerPc, uri: Uri, version: Int, text: Nat]
  BY DEF Handler, Waiting
<1> QED
  BY <1>1 DEF Handler

\* Each step of a handler keeps the types.
LEMMA HandlerType == ASSUME TypeOK, HandlerStep PROVE TypeOK'
<1>0. /\ heap \in Seq(TU) /\ queue \in Seq(Edit) /\ tus \in [Uri -> 0 .. Len(heap)]
      /\ job \in [Worker -> Job] /\ shown \in [Uri -> Report] /\ Len(heap) \in Nat
      /\ \A x \in Worker : job[x].phase \in {"reparse", "check", "publish"} =>
                              job[x].tu \in 1 .. Len(heap)
      /\ dispatch \in Handler
  BY DEF TypeOK, SchedTypeOK
<1>1. /\ dispatch.pc # "idle" /\ UNCHANGED <<edits, client>>
      /\ Waiting \in Handler
  BY DEF HandlerStep, CallOpen, CallUpdate, CallSchedule, ClosePublish, CallClose,
         Handler, Waiting
<1>2. dispatch.uri \in Uri /\ dispatch.version \in Int /\ dispatch.text \in Nat
  BY <1>0, <1>1 DEF Handler, Waiting
<1>3. \A p \in HandlerPc : Goto(p) => dispatch' \in Handler
  <2> SUFFICES ASSUME NEW p \in HandlerPc, Goto(p) PROVE dispatch' \in Handler
    OBVIOUS
  <2>1. dispatch' = [dispatch EXCEPT !.pc = p]
    BY DEF Goto
  <2> QED
    BY <1>0, <1>1, <2>1, HandlerMoves, ZenonT(60)
<1>4. ASSUME heap' \in Seq(TU), tus' \in [Uri -> 0 .. Len(heap')], Len(heap) <= Len(heap'),
             UNCHANGED job, queue' \in Seq(Edit), shown' \in [Uri -> Report],
             dispatch' \in Handler
      PROVE  TypeOK'
  <2>1. \A x \in Worker : job'[x].phase \in {"reparse", "check", "publish"} =>
                              job'[x].tu \in 1 .. Len(heap')
    <3>1. Len(heap') \in Nat
      BY <1>4
    <3> QED
      BY <1>0, <1>4, <3>1
  <2> QED
    BY <1>0, <1>1, <1>4, <2>1 DEF TypeOK, SchedTypeOK
<1>5. CASE CallOpen
  <2>1. EnsureTU(dispatch.uri) /\ UNCHANGED <<queue, job, shown>> /\ dispatch' \in Handler
    BY <1>3, <1>5 DEF CallOpen, Open, HandlerPc
  <2> QED
    BY <1>0, <1>2, <1>4, <2>1, EnsureTUType
<1>6. CASE CallUpdate
  <2>1. Update(dispatch.uri, dispatch.version) /\ dispatch' \in Handler
    BY <1>3, <1>6 DEF CallUpdate, HandlerPc
  <2>2. UNCHANGED <<queue, job, shown>>
    BY <2>1 DEF Update
  <2> QED
    BY <1>0, <1>2, <1>4, <2>1, <2>2, UpdateType
<1>7. CASE CallSchedule
  <2> DEFINE e == [uri |-> dispatch.uri, version |-> dispatch.version,
                   text |-> dispatch.text]
  <2>1. EnsureTU(dispatch.uri) /\ UNCHANGED <<job, shown>> /\ dispatch' \in Handler
        /\ queue' = Append(queue, e)
    BY <1>1, <1>7 DEF CallSchedule, Schedule
  <2>2. e \in Edit
    BY <1>2 DEF Edit
  <2> HIDE DEF e
  <2>3. queue' \in Seq(Edit)
    BY <1>0, <2>1, <2>2
  <2> QED
    BY <1>0, <1>2, <1>4, <2>1, <2>3, EnsureTUType
<1>8. CASE ClosePublish
  <2> DEFINE r == [label |-> dispatch.version, diags |-> FreshState]
  <2>1. shown' = [shown EXCEPT ![dispatch.uri] = r] /\ UNCHANGED <<tus, heap, queue, job>>
        /\ dispatch' \in Handler
    BY <1>3, <1>8 DEF ClosePublish, HandlerPc
  <2>2. r \in Report
    BY <1>2, FreshIsTU DEF Report
  <2> HIDE DEF r
  <2>3. shown' \in [Uri -> Report]
    BY <1>0, <2>1, <2>2, ZenonT(60)
  <2>4. Len(heap) <= Len(heap') /\ heap' \in Seq(TU)
    BY <1>0, <2>1
  <2> QED
    BY <1>0, <1>4, <2>1, <2>3, <2>4
<1>9. CASE CallClose
  <2>1. tus' = [tus EXCEPT ![dispatch.uri] = 0] /\ UNCHANGED <<heap, queue, job, shown>>
        /\ dispatch' \in Handler
    BY <1>1, <1>9 DEF CallClose, Close, NoTu
  <2>2. 0 \in 0 .. Len(heap)
    BY <1>0
  <2>3. tus' \in [Uri -> 0 .. Len(heap)] /\ heap' = heap
    BY <1>0, <2>1, <2>2, ZenonT(60)
  <2> QED
    BY <1>0, <1>4, <2>1, <2>3
<1> QED
  BY <1>5, <1>6, <1>7, <1>8, <1>9 DEF HandlerStep

\* Each notification keeps the types.
LEMMA ClientType == ASSUME TypeOK, ClientStep PROVE TypeOK'
<1>0. /\ heap \in Seq(TU) /\ tus \in [Uri -> 0 .. Len(heap)] /\ SchedTypeOK
      /\ dispatch \in Handler /\ edits \in 0 .. MaxEdits /\ MaxEdits \in Nat
      /\ client \in [Uri -> [open: BOOLEAN, version: Int, text: Nat]]
  BY SyncAssumption DEF TypeOK, SchedTypeOK
<1>1. ASSUME UNCHANGED schedVars PROVE SchedTypeOK'
  BY <1>0, <1>1 DEF schedVars, SchedTypeOK
<1>2. ASSUME NEW u \in Uri, NEW v \in Version, ClientSent(u, v)
      PROVE  /\ edits' \in 0 .. MaxEdits
             /\ client' \in [Uri -> [open: BOOLEAN, version: Int, text: Nat]]
             /\ EditOf("open", u, v) \in Handler
  <2> DEFINE c == [open |-> TRUE, version |-> v, text |-> edits + 1]
  <2>1. c \in [open: BOOLEAN, version: Int, text: Nat]
    BY <1>0, SyncAssumption
  <2>2. client' = [client EXCEPT ![u] = c] /\ edits' \in 0 .. MaxEdits
    BY <1>0, <1>2 DEF ClientSent
  <2>3. EditOf("open", u, v) \in Handler
    BY <1>0, SyncAssumption DEF EditOf, Handler, HandlerPc
  <2> HIDE DEF c
  <2> QED
    BY <1>0, <2>1, <2>2, <2>3
<1>3. ASSUME NEW u \in Uri, NEW v \in Version, DidOpen(u, v) \/ DidChange(u, v)
      PROVE  TypeOK'
  <2>1. UNCHANGED schedVars /\ ClientSent(u, v)
        /\ (dispatch' = Waiting \/ dispatch' = EditOf("open", u, v))
    BY <1>3 DEF DidOpen, DidChange
  <2>2. dispatch' \in Handler
    BY <1>2, <2>1 DEF Handler
  <2> QED
    BY <1>1, <1>2, <2>1, <2>2 DEF TypeOK
<1>4. ASSUME NEW u \in Uri, DidClose(u) PROVE TypeOK'
  <2> DEFINE n == StateOf(u, [FreshState EXCEPT !.version = 0]).version
             c == [client[u] EXCEPT !.open = FALSE]
  <2>1. n \in Int
    <3>1. CASE tus[u] = NoTu
      BY <3>1 DEF StateOf, FreshState
    <3>2. CASE tus[u] # NoTu
      <4>1. heap[tus[u]] \in TU
        BY <1>0, <3>2 DEF NoTu
      <4> QED
        BY <3>2, <4>1 DEF StateOf, TU, State
    <3> QED
      BY <3>1, <3>2
  <2>2. c \in [open: BOOLEAN, version: Int, text: Nat]
    BY <1>0, ZenonT(60)
  <2> HIDE DEF n
  <2>3. dispatch' = [pc |-> "closePublish", uri |-> u, text |-> 0, version |-> n]
    BY <1>4 DEF DidClose, n
  <2>4. dispatch' \in Handler
    BY <2>1, <2>3 DEF Handler, HandlerPc
  <2>5. client' = [client EXCEPT ![u] = c] /\ UNCHANGED schedVars /\ edits' = edits
    BY <1>4 DEF DidClose
  <2> HIDE DEF c
  <2> QED
    BY <1>0, <1>1, <2>2, <2>4, <2>5 DEF TypeOK
<1> QED
  BY <1>3, <1>4 DEF ClientStep

\* Every step keeps the types.
LEMMA TypeStep == ASSUME TypeOK, [Next]_vars PROVE TypeOK'
<1>1. CASE Next
  BY <1>1, WorkerType, HandlerType, ClientType DEF Next, PoolStep
<1>2. CASE UNCHANGED vars
  BY <1>2 DEF vars, TypeOK, SchedTypeOK
<1> QED
  BY <1>1, <1>2

\* The dispatch thread and the pool keep the state well typed, and a worker
\* past its lookup always holds a unit that was made for a document.
THEOREM TypeCorrect == Spec => []TypeOK
  BY InitType, TypeStep, PTL DEF Spec

-----------------------------------------------------------------------------
(***************************************************************************)
(* What each step does, field by field.                                    *)
(***************************************************************************)

\* The pool hands over its oldest lambda.
LEMMA TakeEffect ==
    ASSUME TypeOK, NEW w \in Worker, Take(w)
    PROVE  /\ job[w].phase = "idle" /\ queue # <<>> /\ Len(queue) \in Nat \ {0}
           /\ queue' \in Seq(Edit) /\ Len(queue') = Len(queue) - 1
           /\ \A i \in 1 .. Len(queue') : queue'[i] = queue[i + 1]
           /\ job'[w].phase = "lookup" /\ job'[w].uri = queue[1].uri
           /\ job'[w].version = queue[1].version /\ job'[w].text = queue[1].text
           /\ \A x \in Worker : x # w => job'[x] = job[x]
           /\ UNCHANGED <<tus, heap, shown>>
<1>0. queue \in Seq(Edit) /\ job \in [Worker -> Job]
  BY DEF TypeOK, SchedTypeOK
<1>1. queue # <<>> /\ queue' = Tail(queue) /\ job[w] = Idle
  BY DEF Take
<1>2. /\ Len(queue) \in Nat \ {0} /\ queue' \in Seq(Edit) /\ Len(queue') = Len(queue) - 1
      /\ \A i \in 1 .. Len(queue') : queue'[i] = queue[i + 1]
      /\ Head(queue) = queue[1]
  BY <1>0, <1>1
<1> QED
  BY <1>0, <1>1, <1>2 DEF Take, Idle

\* A worker drops a closed document's edit, or finds the document's unit.
LEMMA LookupEffect ==
    ASSUME TypeOK, NEW w \in Worker, Lookup(w)
    PROVE  /\ job[w].phase = "lookup" /\ job[w].uri \in Uri
           /\ \/ tus[job[w].uri] = NoTu /\ job'[w].phase = "idle"
              \/ /\ tus[job[w].uri] # NoTu
                 /\ job'[w].phase = "reparse" /\ job'[w].uri = job[w].uri
                 /\ job'[w].version = job[w].version /\ job'[w].text = job[w].text
                 /\ job'[w].tu = tus[job[w].uri]
           /\ \A x \in Worker : x # w => job'[x] = job[x]
           /\ UNCHANGED <<tus, heap, queue, shown>>
<1>0. job \in [Worker -> Job] /\ job[w] \in Job /\ tus \in [Uri -> 0 .. Len(heap)]
      /\ heap \in Seq(TU)
  BY DEF TypeOK, SchedTypeOK
<1> DEFINE t == tus[job[w].uri]
           k == [job[w] EXCEPT !.phase = "reparse", !.tu = t]
<1>1. /\ job[w].phase = "lookup" /\ UNCHANGED <<tus, heap, queue, shown>>
      /\ job' = [job EXCEPT ![w] = IF t = NoTu THEN Idle ELSE k]
  BY <1>0 DEF Lookup
<1>2. job[w].uri \in Uri
  BY <1>0, <1>1, BusyJob
<1>3. t \in Nat
  BY <1>0, <1>2
<1>4. job[w].phase # "idle"
  BY <1>1
<1>5. /\ k.phase = "reparse" /\ k.uri = job[w].uri /\ k.version = job[w].version
      /\ k.text = job[w].text /\ k.tu = t
  BY <1>0, <1>3, <1>4, JobFinds, ZenonT(60)
<1> HIDE DEF k
<1> QED
  BY <1>0, <1>1, <1>2, <1>5, IdleJob

\* A reparse changes the state of the worker's unit and nothing else.
LEMMA ReparseEffect ==
    ASSUME TypeOK, NEW w \in Worker, Reparse(w)
    PROVE  /\ job[w].phase = "reparse" /\ job[w].tu \in 1 .. Len(heap)
           /\ Len(heap') = Len(heap)
           /\ \A t \in 1 .. Len(heap) :
                 /\ heap'[t].received = heap[t].received
                 /\ heap'[t].published = heap[t].published
                 /\ t # job[w].tu => heap'[t] = heap[t]
           /\ heap'[job[w].tu].state = [version |-> job[w].version, text |-> job[w].text]
           /\ job'[w].phase = "check" /\ job'[w].uri = job[w].uri
           /\ job'[w].version = job[w].version /\ job'[w].text = job[w].text
           /\ job'[w].tu = job[w].tu
           /\ \A x \in Worker : x # w => job'[x] = job[x]
           /\ UNCHANGED <<tus, queue, shown>>
<1>0. job \in [Worker -> Job] /\ job[w] \in Job /\ heap \in Seq(TU)
      /\ (job[w].phase = "reparse" => job[w].tu \in 1 .. Len(heap))
  BY DEF TypeOK, SchedTypeOK
<1> DEFINE t == job[w].tu
           s == [version |-> job[w].version, text |-> job[w].text]
           n == [heap[t] EXCEPT !.state = s]
           k == [job[w] EXCEPT !.phase = "check"]
<1>1. job[w].phase = "reparse" /\ heap' = [heap EXCEPT ![t] = n]
      /\ job' = [job EXCEPT ![w] = k] /\ UNCHANGED <<tus, queue, shown>>
  BY <1>0 DEF Reparse
<1>2. t \in 1 .. Len(heap) /\ heap[t] \in TU
  BY <1>0, <1>1
<1>3. job[w].version \in Int /\ job[w].text \in Nat
  BY <1>0, <1>1, BusyJob
<1>4. n \in TU /\ n.received = heap[t].received /\ n.published = heap[t].published
      /\ n.state = s
  BY <1>2, <1>3 DEF TU, State
<1>5. /\ k.phase = "check" /\ k.uri = job[w].uri /\ k.version = job[w].version
      /\ k.text = job[w].text /\ k.tu = t
  BY <1>0, <1>1, JobMoves DEF Phase
<1> HIDE DEF n, k, s
<1>6. Len(heap') = Len(heap) /\ heap'[t] = n
      /\ \A i \in 1 .. Len(heap) : i # t => heap'[i] = heap[i]
  BY <1>0, <1>1, <1>2, <1>4, HeapUpdate
<1>7. \A i \in 1 .. Len(heap) :
         heap'[i].received = heap[i].received /\ heap'[i].published = heap[i].published
  BY <1>4, <1>6
<1> QED
  BY <1>0, <1>1, <1>2, <1>4, <1>5, <1>6, <1>7 DEF s

\* A stale result is dropped; any other goes on.
LEMMA StaleCheckEffect ==
    ASSUME TypeOK, NEW w \in Worker, StaleCheck(w)
    PROVE  /\ job[w].phase = "check" /\ job[w].tu \in 1 .. Len(heap)
           /\ \/ job[w].version < heap[job[w].tu].received /\ job'[w].phase = "idle"
              \/ /\ job'[w].phase = "publish" /\ job'[w].uri = job[w].uri
                 /\ job'[w].version = job[w].version /\ job'[w].text = job[w].text
                 /\ job'[w].tu = job[w].tu
           /\ \A x \in Worker : x # w => job'[x] = job[x]
           /\ UNCHANGED <<tus, heap, queue, shown>>
<1>0. job \in [Worker -> Job] /\ job[w] \in Job
      /\ (job[w].phase = "check" => job[w].tu \in 1 .. Len(heap))
  BY DEF TypeOK, SchedTypeOK
<1> DEFINE k == [job[w] EXCEPT !.phase = "publish"]
<1>1. /\ job[w].phase = "check" /\ UNCHANGED <<tus, heap, queue, shown>>
      /\ job' = [job EXCEPT ![w] =
                    IF job[w].version < heap[job[w].tu].received THEN Idle ELSE k]
  BY <1>0 DEF StaleCheck
<1>2. /\ k.phase = "publish" /\ k.uri = job[w].uri /\ k.version = job[w].version
      /\ k.text = job[w].text /\ k.tu = job[w].tu
  BY <1>0, <1>1, JobMoves DEF Phase
<1> HIDE DEF k
<1> QED
  BY <1>0, <1>1, <1>2, IdleJob

\* A report shows the unit's state under the job's version.
LEMMA PublishEffect ==
    ASSUME TypeOK, NEW w \in Worker, Publish(w)
    PROVE  /\ job[w].phase = "publish" /\ job[w].tu \in 1 .. Len(heap)
           /\ job[w].uri \in Uri
           /\ Len(heap') = Len(heap)
           /\ \A t \in 1 .. Len(heap) :
                 /\ heap'[t].received = heap[t].received
                 /\ heap'[t].state = heap[t].state
                 /\ t # job[w].tu => heap'[t] = heap[t]
           /\ heap'[job[w].tu].published =
                 heap[job[w].tu].published \cup {job[w].version}
           /\ shown' = [shown EXCEPT ![job[w].uri] =
                 [label |-> job[w].version, diags |-> heap[job[w].tu].state]]
           /\ job'[w].phase = "idle"
           /\ \A x \in Worker : x # w => job'[x] = job[x]
           /\ UNCHANGED <<tus, queue>>
<1>0. job \in [Worker -> Job] /\ job[w] \in Job /\ heap \in Seq(TU)
      /\ (job[w].phase = "publish" => job[w].tu \in 1 .. Len(heap))
  BY DEF TypeOK, SchedTypeOK
<1> DEFINE t == job[w].tu
           n == [heap[t] EXCEPT !.published = @ \cup {job[w].version}]
<1>1. job[w].phase = "publish" /\ heap' = [heap EXCEPT ![t] = n]
      /\ shown' = [shown EXCEPT ![job[w].uri] =
                      [label |-> job[w].version, diags |-> heap[t].state]]
      /\ job' = [job EXCEPT ![w] = Idle] /\ UNCHANGED <<tus, queue>>
  BY <1>0 DEF Publish
<1>2. t \in 1 .. Len(heap) /\ heap[t] \in TU
  BY <1>0, <1>1
<1>3. job[w].version \in Int /\ job[w].uri \in Uri
  BY <1>0, <1>1, BusyJob
<1>4. n \in TU /\ n.received = heap[t].received /\ n.state = heap[t].state
      /\ n.published = heap[t].published \cup {job[w].version}
  BY <1>2, <1>3 DEF TU
<1> HIDE DEF n
<1>5. Len(heap') = Len(heap) /\ heap'[t] = n
      /\ \A i \in 1 .. Len(heap) : i # t => heap'[i] = heap[i]
  BY <1>0, <1>1, <1>2, <1>4, HeapUpdate
<1>6. \A i \in 1 .. Len(heap) :
         heap'[i].received = heap[i].received /\ heap'[i].state = heap[i].state
  BY <1>4, <1>5
<1>7. job'[w].phase = "idle" /\ \A x \in Worker : x # w => job'[x] = job[x]
  BY <1>0, <1>1, IdleJob
<1> QED
  BY <1>1, <1>2, <1>3, <1>4, <1>5, <1>6, <1>7

\* ensureTU gives a document without a unit a fresh one and leaves the other
\* documents and units alone.
LEMMA EnsureTUEffect ==
    ASSUME TypeOK, NEW u \in Uri, EnsureTU(u)
    PROVE  /\ tus[u] # NoTu => UNCHANGED <<heap, tus>>
           /\ tus[u] = NoTu => /\ tus'[u] = Len(heap) + 1
                               /\ heap'[Len(heap) + 1] = FreshTU
           /\ tus'[u] # NoTu /\ Len(heap) \in Nat
           /\ \A x \in Uri : x # u => tus'[x] = tus[x]
           /\ \A t \in 1 .. Len(heap) : heap'[t] = heap[t]
<1>0. heap \in Seq(TU) /\ tus \in [Uri -> 0 .. Len(heap)] /\ Len(heap) \in Nat
  BY DEF TypeOK, SchedTypeOK
<1>1. CASE tus[u] # NoTu
  BY <1>0, <1>1 DEF EnsureTU
<1>2. CASE tus[u] = NoTu
  <2>1. heap' = Append(heap, FreshTU) /\ tus' = [tus EXCEPT ![u] = Len(heap) + 1]
    BY <1>2 DEF EnsureTU
  <2>2. heap'[Len(heap) + 1] = FreshTU /\ \A t \in 1 .. Len(heap) : heap'[t] = heap[t]
    BY <1>0, <2>1, HeapAppend, FreshIsTU
  <2> QED
    BY <1>0, <1>2, <2>1, <2>2 DEF NoTu
<1> QED
  BY <1>1, <1>2

\* update on a document with a unit raises the version received for it.
LEMMA UpdateEffect ==
    ASSUME TypeOK, NEW u \in Uri, NEW v \in Int, Update(u, v), tus[u] # NoTu
    PROVE  /\ UNCHANGED <<tus, queue, job, shown>>
           /\ Len(heap') = Len(heap)
           /\ heap'[tus[u]].received = Raise(heap[tus[u]].received, v)
           /\ \A t \in 1 .. Len(heap) :
                 /\ heap'[t].published = heap[t].published
                 /\ heap'[t].state = heap[t].state
                 /\ t # tus[u] => heap'[t] = heap[t]
<1>0. heap \in Seq(TU) /\ tus \in [Uri -> 0 .. Len(heap)] /\ Len(heap) \in Nat
  BY DEF TypeOK, SchedTypeOK
<1> DEFINE t == tus[u]
           n == [heap[t] EXCEPT !.received = Raise(@, v)]
<1>1. heap' = [heap EXCEPT ![t] = n] /\ UNCHANGED <<tus, queue, job, shown>>
  BY DEF Update
<1>2. t \in 1 .. Len(heap) /\ heap[t] \in TU
  BY <1>0 DEF NoTu
<1>3. n \in TU /\ n.received = Raise(heap[t].received, v)
      /\ n.published = heap[t].published /\ n.state = heap[t].state
  BY <1>2 DEF TU, Raise
<1> HIDE DEF n
<1>4. Len(heap') = Len(heap) /\ heap'[t] = n
      /\ \A i \in 1 .. Len(heap) : i # t => heap'[i] = heap[i]
  BY <1>0, <1>1, <1>2, <1>3, HeapUpdate
<1> QED
  BY <1>1, <1>3, <1>4

\* A handler that goes on keeps its document, version and text.
LEMMA GotoEffect ==
    ASSUME TypeOK, dispatch.pc # "idle", NEW p \in HandlerPc, Goto(p)
    PROVE  /\ dispatch'.pc = p /\ dispatch'.uri = dispatch.uri
           /\ dispatch'.version = dispatch.version /\ dispatch'.text = dispatch.text
<1>1. dispatch \in Handler /\ dispatch' = [dispatch EXCEPT !.pc = p]
  BY DEF TypeOK, Goto
<1> QED
  BY <1>1, HandlerMoves, ZenonT(60)

\* What a running handler knows.
LEMMA HandlerKnows ==
    ASSUME TypeOK, dispatch.pc # "idle"
    PROVE  dispatch.uri \in Uri /\ dispatch.version \in Int
  BY DEF TypeOK, Handler, Waiting

\* A notification starts a handler, or is ignored; the scheduler's state is
\* untouched.
LEMMA ClientEffect ==
    ASSUME TypeOK, ClientStep
    PROVE  /\ UNCHANGED schedVars
           /\ dispatch.pc = "idle"
           /\ \/ dispatch'.pc = "idle"
              \/ dispatch'.pc = "open" /\ dispatch'.version \in Nat
              \/ dispatch'.pc = "closePublish"
<1>1. ASSUME NEW u \in Uri, NEW v \in Version, DidOpen(u, v) \/ DidChange(u, v)
      PROVE  /\ UNCHANGED schedVars /\ dispatch = Waiting
             /\ dispatch' = Waiting \/ dispatch' = EditOf("open", u, v)
  BY <1>1 DEF DidOpen, DidChange
<1>2. ASSUME NEW u \in Uri, DidClose(u)
      PROVE  UNCHANGED schedVars /\ dispatch = Waiting /\ dispatch'.pc = "closePublish"
  BY <1>2 DEF DidClose
<1> QED
  BY <1>1, <1>2, SyncAssumption DEF ClientStep, EditOf, Waiting

-----------------------------------------------------------------------------
(***************************************************************************)
(* Ownership of units.                                                     *)
(***************************************************************************)

\* Initially no document has a unit and nobody runs.
LEMMA InitOwned == Init => UnitsOwned
  BY DEF Init, SchedInit, UnitsOwned, NoTu, Idle, Waiting

\* A worker takes its unit from the map under the key of its own job.
LEMMA WorkerOwned ==
    ASSUME TypeOK, UnitsOwned, NEW w \in Worker, WorkerStep(w), UNCHANGED dispatch
    PROVE  UnitsOwned'
<1>1. CASE Take(w)
  <2>1. job'[w].phase = "lookup" /\ tus' = tus /\ \A x \in Worker : x # w => job'[x] = job[x]
    BY <1>1, TakeEffect
  <2> QED
    BY <2>1 DEF UnitsOwned
<1>2. CASE Lookup(w)
  BY <1>2, LookupEffect DEF UnitsOwned
<1>3. CASE Reparse(w)
  <2>1. /\ job[w].phase = "reparse" /\ job'[w].uri = job[w].uri /\ job'[w].tu = job[w].tu
        /\ tus' = tus /\ \A x \in Worker : x # w => job'[x] = job[x]
    BY <1>3, ReparseEffect, ZenonT(60)
  <2> QED
    BY <2>1 DEF UnitsOwned
<1>4. CASE StaleCheck(w)
  BY <1>4, StaleCheckEffect DEF UnitsOwned
<1>5. CASE Publish(w)
  <2>1. job'[w].phase = "idle" /\ tus' = tus /\ \A x \in Worker : x # w => job'[x] = job[x]
    BY <1>5, PublishEffect, ZenonT(60)
  <2> QED
    BY <2>1 DEF UnitsOwned
<1> QED
  BY <1>1, <1>2, <1>3, <1>4, <1>5 DEF WorkerStep

\* Only the dispatch thread makes and erases units, one handler at a time,
\* and a unit it makes is new.
LEMMA HandlerOwned == ASSUME TypeOK, UnitsOwned, HandlerStep PROVE UnitsOwned'
<1>0. /\ heap \in Seq(TU) /\ tus \in [Uri -> 0 .. Len(heap)] /\ Len(heap) \in Nat
      /\ \A x \in Worker : job[x].phase \in {"reparse", "check", "publish"} =>
                              job[x].tu \in 1 .. Len(heap)
      /\ \A x \in Uri : tus[x] \in 0 .. Len(heap)
  BY DEF TypeOK, SchedTypeOK
<1>1. dispatch.pc # "idle"
  BY DEF HandlerStep, CallOpen, CallUpdate, CallSchedule, ClosePublish, CallClose
<1>2. dispatch.uri \in Uri /\ dispatch.version \in Int
  BY <1>1, HandlerKnows
<1>3. ASSUME EnsureTU(dispatch.uri), UNCHANGED job
      PROVE  /\ \A u1, u2 \in Uri : tus'[u1] # NoTu /\ tus'[u1] = tus'[u2] => u1 = u2
             /\ \A x \in Worker, u \in Uri :
                   /\ job'[x].phase \in {"reparse", "check", "publish"}
                   /\ job'[x].tu = tus'[u]
                   => job'[x].uri = u
             /\ tus'[dispatch.uri] # NoTu
  BY <1>0, <1>2, <1>3, EnsureTUEffect DEF UnitsOwned, NoTu
<1>4. CASE CallOpen
  <2>1. /\ EnsureTU(dispatch.uri) /\ UNCHANGED job /\ dispatch.pc = "open"
        /\ dispatch'.pc = "update" /\ dispatch'.uri = dispatch.uri
        /\ dispatch'.version = dispatch.version
    BY <1>1, <1>4, GotoEffect DEF CallOpen, Open, HandlerPc
  <2> QED
    BY <1>3, <2>1 DEF UnitsOwned
<1>5. CASE CallUpdate
  <2>1. /\ Update(dispatch.uri, dispatch.version) /\ dispatch.pc = "update"
        /\ dispatch'.pc = "schedule" /\ dispatch'.uri = dispatch.uri
        /\ dispatch'.version = dispatch.version
    BY <1>1, <1>5, GotoEffect DEF CallUpdate, HandlerPc
  <2>2. tus[dispatch.uri] # NoTu
    BY <2>1 DEF UnitsOwned
  <2>3. UNCHANGED <<tus, job>>
    BY <1>2, <2>1, <2>2, UpdateEffect
  <2> QED
    BY <2>1, <2>2, <2>3 DEF UnitsOwned
<1>6. CASE CallSchedule
  <2>1. EnsureTU(dispatch.uri) /\ UNCHANGED job /\ dispatch'.pc = "idle"
    BY <1>6 DEF CallSchedule, Schedule, Waiting
  <2> QED
    BY <1>3, <2>1 DEF UnitsOwned
<1>7. CASE ClosePublish
  <2>1. UNCHANGED <<tus, job>> /\ dispatch'.pc = "close"
    BY <1>1, <1>7, GotoEffect DEF ClosePublish, HandlerPc
  <2> QED
    BY <2>1 DEF UnitsOwned
<1>8. CASE CallClose
  <2>1. tus' = [tus EXCEPT ![dispatch.uri] = NoTu] /\ UNCHANGED job
        /\ dispatch'.pc = "idle"
    BY <1>8 DEF CallClose, Close, Waiting
  <2> QED
    BY <1>0, <2>1 DEF UnitsOwned, NoTu
<1> QED
  BY <1>4, <1>5, <1>6, <1>7, <1>8 DEF HandlerStep

\* Every step keeps ownership.
LEMMA OwnedStep == ASSUME TypeOK, UnitsOwned, [Next]_vars PROVE UnitsOwned'
<1>1. CASE ClientStep
  BY <1>1, ClientEffect DEF UnitsOwned, schedVars
<1>2. CASE UNCHANGED vars
  BY <1>2 DEF UnitsOwned, vars
<1> QED
  BY <1>1, <1>2, WorkerOwned, HandlerOwned DEF Next, PoolStep

\* No two documents share a unit, a worker never works on another document's
\* unit, and update and schedule find the unit that open made.
THEOREM Ownership == Spec => []UnitsOwned
  BY InitType, TypeStep, InitOwned, OwnedStep, PTL DEF Spec

-----------------------------------------------------------------------------
(***************************************************************************)
(* The newest version received is reported.                                *)
(***************************************************************************)

\* Initially nothing is owed.
LEMMA InitOwed == Init => NewestOwed
  BY DEF Init, SchedInit, NewestOwed, NoTu

\* What one worker does is no business of the other debtors.
LEMMA OthersOwe ==
    ASSUME NEW w \in Worker, NEW u, NEW t, NEW v, Owed(u, t, v), UNCHANGED dispatch,
           QueueOwes(u, v) => QueueOwes(u, v)' \/ WorkerOwes(w, u, t, v)',
           \A x \in Worker : x # w => job'[x] = job[x],
           WorkerOwes(w, u, t, v) => WorkerOwes(w, u, t, v)'
    PROVE  Owed(u, t, v)'
<1>1. HandlerOwes(u, v) => HandlerOwes(u, v)'
  BY DEF HandlerOwes
<1>2. \A x \in Worker : x # w /\ WorkerOwes(x, u, t, v) => WorkerOwes(x, u, t, v)'
  BY DEF WorkerOwes
<1> QED
  BY <1>1, <1>2 DEF Owed

\* Nor is what the handler does a business of the workers.
LEMMA WorkersOwe ==
    ASSUME NEW u, NEW t, NEW v, Owed(u, t, v), UNCHANGED job,
           QueueOwes(u, v) => QueueOwes(u, v)',
           HandlerOwes(u, v) => HandlerOwes(u, v)' \/ QueueOwes(u, v)'
    PROVE  Owed(u, t, v)'
<1>1. \A w \in Worker : WorkerOwes(w, u, t, v) => WorkerOwes(w, u, t, v)'
  BY DEF WorkerOwes
<1> QED
  BY <1>1 DEF Owed

\* A worker that owes the newest version of a document hands the debt on
\* from phase to phase: its unit is in the map when it looks, and the stale
\* check lets the newest version pass.
LEMMA WorkerOwed ==
    ASSUME TypeOK, NEW w \in Worker, WorkerStep(w), UNCHANGED dispatch,
           NEW u \in Uri, NEW t \in 1 .. Len(heap), t = tus[u],
           NEW v \in Int, v = heap[t].received,
           v \in heap[t].published \/ Owed(u, t, v)
    PROVE  /\ tus'[u] = t /\ heap'[t].received = v
           /\ v \in heap'[t].published \/ Owed(u, t, v)'
<1>0. queue \in Seq(Edit) /\ Len(queue) \in Nat
  BY DEF TypeOK, SchedTypeOK
<1>3. CASE Take(w)
  <2>1. /\ Len(queue) \in Nat \ {0} /\ Len(queue') = Len(queue) - 1
        /\ \A i \in 1 .. Len(queue') : queue'[i] = queue[i + 1]
        /\ job'[w].phase = "lookup" /\ job'[w].uri = queue[1].uri
        /\ job'[w].version = queue[1].version
        /\ job[w].phase = "idle" /\ \A x \in Worker : x # w => job'[x] = job[x]
        /\ UNCHANGED <<tus, heap>>
    BY <1>3, TakeEffect
  <2>2. ASSUME NEW i \in 1 .. Len(queue), queue[i].uri = u, queue[i].version = v
        PROVE  QueueOwes(u, v)' \/ WorkerOwes(w, u, t, v)'
    <3>1. CASE i = 1
      BY <2>1, <2>2, <3>1 DEF WorkerOwes
    <3>2. CASE i # 1
      <4>1. i - 1 \in 1 .. Len(queue') /\ queue'[i - 1] = queue[i]
        BY <1>0, <2>1, <3>2
      <4> QED
        BY <2>2, <4>1 DEF QueueOwes
    <3> QED
      BY <3>1, <3>2
  <2>3. Owed(u, t, v) => Owed(u, t, v)'
    <3>1. ~WorkerOwes(w, u, t, v)
      BY <2>1 DEF WorkerOwes
    <3>2. QueueOwes(u, v) => QueueOwes(u, v)' \/ WorkerOwes(w, u, t, v)'
      BY <2>2 DEF QueueOwes
    <3> QED
      BY <2>1, <3>1, <3>2, OthersOwe
  <2> QED
    BY <2>1, <2>3
<1>4. CASE Lookup(w)
  <2>1. /\ job[w].phase = "lookup" /\ job[w].uri \in Uri
        /\ \/ tus[job[w].uri] = NoTu
           \/ /\ job'[w].phase = "reparse" /\ job'[w].version = job[w].version
              /\ job'[w].tu = tus[job[w].uri]
        /\ \A x \in Worker : x # w => job'[x] = job[x]
        /\ UNCHANGED <<tus, heap, queue>>
    BY <1>4, LookupEffect
  <2>2. WorkerOwes(w, u, t, v) => WorkerOwes(w, u, t, v)'
    BY <2>1 DEF WorkerOwes, NoTu
  <2>3. QueueOwes(u, v) => QueueOwes(u, v)'
    BY <2>1 DEF QueueOwes
  <2> QED
    BY <2>1, <2>2, <2>3, OthersOwe
<1>5. CASE Reparse(w)
  <2>1. /\ job[w].phase = "reparse" /\ job'[w].phase = "check"
        /\ job'[w].version = job[w].version /\ job'[w].tu = job[w].tu
        /\ \A x \in Worker : x # w => job'[x] = job[x]
        /\ UNCHANGED <<tus, queue>>
    BY <1>5, ReparseEffect, ZenonT(60)
  <2>2. heap'[t].received = v /\ heap'[t].published = heap[t].published
    BY <1>0, <1>5, ReparseEffect, ZenonT(60)
  <2>3. WorkerOwes(w, u, t, v) => WorkerOwes(w, u, t, v)'
    BY <2>1 DEF WorkerOwes
  <2>4. QueueOwes(u, v) => QueueOwes(u, v)'
    BY <2>1 DEF QueueOwes
  <2> QED
    BY <2>1, <2>2, <2>3, <2>4, OthersOwe
<1>6. CASE StaleCheck(w)
  <2>1. /\ job[w].phase = "check"
        /\ \/ job[w].version < heap[job[w].tu].received
           \/ /\ job'[w].phase = "publish" /\ job'[w].version = job[w].version
              /\ job'[w].tu = job[w].tu
        /\ \A x \in Worker : x # w => job'[x] = job[x]
        /\ UNCHANGED <<tus, heap, queue>>
    BY <1>6, StaleCheckEffect
  <2>2. ~(v < v)
    OBVIOUS
  <2>3. WorkerOwes(w, u, t, v) => WorkerOwes(w, u, t, v)'
    BY <2>1, <2>2 DEF WorkerOwes
  <2>4. QueueOwes(u, v) => QueueOwes(u, v)'
    BY <2>1 DEF QueueOwes
  <2> QED
    BY <2>1, <2>3, <2>4, OthersOwe
<1>7. CASE Publish(w)
  <2>1. /\ job[w].phase = "publish"
        /\ \A x \in Worker : x # w => job'[x] = job[x]
        /\ UNCHANGED <<tus, queue>>
    BY <1>7, PublishEffect, ZenonT(60)
  <2>2. heap'[t].received = v
    BY <1>0, <1>7, PublishEffect, ZenonT(60)
  <2>3. /\ heap[t].published \subseteq heap'[t].published
        /\ job[w].tu = t => job[w].version \in heap'[t].published
    BY <1>0, <1>7, PublishEffect, ZenonT(60)
  <2>4. WorkerOwes(w, u, t, v) => v \in heap'[t].published
    BY <2>1, <2>3 DEF WorkerOwes
  <2>5. QueueOwes(u, v) => QueueOwes(u, v)'
    BY <2>1 DEF QueueOwes
  <2>6. ~WorkerOwes(w, u, t, v) => (Owed(u, t, v) => Owed(u, t, v)')
    BY <2>1, <2>5, OthersOwe
  <2>7. tus' = tus
    BY <2>1
  <2> QED
    BY <2>2, <2>3, <2>4, <2>6, <2>7
<1> QED
  BY <1>3, <1>4, <1>5, <1>6, <1>7 DEF WorkerStep

\* A handler raises the version received and, until the edit is in the
\* queue, owes the report itself; a fresh unit is owed its first version.
LEMMA HandlerOwed ==
    ASSUME TypeOK, UnitsOwned, NewestOwed, HandlerStep,
           NEW u \in Uri, NEW t \in Nat, t = tus'[u], t # NoTu,
           NEW v, v = heap'[t].received
    PROVE  v \in heap'[t].published \/ Owed(u, t, v)'
<1>0. /\ heap \in Seq(TU) /\ tus \in [Uri -> 0 .. Len(heap)] /\ Len(heap) \in Nat
      /\ queue \in Seq(Edit) /\ Len(queue) \in Nat
  BY DEF TypeOK, SchedTypeOK
<1>1. dispatch.pc # "idle"
  BY DEF HandlerStep, CallOpen, CallUpdate, CallSchedule, ClosePublish, CallClose
<1>2. dispatch.uri \in Uri /\ dispatch.version \in Int
  BY <1>1, HandlerKnows
<1>3. ASSUME tus[u] = t
      PROVE  /\ t \in 1 .. Len(heap) /\ heap[t] \in TU
             /\ heap[t].received \in Int
             /\ heap[t].received \in heap[t].published \/ Owed(u, t, heap[t].received)
  <2>1. t \in 1 .. Len(heap)
    BY <1>0, <1>3 DEF NoTu
  <2>2. heap[t] \in TU
    BY <1>0, <2>1
  <2>3. heap[t].received \in Int
    BY <2>2 DEF TU
  <2>4. heap[t].received \in heap[t].published \/ Owed(u, t, heap[t].received)
    BY <1>3 DEF NewestOwed
  <2> QED
    BY <2>1, <2>2, <2>3, <2>4
<1>4. CASE CallOpen
  <2>1. /\ EnsureTU(dispatch.uri) /\ UNCHANGED <<queue, job>> /\ dispatch.pc = "open"
        /\ dispatch'.pc = "update" /\ dispatch'.uri = dispatch.uri
    BY <1>1, <1>4, GotoEffect DEF CallOpen, Open, HandlerPc
  <2>2. CASE tus[u] = t
    <3>1. heap'[t] = heap[t]
      BY <1>2, <1>3, <2>1, <2>2, EnsureTUEffect
    <3> QED
      BY <1>3, <2>1, <2>2, <3>1, WorkersOwe DEF HandlerOwes, QueueOwes
  <2>3. CASE tus[u] # t
    <3>1. u = dispatch.uri /\ tus[u] = NoTu
      BY <1>2, <2>1, <2>3, EnsureTUEffect
    <3>2. heap'[t] = FreshTU
      BY <1>2, <2>1, <3>1, EnsureTUEffect
    <3>3. v = -1
      BY <3>2 DEF FreshTU
    <3> QED
      BY <2>1, <3>1, <3>3 DEF Owed, HandlerOwes
  <2> QED
    BY <2>2, <2>3
<1>5. CASE CallUpdate
  <2>1. /\ Update(dispatch.uri, dispatch.version) /\ dispatch.pc = "update"
        /\ dispatch'.pc = "schedule" /\ dispatch'.uri = dispatch.uri
        /\ dispatch'.version = dispatch.version
    BY <1>1, <1>5, GotoEffect DEF CallUpdate, HandlerPc
  <2>2. tus[dispatch.uri] # NoTu /\ dispatch.version \in Nat
    BY <2>1 DEF UnitsOwned
  <2>3. UNCHANGED <<tus, queue, job>>
    BY <1>2, <2>1, <2>2, UpdateEffect
  <2>4. tus[u] = t
    BY <2>3
  <2>5. CASE u = dispatch.uri
    <3>1. v = Raise(heap[t].received, dispatch.version)
          /\ heap'[t].published = heap[t].published
      <4>1. t \in 1 .. Len(heap) /\ Update(u, dispatch.version) /\ tus[u] # NoTu
        BY <1>3, <2>1, <2>2, <2>4, <2>5
      <4> QED
        BY <1>2, <2>4, <4>1, UpdateEffect
    <3>2. CASE v = dispatch.version
      BY <2>1, <2>5, <3>2 DEF Owed, HandlerOwes
    <3>3. CASE v # dispatch.version
      <4>1. v = heap[t].received /\ v # -1
        BY <1>2, <1>3, <2>2, <2>4, <3>1, <3>3 DEF Raise
      <4>2. Owed(u, t, v) => Owed(u, t, v)'
        BY <2>1, <2>3, <4>1, WorkersOwe DEF HandlerOwes, QueueOwes
      <4> QED
        BY <1>3, <2>4, <3>1, <4>1, <4>2
    <3> QED
      BY <3>2, <3>3
  <2>6. CASE u # dispatch.uri
    <3>1. t # tus[dispatch.uri]
      BY <1>2, <2>4, <2>6 DEF UnitsOwned
    <3>2. heap'[t] = heap[t]
      BY <1>2, <1>3, <2>1, <2>2, <2>4, <3>1, UpdateEffect
    <3>3. Owed(u, t, v) => Owed(u, t, v)'
      BY <2>1, <2>3, <2>6, WorkersOwe DEF HandlerOwes, QueueOwes
    <3> QED
      BY <1>3, <2>4, <3>2, <3>3
  <2> QED
    BY <2>5, <2>6
<1>6. CASE CallSchedule
  <2> DEFINE e == [uri |-> dispatch.uri, version |-> dispatch.version,
                   text |-> dispatch.text]
  <2>1. /\ EnsureTU(dispatch.uri) /\ UNCHANGED job /\ dispatch.pc = "schedule"
        /\ queue' = Append(queue, e)
    BY <1>6 DEF CallSchedule, Schedule
  <2>2. tus[dispatch.uri] # NoTu
    BY <2>1 DEF UnitsOwned
  <2>3. UNCHANGED <<heap, tus>>
    BY <1>2, <2>1, <2>2, EnsureTUEffect
  <2>4. e.uri = dispatch.uri /\ e.version = dispatch.version
    OBVIOUS
  <2>5. e \in Edit
    BY <1>1 DEF Edit, TypeOK, Handler, Waiting
  <2> HIDE DEF e
  <2>6. /\ \A i \in 1 .. Len(queue) : i \in 1 .. Len(queue') /\ queue'[i] = queue[i]
        /\ Len(queue) + 1 \in 1 .. Len(queue') /\ queue'[Len(queue) + 1] = e
    BY <1>0, <2>1, <2>5
  <2>7. CASE v \in heap[t].published
    BY <2>3, <2>7
  <2>8. CASE Owed(u, t, v)
    <3>1. QueueOwes(u, v) => QueueOwes(u, v)'
      BY <2>6 DEF QueueOwes
    <3>2. HandlerOwes(u, v) => QueueOwes(u, v)'
      BY <2>1, <2>4, <2>6 DEF HandlerOwes, QueueOwes
    <3> QED
      BY <2>1, <2>8, <3>1, <3>2, WorkersOwe
  <2> QED
    BY <1>3, <2>3, <2>7, <2>8
<1>7. CASE ClosePublish
  <2>1. /\ UNCHANGED <<tus, heap, queue, job>>
        /\ dispatch.pc = "closePublish" /\ dispatch'.pc = "close"
    BY <1>1, <1>7, GotoEffect DEF ClosePublish, HandlerPc
  <2> QED
    BY <1>3, <2>1, WorkersOwe DEF HandlerOwes, QueueOwes
<1>8. CASE CallClose
  <2>1. /\ tus' = [tus EXCEPT ![dispatch.uri] = NoTu] /\ UNCHANGED <<heap, queue, job>>
        /\ dispatch.pc = "close"
    BY <1>8 DEF CallClose, Close
  <2>2. tus[u] = t
    BY <1>0, <1>2, <2>1
  <2>3. Owed(u, t, v) => Owed(u, t, v)'
    BY <2>1, WorkersOwe DEF HandlerOwes, QueueOwes
  <2>4. heap' = heap /\ v = heap[t].received
    BY <2>1
  <2> QED
    BY <1>3, <2>2, <2>3, <2>4
<1> QED
  BY <1>4, <1>5, <1>6, <1>7, <1>8 DEF HandlerStep

\* Every step keeps the newest versions reported or owed.
LEMMA OwedStep ==
    ASSUME TypeOK, UnitsOwned, NewestOwed, [Next]_vars
    PROVE  NewestOwed'
<1>0. heap \in Seq(TU) /\ tus \in [Uri -> 0 .. Len(heap)] /\ TypeOK'
  BY TypeStep DEF TypeOK, SchedTypeOK
<1>1. ASSUME UNCHANGED <<tus, heap, queue, job>>, dispatch.pc = "idle" \/ dispatch' = dispatch
      PROVE  NewestOwed'
  <2> SUFFICES ASSUME NEW u \in Uri, tus[u] # NoTu
               PROVE  (heap[tus[u]].received \in heap[tus[u]].published
                       \/ Owed(u, tus[u], heap[tus[u]].received))'
    BY <1>1 DEF NewestOwed
  <2>1. \A t, v : Owed(u, t, v) => Owed(u, t, v)'
    BY <1>1, WorkersOwe DEF HandlerOwes, QueueOwes
  <2> QED
    BY <1>1, <2>1 DEF NewestOwed, Owed, HandlerOwes, QueueOwes, WorkerOwes
<1>2. CASE ClientStep
  BY <1>1, <1>2, ClientEffect DEF schedVars
<1>3. CASE UNCHANGED vars
  BY <1>1, <1>3 DEF vars
<1>4. CASE HandlerStep
  <2> SUFFICES ASSUME NEW u \in Uri, tus'[u] # NoTu
               PROVE  (heap[tus[u]].received \in heap[tus[u]].published
                       \/ Owed(u, tus[u], heap[tus[u]].received))'
    BY DEF NewestOwed
  <2>1. PICK t \in Nat : t = tus'[u]
    BY <1>0 DEF TypeOK, SchedTypeOK
  <2>2. PICK v : v = heap'[t].received
    OBVIOUS
  <2>3. v \in heap'[t].published \/ Owed(u, t, v)'
    BY <1>4, <2>1, <2>2, HandlerOwed
  <2> QED
    BY <2>1, <2>2, <2>3 DEF Owed, HandlerOwes, QueueOwes, WorkerOwes
<1>5. ASSUME NEW w \in Worker, WorkerStep(w), UNCHANGED dispatch
      PROVE  NewestOwed'
  <2>0. tus' = tus
    <3>1. CASE Take(w) \/ Lookup(w)
      BY <3>1 DEF Take, Lookup
    <3>2. CASE Reparse(w) \/ StaleCheck(w)
      BY <3>2 DEF Reparse, StaleCheck
    <3>3. CASE Publish(w)
      BY <3>3 DEF Publish
    <3> QED
      BY <1>5, <3>1, <3>2, <3>3 DEF WorkerStep
  <2> SUFFICES ASSUME NEW u \in Uri, tus[u] # NoTu
               PROVE  (heap[tus[u]].received \in heap[tus[u]].published
                       \/ Owed(u, tus[u], heap[tus[u]].received))'
    BY <2>0 DEF NewestOwed
  <2>1. PICK t \in 1 .. Len(heap) : t = tus[u]
    BY <1>0 DEF NoTu
  <2>2. PICK v \in Int : v = heap[t].received
    <3>1. heap[t] \in TU
      BY <1>0
    <3> QED
      BY <3>1 DEF TU
  <2>3. v \in heap[t].published \/ Owed(u, t, v)
    BY <2>1, <2>2 DEF NewestOwed
  <2>4. /\ tus'[u] = t /\ heap'[t].received = v
        /\ v \in heap'[t].published \/ Owed(u, t, v)'
    BY <1>5, <2>1, <2>2, <2>3, WorkerOwed
  <2> QED
    BY <2>4 DEF Owed, HandlerOwes, QueueOwes, WorkerOwes
<1> QED
  BY <1>2, <1>3, <1>4, <1>5 DEF Next, PoolStep

\* When everything is quiet nobody is left to owe a report.
LEMMA QuietPaid == ASSUME NewestOwed PROVE NewestPublished
<1>1. ASSUME Quiet, NEW u, NEW t, NEW v PROVE ~Owed(u, t, v)
  BY <1>1 DEF Owed, HandlerOwes, QueueOwes, WorkerOwes, Quiet, PoolIdle, Waiting, Idle
<1> QED
  BY <1>1 DEF NewestOwed, NewestPublished

\* Whatever the client sends and however many workers there are, dropping
\* stale results in schedule's lambda never drops the newest one: when the
\* server comes to rest, each open document has been reported under the
\* greatest version received for it.
THEOREM NewestIsPublished == Spec => []NewestPublished
<1>1. Init => TypeOK /\ UnitsOwned /\ NewestOwed
  BY InitType, InitOwned, InitOwed
<1>2. TypeOK /\ UnitsOwned /\ NewestOwed /\ [Next]_vars
      => (TypeOK /\ UnitsOwned /\ NewestOwed)'
  BY TypeStep, OwnedStep, OwedStep
<1> QED
  BY <1>1, <1>2, QuietPaid, PTL DEF Spec

-----------------------------------------------------------------------------
(***************************************************************************)
(* With one worker, the label of a report is true.                         *)
(***************************************************************************)

\* Handlers leave the state of every unit alone.
LEMMA HandlerKeepsStates ==
    ASSUME TypeOK, UnitsOwned, HandlerStep
    PROVE  /\ UNCHANGED job
           /\ \A t \in 1 .. Len(heap) : heap'[t].state = heap[t].state
<1>1. dispatch.pc # "idle"
  BY DEF HandlerStep, CallOpen, CallUpdate, CallSchedule, ClosePublish, CallClose
<1>2. dispatch.uri \in Uri /\ dispatch.version \in Int
  BY <1>1, HandlerKnows
<1>3. CASE CallOpen
  BY <1>2, <1>3, EnsureTUEffect DEF CallOpen, Open
<1>4. CASE CallUpdate
  <2>1. Update(dispatch.uri, dispatch.version) /\ tus[dispatch.uri] # NoTu
    BY <1>4 DEF CallUpdate, UnitsOwned
  <2> QED
    BY <1>2, <2>1, UpdateEffect
<1>5. CASE CallSchedule
  BY <1>2, <1>5, EnsureTUEffect DEF CallSchedule, Schedule
<1>6. CASE ClosePublish \/ CallClose
  BY <1>6 DEF ClosePublish, CallClose, Close
<1> QED
  BY <1>3, <1>4, <1>5, <1>6 DEF HandlerStep

\* Between its reparse and its report nobody else overwrites the unit's
\* state.
LEMMA HeldStep ==
    ASSUME TypeOK, UnitsOwned, StateHeld, [Next]_vars,
           \A w1, w2 \in Worker : w1 = w2
    PROVE  StateHeld'
<1>0. \A x \in Worker : job[x].phase \in {"check", "publish"} =>
                            job[x].tu \in 1 .. Len(heap)
  BY DEF TypeOK, SchedTypeOK
<1>1. CASE ClientStep \/ UNCHANGED vars
  <2>1. UNCHANGED <<heap, job>>
    BY <1>1, ClientEffect DEF schedVars, vars
  <2> QED
    BY <2>1 DEF StateHeld
<1>2. CASE HandlerStep
  BY <1>0, <1>2, HandlerKeepsStates DEF StateHeld
<1>3. ASSUME NEW w \in Worker, WorkerStep(w) PROVE StateHeld'
  <2>0. \A x \in Worker : x = w
    OBVIOUS
  <2>1. CASE Take(w)
    <3>1. job'[w].phase = "lookup"
      BY <2>1, TakeEffect
    <3> QED
      BY <2>0, <3>1 DEF StateHeld
  <2>2. CASE Lookup(w)
    <3>1. job'[w].phase \in {"idle", "reparse"}
      BY <2>2, LookupEffect
    <3> QED
      BY <2>0, <3>1 DEF StateHeld
  <2>3. CASE Reparse(w)
    <3>1. heap'[job'[w].tu].state = [version |-> job'[w].version, text |-> job'[w].text]
      <4>1. heap'[job[w].tu].state = [version |-> job[w].version, text |-> job[w].text]
        BY <2>3, ReparseEffect, ZenonT(60)
      <4>2. /\ job'[w].version = job[w].version /\ job'[w].text = job[w].text
            /\ job'[w].tu = job[w].tu
        BY <2>3, ReparseEffect, ZenonT(60)
      <4> QED
        BY <4>1, <4>2
    <3> QED
      BY <2>0, <3>1 DEF StateHeld
  <2>4. CASE StaleCheck(w)
    <3>1. /\ job[w].phase = "check" /\ heap' = heap
          /\ \/ job'[w].phase = "idle"
             \/ /\ job'[w].version = job[w].version /\ job'[w].text = job[w].text
                /\ job'[w].tu = job[w].tu
      BY <2>4, StaleCheckEffect
    <3> QED
      BY <2>0, <3>1 DEF StateHeld
  <2>5. CASE Publish(w)
    <3>1. job'[w].phase = "idle"
      BY <2>5, PublishEffect, ZenonT(60)
    <3> QED
      BY <2>0, <3>1 DEF StateHeld
  <2> QED
    BY <1>3, <2>1, <2>2, <2>3, <2>4, <2>5 DEF WorkerStep
<1> QED
  BY <1>1, <1>2, <1>3 DEF Next, PoolStep

\* A report put together from the job's version and the state the worker
\* just built has a true label; the report of a close carries no diagnostics.
LEMMA LabelStep ==
    ASSUME TypeOK, StateHeld, LabelTruth, [Next]_vars
    PROVE  LabelTruth'
<1>0. shown \in [Uri -> Report]
  BY DEF TypeOK, SchedTypeOK
<1>1. ASSUME UNCHANGED shown PROVE LabelTruth'
  BY <1>1 DEF LabelTruth
<1>2. CASE ClosePublish
  <2>1. shown' = [shown EXCEPT ![dispatch.uri] =
                     [label |-> dispatch.version, diags |-> FreshState]]
    BY <1>2 DEF ClosePublish
  <2> QED
    BY <1>0, <2>1 DEF LabelTruth
<1>3. ASSUME NEW w \in Worker, Publish(w) PROVE LabelTruth'
  <2>1. /\ job[w].phase = "publish"
        /\ shown' = [shown EXCEPT ![job[w].uri] =
                 [label |-> job[w].version, diags |-> heap[job[w].tu].state]]
    BY <1>3, PublishEffect
  <2>2. heap[job[w].tu].state = [version |-> job[w].version, text |-> job[w].text]
    BY <2>1 DEF StateHeld
  <2>3. heap[job[w].tu].state.version = job[w].version
    BY <2>2
  <2> QED
    BY <1>0, <2>1, <2>3 DEF LabelTruth
<1>4. CASE ClientStep \/ UNCHANGED vars
  BY <1>1, <1>4, ClientEffect DEF schedVars, vars
<1>5. CASE CallOpen \/ CallUpdate \/ CallSchedule \/ CallClose
  BY <1>1, <1>5 DEF CallOpen, CallUpdate, CallSchedule, CallClose, Open, Update,
                    Schedule, Close
<1>6. ASSUME NEW w \in Worker, Take(w) \/ Lookup(w) \/ Reparse(w) \/ StaleCheck(w)
      PROVE  LabelTruth'
  BY <1>1, <1>6 DEF Take, Lookup, Reparse, StaleCheck
<1> QED
  BY <1>2, <1>3, <1>4, <1>5, <1>6 DEF Next, PoolStep, HandlerStep, WorkerStep

\* With NSL_LSP_WORKERS=1 every report carries the version of the text its
\* diagnostics come from, for any client and any number of documents.  With
\* two workers this is false.
THEOREM LabelIsTrue ==
    ASSUME \A w1, w2 \in Worker : w1 = w2
    PROVE  Spec => []LabelTruth
<1>1. Init => TypeOK /\ UnitsOwned /\ StateHeld /\ LabelTruth
  <2>1. Init => StateHeld /\ LabelTruth
    BY DEF Init, SchedInit, StateHeld, LabelTruth, Idle, NoReport
  <2> QED
    BY <2>1, InitType, InitOwned
<1>2. TypeOK /\ UnitsOwned /\ StateHeld /\ LabelTruth /\ [Next]_vars
      => (TypeOK /\ UnitsOwned /\ StateHeld /\ LabelTruth)'
  BY TypeStep, OwnedStep, HeldStep, LabelStep
<1> QED
  BY <1>1, <1>2, PTL DEF Spec
=============================================================================
