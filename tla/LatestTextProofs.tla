-------------------------- MODULE LatestTextProofs --------------------------
(***************************************************************************)
(* With one worker and a client that follows the protocol, document        *)
(* synchronisation at rest shows the last text of every open document, for *)
(* any number of documents and any length of the queue.                    *)
(***************************************************************************)
EXTENDS DiagnosticsFeedProofs

\* The provers a leaf is given to, one after the other, and their time.
USE SMTT(60), Z3T(60), ZenonT(60)

\* Before the first notification no document is open or has a unit.
LEMMA InitLatest == Init => LatestKept
<1> SUFFICES ASSUME Init, NEW u \in Uri
             PROVE  UnitReady(u) /\ (client[u].open => LatestDue(u))
  BY ZenonT(60) DEF LatestKept
<1>1. ~client[u].open /\ tus[u] = NoTu
  BY DEF Init, SchedInit
<1> QED
  BY <1>1 DEF UnitReady

\* Units found through the map are on the heap.
LEMMA UnitOnHeap ==
    ASSUME TypeOK, NEW u \in Uri, tus[u] # NoTu
    PROVE  /\ tus[u] \in 1 .. Len(heap) /\ heap[tus[u]].received \in Int
           /\ client[u].version \in Int
<1>1. /\ heap \in Seq(TU) /\ tus \in [Uri -> 0 .. Len(heap)] /\ Len(heap) \in Nat
      /\ client \in [Uri -> [open: BOOLEAN, version: Int, text: Nat]]
  BY DEF TypeOK, SchedTypeOK
<1>2. tus[u] \in 1 .. Len(heap)
  BY <1>1 DEF NoTu
<1>3. heap[tus[u]] \in TU
  BY <1>1, <1>2
<1> QED
  BY <1>1, <1>2, <1>3 DEF TU

\* A worker gives no document a unit and notes no version.
LEMMA WorkerReady ==
    ASSUME TypeOK, NEW u \in Uri, UnitReady(u), NEW w \in Worker, WorkerStep(w),
           UNCHANGED <<dispatch, edits, client>>
    PROVE  UnitReady(u)'
<1>1. /\ UNCHANGED tus
      /\ \A t \in 1 .. Len(heap) : heap'[t].received = heap[t].received
  <2>1. CASE Take(w)
    BY <2>1, TakeEffect
  <2>2. CASE Lookup(w)
    BY <2>2, LookupEffect
  <2>3. CASE Reparse(w)
    BY <2>3, ReparseEffect, ZenonT(60)
  <2>4. CASE StaleCheck(w)
    BY <2>4, StaleCheckEffect
  <2>5. CASE Publish(w)
    BY <2>5, PublishEffect, ZenonT(60)
  <2> QED
    BY <2>1, <2>2, <2>3, <2>4, <2>5 DEF WorkerStep
<1> QED
  BY <1>1, UnitOnHeap DEF UnitReady

\* openOrUpdate gives the document its unit and notes the version sent; only a
\* close takes a unit away.
LEMMA HandlerReady ==
    ASSUME TypeOK, UnitsOwned, VersionsSent, NEW u \in Uri, UnitReady(u), HandlerStep
    PROVE  UnitReady(u)'
<1>0. /\ dispatch.pc # "idle" /\ UNCHANGED client
      /\ tus \in [Uri -> 0 .. Len(heap)] /\ Len(heap) \in Nat
  <2>1. CASE CallOpen \/ CallUpdate \/ CallSchedule
    BY <2>1 DEF CallOpen, CallUpdate, CallSchedule, TypeOK, SchedTypeOK
  <2>2. CASE ClosePublish \/ CallClose
    BY <2>2 DEF ClosePublish, CallClose, TypeOK, SchedTypeOK
  <2> QED
    BY <2>1, <2>2 DEF HandlerStep
<1>1. dispatch.uri \in Uri /\ dispatch.version \in Int
  BY <1>0, HandlerKnows
<1>2. dispatch.pc \in {"open", "update", "schedule"} =>
         /\ dispatch.version \in Nat
         /\ dispatch.uri = u => dispatch.version <= client[u].version
  BY DEF UnitsOwned, VersionsSent
<1>3. client[u].version \in Int
  BY DEF TypeOK
<1>4. CASE CallOpen
  <2>1. /\ EnsureTU(dispatch.uri) /\ dispatch.pc = "open"
        /\ dispatch'.pc = "update" /\ dispatch'.uri = dispatch.uri
    BY <1>0, <1>4, GotoEffect DEF CallOpen, Open, HandlerPc
  <2>2. CASE u = dispatch.uri /\ tus[u] = NoTu
    <3>1. tus'[u] # NoTu /\ heap'[tus'[u]] = FreshTU
      BY <2>1, <2>2, EnsureTUEffect
    <3>2. heap'[tus'[u]].received = -1
      BY <3>1 DEF FreshTU
    <3> QED
      BY <1>0, <1>2, <1>3, <2>1, <2>2, <3>1, <3>2 DEF UnitReady
  <2>3. CASE ~(u = dispatch.uri /\ tus[u] = NoTu)
    <3>1. tus'[u] = tus[u] /\ \A t \in 1 .. Len(heap) : heap'[t] = heap[t]
      BY <1>1, <2>1, <2>3, EnsureTUEffect
    <3>2. tus[u] # NoTu => heap'[tus'[u]].received = heap[tus[u]].received
      BY <3>1, UnitOnHeap
    <3> QED
      BY <1>0, <2>1, <2>3, <3>1, <3>2 DEF UnitReady
  <2> QED
    BY <2>2, <2>3
<1>5. CASE CallUpdate
  <2>1. /\ Update(dispatch.uri, dispatch.version) /\ dispatch.pc = "update"
        /\ dispatch'.pc = "schedule" /\ tus[dispatch.uri] # NoTu
    BY <1>0, <1>5, GotoEffect DEF CallUpdate, HandlerPc, UnitsOwned
  <2>2. /\ UNCHANGED tus
        /\ heap'[tus[dispatch.uri]].received
              = Raise(heap[tus[dispatch.uri]].received, dispatch.version)
        /\ \A t \in 1 .. Len(heap) : t # tus[dispatch.uri] => heap'[t] = heap[t]
    BY <1>1, <2>1, UpdateEffect
  <2>3. tus[u] # NoTu => heap'[tus[u]].received <= client[u].version
    <3>1. CASE u = dispatch.uri
      BY <1>2, <2>1, <2>2, <3>1 DEF UnitReady, Raise
    <3>2. CASE u # dispatch.uri
      <4>1. tus[u] # NoTu => tus[u] # tus[dispatch.uri]
        BY <1>1, <3>2 DEF UnitsOwned
      <4> QED
        BY <2>2, <4>1, UnitOnHeap DEF UnitReady
    <3> QED
      BY <3>1, <3>2
  <2> QED
    BY <1>0, <2>1, <2>2, <2>3 DEF UnitReady
<1>6. CASE CallSchedule
  <2>1. /\ EnsureTU(dispatch.uri) /\ dispatch.pc = "schedule" /\ dispatch'.pc = "idle"
        /\ tus[dispatch.uri] # NoTu
    BY <1>6 DEF CallSchedule, Schedule, Waiting, UnitsOwned
  <2>2. UNCHANGED <<heap, tus>>
    BY <1>1, <2>1, EnsureTUEffect
  <2> QED
    BY <1>0, <2>1, <2>2 DEF UnitReady
<1>7. CASE ClosePublish
  <2>1. /\ dispatch.pc = "closePublish" /\ dispatch'.pc = "close"
        /\ dispatch'.uri = dispatch.uri /\ UNCHANGED <<tus, heap>>
    BY <1>0, <1>7, GotoEffect DEF ClosePublish, HandlerPc
  <2> QED
    BY <1>0, <2>1 DEF UnitReady
<1>8. CASE CallClose
  <2>1. /\ dispatch.pc = "close" /\ dispatch'.pc = "idle" /\ UNCHANGED heap
        /\ tus' = [tus EXCEPT ![dispatch.uri] = NoTu]
    BY <1>8 DEF CallClose, Close, Waiting
  <2>2. /\ client[u].open => tus'[u] = tus[u]
        /\ tus'[u] # NoTu => tus'[u] = tus[u]
    BY <1>0, <1>1, <2>1 DEF UnitReady
  <2> QED
    BY <1>0, <2>1, <2>2 DEF UnitReady
<1> QED
  BY <1>4, <1>5, <1>6, <1>7, <1>8 DEF HandlerStep

\* A notification: which document it is about, and what its handler starts with.
LEMMA Notified ==
    ASSUME TypeOK, VersionsSent, ClientStep, OrderedClient, ~RestartNumbers
    PROVE  \E u \in Uri :
              /\ \A x \in Uri : x # u => client'[x] = client[x]
              /\ dispatch'.uri = u
              /\ \/ /\ client'[u].open /\ dispatch'.pc = "open"
                    /\ client'[u].version > client[u].version
                 \/ /\ ~client'[u].open /\ dispatch'.pc = "closePublish"
                    /\ client'[u].version = client[u].version
<1>0. /\ client \in [Uri -> [open: BOOLEAN, version: Int, text: Nat]]
      /\ edits \in Nat
  BY SyncAssumption DEF TypeOK
<1>1. ASSUME NEW u \in Uri, NEW v \in Version, DidOpen(u, v) \/ DidChange(u, v)
      PROVE  /\ \A x \in Uri : x # u => client'[x] = client[x]
             /\ dispatch'.uri = u /\ client'[u].open /\ dispatch'.pc = "open"
             /\ client'[u].version > client[u].version
  <2>1. /\ v > client[u].version /\ edits' = edits + 1
        /\ client' = [client EXCEPT ![u] =
                        [open |-> TRUE, version |-> v, text |-> edits + 1]]
        /\ dispatch' = Waiting \/ dispatch' = EditOf("open", u, v)
    BY <1>1 DEF DidOpen, DidChange, MaySendOpen, MaySendChange, ClientSent
  <2>2. dispatch'.pc = "open"
    BY <1>0, <2>1, NewTextHandled DEF Next
  <2>3. dispatch' = EditOf("open", u, v)
    BY <2>1, <2>2 DEF Waiting
  <2> QED
    BY <1>0, <2>1, <2>3 DEF EditOf
<1>2. ASSUME NEW u \in Uri, DidClose(u)
      PROVE  /\ \A x \in Uri : x # u => client'[x] = client[x]
             /\ dispatch'.uri = u /\ ~client'[u].open
             /\ dispatch'.pc = "closePublish"
             /\ client'[u].version = client[u].version
  BY <1>0, <1>2 DEF DidClose
<1>3. CASE \E u \in Uri, v \in Version : DidOpen(u, v) \/ DidChange(u, v)
  BY <1>1, <1>3
<1>4. CASE \E u \in Uri : DidClose(u)
  BY <1>2, <1>4
<1> QED
  BY <1>3, <1>4 DEF ClientStep

\* A new text is about to get its unit; a closed document needs none.
LEMMA ClientReady ==
    ASSUME TypeOK, VersionsSent, ClientStep, OrderedClient, ~RestartNumbers,
           NEW u \in Uri, UnitReady(u), client[u].open => LatestDue(u)
    PROVE  UnitReady(u)' /\ (client'[u].open => LatestDue(u)')
<1>0. UNCHANGED <<tus, heap, queue, job, shown>> /\ dispatch.pc = "idle"
  BY ClientEffect DEF schedVars
<1>1. PICK x \in Uri :
         /\ \A y \in Uri : y # x => client'[y] = client[y]
         /\ dispatch'.uri = x
         /\ \/ /\ client'[x].open /\ dispatch'.pc = "open"
               /\ client'[x].version > client[x].version
            \/ /\ ~client'[x].open /\ dispatch'.pc = "closePublish"
               /\ client'[x].version = client[x].version
  BY Notified
<1>a. TypeOK'
  BY TypeStep DEF Next
<1>2. CASE u = x
  <2>1. tus[u] # NoTu => heap[tus[u]].received <= client'[u].version
    <3>1. client[u].version \in Int /\ client'[u].version \in Int
      BY <1>a DEF TypeOK
    <3>2. client[u].version <= client'[u].version
      BY <1>1, <1>2, <3>1
    <3> QED
      BY <3>1, <3>2, UnitOnHeap DEF UnitReady
  <2>2. client'[u].open => dispatch'.pc = "open"
    BY <1>1, <1>2
  <2> QED
    BY <1>0, <1>1, <1>2, <2>1, <2>2 DEF UnitReady, LatestDue, Pending
<1>3. CASE u # x
  <2>1. client'[u] = client[u] /\ ~Pending(u)
    BY <1>0, <1>1, <1>3 DEF Pending
  <2>2. UnitReady(u)'
    BY <1>0, <1>1, <1>3, <2>1 DEF UnitReady
  <2>3. client[u].open => LatestDue(u)'
    <3>1. \A w \in Worker : WillShow(w, u) => WillShow(w, u)'
      BY <1>0, <2>1 DEF WillShow, WorksOn
    <3> QED
      BY <1>0, <2>1, <3>1 DEF LatestDue, Latest
  <2> QED
    BY <2>1, <2>2, <2>3
<1> QED
  BY <1>2, <1>3

\* The last text stays due when nobody takes it out of the queue, off the display
\* or from the worker that has it.
LEMMA DueKept ==
    ASSUME NEW u \in Uri, LatestDue(u), ~Pending(u), client'[u] = client[u],
           shown[u] = Latest(u) => shown'[u] = shown[u],
           \A i \in 1 .. Len(queue) : queue[i].uri = u => 
              \/ \E k \in 1 .. Len(queue') : queue'[k] = queue[i]
              \/ queue[i].text = client[u].text => \E w \in Worker : WillShow(w, u)',
           \A w \in Worker : WillShow(w, u) => WillShow(w, u)' \/ shown'[u] = Latest(u)
    PROVE  LatestDue(u)'
<1>1. Latest(u)' = Latest(u)
  BY DEF Latest
<1>2. CASE shown[u] = Latest(u)
  BY <1>1, <1>2 DEF LatestDue
<1>3. ASSUME NEW i \in 1 .. Len(queue), queue[i].uri = u, queue[i].text = client[u].text
      PROVE  LatestDue(u)'
  <2>1. CASE \E k \in 1 .. Len(queue') : queue'[k] = queue[i]
    BY <1>3, <2>1 DEF LatestDue
  <2>2. CASE \E w \in Worker : WillShow(w, u)'
    BY <2>2 DEF LatestDue
  <2> QED
    BY <1>3, <2>1, <2>2
<1>4. ASSUME NEW w \in Worker, WillShow(w, u) PROVE LatestDue(u)'
  BY <1>1, <1>4 DEF LatestDue
<1> QED
  BY <1>2, <1>3, <1>4 DEF LatestDue

\* The handler's text is the last one sent: it is queued; and no handler touches
\* the report, the unit or the queue of another document that is open.
LEMMA HandlerDue ==
    ASSUME TypeOK, UnitsOwned, TextsInOrder, NEW u \in Uri, UnitReady(u), client[u].open,
           LatestDue(u), HandlerStep
    PROVE  LatestDue(u)'
<1>0. /\ dispatch.pc # "idle" /\ UNCHANGED <<client, job>>
      /\ queue \in Seq(Edit) /\ Len(queue) \in Nat
      /\ shown \in [Uri -> Report] /\ tus \in [Uri -> 0 .. Len(heap)]
  <2>1. CASE CallOpen \/ CallUpdate
    BY <2>1 DEF CallOpen, CallUpdate, Open, Update, TypeOK, SchedTypeOK
  <2>2. CASE CallSchedule \/ ClosePublish \/ CallClose
    BY <2>2 DEF CallSchedule, Schedule, ClosePublish, CallClose, Close, TypeOK, SchedTypeOK
  <2> QED
    BY <2>1, <2>2 DEF HandlerStep
<1>1. dispatch.uri \in Uri /\ dispatch.version \in Int
  BY <1>0, HandlerKnows
<1>2. ASSUME tus'[u] = tus[u] PROVE \A w \in Worker : WillShow(w, u) => WillShow(w, u)'
  BY <1>0, <1>2 DEF WillShow, WorksOn
<1>3. CASE dispatch.uri = u
  <2>1. dispatch.pc \notin {"closePublish", "close"}
    BY <1>3 DEF UnitReady
  <2>2. CASE CallOpen \/ CallUpdate
    <3>1. dispatch'.pc \in {"update", "schedule"} /\ dispatch'.uri = u
      BY <1>0, <1>3, <2>2, GotoEffect DEF CallOpen, CallUpdate, HandlerPc
    <3> QED
      BY <3>1 DEF LatestDue, Pending
  <2>3. CASE CallSchedule
    <3> DEFINE e == [uri |-> dispatch.uri, version |-> dispatch.version,
                     text |-> dispatch.text]
    <3>1. queue' = Append(queue, e) /\ dispatch.pc = "schedule"
      BY <2>3 DEF CallSchedule, Schedule
    <3>2. e.uri = u /\ e.text = client[u].text
      BY <1>3, <3>1 DEF TextsInOrder, InLine, NewestLast, Pending
    <3>3. e \in Edit
      BY <1>0 DEF Edit, TypeOK, Handler, Waiting
    <3> HIDE DEF e
    <3>4. Len(queue) + 1 \in 1 .. Len(queue') /\ queue'[Len(queue) + 1] = e
      BY <1>0, <3>1, <3>3
    <3> QED
      BY <1>0, <3>2, <3>4 DEF LatestDue
  <2> QED
    BY <2>1, <2>2, <2>3 DEF HandlerStep, ClosePublish, CallClose
<1>4. CASE dispatch.uri # u
  <2>0. ~Pending(u) /\ client'[u] = client[u]
    BY <1>0, <1>4 DEF Pending
  <2>1. shown'[u] = shown[u] /\ tus'[u] = tus[u]
    <3>1. CASE CallOpen
      BY <1>1, <1>4, <3>1, EnsureTUEffect DEF CallOpen, Open
    <3>2. CASE CallUpdate
      BY <1>1, <1>4, <3>2, UpdateEffect DEF CallUpdate, UnitsOwned
    <3>3. CASE CallSchedule
      BY <1>1, <1>4, <3>3, EnsureTUEffect DEF CallSchedule, Schedule
    <3>4. CASE ClosePublish
      BY <1>0, <1>1, <1>4, <3>4 DEF ClosePublish
    <3>5. CASE CallClose
      BY <1>0, <1>1, <1>4, <3>5 DEF CallClose, Close
    <3> QED
      BY <3>1, <3>2, <3>3, <3>4, <3>5 DEF HandlerStep
  <2>2. \A i \in 1 .. Len(queue) : \E k \in 1 .. Len(queue') : queue'[k] = queue[i]
    <3>1. CASE CallSchedule
      <4> DEFINE e == [uri |-> dispatch.uri, version |-> dispatch.version,
                       text |-> dispatch.text]
      <4>1. queue' = Append(queue, e) /\ e \in Edit
        BY <1>0, <3>1 DEF CallSchedule, Schedule, Edit, TypeOK, Handler, Waiting
      <4> HIDE DEF e
      <4>2. \A i \in 1 .. Len(queue) : i \in 1 .. Len(queue') /\ queue'[i] = queue[i]
        BY <1>0, <4>1
      <4> QED
        BY <4>2
    <3>2. CASE UNCHANGED queue
      BY <3>2
    <3>3. CASE CallOpen \/ CallUpdate
      BY <3>2, <3>3 DEF CallOpen, CallUpdate, Open, Update
    <3>4. CASE ClosePublish \/ CallClose
      BY <3>2, <3>4 DEF ClosePublish, CallClose, Close
    <3> QED
      BY <3>1, <3>3, <3>4 DEF HandlerStep
  <2> QED
    BY <1>2, <2>0, <2>1, <2>2, DueKept
<1> QED
  BY <1>3, <1>4

\* The worker takes the last text from the queue, finds the unit of the open
\* document, does not drop a result no newer version overtook, and shows it; and it
\* has no other text once the last one is on display.
LEMMA WorkerDue ==
    ASSUME TypeOK, StateHeld, TextsInOrder, NEW u \in Uri, UnitReady(u), client[u].open,
           LatestDue(u), NEW w \in Worker, WorkerStep(w),
           UNCHANGED <<dispatch, edits, client>>, \A w1, w2 \in Worker : w1 = w2
    PROVE  LatestDue(u)'
<1>0. /\ \A x \in Worker : x = w
      /\ client'[u] = client[u] /\ InLine(u)
      /\ shown \in [Uri -> Report] /\ Len(queue) \in Nat
  BY Numbers DEF TextsInOrder, TypeOK, SchedTypeOK
<1>1. CASE Pending(u)
  BY <1>1 DEF LatestDue, Pending
<1>2. CASE ~Pending(u)
  <2>0. tus[u] # NoTu
    BY <1>2 DEF UnitReady, Pending
  <2>1. CASE Take(w)
    <3>1. /\ Len(queue) \in Nat \ {0} /\ Len(queue') = Len(queue) - 1
          /\ \A i \in 1 .. Len(queue') : queue'[i] = queue[i + 1]
          /\ job[w].phase = "idle" /\ job'[w].phase = "lookup"
          /\ job'[w].uri = queue[1].uri /\ job'[w].text = queue[1].text
          /\ UNCHANGED shown
      BY <2>1, TakeEffect
    <3>2. \A x \in Worker : ~WillShow(x, u)
      BY <1>0, <3>1 DEF WillShow, WorksOn
    <3>3. ASSUME NEW i \in 1 .. Len(queue), queue[i].uri = u
          PROVE  \/ \E k \in 1 .. Len(queue') : queue'[k] = queue[i]
                 \/ queue[i].text = client[u].text => \E x \in Worker : WillShow(x, u)'
      <4>1. CASE i = 1
        BY <1>0, <3>1, <3>3, <4>1 DEF WillShow, WorksOn
      <4>2. CASE i # 1
        <5>1. i - 1 \in 1 .. Len(queue') /\ queue'[i - 1] = queue[i]
          BY <3>1, <4>2
        <5> QED
          BY <5>1
      <4> QED
        BY <4>1, <4>2
    <3> QED
      BY <1>0, <1>2, <3>1, <3>2, <3>3, DueKept
  <2>2. CASE Lookup(w) \/ Reparse(w) \/ StaleCheck(w)
    <3>1. UNCHANGED <<queue, shown, tus>>
      <4>1. CASE Lookup(w)
        BY <4>1, LookupEffect
      <4>2. CASE Reparse(w)
        BY <4>2, ReparseEffect, ZenonT(60)
      <4>3. CASE StaleCheck(w)
        BY <4>3, StaleCheckEffect
      <4> QED
        BY <2>2, <4>1, <4>2, <4>3
    <3>2. WillShow(w, u) => WillShow(w, u)'
      <4> SUFFICES ASSUME WillShow(w, u) PROVE WillShow(w, u)'
        OBVIOUS
      <4>0. WorksOn(w, u) /\ job[w].text = client[u].text
        BY DEF WillShow
      <4>1. CASE Lookup(w)
        BY <1>0, <2>0, <3>1, <4>0, <4>1, LookupEffect DEF WillShow, WorksOn
      <4>2. CASE Reparse(w)
        <5>1. /\ job'[w].phase = "check" /\ job'[w].uri = job[w].uri
              /\ job'[w].text = job[w].text /\ job'[w].tu = job[w].tu
              /\ job[w].phase = "reparse"
          BY <4>2, ReparseEffect, ZenonT(60)
        <5> QED
          BY <1>0, <3>1, <4>0, <5>1 DEF WillShow, WorksOn
      <4>3. CASE StaleCheck(w)
        <5>1. job[w].phase = "check" /\ job[w].tu = tus[u]
          BY <4>3, StaleCheckEffect DEF WillShow
        <5>2. job[w].version = client[u].version
          <6>1. SentFor(u, job[w].version, job[w].text)
            BY <1>0, <4>0 DEF InLine, WorkNext
          <6>2. client[u].text \in Nat
            BY Numbers
          <6> QED
            BY <4>0, <6>1, <6>2 DEF SentFor
        <5>3. ~(job[w].version < heap[job[w].tu].received)
          BY <2>0, <5>1, <5>2, UnitOnHeap DEF UnitReady
        <5> QED
          BY <1>0, <3>1, <4>0, <4>3, <5>1, <5>3, StaleCheckEffect DEF WillShow, WorksOn
      <4> QED
        BY <2>2, <4>1, <4>2, <4>3
    <3> QED
      BY <1>0, <1>2, <3>1, <3>2, DueKept
  <2>3. CASE Publish(w)
    <3>1. /\ job[w].phase = "publish" /\ job[w].uri \in Uri
          /\ shown' = [shown EXCEPT ![job[w].uri] =
                   [label |-> job[w].version, diags |-> heap[job[w].tu].state]]
          /\ UNCHANGED queue
      BY <2>3, PublishEffect
    <3>2. heap[job[w].tu].state = [version |-> job[w].version, text |-> job[w].text]
      BY <3>1 DEF StateHeld
    <3>3. CASE job[w].uri # u
      <4>1. shown'[u] = shown[u] /\ ~WillShow(w, u)
        BY <1>0, <3>1, <3>3 DEF WillShow, WorksOn
      <4> QED
        BY <1>0, <1>2, <3>1, <4>1, DueKept
    <3>4. CASE job[w].uri = u
      <4>1. /\ WorksOn(w, u) /\ SentFor(u, job[w].version, job[w].text)
            /\ shown[u].diags.text < job[w].text
        BY <1>0, <3>1, <3>4 DEF WorksOn, InLine, WorkNext, DisplayFirst
      <4>2. /\ client[u].text \in Nat /\ job[w].text \in Nat
            /\ shown[u].diags.text \in Nat
        BY <3>1, Numbers
      <4>3. shown[u] # Latest(u)
        BY <4>1, <4>2 DEF SentFor, Latest
      <4>4. WillShow(w, u) => shown'[u] = Latest(u)
        <5> SUFFICES ASSUME WillShow(w, u) PROVE shown'[u] = Latest(u)
          OBVIOUS
        <5>1. job[w].text = client[u].text /\ job[w].version = client[u].version
          BY <4>1, <4>2 DEF WillShow, SentFor
        <5>2. shown'[u] = [label |-> job[w].version,
                           diags |-> [version |-> job[w].version, text |-> job[w].text]]
          BY <1>0, <3>1, <3>2, <3>4
        <5> QED
          BY <5>1, <5>2, ZenonT(60) DEF Latest
      <4> QED
        BY <1>0, <1>2, <3>1, <4>3, <4>4, DueKept
    <3> QED
      BY <3>3, <3>4
  <2> QED
    BY <2>1, <2>2, <2>3 DEF WorkerStep
<1> QED
  BY <1>1, <1>2

\* Every step keeps the last texts due.
LEMMA LatestStep ==
    ASSUME Held, VersionsSent, LatestKept, [Next]_vars, OrderedClient, ~RestartNumbers,
           \A w1, w2 \in Worker : w1 = w2
    PROVE  LatestKept'
<1> SUFFICES ASSUME NEW u \in Uri
             PROVE  UnitReady(u)' /\ (client'[u].open => LatestDue(u)')
  BY ZenonT(60) DEF LatestKept
<1>0. /\ TypeOK /\ UnitsOwned /\ StateHeld /\ TextsInOrder
      /\ UnitReady(u) /\ (client[u].open => LatestDue(u))
  BY DEF Held, LatestKept
<1>1. CASE ClientStep
  BY <1>0, <1>1, ClientReady
<1>2. CASE HandlerStep
  <2>1. UNCHANGED client
    BY <1>2 DEF HandlerStep, CallOpen, CallUpdate, CallSchedule, ClosePublish, CallClose
  <2> QED
    BY <1>0, <1>2, <2>1, HandlerReady, HandlerDue
<1>3. CASE PoolStep
  <2>1. PICK w \in Worker : WorkerStep(w) /\ UNCHANGED <<dispatch, edits, client>>
    BY <1>3 DEF PoolStep
  <2> QED
    BY <1>0, <2>1, WorkerReady, WorkerDue
<1>4. CASE UNCHANGED vars
  <2>1. UNCHANGED <<tus, heap, queue, job, shown, dispatch, client>>
    BY <1>4 DEF vars
  <2> QED
    BY <1>0, <2>1 DEF UnitReady, LatestDue, Latest, Pending, WillShow, WorksOn
<1> QED
  BY <1>1, <1>2, <1>3, <1>4 DEF Next

\* When nobody has anything left to do, what was due has been done.
LEMMA QuietShows == ASSUME LatestKept PROVE ShowsLatest
<1> SUFFICES ASSUME Quiet, NEW u \in Uri, client[u].open PROVE shown[u] = Latest(u)
  BY DEF ShowsLatest
<1>1. /\ ~Pending(u) /\ queue = <<>> /\ \A w \in Worker : ~WillShow(w, u)
  BY DEF Quiet, PoolIdle, Pending, Waiting, WillShow, WorksOn, Idle
<1>2. 1 .. Len(queue) = {}
  BY <1>1
<1> QED
  BY <1>1, <1>2 DEF LatestKept, LatestDue

\* With NSL_LSP_WORKERS=1 and a client that numbers its texts upwards, a server
\* that has come to rest shows, for every open document, the diagnostics of the
\* last text under its version, however the handlers and the worker interleaved.
THEOREM LatestIsShown ==
    ASSUME OrderedClient, ~RestartNumbers, \A w1, w2 \in Worker : w1 = w2
    PROVE  Spec => []ShowsLatest
<1>1. Init => Held /\ VersionsSent /\ LatestKept
  <2>1. Init => StateHeld
    BY DEF Init, SchedInit, StateHeld, Idle
  <2> QED
    BY <2>1, InitType, InitOwned, InitInOrder, InitVersions, InitLatest DEF Held
<1>2. Held /\ VersionsSent /\ LatestKept /\ [Next]_vars
      => (Held /\ VersionsSent /\ LatestKept)'
  BY TypeStep, OwnedStep, HeldStep, InOrderStep, VersionsStep, LatestStep DEF Held
<1>3. LatestKept => ShowsLatest
  BY QuietShows
<1> QED
  BY <1>1, <1>2, <1>3, PTL DEF Spec
=============================================================================
