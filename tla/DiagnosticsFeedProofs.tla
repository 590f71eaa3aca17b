----------------------- MODULE DiagnosticsFeedProofs ------------------------
(***************************************************************************)
(* With one worker and a client that follows the protocol, document        *)
(* synchronisation implements the safety part of the diagnostics feed, for *)
(* any number of documents and any length of the queue; and with any       *)
(* number of workers no text of such a client is ignored.                  *)
(***************************************************************************)
EXTENDS DocumentSyncProofs

\* The provers a leaf is given to, one after the other, and their time.
USE SMTT(60), Z3T(60), ZenonT(60)

\* The numbers the order is about.
LEMMA Numbers ==
    ASSUME TypeOK
    PROVE  /\ edits \in Nat
           /\ Len(queue) \in Nat
           /\ \A u \in Uri : /\ client[u].version \in Int /\ client[u].text \in Nat
                             /\ shown[u].diags.text \in Nat
           /\ \A w \in Worker : job[w].phase # "idle" =>
                 job[w].version \in Int /\ job[w].text \in Nat
           /\ \A i \in 1 .. Len(queue) : queue[i].version \in Int /\ queue[i].text \in Nat
<1>1. edits \in Nat /\ queue \in Seq(Edit) /\ Len(queue) \in Nat
  BY SyncAssumption DEF TypeOK, SchedTypeOK
<1>2. \A i \in 1 .. Len(queue) : queue[i] \in Edit
  BY <1>1
<1>3. \A w \in Worker : job[w].phase # "idle" => job[w].version \in Int /\ job[w].text \in Nat
  BY BusyJob DEF TypeOK, SchedTypeOK
<1>4. shown \in [Uri -> Report] /\ client \in [Uri -> [open: BOOLEAN, version: Int, text: Nat]]
  BY DEF TypeOK, SchedTypeOK
<1>5. \A i \in 1 .. Len(queue) : queue[i].version \in Int /\ queue[i].text \in Nat
  BY <1>2 DEF Edit
<1>6. \A u \in Uri : shown[u].diags.text \in Nat
  BY <1>4 DEF Report, State
<1>7. \A u \in Uri : client[u].version \in Int /\ client[u].text \in Nat
  BY <1>4
<1> QED
  BY <1>1, <1>3, <1>5, <1>6, <1>7

\* Initially nothing has been sent.
LEMMA InitInOrder == Init => TextsInOrder
<1> SUFFICES ASSUME Init, NEW u \in Uri PROVE InLine(u)
  BY ZenonT(60) DEF TextsInOrder
<1>1. /\ shown[u].diags.text = 0 /\ client[u].text = 0 /\ edits = 0
      /\ \A w \in Worker : ~WorksOn(w, u)
      /\ ~Pending(u) /\ queue = <<>>
  BY DEF Init, SchedInit, NoReport, FreshState, WorksOn, Pending, Idle, Waiting
<1>2. 1 .. Len(queue) = {}
  BY <1>1
<1> QED
  BY <1>1, <1>2 DEF InLine, DisplayFirst, WorkNext, QueueNext, NewestLast

\* A step that lets nothing join the line of u keeps its order, when the text
\* on display stays behind the others.
LEMMA LineKept ==
    ASSUME NEW u \in Uri, InLine(u), DisplayFirst(u)',
           client'[u].version = client[u].version, client'[u].text = client[u].text,
           client[u].text <= edits', UNCHANGED queue,
           \A w \in Worker : WorksOn(w, u)' =>
              /\ WorksOn(w, u) /\ job'[w].version = job[w].version
              /\ job'[w].text = job[w].text,
           Pending(u)' => /\ Pending(u) /\ dispatch'.version = dispatch.version
                          /\ dispatch'.text = dispatch.text
    PROVE  InLine(u)'
<1>1. WorkNext(u)'
  BY DEF InLine, WorkNext, SentFor
<1>2. QueueNext(u)'
  BY DEF InLine, QueueNext, SentFor
<1>3. NewestLast(u)'
  BY DEF InLine, NewestLast
<1> QED
  BY <1>1, <1>2, <1>3 DEF InLine

\* It stays behind them when it is not replaced.
LEMMA DisplayKept ==
    ASSUME NEW u \in Uri, InLine(u), shown'[u].diags.text = shown[u].diags.text,
           client'[u].text = client[u].text, UNCHANGED queue,
           \A w \in Worker : WorksOn(w, u)' => WorksOn(w, u) /\ job'[w].text = job[w].text,
           Pending(u)' => Pending(u) /\ dispatch'.text = dispatch.text
    PROVE  DisplayFirst(u)'
  BY DEF InLine, DisplayFirst

\* A worker takes the oldest queued text, keeps it while it works, and puts it
\* on display.
LEMMA WorkerInOrder ==
    ASSUME TypeOK, StateHeld, TextsInOrder, NEW w \in Worker, WorkerStep(w),
           UNCHANGED <<dispatch, edits, client>>,
           \A w1, w2 \in Worker : w1 = w2
    PROVE  TextsInOrder'
<1> SUFFICES ASSUME NEW u \in Uri PROVE InLine(u)'
  BY DEF TextsInOrder
<1>0. InLine(u) /\ \A x \in Worker : x = w
  BY DEF TextsInOrder
<1>a. /\ client'[u] = client[u] /\ client[u].text <= edits'
      /\ Pending(u)' => /\ Pending(u) /\ dispatch'.version = dispatch.version
                        /\ dispatch'.text = dispatch.text
  BY <1>0 DEF InLine, NewestLast, Pending
<1>1. CASE Take(w)
  <2>1. /\ Len(queue) \in Nat \ {0} /\ Len(queue') = Len(queue) - 1
        /\ \A i \in 1 .. Len(queue') : queue'[i] = queue[i + 1]
        /\ job'[w].uri = queue[1].uri /\ job'[w].version = queue[1].version
        /\ job'[w].text = queue[1].text /\ UNCHANGED shown
    BY <1>1, TakeEffect
  <2>2. /\ 1 \in 1 .. Len(queue)
        /\ \A i \in 1 .. Len(queue') : i + 1 \in 1 .. Len(queue) /\ 1 < i + 1
        /\ \A i, k \in 1 .. Len(queue') : i < k => i + 1 < k + 1
    BY <2>1
  <2>3. Pending(u)' <=> Pending(u)
    BY DEF Pending
  <2>4. \A x \in Worker : WorksOn(x, u)' => queue[1].uri = u /\ x = w
    BY <1>0, <2>1 DEF WorksOn
  <2>5. DisplayFirst(u)'
    <3>1. /\ \A i \in 1 .. Len(queue) : queue[i].uri = u => shown[u].diags.text < queue[i].text
          /\ shown[u].diags.text <= client[u].text
          /\ Pending(u) => shown[u].diags.text < dispatch.text
      BY <1>0 DEF InLine, DisplayFirst
    <3>2. \A x \in Worker : WorksOn(x, u)' => shown[u].diags.text < job'[x].text
      BY <2>1, <2>2, <2>4, <3>1
    <3>3. \A i \in 1 .. Len(queue') : queue'[i].uri = u => shown[u].diags.text < queue'[i].text
      BY <2>1, <2>2, <3>1
    <3> QED
      BY <1>a, <2>1, <2>3, <3>1, <3>2, <3>3 DEF DisplayFirst
  <2>6. WorkNext(u)'
    <3>1. queue[1].uri = u =>
             /\ SentFor(u, queue[1].version, queue[1].text)
             /\ \A i \in 1 .. Len(queue') :
                   queue[i + 1].uri = u => queue[1].text < queue[i + 1].text
             /\ Pending(u) => queue[1].text < dispatch.text
      BY <1>0, <2>1, <2>2 DEF InLine, QueueNext
    <3>2. ASSUME NEW x \in Worker, WorksOn(x, u)'
          PROVE  SentFor(u, job[x].version, job[x].text)'
      BY <2>1, <2>4, <3>1, <3>2 DEF SentFor
    <3>3. ASSUME NEW x \in Worker, WorksOn(x, u)'
          PROVE  /\ \A i \in 1 .. Len(queue') :
                      queue'[i].uri = u => job'[x].text < queue'[i].text
                 /\ Pending(u)' => job'[x].text < dispatch'.text
      <4>1. queue[1].uri = u /\ job'[x].text = queue[1].text
        BY <2>1, <2>4, <3>3
      <4>2. \A i \in 1 .. Len(queue') :
               queue'[i].uri = u => queue[1].text < queue'[i].text
        <5> SUFFICES ASSUME NEW i \in 1 .. Len(queue'), queue'[i].uri = u
                     PROVE  queue[1].text < queue'[i].text
          OBVIOUS
        <5>1. queue'[i] = queue[i + 1]
          BY <2>1
        <5> QED
          BY <3>1, <4>1, <5>1
      <4> QED
        BY <1>a, <3>1, <4>1, <4>2
    <3> QED
      BY <3>2, <3>3 DEF WorkNext
  <2>7. QueueNext(u)'
    <3> SUFFICES ASSUME NEW i \in 1 .. Len(queue'), queue'[i].uri = u
                 PROVE  /\ SentFor(u, queue[i].version, queue[i].text)'
                        /\ \A k \in 1 .. Len(queue') :
                              i < k /\ queue'[k].uri = u => queue'[i].text < queue'[k].text
                        /\ Pending(u)' => queue'[i].text < dispatch'.text
      BY DEF QueueNext
    <3>1. /\ i + 1 \in 1 .. Len(queue)
          /\ queue'[i] = queue[i + 1] /\ queue[i + 1].uri = u
      BY <2>1, <2>2
    <3>2. /\ SentFor(u, queue[i + 1].version, queue[i + 1].text)
          /\ \A k \in 1 .. Len(queue) :
                i + 1 < k /\ queue[k].uri = u => queue[i + 1].text < queue[k].text
          /\ Pending(u) => queue[i + 1].text < dispatch.text
      BY <1>0, <3>1 DEF InLine, QueueNext
    <3>3. SentFor(u, queue[i].version, queue[i].text)'
      BY <3>1, <3>2 DEF SentFor
    <3>4. ASSUME NEW k \in 1 .. Len(queue'), i < k, queue'[k].uri = u
          PROVE  queue'[i].text < queue'[k].text
      <4>1. k + 1 \in 1 .. Len(queue) /\ i + 1 < k + 1 /\ queue'[k] = queue[k + 1]
        BY <2>1, <2>2, <3>4
      <4> QED
        BY <3>1, <3>2, <3>4, <4>1
    <3> QED
      BY <2>3, <3>1, <3>2, <3>3, <3>4
  <2>8. NewestLast(u)'
    BY <1>0, <2>3 DEF InLine, NewestLast
  <2> QED
    BY <2>5, <2>6, <2>7, <2>8 DEF InLine
<1>2. CASE Lookup(w) \/ Reparse(w) \/ StaleCheck(w)
  <2>1. /\ job[w].phase # "idle"
        /\ \/ job'[w].phase = "idle"
           \/ /\ job'[w].uri = job[w].uri /\ job'[w].version = job[w].version
              /\ job'[w].text = job[w].text
        /\ UNCHANGED <<queue, shown>>
    <3>1. CASE Lookup(w)
      BY <3>1, LookupEffect
    <3>2. CASE Reparse(w)
      BY <3>2, ReparseEffect, ZenonT(60)
    <3>3. CASE StaleCheck(w)
      BY <3>3, StaleCheckEffect
    <3> QED
      BY <1>2, <3>1, <3>2, <3>3
  <2>2. \A x \in Worker : WorksOn(x, u)' =>
           /\ WorksOn(x, u) /\ job'[x].version = job[x].version
           /\ job'[x].text = job[x].text
    BY <1>0, <2>1 DEF WorksOn
  <2>3. DisplayFirst(u)'
    BY <1>0, <1>a, <2>1, <2>2, DisplayKept
  <2> QED
    BY <1>0, <1>a, <2>1, <2>2, <2>3, LineKept
<1>3. CASE Publish(w)
  <2>1. /\ job[w].phase = "publish" /\ job[w].uri \in Uri /\ job'[w].phase = "idle"
        /\ shown' = [shown EXCEPT ![job[w].uri] =
                 [label |-> job[w].version, diags |-> heap[job[w].tu].state]]
        /\ UNCHANGED queue
    BY <1>3, PublishEffect
  <2>2. heap[job[w].tu].state = [version |-> job[w].version, text |-> job[w].text]
    BY <2>1 DEF StateHeld
  <2>3. shown \in [Uri -> Report]
    BY DEF TypeOK, SchedTypeOK
  <2>4. \A x \in Worker : ~WorksOn(x, u)'
    BY <1>0, <2>1 DEF WorksOn
  <2>a. queue' = queue
    BY <2>1
  <2>5. CASE job[w].uri = u
    <3>1. WorksOn(w, u) /\ shown'[u].diags.text = job[w].text
      BY <2>1, <2>2, <2>3, <2>5 DEF WorksOn
    <3>2. job[w].text <= client[u].text
      <4>1. SentFor(u, job[w].version, job[w].text)
        BY <1>0, <3>1 DEF InLine, WorkNext
      <4>2. job[w].text \in Nat /\ client[u].text \in Nat
        BY <2>1, Numbers
      <4> QED
        BY <4>1, <4>2 DEF SentFor
    <3>3. DisplayFirst(u)'
      <4>1. /\ \A i \in 1 .. Len(queue) : queue[i].uri = u => job[w].text < queue[i].text
            /\ Pending(u) => job[w].text < dispatch.text
        BY <1>0, <3>1 DEF InLine, WorkNext
      <4> QED
        BY <1>a, <2>a, <2>4, <3>1, <3>2, <4>1 DEF DisplayFirst
    <3> QED
      BY <1>0, <1>a, <2>a, <2>4, <3>3, LineKept
  <2>6. CASE job[w].uri # u
    <3>1. shown'[u] = shown[u]
      BY <2>1, <2>3, <2>6
    <3>2. DisplayFirst(u)'
      BY <1>0, <1>a, <2>a, <2>4, <3>1, DisplayKept
    <3> QED
      BY <1>0, <1>a, <2>a, <2>4, <3>2, LineKept
  <2> QED
    BY <2>5, <2>6
<1> QED
  BY <1>1, <1>2, <1>3 DEF WorkerStep

\* openOrUpdate puts the pending text behind all others; a close only takes
\* the display back to no text.
LEMMA HandlerInOrder ==
    ASSUME TypeOK, TextsInOrder, HandlerStep
    PROVE  TextsInOrder'
<1> SUFFICES ASSUME NEW u \in Uri PROVE InLine(u)'
  BY DEF TextsInOrder
<1>0. InLine(u) /\ UNCHANGED <<job, edits, client>>
  <2>1. CASE CallOpen \/ CallUpdate
    BY <2>1 DEF TextsInOrder, CallOpen, CallUpdate, Open, Update
  <2>2. CASE CallSchedule \/ ClosePublish \/ CallClose
    BY <2>2 DEF TextsInOrder, CallSchedule, ClosePublish, CallClose, Schedule, Close
  <2> QED
    BY <2>1, <2>2 DEF HandlerStep
<1>1. dispatch.pc # "idle"
  BY DEF HandlerStep, CallOpen, CallUpdate, CallSchedule, ClosePublish, CallClose
<1>a. /\ client[u].text <= edits'
      /\ \A w \in Worker : WorksOn(w, u)' <=> WorksOn(w, u)
  BY <1>0 DEF InLine, NewestLast, WorksOn
<1>2. CASE CallOpen \/ CallUpdate
  <2>1. /\ dispatch.pc \in {"open", "update"}
        /\ dispatch'.uri = dispatch.uri /\ dispatch'.version = dispatch.version
        /\ dispatch'.text = dispatch.text /\ UNCHANGED <<queue, shown>>
    BY <1>1, <1>2, GotoEffect DEF CallOpen, CallUpdate, Open, Update, HandlerPc
  <2>2. Pending(u)' => Pending(u)
    BY <2>1 DEF Pending
  <2>3. DisplayFirst(u)'
    BY <1>0, <1>a, <2>1, <2>2, DisplayKept
  <2> QED
    BY <1>0, <1>a, <2>1, <2>2, <2>3, LineKept
<1>3. CASE CallSchedule
  <2> DEFINE e == [uri |-> dispatch.uri, version |-> dispatch.version,
                   text |-> dispatch.text]
             n == Len(queue)
  <2>1. /\ dispatch.pc = "schedule" /\ queue' = Append(queue, e)
        /\ dispatch'.pc = "idle" /\ UNCHANGED shown
    BY <1>3 DEF CallSchedule, Schedule, Waiting
  <2>2. /\ e.uri = dispatch.uri /\ e.version = dispatch.version /\ e.text = dispatch.text
        /\ e \in Edit
    BY <1>1 DEF Edit, TypeOK, Handler, Waiting
  <2> HIDE DEF e
  <2>3. /\ n \in Nat /\ Len(queue') = n + 1 /\ queue'[n + 1] = e
        /\ \A i \in 1 .. n : queue'[i] = queue[i]
    BY <2>1, <2>2 DEF TypeOK, SchedTypeOK
  <2>4. \A i \in 1 .. n + 1 : i \in 1 .. n \/ i = n + 1
    BY <2>3
  <2>5. \A i, k \in 1 .. n + 1 : i < k => i \in 1 .. n
    BY <2>3
  <2> HIDE DEF n
  <2>6. ~Pending(u)' /\ (e.uri = u => Pending(u))
    BY <2>1, <2>2 DEF Pending
  <2>7. \A i \in 1 .. n : queue[i].uri = u =>
           /\ shown[u].diags.text < queue[i].text
           /\ SentFor(u, queue[i].version, queue[i].text)
           /\ \A k \in 1 .. n : i < k /\ queue[k].uri = u => queue[i].text < queue[k].text
           /\ e.uri = u => queue[i].text < e.text
    <3>1. \A i \in 1 .. n : queue[i].uri = u => shown[u].diags.text < queue[i].text
      BY <1>0 DEF InLine, DisplayFirst, n
    <3> QED
      BY <1>0, <2>2, <2>6, <3>1 DEF InLine, QueueNext, n
  <2>8. e.uri = u =>
           /\ e.version = client[u].version /\ e.text = client[u].text
           /\ shown[u].diags.text < e.text
           /\ \A w \in Worker : WorksOn(w, u) => job[w].text < e.text
    <3>1. Pending(u) => shown[u].diags.text < dispatch.text
      BY <1>0 DEF InLine, DisplayFirst
    <3>2. Pending(u) => \A w \in Worker : WorksOn(w, u) => job[w].text < dispatch.text
      BY <1>0 DEF InLine, WorkNext
    <3> QED
      BY <1>0, <2>2, <2>6, <3>1, <3>2 DEF InLine, NewestLast
  <2>9. DisplayFirst(u)'
    <3>1. \A i \in 1 .. n + 1 : queue'[i].uri = u => shown[u].diags.text < queue'[i].text
      BY <2>3, <2>4, <2>7, <2>8
    <3>2. /\ shown[u].diags.text <= client[u].text
          /\ \A w \in Worker : WorksOn(w, u) => shown[u].diags.text < job[w].text
      BY <1>0 DEF InLine, DisplayFirst
    <3>3. shown' = shown /\ Len(queue') = n + 1
      BY <2>1, <2>3
    <3> QED
      BY <1>0, <1>a, <2>6, <3>1, <3>2, <3>3 DEF DisplayFirst
  <2>10. WorkNext(u)'
    <3> SUFFICES ASSUME NEW w \in Worker, WorksOn(w, u)
                 PROVE  /\ SentFor(u, job[w].version, job[w].text)'
                        /\ \A i \in 1 .. n + 1 :
                              queue'[i].uri = u => job[w].text < queue'[i].text
      BY <1>0, <1>a, <2>3, <2>6 DEF WorkNext
    <3>1. /\ SentFor(u, job[w].version, job[w].text)
          /\ \A i \in 1 .. n : queue[i].uri = u => job[w].text < queue[i].text
      BY <1>0 DEF InLine, WorkNext, n
    <3>2. SentFor(u, job[w].version, job[w].text)'
      BY <1>0, <3>1 DEF SentFor
    <3> QED
      BY <2>3, <2>4, <2>8, <3>1, <3>2
  <2>11. QueueNext(u)'
    <3> SUFFICES ASSUME NEW i \in 1 .. n + 1, queue'[i].uri = u
                 PROVE  /\ SentFor(u, queue[i].version, queue[i].text)'
                        /\ \A k \in 1 .. n + 1 :
                              i < k /\ queue'[k].uri = u => queue'[i].text < queue'[k].text
      BY <2>3, <2>6 DEF QueueNext
    <3>1. SentFor(u, queue[i].version, queue[i].text)'
      BY <1>0, <2>3, <2>4, <2>7, <2>8 DEF SentFor
    <3>2. ASSUME NEW k \in 1 .. n + 1, i < k, queue'[k].uri = u
          PROVE  queue'[i].text < queue'[k].text
      <4>1. i \in 1 .. n /\ queue[i].uri = u /\ queue'[i] = queue[i]
        BY <2>3, <2>5, <3>2
      <4> QED
        BY <2>3, <2>4, <2>7, <3>2, <4>1
    <3> QED
      BY <3>1, <3>2
  <2>12. NewestLast(u)'
    BY <1>0, <2>6 DEF InLine, NewestLast
  <2> QED
    BY <2>9, <2>10, <2>11, <2>12 DEF InLine
<1>4. CASE ClosePublish
  <2>1. /\ shown' = [shown EXCEPT ![dispatch.uri] =
                        [label |-> dispatch.version, diags |-> FreshState]]
        /\ dispatch'.pc = "close" /\ UNCHANGED queue
    BY <1>1, <1>4, GotoEffect DEF ClosePublish, HandlerPc
  <2>2. shown'[u] = shown[u] \/ shown'[u].diags.text = 0
    BY <2>1 DEF FreshState, TypeOK, SchedTypeOK
  <2>3. shown'[u].diags.text \in Nat /\ shown'[u].diags.text <= shown[u].diags.text
    BY <2>2, Numbers
  <2>4. ~Pending(u)'
    BY <2>1 DEF Pending
  <2>5. shown'[u].diags.text <= client[u].text
    <3>1. shown[u].diags.text <= client[u].text
      BY <1>0 DEF InLine, DisplayFirst
    <3> QED
      BY <2>3, <3>1, Numbers
  <2>6. ASSUME NEW w \in Worker, WorksOn(w, u) PROVE shown'[u].diags.text < job[w].text
    <3>1. shown[u].diags.text < job[w].text
      BY <1>0, <2>6 DEF InLine, DisplayFirst
    <3>2. job[w].text \in Nat
      BY <2>6, Numbers DEF WorksOn
    <3> QED
      BY <2>3, <3>1, <3>2, Numbers
  <2>7. ASSUME NEW i \in 1 .. Len(queue), queue[i].uri = u
        PROVE  shown'[u].diags.text < queue[i].text
    <3>1. shown[u].diags.text < queue[i].text
      BY <1>0, <2>7 DEF InLine, DisplayFirst
    <3>2. shown[u].diags.text \in Nat /\ queue[i].text \in Nat
      BY Numbers
    <3> QED
      BY <2>3, <3>1, <3>2
  <2>8. DisplayFirst(u)'
    BY <1>0, <1>a, <2>1, <2>4, <2>5, <2>6, <2>7 DEF DisplayFirst
  <2> QED
    BY <1>0, <1>a, <2>1, <2>4, <2>8, LineKept
<1>5. CASE CallClose
  <2>1. ~Pending(u)' /\ UNCHANGED <<queue, shown>>
    BY <1>5 DEF CallClose, Close, Pending, Waiting
  <2>2. DisplayFirst(u)'
    BY <1>0, <1>a, <2>1, DisplayKept
  <2> QED
    BY <1>0, <1>a, <2>1, <2>2, LineKept
<1> QED
  BY <1>2, <1>3, <1>4, <1>5 DEF HandlerStep

\* What an ordered client does to what it believes it told the server: it
\* sends a newer text with a higher version, or closes an open document.
LEMMA ClientSends ==
    ASSUME TypeOK, ClientStep, OrderedClient, ~RestartNumbers
    PROVE  \/ \E u \in Uri, v \in Version :
                 /\ v \in Int /\ v > client[u].version
                 /\ client' = [client EXCEPT ![u] =
                                 [open |-> TRUE, version |-> v, text |-> edits + 1]]
                 /\ edits' = edits + 1
                 /\ dispatch' = Waiting \/ dispatch' = EditOf("open", u, v)
           \/ \E u \in Uri : /\ client[u].open /\ UNCHANGED edits
                             /\ client' = [client EXCEPT ![u].open = FALSE]
                             /\ dispatch'.pc = "closePublish"
<1>1. ASSUME NEW u \in Uri, NEW v \in Version, DidOpen(u, v) \/ DidChange(u, v)
      PROVE  /\ v \in Int /\ v > client[u].version
             /\ client' = [client EXCEPT ![u] =
                             [open |-> TRUE, version |-> v, text |-> edits + 1]]
             /\ edits' = edits + 1
             /\ dispatch' = Waiting \/ dispatch' = EditOf("open", u, v)
  BY <1>1, SyncAssumption DEF DidOpen, DidChange, MaySendOpen, MaySendChange, ClientSent
<1>2. ASSUME NEW u \in Uri, DidClose(u)
      PROVE  /\ client[u].open /\ UNCHANGED edits
             /\ client' = [client EXCEPT ![u].open = FALSE]
             /\ dispatch'.pc = "closePublish"
  BY <1>2 DEF DidClose, MaySendClose
<1> QED
  BY <1>1, <1>2 DEF ClientStep

\* A new text is newer than everything in the line.
LEMMA ClientInOrder ==
    ASSUME TypeOK, TextsInOrder, ClientStep, OrderedClient, ~RestartNumbers
    PROVE  TextsInOrder'
<1>0. /\ UNCHANGED <<queue, job, shown>>
      /\ client \in [Uri -> [open: BOOLEAN, version: Int, text: Nat]]
  BY ClientEffect DEF schedVars, TypeOK
<1>1. ASSUME NEW u \in Uri, NEW v \in Version, v \in Int, v > client[u].version,
             client' = [client EXCEPT ![u] =
                          [open |-> TRUE, version |-> v, text |-> edits + 1]],
             edits' = edits + 1,
             dispatch' = Waiting \/ dispatch' = EditOf("open", u, v)
      PROVE  TextsInOrder'
  <2> SUFFICES ASSUME NEW d \in Uri PROVE InLine(d)'
    BY DEF TextsInOrder
  <2>1. InLine(d)
    BY DEF TextsInOrder
  <2>2. Pending(d)' => d = u /\ dispatch'.version = v /\ dispatch'.text = edits + 1
    BY <1>1 DEF Pending, EditOf, Waiting
  <2>3. CASE d = u
    <3>1. client'[d].version = v /\ client'[d].text = edits + 1
      BY <1>0, <1>1, <2>3
    <3>2. client[d].text < edits + 1
      BY <2>1, Numbers DEF InLine, NewestLast
    <3>3. \A x \in Int, t \in Nat : SentFor(d, x, t) => SentFor(d, x, t)' /\ t < edits + 1
      <4>1. client[d].version < v /\ client[d].version \in Int /\ client[d].text \in Nat
        BY <1>1, <2>3, Numbers
      <4>2. edits \in Nat
        BY Numbers
      <4> QED
        BY <1>1, <3>1, <3>2, <4>1, <4>2 DEF SentFor
    <3>4. shown[d].diags.text < edits + 1
      BY <2>1, <3>2, Numbers DEF InLine, DisplayFirst
    <3>5. \A w \in Worker : WorksOn(w, d)' <=> WorksOn(w, d)
      BY <1>0 DEF WorksOn
    <3>6. ASSUME NEW w \in Worker, WorksOn(w, d)
          PROVE  SentFor(d, job[w].version, job[w].text)' /\ job[w].text < edits + 1
      <4>1. job[w].version \in Int /\ job[w].text \in Nat
        BY <3>6, Numbers DEF WorksOn
      <4>2. SentFor(d, job[w].version, job[w].text)
        BY <2>1, <3>6 DEF InLine, WorkNext
      <4> QED
        BY <1>0, <3>3, <4>1, <4>2 DEF SentFor
    <3>7. ASSUME NEW i \in 1 .. Len(queue), queue[i].uri = d
          PROVE  SentFor(d, queue[i].version, queue[i].text)' /\ queue[i].text < edits + 1
      <4>1. SentFor(d, queue[i].version, queue[i].text)
        BY <2>1, <3>7 DEF InLine, QueueNext
      <4>2. queue[i].version \in Int /\ queue[i].text \in Nat
        BY Numbers
      <4>3. queue' = queue
        BY <1>0
      <4> QED
        BY <3>3, <4>1, <4>2, <4>3, ZenonT(60) DEF SentFor
    <3>8. DisplayFirst(d)'
      <4>1. shown[d].diags.text <= edits + 1
        BY <3>4, Numbers
      <4> QED
        BY <1>0, <2>1, <2>2, <3>1, <3>4, <3>5, <4>1 DEF InLine, DisplayFirst
    <3>9. WorkNext(d)'
      BY <1>0, <2>1, <2>2, <3>5, <3>6 DEF InLine, WorkNext
    <3>10. QueueNext(d)'
      <4>1. \A i, k \in 1 .. Len(queue) :
               i < k /\ queue[i].uri = d /\ queue[k].uri = d => queue[i].text < queue[k].text
        BY <2>1 DEF InLine, QueueNext
      <4>2. \A i \in 1 .. Len(queue) : queue[i].uri = d =>
               SentFor(d, queue[i].version, queue[i].text)'
        BY <3>7
      <4>3. \A i \in 1 .. Len(queue) : queue[i].uri = d =>
               (Pending(d)' => queue[i].text < dispatch'.text)
        BY <2>2, <3>7
      <4> QED
        BY <1>0, <4>1, <4>2, <4>3 DEF QueueNext, SentFor
    <3>11. NewestLast(d)'
      BY <1>1, <2>2, <3>1, Numbers DEF NewestLast
    <3> QED
      BY <3>8, <3>9, <3>10, <3>11 DEF InLine
  <2>4. CASE d # u
    <3>1. client'[d] = client[d] /\ ~Pending(d)'
      BY <1>0, <1>1, <2>2, <2>4
    <3>2. client[d].text <= edits'
      BY <1>1, <2>1, Numbers DEF InLine, NewestLast
    <3>3. \A w \in Worker : WorksOn(w, d)' <=> WorksOn(w, d)
      BY <1>0 DEF WorksOn
    <3>4. DisplayFirst(d)'
      BY <1>0, <2>1, <3>1, <3>3, DisplayKept
    <3> QED
      BY <1>0, <2>1, <3>1, <3>2, <3>3, <3>4, LineKept
  <2> QED
    BY <2>3, <2>4
<1>2. ASSUME NEW u \in Uri, UNCHANGED edits, client' = [client EXCEPT ![u].open = FALSE],
             dispatch'.pc = "closePublish"
      PROVE  TextsInOrder'
  <2> SUFFICES ASSUME NEW d \in Uri PROVE InLine(d)'
    BY DEF TextsInOrder
  <2>1. client'[d].version = client[d].version /\ client'[d].text = client[d].text
    BY <1>0, <1>2
  <2>2. InLine(d) /\ ~Pending(d)'
    BY <1>2 DEF TextsInOrder, Pending
  <2>3. \A w \in Worker : WorksOn(w, d)' <=> WorksOn(w, d)
    BY <1>0 DEF WorksOn
  <2>4. client[d].text <= edits'
    BY <1>2, <2>2 DEF InLine, NewestLast
  <2>5. DisplayFirst(d)'
    BY <1>0, <2>1, <2>2, <2>3, DisplayKept
  <2> QED
    BY <1>0, <2>1, <2>2, <2>3, <2>4, <2>5, LineKept
<1> QED
  BY <1>1, <1>2, ClientSends

\* Every step keeps the line in order.
LEMMA InOrderStep ==
    ASSUME TypeOK, StateHeld, TextsInOrder, [Next]_vars, OrderedClient, ~RestartNumbers,
           \A w1, w2 \in Worker : w1 = w2
    PROVE  TextsInOrder'
<1>1. CASE UNCHANGED vars
  <2> SUFFICES ASSUME NEW u \in Uri PROVE InLine(u)'
    BY DEF TextsInOrder
  <2>1. /\ InLine(u) /\ client'[u] = client[u] /\ UNCHANGED <<queue, edits, shown>>
        /\ client[u].text <= edits
    BY <1>1 DEF vars, TextsInOrder, InLine, NewestLast
  <2>2. /\ \A w \in Worker : WorksOn(w, u)' => WorksOn(w, u) /\ job'[w] = job[w]
        /\ Pending(u)' => Pending(u) /\ dispatch' = dispatch
    BY <1>1 DEF vars, WorksOn, Pending
  <2>3. DisplayFirst(u)'
    BY <2>1, <2>2, DisplayKept
  <2> QED
    BY <2>1, <2>2, <2>3, LineKept
<1> QED
  BY <1>1, WorkerInOrder, HandlerInOrder, ClientInOrder DEF Next, PoolStep

\* What holds in every state of a server with one worker.
Held == TypeOK /\ UnitsOwned /\ StateHeld /\ TextsInOrder

\* With NSL_LSP_WORKERS=1 and a client that numbers its texts upwards, the
\* texts of a document are parsed and reported in the order they were sent.
THEOREM TextsStayInOrder ==
    ASSUME OrderedClient, ~RestartNumbers, \A w1, w2 \in Worker : w1 = w2
    PROVE  Spec => []TextsInOrder
<1>1. Init => Held
  <2>1. Init => StateHeld
    BY DEF Init, SchedInit, StateHeld, Idle
  <2> QED
    BY <2>1, InitType, InitOwned, InitInOrder DEF Held
<1>2. Held /\ [Next]_vars => Held'
  BY TypeStep, OwnedStep, HeldStep, InOrderStep DEF Held
<1> QED
  BY <1>1, <1>2, PTL DEF Spec, Held

-----------------------------------------------------------------------------
(***************************************************************************)
(* Each step is a step of the feed, or changes nothing a client can see.   *)
(***************************************************************************)

\* Before the first notification nothing is sent and nothing is shown.
LEMMA FeedStarts == Init => Feed!FeedInit
  BY DEF Init, SchedInit, Feed!FeedInit, NoReport

\* A notification of an ordered client is a Send or a Hangup.
LEMMA ClientFeeds ==
    ASSUME TypeOK, TextsInOrder, ClientStep, OrderedClient, ~RestartNumbers
    PROVE  Feed!FeedNext
<1>0. /\ client \in [Uri -> [open: BOOLEAN, version: Int, text: Nat]]
      /\ UNCHANGED shown
  BY ClientEffect DEF TypeOK, schedVars
<1>1. ASSUME NEW u \in Uri, NEW v \in Version, v \in Int, v > client[u].version,
             client' = [client EXCEPT ![u] =
                          [open |-> TRUE, version |-> v, text |-> edits + 1]]
      PROVE  Feed!Send(u)
  <2> DEFINE c == [open |-> TRUE, version |-> v, text |-> edits + 1]
  <2>1. client'[u] = c /\ c.open /\ c.version = v /\ c.text = edits + 1
    BY <1>0, <1>1
  <2>2. edits + 1 > client[u].text
    BY Numbers DEF TextsInOrder, InLine, NewestLast
  <2> QED
    BY <1>0, <1>1, <2>1, <2>2 DEF Feed!Send
<1>2. ASSUME NEW u \in Uri, client[u].open, client' = [client EXCEPT ![u].open = FALSE]
      PROVE  Feed!Hangup(u)
  BY <1>0, <1>2 DEF Feed!Hangup
<1> QED
  BY <1>1, <1>2, ClientSends DEF Feed!FeedNext

\* A report of the worker shows the last text, or an older one that is newer
\* than the one on display.
LEMMA PublishFeeds ==
    ASSUME TypeOK, StateHeld, TextsInOrder, NEW w \in Worker, Publish(w), UNCHANGED client
    PROVE  Feed!FeedNext
<1> DEFINE u == job[w].uri
           r == [label |-> job[w].version,
                 diags |-> [version |-> job[w].version, text |-> job[w].text]]
<1>1. /\ job[w].phase = "publish" /\ u \in Uri
      /\ shown' = [shown EXCEPT ![u] =
                 [label |-> job[w].version, diags |-> heap[job[w].tu].state]]
  BY PublishEffect
<1>2. shown' = [shown EXCEPT ![u] = r]
  BY <1>1, ZenonT(60) DEF StateHeld
<1>3. shown'[u] = r
  BY <1>1, <1>2 DEF TypeOK, SchedTypeOK
<1>4. SentFor(u, job[w].version, job[w].text) /\ shown[u].diags.text < job[w].text
  <2>1. InLine(u) /\ WorksOn(w, u)
    BY <1>1 DEF TextsInOrder, WorksOn
  <2> QED
    BY <2>1 DEF InLine, DisplayFirst, WorkNext
<1>5. CASE job[w].version = client[u].version /\ job[w].text = client[u].text
  <2>1. Feed!ShowNewest(u)
    BY <1>1, <1>2, <1>4, <1>5, Numbers, ZenonT(60) DEF Feed!ShowNewest, Feed!Newest
  <2> QED
    BY <1>1, <2>1 DEF Feed!FeedNext
<1>6. CASE job[w].version < client[u].version /\ job[w].text < client[u].text
  <2>1. /\ shown'[u].label = job[w].version /\ shown'[u].diags.version = job[w].version
        /\ shown'[u].diags.text = job[w].text
    BY <1>3
  <2>2. shown' = [shown EXCEPT ![u] = shown'[u]]
    BY <1>2, <1>3, ZenonT(60)
  <2>3. Feed!ShowOlder(u)
    BY <1>4, <1>6, <2>1, <2>2, ZenonT(60) DEF Feed!ShowOlder
  <2> QED
    BY <1>1, <2>3 DEF Feed!FeedNext
<1> QED
  BY <1>4, <1>5, <1>6 DEF SentFor

\* Every step of the server is a step of the feed or a stutter.
LEMMA StepFeeds ==
    ASSUME Held, [Next]_vars, OrderedClient, ~RestartNumbers
    PROVE  [Feed!FeedNext]_(Feed!feedVars)
<1>0. TypeOK /\ StateHeld /\ TextsInOrder
  BY DEF Held
<1>1. CASE ClientStep
  BY <1>0, <1>1, ClientFeeds
<1>2. CASE ClosePublish
  <2>1. dispatch.uri \in Uri
    BY <1>0, <1>2, HandlerKnows DEF ClosePublish
  <2>2. Feed!TakeDown(dispatch.uri)
    <3>1. shown' = [shown EXCEPT ![dispatch.uri] =
                       [label |-> dispatch.version, diags |-> FreshState]]
      BY <1>2 DEF ClosePublish
    <3>2. shown'[dispatch.uri] = [label |-> dispatch.version, diags |-> FreshState]
      BY <1>0, <2>1, <3>1 DEF TypeOK, SchedTypeOK
    <3>3. shown'[dispatch.uri].diags = FreshState
      BY <3>2
    <3>4. shown' = [shown EXCEPT ![dispatch.uri] = shown'[dispatch.uri]]
      BY <3>1, <3>2, ZenonT(60)
    <3> QED
      BY <1>2, <3>3, <3>4, ZenonT(60) DEF ClosePublish, Feed!TakeDown
  <2> QED
    BY <2>1, <2>2 DEF Feed!FeedNext
<1>3. ASSUME NEW w \in Worker, Publish(w), UNCHANGED client
      PROVE  Feed!FeedNext
  BY <1>0, <1>3, PublishFeeds
<1>4. CASE UNCHANGED <<client, shown>>
  BY <1>4 DEF Feed!feedVars
<1>5. CASE CallOpen \/ CallUpdate \/ CallSchedule \/ CallClose \/ UNCHANGED vars
  <2>1. CASE CallOpen \/ CallUpdate
    BY <1>4, <2>1 DEF CallOpen, CallUpdate, Open, Update
  <2>2. CASE CallSchedule \/ CallClose \/ UNCHANGED vars
    BY <1>4, <2>2 DEF CallSchedule, CallClose, Schedule, Close, vars
  <2> QED
    BY <1>5, <2>1, <2>2
<1>6. ASSUME NEW w \in Worker, Take(w) \/ Lookup(w) \/ Reparse(w) \/ StaleCheck(w),
             UNCHANGED client
      PROVE  UNCHANGED <<client, shown>>
  BY <1>6 DEF Take, Lookup, Reparse, StaleCheck
<1> QED
  BY <1>1, <1>2, <1>3, <1>4, <1>5, <1>6 DEF Next, HandlerStep, PoolStep, WorkerStep

\* With NSL_LSP_WORKERS=1 and a client that numbers its texts upwards, what a
\* client sees of the server is a diagnostics feed: no report of a text that
\* was not sent, under a version it was not sent with, or older than the one
\* on display.
THEOREM FollowsFeed ==
    ASSUME OrderedClient, ~RestartNumbers, \A w1, w2 \in Worker : w1 = w2
    PROVE  Spec => Feed!FeedSafety
<1>1. Init => Held
  <2>1. Init => StateHeld
    BY DEF Init, SchedInit, StateHeld, Idle
  <2> QED
    BY <2>1, InitType, InitOwned, InitInOrder DEF Held
<1>2. Held /\ [Next]_vars => Held'
  BY TypeStep, OwnedStep, HeldStep, InOrderStep DEF Held
<1>3. Held /\ [Next]_vars => [Feed!FeedNext]_(Feed!feedVars)
  BY StepFeeds
<1> QED
  BY <1>1, <1>2, <1>3, FeedStarts, PTL DEF Spec, Feed!FeedSafety

-----------------------------------------------------------------------------
(***************************************************************************)
(* A client that numbers its texts upwards is never ignored.               *)
(***************************************************************************)

\* Initially there is no version anywhere.
LEMMA InitVersions == Init => VersionsSent
<1> SUFFICES ASSUME Init PROVE VersionsSent
  OBVIOUS
<1>1. /\ \A u \in Uri : tus[u] = NoTu
      /\ \A w \in Worker : job[w].phase = "idle"
      /\ queue = <<>> /\ Len(queue) = 0 /\ dispatch.pc = "idle"
  BY DEF Init, SchedInit, Idle, Waiting
<1>2. 1 .. Len(queue) = {}
  BY <1>1
<1> QED
  BY <1>1, <1>2, ZenonT(60) DEF VersionsSent

\* A worker moves a version from the queue to its unit.
LEMMA WorkerVersions ==
    ASSUME TypeOK, UnitsOwned, VersionsSent, NEW w \in Worker, WorkerStep(w),
           UNCHANGED <<dispatch, client>>
    PROVE  VersionsSent'
<1>0. /\ queue \in Seq(Edit) /\ Len(queue) \in Nat
      /\ \A u \in Uri : tus[u] # NoTu => tus[u] \in 1 .. Len(heap)
  BY DEF TypeOK, SchedTypeOK, NoTu
<1>1. CASE Take(w)
  <2>1. /\ Len(queue) \in Nat \ {0} /\ Len(queue') = Len(queue) - 1
        /\ \A i \in 1 .. Len(queue') : queue'[i] = queue[i + 1]
        /\ job'[w].uri = queue[1].uri /\ job'[w].version = queue[1].version
        /\ \A x \in Worker : x # w => job'[x] = job[x]
        /\ UNCHANGED <<tus, heap>>
    BY <1>1, TakeEffect
  <2>2. 1 \in 1 .. Len(queue) /\ \A i \in 1 .. Len(queue') : i + 1 \in 1 .. Len(queue)
    BY <1>0, <2>1
  <2> QED
    BY <2>1, <2>2 DEF VersionsSent
<1>2. CASE Lookup(w)
  <2>1. /\ job[w].phase = "lookup"
        /\ \/ job'[w].phase = "idle"
           \/ job'[w].uri = job[w].uri /\ job'[w].version = job[w].version
        /\ \A x \in Worker : x # w => job'[x] = job[x]
        /\ UNCHANGED <<tus, heap, queue>>
    BY <1>2, LookupEffect
  <2> QED
    BY <2>1 DEF VersionsSent
<1>3. CASE Reparse(w)
  <2>1. /\ job[w].phase = "reparse"
        /\ job'[w].uri = job[w].uri /\ job'[w].version = job[w].version
        /\ \A x \in Worker : x # w => job'[x] = job[x]
        /\ UNCHANGED <<tus, queue>>
    BY <1>3, ReparseEffect, ZenonT(60)
  <2>2. heap'[job[w].tu].state = [version |-> job[w].version, text |-> job[w].text]
    BY <1>3, ReparseEffect, ZenonT(60)
  <2>3. heap'[job[w].tu].state.version = job[w].version
    BY <2>2
  <2>4. \A t \in 1 .. Len(heap) : t # job[w].tu => heap'[t] = heap[t]
    BY <1>3, ReparseEffect, ZenonT(60)
  <2>5. \A u \in Uri : tus[u] # NoTu => heap'[tus[u]].state.version <= client[u].version
    <3> SUFFICES ASSUME NEW u \in Uri, tus[u] # NoTu
                 PROVE  heap'[tus[u]].state.version <= client[u].version
      OBVIOUS
    <3>1. CASE tus[u] = job[w].tu
      BY <2>1, <2>3, <3>1 DEF UnitsOwned, VersionsSent
    <3>2. CASE tus[u] # job[w].tu
      BY <1>0, <2>4, <3>2 DEF VersionsSent
    <3> QED
      BY <3>1, <3>2
  <2> QED
    BY <2>1, <2>5 DEF VersionsSent
<1>4. CASE StaleCheck(w)
  <2>1. /\ job[w].phase = "check"
        /\ \/ job'[w].phase = "idle"
           \/ job'[w].uri = job[w].uri /\ job'[w].version = job[w].version
        /\ \A x \in Worker : x # w => job'[x] = job[x]
        /\ UNCHANGED <<tus, heap, queue>>
    BY <1>4, StaleCheckEffect
  <2> QED
    BY <2>1 DEF VersionsSent
<1>5. CASE Publish(w)
  <2>1. /\ job'[w].phase = "idle" /\ \A x \in Worker : x # w => job'[x] = job[x]
        /\ \A t \in 1 .. Len(heap) : heap'[t].state = heap[t].state
        /\ UNCHANGED <<tus, queue>>
    BY <1>5, PublishEffect, ZenonT(60)
  <2> QED
    BY <1>0, <2>1 DEF VersionsSent
<1> QED
  BY <1>1, <1>2, <1>3, <1>4, <1>5 DEF WorkerStep

\* A handler passes its version on to the queue.
LEMMA HandlerVersions ==
    ASSUME TypeOK, UnitsOwned, VersionsSent, HandlerStep
    PROVE  VersionsSent'
<1>0. /\ queue \in Seq(Edit) /\ Len(queue) \in Nat
      /\ heap \in Seq(TU) /\ Len(heap) \in Nat
      /\ tus \in [Uri -> 0 .. Len(heap)]
      /\ \A u \in Uri : tus[u] # NoTu => tus[u] \in 1 .. Len(heap)
      /\ \A u \in Uri : client[u].version \in Int
      /\ UNCHANGED client
  BY DEF TypeOK, SchedTypeOK, NoTu, HandlerStep, CallOpen, CallUpdate, CallSchedule,
         ClosePublish, CallClose
<1>1. dispatch.pc # "idle"
  BY DEF HandlerStep, CallOpen, CallUpdate, CallSchedule, ClosePublish, CallClose
<1>2. dispatch.uri \in Uri /\ dispatch.version \in Int
  BY <1>1, HandlerKnows
<1>3. UNCHANGED job /\ \A t \in 1 .. Len(heap) : heap'[t].state = heap[t].state
  BY HandlerKeepsStates
<1>4. CASE CallOpen
  <2>1. /\ EnsureTU(dispatch.uri) /\ UNCHANGED queue /\ dispatch.pc = "open"
        /\ dispatch'.uri = dispatch.uri /\ dispatch'.version = dispatch.version
    BY <1>1, <1>4, GotoEffect DEF CallOpen, Open, HandlerPc
  <2>2. \A u \in Uri : tus'[u] # NoTu => heap'[tus'[u]].state.version <= client[u].version
    <3> SUFFICES ASSUME NEW u \in Uri, tus'[u] # NoTu
                 PROVE  heap'[tus'[u]].state.version <= client[u].version
      OBVIOUS
    <3>1. CASE tus'[u] = tus[u]
      BY <1>0, <1>3, <3>1 DEF VersionsSent
    <3>2. CASE tus'[u] # tus[u]
      <4>1. u = dispatch.uri /\ tus[u] = NoTu
        BY <1>2, <2>1, <3>2, EnsureTUEffect
      <4>2. heap'[tus'[u]] = FreshTU
        BY <1>2, <2>1, <4>1, EnsureTUEffect
      <4>3. heap'[tus'[u]].state.version = -1
        BY <4>2 DEF FreshTU, FreshState
      <4>4. dispatch.version \in Nat /\ dispatch.version <= client[u].version
        BY <2>1, <4>1 DEF UnitsOwned, VersionsSent
      <4> QED
        BY <1>0, <4>3, <4>4
    <3> QED
      BY <3>1, <3>2
  <2> QED
    BY <1>0, <1>3, <2>1, <2>2 DEF VersionsSent
<1>5. CASE CallUpdate
  <2>1. /\ Update(dispatch.uri, dispatch.version) /\ dispatch.pc = "update"
        /\ dispatch'.uri = dispatch.uri /\ dispatch'.version = dispatch.version
    BY <1>1, <1>5, GotoEffect DEF CallUpdate, HandlerPc
  <2>2. UNCHANGED <<tus, queue>>
    BY <1>2, <2>1, UpdateEffect DEF UnitsOwned
  <2> QED
    BY <1>0, <1>3, <2>1, <2>2 DEF VersionsSent
<1>6. CASE CallSchedule
  <2> DEFINE e == [uri |-> dispatch.uri, version |-> dispatch.version,
                   text |-> dispatch.text]
  <2>1. /\ EnsureTU(dispatch.uri) /\ dispatch.pc = "schedule"
        /\ queue' = Append(queue, e) /\ dispatch'.pc = "idle"
    BY <1>6 DEF CallSchedule, Schedule, Waiting
  <2>2. UNCHANGED <<heap, tus>>
    BY <1>2, <2>1, EnsureTUEffect DEF UnitsOwned
  <2>3. e.uri = dispatch.uri /\ e.version = dispatch.version
    OBVIOUS
  <2>4. e \in Edit
    BY <1>1 DEF Edit, TypeOK, Handler, Waiting
  <2> HIDE DEF e
  <2>5. \A i \in 1 .. Len(queue') : (i \in 1 .. Len(queue) /\ queue'[i] = queue[i])
                                    \/ queue'[i] = e
    BY <1>0, <2>1, <2>4
  <2>6. \A u \in Uri, i \in 1 .. Len(queue') :
            queue'[i].uri = u => queue'[i].version <= client[u].version
    BY <2>1, <2>3, <2>5 DEF VersionsSent
  <2> QED
    BY <1>0, <1>3, <2>1, <2>2, <2>6 DEF VersionsSent
<1>7. CASE ClosePublish
  <2>1. UNCHANGED <<tus, heap, queue>> /\ dispatch'.pc = "close"
    BY <1>1, <1>7, GotoEffect DEF ClosePublish, HandlerPc
  <2> QED
    BY <1>0, <1>3, <2>1 DEF VersionsSent
<1>8. CASE CallClose
  <2>1. /\ tus' = [tus EXCEPT ![dispatch.uri] = NoTu] /\ UNCHANGED <<heap, queue>>
        /\ dispatch'.pc = "idle"
    BY <1>8 DEF CallClose, Close, Waiting
  <2>2. \A u \in Uri : tus'[u] # NoTu => tus'[u] = tus[u]
    BY <1>0, <1>2, <2>1
  <2> QED
    BY <1>0, <1>3, <2>1, <2>2 DEF VersionsSent
<1> QED
  BY <1>4, <1>5, <1>6, <1>7, <1>8 DEF HandlerStep

\* What an ordered client sends is newer than all it sent before.
LEMMA ClientVersions ==
    ASSUME TypeOK, VersionsSent, ClientStep, OrderedClient, ~RestartNumbers
    PROVE  VersionsSent'
<1>0. /\ client \in [Uri -> [open: BOOLEAN, version: Int, text: Nat]]
      /\ queue \in Seq(Edit) /\ job \in [Worker -> Job]
      /\ heap \in Seq(TU)
      /\ \A u \in Uri : tus[u] # NoTu => tus[u] \in 1 .. Len(heap)
      /\ UNCHANGED <<tus, heap, queue, job>>
  BY ClientEffect DEF TypeOK, SchedTypeOK, NoTu, schedVars
<1>1. /\ \A u \in Uri : tus[u] # NoTu => heap[tus[u]].state.version \in Int
      /\ \A i \in 1 .. Len(queue) : queue[i].version \in Int
      /\ \A x \in Worker : job[x].phase # "idle" => job[x].version \in Int
  <2>1. \A u \in Uri : tus[u] # NoTu => heap[tus[u]] \in TU
    BY <1>0
  <2>2. \A i \in 1 .. Len(queue) : queue[i] \in Edit
    BY <1>0
  <2>3. \A x \in Worker : job[x].phase # "idle" => job[x].version \in Int
    BY <1>0, BusyJob
  <2>4. \A u \in Uri : tus[u] # NoTu => heap[tus[u]].state.version \in Int
    BY <2>1 DEF TU, State
  <2> QED
    BY <2>2, <2>3, <2>4 DEF Edit
<1>2. ASSUME NEW u \in Uri, NEW v \in Version, DidOpen(u, v) \/ DidChange(u, v)
      PROVE  VersionsSent'
  <2>1. v \in Int /\ v > client[u].version /\ client[u].version \in Int
    BY <1>0, <1>2, SyncAssumption DEF DidOpen, DidChange, MaySendOpen, MaySendChange
  <2>2. /\ client'[u].version = v
        /\ \A x \in Uri : x # u => client'[x].version = client[x].version
    BY <1>0, <1>2 DEF DidOpen, DidChange, ClientSent
  <2>3. dispatch'.pc = "idle" \/ (dispatch'.uri = u /\ dispatch'.version = v)
    BY <1>2 DEF DidOpen, DidChange, EditOf, Waiting
  <2>4. \A x \in Uri, n \in Int : n <= client[x].version => n <= client'[x].version
    BY <1>0, <2>1, <2>2
  <2>5. v <= client'[u].version
    BY <2>1, <2>2
  <2> QED
    BY <1>0, <1>1, <2>3, <2>4, <2>5 DEF VersionsSent
<1>3. ASSUME NEW u \in Uri, DidClose(u) PROVE VersionsSent'
  <2>1. \A x \in Uri : client'[x].version = client[x].version
    BY <1>0, <1>3 DEF DidClose
  <2>2. dispatch'.pc = "closePublish"
    BY <1>3 DEF DidClose
  <2> QED
    BY <1>0, <2>1, <2>2 DEF VersionsSent
<1> QED
  BY <1>2, <1>3 DEF ClientStep

\* Every step keeps the versions below what the client sent.
LEMMA VersionsStep ==
    ASSUME TypeOK, UnitsOwned, VersionsSent, [Next]_vars, OrderedClient, ~RestartNumbers
    PROVE  VersionsSent'
<1>1. CASE UNCHANGED vars
  BY <1>1 DEF vars, VersionsSent
<1> QED
  BY <1>1, WorkerVersions, HandlerVersions, ClientVersions DEF Next, PoolStep

\* A new text is newer than the last completed reparse, so its handler goes
\* on to openOrUpdate.
LEMMA NewTextHandled ==
    ASSUME TypeOK, VersionsSent, [Next]_vars, OrderedClient, ~RestartNumbers,
           edits' # edits
    PROVE  dispatch'.pc = "open"
<1>0. /\ client \in [Uri -> [open: BOOLEAN, version: Int, text: Nat]]
      /\ heap \in Seq(TU)
      /\ \A u \in Uri : tus[u] # NoTu => tus[u] \in 1 .. Len(heap)
  BY DEF TypeOK, SchedTypeOK, NoTu
<1>1. PICK u \in Uri, v \in Version : DidOpen(u, v) \/ DidChange(u, v)
  BY DEF Next, ClientStep, DidClose, HandlerStep, CallOpen, CallUpdate, CallSchedule,
         ClosePublish, CallClose, PoolStep, vars
<1>2. CASE DidOpen(u, v)
  BY <1>2 DEF DidOpen, EditOf
<1>3. CASE DidChange(u, v)
  <2>1. v \in Int /\ v > client[u].version /\ client[u].version \in Int
    BY <1>0, <1>3, SyncAssumption DEF DidChange, MaySendChange
  <2> DEFINE n == StateOf(u, FreshState).version
  <2>2. ~(n >= 0 /\ v <= n)
    <3>1. CASE tus[u] = NoTu
      <4>1. n = -1
        BY <3>1 DEF StateOf, FreshState
      <4> QED
        BY <4>1
    <3>2. CASE tus[u] # NoTu
      <4>1. n = heap[tus[u]].state.version /\ heap[tus[u]] \in TU
        BY <1>0, <3>2 DEF StateOf
      <4>2. n \in Int /\ n <= client[u].version
        BY <3>2, <4>1 DEF TU, State, VersionsSent
      <4> QED
        BY <2>1, <4>2
    <3> QED
      BY <3>1, <3>2
  <2> HIDE DEF n
  <2>3. dispatch' = IF n >= 0 /\ v <= n THEN Waiting ELSE EditOf("open", u, v)
    BY <1>3 DEF DidChange, n
  <2> QED
    BY <2>2, <2>3 DEF EditOf
<1> QED
  BY <1>1, <1>2, <1>3

\* The stale check of onDidChange, which looks at completed reparses only,
\* ignores no text of a client that follows the protocol and never restarts
\* its numbering.  With a numbering that restarts on reopen this is false.
THEOREM NoEditIsIgnored ==
    ASSUME OrderedClient, ~RestartNumbers
    PROVE  Spec => NoEditIgnored
<1>1. Init => TypeOK /\ UnitsOwned /\ VersionsSent
  BY InitType, InitOwned, InitVersions
<1>2. TypeOK /\ UnitsOwned /\ VersionsSent /\ [Next]_vars
      => (TypeOK /\ UnitsOwned /\ VersionsSent)'
  BY TypeStep, OwnedStep, VersionsStep
<1>3. TypeOK /\ VersionsSent /\ [Next]_vars
      => [edits' # edits => dispatch'.pc = "open"]_vars
  BY NewTextHandled
<1> QED
  BY <1>1, <1>2, <1>3, PTL DEF Spec, NoEditIgnored
=============================================================================
