------------------------- MODULE NslLSPServerProofs -------------------------
(***************************************************************************)
(* Proofs about the whole server, for any number of requests, documents,   *)
(* workers, versions and texts.                                            *)
(***************************************************************************)
EXTENDS NslLSPServer, TLAPS

\* The provers a leaf is given to, one after the other, and their time.
USE SMTT(60), Z3T(60), ZenonT(60)

\* The steps of LspNext, one by one; what a folding thread does is kept
\* together.
LEMMA LspSteps ==
    ASSUME LspNext
    PROVE  \/ Initialized \/ Shutdown \/ Exit \/ Eof
           \/ \E r \in Request : \/ FoldingRejected(r) \/ FoldingMalformed(r)
                                 \/ FoldingRange(r) \/ Cancel(r) \/ Walk(r)
                                 \/ Decide(r) \/ SendReply(r)
           \/ Notification \/ HandlerRuns \/ ShutdownReply \/ Join \/ ProcessEnd
           \/ \E w \in Worker : PoolRuns(w)
  BY DEF LspNext, DispatchThread, FolderStep

(***************************************************************************)
(* Folding requests.                                                       *)
(***************************************************************************)

\* The invariant of the folding requests holds at the start.
LEMMA FoldInit == LspInit => FoldInv
  BY DEF LspInit, FoldInv, FoldTypeOK, Folding, Folder

\* A step that leaves the folding variables alone keeps the invariant.
LEMMA FoldUnchanged ==
    ASSUME FoldInv, UNCHANGED foldVars
    PROVE  FoldInv'
  BY DEF FoldInv, FoldTypeOK, Folding, foldVars

\* A step that moves the thread of one request.
LEMMA FoldMoves ==
    ASSUME FoldInv, NEW q \in Request,
           \/ FoldingRejected(q) \/ FoldingMalformed(q) \/ FoldingRange(q)
           \/ Walk(q) \/ Decide(q) \/ SendReply(q)
    PROVE  FoldInv'
<1>0. /\ inflight \subseteq Request /\ cancelled \subseteq Request
      /\ folder \in [Request -> Folder] /\ reply \in [Request -> Seq(Response)]
  BY DEF FoldInv, FoldTypeOK
<1>1. CASE FoldingRejected(q) \/ FoldingMalformed(q)
  <2> PICK k \in Response : reply' = [reply EXCEPT ![q] = Append(@, k)]
    BY <1>1 DEF FoldingRejected, FoldingMalformed, Answer, Response
  <2>1. /\ folder[q] = "none" /\ folder' = [folder EXCEPT ![q] = "done"]
        /\ UNCHANGED <<inflight, cancelled>>
    BY <1>1 DEF FoldingRejected, FoldingMalformed
  <2>2. reply[q] = <<>> /\ q \notin cancelled /\ q \notin inflight
    BY <2>1 DEF FoldInv, Folding
  <2>3. reply'[q] = <<k>> /\ reply' \in [Request -> Seq(Response)] /\ Len(reply'[q]) = 1
    BY <1>0, <2>2
  <2> QED
    BY <1>0, <2>1, <2>2, <2>3 DEF FoldInv, FoldTypeOK, Folding, Folder
<1>2. CASE FoldingRange(q)
  BY <1>0, <1>2 DEF FoldingRange, FoldInv, FoldTypeOK, Folding, Folder
<1>3. CASE Walk(q)
  <2> PICK end \in {"full", "partial"} : folder' = [folder EXCEPT ![q] = end]
    BY <1>3, ZenonT(60) DEF Walk
  <2> QED
    BY <1>0, <1>3 DEF Walk, FoldInv, FoldTypeOK, Folding, Folder
<1>4. CASE Decide(q)
  BY <1>0, <1>4 DEF Decide, FoldInv, FoldTypeOK, Folding, Folder
<1>5. CASE SendReply(q)
  <2>1. /\ folder[q] \in {"error", "folds"} /\ folder' = [folder EXCEPT ![q] = "done"]
        /\ reply' = [reply EXCEPT ![q] = Append(@, folder[q])]
        /\ UNCHANGED <<inflight, cancelled>>
    BY <1>5 DEF SendReply, Answer
  <2>2. /\ reply[q] = <<>> /\ q \notin inflight
        /\ q \in cancelled => folder[q] = "error"
    BY <2>1 DEF FoldInv, Folding
  <2>3. /\ reply'[q] = <<folder[q]>> /\ Len(reply'[q]) = 1
        /\ reply' \in [Request -> Seq(Response)]
    BY <1>0, <2>1, <2>2 DEF Response
  <2> QED
    BY <1>0, <2>1, <2>2, <2>3 DEF FoldInv, FoldTypeOK, Folding, Folder
<1> QED
  BY <1>1, <1>2, <1>3, <1>4, <1>5

\* Every step of the server keeps the invariant of the folding requests.
LEMMA FoldStep ==
    ASSUME FoldInv, [LspNext]_allVars
    PROVE  FoldInv'
<1>1. CASE UNCHANGED foldVars
  BY <1>1, FoldUnchanged
<1>2. CASE \E q \in Request : \/ FoldingRejected(q) \/ FoldingMalformed(q)
                              \/ FoldingRange(q) \/ Walk(q) \/ Decide(q) \/ SendReply(q)
  BY <1>2, FoldMoves
<1>3. CASE Exit \/ Eof \/ \E q \in Request : Cancel(q)
  <2>1. PICK S \in SUBSET inflight : cancelled' = cancelled \cup S
    BY <1>3, ZenonT(60) DEF Exit, Eof, LeaveLoop, Cancel
  <2>2. UNCHANGED <<inflight, folder, reply>>
    BY <1>3 DEF Exit, Eof, LeaveLoop, Cancel
  <2> QED
    BY <2>1, <2>2 DEF FoldInv, FoldTypeOK, Folding
<1> QED
  <2>1. CASE UNCHANGED allVars
    BY <1>1, <2>1 DEF allVars, lspVars, foldVars
  <2>2. CASE LspNext
    <3>1. CASE Initialized \/ Shutdown \/ ShutdownReply \/ Join \/ ProcessEnd
      BY <1>1, <3>1 DEF Initialized, Shutdown, ShutdownReply, Join, ProcessEnd
    <3>2. CASE Notification \/ HandlerRuns \/ \E w \in Worker : PoolRuns(w)
      BY <1>1, <3>2 DEF Notification, HandlerRuns, PoolRuns, lspVars, foldVars
    <3> QED
      BY <1>2, <1>3, <2>2, <3>1, <3>2, LspSteps
  <2> QED
    BY <2>1, <2>2

\* The invariant of the folding requests.
LEMMA FoldingHolds == LspSpec => []FoldInv
  BY FoldInit, FoldStep, PTL DEF LspSpec

\* A cancellation that found its request in flight is honoured, however the
\* walk, the critical section that removes the id and the answer interleave
\* with it (onCancelRequest, onFoldingRange).
THEOREM CancelIsHonoured == LspSpec => []CancelHonoured
<1>1. FoldInv => CancelHonoured
  BY DEF FoldInv, FoldTypeOK, Folding, CancelHonoured
<1> QED
  BY <1>1, FoldingHolds, PTL

\* No request is answered twice, and a joined thread has answered: whatever
\* the cancellations and the end of the read loop interrupt.
THEOREM OneAnswerEach == LspSpec => []AnsweredOnce
<1>1. FoldInv => AnsweredOnce
  <2> SUFFICES ASSUME FoldInv, NEW r \in Request
               PROVE  Len(reply[r]) = IF folder[r] = "done" THEN 1 ELSE 0
    BY DEF AnsweredOnce
  <2>1. folder[r] # "done" => reply[r] = <<>>
    BY DEF FoldInv, Folding
  <2>2. folder[r] = "done" => Len(reply[r]) = 1
    BY DEF FoldInv, Folding
  <2> QED
    BY <2>1, <2>2, ZenonT(60)
<1> QED
  BY <1>1, FoldingHolds, PTL

(***************************************************************************)
(* The lifecycle.                                                          *)
(***************************************************************************)

\* An idle pool takes no step: there is no lambda to take and no worker is in
\* one.
LEMMA IdlePoolRests == ASSUME PoolIdle, NEW w \in Worker PROVE ~WorkerStep(w)
<1>1. queue = <<>> /\ job[w].phase = "idle"
  BY DEF PoolIdle, Idle
<1>2. ~Take(w) /\ ~Lookup(w)
  BY <1>1 DEF Take, Lookup
<1>3. ~Reparse(w) /\ ~StaleCheck(w) /\ ~Publish(w)
  BY <1>1 DEF Reparse, StaleCheck, Publish
<1> QED
  BY <1>2, <1>3 DEF WorkerStep

\* The messages about the server itself and what folding threads do leave
\* document synchronisation and the shutdown request alone; the loop is left
\* between two messages only.
LEMMA AsideSteps ==
    ASSUME \/ Initialized \/ Exit \/ Eof \/ Join \/ ProcessEnd
           \/ \E r \in Request : \/ FoldingRejected(r) \/ FoldingMalformed(r)
                                 \/ FoldingRange(r) \/ Cancel(r) \/ Walk(r)
                                 \/ Decide(r) \/ SendReply(r)
    PROVE  /\ UNCHANGED <<vars, shutdown>>
           /\ life' = life \/ ((life # "serving" \/ dispatch = Waiting) /\ life' \in Life)
<1>1. CASE Initialized \/ Join \/ ProcessEnd
  BY <1>1 DEF Initialized, Join, ProcessEnd, Life
<1>2. CASE Exit \/ Eof
  BY <1>2 DEF Exit, Eof, LeaveLoop, Listening, Life
<1>3. ASSUME NEW r \in Request, FoldingRejected(r) \/ FoldingMalformed(r) \/ FoldingRange(r)
      PROVE  UNCHANGED <<vars, shutdown, life>>
  BY <1>3 DEF FoldingRejected, FoldingMalformed, FoldingRange
<1>4. ASSUME NEW r \in Request, Cancel(r) \/ Walk(r) \/ Decide(r) \/ SendReply(r)
      PROVE  UNCHANGED <<vars, shutdown, life>>
  BY <1>4 DEF Cancel, Walk, Decide, SendReply
<1> QED
  BY <1>1, <1>2, <1>3, <1>4

\* A handler runs only in its own phases, and ends waiting or in another one.
LEMMA HandlerPhases ==
    ASSUME "pc" \in DOMAIN dispatch, HandlerStep
    PROVE  /\ dispatch.pc \in HandlerPc
           /\ dispatch'.pc \in HandlerPc \cup {"idle"}
           /\ "pc" \in DOMAIN dispatch'
  BY DEF HandlerStep, CallOpen, CallUpdate, CallSchedule, ClosePublish, CallClose,
         Goto, Waiting, HandlerPc

\* A message is taken by a waiting dispatch thread, which then is in a handler
\* or, when didChange ignores it, waits again.
LEMMA ClientPhases ==
    ASSUME ClientStep
    PROVE  /\ dispatch = Waiting
           /\ dispatch'.pc \in HandlerPc \cup {"idle"}
           /\ "pc" \in DOMAIN dispatch'
  BY DEF ClientStep, DidOpen, DidChange, DidClose, EditOf, Waiting, HandlerPc

\* The lifecycle invariant holds at the start.
LEMMA LifecycleInit == LspInit => Lifecycle
  BY DEF LspInit, Init, Lifecycle, Waiting, Life

\* Every step keeps it: after shutdown the gate lets no notification through,
\* and no handler is running that could schedule.
LEMMA LifecycleStep == ASSUME Lifecycle, [LspNext]_allVars PROVE Lifecycle'
<1>1. CASE /\ UNCHANGED <<dispatch, shutdown, queue, job>>
           /\ life' = life \/ (dispatch = Waiting /\ life' \in Life)
  BY <1>1 DEF Lifecycle, PoolIdle
<1>2. CASE Shutdown
  BY <1>2 DEF Shutdown, Listening, Lifecycle, Waiting
<1>3. CASE ShutdownReply
  <2>1. /\ dispatch.pc = "drain" /\ dispatch # Waiting
        /\ dispatch' = Waiting /\ shutdown' = "replied" /\ UNCHANGED <<queue, job, life>>
    BY <1>3 DEF ShutdownReply, Waiting, schedVars
  <2>2. PoolIdle'
    BY <1>3, <2>1 DEF ShutdownReply, PoolIdle
  <2> QED
    BY <2>1, <2>2 DEF Lifecycle, Waiting
<1>4. CASE Notification
  <2>1. life = "serving" /\ shutdown = "no" /\ UNCHANGED <<shutdown, life>>
    BY <1>4 DEF Notification, lspVars
  <2>2. dispatch'.pc \in HandlerPc \cup {"idle"} /\ "pc" \in DOMAIN dispatch'
    BY <1>4, ClientPhases DEF Notification
  <2> QED
    BY <2>1, <2>2 DEF Lifecycle, HandlerPc
<1>5. CASE HandlerRuns
  <2>1. UNCHANGED <<shutdown, life>>
    BY <1>5 DEF HandlerRuns, lspVars
  <2>2. /\ dispatch.pc \in HandlerPc /\ "pc" \in DOMAIN dispatch'
        /\ dispatch'.pc \in HandlerPc \cup {"idle"}
    BY <1>5, HandlerPhases DEF HandlerRuns, Lifecycle
  <2>3. dispatch # Waiting /\ dispatch.pc # "drain"
    BY <2>2 DEF HandlerPc, Waiting
  <2> QED
    BY <2>1, <2>2, <2>3 DEF Lifecycle, HandlerPc
<1>6. CASE \E w \in Worker : PoolRuns(w)
  <2>1. UNCHANGED <<dispatch, shutdown, life>>
    BY <1>6 DEF PoolRuns, lspVars
  <2>2. ~PoolIdle
    BY <1>6, IdlePoolRests DEF PoolRuns
  <2> QED
    BY <2>1, <2>2 DEF Lifecycle
<1>7. CASE \/ Initialized \/ Exit \/ Eof \/ Join \/ ProcessEnd
           \/ \E r \in Request : \/ FoldingRejected(r) \/ FoldingMalformed(r)
                                 \/ FoldingRange(r) \/ Cancel(r) \/ Walk(r)
                                 \/ Decide(r) \/ SendReply(r)
  <2>1. /\ UNCHANGED <<vars, shutdown>>
        /\ life' = life \/ ((life # "serving" \/ dispatch = Waiting) /\ life' \in Life)
    BY <1>7, AsideSteps
  <2> QED
    BY <1>1, <2>1 DEF vars, Lifecycle
<1>8. CASE UNCHANGED allVars
  <2>1. UNCHANGED <<dispatch, shutdown, queue, job>> /\ life' = life
    BY <1>8 DEF allVars, vars, lspVars
  <2> QED
    BY <2>1 DEF Lifecycle, PoolIdle
<1> QED
  BY <1>2, <1>3, <1>4, <1>5, <1>6, <1>7, <1>8, LspSteps

\* The lifecycle invariant.
LEMMA LifecycleHolds == LspSpec => []Lifecycle
  BY LifecycleInit, LifecycleStep, PTL DEF LspSpec

\* When a process that was shut down destroys the server, no worker is left
\* that could call back into it (onShutdown's waitForIdle, the gate of
\* dispatch, and the order of run() and the destructors).
THEOREM TeardownIsClean == LspSpec => []CleanTeardown
<1>1. Lifecycle => CleanTeardown
  BY DEF Lifecycle, CleanTeardown, Waiting
<1> QED
  BY <1>1, LifecycleHolds, PTL

\* Nothing is published once shutdown was answered: the gate refuses new
\* work, and the pool had none left.
THEOREM SilenceAfterShutdown == LspSpec => SilentAfterShutdown
<1>1. ASSUME Lifecycle, [LspNext]_allVars, shutdown = "replied" PROVE shown' = shown
  <2>1. dispatch = Waiting /\ PoolIdle
    BY <1>1 DEF Lifecycle
  <2>2. ~Notification /\ ~Shutdown /\ ~ShutdownReply
    BY <1>1, <2>1 DEF Notification, Shutdown, ShutdownReply, Waiting
  <2>3. ~HandlerRuns
    BY <1>1, <2>1, HandlerPhases DEF HandlerRuns, Lifecycle, Waiting, HandlerPc
  <2>4. \A w \in Worker : ~PoolRuns(w)
    BY <2>1, IdlePoolRests DEF PoolRuns
  <2>5. CASE UNCHANGED allVars
    BY <2>5 DEF allVars, vars
  <2>6. CASE \/ Initialized \/ Exit \/ Eof \/ Join \/ ProcessEnd
             \/ \E r \in Request : \/ FoldingRejected(r) \/ FoldingMalformed(r)
                                   \/ FoldingRange(r) \/ Cancel(r) \/ Walk(r)
                                   \/ Decide(r) \/ SendReply(r)
    BY <2>6, AsideSteps DEF vars
  <2> QED
    BY <1>1, <2>2, <2>3, <2>4, <2>5, <2>6, LspSteps
<1>2. ASSUME Lifecycle, [LspNext]_allVars
      PROVE  [shutdown = "replied" => shown' = shown]_allVars
  BY <1>1, <1>2
<1> QED
  BY <1>2, LifecycleHolds, PTL DEF LspSpec, SilentAfterShutdown

(***************************************************************************)
(* The server implements document synchronisation.                         *)
(***************************************************************************)

\* Seen without its lifecycle and its folding requests, the server is
\* document synchronisation: waitForIdle is a wait for the next message.
Sync == INSTANCE LatestTextProofs
            WITH dispatch <- IF dispatch.pc = "drain" THEN Waiting ELSE dispatch

ImplementsSync == Sync!Spec

\* What does not read the dispatch thread's state is the same in both.
LEMMA SyncUnits ==
    /\ Sync!NoTu = NoTu /\ Sync!FreshState = FreshState /\ Sync!Idle = Idle
    /\ \A u, s : Sync!StateOf(u, s) = StateOf(u, s)
    /\ \A u : Open(u) => Sync!Open(u)
    /\ \A u, v : Update(u, v) => Sync!Update(u, v)
    /\ \A e : Schedule(e) => Sync!Schedule(e)
    /\ \A u : Close(u) => Sync!Close(u)
<1>1. Sync!NoTu = NoTu /\ Sync!FreshState = FreshState /\ Sync!Idle = Idle
  BY DEF NoTu, FreshState, Idle, Sync!NoTu, Sync!FreshState, Sync!Idle
<1>2. \A u, s : Sync!StateOf(u, s) = StateOf(u, s)
  BY <1>1 DEF StateOf, Sync!StateOf
<1>3. Sync!FreshTU = FreshTU /\ \A r, v : Sync!Raise(r, v) = Raise(r, v)
  BY <1>1 DEF FreshTU, Sync!FreshTU, Raise, Sync!Raise
<1>4. \A u : EnsureTU(u) => Sync!EnsureTU(u)
  BY <1>1, <1>3 DEF EnsureTU, Sync!EnsureTU
<1>5. \A u : Open(u) => Sync!Open(u)
  BY <1>4 DEF Open, Sync!Open
<1>6. \A u, v : Update(u, v) => Sync!Update(u, v)
  BY <1>1, <1>3 DEF Update, Sync!Update
<1>7. \A e : Schedule(e) => Sync!Schedule(e)
  BY <1>4 DEF Schedule, Sync!Schedule
<1>8. \A u : Close(u) => Sync!Close(u)
  BY <1>1 DEF Close, Sync!Close
<1> QED
  BY <1>1, <1>2, <1>5, <1>6, <1>7, <1>8

\* Outside waitForIdle the mapped dispatch thread is the real one.
LEMMA SyncClient ==
    ASSUME ClientStep PROVE Sync!ClientStep
<1>1. /\ dispatch = Waiting /\ dispatch.pc # "drain" /\ dispatch'.pc # "drain"
  BY ClientPhases DEF Waiting, HandlerPc
<1>2. ASSUME NEW u \in Uri, NEW v \in Version, ClientSent(u, v) PROVE Sync!ClientSent(u, v)
  BY <1>2 DEF ClientSent, Sync!ClientSent
<1>3. ASSUME NEW u \in Uri, NEW v \in Version, DidOpen(u, v) PROVE Sync!DidOpen(u, v)
  <2>1. Sync!MaySendOpen(u, v)
    BY <1>3 DEF DidOpen, MaySendOpen, Sync!MaySendOpen
  <2> QED
    BY <1>1, <1>2, <1>3, <2>1 DEF DidOpen, EditOf, Waiting, schedVars,
       Sync!DidOpen, Sync!EditOf, Sync!Waiting, Sync!schedVars
<1>4. ASSUME NEW u \in Uri, NEW v \in Version, DidChange(u, v) PROVE Sync!DidChange(u, v)
  <2>1. Sync!MaySendChange(u, v)
    BY <1>4 DEF DidChange, MaySendChange, Sync!MaySendChange
  <2> QED
    BY <1>1, <1>2, <1>4, <2>1, SyncUnits DEF DidChange, EditOf, Waiting, schedVars,
       Sync!DidChange, Sync!EditOf, Sync!Waiting, Sync!schedVars
<1>5. ASSUME NEW u \in Uri, DidClose(u) PROVE Sync!DidClose(u)
  BY <1>1, <1>5, SyncUnits DEF DidClose, MaySendClose, Waiting, schedVars,
     Sync!DidClose, Sync!MaySendClose, Sync!Waiting, Sync!schedVars
<1> QED
  BY <1>3, <1>4, <1>5 DEF ClientStep, Sync!ClientStep

\* The same for the handlers.
LEMMA SyncHandler ==
    ASSUME "pc" \in DOMAIN dispatch, HandlerStep PROVE Sync!HandlerStep
<1>1. dispatch.pc # "drain" /\ dispatch'.pc # "drain"
  BY HandlerPhases DEF HandlerPc
<1>2. CASE CallOpen
  BY <1>1, <1>2, SyncUnits DEF CallOpen, Goto, Sync!HandlerStep, Sync!CallOpen, Sync!Goto
<1>3. CASE CallUpdate
  BY <1>1, <1>3, SyncUnits DEF CallUpdate, Goto, Sync!HandlerStep, Sync!CallUpdate, Sync!Goto
<1>4. CASE CallSchedule
  BY <1>1, <1>4, SyncUnits DEF CallSchedule, Waiting, Sync!HandlerStep, Sync!CallSchedule,
     Sync!Waiting
<1>5. CASE ClosePublish
  BY <1>1, <1>5, SyncUnits DEF ClosePublish, Goto, Sync!HandlerStep, Sync!ClosePublish,
     Sync!Goto
<1>6. CASE CallClose
  BY <1>1, <1>6, SyncUnits DEF CallClose, Waiting, Sync!HandlerStep, Sync!CallClose,
     Sync!Waiting
<1> QED
  BY <1>2, <1>3, <1>4, <1>5, <1>6 DEF HandlerStep

\* Pool workers do not read the dispatch thread's state.
LEMMA SyncWorker ==
    ASSUME NEW w \in Worker, WorkerStep(w) PROVE Sync!WorkerStep(w)
<1>1. Take(w) => Sync!Take(w)
  BY SyncUnits DEF Take, Sync!Take
<1>2. Lookup(w) => Sync!Lookup(w)
  BY SyncUnits DEF Lookup, Sync!Lookup
<1>3. Reparse(w) => Sync!Reparse(w)
  BY DEF Reparse, Sync!Reparse
<1>4. StaleCheck(w) => Sync!StaleCheck(w)
  BY SyncUnits DEF StaleCheck, Sync!StaleCheck
<1>5. Publish(w) => Sync!Publish(w)
  BY SyncUnits DEF Publish, Sync!Publish
<1> QED
  BY <1>1, <1>2, <1>3, <1>4, <1>5 DEF WorkerStep, Sync!WorkerStep

\* The gates, the folding requests and the teardown only restrict and
\* surround document synchronisation: every behaviour of the server is one
\* of DocumentSync, so what holds there of units, queue and reports holds of
\* the whole server.
THEOREM ServerSynchronises == LspSpec => ImplementsSync
<1>1. LspInit => Sync!Init
  BY DEF LspInit, Init, SchedInit, Waiting, Idle, NoTu, NoReport, FreshState,
     Sync!Init, Sync!SchedInit, Sync!Waiting, Sync!Idle, Sync!NoTu, Sync!NoReport,
     Sync!FreshState
<1>2. ASSUME Lifecycle, [LspNext]_allVars PROVE [Sync!Next]_(Sync!vars)
  <2>1. CASE UNCHANGED vars
    BY <2>1 DEF vars, Sync!vars, Waiting
  <2>2. CASE Shutdown \/ ShutdownReply
    <3>1. UNCHANGED <<schedVars, edits, client>>
      BY <2>2 DEF Shutdown, ShutdownReply
    <3>2. (dispatch = Waiting /\ dispatch' = [pc |-> "drain"])
          \/ (dispatch.pc = "drain" /\ dispatch' = Waiting)
      BY <2>2 DEF Shutdown, ShutdownReply, Listening
    <3> QED
      BY <3>1, <3>2 DEF Sync!vars, schedVars, Waiting
  <2>3. CASE Notification
    BY <2>3, SyncClient DEF Notification, Sync!Next
  <2>4. CASE HandlerRuns
    BY <1>2, <2>4, SyncHandler DEF HandlerRuns, Lifecycle, Sync!Next
  <2>5. CASE \E w \in Worker : PoolRuns(w)
    BY <2>5, SyncWorker DEF PoolRuns, Sync!Next, Sync!PoolStep
  <2>6. CASE \/ Initialized \/ Exit \/ Eof \/ Join \/ ProcessEnd
             \/ \E r \in Request : \/ FoldingRejected(r) \/ FoldingMalformed(r)
                                   \/ FoldingRange(r) \/ Cancel(r) \/ Walk(r)
                                   \/ Decide(r) \/ SendReply(r)
    BY <2>1, <2>6, AsideSteps
  <2>7. CASE UNCHANGED allVars
    BY <2>1, <2>7 DEF allVars
  <2> QED
    BY <1>2, <2>2, <2>3, <2>4, <2>5, <2>6, <2>7, LspSteps
<1> QED
  BY <1>1, <1>2, LifecycleHolds, PTL DEF LspSpec, ImplementsSync, Sync!Spec

\* In the whole server, too, the newest version received for an open document
\* has been reported once everything is quiet.
THEOREM ServerPublishesNewest == LspSpec => []NewestPublished
<1>1. Sync!Spec => []Sync!NewestPublished
  BY Sync!NewestIsPublished, SyncAssumption
<1>2. Sync!NewestPublished => NewestPublished
  BY DEF NewestPublished, Quiet, PoolIdle, Waiting, NoTu, Idle, Sync!NewestPublished,
     Sync!Quiet, Sync!PoolIdle, Sync!Waiting, Sync!NoTu, Sync!Idle
<1> QED
  BY <1>1, <1>2, ServerSynchronises, PTL DEF ImplementsSync

\* When waitForIdle has nothing left to wait for, no accepted version is
\* without its report: the reply to shutdown, which is next, comes after them.
Drained ==
    PoolIdle /\ dispatch.pc = "drain" =>
        \A u \in Uri : tus[u] # NoTu =>
            heap[tus[u]].received \in heap[tus[u]].published

\* In the server, waitForIdle ends only once the newest version received for
\* every open document has been reported (onShutdown).
THEOREM DrainPublishesNewest == LspSpec => []Drained
<1>1. Sync!Spec => []Sync!NewestPublished
  BY Sync!NewestIsPublished, SyncAssumption
<1>2. Sync!NewestPublished => Drained
  BY DEF Drained, PoolIdle, Waiting, NoTu, Idle, Sync!NewestPublished,
     Sync!Quiet, Sync!PoolIdle, Sync!Waiting, Sync!NoTu, Sync!Idle
<1> QED
  BY <1>1, <1>2, ServerSynchronises, PTL DEF ImplementsSync

\* And no text of a client that numbers its texts upwards is ignored by
\* onDidChange.
THEOREM ServerIgnoresNoEdit ==
    ASSUME OrderedClient, ~RestartNumbers
    PROVE  LspSpec => NoEditIgnored
<1>1. Sync!Spec => Sync!NoEditIgnored
  BY Sync!NoEditIsIgnored, SyncAssumption
<1>2. ASSUME [edits' # edits =>
                (IF dispatch.pc = "drain" THEN Waiting ELSE dispatch)'.pc = "open"]_(Sync!vars)
      PROVE  [edits' # edits => dispatch'.pc = "open"]_vars
  BY <1>2 DEF vars, Sync!vars, Waiting
<1> QED
  BY <1>1, <1>2, ServerSynchronises, PTL DEF ImplementsSync, NoEditIgnored, Sync!NoEditIgnored

\* With one worker and a client that follows the protocol, the whole server at
\* rest shows the diagnostics of the last text of every open document.
THEOREM ServerShowsLatest ==
    ASSUME OrderedClient, ~RestartNumbers, \A w1, w2 \in Worker : w1 = w2
    PROVE  LspSpec => []ShowsLatest
<1>1. Sync!Spec => []Sync!ShowsLatest
  BY Sync!LatestIsShown, SyncAssumption
<1>2. Sync!ShowsLatest => ShowsLatest
  BY DEF ShowsLatest, Latest, Quiet, PoolIdle, Waiting, Idle, Sync!ShowsLatest,
     Sync!Latest, Sync!Quiet, Sync!PoolIdle, Sync!Waiting, Sync!Idle
<1> QED
  BY <1>1, <1>2, ServerSynchronises, PTL DEF ImplementsSync
=============================================================================
