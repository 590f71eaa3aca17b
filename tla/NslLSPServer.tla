---------------------------- MODULE NslLSPServer ----------------------------
(***************************************************************************)
(* The whole language server (lib/LSP/NslLSPServer.cpp, Server.cpp): the   *)
(* dispatch loop with its lifecycle gates, the foldingRange requests that  *)
(* run on threads of their own and can be cancelled, and the teardown of   *)
(* the process, composed with document synchronisation.                    *)
(*                                                                         *)
(* The read loop takes a message only when the previous handler has        *)
(* returned, which here is dispatch = Waiting.  A stream that ends, a      *)
(* framing error and a body that is not JSON all make readMessage return   *)
(* nothing, and are one action, Eof.                                       *)
(***************************************************************************)
EXTENDS DocumentSync

CONSTANT Request   \* ids of the foldingRange requests a client may send

VARIABLES initialized,    \* initialized_
          shutdown,       \* "no", "draining" (in waitForIdle), "replied"
          life,           \* where run() and runStdioServer() are
          exitCode,       \* what the process will return
          inflight,       \* inflight_: ids with a registered token
          cancelled,      \* the tokens that are set
          folder,         \* the thread of each request
          reply           \* responses put on the wire, per request

lspVars == <<initialized, shutdown, life, exitCode, inflight, cancelled,
             folder, reply>>

allVars == <<vars, lspVars>>

foldVars == <<inflight, cancelled, folder, reply>>

\* serving: in the read loop; draining: joining the folding threads;
\* destroyed: the server and the transport are gone and ~NslServer waits for
\* the pool; gone: the process has ended.
Life == {"serving", "draining", "destroyed", "gone"}

\* none: not sent; walk: in buildFoldingRanges; full and partial: the walk
\* is over, to its end or cut short by the token; error and folds: the
\* thread has left the critical section and writes; done.
Folder == {"none", "walk", "full", "partial", "error", "folds", "done"}

Listening == life = "serving" /\ dispatch = Waiting

Answer(r, kind) == reply' = [reply EXCEPT ![r] = Append(@, kind)]

(***************************************************************************)
(* Lifecycle messages.                                                     *)
(***************************************************************************)

\* onInitialized.  onInitialize only answers, so it changes nothing here.
\* After shutdown the gate of dispatch drops the notification.
Initialized ==
    /\ Listening
    /\ ~initialized
    /\ shutdown = "no"
    /\ initialized' = TRUE
    /\ UNCHANGED <<vars, shutdown, life, exitCode, foldVars>>

\* onShutdown: set the flag and block in waitForIdle ...
Shutdown ==
    /\ Listening
    /\ shutdown = "no"
    /\ shutdown' = "draining"
    /\ dispatch' = [pc |-> "drain"]
    /\ UNCHANGED <<schedVars, edits, client, initialized, life, exitCode, foldVars>>

\* Mutant: shutdown is answered without waiting for the pool.
ShutdownReplyAtOnce ==
    /\ dispatch.pc = "drain"
    /\ shutdown' = "replied"
    /\ dispatch' = Waiting
    /\ UNCHANGED <<schedVars, edits, client, initialized, life, exitCode, foldVars>>

\* ... and answer null once the pool is idle.
ShutdownReply ==
    /\ dispatch.pc = "drain"
    /\ PoolIdle
    /\ shutdown' = "replied"
    /\ dispatch' = Waiting
    /\ UNCHANGED <<schedVars, edits, client, initialized, life, exitCode, foldVars>>

\* Every token still registered is cancelled when the read loop ends.
LeaveLoop(code) ==
    /\ life' = "draining"
    /\ exitCode' = code
    /\ cancelled' = cancelled \cup inflight
    /\ UNCHANGED <<vars, initialized, shutdown, inflight, folder, reply>>

\* onExit, then the end of the loop.
Exit ==
    /\ Listening
    /\ LeaveLoop(IF shutdown = "no" THEN 1 ELSE 0)

Eof == Listening /\ LeaveLoop(1)

\* Mutant: run() waits until every request the client may send has been sent.
JoinAll ==
    /\ life = "draining"
    /\ \A r \in Request : folder[r] = "done"
    /\ life' = "destroyed"
    /\ UNCHANGED <<vars, initialized, shutdown, exitCode, foldVars>>

\* run() joins every folding thread and returns; leaving its scope destroys
\* the server and the transport.
Join ==
    /\ life = "draining"
    /\ \A r \in Request : folder[r] \in {"none", "done"}
    /\ life' = "destroyed"
    /\ UNCHANGED <<vars, initialized, shutdown, exitCode, foldVars>>

\* ~TUScheduler waits for the pool.
ProcessEnd ==
    /\ life = "destroyed"
    /\ PoolIdle
    /\ life' = "gone"
    /\ UNCHANGED <<vars, initialized, shutdown, exitCode, foldVars>>

(***************************************************************************)
(* foldingRange and $/cancelRequest.                                       *)
(***************************************************************************)

\* The gates of dispatch: before initialized, and after shutdown, a request
\* is answered with an error at once.
FoldingRejected(r) ==
    /\ Listening
    /\ folder[r] = "none"
    /\ ~initialized \/ shutdown # "no"
    /\ folder' = [folder EXCEPT ![r] = "done"]
    /\ Answer(r, IF ~initialized THEN "notInitialized" ELSE "invalid")
    /\ UNCHANGED <<vars, initialized, shutdown, life, exitCode, inflight, cancelled>>

\* onFoldingRange on parameters that are no object: no folds, no thread.
FoldingMalformed(r) ==
    /\ Listening
    /\ initialized /\ shutdown = "no"
    /\ folder[r] = "none"
    /\ folder' = [folder EXCEPT ![r] = "done"]
    /\ Answer(r, "folds")
    /\ UNCHANGED <<vars, initialized, shutdown, life, exitCode, inflight, cancelled>>

\* onFoldingRange: register a token and start a thread on a copy of the text.
FoldingRange(r) ==
    /\ Listening
    /\ initialized /\ shutdown = "no"
    /\ folder[r] = "none"
    /\ inflight' = inflight \cup {r}
    /\ folder' = [folder EXCEPT ![r] = "walk"]
    /\ UNCHANGED <<vars, initialized, shutdown, life, exitCode, cancelled, reply>>

\* onCancelRequest; an id that is not in flight is ignored.  The gates let
\* it pass at any time.
Cancel(r) ==
    /\ Listening
    /\ r \in inflight
    /\ cancelled' = cancelled \cup {r}
    /\ UNCHANGED <<vars, initialized, shutdown, life, exitCode, inflight, folder, reply>>

\* buildFoldingRanges: a poll may see the token and cut the walk short; a
\* text whose polls all come too early is walked to its end.
Walk(r) ==
    /\ folder[r] = "walk"
    /\ \E end \in {"full"} \cup (IF r \in cancelled THEN {"partial"} ELSE {}) :
          folder' = [folder EXCEPT ![r] = end]
    /\ UNCHANGED <<vars, initialized, shutdown, life, exitCode, inflight, cancelled, reply>>

\* Mutant: the id stays in the table after the token was read.
DecideKeepsId(r) ==
    /\ folder[r] \in {"full", "partial"}
    /\ folder' = [folder EXCEPT ![r] = IF r \in cancelled THEN "error" ELSE "folds"]
    /\ UNCHANGED <<vars, initialized, shutdown, life, exitCode, inflight, cancelled, reply>>

\* Under inflight_mtx_: the id leaves the table and the token is read.
Decide(r) ==
    /\ folder[r] \in {"full", "partial"}
    /\ inflight' = inflight \ {r}
    /\ folder' = [folder EXCEPT ![r] = IF r \in cancelled THEN "error" ELSE "folds"]
    /\ UNCHANGED <<vars, initialized, shutdown, life, exitCode, cancelled, reply>>

\* Mutant: a cancelled request gets no response.
SendReplyOnlyFolds(r) ==
    /\ folder[r] \in {"error", "folds"}
    /\ IF folder[r] = "folds" THEN Answer(r, "folds") ELSE UNCHANGED reply
    /\ folder' = [folder EXCEPT ![r] = "done"]
    /\ UNCHANGED <<vars, initialized, shutdown, life, exitCode, inflight, cancelled>>

\* sendError or sendResponse.
SendReply(r) ==
    /\ folder[r] \in {"error", "folds"}
    /\ Answer(r, folder[r])
    /\ folder' = [folder EXCEPT ![r] = "done"]
    /\ UNCHANGED <<vars, initialized, shutdown, life, exitCode, inflight, cancelled>>

FolderStep(r) == Walk(r) \/ Decide(r) \/ SendReply(r)

(***************************************************************************)
(* Document synchronisation behind the gates.                              *)
(***************************************************************************)

\* Mutant: the gate after shutdown lets notifications pass.
NotificationAfterShutdown ==
    /\ life = "serving"
    /\ initialized
    /\ ClientStep
    /\ UNCHANGED lspVars

\* Notifications are handled between initialized and shutdown; outside they
\* are dropped, which is no step of the server.
Notification ==
    /\ life = "serving"
    /\ initialized /\ shutdown = "no"
    /\ ClientStep
    /\ UNCHANGED lspVars

HandlerRuns == HandlerStep /\ UNCHANGED lspVars

PoolRuns(w) ==
    WorkerStep(w) /\ UNCHANGED <<dispatch, edits, client, lspVars>>

LspInit ==
    /\ Init
    /\ initialized = FALSE
    /\ shutdown = "no"
    /\ life = "serving"
    /\ exitCode = 0
    /\ inflight = {}
    /\ cancelled = {}
    /\ folder = [r \in Request |-> "none"]
    /\ reply = [r \in Request |-> <<>>]

DispatchThread == HandlerRuns \/ ShutdownReply \/ Join \/ ProcessEnd

LspNext ==
    \/ Initialized \/ Shutdown \/ Exit \/ Eof
    \/ \E r \in Request : \/ FoldingRejected(r) \/ FoldingMalformed(r)
                          \/ FoldingRange(r) \/ Cancel(r)
    \/ Notification
    \/ DispatchThread
    \/ \E r \in Request : FolderStep(r)
    \/ \E w \in Worker : PoolRuns(w)

LspSpec == LspInit /\ [][LspNext]_allVars

\* Threads of the process run: a handler is a few short critical sections,
\* and a walk over a text and a run of the pipeline terminate.  Nothing
\* obliges the client to send anything.
LspFairSpec ==
    /\ LspSpec
    /\ WF_allVars(DispatchThread)
    /\ \A r \in Request : WF_allVars(FolderStep(r))
    /\ \A w \in Worker : WF_allVars(PoolRuns(w))

-----------------------------------------------------------------------------

\* After the answer to shutdown the server publishes nothing more: the gate
\* refuses new work and waitForIdle has finished the old.
SilentAfterShutdown ==
    [][shutdown = "replied" => shown' = shown]_allVars

\* A cancellation that found the request in flight is honoured: that request
\* is never answered with folds, because the id is removed and the token is
\* read in one critical section.
CancelHonoured ==
    \A r \in cancelled : reply[r] \in {<<>>, <<"error">>} /\ folder[r] # "folds"

\* A request is answered at most once, and exactly once when its thread is
\* joined, so none is left open when the process ends.
AnsweredOnce ==
    \A r \in Request :
        Len(reply[r]) = IF folder[r] = "done" THEN 1 ELSE 0

\* When a process that was shut down destroys the server, no worker is left
\* that could call back into it.
CleanTeardown ==
    life \in {"destroyed", "gone"} /\ shutdown # "no" => PoolIdle

\* No worker calls the diagnostics callback, which holds a pointer to the
\* server and its transport, once these are destroyed.
NoCallbackAfterTeardown ==
    [][life = "destroyed" => shown' = shown]_allVars

\* The process ends once its read loop has: run() waits for nothing that does
\* not come (the joins, and ~TUScheduler's wait for the pool).
ProcessEnds == life = "draining" ~> life = "gone"

(***************************************************************************)
(* The invariants the proofs use.                                          *)
(***************************************************************************)

Response == {"notInitialized", "invalid", "error", "folds"}

FoldTypeOK ==
    /\ inflight \subseteq Request
    /\ cancelled \subseteq Request
    /\ folder \in [Request -> Folder]
    /\ reply \in [Request -> Seq(Response)]

\* A request is in the table while its thread has not read the token, a token
\* is set only then, and what was read decides the answer.
Folding(r) ==
    /\ r \in inflight <=> folder[r] \in {"walk", "full", "partial"}
    /\ r \in cancelled => folder[r] \notin {"none", "folds"}
    /\ folder[r] # "done" => reply[r] = <<>>
    /\ folder[r] = "done" =>
          /\ Len(reply[r]) = 1
          /\ r \in cancelled => reply[r] = <<"error">>

FoldInv == FoldTypeOK /\ \A r \in Request : Folding(r)

\* The dispatch thread is in waitForIdle while shutdown drains, and in no
\* handler once it was answered or the read loop has ended; the pool stays
\* idle after the answer, because nothing is scheduled any more.
Lifecycle ==
    /\ "pc" \in DOMAIN dispatch /\ life \in Life
    /\ dispatch.pc = "drain" <=> shutdown = "draining"
    /\ life # "serving" => dispatch = Waiting
    /\ shutdown \in {"no", "draining", "replied"}
    /\ shutdown = "replied" => dispatch = Waiting /\ PoolIdle
=============================================================================
