---------------------------- MODULE DocumentSync ----------------------------
(***************************************************************************)
(* Document synchronisation: the didOpen, didChange and didClose handlers  *)
(* of the dispatch thread (lib/LSP/NslLSPServer.cpp, NslServer.cpp) over   *)
(* the scheduler, and the client that sends the notifications.             *)
(*                                                                         *)
(* A handler runs as a sequence of steps, one per critical section of the  *)
(* scheduler, and pool workers run between them.                           *)
(***************************************************************************)
EXTENDS TUScheduler

CONSTANTS Version,        \* version numbers a client may send
          MaxEdits,       \* bound: didOpen and didChange notifications sent
          OrderedClient,  \* the client follows the protocol's rules
          RestartNumbers  \* a reopened document may restart its numbering

ASSUME SyncAssumption ==
    /\ Version \subseteq Nat
    /\ MaxEdits \in Nat
    /\ OrderedClient \in BOOLEAN
    /\ RestartNumbers \in BOOLEAN

VARIABLES dispatch,  \* the handler the dispatch thread is in
          edits,     \* number of texts sent so far; the next text's name
          client     \* what the client believes it told the server

vars == <<tus, heap, queue, job, shown, dispatch, edits, client>>

Waiting == [pc |-> "idle"]

HandlerPc == {"open", "update", "schedule", "closePublish", "close"}

Handler == [pc: HandlerPc, uri: Uri, version: Int, text: Nat] \cup {Waiting}

Goto(pc) == dispatch' = [dispatch EXCEPT !.pc = pc]

(***************************************************************************)
(* The client.  An ordered one opens a closed document, changes and closes *)
(* an open one, and numbers its texts upwards; any other sends what it     *)
(* likes.  client[u] holds the last text sent for u and whether u is open. *)
(***************************************************************************)
MaySendOpen(u, v) ==
    OrderedClient => /\ ~client[u].open
                     /\ RestartNumbers \/ v > client[u].version

MaySendChange(u, v) ==
    OrderedClient => client[u].open /\ v > client[u].version

MaySendClose(u) == OrderedClient => client[u].open

ClientSent(u, v) ==
    /\ edits < MaxEdits
    /\ edits' = edits + 1
    /\ client' = [client EXCEPT ![u] =
                     [open |-> TRUE, version |-> v, text |-> edits + 1]]

EditOf(pc, u, v) == [pc |-> pc, uri |-> u, version |-> v, text |-> edits + 1]

(***************************************************************************)
(* Handlers.                                                               *)
(***************************************************************************)

\* onDidOpen: straight to openOrUpdate.
DidOpen(u, v) ==
    /\ dispatch = Waiting
    /\ MaySendOpen(u, v)
    /\ ClientSent(u, v)
    /\ dispatch' = EditOf("open", u, v)
    /\ UNCHANGED schedVars

\* Mutant: off by one in the stale check.
DidChangeOffByOne(u, v) ==
    /\ dispatch = Waiting
    /\ MaySendChange(u, v)
    /\ ClientSent(u, v)
    /\ LET lastKnown == StateOf(u, FreshState).version
       IN  dispatch' = IF lastKnown >= 0 /\ v <= lastKnown + 1 THEN Waiting
                       ELSE EditOf("open", u, v)
    /\ UNCHANGED schedVars

\* onDidChange: the version is compared with that of the last completed
\* reparse, and the notification is ignored when it is not newer.
DidChange(u, v) ==
    /\ dispatch = Waiting
    /\ MaySendChange(u, v)
    /\ ClientSent(u, v)
    /\ LET lastKnown == StateOf(u, FreshState).version
       IN  dispatch' = IF lastKnown >= 0 /\ v <= lastKnown THEN Waiting
                       ELSE EditOf("open", u, v)
    /\ UNCHANGED schedVars

\* NslServer::openOrUpdate calls open, then update, whose second half is
\* schedule.
CallOpen ==
    /\ dispatch.pc = "open"
    /\ Open(dispatch.uri)
    /\ Goto("update")
    /\ UNCHANGED <<edits, client>>

CallUpdate ==
    /\ dispatch.pc = "update"
    /\ Update(dispatch.uri, dispatch.version)
    /\ Goto("schedule")
    /\ UNCHANGED <<edits, client>>

CallSchedule ==
    /\ dispatch.pc = "schedule"
    /\ Schedule([uri |-> dispatch.uri, version |-> dispatch.version,
                 text |-> dispatch.text])
    /\ dispatch' = Waiting
    /\ UNCHANGED <<edits, client>>

\* onDidClose: read the version, publish the empty list under it, drop the
\* unit.
DidClose(u) ==
    /\ dispatch = Waiting
    /\ MaySendClose(u)
    /\ client' = [client EXCEPT ![u].open = FALSE]
    /\ dispatch' = [pc |-> "closePublish", uri |-> u, text |-> 0,
            version |-> StateOf(u, [FreshState EXCEPT !.version = 0]).version]
    /\ UNCHANGED <<schedVars, edits>>

ClosePublish ==
    /\ dispatch.pc = "closePublish"
    /\ shown' = [shown EXCEPT ![dispatch.uri] =
                    [label |-> dispatch.version, diags |-> FreshState]]
    /\ Goto("close")
    /\ UNCHANGED <<tus, heap, queue, job, edits, client>>

CallClose ==
    /\ dispatch.pc = "close"
    /\ Close(dispatch.uri)
    /\ dispatch' = Waiting
    /\ UNCHANGED <<edits, client>>

HandlerStep ==
    CallOpen \/ CallUpdate \/ CallSchedule \/ ClosePublish \/ CallClose

ClientStep ==
    \E u \in Uri :
        \/ \E v \in Version : DidOpen(u, v) \/ DidChange(u, v)
        \/ DidClose(u)

PoolStep ==
    \E w \in Worker : WorkerStep(w) /\ UNCHANGED <<dispatch, edits, client>>

Init ==
    /\ SchedInit
    /\ dispatch = Waiting
    /\ edits = 0
    /\ client = [u \in Uri |-> [open |-> FALSE, version |-> -1, text |-> 0]]

Next == ClientStep \/ HandlerStep \/ PoolStep

Spec == Init /\ [][Next]_vars

\* The dispatch thread and the pool's threads are never stopped for ever; the
\* client need not send anything.
FairSpec ==
    /\ Spec
    /\ WF_vars(HandlerStep)
    /\ \A w \in Worker :
          WF_vars(WorkerStep(w) /\ UNCHANGED <<dispatch, edits, client>>)

-----------------------------------------------------------------------------

\* Nothing is running and nothing is waiting to run.
Quiet == PoolIdle /\ dispatch = Waiting

\* What onDidChange, update and the workers may leave in the state.
TypeOK ==
    /\ SchedTypeOK
    /\ dispatch \in Handler
    /\ edits \in 0 .. MaxEdits
    /\ client \in [Uri -> [open: BOOLEAN, version: Int, text: Nat]]

\* Dropping stale results never drops the newest one: once everything is
\* quiet, each open document has had a report labelled with the greatest
\* version update() received for it (the stale check of schedule's lambda).
NewestPublished ==
    Quiet => \A u \in Uri : tus[u] # NoTu =>
                 heap[tus[u]].received \in heap[tus[u]].published

\* The version field of a report is the version of the text its diagnostics
\* come from (the label and the state that Publish puts together).
LabelTruth ==
    \A u \in Uri : shown[u].diags # FreshState =>
                       shown[u].label = shown[u].diags.version

\* The report of the last text the client sent for u.
Latest(u) == [label |-> client[u].version,
              diags |-> [version |-> client[u].version, text |-> client[u].text]]

\* Once everything is quiet, the client sees the diagnostics of the last
\* text it sent for each document it has open.
ShowsLatest ==
    Quiet => \A u \in Uri : client[u].open => shown[u] = Latest(u)

\* No text of a client that numbers its texts upwards is ignored: the stale
\* check of onDidChange only hits clients that send an old version.
NoEditIgnored ==
    [][edits' # edits => dispatch'.pc = "open"]_vars

\* The newest version received for an open document is eventually reported,
\* unless a newer one arrives or the document is closed.
Newest(u) == IF tus[u] = NoTu THEN -1 ELSE heap[tus[u]].received

NewestEventuallyPublished ==
    \A u \in Uri, v \in Version :
        Newest(u) = v ~> (Newest(u) # v \/ v \in heap[tus[u]].published)

\* Seen from the client, with one worker, the handlers and the scheduler are
\* a feed of reports: units, queue and jobs hidden, each step of the code is
\* a step of the feed or changes nothing a client can see, and the last text
\* of an open document is shown in the end.
Feed == INSTANCE DiagnosticsFeed
            WITH Doc <- Uri, Empty <- FreshState, sent <- client, view <- shown

ImplementsFeed == Feed!FeedSpec

(***************************************************************************)
(* The invariants the proofs use.                                          *)
(***************************************************************************)

\* Units belong to one document each; a worker's unit, if some document has
\* it, belongs to the document of the worker's job; and a handler past open
\* finds its document's unit (only the dispatch thread erases units).
UnitsOwned ==
    /\ \A u1, u2 \in Uri : tus[u1] # NoTu /\ tus[u1] = tus[u2] => u1 = u2
    /\ \A w \in Worker, u \in Uri :
          job[w].phase \in {"reparse", "check", "publish"} /\ job[w].tu = tus[u]
          => job[w].uri = u
    /\ dispatch.pc \in {"update", "schedule"} => tus[dispatch.uri] # NoTu
    /\ dispatch.pc \in {"open", "update", "schedule"} => dispatch.version \in Nat

\* Who still has to report the newest version v received for u, whose unit
\* is t: the handler, the queue, or a worker that has not dropped it.
HandlerOwes(u, v) ==
    \/ dispatch.pc = "update" /\ dispatch.uri = u /\ v = -1
    \/ dispatch.pc = "schedule" /\ dispatch.uri = u /\ dispatch.version = v

QueueOwes(u, v) == \E i \in 1 .. Len(queue) : queue[i].uri = u /\ queue[i].version = v

WorkerOwes(w, u, t, v) ==
    /\ job[w].version = v
    /\ \/ job[w].phase = "lookup" /\ job[w].uri = u
       \/ job[w].phase \in {"reparse", "check", "publish"} /\ job[w].tu = t

Owed(u, t, v) ==
    HandlerOwes(u, v) \/ QueueOwes(u, v) \/ \E w \in Worker : WorkerOwes(w, u, t, v)

\* The newest version received for an open document has been reported, or
\* somebody still owes the report: what makes NewestPublished inductive.
NewestOwed ==
    \A u \in Uri : tus[u] # NoTu =>
        \/ heap[tus[u]].received \in heap[tus[u]].published
        \/ Owed(u, tus[u], heap[tus[u]].received)

\* With one worker, the unit still holds that worker's parse when it checks
\* and publishes.
StateHeld ==
    \A w \in Worker : job[w].phase \in {"check", "publish"} =>
        heap[job[w].tu].state = [version |-> job[w].version, text |-> job[w].text]

\* No version of a document in the system exceeds the last one the client
\* sent for it.
VersionsSent ==
    \A u \in Uri :
        /\ tus[u] # NoTu => heap[tus[u]].state.version <= client[u].version
        /\ \A i \in 1 .. Len(queue) :
              queue[i].uri = u => queue[i].version <= client[u].version
        /\ \A w \in Worker : job[w].phase # "idle" /\ job[w].uri = u =>
                                job[w].version <= client[u].version
        /\ dispatch.pc \in {"open", "update", "schedule"} /\ dispatch.uri = u
              => dispatch.version <= client[u].version

\* The text the dispatch thread is about to schedule for u.
Pending(u) == dispatch.pc \in {"open", "update", "schedule"} /\ dispatch.uri = u

\* Text t, sent under version v, is the last one the client sent for u, or is
\* older in both respects.
SentFor(u, v, t) ==
    \/ v = client[u].version /\ t = client[u].text
    \/ v < client[u].version /\ t < client[u].text

WorksOn(w, u) == job[w].phase # "idle" /\ job[w].uri = u

\* The text on display is older than the one being parsed, those queued and
\* the one about to be queued.
DisplayFirst(u) ==
    /\ shown[u].diags.text <= client[u].text
    /\ \A w \in Worker : WorksOn(w, u) => shown[u].diags.text < job[w].text
    /\ \A i \in 1 .. Len(queue) : queue[i].uri = u => shown[u].diags.text < queue[i].text
    /\ Pending(u) => shown[u].diags.text < dispatch.text

\* The text being parsed was sent, and is older than those that wait.
WorkNext(u) ==
    \A w \in Worker : WorksOn(w, u) =>
        /\ SentFor(u, job[w].version, job[w].text)
        /\ \A i \in 1 .. Len(queue) : queue[i].uri = u => job[w].text < queue[i].text
        /\ Pending(u) => job[w].text < dispatch.text

\* The queued texts were sent, and are in order.
QueueNext(u) ==
    \A i \in 1 .. Len(queue) : queue[i].uri = u =>
        /\ SentFor(u, queue[i].version, queue[i].text)
        /\ \A k \in 1 .. Len(queue) :
              i < k /\ queue[k].uri = u => queue[i].text < queue[k].text
        /\ Pending(u) => queue[i].text < dispatch.text

\* The one about to be queued is the last one sent.
NewestLast(u) ==
    /\ client[u].text <= edits
    /\ Pending(u) => /\ dispatch.version = client[u].version
                     /\ dispatch.text = client[u].text

\* The texts of u are in the order they were sent: the one on display, the
\* one being parsed, those queued, the one about to be queued.
InLine(u) == DisplayFirst(u) /\ WorkNext(u) /\ QueueNext(u) /\ NewestLast(u)

\* With one worker and an ordered client the texts of a document come through
\* in the order they were sent, from openOrUpdate to the report: what shows
\* that the report on display is never replaced by that of an older text.
TextsInOrder == \A u \in Uri : InLine(u)

\* A document the client has open has a unit or is about to get one, and is
\* not being closed; no version received for it exceeds the last one sent.
UnitReady(u) ==
    /\ client[u].open =>
          /\ tus[u] # NoTu \/ (dispatch.pc = "open" /\ dispatch.uri = u)
          /\ dispatch.pc \in {"closePublish", "close"} => dispatch.uri # u
    /\ tus[u] # NoTu => heap[tus[u]].received <= client[u].version

\* The last text sent for u is on display, or on its way there: about to be
\* queued, queued, or in the hands of a worker that has the document's unit.
WillShow(w, u) == /\ WorksOn(w, u) /\ job[w].text = client[u].text
                  /\ job[w].phase # "lookup" => job[w].tu = tus[u]

LatestDue(u) ==
    \/ shown[u] = Latest(u)
    \/ Pending(u)
    \/ \E i \in 1 .. Len(queue) : queue[i].uri = u /\ queue[i].text = client[u].text
    \/ \E w \in Worker : WillShow(w, u)

\* What makes ShowsLatest inductive.
LatestKept == \A u \in Uri : UnitReady(u) /\ (client[u].open => LatestDue(u))
=============================================================================
