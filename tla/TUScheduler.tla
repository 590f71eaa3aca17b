---------------------------- MODULE TUScheduler ----------------------------
(***************************************************************************)
(* The translation-unit scheduler of the language server                   *)
(* (lib/LSP/TUScheduler.cpp) and the per-document unit it owns             *)
(* (lib/LSP/NslTU.h, NslTU.cpp).                                           *)
(*                                                                         *)
(* The dispatch thread calls open, update, schedule and close; a pool of   *)
(* workers runs the lambda that schedule submits.  Every critical section  *)
(* of the code is one step here: the sections under tus_mtx_, the section  *)
(* under a unit's mtx_, and each access to the atomic latest_received_.    *)
(* No section of either mutex takes the other, so treating each as one     *)
(* step loses no interleaving.                                             *)
(*                                                                         *)
(* A document's text is a number, different for each text the client       *)
(* sends; 0 is the empty text of a unit that was never parsed.  What       *)
(* parsing yields is a function of the text, so a state also stands for    *)
(* the diagnostics it holds.                                               *)
(***************************************************************************)
EXTENDS Integers, Sequences

CONSTANTS Uri,     \* documents
          Worker   \* threads of the pool (NSL_LSP_WORKERS)

VARIABLES tus,     \* tus_: the unit of each document, 0 when it has none
          heap,    \* every NslTU ever made; shared_ptr keeps it alive
          queue,   \* the pool's submitted and not yet started lambdas
          job,     \* what each worker is doing
          shown    \* the last publishDiagnostics the client got, per document

schedVars == <<tus, heap, queue, job, shown>>

NoTu == 0

\* NslTU::State: the text it was built from and that text's version.
State == [version: Int, text: Nat]

FreshState == [version |-> -1, text |-> 0]

\* A publishDiagnostics: its version field, and the state whose diagnostics
\* it carries.  The empty list is FreshState.
Report == [label: Int, diags: State]

NoReport == [label |-> -1, diags |-> FreshState]

\* published is a history variable: the version labels put on the wire from
\* this unit.
FreshTU == [state |-> FreshState, received |-> -1, published |-> {}]

TU == [state: State, received: Int, published: SUBSET Int]

Edit == [uri: Uri, version: Int, text: Nat]

Phase == {"lookup", "reparse", "check", "publish"}

Idle == [phase |-> "idle"]

Job == [phase: Phase, uri: Uri, version: Int, text: Nat, tu: Nat] \cup {Idle}

(***************************************************************************)
(* Calls of the dispatch thread.                                           *)
(***************************************************************************)

\* "if (tus_.find(uri) == tus_.end()) tus_[uri] = make_shared<NslTU>()"
EnsureTU(u) ==
    IF tus[u] = NoTu
    THEN /\ heap' = Append(heap, FreshTU)
         /\ tus' = [tus EXCEPT ![u] = Len(heap) + 1]
    ELSE UNCHANGED <<heap, tus>>

Raise(received, v) == IF v > received THEN v ELSE received

\* TUScheduler::open
Open(u) == EnsureTU(u) /\ UNCHANGED <<queue, job, shown>>

\* The locked part of TUScheduler::update: find or make the unit, then
\* NslTU::noteReceived.
Update(u, v) ==
    /\ IF tus[u] = NoTu
       THEN /\ heap' = Append(heap, [FreshTU EXCEPT !.received = Raise(@, v)])
            /\ tus' = [tus EXCEPT ![u] = Len(heap) + 1]
       ELSE /\ heap' = [heap EXCEPT ![tus[u]].received = Raise(@, v)]
            /\ UNCHANGED tus
    /\ UNCHANGED <<queue, job, shown>>

\* TUScheduler::schedule: the unit is ensured once more, and the lambda is
\* submitted to the pool.
Schedule(e) ==
    /\ EnsureTU(e.uri)
    /\ queue' = Append(queue, e)
    /\ UNCHANGED <<job, shown>>

\* TUScheduler::close.  Work already started keeps its shared_ptr.
Close(u) ==
    /\ tus' = [tus EXCEPT ![u] = NoTu]
    /\ UNCHANGED <<heap, queue, job, shown>>

\* TUScheduler::withState(uri, ...): what a reader sees, or what it started
\* with when the document has no unit.
StateOf(u, default) == IF tus[u] = NoTu THEN default ELSE heap[tus[u]].state

(***************************************************************************)
(* The lambda, run by worker w.                                            *)
(***************************************************************************)

\* Mutant: the pool hands out its newest lambda.
TakeNewest(w) ==
    /\ job[w] = Idle
    /\ queue # <<>>
    /\ LET e == queue[Len(queue)]
       IN  job' = [job EXCEPT ![w] = [phase |-> "lookup", uri |-> e.uri,
                       version |-> e.version, text |-> e.text, tu |-> NoTu]]
    /\ queue' = SubSeq(queue, 1, Len(queue) - 1)
    /\ UNCHANGED <<tus, heap, shown>>

\* The pool hands its oldest lambda to a free worker.
Take(w) ==
    /\ job[w] = Idle
    /\ queue # <<>>
    /\ LET e == Head(queue)
       IN  job' = [job EXCEPT ![w] = [phase |-> "lookup", uri |-> e.uri,
                       version |-> e.version, text |-> e.text, tu |-> NoTu]]
    /\ queue' = Tail(queue)
    /\ UNCHANGED <<tus, heap, shown>>

\* Under tus_mtx_: give up when the document is closed, else hold its unit.
Lookup(w) ==
    /\ job[w].phase = "lookup"
    /\ LET u == job[w].uri
       IN  job' = [job EXCEPT ![w] =
                      IF tus[u] = NoTu THEN Idle
                      ELSE [@ EXCEPT !.phase = "reparse", !.tu = tus[u]]]
    /\ UNCHANGED <<tus, heap, queue, shown>>

\* NslTU::reparse: under the unit's mutex the pipeline overwrites the state,
\* whatever version it holds.
Reparse(w) ==
    /\ job[w].phase = "reparse"
    /\ heap' = [heap EXCEPT ![job[w].tu].state =
                   [version |-> job[w].version, text |-> job[w].text]]
    /\ job' = [job EXCEPT ![w].phase = "check"]
    /\ UNCHANGED <<tus, queue, shown>>

\* Mutant: a result as new as the newest received one is dropped too.
StaleCheckInclusive(w) ==
    /\ job[w].phase = "check"
    /\ job' = [job EXCEPT ![w] =
                  IF job[w].version <= heap[job[w].tu].received THEN Idle
                  ELSE [@ EXCEPT !.phase = "publish"]]
    /\ UNCHANGED <<tus, heap, queue, shown>>

\* "if (diagnosed < tu->latestReceivedVersion()) return;"
StaleCheck(w) ==
    /\ job[w].phase = "check"
    /\ job' = [job EXCEPT ![w] =
                  IF job[w].version < heap[job[w].tu].received THEN Idle
                  ELSE [@ EXCEPT !.phase = "publish"]]
    /\ UNCHANGED <<tus, heap, queue, shown>>

\* Mutant: the report is labelled with the newest version received.
PublishNewestLabel(w) ==
    /\ job[w].phase = "publish"
    /\ LET j == job[w]
       IN  /\ shown' = [shown EXCEPT ![j.uri] =
                  [label |-> heap[j.tu].received, diags |-> heap[j.tu].state]]
           /\ heap' = [heap EXCEPT ![j.tu].published = @ \cup {j.version}]
    /\ job' = [job EXCEPT ![w] = Idle]
    /\ UNCHANGED <<tus, queue>>

\* "tu->withState(... cb(uri, diagnosed, st) ...)": the label is the job's
\* version, the diagnostics are those of the unit's state at this moment.
Publish(w) ==
    /\ job[w].phase = "publish"
    /\ LET j == job[w]
       IN  /\ shown' = [shown EXCEPT ![j.uri] =
                  [label |-> j.version, diags |-> heap[j.tu].state]]
           /\ heap' = [heap EXCEPT ![j.tu].published = @ \cup {j.version}]
    /\ job' = [job EXCEPT ![w] = Idle]
    /\ UNCHANGED <<tus, queue>>

WorkerStep(w) ==
    Take(w) \/ Lookup(w) \/ Reparse(w) \/ StaleCheck(w) \/ Publish(w)

SchedInit ==
    /\ tus = [u \in Uri |-> NoTu]
    /\ heap = <<>>
    /\ queue = <<>>
    /\ job = [w \in Worker |-> Idle]
    /\ shown = [u \in Uri |-> NoReport]

\* pool_.wait() returns only in such a state.
PoolIdle == queue = <<>> /\ \A w \in Worker : job[w] = Idle

\* Types of the scheduler's state; a worker past its lookup holds a unit.
SchedTypeOK ==
    /\ heap \in Seq(TU)
    /\ tus \in [Uri -> 0 .. Len(heap)]
    /\ queue \in Seq(Edit)
    /\ job \in [Worker -> Job]
    /\ \A w \in Worker : job[w].phase \in {"reparse", "check", "publish"} =>
                             job[w].tu \in 1 .. Len(heap)
    /\ shown \in [Uri -> Report]
=============================================================================
