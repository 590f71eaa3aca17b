-------------------------- MODULE DiagnosticsFeed ---------------------------
(***************************************************************************)
(* What document synchronisation promises a client, without threads, units *)
(* or queues: for each document a feed of reports.  A report shows a text  *)
(* the client has sent, under the version it was sent with, and a newer    *)
(* text than the one on display; closing a document takes its report down; *)
(* and the last text of an open document is shown in the end.              *)
(*                                                                         *)
(* A report may still come when the document has been closed: the code     *)
(* does not hold it back.                                                  *)
(***************************************************************************)
EXTENDS Integers

CONSTANTS Doc,      \* documents
          Empty     \* the diagnostics of no text

VARIABLES sent,     \* the last text sent for each document, and whether it is open
          view      \* the report on display for each document

feedVars == <<sent, view>>

FeedInit ==
    /\ sent = [d \in Doc |-> [open |-> FALSE, version |-> -1, text |-> 0]]
    /\ view = [d \in Doc |-> [label |-> -1, diags |-> Empty]]

\* The client sends a new text, with a higher version.
Send(d) ==
    /\ sent'[d].open
    /\ sent'[d].version > sent[d].version
    /\ sent'[d].text > sent[d].text
    /\ sent' = [sent EXCEPT ![d] = sent'[d]]
    /\ UNCHANGED view

\* The client closes a document; its report is taken down later.
Hangup(d) ==
    /\ sent[d].open
    /\ sent' = [sent EXCEPT ![d].open = FALSE]
    /\ UNCHANGED view

TakeDown(d) ==
    /\ view'[d].diags = Empty
    /\ view' = [view EXCEPT ![d] = view'[d]]
    /\ UNCHANGED sent

\* The report of the last text sent.
Newest(d) == [label |-> sent[d].version,
              diags |-> [version |-> sent[d].version, text |-> sent[d].text]]

ShowNewest(d) ==
    /\ sent[d].text > view[d].diags.text
    /\ view' = [view EXCEPT ![d] = Newest(d)]
    /\ UNCHANGED sent

\* An older text than the last one, but newer than the one on display.
ShowOlder(d) ==
    /\ view'[d].label = view'[d].diags.version
    /\ view'[d].label < sent[d].version
    /\ view[d].diags.text < view'[d].diags.text
    /\ view'[d].diags.text < sent[d].text
    /\ view' = [view EXCEPT ![d] = view'[d]]
    /\ UNCHANGED sent

FeedNext ==
    \E d \in Doc :
        Send(d) \/ Hangup(d) \/ TakeDown(d) \/ ShowNewest(d) \/ ShowOlder(d)

\* An open document is not left behind for ever.
KeepUp(d) == sent[d].open /\ ShowNewest(d)

FeedSafety == FeedInit /\ [][FeedNext]_feedVars

FeedSpec ==
    /\ FeedSafety
    /\ \A d \in Doc : WF_feedVars(KeepUp(d))
=============================================================================
