---------------------------- MODULE SourceManager ----------------------------
(***************************************************************************)
(* The location half of lib/Basic/SourceManager.cpp and the note half of   *)
(* lib/Basic/Diagnostic.cpp: which files are loaded, which `#line`         *)
(* overrides each of them carries, and through which `#include` each of    *)
(* them was first reached.  A byte offset is abstracted to the line it is  *)
(* on: every offset the preprocessor hands over is the start of a line.    *)
(***************************************************************************)
EXTENDS Integers, Sequences, FiniteSets

CONSTANTS File,    \* the files of the compilation, named by their paths
          Root,    \* the input file
          Alias,   \* a path only a `#line` directive mentions
          NoPath   \* the empty virtual_path of a `#line N`

ASSUME RootIsFile == Root \in File

ASSUME PathsDistinct == Alias \notin File /\ NoPath \notin File \cup {Alias}

VARIABLES buffers,          \* the files loaded, in the order of their FileIDs
          line_overrides,   \* per file, the LineDirectives registered on it
          sm_include_stack, \* the active include frames
          include_sites     \* permanent_include_sites: the first site of each file

smVars == <<buffers, line_overrides, sm_include_stack, include_sites>>

NoLoc == [file |-> NoPath, line |-> 0]

Override(n, path, at) == [at |-> at, line |-> n, path |-> path]

SMInit == /\ buffers = <<Root>>
          /\ line_overrides = [f \in File |-> {}]
          /\ sm_include_stack = <<>>
          /\ include_sites = [f \in File |-> NoLoc]

(* resolveVirtual on a buffer labelled `path` with the overrides `ovs`: the *)
(* latest override at or before the line wins; an override without a path   *)
(* falls back on the label of the buffer.                                   *)
ResolveVirtual(path, ovs, line) ==
  LET passed == {o \in ovs : o.at <= line}
      active == CHOOSE o \in passed : \A p \in passed : p.at <= o.at
  IN  IF passed = {}
      THEN [path |-> path, line |-> line]
      ELSE [path |-> IF active.path = NoPath THEN path ELSE active.path,
            line |-> active.line + (line - active.at)]

Loaded(f) == \E i \in 1..Len(buffers) : buffers[i] = f

(* loadFile is idempotent: a path that is already loaded keeps its FileID.  *)
LoadFile(f) == buffers' = IF Loaded(f) THEN buffers ELSE Append(buffers, f)

(* Overrides of two lines next to each other are out of order too. *)
InOrderApart(f, at) == \A o \in line_overrides[f] : o.at + 1 < at

(* The NSL_ABORT of addLineDirective: overrides come in strict order.       *)
InOrder(f, at) == \A o \in line_overrides[f] : o.at < at

AddLineDirective(f, at, n, path) ==
  line_overrides' = [line_overrides EXCEPT ![f] = @ \cup {Override(n, path, at)}]

(* pushIncludeFrame: the first site a file is included from is kept.        *)
PushIncludeFrame(site, f) ==
  /\ sm_include_stack' = Append(sm_include_stack, [site |-> site, included |-> f])
  /\ include_sites' = IF include_sites[f] = NoLoc
                      THEN [include_sites EXCEPT ![f] = site]
                      ELSE include_sites

PopIncludeFrame == sm_include_stack' = SubSeq(sm_include_stack, 1, Len(sm_include_stack) - 1)

(* getOriginalIncludeStackFor: the walk up the first sites, cut off after   *)
(* as many links as the buffer table, sentinel included, has entries.       *)
OriginalIncludeStack(f) ==
  LET walk[n \in 0..(Len(buffers) + 1), g \in File] ==
        LET site == include_sites[g] IN
        IF n = 0 \/ site = NoLoc THEN <<>>
        ELSE <<site>> \o (IF site.file = g THEN <<>> ELSE walk[n - 1, site.file])
  IN  walk[Len(buffers) + 1, f]

(* DiagnosticEngine::report on a location of an original file: the notes it *)
(* attaches are those of the file the virtual path names, if it is loaded.  *)
Report(sev, f, line) ==
  LET v == ResolveVirtual(f, line_overrides[f], line)
  IN  [sev |-> sev, path |-> v.path, line |-> v.line,
       notes |-> IF Loaded(v.path) THEN OriginalIncludeStack(v.path) ELSE <<>>]
=============================================================================
