-------------------------------- MODULE Sema --------------------------------
(* The semantic pass as a whole (lib/Sema/Sema.cpp): run() resolves the     *)
(* unit, then runs every registered constraint check in the order of its    *)
(* number over the finished table, and takes the verdict from whether       *)
(* anything was reported.                                                   *)
EXTENDS Constraints

VARIABLE sn             \* the checks that have run

semaVars == <<resVars, sn>>

SemaInit == ResInit /\ sn = 0

ResolutionStep == ResNext /\ UNCHANGED sn

RunConstraint ==
  /\ Resolved
  /\ sn < Len(Sn)
  /\ sn' = sn + 1
  /\ diags' = diags \o run(Sn[sn + 1])
  /\ IF Sn[sn + 1] = 18 THEN S18 ELSE UNCHANGED retired
  /\ UNCHANGED <<unit, scopes, work, contextWidth, reportedUnresolved,
                 exprToSymbol, inferredType>>

SemaDone == Resolved /\ sn = Len(Sn)

\* SemaResult::hasErrors; every report of the pass has severity Error.
hasErrors == diags # <<>>

-----------------------------------------------------------------------------
(* Reference: lexical scope read off the tree.                              *)

ScopeOpeners ==
  {"CompilationUnit", "DeclareBlock", "ModuleBlock", "FuncDefn", "ProcDefn",
   "StateDefn", "SeqBlock", "ParallelBlock", "AltBlock", "AnyBlock",
   "WhileBlock", "ForBlock", "InitBlockStmt", "StructuralGenerate"}

\* The path of the innermost scope around p; a generate's variable is inside.
ScopeAround(p) ==
  LET up == {i \in 0 .. Len(p) \div 2 :
               /\ NodeAt(unit, SubSeq(p, 1, 2 * i)).k \in ScopeOpeners
               /\ \/ 2 * i < Len(p)
                  \/ NodeAt(unit, p).k = "StructuralGenerate"}
      i  == CHOOSE j \in up : \A k \in up : k <= j
  IN  SubSeq(p, 1, 2 * i)

\* A declaration is visible under its scope, a port of a declare block under
\* the module of that name as well.
VisibleAt(sym, p) ==
  LET scope == ScopeAround(sym.id)
      owner == NodeAt(unit, scope)
  IN  \/ IsPrefix(scope, p)
      \/ /\ owner.k = "DeclareBlock"
         /\ Len(p) >= 2
         /\ LET m == NodeAt(unit, SubSeq(p, 1, 2))
            IN  m.k = "ModuleBlock" /\ m.n = owner.n

-----------------------------------------------------------------------------
(* Properties of the walk.                                                  *)

(* An identifier or call head is bound to a declaration that lexically      *)
(* encloses it, or to a port of the declare block paired with its module:   *)
(* never to a name of another module or of a block that was left            *)
(* (exprIdentifier, declModuleBlock, leaveScope).                           *)
ResolvesLexically ==
  \A p \in DOMAIN exprToSymbol : VisibleAt(exprToSymbol[p], p)

(* The symbol table as a client-independent object is what the pass uses it *)
(* as: every step of the pass is an operation of the table or leaves it.    *)
UsesSymbolTable == SymSpec
=============================================================================
