---------------------------- MODULE SymbolTable ----------------------------
(* The symbol table of the semantic pass (lib/Sema/SymbolTable.cpp): a      *)
(* stack of lexical scopes, and the list of scopes that have been left.     *)
(* leaveScope does not destroy a scope, it retires it: the symbols declared *)
(* in it are still pointed at by the resolution map.                        *)
(*                                                                          *)
(* A scope is its ScopeKind and its table_, a function from the names       *)
(* declared in it to their symbols.  A symbol is a record with a kind, a    *)
(* name, the path of the declaring node (which tells two symbols of one     *)
(* name apart, as their addresses do) and what setType and setFields left.  *)
EXTENDS Naturals, Sequences

VARIABLES
  scopes,           \* scopes_: innermost last
  retired           \* retiredScopes_: in the order they were left

tableVars == <<scopes, retired>>

ScopeKinds ==
  {"Global", "Declare", "Module", "Proc", "SeqOrParallel", "Function"}

SymbolKinds ==
  {"Port", "Reg", "Wire", "Variable", "Integer", "Mem", "FuncIn", "FuncOut",
   "FuncSelf", "Proc", "State", "Submodule", "StructType"}

Symbol(kind, name, id, type) ==
  [kind |-> kind, name |-> name, id |-> id, type |-> type, fields |-> <<>>,
   total |-> 0]

NoSymbol == [kind |-> "null"]

Scope(kind) == [kind |-> kind, table |-> [n \in {} |-> NoSymbol]]

\* Scope::lookupLocal and Scope::insert.
Holds(scope, name) == name \in DOMAIN scope.table

insert(scope, sym) ==
  [kind |-> scope.kind,
   table |-> [n \in DOMAIN scope.table \cup {sym.name} |->
                IF n = sym.name THEN sym ELSE scope.table[n]]]

-----------------------------------------------------------------------------
(* Queries.                                                                 *)

\* The greatest index of a scope in st that holds name, or 0.
Nearest(st, name) ==
  IF \E i \in 1 .. Len(st) : Holds(st[i], name)
    THEN CHOOSE i \in 1 .. Len(st) :
           /\ Holds(st[i], name)
           /\ \A j \in i + 1 .. Len(st) : ~Holds(st[j], name)
    ELSE 0

\* The retired scopes are searched after the active ones, always.
lookupAlsoRetired(name) ==
  LET st == retired \o scopes
      i  == Nearest(st, name)
  IN  IF i = 0 THEN NoSymbol ELSE st[i].table[name]

\* Innermost active scope first; once every scope has been left, the retired
\* scopes, the one left last first.
lookup(name) ==
  LET st == IF scopes = <<>> THEN retired ELSE scopes
      i  == Nearest(st, name)
  IN  IF i = 0 THEN NoSymbol ELSE st[i].table[name]

\* The index of the innermost active scope of the kind, or of the innermost
\* scope when there is none.
ScopeFor(kind) ==
  LET OfKind == {i \in 1 .. Len(scopes) : scopes[i].kind = kind}
  IN  IF OfKind = {} THEN Len(scopes)
      ELSE CHOOSE i \in OfKind : \A j \in OfKind : j <= i

-----------------------------------------------------------------------------
(* Operations.  The guards are the assertions of the code: a client that    *)
(* takes one of these steps has met them.                                   *)

enterScope(kind) ==
  /\ scopes' = Append(scopes, Scope(kind))
  /\ UNCHANGED retired

leaveScope ==
  /\ scopes # <<>>
  /\ retired' = Append(retired, scopes[Len(scopes)])
  /\ scopes' = SubSeq(scopes, 1, Len(scopes) - 1)

\* A second declaration of a name replaces the first.
DeclaredInAlways(i, sym) == TRUE

\* declare and declareInScope: the symbol goes into scope i unless the name
\* is taken there, in which case the caller gets false and nothing changes.
DeclaredIn(i, sym) == ~Holds(scopes[i], sym.name)

DeclareAt(i, sym) ==
  /\ scopes # <<>>
  /\ scopes' = IF DeclaredIn(i, sym)
                 THEN [scopes EXCEPT ![i] = insert(@, sym)]
                 ELSE scopes
  /\ UNCHANGED retired

declare(sym) == DeclareAt(Len(scopes), sym)

declareInScope(kind, sym) == DeclareAt(ScopeFor(kind), sym)

\* setFields / setType on a symbol already in the innermost scope.
setFields(sym) ==
  /\ scopes # <<>>
  /\ Holds(scopes[Len(scopes)], sym.name)
  /\ scopes[Len(scopes)].table[sym.name].id = sym.id
  /\ scopes' = [scopes EXCEPT ![Len(scopes)] = insert(@, sym)]
  /\ UNCHANGED retired

\* setFields on symbols the caller kept, after their scopes were left.
setRetiredFields ==
  /\ retired' = [i \in 1 .. Len(retired) |-> retired'[i]]
  /\ \A i \in 1 .. Len(retired) :
       /\ retired'[i].kind = retired[i].kind
       /\ DOMAIN retired'[i].table = DOMAIN retired[i].table
       /\ \A n \in DOMAIN retired[i].table :
            LET new == retired'[i].table[n]
                old == retired[i].table[n]
            IN  /\ new.kind = old.kind /\ new.name = old.name /\ new.id = old.id
                /\ new.type = old.type /\ new.total = old.total
  /\ UNCHANGED scopes

SymInit == scopes = <<>> /\ retired = <<>>

SymbolsIn(scope) == {scope.table[n] : n \in DOMAIN scope.table}

\* A client may hand any symbol to declare, for any open scope: the one it
\* handed is in the table afterwards.
SymNext ==
  \/ \E kind \in ScopeKinds : enterScope(kind)
  \/ leaveScope
  \/ /\ scopes # <<>> /\ DOMAIN scopes' = DOMAIN scopes
     /\ \/ \E i \in 1 .. Len(scopes) : \E sym \in SymbolsIn(scopes'[i]) : DeclareAt(i, sym)
        \/ \E sym \in SymbolsIn(scopes'[Len(scopes)]) : setFields(sym)
  \/ setRetiredFields

SymSpec == SymInit /\ [][SymNext]_tableVars

-----------------------------------------------------------------------------
(* Properties.                                                              *)

\* Every scope that was ever opened, active or retired.
AllScopes ==
  {scopes[i] : i \in 1 .. Len(scopes)} \cup {retired[i] : i \in 1 .. Len(retired)}

Owned == UNION {{<<s.table[n].id, n>> : n \in DOMAIN s.table} : s \in AllScopes}

(* A symbol handed out by lookup stays owned by the table until the table   *)
(* is destroyed: no step of any client drops one, leaving a scope included. *)
(* The resolution map and the printer hold such pointers after the walk.    *)
SymbolsOutlive == [][Owned \subseteq Owned']_tableVars
=============================================================================
