------------------------------- MODULE MCParser -------------------------------
(* Parser on short inputs: every kind of token up to some position, then a  *)
(* few kinds that end, continue or restart an item.                         *)
EXTENDS Parser

CONSTANTS Free,    \* bound: positions that may hold any kind
          Narrow   \* bound: further positions

AnyKind == Kind \ {"eof"}

FewKinds == {"id", ";", "}", "{", "wire"}

Inputs == [i \in 1..(Free + Narrow) |-> IF i <= Free THEN AnyKind ELSE FewKinds]
=============================================================================
