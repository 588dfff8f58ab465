-------------------------- MODULE MCQueryWorkspace --------------------------
(* Small instances of QueryWorkspace: a query whose result can be filtered,  *)
(* a statement that returns none, and both in one tab.                       *)
EXTENDS QueryWorkspace, TLC

CONSTANTS select, update

MCStatement == {select, update}
MCWrappable == {select}
MCScript == {<<update, select>>}
=============================================================================
