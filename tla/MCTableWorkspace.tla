-------------------------- MODULE MCTableWorkspace --------------------------
(* Small instances of TableWorkspace: interchangeable tabs, views and rows. *)
EXTENDS TableWorkspace, TLC

WorkspaceSymmetry == Permutations(Tab) \cup Permutations(View) \cup Permutations(Row)
=============================================================================
