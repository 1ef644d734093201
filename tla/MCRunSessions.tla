----------------------------- MODULE MCRunSessions -----------------------------
(* RunSessions on small sets of runs and tabs.                             *)
EXTENDS RunSessions, TLC

\* Runs and tabs are interchangeable in every safety property.
Symmetry == Permutations(Run) \cup Permutations(Page)
=============================================================================
