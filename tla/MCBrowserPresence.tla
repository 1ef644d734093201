--------------------------- MODULE MCBrowserPresence ---------------------------
(* BrowserPresence with the launcher's timing scaled down: the order of     *)
(* the sums of the real values (heartbeat 15 s, idle 90 s, grace 5 s,       *)
(* startup 60 s, loading and delays below 1 s) is kept.                     *)
EXTENDS BrowserPresence, TLC

Symmetry == Permutations(Page)
=============================================================================
