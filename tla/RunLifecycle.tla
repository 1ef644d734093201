----------------------------- MODULE RunLifecycle -----------------------------
(***************************************************************************)
(* What a client of the local web interface may rely on: a run goes from   *)
(* active to completed or failed once, its progress count never goes back, *)
(* only a new run can make an old one unavailable, and nothing happens to  *)
(* a run that is no longer available.                                      *)
(***************************************************************************)
EXTENDS Naturals, FiniteSets

CONSTANTS Run, Capacity, Total

VARIABLES phase,      \* "none", "active", "completed" or "failed"
          progress,   \* planned steps done
          available   \* the runs a client can still ask for

vars == <<phase, progress, available>>

Init ==
  /\ phase = [r \in Run |-> "none"]
  /\ progress = [r \in Run |-> 0]
  /\ available = {}

\* A new run; when the store is full one other run is given up for it.
Submit(r) ==
  /\ phase[r] = "none"
  /\ phase' = [phase EXCEPT ![r] = "active"]
  /\ UNCHANGED progress
  /\ \/ Cardinality(available) < Capacity /\ available' = available \cup {r}
     \/ \E o \in available : /\ Cardinality(available) = Capacity
                             /\ available' = (available \ {o}) \cup {r}

Live(r) == r \in available /\ phase[r] = "active"

Advance(r, c) ==
  /\ Live(r) /\ c >= progress[r]
  /\ progress' = [progress EXCEPT ![r] = c]
  /\ UNCHANGED <<phase, available>>

Succeed(r) ==
  /\ Live(r)
  /\ phase' = [phase EXCEPT ![r] = "completed"]
  /\ progress' = [progress EXCEPT ![r] = Total]
  /\ UNCHANGED available

GiveUp(r) ==
  /\ Live(r)
  /\ phase' = [phase EXCEPT ![r] = "failed"]
  /\ UNCHANGED <<progress, available>>

Next == \E r \in Run : \/ Submit(r) \/ Succeed(r) \/ GiveUp(r)
                       \/ \E c \in 0..Total : Advance(r, c)

Spec == Init /\ [][Next]_vars
=============================================================================
