----------------------------- MODULE CleanupGate -----------------------------
(***************************************************************************)
(* What the orphan cleanup control promises: destructive cleanup runs are  *)
(* admitted only while the gate is open, and a disable that is confirmed   *)
(* means that no run is in progress, nor will be until the gate is opened  *)
(* again.                                                                  *)
(***************************************************************************)
CONSTANT Procs \* processes that share one cleanup domain

VARIABLES
  open,      \* the gate admits runs
  active,    \* processes inside an admitted run
  abandoned, \* a run was never finished and nobody has accounted for it
  confirmed  \* a disable has been confirmed and the gate not opened since

gateVars == <<open, active, abandoned, confirmed>>

GateInit ==
  /\ open \in BOOLEAN
  /\ active = {}
  /\ abandoned = FALSE
  /\ confirmed = FALSE

Admit(p) ==
  /\ open
  /\ p \notin active
  /\ active' = active \cup {p}
  /\ UNCHANGED <<open, abandoned, confirmed>>

Finish(p) ==
  /\ p \in active
  /\ active' = active \ {p}
  /\ UNCHANGED <<open, abandoned, confirmed>>

\* The process dies inside a run, or cannot take its run back.
Abandon(p) ==
  /\ p \in active
  /\ active' = active \ {p}
  /\ abandoned' = TRUE
  /\ UNCHANGED <<open, confirmed>>

\* The owner has looked after what was abandoned.
Account ==
  /\ abandoned
  /\ abandoned' = FALSE
  /\ UNCHANGED <<open, active, confirmed>>

Quiet == active = {} /\ ~abandoned

Shut ==
  /\ open
  /\ open' = FALSE
  /\ UNCHANGED <<active, abandoned, confirmed>>

Confirm ==
  /\ ~open
  /\ Quiet
  /\ confirmed' = TRUE
  /\ UNCHANGED <<open, active, abandoned>>

Reopen ==
  /\ ~open
  /\ Quiet
  /\ open' = TRUE
  /\ confirmed' = FALSE
  /\ UNCHANGED <<active, abandoned>>

GateNext ==
  \/ \E p \in Procs : Admit(p) \/ Finish(p) \/ Abandon(p)
  \/ Account \/ Shut \/ Confirm \/ Reopen

GateSpec == GateInit /\ [][GateNext]_gateVars

=============================================================================
