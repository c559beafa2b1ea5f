------------------------ MODULE CleanupControlProofs ------------------------
(***************************************************************************)
(* The cleanup control keeps its promise for any number of processes and   *)
(* epochs.  The inductive invariant adds to the types that the files of    *)
(* runs/ are those of the processes that may delete, that a confirmed      *)
(* disable stands over an empty runs/, and that whoever is about to remove *)
(* the marker has found runs/ empty and its epoch matching.                *)
(***************************************************************************)
EXTENDS CleanupControl, TLAPS

\* Every run that may delete is on record for as long as it may delete.
RunsOnRecord == runs = Cleaning

\* A confirmed disable stands.
ConfirmedStands == closed # Absent => marker = closed /\ runs = {} /\ ~dead

\* The checks of a drain and of an enable still hold when their consequence is written.
ChecksStand ==
  \A p \in Procs :
    /\ at[p] = "draining" => marker \in Epochs
    /\ at[p] = "reopening" => marker \in Epochs /\ runs = {} /\ ~dead /\ quoted[p] = marker

Inv == TypeOK /\ RunsOnRecord /\ ConfirmedStands /\ ChecksStand

-----------------------------------------------------------------------------
LEMMA InitInv == Init => Inv
<1> SUFFICES ASSUME Init PROVE Inv
  OBVIOUS
<1> USE OwnersAssumption, BoundAssumption DEF Init, Holding, Epochs, Absent, Torn, Free
<1>1. TypeOK
  <2>1. at \in [Procs -> Holding \cup {"idle", "running"}]
    BY DEF Init
  <2>2. \A p \in Procs : at[p] \notin Holding
    BY DEF Init
  <2>3. issued \in 0 .. MaxEpoch
    BY DEF Init
  <2> QED
    BY <2>1, <2>2, <2>3 DEF TypeOK
<1>2. Cleaning = {}
  BY DEF Cleaning
<1>3. RunsOnRecord
  BY <1>2 DEF RunsOnRecord
<1>4. ConfirmedStands /\ ChecksStand
  BY DEF ConfirmedStands, ChecksStand
<1> QED
  BY <1>1, <1>3, <1>4 DEF Inv

\* Type correctness is preserved by every step.
LEMMA TypeStep == Inv /\ [Next]_vars => TypeOK'
<1> SUFFICES ASSUME Inv, [Next]_vars PROVE TypeOK'
  OBVIOUS
<1> USE OwnersAssumption, BoundAssumption
    DEF Inv, TypeOK, ChecksStand, Holding, Epochs, Absent, Torn, Free, Goes, AcquireTransition
<1>1. ASSUME NEW p \in Procs, Disable(p) PROVE TypeOK'
  BY <1>1 DEF Disable
<1>2. ASSUME NEW p \in Procs, WriteMarker(p) PROVE TypeOK'
  BY <1>2 DEF WriteMarker
<1>3. ASSUME NEW p \in Procs, Drain(p) PROVE TypeOK'
  BY <1>3 DEF Drain
<1>4. ASSUME NEW p \in Procs, DrainTimeout(p) PROVE TypeOK'
  BY <1>4 DEF DrainTimeout
<1>5. ASSUME NEW p \in Procs, NEW epoch \in Epochs \cup {Absent}, Enable(p, epoch)
      PROVE TypeOK'
  BY <1>5 DEF Enable
<1>6. ASSUME NEW p \in Procs, CheckEnable(p) PROVE TypeOK'
  BY <1>6 DEF CheckEnable
<1>7. ASSUME NEW p \in Procs, RemoveMarker(p) PROVE TypeOK'
  BY <1>7 DEF RemoveMarker
<1>8. ASSUME NEW p \in Procs, BeginRun(p) PROVE TypeOK'
  BY <1>8 DEF BeginRun
<1>9. ASSUME NEW p \in Procs, RecordRun(p) PROVE TypeOK'
  BY <1>9 DEF RecordRun
<1>10. ASSUME NEW p \in Procs, EndRun(p) PROVE TypeOK'
  BY <1>10 DEF EndRun
<1>11. ASSUME NEW p \in Procs, Release(p) PROVE TypeOK'
  BY <1>11 DEF Release
<1>12. ASSUME NEW p \in Procs, Crash(p) PROVE TypeOK'
  BY <1>12 DEF Crash
<1>13. ASSUME Reconcile PROVE TypeOK'
  BY <1>13 DEF Reconcile
<1>14. CASE UNCHANGED vars
  BY <1>14 DEF vars
<1> QED
  BY <1>1, <1>2, <1>3, <1>4, <1>5, <1>6, <1>7, <1>8, <1>9, <1>10, <1>11, <1>12, <1>13, <1>14
     DEF Next

\* The three facts about recorded runs, confirmed disables and pending checks are preserved:
\* whoever writes one of their files holds the lock, so nobody else is between a check and
\* its consequence.
LEMMA FactsStep ==
  Inv /\ TypeOK' /\ [Next]_vars => RunsOnRecord' /\ ConfirmedStands' /\ ChecksStand'
<1> DEFINE Facts == RunsOnRecord /\ ConfirmedStands /\ ChecksStand
<1> SUFFICES ASSUME Inv, TypeOK', [Next]_vars PROVE Facts'
  OBVIOUS
<1> USE OwnersAssumption, BoundAssumption
    DEF Inv, TypeOK, RunsOnRecord, Cleaning, ConfirmedStands, ChecksStand, Holding, Epochs,
        Absent, Torn, Free, Goes, AcquireTransition
<1>1. ASSUME NEW p \in Procs, Disable(p) PROVE Facts'
  BY <1>1 DEF Disable
<1>2. ASSUME NEW p \in Procs, WriteMarker(p) PROVE Facts'
  BY <1>2 DEF WriteMarker
<1>3. ASSUME NEW p \in Procs, Drain(p) PROVE Facts'
  BY <1>3 DEF Drain, Drained
<1>4. ASSUME NEW p \in Procs, DrainTimeout(p) PROVE Facts'
  BY <1>4 DEF DrainTimeout
<1>5. ASSUME NEW p \in Procs, NEW epoch \in Epochs \cup {Absent}, Enable(p, epoch)
      PROVE Facts'
  BY <1>5 DEF Enable
<1>6. ASSUME NEW p \in Procs, CheckEnable(p) PROVE Facts'
  BY <1>6 DEF CheckEnable, MayReopen
<1>7. ASSUME NEW p \in Procs, RemoveMarker(p) PROVE Facts'
  BY <1>7 DEF RemoveMarker
<1>8. ASSUME NEW p \in Procs, BeginRun(p) PROVE Facts'
  BY <1>8 DEF BeginRun
<1>9. ASSUME NEW p \in Procs, RecordRun(p) PROVE Facts'
  BY <1>9 DEF RecordRun
<1>10. ASSUME NEW p \in Procs, EndRun(p) PROVE Facts'
  BY <1>10 DEF EndRun
<1>11. ASSUME NEW p \in Procs, Release(p) PROVE Facts'
  BY <1>11 DEF Release
<1>12. ASSUME NEW p \in Procs, Crash(p) PROVE Facts'
  BY <1>12 DEF Crash
<1>13. ASSUME Reconcile PROVE Facts'
  BY <1>13 DEF Reconcile
<1>14. CASE UNCHANGED vars
  BY <1>14 DEF vars
<1> QED
  BY <1>1, <1>2, <1>3, <1>4, <1>5, <1>6, <1>7, <1>8, <1>9, <1>10, <1>11, <1>12, <1>13, <1>14
     DEF Next

\* The invariant holds in every reachable state.
THEOREM Invariance == Spec => []Inv
<1>1. Inv /\ [Next]_vars => Inv'
  BY TypeStep, FactsStep DEF Inv
<1> QED
  BY InitInv, <1>1, PTL DEF Spec

\* Type correctness, and mutual exclusion of everything done under transition.lock.
THEOREM TypeCorrect == Spec => []TypeOK
  BY Invariance, PTL DEF Inv

\* After a disable has answered ok no process is inside a cleanup run, until an enable for
\* exactly that epoch.
THEOREM DisableHolds == Spec => []ClosedMeansQuiet
<1>1. Inv => ClosedMeansQuiet
  BY DEF Inv, ConfirmedStands, RunsOnRecord, ClosedMeansQuiet
<1> QED
  BY Invariance, <1>1, PTL

\* disabled.json is removed only by an enable that quotes its epoch, over an empty runs/.
THEOREM ReopensOwnEpoch == Spec => OnlyItsEpochReopens
<1> DEFINE Step == marker # Absent /\ marker' = Absent =>
                     \E p \in Procs : at[p] = "reopening" /\ quoted[p] = marker /\ runs = {}
<1>1. Inv /\ [Next]_vars => Step
  <2> SUFFICES ASSUME Inv, [Next]_vars, marker # Absent, marker' = Absent
               PROVE \E p \in Procs : at[p] = "reopening" /\ quoted[p] = marker /\ runs = {}
    OBVIOUS
  <2>1. ASSUME NEW p \in Procs, RemoveMarker(p)
        PROVE at[p] = "reopening" /\ quoted[p] = marker /\ runs = {}
    BY <2>1 DEF Inv, ChecksStand, RemoveMarker
  <2>2. ASSUME NEW p \in Procs, WriteMarker(p) PROVE FALSE
    BY <2>2 DEF WriteMarker
  <2>3. ASSUME NEW p \in Procs, Crash(p) PROVE FALSE
    BY <2>3 DEF Crash
  <2>4. ASSUME marker' = marker PROVE FALSE
    BY <2>4
  <2> QED
    BY <2>1, <2>2, <2>3, <2>4
       DEF Next, vars, Disable, Drain, DrainTimeout, Enable, CheckEnable, BeginRun, RecordRun,
           EndRun, Release, Reconcile
<1>2. Spec => [][Step]_vars
  BY Invariance, <1>1, PTL DEF Spec
<1> QED
  BY <1>2 DEF OnlyItsEpochReopens

-----------------------------------------------------------------------------
\* Every step of the control is a step of the gate, or leaves the gate as it is.
LEMMA GateStep == Inv /\ Inv' /\ [Next]_vars => [Gate!GateNext]_(Gate!gateVars)
<1> SUFFICES ASSUME Inv, Inv', [Next]_vars PROVE Gate!GateNext \/ UNCHANGED Gate!gateVars
  OBVIOUS
<1> USE DEF Gate!gateVars, Cleaning, Goes
<1>1. ASSUME NEW p \in Procs, WriteMarker(p) PROVE Gate!Shut \/ UNCHANGED Gate!gateVars
  BY <1>1 DEF WriteMarker, Gate!Shut, Inv, TypeOK, Absent, Torn
<1>2. ASSUME NEW p \in Procs, Drain(p) PROVE Gate!Confirm
  BY <1>2 DEF Drain, Drained, Gate!Confirm, Gate!Quiet, Inv, TypeOK, ChecksStand, RunsOnRecord,
              Epochs, Absent
<1>3. ASSUME NEW p \in Procs, RemoveMarker(p) PROVE Gate!Reopen
  BY <1>3 DEF RemoveMarker, Gate!Reopen, Gate!Quiet, Inv, TypeOK, ChecksStand, RunsOnRecord,
              Epochs, Absent
<1>4. ASSUME NEW p \in Procs, RecordRun(p) PROVE Gate!Admit(p) \/ UNCHANGED Gate!gateVars
  BY <1>4 DEF RecordRun, Gate!Admit, Inv, TypeOK
<1>5. ASSUME NEW p \in Procs, EndRun(p) PROVE Gate!Finish(p)
  BY <1>5 DEF EndRun, Gate!Finish, Inv, TypeOK
<1>6. ASSUME NEW p \in Procs, Crash(p)
      PROVE Gate!Abandon(p) \/ Gate!Shut \/ UNCHANGED Gate!gateVars
  <2>1. CASE p \in runs
    BY <1>6, <2>1 DEF Crash, Gate!Abandon, Inv, TypeOK, RunsOnRecord
  <2>2. CASE p \notin runs
    BY <1>6, <2>2 DEF Crash, Gate!Shut, Inv, TypeOK, RunsOnRecord, Absent, Torn
  <2> QED
    BY <2>1, <2>2
<1>7. ASSUME Reconcile PROVE Gate!Account \/ UNCHANGED Gate!gateVars
  BY <1>7 DEF Reconcile, Gate!Account
<1>8. ASSUME NEW p \in Procs,
             \/ Disable(p) \/ DrainTimeout(p) \/ CheckEnable(p) \/ BeginRun(p) \/ Release(p)
             \/ \E epoch \in Epochs \cup {Absent} : Enable(p, epoch)
      PROVE UNCHANGED Gate!gateVars
  BY <1>8 DEF Disable, DrainTimeout, CheckEnable, BeginRun, Release, Enable, Inv, TypeOK
<1>9. CASE UNCHANGED vars
  BY <1>9 DEF vars
<1> QED
  BY <1>1, <1>2, <1>3, <1>4, <1>5, <1>6, <1>7, <1>8, <1>9 DEF Next, Gate!GateNext

\* The control implements the gate.
THEOREM ImplementsGate == Spec => GateSpec
<1>1. Init => Gate!GateInit
  BY DEF Init, Gate!GateInit, Cleaning, Absent
<1> QED
  BY <1>1, GateStep, Invariance, PTL DEF Spec, GateSpec, Gate!GateSpec

=============================================================================
