--------------------------- MODULE CleanupControl ---------------------------
(***************************************************************************)
(* The orphan cleanup control of one database: three kinds of files in a   *)
(* shared directory, through which the server, a maintenance script and a  *)
(* deployment tool disable, drain and enable destructive cleanup.  Each    *)
(* operation runs under transition.lock, taken with O_EXCL and never       *)
(* broken, and is a sequence of file operations between which a process    *)
(* may die.                                                                *)
(*                                                                         *)
(* Under the lock nobody else writes disabled.json, so the checks that it  *)
(* still holds the epoch this operation found or wrote always succeed.     *)
(***************************************************************************)
EXTENDS Integers

CONSTANTS
  Procs,    \* processes that share the directory
  MaxEpoch, \* bound: epochs issued
  Stale     \* the owner of a transition.lock whose process has died

Free == "free"

ASSUME OwnersAssumption == Stale \notin Procs /\ Free \notin Procs /\ Stale # Free
ASSUME BoundAssumption == MaxEpoch \in Nat

VARIABLES
  lock,     \* transition.lock: its owner, or Free
  marker,   \* disabled.json: its epoch, Absent, or Torn
  issued,   \* epochs issued so far
  runs,     \* processes whose run has a file in runs/
  dead,     \* runs/ holds a file nobody will remove
  at,       \* per process: where it is
  quoted,   \* per process: the epoch its enable quotes
  closed    \* history: the epoch of the last disable that answered ok, while it stands

vars == <<lock, marker, issued, runs, dead, at, quoted, closed>>

Absent == 0
Torn == -1
Epochs == 1 .. MaxEpoch
Holding == {"disabling", "draining", "enabling", "reopening", "beginning", "admitted", "leaving"}

TypeOK ==
  /\ lock \in Procs \cup {Free, Stale}
  /\ marker \in Epochs \cup {Absent, Torn}
  /\ issued \in 0 .. MaxEpoch
  /\ runs \subseteq Procs
  /\ dead \in BOOLEAN
  /\ at \in [Procs -> Holding \cup {"idle", "running"}]
  /\ quoted \in [Procs -> Epochs \cup {Absent}]
  /\ closed \in Epochs \cup {Absent}
  /\ \A p \in Procs : at[p] \in Holding => lock = p

Init ==
  /\ lock = Free
  /\ marker = Absent
  /\ issued = 0
  /\ runs = {}
  /\ dead = FALSE
  /\ at = [p \in Procs |-> "idle"]
  /\ quoted = [p \in Procs |-> Absent]
  /\ closed = Absent

-----------------------------------------------------------------------------
Goes(p, place) == at' = [at EXCEPT ![p] = place]

\* acquireTransition; when the lock exists the operation answers TRANSITION_BUSY.
AcquireTransition(p) == lock = Free /\ lock' = p

Disable(p) ==
  /\ at[p] = "idle"
  /\ AcquireTransition(p)
  /\ Goes(p, "disabling")
  /\ UNCHANGED <<marker, issued, runs, dead, quoted, closed>>

Enable(p, epoch) ==
  /\ at[p] = "idle"
  /\ AcquireTransition(p)
  /\ Goes(p, "enabling")
  /\ quoted' = [quoted EXCEPT ![p] = epoch]
  /\ UNCHANGED <<marker, issued, runs, dead, closed>>

BeginRun(p) ==
  /\ at[p] = "idle"
  /\ AcquireTransition(p)
  /\ Goes(p, "beginning")
  /\ UNCHANGED <<marker, issued, runs, dead, quoted, closed>>

\* A marker that is there keeps its epoch; an unreadable one is an error.
WriteMarker(p) ==
  /\ at[p] = "disabling"
  /\ \/ /\ marker = Absent
        /\ issued < MaxEpoch
        /\ issued' = issued + 1
        /\ marker' = issued + 1
        /\ Goes(p, "draining")
     \/ /\ marker # Absent
        /\ Goes(p, IF marker = Torn THEN "leaving" ELSE "draining")
        /\ UNCHANGED <<issued, marker>>
  /\ UNCHANGED <<lock, runs, dead, quoted, closed>>

\* Mutant: only this process's own runs are waited for.
DrainedOwn(p) == p \notin runs

Drained(p) == runs = {} /\ ~dead

Drain(p) ==
  /\ at[p] = "draining"
  /\ Drained(p)
  /\ closed' = marker
  /\ Goes(p, "leaving")
  /\ UNCHANGED <<lock, marker, issued, runs, dead, quoted>>

\* The deadline passes: DRAIN_TIMEOUT, and the marker stays.
DrainTimeout(p) ==
  /\ at[p] = "draining"
  /\ ~Drained(p)
  /\ Goes(p, "leaving")
  /\ UNCHANGED <<lock, marker, issued, runs, dead, quoted, closed>>

\* Mutant: any epoch opens the gate.
MayReopenAnyEpoch(p) == marker \in Epochs /\ runs = {} /\ ~dead

MayReopen(p) == marker \in Epochs /\ runs = {} /\ ~dead /\ quoted[p] = marker

CheckEnable(p) ==
  /\ at[p] = "enabling"
  /\ Goes(p, IF MayReopen(p) THEN "reopening" ELSE "leaving")
  /\ UNCHANGED <<lock, marker, issued, runs, dead, quoted, closed>>

RemoveMarker(p) ==
  /\ at[p] = "reopening"
  /\ marker' = Absent
  /\ closed' = Absent
  /\ Goes(p, "leaving")
  /\ UNCHANGED <<lock, issued, runs, dead, quoted>>

RecordRun(p) ==
  /\ at[p] = "beginning"
  /\ IF marker = Absent
     THEN runs' = runs \cup {p} /\ Goes(p, "admitted")
     ELSE Goes(p, "leaving") /\ UNCHANGED runs
  /\ UNCHANGED <<lock, marker, issued, dead, quoted, closed>>

\* releaseTransition removes the lock only if it still holds this operation's token.
Release(p) ==
  /\ at[p] \in {"leaving", "admitted"}
  /\ lock' = IF lock = p THEN Free ELSE lock
  /\ Goes(p, IF at[p] = "admitted" THEN "running" ELSE "idle")
  /\ UNCHANGED <<marker, issued, runs, dead, quoted, closed>>

\* Mutant: the run's file is removed while the run is still deleting.
EndRunEarly(p) ==
  /\ at[p] = "running"
  /\ runs' = runs \ {p}
  /\ UNCHANGED <<lock, marker, issued, dead, quoted, closed, at>>

\* endRun does not take the lock.
EndRun(p) ==
  /\ at[p] = "running"
  /\ runs' = runs \ {p}
  /\ Goes(p, "idle")
  /\ UNCHANGED <<lock, marker, issued, dead, quoted, closed>>

\* The process dies, or the file of its run cannot be removed.  A lock or a run file it
\* holds stays behind; a marker it was writing may be left unreadable.
Crash(p) ==
  /\ at[p] # "idle"
  /\ lock' = IF lock = p THEN Stale ELSE lock
  /\ runs' = runs \ {p}
  /\ dead' = (dead \/ p \in runs)
  /\ \/ UNCHANGED marker
     \/ at[p] = "disabling" /\ marker = Absent /\ marker' = Torn
  /\ Goes(p, "idle")
  /\ UNCHANGED <<issued, quoted, closed>>

\* The operator removes what dead processes left behind; the code never does.
Reconcile ==
  /\ \/ lock = Stale /\ lock' = Free /\ UNCHANGED dead
     \/ dead /\ dead' = FALSE /\ UNCHANGED lock
  /\ UNCHANGED <<marker, issued, runs, at, quoted, closed>>

Next ==
  \/ \E p \in Procs :
       \/ Disable(p) \/ WriteMarker(p) \/ Drain(p) \/ DrainTimeout(p)
       \/ (\E epoch \in Epochs \cup {Absent} : Enable(p, epoch))
       \/ CheckEnable(p) \/ RemoveMarker(p)
       \/ BeginRun(p) \/ RecordRun(p) \/ EndRun(p) \/ Release(p) \/ Crash(p)
  \/ Reconcile

Spec == Init /\ [][Next]_vars

-----------------------------------------------------------------------------
\* The processes that may delete.
Cleaning == {p \in Procs : at[p] \in {"admitted", "running"}}

\* A disable that answered ok holds, across crashes and operator repairs, until it is lifted:
\* its marker stands and no process is inside a run it was admitted to.
ClosedMeansQuiet ==
  closed # Absent =>
    /\ marker = closed
    /\ Cleaning = {}

\* The gate is opened only for the epoch it is closed under: an enable meant for an earlier
\* disable never lifts a later one, and one that is under way stops no run that is active.
OnlyItsEpochReopens ==
  [][marker # Absent /\ marker' = Absent =>
       \E p \in Procs : at[p] = "reopening" /\ quoted[p] = marker /\ runs = {}]_vars

\* The control keeps the promise of the gate.
Gate == INSTANCE CleanupGate WITH
  open <- marker = Absent, active <- Cleaning, abandoned <- dead, confirmed <- closed # Absent

GateSpec == Gate!GateSpec

=============================================================================
