---------------------------- MODULE UploadsProofs ----------------------------
(***************************************************************************)
(* Machine-checked proofs about Uploads, for any number of processes,      *)
(* uploads, operations and contents: no upload is lost, what a request     *)
(* claimed is in its place, a claim is for good, and while a disable is    *)
(* confirmed nothing is deleted.                                           *)
(***************************************************************************)
EXTENDS Uploads, TLAPS

\* The calls in progress, with what their progress says of their own fields.
CallRecords ==
  [at : Places, then : {"idle", "save"}, op : Ops \cup {NoOp}, id : Ids \cup {NoOp},
   row : Row \cup {NoRow}, ids : SUBSET Ids, recover : BOOLEAN, delete : BOOLEAN,
   todo : SUBSET (Tombstones \cup Contents), mine : SUBSET Tombstones,
   failed : SUBSET Contents, created : BOOLEAN]

WellFormed(c) ==
  /\ c.at \notin {"stage", "unlink"} => c.mine = {}
  /\ c.at \in {"recover", "restore", "sweep"} => c.todo \subseteq Tombstones
  /\ c.at \in {"submit", "restore"} => c.op \in Ops /\ ~c.delete
  /\ c.then = "save" => c.row \in Row /\ c.row.claimed = "no"
  /\ c.at \in {"save", "write", "insert"} => c.then = "save"

Inside == {"recover", "stage", "write", "insert", "restore", "sweep"}

Typed ==
  /\ rows \in [Ids -> Row \cup {NoRow}]
  /\ expired \subseteq Stored
  /\ submitted \subseteq Ops
  /\ files \subseteq Contents
  /\ staged \subseteq Tombstones
  /\ writer \in Procs \cup {Nobody}
  /\ proc \in [Procs -> CallRecords \cup {Idle}]
  /\ \A p \in Procs : proc[p] # Idle => WellFormed(proc[p])

Locked == \A p \in Procs : writer = p <=> proc[p].at \in Inside

Admitted(p, c) ==
  /\ c.at \in {"lock", "recover", "stage", "unlink"} => p \in active
  /\ c.at \in {"start", "sweep"} /\ c.delete => p \in active

Gated ==
  /\ active \subseteq Procs
  /\ confirmed => ~open /\ active = {}
  /\ \A p \in Procs : Admitted(p, proc[p])

\* Tombstones that a committed cleanup is about to delete.
Doomed == UNION {proc[q].mine : q \in {q \in Procs : At(q, "unlink")}}

SafeCopy(name) == \E s \in staged \ Doomed : s.name = name

Kept == \A id \in Stored : rows[id].name \in files \/ SafeCopy(rows[id].name)

Staging(c) ==
  /\ c.ids \subseteq Unclaimed
  /\ \A s \in c.mine : s.name \notin c.todo
  /\ \A name \in Contents :
       name \in c.todo \/ (\E s \in c.mine : s.name = name) =>
         /\ name \notin c.failed
         /\ \A id \in Stored : rows[id].name = name => id \in c.ids

Inserting(c) ==
  /\ c.row.name \in files
  /\ c.created => \A id \in Stored : rows[id].name = c.row.name =>
       rows[id].claimed # "request" /\ SafeCopy(c.row.name)

Restoring(c) ==
  \A id \in Stored :
    \/ rows[id].name \in files \cup c.failed
    \/ \E s \in c.todo : s.name = rows[id].name

Holds(c) ==
  /\ c.at = "stage" => Staging(c)
  /\ c.at = "insert" => Inserting(c)
  /\ c.at = "restore" => Restoring(c)

InProgress == \A p \in Procs : Holds(proc[p])

Inv == Typed /\ Locked /\ Gated /\ Kept /\ SubmittedInPlace /\ InProgress

-----------------------------------------------------------------------------

LEMMA Distinct == NoRow \notin Row /\ Idle \notin CallRecords
  BY DEF NoRow, Row, Idle, CallRecords, Places

LEMMA Named == \A c \in CallRecords : c.row \in Row => c.row.name \in Contents
  BY DEF Row

\* What one process may do to the gate.
GateMove(p) == UNCHANGED gateVars \/ Admit(p) \/ Finish(p) \/ Abandon(p)

\* What one process may do to the lock, when its call becomes c.
LockMove(p, c) ==
  \/ writer' = writer /\ (c.at \in Inside <=> proc[p].at \in Inside)
  \/ Begins(p) /\ c.at \in Inside
  \/ writer = p /\ Ends(p) /\ c.at \notin Inside

LEMMA GateMoves ==
  ASSUME Gated, NEW p \in Procs, GateMove(p)
  PROVE  /\ active' \subseteq Procs /\ (confirmed' => ~open' /\ active' = {})
         /\ \A q \in Procs \ {p} : q \in active => q \in active'
  BY DEF Gated, GateMove, gateVars, Admit, Finish, Abandon

LEMMA LockMoves ==
  ASSUME Locked, NEW p \in Procs, NEW c, LockMove(p, c), writer \in Procs \cup {Nobody}
  PROVE  /\ writer' \in Procs \cup {Nobody} /\ (writer' = p <=> c.at \in Inside)
         /\ \A q \in Procs \ {p} : writer' = q <=> writer = q
  BY NobodyAssumption DEF Locked, LockMove, Begins, Ends, Nobody

(***************************************************************************)
(* A step of one process, whose call becomes c.  It may change rows and    *)
(* files only while it holds the lock, so what the others rely on inside a *)
(* transaction stays; outside nobody relies on anything.                   *)
(***************************************************************************)
LEMMA StepKeeps ==
  ASSUME Inv, NEW p \in Procs, NEW c \in CallRecords \cup {Idle},
         proc' = [proc EXCEPT ![p] = c],
         c # Idle => WellFormed(c),
         rows' \in [Ids -> Row \cup {NoRow}], expired' \subseteq Stored', submitted' \subseteq Ops,
         files' \subseteq Contents, staged' \subseteq Tombstones,
         LockMove(p, c), GateMove(p), Admitted(p, c)',
         Kept', SubmittedInPlace', Holds(c)',
         \/ writer = p
         \/ /\ UNCHANGED <<rows, files>>
            /\ \A name \in Contents : SafeCopy(name) => SafeCopy(name)'
  PROVE  Inv'
<1>1. proc'[p] = c /\ \A q \in Procs \ {p} : proc'[q] = proc[q]
  BY DEF Inv, Typed
<1>w. /\ writer' \in Procs \cup {Nobody} /\ (writer' = p <=> c.at \in Inside)
      /\ \A q \in Procs \ {p} : writer' = q <=> writer = q
  BY LockMoves DEF Inv, Typed
<1>g. /\ active' \subseteq Procs /\ (confirmed' => ~open' /\ active' = {})
      /\ \A q \in Procs \ {p} : q \in active => q \in active'
  BY GateMoves DEF Inv
<1>2. Typed'
  <2>1. proc' \in [Procs -> CallRecords \cup {Idle}]
    BY DEF Inv, Typed
  <2> QED
    BY <1>1, <1>w, <2>1 DEF Inv, Typed
<1>3. Locked'
  BY <1>1, <1>w DEF Inv, Locked
<1>4. Gated'
  BY <1>1, <1>g DEF Inv, Gated, Admitted
<1>5. InProgress'
  <2> SUFFICES ASSUME NEW q \in Procs \ {p}
               PROVE  Holds(proc[q])'
    BY <1>1 DEF InProgress
  <2>1. Holds(proc[q]) /\ proc'[q] = proc[q]
    BY <1>1 DEF Inv, InProgress
  <2>2. CASE writer = p
    <3>1. proc[q].at \notin Inside
      BY <2>2 DEF Inv, Locked
    <3> QED
      BY <2>1, <3>1 DEF Holds, Inside
  <2>3. CASE UNCHANGED <<rows, files>> /\ \A name \in Contents : SafeCopy(name) => SafeCopy(name)'
    <3>1. Stored' = Stored /\ Unclaimed' = Unclaimed
      BY <2>3 DEF Stored, Unclaimed
    <3>2. proc[q].at = "stage" => Staging(proc[q])'
      BY <2>1, <2>3, <3>1 DEF Holds, Staging
    <3>3. proc[q].at = "insert" => Inserting(proc[q])'
      <4> SUFFICES ASSUME proc[q].at = "insert"
                   PROVE  Inserting(proc[q])'
        OBVIOUS
      <4>1. proc[q].row.name \in Contents
        BY DEF Inv, Typed, WellFormed, Idle, Row
      <4> QED
        BY <2>1, <2>3, <3>1, <4>1 DEF Holds, Inserting
    <3>4. proc[q].at = "restore" => Restoring(proc[q])'
      BY <2>1, <2>3, <3>1 DEF Holds, Restoring
    <3> QED
      BY <2>1, <3>2, <3>3, <3>4 DEF Holds
  <2> QED
    BY <2>2, <2>3
<1> QED
  BY <1>2, <1>3, <1>4, <1>5 DEF Inv

\* A safe copy stays one when no file leaves .cleanup that was not doomed, and p dooms no more.
LEMMA CopiesStay ==
  ASSUME Inv, NEW p \in Procs, NEW c \in CallRecords \cup {Idle},
         proc' = [proc EXCEPT ![p] = c],
         c.at = "unlink" => proc[p].at = "unlink" /\ c.mine \subseteq proc[p].mine,
         staged \ Doomed \subseteq staged'
  PROVE  Doomed' \subseteq Doomed /\ \A name \in Contents : SafeCopy(name) => SafeCopy(name)'
<1>1. proc'[p] = c /\ \A q \in Procs \ {p} : proc'[q] = proc[q]
  BY DEF Inv, Typed
<1>2. Doomed' \subseteq Doomed
  BY <1>1 DEF Doomed, At
<1> QED
  BY <1>2 DEF SafeCopy

LEMMA QuietStep ==
  ASSUME Inv, NEW p \in Procs, NEW c \in CallRecords \cup {Idle},
         proc' = [proc EXCEPT ![p] = c],
         c # Idle => WellFormed(c),
         UNCHANGED <<rows, expired, submitted, files>>,
         staged' \subseteq staged, staged \ Doomed \subseteq staged',
         LockMove(p, c), GateMove(p), Admitted(p, c)',
         c.at = "unlink" => proc[p].at = "unlink" /\ c.mine \subseteq proc[p].mine,
         c.at # "insert", c.at = "stage" => Staging(c), c.at = "restore" => Restoring(c)
  PROVE  Inv'
<1>1. Stored' = Stored /\ Unclaimed' = Unclaimed
  BY DEF Stored, Unclaimed
<1>2. \A name \in Contents : SafeCopy(name) => SafeCopy(name)'
  BY CopiesStay
<1>3. Kept' /\ SubmittedInPlace'
  <2>1. \A id \in Stored : rows[id].name \in Contents
    BY DEF Inv, Typed, Stored, Row, NoRow
  <2> QED
    BY <1>1, <1>2, <2>1 DEF Inv, Kept, SubmittedInPlace
<1>4. Holds(c)'
  BY <1>1 DEF Holds, Staging, Restoring
<1> HIDE DEF Inv, WellFormed, LockMove, GateMove, Admitted, Kept, SubmittedInPlace, Holds, SafeCopy
<1>5. /\ rows' \in [Ids -> Row \cup {NoRow}] /\ expired' \subseteq Stored' /\ submitted' \subseteq Ops
      /\ files' \subseteq Contents /\ staged' \subseteq Tombstones
  BY <1>1 DEF Inv, Typed
<1> QED
  BY <1>2, <1>3, <1>4, <1>5, StepKeeps

-----------------------------------------------------------------------------
(* The calls, and the steps that move no file. *)

LEMMA FreshCall ==
  ASSUME NEW place \in {"enter", "submit", "start"}
  PROVE  /\ Call(place) \in CallRecords
         /\ Call(place).mine = {} /\ Call(place).then = "idle" /\ Call(place).at = place
         /\ Call(place).failed = {} /\ ~Call(place).delete
  BY DEF Call, CallRecords, Places, NoRow

\* A call that has just begun, outside the lock and the gate.
LEMMA CallBegins ==
  ASSUME Inv, NEW p \in Procs, NEW c \in CallRecords,
         proc' = [proc EXCEPT ![p] = c],
         c.at \in {"enter", "submit", "start"}, WellFormed(c), ~c.delete,
         UNCHANGED <<rows, expired, submitted, files, staged>>, LockMove(p, c),
         UNCHANGED gateVars
  PROVE  Inv'
<1>1. Admitted(p, c)'
  BY DEF Admitted
<1>2. GateMove(p)
  BY DEF GateMove
<1> HIDE DEF Inv, WellFormed, LockMove, GateMove, Admitted
<1> QED
  BY <1>1, <1>2, QuietStep

LEMMA CallRests ==
  ASSUME Inv, NEW p \in Procs, Rests(p),
         UNCHANGED <<rows, expired, submitted, files, staged>>, LockMove(p, Idle), GateMove(p)
  PROVE  Inv'
<1>1. Admitted(p, Idle)' /\ Idle.at = "idle"
  BY DEF Admitted, Idle
<1> HIDE DEF Inv, WellFormed, LockMove, GateMove, Admitted, Idle
<1> QED
  BY <1>1, QuietStep DEF Rests

LEMMA CallsStep ==
  ASSUME Inv, NEW p \in Procs,
         \/ CleanupCalled(p) \/ StoreOpens(p)
         \/ \E id \in Ids, op \in Ops, name \in Contents : SaveCalled(p, id, op, name)
         \/ \E op \in Ops, ids \in SUBSET Ids, valid \in BOOLEAN : SubmitCalled(p, op, ids, valid)
  PROVE  Inv'
<1>1. \A c : c.at \notin Inside /\ proc[p] = Idle /\ writer' = writer => LockMove(p, c)
  BY DEF LockMove, Idle, Inside
<1>2. CASE CleanupCalled(p)
  <2>1. PICK c : c = [Call("enter") EXCEPT !.recover = TRUE]
    OBVIOUS
  <2>2. c \in CallRecords /\ c.at = "enter" /\ c.mine = {} /\ c.then = "idle" /\ ~c.delete
    <3>1. Call("enter") \in CallRecords
      BY FreshCall
    <3> QED
      BY <2>1, <3>1, FreshCall DEF CallRecords
  <2>3. WellFormed(c)
    BY <2>2 DEF WellFormed
  <2> HIDE DEF Inv, WellFormed, LockMove
  <2> QED
    BY <1>1, <1>2, <2>1, <2>2, <2>3, CallBegins DEF CleanupCalled, storeVars, Inside
<1>3. CASE StoreOpens(p)
  <2>1. PICK c : c = Call("start")
    OBVIOUS
  <2>2. c \in CallRecords /\ c.at = "start" /\ c.mine = {} /\ c.then = "idle" /\ ~c.delete
    BY <2>1, FreshCall
  <2>3. WellFormed(c)
    BY <2>2 DEF WellFormed
  <2> HIDE DEF Inv, WellFormed, LockMove
  <2> QED
    BY <1>1, <1>3, <2>1, <2>2, <2>3, CallBegins DEF StoreOpens, storeVars, Inside
<1>4. ASSUME NEW id \in Ids, NEW op \in Ops, NEW name \in Contents, SaveCalled(p, id, op, name)
      PROVE  Inv'
  <2>1. PICK row : row = [op |-> op, name |-> name, claimed |-> "no"]
    OBVIOUS
  <2>2. row \in Row /\ row.claimed = "no"
    BY <2>1 DEF Row, Claims
  <2>3. PICK c : c = [Call("enter") EXCEPT !.then = "save", !.id = id, !.row = row]
    OBVIOUS
  <2>4. /\ c \in CallRecords /\ c.at = "enter" /\ c.mine = {} /\ c.then = "save" /\ c.row = row
        /\ ~c.delete
    <3>1. Call("enter") \in CallRecords
      BY FreshCall
    <3> QED
      BY <2>2, <2>3, <3>1, FreshCall DEF CallRecords
  <2>5. WellFormed(c)
    BY <2>2, <2>4 DEF WellFormed
  <2> HIDE DEF Inv, WellFormed, LockMove
  <2> QED
    BY <1>1, <1>4, <2>1, <2>3, <2>4, <2>5, CallBegins DEF SaveCalled, storeVars, Inside
<1>5. ASSUME NEW op \in Ops, NEW ids \in SUBSET Ids, NEW valid \in BOOLEAN,
             SubmitCalled(p, op, ids, valid)
      PROVE  Inv'
  <2>1. PICK place \in {"enter", "submit"} : place = IF valid THEN "submit" ELSE "enter"
    OBVIOUS
  <2>2. PICK recover \in BOOLEAN : recover = (~valid)
    OBVIOUS
  <2>3. PICK c : c = [Call(place) EXCEPT !.op = op, !.ids = ids, !.recover = recover]
    OBVIOUS
  <2>4. /\ c \in CallRecords /\ c.at = place /\ c.mine = {} /\ c.then = "idle" /\ c.op = op
        /\ ~c.delete
    <3>1. Call(place) \in CallRecords
      BY FreshCall
    <3> QED
      <4>1. recover \in BOOLEAN /\ op \in Ops \cup {NoOp} /\ ids \in SUBSET Ids
        BY <2>2
      <4>2. c \in CallRecords
        BY <2>3, <3>1, <4>1 DEF CallRecords
      <4>3. c.at = Call(place).at /\ c.mine = Call(place).mine /\ c.then = Call(place).then
            /\ c.op = op /\ c.delete = Call(place).delete
        BY <2>3, <3>1 DEF CallRecords
      <4> QED
        BY <4>2, <4>3, FreshCall
  <2>5. WellFormed(c)
    BY <2>4 DEF WellFormed
  <2>6. proc' = [proc EXCEPT ![p] = c]
    BY <1>5, <2>1, <2>2, <2>3 DEF SubmitCalled
  <2> HIDE DEF Inv, WellFormed, LockMove
  <2> QED
    BY <1>1, <1>5, <2>1, <2>4, <2>5, <2>6, CallBegins DEF SubmitCalled, storeVars, Inside
<1> QED
  BY <1>2, <1>3, <1>4, <1>5

\* A call as it stands satisfies its part of the invariant.
LEMMA CallInPlace ==
  ASSUME Inv, NEW p \in Procs, proc[p] # Idle
  PROVE  /\ proc[p] \in CallRecords /\ WellFormed(proc[p]) /\ Admitted(p, proc[p])
         /\ Holds(proc[p]) /\ (writer = p <=> proc[p].at \in Inside)
  BY DEF Inv, Typed, Gated, Locked, InProgress

LEMMA NotIdle == \A p \in Procs, place \in Places : At(p, place) => proc[p] # Idle
  BY DEF At, Places, Idle

LEMMA StartSteps ==
  ASSUME Inv, NEW p \in Procs, StartAdmitted(p) \/ StartBegins(p) \/ StartEnds(p)
  PROVE  Inv'
<1>1. proc[p] \in CallRecords /\ WellFormed(proc[p]) /\ Admitted(p, proc[p]) /\ proc[p] # Idle
  BY CallInPlace, NotIdle DEF StartAdmitted, StartBegins, StartEnds, Places
<1>2. CASE StartAdmitted(p)
  <2>1. PICK c : c = [proc[p] EXCEPT !.delete = TRUE]
    OBVIOUS
  <2>2. /\ c \in CallRecords /\ c.at = "start" /\ c.mine = proc[p].mine /\ c.then = proc[p].then
        /\ c.row = proc[p].row
    BY <1>1, <1>2, <2>1 DEF CallRecords, StartAdmitted, At
  <2>3. WellFormed(c) /\ LockMove(p, c) /\ GateMove(p) /\ Admitted(p, c)'
    BY <1>1, <1>2, <2>2 DEF WellFormed, LockMove, GateMove, Admitted, StartAdmitted, At, Inside,
                            Admit, storeVars
  <2>4. proc' = [proc EXCEPT ![p] = c]
    BY <1>2, <2>1 DEF StartAdmitted
  <2>5. UNCHANGED <<rows, expired, submitted, files, staged>>
    BY <1>2 DEF StartAdmitted, storeVars
  <2> HIDE DEF Inv, WellFormed, LockMove, GateMove, Admitted
  <2> QED
    BY <2>2, <2>3, <2>4, <2>5, QuietStep
<1>3. CASE StartBegins(p)
  <2>1. PICK c : c = [proc[p] EXCEPT !.at = "sweep", !.todo = staged]
    OBVIOUS
  <2>2. /\ c \in CallRecords /\ c.at = "sweep" /\ c.mine = {} /\ c.then = proc[p].then
        /\ c.row = proc[p].row /\ c.todo = staged /\ c.delete = proc[p].delete
    <3>1. staged \subseteq Tombstones /\ proc[p].mine = {}
      BY <1>1, <1>3 DEF Inv, Typed, WellFormed, StartBegins, At
    <3>2. staged \in SUBSET (Tombstones \cup Contents)
      BY <3>1
    <3> QED
      BY <1>1, <2>1, <3>1, <3>2 DEF CallRecords, Places
  <2>3. WellFormed(c) /\ LockMove(p, c) /\ GateMove(p) /\ Admitted(p, c)'
    <3>1. staged \subseteq Tombstones
      BY DEF Inv, Typed
    <3> QED
      BY <1>1, <1>3, <2>2, <3>1 DEF WellFormed, LockMove, GateMove, Admitted, StartBegins, At,
                              Inside, gateVars
  <2>4. proc' = [proc EXCEPT ![p] = c]
    BY <1>3, <2>1 DEF StartBegins
  <2>5. UNCHANGED <<rows, expired, submitted, files, staged>>
    BY <1>3 DEF StartBegins
  <2> HIDE DEF Inv, WellFormed, LockMove, GateMove, Admitted
  <2> QED
    BY <2>2, <2>3, <2>4, <2>5, QuietStep
<1>4. CASE StartEnds(p)
  <2>1. GateMove(p) /\ LockMove(p, Idle)
    <3>1. writer = p
      BY <1>1, <1>4, CallInPlace DEF StartEnds, At, Inside
    <3> QED
      BY <1>4, <3>1 DEF StartEnds, GateMove, LockMove, Idle, Inside
  <2> HIDE DEF Inv, LockMove, GateMove
  <2> QED
    BY <1>4, <2>1, CallRests DEF StartEnds
<1> QED
  BY <1>2, <1>3, <1>4

LEMMA ContinueStep ==
  ASSUME Inv, NEW p \in Procs, proc[p] # Idle, proc[p].at \notin Inside, proc[p].mine = {},
         Continues(p), UNCHANGED storeVars, GateMove(p)
  PROVE  Inv'
<1>1. proc[p] \in CallRecords /\ WellFormed(proc[p])
  BY CallInPlace
<1>2. UNCHANGED <<rows, expired, submitted, files, staged>> /\ writer' = writer
  BY DEF storeVars
<1>3. CASE proc[p].then = "save"
  <2>1. PICK c : c = [proc[p] EXCEPT !.at = "save"]
    OBVIOUS
  <2>2. /\ c \in CallRecords /\ c.at = "save" /\ c.mine = {} /\ c.then = "save"
        /\ c.row = proc[p].row
    BY <1>1, <1>3, <2>1 DEF CallRecords, Places
  <2>3. WellFormed(c) /\ LockMove(p, c) /\ Admitted(p, c)'
    BY <1>1, <1>2, <1>3, <2>2 DEF WellFormed, LockMove, Admitted, Inside
  <2>4. proc' = [proc EXCEPT ![p] = c]
    BY <1>3, <2>1 DEF Continues, Goes
  <2> HIDE DEF Inv, WellFormed, LockMove, GateMove, Admitted
  <2> QED
    BY <1>2, <2>2, <2>3, <2>4, QuietStep
<1>4. CASE proc[p].then # "save"
  <2>1. LockMove(p, Idle) /\ Rests(p)
    BY <1>2, <1>4 DEF LockMove, Idle, Inside, Continues
  <2> HIDE DEF Inv, LockMove, GateMove
  <2> QED
    BY <1>2, <2>1, CallRests
<1> QED
  BY <1>3, <1>4

LEMMA EnterSteps ==
  ASSUME Inv, NEW p \in Procs,
         EnterAdmitted(p) \/ EnterSkipped(p) \/ CleanupBegins(p) \/ CleanupEnds(p)
  PROVE  Inv'
<1>1. proc[p] \in CallRecords /\ WellFormed(proc[p]) /\ Admitted(p, proc[p]) /\ proc[p] # Idle
  BY CallInPlace, NotIdle DEF EnterAdmitted, EnterSkipped, CleanupBegins, CleanupEnds, Places
<1>2. CASE EnterAdmitted(p)
  <2>1. PICK c : c = [proc[p] EXCEPT !.at = "lock", !.delete = TRUE]
    OBVIOUS
  <2>2. /\ c \in CallRecords /\ c.at = "lock" /\ c.mine = proc[p].mine /\ c.then = proc[p].then
        /\ c.row = proc[p].row /\ proc[p].at = "enter"
    BY <1>1, <1>2, <2>1 DEF CallRecords, EnterAdmitted, At, Places
  <2>3. WellFormed(c) /\ LockMove(p, c) /\ GateMove(p) /\ Admitted(p, c)'
    BY <1>1, <1>2, <2>2 DEF WellFormed, LockMove, GateMove, Admitted, EnterAdmitted, Inside,
                            Admit, storeVars
  <2>4. proc' = [proc EXCEPT ![p] = c]
    BY <1>2, <2>1 DEF EnterAdmitted
  <2>5. UNCHANGED <<rows, expired, submitted, files, staged>>
    BY <1>2 DEF EnterAdmitted, storeVars
  <2> HIDE DEF Inv, WellFormed, LockMove, GateMove, Admitted
  <2> QED
    BY <2>2, <2>3, <2>4, <2>5, QuietStep
<1>3. CASE EnterSkipped(p)
  <2>1. proc[p].at \notin Inside /\ proc[p].mine = {} /\ GateMove(p)
    BY <1>1, <1>3 DEF EnterSkipped, At, Inside, WellFormed, GateMove
  <2> HIDE DEF Inv, GateMove
  <2> QED
    BY <1>1, <1>3, <2>1, ContinueStep DEF EnterSkipped
<1>4. CASE CleanupBegins(p)
  <2>1. PICK todo : todo = IF proc[p].recover THEN staged ELSE {}
    OBVIOUS
  <2>2. PICK c : c = [proc[p] EXCEPT !.at = "recover", !.todo = todo]
    OBVIOUS
  <2>3. todo \subseteq Tombstones
    BY <2>1 DEF Inv, Typed
  <2>4. /\ c \in CallRecords /\ c.at = "recover" /\ c.mine = proc[p].mine
        /\ c.then = proc[p].then /\ c.row = proc[p].row /\ c.todo = todo /\ proc[p].at = "lock"
    <3>1. todo \in SUBSET (Tombstones \cup Contents)
      BY <2>3
    <3> QED
      BY <1>1, <1>4, <2>2, <3>1 DEF CallRecords, CleanupBegins, At, Places
  <2>5. WellFormed(c) /\ LockMove(p, c) /\ GateMove(p) /\ Admitted(p, c)'
    BY <1>1, <1>4, <2>3, <2>4 DEF WellFormed, LockMove, GateMove, Admitted, CleanupBegins, Inside,
                            gateVars
  <2>6. proc' = [proc EXCEPT ![p] = c]
    BY <1>4, <2>1, <2>2 DEF CleanupBegins
  <2>7. UNCHANGED <<rows, expired, submitted, files, staged>>
    BY <1>4 DEF CleanupBegins
  <2> HIDE DEF Inv, WellFormed, LockMove, GateMove, Admitted
  <2> QED
    BY <2>4, <2>5, <2>6, <2>7, QuietStep
<1>5. CASE CleanupEnds(p)
  <2>1. proc[p].at \notin Inside /\ proc[p].mine = {} /\ GateMove(p)
    BY <1>1, <1>5 DEF CleanupEnds, At, Inside, GateMove
  <2> HIDE DEF Inv, GateMove
  <2> QED
    BY <1>1, <1>5, <2>1, ContinueStep DEF CleanupEnds
<1> QED
  BY <1>2, <1>3, <1>4, <1>5

\* Every row names a content.
LEMMA RowNames == ASSUME Inv PROVE \A id \in Stored : rows[id] \in Row /\ rows[id].name \in Contents
  BY DEF Inv, Typed, Stored, Row

LEMMA SelectStep ==
  ASSUME Inv, NEW p \in Procs, CandidatesSelected(p)
  PROVE  Inv'
<1>1. /\ proc[p] \in CallRecords /\ WellFormed(proc[p]) /\ Admitted(p, proc[p]) /\ proc[p] # Idle
      /\ proc[p].at = "recover"
  BY CallInPlace, NotIdle DEF CandidatesSelected, At, Places
<1>2. Candidates(p) \subseteq Unclaimed /\ Candidates(p) \in SUBSET Ids
  BY DEF Candidates, Unclaimed, Stored
<1>3. ToStage(p) \in SUBSET (Tombstones \cup Contents)
  BY <1>2, RowNames DEF ToStage, Unclaimed
<1>4. PICK c : c = [proc[p] EXCEPT !.at = "stage", !.todo = ToStage(p), !.failed = {},
                                   !.ids = Candidates(p)]
  OBVIOUS
<1>5. /\ c \in CallRecords /\ c.at = "stage" /\ c.mine = {} /\ c.then = proc[p].then
      /\ c.row = proc[p].row /\ c.todo = ToStage(p) /\ c.failed = {} /\ c.ids = Candidates(p)
  <2>1. proc[p].mine = {}
    BY <1>1 DEF WellFormed
  <2> QED
    BY <1>1, <1>2, <1>3, <1>4, <2>1 DEF CallRecords, Places
<1>6. Staging(c)
  <2>1. \A id \in Stored : rows[id].name \in ToStage(p) => id \in Candidates(p)
    BY DEF ToStage
  <2> QED
    BY <1>2, <1>5, <2>1 DEF Staging
<1>7. WellFormed(c) /\ LockMove(p, c) /\ GateMove(p) /\ Admitted(p, c)'
  BY <1>1, <1>5 DEF CandidatesSelected, WellFormed, LockMove, GateMove, Admitted, Inside, gateVars,
                    storeVars
<1>8. proc' = [proc EXCEPT ![p] = c]
  BY <1>4 DEF CandidatesSelected
<1>9. UNCHANGED <<rows, expired, submitted, files, staged>>
  BY DEF CandidatesSelected, storeVars
<1> HIDE DEF Inv, WellFormed, LockMove, GateMove, Admitted, Staging
<1> QED
  BY <1>5, <1>6, <1>7, <1>8, <1>9, QuietStep

LEMMA UnlinkStep ==
  ASSUME Inv, NEW p \in Procs, UnlinkOne(p)
  PROVE  Inv'
<1>1. /\ proc[p] \in CallRecords /\ WellFormed(proc[p]) /\ Admitted(p, proc[p]) /\ proc[p] # Idle
      /\ proc[p].at = "unlink"
  BY CallInPlace, NotIdle DEF UnlinkOne, At, Places
<1>2. PICK s \in proc[p].mine : /\ staged' \in {staged, staged \ {s}}
                                /\ proc' = [proc EXCEPT ![p].mine = @ \ {s}]
  BY DEF UnlinkOne
<1>3. PICK c : c = [proc[p] EXCEPT !.mine = @ \ {s}]
  OBVIOUS
<1>4. /\ c \in CallRecords /\ c.at = "unlink" /\ c.mine = proc[p].mine \ {s}
      /\ c.then = proc[p].then /\ c.row = proc[p].row
  BY <1>1, <1>3 DEF CallRecords
<1>5. s \in Doomed
  BY <1>1 DEF Doomed, At
<1>6. staged' \subseteq staged /\ staged \ Doomed \subseteq staged'
  BY <1>2, <1>5
<1>7. WellFormed(c) /\ LockMove(p, c) /\ GateMove(p) /\ Admitted(p, c)'
  BY <1>1, <1>4 DEF UnlinkOne, WellFormed, LockMove, GateMove, Admitted, Inside, gateVars
<1>8. proc' = [proc EXCEPT ![p] = c]
  BY <1>2, <1>3
<1>9. UNCHANGED <<rows, expired, submitted, files>>
  BY DEF UnlinkOne
<1> HIDE DEF Inv, WellFormed, LockMove, GateMove, Admitted
<1> QED
  BY <1>1, <1>4, <1>6, <1>7, <1>8, <1>9, QuietStep

LEMMA CleansUpStep ==
  ASSUME Inv, NEW p \in Procs, NEW op \in Ops, CleansUp(p, op), writer = p, Ends(p),
         Kept', SubmittedInPlace', rows' \in [Ids -> Row \cup {NoRow}], expired' \subseteq Stored',
         submitted' \subseteq Ops, UNCHANGED <<files, staged, gateVars>>
  PROVE  Inv'
<1>1. PICK c : c = [Call("enter") EXCEPT !.op = op, !.recover = TRUE]
  OBVIOUS
<1>2. c \in CallRecords /\ c.at = "enter" /\ c.mine = {} /\ c.then = "idle" /\ ~c.delete
  <2>1. Call("enter") \in CallRecords
    BY FreshCall
  <2> QED
    BY <1>1, <2>1, FreshCall DEF CallRecords
<1>3. WellFormed(c) /\ LockMove(p, c) /\ GateMove(p) /\ Admitted(p, c)' /\ Holds(c)'
  BY <1>2 DEF WellFormed, LockMove, GateMove, Admitted, Holds, Inside
<1>4. proc' = [proc EXCEPT ![p] = c]
  BY <1>1 DEF CleansUp
<1>5. files' \subseteq Contents /\ staged' \subseteq Tombstones
  BY DEF Inv, Typed
<1> HIDE DEF Inv, WellFormed, LockMove, GateMove, Admitted, Kept, SubmittedInPlace, Holds
<1> QED
  BY <1>2, <1>3, <1>4, <1>5, StepKeeps

\* A claim changes nothing but whose the rows are.
LEMMA ClaimedRows ==
  ASSUME Inv, NEW ids, ids \subseteq Stored, NEW by \in Claims, rows' = Claimed(ids, by)
  PROVE  /\ rows' \in [Ids -> Row \cup {NoRow}] /\ Stored' = Stored
         /\ \A id \in Ids \ ids : rows'[id] = rows[id]
         /\ \A id \in ids : rows'[id] \in Row /\ rows'[id].claimed = by
         /\ \A id \in Stored : rows'[id].name = rows[id].name
<1>1. \A id \in ids : /\ [rows[id] EXCEPT !.claimed = by] \in Row
                      /\ [rows[id] EXCEPT !.claimed = by].name = rows[id].name
                      /\ [rows[id] EXCEPT !.claimed = by].claimed = by
  <2> TAKE id \in ids
  <2>1. rows[id] \in Row
    BY RowNames
  <2> QED
    BY <2>1 DEF Row
<1>2. rows' = [id \in Ids |-> IF id \in ids THEN [rows[id] EXCEPT !.claimed = by] ELSE rows[id]]
  BY DEF Claimed
<1>3. ids \subseteq Ids /\ \A id \in Ids : rows[id] \in Row \cup {NoRow}
  BY DEF Stored, Inv, Typed
<1>4. /\ \A id \in Ids : rows'[id] \in Row \cup {NoRow}
      /\ \A id \in Ids \ ids : rows'[id] = rows[id]
      /\ \A id \in ids : /\ rows'[id] \in Row /\ rows'[id].claimed = by
                         /\ rows'[id].name = rows[id].name
  BY <1>1, <1>2, <1>3
<1>5. rows' \in [Ids -> Row \cup {NoRow}]
  BY <1>2, <1>4
<1>6. Stored' = Stored
  BY <1>3, <1>4, Distinct DEF Stored
<1> QED
  BY <1>3, <1>4, <1>5, <1>6 DEF Stored

\* The transaction of an order runs while no other is under way, and moves no file.
LEMMA OrderKeeps ==
  ASSUME Inv, NEW p \in Procs, NEW op \in Ops, NEW ids \in SUBSET Ids, OrderCommits(p, op, ids)
  PROVE  Inv'
<1>1. /\ writer = Nobody /\ ids \subseteq Stored /\ rows' = Claimed(ids, "order")
      /\ submitted' = submitted \cup {op}
      /\ UNCHANGED <<expired, files, staged, writer, proc, gateVars>>
  BY DEF OrderCommits, Available, Unclaimed
<1>2. /\ rows' \in [Ids -> Row \cup {NoRow}] /\ Stored' = Stored
      /\ \A id \in Ids \ ids : rows'[id] = rows[id]
      /\ \A id \in ids : rows'[id].claimed = "order"
      /\ \A id \in Stored : rows'[id].name = rows[id].name
  BY <1>1, ClaimedRows DEF Claims
<1>3. \A q \in Procs : proc[q].at \notin Inside
  BY <1>1, NobodyAssumption DEF Inv, Locked, Nobody
<1>4. Doomed' = Doomed /\ \A name : SafeCopy(name)' <=> SafeCopy(name)
  BY <1>1 DEF Doomed, At, SafeCopy
<1>5. Kept' /\ SubmittedInPlace'
  <2>1. Kept'
    BY <1>1, <1>2, <1>4 DEF Inv, Kept
  <2>2. ASSUME NEW id \in Stored, rows'[id].claimed = "request"
        PROVE  rows[id] = rows'[id]
    BY <1>2, <2>2 DEF Stored
  <2> QED
    BY <1>1, <1>2, <2>1, <2>2 DEF Inv, SubmittedInPlace
<1>6. InProgress'
  BY <1>1, <1>3 DEF InProgress, Holds, Inside
<1>7. Typed' /\ Locked' /\ Gated'
  BY <1>1, <1>2 DEF Inv, Typed, Locked, Gated, Admitted, gateVars
<1> QED
  BY <1>5, <1>6, <1>7 DEF Inv

LEMMA SubmitSteps ==
  ASSUME Inv, NEW p \in Procs,
         \/ SubmitBegins(p) \/ SubmitUnrestored(p) \/ SubmitCommits(p) \/ SubmitUnavailable(p)
         \/ SubmitFails(p)
  PROVE  Inv'
<1>1. proc[p] \in CallRecords /\ WellFormed(proc[p]) /\ Admitted(p, proc[p]) /\ proc[p] # Idle
  BY CallInPlace, NotIdle DEF SubmitBegins, SubmitUnrestored, SubmitCommits, SubmitUnavailable,
                              SubmitFails, SubmitDecided, Places
<1>2. CASE SubmitBegins(p)
  <2>1. PICK c : c = [proc[p] EXCEPT !.at = "restore", !.todo = staged]
    OBVIOUS
  <2>2. staged \subseteq Tombstones
    BY DEF Inv, Typed
  <2>3. /\ c \in CallRecords /\ c.at = "restore" /\ c.mine = {} /\ c.then = proc[p].then
        /\ c.row = proc[p].row /\ c.op = proc[p].op /\ c.todo = staged
        /\ c.delete = proc[p].delete /\ c.failed = proc[p].failed /\ proc[p].at = "submit"
    <3>1. proc[p].mine = {}
      BY <1>1, <1>2 DEF WellFormed, SubmitBegins, At
    <3>2. staged \in SUBSET (Tombstones \cup Contents)
      BY <2>2
    <3> QED
      BY <1>1, <1>2, <2>1, <3>1, <3>2 DEF CallRecords, Places, SubmitBegins, At
  <2>4. Restoring(c)
    <3>1. Kept
      BY DEF Inv
    <3> QED
      BY <2>3, <3>1 DEF Kept, SafeCopy, Restoring
  <2>5. ~proc[p].delete
    BY <1>1, <2>3 DEF WellFormed
  <2>6. WellFormed(c) /\ LockMove(p, c) /\ GateMove(p) /\ Admitted(p, c)'
    BY <1>1, <1>2, <2>2, <2>3, <2>5 DEF SubmitBegins, WellFormed, LockMove, GateMove, Admitted,
                                   Inside, gateVars
  <2>7. proc' = [proc EXCEPT ![p] = c]
    BY <1>2, <2>1 DEF SubmitBegins
  <2>8. UNCHANGED <<rows, expired, submitted, files, staged>>
    BY <1>2 DEF SubmitBegins
  <2> HIDE DEF Inv, WellFormed, LockMove, GateMove, Admitted, Restoring
  <2> QED
    BY <2>3, <2>4, <2>6, <2>7, <2>8, QuietStep
<1> SUFFICES ASSUME SubmitUnrestored(p) \/ SubmitCommits(p) \/ SubmitUnavailable(p) \/ SubmitFails(p)
             PROVE  Inv'
  BY <1>2
<1>3. proc[p].at = "restore" /\ proc[p].todo = {} /\ writer = p /\ proc[p].op \in Ops
  <2>1. SubmitDecided(p)
    BY DEF SubmitUnrestored, SubmitCommits, SubmitUnavailable, SubmitFails
  <2> QED
    BY <1>1, <2>1, CallInPlace DEF SubmitDecided, At, Inside, WellFormed
<1>4. CASE SubmitUnrestored(p) \/ SubmitFails(p)
  <2>1. LockMove(p, Idle) /\ GateMove(p)
    BY <1>3, <1>4 DEF SubmitUnrestored, SubmitFails, LockMove, GateMove, Idle, Inside, gateVars
  <2> HIDE DEF Inv, LockMove, GateMove
  <2> QED
    BY <1>4, <2>1, CallRests DEF SubmitUnrestored, SubmitFails
<1>5. CASE SubmitUnavailable(p)
  <2>1. Stored' = Stored /\ Doomed' \subseteq Doomed
    <3>1. UNCHANGED rows
      BY <1>5 DEF SubmitUnavailable
    <3>2. proc' = [proc EXCEPT ![p] = [Call("enter") EXCEPT !.op = proc[p].op, !.recover = TRUE]]
      BY <1>5 DEF SubmitUnavailable, CleansUp
    <3>3. proc'[p].at = "enter" /\ \A q \in Procs \ {p} : proc'[q] = proc[q]
      BY <3>2 DEF Inv, Typed, Call
    <3> QED
      BY <3>1, <3>3 DEF Stored, Doomed, At
  <2>2. Kept' /\ SubmittedInPlace'
    BY <1>5, <2>1, RowNames DEF SubmitUnavailable, Inv, Kept, SafeCopy, SubmittedInPlace
  <2>3. rows' \in [Ids -> Row \cup {NoRow}] /\ expired' \subseteq Stored' /\ submitted' \subseteq Ops
    BY <1>5, <2>1 DEF SubmitUnavailable, Inv, Typed
  <2> HIDE DEF Inv, Kept, SubmittedInPlace
  <2> QED
    BY <1>3, <1>5, <2>2, <2>3, CleansUpStep DEF SubmitUnavailable
<1>6. CASE SubmitCommits(p)
  <2>1. \A id \in Stored : rows[id].name \in files
    <3>1. Restoring(proc[p])
      BY <1>1, <1>3, CallInPlace DEF Holds
    <3>2. proc[p].failed = {}
      BY <1>6 DEF SubmitCommits, MayClaim
    <3> QED
      BY <1>3, <3>1, <3>2 DEF Restoring
  <2>2. proc[p].ids \subseteq Stored
    BY <1>6 DEF SubmitCommits, MayClaim, Available, Unclaimed
  <2>3. rows' = Claimed(proc[p].ids, "request") /\ "request" \in Claims
    BY <1>6 DEF SubmitCommits, Claims
  <2>5. /\ rows' \in [Ids -> Row \cup {NoRow}] /\ Stored' = Stored
        /\ \A id \in Stored : rows'[id].name = rows[id].name
    BY <2>2, <2>3, ClaimedRows
  <2>6. rows' \in [Ids -> Row \cup {NoRow}]
    BY <2>5
  <2>7. Stored' = Stored
    BY <2>5
  <2>8. Kept' /\ SubmittedInPlace'
    BY <1>6, <2>1, <2>5, <2>7 DEF SubmitCommits, Kept, SubmittedInPlace
  <2>9. expired' \subseteq Stored' /\ submitted' \subseteq Ops
    BY <1>3, <1>6, <2>7 DEF SubmitCommits, Inv, Typed
  <2> HIDE DEF Inv, Kept, SubmittedInPlace
  <2> QED
    BY <1>3, <1>6, <2>6, <2>8, <2>9, CleansUpStep DEF SubmitCommits
<1> QED
  BY <1>4, <1>5, <1>6

-----------------------------------------------------------------------------
(* The steps that move files or delete rows. *)

\* A tombstone made now has a name that no call has in hand, so nobody is about to delete it.
LEMMA StageStep ==
  ASSUME Inv, NEW p \in Procs, NEW name \in Contents, StageOne(p, name)
  PROVE  Inv'
<1>1. /\ proc[p] \in CallRecords /\ WellFormed(proc[p]) /\ Admitted(p, proc[p]) /\ proc[p] # Idle
      /\ proc[p].at = "stage" /\ writer = p /\ Staging(proc[p]) /\ name \in proc[p].todo
  BY CallInPlace, NotIdle DEF StageOne, At, Places, Inside, Holds
<1>2. /\ UNCHANGED <<rows, expired, submitted>> /\ writer' = writer /\ UNCHANGED gateVars
      /\ Stored' = Stored /\ Unclaimed' = Unclaimed
  BY DEF StageOne, Stored, Unclaimed
<1>3. \A id \in Stored : rows[id].name = name => rows[id].claimed = "no"
  BY <1>1 DEF Staging, Unclaimed
<1>4. \A c \in CallRecords :
        c.at = "stage" /\ c.then = proc[p].then /\ c.row = proc[p].row =>
          WellFormed(c) /\ LockMove(p, c) /\ GateMove(p) /\ Admitted(p, c)'
  BY <1>1, <1>2 DEF WellFormed, LockMove, GateMove, Admitted, gateVars
<1>5. rows' \in [Ids -> Row \cup {NoRow}] /\ expired' \subseteq Stored' /\ submitted' \subseteq Ops
  BY <1>2 DEF Inv, Typed
<1>6. ASSUME name \in files, NEW tag \in 1 .. MaxStaged, NEW s, s = [name |-> name, tag |-> tag],
             s \notin staged \cup InHand, staged' = staged \cup {s}, files' = files \ {name},
             proc' = [proc EXCEPT ![p].todo = @ \ {name}, ![p].mine = @ \cup {s}]
      PROVE  Inv'
  <2>1. PICK c : c = [proc[p] EXCEPT !.todo = @ \ {name}, !.mine = @ \cup {s}]
    OBVIOUS
  <2>2. s \in Tombstones /\ s.name = name
    BY <1>6 DEF Tombstones
  <2>3. /\ c \in CallRecords /\ c.at = "stage" /\ c.then = proc[p].then /\ c.row = proc[p].row
        /\ c.todo = proc[p].todo \ {name} /\ c.mine = proc[p].mine \cup {s}
        /\ c.ids = proc[p].ids /\ c.failed = proc[p].failed
    BY <1>1, <2>1, <2>2 DEF CallRecords
  <2>4. proc' = [proc EXCEPT ![p] = c]
    BY <1>6, <2>1
  <2>5. Doomed' \subseteq Doomed /\ s \notin Doomed
    <3>1. proc'[p] = c /\ \A q \in Procs \ {p} : proc'[q] = proc[q]
      BY <2>4 DEF Inv, Typed
    <3>2. Doomed \subseteq InHand
      BY DEF Doomed, InHand, At, Idle
    <3>3. Doomed' \subseteq Doomed
      BY <2>3, <3>1 DEF Doomed, At
    <3> QED
      BY <1>6, <3>2, <3>3
  <2>6. Kept'
    <3>1. SafeCopy(name)'
      BY <1>6, <2>2, <2>5 DEF SafeCopy
    <3>2. \A other \in Contents : SafeCopy(other) => SafeCopy(other)'
      BY <1>6, <2>5 DEF SafeCopy
    <3> QED
      BY <1>2, <1>6, <3>1, <3>2, RowNames DEF Inv, Kept
  <2>7. SubmittedInPlace'
    BY <1>2, <1>3, <1>6 DEF Inv, SubmittedInPlace
  <2>8. Holds(c)'
    <3>1. Staging(c)
      BY <1>1, <2>2, <2>3 DEF Staging
    <3> QED
      BY <1>2, <2>3, <3>1 DEF Holds, Staging
  <2>9. files' \subseteq Contents /\ staged' \subseteq Tombstones
    BY <1>6, <2>2 DEF Inv, Typed
  <2> HIDE DEF Inv, WellFormed, LockMove, GateMove, Admitted, Kept, SubmittedInPlace, Holds
  <2> QED
    BY <1>1, <1>4, <1>5, <2>3, <2>4, <2>6, <2>7, <2>8, <2>9, StepKeeps
<1>7. ASSUME UNCHANGED <<files, staged>>, NEW failed \in SUBSET {name},
             proc' = [proc EXCEPT ![p].todo = @ \ {name}, ![p].failed = @ \cup failed]
      PROVE  Inv'
  <2>1. PICK c : c = [proc[p] EXCEPT !.todo = @ \ {name}, !.failed = @ \cup failed]
    OBVIOUS
  <2>2. /\ c \in CallRecords /\ c.at = "stage" /\ c.then = proc[p].then /\ c.row = proc[p].row
        /\ c.todo = proc[p].todo \ {name} /\ c.mine = proc[p].mine
        /\ c.ids = proc[p].ids /\ c.failed = proc[p].failed \cup failed
    BY <1>1, <2>1 DEF CallRecords
  <2>3. proc' = [proc EXCEPT ![p] = c]
    BY <1>7, <2>1
  <2>4. Staging(c)
    BY <1>1, <2>2 DEF Staging
  <2> HIDE DEF Inv, WellFormed, LockMove, GateMove, Admitted, Staging
  <2> QED
    BY <1>1, <1>2, <1>4, <1>7, <2>2, <2>3, <2>4, QuietStep
<1>8. CASE /\ name \in files
           /\ \E tag \in 1 .. MaxStaged :
                LET s == [name |-> name, tag |-> tag]
                IN /\ s \notin staged \cup InHand
                   /\ staged' = staged \cup {s}
                   /\ files' = files \ {name}
                   /\ proc' = [proc EXCEPT ![p].todo = @ \ {name}, ![p].mine = @ \cup {s}]
  <2> HIDE DEF Inv, InHand
  <2> QED
    BY <1>6, <1>8
<1>9. CASE /\ proc' = [proc EXCEPT ![p].todo = @ \ {name}, ![p].failed = @ \cup {name}]
           /\ UNCHANGED <<files, staged>>
  <2> HIDE DEF Inv
  <2> QED
    BY <1>7, <1>9
<1>10. CASE /\ proc' = [proc EXCEPT ![p].todo = @ \ {name}]
            /\ UNCHANGED <<files, staged>>
  <2>1. proc' = [proc EXCEPT ![p].todo = @ \ {name}, ![p].failed = @ \cup {}]
    <3>1. PICK c : c = [proc[p] EXCEPT !.todo = @ \ {name}]
      OBVIOUS
    <3>2. c = [proc[p] EXCEPT !.todo = @ \ {name}, !.failed = @ \cup {}]
      BY <1>1, <3>1 DEF CallRecords
    <3> QED
      BY <1>10, <3>1, <3>2
  <2>2. PICK failed \in SUBSET {name} : failed = {}
    OBVIOUS
  <2>3. proc' = [proc EXCEPT ![p].todo = @ \ {name}, ![p].failed = @ \cup failed]
    BY <2>1, <2>2
  <2> HIDE DEF Inv
  <2> QED
    BY <1>7, <1>10, <2>3
<1> QED
  BY <1>8, <1>9, <1>10 DEF StageOne

\* What is committed are the rows selected, less those whose file could not be moved: nobody
\* else names the files that are now doomed.
LEMMA CommitStep ==
  ASSUME Inv, NEW p \in Procs, CleanupCommits(p)
  PROVE  Inv'
<1>1. /\ proc[p] \in CallRecords /\ WellFormed(proc[p]) /\ Admitted(p, proc[p]) /\ proc[p] # Idle
      /\ proc[p].at = "stage" /\ writer = p /\ Staging(proc[p])
  BY CallInPlace, NotIdle DEF CleanupCommits, At, Places, Inside, Holds
<1>2. PICK gone : gone = {id \in proc[p].ids : rows[id].name \notin proc[p].failed}
  OBVIOUS
<1>3. /\ rows' = [id \in Ids |-> IF id \in gone THEN NoRow ELSE rows[id]]
      /\ expired' = expired \ gone
  BY <1>2 DEF CleanupCommits
<1>4. PICK c : c = [proc[p] EXCEPT !.at = "unlink", !.failed = {}]
  OBVIOUS
<1>5. /\ c \in CallRecords /\ c.at = "unlink" /\ c.then = proc[p].then /\ c.row = proc[p].row
      /\ c.mine = proc[p].mine
  BY <1>1, <1>4 DEF CallRecords, Places
<1>6. proc' = [proc EXCEPT ![p] = c]
  BY <1>4 DEF CleanupCommits
<1>7. WellFormed(c) /\ LockMove(p, c) /\ GateMove(p) /\ Admitted(p, c)'
  BY <1>1, <1>5 DEF CleanupCommits, WellFormed, LockMove, GateMove, Admitted, Inside, gateVars
<1>8. /\ rows' \in [Ids -> Row \cup {NoRow}]
      /\ Stored' = Stored \ gone /\ \A id \in Stored' : rows'[id] = rows[id]
  BY <1>3 DEF Inv, Typed, Stored
<1>9. \A s \in proc[p].mine : \A id \in Stored : rows[id].name = s.name => id \in gone
  <2>1. \A s \in proc[p].mine : s.name \in Contents
    BY <1>1 DEF CallRecords, Tombstones
  <2> QED
    BY <1>1, <1>2, <2>1 DEF Staging
<1>10. Doomed' \subseteq Doomed \cup proc[p].mine
  <2>1. proc'[p] = c /\ \A q \in Procs \ {p} : proc'[q] = proc[q]
    BY <1>6 DEF Inv, Typed
  <2> QED
    BY <1>5, <2>1 DEF Doomed, At
<1>11. UNCHANGED <<submitted, files, staged>>
  BY DEF CleanupCommits
<1>12. Kept'
  <2> SUFFICES ASSUME NEW id \in Stored', rows[id].name \notin files
               PROVE  SafeCopy(rows[id].name)'
    BY <1>8, <1>11 DEF Kept
  <2>1. PICK s \in staged \ Doomed : s.name = rows[id].name
    BY <1>8 DEF Inv, Kept, SafeCopy
  <2>2. s \notin proc[p].mine
    BY <1>8, <1>9, <2>1
  <2> QED
    BY <1>8, <1>10, <1>11, <2>1, <2>2 DEF SafeCopy
<1>13. SubmittedInPlace'
  BY <1>8, <1>11 DEF Inv, SubmittedInPlace
<1>14. expired' \subseteq Stored' /\ submitted' \subseteq Ops
       /\ files' \subseteq Contents /\ staged' \subseteq Tombstones
  BY <1>3, <1>8, <1>11 DEF Inv, Typed
<1>15. Holds(c)'
  BY <1>5 DEF Holds
<1> HIDE DEF Inv, WellFormed, LockMove, GateMove, Admitted, Kept, SubmittedInPlace, Holds
<1> QED
  BY <1>1, <1>5, <1>6, <1>7, <1>8, <1>12, <1>13, <1>14, <1>15, StepKeeps

LEMMA AbortStep ==
  ASSUME Inv, NEW p \in Procs, CleanupAborts(p)
  PROVE  Inv'
<1>1. proc[p] \in CallRecords /\ proc[p].at \in {"recover", "stage"} /\ writer = p
  BY CallInPlace, NotIdle DEF CleanupAborts, At, Places, Inside
<1>2. PICK back \in SUBSET proc[p].mine : /\ files' = files \cup {s.name : s \in back}
                                          /\ staged' = staged \ back
  BY DEF CleanupAborts
<1>3. \A s \in back : s.name \in Contents /\ s.name \in files'
  BY <1>1, <1>2 DEF CallRecords, Tombstones
<1>4. files \subseteq files' /\ files' \subseteq Contents /\ staged' \subseteq Tombstones
  BY <1>1, <1>2, <1>3 DEF Inv, Typed
<1>5. UNCHANGED <<rows, expired, submitted>> /\ Stored' = Stored
  BY DEF CleanupAborts, Stored
<1>6. proc' = [proc EXCEPT ![p] = Idle] /\ Idle.at = "idle"
  BY DEF CleanupAborts, Rests, Idle
<1>7. Doomed' \subseteq Doomed
  <2>1. proc'[p] = Idle /\ \A q \in Procs \ {p} : proc'[q] = proc[q]
    BY <1>6 DEF Inv, Typed
  <2> QED
    BY <1>6, <2>1 DEF Doomed, At
<1>8. Kept'
  <2> SUFFICES ASSUME NEW id \in Stored, rows[id].name \notin files'
               PROVE  SafeCopy(rows[id].name)'
    BY <1>5 DEF Kept
  <2>1. PICK s \in staged \ Doomed : s.name = rows[id].name
    BY <1>4 DEF Inv, Kept, SafeCopy
  <2>2. s \notin back
    BY <1>3, <2>1
  <2> QED
    BY <1>2, <1>5, <1>7, <2>1, <2>2 DEF SafeCopy
<1>9. SubmittedInPlace'
  BY <1>4, <1>5 DEF Inv, SubmittedInPlace
<1>10. LockMove(p, Idle) /\ GateMove(p) /\ Admitted(p, Idle)' /\ Holds(Idle)'
  BY <1>1, <1>6 DEF CleanupAborts, LockMove, GateMove, Admitted, Holds, Inside
<1>11. rows' \in [Ids -> Row \cup {NoRow}] /\ expired' \subseteq Stored' /\ submitted' \subseteq Ops
  BY <1>5 DEF Inv, Typed
<1> HIDE DEF Inv, WellFormed, LockMove, GateMove, Admitted, Kept, SubmittedInPlace, Holds, Idle
<1> QED
  BY <1>1, <1>4, <1>6, <1>8, <1>9, <1>10, <1>11, StepKeeps

\* A call that holds the lock ends, after it has changed rows or files.
LEMMA LockedCallEnds ==
  ASSUME Inv, NEW p \in Procs, writer = p, Ends(p), Rests(p),
         rows' \in [Ids -> Row \cup {NoRow}], expired' \subseteq Stored', files' \subseteq Contents,
         UNCHANGED <<submitted, staged, gateVars>>, Kept', SubmittedInPlace'
  PROVE  Inv'
<1>1. Idle.at = "idle"
  BY DEF Idle
<1>2. LockMove(p, Idle) /\ GateMove(p) /\ Admitted(p, Idle)' /\ Holds(Idle)'
  BY <1>1 DEF LockMove, GateMove, Admitted, Holds, Inside, gateVars
<1>3. submitted' \subseteq Ops /\ staged' \subseteq Tombstones
  BY DEF Inv, Typed
<1> HIDE DEF Inv, WellFormed, LockMove, GateMove, Admitted, Kept, SubmittedInPlace, Holds, Idle
<1> QED
  BY <1>2, <1>3, StepKeeps DEF Rests

LEMMA SaveSteps ==
  ASSUME Inv, NEW p \in Procs,
         SaveBegins(p) \/ SaveRefused(p) \/ FileWritten(p) \/ RowCommitted(p) \/ RowFails(p)
  PROVE  Inv'
<1>1. /\ proc[p] \in CallRecords /\ WellFormed(proc[p]) /\ Admitted(p, proc[p]) /\ proc[p] # Idle
      /\ proc[p].at \in {"save", "write", "insert"} /\ proc[p].mine = {}
      /\ proc[p].row \in Row /\ proc[p].row.claimed = "no" /\ proc[p].row.name \in Contents
  <2>1. proc[p] # Idle /\ proc[p].at \in {"save", "write", "insert"}
    BY NotIdle DEF SaveBegins, SaveRefused, FileWritten, RowCommitted, RowFails, At, Places
  <2>2. proc[p] \in CallRecords /\ WellFormed(proc[p]) /\ Admitted(p, proc[p])
    BY <2>1, CallInPlace
  <2> QED
    BY <2>1, <2>2, Named DEF WellFormed
<1>2. CASE SaveBegins(p)
  <2>1. PICK c : c = [proc[p] EXCEPT !.at = "write"]
    OBVIOUS
  <2>2. /\ c \in CallRecords /\ c.at = "write" /\ c.mine = {} /\ c.then = proc[p].then
        /\ c.row = proc[p].row /\ proc[p].at = "save"
    BY <1>1, <1>2, <2>1 DEF CallRecords, Places, SaveBegins, At
  <2>3. WellFormed(c) /\ LockMove(p, c) /\ GateMove(p) /\ Admitted(p, c)'
    BY <1>1, <1>2, <2>2 DEF SaveBegins, WellFormed, LockMove, GateMove, Admitted, Inside, gateVars
  <2>4. proc' = [proc EXCEPT ![p] = c]
    BY <1>2, <2>1 DEF SaveBegins, Goes
  <2>5. UNCHANGED <<rows, expired, submitted, files, staged>>
    BY <1>2 DEF SaveBegins
  <2> HIDE DEF Inv, WellFormed, LockMove, GateMove, Admitted
  <2> QED
    BY <2>2, <2>3, <2>4, <2>5, QuietStep
<1> SUFFICES ASSUME SaveRefused(p) \/ FileWritten(p) \/ RowCommitted(p) \/ RowFails(p)
             PROVE  Inv'
  BY <1>2
<1>3. writer = p
  BY <1>1, CallInPlace DEF SaveRefused, FileWritten, RowCommitted, RowFails, At, Inside
<1>4. CASE SaveRefused(p)
  <2>1. /\ files \subseteq files' /\ files' \subseteq Contents /\ Stored' = Stored
        /\ Ends(p) /\ Rests(p) /\ UNCHANGED <<rows, expired, submitted, staged, gateVars>>
    BY <1>1, <1>4 DEF SaveRefused, Stored, Inv, Typed
  <2>2. \A name \in Contents : SafeCopy(name) => SafeCopy(name)'
    <3>1. proc' = [proc EXCEPT ![p] = Idle] /\ Idle.at = "idle"
      BY <2>1 DEF Rests, Idle
    <3> QED
      BY <2>1, <3>1, CopiesStay
  <2>3. Kept' /\ SubmittedInPlace'
    BY <2>1, <2>2, RowNames DEF Inv, Kept, SubmittedInPlace
  <2>4. rows' \in [Ids -> Row \cup {NoRow}] /\ expired' \subseteq Stored'
    BY <2>1 DEF Inv, Typed
  <2> HIDE DEF Inv, Kept, SubmittedInPlace
  <2> QED
    BY <1>3, <2>1, <2>3, <2>4, LockedCallEnds
<1>5. CASE FileWritten(p)
  <2>1. PICK created \in BOOLEAN : created = (proc[p].row.name \notin files)
    OBVIOUS
  <2>2. PICK c : c = [proc[p] EXCEPT !.at = "insert", !.created = created]
    OBVIOUS
  <2>3. /\ c \in CallRecords /\ c.at = "insert" /\ c.mine = {} /\ c.then = proc[p].then
        /\ c.row = proc[p].row /\ c.created = created
    <3>1. created \in BOOLEAN
      BY <2>1
    <3> QED
      BY <1>1, <2>2, <3>1 DEF CallRecords, Places
  <2>4. WellFormed(c) /\ LockMove(p, c) /\ GateMove(p) /\ Admitted(p, c)'
    BY <1>1, <1>3, <1>5, <2>3 DEF FileWritten, WellFormed, LockMove, GateMove, Admitted, Inside,
                                 gateVars, At
  <2>5. proc' = [proc EXCEPT ![p] = c]
    BY <1>5, <2>1, <2>2 DEF FileWritten
  <2>6. /\ files' = files \cup {proc[p].row.name} /\ UNCHANGED <<rows, expired, submitted, staged>>
        /\ Stored' = Stored
    BY <1>5 DEF FileWritten, Stored
  <2>7. \A name \in Contents : SafeCopy(name) => SafeCopy(name)'
    BY <1>1, <2>3, <2>5, <2>6, CopiesStay
  <2>8. Kept' /\ SubmittedInPlace'
    BY <2>6, <2>7, RowNames DEF Inv, Kept, SubmittedInPlace
  <2>9. Inserting(c)'
    <3>1. c.row.name \in files'
      BY <2>3, <2>6
    <3>2. ASSUME c.created, NEW id \in Stored, rows[id].name = c.row.name
          PROVE  rows[id].claimed # "request" /\ SafeCopy(c.row.name)'
      <4>1. proc[p].row.name \notin files
        BY <2>1, <2>3, <3>2
      <4>2. rows[id].claimed # "request" /\ SafeCopy(rows[id].name)
        BY <2>3, <3>2, <4>1 DEF Inv, Kept, SubmittedInPlace
      <4>3. SafeCopy(rows[id].name)'
        BY <2>6, <4>2, <2>7, RowNames DEF SafeCopy
      <4> QED
        BY <2>6, <3>2, <4>2, <4>3 DEF SafeCopy
    <3> QED
      BY <2>6, <3>1, <3>2 DEF Inserting
  <2>10. Holds(c)'
    BY <2>3, <2>9 DEF Holds
  <2>11. /\ rows' \in [Ids -> Row \cup {NoRow}] /\ expired' \subseteq Stored' /\ submitted' \subseteq Ops
         /\ files' \subseteq Contents /\ staged' \subseteq Tombstones
    BY <1>1, <2>6 DEF Inv, Typed
  <2> HIDE DEF Inv, WellFormed, LockMove, GateMove, Admitted, Kept, SubmittedInPlace, Holds
  <2> QED
    BY <1>3, <2>3, <2>4, <2>5, <2>8, <2>10, <2>11, StepKeeps
<1>6. CASE RowCommitted(p) \/ RowFails(p)
  <2>1. proc' = [proc EXCEPT ![p] = Idle] /\ Idle.at = "idle" /\ UNCHANGED staged
    BY <1>6 DEF RowCommitted, RowFails, Rests, Idle
  <2>2. \A name \in Contents : SafeCopy(name) => SafeCopy(name)'
    BY <2>1, CopiesStay
  <2>3. Inserting(proc[p])
    BY <1>1, <1>6, CallInPlace DEF Holds, RowCommitted, RowFails, At
  <2>4. CASE RowCommitted(p)
    <3>1. PICK row \in Row : row = proc[p].row
      BY <1>1
    <3>2. rows' = [rows EXCEPT ![proc[p].id] = row] /\ UNCHANGED files
      BY <2>4, <3>1 DEF RowCommitted
    <3>3. row.name \in files /\ row.claimed = "no"
      BY <1>1, <2>3, <3>1 DEF Inserting
    <3>4. /\ \A id \in Ids : rows'[id] \in Row \cup {NoRow}
          /\ \A id \in Ids : rows'[id] = rows[id] \/ rows'[id] = row
          /\ rows' \in [Ids -> Row \cup {NoRow}]
      BY <3>2 DEF Inv, Typed
    <3>5. Stored \subseteq Stored'
      BY <3>4, Distinct DEF Stored
    <3>6. Kept' /\ SubmittedInPlace'
      <4>1. ASSUME NEW id \in Stored'
            PROVE  \/ rows'[id].name \in files /\ rows'[id].claimed = "no"
                   \/ id \in Stored /\ rows'[id] = rows[id]
        BY <3>3, <3>4 DEF Stored
      <4>2. \A id \in Stored : SafeCopy(rows[id].name) =>
              \E s \in staged' \ Doomed' : s.name = rows[id].name
        BY <2>2, RowNames DEF SafeCopy
      <4>3. SubmittedInPlace'
        BY <3>2, <4>1 DEF Inv, SubmittedInPlace
      <4>4. Kept'
        BY <3>2, <4>1, <4>2 DEF Inv, Kept, SafeCopy
      <4> QED
        BY <4>3, <4>4
    <3>7. expired' \subseteq Stored' /\ files' \subseteq Contents
      BY <2>4, <3>2, <3>5 DEF RowCommitted, Inv, Typed
    <3>8. Ends(p) /\ Rests(p) /\ UNCHANGED <<submitted, staged, gateVars>>
      BY <2>4 DEF RowCommitted
    <3> HIDE DEF Inv, Kept, SubmittedInPlace
    <3> QED
      BY <1>3, <3>4, <3>6, <3>7, <3>8, LockedCallEnds
  <2>5. CASE RowFails(p)
    <3>1. /\ files' \in {files, files \ TakenBack(p)} /\ UNCHANGED <<rows, expired>> /\ Stored' = Stored
      BY <2>5 DEF RowFails, Stored
    <3>2. Kept' /\ SubmittedInPlace'
      <4> SUFFICES ASSUME NEW id \in Stored
                   PROVE  /\ rows[id].name \in files' \/ SafeCopy(rows[id].name)'
                          /\ rows[id].claimed = "request" => rows[id].name \in files'
        BY <3>1 DEF Kept, SubmittedInPlace
      <4>1. rows[id].name \in Contents
        BY RowNames
      <4>2. CASE rows[id].name = proc[p].row.name /\ proc[p].created
        <5>1. rows[id].claimed # "request" /\ SafeCopy(rows[id].name)
          BY <2>3, <4>2 DEF Inserting
        <5>2. SafeCopy(rows[id].name)'
          BY <2>2, <3>1, <4>1, <5>1 DEF SafeCopy
        <5> QED
          BY <5>1, <5>2
      <4>3. CASE ~(rows[id].name = proc[p].row.name /\ proc[p].created)
        <5>1. rows[id].name \in files => rows[id].name \in files'
          BY <3>1, <4>3 DEF TakenBack
        <5>2. SafeCopy(rows[id].name) => SafeCopy(rows[id].name)'
          BY <2>2, <3>1, <4>1 DEF SafeCopy
        <5> QED
          BY <5>1, <5>2 DEF Inv, Kept, SubmittedInPlace
      <4> QED
        BY <4>2, <4>3
    <3>3. /\ rows' \in [Ids -> Row \cup {NoRow}] /\ expired' \subseteq Stored' /\ files' \subseteq Contents
      BY <3>1 DEF Inv, Typed
    <3>4. Ends(p) /\ Rests(p) /\ UNCHANGED <<submitted, staged, gateVars>>
      BY <2>5 DEF RowFails
    <3> HIDE DEF Inv, Kept, SubmittedInPlace
    <3> QED
      BY <1>3, <3>2, <3>3, <3>4, LockedCallEnds
  <2> QED
    BY <1>6, <2>4, <2>5
<1> QED
  BY <1>4, <1>5, <1>6

\* One tombstone is dealt with: afterwards its content is in place, or in failed, or unnamed.
LEMMA RecoverStep ==
  ASSUME Inv, NEW p \in Procs, Recovers(p)
  PROVE  Inv'
<1>1. /\ proc[p] \in CallRecords /\ WellFormed(proc[p]) /\ Admitted(p, proc[p])
      /\ Holds(proc[p]) /\ writer = p /\ proc[p].at \in {"recover", "restore", "sweep"}
  BY CallInPlace DEF Recovers, Inside
<1>2. PICK s \in proc[p].todo : RecoverOne(p, s)
  BY DEF Recovers
<1>3. s \in Tombstones /\ s.name \in Contents
  BY <1>1 DEF WellFormed, Tombstones
<1>4. /\ UNCHANGED <<rows, expired, submitted>> /\ writer' = writer /\ UNCHANGED gateVars
      /\ Stored' = Stored
  BY DEF Recovers, Stored
<1>5. PICK failed \in SUBSET {s.name} :
        /\ proc' = [proc EXCEPT ![p].todo = @ \ {s}, ![p].failed = @ \cup failed]
        /\ files \subseteq files' /\ files' \subseteq files \cup {s.name}
        /\ staged' \subseteq staged /\ staged \ {s} \subseteq staged'
        /\ \A id \in Stored : rows[id].name = s.name => s.name \in files' \cup failed
        /\ staged' # staged =>
             \A id \in Stored : rows[id].name = s.name => s.name \in files'
  <2>1. [proc EXCEPT ![p].todo = @ \ {s}] =
          [proc EXCEPT ![p].todo = @ \ {s}, ![p].failed = @ \cup {}]
    <3>1. PICK c : c = [proc[p] EXCEPT !.todo = @ \ {s}]
      OBVIOUS
    <3>2. c = [proc[p] EXCEPT !.todo = @ \ {s}, !.failed = @ \cup {}]
      BY <1>1, <3>1 DEF CallRecords
    <3> QED
      BY <3>1, <3>2
  <2>2. CASE Referenced(s.name) /\ s.name \notin files
    <3>1. CASE /\ s \in staged
               /\ staged' = staged \ {s}
               /\ files' = files \cup {s.name}
               /\ proc' = [proc EXCEPT ![p].todo = @ \ {s}]
      <4> WITNESS {} \in SUBSET {s.name}
      <4> QED
        BY <2>1, <3>1
    <3>2. CASE /\ UNCHANGED <<staged, files>>
               /\ proc' = [proc EXCEPT ![p].todo = @ \ {s}, ![p].failed = @ \cup {s.name}]
      <4> WITNESS {s.name} \in SUBSET {s.name}
      <4> QED
        BY <3>2
    <3> QED
      BY <1>2, <2>2, <3>1, <3>2 DEF RecoverOne
  <2>3. CASE ~(Referenced(s.name) /\ s.name \notin files)
    <3>1. /\ staged' = IF proc[p].delete THEN staged \ {s} ELSE staged
          /\ UNCHANGED files
          /\ proc' = [proc EXCEPT ![p].todo = @ \ {s}]
      BY <1>2, <2>3 DEF RecoverOne
    <3>2. \A id \in Stored : rows[id].name = s.name => s.name \in files
      BY <2>3 DEF Referenced
    <3> WITNESS {} \in SUBSET {s.name}
    <3> QED
      BY <2>1, <3>1, <3>2
  <2> QED
    BY <2>2, <2>3
<1>6. PICK c : c = [proc[p] EXCEPT !.todo = @ \ {s}, !.failed = @ \cup failed]
  OBVIOUS
<1>7. /\ c \in CallRecords /\ c.at = proc[p].at /\ c.then = proc[p].then /\ c.row = proc[p].row
      /\ c.mine = proc[p].mine /\ c.op = proc[p].op /\ c.delete = proc[p].delete
      /\ c.todo = proc[p].todo \ {s} /\ c.failed = proc[p].failed \cup failed
  BY <1>1, <1>3, <1>6 DEF CallRecords
<1>8. WellFormed(c) /\ LockMove(p, c) /\ GateMove(p) /\ Admitted(p, c)'
  BY <1>1, <1>4, <1>7 DEF WellFormed, LockMove, GateMove, Admitted, gateVars
<1>9. proc' = [proc EXCEPT ![p] = c]
  BY <1>5, <1>6
<1>10. Doomed' \subseteq Doomed
  <2>1. proc'[p] = c /\ \A q \in Procs \ {p} : proc'[q] = proc[q]
    BY <1>9 DEF Inv, Typed
  <2> QED
    BY <1>1, <1>7, <2>1 DEF Doomed, At
<1>11. Kept'
  <2> SUFFICES ASSUME NEW id \in Stored, rows[id].name \notin files'
               PROVE  SafeCopy(rows[id].name)'
    BY <1>4 DEF Kept
  <2>1. PICK t \in staged \ Doomed : t.name = rows[id].name
    BY <1>5 DEF Inv, Kept, SafeCopy
  <2>2. t \in staged'
    BY <1>5, <2>1
  <2> QED
    BY <1>4, <1>10, <2>1, <2>2 DEF SafeCopy
<1>12. SubmittedInPlace'
  BY <1>4, <1>5 DEF Inv, SubmittedInPlace
<1>13. Holds(c)'
  <2>1. c.at = "restore" => Restoring(proc[p])
    BY <1>1, <1>7 DEF Holds
  <2>2. c.at = "restore" => Restoring(c)'
    BY <1>4, <1>5, <1>7, <2>1 DEF Restoring
  <2> QED
    BY <1>1, <1>7, <2>2 DEF Holds
<1>14. /\ rows' \in [Ids -> Row \cup {NoRow}] /\ expired' \subseteq Stored' /\ submitted' \subseteq Ops
       /\ files' \subseteq Contents /\ staged' \subseteq Tombstones
  BY <1>3, <1>4, <1>5 DEF Inv, Typed
<1> HIDE DEF Inv, WellFormed, LockMove, GateMove, Admitted, Kept, SubmittedInPlace, Holds
<1> QED
  BY <1>1, <1>7, <1>8, <1>9, <1>11, <1>12, <1>13, <1>14, StepKeeps

LEMMA CrashStep ==
  ASSUME Inv, NEW p \in Procs, Crash(p)
  PROVE  Inv'
<1>1. writer = p <=> proc[p].at \in Inside
  BY CallInPlace DEF Crash
<1>2. LockMove(p, Idle) /\ GateMove(p)
  BY <1>1 DEF Crash, LockMove, GateMove, Ends, Idle, Inside
<1> HIDE DEF Inv, LockMove, GateMove
<1> QED
  BY <1>2, CallRests DEF Crash

LEMMA OtherSteps ==
  ASSUME Inv, TimePasses \/ GateTurns \/ UNCHANGED vars
  PROVE  Inv'
<1>1. /\ UNCHANGED <<rows, submitted, files, staged, writer, proc>>
      /\ Stored' = Stored /\ Unclaimed' = Unclaimed
  BY DEF TimePasses, GateTurns, vars, storeVars, Stored, Unclaimed
<1>2. expired' \subseteq Stored
  BY DEF TimePasses, GateTurns, vars, storeVars, Inv, Typed
<1>3. Gated'
  <2>1. active' = active
    BY DEF TimePasses, GateTurns, vars, gateVars, Account, Shut, Confirm, Reopen
  <2>2. confirmed' => ~open' /\ active' = {}
    BY DEF TimePasses, GateTurns, vars, gateVars, Account, Shut, Confirm, Reopen, Quiet, Inv, Gated
  <2> QED
    BY <1>1, <2>1, <2>2 DEF Inv, Gated, Admitted
<1>4. Typed' /\ Locked' /\ SubmittedInPlace'
  BY <1>1, <1>2 DEF Inv, Typed, Locked, SubmittedInPlace
<1>5. \A name : SafeCopy(name)' <=> SafeCopy(name)
  BY <1>1 DEF SafeCopy, Doomed, At
<1>6. Kept'
  BY <1>1, <1>5 DEF Inv, Kept
<1>7. InProgress'
  <2> SUFFICES ASSUME NEW p \in Procs
               PROVE  Holds(proc[p])'
    BY DEF InProgress
  <2>1. Holds(proc[p])
    BY DEF Inv, InProgress
  <2> QED
    BY <1>1, <1>5, <2>1 DEF Holds, Staging, Inserting, Restoring
<1> QED
  BY <1>3, <1>4, <1>6, <1>7 DEF Inv

-----------------------------------------------------------------------------
LEMMA InitKeeps == Init => Inv
<1> SUFFICES ASSUME Init
             PROVE  Inv
  OBVIOUS
<1>1. Stored = {}
  BY DEF Init, Stored
<1>2. Idle.at = "idle" /\ \A p \in Procs : proc[p] = Idle
  BY DEF Init, Idle
<1>3. Typed
  BY <1>1, <1>2 DEF Init, Typed
<1>4. Locked
  BY <1>2, NobodyAssumption DEF Init, Locked, Inside, Nobody
<1>5. Gated
  BY <1>2 DEF Init, GateInit, Gated, Admitted
<1>6. Kept /\ SubmittedInPlace /\ InProgress
  BY <1>1, <1>2 DEF Kept, SubmittedInPlace, InProgress, Holds
<1> QED
  BY <1>3, <1>4, <1>5, <1>6 DEF Inv

LEMMA NextKeeps == Inv /\ [Next]_vars => Inv'
<1> SUFFICES ASSUME Inv, [Next]_vars
             PROVE  Inv'
  OBVIOUS
<1> HIDE DEF Inv
<1>1. ASSUME NEW p \in Procs, CleanupStep(p)
      PROVE  Inv'
  BY <1>1, CallsStep, EnterSteps, SelectStep, StageStep, CommitStep, AbortStep, UnlinkStep
     DEF CleanupStep
<1>2. ASSUME NEW p \in Procs, SaveStep(p)
      PROVE  Inv'
  BY <1>2, CallsStep, SaveSteps DEF SaveStep
<1>3. ASSUME NEW p \in Procs, SubmitStep(p)
      PROVE  Inv'
  BY <1>3, CallsStep, SubmitSteps DEF SubmitStep
<1>4. ASSUME NEW p \in Procs, StartStep(p)
      PROVE  Inv'
  BY <1>4, CallsStep, StartSteps DEF StartStep
<1>5. ASSUME NEW p \in Procs, OrderStep(p)
      PROVE  Inv'
  BY <1>5, OrderKeeps DEF OrderStep
<1> QED
  BY <1>1, <1>2, <1>3, <1>4, <1>5, RecoverStep, CrashStep, OtherSteps DEF Next

\* The inductive invariant of the upload store: types, who is in the transaction, who was
\* admitted, where the file of every row is, and what each call in progress relies on.
THEOREM UploadsInvariant == Spec => []Inv
<1> HIDE DEF Inv
<1> QED
  BY InitKeeps, NextKeeps, PTL DEF Spec

\* Every reachable state has its types; a call is inside the transaction exactly when its
\* process holds the lock, and a cleanup only runs admitted.
THEOREM UploadsTyped == Spec => []TypeOK
<1>1. Inv => TypeOK
  <2> SUFFICES ASSUME Inv
               PROVE  TypeOK
    OBVIOUS
  <2>1. ASSUME NEW p \in Procs, proc[p] # Idle
        PROVE  /\ proc[p].at \in Places
               /\ proc[p].at \in {"recover", "stage", "write", "insert", "restore", "sweep"}
                    <=> writer = p
               /\ proc[p].at \in {"lock", "recover", "stage", "unlink"} => p \in active
    <3>1. proc[p] \in CallRecords
      BY <2>1 DEF Inv, Typed
    <3> QED
      BY <2>1, <3>1 DEF Inv, Locked, Inside, Gated, Admitted, CallRecords
  <2> QED
    BY <2>1 DEF Inv, Typed, TypeOK, Stored
<1> HIDE DEF Inv
<1> QED
  BY <1>1, UploadsInvariant, PTL

\* The file of every row is in its place, or in .cleanup where the next recovery finds it,
\* however many processes clean up, save and submit, fail and die at once.
THEOREM UploadsAreKept == Spec => []UploadsKept
<1>1. Inv => UploadsKept
  BY DEF Inv, Kept, SafeCopy, UploadsKept
<1> HIDE DEF Inv
<1> QED
  BY <1>1, UploadsInvariant, PTL

\* What a submitted request refers to is in its place, whatever orders claim beside it.
THEOREM SubmittedStayInPlace == Spec => []SubmittedInPlace
<1>1. Inv => SubmittedInPlace
  BY DEF Inv
<1> HIDE DEF Inv
<1> QED
  BY <1>1, UploadsInvariant, PTL

-----------------------------------------------------------------------------
(* Claims are for good. *)

\* The id that a save is to insert is nobody else's: randomUUID.
Saving(p) == proc[p] # Idle /\ proc[p].then = "save"

Fresh ==
  \A p \in Procs : Saving(p) =>
    /\ proc[p].id \in Ids /\ rows[proc[p].id] = NoRow
    /\ \A q \in Procs \ {p} : Saving(q) => proc[q].id # proc[p].id

\* What a step of p may do: its save goes on under its id, or ends; only then its row appears.
Continued(p) ==
  /\ \A q \in Procs \ {p} : proc'[q] = proc[q]
  /\ Saving(p)' => Saving(p) /\ proc'[p].id = proc[p].id
  /\ \A id \in Ids : rows[id] = NoRow =>
       rows'[id] = NoRow \/ (Saving(p) /\ id = proc[p].id /\ ~Saving(p)')

LEMMA FreshStays ==
  ASSUME Fresh, NEW p \in Procs, Continued(p)
  PROVE  Fresh'
<1>1. \A q \in Procs : Saving(q)' => Saving(q) /\ proc'[q].id = proc[q].id
  BY DEF Continued, Saving
<1> SUFFICES ASSUME NEW q \in Procs, Saving(q)'
             PROVE  /\ proc'[q].id \in Ids /\ rows'[proc'[q].id] = NoRow
                    /\ \A r \in Procs \ {q} : Saving(r)' => proc'[r].id # proc'[q].id
  BY DEF Fresh, Saving
<1>2. /\ Saving(q) /\ proc'[q].id = proc[q].id
      /\ proc[q].id \in Ids /\ rows[proc[q].id] = NoRow
      /\ \A r \in Procs \ {q} : Saving(r) => proc[r].id # proc[q].id
  BY <1>1 DEF Fresh
<1>3. rows'[proc[q].id] = NoRow
  BY <1>2 DEF Continued
<1> QED
  BY <1>1, <1>2, <1>3

GoesOn(p) ==
  /\ \A q \in Procs \ {p} : proc'[q] = proc[q]
  /\ proc'[p] = Idle \/ (proc'[p].id = proc[p].id /\ proc'[p].then = proc[p].then)

\* A step in the middle of a call changes neither its id nor what it is to go on to.
LEMMA CallGoesOn ==
  ASSUME NEW p \in Procs, proc[p] # Idle, GoesOn(p), UNCHANGED rows
  PROVE  Continued(p)
  BY DEF GoesOn, Continued, Saving

IsOver(p) ==
  /\ \A q \in Procs \ {p} : proc'[q] = proc[q]
  /\ proc'[p] = Idle \/ proc'[p].then = "idle"

LEMMA CallIsOver ==
  ASSUME NEW p \in Procs, IsOver(p),
         \A id \in Ids : rows[id] = NoRow =>
           rows'[id] = NoRow \/ (Saving(p) /\ id = proc[p].id)
  PROVE  Continued(p)
  BY DEF IsOver, Continued, Saving

LEMMA FreshSave ==
  ASSUME Inv, Fresh, NEW p \in Procs, NEW id \in Ids, NEW op \in Ops, NEW name \in Contents,
         SaveCalled(p, id, op, name)
  PROVE  Fresh'
<1>1. PICK c : c = [Call("enter") EXCEPT !.then = "save", !.id = id,
                                        !.row = [op |-> op, name |-> name, claimed |-> "no"]]
  OBVIOUS
<1>2. c.id = id /\ c.then = "save"
  BY <1>1 DEF Call
<1>3. /\ proc'[p] = c /\ \A q \in Procs \ {p} : proc'[q] = proc[q]
      /\ rows' = rows /\ rows[id] = NoRow /\ \A q \in Procs : proc[q] # Idle => proc[q].id # id
  BY <1>1 DEF SaveCalled, storeVars, Inv, Typed
<1> QED
  BY <1>2, <1>3 DEF Fresh, Saving

LEMMA SavesGoOn ==
  ASSUME Inv, NEW p \in Procs,
         \/ EnterAdmitted(p) \/ EnterSkipped(p) \/ CleanupBegins(p) \/ CandidatesSelected(p)
         \/ \E name \in Contents : StageOne(p, name)
         \/ UnlinkOne(p) \/ CleanupEnds(p) \/ SaveBegins(p) \/ FileWritten(p) \/ SubmitBegins(p)
         \/ StartAdmitted(p) \/ StartBegins(p) \/ Recovers(p)
  PROVE  Continued(p)
<1>1. proc[p] # Idle /\ UNCHANGED rows
  BY NotIdle DEF EnterAdmitted, EnterSkipped, CleanupBegins, CandidatesSelected, StageOne,
    UnlinkOne, CleanupEnds, SaveBegins, FileWritten, SubmitBegins, StartAdmitted, StartBegins,
    Recovers, Places, storeVars
<1>2. proc[p] \in CallRecords
  BY <1>1, CallInPlace
<1>3. ASSUME EnterSkipped(p) \/ CleanupEnds(p)
      PROVE  GoesOn(p)
  <2>1. \/ proc' = [proc EXCEPT ![p].at = "save"]
        \/ proc' = [proc EXCEPT ![p] = Idle]
    BY <1>3 DEF EnterSkipped, CleanupEnds, Continues, Goes, Rests
  <2> QED
    BY <1>2, <2>1 DEF GoesOn, CallRecords, Inv, Typed
<1>4. ASSUME ~(EnterSkipped(p) \/ CleanupEnds(p))
      PROVE  GoesOn(p)
  <2>1. CASE EnterAdmitted(p)
    BY <1>2, <2>1 DEF EnterAdmitted, CallRecords, GoesOn, Inv, Typed
  <2>2. CASE CleanupBegins(p)
    BY <1>2, <2>2 DEF CleanupBegins, CallRecords, GoesOn, Inv, Typed
  <2>3. CASE CandidatesSelected(p)
    BY <1>2, <2>3 DEF CandidatesSelected, CallRecords, GoesOn, Inv, Typed
  <2>4. ASSUME NEW name \in Contents, StageOne(p, name)
        PROVE  GoesOn(p)
    <3>1. PICK c : /\ proc' = [proc EXCEPT ![p] = c]
                   /\ \/ \E s : c = [proc[p] EXCEPT !.todo = @ \ {name}, !.mine = @ \cup {s}]
                      \/ c = [proc[p] EXCEPT !.todo = @ \ {name}, !.failed = @ \cup {name}]
                      \/ c = [proc[p] EXCEPT !.todo = @ \ {name}]
      <4>1. \/ \E s : proc' = [proc EXCEPT ![p] =
                                  [proc[p] EXCEPT !.todo = @ \ {name}, !.mine = @ \cup {s}]]
            \/ proc' = [proc EXCEPT ![p] =
                           [proc[p] EXCEPT !.todo = @ \ {name}, !.failed = @ \cup {name}]]
            \/ proc' = [proc EXCEPT ![p] = [proc[p] EXCEPT !.todo = @ \ {name}]]
        BY <2>4, Zenon DEF StageOne
      <4> QED
        BY <4>1
    <3>2. c.id = proc[p].id /\ c.then = proc[p].then
      BY <1>2, <3>1 DEF CallRecords
    <3> QED
      BY <3>1, <3>2 DEF GoesOn, Inv, Typed
  <2>5. CASE UnlinkOne(p)
    BY <1>2, <2>5 DEF UnlinkOne, CallRecords, GoesOn, Inv, Typed
  <2>6. CASE SaveBegins(p)
    BY <1>2, <2>6 DEF SaveBegins, Goes, CallRecords, GoesOn, Inv, Typed
  <2>7. CASE FileWritten(p)
    BY <1>2, <2>7 DEF FileWritten, CallRecords, GoesOn, Inv, Typed
  <2>8. CASE SubmitBegins(p)
    BY <1>2, <2>8 DEF SubmitBegins, CallRecords, GoesOn, Inv, Typed
  <2>9. CASE StartAdmitted(p)
    BY <1>2, <2>9 DEF StartAdmitted, CallRecords, GoesOn, Inv, Typed
  <2>10. CASE StartBegins(p)
    BY <1>2, <2>10 DEF StartBegins, CallRecords, GoesOn, Inv, Typed
  <2>11. CASE Recovers(p)
    <3>1. PICK s : RecoverOne(p, s)
      BY <2>11 DEF Recovers
    <3> QED
      BY <1>2, <3>1 DEF RecoverOne, CallRecords, GoesOn, Inv, Typed
  <2> QED
    BY <1>4, <2>1, <2>2, <2>3, <2>4, <2>5, <2>6, <2>7, <2>8, <2>9, <2>10, <2>11
<1> QED
  BY <1>1, <1>3, <1>4, CallGoesOn

LEMMA SavesEnd ==
  ASSUME Inv, NEW p \in Procs,
         \/ CleanupCalled(p) \/ StoreOpens(p)
         \/ \E op \in Ops, ids \in SUBSET Ids, valid \in BOOLEAN : SubmitCalled(p, op, ids, valid)
         \/ CleanupAborts(p) \/ SaveRefused(p) \/ RowCommitted(p) \/ RowFails(p)
         \/ SubmitUnrestored(p) \/ SubmitCommits(p) \/ SubmitUnavailable(p) \/ SubmitFails(p)
         \/ StartEnds(p) \/ Crash(p)
  PROVE  Continued(p)
<1>1. CASE RowCommitted(p)
  <2>1. proc[p] # Idle /\ proc[p].at = "insert"
    BY <1>1, NotIdle DEF RowCommitted, At, Places
  <2>2. proc[p].then = "save"
    BY <2>1, CallInPlace DEF WellFormed
  <2>3. \A id \in Ids : id # proc[p].id => rows'[id] = rows[id]
    BY <1>1 DEF RowCommitted, Inv, Typed
  <2> QED
    BY <1>1, <2>1, <2>2, <2>3, CallIsOver DEF RowCommitted, Rests, Saving, IsOver, Inv, Typed
<1>2. CASE SubmitCommits(p)
  <2>1. \A id \in Ids : rows[id] = NoRow => rows'[id] = NoRow
    <3>1. proc[p].ids \subseteq Stored /\ rows' = Claimed(proc[p].ids, "request") /\ "request" \in Claims
      BY <1>2 DEF SubmitCommits, MayClaim, Available, Unclaimed, Claims
    <3> QED
      BY <3>1, ClaimedRows DEF Stored
  <2> QED
    BY <1>2, <2>1, CallIsOver DEF SubmitCommits, CleansUp, Call, IsOver, Inv, Typed
<1>3. CASE ~RowCommitted(p) /\ ~SubmitCommits(p)
  <2>1. UNCHANGED rows
    BY <1>3 DEF CleanupCalled, StoreOpens, SubmitCalled, CleanupAborts, SaveRefused, RowFails,
      SubmitUnrestored, SubmitUnavailable, SubmitFails, StartEnds, Crash, storeVars
  <2>2. IsOver(p)
    <3>1. CASE CleanupCalled(p) \/ StoreOpens(p) \/ SubmitUnavailable(p)
      <4>1. PICK c : proc' = [proc EXCEPT ![p] = c] /\ c.then = "idle"
        <5>1. CASE CleanupCalled(p)
          <6>1. [Call("enter") EXCEPT !.recover = TRUE].then = "idle"
            BY DEF Call
          <6> QED
            BY <5>1, <6>1 DEF CleanupCalled
        <5>2. CASE StoreOpens(p)
          <6>1. Call("start").then = "idle"
            BY DEF Call
          <6> QED
            BY <5>2, <6>1 DEF StoreOpens
        <5>3. CASE SubmitUnavailable(p)
          <6>1. [Call("enter") EXCEPT !.op = proc[p].op, !.recover = TRUE].then = "idle"
            BY DEF Call
          <6> QED
            BY <5>3, <6>1 DEF SubmitUnavailable, CleansUp
        <5> QED
          BY <3>1, <5>1, <5>2, <5>3
      <4> QED
        BY <4>1 DEF IsOver, Inv, Typed
    <3>2. ASSUME NEW op \in Ops, NEW ids \in SUBSET Ids, NEW valid \in BOOLEAN,
                 SubmitCalled(p, op, ids, valid)
          PROVE  IsOver(p)
      <4>1. PICK c : proc' = [proc EXCEPT ![p] = c] /\ c.then = "idle"
        <5>1. PICK place : place = IF valid THEN "submit" ELSE "enter"
          OBVIOUS
        <5>2. PICK recover \in BOOLEAN : recover = (~valid)
          OBVIOUS
        <5>3. PICK c : c = [Call(place) EXCEPT !.op = op, !.ids = ids, !.recover = recover]
          OBVIOUS
        <5>4. proc' = [proc EXCEPT ![p] = c]
          BY <3>2, <5>1, <5>2, <5>3 DEF SubmitCalled
        <5>5. c.then = "idle"
          BY <5>3 DEF Call
        <5> QED
          BY <5>4, <5>5
      <4> QED
        BY <4>1 DEF IsOver, Inv, Typed
    <3>3. CASE CleanupAborts(p) \/ SaveRefused(p) \/ RowFails(p) \/ SubmitUnrestored(p)
               \/ SubmitFails(p) \/ StartEnds(p) \/ Crash(p)
      BY <3>3 DEF CleanupAborts, SaveRefused, RowFails, SubmitUnrestored, SubmitFails, StartEnds,
        Crash, Rests, IsOver, Inv, Typed
    <3> QED
      BY <1>3, <3>1, <3>2, <3>3
  <2> QED
    BY <2>1, <2>2, CallIsOver
<1> QED
  BY <1>1, <1>2, <1>3

LEMMA CommitContinues ==
  ASSUME Inv, NEW p \in Procs, CleanupCommits(p)
  PROVE  Continued(p)
<1>1. proc[p] \in CallRecords
  BY NotIdle, CallInPlace DEF CleanupCommits, Places
<1>2. PICK c : /\ c = [proc[p] EXCEPT !.at = "unlink", !.failed = {}]
               /\ proc' = [proc EXCEPT ![p] = c]
  BY DEF CleanupCommits
<1>3. c.id = proc[p].id /\ c.then = proc[p].then /\ proc[p] # Idle
  BY <1>1, <1>2, NotIdle DEF CallRecords, CleanupCommits, Places
<1>4. \A id \in Ids : rows'[id] \in {rows[id], NoRow}
  BY DEF CleanupCommits
<1> QED
  BY <1>2, <1>3, <1>4 DEF Continued, Saving, Inv, Typed

LEMMA NextFresh == Inv /\ Fresh /\ [Next]_vars => Fresh'
<1> SUFFICES ASSUME Inv, Fresh, [Next]_vars
             PROVE  Fresh'
  OBVIOUS
<1> HIDE DEF Inv, Fresh
<1>1. ASSUME NEW p \in Procs, OrderStep(p)
      PROVE  Fresh'
  <2>1. PICK ids \in SUBSET Stored : rows' = Claimed(ids, "order") /\ UNCHANGED proc
    BY <1>1 DEF OrderStep, OrderCommits, Available, Unclaimed
  <2>2. \A id \in Ids : rows[id] = NoRow => rows'[id] = NoRow
    BY <2>1, ClaimedRows DEF Claims, Stored
  <2> QED
    BY <2>1, <2>2 DEF Fresh, Saving
<1>2. CASE TimePasses \/ GateTurns \/ UNCHANGED vars
  BY <1>2 DEF TimePasses, GateTurns, vars, storeVars, Fresh, Saving
<1>3. ASSUME NEW p \in Procs, CleanupStep(p) \/ SaveStep(p) \/ SubmitStep(p) \/ StartStep(p)
                              \/ Recovers(p) \/ Crash(p)
      PROVE  Fresh'
  <2>1. CASE \E id \in Ids, op \in Ops, name \in Contents : SaveCalled(p, id, op, name)
    BY <2>1, FreshSave
  <2>2. CASE ~\E id \in Ids, op \in Ops, name \in Contents : SaveCalled(p, id, op, name)
    BY <1>3, <2>2, SavesGoOn, SavesEnd, CommitContinues, FreshStays
       DEF CleanupStep, SaveStep, SubmitStep, StartStep
  <2> QED
    BY <2>1, <2>2
<1> QED
  BY <1>1, <1>2, <1>3 DEF Next

\* A row that a request or an order has claimed is not deleted, claimed or written again, by
\* whatever selected it, found it free or saves beside it.
THEOREM ClaimsAreForGood == Spec => ClaimsStay
<1> DEFINE Stays == \A id \in Stored : rows[id].claimed # "no" => rows'[id] = rows[id]
<1>1. ASSUME Inv, Fresh, Next
      PROVE  Stays
  <2>1. CASE UNCHANGED rows
    BY <2>1
  <2>2. ASSUME NEW p \in Procs, CleanupCommits(p)
        PROVE  Stays
    <3>1. proc[p].ids \subseteq Unclaimed
      BY <1>1, <2>2, NotIdle, CallInPlace DEF CleanupCommits, At, Places, Holds, Staging
    <3> QED
      BY <2>2, <3>1 DEF CleanupCommits, Unclaimed, Stored
  <2>3. ASSUME NEW p \in Procs, RowCommitted(p)
        PROVE  Stays
    <3>1. proc[p] # Idle /\ proc[p].then = "save"
      BY <1>1, <2>3, NotIdle, CallInPlace DEF RowCommitted, At, Places, WellFormed
    <3>2. rows[proc[p].id] = NoRow
      BY <1>1, <3>1 DEF Fresh, Saving
    <3> QED
      BY <1>1, <2>3, <3>2 DEF RowCommitted, Stored, Inv, Typed
  <2>4. ASSUME NEW p \in Procs, SubmitCommits(p) \/ OrderStep(p)
        PROVE  Stays
    <3>1. PICK ids \in SUBSET Unclaimed, by \in Claims : rows' = Claimed(ids, by)
      <4>1. ASSUME SubmitCommits(p)
            PROVE  proc[p].ids \subseteq Unclaimed /\ rows' = Claimed(proc[p].ids, "request")
        BY <4>1 DEF SubmitCommits, MayClaim, Available
      <4>2. ASSUME NEW op \in Ops, NEW ids \in SUBSET Ids, OrderCommits(p, op, ids)
            PROVE  ids \subseteq Unclaimed /\ rows' = Claimed(ids, "order")
        BY <4>2 DEF OrderCommits, Available
      <4> QED
        BY <2>4, <4>1, <4>2 DEF OrderStep, Claims
    <3>2. \A id \in Ids \ ids : rows'[id] = rows[id]
      BY <1>1, <3>1, ClaimedRows DEF Unclaimed
    <3> QED
      BY <3>1, <3>2 DEF Unclaimed, Stored
  <2> HIDE DEF Stays, Inv, Fresh
  <2>5. ASSUME NEW p \in Procs, CleanupStep(p)
        PROVE  Stays
    <3>1. CASE CleanupCommits(p)
      BY <2>2, <3>1
    <3> QED
      BY <2>1, <2>5, <3>1 DEF CleanupStep, CleanupCalled, EnterAdmitted, EnterSkipped,
        CleanupBegins, CandidatesSelected, StageOne, CleanupAborts, UnlinkOne, CleanupEnds, storeVars
  <2>6. ASSUME NEW p \in Procs, SaveStep(p)
        PROVE  Stays
    BY <2>1, <2>3, <2>6 DEF SaveStep, SaveCalled, SaveBegins, SaveRefused, FileWritten, RowFails,
                            storeVars
  <2>7. ASSUME NEW p \in Procs, \/ SubmitStep(p) \/ OrderStep(p) \/ StartStep(p) \/ Recovers(p)
                                \/ Crash(p)
        PROVE  Stays
    BY <2>1, <2>4, <2>7 DEF SubmitStep, SubmitCalled, SubmitBegins, SubmitUnrestored,
      SubmitUnavailable, SubmitFails, StartStep, StoreOpens, StartAdmitted, StartBegins, StartEnds,
      Recovers, Crash, storeVars
  <2>8. CASE TimePasses \/ GateTurns
    BY <2>1, <2>8 DEF TimePasses, GateTurns, storeVars
  <2> QED
    BY <1>1, <2>5, <2>6, <2>7, <2>8 DEF Next
<1>2. Inv /\ Fresh /\ [Next]_vars => [Stays]_vars
  BY <1>1
<1>3. Init => Fresh
  BY DEF Init, Fresh, Saving
<1> HIDE DEF Inv, Fresh, Stays
<1>4. Spec => []Fresh
  BY <1>3, NextFresh, UploadsInvariant, PTL DEF Spec
<1>5. Spec => [][Stays]_vars
  BY <1>2, <1>4, UploadsInvariant, PTL DEF Spec
<1> QED
  BY <1>5 DEF Stays, ClaimsStay

-----------------------------------------------------------------------------
\* While a disable is confirmed no row and no file is deleted.
THEOREM ClosedGateDeletesNothing == Spec => NothingDeletedWhenClosed
<1> DEFINE Spared == confirmed => /\ \A id \in Stored : rows'[id] # NoRow
                                  /\ \A s \in staged \ staged' : s.name \in files' \ files
<1>1. ASSUME Inv, Next, confirmed
      PROVE  Spared
  <2>1. active = {}
    BY <1>1 DEF Inv, Gated
  <2>2. CASE UNCHANGED <<rows, staged>>
    BY <2>2 DEF Stored
  <2>3. ASSUME NEW p \in Procs, NEW name \in Contents, StageOne(p, name)
        PROVE  Spared
    <3>1. UNCHANGED rows /\ staged \subseteq staged'
      BY <2>3 DEF StageOne
    <3> QED
      BY <3>1 DEF Stored
  <2>4. ASSUME NEW p \in Procs, CleanupCommits(p) \/ CleanupAborts(p) \/ UnlinkOne(p)
        PROVE  FALSE
    <3>1. proc[p] # Idle
      BY <2>4, NotIdle DEF CleanupCommits, CleanupAborts, UnlinkOne, Places
    <3>2. Admitted(p, proc[p])
      BY <1>1, <3>1, CallInPlace
    <3> QED
      BY <2>1, <2>4, <3>2 DEF Admitted, CleanupCommits, CleanupAborts, UnlinkOne, At
  <2>5. ASSUME NEW p \in Procs, RowCommitted(p)
        PROVE  Spared
    <3>1. proc[p] # Idle /\ proc[p].at = "insert"
      BY <2>5, NotIdle DEF RowCommitted, Places, At
    <3>2. WellFormed(proc[p])
      BY <1>1, <3>1, CallInPlace
    <3>3. proc[p].row \in Row
      BY <3>1, <3>2 DEF WellFormed
    <3>4. \A id \in Ids : rows'[id] = rows[id] \/ rows'[id] = proc[p].row
      BY <1>1, <2>5 DEF RowCommitted, Inv, Typed
    <3> QED
      BY <2>5, <3>3, <3>4, Distinct DEF RowCommitted, Stored
  <2>6. ASSUME NEW p \in Procs, SubmitCommits(p) \/ OrderStep(p)
        PROVE  Spared
    <3>1. PICK ids \in SUBSET Stored, by \in Claims : rows' = Claimed(ids, by)
      <4>1. ASSUME SubmitCommits(p)
            PROVE  proc[p].ids \subseteq Stored /\ rows' = Claimed(proc[p].ids, "request")
        BY <4>1 DEF SubmitCommits, MayClaim, Available, Unclaimed
      <4>2. ASSUME NEW op \in Ops, NEW ids \in SUBSET Ids, OrderCommits(p, op, ids)
            PROVE  ids \subseteq Stored /\ rows' = Claimed(ids, "order")
        BY <4>2 DEF OrderCommits, Available, Unclaimed
      <4> QED
        BY <2>6, <4>1, <4>2 DEF OrderStep, Claims
    <3>2. Stored' = Stored
      BY <1>1, <3>1, ClaimedRows
    <3>3. UNCHANGED staged
      BY <2>6 DEF SubmitCommits, OrderStep, OrderCommits
    <3> QED
      BY <3>2, <3>3 DEF Stored
  <2>7. ASSUME NEW p \in Procs, Recovers(p)
        PROVE  Spared
    <3>1. proc[p] # Idle /\ UNCHANGED rows
      BY <2>7 DEF Recovers
    <3>2. ~proc[p].delete
      <4>1. WellFormed(proc[p]) /\ Admitted(p, proc[p])
        BY <1>1, <3>1, CallInPlace
      <4> QED
        BY <2>1, <2>7, <4>1 DEF Recovers, WellFormed, Admitted
    <3>3. PICK s \in proc[p].todo : RecoverOne(p, s)
      BY <2>7 DEF Recovers
    <3>4. \A t \in staged \ staged' : t.name \in files' \ files
      BY <3>2, <3>3 DEF RecoverOne
    <3> QED
      BY <3>1, <3>4 DEF Stored
  <2> HIDE DEF Spared, Inv
  <2>8. ASSUME NEW p \in Procs, CleanupStep(p)
        PROVE  Spared
    <3>1. CASE \E name \in Contents : StageOne(p, name)
      BY <2>3, <3>1
    <3>2. CASE CleanupCommits(p) \/ CleanupAborts(p) \/ UnlinkOne(p)
      BY <2>4, <3>2
    <3> QED
      BY <2>2, <2>8, <3>1, <3>2 DEF CleanupStep, CleanupCalled, EnterAdmitted, EnterSkipped,
        CleanupBegins, CandidatesSelected, CleanupEnds, storeVars
  <2>9. ASSUME NEW p \in Procs, SaveStep(p)
        PROVE  Spared
    BY <2>2, <2>5, <2>9 DEF SaveStep, SaveCalled, SaveBegins, SaveRefused, FileWritten, RowFails,
                            storeVars
  <2>10. ASSUME NEW p \in Procs, SubmitStep(p) \/ OrderStep(p) \/ StartStep(p) \/ Crash(p)
         PROVE  Spared
    BY <2>2, <2>6, <2>10 DEF SubmitStep, SubmitCalled, SubmitBegins, SubmitUnrestored,
      SubmitUnavailable, SubmitFails, StartStep, StoreOpens, StartAdmitted, StartBegins, StartEnds,
      Crash, storeVars
  <2>11. CASE TimePasses \/ GateTurns
    BY <2>2, <2>11 DEF TimePasses, GateTurns, storeVars
  <2> QED
    BY <1>1, <2>7, <2>8, <2>9, <2>10, <2>11 DEF Next
<1>2. Inv /\ [Next]_vars => [Spared]_vars
  BY <1>1
<1> HIDE DEF Inv, Spared
<1>3. Spec => [][Spared]_vars
  BY <1>2, UploadsInvariant, PTL DEF Spec
<1> QED
  BY <1>3 DEF Spared, NothingDeletedWhenClosed

=============================================================================
