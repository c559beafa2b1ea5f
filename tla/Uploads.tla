------------------------------- MODULE Uploads -------------------------------
(***************************************************************************)
(* Uploaded files and their rows.  A row of `uploads` names its content; a *)
(* content is one file, shared by all rows that name it.  The server and   *)
(* the maintenance script save, claim and clean up uploads in IMMEDIATE    *)
(* transactions, which exclude each other but do not cover the files: a    *)
(* cleanup moves a file aside before it commits and deletes it after, and  *)
(* a process may die, or a file operation fail, anywhere in between.       *)
(*                                                                         *)
(* A file torn by a crash or by a write that fails midway counts as        *)
(* present: neither saveUpload nor the cleanup looks inside.               *)
(*                                                                         *)
(* Two programs claim uploads: the submission of a request, which restores *)
(* the files in .cleanup first, and an order of business V3, one           *)
(* transaction that does not look at files.                                *)
(***************************************************************************)
EXTENDS CleanupGate, Naturals

CONSTANTS
  Ids,       \* uploads.id
  Ops,       \* operation_id
  Contents,  \* uploads.stored_name
  MaxStaged  \* bound: files of one content moved aside at the same time

ASSUME NobodyAssumption == "nobody" \notin Procs

VARIABLES
  rows,      \* committed rows of uploads
  expired,   \* rows older than orphanMaxAgeMs
  submitted, \* operations whose request was submitted or whose order was created
  files,     \* contents present in the upload root
  staged,    \* files in .cleanup
  writer,    \* the process inside BEGIN IMMEDIATE
  proc       \* per process: the call it is executing

storeVars == <<rows, expired, submitted, files, staged, writer>>
vars == <<storeVars, proc, gateVars>>

NoRow == [op |-> "none"]
NoOp == "none"
Nobody == "nobody"
Claims == {"no", "request", "order"}
Row == [op : Ops, name : Contents, claimed : Claims]
Tombstones == [name : Contents, tag : 1 .. MaxStaged]

Idle == [at |-> "idle"]

\* One call: op, id, row and ids are its arguments; a cleanup takes the rows of op, or the
\* expired ones if op is NoOp, and keeps in ids those it selected; todo is what its current
\* loop has left; mine the files it moved aside; failed the contents whose file operation
\* failed; created whether it made the file.
Call(place) ==
  [at |-> place, then |-> "idle", op |-> NoOp, id |-> NoOp, row |-> NoRow, ids |-> {},
   recover |-> FALSE, delete |-> FALSE, todo |-> {}, mine |-> {}, failed |-> {},
   created |-> FALSE]

Places == {"enter", "lock", "recover", "stage", "unlink", "save", "write", "insert",
           "submit", "restore", "start", "sweep"}

TypeOK ==
  /\ rows \in [Ids -> Row \cup {NoRow}]
  /\ expired \subseteq {id \in Ids : rows[id] # NoRow}
  /\ submitted \subseteq Ops
  /\ files \subseteq Contents
  /\ staged \subseteq Tombstones
  /\ writer \in Procs \cup {Nobody}
  /\ \A p \in Procs : proc[p] = Idle \/
       /\ proc[p].at \in Places
       /\ proc[p].at \in {"recover", "stage", "write", "insert", "restore", "sweep"}
            <=> writer = p
       /\ proc[p].at \in {"lock", "recover", "stage", "unlink"} => p \in active

Init ==
  /\ GateInit
  /\ rows = [id \in Ids |-> NoRow]
  /\ expired = {}
  /\ submitted = {}
  /\ files = {}
  /\ staged = {}
  /\ writer = Nobody
  /\ proc = [p \in Procs |-> Idle]

-----------------------------------------------------------------------------
Stored == {id \in Ids : rows[id] # NoRow}
Referenced(name) == \E id \in Stored : rows[id].name = name
At(p, place) == proc[p].at = place

Goes(p, place) == proc' = [proc EXCEPT ![p].at = place]
Rests(p) == proc' = [proc EXCEPT ![p] = Idle]

\* Mutant: BEGIN without IMMEDIATE takes no lock.
BeginsDeferred(p) == writer' = p

Begins(p) == writer = Nobody /\ writer' = p

Ends(p) == writer' = Nobody

\* The call ends with cleanupOrphanUploads(op).
CleansUp(p, op) ==
  proc' = [proc EXCEPT ![p] = [Call("enter") EXCEPT
             !.op = op, !.recover = TRUE]]

-----------------------------------------------------------------------------
(* The calls. *)

\* The interval timer, the startup of the server or the maintenance script.
CleanupCalled(p) ==
  /\ proc[p] = Idle
  /\ proc' = [proc EXCEPT ![p] = [Call("enter") EXCEPT !.recover = TRUE]]
  /\ UNCHANGED <<storeVars, gateVars>>

SaveCalled(p, id, op, name) ==
  /\ proc[p] = Idle
  /\ \A q \in Procs : proc[q] # Idle => proc[q].id # id
  /\ rows[id] = NoRow
  /\ proc' = [proc EXCEPT ![p] = [Call("enter") EXCEPT
                !.then = "save", !.id = id,
                !.row = [op |-> op, name |-> name, claimed |-> "no"]]]
  /\ UNCHANGED <<storeVars, gateVars>>

\* A submission that fails validation only cleans up after its operation.
SubmitCalled(p, op, ids, valid) ==
  /\ proc[p] = Idle
  /\ valid => op \notin submitted
  /\ proc' = [proc EXCEPT ![p] = [Call(IF valid THEN "submit" ELSE "enter") EXCEPT
                !.op = op, !.ids = ids, !.recover = ~valid]]
  /\ UNCHANGED <<storeVars, gateVars>>

StoreOpens(p) ==
  /\ proc[p] = Idle
  /\ proc' = [proc EXCEPT ![p] = Call("start")]
  /\ UNCHANGED <<storeVars, gateVars>>

-----------------------------------------------------------------------------
(* Recovery of files moved aside, one entry of the directory at a time. *)

\* The tombstone of a content that is referenced and has no file is renamed back, any other
\* is deleted, if this run may.  A rename fails when another process has meanwhile finished
\* deleting the tombstone, or for reasons of its own.
RecoverOne(p, s) ==
  /\ s \in proc[p].todo
  /\ IF Referenced(s.name) /\ s.name \notin files
     THEN \/ /\ s \in staged
             /\ staged' = staged \ {s}
             /\ files' = files \cup {s.name}
             /\ proc' = [proc EXCEPT ![p].todo = @ \ {s}]
          \/ /\ UNCHANGED <<staged, files>>
             /\ proc' = [proc EXCEPT ![p].todo = @ \ {s}, ![p].failed = @ \cup {s.name}]
     ELSE /\ staged' = IF proc[p].delete THEN staged \ {s} ELSE staged
          /\ UNCHANGED files
          /\ proc' = [proc EXCEPT ![p].todo = @ \ {s}]

Recovers(p) ==
  /\ proc[p] # Idle /\ proc[p].at \in {"recover", "restore", "sweep"}
  /\ \E s \in proc[p].todo : RecoverOne(p, s)
  /\ UNCHANGED <<rows, expired, submitted, writer, gateVars>>

\* The store opens: recovery deletes only inside an admitted run.
StartAdmitted(p) ==
  /\ At(p, "start")
  /\ ~proc[p].delete
  /\ Admit(p)
  /\ proc' = [proc EXCEPT ![p].delete = TRUE]
  /\ UNCHANGED storeVars

\* Mutant: recovery at startup deletes whether or not it was admitted.
StartBeginsDeleting(p) ==
  /\ At(p, "start")
  /\ Begins(p)
  /\ proc' = [proc EXCEPT ![p].at = "sweep", ![p].todo = staged, ![p].delete = TRUE]
  /\ UNCHANGED <<rows, expired, submitted, files, staged, gateVars>>

StartBegins(p) ==
  /\ At(p, "start")
  /\ Begins(p)
  /\ proc' = [proc EXCEPT ![p].at = "sweep", ![p].todo = staged]
  /\ UNCHANGED <<rows, expired, submitted, files, staged, gateVars>>

StartEnds(p) ==
  /\ At(p, "sweep") /\ proc[p].todo = {}
  /\ Ends(p)
  /\ Rests(p)
  /\ IF proc[p].delete THEN Finish(p) ELSE UNCHANGED gateVars
  /\ UNCHANGED <<rows, expired, submitted, files, staged>>

-----------------------------------------------------------------------------
(* Cleanup of orphans. *)

\* After a cleanup that was skipped or has finished, the call goes on.
Continues(p) == IF proc[p].then = "save" THEN Goes(p, "save") ELSE Rests(p)

EnterAdmitted(p) ==
  /\ At(p, "enter")
  /\ Admit(p)
  /\ proc' = [proc EXCEPT ![p].at = "lock", ![p].delete = TRUE]
  /\ UNCHANGED storeVars

\* The gate is closed, or another process is at it: the cleanup is skipped.
EnterSkipped(p) ==
  /\ At(p, "enter")
  /\ Continues(p)
  /\ UNCHANGED <<storeVars, gateVars>>

CleanupBegins(p) ==
  /\ At(p, "lock")
  /\ Begins(p)
  /\ proc' = [proc EXCEPT ![p].at = "recover",
                          ![p].todo = IF proc[p].recover THEN staged ELSE {}]
  /\ UNCHANGED <<rows, expired, submitted, files, staged, gateVars>>

Unclaimed == {id \in Stored : rows[id].claimed = "no"}

Candidates(p) ==
  IF proc[p].op = NoOp THEN Unclaimed \cap expired
  ELSE {id \in Unclaimed : rows[id].op = proc[p].op}

\* Tombstones that a cleanup has yet to delete; a new one has a name of its own.
InHand == UNION {proc[q].mine : q \in {q \in Procs : proc[q] # Idle}}

\* The contents that no row but the candidates names.
ToStage(p) ==
  {rows[id].name : id \in Candidates(p)} \ {rows[id].name : id \in Stored \ Candidates(p)}

CandidatesSelected(p) ==
  /\ At(p, "recover") /\ proc[p].todo = {}
  /\ proc' = [proc EXCEPT ![p].at = "stage", ![p].todo = ToStage(p), ![p].failed = {},
                          ![p].ids = Candidates(p)]
  /\ UNCHANGED <<storeVars, gateVars>>

\* A missing file is no error; a rename that fails otherwise keeps the rows of its content.
StageOne(p, name) ==
  /\ At(p, "stage") /\ name \in proc[p].todo
  /\ \/ /\ name \in files
        /\ \E tag \in 1 .. MaxStaged :
             LET s == [name |-> name, tag |-> tag]
             IN /\ s \notin staged \cup InHand
                /\ staged' = staged \cup {s}
                /\ files' = files \ {name}
                /\ proc' = [proc EXCEPT ![p].todo = @ \ {name}, ![p].mine = @ \cup {s}]
     \/ /\ name \in files
        /\ proc' = [proc EXCEPT ![p].todo = @ \ {name}, ![p].failed = @ \cup {name}]
        /\ UNCHANGED <<files, staged>>
     \/ /\ name \notin files
        /\ proc' = [proc EXCEPT ![p].todo = @ \ {name}]
        /\ UNCHANGED <<files, staged>>
  /\ UNCHANGED <<rows, expired, submitted, writer, gateVars>>

CleanupCommits(p) ==
  /\ At(p, "stage") /\ proc[p].todo = {}
  /\ LET gone == {id \in proc[p].ids : rows[id].name \notin proc[p].failed}
     IN /\ rows' = [id \in Ids |-> IF id \in gone THEN NoRow ELSE rows[id]]
        /\ expired' = expired \ gone
  /\ Ends(p)
  /\ proc' = [proc EXCEPT ![p].at = "unlink", ![p].failed = {}]
  /\ UNCHANGED <<submitted, files, staged, gateVars>>

\* A statement or the commit throws: what was moved aside is moved back where that works,
\* then the transaction is rolled back, and the exception ends the whole call.
CleanupAborts(p) ==
  /\ At(p, "recover") \/ At(p, "stage")
  /\ \E back \in SUBSET proc[p].mine :
       /\ \A s \in back : s.name \notin files
       /\ files' = files \cup {s.name : s \in back}
       /\ staged' = staged \ back
  /\ Ends(p)
  /\ Finish(p)
  /\ Rests(p)
  /\ UNCHANGED <<rows, expired, submitted>>

\* After the commit the files are deleted; one that cannot be stays as a tombstone.
UnlinkOne(p) ==
  /\ At(p, "unlink")
  /\ \E s \in proc[p].mine :
       /\ staged' \in {staged, staged \ {s}}
       /\ proc' = [proc EXCEPT ![p].mine = @ \ {s}]
  /\ UNCHANGED <<rows, expired, submitted, files, writer, gateVars>>

CleanupEnds(p) ==
  /\ At(p, "unlink") /\ proc[p].mine = {}
  /\ Finish(p)
  /\ Continues(p)
  /\ UNCHANGED storeVars

-----------------------------------------------------------------------------
(* Saving an upload, after its cleanup. *)

SaveBegins(p) ==
  /\ At(p, "save")
  /\ Begins(p)
  /\ Goes(p, "write")
  /\ UNCHANGED <<rows, expired, submitted, files, staged, gateVars>>

\* The operation has been submitted, has this upload already, or is at its limits; or the
\* write fails: a file it had begun is not removed.
SaveRefused(p) ==
  /\ At(p, "write")
  /\ files' \in {files, files \cup {proc[p].row.name}}
  /\ Ends(p)
  /\ Rests(p)
  /\ UNCHANGED <<rows, expired, submitted, staged, gateVars>>

\* O_EXCL: a file that is there already is taken as this content.
FileWritten(p) ==
  /\ At(p, "write")
  /\ files' = files \cup {proc[p].row.name}
  /\ proc' = [proc EXCEPT ![p].at = "insert", ![p].created = proc[p].row.name \notin files]
  /\ UNCHANGED <<rows, expired, submitted, staged, writer, gateVars>>

RowCommitted(p) ==
  /\ At(p, "insert")
  /\ rows' = [rows EXCEPT ![proc[p].id] = proc[p].row]
  /\ Ends(p)
  /\ Rests(p)
  /\ UNCHANGED <<expired, submitted, files, staged, gateVars>>

\* Mutant: the file is removed whether or not this call made it.
TakenBackAny(p) == {proc[p].row.name}

TakenBack(p) == IF proc[p].created THEN {proc[p].row.name} ELSE {}

\* A statement or the commit throws; a file this call made is removed again if that works,
\* and it is not attempted when it is the commit.
RowFails(p) ==
  /\ At(p, "insert")
  /\ files' \in {files, files \ TakenBack(p)}
  /\ Ends(p)
  /\ Rests(p)
  /\ UNCHANGED <<rows, expired, submitted, staged, gateVars>>

-----------------------------------------------------------------------------
(* Submitting a request. *)

Claimed(ids, by) ==
  [id \in Ids |-> IF id \in ids THEN [rows[id] EXCEPT !.claimed = by] ELSE rows[id]]

Available(ids, op) == \A id \in ids : id \in Unclaimed /\ rows[id].op = op

SubmitBegins(p) ==
  /\ At(p, "submit")
  /\ Begins(p)
  /\ proc' = [proc EXCEPT ![p].at = "restore", ![p].todo = staged]
  /\ UNCHANGED <<rows, expired, submitted, files, staged, gateVars>>

SubmitDecided(p) == At(p, "restore") /\ proc[p].todo = {}

\* UPLOAD_RECOVERY_FAILED
SubmitUnrestored(p) ==
  /\ SubmitDecided(p)
  /\ proc[p].failed # {}
  /\ Ends(p)
  /\ Rests(p)
  /\ UNCHANGED <<rows, expired, submitted, files, staged, gateVars>>

\* Mutant: a recovery that failed does not stop the submission.
MayClaimUnrestored(p) == Available(proc[p].ids, proc[p].op)

MayClaim(p) == proc[p].failed = {} /\ Available(proc[p].ids, proc[p].op)

SubmitCommits(p) ==
  /\ SubmitDecided(p)
  /\ proc[p].op \notin submitted
  /\ MayClaim(p)
  /\ rows' = Claimed(proc[p].ids, "request")
  /\ submitted' = submitted \cup {proc[p].op}
  /\ Ends(p)
  /\ CleansUp(p, proc[p].op)
  /\ UNCHANGED <<expired, files, staged, gateVars>>

\* INVALID_UPLOAD_REFERENCE
SubmitUnavailable(p) ==
  /\ SubmitDecided(p)
  /\ proc[p].failed = {}
  /\ ~MayClaim(p)
  /\ Ends(p)
  /\ CleansUp(p, proc[p].op)
  /\ UNCHANGED <<rows, expired, submitted, files, staged, gateVars>>

\* The operation was recorded meanwhile, or a statement or the commit throws.
SubmitFails(p) ==
  /\ SubmitDecided(p)
  /\ proc[p].failed = {}
  /\ Ends(p)
  /\ Rests(p)
  /\ UNCHANGED <<rows, expired, submitted, files, staged, gateVars>>

-----------------------------------------------------------------------------
(* Creating an order.  Its transaction checks the rows, claims them and    *)
(* records the operation; it neither restores nor cleans up, and one that  *)
(* fails is rolled back without a trace.                                   *)

OrderCommits(p, op, ids) ==
  /\ proc[p] = Idle
  /\ writer = Nobody
  /\ op \notin submitted
  /\ Available(ids, op)
  /\ rows' = Claimed(ids, "order")
  /\ submitted' = submitted \cup {op}
  /\ UNCHANGED <<expired, files, staged, writer, proc, gateVars>>

-----------------------------------------------------------------------------
\* The process dies: SQLite rolls its transaction back, its files stay where they are.
Crash(p) ==
  /\ proc[p] # Idle
  /\ writer' = IF writer = p THEN Nobody ELSE writer
  /\ Rests(p)
  /\ IF p \in active THEN Abandon(p) ELSE UNCHANGED gateVars
  /\ UNCHANGED <<rows, expired, submitted, files, staged>>

TimePasses ==
  /\ \E id \in Stored \ expired : expired' = expired \cup {id}
  /\ UNCHANGED <<rows, submitted, files, staged, writer, proc, gateVars>>

GateTurns ==
  /\ Account \/ Shut \/ Confirm \/ Reopen
  /\ UNCHANGED <<storeVars, proc>>

CleanupStep(p) ==
  \/ CleanupCalled(p) \/ EnterAdmitted(p) \/ EnterSkipped(p) \/ CleanupBegins(p)
  \/ CandidatesSelected(p) \/ (\E name \in Contents : StageOne(p, name))
  \/ CleanupCommits(p) \/ CleanupAborts(p) \/ UnlinkOne(p) \/ CleanupEnds(p)

SaveStep(p) ==
  \/ \E id \in Ids, op \in Ops, name \in Contents : SaveCalled(p, id, op, name)
  \/ SaveBegins(p) \/ SaveRefused(p) \/ FileWritten(p) \/ RowCommitted(p) \/ RowFails(p)

SubmitStep(p) ==
  \/ \E op \in Ops, ids \in SUBSET Ids, valid \in BOOLEAN : SubmitCalled(p, op, ids, valid)
  \/ SubmitBegins(p) \/ SubmitUnrestored(p) \/ SubmitCommits(p) \/ SubmitUnavailable(p)
  \/ SubmitFails(p)

OrderStep(p) == \E op \in Ops, ids \in SUBSET Ids : OrderCommits(p, op, ids)

StartStep(p) == StoreOpens(p) \/ StartAdmitted(p) \/ StartBegins(p) \/ StartEnds(p)

Next ==
  \/ \E p \in Procs :
       \/ CleanupStep(p) \/ SaveStep(p) \/ SubmitStep(p) \/ OrderStep(p) \/ StartStep(p)
       \/ Recovers(p) \/ Crash(p)
  \/ TimePasses \/ GateTurns

Spec == Init /\ [][Next]_vars

-----------------------------------------------------------------------------
\* No upload is lost: the file of every row is in its place or waits in .cleanup, where the
\* next recovery finds it, wherever a cleanup or a save died, failed or was overtaken.
UploadsKept ==
  \A id \in Stored :
    rows[id].name \in files \/ \E s \in staged : s.name = rows[id].name

\* What a request refers to is in its place, not merely recoverable, from the moment it is
\* claimed, whatever orders claim beside it.
SubmittedInPlace ==
  \A id \in Stored : rows[id].claimed = "request" => rows[id].name \in files

\* Claimed once is claimed for good: no cleanup that selected its rows earlier, no submission
\* and no order takes a row from the request or the order that claimed it.
ClaimsStay == [][\A id \in Stored : rows[id].claimed # "no" => rows'[id] = rows[id]]_vars

\* Expected to fail.  The plan of the evolution (V2.1, section 5) asks that the reference,
\* cleanup and recovery of attachments survive the new tables: whatever a request or an
\* order refers to is in its place.
ClaimedInPlace == \A id \in Stored : rows[id].claimed # "no" => rows[id].name \in files

\* While a disable is confirmed nothing is deleted: rows stay, and a file leaves .cleanup
\* only to return to its place.
NothingDeletedWhenClosed ==
  [][confirmed => /\ \A id \in Stored : rows'[id] # NoRow
                  /\ \A s \in staged \ staged' : s.name \in files' \ files]_vars

=============================================================================
