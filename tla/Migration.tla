----------------------------- MODULE Migration -----------------------------
(***************************************************************************)
(* The migration of a V1 database to a V2 one, on copies.  One invocation  *)
(* reads a plan from the source and then either verifies a target that     *)
(* exists or makes backup, rollback copy, target and proof seal one after  *)
(* the other, each created exclusively and made durable, and looks at the  *)
(* source and the attachments again before every step.                     *)
(*                                                                         *)
(* Meanwhile the V1 program may write, another invocation may run, an      *)
(* operator may remove or replace an artifact, any system call may fail, a *)
(* process may die and the power may fail.  A file's identity (device,     *)
(* inode, size, times) is a stamp that every write moves; bytes are        *)
(* abstracted to what they are a copy of.  Checks that follow each other   *)
(* without writing are one step: anything that changed between two of them *)
(* is caught by the comparison of stamps that ends the step.               *)
(***************************************************************************)
EXTENDS Integers, FiniteSets

CONSTANTS
  Procs,         \* processes that may run the tool
  Contents,      \* what a V1 database may hold
  Unmappable,    \* contents whose plan has a blocker
  LatestVersion, \* schema migrations of a target
  MaxRuns,       \* bound: invocations
  MaxWrites,     \* bound: writes of the V1 program
  MaxTampering   \* bound: artifacts removed or replaced by hand

ASSUME UnmappableAssumption == Unmappable \subseteq Contents
ASSUME BoundsAssumption ==
  {LatestVersion, MaxRuns, MaxWrites, MaxTampering} \subseteq Nat

VARIABLES
  source,   \* the V1 database: what it holds and its stamp
  uploads,  \* the attachments: whether they match the manifest, and their stamp
  disk,     \* backup, rollback, target and seal as a process reads them
  safe,     \* the same as they are after a power failure, at the least
  proc,     \* the invocation each process is in
  said,     \* the outcome of the last invocation of each process
  runs,     \* invocations so far
  tampered  \* artifacts tampered with so far

migrationVars == <<source, uploads, disk, safe, proc, said, runs, tampered>>

Artifacts == {"backup", "rollback", "target", "seal"}

Nothing == [kind |-> "nothing"]
Foreign == [kind |-> "foreign"]
\* Created by invocation id and not complete yet.
Partial(id) == [kind |-> "partial", by |-> id]
\* A V1 database: two copies of the same backup have the same bytes.
CopyOf(c) == [kind |-> "v1", of |-> c]
\* A copy with its first schema migrations applied.
Upgraded(c, n, id) == [kind |-> "v2", of |-> c, version |-> n, by |-> id]
\* The committed migration of c; its bytes carry the times of the invocation.
Migrated(c, id) == [kind |-> "done", of |-> c, by |-> id]

\* What identifies the inputs without reading them: inputScopeIdentity.
Scope == <<source.stamp, uploads.stamp>>

Resting == [at |-> "idle"]

MigrationInit ==
  /\ source \in [of : Contents, stamp : {0}]
  /\ uploads = [intact |-> TRUE, stamp |-> 0]
  /\ disk = [f \in Artifacts |-> Nothing]
  /\ safe = disk
  /\ proc = [p \in Procs |-> Resting]
  /\ said = [p \in Procs |-> "nothing"]
  /\ runs = 0
  /\ tampered = 0

-----------------------------------------------------------------------------
(* Reading the files. *)

\* buildMigrationPlan: the plan is a function of what the source holds.
PlanNow == source.of

\* mapSnapshot finds a request, asset, time or place it cannot map: a blocker of the plan.
Blocked(plan) == plan \in Unmappable

\* Mutant: the inputs are compared by what they hold only.
InputUnchangedByContent(p) == source.of = proc[p].plan /\ uploads.intact

\* assertInputScopeUnchanged: nobody has touched the inputs since the invocation began.
InputUnchanged(p) == Scope = proc[p].scope

\* verifyUploadManifest: every row has its file, with its size and digest, and no file more.
AttachmentsMatch == uploads.intact

\* The source holds what the plan was built from and the attachments match the manifest.
InputEvidence(p) == source.of = proc[p].plan /\ AttachmentsMatch

Backed(p) == InputEvidence(p) /\ disk["backup"] = CopyOf(proc[p].plan)

\* verifyExistingBackup and verifyExistingRestore.
Proven(p) == Backed(p) /\ disk["rollback"] = CopyOf(proc[p].plan)

\* expectedTargetFacts: what the rows of a target have to be, a function of the plan.
ExpectedFacts(plan) == plan

\* readTargetFacts: what the rows of a committed target are.
TargetFacts(t) == t.of

\* verifyV2Target
IsMigration(t, c) == t.kind = "done" /\ TargetFacts(t) = ExpectedFacts(c)

Seal(p) ==
  [kind |-> "seal", by |-> proc[p].id, target |-> proc[p].digest, of |-> proc[p].plan,
   scope |-> proc[p].scope]

\* The seal answers for this target and for these inputs, whoever wrote it.
SealMatches(p) ==
  /\ disk["seal"].kind = "seal"
  /\ disk["seal"].target = disk["target"]
  /\ disk["seal"].of = proc[p].plan
  /\ disk["seal"].scope = proc[p].scope

-----------------------------------------------------------------------------
(* One invocation. *)

At(p, at) == proc[p].at = at

Goto(p, at) == proc' = [proc EXCEPT ![p].at = at]

\* Creating a file exclusively: it must not be there, and its name is not durable yet.
Creates(p, f) ==
  /\ disk[f] = Nothing
  /\ disk' = [disk EXCEPT ![f] = Partial(proc[p].id)]
  /\ UNCHANGED safe

\* Writing the file this invocation created, then fsync of the file and of its directory.
Completes(p, f, content) ==
  /\ disk[f] = Partial(proc[p].id)
  /\ disk' = [disk EXCEPT ![f] = content]
  /\ safe' = [safe EXCEPT ![f] = content]

Elsewhere == <<source, uploads, said, runs, tampered>>

\* The plan is built, and the attachments checked against it, before anything is compared.
Start(p) ==
  /\ At(p, "idle")
  /\ runs < MaxRuns
  /\ AttachmentsMatch
  /\ runs' = runs + 1
  /\ proc' = [proc EXCEPT ![p] =
       [at |-> "planned", id |-> runs + 1, plan |-> PlanNow, scope |-> Scope,
        version |-> 0, committed |-> FALSE, digest |-> Nothing]]
  /\ said' = [said EXCEPT ![p] = "nothing"]
  /\ UNCHANGED <<source, uploads, disk, safe, tampered>>

\* A target that exists is verified; otherwise none of the artifacts may exist.
Enter(p) ==
  /\ At(p, "planned")
  /\ \/ /\ disk["target"] # Nothing
        /\ proc' = [proc EXCEPT ![p].at = "recheck", ![p].scope = Scope]
     \/ /\ \A f \in Artifacts : disk[f] = Nothing
        /\ ~Blocked(proc[p].plan)
        /\ proc' = [proc EXCEPT ![p].at = "backup", ![p].scope = Scope]
  /\ UNCHANGED <<source, uploads, disk, safe, said, runs, tampered>>

BeginBackup(p) ==
  /\ At(p, "backup")
  /\ InputEvidence(p)
  /\ Creates(p, "backup")
  /\ Goto(p, "backing up")
  /\ UNCHANGED Elsewhere

\* The backup is taken from the source as it is now and must equal it before and after.
FinishBackup(p) ==
  /\ At(p, "backing up")
  /\ InputEvidence(p)
  /\ InputUnchanged(p)
  /\ Completes(p, "backup", CopyOf(source.of))
  /\ Goto(p, "rollback")
  /\ UNCHANGED Elsewhere

BeginRollback(p) ==
  /\ At(p, "rollback")
  /\ Backed(p)
  /\ Creates(p, "rollback")
  /\ Goto(p, "restoring")
  /\ UNCHANGED Elsewhere

FinishRollback(p) ==
  /\ At(p, "restoring")
  /\ Backed(p)
  /\ InputUnchanged(p)
  /\ Completes(p, "rollback", disk["backup"])
  /\ Goto(p, "target")
  /\ UNCHANGED Elsewhere

BeginTarget(p) ==
  /\ At(p, "target")
  /\ Proven(p)
  /\ InputUnchanged(p)
  /\ Creates(p, "target")
  /\ Goto(p, "copying")
  /\ UNCHANGED Elsewhere

FinishTarget(p) ==
  /\ At(p, "copying")
  /\ Backed(p)
  /\ InputUnchanged(p)
  /\ Completes(p, "target", Upgraded(disk["backup"].of, 0, proc[p].id))
  /\ Goto(p, "applying")
  /\ UNCHANGED Elsewhere

\* One transaction on the target.  The file may have been removed or replaced under the
\* open connection, and the journal of the last transaction may come back and undo it.
Transaction(p, before, after) ==
  IF disk["target"] = before
  THEN /\ disk' = [disk EXCEPT !["target"] = after]
       /\ safe' = [safe EXCEPT !["target"] = before]
  ELSE UNCHANGED <<disk, safe>>

\* applySchemaMigrations: one version, one transaction.
MigrateSchema(p) ==
  LET n == proc[p].version
      c == proc[p].plan
  IN /\ At(p, "applying")
     /\ n < LatestVersion
     /\ InputUnchanged(p)
     /\ Transaction(p, Upgraded(c, n, proc[p].id), Upgraded(c, n + 1, proc[p].id))
     /\ proc' = [proc EXCEPT ![p].version = n + 1]
     /\ UNCHANGED Elsewhere

\* Mutant: the invocation counts as committed once its target is verified.
CommittedLate(q) == [q EXCEPT !.at = "committed"]

\* What an invocation knows once the transaction of its plan has committed.
Committed(q) == [q EXCEPT !.at = "committed", !.committed = TRUE]

\* assertV1Facts, assertEmptyNormalizedTarget: the facts of V1 are the plan's, and no
\* table of V2 has a row yet.
EmptyTarget(p) == Upgraded(proc[p].plan, LatestVersion, proc[p].id)

\* materializeMigrationPlan: the whole plan in one transaction, the inputs compared last.
Materialize(p) ==
  LET c == proc[p].plan
  IN /\ At(p, "applying")
     /\ proc[p].version = LatestVersion
     /\ InputUnchanged(p)
     /\ Transaction(p, EmptyTarget(p), Migrated(c, proc[p].id))
     /\ proc' = [proc EXCEPT ![p] = Committed(proc[p])]
     /\ UNCHANGED Elsewhere

\* Mutant: the commit of the database is trusted to be durable.
SyncedOnCommit(f) == safe

\* fsync of the file, and of its directory, from which the journal has gone.
Synced(f) == [safe EXCEPT ![f] = disk[f]]

SyncTarget(p) ==
  /\ At(p, "committed")
  /\ InputUnchanged(p)
  /\ disk["target"] # Nothing
  /\ safe' = Synced("target")
  /\ Goto(p, "synced")
  /\ UNCHANGED <<Elsewhere, disk>>

VerifyTarget(p) ==
  /\ At(p, "synced")
  /\ InputUnchanged(p)
  /\ IsMigration(disk["target"], proc[p].plan)
  /\ Proven(p)
  /\ proc' = [proc EXCEPT ![p].at = "seal", ![p].digest = disk["target"]]
  /\ UNCHANGED <<Elsewhere, disk, safe>>

BeginSeal(p) ==
  /\ At(p, "seal")
  /\ Creates(p, "seal")
  /\ Goto(p, "sealing")
  /\ UNCHANGED Elsewhere

\* The seal can be read as soon as it is written, and is durable only after its fsync.
WriteSeal(p) ==
  /\ At(p, "sealing")
  /\ disk["seal"] = Partial(proc[p].id)
  /\ disk' = [disk EXCEPT !["seal"] = Seal(p)]
  /\ Goto(p, "written")
  /\ UNCHANGED <<Elsewhere, safe>>

SyncSeal(p) ==
  /\ At(p, "written")
  /\ disk["seal"] = Seal(p)
  /\ safe' = Synced("seal")
  /\ Goto(p, "sealed")
  /\ UNCHANGED <<Elsewhere, disk>>

Returns(p, outcome) ==
  /\ proc' = [proc EXCEPT ![p] = Resting]
  /\ said' = [said EXCEPT ![p] = outcome]
  /\ UNCHANGED <<source, uploads, disk, safe, runs, tampered>>

\* Everything once more, with the seal on disk: APPLIED_VERIFIED.
Report(p) ==
  /\ At(p, "sealed")
  /\ Proven(p)
  /\ InputUnchanged(p)
  /\ disk["target"] = proc[p].digest
  /\ disk["seal"] = Seal(p)
  /\ Returns(p, "applied")

\* What an existing target has to show.
Rechecked(p) ==
  /\ Proven(p)
  /\ InputUnchanged(p)
  /\ IsMigration(disk["target"], proc[p].plan)
  /\ SealMatches(p)

Recheck(p) ==
  /\ At(p, "recheck")
  /\ Rechecked(p)
  /\ proc' = [proc EXCEPT ![p].at = "rechecked", ![p].digest = disk["target"]]
  /\ UNCHANGED <<Elsewhere, disk, safe>>

\* ALREADY_APPLIED_VERIFIED
ReportAgain(p) ==
  /\ At(p, "rechecked")
  /\ Rechecked(p)
  /\ disk["target"] = proc[p].digest
  /\ Returns(p, "already applied")

\* COMMITTED_BUT_UNVERIFIED, or an ordinary error.
Outcome(p) == IF proc[p].committed THEN "committed but unverified" ELSE "failed"

\* A check or a system call fails.  Nothing on disk is taken back; the outcome only says
\* whether the plan had been committed.
Fail(p) == ~At(p, "idle") /\ Returns(p, Outcome(p))

-----------------------------------------------------------------------------
(* What happens around the tool. *)

Die(p) == ~At(p, "idle") /\ Returns(p, "nothing")

\* Every process dies; what was not durable may be as it was before, file by file.
PowerFails ==
  /\ proc' = [p \in Procs |-> Resting]
  /\ said' = [p \in Procs |-> "nothing"]
  /\ \E lost \in SUBSET {f \in Artifacts : disk[f] # safe[f]} :
       disk' = [f \in Artifacts |-> IF f \in lost THEN safe[f] ELSE disk[f]]
  /\ safe' = disk'
  /\ UNCHANGED <<source, uploads, runs, tampered>>

\* The V1 program is still running: any content may come, also one that was there before.
WriteSource ==
  /\ source.stamp + uploads.stamp < MaxWrites
  /\ \E c \in Contents : source' = [of |-> c, stamp |-> source.stamp + 1]
  /\ UNCHANGED <<uploads, disk, safe, proc, said, runs, tampered>>

WriteUploads ==
  /\ source.stamp + uploads.stamp < MaxWrites
  /\ \E b \in BOOLEAN : uploads' = [intact |-> b, stamp |-> uploads.stamp + 1]
  /\ UNCHANGED <<source, disk, safe, proc, said, runs, tampered>>

\* An operator removes an artifact, to start over, or puts another file in its place.
Tamper ==
  /\ tampered < MaxTampering
  /\ \E f \in Artifacts, new \in {Nothing, Foreign} :
       /\ disk[f] \notin {Nothing, new}
       /\ disk' = [disk EXCEPT ![f] = new]
       /\ safe' = [safe EXCEPT ![f] = new]
  /\ tampered' = tampered + 1
  /\ UNCHANGED <<source, uploads, proc, said, runs>>

Step(p) ==
  \/ Start(p) \/ Enter(p)
  \/ BeginBackup(p) \/ FinishBackup(p)
  \/ BeginRollback(p) \/ FinishRollback(p)
  \/ BeginTarget(p) \/ FinishTarget(p)
  \/ MigrateSchema(p) \/ Materialize(p)
  \/ SyncTarget(p) \/ VerifyTarget(p)
  \/ BeginSeal(p) \/ WriteSeal(p) \/ SyncSeal(p)
  \/ Report(p) \/ Recheck(p) \/ ReportAgain(p)
  \/ Fail(p) \/ Die(p)

MigrationNext == (\E p \in Procs : Step(p)) \/ PowerFails \/ WriteSource \/ WriteUploads \/ Tamper

MigrationSpec == MigrationInit /\ [][MigrationNext]_migrationVars

-----------------------------------------------------------------------------
(* Properties. *)

Verifies(p) == ~At(p, "idle") /\ said'[p] \in {"applied", "already applied"}

\* Whoever says verified, at that moment: the target is the migration of exactly what the
\* source holds, backup and rollback copy are copies of it, the attachments match, and since
\* the sealing invocation began nobody has written to the inputs, not even to put back what
\* was there.
VerifiedIsExact ==
  [][\A p \in Procs : Verifies(p) =>
       /\ IsMigration(disk["target"], source.of)
       /\ disk["backup"] = CopyOf(source.of)
       /\ disk["rollback"] = CopyOf(source.of)
       /\ uploads.intact
       /\ disk["seal"].target = disk["target"]
       /\ disk["seal"].scope = Scope]_migrationVars

\* Whoever says verified, a power failure right after takes nothing of it back; the seal is
\* excepted for an invocation that finds the unsynced seal of one that died.
VerifiedIsDurable ==
  [][\A p \in Procs : Verifies(p) =>
       /\ \A f \in {"backup", "rollback", "target"} : safe[f] = disk[f]
       /\ said'[p] = "applied" => safe["seal"] = disk["seal"]]_migrationVars

\* An ordinary failure means that this invocation committed nothing: its target, if there
\* is one, does not hold the plan.
FailureIsHonest ==
  [][\A p \in Procs : ~At(p, "idle") /\ said'[p] = "failed" =>
       /\ disk["target"].kind = "done" => disk["target"].by # proc[p].id
       /\ safe["target"].kind = "done" => safe["target"].by # proc[p].id]_migrationVars

=============================================================================
