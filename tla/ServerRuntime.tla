---------------------------- MODULE ServerRuntime ----------------------------
(***************************************************************************)
(* The server processes that may open the production database beside an    *)
(* offline maintenance: src/scripts/guarded-offline-runtime.mjs starts a   *)
(* server under a shared lock of the maintenance fence; the start gate     *)
(* (g3-authority-reconciliation-startup-gate-v1.mjs, g3-core-startup-      *)
(* acceptance.mjs) admits it; the constructor of the store brings the      *)
(* schema up to the release boundary (store.mjs, sqlite-schema-v2.mjs);    *)
(* write-admission-v1.mjs and server.mjs let it write once a signal has    *)
(* said so; and server-shutdown.mjs drains it before the database is       *)
(* closed.                                                                 *)
(*                                                                         *)
(* The fence is a kernel lock (flock): shared by the servers, exclusive to *)
(* a maintenance.  It belongs to the open file that a server inherits from *)
(* its supervisor, hence it is held as long as the server lives, whatever  *)
(* happens to the supervisor.                                              *)
(***************************************************************************)
EXTENDS Naturals, Sequences

CONSTANTS
  Servers,       \* containers that may run a guarded server
  PreCutover,    \* the last schema version that a start may apply (10)
  Latest,        \* the last schema version of the release (12)
  MaxBusinessWrites, \* bound: business transactions in the database
  None           \* no holder, no baseline

ASSUME VersionAssumption == PreCutover \in Nat /\ Latest \in Nat /\ 0 < PreCutover /\ PreCutover < Latest

ASSUME WriteAssumption == MaxBusinessWrites \in Nat

VARIABLES
  db,            \* the database file: version, journal mode, receipts, and how many
                 \* business transactions made the rest of its content
  exclusive,     \* who holds the fence exclusively, or None
  production,    \* the path is the frozen production path (never changes)
  accept,        \* the acceptance record of the custody: state and baseline
  srv            \* the server process of every container

Down == [pc |-> "down", mode |-> "none", baseline |-> None, seen |-> 0,
         writes |-> FALSE, work |-> {}]

NoAcceptance == [state |-> "none", baseline |-> None]

RuntimeInit ==
  /\ production \in BOOLEAN
  /\ \E version \in (IF production THEN {Latest} ELSE 0..PreCutover), initialized \in BOOLEAN,
         written \in 0..MaxBusinessWrites :
       /\ initialized => production
       /\ db = [version |-> version, wal |-> FALSE, init |-> initialized, applied |-> << >>,
                written |-> written]
  /\ exclusive = None
  /\ accept = NoAcceptance
  /\ srv = [s \in Servers |-> Down]

(***************************************************************************)
(* The supervisor tries the shared lock without waiting.                   *)
(***************************************************************************)
\* Mutant: the exit status of flock is not looked at.
FenceAdmitsAll == TRUE

FenceAdmitsShared == exclusive = None

StartGuarded(s) ==
  /\ srv[s].pc = "down"
  /\ FenceAdmitsShared
  /\ srv' = [srv EXCEPT ![s].pc = "guarded"]
  /\ UNCHANGED <<db, exclusive, accept>>

(***************************************************************************)
(* The gate.  A PREPARED record admits a read-only server on exactly the   *)
(* approved bytes, without a write-ahead log; an ACTIVE one a server on an *)
(* initialized database; without a record only a path outside production.  *)
(***************************************************************************)
\* Mutant: the version is compared, the digest of the file is not.
BaselineVersionOnly == accept.baseline # None /\ accept.baseline.version = db.version

BaselineMatches == accept.baseline = db

Admits(mode) ==
  CASE mode = "prepared" -> accept.state = "PREPARED" /\ ~db.wal /\ db.init /\ BaselineMatches
    [] mode = "active"   -> accept.state = "ACTIVE" /\ db.init
    [] mode = "plain"    -> accept.state = "none" /\ ~production

\* The server asks the gate before it does anything.  An accepted one goes on to its
\* store; any other one to the schema, whose applied versions it reads before any
\* transaction.
Gate(s) ==
  /\ srv[s].pc = "guarded"
  /\ \E mode \in {"prepared", "active", "plain"} :
       /\ Admits(mode)
       /\ srv' = [srv EXCEPT ![s].pc = IF mode = "plain" THEN "checking" ELSE "admitted",
                             ![s].mode = mode,
                             ![s].baseline = IF mode = "prepared" THEN accept.baseline ELSE None,
                             ![s].seen = IF mode = "plain" THEN db.version ELSE 0]
  /\ UNCHANGED <<db, exclusive, accept>>

GateRefuses(s) ==
  /\ srv[s].pc = "guarded"
  /\ ~ \E mode \in {"prepared", "active", "plain"} : Admits(mode)
  /\ srv' = [srv EXCEPT ![s] = Down]
  /\ UNCHANGED <<db, exclusive, accept>>

(***************************************************************************)
(* The constructor of the store asks the gate once more, then opens the    *)
(* file: read-only for a server that was prepared, whatever the record     *)
(* says by now; otherwise for writing, with a write-ahead log, the schema  *)
(* left alone.  Others may act between the comparison and the opening.     *)
(***************************************************************************)
ConstructStore(s) ==
  /\ srv[s].pc = "admitted"
  /\ srv' = [srv EXCEPT ![s] =
       IF Admits("prepared") /\ @.mode = "prepared" THEN [@ EXCEPT !.pc = "opening", !.baseline = accept.baseline]
       ELSE IF Admits("active") THEN [@ EXCEPT !.pc = "opening"]
       ELSE Down]
  /\ UNCHANGED <<db, exclusive, accept>>

\* A server whose start was prepared opens the file read-only and refuses to enable writes.
Writable(s) == srv[s].mode # "prepared"

Open(s) ==
  /\ srv[s].pc = "opening"
  /\ srv' = [srv EXCEPT ![s].pc = "serving"]
  /\ db' = [db EXCEPT !.wal = (@ \/ Writable(s))]
  /\ UNCHANGED <<exclusive, accept>>

(***************************************************************************)
(* The structure is compared with the versions read before, outside of a   *)
(* transaction: another server that migrates in between makes the start    *)
(* fail on an unknown object.  Beyond the release boundary the schema is   *)
(* only checked; up to it, every missing version is applied in a           *)
(* transaction of its own that reads the applied prefix again.             *)
(***************************************************************************)
CheckSchema(s) ==
  /\ srv[s].pc = "checking"
  /\ srv' = [srv EXCEPT ![s] =
       IF db.version # srv[s].seen THEN Down
       ELSE [@ EXCEPT !.pc = IF db.version <= PreCutover THEN "migrating" ELSE "serving"]]
  /\ UNCHANGED <<db, exclusive, accept>>

Migrate(s) ==
  /\ srv[s].pc = "migrating"
  /\ IF db.version < PreCutover
       THEN db' = [db EXCEPT !.version = @ + 1] /\ UNCHANGED srv
       ELSE srv' = [srv EXCEPT ![s].pc = "serving"] /\ UNCHANGED db
  /\ UNCHANGED <<exclusive, accept>>

(***************************************************************************)
(* Writes.  A guarded server starts with write admission disabled; SIGUSR2 *)
(* enables it for the rest of the process, unless it is draining.  Every   *)
(* write asks the admission again when it begins, so those of the requests *)
(* still in flight are made while the server drains.                       *)
(***************************************************************************)
EnableWrites(s) ==
  /\ srv[s].pc = "serving" /\ ~srv[s].writes
  /\ Writable(s)
  /\ srv' = [srv EXCEPT ![s].writes = TRUE]
  /\ UNCHANGED <<db, exclusive, accept>>

BusinessWrite(s) ==
  /\ srv[s].pc = "serving" \/ (srv[s].pc = "draining" /\ "handler" \in srv[s].work)
  /\ srv[s].writes
  /\ db.written < MaxBusinessWrites
  /\ db' = [db EXCEPT !.written = @ + 1]
  /\ UNCHANGED <<srv, exclusive, accept>>

(***************************************************************************)
(* Requests and the drain.  Work is over when its handler has returned and *)
(* its response is finished or its client gone, in either order; the       *)
(* database is closed when the transport is closed and no work is left.    *)
(* The shutdown timeout marks the shutdown failed and changes nothing else.*)
(***************************************************************************)
\* A signal stops admission.  What is left of the requests in flight is found out now.
Shutdown(s) ==
  /\ srv[s].pc = "serving"
  /\ \E left \in SUBSET {"handler", "response"} :
       srv' = [srv EXCEPT ![s].pc = "draining", ![s].work = left]
  /\ UNCHANGED <<db, exclusive, accept>>

WorkDone(s) ==
  /\ srv[s].pc = "draining"
  /\ \E part \in srv[s].work : srv' = [srv EXCEPT ![s].work = @ \ {part}]
  /\ UNCHANGED <<db, exclusive, accept>>

\* The transport is closed once no response is left, and with no work left the
\* resources are closed and the process, with nothing more to do, ends.
Finish(s) ==
  /\ srv[s].pc = "draining"
  /\ srv[s].work = {}
  /\ srv' = [srv EXCEPT ![s] = Down]
  /\ UNCHANGED <<db, exclusive, accept>>

\* A server is killed.
ServerDies(s) ==
  /\ srv[s].pc # "down"
  /\ srv' = [srv EXCEPT ![s] = Down]
  /\ UNCHANGED <<db, exclusive, accept>>

(***************************************************************************)
(* The administrator's custody: a record is prepared on the bytes of the   *)
(* file as they are, may be prepared anew, and is activated.               *)
(***************************************************************************)
Prepare ==
  /\ production
  /\ accept.state # "ACTIVE"
  /\ accept' = [state |-> "PREPARED", baseline |-> db]
  /\ accept' # accept
  /\ UNCHANGED <<srv, db, exclusive>>

Activate ==
  /\ accept.state = "PREPARED"
  /\ accept' = [state |-> "ACTIVE", baseline |-> None]
  /\ UNCHANGED <<srv, db, exclusive>>

RuntimeNext ==
  \/ \E s \in Servers :
       \/ StartGuarded(s) \/ Gate(s) \/ GateRefuses(s) \/ ConstructStore(s) \/ Open(s)
       \/ CheckSchema(s) \/ Migrate(s) \/ EnableWrites(s) \/ BusinessWrite(s)
       \/ Shutdown(s) \/ WorkDone(s)  \/ Finish(s) \/ ServerDies(s)
  \/ Prepare \/ Activate

(***************************************************************************)
(* A server that a PREPARED record admitted serves exactly the content     *)
(* that record approved, from the comparison of the bytes to the end of    *)
(* the process, unless the record has become ACTIVE meanwhile: until then  *)
(* no maintenance, no migration and no business write of another server    *)
(* reaches the file (validateCoreDatabase; server.mjs:235).  The server    *)
(* itself never writes.                                                    *)
(***************************************************************************)
PreparedServesBaseline ==
  \A s \in Servers : srv[s].mode = "prepared" =>
    /\ srv[s].baseline = db \/ accept.state = "ACTIVE"
    /\ ~srv[s].writes
==============================================================================
