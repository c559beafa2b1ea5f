----------------------------- MODULE Maintenance -----------------------------
(***************************************************************************)
(* The offline maintenance of an empty production database beside the      *)
(* servers of ServerRuntime (src/offline-maintenance-adapter-v1.mjs,       *)
(* scripts/offline-maintenance-helper.mjs, empty-db-maintenance-v1.mjs).   *)
(*                                                                         *)
(* A coordinator process takes its own lock and the fence, looks at the    *)
(* host, gives the fence up and starts a helper container that takes the   *)
(* fence again, opens the database and asks over a pipe before it opens    *)
(* and before it commits.  Either process may die at any time, the docker  *)
(* client between them too; a timer gives up; the approval may be revoked  *)
(* or run out.  Each coordinator is one process and runs once, for one     *)
(* packet; the retry of a packet is another coordinator.                   *)
(*                                                                         *)
(* A helper container belongs to its coordinator and bears its name.       *)
(***************************************************************************)
EXTENDS ServerRuntime

CONSTANTS
  MaxCoordinators, \* bound: coordinator processes, numbered in the order they start
  Packets,       \* maintenance packets, each with its own operation id
  Initialize,    \* the packet that initializes the database
  Expects        \* the revision a configuration packet expects

ASSUME PacketAssumption ==
  MaxCoordinators \in Nat /\ Initialize \in Packets /\ Expects \in [Packets -> Nat]

Coordinators == 1..MaxCoordinators

\* None is not the name of a process.
ASSUME NoneAssumption == None \notin {"coordinator", "helper"} \X Coordinators

VARIABLES
  bound,         \* the schema version the packets are bound to
  approval,      \* "stands", "revoked", or "over" when its window has ended
  turn,          \* the coordinator that holds the coordinator lock, or None
  co,            \* the coordinators
  helper,        \* their helpers
  toHelper,      \* the last message written to the helper, and whether the pipe is closed
  toCo,          \* the messages of the helper not handled yet
  client,        \* the docker client between the two: "up" or "down"
  wrote          \* coordinators whose helper committed (history)

facts == <<db, production, accept, srv, bound, approval, wrote>>
vars == <<db, exclusive, production, accept, srv, bound, approval, turn, co, helper, toHelper, toCo, client, wrote>>

Idle == [pc |-> "idle", packet |-> None, want |-> "none", commitSent |-> FALSE, ready |-> FALSE,
         failure |-> "none", result |-> FALSE, rolledBack |-> FALSE, report |-> "none"]

Fresh == [last |-> "context", closed |-> FALSE]
Closed == [last |-> "context", closed |-> TRUE]

\* A helper that has not been started and one that is gone are both absent.
Absent(c) == helper[c] \in {"none", "gone", "killed"}

Init ==
  /\ RuntimeInit
  /\ bound = IF production THEN Latest ELSE PreCutover
  /\ approval = "stands"
  /\ turn = None
  /\ co = [c \in Coordinators |-> Idle]
  /\ helper = [c \in Coordinators |-> "none"]
  /\ toHelper = [c \in Coordinators |-> Fresh]
  /\ toCo = [c \in Coordinators |-> << >>]
  /\ client = [c \in Coordinators |-> "up"]
  /\ wrote = {}

(***************************************************************************)
(* Observation and locks.  Both locks are tried without waiting.           *)
(***************************************************************************)
ApprovalStands == approval = "stands"

\* A permit carries its window; the helper's own clock cannot see a revocation.
InWindow == approval # "over"

\* What the coordinator releases when it ends, however it ends.
Releases(c) ==
  /\ turn' = IF turn = c THEN None ELSE turn
  /\ exclusive' = IF exclusive = <<"coordinator", c>> THEN None ELSE exclusive

Ended(c) == co[c].pc \in {"done", "dead"}

\* It ends, dead or with a report to its caller: its memory is gone, its locks are
\* given back and the helper's input is closed.  Its packet is kept for the helper,
\* if there is one, and for the report of a commit.
Ends(c, pc, report) ==
  /\ co' = [co EXCEPT ![c] = [Idle EXCEPT !.pc = pc, !.report = report,
               !.packet = IF Absent(c) /\ report # "committed" THEN None ELSE co[c].packet]]
  /\ helper' = [helper EXCEPT ![c] = IF Absent(c) THEN "gone" ELSE @]
  /\ toHelper' = [toHelper EXCEPT ![c] = IF Absent(c) THEN Closed ELSE [@ EXCEPT !.closed = TRUE]]
  /\ toCo' = [toCo EXCEPT ![c] = << >>]
  /\ client' = [client EXCEPT ![c] = "down"]
  /\ Releases(c)

TakeTurn(c) ==
  /\ co[c].pc = "idle"
  /\ \A d \in 1..(c - 1) : co[d].pc # "idle"
  /\ \E p \in Packets :
       /\ ApprovalStands
       /\ turn = None
       /\ turn' = c
       /\ co' = [co EXCEPT ![c].pc = "locked", ![c].packet = p]
  /\ UNCHANGED <<facts, exclusive, helper, toHelper, toCo, client>>

\* No server and no other maintenance holds the fence.
FenceFree == exclusive = None /\ \A s \in Servers : srv[s].pc = "down"

TakeFence(c) ==
  /\ co[c].pc = "locked"
  /\ IF FenceFree
       THEN /\ exclusive' = <<"coordinator", c>>
            /\ co' = [co EXCEPT ![c].pc = "inspecting", ![c].want = "launch"]
            /\ UNCHANGED <<turn, helper, toHelper, toCo, client>>
       ELSE Ends(c, "done", "refused")
  /\ UNCHANGED facts

(***************************************************************************)
(* Revalidation, before the launch and before either permit.  The fence is *)
(* the coordinator's own before the helper is ready; later it only has to  *)
(* be taken by somebody.  Every container on the storage is a stopped      *)
(* writer or the helper itself, which has to run.                          *)
(***************************************************************************)
FenceHeld(c) ==
  IF co[c].ready THEN exclusive # None ELSE exclusive = <<"coordinator", c>>

Inventory(c) ==
  /\ \A s \in Servers : srv[s].pc = "down"
  /\ \A d \in Coordinators \ {c} : Absent(d)
  /\ co[c].ready => ~Absent(c)

\* A check failed: the first failure is kept and the pipe is closed.
Fails(c, failure) ==
  /\ co' = [co EXCEPT ![c].pc = "waiting", ![c].failure = IF @ = "none" THEN failure ELSE @]
  /\ toHelper' = [toHelper EXCEPT ![c].closed = TRUE]

Inspect(c) ==
  /\ co[c].pc = "inspecting"
  /\ IF FenceHeld(c) /\ Inventory(c)
       THEN co' = [co EXCEPT ![c].pc = "approving"] /\ UNCHANGED <<turn, exclusive, helper, toHelper, toCo, client>>
       ELSE IF co[c].want = "launch" THEN Ends(c, "done", "refused")
            ELSE Fails(c, "code") /\ UNCHANGED <<turn, exclusive, helper, toCo, client>>
  /\ UNCHANGED facts

(***************************************************************************)
(* The approval is read once more after the slow observations.  Then the   *)
(* fence is given up and the helper started, or a permit is written; the   *)
(* permit to commit is the last thing written.                             *)
(***************************************************************************)
Launch(c) ==
  /\ co[c].pc = "approving" /\ co[c].want = "launch"
  /\ IF ApprovalStands
       THEN /\ exclusive' = None
            /\ helper' = [helper EXCEPT ![c] = "started"]
            /\ co' = [co EXCEPT ![c].pc = "waiting"]
            /\ UNCHANGED <<turn, toHelper, toCo, client>>
       ELSE Ends(c, "done", "refused")
  /\ UNCHANGED facts

Permit(c) ==
  /\ co[c].pc = "approving" /\ co[c].want \in {"open", "commit"}
  /\ IF ApprovalStands
       THEN /\ toHelper' = [toHelper EXCEPT ![c] =
                 IF @.closed THEN @ ELSE [last |-> co[c].want, closed |-> co[c].want = "commit"]]
            /\ co' = [co EXCEPT ![c].pc = "waiting", ![c].commitSent = (@ \/ co[c].want = "commit")]
       ELSE Fails(c, "code")
  /\ UNCHANGED <<facts, exclusive, turn, helper, toCo, client>>

(***************************************************************************)
(* A message of the helper.  One out of order is a protocol failure.       *)
(***************************************************************************)
Handle(c) ==
  /\ co[c].pc = "waiting"
  /\ toCo[c] # << >>
  /\ LET m == Head(toCo[c])
         asks == /\ \/ m = "ready" /\ ~co[c].ready
                    \/ m = "beforeCommit" /\ co[c].ready /\ ~co[c].commitSent
                 /\ co[c].failure = "none"
     IN CASE asks ->
               /\ co' = [co EXCEPT ![c].pc = "inspecting", ![c].ready = TRUE,
                                   ![c].want = IF m = "ready" THEN "open" ELSE "commit"]
               /\ UNCHANGED toHelper
          [] m = "result" /\ co[c].commitSent /\ co[c].failure = "none" ->
               co' = [co EXCEPT ![c].result = TRUE] /\ UNCHANGED toHelper
          [] m \in {"rolledBack", "refused"} /\ ~co[c].result ->
               /\ co' = [co EXCEPT ![c].rolledBack = (m = "rolledBack"),
                                   ![c].failure = IF @ = "none" THEN "code" ELSE @]
               /\ UNCHANGED toHelper
          [] OTHER -> Fails(c, "code")
  /\ toCo' = [toCo EXCEPT ![c] = Tail(@)]
  /\ UNCHANGED <<facts, exclusive, turn, helper, client>>

\* Sixty seconds have passed.
TimesOut(c) ==
  /\ co[c].pc = "waiting"
  /\ co[c].failure # "unknown"
  /\ co' = [co EXCEPT ![c].failure = "unknown"]
  /\ toHelper' = [toHelper EXCEPT ![c].closed = TRUE]
  /\ UNCHANGED <<facts, exclusive, turn, helper, toCo, client>>

(***************************************************************************)
(* The child has closed: the verdict.  Once the permit to commit is out,   *)
(* only a confirmed rollback makes a failure certain.                      *)
(***************************************************************************)
\* Mutant: the verdict does not ask whether the permit was out.
VerdictIgnoringPermit(c) ==
  IF co[c].result /\ co[c].failure = "none" /\ helper[c] = "gone" /\ client[c] = "up" THEN "committed"
  ELSE IF co[c].failure = "unknown" THEN "unknown" ELSE "refused"

\* Success needs the result and a clean exit.
Verdict(c) ==
  IF co[c].result /\ co[c].failure = "none" /\ helper[c] = "gone" /\ client[c] = "up" THEN "committed"
  ELSE IF (co[c].commitSent /\ ~co[c].rolledBack) \/ co[c].failure = "unknown" THEN "unknown"
  ELSE "refused"

Close(c) ==
  /\ co[c].pc = "waiting"
  /\ helper[c] \in {"gone", "killed"} \/ client[c] = "down"
  /\ toCo[c] = << >>
  /\ Ends(c, "done", Verdict(c))
  /\ UNCHANGED facts

CoordinatorDies(c) ==
  /\ co[c].pc # "idle" /\ ~Ended(c)
  /\ Ends(c, "dead", "none")
  /\ UNCHANGED facts

(***************************************************************************)
(* The helper.  It takes the fence before anything else, and says so.      *)
(***************************************************************************)
Says(c, m) == toCo' = IF client[c] = "up" THEN [toCo EXCEPT ![c] = Append(@, m)] ELSE toCo

\* It refuses, says whether the transaction is known to be rolled back, and leaves.
Refuses(c, m) ==
  /\ Says(c, m)
  /\ helper' = [helper EXCEPT ![c] = "leaving"]

HelperTakesFence(c) ==
  /\ helper[c] = "started"
  /\ IF FenceFree
       THEN /\ exclusive' = <<"helper", c>>
            /\ helper' = [helper EXCEPT ![c] = "awaitOpen"]
            /\ Says(c, "ready")
       ELSE Refuses(c, "refused") /\ UNCHANGED exclusive
  /\ UNCHANGED <<facts, turn, co, toHelper, client>>

\* Mutant: the end of the input is not an answer.
AnsweredByPermit(c, permit) == toHelper[c].last = permit

\* A blocking read returns with the permit that was written, or with the end of the input.
Answered(c, permit) == toHelper[c].last = permit \/ toHelper[c].closed

\* The permit carries the window it was given in, and the helper's clock is read now.
ReadOpenPermit(c) ==
  /\ helper[c] = "awaitOpen"
  /\ Answered(c, "open")
  /\ IF toHelper[c].last = "open" /\ InWindow
       THEN helper' = [helper EXCEPT ![c] = "open"] /\ UNCHANGED toCo
       ELSE Refuses(c, "refused")
  /\ UNCHANGED <<facts, exclusive, turn, co, toHelper, client>>

(***************************************************************************)
(* The transaction.  The database is initialized once; a configuration     *)
(* packet follows the initialization at the revision it expects; neither   *)
(* is done once the business has written; a packet whose receipt exists is *)
(* answered from it.                                                       *)
(***************************************************************************)
IsReplay(p) ==
  IF p = Initialize THEN db.init
  ELSE \E i \in 1..Len(db.applied) : db.applied[i] = p

\* Beyond the release boundary only the initialization is a maintenance.
Supported(p) == db.version = bound /\ (p # Initialize => bound <= PreCutover)

\* Mutant: the tables of the business are not looked at.
AdmissibleOverFacts(p) ==
  /\ Supported(p)
  /\ p # Initialize => db.init
  /\ IsReplay(p) \/ p = Initialize \/ Expects[p] = Len(db.applied)

Admissible(p) ==
  /\ Supported(p)
  /\ p # Initialize => db.init
  /\ \/ IsReplay(p)
     \/ db.written = 0 /\ (p = Initialize \/ Expects[p] = Len(db.applied))

\* A packet or schema that is not supported is refused before the transaction begins.
Transact(c) ==
  /\ helper[c] = "open"
  /\ IF Admissible(co[c].packet)
       THEN helper' = [helper EXCEPT ![c] = "awaitCommit"] /\ Says(c, "beforeCommit")
       ELSE Refuses(c, IF Supported(co[c].packet) THEN "rolledBack" ELSE "refused")
  /\ UNCHANGED <<facts, exclusive, turn, co, toHelper, client>>

ReadCommitPermit(c) ==
  /\ helper[c] = "awaitCommit"
  /\ Answered(c, "commit")
  /\ IF toHelper[c].last = "commit" /\ exclusive = <<"helper", c>>
       THEN helper' = [helper EXCEPT ![c] = "deciding"] /\ UNCHANGED toCo
       ELSE Refuses(c, "rolledBack")
  /\ UNCHANGED <<facts, exclusive, turn, co, toHelper, client>>

\* The last look at the clock, after the observations.
Decide(c) ==
  /\ helper[c] = "deciding"
  /\ IF InWindow THEN helper' = [helper EXCEPT ![c] = "committing"] /\ UNCHANGED toCo
     ELSE Refuses(c, "rolledBack")
  /\ UNCHANGED <<facts, exclusive, turn, co, toHelper, client>>

After(p) ==
  IF IsReplay(p) THEN db
  ELSE IF p = Initialize THEN [db EXCEPT !.init = TRUE]
  ELSE [db EXCEPT !.applied = Append(@, p)]

Commit(c) ==
  /\ helper[c] = "committing"
  /\ db' = After(co[c].packet)
  /\ wrote' = wrote \cup {c}
  /\ helper' = [helper EXCEPT ![c] = "leaving"]
  /\ Says(c, "result")
  /\ UNCHANGED <<exclusive, production, accept, srv, bound, approval, turn, co, toHelper, client>>

\* A COMMIT that fails is rolled back, but the helper does not vouch for it.
CommitFails(c) ==
  /\ helper[c] = "committing"
  /\ Refuses(c, "refused")
  /\ UNCHANGED <<facts, exclusive, turn, co, toHelper, client>>

\* The fence goes with the process.
HelperGone(c, how) ==
  /\ helper' = [helper EXCEPT ![c] = IF Ended(c) THEN "gone" ELSE how]
  /\ co' = IF Ended(c) THEN [co EXCEPT ![c].packet = None] ELSE co
  /\ exclusive' = IF exclusive = <<"helper", c>> THEN None ELSE exclusive
  /\ toHelper' = [toHelper EXCEPT ![c] = Closed]
  /\ UNCHANGED <<facts, turn, toCo, client>>

HelperExits(c) == helper[c] = "leaving" /\ HelperGone(c, "gone")

HelperDies(c) == ~Absent(c) /\ HelperGone(c, "killed")

\* The docker client dies: what the helper said and it did not pass on is lost,
\* and the helper's input ends.  The helper itself lives on.
ClientDies(c) ==
  /\ co[c].pc \in {"waiting", "inspecting", "approving"}
  /\ ~Absent(c)
  /\ client[c] = "up"
  /\ client' = [client EXCEPT ![c] = "down"]
  /\ toHelper' = [toHelper EXCEPT ![c].closed = TRUE]
  /\ \E n \in 0..Len(toCo[c]) : toCo' = [toCo EXCEPT ![c] = SubSeq(@, 1, n)]
  /\ UNCHANGED <<facts, exclusive, turn, co, helper>>

(***************************************************************************)
(* The approver revokes the approvals; their window ends.                  *)
(***************************************************************************)
ApprovalEnds ==
  /\ \/ approval = "stands" /\ approval' = "revoked"
     \/ approval # "over" /\ approval' = "over"
  /\ UNCHANGED <<db, exclusive, production, accept, srv, bound, turn, co, helper, toHelper, toCo, client, wrote>>

ServersMove ==
  /\ RuntimeNext
  /\ UNCHANGED <<production, bound, approval, turn, co, helper, toHelper, toCo, client, wrote>>

\* What a live coordinator, and a live helper, does next of itself.
CoordinatorStep(c) ==
  TakeFence(c) \/ Inspect(c) \/ Launch(c) \/ Permit(c) \/ Handle(c) \/ Close(c)

HelperStep(c) ==
  \/ HelperTakesFence(c) \/ ReadOpenPermit(c) \/ Transact(c) \/ ReadCommitPermit(c)
  \/ Decide(c) \/ Commit(c) \/ CommitFails(c) \/ HelperExits(c)

Next ==
  \/ ServersMove
  \/ \E c \in Coordinators :
       \/ TakeTurn(c) \/ CoordinatorStep(c) \/ TimesOut(c) \/ CoordinatorDies(c)
       \/ HelperStep(c) \/ HelperDies(c) \/ ClientDies(c)
  \/ ApprovalEnds

\* A process that is not dead goes on, and the timer of a waiting one fires.
Fairness ==
  \A c \in Coordinators :
    WF_vars(CoordinatorStep(c)) /\ WF_vars(TimesOut(c)) /\ WF_vars(HelperStep(c))

Spec == Init /\ [][Next]_vars /\ Fairness

(***************************************************************************)
(* While a helper may have the database open no server process lives and   *)
(* no other helper may have it open: across the moment in which neither    *)
(* coordinator nor helper holds the fence, and after the death of either.  *)
(***************************************************************************)
InDatabase(c) == helper[c] \in {"open", "awaitCommit", "deciding", "committing"}

ExclusiveAccess ==
  \A c \in Coordinators : InDatabase(c) =>
    /\ \A s \in Servers : srv[s].pc = "down"
    /\ \A d \in Coordinators \ {c} : ~InDatabase(d)

(***************************************************************************)
(* What a coordinator reports is true of the file, then and later: a       *)
(* reported commit has its receipt, and after a refusal the helper has not *)
(* committed and never will.  Only an unknown outcome leaves both open.    *)
(***************************************************************************)
ReportsAreTrue ==
  \A c \in Coordinators :
    /\ co[c].report = "committed" => c \in wrote /\ IsReplay(co[c].packet)
    /\ co[c].report = "refused" => c \notin wrote

(***************************************************************************)
(* A packet changes only a database in which the business has not written: *)
(* what it looked at when its transaction began still holds at COMMIT,     *)
(* after two more answers of the coordinator (assertFresh,                 *)
(* assertConfigOnly).                                                      *)
(***************************************************************************)
MaintainsEmptyDatabase ==
  [][db'.init # db.init \/ db'.applied # db.applied => db.written = 0]_vars

(***************************************************************************)
(* A maintenance never leaves the database fenced for good: whoever dies,  *)
(* the fence it holds is given back (the helper's input ends with the      *)
(* coordinator, the coordinator's wait with its timer).                    *)
(***************************************************************************)
FenceReturned == \A c \in Coordinators :
  exclusive \in {<<"coordinator", c>>, <<"helper", c>>} ~> exclusive \notin {<<"coordinator", c>>, <<"helper", c>>}
==============================================================================
