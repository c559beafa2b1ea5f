---------------------------- MODULE OfflineProofs ----------------------------
(***************************************************************************)
(* Proofs about what happens while the shop is closed.  First the offline  *)
(* maintenance and the servers beside it, for every set of servers and     *)
(* packets and any number of coordinators: who holds the fence says who    *)
(* may be in the database (Fenced); what a coordinator remembers and what  *)
(* is in its pipe says how far its helper has come (Remembers, Reported);  *)
(* what a server was started on says what may change while it serves       *)
(* (Served); and a transaction goes on only in a database in which the     *)
(* business has not written (Checked).                                     *)
(*                                                                         *)
(* Then the migration of a V1 database, for every set of processes and     *)
(* contents and all bounds: who may vouch for a committed target           *)
(* (CommitsKnown), what is durable (CopiesDurable, Syncs, SealedDurable),  *)
(* and how many files an operator has to remove before two invocations     *)
(* can have made the same target (RemovalsCounted, OwnTarget).             *)
(***************************************************************************)
EXTENDS Maintenance, Migration, SequenceTheorems, TLAPS

(***************************************************************************)
(* The inductive invariant.                                                *)
(***************************************************************************)
Names == Packets \cup {None}
Database == [version : Nat, wal : BOOLEAN, init : BOOLEAN, applied : Seq(Names), written : Nat]
Messages == {"ready", "beforeCommit", "result", "rolledBack", "refused"}

ServerRecords ==
  [pc : {"down", "guarded", "admitted", "opening", "checking", "migrating", "serving", "draining"},
   mode : {"none", "prepared", "active", "plain"}, baseline : Database \cup {None}, seen : Nat,
   writes : BOOLEAN, work : SUBSET {"handler", "response"}]

CoordinatorRecords ==
  [pc : {"idle", "locked", "inspecting", "approving", "waiting", "done", "dead"}, packet : Names,
   want : {"none", "launch", "open", "commit"}, commitSent : BOOLEAN, ready : BOOLEAN,
   failure : {"none", "code", "unknown"}, result : BOOLEAN, rolledBack : BOOLEAN,
   report : {"none", "committed", "refused", "unknown"}]

HelperStates == {"none", "started", "awaitOpen", "open", "awaitCommit", "deciding", "committing",
                 "leaving", "gone", "killed"}

\* The types of the variables of both modules.
TypeOK ==
  /\ db \in Database /\ production \in BOOLEAN
  /\ accept \in [state : {"none", "PREPARED", "ACTIVE"}, baseline : Database \cup {None}]
  /\ srv \in [Servers -> ServerRecords]
  /\ co \in [Coordinators -> CoordinatorRecords]
  /\ helper \in [Coordinators -> HelperStates]
  /\ toHelper \in [Coordinators -> [last : {"context", "open", "commit"}, closed : BOOLEAN]]
  /\ toCo \in [Coordinators -> Seq(Messages)]
  /\ client \in [Coordinators -> {"up", "down"}]
  /\ wrote \subseteq Coordinators

\* A helper between its fence and its exit.
Fencing == {"awaitOpen", "open", "awaitCommit", "deciding", "committing"}
Left == {"leaving", "gone", "killed"}

\* A coordinator that has not started its helper yet.
Before(c) ==
  \/ co[c].pc \in {"idle", "locked"}
  \/ co[c].pc \in {"inspecting", "approving"} /\ co[c].want = "launch"

\* The fence is held by who works under it, and by nobody while a server lives.
Fenced ==
  /\ exclusive # None => \A s \in Servers : srv[s].pc = "down"
  /\ \A c \in Coordinators :
       /\ Before(c) /\ co[c].pc \in {"inspecting", "approving"} => exclusive = <<"coordinator", c>>
       /\ helper[c] \in Fencing => exclusive = <<"helper", c>>

\* A server without a record is off the production path, an active one has an ACTIVE record,
\* and a prepared one serves what was approved until there is one.
Admitted(s) ==
  /\ srv[s].mode = "none" => srv[s].pc \in {"down", "guarded"}
  /\ srv[s].pc \in {"down", "guarded"} => srv[s].mode = "none" /\ ~ srv[s].writes
  /\ srv[s].pc \in {"checking", "migrating"} => srv[s].mode = "plain"
  /\ srv[s].pc \in {"admitted", "opening"} => srv[s].mode \in {"prepared", "active"}
  /\ srv[s].mode = "plain" => ~ production
  /\ srv[s].mode = "active" => accept.state = "ACTIVE"
  /\ srv[s].mode = "prepared" =>
       production /\ ~ srv[s].writes /\ (srv[s].baseline = db \/ accept.state = "ACTIVE")

Served ==
  /\ accept.state # "none" => production
  /\ \A s \in Servers : Admitted(s)

\* The helper has said m, and the coordinator has not read it yet.
Said(c, m) == \E i \in 1 .. Len(toCo[c]) : toCo[c][i] = m

\* Neither has the helper committed nor was it ever permitted to.
Unpermitted(c) ==
  /\ c \notin wrote
  /\ helper[c] \notin {"deciding", "committing"}
  /\ toHelper[c].last # "commit"

\* It has not committed and will not, as long as nobody permits it.
Harmless(c) == Unpermitted(c) \/ (c \notin wrote /\ helper[c] \in Left)

Recorded(c) == c \in wrote /\ IsReplay(co[c].packet)

\* What a live coordinator remembers of its helper, and what is still in the pipe, is true.
\* A helper that has committed does nothing more but leave.
Remembers(c) ==
  /\ c \in wrote => helper[c] \in Left
  /\ Before(c) => /\ helper[c] = "none" /\ toCo[c] = << >> /\ co[c].report = "none"
                  /\ ~ co[c].result /\ ~ co[c].rolledBack /\ ~ co[c].commitSent
  /\ ~ Ended(c) => co[c].report = "none" /\ (~ co[c].commitSent => Unpermitted(c))
  /\ co[c].result \/ Said(c, "result") => Recorded(c)
  /\ co[c].rolledBack \/ Said(c, "rolledBack") => c \notin wrote /\ helper[c] \in Left

\* One that has ended has an empty memory; what it reported stays true.
Reported(c) ==
  /\ Ended(c) => client[c] = "down" /\ toCo[c] = << >> /\ ~ co[c].result /\ ~ co[c].rolledBack
  /\ co[c].report = "committed" => Ended(c) /\ helper[c] = "gone" /\ Recorded(c)
  /\ co[c].report = "refused" => Ended(c) /\ Harmless(c)

Truthful == \A c \in Coordinators : Remembers(c) /\ Reported(c)

Inv == TypeOK /\ Fenced /\ Served /\ Truthful

-----------------------------------------------------------------------------
(* The steps of the servers. *)

LEMMA ServersTyped ==
  ASSUME TypeOK, ServersMove
  PROVE  TypeOK'
<1>0. /\ db' \in Database /\ srv' \in [Servers -> ServerRecords]
      /\ accept' \in [state : {"none", "PREPARED", "ACTIVE"}, baseline : Database \cup {None}]
  <2> DEFINE Good == /\ db' \in Database /\ srv' \in [Servers -> ServerRecords]
                     /\ accept' \in [state : {"none", "PREPARED", "ACTIVE"}, baseline : Database \cup {None}]
  <2> SUFFICES Good OBVIOUS
  <2>a. Down \in ServerRecords
    BY DEF Down, ServerRecords
  <2>b. ASSUME NEW s \in Servers PROVE srv[s] \in ServerRecords
    BY DEF TypeOK
  <2>1. ASSUME NEW s \in Servers, StartGuarded(s) PROVE Good
    <3>1. [srv[s] EXCEPT !.pc = "guarded"] \in ServerRecords
      BY <2>b DEF ServerRecords
    <3> QED BY <2>1, <3>1 DEF StartGuarded, TypeOK
  <2>2. ASSUME NEW s \in Servers, Gate(s) PROVE Good
    <3>1. PICK mode \in {"prepared", "active", "plain"} :
            /\ Admits(mode)
            /\ srv' = [srv EXCEPT ![s].pc = IF mode = "plain" THEN "checking" ELSE "admitted",
                                  ![s].mode = mode,
                                  ![s].baseline = IF mode = "prepared" THEN accept.baseline ELSE None,
                                  ![s].seen = IF mode = "plain" THEN db.version ELSE 0]
      BY <2>2 DEF Gate
    <3>2. db \in Database /\ accept.baseline \in Database \cup {None}
      BY DEF TypeOK
    <3>4. srv' \in [Servers -> ServerRecords]
      <4>1. [srv[s] EXCEPT !.pc = IF mode = "plain" THEN "checking" ELSE "admitted",
                           !.mode = mode,
                           !.baseline = IF mode = "prepared" THEN accept.baseline ELSE None,
                           !.seen = IF mode = "plain" THEN db.version ELSE 0] \in ServerRecords
        <5>1. db.version \in Nat
          BY <3>2 DEF Database
        <5> QED BY <2>b, <3>2, <5>1 DEF ServerRecords
      <4> QED BY <3>1, <4>1 DEF TypeOK
    <3> QED BY <2>2, <3>4 DEF Gate, TypeOK
  <2>3. ASSUME NEW s \in Servers, GateRefuses(s) PROVE Good
    BY <2>3, <2>a DEF GateRefuses, TypeOK
  <2>4. ASSUME NEW s \in Servers, CheckSchema(s) PROVE Good
    <3>1. [srv[s] EXCEPT !.pc = IF db.version <= PreCutover THEN "migrating" ELSE "serving"] \in ServerRecords
      BY <2>b DEF ServerRecords
    <3> QED BY <2>4, <2>a, <3>1 DEF CheckSchema, TypeOK
  <2>5. ASSUME NEW s \in Servers, Migrate(s) PROVE Good
    <3>1. [srv[s] EXCEPT !.pc = "serving"] \in ServerRecords
      BY <2>b DEF ServerRecords
    <3>d. db \in Database
      BY DEF TypeOK
    <3>2. [db EXCEPT !.version = @ + 1] \in Database
      BY <3>d DEF Database
    <3>3. db' \in Database
      BY <2>5, <3>d, <3>2 DEF Migrate
    <3>4. srv' \in [Servers -> ServerRecords]
      <4>1. srv' = srv \/ srv' = [srv EXCEPT ![s].pc = "serving"]
        BY <2>5 DEF Migrate
      <4> QED BY <3>1, <4>1 DEF TypeOK
    <3> QED BY <2>5, <3>3, <3>4 DEF Migrate, TypeOK
  <2>6. ASSUME NEW s \in Servers, Shutdown(s) PROVE Good
    <3>1. ASSUME NEW left \in SUBSET {"handler", "response"}
          PROVE [srv[s] EXCEPT !.pc = "draining", !.work = left] \in ServerRecords
      BY <2>b DEF ServerRecords
    <3>2. PICK left \in SUBSET {"handler", "response"} :
            srv' = [srv EXCEPT ![s].pc = "draining", ![s].work = left]
      BY <2>6 DEF Shutdown
    <3>3. srv' \in [Servers -> ServerRecords]
      BY <3>1, <3>2 DEF TypeOK
    <3> QED BY <2>6, <3>3 DEF Shutdown, TypeOK
  <2>7. ASSUME NEW s \in Servers, WorkDone(s) PROVE Good
    <3>1. PICK part \in srv[s].work : srv' = [srv EXCEPT ![s].work = @ \ {part}]
      BY <2>7 DEF WorkDone
    <3>0. srv[s].work \ {part} \in SUBSET {"handler", "response"}
      BY <2>b DEF ServerRecords
    <3>2. [srv[s] EXCEPT !.work = srv[s].work \ {part}] \in ServerRecords
      BY <2>b, <3>0 DEF ServerRecords
    <3> QED BY <2>7, <3>1, <3>2 DEF WorkDone, TypeOK
  <2>8. ASSUME NEW s \in Servers, Finish(s) \/ ServerDies(s) PROVE Good
    BY <2>8, <2>a DEF Finish, ServerDies, TypeOK
  <2>9. CASE Prepare \/ Activate
    BY <2>9 DEF Prepare, Activate, TypeOK
  <2>10. ASSUME NEW s \in Servers, ConstructStore(s) PROVE Good
    <3>1. accept.baseline \in Database \cup {None}
      BY DEF TypeOK
    <3>2. /\ [srv[s] EXCEPT !.pc = "opening", !.baseline = accept.baseline] \in ServerRecords
          /\ [srv[s] EXCEPT !.pc = "opening"] \in ServerRecords
      BY <2>b, <3>1 DEF ServerRecords
    <3>3. \E row \in ServerRecords : srv' = [srv EXCEPT ![s] = row]
      BY <2>10, <2>a, <3>2 DEF ConstructStore
    <3>4. srv' \in [Servers -> ServerRecords]
      BY <3>3 DEF TypeOK
    <3> QED BY <2>10, <3>4 DEF ConstructStore, TypeOK
  <2>11. ASSUME NEW s \in Servers, Open(s) PROVE Good
    <3>1. [srv[s] EXCEPT !.pc = "serving"] \in ServerRecords
      BY <2>b DEF ServerRecords
    <3>2. db \in Database /\ (db.wal \/ Writable(s)) \in BOOLEAN
      BY DEF TypeOK, Database, Writable
    <3>3. PICK b \in BOOLEAN : db' = [db EXCEPT !.wal = b]
      BY <2>11, <3>2 DEF Open
    <3>4. db' \in Database
      BY <3>2, <3>3 DEF Database
    <3>5. srv' \in [Servers -> ServerRecords]
      BY <2>11, <3>1 DEF Open, TypeOK
    <3> QED BY <2>11, <3>4, <3>5 DEF Open, TypeOK
  <2>12. ASSUME NEW s \in Servers, EnableWrites(s) PROVE Good
    <3>1. [srv[s] EXCEPT !.writes = TRUE] \in ServerRecords
      BY <2>b DEF ServerRecords
    <3> QED BY <2>12, <3>1 DEF EnableWrites, TypeOK
  <2>13. ASSUME NEW s \in Servers, BusinessWrite(s) PROVE Good
    <3>1. db \in Database
      BY DEF TypeOK
    <3>2. db' \in Database
      BY <2>13, <3>1 DEF BusinessWrite, Database
    <3> QED BY <2>13, <3>2 DEF BusinessWrite, TypeOK
  <2> QED
    BY <2>1, <2>2, <2>3, <2>4, <2>5, <2>6, <2>7, <2>8, <2>9, <2>10, <2>11, <2>12, <2>13
       DEF ServersMove, RuntimeNext
<1> QED
  BY <1>0 DEF ServersMove, TypeOK

-----------------------------------------------------------------------------
(* The steps of the coordinators and helpers. *)

LEMMA EndsTyped ==
  ASSUME TypeOK, NEW c \in Coordinators, NEW pc \in {"done", "dead"},
         NEW report \in {"none", "committed", "refused", "unknown"}, Ends(c, pc, report)
  PROVE  /\ co' \in [Coordinators -> CoordinatorRecords]
         /\ helper' \in [Coordinators -> HelperStates]
         /\ toHelper' \in [Coordinators -> [last : {"context", "open", "commit"}, closed : BOOLEAN]]
         /\ toCo' \in [Coordinators -> Seq(Messages)]
         /\ client' \in [Coordinators -> {"up", "down"}]
<1>1. [Idle EXCEPT !.pc = pc, !.report = report,
                   !.packet = IF Absent(c) /\ report # "committed" THEN None ELSE co[c].packet]
        \in CoordinatorRecords
  <2>1. co[c].packet \in Names
    BY DEF TypeOK, CoordinatorRecords
  <2> QED BY <2>1 DEF Idle, CoordinatorRecords, Names
<1>2. co' \in [Coordinators -> CoordinatorRecords]
  BY <1>1 DEF Ends, TypeOK
<1>3. helper' \in [Coordinators -> HelperStates]
  BY DEF Ends, TypeOK, HelperStates
<1>4. toHelper' \in [Coordinators -> [last : {"context", "open", "commit"}, closed : BOOLEAN]]
  <2>1. toHelper \in [Coordinators -> [last : {"context", "open", "commit"}, closed : BOOLEAN]]
    BY DEF TypeOK
  <2>2. [toHelper[c] EXCEPT !.closed = TRUE] \in [last : {"context", "open", "commit"}, closed : BOOLEAN]
    BY <2>1
  <2> QED BY <2>1, <2>2 DEF Ends, Closed
<1>5. toCo' \in [Coordinators -> Seq(Messages)] /\ client' \in [Coordinators -> {"up", "down"}]
  BY DEF Ends, TypeOK
<1> QED BY <1>2, <1>3, <1>4, <1>5

LEMMA SaysTyped ==
  ASSUME TypeOK, NEW c \in Coordinators, NEW m \in Messages, Says(c, m)
  PROVE  toCo' \in [Coordinators -> Seq(Messages)]
<1>1. toCo[c] \in Seq(Messages)
  BY DEF TypeOK
<1>2. Append(toCo[c], m) \in Seq(Messages)
  BY <1>1, AppendProperties
<1> QED BY <1>2 DEF Says, TypeOK

LEMMA RefusesTyped ==
  ASSUME TypeOK, NEW c \in Coordinators, NEW m \in Messages, Refuses(c, m)
  PROVE  toCo' \in [Coordinators -> Seq(Messages)] /\ helper' \in [Coordinators -> HelperStates]
<1>1. toCo' \in [Coordinators -> Seq(Messages)]
  BY SaysTyped DEF Refuses
<1> QED BY <1>1 DEF Refuses, TypeOK, HelperStates

LEMMA FailsTyped ==
  ASSUME TypeOK, NEW c \in Coordinators, NEW failure \in {"code", "unknown"}, Fails(c, failure)
  PROVE  /\ co' \in [Coordinators -> CoordinatorRecords]
         /\ toHelper' \in [Coordinators -> [last : {"context", "open", "commit"}, closed : BOOLEAN]]
<1>1. co[c] \in CoordinatorRecords /\ toHelper[c] \in [last : {"context", "open", "commit"}, closed : BOOLEAN]
  BY DEF TypeOK
<1>2. [co[c] EXCEPT !.pc = "waiting", !.failure = IF co[c].failure = "none" THEN failure ELSE co[c].failure]
        \in CoordinatorRecords
  BY <1>1 DEF CoordinatorRecords
<1>3. [toHelper[c] EXCEPT !.closed = TRUE] \in [last : {"context", "open", "commit"}, closed : BOOLEAN]
  BY <1>1
<1> QED BY <1>2, <1>3 DEF Fails, TypeOK

LEMMA CoordinatorTyped ==
  ASSUME TypeOK, NEW c \in Coordinators,
         TakeTurn(c) \/ CoordinatorStep(c) \/ TimesOut(c) \/ CoordinatorDies(c)
  PROVE  TypeOK'
<1>0. co[c] \in CoordinatorRecords /\ toHelper[c] \in [last : {"context", "open", "commit"}, closed : BOOLEAN]
  BY DEF TypeOK
<1>1. CASE TakeTurn(c)
  <2>1. PICK p \in Packets : co' = [co EXCEPT ![c].pc = "locked", ![c].packet = p]
    BY <1>1 DEF TakeTurn
  <2>2. [co[c] EXCEPT !.pc = "locked", !.packet = p] \in CoordinatorRecords
    BY <1>0 DEF CoordinatorRecords, Names
  <2>3. co' \in [Coordinators -> CoordinatorRecords]
    BY <2>1, <2>2 DEF TypeOK
  <2> QED BY <1>1, <2>3 DEF TakeTurn, facts, TypeOK
<1>2. CASE TakeFence(c)
  <2>1. CASE Ends(c, "done", "refused")
    BY <1>2, <2>1, EndsTyped DEF TakeFence, facts, TypeOK
  <2>2. CASE FenceFree
    <3>1. [co[c] EXCEPT !.pc = "inspecting", !.want = "launch"] \in CoordinatorRecords
      BY <1>0 DEF CoordinatorRecords
    <3>2. co' \in [Coordinators -> CoordinatorRecords]
      BY <1>2, <2>2, <3>1 DEF TakeFence, TypeOK
    <3> QED BY <1>2, <2>2, <3>2 DEF TakeFence, facts, TypeOK
  <2> QED BY <1>2, <2>1, <2>2 DEF TakeFence
<1>3. CASE Inspect(c)
  <2>1. CASE Ends(c, "done", "refused")
    BY <1>3, <2>1, EndsTyped DEF Inspect, facts, TypeOK
  <2>2. CASE Fails(c, "code") /\ UNCHANGED <<turn, exclusive, helper, toCo, client>>
    BY <1>3, <2>2, FailsTyped DEF Inspect, facts, TypeOK
  <2>3. CASE /\ co' = [co EXCEPT ![c].pc = "approving"]
             /\ UNCHANGED <<turn, exclusive, helper, toHelper, toCo, client>>
    <3>1. [co[c] EXCEPT !.pc = "approving"] \in CoordinatorRecords
      BY <1>0 DEF CoordinatorRecords
    <3>2. co' \in [Coordinators -> CoordinatorRecords]
      BY <2>3, <3>1 DEF TypeOK
    <3> QED BY <1>3, <2>3, <3>2 DEF Inspect, facts, TypeOK
  <2> QED BY <1>3, <2>1, <2>2, <2>3 DEF Inspect
<1>4. CASE Launch(c)
  <2>1. CASE Ends(c, "done", "refused")
    BY <1>4, <2>1, EndsTyped DEF Launch, facts, TypeOK
  <2>2. CASE ApprovalStands
    <3>1. [co[c] EXCEPT !.pc = "waiting"] \in CoordinatorRecords
      BY <1>0 DEF CoordinatorRecords
    <3>2. co' \in [Coordinators -> CoordinatorRecords] /\ helper' \in [Coordinators -> HelperStates]
      BY <1>4, <2>2, <3>1 DEF Launch, TypeOK, HelperStates
    <3> QED BY <1>4, <2>2, <3>2 DEF Launch, facts, TypeOK
  <2> QED BY <1>4, <2>1, <2>2 DEF Launch
<1>5. CASE Permit(c)
  <2>1. CASE Fails(c, "code")
    BY <1>5, <2>1, FailsTyped DEF Permit, facts, TypeOK
  <2>2. CASE ApprovalStands
    <3>1. [co[c] EXCEPT !.pc = "waiting", !.commitSent = (co[c].commitSent \/ co[c].want = "commit")]
            \in CoordinatorRecords
      BY <1>0 DEF CoordinatorRecords
    <3>2. co' \in [Coordinators -> CoordinatorRecords]
      BY <1>5, <2>2, <3>1 DEF Permit, TypeOK
    <3>3. toHelper' \in [Coordinators -> [last : {"context", "open", "commit"}, closed : BOOLEAN]]
      <4>1. [last |-> co[c].want, closed |-> co[c].want = "commit"]
              \in [last : {"context", "open", "commit"}, closed : BOOLEAN]
        BY <1>5 DEF Permit
      <4>2. \/ toHelper' = [toHelper EXCEPT ![c] = toHelper[c]]
            \/ toHelper' = [toHelper EXCEPT ![c] = [last |-> co[c].want, closed |-> co[c].want = "commit"]]
        BY <1>5, <2>2 DEF Permit
      <4>3. toHelper \in [Coordinators -> [last : {"context", "open", "commit"}, closed : BOOLEAN]]
        BY DEF TypeOK
      <4>4. toHelper[c] \in [last : {"context", "open", "commit"}, closed : BOOLEAN]
        BY <4>3
      <4> QED BY <4>1, <4>2, <4>3, <4>4
    <3> QED BY <1>5, <3>2, <3>3 DEF Permit, facts, TypeOK
  <2> QED BY <1>5, <2>1, <2>2 DEF Permit
<1>6. CASE Handle(c)
  <2>1. toCo' \in [Coordinators -> Seq(Messages)]
    <3>1. Tail(toCo[c]) \in Seq(Messages)
      BY <1>6, HeadTailProperties DEF Handle, TypeOK
    <3> QED BY <1>6, <3>1 DEF Handle, TypeOK
  <2>2. /\ co' \in [Coordinators -> CoordinatorRecords]
        /\ toHelper' \in [Coordinators -> [last : {"context", "open", "commit"}, closed : BOOLEAN]]
    <3>1. CASE Fails(c, "code")
      BY <3>1, FailsTyped
    <3>2. CASE UNCHANGED toHelper /\ \E w \in {"open", "commit"} :
                 co' = [co EXCEPT ![c].pc = "inspecting", ![c].ready = TRUE, ![c].want = w]
      <4>1. PICK w \in {"open", "commit"} :
              co' = [co EXCEPT ![c].pc = "inspecting", ![c].ready = TRUE, ![c].want = w]
        BY <3>2
      <4>2. [co[c] EXCEPT !.pc = "inspecting", !.ready = TRUE, !.want = w] \in CoordinatorRecords
        BY <1>0 DEF CoordinatorRecords
      <4> QED BY <3>2, <4>1, <4>2 DEF TypeOK
    <3>3. CASE UNCHANGED toHelper /\ co' = [co EXCEPT ![c].result = TRUE]
      <4>1. [co[c] EXCEPT !.result = TRUE] \in CoordinatorRecords
        BY <1>0 DEF CoordinatorRecords
      <4> QED BY <3>3, <4>1 DEF TypeOK
    <3>4. CASE UNCHANGED toHelper /\ \E b \in BOOLEAN :
                 co' = [co EXCEPT ![c].rolledBack = b, ![c].failure = IF @ = "none" THEN "code" ELSE @]
      <4>1. PICK b \in BOOLEAN :
              co' = [co EXCEPT ![c].rolledBack = b, ![c].failure = IF @ = "none" THEN "code" ELSE @]
        BY <3>4
      <4>2. [co[c] EXCEPT !.rolledBack = b, !.failure = IF @ = "none" THEN "code" ELSE @]
              \in CoordinatorRecords
        BY <1>0 DEF CoordinatorRecords
      <4> QED BY <3>4, <4>1, <4>2 DEF TypeOK
    <3> QED BY <1>6, <3>1, <3>2, <3>3, <3>4 DEF Handle
  <2> QED BY <1>6, <2>1, <2>2 DEF Handle, facts, TypeOK
<1>7. CASE Close(c)
  <2>1. Verdict(c) \in {"none", "committed", "refused", "unknown"}
    BY DEF Verdict
  <2>2. Ends(c, "done", Verdict(c))
    BY <1>7 DEF Close
  <2> HIDE DEF Verdict
  <2> QED BY <1>7, <2>1, <2>2, EndsTyped DEF Close, facts, TypeOK
<1>8. CASE TimesOut(c)
  <2>1. [co[c] EXCEPT !.failure = "unknown"] \in CoordinatorRecords
    BY <1>0 DEF CoordinatorRecords
  <2>2. [toHelper[c] EXCEPT !.closed = TRUE] \in [last : {"context", "open", "commit"}, closed : BOOLEAN]
    BY <1>0
  <2>3. /\ co' \in [Coordinators -> CoordinatorRecords]
        /\ toHelper' \in [Coordinators -> [last : {"context", "open", "commit"}, closed : BOOLEAN]]
    BY <1>8, <2>1, <2>2 DEF TimesOut, TypeOK
  <2> QED BY <1>8, <2>3 DEF TimesOut, facts, TypeOK
<1>9. CASE CoordinatorDies(c)
  BY <1>9, EndsTyped DEF CoordinatorDies, facts, TypeOK
<1> QED
  BY <1>1, <1>2, <1>3, <1>4, <1>5, <1>6, <1>7, <1>8, <1>9 DEF CoordinatorStep

LEMMA HelperTyped ==
  ASSUME TypeOK, NEW c \in Coordinators, HelperStep(c) \/ HelperDies(c) \/ ClientDies(c)
  PROVE  TypeOK'
<1>0. ASSUME NEW how \in {"gone", "killed"}, HelperGone(c, how) PROVE TypeOK'
  <2>1. ASSUME Ended(c) PROVE [co[c] EXCEPT !.packet = None] \in CoordinatorRecords
    <3>1. co[c] \in CoordinatorRecords
      BY DEF TypeOK
    <3> QED BY <3>1 DEF CoordinatorRecords, Names
  <2>2. co' \in [Coordinators -> CoordinatorRecords]
    BY <1>0, <2>1 DEF HelperGone, TypeOK
  <2>3. helper' \in [Coordinators -> HelperStates]
    BY <1>0 DEF HelperGone, TypeOK, HelperStates
  <2>4. toHelper' \in [Coordinators -> [last : {"context", "open", "commit"}, closed : BOOLEAN]]
    BY <1>0 DEF HelperGone, TypeOK, Closed
  <2> QED BY <1>0, <2>2, <2>3, <2>4 DEF HelperGone, facts, TypeOK
<1>a. ASSUME NEW state \in HelperStates, helper' = [helper EXCEPT ![c] = state]
      PROVE  helper' \in [Coordinators -> HelperStates]
  BY <1>a DEF TypeOK
<1>1. CASE HelperTakesFence(c)
  BY <1>1, <1>a, SaysTyped, RefusesTyped DEF HelperTakesFence, HelperStates, Messages, facts, TypeOK
<1>2. CASE ReadOpenPermit(c)
  BY <1>2, <1>a, RefusesTyped DEF ReadOpenPermit, HelperStates, Messages, facts, TypeOK
<1>3. CASE Transact(c)
  <2>1. CASE helper' = [helper EXCEPT ![c] = "awaitCommit"] /\ Says(c, "beforeCommit")
    BY <1>3, <2>1, <1>a, SaysTyped DEF Transact, HelperStates, Messages, facts, TypeOK
  <2>2. CASE \E m \in {"rolledBack", "refused"} : Refuses(c, m)
    <3>1. toCo' \in [Coordinators -> Seq(Messages)] /\ helper' \in [Coordinators -> HelperStates]
      BY <2>2, RefusesTyped DEF Messages
    <3> QED BY <1>3, <3>1 DEF Transact, facts, TypeOK
  <2> QED BY <1>3, <2>1, <2>2 DEF Transact
<1>4. CASE ReadCommitPermit(c)
  BY <1>4, <1>a, RefusesTyped DEF ReadCommitPermit, HelperStates, Messages, facts, TypeOK
<1>5. CASE Decide(c)
  BY <1>5, <1>a, RefusesTyped DEF Decide, HelperStates, Messages, facts, TypeOK
<1>6. CASE Commit(c)
  <2>1. db' \in Database
    <3>1. db \in Database /\ co[c].packet \in Names
      BY DEF TypeOK, CoordinatorRecords
    <3>2. Append(db.applied, co[c].packet) \in Seq(Names)
      BY <3>1, AppendProperties DEF Database
    <3>3. [db EXCEPT !.init = TRUE] \in Database
      BY <3>1 DEF Database
    <3>4. [db EXCEPT !.applied = Append(db.applied, co[c].packet)] \in Database
      BY <3>1, <3>2 DEF Database
    <3> QED BY <1>6, <3>1, <3>3, <3>4 DEF Commit, After
  <2>2. toCo' \in [Coordinators -> Seq(Messages)]
    BY <1>6, SaysTyped DEF Commit, Messages
  <2> QED BY <1>6, <2>1, <2>2 DEF Commit, HelperStates, TypeOK
<1>7. CASE CommitFails(c)
  BY <1>7, RefusesTyped DEF CommitFails, Messages, facts, TypeOK
<1>8. CASE HelperExits(c) \/ HelperDies(c)
  BY <1>0, <1>8 DEF HelperExits, HelperDies
<1>9. CASE ClientDies(c)
  <2>1. PICK n \in 0 .. Len(toCo[c]) : toCo' = [toCo EXCEPT ![c] = SubSeq(toCo[c], 1, n)]
    BY <1>9 DEF ClientDies
  <2>2. SubSeq(toCo[c], 1, n) \in Seq(Messages)
    BY SubSeqProperties DEF TypeOK
  <2>3. toCo' \in [Coordinators -> Seq(Messages)]
    BY <2>1, <2>2 DEF TypeOK
  <2>4. toHelper' \in [Coordinators -> [last : {"context", "open", "commit"}, closed : BOOLEAN]]
    <3>1. toHelper \in [Coordinators -> [last : {"context", "open", "commit"}, closed : BOOLEAN]]
      BY DEF TypeOK
    <3>2. PICK told : told = [toHelper[c] EXCEPT !.closed = TRUE]
      OBVIOUS
    <3>3. told \in [last : {"context", "open", "commit"}, closed : BOOLEAN]
      BY <3>1, <3>2
    <3>4. toHelper' = [toHelper EXCEPT ![c] = told]
      BY <1>9, <3>2 DEF ClientDies
    <3> QED BY <3>1, <3>3, <3>4
  <2> QED BY <1>9, <2>3, <2>4 DEF ClientDies, facts, TypeOK
<1> QED
  BY <1>1, <1>2, <1>3, <1>4, <1>5, <1>6, <1>7, <1>8, <1>9 DEF HelperStep

-----------------------------------------------------------------------------
(* The fence. *)

LEMMA ServersFenced ==
  ASSUME TypeOK, Fenced, ServersMove
  PROVE  Fenced'
<1>1. ASSUME exclusive # None, NEW s \in Servers PROVE srv'[s].pc = "down"
  <2>1. \A t \in Servers : srv[t].pc = "down"
    BY <1>1 DEF Fenced
  <2>2. \A t \in Servers : ~ StartGuarded(t) /\ ~ Gate(t) /\ ~ GateRefuses(t) /\ ~ CheckSchema(t)
          /\ ~ ConstructStore(t) /\ ~ Open(t) /\ ~ EnableWrites(t) /\ ~ BusinessWrite(t)
          /\ ~ Migrate(t) /\ ~ Shutdown(t) /\ ~ WorkDone(t) /\ ~ Finish(t) /\ ~ ServerDies(t)
    <3>1. \A t \in Servers : ~ StartGuarded(t)
      BY <1>1 DEF StartGuarded, FenceAdmitsShared
    <3>2. \A t \in Servers : ~ Gate(t) /\ ~ GateRefuses(t) /\ ~ CheckSchema(t) /\ ~ Migrate(t)
      BY <2>1, Zenon DEF Gate, GateRefuses, CheckSchema, Migrate
    <3>3. \A t \in Servers : ~ Shutdown(t) /\ ~ WorkDone(t) /\ ~ Finish(t) /\ ~ ServerDies(t)
      BY <2>1, Zenon DEF Shutdown, WorkDone, Finish, ServerDies
    <3>4. \A t \in Servers : ~ ConstructStore(t) /\ ~ Open(t) /\ ~ EnableWrites(t) /\ ~ BusinessWrite(t)
      BY <2>1, Zenon DEF ConstructStore, Open, EnableWrites, BusinessWrite
    <3> QED BY <3>1, <3>2, <3>3, <3>4
  <2>3. srv' = srv
    BY <2>2 DEF ServersMove, RuntimeNext, Prepare, Activate
  <2> QED BY <2>1, <2>3
<1>2. exclusive' = exclusive
  BY Zenon DEF ServersMove, RuntimeNext, StartGuarded, Gate, GateRefuses, ConstructStore, Open, CheckSchema,
         Migrate, EnableWrites, BusinessWrite, Shutdown, WorkDone, Finish, ServerDies, Prepare, Activate
<1> QED
  BY <1>1, <1>2 DEF ServersMove, Fenced, Before

LEMMA EndsFenced ==
  ASSUME TypeOK, Fenced, NEW c \in Coordinators, NEW pc \in {"done", "dead"}, NEW report,
         Ends(c, pc, report), UNCHANGED facts
  PROVE  Fenced'
<1>1. srv' = srv /\ (exclusive' = exclusive \/ (exclusive = <<"coordinator", c>> /\ exclusive' = None))
  BY DEF Ends, Releases, facts
<1>2. co'[c].pc = pc /\ \A d \in Coordinators : d # c => co'[d] = co[d]
  <2>1. co' = [co EXCEPT ![c] = [Idle EXCEPT !.pc = pc, !.report = report,
               !.packet = IF Absent(c) /\ report # "committed" THEN None ELSE co[c].packet]]
    BY DEF Ends
  <2> QED BY <2>1 DEF TypeOK, Idle
<1>3. \A d \in Coordinators : helper'[d] \in Fencing => helper[d] \in Fencing
  BY DEF Ends, TypeOK, Fencing
<1>4. ASSUME NEW d \in Coordinators, Before(d)', co'[d].pc \in {"inspecting", "approving"}
      PROVE  exclusive' = <<"coordinator", d>>
  BY <1>1, <1>2, <1>4 DEF Before, Fenced
<1> QED
  BY <1>1, <1>3, <1>4 DEF Fenced

LEMMA CoordinatorFenced ==
  ASSUME TypeOK, Fenced, NEW c \in Coordinators,
         TakeTurn(c) \/ CoordinatorStep(c) \/ TimesOut(c) \/ CoordinatorDies(c)
  PROVE  Fenced'
<1>0. srv' = srv
  BY DEF TakeTurn, CoordinatorStep, TakeFence, Inspect, Launch, Permit, Handle, Close, TimesOut,
         CoordinatorDies, facts
<1>a. CASE \E report \in {"none", "committed", "refused", "unknown"}, pc \in {"done", "dead"} :
             Ends(c, pc, report) /\ UNCHANGED facts
  BY <1>a, EndsFenced
\* The coordinator moves on under the same fence.
<1>b. CASE /\ exclusive' = exclusive /\ helper' = helper
           /\ \A d \in Coordinators : d # c => co'[d] = co[d]
           /\ Before(c)' /\ co'[c].pc \in {"inspecting", "approving"} => exclusive = <<"coordinator", c>>
  BY <1>0, <1>b DEF Fenced, Before
<1>1. CASE TakeTurn(c)
  <2>1. PICK p \in Packets : co' = [co EXCEPT ![c].pc = "locked", ![c].packet = p]
    BY <1>1 DEF TakeTurn
  <2>2. co'[c].pc = "locked" /\ \A d \in Coordinators : d # c => co'[d] = co[d]
    BY <2>1 DEF TypeOK, CoordinatorRecords
  <2> QED BY <1>1, <1>b, <2>2 DEF TakeTurn, facts
<1>2. CASE TakeFence(c) /\ FenceFree
  <2>1. co'[c].pc = "inspecting" /\ exclusive' = <<"coordinator", c>> /\ helper' = helper
    BY <1>2 DEF TakeFence, TypeOK, CoordinatorRecords
  <2>2. \A d \in Coordinators : d # c => co'[d] = co[d]
    BY <1>2 DEF TakeFence, TypeOK
  <2>3. exclusive = None /\ \A s \in Servers : srv[s].pc = "down"
    BY <1>2 DEF FenceFree
  <2>4. \A d \in Coordinators : helper[d] \notin Fencing
    BY <2>3, NoneAssumption DEF Fenced
  <2>5. \A d \in Coordinators : ~ (Before(d) /\ co[d].pc \in {"inspecting", "approving"})
    BY <2>3, NoneAssumption DEF Fenced
  <2> QED BY <1>0, <2>1, <2>2, <2>3, <2>4, <2>5 DEF Fenced, Before
<1>3. CASE Inspect(c)
  <2>1. CASE Ends(c, "done", "refused")
    BY <1>3, <1>a, <2>1 DEF Inspect
  <2>2. CASE Fails(c, "code") /\ UNCHANGED <<turn, exclusive, helper, toCo, client>>
    <3>1. co'[c].pc = "waiting"
      BY <2>2 DEF Fails, TypeOK
    <3> QED BY <1>b, <2>2, <3>1 DEF Fails, TypeOK
  <2>3. CASE /\ co' = [co EXCEPT ![c].pc = "approving"]
             /\ UNCHANGED <<turn, exclusive, helper, toHelper, toCo, client>>
    <3>1. co'[c].want = co[c].want
      BY <2>3 DEF TypeOK, CoordinatorRecords
    <3>2. Before(c)' /\ co'[c].pc = "approving" => Before(c)
      BY <1>3, <2>3, <3>1 DEF Before, Inspect, TypeOK
    <3>3. co[c].pc = "inspecting" /\ co'[c].pc = "approving"
      BY <1>3, <2>3 DEF Inspect, TypeOK
    <3> QED BY <1>b, <2>3, <3>2, <3>3 DEF Fenced, TypeOK
  <2> QED BY <1>3, <2>1, <2>2, <2>3 DEF Inspect
<1>4. CASE Launch(c)
  <2>1. CASE Ends(c, "done", "refused")
    BY <1>4, <1>a, <2>1 DEF Launch
  <2>2. CASE ApprovalStands
    <3>1. exclusive = <<"coordinator", c>>
      BY <1>4 DEF Launch, Fenced, Before
    <3>2. exclusive' = None /\ co'[c].pc = "waiting"
      BY <1>4, <2>2 DEF Launch, TypeOK, CoordinatorRecords
    <3>3. \A d \in Coordinators : d # c => co'[d] = co[d]
      BY <1>4, <2>2 DEF Launch, TypeOK
    <3>4. \A d \in Coordinators : helper[d] \notin Fencing
      BY <3>1 DEF Fenced
    <3>5. \A d \in Coordinators : helper'[d] \notin Fencing
      BY <1>4, <2>2, <3>4 DEF Launch, TypeOK, Fencing
    <3> QED BY <1>0, <3>1, <3>2, <3>3, <3>5 DEF Fenced, Before
  <2> QED BY <1>4, <2>1, <2>2 DEF Launch
<1>5. CASE Permit(c)
  <2>1. co'[c].pc = "waiting"
    <3>1. \/ co' = [co EXCEPT ![c].pc = "waiting", ![c].commitSent = (co[c].commitSent \/ co[c].want = "commit")]
          \/ co' = [co EXCEPT ![c].pc = "waiting",
                              ![c].failure = IF co[c].failure = "none" THEN "code" ELSE co[c].failure]
      BY <1>5 DEF Permit, Fails
    <3> QED BY <3>1 DEF TypeOK, CoordinatorRecords
  <2>2. \A d \in Coordinators : d # c => co'[d] = co[d]
    BY <1>5 DEF Permit, Fails, TypeOK
  <2> QED BY <1>5, <1>b, <2>1, <2>2 DEF Permit
<1>6. CASE Handle(c)
  <2>1. \A d \in Coordinators : d # c => co'[d] = co[d]
    BY <1>6 DEF Handle, Fails, TypeOK
  <2>2. co'[c].pc = "waiting" \/ co'[c].want \in {"open", "commit"}
    <3>1. co[c] \in CoordinatorRecords /\ co[c].pc = "waiting"
      BY <1>6 DEF Handle, TypeOK
    <3> QED BY <1>6, <3>1 DEF Handle, Fails, TypeOK, CoordinatorRecords
  <2> QED BY <1>6, <1>b, <2>1, <2>2 DEF Handle, Before
<1>7. CASE Close(c)
  <2>1. Verdict(c) \in {"none", "committed", "refused", "unknown"}
    BY DEF Verdict
  <2> HIDE DEF Verdict
  <2> QED BY <1>7, <1>a, <2>1 DEF Close
<1>8. CASE TimesOut(c)
  <2>1. co'[c].pc = "waiting"
    BY <1>8 DEF TimesOut, TypeOK, CoordinatorRecords
  <2> QED BY <1>8, <1>b, <2>1 DEF TimesOut, TypeOK
<1>9. CASE CoordinatorDies(c)
  BY <1>9, <1>a DEF CoordinatorDies
<1>10. CASE TakeFence(c) /\ ~ FenceFree
  BY <1>10, <1>a DEF TakeFence
<1> QED
  BY <1>1, <1>2, <1>3, <1>4, <1>5, <1>6, <1>7, <1>8, <1>9, <1>10 DEF CoordinatorStep

LEMMA HelperFenced ==
  ASSUME TypeOK, Fenced, NEW c \in Coordinators, HelperStep(c) \/ HelperDies(c) \/ ClientDies(c)
  PROVE  Fenced'
<1>0. srv' = srv
  BY DEF HelperStep, HelperDies, ClientDies, HelperTakesFence, ReadOpenPermit, Transact, ReadCommitPermit,
         Decide, Commit, CommitFails, HelperExits, HelperGone, facts
\* A helper that has the fence goes on, or one that has it no more is gone.
<1>a. CASE /\ exclusive' = exclusive /\ co' = co
           /\ helper[c] \notin Fencing => helper'[c] \notin Fencing
           /\ \A d \in Coordinators : d # c => helper'[d] = helper[d]
  BY <1>0, <1>a DEF Fenced, Before
<1>1. CASE HelperTakesFence(c) /\ FenceFree
  <2>1. exclusive' = <<"helper", c>> /\ co' = co /\ \A d \in Coordinators : d # c => helper'[d] = helper[d]
    BY <1>1 DEF HelperTakesFence, TypeOK
  <2>2. exclusive = None /\ \A s \in Servers : srv[s].pc = "down"
    BY <1>1 DEF FenceFree
  <2>3. \A d \in Coordinators : helper[d] \notin Fencing
    BY <2>2, NoneAssumption DEF Fenced
  <2>4. \A d \in Coordinators : ~ (Before(d) /\ co[d].pc \in {"inspecting", "approving"})
    BY <2>2, NoneAssumption DEF Fenced
  <2> QED BY <1>0, <2>1, <2>2, <2>3, <2>4 DEF Fenced, Before
<1>2. CASE HelperTakesFence(c) /\ ~ FenceFree
  BY <1>2, <1>a DEF HelperTakesFence, Refuses, TypeOK, Fencing
<1>3. CASE ReadOpenPermit(c) \/ Transact(c) \/ ReadCommitPermit(c) \/ Decide(c) \/ Commit(c) \/ CommitFails(c)
  <2>1. helper[c] \in Fencing /\ exclusive' = exclusive /\ co' = co
    BY <1>3 DEF ReadOpenPermit, Transact, ReadCommitPermit, Decide, Commit, CommitFails, Fencing
  <2>2. \A d \in Coordinators : d # c => helper'[d] = helper[d]
    BY <1>3 DEF ReadOpenPermit, Transact, ReadCommitPermit, Decide, Commit, CommitFails, Refuses, TypeOK
  <2> QED BY <1>a, <2>1, <2>2
<1>4. CASE \E how \in {"gone", "killed"} : HelperGone(c, how)
  <2>1. helper'[c] \in {"gone", "killed"} /\ \A d \in Coordinators : d # c => helper'[d] = helper[d]
    BY <1>4 DEF HelperGone, TypeOK
  <2>2. \A d \in Coordinators : Before(d)' = Before(d) /\ co'[d].pc = co[d].pc
    <3>1. \A d \in Coordinators : co'[d].pc = co[d].pc /\ co'[d].want = co[d].want
      BY <1>4 DEF HelperGone, TypeOK, CoordinatorRecords
    <3> QED BY <3>1 DEF Before
  <2>3. exclusive' = exclusive \/ (exclusive = <<"helper", c>> /\ exclusive' = None)
    BY <1>4 DEF HelperGone
  <2>4. ASSUME NEW d \in Coordinators, helper'[d] \in Fencing PROVE exclusive' = <<"helper", d>>
    BY <2>1, <2>3, <2>4 DEF Fenced, Fencing
  <2>5. ASSUME NEW d \in Coordinators, Before(d)', co'[d].pc \in {"inspecting", "approving"}
        PROVE  exclusive' = <<"coordinator", d>>
    BY <2>2, <2>3, <2>5 DEF Fenced
  <2> QED BY <1>0, <2>3, <2>4, <2>5 DEF Fenced
<1>5. CASE ClientDies(c)
  BY <1>5, <1>a DEF ClientDies
<1> QED
  BY <1>1, <1>2, <1>3, <1>4, <1>5 DEF HelperStep, HelperExits, HelperDies

-----------------------------------------------------------------------------
(* What a server was started on. *)

LEMMA ServersServed ==
  ASSUME TypeOK, Served, ServersMove
  PROVE  Served'
<1>0. /\ production' = production /\ db \in Database /\ srv \in [Servers -> ServerRecords]
      /\ \A s \in Servers : Admitted(s)
  BY DEF ServersMove, TypeOK, Served
\* A server moves, and the file stays as it is.
<1>a. ASSUME NEW s \in Servers, accept' = accept, db' = db,
             \A t \in Servers : t # s => srv'[t] = srv[t], Admitted(s)'
      PROVE  Served'
  BY <1>0, <1>a DEF Served, Admitted
<1>b. ASSUME NEW s \in Servers, accept' = accept, db' = db, srv' = [srv EXCEPT ![s] = Down]
      PROVE  Served'
  <2>1. Admitted(s)'
    BY <1>0, <1>b DEF Down, Admitted
  <2> QED BY <1>a, <1>b, <1>0, <2>1
\* The file changes, as it may where no server is prepared or the record is ACTIVE.
<1>c. ASSUME NEW s \in Servers, accept' = accept, accept.state = "ACTIVE" \/ ~ production,
             \A t \in Servers : t # s => srv'[t] = srv[t],
             srv'[s].mode = srv[s].mode, srv'[s].writes = srv[s].writes,
             srv'[s].pc = srv[s].pc \/ srv'[s].pc = "serving", srv[s].pc \notin {"down", "guarded"}
      PROVE  Served'
  BY <1>0, <1>c DEF Served, Admitted
<1>1. ASSUME NEW s \in Servers, StartGuarded(s) PROVE Served'
  <2>1. srv'[s].pc = "guarded" /\ srv'[s].mode = srv[s].mode /\ srv'[s].writes = srv[s].writes
    BY <1>0, <1>1 DEF StartGuarded, ServerRecords
  <2>2. Admitted(s)'
    BY <1>0, <1>1, <2>1 DEF StartGuarded, Admitted
  <2> QED BY <1>a, <1>0, <1>1, <2>2 DEF StartGuarded
<1>2. ASSUME NEW s \in Servers, Gate(s) PROVE Served'
  <2>1. PICK mode \in {"prepared", "active", "plain"} :
          /\ Admits(mode)
          /\ srv' = [srv EXCEPT ![s].pc = IF mode = "plain" THEN "checking" ELSE "admitted",
                                ![s].mode = mode,
                                ![s].baseline = IF mode = "prepared" THEN accept.baseline ELSE None,
                                ![s].seen = IF mode = "plain" THEN db.version ELSE 0]
    BY <1>2 DEF Gate
  <2>2. db' = db /\ accept' = accept /\ \A t \in Servers : t # s => srv'[t] = srv[t]
    BY <1>0, <1>2, <2>1 DEF Gate
  <2>3. /\ srv'[s].pc = IF mode = "plain" THEN "checking" ELSE "admitted"
        /\ srv'[s].mode = mode
        /\ srv'[s].baseline = IF mode = "prepared" THEN accept.baseline ELSE None
        /\ srv'[s].writes = srv[s].writes
    BY <1>0, <2>1 DEF ServerRecords
  <2>w. ~ srv[s].writes
    BY <1>0, <1>2 DEF Gate, Admitted
  <2>5. CASE mode = "prepared"
    <3>1. accept.state = "PREPARED" /\ accept.baseline = db
      BY <2>1, <2>5 DEF Admits, BaselineMatches
    <3>2. production
      BY <3>1 DEF Served
    <3>3. Admitted(s)'
      BY <1>0, <2>2, <2>3, <2>w, <2>5, <3>1, <3>2 DEF Admitted
    <3> QED BY <1>a, <2>2, <3>3
  <2>6. CASE mode = "plain"
    <3>1. ~ production
      BY <2>1, <2>6 DEF Admits
    <3>2. Admitted(s)'
      BY <1>0, <2>2, <2>3, <2>6, <3>1 DEF Admitted
    <3> QED BY <1>a, <2>2, <3>2
  <2>7. CASE mode = "active"
    <3>1. accept.state = "ACTIVE"
      BY <2>1, <2>7 DEF Admits
    <3>2. Admitted(s)'
      BY <1>0, <2>2, <2>3, <2>7, <3>1 DEF Admitted
    <3> QED BY <1>a, <2>2, <3>2
  <2> QED BY <2>5, <2>6, <2>7
<1>3. ASSUME NEW s \in Servers, GateRefuses(s) PROVE Served'
  BY <1>3, <1>b DEF GateRefuses
<1>4. ASSUME NEW s \in Servers, CheckSchema(s) PROVE Served'
  <2>1. srv[s].mode = "plain" /\ ~ production
    BY <1>0, <1>4 DEF CheckSchema, Admitted
  <2>2. CASE srv' = [srv EXCEPT ![s] = Down]
    BY <1>4, <1>b, <2>2 DEF CheckSchema
  <2>3. CASE \E pc \in {"migrating", "serving"} : srv' = [srv EXCEPT ![s].pc = pc]
    <3>1. srv'[s].mode = "plain" /\ srv'[s].pc \in {"migrating", "serving"}
          /\ \A t \in Servers : t # s => srv'[t] = srv[t]
      BY <1>0, <2>1, <2>3 DEF ServerRecords
    <3>2. Admitted(s)'
      BY <1>0, <2>1, <3>1 DEF Admitted
    <3> QED BY <1>a, <1>4, <3>1, <3>2 DEF CheckSchema
  <2>4. \/ srv' = [srv EXCEPT ![s] = Down]
        \/ srv' = [srv EXCEPT ![s] = [srv[s] EXCEPT !.pc = IF db.version <= PreCutover THEN "migrating" ELSE "serving"]]
    BY <1>4 DEF CheckSchema
  <2> QED BY <2>2, <2>3, <2>4
<1>5. ASSUME NEW s \in Servers, Migrate(s) PROVE Served'
  <2>1. ~ production /\ srv[s].pc = "migrating"
    BY <1>0, <1>5 DEF Migrate, Admitted
  <2>2. srv' = srv \/ srv' = [srv EXCEPT ![s].pc = "serving"]
    BY <1>5 DEF Migrate
  <2>3. /\ srv'[s].mode = srv[s].mode /\ srv'[s].writes = srv[s].writes
        /\ srv'[s].pc = srv[s].pc \/ srv'[s].pc = "serving"
        /\ \A t \in Servers : t # s => srv'[t] = srv[t]
    BY <1>0, <2>2 DEF ServerRecords
  <2> QED BY <1>5, <1>c, <2>1, <2>3 DEF Migrate
<1>6. ASSUME NEW s \in Servers, Shutdown(s) \/ WorkDone(s) PROVE Served'
  <2>1. \/ \E left \in SUBSET {"handler", "response"} :
             srv' = [srv EXCEPT ![s].pc = "draining", ![s].work = left]
        \/ srv[s].pc = "draining" /\ \E part \in srv[s].work : srv' = [srv EXCEPT ![s].work = @ \ {part}]
    BY <1>6 DEF Shutdown, WorkDone
  <2>2. srv'[s].pc = "draining" /\ srv'[s].mode = srv[s].mode /\ srv'[s].baseline = srv[s].baseline
        /\ srv'[s].writes = srv[s].writes /\ \A t \in Servers : t # s => srv'[t] = srv[t]
    BY <1>0, <2>1 DEF ServerRecords
  <2>3. accept' = accept /\ db' = db /\ srv[s].pc \in {"serving", "draining"}
    BY <1>6 DEF Shutdown, WorkDone
  <2>4. Admitted(s)'
    BY <1>0, <2>2, <2>3 DEF Admitted
  <2> QED BY <1>a, <2>2, <2>3, <2>4
<1>7. ASSUME NEW s \in Servers, Finish(s) \/ ServerDies(s) PROVE Served'
  BY <1>7, <1>b DEF Finish, ServerDies
<1>8. CASE Prepare \/ Activate
  BY <1>0, <1>8 DEF Prepare, Activate, Served, Admitted
<1>9. ASSUME NEW s \in Servers, ConstructStore(s) PROVE Served'
  <2>1. srv[s].mode \in {"prepared", "active"} /\ accept' = accept /\ db' = db
    BY <1>0, <1>9 DEF ConstructStore, Admitted
  <2>2. CASE Admits("prepared") /\ srv[s].mode = "prepared"
    <3>1. accept.baseline = db
      BY <2>2 DEF Admits, BaselineMatches
    <3>2. srv' = [srv EXCEPT ![s] = [srv[s] EXCEPT !.pc = "opening", !.baseline = accept.baseline]]
      BY <1>9, <2>2 DEF ConstructStore
    <3>3. /\ srv'[s].pc = "opening" /\ srv'[s].mode = srv[s].mode /\ srv'[s].baseline = db
          /\ srv'[s].writes = srv[s].writes /\ \A t \in Servers : t # s => srv'[t] = srv[t]
      BY <1>0, <3>1, <3>2 DEF ServerRecords
    <3>4. Admitted(s)'
      BY <1>0, <2>1, <3>3 DEF Admitted
    <3> QED BY <1>a, <2>1, <3>3, <3>4
  <2>3. CASE srv' = [srv EXCEPT ![s] = [srv[s] EXCEPT !.pc = "opening"]]
    <3>1. /\ srv'[s].pc = "opening" /\ srv'[s].mode = srv[s].mode /\ srv'[s].baseline = srv[s].baseline
          /\ srv'[s].writes = srv[s].writes /\ \A t \in Servers : t # s => srv'[t] = srv[t]
      BY <1>0, <2>3 DEF ServerRecords
    <3>2. Admitted(s)'
      BY <1>0, <2>1, <3>1 DEF Admitted
    <3> QED BY <1>a, <2>1, <3>1, <3>2
  <2>4. CASE srv' = [srv EXCEPT ![s] = Down]
    BY <1>b, <2>1, <2>4
  <2> QED BY <1>9, <2>2, <2>3, <2>4 DEF ConstructStore
<1>10. ASSUME NEW s \in Servers, Open(s) PROVE Served'
  <2>1. /\ srv'[s].pc = "serving" /\ srv'[s].mode = srv[s].mode /\ srv'[s].baseline = srv[s].baseline
        /\ srv'[s].writes = srv[s].writes /\ \A t \in Servers : t # s => srv'[t] = srv[t]
    BY <1>0, <1>10 DEF Open, ServerRecords
  <2>2. accept' = accept /\ srv[s].pc = "opening"
    BY <1>10 DEF Open
  <2>3. CASE srv[s].mode = "prepared"
    <3>1. db' = db
      <4>1. db' = [db EXCEPT !.wal = (db.wal \/ FALSE)]
        BY <1>10, <2>3 DEF Open, Writable
      <4>2. (db.wal \/ FALSE) = db.wal
        BY <1>0 DEF Database
      <4> QED BY <1>0, <4>1, <4>2 DEF Database
    <3>2. Admitted(s)'
      BY <1>0, <2>1, <2>2, <2>3, <3>1 DEF Admitted
    <3> QED BY <1>a, <2>1, <2>2, <3>1, <3>2
  <2>4. CASE srv[s].mode # "prepared"
    <3>1. accept.state = "ACTIVE"
      BY <1>0, <2>2, <2>4 DEF Admitted
    <3> QED BY <1>c, <2>1, <2>2, <3>1
  <2> QED BY <2>3, <2>4
<1>11. ASSUME NEW s \in Servers, EnableWrites(s) PROVE Served'
  <2>1. /\ srv'[s].pc = "serving" /\ srv'[s].mode = srv[s].mode
        /\ srv[s].mode # "prepared" /\ \A t \in Servers : t # s => srv'[t] = srv[t]
    BY <1>0, <1>11 DEF EnableWrites, Writable, ServerRecords
  <2>2. accept' = accept /\ db' = db /\ srv[s].pc = "serving"
    BY <1>11 DEF EnableWrites
  <2>3. Admitted(s)'
    BY <1>0, <2>1, <2>2 DEF Admitted
  <2> QED BY <1>a, <2>1, <2>2, <2>3
<1>12. ASSUME NEW s \in Servers, BusinessWrite(s) PROVE Served'
  <2>1. srv' = srv /\ accept' = accept /\ srv[s].writes /\ srv[s].pc \in {"serving", "draining"}
    BY <1>12 DEF BusinessWrite
  <2>2. srv[s].mode \in {"active", "plain"}
    <3>1. srv[s].mode \in {"none", "prepared", "active", "plain"}
      BY <1>0 DEF ServerRecords
    <3> QED BY <1>0, <2>1, <3>1 DEF Admitted
  <2>3. accept.state = "ACTIVE" \/ ~ production
    BY <1>0, <2>2 DEF Admitted
  <2> QED BY <1>c, <2>1, <2>3
<1> QED
  BY <1>1, <1>2, <1>3, <1>4, <1>5, <1>6, <1>7, <1>8, <1>9, <1>10, <1>11, <1>12 DEF ServersMove, RuntimeNext

\* Nothing but a commit changes the file, and then no server lives.
LEMMA MaintenanceServed ==
  ASSUME TypeOK, Fenced, Served, NEW c \in Coordinators,
         \/ TakeTurn(c) \/ CoordinatorStep(c) \/ TimesOut(c) \/ CoordinatorDies(c)
         \/ HelperStep(c) \/ HelperDies(c) \/ ClientDies(c)
  PROVE  Served'
<1>1. CASE Commit(c)
  <2>1. \A s \in Servers : srv[s].pc = "down"
    BY <1>1, NoneAssumption DEF Commit, Fenced, Fencing
  <2>2. \A s \in Servers : srv[s].mode = "none"
    BY <2>1 DEF Served, Admitted
  <2> QED BY <1>1, <2>1, <2>2 DEF Commit, Served, Admitted
<1>2. CASE UNCHANGED facts
  BY <1>2 DEF facts, Served, Admitted
<1> QED
  BY <1>1, <1>2 DEF TakeTurn, CoordinatorStep, TakeFence, Inspect, Launch, Permit, Handle, Close, TimesOut,
       CoordinatorDies, HelperStep, HelperTakesFence, ReadOpenPermit, Transact, ReadCommitPermit, Decide,
       CommitFails, HelperExits, HelperDies, HelperGone, ClientDies

-----------------------------------------------------------------------------
(* What is remembered and reported. *)

\* No other step of a coordinator or a helper touches the file.
LEMMA OnlyCommitsWrite ==
  ASSUME NEW c \in Coordinators,
         \/ TakeTurn(c) \/ CoordinatorStep(c) \/ TimesOut(c) \/ CoordinatorDies(c)
         \/ HelperStep(c) \/ HelperDies(c) \/ ClientDies(c)
  PROVE  Commit(c) \/ UNCHANGED db
BY DEF TakeTurn, CoordinatorStep, TakeFence, Inspect, Launch, Permit, Handle, Close, TimesOut,
       CoordinatorDies, HelperStep, HelperTakesFence, ReadOpenPermit, Transact, ReadCommitPermit, Decide,
       CommitFails, HelperExits, HelperDies, HelperGone, ClientDies, facts

\* Only a commit adds a receipt.
LEMMA OnlyCommitsApply ==
  ASSUME TypeOK, Next
  PROVE  (db'.init = db.init /\ db'.applied = db.applied) \/ \E c \in Coordinators : Commit(c)
<1>0. db \in Database
  BY DEF TypeOK
<1>1. CASE ServersMove
  <2>1. ASSUME NEW s \in Servers, Open(s) PROVE db'.init = db.init /\ db'.applied = db.applied
    <3>1. PICK b : db' = [db EXCEPT !.wal = b]
      BY <2>1 DEF Open
    <3> QED BY <1>0, <3>1 DEF Database
  <2>2. ASSUME NEW s \in Servers, BusinessWrite(s) PROVE db'.init = db.init /\ db'.applied = db.applied
    BY <1>0, <2>2 DEF BusinessWrite, Database
  <2>3. ASSUME NEW s \in Servers, Migrate(s) PROVE db'.init = db.init /\ db'.applied = db.applied
    <3>1. db' = db \/ db' = [db EXCEPT !.version = @ + 1]
      BY <2>3 DEF Migrate
    <3> QED BY <1>0, <3>1 DEF Database
  <2> QED
    BY <1>1, <2>1, <2>2, <2>3 DEF ServersMove, RuntimeNext, StartGuarded, Gate, GateRefuses,
         ConstructStore, CheckSchema, EnableWrites, Shutdown, WorkDone, Finish, ServerDies, Prepare, Activate
<1>2. ASSUME NEW c \in Coordinators,
             \/ TakeTurn(c) \/ CoordinatorStep(c) \/ TimesOut(c) \/ CoordinatorDies(c)
             \/ HelperStep(c) \/ HelperDies(c) \/ ClientDies(c)
      PROVE  Commit(c) \/ UNCHANGED db
  BY <1>2, OnlyCommitsWrite
<1> QED
  BY <1>1, <1>2 DEF Next, ApprovalEnds

\* A receipt is never taken back.
LEMMA ReplayStays ==
  ASSUME TypeOK, Next, NEW p, IsReplay(p)
  PROVE  IsReplay(p)'
<1>0. db \in Database
  BY DEF TypeOK
<1>1. CASE db'.init = db.init /\ db'.applied = db.applied
  BY <1>1 DEF IsReplay
<1>2. CASE \E c \in Coordinators : Commit(c)
  <2>1. PICK c \in Coordinators : Commit(c)
    BY <1>2
  <2>2. CASE db' = db
    BY <1>1, <2>2
  <2>3. CASE db' = [db EXCEPT !.init = TRUE]
    <3>1. db'.init /\ db'.applied = db.applied
      BY <1>0, <2>3 DEF Database
    <3> QED BY <3>1 DEF IsReplay
  <2>4. CASE db' = [db EXCEPT !.applied = Append(db.applied, co[c].packet)]
    <3>1. db'.init = db.init /\ db'.applied = Append(db.applied, co[c].packet)
      BY <1>0, <2>4 DEF Database
    <3>2. db.applied \in Seq(Names) /\ co[c].packet \in Names
      BY <1>0 DEF TypeOK, Database, CoordinatorRecords
    <3>3. /\ Len(db'.applied) = Len(db.applied) + 1
          /\ \A i \in 1 .. Len(db.applied) : db'.applied[i] = db.applied[i]
      BY <3>1, <3>2, AppendProperties
    <3>4. Len(db.applied) \in Nat
      BY <3>2, LenProperties
    <3>5. ASSUME NEW i \in 1 .. Len(db.applied), db.applied[i] = p
          PROVE  \E j \in 1 .. Len(db'.applied) : db'.applied[j] = p
      <4>1. i \in 1 .. Len(db'.applied) /\ db'.applied[i] = p
        BY <3>3, <3>4, <3>5
      <4> QED BY <4>1
    <3> QED BY <3>1, <3>5 DEF IsReplay
  <2> QED BY <2>1, <2>2, <2>3, <2>4 DEF Commit, After
<1> QED
  BY <1>1, <1>2, OnlyCommitsApply

\* A step that does not touch a coordinator and its helper.
Untouched(d) ==
  /\ co'[d] = co[d] /\ helper'[d] = helper[d] /\ toHelper'[d] = toHelper[d]
  /\ toCo'[d] = toCo[d] /\ client'[d] = client[d] /\ (d \in wrote') = (d \in wrote)

LEMMA OthersStay ==
  ASSUME TypeOK, Next, NEW d \in Coordinators, Untouched(d), Remembers(d), Reported(d)
  PROVE  Remembers(d)' /\ Reported(d)'
<1>1. Recorded(d) => Recorded(d)'
  <2>1. PICK p : p = co[d].packet
    OBVIOUS
  <2>2. co'[d].packet = p
    BY <2>1 DEF Untouched
  <2>3. IsReplay(p) => IsReplay(p)'
    BY ReplayStays
  <2> QED BY <2>1, <2>2, <2>3 DEF Recorded, Untouched
<1>2. /\ Before(d)' = Before(d) /\ Ended(d)' = Ended(d) /\ Unpermitted(d)' = Unpermitted(d)
      /\ Harmless(d)' = Harmless(d)
  BY DEF Before, Ended, Unpermitted, Harmless, Untouched
<1>3. \A m : Said(d, m)' = Said(d, m)
  BY DEF Said, Untouched
<1> QED
  BY <1>1, <1>2, <1>3 DEF Remembers, Reported, Untouched

\* Each process touches only its own coordinator and helper.
LEMMA StepsApart ==
  ASSUME TypeOK, NEW c \in Coordinators,
         \/ TakeTurn(c) \/ CoordinatorStep(c) \/ TimesOut(c) \/ CoordinatorDies(c)
         \/ HelperStep(c) \/ HelperDies(c) \/ ClientDies(c),
         NEW d \in Coordinators, d # c
  PROVE  Untouched(d)
<1>e. ASSUME NEW pc, NEW report, Ends(c, pc, report), UNCHANGED facts PROVE Untouched(d)
  <2>1. \E row : co' = [co EXCEPT ![c] = row]
    BY <1>e DEF Ends
  <2>2. \E row : helper' = [helper EXCEPT ![c] = row]
    BY <1>e DEF Ends
  <2>3. \E row : toHelper' = [toHelper EXCEPT ![c] = row]
    BY <1>e DEF Ends
  <2>4. wrote' = wrote /\ \E row : toCo' = [toCo EXCEPT ![c] = row]
    BY <1>e DEF Ends, facts
  <2>5. \E row : client' = [client EXCEPT ![c] = row]
    BY <1>e DEF Ends
  <2> QED BY <2>1, <2>2, <2>3, <2>4, <2>5 DEF Untouched, TypeOK
<1>1. CASE TakeTurn(c)
  BY <1>1 DEF TakeTurn, Untouched, TypeOK, facts
<1>2. CASE TakeFence(c)
  BY <1>2, <1>e DEF TakeFence, Untouched, TypeOK, facts
<1>3. CASE Inspect(c)
  BY <1>3, <1>e DEF Inspect, Fails, Untouched, TypeOK, facts
<1>4. CASE Launch(c)
  BY <1>4, <1>e DEF Launch, Untouched, TypeOK, facts
<1>5. CASE Permit(c)
  BY <1>5 DEF Permit, Fails, Untouched, TypeOK, facts
<1>6. CASE Handle(c)
  BY <1>6 DEF Handle, Fails, Untouched, TypeOK, facts
<1>7. CASE Close(c)
  BY <1>7, <1>e DEF Close
<1>8. CASE TimesOut(c)
  BY <1>8 DEF TimesOut, Untouched, TypeOK, facts
<1>9. CASE CoordinatorDies(c)
  BY <1>9, <1>e DEF CoordinatorDies
<1>10. CASE HelperTakesFence(c)
  BY <1>10 DEF HelperTakesFence, Says, Refuses, Untouched, TypeOK, facts
<1>11. CASE ReadOpenPermit(c)
  BY <1>11 DEF ReadOpenPermit, Says, Refuses, Untouched, TypeOK, facts
<1>12. CASE Transact(c)
  BY <1>12 DEF Transact, Says, Refuses, Untouched, TypeOK, facts
<1>13. CASE ReadCommitPermit(c)
  BY <1>13 DEF ReadCommitPermit, Says, Refuses, Untouched, TypeOK, facts
<1>14. CASE Decide(c)
  BY <1>14 DEF Decide, Says, Refuses, Untouched, TypeOK, facts
<1>15. CASE Commit(c)
  BY <1>15 DEF Commit, Says, Untouched, TypeOK
<1>16. CASE CommitFails(c)
  BY <1>16 DEF CommitFails, Says, Refuses, Untouched, TypeOK, facts
<1>17. CASE HelperExits(c) \/ HelperDies(c)
  BY <1>17 DEF HelperExits, HelperDies, HelperGone, Untouched, TypeOK, facts
<1>18. CASE ClientDies(c)
  BY <1>18 DEF ClientDies, Untouched, TypeOK, facts
<1> QED
  BY <1>1, <1>2, <1>3, <1>4, <1>5, <1>6, <1>7, <1>8, <1>9, <1>10, <1>11, <1>12, <1>13, <1>14, <1>15, <1>16,
     <1>17, <1>18 DEF CoordinatorStep, HelperStep

LEMMA EndsTruthful ==
  ASSUME TypeOK, NEW c \in Coordinators, Remembers(c), ~ Ended(c),
         NEW pc \in {"done", "dead"}, NEW report \in {"none", "committed", "refused", "unknown"},
         Ends(c, pc, report), UNCHANGED facts,
         report = "committed" => helper[c] = "gone" /\ Recorded(c),
         report = "refused" => Harmless(c)
  PROVE  Remembers(c)' /\ Reported(c)'
<1>1. /\ co'[c].pc = pc /\ co'[c].report = report /\ ~ co'[c].result /\ ~ co'[c].rolledBack
      /\ report = "committed" => co'[c].packet = co[c].packet
  <2>1. co' = [co EXCEPT ![c] = [Idle EXCEPT !.pc = pc, !.report = report,
               !.packet = IF Absent(c) /\ report # "committed" THEN None ELSE co[c].packet]]
    BY DEF Ends
  <2> QED BY <2>1 DEF TypeOK, Idle
<1>2. helper'[c] = (IF Absent(c) THEN "gone" ELSE helper[c]) /\ toCo'[c] = << >> /\ client'[c] = "down"
  BY DEF Ends, TypeOK
<1>3. toHelper'[c].last = toHelper[c].last \/ toHelper'[c].last = "context"
  BY DEF Ends, TypeOK, Closed
<1>4. wrote' = wrote /\ db' = db
  BY DEF facts
<1>5. \A m : ~ Said(c, m)'
  BY <1>2 DEF Said
<1>6. ~ Before(c)' /\ Ended(c)'
  BY <1>1 DEF Before, Ended
<1>7. c \in wrote => helper'[c] \in Left
  BY <1>2 DEF Remembers, Left, Absent
<1>8. Harmless(c) => Harmless(c)'
  BY <1>2, <1>3, <1>4 DEF Harmless, Unpermitted, Left, Absent
<1>9. report = "committed" => Recorded(c)' /\ helper'[c] = "gone"
  BY <1>1, <1>2, <1>4 DEF Recorded, IsReplay, Absent
<1> QED
  BY <1>1, <1>2, <1>4, <1>5, <1>6, <1>7, <1>8, <1>9 DEF Remembers, Reported

LEMMA TailSaid ==
  ASSUME NEW s \in Seq(Messages), s # << >>, NEW m, \E i \in 1 .. Len(Tail(s)) : Tail(s)[i] = m
  PROVE  \E i \in 1 .. Len(s) : s[i] = m
<1>1. PICK i \in 1 .. Len(Tail(s)) : Tail(s)[i] = m
  OBVIOUS
<1>2. Len(Tail(s)) = Len(s) - 1 /\ Len(s) \in Nat /\ \A j \in 1 .. Len(Tail(s)) : Tail(s)[j] = s[j + 1]
  BY HeadTailProperties, LenProperties
<1>3. i + 1 \in 1 .. Len(s) /\ s[i + 1] = m
  BY <1>1, <1>2
<1> QED BY <1>3

LEMMA CoordinatorTruthful ==
  ASSUME TypeOK, NEW c \in Coordinators, Remembers(c), Reported(c),
         TakeTurn(c) \/ CoordinatorStep(c) \/ TimesOut(c) \/ CoordinatorDies(c)
  PROVE  Remembers(c)' /\ Reported(c)'
<1>0. co[c] \in CoordinatorRecords /\ wrote' = wrote /\ db' = db
  BY DEF TypeOK, TakeTurn, CoordinatorStep, TakeFence, Inspect, Launch, Permit, Handle, Close, TimesOut,
         CoordinatorDies, facts
<1>n. ~ Ended(c) /\ co[c].report = "none"
  BY DEF TakeTurn, CoordinatorStep, TakeFence, Inspect, Launch, Permit, Handle, Close, TimesOut,
         CoordinatorDies, Ended, Remembers
\* It goes on without a word from or to its helper.
<1>a. ASSUME co'[c].pc \in {"locked", "inspecting", "approving", "waiting"},
             co'[c].result = co[c].result, co'[c].rolledBack = co[c].rolledBack,
             co'[c].commitSent = co[c].commitSent, co'[c].report = co[c].report,
             co'[c].packet = co[c].packet \/ Before(c),
             Before(c)' => Before(c),
             helper'[c] = helper[c], toHelper'[c].last = toHelper[c].last, toCo'[c] = toCo[c]
      PROVE  Remembers(c)' /\ Reported(c)'
  <2>1. ~ Ended(c)'
    BY <1>a DEF Ended
  <2>2. \A m : Said(c, m)' = Said(c, m)
    BY <1>a DEF Said
  <2>3. Unpermitted(c)' = Unpermitted(c)
    BY <1>0, <1>a DEF Unpermitted
  <2>4. co[c].result \/ Said(c, "result") => Recorded(c)'
    <3>1. CASE Before(c)
      BY <3>1 DEF Remembers, Said
    <3>2. CASE co'[c].packet = co[c].packet
      BY <1>0, <3>2 DEF Remembers, Recorded, IsReplay
    <3> QED BY <3>1, <3>2, <1>a
  <2> QED BY <1>0, <1>n, <1>a, <2>1, <2>2, <2>3, <2>4 DEF Remembers, Reported
<1>r. Before(c) => Harmless(c)
  BY <1>n DEF Remembers, Harmless
<1>1. CASE TakeTurn(c)
  <2>1. PICK p \in Packets : co' = [co EXCEPT ![c].pc = "locked", ![c].packet = p]
    BY <1>1 DEF TakeTurn
  <2>2. /\ co'[c].pc = "locked" /\ co'[c].result = co[c].result /\ co'[c].rolledBack = co[c].rolledBack
        /\ co'[c].commitSent = co[c].commitSent /\ co'[c].report = co[c].report
    BY <2>1 DEF TypeOK, CoordinatorRecords
  <2>3. Before(c)
    BY <1>1 DEF TakeTurn, Before
  <2> QED BY <1>1, <1>a, <2>2, <2>3 DEF TakeTurn
<1>2. CASE TakeFence(c)
  <2>1. Before(c)
    BY <1>2 DEF TakeFence, Before
  <2>2. CASE Ends(c, "done", "refused")
    BY <1>2, <1>n, <1>r, <2>1, <2>2, EndsTruthful DEF TakeFence
  <2>3. CASE FenceFree
    <3>1. /\ co'[c].pc = "inspecting" /\ co'[c].result = co[c].result /\ co'[c].rolledBack = co[c].rolledBack
          /\ co'[c].commitSent = co[c].commitSent /\ co'[c].report = co[c].report
      BY <1>2, <2>3 DEF TakeFence, TypeOK, CoordinatorRecords
    <3> QED BY <1>2, <1>a, <2>1, <2>3, <3>1 DEF TakeFence
  <2> QED BY <1>2, <2>2, <2>3 DEF TakeFence
\* It gives up, or has nothing more to ask.
<1>f. ASSUME Fails(c, "code"), UNCHANGED <<helper, toCo>>
      PROVE  Remembers(c)' /\ Reported(c)'
  <2>1. /\ co'[c].pc = "waiting" /\ co'[c].result = co[c].result /\ co'[c].rolledBack = co[c].rolledBack
        /\ co'[c].commitSent = co[c].commitSent /\ co'[c].report = co[c].report /\ co'[c].packet = co[c].packet
    <3>1. co' = [co EXCEPT ![c].pc = "waiting",
                           ![c].failure = IF co[c].failure = "none" THEN "code" ELSE co[c].failure]
      BY <1>f DEF Fails
    <3> QED BY <3>1 DEF TypeOK, CoordinatorRecords
  <2>2. toHelper'[c].last = toHelper[c].last
    BY <1>f DEF Fails, TypeOK
  <2>3. ~ Before(c)'
    BY <2>1 DEF Before
  <2> QED BY <1>a, <1>f, <2>1, <2>2, <2>3
<1>3. CASE Inspect(c)
  <2>1. CASE co[c].want = "launch" /\ Ends(c, "done", "refused")
    <3>1. Before(c)
      BY <1>3, <2>1 DEF Inspect, Before
    <3> QED BY <1>3, <1>n, <1>r, <2>1, <3>1, EndsTruthful DEF Inspect
  <2>2. CASE Fails(c, "code") /\ UNCHANGED <<turn, exclusive, helper, toCo, client>>
    BY <1>f, <2>2
  <2>3. CASE /\ co' = [co EXCEPT ![c].pc = "approving"]
             /\ UNCHANGED <<turn, exclusive, helper, toHelper, toCo, client>>
    <3>1. /\ co'[c].pc = "approving" /\ co'[c].result = co[c].result /\ co'[c].rolledBack = co[c].rolledBack
          /\ co'[c].commitSent = co[c].commitSent /\ co'[c].report = co[c].report
          /\ co'[c].packet = co[c].packet /\ co'[c].want = co[c].want
      BY <2>3 DEF TypeOK, CoordinatorRecords
    <3>2. Before(c)' => Before(c)
      BY <1>3, <3>1 DEF Inspect, Before
    <3> QED BY <1>a, <2>3, <3>1, <3>2
  <2> QED BY <1>3, <2>1, <2>2, <2>3 DEF Inspect
<1>4. CASE Launch(c)
  <2>1. Before(c)
    BY <1>4 DEF Launch, Before
  <2>2. CASE Ends(c, "done", "refused")
    BY <1>4, <1>n, <1>r, <2>1, <2>2, EndsTruthful DEF Launch
  <2>3. CASE ApprovalStands
    <3>1. /\ co'[c].pc = "waiting" /\ co'[c].result = co[c].result /\ co'[c].rolledBack = co[c].rolledBack
          /\ co'[c].commitSent = co[c].commitSent /\ co'[c].report = co[c].report
          /\ co'[c].packet = co[c].packet
      BY <1>4, <2>3 DEF Launch, TypeOK, CoordinatorRecords
    <3>2. helper'[c] = "started" /\ toHelper' = toHelper /\ toCo'[c] = << >>
      BY <1>4, <2>1, <2>3 DEF Launch, Remembers, TypeOK
    <3>3. ~ Before(c)' /\ ~ Ended(c)'
      BY <3>1 DEF Before, Ended
    <3>4. Unpermitted(c)'
      BY <1>0, <1>n, <2>1, <3>2 DEF Remembers, Unpermitted
    <3>5. \A m : ~ Said(c, m)'
      BY <3>2 DEF Said
    <3>6. c \notin wrote
      BY <2>1 DEF Remembers, Left
    <3> QED BY <1>0, <1>n, <2>1, <3>1, <3>3, <3>4, <3>5, <3>6 DEF Remembers, Reported
  <2> QED BY <1>4, <2>2, <2>3 DEF Launch
<1>5. CASE Permit(c)
  <2>1. CASE Fails(c, "code")
    BY <1>5, <1>f, <2>1 DEF Permit
  <2>2. CASE ApprovalStands
    <3>1. co' = [co EXCEPT ![c].pc = "waiting", ![c].commitSent = (co[c].commitSent \/ co[c].want = "commit")]
      BY <1>5, <2>2 DEF Permit
    <3>2. /\ co'[c].pc = "waiting" /\ co'[c].result = co[c].result /\ co'[c].rolledBack = co[c].rolledBack
          /\ co'[c].commitSent = (co[c].commitSent \/ co[c].want = "commit")
          /\ co'[c].report = co[c].report /\ co'[c].packet = co[c].packet
      BY <3>1 DEF TypeOK, CoordinatorRecords
    <3>3. toHelper'[c].last = toHelper[c].last \/ toHelper'[c].last = co[c].want
      BY <1>5, <2>2 DEF Permit, TypeOK
    <3>4. helper' = helper /\ toCo' = toCo
      BY <1>5 DEF Permit
    <3>5. ~ Before(c)' /\ ~ Ended(c)'
      BY <3>2 DEF Before, Ended
    <3>6. ~ co'[c].commitSent => Unpermitted(c)'
      BY <1>0, <1>n, <3>2, <3>3, <3>4 DEF Remembers, Unpermitted
    <3>7. \A m : Said(c, m)' = Said(c, m)
      BY <3>4 DEF Said
    <3>8. Recorded(c)' = Recorded(c)
      BY <1>0, <3>2 DEF Recorded, IsReplay
    <3> QED BY <1>0, <1>n, <3>2, <3>4, <3>5, <3>6, <3>7, <3>8 DEF Remembers, Reported
  <2> QED BY <1>5, <2>1, <2>2 DEF Permit
<1>6. CASE Handle(c)
  <2>1. \A m : Said(c, m)' => Said(c, m)
    <3>1. toCo[c] \in Seq(Messages) /\ toCo[c] # << >> /\ toCo'[c] = Tail(toCo[c])
      BY <1>6 DEF Handle, TypeOK
    <3> QED BY <3>1, TailSaid DEF Said
  <2>2. Said(c, Head(toCo[c]))
    <3>1. toCo[c] \in Seq(Messages) /\ toCo[c] # << >>
      BY <1>6 DEF Handle, TypeOK
    <3>2. Len(toCo[c]) \in Nat /\ Len(toCo[c]) # 0 /\ Head(toCo[c]) = toCo[c][1]
      BY <3>1, EmptySeq, LenProperties, HeadTailProperties
    <3>3. 1 \in 1 .. Len(toCo[c])
      BY <3>2
    <3> QED BY <3>2, <3>3 DEF Said
  <2>3. helper' = helper /\ co[c].pc = "waiting"
    BY <1>6 DEF Handle
  <2>4. /\ co'[c].commitSent = co[c].commitSent /\ co'[c].report = co[c].report /\ co'[c].packet = co[c].packet
        /\ co'[c].pc \in {"waiting", "inspecting"} /\ (co'[c].pc = "waiting" \/ co'[c].want # "launch")
        /\ (co'[c].result = co[c].result \/ Head(toCo[c]) = "result")
        /\ (co'[c].rolledBack = co[c].rolledBack \/ co'[c].rolledBack = (Head(toCo[c]) = "rolledBack"))
        /\ toHelper'[c].last = toHelper[c].last
    <3>1. CASE Fails(c, "code")
      <4>1. co' = [co EXCEPT ![c].pc = "waiting",
                             ![c].failure = IF co[c].failure = "none" THEN "code" ELSE co[c].failure]
        BY <3>1 DEF Fails
      <4>2. toHelper'[c].last = toHelper[c].last
        BY <3>1 DEF Fails, TypeOK
      <4> QED BY <4>1, <4>2 DEF TypeOK, CoordinatorRecords
    <3>2. CASE UNCHANGED toHelper /\ \E w \in {"open", "commit"} :
                 co' = [co EXCEPT ![c].pc = "inspecting", ![c].ready = TRUE, ![c].want = w]
      BY <3>2 DEF TypeOK, CoordinatorRecords
    <3>3. CASE UNCHANGED toHelper /\ Head(toCo[c]) = "result" /\ co' = [co EXCEPT ![c].result = TRUE]
      <4>1. co[c] \in CoordinatorRecords /\ co \in [Coordinators -> CoordinatorRecords]
        BY DEF TypeOK
      <4>2. co'[c] = [co[c] EXCEPT !.result = TRUE]
        BY <3>3, <4>1
      <4>3. /\ co'[c].commitSent = co[c].commitSent /\ co'[c].report = co[c].report
            /\ co'[c].packet = co[c].packet /\ co'[c].pc = "waiting"
            /\ co'[c].rolledBack = co[c].rolledBack
        BY <2>3, <4>1, <4>2 DEF CoordinatorRecords
      <4> QED BY <3>3, <4>3
    <3>4. CASE UNCHANGED toHelper /\
               co' = [co EXCEPT ![c].rolledBack = (Head(toCo[c]) = "rolledBack"),
                                ![c].failure = IF @ = "none" THEN "code" ELSE @]
      <4>1. PICK undone : undone = (Head(toCo[c]) = "rolledBack")
        OBVIOUS
      <4>2. PICK failure : failure = IF co[c].failure = "none" THEN "code" ELSE co[c].failure
        OBVIOUS
      <4>3. co[c] \in CoordinatorRecords /\ co \in [Coordinators -> CoordinatorRecords]
        BY DEF TypeOK
      <4>4. co' = [co EXCEPT ![c] = [co[c] EXCEPT !.rolledBack = undone, !.failure = failure]]
        BY <3>4, <4>1, <4>2
      <4>5. co'[c] = [co[c] EXCEPT !.rolledBack = undone, !.failure = failure]
        BY <4>3, <4>4
      <4>6. /\ co'[c].commitSent = co[c].commitSent /\ co'[c].report = co[c].report
            /\ co'[c].packet = co[c].packet /\ co'[c].pc = "waiting" /\ co'[c].result = co[c].result
            /\ co'[c].rolledBack = undone
        BY <2>3, <4>3, <4>5 DEF CoordinatorRecords
      <4> QED BY <3>4, <4>1, <4>6
    <3> QED BY <1>6, <3>1, <3>2, <3>3, <3>4 DEF Handle
  <2>5. ~ Before(c)' /\ ~ Ended(c)'
    BY <2>4 DEF Before, Ended
  <2>6. Unpermitted(c)' = Unpermitted(c) /\ Recorded(c)' = Recorded(c)
    BY <1>0, <2>3, <2>4 DEF Unpermitted, Recorded, IsReplay
  <2>7. co'[c].result => Recorded(c)
    BY <2>2, <2>4 DEF Remembers
  <2>8. co'[c].rolledBack => c \notin wrote /\ helper[c] \in Left
    BY <2>2, <2>4 DEF Remembers
  <2> QED BY <1>0, <1>n, <2>1, <2>3, <2>4, <2>5, <2>6, <2>7, <2>8 DEF Remembers, Reported
<1>7. CASE Close(c)
  <2>1. Verdict(c) \in {"none", "committed", "refused", "unknown"}
    BY DEF Verdict
  <2>2. Verdict(c) = "committed" => helper[c] = "gone" /\ Recorded(c)
    BY DEF Verdict, Remembers
  <2>3. Verdict(c) = "refused" => Harmless(c)
    BY <1>0, <1>n DEF Verdict, Remembers, Harmless, CoordinatorRecords
  <2>4. Ends(c, "done", Verdict(c)) /\ UNCHANGED facts
    BY <1>7 DEF Close
  <2> HIDE DEF Verdict
  <2> QED BY <1>n, <2>1, <2>2, <2>3, <2>4, EndsTruthful
<1>8. CASE TimesOut(c)
  <2>1. /\ co'[c].pc = "waiting" /\ co'[c].result = co[c].result /\ co'[c].rolledBack = co[c].rolledBack
        /\ co'[c].commitSent = co[c].commitSent /\ co'[c].report = co[c].report /\ co'[c].packet = co[c].packet
    BY <1>8 DEF TimesOut, TypeOK, CoordinatorRecords
  <2>2. toHelper'[c].last = toHelper[c].last
    BY <1>8 DEF TimesOut, TypeOK
  <2>3. ~ Before(c)'
    BY <2>1 DEF Before
  <2> QED BY <1>a, <1>8, <2>1, <2>2, <2>3 DEF TimesOut
<1>9. CASE CoordinatorDies(c)
  BY <1>9, <1>n, EndsTruthful DEF CoordinatorDies
<1> QED
  BY <1>1, <1>2, <1>3, <1>4, <1>5, <1>6, <1>7, <1>8, <1>9 DEF CoordinatorStep

LEMMA AppendSaid ==
  ASSUME NEW s \in Seq(Messages), NEW x \in Messages, NEW m,
         \E i \in 1 .. Len(Append(s, x)) : Append(s, x)[i] = m
  PROVE  m = x \/ \E i \in 1 .. Len(s) : s[i] = m
<1>1. PICK i \in 1 .. Len(Append(s, x)) : Append(s, x)[i] = m
  OBVIOUS
<1>2. /\ Len(Append(s, x)) = Len(s) + 1 /\ Len(s) \in Nat /\ Append(s, x)[Len(s) + 1] = x
      /\ \A j \in 1 .. Len(s) : Append(s, x)[j] = s[j]
  BY AppendProperties, LenProperties
<1>3. i = Len(s) + 1 \/ i \in 1 .. Len(s)
  BY <1>1, <1>2
<1> QED BY <1>1, <1>2, <1>3

LEMMA PrefixSaid ==
  ASSUME NEW s \in Seq(Messages), NEW n \in 0 .. Len(s), NEW m,
         \E i \in 1 .. Len(SubSeq(s, 1, n)) : SubSeq(s, 1, n)[i] = m
  PROVE  \E i \in 1 .. Len(s) : s[i] = m
<1>1. PICK i \in 1 .. Len(SubSeq(s, 1, n)) : SubSeq(s, 1, n)[i] = m
  OBVIOUS
<1>2. Len(s) \in Nat /\ \A j \in 1 .. n : s[j] \in Messages
  BY LenProperties
<1>3. /\ Len(SubSeq(s, 1, n)) = IF 1 <= n THEN n - 1 + 1 ELSE 0
      /\ \A j \in 1 .. n - 1 + 1 : SubSeq(s, 1, n)[j] = s[1 + j - 1]
  BY <1>2, SubSeqProperties
<1>4. i \in 1 .. Len(s) /\ s[i] = m
  BY <1>1, <1>2, <1>3
<1> QED BY <1>4

LEMMA HelperTruthful ==
  ASSUME TypeOK, NEW c \in Coordinators, Remembers(c), Reported(c),
         HelperStep(c) \/ HelperDies(c) \/ ClientDies(c)
  PROVE  Remembers(c)' /\ Reported(c)'
<1>0. co[c] \in CoordinatorRecords /\ toCo[c] \in Seq(Messages)
  BY DEF TypeOK
<1>1. ~ Absent(c) /\ ~ Before(c) /\ co[c].report # "committed"
  BY DEF HelperStep, HelperTakesFence, ReadOpenPermit, Transact, ReadCommitPermit, Decide, Commit, CommitFails,
         HelperExits, HelperDies, ClientDies, Absent, Remembers, Reported
\* What a helper says, unless nobody passes it on.
<1>s. ASSUME NEW x \in Messages, Says(c, x)
      PROVE  /\ \A m : Said(c, m)' => Said(c, m) \/ m = x
             /\ Ended(c) => toCo'[c] = << >>
  <2>1. toCo'[c] = toCo[c] \/ (client[c] = "up" /\ toCo'[c] = Append(toCo[c], x))
    <3>1. toCo \in [Coordinators -> Seq(Messages)]
      BY DEF TypeOK
    <3> QED BY <1>s, <3>1 DEF Says
  <2>2. ASSUME NEW m, Said(c, m)' PROVE Said(c, m) \/ m = x
    <3>1. toCo[c] \in Seq(Messages)
      BY DEF TypeOK
    <3>2. CASE toCo'[c] = toCo[c]
      BY <2>2, <3>2 DEF Said
    <3>3. CASE toCo'[c] = Append(toCo[c], x)
      BY <2>2, <3>1, <3>3, AppendSaid DEF Said
    <3> QED BY <2>1, <3>2, <3>3
  <2>3. Ended(c) => toCo'[c] = << >>
    BY <2>1 DEF Reported
  <2> QED BY <2>2, <2>3
\* The helper goes on, or leaves without having committed.
<1>h. ASSUME co' = co, wrote' = wrote, db' = db, client' = client, toHelper' = toHelper,
             c \notin wrote,
             \/ helper'[c] = "leaving"
             \/ /\ helper[c] \notin Left
                /\ Harmless(c) => helper'[c] \notin {"deciding", "committing"}
                /\ helper'[c] \notin Left,
             \A m : Said(c, m)' => Said(c, m) \/ m \in {"ready", "beforeCommit", "refused"}
                                     \/ (m = "rolledBack" /\ helper'[c] = "leaving"),
             Ended(c) => toCo'[c] = << >>
      PROVE  Remembers(c)' /\ Reported(c)'
  <2>1. Before(c)' = Before(c) /\ Ended(c)' = Ended(c) /\ Recorded(c)' = Recorded(c)
    BY <1>h DEF Before, Ended, Recorded, IsReplay
  <2>2. Unpermitted(c) => Unpermitted(c)'
    BY <1>h DEF Unpermitted, Harmless
  <2>3. Harmless(c) => Harmless(c)'
    BY <1>h, <2>2 DEF Harmless, Left
  <2>4. Said(c, "result")' => Said(c, "result")
    BY <1>h
  <2>5. Said(c, "rolledBack")' => Said(c, "rolledBack") \/ helper'[c] = "leaving"
    BY <1>h
  <2>6. co[c].rolledBack \/ Said(c, "rolledBack") => helper'[c] \in Left
    BY <1>h DEF Remembers, Left
  <2>7. helper'[c] = "leaving" => helper'[c] \in Left
    BY DEF Left
  <2> QED BY <1>1, <1>h, <2>1, <2>2, <2>3, <2>4, <2>5, <2>6, <2>7 DEF Remembers, Reported
\* It refuses.
<1>f. ASSUME NEW m \in {"refused", "rolledBack"}, Refuses(c, m), UNCHANGED <<co, wrote, db, client, toHelper>>,
             helper[c] \notin Left
      PROVE  Remembers(c)' /\ Reported(c)'
  <2>1. helper'[c] = "leaving" /\ c \notin wrote /\ m \in Messages
    BY <1>f DEF Refuses, TypeOK, Remembers, Messages
  <2>2. Says(c, m)
    BY <1>f DEF Refuses
  <2> QED BY <1>f, <1>h, <1>s, <2>1, <2>2
\* It goes on, and says so or not.
<1>g. ASSUME NEW state \in {"awaitOpen", "open", "awaitCommit", "deciding", "committing"},
             helper' = [helper EXCEPT ![c] = state], UNCHANGED <<co, wrote, db, client, toHelper>>,
             helper[c] \notin Left,
             Harmless(c) => state \notin {"deciding", "committing"},
             Says(c, "ready") \/ Says(c, "beforeCommit") \/ UNCHANGED toCo
      PROVE  Remembers(c)' /\ Reported(c)'
  <2>1. helper'[c] = state /\ c \notin wrote /\ helper'[c] \notin Left
    BY <1>g DEF TypeOK, Remembers, Left
  <2>2. /\ \A m : Said(c, m)' => Said(c, m) \/ m \in {"ready", "beforeCommit"}
        /\ Ended(c) => toCo'[c] = << >>
    <3>1. CASE UNCHANGED toCo
      BY <3>1 DEF Said, Reported
    <3>2. CASE Says(c, "ready")
      BY <1>s, <3>2 DEF Messages
    <3>3. CASE Says(c, "beforeCommit")
      BY <1>s, <3>3 DEF Messages
    <3> QED BY <1>g, <3>1, <3>2, <3>3
  <2> QED BY <1>g, <1>h, <2>1, <2>2
<1>2. CASE HelperTakesFence(c)
  <2>1. helper[c] \notin Left /\ UNCHANGED <<co, wrote, db, client, toHelper>>
    BY <1>2 DEF HelperTakesFence, Left, facts
  <2> QED BY <1>2, <1>f, <1>g, <2>1 DEF HelperTakesFence
<1>3. CASE ReadOpenPermit(c)
  <2>1. helper[c] \notin Left /\ UNCHANGED <<co, wrote, db, client, toHelper>>
    BY <1>3 DEF ReadOpenPermit, Left, facts
  <2> QED BY <1>3, <1>f, <1>g, <2>1 DEF ReadOpenPermit
<1>4. CASE Transact(c)
  <2>1. helper[c] \notin Left /\ UNCHANGED <<co, wrote, db, client, toHelper>>
    BY <1>4 DEF Transact, Left, facts
  <2>2. CASE helper' = [helper EXCEPT ![c] = "awaitCommit"] /\ Says(c, "beforeCommit")
    BY <1>g, <2>1, <2>2
  <2>3. CASE \E m \in {"rolledBack", "refused"} : Refuses(c, m)
    BY <1>f, <2>1, <2>3
  <2> QED BY <1>4, <2>2, <2>3 DEF Transact
<1>5. CASE ReadCommitPermit(c)
  <2>1. helper[c] \notin Left /\ UNCHANGED <<co, wrote, db, client, toHelper>>
    BY <1>5 DEF ReadCommitPermit, Left, facts
  <2>2. CASE toHelper[c].last = "commit" /\ helper' = [helper EXCEPT ![c] = "deciding"] /\ UNCHANGED toCo
    <3>1. ~ Harmless(c)
      BY <2>1, <2>2 DEF Harmless, Unpermitted
    <3> QED BY <1>g, <2>1, <2>2, <3>1
  <2> QED BY <1>5, <1>f, <2>1, <2>2 DEF ReadCommitPermit
<1>6. CASE Decide(c)
  <2>1. helper[c] \notin Left /\ UNCHANGED <<co, wrote, db, client, toHelper>>
    BY <1>6 DEF Decide, Left, facts
  <2>2. ~ Harmless(c)
    BY <1>6, <2>1 DEF Decide, Harmless, Unpermitted
  <2> QED BY <1>6, <1>f, <1>g, <2>1, <2>2 DEF Decide
<1>7. CASE Commit(c)
  <2>1. /\ helper[c] = "committing" /\ helper'[c] = "leaving" /\ wrote' = wrote \cup {c}
        /\ co' = co /\ client' = client /\ toHelper' = toHelper /\ Says(c, "result")
    BY <1>7 DEF Commit, TypeOK
  <2>2. ~ Harmless(c)
    BY <2>1 DEF Harmless, Unpermitted, Left
  <2>3. ~ co[c].rolledBack /\ ~ Said(c, "rolledBack")
    BY <2>1 DEF Remembers, Left
  <2>4. /\ \A m : Said(c, m)' => Said(c, m) \/ m = "result"
        /\ Ended(c) => toCo'[c] = << >>
    BY <1>s, <2>1 DEF Messages
  <2>5. Recorded(c)'
    <3>1. db \in Database /\ co[c].packet \in Names
      BY DEF TypeOK, CoordinatorRecords
    <3>2. PICK p : p = co[c].packet
      OBVIOUS
    <3>3. db' = After(p)
      BY <1>7, <3>2 DEF Commit
    <3>4. IsReplay(p)'
      <4>1. CASE IsReplay(p)
        BY <3>3, <4>1 DEF After, IsReplay
      <4>2. CASE ~ IsReplay(p) /\ p = Initialize
        <5>1. db'.init
          BY <3>1, <3>3, <4>2 DEF After, Database
        <5> QED BY <4>2, <5>1 DEF IsReplay
      <4>3. CASE ~ IsReplay(p) /\ p # Initialize
        <5>1. db'.applied = Append(db.applied, p)
          BY <3>1, <3>3, <4>3 DEF After, Database
        <5>2. db.applied \in Seq(Names)
          BY <3>1 DEF Database
        <5>3. Len(db'.applied) = Len(db.applied) + 1 /\ Len(db.applied) \in Nat
              /\ db'.applied[Len(db.applied) + 1] = p
          BY <3>1, <3>2, <5>1, <5>2, AppendProperties, LenProperties
        <5> QED BY <4>3, <5>3 DEF IsReplay
      <4> QED BY <4>1, <4>2, <4>3
    <3> QED BY <2>1, <3>2, <3>4 DEF Recorded
  <2>6. Before(c)' = Before(c) /\ Ended(c)' = Ended(c)
    BY <2>1 DEF Before, Ended
  <2>7. co[c].report # "refused"
    BY <2>2 DEF Reported
  <2>8. Ended(c) \/ co[c].commitSent
    BY <2>2 DEF Remembers, Harmless
  <2>9. ~ Said(c, "rolledBack")' /\ helper'[c] \in Left
    BY <2>1, <2>3, <2>4 DEF Left
  <2> QED BY <1>1, <2>1, <2>3, <2>4, <2>5, <2>6, <2>7, <2>8, <2>9 DEF Remembers, Reported
<1>8. CASE CommitFails(c)
  <2>1. helper[c] \notin Left /\ UNCHANGED <<co, wrote, db, client, toHelper>>
    BY <1>8 DEF CommitFails, Left, facts
  <2> QED BY <1>8, <1>f, <2>1 DEF CommitFails
<1>9. CASE \E how \in {"gone", "killed"} : HelperGone(c, how)
  <2>1. /\ helper'[c] \in Left /\ toHelper'[c].last = "context" /\ wrote' = wrote /\ db' = db
        /\ toCo' = toCo /\ client' = client
    BY <1>9 DEF HelperGone, TypeOK, Left, Closed, facts
  <2>2. /\ co'[c].pc = co[c].pc /\ co'[c].want = co[c].want /\ co'[c].result = co[c].result
        /\ co'[c].rolledBack = co[c].rolledBack /\ co'[c].commitSent = co[c].commitSent
        /\ co'[c].report = co[c].report /\ (~ Ended(c) => co'[c].packet = co[c].packet)
    BY <1>9 DEF HelperGone, TypeOK, CoordinatorRecords
  <2>3. Before(c)' = Before(c) /\ Ended(c)' = Ended(c)
    BY <2>2 DEF Before, Ended
  <2>4. \A m : Said(c, m)' = Said(c, m)
    BY <2>1 DEF Said
  <2>5. c \notin wrote => Unpermitted(c)' /\ Harmless(c)'
    BY <2>1 DEF Unpermitted, Harmless, Left
  <2>6. Unpermitted(c) \/ Harmless(c) => c \notin wrote
    BY DEF Unpermitted, Harmless
  <2>7. co[c].result \/ Said(c, "result") => Recorded(c)'
    <3>1. CASE Ended(c)
      BY <3>1 DEF Reported, Said
    <3>2. CASE ~ Ended(c)
      BY <2>1, <2>2, <3>2 DEF Remembers, Recorded, IsReplay
    <3> QED BY <3>1, <3>2
  <2> QED BY <1>1, <2>1, <2>2, <2>3, <2>4, <2>5, <2>6, <2>7 DEF Remembers, Reported
<1>10. CASE ClientDies(c)
  <2>1. /\ co' = co /\ helper' = helper /\ wrote' = wrote /\ db' = db /\ client'[c] = "down"
        /\ toHelper'[c].last = toHelper[c].last /\ ~ Ended(c)
    BY <1>10 DEF ClientDies, TypeOK, facts, Ended
  <2>2. PICK n \in 0 .. Len(toCo[c]) : toCo' = [toCo EXCEPT ![c] = SubSeq(toCo[c], 1, n)]
    BY <1>10 DEF ClientDies
  <2>3. \A m : Said(c, m)' => Said(c, m)
    BY <1>0, <2>2, PrefixSaid DEF Said, TypeOK
  <2>4. Before(c)' = Before(c) /\ Ended(c)' = Ended(c) /\ Unpermitted(c)' = Unpermitted(c)
        /\ Recorded(c)' = Recorded(c)
    BY <2>1 DEF Before, Ended, Unpermitted, Recorded, IsReplay
  <2> QED BY <1>1, <2>1, <2>3, <2>4 DEF Remembers, Reported
<1> QED
  BY <1>2, <1>3, <1>4, <1>5, <1>6, <1>7, <1>8, <1>9, <1>10 DEF HelperStep, HelperExits, HelperDies

-----------------------------------------------------------------------------
(* The theorems. *)

LEMMA InitInv ==
  ASSUME Init
  PROVE  Inv
<1>1. TypeOK
  <2>1. db \in Database
    <3>1. PICK version \in Nat, initialized \in BOOLEAN, written \in Nat :
            db = [version |-> version, wal |-> FALSE, init |-> initialized, applied |-> << >>,
                  written |-> written]
      <4>1. PICK version \in (IF production THEN {Latest} ELSE 0 .. PreCutover), initialized \in BOOLEAN,
                 written \in 0 .. MaxBusinessWrites :
              db = [version |-> version, wal |-> FALSE, init |-> initialized, applied |-> << >>,
                    written |-> written]
        BY DEF Init, RuntimeInit
      <4>2. version \in Nat /\ written \in Nat
        BY VersionAssumption, WriteAssumption
      <4> QED BY <4>1, <4>2
    <3>2. << >> \in Seq(Names)
      OBVIOUS
    <3> QED BY <3>1, <3>2 DEF Database
  <2>2. production \in BOOLEAN /\ srv \in [Servers -> ServerRecords]
        /\ accept \in [state : {"none", "PREPARED", "ACTIVE"}, baseline : Database \cup {None}]
    BY DEF Init, RuntimeInit, Down, ServerRecords, NoAcceptance
  <2>3. co \in [Coordinators -> CoordinatorRecords] /\ helper \in [Coordinators -> HelperStates]
    BY DEF Init, Idle, CoordinatorRecords, Names, HelperStates
  <2>4. /\ toHelper \in [Coordinators -> [last : {"context", "open", "commit"}, closed : BOOLEAN]]
        /\ toCo \in [Coordinators -> Seq(Messages)]
        /\ client \in [Coordinators -> {"up", "down"}] /\ wrote \subseteq Coordinators
    BY DEF Init, Fresh
  <2> QED BY <2>1, <2>2, <2>3, <2>4 DEF TypeOK
<1>2. Fenced
  BY DEF Init, RuntimeInit, Fenced, Idle, Fencing
<1>3. Served
  BY DEF Init, RuntimeInit, Served, Admitted, Down, NoAcceptance
<1>4. Truthful
  BY DEF Init, Truthful, Remembers, Reported, Before, Ended, Idle, Fresh, Unpermitted, Said
<1> QED BY <1>1, <1>2, <1>3, <1>4 DEF Inv

LEMMA NextInv ==
  ASSUME Inv, [Next]_vars
  PROVE  Inv'
<1>0. TypeOK /\ Fenced /\ Served /\ Truthful
  BY DEF Inv
<1>1. CASE ServersMove
  <2>1. TypeOK' /\ Fenced' /\ Served'
    BY <1>0, <1>1, ServersTyped, ServersFenced, ServersServed
  <2>2. \A d \in Coordinators : Untouched(d)
    BY <1>1 DEF ServersMove, Untouched
  <2>3. Truthful'
    BY <1>0, <1>1, <2>2, OthersStay DEF Truthful, Next
  <2> QED BY <2>1, <2>3 DEF Inv
<1>2. ASSUME NEW c \in Coordinators,
             TakeTurn(c) \/ CoordinatorStep(c) \/ TimesOut(c) \/ CoordinatorDies(c)
      PROVE  Inv'
  <2>1. TypeOK' /\ Fenced' /\ Served'
    BY <1>0, <1>2, CoordinatorTyped, CoordinatorFenced, MaintenanceServed
  <2>2. Next
    BY <1>2 DEF Next
  <2>3. ASSUME NEW d \in Coordinators PROVE Remembers(d)' /\ Reported(d)'
    <3>1. CASE d = c
      BY <1>0, <1>2, <3>1, CoordinatorTruthful DEF Truthful
    <3>2. CASE d # c
      <4>1. Untouched(d)
        BY <1>0, <1>2, <3>2, StepsApart
      <4> QED BY <1>0, <2>2, <4>1, OthersStay DEF Truthful
    <3> QED BY <3>1, <3>2
  <2> QED BY <2>1, <2>3 DEF Inv, Truthful
<1>3. ASSUME NEW c \in Coordinators, HelperStep(c) \/ HelperDies(c) \/ ClientDies(c)
      PROVE  Inv'
  <2>1. TypeOK' /\ Fenced' /\ Served'
    BY <1>0, <1>3, HelperTyped, HelperFenced, MaintenanceServed
  <2>2. Next
    BY <1>3 DEF Next
  <2>3. ASSUME NEW d \in Coordinators PROVE Remembers(d)' /\ Reported(d)'
    <3>1. CASE d = c
      BY <1>0, <1>3, <3>1, HelperTruthful DEF Truthful
    <3>2. CASE d # c
      <4>1. Untouched(d)
        BY <1>0, <1>3, <3>2, StepsApart
      <4> QED BY <1>0, <2>2, <4>1, OthersStay DEF Truthful
    <3> QED BY <3>1, <3>2
  <2> QED BY <2>1, <2>3 DEF Inv, Truthful
<1>4. CASE ApprovalEnds \/ UNCHANGED vars
  <2>1. UNCHANGED <<db, exclusive, production, accept, srv, co, helper, toHelper, toCo, client, wrote>>
    BY <1>4 DEF ApprovalEnds, vars
  <2>2. TypeOK' /\ Fenced' /\ Served'
    BY <1>0, <2>1 DEF TypeOK, Fenced, Before, Served, Admitted
  <2>3. Truthful'
    BY <1>0, <2>1 DEF Truthful, Remembers, Reported, Before, Ended, Unpermitted, Harmless, Recorded, Said, IsReplay
  <2> QED BY <2>2, <2>3 DEF Inv
<1> QED
  BY <1>1, <1>2, <1>3, <1>4 DEF Next

\* The types, the fence, the baselines and what is remembered hold in every reachable state.
THEOREM MaintenanceInvariant == Spec => []Inv
<1>1. Init => Inv
  BY InitInv
<1>2. Inv /\ [Next]_vars => Inv'
  BY NextInv
<1> HIDE DEF Inv
<1> QED BY <1>1, <1>2, PTL DEF Spec

\* While a helper may have the database open no server lives and no other helper has it open
\* (src/offline-maintenance-adapter-v1.mjs: the fence given up and taken again).
THEOREM AccessIsExclusive == Spec => []ExclusiveAccess
<1>1. Inv => ExclusiveAccess
  <2> SUFFICES ASSUME Inv, NEW c \in Coordinators, InDatabase(c)
               PROVE  /\ \A s \in Servers : srv[s].pc = "down"
                      /\ \A d \in Coordinators \ {c} : ~ InDatabase(d)
    BY DEF ExclusiveAccess
  <2>1. exclusive = <<"helper", c>> /\ exclusive # None
    BY NoneAssumption DEF Inv, Fenced, InDatabase, Fencing
  <2>2. \A s \in Servers : srv[s].pc = "down"
    BY <2>1 DEF Inv, Fenced
  <2>3. ASSUME NEW d \in Coordinators \ {c}, InDatabase(d) PROVE FALSE
    BY <2>1, <2>3 DEF Inv, Fenced, InDatabase, Fencing
  <2> QED BY <2>2, <2>3
<1> QED BY <1>1, MaintenanceInvariant, PTL

\* A reported commit has its receipt, and after a reported refusal nothing is ever committed
\* (src/offline-maintenance-adapter-v1.mjs: the verdict when the child has closed).
THEOREM ReportsStayTrue == Spec => []ReportsAreTrue
<1>1. Inv => ReportsAreTrue
  BY DEF Inv, Truthful, Reported, Recorded, Harmless, Unpermitted, ReportsAreTrue
<1> QED BY <1>1, MaintenanceInvariant, PTL

\* A server that a PREPARED record admitted serves exactly the approved content until the record
\* is ACTIVE, whatever maintenances and other servers do, and never writes itself
\* (src/g3-core-startup-acceptance.mjs: validateCoreDatabase; src/server.mjs:235).
THEOREM BaselineIsServed == Spec => []PreparedServesBaseline
<1>1. Inv => PreparedServesBaseline
  BY DEF Inv, Served, Admitted, PreparedServesBaseline
<1> QED BY <1>1, MaintenanceInvariant, PTL

\* The packet of a transaction that goes on has its receipt, or the business has not written.
InTransaction(c) == helper[c] \in {"awaitCommit", "deciding", "committing"}

Checked == \A c \in Coordinators : InTransaction(c) => IsReplay(co[c].packet) \/ db.written = 0

\* While a transaction goes on the business does not write, for no server lives.
LEMMA WrittenStays ==
  ASSUME Inv, Next, NEW c \in Coordinators, InTransaction(c)
  PROVE  db'.written = db.written
<1>0. db \in Database /\ \A s \in Servers : srv[s].pc = "down"
  BY NoneAssumption DEF Inv, TypeOK, Fenced, Fencing, InTransaction
<1>1. CASE ServersMove
  <2>1. ASSUME NEW s \in Servers, Open(s) \/ Migrate(s) \/ BusinessWrite(s) PROVE FALSE
    BY <1>0, <2>1 DEF Open, Migrate, BusinessWrite
  <2> QED BY <1>1, <2>1 DEF ServersMove, RuntimeNext, StartGuarded, Gate, GateRefuses, ConstructStore,
            CheckSchema, EnableWrites, Shutdown, WorkDone, Finish, ServerDies, Prepare, Activate
<1>2. ASSUME NEW d \in Coordinators, Commit(d) PROVE db'.written = db.written
  <2>1. db' = After(co[d].packet)
    BY <1>2 DEF Commit
  <2> QED BY <1>0, <2>1 DEF After, Database
<1>3. CASE ApprovalEnds
  BY <1>3 DEF ApprovalEnds
<1>4. ASSUME NEW d \in Coordinators,
             \/ TakeTurn(d) \/ CoordinatorStep(d) \/ TimesOut(d) \/ CoordinatorDies(d)
             \/ HelperStep(d) \/ HelperDies(d) \/ ClientDies(d)
      PROVE  Commit(d) \/ UNCHANGED db
  BY <1>4, OnlyCommitsWrite
<1> QED BY <1>1, <1>2, <1>3, <1>4 DEF Next

\* A transaction goes on with its packet, or begins after a look at the tables.
LEMMA TransactionsGoOn ==
  ASSUME TypeOK, NEW c \in Coordinators, Remembers(c), InTransaction(c)',
         \/ TakeTurn(c) \/ CoordinatorStep(c) \/ TimesOut(c) \/ CoordinatorDies(c)
         \/ HelperStep(c) \/ HelperDies(c) \/ ClientDies(c)
  PROVE  \/ InTransaction(c) /\ co'[c].packet = co[c].packet
         \/ UNCHANGED <<db, co>> /\ (IsReplay(co[c].packet) \/ db.written = 0)
<1>e. ASSUME NEW pc, NEW report, Ends(c, pc, report)
      PROVE  InTransaction(c) /\ co'[c].packet = co[c].packet
  <2>1. helper'[c] = (IF Absent(c) THEN "gone" ELSE helper[c])
    BY <1>e DEF Ends, TypeOK
  <2>2. InTransaction(c) /\ ~ Absent(c)
    BY <2>1 DEF InTransaction, Absent
  <2>3. co' = [co EXCEPT ![c] = [Idle EXCEPT !.pc = pc, !.report = report, !.packet = co[c].packet]]
    BY <1>e, <2>2 DEF Ends
  <2> QED BY <2>2, <2>3 DEF TypeOK, Idle
<1>k. ASSUME helper'[c] = helper[c], co'[c].packet = co[c].packet
      PROVE  InTransaction(c) /\ co'[c].packet = co[c].packet
  BY <1>k DEF InTransaction
<1>l. ASSUME NEW state, helper' = [helper EXCEPT ![c] = state],
             state \in {"started", "awaitOpen", "open", "leaving", "gone", "killed"}
      PROVE  FALSE
  BY <1>l DEF InTransaction, TypeOK
<1>1. CASE TakeTurn(c)
  <2>1. helper' = helper /\ co[c].pc = "idle"
    BY <1>1 DEF TakeTurn
  <2> QED BY <2>1 DEF Remembers, Before, InTransaction
<1>2. CASE TimesOut(c) \/ ClientDies(c)
  BY <1>2, <1>k DEF TimesOut, ClientDies, TypeOK, CoordinatorRecords
<1>3. CASE CoordinatorStep(c) \/ CoordinatorDies(c)
  <2>1. CASE TakeFence(c)
    BY <2>1, <1>e, <1>k DEF TakeFence, TypeOK, CoordinatorRecords
  <2>2. CASE Inspect(c)
    BY <2>2, <1>e, <1>k DEF Inspect, Fails, TypeOK, CoordinatorRecords
  <2>3. CASE Launch(c)
    BY <2>3, <1>e, <1>l DEF Launch
  <2>4. CASE Permit(c)
    BY <2>4, <1>k DEF Permit, Fails, TypeOK, CoordinatorRecords
  <2>5. CASE Handle(c)
    BY <2>5, <1>k DEF Handle, Fails, TypeOK, CoordinatorRecords
  <2>6. CASE Close(c) \/ CoordinatorDies(c)
    BY <2>6, <1>e DEF Close, CoordinatorDies
  <2> QED BY <1>3, <2>1, <2>2, <2>3, <2>4, <2>5, <2>6 DEF CoordinatorStep
<1>4. CASE HelperTakesFence(c) \/ ReadOpenPermit(c) \/ CommitFails(c) \/ Commit(c)
  BY <1>4, <1>l DEF HelperTakesFence, ReadOpenPermit, CommitFails, Commit, Refuses
<1>5. CASE Transact(c)
  <2>1. Admissible(co[c].packet)
    BY <1>5, <1>l DEF Transact, Refuses
  <2> QED BY <1>5, <2>1 DEF Transact, Admissible, facts
<1>6. CASE ReadCommitPermit(c) \/ Decide(c)
  BY <1>6, <1>l DEF ReadCommitPermit, Decide, Refuses, InTransaction
<1>7. CASE HelperExits(c) \/ HelperDies(c)
  <2>1. \E state \in {"gone", "killed"} : helper' = [helper EXCEPT ![c] = state]
    BY <1>7 DEF HelperExits, HelperDies, HelperGone
  <2> QED BY <2>1, <1>l
<1> QED BY <1>1, <1>2, <1>3, <1>4, <1>5, <1>6, <1>7 DEF HelperStep

\* A packet changes only a database in which the business has not written
\* (src/empty-db-maintenance-v1.mjs: assertFresh, assertConfigOnly, and the COMMIT after them).
THEOREM EmptyDatabaseIsMaintained == Spec => MaintainsEmptyDatabase
<1>1. Init => Checked
  BY DEF Init, Checked, InTransaction
<1>2. Inv /\ Checked /\ [Next]_vars => Checked'
  <2> SUFFICES ASSUME Inv, Checked, [Next]_vars, NEW d \in Coordinators, InTransaction(d)'
               PROVE  (IsReplay(co[d].packet) \/ db.written = 0)'
    BY DEF Checked
  <2>0. TypeOK /\ \A c \in Coordinators : Remembers(c)
    BY DEF Inv, Truthful
  <2>1. CASE UNCHANGED vars
    BY <2>1 DEF Checked, InTransaction, IsReplay, vars
  <2>2. CASE Next
    <3>1. ASSUME InTransaction(d), co'[d].packet = co[d].packet
          PROVE  (IsReplay(co[d].packet) \/ db.written = 0)'
      <4>1. PICK p : p = co[d].packet
        OBVIOUS
      <4>2. p = co'[d].packet
        BY <3>1, <4>1
      <4>3. IsReplay(p) => IsReplay(p)'
        BY <2>0, <2>2, ReplayStays
      <4>4. db'.written = db.written
        BY <2>2, <3>1, WrittenStays
      <4>5. IsReplay(p) \/ db.written = 0
        BY <3>1, <4>1 DEF Checked
      <4> QED BY <4>2, <4>3, <4>4, <4>5
    <3>2. CASE ServersMove \/ ApprovalEnds
      <4>1. co' = co /\ helper' = helper
        BY <3>2 DEF ServersMove, ApprovalEnds
      <4> QED BY <3>1, <4>1 DEF InTransaction
    <3>3. ASSUME NEW c \in Coordinators,
                 \/ TakeTurn(c) \/ CoordinatorStep(c) \/ TimesOut(c) \/ CoordinatorDies(c)
                 \/ HelperStep(c) \/ HelperDies(c) \/ ClientDies(c)
          PROVE  (IsReplay(co[d].packet) \/ db.written = 0)'
      <4>1. CASE d # c
        <5>1. Untouched(d)
          BY <2>0, <3>3, <4>1, StepsApart
        <5> QED BY <3>1, <5>1 DEF Untouched, InTransaction
      <4>2. CASE d = c
        <5>1. CASE InTransaction(d) /\ co'[d].packet = co[d].packet
          BY <3>1, <5>1
        <5>2. CASE UNCHANGED <<db, co>> /\ (IsReplay(co[d].packet) \/ db.written = 0)
          BY <5>2 DEF IsReplay
        <5> QED BY <2>0, <3>3, <4>2, <5>1, <5>2, TransactionsGoOn
      <4> QED BY <4>1, <4>2
    <3> QED BY <2>2, <3>2, <3>3 DEF Next
  <2> QED BY <2>1, <2>2
<1>3. Inv /\ Checked /\ [Next]_vars
        => [db'.init # db.init \/ db'.applied # db.applied => db.written = 0]_vars
  <2> SUFFICES ASSUME Inv, Checked, Next, db'.init # db.init \/ db'.applied # db.applied
               PROVE  db.written = 0
    BY DEF vars
  <2>1. PICK c \in Coordinators : Commit(c)
    BY OnlyCommitsApply DEF Inv
  <2>2. helper[c] = "committing" /\ db' = After(co[c].packet)
    BY <2>1 DEF Commit
  <2>3. ~ IsReplay(co[c].packet)
    BY <2>2 DEF After
  <2> QED BY <2>2, <2>3 DEF Checked, InTransaction
<1> QED BY <1>1, <1>2, <1>3, MaintenanceInvariant, PTL DEF Spec, MaintainsEmptyDatabase

-----------------------------------------------------------------------------
(* The migration: its inductive invariant. *)

Live(p) == ~ At(p, "idle")

Copies == {Nothing, Foreign} \cup [kind : {"partial"}, by : Nat] \cup [kind : {"v1"}, of : Contents]
DoneFiles == [kind : {"done"}, of : Contents, by : Nat]
Targets ==
  {Nothing, Foreign} \cup [kind : {"partial"}, by : Nat] \cup DoneFiles
    \cup [kind : {"v2"}, of : Contents, version : Nat, by : Nat]
SealFiles ==
  {Nothing, Foreign} \cup [kind : {"partial"}, by : Nat]
    \cup [kind : {"seal"}, by : Nat, target : DoneFiles, of : Contents, scope : Nat \X Nat]

Fits(f, x) ==
  /\ f \in {"backup", "rollback"} => x \in Copies
  /\ f = "target" => x \in Targets
  /\ f = "seal" => x \in SealFiles
DiskOK(d) ==
  d \in [Artifacts -> Copies \cup Targets \cup SealFiles] /\ \A f \in Artifacts : Fits(f, d[f])

Sealing == {"seal", "sealing", "written", "sealed"}
Done == {"committed", "synced"} \cup Sealing
Making == {"backup", "backing up", "rollback", "restoring", "target", "copying", "applying"} \cup Done
Invocations ==
  [at : Making \cup {"planned", "recheck", "rechecked"}, id : Nat, plan : Contents,
   scope : Nat \X Nat, version : Nat, committed : BOOLEAN, digest : DoneFiles \cup {Nothing}]

MigrationTypeOK ==
  /\ source \in [of : Contents, stamp : Nat]
  /\ uploads \in [intact : BOOLEAN, stamp : Nat]
  /\ DiskOK(disk) /\ DiskOK(safe)
  /\ proc \in [Procs -> Invocations \cup {Resting}]
  /\ said \in [Procs -> {"nothing", "applied", "already applied",
                         "committed but unverified", "failed"}]
  /\ runs \in Nat /\ tampered \in 0 .. MaxTampering

\* An invocation has a number of its own and has said nothing yet; it has not committed
\* before its last transaction, and what it seals is the migration of its plan.
Numbered ==
  /\ \A p \in Procs : Live(p) => /\ proc[p].id \in 1 .. runs
                                 /\ said[p] = "nothing"
                                 /\ proc[p].committed => proc[p].at \in Done
                                 /\ proc[p].at \in Sealing => IsMigration(proc[p].digest, proc[p].plan)
  /\ \A p, q \in Procs : Live(p) /\ Live(q) /\ proc[p].id = proc[q].id => p = q

\* The committed targets there are, or that somebody vouches for.
Seen ==
  {t \in {disk["target"], safe["target"]} : t.kind = "done"}
    \cup {s.target : s \in {x \in {disk["seal"], safe["seal"]} : x.kind = "seal"}}
    \cup {r.digest : r \in {x \in {proc[p] : p \in Procs} : x.at \in Sealing}}

\* They were committed by invocations that know it.
CommitsKnown ==
  \A t \in Seen : /\ t.by \in 1 .. runs
                  /\ \A p \in Procs : Live(p) /\ proc[p].id = t.by => proc[p].committed

\* A complete copy is durable.
CopiesDurable ==
  \A f \in {"backup", "rollback"} : disk[f].kind # "partial" => safe[f] = disk[f]

\* What an invocation has made so far.
From(f) ==
  CASE f = "backup" -> Making \ {"backup"}
    [] f = "rollback" -> Making \ {"backup", "backing up", "rollback"}
    [] f = "target" -> {"copying", "applying"} \cup Done
Made(p, f) == proc[p].at \in From(f)

\* How often a file has been removed that an invocation at a and one at b made.
Gap(a, b, f, d) ==
  (IF a \in From(f) /\ b \in From(f) THEN 1 ELSE 0)
    + (IF (a \in From(f) \/ b \in From(f)) /\ d = Nothing THEN 1 ELSE 0)
Removals(p, q) ==
  Gap(proc[p].at, proc[q].at, "backup", disk["backup"])
    + Gap(proc[p].at, proc[q].at, "rollback", disk["rollback"])
    + Gap(proc[p].at, proc[q].at, "target", disk["target"])

\* Files do not go of themselves.
RemovalsCounted == \A p, q \in Procs : p # q => Removals(p, q) <= tampered

\* Who made a target finds it, a foreign file, or nothing; for it to be another's, backup,
\* rollback copy and target have to be removed in between.
OwnTarget ==
  \A p \in Procs :
    Made(p, "target") /\ disk["target"] \notin {Nothing, Foreign}
      => disk["target"].by = proc[p].id \/ tampered >= 3

\* What an invocation has synced stays so as long as it is there.
Syncs ==
  \A p \in Procs :
    /\ /\ proc[p].at \in {"synced"} \cup Sealing
       /\ disk["target"].kind = "done" /\ disk["target"].by = proc[p].id
       => safe["target"] = disk["target"]
    /\ At(p, "sealed") /\ disk["seal"] = Seal(p) => safe["seal"] = disk["seal"]

\* What a seal vouches for is durable.
SealedDurable ==
  tampered <= 2 /\ disk["seal"].kind = "seal" /\ disk["seal"].target = disk["target"]
    => safe["target"] = disk["target"]

MigrationInv ==
  /\ MigrationTypeOK /\ Numbered /\ CommitsKnown /\ CopiesDurable
  /\ RemovalsCounted /\ OwnTarget /\ Syncs /\ SealedDurable

-----------------------------------------------------------------------------
(* Files and processes. *)

\* What the kinds of file are.
LEMMA Kinds ==
  /\ Nothing.kind = "nothing" /\ Foreign.kind = "foreign"
  /\ \A i : Partial(i).kind = "partial" /\ Partial(i).by = i
  /\ \A c : CopyOf(c).kind = "v1" /\ CopyOf(c).of = c
  /\ \A c, n, i : Upgraded(c, n, i).kind = "v2" /\ Upgraded(c, n, i).by = i
  /\ \A c, i : Migrated(c, i).kind = "done" /\ Migrated(c, i).of = c /\ Migrated(c, i).by = i
BY DEF Nothing, Foreign, Partial, CopyOf, Upgraded, Migrated

\* What may be stored where.
LEMMA Storable ==
  /\ \A f \in Artifacts : Fits(f, Nothing) /\ Fits(f, Foreign)
  /\ \A i \in Nat : \A f \in Artifacts : Fits(f, Partial(i))
  /\ \A c \in Contents : Fits("backup", CopyOf(c)) /\ Fits("rollback", CopyOf(c))
  /\ \A c \in Contents, n, i \in Nat : Fits("target", Upgraded(c, n, i))
  /\ \A c \in Contents, i \in Nat : Migrated(c, i) \in DoneFiles
  /\ \A x \in DoneFiles : Fits("target", x)
<1>1. \A f \in Artifacts : Fits(f, Nothing) /\ Fits(f, Foreign)
  BY DEF Fits, Copies, Targets, SealFiles, Artifacts
<1>2. \A i \in Nat : \A f \in Artifacts : Fits(f, Partial(i))
  BY DEF Fits, Copies, Targets, SealFiles, Partial
<1>3. \A c \in Contents : Fits("backup", CopyOf(c)) /\ Fits("rollback", CopyOf(c))
  BY DEF Fits, Copies, CopyOf
<1>4. \A c \in Contents, n, i \in Nat : Fits("target", Upgraded(c, n, i))
  BY DEF Fits, Targets, Upgraded
<1>5. \A c \in Contents, i \in Nat : Migrated(c, i) \in DoneFiles
  BY DEF DoneFiles, Migrated
<1>6. \A x \in DoneFiles : Fits("target", x)
  BY DEF Fits, Targets
<1> QED BY <1>1, <1>2, <1>3, <1>4, <1>5, <1>6

\* A committed target has its content and its maker, and so has what a seal vouches for.
LEMMA Known ==
  /\ \A x \in DoneFiles : x.kind = "done" /\ x.of \in Contents /\ x.by \in Nat
  /\ \A x : Fits("target", x) /\ x.kind = "done" => x \in DoneFiles
  /\ \A x : Fits("seal", x) /\ x.kind = "seal" => x.target \in DoneFiles
<1>1. \A x \in DoneFiles : x.kind = "done" /\ x.of \in Contents /\ x.by \in Nat
  BY DEF DoneFiles
<1>2. \A x : Fits("target", x) /\ x.kind = "done" => x \in DoneFiles
  BY DEF Fits, Targets, Nothing, Foreign
<1>3. \A x : Fits("seal", x) /\ x.kind = "seal" => x.target \in DoneFiles
  BY DEF Fits, SealFiles, Nothing, Foreign
<1> QED BY <1>1, <1>2, <1>3

\* Moving one process leaves the others.
LEMMA Moved ==
  ASSUME MigrationTypeOK, NEW p \in Procs, NEW x \in Invocations \cup {Resting},
         proc' = [proc EXCEPT ![p] = x]
  PROVE  /\ proc' \in [Procs -> Invocations \cup {Resting}]
         /\ proc'[p] = x
         /\ \A q \in Procs \ {p} : proc'[q] = proc[q]
BY DEF MigrationTypeOK

\* A live process is in an invocation.
LEMMA Living ==
  ASSUME MigrationTypeOK, NEW p \in Procs, Live(p)
  PROVE  proc[p] \in Invocations
<1>1. proc[p] \in Invocations \cup {Resting}
  BY DEF MigrationTypeOK
<1>2. Resting.at = "idle"
  BY DEF Resting
<1> QED BY <1>1, <1>2 DEF Live, At

\* What an invocation is.
LEMMA Parts ==
  ASSUME NEW x \in Invocations
  PROVE  /\ x.at \in Making \cup {"planned", "recheck", "rechecked"} /\ x.at # "idle"
         /\ x.id \in Nat /\ x.plan \in Contents /\ x.scope \in Nat \X Nat /\ x.version \in Nat
         /\ x.committed \in BOOLEAN /\ x.digest \in DoneFiles \cup {Nothing}
BY DEF Invocations, Making, Done, Sealing

LEMMA Counted ==
  ASSUME MigrationTypeOK
  PROVE  runs \in Nat /\ tampered \in Nat
<1>1. tampered \in 0 .. MaxTampering /\ runs \in Nat
  BY DEF MigrationTypeOK
<1>2. MaxTampering \in Nat
  BY BoundsAssumption
<1> QED BY <1>1, <1>2

-----------------------------------------------------------------------------
(* The steps. *)

\* A step inside an invocation.
Works(p) ==
  \/ Enter(p)
  \/ BeginBackup(p) \/ FinishBackup(p)
  \/ BeginRollback(p) \/ FinishRollback(p)
  \/ BeginTarget(p) \/ FinishTarget(p)
  \/ MigrateSchema(p) \/ Materialize(p)
  \/ SyncTarget(p) \/ VerifyTarget(p)
  \/ BeginSeal(p) \/ WriteSeal(p) \/ SyncSeal(p)
  \/ Recheck(p)

\* What may become of an invocation x of p: the same invocation further on.
Further(p, x) ==
  /\ x.id = proc[p].id /\ x.plan = proc[p].plan
  /\ proc[p].committed => x.committed
  /\ x.committed => x.at \in Done
  /\ x.at \in Sealing => \/ proc[p].at \in Sealing /\ x.digest = proc[p].digest
                         \/ x.digest = disk["target"] /\ IsMigration(x.digest, x.plan)
  /\ x.at \in {"synced"} \cup Sealing
       => proc[p].at \in {"synced"} \cup Sealing \/ (At(p, "committed") /\ x.at = "synced")
  /\ x.at = "sealed" => At(p, "written")
  /\ \A f \in Artifacts \ {"seal"} :
       x.at \in From(f) => proc[p].at \in From(f) \/ Creates(p, f)

LEMMA WorkAdvances ==
  ASSUME MigrationTypeOK, Numbered, NEW p \in Procs, Works(p)
  PROVE  /\ Live(p) /\ UNCHANGED Elsewhere
         /\ \E x \in Invocations : proc' = [proc EXCEPT ![p] = x] /\ Further(p, x)
<1> DEFINE q == proc[p]
<1>0. Live(p) /\ UNCHANGED Elsewhere
  BY DEF Works, Live, At, Elsewhere, Enter, BeginBackup, FinishBackup, BeginRollback, FinishRollback,
         BeginTarget, FinishTarget, MigrateSchema, Materialize, SyncTarget, VerifyTarget,
         BeginSeal, WriteSeal, SyncSeal, Recheck
<1>1. q \in Invocations
  BY <1>0, Living
<1>2. /\ q.committed => q.at \in Done
      /\ q.at \in Sealing => IsMigration(q.digest, q.plan)
  BY <1>0 DEF Numbered
<1>3. \A at \in Making \cup {"recheck", "rechecked"} :
        LET x == [q EXCEPT !.at = at]
        IN /\ x \in Invocations /\ x.at = at
           /\ x.id = q.id /\ x.plan = q.plan /\ x.committed = q.committed /\ x.digest = q.digest
  BY <1>1 DEF Invocations
<1> DEFINE Goal == \E x \in Invocations : proc' = [proc EXCEPT ![p] = x] /\ Further(p, x)
<1>4. ASSUME NEW x \in Invocations, proc' = [proc EXCEPT ![p] = x], Further(p, x) PROVE Goal
  BY <1>4
<1> HIDE DEF Goal
<1>a. ASSUME Enter(p) PROVE Goal
  <2>1. PICK at \in {"recheck", "backup"} : proc' = [proc EXCEPT ![p].at = at, ![p].scope = Scope]
    BY <1>a DEF Enter
  <2>2. PICK x : x = [q EXCEPT !.at = at, !.scope = Scope]
    OBVIOUS
  <2>3. Scope \in Nat \X Nat
    BY DEF Scope, MigrationTypeOK
  <2>4. /\ x \in Invocations /\ x.at = at
        /\ x.id = q.id /\ x.plan = q.plan /\ x.committed = q.committed /\ x.digest = q.digest
    BY <2>2, <2>3, <1>1 DEF Invocations, Making
  <2>5. q.at = "planned"
    BY <1>a DEF Enter, At
  <2>6. Further(p, x)
    BY <2>4, <2>5, <1>2 DEF Further, Sealing, Done, From, Making, Artifacts
  <2>7. proc' = [proc EXCEPT ![p] = x]
    BY <2>1, <2>2
  <2> QED BY <1>4, <2>4, <2>6, <2>7
\* The steps that only go on to the next.
<1>g. ASSUME NEW to \in Making, Goto(p, to),
             to \in Done => q.at \in Done, to \in Sealing => q.at \in Sealing,
             q.at \in Done => to \in Done,
             to \in {"synced"} \cup Sealing
               => q.at \in {"synced"} \cup Sealing \/ (q.at = "committed" /\ to = "synced"),
             to = "sealed" => q.at = "written",
             \A f \in Artifacts \ {"seal"} : to \in From(f) => q.at \in From(f) \/ Creates(p, f)
      PROVE  Goal
  <2>1. PICK x : x = [q EXCEPT !.at = to]
    OBVIOUS
  <2>2. /\ x \in Invocations /\ x.at = to
        /\ x.id = q.id /\ x.plan = q.plan /\ x.committed = q.committed /\ x.digest = q.digest
    BY <2>1, <1>3
  <2>3. Further(p, x)
    BY <2>2, <1>2, <1>g DEF Further, At
  <2>4. proc' = [proc EXCEPT ![p] = x]
    BY <1>g, <2>1 DEF Goto
  <2> QED BY <1>4, <2>2, <2>3, <2>4
<1>b. ASSUME BeginBackup(p) PROVE Goal
  <2>1. q.at = "backup" /\ Goto(p, "backing up") /\ Creates(p, "backup")
    BY <1>b DEF BeginBackup, At
  <2> QED BY <2>1, <1>g DEF Making, Done, Sealing, From, Artifacts
<1>c. ASSUME FinishBackup(p) PROVE Goal
  <2>1. q.at = "backing up" /\ Goto(p, "rollback")
    BY <1>c DEF FinishBackup, At
  <2> QED BY <2>1, <1>g DEF Making, Done, Sealing, From, Artifacts
<1>d. ASSUME BeginRollback(p) PROVE Goal
  <2>1. q.at = "rollback" /\ Goto(p, "restoring") /\ Creates(p, "rollback")
    BY <1>d DEF BeginRollback, At
  <2> QED BY <2>1, <1>g DEF Making, Done, Sealing, From, Artifacts
<1>e. ASSUME FinishRollback(p) PROVE Goal
  <2>1. q.at = "restoring" /\ Goto(p, "target")
    BY <1>e DEF FinishRollback, At
  <2> QED BY <2>1, <1>g DEF Making, Done, Sealing, From, Artifacts
<1>f. ASSUME BeginTarget(p) PROVE Goal
  <2>1. q.at = "target" /\ Goto(p, "copying") /\ Creates(p, "target")
    BY <1>f DEF BeginTarget, At
  <2> QED BY <2>1, <1>g DEF Making, Done, Sealing, From, Artifacts
<1>h. ASSUME FinishTarget(p) PROVE Goal
  <2>1. q.at = "copying" /\ Goto(p, "applying")
    BY <1>h DEF FinishTarget, At
  <2> QED BY <2>1, <1>g DEF Making, Done, Sealing, From, Artifacts
<1>i. ASSUME SyncTarget(p) PROVE Goal
  <2>1. q.at = "committed" /\ Goto(p, "synced")
    BY <1>i DEF SyncTarget, At
  <2> QED BY <2>1, <1>g DEF Making, Done, Sealing, From, Artifacts
<1>j. ASSUME BeginSeal(p) PROVE Goal
  <2>1. q.at = "seal" /\ Goto(p, "sealing")
    BY <1>j DEF BeginSeal, At
  <2> QED BY <2>1, <1>g DEF Making, Done, Sealing, From, Artifacts
<1>k. ASSUME WriteSeal(p) PROVE Goal
  <2>1. q.at = "sealing" /\ Goto(p, "written")
    BY <1>k DEF WriteSeal, At
  <2> QED BY <2>1, <1>g DEF Making, Done, Sealing, From, Artifacts
<1>l. ASSUME SyncSeal(p) PROVE Goal
  <2>1. q.at = "written" /\ Goto(p, "sealed")
    BY <1>l DEF SyncSeal, At
  <2> QED BY <2>1, <1>g DEF Making, Done, Sealing, From, Artifacts
<1>m. ASSUME MigrateSchema(p) PROVE Goal
  <2>1. PICK x : x = [q EXCEPT !.version = q.version + 1]
    OBVIOUS
  <2>2. /\ x \in Invocations /\ x.at = q.at
        /\ x.id = q.id /\ x.plan = q.plan /\ x.committed = q.committed /\ x.digest = q.digest
    BY <2>1, <1>1 DEF Invocations
  <2>5. q.at = "applying"
    BY <1>m DEF MigrateSchema, At
  <2>3. Further(p, x)
    BY <2>2, <2>5, <1>2 DEF Further, Sealing
  <2>4. proc' = [proc EXCEPT ![p] = x]
    BY <1>m, <2>1 DEF MigrateSchema
  <2> QED BY <1>4, <2>2, <2>3, <2>4
<1>n. ASSUME Materialize(p) PROVE Goal
  <2>1. PICK x : x = [q EXCEPT !.at = "committed", !.committed = TRUE]
    OBVIOUS
  <2>2. /\ x \in Invocations /\ x.at = "committed"
        /\ x.id = q.id /\ x.plan = q.plan /\ x.committed
    BY <2>1, <1>1 DEF Invocations, Making, Done
  <2>3. q.at = "applying"
    BY <1>n DEF Materialize, At
  <2>4. Further(p, x)
    BY <2>2, <2>3 DEF Further, Making, Done, Sealing, From, Artifacts
  <2>5. proc' = [proc EXCEPT ![p] = x]
    BY <1>n, <2>1 DEF Materialize, Committed
  <2> QED BY <1>4, <2>2, <2>4, <2>5
<1>o. ASSUME VerifyTarget(p) \/ Recheck(p) PROVE Goal
  <2>1. PICK to \in {"seal", "rechecked"} :
          /\ proc' = [proc EXCEPT ![p].at = to, ![p].digest = disk["target"]]
          /\ to = "seal" => q.at = "synced"
          /\ to = "rechecked" => q.at = "recheck"
          /\ IsMigration(disk["target"], q.plan)
    BY <1>o DEF VerifyTarget, Recheck, Rechecked, At
  <2>2. PICK x : x = [q EXCEPT !.at = to, !.digest = disk["target"]]
    OBVIOUS
  <2>3. disk["target"] \in DoneFiles
    BY <2>1, Known DEF IsMigration, MigrationTypeOK, DiskOK, Artifacts
  <2>4. /\ x \in Invocations /\ x.at = to
        /\ x.id = q.id /\ x.plan = q.plan /\ x.committed = q.committed /\ x.digest = disk["target"]
    BY <2>2, <2>3, <1>1 DEF Invocations, Making, Done, Sealing
  <2>5. Further(p, x)
    BY <2>1, <2>4, <1>2 DEF Further, Sealing, Done, From, Making, Artifacts
  <2>6. proc' = [proc EXCEPT ![p] = x]
    BY <2>1, <2>2
  <2> QED BY <1>4, <2>4, <2>5, <2>6
<1>5. Goal
  BY <1>a, <1>b, <1>c, <1>d, <1>e, <1>f, <1>h, <1>i, <1>j, <1>k, <1>l,
     <1>m, <1>n, <1>o DEF Works
<1> QED BY <1>0, <1>5 DEF Goal

\* What a step of p may do to one file.
Kept(f) == disk'[f] = disk[f] /\ safe'[f] = safe[f]
Secured(f) == f \in {"target", "seal"} /\ disk'[f] = disk[f] /\ safe'[f] = disk[f]
Begun(p, f) ==
  At(p, f) /\ disk[f] = Nothing /\ disk'[f] = Partial(proc[p].id) /\ safe'[f] = safe[f]
Copied(p, f) ==
  /\ f \in {"backup", "rollback"}
  /\ disk[f] = Partial(proc[p].id) /\ disk'[f] = CopyOf(proc[p].plan) /\ safe'[f] = disk'[f]
Built(p, f) ==
  /\ f = "target"
  /\ disk[f] \in {Partial(proc[p].id)} \cup {Upgraded(proc[p].plan, n, proc[p].id) : n \in Nat}
  /\ disk'[f] \in {Upgraded(proc[p].plan, n, proc[p].id) : n \in Nat}
  /\ safe'[f] \in {disk[f], disk'[f]} \ {Partial(proc[p].id)}
Filled(p, f) ==
  /\ f = "target" /\ At(p, "applying")
  /\ disk[f] = EmptyTarget(p) /\ disk'[f] = Migrated(proc[p].plan, proc[p].id) /\ safe'[f] = disk[f]
  /\ proc'[p].committed /\ proc'[p].at = "committed"
Sealed(p, f) ==
  /\ f = "seal" /\ At(p, "sealing")
  /\ disk[f] = Partial(proc[p].id) /\ disk'[f] = Seal(p) /\ safe'[f] = safe[f]

Written(p, f) ==
  Kept(f) \/ Secured(f) \/ Begun(p, f) \/ Copied(p, f) \/ Built(p, f) \/ Filled(p, f) \/ Sealed(p, f)

\* One step writes to one file, in one of these ways.
LEMMA WorkWrites ==
  ASSUME MigrationTypeOK, Numbered, NEW p \in Procs, Works(p)
  PROVE  /\ DiskOK(disk') /\ DiskOK(safe')
         /\ \A f \in Artifacts : Written(p, f)
         /\ At(p, "committed") /\ proc'[p].at = "synced" => Secured("target")
         /\ At(p, "written") /\ proc'[p].at = "sealed" => Secured("seal")
<1> DEFINE q == proc[p]
           Goal == /\ DiskOK(disk') /\ DiskOK(safe')
                   /\ \A f \in Artifacts : Written(p, f)
                   /\ q.at = "committed" /\ proc'[p].at = "synced" => Secured("target")
                   /\ q.at = "written" /\ proc'[p].at = "sealed" => Secured("seal")
<1> SUFFICES Goal
  BY DEF At
<1>1. DiskOK(disk) /\ DiskOK(safe)
  BY DEF MigrationTypeOK
<1>2. Live(p)
  BY DEF Works, Live, At, Enter, BeginBackup, FinishBackup, BeginRollback, FinishRollback,
         BeginTarget, FinishTarget, MigrateSchema, Materialize, SyncTarget, VerifyTarget,
         BeginSeal, WriteSeal, SyncSeal, Recheck
<1>3. q \in Invocations
  BY <1>2, Living
<1>4. q.id \in Nat /\ q.plan \in Contents /\ q.version \in Nat
  BY <1>3, Parts
\* Nothing is written.
<1>a. ASSUME UNCHANGED <<disk, safe>>, q.at \notin {"committed", "written"} PROVE Goal
  BY <1>a, <1>1 DEF Written, Kept
\* One file is written, and the rest follows from what happens to it.
<1>b. ASSUME NEW f \in Artifacts, NEW x, NEW y, Fits(f, x), Fits(f, y),
             disk' = [disk EXCEPT ![f] = x], safe' = [safe EXCEPT ![f] = y]
      PROVE  /\ DiskOK(disk') /\ DiskOK(safe')
             /\ disk'[f] = x /\ safe'[f] = y
             /\ \A g \in Artifacts \ {f} : Kept(g)
  <2>1. /\ DiskOK(disk') /\ disk'[f] = x
        /\ \A g \in Artifacts \ {f} : disk'[g] = disk[g]
    <3>1. disk' \in [Artifacts -> Copies \cup Targets \cup SealFiles]
      BY <1>b, <1>1 DEF DiskOK, Fits, Artifacts
    <3>2. disk'[f] = x /\ \A g \in Artifacts \ {f} : disk'[g] = disk[g]
      BY <1>b, <1>1 DEF DiskOK
    <3> QED BY <1>b, <1>1, <3>1, <3>2 DEF DiskOK
  <2>2. /\ DiskOK(safe') /\ safe'[f] = y
        /\ \A g \in Artifacts \ {f} : safe'[g] = safe[g]
    <3>1. safe' \in [Artifacts -> Copies \cup Targets \cup SealFiles]
      BY <1>b, <1>1 DEF DiskOK, Fits, Artifacts
    <3>2. safe'[f] = y /\ \A g \in Artifacts \ {f} : safe'[g] = safe[g]
      BY <1>b, <1>1 DEF DiskOK
    <3> QED BY <1>b, <1>1, <3>1, <3>2 DEF DiskOK
  <2> QED BY <2>1, <2>2 DEF Kept
\* The same, written as a map.
<1>c. /\ \A f \in Artifacts : Fits(f, disk[f]) /\ Fits(f, safe[f])
      /\ \A f \in Artifacts : disk = [disk EXCEPT ![f] = disk[f]] /\ safe = [safe EXCEPT ![f] = safe[f]]
  BY <1>1 DEF DiskOK
<1>d. ASSUME NEW f \in Artifacts, Creates(p, f), q.at = f PROVE Goal
  <2>1. /\ DiskOK(disk') /\ DiskOK(safe')
        /\ disk'[f] = Partial(q.id) /\ safe'[f] = safe[f]
        /\ \A g \in Artifacts \ {f} : Kept(g)
    <3>1. Fits(f, Partial(q.id)) /\ Fits(f, safe[f])
      BY <1>4, <1>c, Storable
    <3>2. disk' = [disk EXCEPT ![f] = Partial(q.id)] /\ safe' = [safe EXCEPT ![f] = safe[f]]
      BY <1>c, <1>d DEF Creates
    <3> QED BY <3>1, <3>2, <1>b
  <2>2. Begun(p, f)
    BY <2>1, <1>d DEF Begun, Creates, At
  <2> QED BY <1>d, <2>1, <2>2 DEF Written, Artifacts
<1>e. ASSUME NEW f \in {"backup", "rollback"}, Completes(p, f, CopyOf(q.plan)),
             q.at \notin {"committed", "written"}
      PROVE  Goal
  <2>1. Fits(f, CopyOf(q.plan)) /\ f \in Artifacts
    BY <1>4, Storable DEF Artifacts
  <2>2. /\ DiskOK(disk') /\ DiskOK(safe')
        /\ disk'[f] = CopyOf(q.plan) /\ safe'[f] = CopyOf(q.plan)
        /\ \A g \in Artifacts \ {f} : Kept(g)
    BY <1>e, <2>1, <1>b DEF Completes
  <2>3. Copied(p, f)
    BY <2>2, <1>e DEF Copied, Completes
  <2> QED BY <1>e, <2>1, <2>2, <2>3 DEF Written
<1>5. CASE Enter(p) \/ VerifyTarget(p) \/ Recheck(p)
  <2>1. UNCHANGED <<disk, safe>> /\ q.at \in {"planned", "synced", "recheck"}
    BY <1>5 DEF Enter, VerifyTarget, Recheck, At
  <2> QED BY <2>1, <1>a DEF At
<1>6. CASE BeginBackup(p) \/ BeginRollback(p) \/ BeginTarget(p) \/ BeginSeal(p)
  <2>1. \E f \in Artifacts : Creates(p, f) /\ q.at = f
    BY <1>6 DEF BeginBackup, BeginRollback, BeginTarget, BeginSeal, At, Artifacts
  <2> QED BY <2>1, <1>d
<1>7. CASE FinishBackup(p)
  <2>1. Completes(p, "backup", CopyOf(q.plan)) /\ q.at = "backing up"
    BY <1>7 DEF FinishBackup, InputEvidence, At
  <2> QED BY <2>1, <1>e DEF At
<1>8. CASE FinishRollback(p)
  <2>1. Completes(p, "rollback", CopyOf(q.plan)) /\ q.at = "restoring"
    BY <1>8 DEF FinishRollback, Backed, At
  <2> QED BY <2>1, <1>e DEF At
<1>f. ASSUME NEW x, NEW y, Fits("target", x), Fits("target", y),
             disk' = [disk EXCEPT !["target"] = x], safe' = [safe EXCEPT !["target"] = y],
             q.at # "written", q.at # "committed",
             disk'["target"] = x /\ safe'["target"] = y => Built(p, "target") \/ Filled(p, "target")
      PROVE  Goal
  BY <1>f, <1>b DEF Written, Artifacts
<1>9. CASE FinishTarget(p)
  <2> DEFINE x == Upgraded(q.plan, 0, q.id)
  <2>1. disk["backup"].of = q.plan
    BY <1>9, Kinds DEF FinishTarget, Backed
  <2>2. Completes(p, "target", x) /\ q.at = "copying"
    BY <1>9, <2>1 DEF FinishTarget, At
  <2>3. Fits("target", x)
    BY <1>4, Storable
  <2>4. x # Partial(q.id)
    BY Kinds
  <2>5. ASSUME disk'["target"] = x, safe'["target"] = x PROVE Built(p, "target")
    BY <2>2, <2>4, <2>5 DEF Built, Completes
  <2> QED BY <2>2, <2>3, <2>5, <1>f DEF Completes
<1>10. CASE MigrateSchema(p)
  <2> DEFINE x == Upgraded(q.plan, q.version + 1, q.id)
             y == Upgraded(q.plan, q.version, q.id)
  <2>1. Transaction(p, y, x) /\ q.at = "applying"
    BY <1>10 DEF MigrateSchema, At
  <2>2. Fits("target", x) /\ Fits("target", y)
    BY <1>4, Storable
  <2>3. x # Partial(q.id) /\ y # Partial(q.id)
    BY Kinds
  <2>4. CASE disk["target"] = y
    <3>1. ASSUME disk'["target"] = x, safe'["target"] = y PROVE Built(p, "target")
      BY <3>1, <2>4, <2>3, <1>4 DEF Built
    <3> QED BY <3>1, <2>1, <2>2, <2>4, <1>f DEF Transaction
  <2>5. CASE disk["target"] # y
    BY <2>1, <2>5, <1>a DEF Transaction
  <2> QED BY <2>4, <2>5
<1>11. CASE Materialize(p)
  <2> DEFINE x == Migrated(q.plan, q.id)
             y == EmptyTarget(p)
  <2>1. /\ Transaction(p, y, x) /\ q.at = "applying"
        /\ proc' = [proc EXCEPT ![p] = Committed(q)]
    BY <1>11 DEF Materialize, At
  <2>2. Fits("target", x) /\ Fits("target", y)
    BY <1>4, Storable, BoundsAssumption DEF EmptyTarget
  <2>3. proc'[p].committed /\ proc'[p].at = "committed"
    <3>1. proc'[p] = Committed(q)
      BY <2>1 DEF MigrationTypeOK
    <3>2. Committed(q).committed /\ Committed(q).at = "committed"
      BY <1>3 DEF Committed, Invocations
    <3> QED BY <3>1, <3>2
  <2>4. CASE disk["target"] = y
    <3>1. ASSUME disk'["target"] = x, safe'["target"] = y PROVE Filled(p, "target")
      BY <3>1, <2>1, <2>3, <2>4 DEF Filled, At
    <3> QED BY <3>1, <2>1, <2>2, <2>4, <1>f DEF Transaction
  <2>5. CASE disk["target"] # y
    BY <2>1, <2>5, <1>a DEF Transaction
  <2> QED BY <2>4, <2>5
<1>12. CASE SyncTarget(p) \/ SyncSeal(p)
  <2>1. PICK f \in {"target", "seal"} :
          /\ disk' = disk /\ safe' = [safe EXCEPT ![f] = disk[f]]
          /\ f = "target" => q.at = "committed"
          /\ f = "seal" => q.at = "written"
    BY <1>12 DEF SyncTarget, SyncSeal, Synced, At
  <2>2. f \in Artifacts /\ Fits(f, disk[f]) /\ disk' = [disk EXCEPT ![f] = disk[f]]
    BY <2>1, <1>c DEF Artifacts
  <2>3. /\ DiskOK(disk') /\ DiskOK(safe')
        /\ disk'[f] = disk[f] /\ safe'[f] = disk[f]
        /\ \A g \in Artifacts \ {f} : Kept(g)
    BY <2>1, <2>2, <1>b
  <2>4. Secured(f)
    BY <2>3 DEF Secured
  <2> QED BY <2>1, <2>3, <2>4 DEF Written
<1>13. CASE WriteSeal(p)
  <2>1. /\ disk["seal"] = Partial(q.id) /\ q.at = "sealing"
        /\ disk' = [disk EXCEPT !["seal"] = Seal(p)] /\ safe' = safe
    BY <1>13 DEF WriteSeal, At
  <2>2. "seal" \in Artifacts /\ Fits("seal", safe["seal"]) /\ safe' = [safe EXCEPT !["seal"] = safe["seal"]]
    BY <2>1, <1>c DEF Artifacts
  <2>3. Fits("seal", Seal(p))
    <3>1. q.digest \in DoneFiles /\ q.scope \in Nat \X Nat
      BY <2>1, <1>2, <1>3, Parts, Kinds DEF Numbered, Sealing, IsMigration
    <3> QED BY <3>1, <1>4 DEF Fits, SealFiles, Seal
  <2>4. /\ DiskOK(disk') /\ DiskOK(safe')
        /\ disk'["seal"] = Seal(p) /\ safe'["seal"] = safe["seal"]
        /\ \A g \in Artifacts \ {"seal"} : Kept(g)
    BY <2>1, <2>2, <2>3, <1>b
  <2>5. Sealed(p, "seal")
    BY <2>1, <2>4 DEF Sealed, At
  <2> QED BY <2>1, <2>4, <2>5 DEF Written
<1> QED BY <1>5, <1>6, <1>7, <1>8, <1>9, <1>10, <1>11, <1>12, <1>13 DEF Works

Outcomes == {"applied", "already applied", "committed but unverified", "failed", "nothing"}

\* An invocation ends, one way or another.
Stops(p) == Live(p) /\ \E o \in Outcomes : Returns(p, o)

\* The V1 program writes, or nothing happens.
Outside ==
  /\ UNCHANGED <<disk, safe, proc, said, runs, tampered>>
  /\ source' \in [of : Contents, stamp : Nat] /\ uploads' \in [intact : BOOLEAN, stamp : Nat]

\* Every step is of one of these sorts.
LEMMA Sorts ==
  ASSUME MigrationTypeOK, [MigrationNext]_migrationVars
  PROVE  \/ \E p \in Procs : Works(p) \/ Start(p) \/ Stops(p)
         \/ PowerFails \/ Tamper \/ Outside
<1>1. ASSUME NEW p \in Procs, Step(p) PROVE Works(p) \/ Start(p) \/ Stops(p)
  <2>1. ASSUME Report(p) \/ ReportAgain(p) PROVE Stops(p)
    <3>1. Live(p) /\ proc[p].at # "idle"
      BY <2>1 DEF Report, ReportAgain, At, Live
    <3> QED BY <2>1, <3>1 DEF Report, ReportAgain, Stops, Outcomes
  <2>2. ASSUME Fail(p) \/ Die(p) PROVE Stops(p)
    <3>1. Live(p) /\ Outcome(p) \in Outcomes
      BY <2>2 DEF Fail, Die, Live, Outcome, Outcomes
    <3> QED BY <2>2, <3>1 DEF Fail, Die, Stops, Outcomes
  <2> QED BY <1>1, <2>1, <2>2 DEF Step, Works
<1>2. ASSUME WriteSource PROVE Outside
  <2>1. PICK c \in Contents : source' = [of |-> c, stamp |-> source.stamp + 1]
    BY <1>2 DEF WriteSource
  <2>2. source.stamp \in Nat /\ uploads \in [intact : BOOLEAN, stamp : Nat]
    BY DEF MigrationTypeOK
  <2>3. source' \in [of : Contents, stamp : Nat] /\ uploads' = uploads
    BY <1>2, <2>1, <2>2 DEF WriteSource
  <2> QED BY <1>2, <2>2, <2>3 DEF WriteSource, Outside
<1>3. ASSUME WriteUploads PROVE Outside
  <2>1. PICK b \in BOOLEAN : uploads' = [intact |-> b, stamp |-> uploads.stamp + 1]
    BY <1>3 DEF WriteUploads
  <2>2. uploads.stamp \in Nat /\ source \in [of : Contents, stamp : Nat]
    BY DEF MigrationTypeOK
  <2>3. uploads' \in [intact : BOOLEAN, stamp : Nat] /\ source' = source
    BY <1>3, <2>1, <2>2 DEF WriteUploads
  <2> QED BY <1>3, <2>2, <2>3 DEF WriteUploads, Outside
<1>4. ASSUME UNCHANGED migrationVars PROVE Outside
  BY <1>4 DEF migrationVars, Outside, MigrationTypeOK
<1> QED BY <1>1, <1>2, <1>3, <1>4 DEF MigrationNext

LEMMA StartPlans ==
  ASSUME MigrationTypeOK, NEW p \in Procs, Start(p)
  PROVE  \E x \in Invocations :
           /\ proc' = [proc EXCEPT ![p] = x]
           /\ x.at = "planned" /\ x.id = runs + 1 /\ ~ x.committed
<1>1. PICK x : x = [at |-> "planned", id |-> runs + 1, plan |-> PlanNow, scope |-> Scope,
                    version |-> 0, committed |-> FALSE, digest |-> Nothing]
  OBVIOUS
<1>2. PlanNow \in Contents /\ Scope \in Nat \X Nat /\ runs + 1 \in Nat
  <2>1. /\ source \in [of : Contents, stamp : Nat] /\ uploads \in [intact : BOOLEAN, stamp : Nat]
        /\ runs \in Nat
    BY DEF MigrationTypeOK
  <2>2. source.of \in Contents /\ source.stamp \in Nat /\ uploads.stamp \in Nat
    BY <2>1
  <2> QED BY <2>1, <2>2 DEF PlanNow, Scope
<1>3. x \in Invocations /\ x.at = "planned" /\ x.id = runs + 1 /\ ~ x.committed
  BY <1>1, <1>2 DEF Invocations
<1>4. proc' = [proc EXCEPT ![p] = x]
  BY <1>1 DEF Start
<1> QED BY <1>3, <1>4

\* After a power failure a file is as it was or as it was last made durable.
LEMMA PowerTakes ==
  ASSUME MigrationTypeOK, PowerFails
  PROVE  /\ safe' = disk' /\ DiskOK(disk')
         /\ \A f \in Artifacts : disk'[f] \in {disk[f], safe[f]}
         /\ \A p \in Procs : proc'[p] = Resting /\ proc'[p].at = "idle"
<1>1. PICK lost \in SUBSET {f \in Artifacts : disk[f] # safe[f]} :
        disk' = [f \in Artifacts |-> IF f \in lost THEN safe[f] ELSE disk[f]]
  BY DEF PowerFails
<1>2. \A f \in Artifacts : disk'[f] \in {disk[f], safe[f]}
  BY <1>1
<1>3. DiskOK(disk) /\ DiskOK(safe)
  BY DEF MigrationTypeOK
<1>4. disk' \in [Artifacts -> Copies \cup Targets \cup SealFiles]
  BY <1>1, <1>3 DEF DiskOK
<1>5. \A f \in Artifacts : Fits(f, disk'[f])
  BY <1>2, <1>3 DEF DiskOK
<1>6. \A p \in Procs : proc'[p] = Resting /\ proc'[p].at = "idle"
  BY DEF PowerFails, Resting
<1> QED BY <1>2, <1>4, <1>5, <1>6 DEF PowerFails, DiskOK

\* A file that somebody puts another in the place of was there.
LEMMA TamperTakes ==
  ASSUME MigrationTypeOK, Tamper
  PROVE  /\ DiskOK(disk') /\ DiskOK(safe')
         /\ \E f \in Artifacts :
              /\ disk[f] # Nothing /\ disk'[f] \in {Nothing, Foreign} /\ safe'[f] = disk'[f]
              /\ \A g \in Artifacts \ {f} : Kept(g)
<1>1. PICK f \in Artifacts, new \in {Nothing, Foreign} :
        /\ disk[f] \notin {Nothing, new}
        /\ disk' = [disk EXCEPT ![f] = new] /\ safe' = [safe EXCEPT ![f] = new]
  BY DEF Tamper
<1>2. DiskOK(disk) /\ DiskOK(safe) /\ Fits(f, new)
  BY Storable DEF MigrationTypeOK
<1>3. /\ disk' \in [Artifacts -> Copies \cup Targets \cup SealFiles]
      /\ safe' \in [Artifacts -> Copies \cup Targets \cup SealFiles]
  BY <1>1, <1>2 DEF DiskOK, Fits, Artifacts
<1>4. /\ disk'[f] = new /\ safe'[f] = new
      /\ \A g \in Artifacts \ {f} : disk'[g] = disk[g] /\ safe'[g] = safe[g]
  BY <1>1, <1>2 DEF DiskOK
<1>5. \A g \in Artifacts : Fits(g, disk'[g]) /\ Fits(g, safe'[g])
  BY <1>2, <1>4 DEF DiskOK
<1> QED BY <1>1, <1>3, <1>4, <1>5 DEF DiskOK, Kept

-----------------------------------------------------------------------------
(* The parts of the invariant. *)

LEMMA MigrationTyped ==
  ASSUME MigrationTypeOK, Numbered, [MigrationNext]_migrationVars
  PROVE  MigrationTypeOK'
<1>0. tampered \in 0 .. MaxTampering /\ runs \in Nat /\ MaxTampering \in Nat
  BY BoundsAssumption DEF MigrationTypeOK
<1>1. ASSUME NEW p \in Procs, Works(p) PROVE MigrationTypeOK'
  <2>1. \E x \in Invocations : proc' = [proc EXCEPT ![p] = x]
    BY <1>1, WorkAdvances
  <2>4. UNCHANGED <<source, uploads, said, runs, tampered>>
    BY <1>1, WorkAdvances DEF Elsewhere
  <2>2. proc' \in [Procs -> Invocations \cup {Resting}]
    BY <2>1, Moved
  <2>3. DiskOK(disk') /\ DiskOK(safe')
    BY <1>1, WorkWrites
  <2> QED BY <2>2, <2>3, <2>4 DEF MigrationTypeOK
<1>2. ASSUME NEW p \in Procs, Start(p) PROVE MigrationTypeOK'
  <2>1. proc' \in [Procs -> Invocations \cup {Resting}]
    BY <1>2, StartPlans, Moved
  <2>2. /\ runs' = runs + 1 /\ said' = [said EXCEPT ![p] = "nothing"]
        /\ UNCHANGED <<source, uploads, disk, safe, tampered>>
    BY <1>2 DEF Start
  <2>3. said' \in [Procs -> {"nothing", "applied", "already applied",
                            "committed but unverified", "failed"}]
    BY <2>2 DEF MigrationTypeOK
  <2>4. runs' \in Nat /\ UNCHANGED <<source, uploads, disk, safe, tampered>>
    BY <2>2, <1>0
  <2> QED BY <2>1, <2>3, <2>4 DEF MigrationTypeOK
<1>3. ASSUME NEW p \in Procs, Stops(p) PROVE MigrationTypeOK'
  <2>1. PICK o \in Outcomes : Returns(p, o)
    BY <1>3 DEF Stops
  <2>2. proc' \in [Procs -> Invocations \cup {Resting}]
    BY <2>1, Moved DEF Returns
  <2>3. said' \in [Procs -> {"nothing", "applied", "already applied",
                            "committed but unverified", "failed"}]
    BY <2>1 DEF Returns, MigrationTypeOK, Outcomes
  <2> QED BY <2>1, <2>2, <2>3 DEF MigrationTypeOK, Returns
<1>4. ASSUME PowerFails PROVE MigrationTypeOK'
  <2>1. /\ proc' \in [Procs -> Invocations \cup {Resting}]
        /\ said' \in [Procs -> {"nothing", "applied", "already applied",
                               "committed but unverified", "failed"}]
    BY <1>4 DEF PowerFails
  <2>2. DiskOK(disk') /\ DiskOK(safe')
    BY <1>4, PowerTakes
  <2> QED BY <1>4, <2>1, <2>2 DEF MigrationTypeOK, PowerFails
<1>5. ASSUME Tamper PROVE MigrationTypeOK'
  <2>1. DiskOK(disk') /\ DiskOK(safe')
    BY <1>5, TamperTakes
  <2>2. tampered' \in 0 .. MaxTampering
    BY <1>5, <1>0 DEF Tamper
  <2> QED BY <1>5, <2>1, <2>2 DEF MigrationTypeOK, Tamper
<1>6. ASSUME Outside PROVE MigrationTypeOK'
  BY <1>6 DEF MigrationTypeOK, Outside
<1> QED BY <1>1, <1>2, <1>3, <1>4, <1>5, <1>6, Sorts

LEMMA NumbersStay ==
  ASSUME MigrationTypeOK, Numbered, [MigrationNext]_migrationVars
  PROVE  Numbered'
<1>0. runs \in Nat
  BY DEF MigrationTypeOK
\* What the invariant says of a process, of what it is in and of what it has said.
<1> DEFINE One(x, s, n) == x.at # "idle" =>
             /\ x.id \in 1 .. n /\ s = "nothing" /\ (x.committed => x.at \in Done)
             /\ (x.at \in Sealing => IsMigration(x.digest, x.plan))
           Apart(x, y) == x.at # "idle" /\ y.at # "idle" => x.id # y.id
<1>a. \A p \in Procs : One(proc[p], said[p], runs)
  BY DEF Numbered, Live, At
<1>b. \A p, q \in Procs : p # q => Apart(proc[p], proc[q])
  BY DEF Numbered, Live, At
<1>c. ASSUME \A p \in Procs : One(proc'[p], said'[p], runs'),
             \A p, q \in Procs : p # q => Apart(proc'[p], proc'[q])
      PROVE  Numbered'
  BY <1>c DEF Numbered, Live, At
\* One process moves, and the others keep what they have.
<1>d. ASSUME NEW p \in Procs, NEW x \in Invocations \cup {Resting}, proc' = [proc EXCEPT ![p] = x],
             One(x, said'[p], runs'), \A q \in Procs \ {p} : said'[q] = said[q],
             runs' \in {runs, runs + 1}, x.at # "idle" => \A q \in Procs \ {p} : Apart(x, proc[q])
      PROVE  Numbered'
  <2>1. proc'[p] = x /\ \A q \in Procs \ {p} : proc'[q] = proc[q]
    BY <1>d, Moved
  <2>2. ASSUME NEW q \in Procs \ {p} PROVE One(proc'[q], said'[q], runs')
    BY <1>a, <1>d, <1>0, <2>1
  <2>3. ASSUME NEW q \in Procs, NEW r \in Procs, q # r PROVE Apart(proc'[q], proc'[r])
    <3>1. ASSUME NEW s \in Procs \ {p} PROVE Apart(x, proc[s]) /\ Apart(proc[s], x)
      BY <1>d
    <3>2. CASE q = p
      BY <2>1, <2>3, <3>1, <3>2
    <3>3. CASE r = p
      BY <2>1, <2>3, <3>1, <3>3
    <3>4. CASE q # p /\ r # p
      BY <2>1, <2>3, <3>4, <1>b
    <3> QED BY <3>2, <3>3, <3>4
  <2>4. \A q \in Procs : One(proc'[q], said'[q], runs')
    BY <2>1, <2>2, <1>d
  <2> QED BY <2>3, <2>4, <1>c
<1> HIDE DEF One, Apart
<1>1. ASSUME NEW p \in Procs, Works(p) PROVE Numbered'
  <2>1. PICK x \in Invocations : proc' = [proc EXCEPT ![p] = x] /\ Further(p, x)
    BY <1>1, WorkAdvances
  <2>2. proc[p].at # "idle" /\ said' = said /\ runs' = runs
    BY <1>1, WorkAdvances DEF Elsewhere, Live, At
  <2>3. One(x, said[p], runs)
    BY <1>a, <2>1, <2>2 DEF One, Further
  <2>4. \A q \in Procs \ {p} : Apart(x, proc[q])
    BY <1>b, <2>1, <2>2 DEF Apart, Further
  <2> QED BY <1>d, <2>1, <2>2, <2>3, <2>4
<1>2. ASSUME NEW p \in Procs, Start(p) PROVE Numbered'
  <2>1. PICK x \in Invocations :
          proc' = [proc EXCEPT ![p] = x] /\ x.at = "planned" /\ x.id = runs + 1 /\ ~ x.committed
    BY <1>2, StartPlans
  <2>2. runs' = runs + 1 /\ said' = [said EXCEPT ![p] = "nothing"]
    BY <1>2 DEF Start
  <2>3. said'[p] = "nothing" /\ \A q \in Procs \ {p} : said'[q] = said[q]
    BY <2>2 DEF MigrationTypeOK
  <2>4. One(x, said'[p], runs')
    BY <2>1, <2>2, <2>3, <1>0 DEF One, Sealing
  <2>5. \A q \in Procs \ {p} : Apart(x, proc[q])
    BY <1>a, <1>0, <2>1 DEF Apart, One
  <2> QED BY <1>d, <2>1, <2>2, <2>3, <2>4, <2>5
<1>3. ASSUME NEW p \in Procs, Stops(p) PROVE Numbered'
  <2>1. PICK o \in Outcomes : Returns(p, o)
    BY <1>3 DEF Stops
  <2>2. proc' = [proc EXCEPT ![p] = Resting] /\ runs' = runs /\ Resting.at = "idle"
    BY <2>1 DEF Returns, Resting
  <2>3. \A q \in Procs \ {p} : said'[q] = said[q]
    BY <2>1 DEF Returns, MigrationTypeOK
  <2>4. One(Resting, said'[p], runs')
    BY <2>2 DEF One
  <2> QED BY <1>d, <2>2, <2>3, <2>4
<1>4. ASSUME PowerFails PROVE Numbered'
  <2>1. \A p \in Procs : proc'[p].at = "idle"
    BY <1>4, PowerTakes
  <2> QED BY <2>1, <1>c DEF One, Apart
<1>5. ASSUME Tamper \/ Outside PROVE Numbered'
  BY <1>5, <1>a, <1>b, <1>c DEF Tamper, Outside
<1> QED BY <1>1, <1>2, <1>3, <1>4, <1>5, Sorts

\* Nobody vouches for a target that its maker does not know to be committed.
LEMMA CommitsStay ==
  ASSUME MigrationTypeOK, Numbered, CommitsKnown, [MigrationNext]_migrationVars, Numbered'
  PROVE  CommitsKnown'
<1> DEFINE Fine(t) == /\ t.by \in 1 .. runs
                      /\ \A q \in Procs : proc[q].at # "idle" /\ proc[q].id = t.by => proc[q].committed
           FineNow(t) == /\ t.by \in 1 .. runs'
                         /\ \A q \in Procs : proc'[q].at # "idle" /\ proc'[q].id = t.by
                                               => proc'[q].committed
           Shown(t, a, b, s, r) ==
             \/ t.kind = "done" /\ t \in {a, b}
             \/ \E x \in {s, r} : x.kind = "seal" /\ t = x.target
           Held(t) == \E q \in Procs : proc[q].at \in Sealing /\ t = proc[q].digest
           HeldNow(t) == \E q \in Procs : proc'[q].at \in Sealing /\ t = proc'[q].digest
           There(t) == Shown(t, disk["target"], safe["target"], disk["seal"], safe["seal"])
           ThereNow(t) == Shown(t, disk'["target"], safe'["target"], disk'["seal"], safe'["seal"])
<1>0. runs \in Nat /\ Resting.at = "idle" /\ {"target", "seal"} \subseteq Artifacts
  BY DEF MigrationTypeOK, Resting, Artifacts
<1>a. \A t : There(t) \/ Held(t) => Fine(t)
  BY DEF CommitsKnown, Seen, Live, At
<1>b. (\A t : ThereNow(t) \/ HeldNow(t) => FineNow(t)) => CommitsKnown'
  BY DEF CommitsKnown, Seen, Live, At
\* Where nothing is written and nobody starts to seal, there is nothing more to answer for.
<1>c. ASSUME \A q \in Procs : proc'[q].at \in Sealing => proc'[q] = proc[q]
      PROVE  \A t : HeldNow(t) => Held(t)
  BY <1>c
<1>d. ASSUME disk' = disk, safe' = safe PROVE \A t : ThereNow(t) => There(t)
  BY <1>d
<1>1. ASSUME NEW p \in Procs, Works(p) PROVE CommitsKnown'
  <2>1. PICK x \in Invocations : proc' = [proc EXCEPT ![p] = x] /\ Further(p, x)
    BY <1>1, WorkAdvances
  <2>2. /\ proc'[p] = x /\ x.id = proc[p].id /\ proc[p].at # "idle" /\ x.at # "idle"
        /\ \A q \in Procs \ {p} : proc'[q] = proc[q]
        /\ runs' = runs
    <3>1. proc'[p] = x /\ \A q \in Procs \ {p} : proc'[q] = proc[q]
      BY <2>1, Moved
    <3>2. runs' = runs /\ proc[p].at # "idle"
      BY <1>1, WorkAdvances DEF Elsewhere, Live, At
    <3> QED BY <3>1, <3>2, <2>1, Parts DEF Further
  <2>3. \A t : t.kind = "done" /\ t \in {disk'["target"], safe'["target"]}
               => t \in {disk["target"], safe["target"]} \/ (t.by = x.id /\ x.committed)
    <3>1. Written(p, "target")
      BY <1>0, <1>1, WorkWrites
    <3>2. CASE Kept("target") \/ Secured("target")
      BY <3>2 DEF Kept, Secured
    <3>3. CASE Begun(p, "target")
      BY <3>3, Kinds DEF Begun
    <3>4. CASE Built(p, "target")
      <4>1. disk["target"].kind # "done" /\ disk'["target"].kind # "done"
        BY <3>4, Kinds DEF Built
      <4>2. safe'["target"] \in {disk["target"], disk'["target"]}
        BY <3>4 DEF Built
      <4> QED BY <4>1, <4>2
    <3>5. CASE Filled(p, "target")
      <4>1. disk["target"].kind # "done" /\ safe'["target"] = disk["target"]
        BY <3>5, Kinds DEF Filled, EmptyTarget
      <4>2. disk'["target"].by = x.id /\ x.committed
        BY <3>5, <2>2, Kinds DEF Filled
      <4> QED BY <4>1, <4>2
    <3> QED BY <3>1, <3>2, <3>3, <3>4, <3>5 DEF Written, Copied, Sealed
  <2>4. \A y \in {disk'["seal"], safe'["seal"]} : y.kind = "seal"
          => y \in {disk["seal"], safe["seal"]} \/ (proc[p].at \in Sealing /\ y.target = proc[p].digest)
    <3>1. Written(p, "seal")
      BY <1>0, <1>1, WorkWrites
    <3>2. CASE Kept("seal") \/ Secured("seal")
      BY <3>2 DEF Kept, Secured
    <3>3. CASE Begun(p, "seal")
      BY <3>3, Kinds DEF Begun
    <3>4. CASE Sealed(p, "seal")
      BY <3>4 DEF Sealed, Seal, At, Sealing
    <3> QED BY <3>1, <3>2, <3>3, <3>4 DEF Written, Copied, Built, Filled
  <2>5. \A t : ThereNow(t) => There(t) \/ Held(t) \/ (t.by = x.id /\ x.committed)
    BY <2>3, <2>4
  <2>6. \A t : HeldNow(t) => There(t) \/ Held(t)
    <3>1. x.at \in Sealing => There(x.digest) \/ Held(x.digest)
      BY <2>1 DEF Further, IsMigration
    <3> QED BY <3>1, <2>2
  <2>7. ASSUME NEW t, Fine(t) \/ (t.by = x.id /\ x.committed) PROVE FineNow(t)
    <3>1. CASE Fine(t)
      BY <3>1, <2>1, <2>2 DEF Further
    <3>2. CASE t.by = x.id /\ x.committed
      <4>1. \A q, r \in Procs : proc'[q].at # "idle" /\ proc'[r].at # "idle" /\ proc'[q].id = proc'[r].id
                                 => q = r
        BY DEF Numbered, Live, At
      <4>2. x.id \in 1 .. runs
        BY <2>2 DEF Numbered, Live, At
      <4> QED BY <3>2, <4>1, <4>2, <2>2
    <3> QED BY <2>7, <3>1, <3>2
  <2> HIDE DEF Fine, FineNow, There, ThereNow, Held, HeldNow
  <2> QED BY <2>5, <2>6, <2>7, <1>a, <1>b
<1>2. ASSUME NEW p \in Procs, Start(p) PROVE CommitsKnown'
  <2>1. PICK x \in Invocations :
          proc' = [proc EXCEPT ![p] = x] /\ x.at = "planned" /\ x.id = runs + 1 /\ ~ x.committed
    BY <1>2, StartPlans
  <2>2. /\ proc'[p] = x /\ runs' = runs + 1 /\ disk' = disk /\ safe' = safe
        /\ \A q \in Procs \ {p} : proc'[q] = proc[q]
    BY <1>2, <2>1, Moved DEF Start
  <2>3. \A t : ThereNow(t) => There(t)
    BY <2>2, <1>d
  <2>4. \A t : HeldNow(t) => Held(t)
    BY <2>1, <2>2, <1>c DEF Sealing
  <2>5. ASSUME NEW t, Fine(t) PROVE FineNow(t)
    BY <2>5, <2>1, <2>2, <1>0
  <2> HIDE DEF Fine, FineNow, There, ThereNow, Held, HeldNow
  <2> QED BY <2>3, <2>4, <2>5, <1>a, <1>b
\* Where processes only end.
<1>e. ASSUME \A q \in Procs : proc'[q].at = "idle" \/ proc'[q] = proc[q], runs' = runs,
             \A t : ThereNow(t) => There(t)
      PROVE  CommitsKnown'
  <2>1. \A t : HeldNow(t) => Held(t)
    BY <1>e, <1>c DEF Sealing
  <2>2. ASSUME NEW t, Fine(t) PROVE FineNow(t)
    BY <2>2, <1>e
  <2> HIDE DEF Fine, FineNow, There, ThereNow, Held, HeldNow
  <2> QED BY <2>1, <2>2, <1>e, <1>a, <1>b
<1>3. ASSUME NEW p \in Procs, Stops(p) PROVE CommitsKnown'
  <2>1. proc' = [proc EXCEPT ![p] = Resting] /\ runs' = runs /\ disk' = disk /\ safe' = safe
    BY <1>3 DEF Stops, Returns
  <2>2. \A q \in Procs : proc'[q].at = "idle" \/ proc'[q] = proc[q]
    BY <2>1, <1>0, Moved
  <2> QED BY <2>1, <2>2, <1>d, <1>e
<1>4. ASSUME PowerFails PROVE CommitsKnown'
  <2>1. \A t : ThereNow(t) => There(t)
    BY <1>4, <1>0, PowerTakes
  <2>2. \A q \in Procs : proc'[q].at = "idle"
    BY <1>4, PowerTakes
  <2> QED BY <1>4, <2>1, <2>2, <1>e DEF PowerFails
<1>5. ASSUME Tamper PROVE CommitsKnown'
  <2>1. /\ disk'["target"].kind = "done" \/ safe'["target"].kind = "done" => Kept("target")
        /\ disk'["seal"].kind = "seal" \/ safe'["seal"].kind = "seal" => Kept("seal")
    BY <1>5, <1>0, TamperTakes, Kinds
  <2>2. \A t : ThereNow(t) => There(t)
    BY <2>1 DEF Kept
  <2> QED BY <1>5, <2>2, <1>e DEF Tamper
<1>6. ASSUME Outside PROVE CommitsKnown'
  BY <1>6 DEF CommitsKnown, Outside, Seen, Live, At
<1> QED BY <1>1, <1>2, <1>3, <1>4, <1>5, <1>6, Sorts

\* A complete copy stays durable.
LEMMA CopiesStayDurable ==
  ASSUME MigrationTypeOK, Numbered, CopiesDurable, [MigrationNext]_migrationVars
  PROVE  CopiesDurable'
<1> SUFFICES ASSUME NEW f \in {"backup", "rollback"}, disk'[f].kind # "partial"
             PROVE  safe'[f] = disk'[f]
  BY DEF CopiesDurable
<1>0. f \in Artifacts
  BY DEF Artifacts
<1>a. Kept(f) => safe'[f] = disk'[f]
  BY DEF Kept, CopiesDurable
<1>1. ASSUME NEW p \in Procs, Works(p) PROVE safe'[f] = disk'[f]
  <2>1. Written(p, f)
    BY <1>0, <1>1, WorkWrites
  <2> QED BY <2>1, <1>a, Kinds DEF Written, Secured, Begun, Copied, Built, Filled, Sealed
<1>2. ASSUME NEW p \in Procs, Start(p) \/ Stops(p) PROVE safe'[f] = disk'[f]
  BY <1>2, <1>a DEF Start, Stops, Returns, Kept
<1>3. ASSUME PowerFails \/ Tamper \/ Outside PROVE safe'[f] = disk'[f]
  BY <1>3, <1>0, <1>a, PowerTakes, TamperTakes DEF Outside, Kept
<1> QED BY <1>1, <1>2, <1>3, Sorts

\* A file is made anew only where there is none, and no step of the tool removes one.
LEMMA GapFalls ==
  ASSUME NEW a, NEW b, NEW c, NEW f \in {"backup", "rollback", "target"}, NEW d, NEW e,
         d # Nothing => e # Nothing,
         c \in From(f) => a \in From(f) \/ (d = Nothing /\ e # Nothing)
  PROVE  /\ Gap(c, b, f, e) <= Gap(a, b, f, d)
         /\ Gap(b, c, f, e) <= Gap(b, a, f, d)
         /\ Gap(a, b, f, d) \in 0 .. 2 /\ Gap(c, b, f, e) \in 0 .. 2
         /\ Gap(b, a, f, d) \in 0 .. 2 /\ Gap(b, c, f, e) \in 0 .. 2
BY DEF Gap

LEMMA RemovalsStayCounted ==
  ASSUME MigrationTypeOK, Numbered, RemovalsCounted, [MigrationNext]_migrationVars
  PROVE  RemovalsCounted'
<1> DEFINE Copied3 == {"backup", "rollback", "target"}
<1>0. tampered \in Nat /\ Copied3 \subseteq Artifacts \ {"seal"} /\ Resting.at = "idle"
  BY Counted DEF Artifacts, Resting
<1> SUFFICES ASSUME NEW q \in Procs, NEW r \in Procs, q # r
             PROVE  Removals(q, r)' <= tampered'
  BY DEF RemovalsCounted
<1>1. Removals(q, r) <= tampered
  BY DEF RemovalsCounted
\* What is not of the tool and not of the operator takes no file away, and does not count.
<1>a. ASSUME tampered' = tampered,
             \A f \in Copied3 : /\ Gap(proc'[q].at, proc'[r].at, f, disk'[f])
                                     <= Gap(proc[q].at, proc[r].at, f, disk[f])
      PROVE  Removals(q, r)' <= tampered'
  <2>1. \A x, y, d : \A f \in Copied3 : Gap(x, y, f, d) \in 0 .. 2
    BY DEF Gap
  <2> QED BY <1>a, <1>0, <1>1, <2>1 DEF Removals
\* The step of one process, or of none.
<1>b. ASSUME NEW p \in Procs, tampered' = tampered, \A s \in Procs \ {p} : proc'[s] = proc[s],
             \A f \in Copied3 :
               /\ disk[f] # Nothing => disk'[f] # Nothing
               /\ proc'[p].at \in From(f)
                    => proc[p].at \in From(f) \/ (disk[f] = Nothing /\ disk'[f] # Nothing)
      PROVE  Removals(q, r)' <= tampered'
  <2> SUFFICES ASSUME NEW f \in Copied3
               PROVE  Gap(proc'[q].at, proc'[r].at, f, disk'[f]) <= Gap(proc[q].at, proc[r].at, f, disk[f])
    BY <1>a, <1>b
  <2>1. CASE q = p
    <3>1. proc'[r] = proc[r]
      BY <1>b, <2>1
    <3> QED BY <1>b, <2>1, <3>1, GapFalls
  <2>2. CASE r = p
    <3>1. proc'[q] = proc[q]
      BY <1>b, <2>2
    <3> QED BY <1>b, <2>2, <3>1, GapFalls
  <2>3. CASE q # p /\ r # p
    <3>1. proc'[q] = proc[q] /\ proc'[r] = proc[r]
      BY <1>b, <2>3
    <3> QED BY <1>b, <3>1, GapFalls
  <2> QED BY <2>1, <2>2, <2>3
<1>2. ASSUME NEW p \in Procs, Works(p) PROVE Removals(q, r)' <= tampered'
  <2>1. PICK x \in Invocations : proc' = [proc EXCEPT ![p] = x] /\ Further(p, x)
    BY <1>2, WorkAdvances
  <2>2. proc'[p] = x /\ \A s \in Procs \ {p} : proc'[s] = proc[s]
    BY <2>1, Moved
  <2>3. tampered' = tampered
    BY <1>2, WorkAdvances DEF Elsewhere
  <2>4. ASSUME NEW f \in Copied3
        PROVE  /\ disk[f] # Nothing => disk'[f] # Nothing
               /\ x.at \in From(f) => proc[p].at \in From(f) \/ (disk[f] = Nothing /\ disk'[f] # Nothing)
    <3>1. Written(p, f) /\ f \in Artifacts \ {"seal"}
      BY <1>0, <1>2, WorkWrites
    <3>2. disk[f] # Nothing => disk'[f] # Nothing
      BY <3>1, Kinds DEF Written, Kept, Secured, Begun, Copied, Built, Filled, Sealed
    <3>3. Creates(p, f) => disk[f] = Nothing /\ disk'[f] # Nothing
      <4>1. ASSUME Creates(p, f) PROVE disk'[f] = Partial(proc[p].id)
        BY <4>1, <1>0 DEF Creates, MigrationTypeOK, DiskOK
      <4> QED BY <4>1, Kinds DEF Creates
    <3> QED BY <2>1, <3>1, <3>2, <3>3 DEF Further
  <2> QED BY <1>b, <2>2, <2>3, <2>4
<1>3. ASSUME NEW p \in Procs, Start(p) \/ Stops(p) PROVE Removals(q, r)' <= tampered'
  <2>1. /\ disk' = disk /\ tampered' = tampered
        /\ \E x \in Invocations \cup {Resting} :
             proc' = [proc EXCEPT ![p] = x] /\ x.at \in {"planned", "idle"}
    BY <1>0, <1>3, StartPlans DEF Start, Stops, Returns
  <2>2. proc'[p].at \in {"planned", "idle"} /\ \A s \in Procs \ {p} : proc'[s] = proc[s]
    BY <2>1, Moved
  <2>3. \A f \in Copied3 : proc'[p].at \notin From(f)
    BY <2>2 DEF From, Making, Done, Sealing
  <2> QED BY <1>b, <2>1, <2>2, <2>3
<1>4. ASSUME PowerFails PROVE Removals(q, r)' <= tampered'
  <2>1. proc'[q].at = "idle" /\ proc'[r].at = "idle" /\ tampered' = tampered
    BY <1>4, PowerTakes DEF PowerFails
  <2>2. \A f \in Copied3 : "idle" \notin From(f)
    BY DEF From, Making, Done, Sealing
  <2> QED BY <1>0, <2>1, <2>2 DEF Removals, Gap
<1>5. ASSUME Tamper PROVE Removals(q, r)' <= tampered'
  <2>1. PICK f \in Artifacts : \A g \in Artifacts \ {f} : disk'[g] = disk[g]
    BY <1>5, TamperTakes DEF Kept
  <2>2. proc' = proc /\ tampered' = tampered + 1
    BY <1>5 DEF Tamper
  <2>3. \A x, y, d, e : \A g \in Copied3 : /\ Gap(x, y, g, d) \in 0 .. 2
                                          /\ Gap(x, y, g, e) <= Gap(x, y, g, d) + 1
    BY DEF Gap
  <2>4. \A g \in Copied3 : g # f => disk'[g] = disk[g]
    BY <2>1, <1>0
  <2> QED BY <1>0, <1>1, <2>2, <2>3, <2>4 DEF Removals
<1>6. ASSUME Outside PROVE Removals(q, r)' <= tampered'
  BY <1>6, <1>1 DEF Outside, Removals
<1> QED BY <1>2, <1>3, <1>4, <1>5, <1>6, Sorts

\* The target of an invocation is its own, or three files have been removed.
LEMMA TargetsStayOwn ==
  ASSUME MigrationTypeOK, Numbered, RemovalsCounted, OwnTarget, [MigrationNext]_migrationVars
  PROVE  OwnTarget'
<1> DEFINE T == From("target")
<1>0. tampered \in Nat /\ "target" \in Artifacts \ {"seal"} /\ Resting.at = "idle"
  BY Counted DEF Artifacts, Resting
<1> SUFFICES ASSUME NEW r \in Procs, proc'[r].at \in T, disk'["target"] \notin {Nothing, Foreign}
             PROVE  disk'["target"].by = proc'[r].id \/ tampered' >= 3
  BY DEF OwnTarget, Made
<1>a. proc[r].at \in T /\ disk["target"] \notin {Nothing, Foreign}
        => disk["target"].by = proc[r].id \/ tampered >= 3
  BY DEF OwnTarget, Made
<1>b. T \subseteq Making /\ "idle" \notin T /\ "planned" \notin T
  BY DEF From, Making, Done, Sealing
<1>1. ASSUME NEW p \in Procs, Works(p) PROVE disk'["target"].by = proc'[r].id \/ tampered' >= 3
  <2>1. PICK x \in Invocations : proc' = [proc EXCEPT ![p] = x] /\ Further(p, x)
    BY <1>1, WorkAdvances
  <2>2. proc'[p] = x /\ x.id = proc[p].id /\ \A s \in Procs \ {p} : proc'[s] = proc[s]
    BY <2>1, Moved DEF Further
  <2>3. tampered' = tampered /\ proc'[r].id = proc[r].id
    <3>1. tampered' = tampered
      BY <1>1, WorkAdvances DEF Elsewhere
    <3> QED BY <2>2, <3>1
  <2>4. Written(p, "target") /\ (Creates(p, "target") => disk'["target"] = Partial(proc[p].id))
    <3>1. Written(p, "target")
      BY <1>0, <1>1, WorkWrites
    <3>2. Creates(p, "target") => disk'["target"] = Partial(proc[p].id)
      BY <1>0 DEF Creates, MigrationTypeOK, DiskOK
    <3> QED BY <3>1, <3>2
  <2>5. CASE Begun(p, "target")
    <3>1. disk["target"] = Nothing /\ disk'["target"].by = proc[p].id /\ proc[p].at = "target"
      BY <2>5, Kinds DEF Begun, At
    <3>2. CASE r = p
      BY <2>3, <3>1, <3>2
    <3>3. CASE r # p
      <4>1. proc[r].at \in T
        BY <2>2, <3>3
      <4>2. /\ \A f \in {"backup", "rollback"} : proc[p].at \in From(f) /\ proc[r].at \in From(f)
            /\ proc[r].at \in From("target")
        BY <3>1, <4>1 DEF From, Making, Done, Sealing
      <4>3. /\ Gap(proc[p].at, proc[r].at, "backup", disk["backup"]) \in 1 .. 2
            /\ Gap(proc[p].at, proc[r].at, "rollback", disk["rollback"]) \in 1 .. 2
            /\ Gap(proc[p].at, proc[r].at, "target", disk["target"]) \in 1 .. 2
        BY <4>2, <3>1 DEF Gap
      <4>4. Removals(p, r) <= tampered
        BY <3>3 DEF RemovalsCounted
      <4> QED BY <4>3, <4>4, <1>0, <2>3 DEF Removals
    <3> QED BY <3>2, <3>3
  <2>6. CASE ~ Begun(p, "target")
    <3>1. /\ disk["target"] \notin {Nothing, Foreign}
          /\ disk'["target"].by = disk["target"].by
      <4>1. CASE Kept("target") \/ Secured("target")
        BY <4>1 DEF Kept, Secured
      <4>2. CASE Built(p, "target")
        BY <4>2, Kinds DEF Built
      <4>3. CASE Filled(p, "target")
        BY <4>3, Kinds DEF Filled, EmptyTarget
      <4> QED BY <2>4, <2>6, <4>1, <4>2, <4>3 DEF Written, Copied, Sealed
    <3>2. proc[r].at \in T
      <4>1. ~ Creates(p, "target")
        BY <2>4, <3>1 DEF Creates
      <4> QED BY <1>0, <2>1, <2>2, <4>1 DEF Further
    <3> QED BY <1>a, <2>3, <3>1, <3>2
  <2> QED BY <2>5, <2>6
<1>2. ASSUME NEW p \in Procs, Start(p) \/ Stops(p) PROVE disk'["target"].by = proc'[r].id \/ tampered' >= 3
  <2>1. /\ disk' = disk /\ tampered' = tampered
        /\ \E x \in Invocations \cup {Resting} :
             proc' = [proc EXCEPT ![p] = x] /\ x.at \in {"planned", "idle"}
    BY <1>0, <1>2, StartPlans DEF Start, Stops, Returns
  <2>2. proc'[p].at \in {"planned", "idle"} /\ \A s \in Procs \ {p} : proc'[s] = proc[s]
    BY <2>1, Moved
  <2>3. proc'[r] = proc[r]
    BY <2>2, <1>b
  <2> QED BY <1>a, <2>1, <2>3
<1>3. ASSUME PowerFails PROVE FALSE
  BY <1>3, <1>b, PowerTakes
<1>4. ASSUME Tamper PROVE disk'["target"].by = proc'[r].id \/ tampered' >= 3
  <2>1. disk'["target"] = disk["target"]
    BY <1>0, <1>4, TamperTakes DEF Kept
  <2>2. proc' = proc /\ tampered' = tampered + 1
    BY <1>4 DEF Tamper
  <2> QED BY <1>0, <1>a, <2>1, <2>2
<1>5. ASSUME Outside PROVE disk'["target"].by = proc'[r].id \/ tampered' >= 3
  BY <1>5, <1>a DEF Outside
<1> QED BY <1>1, <1>2, <1>3, <1>4, <1>5, Sorts

\* What an invocation has made durable stays so.
LEMMA SyncsStay ==
  ASSUME MigrationTypeOK, Numbered, Syncs, [MigrationNext]_migrationVars, Numbered'
  PROVE  Syncs'
<1> DEFINE Late(x) == x.at \in {"synced"} \cup Sealing
           SealOf(x) == [kind |-> "seal", by |-> x.id, target |-> x.digest, of |-> x.plan,
                         scope |-> x.scope]
           Target(x, d, s) == Late(x) /\ d.kind = "done" /\ d.by = x.id => s = d
           Vouch(x, d, s) == x.at = "sealed" /\ d = SealOf(x) => s = d
<1>0. {"target", "seal"} \subseteq Artifacts /\ Resting.at = "idle"
  BY DEF Artifacts, Resting
<1>a. \A p \in Procs : /\ Target(proc[p], disk["target"], safe["target"])
                       /\ Vouch(proc[p], disk["seal"], safe["seal"])
  BY DEF Syncs, Seal, At
<1> SUFFICES ASSUME NEW r \in Procs
             PROVE  /\ Target(proc'[r], disk'["target"], safe'["target"])
                    /\ Vouch(proc'[r], disk'["seal"], safe'["seal"])
  BY DEF Syncs, Seal, At
<1> DEFINE Goal == /\ Target(proc'[r], disk'["target"], safe'["target"])
                   /\ Vouch(proc'[r], disk'["seal"], safe'["seal"])
<1>b. ~ Late(Resting) /\ Resting.at # "sealed"
  BY <1>0 DEF Sealing
<1>1. ASSUME NEW p \in Procs, Works(p) PROVE Goal
  <2>1. PICK x \in Invocations : proc' = [proc EXCEPT ![p] = x] /\ Further(p, x)
    BY <1>1, WorkAdvances
  <2>2. /\ proc'[p] = x /\ x.id = proc[p].id /\ proc[p].at # "idle"
        /\ \A s \in Procs \ {p} : proc'[s] = proc[s]
    BY <1>1, <2>1, Moved, WorkAdvances DEF Further, Live, At
  <2>3. Written(p, "target") /\ Written(p, "seal")
    BY <1>0, <1>1, WorkWrites
  <2>4. Target(proc'[r], disk'["target"], safe'["target"])
    <3>1. CASE Secured("target") \/ Begun(p, "target") \/ Built(p, "target")
      BY <3>1, Kinds DEF Secured, Begun, Built
    <3>2. CASE Filled(p, "target")
      <4>1. x.at = "committed" /\ disk'["target"].by = x.id
        BY <3>2, <2>2, Kinds DEF Filled
      <4>2. r # p /\ proc'[r].at # "idle" => proc'[r].id # x.id
        BY <2>2, <4>1 DEF Numbered, Live, At
      <4> QED BY <2>2, <4>1, <4>2 DEF Sealing
    <3>3. CASE Kept("target")
      <4>1. CASE r # p
        BY <1>a, <2>2, <3>3, <4>1 DEF Kept
      <4>2. CASE r = p
        <5>1. Late(x) => Late(proc[p]) \/ Secured("target")
          BY <1>1, <2>1, <2>2, WorkWrites DEF Further
        <5> QED BY <1>a, <2>2, <3>3, <4>2, <5>1 DEF Kept, Secured
      <4> QED BY <4>1, <4>2
    <3> QED BY <2>3, <3>1, <3>2, <3>3 DEF Written, Copied, Sealed
  <2>5. Vouch(proc'[r], disk'["seal"], safe'["seal"])
    <3>1. CASE Secured("seal") \/ Begun(p, "seal")
      BY <3>1, Kinds DEF Secured, Begun
    <3>2. CASE Sealed(p, "seal")
      <4>1. proc[p].at = "sealing" /\ disk'["seal"].by = x.id
        BY <3>2, <2>2 DEF Sealed, Seal, At
      <4>2. x.at # "sealed" /\ x.at # "idle"
        BY <2>1, <4>1, Parts DEF Further, At
      <4>3. r # p /\ proc'[r].at # "idle" => proc'[r].id # x.id
        BY <2>2, <4>2 DEF Numbered, Live, At
      <4> QED BY <2>2, <4>1, <4>2, <4>3
    <3>3. CASE Kept("seal")
      <4>1. CASE r # p
        BY <1>a, <2>2, <3>3, <4>1 DEF Kept
      <4>2. CASE r = p
        <5>1. x.at = "sealed" => Secured("seal")
          BY <1>1, <2>1, <2>2, WorkWrites DEF Further
        <5> QED BY <2>2, <4>2, <5>1 DEF Secured
      <4> QED BY <4>1, <4>2
    <3> QED BY <2>3, <3>1, <3>2, <3>3 DEF Written, Copied, Built, Filled
  <2> QED BY <2>4, <2>5
<1>2. ASSUME NEW p \in Procs, Start(p) \/ Stops(p) PROVE Goal
  <2>1. /\ disk' = disk /\ safe' = safe
        /\ \E x \in Invocations \cup {Resting} :
             proc' = [proc EXCEPT ![p] = x] /\ x.at \in {"planned", "idle"}
    BY <1>0, <1>2, StartPlans DEF Start, Stops, Returns
  <2>2. proc'[p].at \in {"planned", "idle"} /\ \A s \in Procs \ {p} : proc'[s] = proc[s]
    BY <2>1, Moved
  <2>3. CASE r = p
    BY <2>2, <2>3 DEF Sealing
  <2>4. CASE r # p
    BY <1>a, <2>1, <2>2, <2>4
  <2> QED BY <2>3, <2>4
<1>3. ASSUME PowerFails PROVE Goal
  BY <1>3, PowerTakes
<1>4. ASSUME Tamper PROVE Goal
  <2>1. proc' = proc
    BY <1>4 DEF Tamper
  <2>2. \A f \in {"target", "seal"} : Kept(f) \/ safe'[f] = disk'[f]
    BY <1>0, <1>4, TamperTakes
  <2> QED BY <1>a, <2>1, <2>2 DEF Kept
<1>5. ASSUME Outside PROVE Goal
  BY <1>5, <1>a DEF Outside
<1> QED BY <1>1, <1>2, <1>3, <1>4, <1>5, Sorts

\* What a seal vouches for stays durable: who writes the seal has synced its target.
LEMMA SealedStaysDurable ==
  ASSUME MigrationTypeOK, Numbered, CommitsKnown, OwnTarget, Syncs, SealedDurable,
         [MigrationNext]_migrationVars
  PROVE  SealedDurable'
<1>0. {"target", "seal"} \subseteq Artifacts /\ tampered \in Nat
  BY Counted DEF Artifacts
<1> SUFFICES ASSUME tampered' <= 2, disk'["seal"].kind = "seal", disk'["seal"].target = disk'["target"]
             PROVE  safe'["target"] = disk'["target"]
  BY DEF SealedDurable
<1>a. /\ disk["seal"].kind = "seal" => disk["seal"].target \in DoneFiles
      /\ tampered <= 2 /\ disk["seal"].kind = "seal" /\ disk["seal"].target = disk["target"]
           => safe["target"] = disk["target"]
  BY <1>0, Known DEF SealedDurable, MigrationTypeOK, DiskOK
<1>1. ASSUME NEW p \in Procs, Works(p) PROVE safe'["target"] = disk'["target"]
  <2>1. tampered' = tampered /\ Live(p)
    BY <1>1, WorkAdvances DEF Elsewhere
  <2>2. Written(p, "target") /\ Written(p, "seal")
    BY <1>0, <1>1, WorkWrites
  <2>3. CASE Secured("target")
    BY <2>3 DEF Secured
  <2>4. CASE Sealed(p, "seal")
    <3>1. /\ proc[p].at = "sealing" /\ disk'["seal"].target = proc[p].digest
      BY <2>4 DEF Sealed, Seal, At
    <3>2. proc[p].digest.kind = "done"
      BY <2>1, <3>1 DEF Numbered, IsMigration, Sealing
    <3>3. ~ Begun(p, "target") /\ ~ Built(p, "target") /\ ~ Filled(p, "target")
      BY <3>1, <3>2, Kinds DEF Begun, Built, Filled, At
    <3>4. CASE Kept("target")
      <4>1. disk["target"].kind = "done" /\ disk["target"] \notin {Nothing, Foreign}
        <5>1. disk["target"] = proc[p].digest
          BY <3>1, <3>4 DEF Kept
        <5> QED BY <5>1, <3>2, Kinds
      <4>2. disk["target"].by = proc[p].id
        BY <1>0, <2>1, <3>1, <4>1 DEF OwnTarget, Made, From, Done, Sealing
      <4> QED BY <3>1, <3>4, <4>1, <4>2 DEF Syncs, Sealing, Kept
    <3> QED BY <2>2, <2>3, <3>3, <3>4 DEF Written, Copied, Sealed
  <2>5. CASE ~ Sealed(p, "seal")
    <3>1. disk["seal"] = disk'["seal"]
      BY <2>2, <2>5, Kinds DEF Written, Kept, Secured, Begun, Copied, Built, Filled
    <3>2. disk'["target"].kind = "done"
      BY <1>a, <3>1, Known
    <3>3. ~ Begun(p, "target") /\ ~ Built(p, "target")
      BY <3>2, Kinds DEF Begun, Built
    <3>4. CASE Kept("target")
      BY <1>a, <2>1, <3>1, <3>4 DEF Kept
    <3>5. CASE Filled(p, "target")
      <4>1. disk["seal"].target.by = proc[p].id /\ proc[p].at = "applying"
        BY <3>1, <3>5, Kinds DEF Filled, At
      <4>2. disk["seal"].target \in Seen
        BY <3>1 DEF Seen
      <4>3. proc[p].committed
        BY <2>1, <4>1, <4>2 DEF CommitsKnown
      <4>4. ~ proc[p].committed
        BY <2>1, <4>1 DEF Numbered, Done, Sealing
      <4> QED BY <4>3, <4>4
    <3> QED BY <2>2, <2>3, <3>3, <3>4, <3>5 DEF Written, Copied, Sealed
  <2> QED BY <2>4, <2>5
<1>2. ASSUME NEW p \in Procs, Start(p) \/ Stops(p) PROVE safe'["target"] = disk'["target"]
  <2>1. disk' = disk /\ safe' = safe /\ tampered' = tampered
    BY <1>2 DEF Start, Stops, Returns
  <2> QED BY <1>a, <2>1
<1>3. ASSUME PowerFails PROVE safe'["target"] = disk'["target"]
  BY <1>3, PowerTakes
<1>4. ASSUME Tamper PROVE safe'["target"] = disk'["target"]
  <2>1. \A f \in {"target", "seal"} : Kept(f) \/ (safe'[f] = disk'[f] /\ disk'[f] \in {Nothing, Foreign})
    BY <1>0, <1>4, TamperTakes
  <2>2. tampered' = tampered + 1
    BY <1>4 DEF Tamper
  <2>3. disk'["seal"] = disk["seal"]
    BY <2>1, Kinds DEF Kept
  <2> QED BY <1>0, <1>a, <2>1, <2>2, <2>3 DEF Kept
<1>5. ASSUME Outside PROVE safe'["target"] = disk'["target"]
  BY <1>5, <1>a DEF Outside
<1> QED BY <1>1, <1>2, <1>3, <1>4, <1>5, Sorts

LEMMA MigrationBegins ==
  ASSUME MigrationInit
  PROVE  MigrationInv
<1>1. \A p \in Procs : proc[p] = Resting /\ proc[p].at = "idle"
  BY DEF MigrationInit, Resting
<1>2. \A f \in Artifacts : disk[f] = Nothing /\ safe[f] = Nothing
  BY DEF MigrationInit
<1>3. {"backup", "rollback", "target", "seal"} \subseteq Artifacts
  BY DEF Artifacts
<1>4. tampered = 0 /\ runs = 0 /\ MaxTampering \in Nat
  BY BoundsAssumption DEF MigrationInit
<1>5. MigrationTypeOK
  <2>1. DiskOK(disk) /\ DiskOK(safe)
    <3>1. /\ disk \in [Artifacts -> Copies \cup Targets \cup SealFiles]
          /\ safe \in [Artifacts -> Copies \cup Targets \cup SealFiles]
      BY DEF MigrationInit, Copies
    <3> QED BY <3>1, <1>2, Storable DEF DiskOK
  <2>2. source \in [of : Contents, stamp : Nat] /\ uploads \in [intact : BOOLEAN, stamp : Nat]
    BY DEF MigrationInit
  <2>3. proc \in [Procs -> Invocations \cup {Resting}]
    BY DEF MigrationInit
  <2>4. said \in [Procs -> {"nothing", "applied", "already applied",
                           "committed but unverified", "failed"}]
    BY DEF MigrationInit
  <2>5. runs \in Nat /\ tampered \in 0 .. MaxTampering
    BY <1>4
  <2> QED BY <2>1, <2>2, <2>3, <2>4, <2>5 DEF MigrationTypeOK
<1>6. Numbered /\ Syncs
  BY <1>1 DEF Numbered, Syncs, Live, At, Sealing
<1>7. CommitsKnown
  <2>1. Seen = {}
    BY <1>1, <1>2, <1>3, Kinds DEF Seen, Sealing
  <2> QED BY <2>1 DEF CommitsKnown
<1>8. CopiesDurable /\ SealedDurable
  BY <1>2, <1>3 DEF CopiesDurable, SealedDurable
<1>9. RemovalsCounted /\ OwnTarget
  <2>1. \A f \in {"backup", "rollback", "target"} : "idle" \notin From(f)
    BY DEF From, Making, Done, Sealing
  <2> QED BY <1>1, <1>4, <2>1 DEF RemovalsCounted, Removals, Gap, OwnTarget, Made
<1> QED BY <1>5, <1>6, <1>7, <1>8, <1>9 DEF MigrationInv

LEMMA MigrationGoesOn ==
  ASSUME MigrationInv, [MigrationNext]_migrationVars
  PROVE  MigrationInv'
<1>1. MigrationTypeOK' /\ Numbered'
  BY MigrationTyped, NumbersStay DEF MigrationInv
<1>2. CommitsKnown' /\ CopiesDurable' /\ RemovalsCounted'
  BY <1>1, CommitsStay, CopiesStayDurable, RemovalsStayCounted DEF MigrationInv
<1>3. OwnTarget' /\ Syncs' /\ SealedDurable'
  BY <1>1, TargetsStayOwn, SyncsStay, SealedStaysDurable DEF MigrationInv
<1> QED BY <1>1, <1>2, <1>3 DEF MigrationInv

\* The inductive invariant of the migration: numbers of invocations, what is committed and
\* who knows, what is durable, and how many files have to be removed for two invocations to
\* make the same target.
THEOREM MigrationInvariant == MigrationSpec => []MigrationInv
<1>1. MigrationInit => MigrationInv
  BY MigrationBegins
<1>2. MigrationInv /\ [MigrationNext]_migrationVars => MigrationInv'
  BY MigrationGoesOn
<1> QED BY <1>1, <1>2, PTL DEF MigrationSpec

\* Who speaks says so at its end, and has said nothing before.
LEMMA WhoSpeaks ==
  ASSUME MigrationInv, [MigrationNext]_migrationVars, NEW p \in Procs, Live(p), said'[p] # "nothing"
  PROVE  \/ Report(p) /\ said'[p] = "applied"
         \/ ReportAgain(p) /\ said'[p] = "already applied"
         \/ Fail(p) /\ said'[p] = Outcome(p)
<1>0. said[p] = "nothing" /\ MigrationTypeOK
  BY DEF MigrationInv, Numbered
<1>1. ASSUME NEW o, Returns(p, o) PROVE said'[p] = o
  BY <1>0, <1>1 DEF Returns, MigrationTypeOK
<1>2. ASSUME NEW q \in Procs, Step(q), q # p PROVE FALSE
  <2>1. said'[p] = said[p]
    <3>1. ASSUME Works(q) PROVE said' = said
      BY <1>0, <3>1, WorkAdvances DEF Elsewhere, MigrationInv
    <3>2. ASSUME Start(q) \/ \E o : Returns(q, o) PROVE said'[p] = said[p]
      BY <1>0, <1>2, <3>2 DEF Start, Returns, MigrationTypeOK
    <3> QED BY <1>2, <3>1, <3>2 DEF Step, Works, Report, ReportAgain, Fail, Die
  <2> QED BY <1>0, <2>1
<1>3. ASSUME PowerFails \/ WriteSource \/ WriteUploads \/ Tamper \/ UNCHANGED migrationVars PROVE FALSE
  BY <1>0, <1>3 DEF PowerFails, WriteSource, WriteUploads, Tamper, migrationVars
<1>4. Step(p)
  BY <1>2, <1>3 DEF MigrationNext
<1>5. ~ Works(p) /\ ~ Start(p) /\ ~ Die(p)
  <2>1. ASSUME Works(p) PROVE FALSE
    BY <1>0, <2>1, WorkAdvances DEF Elsewhere, MigrationInv
  <2>2. ASSUME Start(p) \/ Die(p) PROVE FALSE
    BY <1>1, <2>2 DEF Start, Die, Live
  <2> QED BY <2>1, <2>2
<1> QED BY <1>1, <1>4, <1>5 DEF Step, Works, Report, ReportAgain, Fail

\* Whoever says verified, by whichever way: the target is the migration of exactly what the
\* source holds, with its copies and attachments, and the inputs are as when it began.
\* The argument is what the last checks compare, and that a seal answers for its own target.
THEOREM VerifiedMeansExact == MigrationSpec => VerifiedIsExact
<1> DEFINE A == \A p \in Procs : Verifies(p) =>
       /\ IsMigration(disk["target"], source.of)
       /\ disk["backup"] = CopyOf(source.of)
       /\ disk["rollback"] = CopyOf(source.of)
       /\ uploads.intact
       /\ disk["seal"].target = disk["target"]
       /\ disk["seal"].scope = Scope
<1>1. MigrationInv /\ [MigrationNext]_migrationVars => A
  <2> SUFFICES ASSUME MigrationInv, [MigrationNext]_migrationVars, NEW p \in Procs, Verifies(p)
               PROVE  /\ IsMigration(disk["target"], source.of)
                      /\ disk["backup"] = CopyOf(source.of)
                      /\ disk["rollback"] = CopyOf(source.of)
                      /\ uploads.intact
                      /\ disk["seal"].target = disk["target"]
                      /\ disk["seal"].scope = Scope
    OBVIOUS
  <2>1. Live(p) /\ said'[p] \in {"applied", "already applied"}
    BY DEF Verifies, Live
  <2>2. Outcome(p) \notin {"applied", "already applied"}
    BY DEF Outcome
  <2>3. Report(p) \/ ReportAgain(p)
    BY <2>1, <2>2, WhoSpeaks
  <2>4. CASE Report(p)
    <3>1. IsMigration(proc[p].digest, proc[p].plan)
      BY <2>1, <2>4 DEF MigrationInv, Numbered, Report, At, Sealing
    <3>2. disk["seal"].target = proc[p].digest /\ disk["seal"].scope = proc[p].scope
      BY <2>4 DEF Report, Seal
    <3> QED BY <2>4, <3>1, <3>2 DEF Report, Proven, Backed, InputEvidence, AttachmentsMatch, InputUnchanged
  <2>5. CASE ReportAgain(p)
    BY <2>5 DEF ReportAgain, Rechecked, SealMatches, Proven, Backed, InputEvidence, AttachmentsMatch,
                InputUnchanged
  <2> QED BY <2>3, <2>4, <2>5
<1> HIDE DEF A
<1>2. MigrationSpec => [][A]_migrationVars
  BY <1>1, MigrationInvariant, PTL DEF MigrationSpec
<1> QED BY <1>2 DEF A, VerifiedIsExact

\* An ordinary failure means that this invocation committed nothing: a target by its number
\* would be one that it knows to have committed.
THEOREM FailuresAreHonest == MigrationSpec => FailureIsHonest
<1> DEFINE A == \A p \in Procs : ~ At(p, "idle") /\ said'[p] = "failed" =>
       /\ disk["target"].kind = "done" => disk["target"].by # proc[p].id
       /\ safe["target"].kind = "done" => safe["target"].by # proc[p].id
<1>1. MigrationInv /\ [MigrationNext]_migrationVars => A
  <2> SUFFICES ASSUME MigrationInv, [MigrationNext]_migrationVars, NEW p \in Procs,
                      Live(p), said'[p] = "failed",
                      NEW t \in {disk["target"], safe["target"]}, t.kind = "done"
               PROVE  t.by # proc[p].id
    BY DEF Live
  <2>1. Outcome(p) = "failed"
    BY WhoSpeaks
  <2>2. ~ proc[p].committed
    BY <2>1 DEF Outcome
  <2>3. t \in Seen
    BY DEF Seen
  <2> QED BY <2>2, <2>3 DEF MigrationInv, CommitsKnown
<1> HIDE DEF A
<1>2. MigrationSpec => [][A]_migrationVars
  BY <1>1, MigrationInvariant, PTL DEF MigrationSpec
<1> QED BY <1>2 DEF A, FailureIsHonest

\* What is said to be verified survives a power failure, except a target that was looked at
\* after three files had been removed by hand: it may be the one of another invocation, which
\* has not synced it yet (verifyV2Target compares contents, not the file).
DurableUnlessRemade ==
  [][\A p \in Procs : Verifies(p) =>
       /\ \A f \in {"backup", "rollback"} : safe[f] = disk[f]
       /\ tampered <= 2 => safe["target"] = disk["target"]
       /\ said'[p] = "applied" => safe["seal"] = disk["seal"]]_migrationVars

\* The copies were synced when they were made, the seal and the target by the invocation that
\* made them; a target could only be another's if backup, rollback copy and target had all
\* been removed.
THEOREM VerifiedUnlessRemade == MigrationSpec => DurableUnlessRemade
<1> DEFINE A == \A p \in Procs : Verifies(p) =>
       /\ \A f \in {"backup", "rollback"} : safe[f] = disk[f]
       /\ tampered <= 2 => safe["target"] = disk["target"]
       /\ said'[p] = "applied" => safe["seal"] = disk["seal"]
<1>1. MigrationInv /\ [MigrationNext]_migrationVars => A
  <2> SUFFICES ASSUME MigrationInv, [MigrationNext]_migrationVars, NEW p \in Procs, Verifies(p)
               PROVE  /\ \A f \in {"backup", "rollback"} : safe[f] = disk[f]
                      /\ tampered <= 2 => safe["target"] = disk["target"]
                      /\ said'[p] = "applied" => safe["seal"] = disk["seal"]
    OBVIOUS
  <2>1. Live(p) /\ said'[p] \in {"applied", "already applied"}
    BY DEF Verifies, Live
  <2>2. Outcome(p) \notin {"applied", "already applied"}
    BY DEF Outcome
  <2>3. \/ Report(p)
        \/ ReportAgain(p) /\ said'[p] # "applied"
    BY <2>1, <2>2, WhoSpeaks
  <2>4. Proven(p)
    BY <2>3 DEF Report, ReportAgain, Rechecked
  <2>5. \A f \in {"backup", "rollback"} : safe[f] = disk[f]
    <3>1. disk["backup"].kind = "v1" /\ disk["rollback"].kind = "v1"
      BY <2>4, Kinds DEF Proven, Backed
    <3> QED BY <3>1 DEF MigrationInv, CopiesDurable
  <2>6. CASE Report(p)
    <3>1. proc[p].at = "sealed" /\ disk["seal"] = Seal(p) /\ disk["target"] = proc[p].digest
      BY <2>6 DEF Report, At
    <3>2. disk["target"].kind = "done"
      BY <2>1, <3>1 DEF MigrationInv, Numbered, IsMigration, Sealing
    <3>3. disk["target"] \notin {Nothing, Foreign}
      BY <3>2, Kinds
    <3>4. ASSUME tampered <= 2 PROVE disk["target"].by = proc[p].id
      <4>1. tampered \in Nat
        BY Counted DEF MigrationInv
      <4> QED BY <3>1, <3>3, <3>4, <4>1 DEF MigrationInv, OwnTarget, Made, From, Done, Sealing
    <3>5. /\ tampered <= 2 => safe["target"] = disk["target"]
          /\ safe["seal"] = disk["seal"]
      BY <3>1, <3>2, <3>4 DEF MigrationInv, Syncs, Sealing, At
    <3> QED BY <2>5, <3>5
  <2>7. CASE ReportAgain(p) /\ said'[p] # "applied"
    <3>1. disk["seal"].kind = "seal" /\ disk["seal"].target = disk["target"]
      BY <2>7 DEF ReportAgain, Rechecked, SealMatches
    <3>2. tampered <= 2 => safe["target"] = disk["target"]
      BY <3>1 DEF MigrationInv, SealedDurable
    <3> QED BY <2>5, <2>7, <3>2
  <2> QED BY <2>3, <2>6, <2>7
<1> HIDE DEF A
<1>2. MigrationSpec => [][A]_migrationVars
  BY <1>1, MigrationInvariant, PTL DEF MigrationSpec
<1> QED BY <1>2 DEF A, DurableUnlessRemade

\* With at most two removals by hand, what is said to be verified survives a power failure.
THEOREM VerifiedMeansDurable == MaxTampering <= 2 /\ MigrationSpec => VerifiedIsDurable
<1> SUFFICES ASSUME MaxTampering <= 2 PROVE MigrationSpec => VerifiedIsDurable
  OBVIOUS
<1> DEFINE A == \A p \in Procs : Verifies(p) =>
       /\ \A f \in {"backup", "rollback"} : safe[f] = disk[f]
       /\ tampered <= 2 => safe["target"] = disk["target"]
       /\ said'[p] = "applied" => safe["seal"] = disk["seal"]
           B == \A p \in Procs : Verifies(p) =>
       /\ \A f \in {"backup", "rollback", "target"} : safe[f] = disk[f]
       /\ said'[p] = "applied" => safe["seal"] = disk["seal"]
<1>1. MigrationInv /\ A => B
  <2> SUFFICES ASSUME MigrationInv, A PROVE B
    OBVIOUS
  <2>1. tampered <= 2
    <3>1. tampered \in 0 .. MaxTampering /\ MaxTampering \in Nat
      BY BoundsAssumption DEF MigrationInv, MigrationTypeOK
    <3> QED BY <3>1
  <2> QED BY <2>1
<1>2. MigrationSpec => [][A]_migrationVars
  BY VerifiedUnlessRemade DEF DurableUnlessRemade
<1> HIDE DEF A, B
<1>3. MigrationSpec => [][B]_migrationVars
  BY <1>1, <1>2, MigrationInvariant, PTL
<1> QED BY <1>3 DEF B, VerifiedIsDurable

=============================================================================
