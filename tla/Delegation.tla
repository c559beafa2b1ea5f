----------------------------- MODULE Delegation -----------------------------
(***************************************************************************)
(* Commands an owner delegates in a conversation to an assistant, who may  *)
(* send exactly that command once: the boundary that each server process   *)
(* mounts beside the schedule, the attempts and cancellations it keeps in  *)
(* the database, and the delegations it keeps in memory only.              *)
(*                                                                         *)
(* A process runs one thing at a time, but other processes share its       *)
(* database: between two statements outside a transaction they may act,    *)
(* and between the claim of an attempt and its dispatch there is an await. *)
(* A process that dies forgets its delegations.                            *)
(***************************************************************************)
EXTENDS Scheduling

CONSTANTS
  Processes,  \* servers that may mount a conversation boundary on the database
  Sources,    \* source references of delegations
  Assistants, \* executors among the agent identities
  Shifts,     \* bound: by how many slots a preview may shift a session
  Window      \* slots a delegation lasts

ASSUME WindowAssumption == Window \in Nat \ {0}
ASSUME ShiftsAssumption == Shifts \subseteq Int

VARIABLES
  hosts,      \* the processes that mount a boundary
  records,    \* per process and source: the delegation in memory
  tombstone,  \* operations of kind conversation.cancel, by source
  attempts,   \* agent_grant_attempts, by source: the commands claimed
  doing,      \* per process: the call it has checked and not yet written
  claimed,    \* per process: the call whose attempt it has claimed and not yet dispatched
  sent,       \* history, per source: for whom a command was given to the service, in order
  effective   \* history: sources whose command changed the schedule

boundaryVars == <<records, doing, claimed>>
delegationVars == <<hosts, boundaryVars, tombstone, attempts, sent, effective>>
allVars == <<vars, delegationVars>>

NoCommand == [action |-> "none"]
NoRecord == [command |-> NoCommand]
Nothing == [at |-> "nothing"]

DelegationInit ==
  /\ Init
  /\ \E s \in Starts : /\ item = s.item /\ req = s.req
                       /\ \E H \in SUBSET Processes : Cardinality(H) = s.hosts /\ hosts = H
  /\ records = [h \in Processes |-> [s \in Sources |-> NoRecord]]
  /\ tombstone = [s \in Sources |-> NoRecord]
  /\ attempts = [s \in Sources |-> {}]
  /\ doing = [h \in Processes |-> Nothing]
  /\ claimed = [h \in Processes |-> Nothing]
  /\ sent = [s \in Sources |-> << >>]
  /\ effective = {}

-----------------------------------------------------------------------------
(* What the assistant proposes and the owner delegates. *)

\* previewShift: the same session earlier or later, without leaving its days.
Shifted(i) ==
  {<<item[i].start + k, item[i].end + k>> :
     k \in {x \in Shifts \ {0} : /\ Day(item[i].start + x) = Day(item[i].start)
                                 /\ Day(item[i].end + x) = Day(item[i].end)}}

\* proposeReschedule: what the reschedule would accept if it were sent now.
MoveCommands(o, a) ==
  UNION {{[action |-> "reschedule", op |-> o, item |-> i, from |-> m[1], to |-> m[2],
           rev |-> rev, proj |-> proj, config |-> active.config, by |-> a] :
            m \in {x \in Moves \cup Shifted(i) : MayMove(i, x[1], x[2])}} :
         i \in {j \in Requests : item[j].status = "confirmed"}}

\* generateProposal, and the adoption of all that it previews.
AdoptCommands(o, a) ==
  {[action |-> "adopt_proposal", op |-> o, generation |-> g, input |-> input,
    selected |-> Generate(input), by |-> a] :
     g \in Unused \ {o},
     input \in {x \in Inputs : InputOK(x) /\ Generable(x) /\ Generate(x) # {}}}

\* What an owner may delegate now, bound to what a preview has just shown.
Offered(a) == UNION {MoveCommands(o, a) \cup AdoptCommands(o, a) : o \in Unused}

\* The commands an owner has at hand to delegate elsewhere or to cancel.
Delegated == {records[h][s].command : h \in hosts, s \in Sources} \ {NoCommand}

Free(h) == h \in hosts /\ doing[h] = Nothing
Record(h, s) == records[h][s]
Cancelled(s) == tombstone[s] # NoRecord
Attempted(s) == attempts[s] # {}

\* ownerCall: a delegation of this source, for a while, to one assistant and one command.
Delegate(h, s, c) ==
  /\ Free(h)
  /\ Record(h, s) = NoRecord
  /\ ~ Attempted(s) /\ ~ Cancelled(s)
  /\ records' = [records EXCEPT ![h][s] = [command |-> c, until |-> now + Window, cancelled |-> FALSE]]
  /\ UNCHANGED <<vars, hosts, doing, claimed, tombstone, attempts, sent, effective>>

\* ownerCall with cancel, as far as it goes outside a transaction.
CancelBegins(h, s, c) ==
  /\ Free(h)
  /\ Record(h, s).command \in {NoCommand, c}
  /\ ~ Attempted(s) /\ ~ Cancelled(s)
  /\ doing' = [doing EXCEPT ![h] = [at |-> "cancelling", source |-> s, command |-> c]]
  /\ UNCHANGED <<vars, hosts, records, claimed, tombstone, attempts, sent, effective>>

\* Its transaction looks again, and keeps the binding; then the memory follows.
CancelCommits(h) ==
  LET s == doing[h].source
      c == doing[h].command
  IN  /\ doing[h].at = "cancelling"
      /\ ~ Cancelled(s)
      /\ \A x \in attempts[s] : x.by # c.by
      /\ tombstone' = [tombstone EXCEPT ![s] = [command |-> c]]
      /\ records' = [records EXCEPT ![h][s] =
           IF Record(h, s) = NoRecord THEN [command |-> c, until |-> now, cancelled |-> TRUE]
           ELSE [Record(h, s) EXCEPT !.cancelled = TRUE]]
      /\ doing' = [doing EXCEPT ![h] = Nothing]
      /\ UNCHANGED <<vars, hosts, claimed, attempts, sent, effective>>

-----------------------------------------------------------------------------
(* The assistant's call. *)

\* Mutant: once its attempt is claimed, a delegation is not looked at again.
StandsOnceClaimed(h, call) == claimed[h] = Nothing => ~ Cancelled(call.source)

\* isGrantActive and the window, in memory and in the database.
Stands(h, call) ==
  /\ now < call.until
  /\ ~ Cancelled(call.source)
  /\ Record(h, call.source) # NoRecord => ~ Record(h, call.source).cancelled

\* call: the delegation of exactly this command, as the checks before the claim find it.
CallBegins(h, s) ==
  /\ Free(h) /\ claimed[h] = Nothing
  /\ Record(h, s) # NoRecord /\ ~ Record(h, s).cancelled
  /\ Stands(h, [source |-> s, until |-> Record(h, s).until])
  /\ doing' = [doing EXCEPT ![h] = [at |-> "calling", source |-> s,
                                    command |-> Record(h, s).command, until |-> Record(h, s).until]]
  /\ UNCHANGED <<vars, hosts, records, claimed, tombstone, attempts, sent, effective>>

\* Mutant: an attempt is refused only after one of the very same command.
UnclaimedExactly(s, c) == c \notin attempts[s]

\* claimConversation: one attempt for a source, whatever it was bound to.
Unclaimed(s, c) == attempts[s] = {}

\* The attempt is on record before anything is sent; the call awaits it.
CallClaims(h) ==
  LET call == doing[h]
  IN  /\ call.at = "calling"
      /\ Unclaimed(call.source, call.command)
      /\ attempts' = [attempts EXCEPT ![call.source] = @ \cup {call.command}]
      /\ claimed' = [claimed EXCEPT ![h] = call]
      /\ doing' = [doing EXCEPT ![h] = Nothing]
      /\ UNCHANGED <<vars, hosts, records, tombstone, sent, effective>>

\* The call or the cancellation ends with a refusal: what it found changed, or the store failed.
Refused(h) ==
  /\ doing[h] # Nothing
  /\ doing' = [doing EXCEPT ![h] = Nothing]
  /\ UNCHANGED <<vars, hosts, records, claimed, tombstone, attempts, sent, effective>>

\* The command of the schedule itself, at the revisions it was made for.
Performs(c) ==
  \/ /\ c.action = "reschedule"
     /\ <<c.rev, c.proj, c.config>> = <<rev, proj, active.config>>
     /\ Reschedule(c.op, c.item, c.from, c.to)
  \/ /\ c.action = "adopt_proposal"
     /\ SameInput(c.input)
     /\ Adopt(c.generation, c.op, c.input, c.selected, c.selected)

Sent(h) ==
  /\ h \in hosts /\ Free(h) /\ claimed[h] # Nothing
  /\ sent' = [sent EXCEPT ![claimed[h].source] = Append(@, claimed[h].command.by)]
  /\ claimed' = [claimed EXCEPT ![h] = Nothing]
  /\ UNCHANGED <<hosts, records, doing, tombstone, attempts>>

\* The dispatch: the execution guard is the last thing its transaction asks.
CallActs(h) ==
  /\ Sent(h)
  /\ Performs(claimed[h].command)
  /\ Stands(h, claimed[h])
  /\ effective' = effective \cup {claimed[h].source}

\* The dispatch that changed nothing: refused, rolled back by the guard, or failed.
CallFails(h) ==
  /\ Sent(h)
  /\ UNCHANGED <<vars, effective>>

\* The process dies and starts again with an empty memory.
Dies(h) ==
  /\ h \in hosts
  /\ <<records[h], doing[h], claimed[h]>> # <<[s \in Sources |-> NoRecord], Nothing, Nothing>>
  /\ records' = [records EXCEPT ![h] = [s \in Sources |-> NoRecord]]
  /\ doing' = [doing EXCEPT ![h] = Nothing]
  /\ claimed' = [claimed EXCEPT ![h] = Nothing]
  /\ UNCHANGED <<vars, hosts, tombstone, attempts, sent, effective>>

HostStep(h) ==
  \/ \E s \in Sources, a \in Assistants : \E c \in Offered(a) : Delegate(h, s, c)
  \/ \E s \in Sources, c \in Delegated : Delegate(h, s, c) \/ CancelBegins(h, s, c)
  \/ \E s \in Sources : CallBegins(h, s)
  \/ CancelCommits(h) \/ CallClaims(h) \/ Refused(h)
  \/ CallActs(h) \/ CallFails(h)
  \/ Dies(h)

DelegationNext ==
  \/ Next /\ UNCHANGED delegationVars
  \/ \E h \in hosts : HostStep(h)

DelegationSpec == DelegationInit /\ [][DelegationNext]_allVars

-----------------------------------------------------------------------------
(* Properties. *)

Promise == INSTANCE Permit WITH
  attempted <- [s \in Sources |-> {x.by : x \in attempts[s]}],
  dispatched <- sent,
  withdrawn <- [s \in Sources |-> IF Cancelled(s) THEN {tombstone[s].command.by} ELSE {}]

\* A source leads to one attempt and one dispatch at most, in whatever processes it was delegated
\* and however often they die; and a cancellation that was answered is final: the assistant it
\* names has no attempt, and nothing changes the schedule under that source afterwards.
KeptPermit == Promise!KeptSpec

\* The same, and what JSO_AGENT_API_V1.md (lines 205 to 207) says of a cancellation: it is not
\* answered once an attempt exists, whoever made it. The transaction of the cancellation asks
\* only for an attempt of the assistant it names.
DocumentedPermit == Promise!PermitSpec

=============================================================================
