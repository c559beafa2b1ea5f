------------------------------- MODULE Permit -------------------------------
(***************************************************************************)
(* What a delegation promises its owner: the source of an approval leads   *)
(* to one attempt and one dispatch at most, whoever it was made for; and a *)
(* withdrawal that was answered is final: nothing under that source has an *)
(* effect after it.                                                        *)
(*                                                                         *)
(* The documents promise one thing more than the boundary keeps: that no   *)
(* withdrawal is answered once there is an attempt. The boundary keeps     *)
(* this only of an attempt of the assistant that the withdrawal names.     *)
(***************************************************************************)
EXTENDS Sequences

CONSTANTS
  Sources,    \* references to what the owner said or approved
  Assistants  \* who may be given the approval

VARIABLES
  attempted,  \* per source: the assistants whose command is on record as attempted
  dispatched, \* per source: the assistants for whom its command went to the service, in order
  effective,  \* sources whose command changed the schedule
  withdrawn   \* per source: the assistants a withdrawal was answered for

permitVars == <<attempted, dispatched, effective, withdrawn>>

PermitInit ==
  /\ attempted = [s \in Sources |-> {}]
  /\ dispatched = [s \in Sources |-> << >>]
  /\ effective = {}
  /\ withdrawn = [s \in Sources |-> {}]

\* The one attempt of a source.
Attempt(s, a) ==
  /\ attempted[s] = {}
  /\ attempted' = [attempted EXCEPT ![s] = {a}]
  /\ UNCHANGED <<dispatched, effective, withdrawn>>

\* The dispatch of an attempt; it changes something only if nothing was withdrawn.
Dispatch(s, a) ==
  /\ a \in attempted[s] /\ dispatched[s] = << >>
  /\ dispatched' = [dispatched EXCEPT ![s] = <<a>>]
  /\ \/ UNCHANGED effective
     \/ withdrawn[s] = {} /\ effective' = effective \cup {s}
  /\ UNCHANGED <<attempted, withdrawn>>

\* The one withdrawal of a source, which names an assistant.
Withdraw(s, a) ==
  /\ withdrawn[s] = {}
  /\ a \notin attempted[s]
  /\ withdrawn' = [withdrawn EXCEPT ![s] = {a}]
  /\ UNCHANGED <<attempted, dispatched, effective>>

\* As documented: an attempt, whoever made it, leaves nothing to withdraw.
WithdrawUnattempted(s, a) == attempted[s] = {} /\ Withdraw(s, a)

PermitNext ==
  \E s \in Sources, a \in Assistants : Attempt(s, a) \/ Dispatch(s, a) \/ WithdrawUnattempted(s, a)

\* As kept.
KeptNext ==
  \E s \in Sources, a \in Assistants : Attempt(s, a) \/ Dispatch(s, a) \/ Withdraw(s, a)

PermitSpec == PermitInit /\ [][PermitNext]_permitVars
KeptSpec == PermitInit /\ [][KeptNext]_permitVars

=============================================================================
