----------------------------- MODULE FieldRuns -----------------------------
(***************************************************************************)
(* The V3 recorder in front of the runs of RunEvents: the owner's server,  *)
(* the operator's device and the owner's device record starts and          *)
(* completions, whose time may be the one a device declares.  The recorder *)
(* keeps one run at a time on a resource, in order of the declared times,  *)
(* and hands the event to the same transaction the V2 kiosk uses.          *)
(*                                                                         *)
(* A refusal writes nothing, so the checks that only refuse (identity,     *)
(* write admission, quiescence, the schedule revision the device saw, the  *)
(* date of a start, the notification policy) are not spelled out, and an   *)
(* event too far from its reception is refused here, never filed for       *)
(* review.  A time read from the server's clock is one more declared time. *)
(***************************************************************************)
EXTENDS RunEvents

CONSTANTS
  Resources,  \* scheduling resources
  ResourceOf  \* the resource each schedule item is planned on

ASSUME ResourceOfAssumption == ResourceOf \in [Items -> Resources]

VARIABLE recorded \* events with a receipt of the recorder, under its prefixed operation id

fieldVars == <<serverVars, recorded>>

FieldInit == ServerInit /\ recorded = {}

-----------------------------------------------------------------------------
\* The other started runs on the resource the command is about.
Others(cmd) ==
  {r \in Runs \ {cmd.run} : /\ run[r] # NoRun
                            /\ ResourceOf[run[r].item] = ResourceOf[cmd.item]
                            /\ run[r].started # NoTime}

\* RESOURCE_ALREADY_RUNNING
ResourceFree(cmd) == \A r \in Others(cmd) : run[r].status \notin {"shooting", "blocked"}

\* Mutant: a start only looks for a run in progress, whatever the times declared.
TimesFitNow(cmd) == cmd.type = "start" => ResourceFree(cmd)

\* RUN_EVENT_TIME_RESOURCE_CONFLICT: a start comes after everything on the resource has
\* ended; at a completion nothing else lies within the run.
TimesFit(cmd) ==
  \A r \in Others(cmd) :
    LET ended == run[r].completed # NoTime
    IN IF cmd.type = "start"
       THEN ended /\ run[r].completed <= cmd.at
       ELSE run[r].started < cmd.at => ended /\ run[r].completed <= run[cmd.run].started

\* A single-task item in force.
Executable(cmd) == cmd.item \in TaskItems \ cancelled

\* RUN_PREPARATION_REQUIRED: an executable item, and the run the command names is
\* the item's only one, in the state the event begins from, or is created by the start.
Prepared(cmd) ==
  /\ Executable(cmd)
  /\ cmd.type = "start" =>
       IF RunsOf(cmd.item) = {}
       THEN cmd.expected = 0 /\ run[cmd.run] = NoRun
       ELSE RunsOf(cmd.item) = {cmd.run} /\ run[cmd.run].status = "scheduled"
  /\ cmd.type = "complete" =>
       RunsOf(cmd.item) = {cmd.run} /\ run[cmd.run].status = "shooting"

\* The recorder takes starts and completions only.
FieldCommands == {cmd \in Commands : cmd.type \in {"start", "complete"}}

\* The use case of the recorder, with notifications disabled.
ApplyRunEvent(cmd) == Apply(cmd, FALSE)

\* Neither the recorder nor the events themselves know the command: what is known is
\* answered from its receipt, or refused as the reuse of a key.
Unrecorded(cmd) == cmd.event \notin recorded /\ ~ Known(cmd)

\* One transaction: the recorder's checks, the event itself without notification, and the
\* recorder's own receipt.  A command known under either operation id writes nothing.
FieldRecord(cmd) ==
  /\ Unrecorded(cmd)
  /\ Prepared(cmd)
  /\ cmd.type = "start" => ResourceFree(cmd)
  /\ TimesFit(cmd)
  /\ ApplyRunEvent(cmd)
  /\ recorded' = recorded \cup {cmd.event}

\* The V2 kiosk and the owner's cancellation, which know nothing of the recorder.
Elsewhere ==
  /\ \/ \E cmd \in Commands, timely \in BOOLEAN : Record(cmd, timely)
     \/ \E i \in TaskItems : CancelItem(i)
  /\ UNCHANGED recorded

FieldNext == (\E cmd \in FieldCommands : FieldRecord(cmd)) \/ Elsewhere

FieldSpec == FieldInit /\ [][FieldNext]_fieldVars

-----------------------------------------------------------------------------
(* Properties. *)

StartedByRecorder(r) ==
  \E e \in recorded : fact[e].cmd.run = r /\ fact[e].cmd.type = "start"

\* Whatever times the devices declare, and whatever the V2 kiosk records in between, two
\* runs the recorder started on one resource never overlap: one ended before the other began.
RunsDisjoint ==
  \A r, q \in Runs :
    /\ r # q
    /\ StartedByRecorder(r)
    /\ StartedByRecorder(q)
    /\ ResourceOf[run[r].item] = ResourceOf[run[q].item]
    => \/ run[r].completed # NoTime /\ run[r].completed <= run[q].started
       \/ run[q].completed # NoTime /\ run[q].completed <= run[r].started

=============================================================================
