---------------------------- MODULE MCMaintenance ----------------------------
(* A small instance of Maintenance. Who takes part is chosen at the beginning: two servers that *)
(* write, a server that writes and a coordinator, or a server that does not write and two       *)
(* coordinators.                                                                                *)
EXTENDS Maintenance, TLC

CONSTANTS initialize, register, s1, s2

VARIABLE cast  \* the servers and coordinators that take part, and whether servers write

MCExpects == [p \in Packets |-> 0]

Casts == {[servers |-> {s1, s2}, coordinators |-> {}, writing |-> TRUE],
          [servers |-> {s1}, coordinators |-> {1}, writing |-> TRUE],
          [servers |-> {s1}, coordinators |-> {1, 2}, writing |-> FALSE]}

\* Only the cast acts, and the path of production gets the packet its schema supports.
Within ==
  /\ \A s \in Servers \ cast.servers : srv[s] = Down
  /\ \A c \in Coordinators \ cast.coordinators : co[c] = Idle
  /\ db.written = 0 \/ cast.writing
  /\ \A c \in Coordinators : production => co[c].packet \in {None, initialize}

MCInit == Init /\ cast \in Casts /\ Within

MCNext == UNCHANGED cast /\ Next /\ Within'

MCSpec == MCInit /\ [][MCNext]_<<vars, cast>> /\ Fairness

==============================================================================
