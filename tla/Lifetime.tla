------------------------------ MODULE Lifetime ------------------------------
(***************************************************************************)
(* What a library promises about the lives of its descriptors: one that    *)
(* the application holds is there, and an archive is there as long as one  *)
(* of its members is.  The library need not reclaim at once.               *)
(***************************************************************************)
EXTENDS Naturals

CONSTANTS Handle, NULL

VARIABLES
  alive,   \* the descriptors that exist
  held,    \* how often the application holds each of them
  parent   \* the archive a descriptor is a member of

vars == <<alive, held, parent>>

Init ==
  /\ alive = {}
  /\ held = [h \in Handle |-> 0]
  /\ parent = [h \in Handle |-> NULL]

\* A new descriptor; a member needs an archive that the application holds.
Open(h) ==
  /\ h \notin alive
  /\ alive' = alive \cup {h}
  /\ held' = [held EXCEPT ![h] = 1]
  /\ \E p \in {NULL} \cup {a \in alive : held[a] > 0} :
       parent' = [parent EXCEPT ![h] = p]

Again(h) ==
  /\ h \in alive /\ held[h] > 0
  /\ held' = [held EXCEPT ![h] = @ + 1]
  /\ UNCHANGED <<alive, parent>>

\* h is no longer reachable: nobody holds it and it has no members.
Reclaim(h, count) ==
  /\ h \in alive /\ count[h] = 0
  /\ \A c \in alive : parent[c] # h
  /\ alive' = alive \ {h}
  /\ parent' = [parent EXCEPT ![h] = NULL]

\* The application gives h up, and h may go at once or later.
Close(h) ==
  /\ h \in alive /\ held[h] > 0
  /\ held' = [held EXCEPT ![h] = @ - 1]
  /\ UNCHANGED <<alive, parent>> \/ Reclaim(h, held')

Collect(h) == Reclaim(h, held) /\ UNCHANGED held

Next ==
  \E h \in Handle :
    \/ Open(h)
    \/ Again(h)
    \/ Close(h)
    \/ Collect(h)

Spec == Init /\ [][Next]_vars
=============================================================================
