------------------------- MODULE BoundedAdmission --------------------------
(***************************************************************************)
(* What ds-executor promises about render jobs, without its semaphores,    *)
(* budget or deadlines: at most Slots jobs run and at most QueueCapacity   *)
(* wait, a running job that waits without its slot counts among the        *)
(* waiting, and no job is shed once it has run.                            *)
(***************************************************************************)
EXTENDS Integers, FiniteSets

CONSTANTS Jobs, Slots, QueueCapacity

VARIABLES
  running,   \* jobs with a render slot
  queued,    \* jobs waiting for admission
  parked,    \* jobs that gave up their slot to wait for another job's work
  left,      \* jobs that are over
  shed       \* jobs answered "Server busy"

vars == <<running, queued, parked, left, shed>>

Init ==
  /\ running = {} /\ queued = {} /\ parked = {}
  /\ left = {} /\ shed = {}

Outside(j) == j \notin running \cup queued \cup parked \cup left
SlotFree == Cardinality(running) < Slots
PlaceFree == Cardinality(queued \cup parked) < QueueCapacity

Enter(j) ==
  /\ Outside(j) /\ SlotFree
  /\ running' = running \cup {j}
  /\ UNCHANGED <<queued, parked, left, shed>>

Queue(j) ==
  /\ Outside(j) /\ PlaceFree
  /\ queued' = queued \cup {j}
  /\ UNCHANGED <<running, parked, left, shed>>

Promote(j) ==
  /\ j \in queued /\ SlotFree
  /\ queued' = queued \ {j}
  /\ running' = running \cup {j}
  /\ UNCHANGED <<parked, left, shed>>

Park(j) ==
  /\ j \in running /\ PlaceFree
  /\ running' = running \ {j}
  /\ parked' = parked \cup {j}
  /\ UNCHANGED <<queued, left, shed>>

Resume(j) ==
  /\ j \in parked /\ SlotFree
  /\ parked' = parked \ {j}
  /\ running' = running \cup {j}
  /\ UNCHANGED <<queued, left, shed>>

Leave(j) ==
  /\ j \in running \cup queued \cup parked
  /\ running' = running \ {j}
  /\ queued' = queued \ {j}
  /\ parked' = parked \ {j}
  /\ left' = left \cup {j}
  /\ UNCHANGED shed

Shed(j) ==
  /\ Outside(j) \/ j \in queued
  /\ queued' = queued \ {j}
  /\ left' = left \cup {j}
  /\ shed' = shed \cup {j}
  /\ UNCHANGED <<running, parked>>

Next ==
  \E j \in Jobs :
    \/ Enter(j) \/ Queue(j) \/ Promote(j) \/ Park(j) \/ Resume(j)
    \/ Leave(j) \/ Shed(j)

Spec == Init /\ [][Next]_vars
=============================================================================
