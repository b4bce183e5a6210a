----------------------- MODULE RenderAdmissionProofs ------------------------
(***************************************************************************)
(* Proofs about RenderAdmission, for every set of jobs, every number of    *)
(* slots and queue places, and every budget.                               *)
(***************************************************************************)
EXTENDS RenderAdmission, FiniteSetTheorems, SequenceTheorems, TLAPS

(* The types no accounting argument is needed for.  TypeOK's upper bounds on
   the free permits, and used >= 0, follow from the accounting invariants. *)
Typed ==
  /\ phase \in [Jobs -> Phases]
  /\ outcome \in [Jobs -> Outcomes]
  /\ expired \subseteq Jobs
  /\ waits \in [Jobs -> 0..MaxWaits]
  /\ used \in Int
  /\ capacity \in Capacities
  /\ releasing \in Nat
  /\ resizing \in BOOLEAN
  /\ resizes \in 0..MaxResizes
  /\ notified \subseteq Jobs
  /\ slots \in Nat
  /\ line \in Seq(Jobs)
  /\ granted \subseteq Jobs
  /\ waiting \in Nat
  /\ count \in [Counters -> Nat]

(* A job that moves to a phase of the module stays typed. *)
LEMMA GotoTyped ==
  ASSUME Typed, NEW j \in Jobs, NEW p \in Phases, Goto(j, p)
  PROVE  phase' \in [Jobs -> Phases]
  BY DEF Typed, Goto

(* The jobs in any set of phases, after one job moves. *)
LEMMA GotoHolders ==
  ASSUME Typed, NEW j \in Jobs, NEW p, Goto(j, p), NEW S
  PROVE  {i \in Jobs : phase'[i] \in S} =
           IF p \in S THEN {i \in Jobs : phase[i] \in S} \cup {j}
                      ELSE {i \in Jobs : phase[i] \in S} \ {j}
  BY DEF Typed, Goto

LEMMA BumpTyped ==
  ASSUME Typed, NEW C, Bump(C)
  PROVE  count' \in [Counters -> Nat]
  BY DEF Typed, Bump

LEMMA AnswerTyped ==
  ASSUME Typed, NEW j \in Jobs, NEW o \in Outcomes, Answer(j, o)
  PROVE  outcome' \in [Jobs -> Outcomes]
  BY DEF Typed, Answer

(* The semaphore's pieces keep its types. *)
LEMMA ReturnSlotTyped ==
  ASSUME Typed, NEW holders \in SUBSET Jobs, ReturnSlot(holders)
  PROVE  slots' \in Nat /\ line' \in Seq(Jobs) /\ granted' \subseteq Jobs
<1>1. line # <<>> => Head(line) \in Jobs /\ Tail(line) \in Seq(Jobs)
  BY HeadTailProperties DEF Typed
<1>2. CASE line = <<>>
  BY <1>2 DEF Typed, ReturnSlot
<1>3. CASE line # <<>>
  BY <1>1, <1>3 DEF Typed, ReturnSlot
<1>. QED
  BY <1>2, <1>3

LEMMA RemoveAtTyped ==
  ASSUME NEW s \in Seq(Jobs), NEW p \in 1..Len(s)
  PROVE  RemoveAt(s, p) \in Seq(Jobs)
  BY DEF RemoveAt

LEMMA AbandonSlotTyped ==
  ASSUME Typed, NEW j \in Jobs, AbandonSlot(j)
  PROVE  slots' \in Nat /\ line' \in Seq(Jobs) /\ granted' \subseteq Jobs
<1>1. CASE j \in granted
  <2>1. ReturnSlot(granted \ {j})
    BY <1>1 DEF AbandonSlot
  <2>. QED
    BY <2>1, ReturnSlotTyped DEF Typed
<1>2. CASE j \notin granted
  BY <1>2, RemoveAtTyped DEF AbandonSlot, Typed
<1>. QED
  BY <1>1, <1>2

LEMMA TakeSlotOrTyped ==
  ASSUME Typed, NEW j \in Jobs, NEW p \in Phases, NEW q \in Phases,
         TakeSlotOr(j, p, q)
  PROVE  /\ slots' \in Nat /\ line' \in Seq(Jobs) /\ granted' \subseteq Jobs
         /\ phase' \in [Jobs -> Phases]
<1>1. Append(line, j) \in Seq(Jobs)
  BY DEF Typed
<1>2. slots \in Nat /\ slots > 0 => slots - 1 \in Nat
  OBVIOUS
<1>. QED
  BY <1>1, <1>2, GotoTyped DEF Typed, TakeSlotOr

(* The two ways of changing the budget a job has. *)
BudgetTyped ==
  /\ used' \in Int /\ capacity' \in Capacities /\ releasing' \in Nat
  /\ resizing' \in BOOLEAN /\ resizes' \in 0..MaxResizes /\ notified' \subseteq Jobs

LEMMA ReserveTyped ==
  ASSUME Typed, NEW j \in Jobs, Reserve(j)
  PROVE  BudgetTyped
  BY ConstantsAssumption DEF Typed, Reserve, BudgetTyped

LEMMA DropReservationTyped ==
  ASSUME Typed, NEW j \in Jobs, DropReservation(j)
  PROVE  BudgetTyped
  BY ConstantsAssumption DEF Typed, DropReservation, BudgetTyped

LEMMA BudgetUnchangedTyped ==
  ASSUME Typed, UNCHANGED budget
  PROVE  BudgetTyped
  BY DEF Typed, budget, BudgetTyped

LEMMA LeaveQueueTyped ==
  ASSUME Typed, NEW j \in Jobs, LeaveQueue(j)
  PROVE  /\ BudgetTyped /\ waiting' \in Nat /\ UNCHANGED <<expired, waits>>
         /\ slots' \in Nat /\ line' \in Seq(Jobs) /\ granted' \subseteq Jobs
         /\ phase' \in [Jobs -> Phases]
<1>1. /\ waiting' \in Nat /\ UNCHANGED <<expired, waits>>
      /\ phase' \in [Jobs -> Phases]
  BY GotoTyped DEF LeaveQueue, Typed, Phases
<1>2. CASE UNCHANGED <<budget, slotState>>
  BY <1>1, <1>2, BudgetUnchangedTyped DEF slotState, Typed
<1>3. CASE DropReservation(j) /\ AbandonSlot(j)
  BY <1>1, <1>3, DropReservationTyped, AbandonSlotTyped
<1>. QED
  BY <1>2, <1>3 DEF LeaveQueue

(* What a job's own step does keeps the types. *)
LEMMA JobTyped ==
  ASSUME Typed, NEW j \in Jobs, Progress(j) \/ Environment(j)
  PROVE  Typed'
<1>. USE DEF budget, slotState
<1>a. /\ SlotPhases \subseteq Phases /\ PlacePhases \subseteq Phases
      /\ MemoryPhases \subseteq Phases
      /\ {"new", "fast", "place", "done"} \subseteq Phases
  BY DEF Phases
<1>b. \A o \in {"none", "served", "busy", "timeout", "gone"} : o \in Outcomes
  BY DEF Outcomes
<1>1. CASE Arrive(j)
  BY <1>1, <1>a, <1>b, GotoTyped, AnswerTyped, BumpTyped
  DEF Typed, Arrive, MemoryPhases
<1>2. CASE FastReserve(j)
  BY <1>2, <1>a, <1>b, GotoTyped, ReserveTyped
  DEF Typed, FastReserve, MemoryPhases, BudgetTyped
<1>3. CASE FastSlot(j)
  BY <1>3, <1>a, <1>b, GotoTyped, DropReservationTyped
  DEF Typed, FastSlot, SlotPhases, BudgetTyped
<1>4. CASE TakePlace(j)
  BY <1>4, <1>a, <1>b, GotoTyped, AnswerTyped, BumpTyped
  DEF Typed, TakePlace, PlacePhases
<1>5. CASE Register(j)
  BY <1>5, <1>a, <1>b, GotoTyped
  DEF Typed, Register, PlacePhases
<1>6. CASE CheckFits(j)
  BY <1>6, <1>a, <1>b, GotoTyped, AnswerTyped, BumpTyped
  DEF Typed, CheckFits, PlacePhases
<1>7. CASE TryReserve(j)
  BY <1>7, <1>a, <1>b, GotoTyped, ReserveTyped
  DEF Typed, TryReserve, PlacePhases, BudgetTyped
<1>8. CASE Wake(j)
  BY <1>8, <1>a, <1>b, GotoTyped
  DEF Typed, Wake, PlacePhases
<1>9. CASE AskSlot(j)
  BY <1>9, <1>a, <1>b, TakeSlotOrTyped
  DEF Typed, AskSlot, PlacePhases
<1>10. CASE Granted(j)
  BY <1>10, <1>a, <1>b, GotoTyped
  DEF Typed, Granted, PlacePhases
<1>11. CASE DropPlace(j)
  BY <1>11, <1>a, <1>b, GotoTyped
  DEF Typed, DropPlace, SlotPhases
<1>12. CASE Start(j)
  BY <1>12, <1>a, <1>b, GotoTyped, DropReservationTyped, ReturnSlotTyped
  DEF Typed, Start, SlotPhases, BudgetTyped
<1>13. CASE GiveSlot(j)
  BY <1>13, <1>a, <1>b, GotoTyped, ReturnSlotTyped
  DEF Typed, GiveSlot, PlacePhases
<1>14. CASE EndWait(j)
  BY <1>14, <1>a, <1>b, GotoTyped, TakeSlotOrTyped
  DEF Typed, EndWait, SlotPhases, PlacePhases
<1>15. CASE Finish(j)
  BY <1>15, <1>a, <1>b, GotoTyped, DropReservationTyped, ReturnSlotTyped
  DEF Typed, Finish, BudgetTyped
<1>16. CASE Deliver(j)
  BY <1>16, <1>a, <1>b, AnswerTyped, BumpTyped
  DEF Typed, Deliver
<1>17. CASE Expire(j)
  BY <1>17, <1>a, <1>b
  DEF Typed, Expire
<1>18. CASE BeginWait(j) /\ CountWait(j)
  BY <1>18, <1>a, <1>b, GotoTyped, ConstantsAssumption
  DEF Typed, SlotPhases, BeginWait, CountWait
<1>19. CASE QueueTimeout(j)
  <2>1. count' \in [Counters -> Nat] /\ outcome' \in [Jobs -> Outcomes]
    BY <1>19, <1>b, AnswerTyped, BumpTyped DEF QueueTimeout
  <2>2. LeaveQueue(j)
    BY <1>19 DEF QueueTimeout
  <2>. QED
    BY <2>1, <2>2, LeaveQueueTyped DEF Typed, BudgetTyped
<1>20. CASE RetakeTimeout(j)
  BY <1>20, <1>a, <1>b, GotoTyped, AbandonSlotTyped
  DEF Typed, RetakeTimeout, MemoryPhases
<1>21. CASE DisconnectQueued(j)
  <2>1. count' = count /\ outcome' \in [Jobs -> Outcomes]
    BY <1>21, <1>b, AnswerTyped DEF DisconnectQueued
  <2>2. LeaveQueue(j)
    BY <1>21 DEF DisconnectQueued
  <2>. QED
    BY <2>1, <2>2, LeaveQueueTyped DEF Typed, BudgetTyped
<1>22. CASE DisconnectRunning(j)
  BY <1>22, <1>a, <1>b, AnswerTyped
  DEF Typed, DisconnectRunning
<1>. QED
  BY <1>1, <1>2, <1>3, <1>4, <1>5, <1>6, <1>7, <1>8, <1>9, <1>10, <1>11, <1>12, <1>13, <1>14, <1>15, <1>16, <1>17, <1>18, <1>19, <1>20, <1>21, <1>22
  DEF Progress, Environment

LEMMA NextTyped ==
  ASSUME Typed, [Next]_vars
  PROVE  Typed'
<1>1. CASE \E j \in Jobs : Progress(j) \/ Environment(j)
  BY <1>1, JobTyped
<1>2. CASE \E c \in Capacities : Resize(c)
  BY <1>2, ConstantsAssumption DEF Resize, Typed, slotState
<1>3. CASE NotifyWaiters
  <2>1. notified' \subseteq Jobs
    BY <1>3 DEF NotifyWaiters, Registered, Typed
  <2>2. releasing' \in Nat
    BY <1>3 DEF NotifyWaiters, Typed
  <2>3. resizing' \in BOOLEAN
    BY <1>3, Zenon DEF NotifyWaiters, Typed
  <2>4. UNCHANGED <<phase, outcome, expired, waits, used, capacity, resizes,
                    slots, line, granted, waiting, count>>
    BY <1>3 DEF NotifyWaiters, slotState
  <2>. QED
    BY <2>1, <2>2, <2>3, <2>4 DEF Typed
<1>4. CASE Quiescent \/ UNCHANGED vars
  BY <1>4 DEF Quiescent, vars, budget, slotState, Typed
<1>. QED
  BY <1>1, <1>2, <1>3, <1>4 DEF Next

LEMMA InitTyped == Init => Typed
<1>1. <<>> \in Seq(Jobs)
  OBVIOUS
<1>2. Slots \in Nat /\ QueueCapacity \in Nat /\ MaxWaits \in Nat /\ MaxResizes \in Nat
  BY ConstantsAssumption
<1>. SUFFICES ASSUME Init PROVE Typed
  OBVIOUS
<1>3. /\ phase \in [Jobs -> Phases] /\ outcome \in [Jobs -> Outcomes]
      /\ waits \in [Jobs -> 0..MaxWaits] /\ count \in [Counters -> Nat]
  BY <1>2 DEF Init, Phases, Outcomes
<1>4. resizing \in BOOLEAN /\ capacity \in Capacities
  BY Zenon DEF Init
<1>5. /\ resizes \in 0..MaxResizes /\ used \in Int /\ releasing \in Nat
      /\ slots \in Nat /\ waiting \in Nat
  BY <1>2 DEF Init
<1>. QED
  BY <1>1, <1>3, <1>4, <1>5 DEF Init, Typed

(* Every state of every behaviour is typed, the accounting bounds aside. *)
THEOREM AlwaysTyped == Spec => []Typed
  BY InitTyped, NextTyped, PTL DEF Spec

-----------------------------------------------------------------------------
(* The queue places. *)

LEMMA FiniteHolders ==
  ASSUME NEW S
  PROVE  IsFiniteSet({j \in Jobs : phase[j] \in S})
  BY FS_Subset, ConstantsAssumption

(* A job's move keeps the balance if the free places change with it. *)
LEMMA PlacesMove ==
  ASSUME Typed, PlacesAccounted, NEW j \in Jobs, NEW p, Goto(j, p),
         \/ phase[j] \notin PlacePhases /\ p \notin PlacePhases /\ waiting' = waiting
         \/ phase[j] \in PlacePhases /\ p \in PlacePhases /\ waiting' = waiting
         \/ phase[j] \notin PlacePhases /\ p \in PlacePhases /\ waiting' = waiting - 1
         \/ phase[j] \in PlacePhases /\ p \notin PlacePhases /\ waiting' = waiting + 1
  PROVE  PlacesAccounted'
<1>1. PlaceHolders' = IF p \in PlacePhases THEN PlaceHolders \cup {j}
                                           ELSE PlaceHolders \ {j}
  BY GotoHolders DEF PlaceHolders
<1>2. j \in PlaceHolders <=> phase[j] \in PlacePhases
  BY DEF PlaceHolders
<1>3. IsFiniteSet(PlaceHolders) /\ Cardinality(PlaceHolders) \in Nat
  BY FiniteHolders, FS_CardinalityType DEF PlaceHolders
<1>4. Cardinality(PlaceHolders') =
        IF p \in PlacePhases
        THEN IF j \in PlaceHolders THEN Cardinality(PlaceHolders)
                                   ELSE Cardinality(PlaceHolders) + 1
        ELSE IF j \in PlaceHolders THEN Cardinality(PlaceHolders) - 1
                                   ELSE Cardinality(PlaceHolders)
  BY <1>1, <1>3, FS_AddElement, FS_RemoveElement
<1>. QED
  BY <1>2, <1>3, <1>4, ConstantsAssumption DEF PlacesAccounted, Typed

(* ... and so does a step that moves no job. *)
LEMMA PlacesStay ==
  ASSUME PlacesAccounted, UNCHANGED <<phase, waiting>>
  PROVE  PlacesAccounted'
  BY DEF PlacesAccounted, PlaceHolders

LEMMA JobPlaces ==
  ASSUME Typed, PlacesAccounted, NEW j \in Jobs, Progress(j) \/ Environment(j)
  PROVE  PlacesAccounted'
<1>1. CASE Arrive(j)
  BY <1>1, PlacesMove DEF Arrive, PlacePhases
<1>2. CASE FastReserve(j)
  BY <1>2, PlacesMove DEF FastReserve, PlacePhases
<1>3. CASE FastSlot(j)
  BY <1>3, PlacesMove DEF FastSlot, PlacePhases
<1>4. CASE TakePlace(j)
  BY <1>4, PlacesMove DEF TakePlace, PlacePhases
<1>5. CASE Register(j)
  BY <1>5, PlacesMove DEF Register, PlacePhases
<1>6. CASE CheckFits(j)
  BY <1>6, PlacesMove DEF CheckFits, PlacePhases
<1>7. CASE TryReserve(j)
  BY <1>7, PlacesMove DEF TryReserve, PlacePhases
<1>8. CASE Wake(j)
  BY <1>8, PlacesMove DEF Wake, PlacePhases
<1>9. CASE AskSlot(j)
  BY <1>9, PlacesMove DEF AskSlot, PlacePhases, TakeSlotOr
<1>10. CASE Granted(j)
  BY <1>10, PlacesMove DEF Granted, PlacePhases
<1>11. CASE DropPlace(j)
  BY <1>11, PlacesMove DEF DropPlace, PlacePhases
<1>12. CASE Start(j)
  BY <1>12, PlacesMove DEF Start, PlacePhases
<1>13. CASE GiveSlot(j)
  BY <1>13, PlacesMove DEF GiveSlot, PlacePhases
<1>14. CASE EndWait(j)
  BY <1>14, PlacesMove DEF EndWait, PlacePhases, TakeSlotOr
<1>15. CASE Finish(j)
  BY <1>15, PlacesMove DEF Finish, PlacePhases
<1>16. CASE Deliver(j)
  BY <1>16, PlacesStay DEF Deliver
<1>17. CASE Expire(j)
  BY <1>17, PlacesStay DEF Expire
<1>18. CASE BeginWait(j) /\ CountWait(j)
  BY <1>18, PlacesMove DEF BeginWait, CountWait, PlacePhases
<1>19. CASE QueueTimeout(j)
  BY <1>19, PlacesMove DEF QueueTimeout, PlacePhases, LeaveQueue
<1>20. CASE RetakeTimeout(j)
  BY <1>20, PlacesMove DEF RetakeTimeout, PlacePhases
<1>21. CASE DisconnectQueued(j)
  BY <1>21, PlacesMove DEF DisconnectQueued, PlacePhases, LeaveQueue
<1>22. CASE DisconnectRunning(j)
  BY <1>22, PlacesStay DEF DisconnectRunning
<1>. QED
  BY <1>1, <1>2, <1>3, <1>4, <1>5, <1>6, <1>7, <1>8, <1>9, <1>10, <1>11, <1>12, <1>13, <1>14, <1>15, <1>16, <1>17, <1>18, <1>19, <1>20, <1>21, <1>22
  DEF Progress, Environment

LEMMA NextPlaces ==
  ASSUME Typed, PlacesAccounted, [Next]_vars
  PROVE  PlacesAccounted'
<1>1. CASE \E j \in Jobs : Progress(j) \/ Environment(j)
  BY <1>1, JobPlaces
<1>2. CASE \E c \in Capacities : Resize(c)
  BY <1>2, PlacesStay DEF Resize
<1>3. CASE NotifyWaiters
  BY <1>3, PlacesStay DEF NotifyWaiters
<1>4. CASE Quiescent \/ UNCHANGED vars
  BY <1>4, PlacesStay DEF Quiescent, vars
<1>. QED
  BY <1>1, <1>2, <1>3, <1>4 DEF Next

LEMMA InitPlaces == Init => PlacesAccounted
<1>. SUFFICES ASSUME Init PROVE PlacesAccounted
  OBVIOUS
<1>1. PlaceHolders = {}
  BY DEF Init, PlaceHolders, PlacePhases
<1>. QED
  BY <1>1, FS_EmptySet, ConstantsAssumption DEF Init, PlacesAccounted

(* Every queue place is free or held by one waiting job, always. *)
THEOREM PlacesAlwaysAccounted == Spec => []PlacesAccounted
  BY AlwaysTyped, InitPlaces, NextPlaces, PTL DEF Spec

-----------------------------------------------------------------------------
(* The line of the semaphore. *)

Elems(s) == {s[p] : p \in 1..Len(s)}
Distinct(s) == \A p, q \in 1..Len(s) : s[p] = s[q] => p = q

LEMMA AppendElems ==
  ASSUME NEW s \in Seq(Jobs), NEW j \in Jobs, Distinct(s), j \notin Elems(s)
  PROVE  Elems(Append(s, j)) = Elems(s) \cup {j} /\ Distinct(Append(s, j))
<1>. DEFINE t == Append(s, j)
<1>1. /\ Len(s) \in Nat /\ Len(t) = Len(s) + 1
      /\ \A p \in 1..Len(s) : t[p] = s[p]
      /\ t[Len(s) + 1] = j
  OBVIOUS
<1>. HIDE DEF t
<1>2. Elems(t) = Elems(s) \cup {j}
  BY <1>1 DEF Elems
<1>3. Distinct(t)
  BY <1>1 DEF Distinct, Elems
<1>. QED
  BY <1>2, <1>3 DEF t

LEMMA TailElems ==
  ASSUME NEW s \in Seq(Jobs), Distinct(s), s # <<>>
  PROVE  /\ Elems(Tail(s)) = Elems(s) \ {Head(s)} /\ Distinct(Tail(s))
         /\ Head(s) \in Elems(s) /\ Tail(s) \in Seq(Jobs) /\ Head(s) \in Jobs
<1>. DEFINE t == Tail(s)
<1>1. /\ Len(s) \in Nat \ {0} /\ Len(t) = Len(s) - 1
      /\ \A p \in 1..Len(t) : t[p] = s[p + 1]
      /\ t \in Seq(Jobs) /\ Head(s) \in Jobs
  BY HeadTailProperties, EmptySeq
<1>2. Head(s) = s[1]
  OBVIOUS
<1>. HIDE DEF t
<1>3. Distinct(t)
  BY <1>1 DEF Distinct
<1>4. ASSUME NEW p \in 1..Len(s), p # 1
      PROVE  s[p] \in Elems(t) /\ s[p] # s[1]
  <2>1. p - 1 \in 1..Len(t) /\ t[p - 1] = s[p]
    BY <1>1, <1>4
  <2>. QED
    BY <1>1, <1>4, <2>1 DEF Elems, Distinct
<1>5. ASSUME NEW p \in 1..Len(t)
      PROVE  t[p] \in Elems(s) /\ t[p] # s[1]
  <2>1. p + 1 \in 1..Len(s) /\ 1 \in 1..Len(s) /\ p + 1 # 1
    BY <1>1
  <2>. QED
    BY <1>1, <2>1 DEF Elems, Distinct
<1>6. s[1] \in Elems(s)
  BY <1>1 DEF Elems
<1>7. Elems(t) = Elems(s) \ {s[1]}
  BY <1>4, <1>5 DEF Elems
<1>. QED
  BY <1>1, <1>2, <1>3, <1>6, <1>7 DEF t

LEMMA RemoveAtElems ==
  ASSUME NEW s \in Seq(Jobs), Distinct(s), NEW n \in 1..Len(s)
  PROVE  /\ Elems(RemoveAt(s, n)) = Elems(s) \ {s[n]}
         /\ Distinct(RemoveAt(s, n))
<1>. DEFINE t == RemoveAt(s, n)
            before == SubSeq(s, 1, n - 1)
            after == SubSeq(s, n + 1, Len(s))
<1>a. Len(s) \in Nat /\ n \in Nat /\ \A p \in 1..Len(s) : s[p] \in Jobs
  OBVIOUS
<1>b. /\ before \in Seq(Jobs)
      /\ Len(before) = n - 1
      /\ \A p \in 1..(n - 1) : before[p] = s[p]
  BY <1>a, SubSeqProperties
<1>c. /\ after \in Seq(Jobs)
      /\ Len(after) = Len(s) - n
      /\ \A p \in 1..(Len(s) - n) : after[p] = s[n + p]
  BY <1>a, SubSeqProperties
<1>d. t = before \o after
  BY DEF RemoveAt
<1>. HIDE DEF t, before, after
<1>1. /\ Len(s) \in Nat /\ n \in Nat
      /\ Len(t) = Len(s) - 1
      /\ \A p \in 1..Len(t) : t[p] = IF p < n THEN s[p] ELSE s[p + 1]
  <2>1. /\ Len(t) = (n - 1) + (Len(s) - n)
        /\ \A p \in 1..((n - 1) + (Len(s) - n)) :
              t[p] = IF p <= n - 1 THEN before[p]
                     ELSE after[p - (n - 1)]
    <3>1. before \in Seq(Jobs) /\ after \in Seq(Jobs)
      BY <1>b, <1>c
    <3>2. /\ Len(before \o after) = Len(before) + Len(after)
          /\ \A i \in 1..(Len(before) + Len(after)) : (before \o after)[i] =
                IF i <= Len(before) THEN before[i] ELSE after[i - Len(before)]
      BY <3>1, ConcatProperties, Zenon
    <3>. QED
      BY <1>b, <1>c, <1>d, <3>2
  <2>2. Len(t) = Len(s) - 1
    BY <1>a, <2>1
  <2>3. ASSUME NEW p \in 1..Len(t), p < n
        PROVE  t[p] = s[p]
    <3>1. t[p] = before[p]
      BY <1>a, <2>1, <2>2, <2>3
    <3>2. p \in 1..(n - 1)
      BY <1>a, <2>2, <2>3
    <3>. QED
      BY <1>b, <3>1, <3>2
  <2>4. ASSUME NEW p \in 1..Len(t), ~(p < n)
        PROVE  t[p] = s[p + 1]
    <3>1. t[p] = after[p - (n - 1)]
      BY <1>a, <2>1, <2>2, <2>4
    <3>2. p - (n - 1) \in 1..(Len(s) - n) /\ n + (p - (n - 1)) = p + 1
      BY <1>a, <2>2, <2>4
    <3>. QED
      BY <1>c, <3>1, <3>2
  <2>. QED
    BY <1>a, <2>2, <2>3, <2>4
<1>2. Distinct(t)
  <2>. SUFFICES ASSUME NEW p \in 1..Len(t), NEW q \in 1..Len(t), t[p] = t[q]
                PROVE  p = q
    BY DEF Distinct
  <2>. QED
    BY <1>1 DEF Distinct
<1>3. ASSUME NEW p \in 1..Len(s), p # n
      PROVE  s[p] \in Elems(t) /\ s[p] # s[n]
  <2>1. CASE p < n
    <3>. p \in 1..Len(t) /\ t[p] = s[p]
      BY <1>1, <2>1
    <3>. QED
      BY <1>3 DEF Elems, Distinct
  <2>2. CASE p > n
    <3>. p - 1 \in 1..Len(t) /\ t[p - 1] = s[p]
      BY <1>1, <2>2
    <3>. QED
      BY <1>3 DEF Elems, Distinct
  <2>. QED
    BY <1>1, <1>3, <2>1, <2>2
<1>4. ASSUME NEW p \in 1..Len(t)
      PROVE  t[p] \in Elems(s) /\ t[p] # s[n]
  <2>1. CASE p < n
    <3>. p \in 1..Len(s) /\ t[p] = s[p] /\ p # n
      BY <1>1, <2>1
    <3>. QED
      BY DEF Elems, Distinct
  <2>2. CASE p >= n
    <3>. p + 1 \in 1..Len(s) /\ t[p] = s[p + 1] /\ p + 1 # n
      BY <1>1, <2>2
    <3>. QED
      BY DEF Elems, Distinct
  <2>. QED
    BY <1>1, <2>1, <2>2
<1>5. Elems(t) = Elems(s) \ {s[n]}
  BY <1>3, <1>4 DEF Elems
<1>. QED
  BY <1>2, <1>5 DEF t

-----------------------------------------------------------------------------
(* The slots.  `Permits` is what the semaphore still has: free permits, and
   permits handed to jobs that have not polled them. *)

QueueingPhases == {"queued", "retake"}
Queueing == {j \in Jobs : phase[j] \in QueueingPhases}
Workers == {j \in Jobs : phase[j] \in SlotPhases}
InSemaphore == Elems(line) \cup granted
Permits == slots + Cardinality(granted)

(* The invariant in these terms: the jobs of SlotHolders counted apart. *)
SlotBalance == Permits + Cardinality(Workers) = Slots

(* What a step leaves: a well-formed line and hand-over, of the jobs W. *)
SemaphoreNext(W) ==
  /\ Distinct(line')
  /\ Elems(line') \cup granted' = W
  /\ Elems(line') \cap granted' = {}
  /\ slots' > 0 => line' = <<>>

LEMMA LineForm ==
  LineAccounted <=> /\ Distinct(line)
                    /\ InSemaphore = Queueing
                    /\ Elems(line) \cap granted = {}
                    /\ slots > 0 => line = <<>>
<1>1. (\A p \in 1..Len(line) : line[p] \notin granted) <=> Elems(line) \cap granted = {}
  BY DEF Elems
<1>. QED
  BY <1>1 DEF LineAccounted, Distinct, InSemaphore, Queueing, QueueingPhases, Elems

LEMMA LineFormNext ==
  ASSUME SemaphoreNext(Queueing')
  PROVE  LineAccounted'
<1>1. (\A p \in 1..Len(line') : line'[p] \notin granted') <=> Elems(line') \cap granted' = {}
  BY DEF Elems
<1>. QED
  BY <1>1 DEF LineAccounted, SemaphoreNext, Distinct, Queueing, QueueingPhases, Elems

LEMMA FiniteGranted ==
  ASSUME Typed
  PROVE  /\ IsFiniteSet(granted) /\ Cardinality(granted) \in Nat
         /\ IsFiniteSet(Workers) /\ Cardinality(Workers) \in Nat
  BY FS_Subset, FS_CardinalityType, FiniteHolders, ConstantsAssumption DEF Typed, Workers

(* Slots and semaphore after a job's move, if the permits balance it. *)
LEMMA SlotsMove ==
  ASSUME Typed, LineAccounted, SlotBalance, NEW j \in Jobs, NEW p, Goto(j, p),
         NEW W, SemaphoreNext(W),
         \/ p \in QueueingPhases /\ W = InSemaphore \cup {j}
         \/ p \notin QueueingPhases /\ W = InSemaphore \ {j},
         \/ phase[j] \in SlotPhases /\ p \in SlotPhases /\ Permits' = Permits
         \/ phase[j] \notin SlotPhases /\ p \notin SlotPhases /\ Permits' = Permits
         \/ phase[j] \in SlotPhases /\ p \notin SlotPhases /\ Permits' = Permits + 1
         \/ phase[j] \notin SlotPhases /\ p \in SlotPhases /\ Permits' = Permits - 1
  PROVE  LineAccounted' /\ SlotBalance'
<1>1. Queueing' = IF p \in QueueingPhases THEN Queueing \cup {j} ELSE Queueing \ {j}
  BY GotoHolders DEF Queueing
<1>2. SemaphoreNext(Queueing')
  <2>1. W = Queueing'
    BY <1>1, LineForm
  <2>. QED
    BY <2>1
<1>3. Workers' = IF p \in SlotPhases THEN Workers \cup {j} ELSE Workers \ {j}
  BY GotoHolders DEF Workers
<1>4. j \in Workers <=> phase[j] \in SlotPhases
  BY DEF Workers
<1>5. Cardinality(Workers') =
        IF p \in SlotPhases
        THEN IF j \in Workers THEN Cardinality(Workers) ELSE Cardinality(Workers) + 1
        ELSE IF j \in Workers THEN Cardinality(Workers) - 1 ELSE Cardinality(Workers)
  BY <1>3, FiniteGranted, FS_AddElement, FS_RemoveElement
<1>6. Permits \in Nat /\ Cardinality(Workers) \in Nat
  BY FiniteGranted DEF Permits, Typed
<1>7. SlotBalance'
  BY <1>4, <1>5, <1>6, ConstantsAssumption DEF SlotBalance
<1>. QED
  BY <1>2, <1>7, LineFormNext

(* ReturnSlot puts one permit back, whoever else still holds one handed over. *)
LEMMA ReturnSlotMove ==
  ASSUME Typed, LineAccounted, NEW holders \in SUBSET granted, ReturnSlot(holders)
  PROVE  /\ SemaphoreNext(Elems(line) \cup holders)
         /\ Permits' = slots + Cardinality(holders) + 1
<1>1. /\ IsFiniteSet(holders) /\ Cardinality(holders) \in Nat /\ slots \in Nat
      /\ line \in Seq(Jobs)
  BY FiniteGranted, FS_Subset, FS_CardinalityType DEF Typed
<1>2. /\ Distinct(line) /\ Elems(line) \cap granted = {}
      /\ slots > 0 => line = <<>>
  BY LineForm
<1>3. CASE line = <<>>
  <2>1. slots' = slots + 1 /\ granted' = holders /\ line' = line
    BY <1>3 DEF ReturnSlot
  <2>2. Elems(line') \cap granted' = {}
    BY <1>2, <2>1
  <2>. QED
    BY <1>1, <1>2, <1>3, <2>1, <2>2 DEF SemaphoreNext, Permits
<1>4. CASE line # <<>>
  <2>1. granted' = holders \cup {Head(line)} /\ line' = Tail(line) /\ slots' = slots
    BY <1>4 DEF ReturnSlot
  <2>2. /\ Elems(line') = Elems(line) \ {Head(line)} /\ Distinct(line')
        /\ Head(line) \in Elems(line)
    BY <1>1, <1>2, <1>4, <2>1, TailElems
  <2>3. Head(line) \notin holders /\ Elems(line') \cap granted' = {}
    BY <1>2, <2>1, <2>2
  <2>4. Elems(line') \cup granted' = Elems(line) \cup holders
    BY <2>1, <2>2
  <2>5. Cardinality(granted') = Cardinality(holders) + 1
    BY <1>1, <2>1, <2>3, FS_AddElement
  <2>6. ~(slots' > 0)
    BY <1>1, <1>2, <1>4, <2>1
  <2>. QED
    BY <1>1, <2>1, <2>2, <2>3, <2>4, <2>5, <2>6 DEF SemaphoreNext, Permits
<1>. QED
  BY <1>3, <1>4

(* An abandoned acquire takes nothing and leaves nothing. *)
LEMMA AbandonSlotMove ==
  ASSUME Typed, LineAccounted, NEW j \in Jobs, AbandonSlot(j)
  PROVE  SemaphoreNext(InSemaphore \ {j}) /\ Permits' = Permits
<1>1. /\ Distinct(line) /\ Elems(line) \cap granted = {} /\ line \in Seq(Jobs)
      /\ slots > 0 => line = <<>>
  BY LineForm DEF Typed
<1>2. CASE j \in granted
  <2>1. ReturnSlot(granted \ {j})
    BY <1>2 DEF AbandonSlot
  <2>2. /\ SemaphoreNext(Elems(line) \cup (granted \ {j}))
        /\ Permits' = slots + Cardinality(granted \ {j}) + 1
    BY <2>1, ReturnSlotMove
  <2>3. Elems(line) \cup (granted \ {j}) = InSemaphore \ {j}
    BY <1>1, <1>2 DEF InSemaphore
  <2>4. Cardinality(granted \ {j}) = Cardinality(granted) - 1
    BY <1>2, FiniteGranted, FS_RemoveElement
  <2>. QED
    <3>1. SemaphoreNext(InSemaphore \ {j})
      BY <2>2, <2>3
    <3>2. slots + (Cardinality(granted) - 1) + 1 = Permits
      BY FiniteGranted DEF Permits, Typed
    <3>. QED
      BY <2>2, <2>4, <3>1, <3>2
<1>3. CASE j \notin granted
  <2>1. PICK n \in 1..Len(line) : line[n] = j /\ line' = RemoveAt(line, n)
    BY <1>3 DEF AbandonSlot
  <2>2. slots' = slots /\ granted' = granted
    BY <1>3 DEF AbandonSlot
  <2>3. Elems(line') = Elems(line) \ {j} /\ Distinct(line')
    BY <1>1, <2>1, RemoveAtElems
  <2>4. line # <<>>
    BY <1>1, <2>1
  <2>5. ~(slots' > 0)
    BY <1>1, <2>2, <2>4
  <2>6. /\ Elems(line') \cup granted' = InSemaphore \ {j}
        /\ Elems(line') \cap granted' = {}
    BY <1>1, <1>3, <2>2, <2>3 DEF InSemaphore
  <2>. QED
    BY <2>2, <2>3, <2>5, <2>6 DEF SemaphoreNext, Permits
<1>. QED
  BY <1>2, <1>3

(* The first poll takes a permit or joins the line. *)
LEMMA TakeSlotOrMove ==
  ASSUME Typed, LineAccounted, NEW j \in Jobs, j \notin InSemaphore,
         NEW taken, NEW queued, TakeSlotOr(j, taken, queued)
  PROVE  \/ /\ Goto(j, taken)
            /\ SemaphoreNext(InSemaphore) /\ Permits' = Permits - 1
         \/ /\ Goto(j, queued)
            /\ SemaphoreNext(InSemaphore \cup {j}) /\ Permits' = Permits
<1>1. /\ Distinct(line) /\ Elems(line) \cap granted = {} /\ line \in Seq(Jobs)
      /\ slots > 0 => line = <<>>
      /\ slots \in Nat
  BY LineForm DEF Typed
<1>2. CASE slots > 0
  <2>1. slots' = slots - 1 /\ Goto(j, taken) /\ line' = line /\ granted' = granted
    BY <1>1, <1>2 DEF TakeSlotOr
  <2>. QED
    BY <1>1, <1>2, <2>1, FiniteGranted DEF SemaphoreNext, Permits, InSemaphore
<1>3. CASE ~(slots > 0)
  <2>1. line' = Append(line, j) /\ Goto(j, queued) /\ slots' = slots /\ granted' = granted
    BY <1>1, <1>3 DEF TakeSlotOr
  <2>2. Elems(line') = Elems(line) \cup {j} /\ Distinct(line')
    BY <1>1, <2>1, AppendElems DEF InSemaphore
  <2>3. /\ Elems(line') \cup granted' = InSemaphore \cup {j}
        /\ Elems(line') \cap granted' = {}
    BY <1>1, <2>1, <2>2 DEF InSemaphore
  <2>. QED
    BY <1>3, <2>1, <2>2, <2>3 DEF SemaphoreNext, Permits
<1>. QED
  BY <1>2, <1>3

(* A step that leaves the semaphore alone. *)
LEMMA SemaphoreStays ==
  ASSUME LineAccounted, UNCHANGED slotState
  PROVE  SemaphoreNext(InSemaphore) /\ Permits' = Permits
  BY LineForm DEF slotState, SemaphoreNext, InSemaphore, Permits

LEMMA SlotsStay ==
  ASSUME LineAccounted, SlotBalance, UNCHANGED <<phase, slotState>>
  PROVE  LineAccounted' /\ SlotBalance'
  BY DEF LineAccounted, SlotBalance, Permits, Workers, slotState

LEMMA JobSlots ==
  ASSUME Typed, LineAccounted, SlotBalance, NEW j \in Jobs,
         Progress(j) \/ Environment(j)
  PROVE  LineAccounted' /\ SlotBalance'
<1>. USE DEF QueueingPhases
<1>a. /\ InSemaphore = Queueing /\ granted \subseteq InSemaphore
      /\ Permits \in Nat /\ granted \in SUBSET granted
  BY LineForm, FiniteGranted DEF InSemaphore, Permits, Typed
<1>b. j \in InSemaphore <=> phase[j] \in QueueingPhases
  BY <1>a DEF Queueing
<1>c. ASSUME ReturnSlot(granted)
      PROVE  SemaphoreNext(InSemaphore) /\ Permits' = Permits + 1
  BY <1>a, <1>c, ReturnSlotMove DEF InSemaphore, Permits
<1>d. j \notin InSemaphore => InSemaphore \ {j} = InSemaphore
  OBVIOUS
(* A move between phases outside the semaphore that leaves it alone. *)
<1>e. ASSUME NEW p, Goto(j, p), UNCHANGED slotState,
             p \notin QueueingPhases, phase[j] \notin QueueingPhases,
             p \in SlotPhases <=> phase[j] \in SlotPhases
      PROVE  LineAccounted' /\ SlotBalance'
  <2>1. SemaphoreNext(InSemaphore \ {j}) /\ Permits' = Permits
    BY <1>b, <1>d, <1>e, SemaphoreStays
  <2>. QED
    BY <1>a, <1>e, <2>1, SlotsMove
<1>f. ASSUME LeaveQueue(j)
      PROVE  LineAccounted' /\ SlotBalance'
  <2>1. CASE phase[j] = "asleep" /\ Goto(j, "done") /\ UNCHANGED slotState
    BY <1>e, <2>1 DEF SlotPhases
  <2>2. CASE phase[j] = "queued" /\ Goto(j, "done") /\ AbandonSlot(j)
    <3>1. SemaphoreNext(InSemaphore \ {j}) /\ Permits' = Permits
      BY <2>2, AbandonSlotMove
    <3>. QED
      BY <2>2, <3>1, SlotsMove DEF SlotPhases
  <2>. QED
    BY <1>f, <2>1, <2>2 DEF LeaveQueue
<1>1. CASE Arrive(j)
  BY <1>1, <1>e DEF Arrive, SlotPhases
<1>2. CASE FastReserve(j)
  BY <1>2, <1>e DEF FastReserve, SlotPhases
<1>3. CASE FastSlot(j)
  <2>1. CASE slots > 0
    <3>1. Goto(j, "dispatched") /\ slots' = slots - 1 /\ line' = line /\ granted' = granted
      BY <1>3, <2>1 DEF FastSlot, Typed
    <3>2. Permits' = Permits - 1
      <4>1. Cardinality(granted') = Cardinality(granted)
        BY <3>1
      <4>2. slots \in Nat /\ Cardinality(granted) \in Nat
        BY FiniteGranted DEF Typed
      <4>. QED
        BY <3>1, <4>1, <4>2 DEF Permits
    <3>3. SemaphoreNext(InSemaphore \ {j})
      BY <1>3, <1>b, <1>d, <2>1, <3>1, LineForm DEF SemaphoreNext, InSemaphore, FastSlot, Typed
    <3>. QED
      BY <1>3, <1>a, <3>1, <3>2, <3>3, SlotsMove DEF FastSlot, SlotPhases
  <2>2. CASE ~(slots > 0)
    BY <1>3, <1>e, <2>2 DEF FastSlot, SlotPhases
  <2>. QED
    BY <2>1, <2>2
<1>4. CASE TakePlace(j)
  BY <1>4, <1>e DEF TakePlace, SlotPhases
<1>5. CASE Register(j)
  BY <1>5, <1>e DEF Register, SlotPhases
<1>6. CASE CheckFits(j)
  BY <1>6, <1>e DEF CheckFits, SlotPhases
<1>7. CASE TryReserve(j)
  BY <1>7, <1>e DEF TryReserve, SlotPhases
<1>8. CASE Wake(j)
  BY <1>8, <1>e DEF Wake, SlotPhases
<1>9. CASE AskSlot(j)
  <2>1. j \notin InSemaphore
    BY <1>9, <1>b DEF AskSlot
  <2>2. CASE Goto(j, "admitted") /\ SemaphoreNext(InSemaphore) /\ Permits' = Permits - 1
    BY <1>9, <1>a, <1>d, <2>1, <2>2, SlotsMove DEF AskSlot, SlotPhases
  <2>3. CASE Goto(j, "queued") /\ SemaphoreNext(InSemaphore \cup {j}) /\ Permits' = Permits
    BY <1>9, <1>a, <2>1, <2>3, SlotsMove DEF AskSlot, SlotPhases
  <2>. QED
    BY <1>9, <2>1, <2>2, <2>3, TakeSlotOrMove DEF AskSlot
<1>10. CASE Granted(j)
  <2>1. PICK p \in {"admitted", "resuming"} :
          Goto(j, p) /\ phase[j] \in QueueingPhases
    BY <1>10 DEF Granted
  <2>2. j \in granted /\ granted' = granted \ {j} /\ slots' = slots /\ line' = line
    BY <1>10 DEF Granted
  <2>3. Cardinality(granted') = Cardinality(granted) - 1
    BY <2>2, FiniteGranted, FS_RemoveElement
  <2>4. Permits' = Permits - 1
    BY <2>2, <2>3, FiniteGranted DEF Permits, Typed
  <2>5. SemaphoreNext(InSemaphore \ {j})
    BY <2>2, LineForm DEF SemaphoreNext, InSemaphore
  <2>6. p \in SlotPhases /\ p \notin QueueingPhases /\ phase[j] \notin SlotPhases
    BY <2>1 DEF SlotPhases
  <2>. QED
    BY <1>a, <2>1, <2>4, <2>5, <2>6, SlotsMove
<1>11. CASE DropPlace(j)
  BY <1>11, <1>e DEF DropPlace, SlotPhases
<1>12. CASE Start(j)
  <2>1. phase[j] \in SlotPhases /\ phase[j] \notin QueueingPhases
    BY <1>12 DEF Start, SlotPhases
  <2>2. CASE Goto(j, "running") /\ UNCHANGED slotState
    BY <1>e, <2>1, <2>2 DEF SlotPhases
  <2>3. CASE Goto(j, "done") /\ ReturnSlot(granted)
    BY <1>a, <1>b, <1>c, <1>d, <2>1, <2>3, SlotsMove DEF SlotPhases
  <2>. QED
    BY <1>12, <2>2, <2>3 DEF Start
<1>13. CASE GiveSlot(j)
  <2>1. Goto(j, "parked") /\ ReturnSlot(granted) /\ phase[j] = "parking"
    BY <1>13 DEF GiveSlot
  <2>. QED
    BY <1>a, <1>b, <1>c, <1>d, <2>1, SlotsMove DEF SlotPhases
<1>14. CASE EndWait(j)
  <2>1. CASE phase[j] = "blocked" /\ Goto(j, "running") /\ UNCHANGED slotState
    BY <1>e, <2>1 DEF SlotPhases
  <2>2. CASE phase[j] = "parked" /\ TakeSlotOr(j, "resuming", "retake")
    <3>1. j \notin InSemaphore
      BY <1>b, <2>2
    <3>2. CASE Goto(j, "resuming") /\ SemaphoreNext(InSemaphore) /\ Permits' = Permits - 1
      BY <1>a, <1>d, <2>2, <3>1, <3>2, SlotsMove DEF SlotPhases
    <3>3. CASE Goto(j, "retake") /\ SemaphoreNext(InSemaphore \cup {j}) /\ Permits' = Permits
      BY <1>a, <2>2, <3>1, <3>3, SlotsMove DEF SlotPhases
    <3>. QED
      BY <2>2, <3>1, <3>2, <3>3, TakeSlotOrMove
  <2>. QED
    BY <1>14, <2>1, <2>2 DEF EndWait
<1>15. CASE Finish(j)
  <2>1. CASE phase[j] = "running" /\ Goto(j, "done") /\ ReturnSlot(granted)
    BY <1>a, <1>b, <1>c, <1>d, <2>1, SlotsMove DEF SlotPhases
  <2>2. CASE phase[j] = "slotless" /\ Goto(j, "done") /\ UNCHANGED slotState
    BY <1>e, <2>2 DEF SlotPhases
  <2>. QED
    BY <1>15, <2>1, <2>2 DEF Finish
<1>16. CASE Deliver(j)
  BY <1>16, SlotsStay DEF Deliver
<1>17. CASE Expire(j)
  BY <1>17, SlotsStay DEF Expire
<1>18. CASE BeginWait(j) /\ CountWait(j)
  BY <1>18, <1>e DEF BeginWait, CountWait, SlotPhases
<1>19. CASE QueueTimeout(j)
  BY <1>19, <1>f DEF QueueTimeout
<1>20. CASE RetakeTimeout(j)
  <2>1. Goto(j, "slotless") /\ AbandonSlot(j) /\ phase[j] = "retake"
    BY <1>20 DEF RetakeTimeout
  <2>2. SemaphoreNext(InSemaphore \ {j}) /\ Permits' = Permits
    BY <2>1, AbandonSlotMove
  <2>. QED
    BY <2>1, <2>2, SlotsMove DEF SlotPhases
<1>21. CASE DisconnectQueued(j)
  BY <1>21, <1>f DEF DisconnectQueued
<1>22. CASE DisconnectRunning(j)
  BY <1>22, SlotsStay DEF DisconnectRunning
<1>. QED
  BY <1>1, <1>2, <1>3, <1>4, <1>5, <1>6, <1>7, <1>8, <1>9, <1>10, <1>11, <1>12, <1>13, <1>14, <1>15, <1>16, <1>17, <1>18, <1>19, <1>20, <1>21, <1>22
  DEF Progress, Environment

LEMMA NextSlots ==
  ASSUME Typed, LineAccounted, SlotBalance, [Next]_vars
  PROVE  LineAccounted' /\ SlotBalance'
<1>1. CASE \E j \in Jobs : Progress(j) \/ Environment(j)
  BY <1>1, JobSlots
<1>2. CASE \E c \in Capacities : Resize(c)
  BY <1>2, SlotsStay DEF Resize
<1>3. CASE NotifyWaiters
  BY <1>3, SlotsStay DEF NotifyWaiters
<1>4. CASE Quiescent \/ UNCHANGED vars
  BY <1>4, SlotsStay DEF Quiescent, vars
<1>. QED
  BY <1>1, <1>2, <1>3, <1>4 DEF Next

LEMMA InitSlots == Init => LineAccounted /\ SlotBalance
<1>. SUFFICES ASSUME Init PROVE LineAccounted /\ SlotBalance
  OBVIOUS
<1>1. line = <<>> /\ granted = {} /\ slots = Slots /\ Len(line) = 0
  BY DEF Init
<1>2. Queueing = {} /\ Workers = {}
  BY DEF Init, Queueing, QueueingPhases, Workers, SlotPhases
<1>3. Elems(line) = {} /\ Distinct(line)
  BY <1>1 DEF Elems, Distinct
<1>4. LineAccounted
  BY <1>1, <1>2, <1>3, LineForm DEF InSemaphore
<1>5. SlotBalance
  BY <1>1, <1>2, FS_EmptySet, ConstantsAssumption DEF SlotBalance, Permits
<1>. QED
  BY <1>4, <1>5

(* Workers and granted jobs are different jobs, so the two counts add up. *)
LEMMA SlotsFromBalance ==
  ASSUME Typed, LineAccounted, SlotBalance
  PROVE  SlotsAccounted
<1>1. SlotHolders = Workers \cup granted
  BY DEF SlotHolders, Workers
<1>2. Workers \cap granted = {}
  BY LineForm DEF InSemaphore, Queueing, QueueingPhases, Workers, SlotPhases
<1>3. Cardinality(SlotHolders) = Cardinality(Workers) + Cardinality(granted)
  BY <1>1, <1>2, FiniteGranted, FS_Union, FS_EmptySet
<1>. QED
  BY <1>3, FiniteGranted, ConstantsAssumption DEF SlotsAccounted, SlotBalance, Permits, Typed

(* The semaphore's line and hand-overs are exactly the jobs queued for a
   slot, always. *)
THEOREM LineAlwaysAccounted == Spec => []LineAccounted
  BY AlwaysTyped, InitSlots, NextSlots, PTL DEF Spec

(* Every slot is free or held by exactly one job, always. *)
THEOREM SlotsAlwaysAccounted == Spec => []SlotsAccounted
  BY AlwaysTyped, InitSlots, NextSlots, SlotsFromBalance, PTL DEF Spec

-----------------------------------------------------------------------------
(* The memory. *)

BytesOf(j) == {j} \X (1..Bytes[j])

(* Charged bytes are finitely many: kept beside their count. *)
MemoryBalance == IsFiniteSet(ChargedBytes) /\ MemoryAccounted

LEMMA BytesOfJob ==
  ASSUME NEW j \in Jobs
  PROVE  /\ IsFiniteSet(BytesOf(j)) /\ Cardinality(BytesOf(j)) = Bytes[j]
         /\ Bytes[j] \in Nat
<1>1. Bytes[j] \in Nat
  BY ConstantsAssumption
<1>2. IsFiniteSet(1..Bytes[j]) /\ Cardinality(1..Bytes[j]) = Bytes[j]
  BY <1>1, FS_Interval
<1>3. IsFiniteSet({j}) /\ Cardinality({j}) = 1
  BY FS_Singleton
<1>. QED
  <2>1. /\ IsFiniteSet({j} \X (1..Bytes[j]))
        /\ Cardinality({j} \X (1..Bytes[j])) = Cardinality({j}) * Cardinality(1..Bytes[j])
    BY <1>2, <1>3, FS_Product
  <2>2. 1 * Bytes[j] = Bytes[j]
    BY <1>1
  <2>. QED
    BY <1>1, <1>2, <1>3, <2>1, <2>2 DEF BytesOf

(* A job's move keeps the balance if `used` changes by its bytes. *)
LEMMA MemoryMove ==
  ASSUME Typed, MemoryBalance, NEW j \in Jobs, NEW p, Goto(j, p),
         \/ phase[j] \in MemoryPhases /\ p \in MemoryPhases /\ used' = used
         \/ phase[j] \notin MemoryPhases /\ p \notin MemoryPhases /\ used' = used
         \/ phase[j] \notin MemoryPhases /\ p \in MemoryPhases /\ used' = used + Bytes[j]
         \/ phase[j] \in MemoryPhases /\ p \notin MemoryPhases /\ used' = used - Bytes[j]
  PROVE  MemoryBalance'
<1>1. MemoryHolders' = IF p \in MemoryPhases THEN MemoryHolders \cup {j}
                                             ELSE MemoryHolders \ {j}
  BY GotoHolders DEF MemoryHolders
<1>2. j \in MemoryHolders <=> phase[j] \in MemoryPhases
  BY DEF MemoryHolders
<1>3. ChargedBytes = UNION {BytesOf(i) : i \in MemoryHolders}
  BY DEF ChargedBytes, BytesOf
<1>4. ChargedBytes' = UNION {BytesOf(i) : i \in MemoryHolders'}
  BY DEF ChargedBytes, BytesOf
<1>5. \A i : \A b \in BytesOf(i) : b[1] = i
  BY DEF BytesOf
<1>6. CASE MemoryHolders' = MemoryHolders /\ used' = used
  BY <1>3, <1>4, <1>6 DEF MemoryBalance, MemoryAccounted
<1>7. CASE j \notin MemoryHolders /\ MemoryHolders' = MemoryHolders \cup {j}
           /\ used' = used + Bytes[j]
  <2>1. ChargedBytes' = ChargedBytes \cup BytesOf(j)
    BY <1>3, <1>4, <1>7
  <2>2. ChargedBytes \cap BytesOf(j) = {}
    BY <1>3, <1>5, <1>7
  <2>3. /\ IsFiniteSet(ChargedBytes) /\ Cardinality(ChargedBytes) \in Nat
        /\ IsFiniteSet(BytesOf(j)) /\ Cardinality(BytesOf(j)) = Bytes[j]
        /\ Bytes[j] \in Nat
        /\ Cardinality(ChargedBytes \cap BytesOf(j)) = 0
    BY <2>2, BytesOfJob, FS_CardinalityType, FS_EmptySet DEF MemoryBalance
  <2>4. /\ IsFiniteSet(ChargedBytes \cup BytesOf(j))
        /\ Cardinality(ChargedBytes \cup BytesOf(j)) =
              Cardinality(ChargedBytes) + Cardinality(BytesOf(j))
              - Cardinality(ChargedBytes \cap BytesOf(j))
    BY <2>3, FS_Union
  <2>. QED
    BY <1>7, <2>1, <2>3, <2>4 DEF MemoryBalance, MemoryAccounted
<1>8. CASE j \in MemoryHolders /\ MemoryHolders' = MemoryHolders \ {j}
           /\ used' = used - Bytes[j]
  <2>1. ChargedBytes = ChargedBytes' \cup BytesOf(j)
    BY <1>3, <1>4, <1>8
  <2>2. ChargedBytes' \cap BytesOf(j) = {}
    BY <1>4, <1>5, <1>8
  <2>3. IsFiniteSet(ChargedBytes') /\ Cardinality(ChargedBytes') \in Nat
    BY <2>1, FS_Subset, FS_CardinalityType DEF MemoryBalance
  <2>4. Cardinality(ChargedBytes) = Cardinality(ChargedBytes') + Bytes[j]
    <3>1. /\ IsFiniteSet(BytesOf(j)) /\ Cardinality(BytesOf(j)) = Bytes[j]
          /\ Cardinality(ChargedBytes' \cap BytesOf(j)) = 0
      BY <2>2, BytesOfJob, FS_EmptySet
    <3>2. Cardinality(ChargedBytes' \cup BytesOf(j)) =
            Cardinality(ChargedBytes') + Cardinality(BytesOf(j))
            - Cardinality(ChargedBytes' \cap BytesOf(j))
      BY <2>3, <3>1, FS_Union
    <3>. QED
      BY <2>1, <2>3, <3>1, <3>2, BytesOfJob
  <2>. QED
    BY <1>8, <2>3, <2>4, BytesOfJob DEF MemoryBalance, MemoryAccounted
<1>. QED
  BY <1>1, <1>2, <1>6, <1>7, <1>8

LEMMA MemoryStays ==
  ASSUME MemoryBalance, UNCHANGED <<phase, used>>
  PROVE  MemoryBalance'
  BY DEF MemoryBalance, MemoryAccounted, ChargedBytes, MemoryHolders

LEMMA JobMemory ==
  ASSUME Typed, MemoryBalance, NEW j \in Jobs, Progress(j) \/ Environment(j)
  PROVE  MemoryBalance'
<1>. USE DEF budget
<1>a. Bytes[j] \in Nat /\ used \in Int
  BY ConstantsAssumption DEF Typed
<1>1. CASE Arrive(j)
  BY <1>1, <1>a, MemoryMove DEF Arrive, MemoryPhases, SlotPhases
<1>2. CASE FastReserve(j)
  BY <1>2, <1>a, MemoryMove DEF FastReserve, MemoryPhases, SlotPhases, Reserve, HasRoom
<1>3. CASE FastSlot(j)
  BY <1>3, <1>a, MemoryMove DEF FastSlot, MemoryPhases, SlotPhases, DropReservation
<1>4. CASE TakePlace(j)
  BY <1>4, <1>a, MemoryMove DEF TakePlace, MemoryPhases, SlotPhases
<1>5. CASE Register(j)
  BY <1>5, <1>a, MemoryMove DEF Register, MemoryPhases, SlotPhases
<1>6. CASE CheckFits(j)
  BY <1>6, <1>a, MemoryMove DEF CheckFits, MemoryPhases, SlotPhases
<1>7. CASE TryReserve(j)
  BY <1>7, <1>a, MemoryMove DEF TryReserve, MemoryPhases, SlotPhases, Reserve, HasRoom
<1>8. CASE Wake(j)
  BY <1>8, <1>a, MemoryMove DEF Wake, MemoryPhases, SlotPhases
<1>9. CASE AskSlot(j)
  BY <1>9, <1>a, MemoryMove DEF AskSlot, MemoryPhases, SlotPhases, TakeSlotOr
<1>10. CASE Granted(j)
  BY <1>10, <1>a, MemoryMove DEF Granted, MemoryPhases, SlotPhases
<1>11. CASE DropPlace(j)
  BY <1>11, <1>a, MemoryMove DEF DropPlace, MemoryPhases, SlotPhases
<1>12. CASE Start(j)
  BY <1>12, <1>a, MemoryMove DEF Start, MemoryPhases, SlotPhases, DropReservation
<1>13. CASE GiveSlot(j)
  BY <1>13, <1>a, MemoryMove DEF GiveSlot, MemoryPhases, SlotPhases
<1>14. CASE EndWait(j)
  BY <1>14, <1>a, MemoryMove DEF EndWait, MemoryPhases, SlotPhases, TakeSlotOr
<1>15. CASE Finish(j)
  BY <1>15, <1>a, MemoryMove DEF Finish, MemoryPhases, SlotPhases, DropReservation
<1>16. CASE Deliver(j)
  BY <1>16, MemoryStays DEF Deliver
<1>17. CASE Expire(j)
  BY <1>17, MemoryStays DEF Expire
<1>18. CASE BeginWait(j) /\ CountWait(j)
  BY <1>18, <1>a, MemoryMove DEF BeginWait, CountWait, MemoryPhases, SlotPhases
<1>19. CASE QueueTimeout(j)
  BY <1>19, <1>a, MemoryMove DEF QueueTimeout, MemoryPhases, SlotPhases, LeaveQueue, DropReservation
<1>20. CASE RetakeTimeout(j)
  BY <1>20, <1>a, MemoryMove DEF RetakeTimeout, MemoryPhases, SlotPhases
<1>21. CASE DisconnectQueued(j)
  BY <1>21, <1>a, MemoryMove DEF DisconnectQueued, MemoryPhases, SlotPhases, LeaveQueue, DropReservation
<1>22. CASE DisconnectRunning(j)
  BY <1>22, MemoryStays DEF DisconnectRunning
<1>. QED
  BY <1>1, <1>2, <1>3, <1>4, <1>5, <1>6, <1>7, <1>8, <1>9, <1>10, <1>11, <1>12, <1>13, <1>14, <1>15, <1>16, <1>17, <1>18, <1>19, <1>20, <1>21, <1>22
  DEF Progress, Environment

LEMMA NextMemory ==
  ASSUME Typed, MemoryBalance, [Next]_vars
  PROVE  MemoryBalance'
<1>1. CASE \E j \in Jobs : Progress(j) \/ Environment(j)
  BY <1>1, JobMemory
<1>2. CASE \E c \in Capacities : Resize(c)
  BY <1>2, MemoryStays DEF Resize
<1>3. CASE NotifyWaiters
  BY <1>3, MemoryStays DEF NotifyWaiters
<1>4. CASE Quiescent \/ UNCHANGED vars
  BY <1>4, MemoryStays DEF Quiescent, vars, budget
<1>. QED
  BY <1>1, <1>2, <1>3, <1>4 DEF Next

LEMMA InitMemory == Init => MemoryBalance
<1>. SUFFICES ASSUME Init PROVE MemoryBalance
  OBVIOUS
<1>1. MemoryHolders = {}
  BY DEF Init, MemoryHolders, MemoryPhases, SlotPhases
<1>2. ChargedBytes = {}
  BY <1>1 DEF ChargedBytes
<1>. QED
  BY <1>2, FS_EmptySet DEF Init, MemoryBalance, MemoryAccounted

(* RenderBudget.used is what the jobs hold, byte for byte, always. *)
THEOREM MemoryAlwaysAccounted == Spec => []MemoryAccounted
<1>1. MemoryBalance => MemoryAccounted
  BY DEF MemoryBalance
<1>. QED
  BY <1>1, AlwaysTyped, InitMemory, NextMemory, PTL DEF Spec

-----------------------------------------------------------------------------
(* The accounting gives TypeOK its bounds. *)

LEMMA TypeOKFromBalances ==
  ASSUME Typed, PlacesAccounted, SlotsAccounted, MemoryBalance
  PROVE  TypeOK
<1>1. Cardinality(SlotHolders) \in Nat /\ Cardinality(PlaceHolders) \in Nat
  <2>1. SlotHolders \in SUBSET Jobs /\ PlaceHolders \in SUBSET Jobs
    BY DEF Typed, SlotHolders, PlaceHolders
  <2>. QED
    BY <2>1, FS_Subset, FS_CardinalityType, ConstantsAssumption
<1>2. used \in Nat
  BY FS_CardinalityType DEF MemoryBalance, MemoryAccounted
<1>3. slots \in 0..Slots
  BY <1>1, ConstantsAssumption DEF Typed, SlotsAccounted
<1>4. waiting \in 0..QueueCapacity
  BY <1>1, ConstantsAssumption DEF Typed, PlacesAccounted
<1>. QED
  BY <1>2, <1>3, <1>4 DEF Typed, TypeOK

(* Every variable has its type, its bounds included, always: no permit and
   no byte is ever returned twice. *)
THEOREM TypeAlwaysOK == Spec => []TypeOK
  BY AlwaysTyped, InitPlaces, NextPlaces, InitSlots, NextSlots, SlotsFromBalance,
     InitMemory, NextMemory, TypeOKFromBalances, PTL DEF Spec

-----------------------------------------------------------------------------
(* No step takes memory beyond the capacity it sees. *)

LEMMA JobNeverOvercommits ==
  ASSUME Typed, NEW j \in Jobs, Progress(j) \/ Environment(j), used' > used
  PROVE  used' <= capacity
<1>. USE DEF budget
<1>a. Bytes[j] \in Nat /\ used \in Int
  BY ConstantsAssumption DEF Typed
<1>1. CASE Arrive(j)
  BY <1>1, <1>a DEF Arrive
<1>2. CASE FastReserve(j)
  BY <1>2, <1>a DEF FastReserve, Reserve, HasRoom
<1>3. CASE FastSlot(j)
  BY <1>3, <1>a DEF FastSlot, DropReservation
<1>4. CASE TakePlace(j)
  BY <1>4, <1>a DEF TakePlace
<1>5. CASE Register(j)
  BY <1>5, <1>a DEF Register
<1>6. CASE CheckFits(j)
  BY <1>6, <1>a DEF CheckFits
<1>7. CASE TryReserve(j)
  BY <1>7, <1>a DEF TryReserve, Reserve, HasRoom
<1>8. CASE Wake(j)
  BY <1>8, <1>a DEF Wake
<1>9. CASE AskSlot(j)
  BY <1>9, <1>a DEF AskSlot
<1>10. CASE Granted(j)
  BY <1>10, <1>a DEF Granted
<1>11. CASE DropPlace(j)
  BY <1>11, <1>a DEF DropPlace
<1>12. CASE Start(j)
  BY <1>12, <1>a DEF Start, DropReservation
<1>13. CASE GiveSlot(j)
  BY <1>13, <1>a DEF GiveSlot
<1>14. CASE EndWait(j)
  BY <1>14, <1>a DEF EndWait
<1>15. CASE Finish(j)
  BY <1>15, <1>a DEF Finish, DropReservation
<1>16. CASE Deliver(j)
  BY <1>16, <1>a DEF Deliver
<1>17. CASE Expire(j)
  BY <1>17, <1>a DEF Expire
<1>18. CASE BeginWait(j) /\ CountWait(j)
  BY <1>18, <1>a DEF BeginWait, CountWait
<1>19. CASE QueueTimeout(j)
  BY <1>19, <1>a DEF QueueTimeout, LeaveQueue, DropReservation
<1>20. CASE RetakeTimeout(j)
  BY <1>20, <1>a DEF RetakeTimeout
<1>21. CASE DisconnectQueued(j)
  BY <1>21, <1>a DEF DisconnectQueued, LeaveQueue, DropReservation
<1>22. CASE DisconnectRunning(j)
  BY <1>22, <1>a DEF DisconnectRunning
<1>. QED
  BY <1>1, <1>2, <1>3, <1>4, <1>5, <1>6, <1>7, <1>8, <1>9, <1>10, <1>11, <1>12, <1>13, <1>14, <1>15, <1>16, <1>17, <1>18, <1>19, <1>20, <1>21, <1>22
  DEF Progress, Environment

(* What is reserved above a budget that shrank can only fall. *)
THEOREM NeverOvercommitted == Spec => NeverOvercommits
<1>1. ASSUME Typed, [Next]_vars
      PROVE  [used' > used => used' <= capacity]_vars
  <2>. SUFFICES ASSUME used' > used PROVE used' <= capacity
    OBVIOUS
  <2>1. CASE \E j \in Jobs : Progress(j) \/ Environment(j)
    BY <1>1, <2>1, JobNeverOvercommits
  <2>2. CASE (\E c \in Capacities : Resize(c)) \/ NotifyWaiters
    BY <1>1, <2>2 DEF Resize, NotifyWaiters, Typed
  <2>3. CASE Quiescent \/ UNCHANGED vars
    BY <1>1, <2>3 DEF Quiescent, vars, budget, Typed
  <2>. QED
    BY <1>1, <2>1, <2>2, <2>3 DEF Next
<1>. QED
  BY <1>1, AlwaysTyped, PTL DEF Spec, NeverOvercommits

-----------------------------------------------------------------------------
(* No wake-up is lost.  A job checks the capacity, then the balance, then
   sleeps, so the invariant also speaks of a job between the two checks. *)

Unheard(j) == j \notin notified
WakeInv ==
  \A j \in Jobs : Unheard(j) =>
    /\ phase[j] = "try" /\ ~Fits(j) => resizing
    /\ phase[j] = "asleep" /\ (HasRoom(j) \/ ~Fits(j)) => releasing > 0 \/ resizing

(* What a job's step may do to the budget: take, or release and owe the
   notification.  It forgets no wake-up but its own. *)
BudgetStep(j) ==
  /\ capacity' = capacity /\ resizing' = resizing
  /\ releasing' >= releasing
  /\ used' >= used \/ releasing' > 0
  /\ notified \subseteq notified' \cup {j}

LEMMA WakeMove ==
  ASSUME Typed, WakeInv, NEW j \in Jobs, NEW p, Goto(j, p), BudgetStep(j),
         used' \in Int, releasing' \in Nat,
         \/ p \notin {"try", "asleep"}
         \/ p = "try" /\ Fits(j)
         \/ p = "asleep" /\ ~HasRoom(j) /\ phase[j] = "try" /\ UNCHANGED budget
  PROVE  WakeInv'
<1>1. \A i \in Jobs : phase'[i] = IF i = j THEN p ELSE phase[i]
  BY DEF Typed, Goto
<1>2. \A i \in Jobs : Bytes[i] \in Nat /\ (Fits(i)' <=> Fits(i))
  BY ConstantsAssumption DEF BudgetStep, Fits
<1>3. used \in Int /\ capacity \in Int /\ releasing \in Nat
  BY ConstantsAssumption DEF Typed
<1>4. ASSUME NEW i \in Jobs, i # j, Unheard(i)'
      PROVE  /\ phase'[i] = "try" /\ ~Fits(i)' => resizing'
             /\ phase'[i] = "asleep" /\ (HasRoom(i)' \/ ~Fits(i)') => releasing' > 0 \/ resizing'
  <2>1. Unheard(i) /\ phase'[i] = phase[i]
    BY <1>1, <1>4 DEF Unheard, BudgetStep
  <2>2. CASE used' >= used
    <3>1. HasRoom(i)' => HasRoom(i)
      BY <1>2, <1>3, <2>2 DEF HasRoom, BudgetStep
    <3>2. releasing > 0 => releasing' > 0
      BY <1>3 DEF BudgetStep
    <3>. QED
      BY <1>2, <2>1, <3>1, <3>2 DEF WakeInv, BudgetStep
  <2>3. CASE releasing' > 0
    BY <1>2, <2>1, <2>3 DEF WakeInv, BudgetStep
  <2>. QED
    BY <2>2, <2>3 DEF BudgetStep
<1>5. ASSUME Unheard(j)'
      PROVE  /\ phase'[j] = "try" /\ ~Fits(j)' => resizing'
             /\ phase'[j] = "asleep" /\ (HasRoom(j)' \/ ~Fits(j)') => releasing' > 0 \/ resizing'
  <2>1. CASE p = "asleep" /\ ~HasRoom(j) /\ phase[j] = "try" /\ UNCHANGED budget
    <3>1. Unheard(j) /\ ~HasRoom(j)' /\ resizing' = resizing
      BY <1>5, <2>1 DEF Unheard, HasRoom, budget
    <3>. QED
      BY <1>1, <1>2, <2>1, <3>1 DEF WakeInv
  <2>2. CASE p \notin {"try", "asleep"} \/ (p = "try" /\ Fits(j))
    BY <1>1, <1>2, <2>2
  <2>. QED
    BY <2>1, <2>2
<1>. QED
  BY <1>4, <1>5 DEF WakeInv

LEMMA WakeStays ==
  ASSUME WakeInv, UNCHANGED <<phase, budget>>
  PROVE  WakeInv'
  BY DEF WakeInv, Unheard, Fits, HasRoom, budget

LEMMA JobWakes ==
  ASSUME Typed, WakeInv, NEW j \in Jobs, Progress(j) \/ Environment(j)
  PROVE  WakeInv'
<1>a. Bytes[j] \in Nat /\ used \in Int /\ releasing \in Nat
  BY ConstantsAssumption DEF Typed
<1>b. ASSUME DropReservation(j)
      PROVE  BudgetStep(j) /\ used' \in Int /\ releasing' \in Nat
  BY <1>a, <1>b DEF DropReservation, BudgetStep
<1>c. ASSUME Reserve(j)
      PROVE  BudgetStep(j) /\ used' \in Int /\ releasing' \in Nat
  BY <1>a, <1>c DEF Reserve, BudgetStep
<1>d. ASSUME UNCHANGED budget
      PROVE  BudgetStep(j) /\ used' \in Int /\ releasing' \in Nat
  BY <1>a, <1>d DEF budget, BudgetStep
<1>1. CASE Arrive(j)
  BY <1>1, <1>b, <1>c, <1>d, WakeMove DEF Arrive
<1>2. CASE FastReserve(j)
  BY <1>2, <1>b, <1>c, <1>d, WakeMove DEF FastReserve
<1>3. CASE FastSlot(j)
  BY <1>3, <1>b, <1>c, <1>d, WakeMove DEF FastSlot
<1>4. CASE TakePlace(j)
  BY <1>4, <1>b, <1>c, <1>d, WakeMove DEF TakePlace
<1>5. CASE Register(j)
  <2>1. BudgetStep(j) /\ used' \in Int /\ releasing' \in Nat
    BY <1>5, <1>a DEF Register, BudgetStep
  <2>. QED
    BY <1>5, <2>1, WakeMove DEF Register
<1>6. CASE CheckFits(j)
  BY <1>6, <1>b, <1>c, <1>d, WakeMove DEF CheckFits
<1>7. CASE TryReserve(j)
  BY <1>7, <1>b, <1>c, <1>d, WakeMove DEF TryReserve
<1>8. CASE Wake(j)
  BY <1>8, <1>b, <1>c, <1>d, WakeMove DEF Wake
<1>9. CASE AskSlot(j)
  BY <1>9, <1>b, <1>c, <1>d, WakeMove DEF AskSlot, TakeSlotOr
<1>10. CASE Granted(j)
  BY <1>10, <1>b, <1>c, <1>d, WakeMove DEF Granted
<1>11. CASE DropPlace(j)
  BY <1>11, <1>b, <1>c, <1>d, WakeMove DEF DropPlace
<1>12. CASE Start(j)
  BY <1>12, <1>b, <1>c, <1>d, WakeMove DEF Start
<1>13. CASE GiveSlot(j)
  BY <1>13, <1>b, <1>c, <1>d, WakeMove DEF GiveSlot
<1>14. CASE EndWait(j)
  BY <1>14, <1>b, <1>c, <1>d, WakeMove DEF EndWait, TakeSlotOr
<1>15. CASE Finish(j)
  BY <1>15, <1>b, <1>c, <1>d, WakeMove DEF Finish
<1>16. CASE Deliver(j)
  BY <1>16, WakeStays DEF Deliver
<1>17. CASE Expire(j)
  BY <1>17, WakeStays DEF Expire
<1>18. CASE BeginWait(j) /\ CountWait(j)
  BY <1>18, <1>b, <1>c, <1>d, WakeMove DEF BeginWait, CountWait
<1>19. CASE QueueTimeout(j)
  BY <1>19, <1>b, <1>c, <1>d, WakeMove DEF QueueTimeout, LeaveQueue
<1>20. CASE RetakeTimeout(j)
  BY <1>20, <1>b, <1>c, <1>d, WakeMove DEF RetakeTimeout
<1>21. CASE DisconnectQueued(j)
  BY <1>21, <1>b, <1>c, <1>d, WakeMove DEF DisconnectQueued, LeaveQueue
<1>22. CASE DisconnectRunning(j)
  BY <1>22, WakeStays DEF DisconnectRunning
<1>. QED
  BY <1>1, <1>2, <1>3, <1>4, <1>5, <1>6, <1>7, <1>8, <1>9, <1>10, <1>11, <1>12, <1>13, <1>14, <1>15, <1>16, <1>17, <1>18, <1>19, <1>20, <1>21, <1>22
  DEF Progress, Environment

LEMMA NextWakes ==
  ASSUME Typed, WakeInv, [Next]_vars
  PROVE  WakeInv'
<1>1. CASE \E j \in Jobs : Progress(j) \/ Environment(j)
  BY <1>1, JobWakes
<1>2. CASE \E c \in Capacities : Resize(c)
  BY <1>2 DEF Resize, WakeInv
<1>3. CASE NotifyWaiters
  <2>1. \A j \in Jobs : Unheard(j)' => phase'[j] \notin {"try", "asleep"}
    BY <1>3 DEF NotifyWaiters, Registered, Unheard
  <2>. QED
    BY <2>1 DEF WakeInv
<1>4. CASE Quiescent \/ UNCHANGED vars
  BY <1>4, WakeStays DEF Quiescent, vars
<1>. QED
  BY <1>1, <1>2, <1>3, <1>4 DEF Next

LEMMA InitWakes == Init => WakeInv
  BY DEF Init, WakeInv

(* No release and no resize is lost between a job's check of the budget and
   its sleep, always. *)
THEOREM NeverLostWakeup == Spec => []NoLostWakeup
<1>1. WakeInv => NoLostWakeup
  BY DEF WakeInv, NoLostWakeup, Unheard
<1>. QED
  BY <1>1, AlwaysTyped, InitWakes, NextWakes, PTL DEF Spec

-----------------------------------------------------------------------------
(* The counters. *)

(* Before its dispatch a job has no answer, so the one it gets there is its
   first. *)
Admitting == {"new", "fast", "fastSlot", "place", "register", "check", "try",
              "asleep", "ask", "queued", "admitted"}
FirstAnswer == \A j \in Jobs : phase[j] \in Admitting => outcome[j] = "none"

Ended(o) == {j \in Jobs : outcome[j] = o}
CountInv == FirstAnswer /\ CountedOnce

(* What is counted of the answer o. *)
Counts(o) ==
  \/ o \in {"served", "gone"} /\ UNCHANGED count
  \/ o = "busy" /\ (Bump({"rejected"}) \/ Bump({"oversize"}))
  \/ o = "timeout" /\ \/ Bump({"timedOutRender"}) \/ Bump({"timedOutQueue"})
                      \/ Bump({"memoryExpired", "timedOutQueue"})

LEMMA CountedIs ==
  CountedOnce <=>
    /\ count["timedOutQueue"] + count["timedOutRender"] = Cardinality(Ended("timeout"))
    /\ count["rejected"] + count["oversize"] = Cardinality(Ended("busy"))
    /\ count["memoryExpired"] <= count["timedOutQueue"]
  BY DEF CountedOnce, Ended

(* The first answer of a job adds it to those that ended so, and to no
   others. *)
LEMMA AnswerEnds ==
  ASSUME Typed, NEW j \in Jobs, outcome[j] = "none",
         NEW o \in Outcomes, Answer(j, o), NEW e \in Outcomes \ {"none"}
  PROVE  /\ Cardinality(Ended(e)) \in Nat
         /\ Cardinality(Ended(e)') = Cardinality(Ended(e)) + IF e = o THEN 1 ELSE 0
<1>1. Ended(e)' = IF e = o THEN Ended(e) \cup {j} ELSE Ended(e)
  BY DEF Typed, Answer, Ended
<1>2. j \notin Ended(e)
  BY DEF Ended
<1>3. IsFiniteSet(Ended(e))
  BY FS_Subset, ConstantsAssumption DEF Ended, ConstantsAssumption
<1>4. Cardinality(Ended(e)) \in Nat
  BY <1>3, FS_CardinalityType
<1>5. Cardinality(Ended(e) \cup {j}) = Cardinality(Ended(e)) + 1
  BY <1>2, <1>3, FS_AddElement
<1>6. CASE e = o
  <2>1. Ended(e)' = Ended(e) \cup {j}
    BY <1>1, <1>6
  <2>. QED
    BY <1>4, <1>5, <1>6, <2>1
<1>7. CASE e # o
  <2>1. Ended(e)' = Ended(e)
    BY <1>1, <1>7
  <2>. QED
    BY <1>4, <1>7, <2>1
<1>. QED
  BY <1>6, <1>7

LEMMA AnswerCounted ==
  ASSUME Typed, CountedOnce, NEW j \in Jobs, outcome[j] = "none",
         NEW o \in Outcomes, Answer(j, o), Counts(o)
  PROVE  CountedOnce'
<1>. DEFINE q == count["timedOutQueue"]   r == count["timedOutRender"]
            b == count["rejected"]        z == count["oversize"]
            m == count["memoryExpired"]
            t == Cardinality(Ended("timeout"))   s == Cardinality(Ended("busy"))
<1>1. q \in Nat /\ r \in Nat /\ b \in Nat /\ z \in Nat /\ m \in Nat
  BY DEF Typed, Counters
<1>2. q + r = t /\ b + z = s /\ m <= q
  BY CountedIs
<1>3. /\ t' = t + (IF o = "timeout" THEN 1 ELSE 0) /\ t \in Nat
      /\ s' = s + (IF o = "busy" THEN 1 ELSE 0) /\ s \in Nat
  BY AnswerEnds DEF Outcomes
<1>4. CASE o \in {"served", "gone"}
  <2>1. q' = q /\ r' = r /\ b' = b /\ z' = z /\ m' = m
    BY <1>4 DEF Counts
  <2>. QED
    BY <1>2, <1>3, <1>4, <2>1 DEF CountedOnce, Ended
<1>5. CASE o = "busy"
  <2>1. /\ q' = q /\ r' = r /\ m' = m
        /\ \/ b' = b + 1 /\ z' = z
           \/ b' = b /\ z' = z + 1
    BY <1>5 DEF Counts, Bump, Counters
  <2>2. b' + z' = s' /\ q' + r' = t' /\ m' <= q'
    BY <1>1, <1>2, <1>3, <1>5, <2>1
  <2>. QED
    BY <2>2 DEF CountedOnce, Ended
<1>6. CASE o = "timeout"
  <2>1. /\ b' = b /\ z' = z
        /\ \/ q' = q /\ r' = r + 1 /\ m' = m
           \/ q' = q + 1 /\ r' = r /\ (m' = m \/ m' = m + 1)
    BY <1>6 DEF Counts, Bump, Counters
  <2>2. b' + z' = s' /\ q' + r' = t' /\ m' <= q'
    BY <1>1, <1>2, <1>3, <1>6, <2>1
  <2>. QED
    BY <2>2 DEF CountedOnce, Ended
<1>. QED
  BY <1>4, <1>5, <1>6 DEF Counts

(* A job's step leaves answers and counters alone, or gives the job its first
   answer and counts it. *)
Accounted(j) ==
  \/ UNCHANGED <<outcome, count>>
  \/ \E o \in Outcomes : outcome[j] = "none" /\ Answer(j, o) /\ Counts(o)

LEMMA JobCounts ==
  ASSUME Typed, FirstAnswer, NEW j \in Jobs, Progress(j) \/ Environment(j)
  PROVE  FirstAnswer' /\ Accounted(j)
<1>. USE DEF Typed, FirstAnswer, Accounted, Admitting, Goto, Answer, Outcomes
<1>1. CASE Arrive(j)
  BY <1>1 DEF Arrive, Counts
<1>2. CASE FastReserve(j)
  BY <1>2 DEF FastReserve
<1>3. CASE FastSlot(j)
  BY <1>3 DEF FastSlot
<1>4. CASE TakePlace(j)
  BY <1>4 DEF TakePlace, Counts
<1>5. CASE Register(j)
  BY <1>5 DEF Register
<1>6. CASE CheckFits(j)
  BY <1>6 DEF CheckFits, Counts
<1>7. CASE TryReserve(j)
  BY <1>7 DEF TryReserve
<1>8. CASE Wake(j)
  BY <1>8 DEF Wake
<1>9. CASE AskSlot(j)
  BY <1>9 DEF AskSlot, TakeSlotOr
<1>10. CASE Granted(j)
  BY <1>10 DEF Granted
<1>11. CASE DropPlace(j)
  BY <1>11 DEF DropPlace
<1>12. CASE Start(j)
  BY <1>12 DEF Start
<1>13. CASE GiveSlot(j)
  BY <1>13 DEF GiveSlot
<1>14. CASE EndWait(j)
  BY <1>14 DEF EndWait, TakeSlotOr
<1>15. CASE Finish(j)
  BY <1>15 DEF Finish
<1>16. CASE Deliver(j)
  BY <1>16 DEF Deliver, InPool, SlotPhases, Counts
<1>17. CASE Expire(j)
  BY <1>17 DEF Expire
<1>18. CASE QueueTimeout(j)
  BY <1>18 DEF QueueTimeout, LeaveQueue, Counts
<1>19. CASE RetakeTimeout(j)
  BY <1>19 DEF RetakeTimeout
<1>20. CASE DisconnectQueued(j)
  BY <1>20 DEF DisconnectQueued, LeaveQueue, Counts
<1>21. CASE DisconnectRunning(j)
  BY <1>21 DEF DisconnectRunning, InPool, SlotPhases, Counts
<1>22. CASE BeginWait(j) /\ CountWait(j)
  BY <1>22 DEF BeginWait, CountWait
<1>. HIDE DEF FirstAnswer, Accounted
<1>. QED
  BY <1>1, <1>2, <1>3, <1>4, <1>5, <1>6, <1>7, <1>8, <1>9, <1>10, <1>11, <1>12, <1>13, <1>14, <1>15, <1>16, <1>17, <1>18, <1>19, <1>20, <1>21, <1>22
  DEF Progress, Environment

LEMMA NextCounts ==
  ASSUME Typed, CountInv, [Next]_vars
  PROVE  CountInv'
<1>1. CASE \E j \in Jobs : Progress(j) \/ Environment(j)
  <2>1. PICK j \in Jobs : Progress(j) \/ Environment(j)
    BY <1>1
  <2>2. FirstAnswer' /\ Accounted(j)
    BY <2>1, JobCounts DEF CountInv
  <2>3. CASE UNCHANGED <<outcome, count>>
    BY <2>2, <2>3 DEF CountInv, CountedOnce
  <2>4. CASE \E o \in Outcomes : outcome[j] = "none" /\ Answer(j, o) /\ Counts(o)
    BY <2>2, <2>4, AnswerCounted DEF CountInv
  <2>. QED
    BY <2>2, <2>3, <2>4 DEF Accounted
<1>2. CASE \/ \E c \in Capacities : Resize(c)
           \/ NotifyWaiters \/ Quiescent \/ UNCHANGED vars
  <2>1. UNCHANGED <<phase, outcome, count>>
    BY <1>2 DEF Resize, NotifyWaiters, Quiescent, vars
  <2>. QED
    BY <2>1 DEF CountInv, FirstAnswer, CountedOnce
<1>. QED
  BY <1>1, <1>2 DEF Next

LEMMA InitCounts == Init => CountInv
<1>. SUFFICES ASSUME Init PROVE CountInv
  OBVIOUS
<1>1. Ended("timeout") = {} /\ Ended("busy") = {}
  BY DEF Init, Ended
<1>2. \A c \in Counters : count[c] = 0
  BY DEF Init
<1>3. CountedOnce
  BY <1>1, <1>2, FS_EmptySet, CountedIs DEF Counters
<1>. QED
  BY <1>3 DEF Init, CountInv, FirstAnswer

(* Every request that ran out of time or was shed is in /metrics once, in the
   counter of the stage it ended in, always. *)
THEOREM AlwaysCountedOnce == Spec => []CountedOnce
<1>1. CountInv => CountedOnce
  BY DEF CountInv
<1>. QED
  BY <1>1, AlwaysTyped, InitCounts, NextCounts, PTL DEF Spec
=============================================================================
