-------------------- MODULE RenderAdmissionRefinement ----------------------
(***************************************************************************)
(* Proof that RenderAdmission implements BoundedAdmission: every step of   *)
(* the executor is one of the abstract steps, or none.                     *)
(***************************************************************************)
EXTENDS RenderAdmissionProofs

OutsidePhases == {"new", "fast", "fastSlot", "place"}
ParkedPhases == {"parked", "retake"}
LeftPhases == {"slotless", "done"}

In(S) == {j \in Jobs : phase[j] \in S}
Shed == {j \in Jobs : outcome[j] = "busy"}

(* A job told "Server busy" is over. *)
BusyIsDone == \A j \in Jobs : outcome[j] = "busy" => phase[j] = "done"

(* What the steps of the executor rely on. *)
Sound ==
  /\ Typed /\ PlacesAccounted /\ LineAccounted /\ SlotBalance /\ BusyIsDone

(* The five kinds of phase cover the phases and do not overlap. *)
LEMMA Kinds ==
  /\ Phases = OutsidePhases \cup QueuedPhases \cup SlotPhases
                \cup ParkedPhases \cup LeftPhases
  /\ OutsidePhases \cap (QueuedPhases \cup SlotPhases \cup ParkedPhases \cup LeftPhases) = {}
  /\ QueuedPhases \cap (SlotPhases \cup ParkedPhases \cup LeftPhases) = {}
  /\ SlotPhases \cap (ParkedPhases \cup LeftPhases) = {}
  /\ ParkedPhases \cap LeftPhases = {}
  /\ QueuedPhases \cup ParkedPhases \subseteq PlacePhases
  BY DEF Phases, OutsidePhases, QueuedPhases, SlotPhases, ParkedPhases, LeftPhases,
         PlacePhases, MemoryPhases

LEMMA BAVars ==
  /\ BA!vars = <<In(SlotPhases), In(QueuedPhases), In(ParkedPhases),
                 In(LeftPhases), Shed>>
  BY DEF BA!vars, In, Shed, ParkedPhases, LeftPhases

(* The two modules count with the same Cardinality. *)
LEMMA SameCardinality ==
  ASSUME NEW S
  PROVE  BA!Cardinality(S) = Cardinality(S)
  BY DEF BA!Cardinality, Cardinality, BA!IsFiniteSet, IsFiniteSet

(* A slot is free for a job that is about to have one. *)
LEMMA SlotIsFree ==
  ASSUME Sound, SlotBalance', Typed', NEW j \in Jobs,
         phase[j] \notin SlotPhases, In(SlotPhases)' = In(SlotPhases) \cup {j}
  PROVE  Cardinality(In(SlotPhases)) < Slots
<1>1. Workers = In(SlotPhases) /\ Workers' = In(SlotPhases)'
  BY DEF Workers, In
<1>2. j \notin In(SlotPhases)
  BY DEF In
<1>3. IsFiniteSet(In(SlotPhases)) /\ Cardinality(In(SlotPhases)) \in Nat
  BY <1>1, FiniteGranted DEF Sound
<1>4. Cardinality(In(SlotPhases)') = Cardinality(In(SlotPhases)) + 1
  BY <1>2, <1>3, FS_AddElement
<1>5. IsFiniteSet(granted') /\ Cardinality(granted') \in Nat /\ slots' \in Nat
  BY FS_Subset, FS_CardinalityType, ConstantsAssumption DEF Typed
<1>. QED
  BY <1>1, <1>3, <1>4, <1>5, ConstantsAssumption DEF SlotBalance, Permits

(* A place is free for a job that holds it but is not yet queued or parked. *)
LEMMA PlaceIsFree ==
  ASSUME Typed, PlacesAccounted, NEW j \in Jobs, j \in PlaceHolders,
         phase[j] \notin QueuedPhases \cup ParkedPhases
  PROVE  Cardinality(In(QueuedPhases) \cup In(ParkedPhases)) < QueueCapacity
<1>. DEFINE counted == In(QueuedPhases) \cup In(ParkedPhases)
<1>1. counted \in SUBSET (PlaceHolders \ {j})
  BY Kinds DEF In, PlaceHolders
<1>2. IsFiniteSet(PlaceHolders) /\ Cardinality(PlaceHolders) \in Nat
  BY FiniteHolders, FS_CardinalityType DEF PlaceHolders
<1>3. /\ IsFiniteSet(PlaceHolders \ {j})
      /\ Cardinality(PlaceHolders \ {j}) = Cardinality(PlaceHolders) - 1
  BY <1>2, FS_RemoveElement
<1>4. /\ Cardinality(counted) <= Cardinality(PlaceHolders \ {j})
      /\ Cardinality(counted) \in Nat
  BY <1>1, <1>3, FS_Subset, FS_CardinalityType
<1>. QED
  BY <1>2, <1>3, <1>4, ConstantsAssumption DEF PlacesAccounted, Typed

-----------------------------------------------------------------------------
(* The abstract step of a job's move, by the kinds of its phases. *)

LEMMA Keeps ==
  ASSUME Typed, NEW j \in Jobs, NEW p, Goto(j, p), NEW S, phase[j] \in S <=> p \in S
  PROVE  In(S)' = In(S)
  BY DEF Typed, Goto, In

LEMMA Gains ==
  ASSUME Typed, NEW j \in Jobs, NEW p, Goto(j, p), NEW S, phase[j] \notin S, p \in S
  PROVE  In(S)' = In(S) \cup {j} /\ j \notin In(S)
  BY DEF Typed, Goto, In

LEMMA Loses ==
  ASSUME Typed, NEW j \in Jobs, NEW p, Goto(j, p), NEW S, phase[j] \in S, p \notin S
  PROVE  In(S)' = In(S) \ {j} /\ j \in In(S)
  BY DEF Typed, Goto, In

(* No answer, or one that is not "Server busy" to a job that had none. *)
Quiet(j) ==
  \/ outcome' = outcome
  \/ /\ outcome[j] # "busy"
     /\ \E o \in {"served", "timeout", "gone"} : Answer(j, o)

LEMMA QuietShed ==
  ASSUME Typed, NEW j \in Jobs, Quiet(j)
  PROVE  Shed' = Shed
  BY DEF Typed, Quiet, Answer, Shed

SameKind(p, q) ==
  \/ p \in OutsidePhases /\ q \in OutsidePhases
  \/ p \in QueuedPhases /\ q \in QueuedPhases
  \/ p \in SlotPhases /\ q \in SlotPhases
  \/ p \in ParkedPhases /\ q \in ParkedPhases
  \/ p \in LeftPhases /\ q \in LeftPhases

AbstractStep == BA!Next \/ UNCHANGED BA!vars

LEMMA KindStays ==
  ASSUME Typed, NEW j \in Jobs, NEW p, Goto(j, p), SameKind(phase[j], p)
  PROVE  /\ In(SlotPhases)' = In(SlotPhases)
         /\ In(QueuedPhases)' = In(QueuedPhases)
         /\ In(ParkedPhases)' = In(ParkedPhases)
         /\ In(LeftPhases)' = In(LeftPhases)
<1>1. /\ phase[j] \in SlotPhases <=> p \in SlotPhases
      /\ phase[j] \in QueuedPhases <=> p \in QueuedPhases
      /\ phase[j] \in ParkedPhases <=> p \in ParkedPhases
      /\ phase[j] \in LeftPhases <=> p \in LeftPhases
  BY Kinds DEF SameKind
<1>. QED
  BY <1>1, Keeps

LEMMA StutterMove ==
  ASSUME Typed, NEW j \in Jobs, NEW p, Goto(j, p), SameKind(phase[j], p), Quiet(j)
  PROVE  AbstractStep
  BY KindStays, QuietShed DEF AbstractStep, BA!vars, In, Shed, ParkedPhases, LeftPhases

LEMMA StayMove ==
  ASSUME Typed, NEW j \in Jobs, phase' = phase, Quiet(j)
  PROVE  AbstractStep
  BY QuietShed DEF AbstractStep, BA!vars, Shed

(* What a move keeps, from the kind it leaves and the kind it enters. *)
LEMMA OtherKinds ==
  ASSUME NEW p
  PROVE  /\ p \in OutsidePhases => p \notin SlotPhases \cup QueuedPhases
                                          \cup ParkedPhases \cup LeftPhases
         /\ p \in QueuedPhases => p \notin SlotPhases \cup ParkedPhases \cup LeftPhases
         /\ p \in SlotPhases => p \notin QueuedPhases \cup ParkedPhases \cup LeftPhases
         /\ p \in ParkedPhases => p \notin QueuedPhases \cup SlotPhases \cup LeftPhases
         /\ p \in LeftPhases => p \notin QueuedPhases \cup SlotPhases \cup ParkedPhases
  BY Kinds

LEMMA NextOfJob ==
  ASSUME NEW j \in Jobs,
         \/ BA!Enter(j) \/ BA!Queue(j) \/ BA!Promote(j) \/ BA!Park(j)
         \/ BA!Resume(j) \/ BA!Leave(j) \/ BA!Shed(j)
  PROVE  AbstractStep
  BY DEF AbstractStep, BA!Next

LEMMA EnterMove ==
  ASSUME Sound, SlotBalance', Typed', NEW j \in Jobs, NEW p, Goto(j, p), Quiet(j),
         phase[j] \in OutsidePhases, p \in SlotPhases
  PROVE  AbstractStep
<1>1. /\ In(SlotPhases)' = In(SlotPhases) \cup {j} /\ In(QueuedPhases)' = In(QueuedPhases)
      /\ In(ParkedPhases)' = In(ParkedPhases) /\ In(LeftPhases)' = In(LeftPhases)
  BY OtherKinds, Gains, Keeps DEF Sound
<1>2. j \notin In(SlotPhases) \cup In(QueuedPhases) \cup In(ParkedPhases) \cup In(LeftPhases)
  BY OtherKinds DEF In
<1>3. Cardinality(In(SlotPhases)) < Slots
  BY <1>1, OtherKinds, SlotIsFree
<1>4. BA!SlotFree
  BY <1>3, SameCardinality DEF BA!SlotFree, In
<1>5. BA!Enter(j)
  BY <1>1, <1>2, <1>4, QuietShed
  DEF Sound, BA!Enter, BA!Outside, In, Shed, ParkedPhases, LeftPhases
<1>. QED
  BY <1>5, NextOfJob

LEMMA PromoteMove ==
  ASSUME Sound, SlotBalance', Typed', NEW j \in Jobs, NEW p, Goto(j, p), Quiet(j),
         phase[j] \in QueuedPhases, p \in SlotPhases
  PROVE  AbstractStep
<1>1. /\ In(SlotPhases)' = In(SlotPhases) \cup {j} /\ In(QueuedPhases)' = In(QueuedPhases) \ {j}
      /\ In(ParkedPhases)' = In(ParkedPhases) /\ In(LeftPhases)' = In(LeftPhases)
      /\ j \in In(QueuedPhases)
  BY OtherKinds, Gains, Loses, Keeps DEF Sound
<1>3. Cardinality(In(SlotPhases)) < Slots
  BY <1>1, OtherKinds, SlotIsFree
<1>4. BA!SlotFree
  BY <1>3, SameCardinality DEF BA!SlotFree, In
<1>5. BA!Promote(j)
  BY <1>1, <1>4, QuietShed
  DEF Sound, BA!Promote, In, Shed, ParkedPhases, LeftPhases
<1>. QED
  BY <1>5, NextOfJob

LEMMA ResumeMove ==
  ASSUME Sound, SlotBalance', Typed', NEW j \in Jobs, NEW p, Goto(j, p), Quiet(j),
         phase[j] \in ParkedPhases, p \in SlotPhases
  PROVE  AbstractStep
<1>1. /\ In(SlotPhases)' = In(SlotPhases) \cup {j} /\ In(QueuedPhases)' = In(QueuedPhases)
      /\ In(ParkedPhases)' = In(ParkedPhases) \ {j} /\ In(LeftPhases)' = In(LeftPhases)
      /\ j \in In(ParkedPhases)
  BY OtherKinds, Gains, Loses, Keeps DEF Sound
<1>3. Cardinality(In(SlotPhases)) < Slots
  BY <1>1, OtherKinds, SlotIsFree
<1>4. BA!SlotFree
  BY <1>3, SameCardinality DEF BA!SlotFree, In
<1>5. BA!Resume(j)
  BY <1>1, <1>4, QuietShed
  DEF Sound, BA!Resume, In, Shed, ParkedPhases, LeftPhases
<1>. QED
  BY <1>5, NextOfJob

LEMMA LeaveMove ==
  ASSUME Sound, NEW j \in Jobs, NEW p, Goto(j, p), Quiet(j), p \in LeftPhases,
         phase[j] \in QueuedPhases \cup SlotPhases \cup ParkedPhases
  PROVE  AbstractStep
<1>1. /\ In(SlotPhases)' = In(SlotPhases) \ {j}
      /\ In(QueuedPhases)' = In(QueuedPhases) \ {j}
      /\ In(ParkedPhases)' = In(ParkedPhases) \ {j}
      /\ In(LeftPhases)' = In(LeftPhases) \cup {j}
  BY OtherKinds DEF Sound, Typed, Goto, In
<1>2. j \in In(SlotPhases) \cup In(QueuedPhases) \cup In(ParkedPhases)
  BY DEF In
<1>3. BA!Leave(j)
  BY <1>1, <1>2, QuietShed
  DEF Sound, BA!Leave, In, Shed, ParkedPhases, LeftPhases
<1>. QED
  BY <1>3, NextOfJob

LEMMA ShedMove ==
  ASSUME Sound, NEW j \in Jobs, Goto(j, "done"), Answer(j, "busy"),
         phase[j] \in OutsidePhases \cup QueuedPhases
  PROVE  AbstractStep
<1>. DEFINE p == "done"
<1>0. p \in LeftPhases
  BY DEF LeftPhases
<1>1. /\ In(SlotPhases)' = In(SlotPhases)
      /\ In(ParkedPhases)' = In(ParkedPhases)
      /\ In(QueuedPhases)' = In(QueuedPhases) \ {j}
      /\ In(LeftPhases)' = In(LeftPhases) \cup {j}
  BY <1>0, OtherKinds DEF Sound, Typed, Goto, In
<1>2. \/ j \in In(QueuedPhases)
      \/ j \notin In(SlotPhases) \cup In(QueuedPhases) \cup In(ParkedPhases) \cup In(LeftPhases)
  BY OtherKinds DEF In
<1>3. Shed' = Shed \cup {j}
  BY DEF Sound, Typed, Answer, Shed
<1>4. BA!Shed(j)
  BY <1>1, <1>2, <1>3
  DEF BA!Shed, BA!Outside, In, Shed, ParkedPhases, LeftPhases
<1>. QED
  BY <1>4, NextOfJob

LEMMA QueueMove ==
  ASSUME Sound, PlacesAccounted', Typed', NEW j \in Jobs, NEW p, Goto(j, p), Quiet(j),
         phase[j] \in OutsidePhases, p \in QueuedPhases
  PROVE  AbstractStep
<1>1. /\ In(QueuedPhases)' = In(QueuedPhases) \cup {j} /\ In(SlotPhases)' = In(SlotPhases)
      /\ In(ParkedPhases)' = In(ParkedPhases) /\ In(LeftPhases)' = In(LeftPhases)
  BY OtherKinds, Gains, Keeps DEF Sound
<1>2. j \notin In(SlotPhases) \cup In(QueuedPhases) \cup In(ParkedPhases) \cup In(LeftPhases)
  BY OtherKinds DEF In
<1>. DEFINE counted == In(QueuedPhases) \cup In(ParkedPhases)
<1>3. Cardinality(counted) < QueueCapacity
  <2>1. counted \cup {j} \in SUBSET PlaceHolders'
    BY <1>1, Kinds DEF In, PlaceHolders
  <2>2. IsFiniteSet(PlaceHolders') /\ Cardinality(PlaceHolders') \in Nat
    <3>1. PlaceHolders' \in SUBSET Jobs
      BY DEF PlaceHolders
    <3>. QED
      BY <3>1, FS_Subset, FS_CardinalityType, ConstantsAssumption
  <2>3. IsFiniteSet(counted) /\ Cardinality(counted) \in Nat
    BY <2>1, <2>2, FS_Subset, FS_CardinalityType
  <2>4. Cardinality(counted \cup {j}) = Cardinality(counted) + 1
    BY <1>2, <2>3, FS_AddElement
  <2>5. Cardinality(counted \cup {j}) <= Cardinality(PlaceHolders')
    BY <2>1, <2>2, FS_Subset
  <2>6. waiting' \in Nat /\ waiting' + Cardinality(PlaceHolders') = QueueCapacity
    BY DEF Typed, PlacesAccounted
  <2>. QED
    BY <2>2, <2>3, <2>4, <2>5, <2>6, ConstantsAssumption
<1>4. BA!PlaceFree
  BY <1>3, SameCardinality DEF BA!PlaceFree, In, ParkedPhases
<1>5. BA!Queue(j)
  BY <1>1, <1>2, <1>4, QuietShed
  DEF Sound, BA!Queue, BA!Outside, In, Shed, ParkedPhases, LeftPhases
<1>. QED
  BY <1>5, NextOfJob

LEMMA ParkMove ==
  ASSUME Sound, NEW j \in Jobs, phase[j] = "parking", Goto(j, "parked"), Quiet(j)
  PROVE  AbstractStep
<1>0. /\ "parking" \in SlotPhases /\ "parking" \in PlacePhases
      /\ "parked" \in ParkedPhases
  BY DEF SlotPhases, PlacePhases, ParkedPhases
<1>1. /\ In(SlotPhases)' = In(SlotPhases) \ {j} /\ In(QueuedPhases)' = In(QueuedPhases)
      /\ In(ParkedPhases)' = In(ParkedPhases) \cup {j} /\ In(LeftPhases)' = In(LeftPhases)
      /\ j \in In(SlotPhases)
  BY <1>0, OtherKinds, Gains, Loses, Keeps DEF Sound
<1>2. Cardinality(In(QueuedPhases) \cup In(ParkedPhases)) < QueueCapacity
  BY <1>0, OtherKinds, PlaceIsFree DEF Sound, PlaceHolders
<1>3. BA!PlaceFree
  BY <1>2, SameCardinality DEF BA!PlaceFree, In, ParkedPhases
<1>4. BA!Park(j)
  BY <1>1, <1>3, QuietShed
  DEF Sound, BA!Park, In, Shed, ParkedPhases, LeftPhases
<1>. QED
  BY <1>4, NextOfJob

-----------------------------------------------------------------------------
(* Every step of a job is such a move. *)

KindMoves(p, q) ==
  \/ SameKind(p, q)
  \/ p \in OutsidePhases /\ q \in QueuedPhases \cup SlotPhases
  \/ p \in QueuedPhases \cup ParkedPhases /\ q \in SlotPhases
  \/ p = "parking" /\ q = "parked"
  \/ p \in QueuedPhases \cup SlotPhases \cup ParkedPhases /\ q \in LeftPhases

Moves(j) ==
  \/ phase' = phase /\ Quiet(j)
  \/ \E p : phase[j] # "done" /\ KindMoves(phase[j], p) /\ Goto(j, p) /\ Quiet(j)
  \/ /\ phase[j] \in OutsidePhases \cup QueuedPhases
     /\ Goto(j, "done") /\ Answer(j, "busy")

LEMMA JobMoves ==
  ASSUME Typed, BusyIsDone, NEW j \in Jobs, Progress(j) \/ Environment(j)
  PROVE  Moves(j)
<1>a. phase[j] # "done" => outcome[j] # "busy"
  BY DEF BusyIsDone
<1>b. /\ OutsidePhases = {"new", "fast", "fastSlot", "place"}
      /\ QueuedPhases = {"register", "check", "try", "asleep", "ask", "queued"}
      /\ SlotPhases = {"admitted", "dispatched", "running", "blocked", "parking",
                       "resuming"}
      /\ ParkedPhases = {"parked", "retake"}
      /\ LeftPhases = {"slotless", "done"}
  BY DEF OutsidePhases, QueuedPhases, SlotPhases, ParkedPhases, LeftPhases, PlacePhases
<1>1. CASE Arrive(j)
  BY <1>1, <1>a, <1>b DEF Arrive, Moves, KindMoves, SameKind, Quiet
<1>2. CASE FastReserve(j)
  BY <1>2, <1>a, <1>b DEF FastReserve, Moves, KindMoves, SameKind, Quiet
<1>3. CASE FastSlot(j)
  BY <1>3, <1>a, <1>b DEF FastSlot, Moves, KindMoves, SameKind, Quiet
<1>4. CASE TakePlace(j)
  BY <1>4, <1>a, <1>b DEF TakePlace, Moves, KindMoves, SameKind, Quiet
<1>5. CASE Register(j)
  BY <1>5, <1>a, <1>b DEF Register, Moves, KindMoves, SameKind, Quiet
<1>6. CASE CheckFits(j)
  BY <1>6, <1>a, <1>b DEF CheckFits, Moves, KindMoves, SameKind, Quiet
<1>7. CASE TryReserve(j)
  BY <1>7, <1>a, <1>b DEF TryReserve, Moves, KindMoves, SameKind, Quiet
<1>8. CASE Wake(j)
  BY <1>8, <1>a, <1>b DEF Wake, Moves, KindMoves, SameKind, Quiet
<1>9. CASE AskSlot(j)
  BY <1>9, <1>a, <1>b DEF AskSlot, TakeSlotOr, Moves, KindMoves, SameKind, Quiet
<1>10. CASE Granted(j)
  BY <1>10, <1>a, <1>b DEF Granted, Moves, KindMoves, SameKind, Quiet
<1>11. CASE DropPlace(j)
  BY <1>11, <1>a, <1>b DEF DropPlace, Moves, KindMoves, SameKind, Quiet
<1>12. CASE Start(j)
  BY <1>12, <1>a, <1>b DEF Start, Moves, KindMoves, SameKind, Quiet
<1>13. CASE GiveSlot(j)
  BY <1>13, <1>a, <1>b DEF GiveSlot, Moves, KindMoves, SameKind, Quiet
<1>14. CASE EndWait(j)
  BY <1>14, <1>a, <1>b DEF EndWait, TakeSlotOr, Moves, KindMoves, SameKind, Quiet
<1>15. CASE Finish(j)
  BY <1>15, <1>a, <1>b DEF Finish, Moves, KindMoves, SameKind, Quiet
<1>16. CASE Deliver(j)
  BY <1>16 DEF Deliver, Moves, Quiet
<1>17. CASE Expire(j)
  BY <1>17 DEF Expire, Moves, Quiet
<1>18. CASE BeginWait(j)
  BY <1>18, <1>a, <1>b DEF BeginWait, Moves, KindMoves, SameKind, Quiet
<1>19. CASE QueueTimeout(j)
  BY <1>19, <1>a, <1>b DEF QueueTimeout, LeaveQueue, Moves, KindMoves, SameKind, Quiet
<1>20. CASE RetakeTimeout(j)
  BY <1>20, <1>a, <1>b DEF RetakeTimeout, Moves, KindMoves, SameKind, Quiet
<1>21. CASE DisconnectQueued(j)
  BY <1>21, <1>a, <1>b DEF DisconnectQueued, LeaveQueue, Moves, KindMoves, SameKind, Quiet
<1>22. CASE DisconnectRunning(j)
  BY <1>22 DEF DisconnectRunning, Moves, Quiet
<1>. QED
  BY <1>1, <1>2, <1>3, <1>4, <1>5, <1>6, <1>7, <1>8, <1>9, <1>10, <1>11, <1>12, <1>13, <1>14, <1>15, <1>16, <1>17, <1>18, <1>19, <1>20, <1>21, <1>22
  DEF Progress, Environment

LEMMA MovesBusy ==
  ASSUME Typed, BusyIsDone, NEW j \in Jobs, Moves(j)
  PROVE  BusyIsDone'
<1>1. CASE phase' = phase /\ Quiet(j)
  BY <1>1 DEF Typed, BusyIsDone, Quiet, Answer
<1>2. ASSUME NEW p, phase[j] # "done", Goto(j, p), Quiet(j)
      PROVE  BusyIsDone'
  BY <1>2 DEF Typed, BusyIsDone, Quiet, Answer, Goto
<1>3. CASE Goto(j, "done") /\ Answer(j, "busy")
  BY <1>3 DEF Typed, BusyIsDone, Answer, Goto
<1>. QED
  BY <1>1, <1>2, <1>3 DEF Moves

LEMMA MovesAbstract ==
  ASSUME Sound, Sound', NEW j \in Jobs, Moves(j)
  PROVE  AbstractStep
<1>1. CASE phase' = phase /\ Quiet(j)
  BY <1>1, StayMove DEF Sound
<1>2. ASSUME NEW p, KindMoves(phase[j], p), Goto(j, p), Quiet(j)
      PROVE  AbstractStep
  <2>1. CASE SameKind(phase[j], p)
    BY <1>2, <2>1, StutterMove DEF Sound
  <2>2. CASE phase[j] \in OutsidePhases /\ p \in QueuedPhases
    BY <1>2, <2>2, QueueMove DEF Sound
  <2>3. CASE phase[j] \in OutsidePhases /\ p \in SlotPhases
    BY <1>2, <2>3, EnterMove DEF Sound
  <2>4. CASE phase[j] \in QueuedPhases /\ p \in SlotPhases
    BY <1>2, <2>4, PromoteMove DEF Sound
  <2>5. CASE phase[j] \in ParkedPhases /\ p \in SlotPhases
    BY <1>2, <2>5, ResumeMove DEF Sound
  <2>6. CASE phase[j] = "parking" /\ p = "parked"
    BY <1>2, <2>6, ParkMove
  <2>7. CASE /\ phase[j] \in QueuedPhases \cup SlotPhases \cup ParkedPhases
             /\ p \in LeftPhases
    BY <1>2, <2>7, LeaveMove
  <2>. QED
    BY <1>2, <2>1, <2>2, <2>3, <2>4, <2>5, <2>6, <2>7 DEF KindMoves
<1>3. CASE /\ phase[j] \in OutsidePhases \cup QueuedPhases
           /\ Goto(j, "done") /\ Answer(j, "busy")
  BY <1>3, ShedMove
<1>. QED
  BY <1>1, <1>2, <1>3 DEF Moves

LEMMA NextSound ==
  ASSUME Sound, [Next]_vars
  PROVE  Sound'
<1>1. BusyIsDone'
  <2>1. CASE \E j \in Jobs : Progress(j) \/ Environment(j)
    BY <2>1, JobMoves, MovesBusy DEF Sound
  <2>2. CASE ~ \E j \in Jobs : Progress(j) \/ Environment(j)
    BY <2>2 DEF Sound, BusyIsDone, Next, Resize, NotifyWaiters, Quiescent, vars
  <2>. QED
    BY <2>1, <2>2
<1>. QED
  BY <1>1, NextTyped, NextPlaces, NextSlots DEF Sound

LEMMA InitSound == Init => Sound
<1>1. Init => BusyIsDone
  BY DEF Init, BusyIsDone
<1>. QED
  BY <1>1, InitTyped, InitPlaces, InitSlots DEF Sound

LEMMA NextAbstract ==
  ASSUME Sound, Sound', [Next]_vars
  PROVE  AbstractStep
<1>1. CASE \E j \in Jobs : Progress(j) \/ Environment(j)
  BY <1>1, JobMoves, MovesAbstract DEF Sound
<1>2. CASE ~ \E j \in Jobs : Progress(j) \/ Environment(j)
  <2>1. phase' = phase /\ outcome' = outcome
    BY <1>2 DEF Next, Resize, NotifyWaiters, Quiescent, vars
  <2>. QED
    BY <2>1 DEF AbstractStep, BA!vars
<1>. QED
  BY <1>1, <1>2

LEMMA InitAbstract == Init => BA!Init
  BY DEF Init, BA!Init, SlotPhases, QueuedPhases, PlacePhases

(* The executor keeps its promise: at most Slots jobs run, at most
   QueueCapacity wait for admission or without their slot, and a job that has
   run is never told "Server busy". *)
THEOREM ImplementsBoundedAdmission == Spec => RefinesBoundedAdmission
<1>1. Sound /\ Sound' /\ [Next]_vars => [BA!Next]_(BA!vars)
  BY NextAbstract DEF AbstractStep
<1>. QED
  BY <1>1, InitSound, NextSound, InitAbstract, PTL
  DEF Spec, RefinesBoundedAdmission, BA!Spec
=============================================================================
