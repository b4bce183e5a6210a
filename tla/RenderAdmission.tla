-------------------------- MODULE RenderAdmission --------------------------
(***************************************************************************)
(* The admission of render jobs by crate ds-executor: RenderJob::acquire   *)
(* and its siblings, run / run_query, wait_without_slot, and the waiting   *)
(* memory budget RenderBudget they reserve from.                           *)
(*                                                                         *)
(* A job is one HTTP request's render.  Its `phase` is the point of the    *)
(* code it has reached.  An action ends where another thread may see what  *)
(* the job has done so far: after an atomic, a semaphore operation or an   *)
(* await.  Only the releases at the end of a future or a worker (memory,   *)
(* slot, queue place, one after the other) are taken as one step.          *)
(*                                                                         *)
(* An operator whose name ends in Slip is a plausible mistake in the       *)
(* definition that follows it.  No action uses one: swapping it in shows   *)
(* that the property named in its comment would notice.                    *)
(***************************************************************************)
EXTENDS Integers, Sequences, FiniteSets, SequencesExt

CONSTANTS
  Jobs,            \* the requests of one run
  Bytes,           \* Bytes[j]: what j reserves; 0 for acquire / acquire_volume
  Slots,           \* permits of RENDER_SLOTS
  QueueCapacity,   \* permits of WAITING
  Capacities,      \* the sizes the memory plan may give the budget
  MaxResizes,      \* bound: budget resizes in one behaviour
  MaxWaits         \* bound: wait_without_slot calls of one worker

ASSUME ConstantsAssumption ==
  /\ IsFiniteSet(Jobs)
  /\ Bytes \in [Jobs -> Nat]
  /\ Slots \in Nat \ {0}
  /\ QueueCapacity \in Nat
  /\ Capacities # {} /\ Capacities \subseteq Nat
  /\ MaxResizes \in Nat
  /\ MaxWaits \in Nat

VARIABLES
  phase,       \* where each job is
  outcome,     \* what its client got
  expired,     \* jobs whose deadline has passed
  waits,       \* wait_without_slot calls a worker has made
  used,        \* RenderBudget.used
  capacity,    \* RenderBudget.capacity
  releasing,   \* permits dropped whose notify_waiters has yet to run
  resizing,    \* a resize has stored the capacity and has yet to notify
  resizes,     \* resizes so far
  notified,    \* jobs whose registered Notified future has been woken
  slots,       \* free permits of RENDER_SLOTS
  line,        \* acquirers queued in RENDER_SLOTS, oldest first
  granted,     \* acquirers handed a permit they have not polled yet
  waiting,     \* free permits of WAITING
  count        \* the counters of /metrics

budget == <<used, capacity, releasing, resizing, resizes, notified>>
slotState == <<slots, line, granted>>
vars == <<phase, outcome, expired, waits, budget, slotState, waiting, count>>

-----------------------------------------------------------------------------
(* What a job holds follows from where it is. *)

(* A job that changes between a slot and a queue place holds both for a
   moment: admitted, parking, resuming. *)
SlotPhases == {"admitted", "dispatched", "running", "blocked",
               "parking", "resuming"}
PlacePhases == {"register", "check", "try", "asleep", "ask", "queued",
                "admitted", "parking", "parked", "retake", "resuming"}
MemoryPhases == {"fastSlot", "ask", "queued", "parked", "retake", "slotless"}
                  \cup SlotPhases
Phases == {"new", "fast", "place", "done"}
            \cup SlotPhases \cup PlacePhases \cup MemoryPhases
Outcomes == {"none", "served", "busy", "timeout", "gone"}
Counters == {"rejected", "oversize", "memoryExpired", "timedOutQueue",
             "timedOutRender"}

SlotHolders == {j \in Jobs : phase[j] \in SlotPhases} \cup granted
PlaceHolders == {j \in Jobs : phase[j] \in PlacePhases}
MemoryHolders == {j \in Jobs : phase[j] \in MemoryPhases}

(* EveryJobEnds: enable() left to the await, so nothing is registered while
   the job checks. *)
RegisteredSlip == {j \in Jobs : phase[j] = "asleep"}
(* The states in which a Notified future of the job is registered. *)
Registered == {j \in Jobs : phase[j] \in {"check", "try", "asleep"}}

Fits(j) == Bytes[j] <= capacity
(* NeverOvercommits: testing the balance before the charge. *)
HasRoomSlip(j) == used < capacity
HasRoom(j) == used + Bytes[j] <= capacity

Init ==
  /\ phase = [j \in Jobs |-> "new"]
  /\ outcome = [j \in Jobs |-> "none"]
  /\ expired = {}
  /\ waits = [j \in Jobs |-> 0]
  /\ used = 0
  /\ capacity \in Capacities
  /\ releasing = 0
  /\ resizing = FALSE
  /\ resizes = 0
  /\ notified = {}
  /\ slots = Slots
  /\ line = <<>>
  /\ granted = {}
  /\ waiting = QueueCapacity
  /\ count = [c \in Counters |-> 0]

-----------------------------------------------------------------------------
(* Pieces of the actions. *)

Goto(j, p) == phase' = [phase EXCEPT ![j] = p]

Answer(j, o) == outcome' = [outcome EXCEPT ![j] = o]

Bump(counters) ==
  count' = [c \in Counters |-> IF c \in counters THEN count[c] + 1 ELSE count[c]]

(* RenderBudget::try_reserve, once it fits. *)
Reserve(j) ==
  /\ used' = used + Bytes[j]
  /\ UNCHANGED <<capacity, releasing, resizing, resizes, notified>>

(* NoLostWakeup: a drop that forgets notify_waiters. *)
DropReservationSlip(j) ==
  /\ used' = used - Bytes[j]
  /\ UNCHANGED <<capacity, releasing, resizing, resizes, notified>>
(* RenderPermit::drop: fetch_sub now, notify_waiters as a later step.  A job
   without memory has no permit to drop. *)
DropReservation(j) ==
  /\ used' = used - Bytes[j]
  /\ releasing' = IF Bytes[j] = 0 THEN releasing ELSE releasing + 1
  /\ UNCHANGED <<capacity, resizing, resizes, notified>>

(* A permit goes back to the FIFO semaphore: to the oldest acquirer in line
   if there is one.  `holders` are the granted jobs left once it is back. *)
ReturnSlot(holders) ==
  \/ /\ line = <<>>
     /\ slots' = slots + 1
     /\ granted' = holders
     /\ UNCHANGED line
  \/ /\ line # <<>>
     /\ granted' = holders \cup {Head(line)}
     /\ line' = Tail(line)
     /\ UNCHANGED slots

(* SlotsAccounted: the permit already handed to a dropped future is lost. *)
AbandonSlotLeakSlip(j) ==
  \/ /\ j \in granted
     /\ granted' = granted \ {j}
     /\ UNCHANGED <<slots, line>>
  \/ /\ j \notin granted
     /\ \E p \in 1..Len(line) : line[p] = j /\ line' = RemoveAt(line, p)
     /\ UNCHANGED <<slots, granted>>
(* LineAccounted: the dropped future stays in the line. *)
AbandonSlotGhostSlip(j) ==
  \/ /\ j \in granted
     /\ ReturnSlot(granted \ {j})
  \/ /\ j \notin granted
     /\ UNCHANGED slotState
(* An acquire future is dropped: it leaves the line, or passes on the permit
   it was handed. *)
AbandonSlot(j) ==
  \/ /\ j \in granted
     /\ ReturnSlot(granted \ {j})
  \/ /\ j \notin granted
     /\ \E p \in 1..Len(line) : line[p] = j /\ line' = RemoveAt(line, p)
     /\ UNCHANGED <<slots, granted>>

(* The first poll of an acquire: a free permit, or a place in the line. *)
TakeSlotOr(j, taken, queued) ==
  \/ /\ slots > 0
     /\ slots' = slots - 1
     /\ Goto(j, taken)
     /\ UNCHANGED <<line, granted>>
  \/ /\ slots = 0
     /\ line' = Append(line, j)
     /\ Goto(j, queued)
     /\ UNCHANGED <<slots, granted>>

-----------------------------------------------------------------------------
(* Admission: acquire_bytes_on, and acquire_on for a job without memory. *)

(* The request arrives; its deadline starts.  One that can never fit is shed
   before it may take a place in the queue. *)
Arrive(j) ==
  /\ phase[j] = "new"
  /\ \/ /\ ~Fits(j)
        /\ Goto(j, "done") /\ Answer(j, "busy") /\ Bump({"oversize"})
     \/ /\ Fits(j)
        /\ Goto(j, IF Bytes[j] = 0 THEN "fastSlot" ELSE "fast")
        /\ UNCHANGED <<outcome, count>>
  /\ UNCHANGED <<expired, waits, budget, slotState, waiting>>

FastReserve(j) ==
  /\ phase[j] = "fast"
  /\ \/ HasRoom(j) /\ Reserve(j) /\ Goto(j, "fastSlot")
     \/ ~HasRoom(j) /\ Goto(j, "place") /\ UNCHANGED budget
  /\ UNCHANGED <<outcome, expired, waits, slotState, waiting, count>>

(* MemoryAccounted: the job queues for memory with the fast path's
   reservation forgotten, not dropped. *)
FastSlotSlip(j) ==
  /\ phase[j] = "fastSlot"
  /\ \/ /\ slots > 0
        /\ slots' = slots - 1
        /\ Goto(j, "dispatched")
        /\ UNCHANGED <<line, granted>>
     \/ /\ slots = 0
        /\ Goto(j, "place")
        /\ UNCHANGED slotState
  /\ UNCHANGED <<outcome, expired, waits, budget, waiting, count>>
(* try_acquire_owned: without a slot the fast path's reservation is dropped
   and the job queues for both. *)
FastSlot(j) ==
  /\ phase[j] = "fastSlot"
  /\ \/ /\ slots > 0
        /\ slots' = slots - 1
        /\ Goto(j, "dispatched")
        /\ UNCHANGED <<budget, line, granted>>
     \/ /\ slots = 0
        /\ Goto(j, "place")
        /\ DropReservation(j)
        /\ UNCHANGED slotState
  /\ UNCHANGED <<outcome, expired, waits, waiting, count>>

TakePlace(j) ==
  /\ phase[j] = "place"
  /\ \/ /\ waiting > 0
        /\ waiting' = waiting - 1
        /\ Goto(j, IF Bytes[j] = 0 THEN "ask" ELSE "register")
        /\ UNCHANGED <<outcome, count>>
     \/ /\ waiting = 0
        /\ Goto(j, "done") /\ Answer(j, "busy") /\ Bump({"rejected"})
        /\ UNCHANGED waiting
  /\ UNCHANGED <<expired, waits, budget, slotState>>

(* RenderBudget::reserve, one turn of its loop: enable() a fresh Notified,
   look at the capacity, try to reserve, else sleep until notified. *)
Register(j) ==
  /\ phase[j] = "register"
  /\ Goto(j, "check")
  /\ notified' = notified \ {j}
  /\ UNCHANGED <<outcome, expired, waits, used, capacity, releasing, resizing,
                 resizes, slotState, waiting, count>>

CheckFits(j) ==
  /\ phase[j] = "check"
  /\ \/ /\ Fits(j)
        /\ Goto(j, "try")
        /\ UNCHANGED <<outcome, waiting, count>>
     \/ /\ ~Fits(j)
        /\ Goto(j, "done") /\ Answer(j, "busy") /\ Bump({"oversize"})
        /\ waiting' = waiting + 1
  /\ UNCHANGED <<expired, waits, budget, slotState>>

TryReserve(j) ==
  /\ phase[j] = "try"
  /\ \/ HasRoom(j) /\ Reserve(j) /\ Goto(j, "ask")
     \/ ~HasRoom(j) /\ Goto(j, "asleep") /\ UNCHANGED budget
  /\ UNCHANGED <<outcome, expired, waits, slotState, waiting, count>>

Wake(j) ==
  /\ phase[j] = "asleep"
  /\ j \in notified
  /\ Goto(j, "register")
  /\ UNCHANGED <<outcome, expired, waits, budget, slotState, waiting, count>>

(* slots.acquire_owned(): a permit, or the line. *)
AskSlot(j) ==
  /\ phase[j] = "ask"
  /\ TakeSlotOr(j, "admitted", "queued")
  /\ UNCHANGED <<outcome, expired, waits, budget, waiting, count>>

(* A queued acquire is polled and has been handed its permit: of a new
   request, or of a worker that waited without its slot. *)
Granted(j) ==
  /\ \/ phase[j] = "queued" /\ Goto(j, "admitted")
     \/ phase[j] = "retake" /\ Goto(j, "resuming")
  /\ j \in granted
  /\ granted' = granted \ {j}
  /\ UNCHANGED <<outcome, expired, waits, budget, slots, line, waiting, count>>

(* The queue place is dropped, once the slot is held: acquire returns and the
   handler dispatches the worker in the same poll, or the worker goes on. *)
DropPlace(j) ==
  /\ \/ phase[j] = "admitted" /\ Goto(j, "dispatched")
     \/ phase[j] = "resuming" /\ Goto(j, "running")
  /\ waiting' = waiting + 1
  /\ UNCHANGED <<outcome, expired, waits, budget, slotState, count>>

(* The acquire future ends unadmitted, at the deadline or because its client
   disconnected: everything it holds goes back. *)
LeaveQueue(j) ==
  /\ \/ phase[j] = "asleep" /\ UNCHANGED <<budget, slotState>>
     \/ phase[j] = "queued" /\ DropReservation(j) /\ AbandonSlot(j)
  /\ Goto(j, "done")
  /\ waiting' = waiting + 1
  /\ UNCHANGED <<expired, waits>>

(* timeout_at polls the acquire, then its timer: another thread may notify the
   job, or hand it its permit, between the two. *)
QueueTimeout(j) ==
  /\ j \in expired
  /\ LeaveQueue(j)
  /\ Answer(j, "timeout")
  /\ Bump(IF phase[j] = "asleep" THEN {"memoryExpired", "timedOutQueue"}
                                 ELSE {"timedOutQueue"})

DisconnectQueued(j) ==
  /\ LeaveQueue(j)
  /\ Answer(j, "gone")
  /\ UNCHANGED count

-----------------------------------------------------------------------------
(* The worker: RenderJob::worker on a pool thread, and wait_without_slot. *)

(* CountedOnce: the worker counts the expiry it finds, and so does `join`. *)
StartSlip(j) ==
  /\ phase[j] = "dispatched"
  /\ \/ /\ outcome[j] = "none" /\ j \notin expired
        /\ Goto(j, "running")
        /\ UNCHANGED <<budget, slotState, count>>
     \/ /\ outcome[j] # "none" \/ j \in expired
        /\ Goto(j, "done")
        /\ DropReservation(j)
        /\ ReturnSlot(granted)
        /\ Bump({"timedOutRender"})
  /\ UNCHANGED <<outcome, expired, waits, waiting>>
(* The worker's thread picks it up.  A task aborted while it waited for one
   (its client has its answer or is gone) is dropped unstarted, and one past
   its deadline returns at once; both release everything. *)
Start(j) ==
  /\ phase[j] = "dispatched"
  /\ \/ /\ outcome[j] = "none" /\ j \notin expired
        /\ Goto(j, "running")
        /\ UNCHANGED <<budget, slotState>>
     \/ /\ outcome[j] # "none" \/ j \in expired
        /\ Goto(j, "done")
        /\ DropReservation(j)
        /\ ReturnSlot(granted)
  /\ UNCHANGED <<outcome, expired, waits, waiting, count>>

(* RefinesBoundedAdmission: with the queue full the slot is given up too. *)
BeginWaitSlip(j) ==
  /\ phase[j] = "running"
  /\ waiting' = waiting - 1
  /\ Goto(j, "parking")
  /\ UNCHANGED <<outcome, expired, budget, slotState, count>>
(* wait_without_slot takes a queue place first; with the queue full the job
   keeps its slot and waits in it. *)
BeginWait(j) ==
  /\ phase[j] = "running"
  /\ \/ /\ waiting > 0
        /\ waiting' = waiting - 1
        /\ Goto(j, "parking")
     \/ /\ waiting = 0
        /\ Goto(j, "blocked")
        /\ UNCHANGED waiting
  /\ UNCHANGED <<outcome, expired, budget, slotState, count>>

(* The bound on the waits of one worker. *)
CountWait(j) ==
  /\ waits[j] < MaxWaits
  /\ waits' = [waits EXCEPT ![j] = @ + 1]

(* Only then does it drop its slot. *)
GiveSlot(j) ==
  /\ phase[j] = "parking"
  /\ Goto(j, "parked")
  /\ ReturnSlot(granted)
  /\ UNCHANGED <<outcome, expired, waits, budget, waiting, count>>

(* `wait` returns: a parked job takes a slot again, behind the line. *)
EndWait(j) ==
  /\ \/ phase[j] = "blocked" /\ Goto(j, "running") /\ UNCHANGED slotState
     \/ phase[j] = "parked" /\ TakeSlotOr(j, "resuming", "retake")
  /\ UNCHANGED <<outcome, expired, waits, budget, waiting, count>>

(* PlacesAccounted: the error path keeps the queue place. *)
RetakeTimeoutSlip(j) ==
  /\ phase[j] = "retake"
  /\ j \in expired
  /\ AbandonSlot(j)
  /\ Goto(j, "slotless")
  /\ UNCHANGED <<outcome, expired, waits, budget, waiting, count>>
(* block_until gives up at the deadline: the worker goes on, to return
   DeadlineExceeded, with neither slot nor queue place. *)
RetakeTimeout(j) ==
  /\ phase[j] = "retake"
  /\ j \in expired
  /\ AbandonSlot(j)
  /\ waiting' = waiting + 1
  /\ Goto(j, "slotless")
  /\ UNCHANGED <<outcome, expired, waits, budget, count>>

(* TypeOK: a worker that lost its slot in wait_without_slot returns it again. *)
FinishSlip(j) ==
  /\ phase[j] \in {"running", "slotless"}
  /\ ReturnSlot(granted)
  /\ Goto(j, "done")
  /\ DropReservation(j)
  /\ UNCHANGED <<outcome, expired, waits, waiting, count>>
(* The worker returns or unwinds: its reservation and its slot drop. *)
Finish(j) ==
  /\ \/ phase[j] = "running" /\ ReturnSlot(granted)
     \/ phase[j] = "slotless" /\ UNCHANGED slotState
  /\ Goto(j, "done")
  /\ DropReservation(j)
  /\ UNCHANGED <<outcome, expired, waits, waiting, count>>

-----------------------------------------------------------------------------
(* The client's side of a dispatched job: `join`. *)

InPool(j) ==
  phase[j] \in (SlotPhases \ {"admitted"}) \cup {"parked", "retake", "slotless"}

(* The result is there, or the deadline passed first: counted once, here. *)
Deliver(j) ==
  /\ outcome[j] = "none"
  /\ \/ /\ phase[j] = "done" /\ j \notin expired
        /\ Answer(j, "served")
        /\ UNCHANGED count
     \/ /\ phase[j] = "done" \/ InPool(j)
        /\ j \in expired
        /\ Answer(j, "timeout")
        /\ Bump({"timedOutRender"})
  /\ UNCHANGED <<phase, expired, waits, budget, slotState, waiting>>

DisconnectRunning(j) ==
  /\ outcome[j] = "none"
  /\ InPool(j)
  /\ Answer(j, "gone")
  /\ UNCHANGED <<phase, expired, waits, budget, slotState, waiting, count>>

-----------------------------------------------------------------------------
(* The environment, and the budget's notifications. *)

Expire(j) ==
  /\ phase[j] # "new" /\ j \notin expired
  /\ phase[j] # "done" \/ outcome[j] = "none"
  /\ expired' = expired \cup {j}
  /\ UNCHANGED <<phase, outcome, waits, budget, slotState, waiting, count>>

(* RenderBudget::resize stores the capacity, then notifies. *)
Resize(c) ==
  /\ ~resizing /\ resizes < MaxResizes
  /\ c # capacity
  /\ capacity' = c
  /\ resizing' = TRUE
  /\ resizes' = resizes + 1
  /\ UNCHANGED <<phase, outcome, expired, waits, used, releasing, notified,
                 slotState, waiting, count>>

(* notify_waiters wakes what is registered now, and nobody later. *)
NotifyWaiters ==
  /\ \/ releasing > 0 /\ releasing' = releasing - 1 /\ UNCHANGED resizing
     \/ resizing /\ resizing' = FALSE /\ UNCHANGED releasing
  /\ notified' = notified \cup Registered
  /\ UNCHANGED <<phase, outcome, expired, waits, used, capacity, resizes,
                 slotState, waiting, count>>

(* Every request has been answered and every worker has returned. *)
Quiescent ==
  /\ \A j \in Jobs : phase[j] = "done" /\ outcome[j] # "none"
  /\ releasing = 0 /\ ~resizing
  /\ UNCHANGED vars

-----------------------------------------------------------------------------
(* What the executor and its pools do once they can; waits end because the
   work they wait for does (module CellBuild shows it for the one caller). *)
Progress(j) ==
  \/ FastReserve(j) \/ FastSlot(j) \/ TakePlace(j)
  \/ Register(j) \/ CheckFits(j) \/ TryReserve(j) \/ Wake(j)
  \/ AskSlot(j) \/ Granted(j) \/ DropPlace(j)
  \/ Start(j) \/ GiveSlot(j) \/ EndWait(j) \/ Finish(j)
  \/ Deliver(j)

Environment(j) ==
  \/ Arrive(j) \/ Expire(j)
  \/ BeginWait(j) /\ CountWait(j)
  \/ QueueTimeout(j) \/ RetakeTimeout(j)
  \/ DisconnectQueued(j) \/ DisconnectRunning(j)

Next ==
  \/ \E j \in Jobs : Progress(j) \/ Environment(j)
  \/ \E c \in Capacities : Resize(c)
  \/ NotifyWaiters
  \/ Quiescent

Spec == Init /\ [][Next]_vars

(* Deadlines and disconnects have no fairness: nothing may depend on them. *)
FairSpec ==
  /\ Spec
  /\ WF_vars(NotifyWaiters)
  /\ \A j \in Jobs : WF_vars(Progress(j))

-----------------------------------------------------------------------------
(* Properties. *)

TypeOK ==
  /\ phase \in [Jobs -> Phases]
  /\ outcome \in [Jobs -> Outcomes]
  /\ expired \subseteq Jobs
  /\ waits \in [Jobs -> 0..MaxWaits]
  /\ used \in Nat
  /\ capacity \in Capacities
  /\ releasing \in Nat
  /\ resizing \in BOOLEAN
  /\ resizes \in 0..MaxResizes
  /\ notified \subseteq Jobs
  /\ slots \in 0..Slots
  /\ line \in Seq(Jobs)
  /\ granted \subseteq Jobs
  /\ waiting \in 0..QueueCapacity
  /\ count \in [Counters -> Nat]

(* Every render slot is free or held by exactly one job, whatever way the
   job's acquire, worker or wait ended: RAII on every path, including a
   permit handed to a future that is then dropped. *)
SlotsAccounted == slots + Cardinality(SlotHolders) = Slots

(* The jobs queued for a slot are those in a queueing phase not yet handed
   one, each once. *)
LineAccounted ==
  /\ \A p, q \in 1..Len(line) : line[p] = line[q] => p = q
  /\ {line[p] : p \in 1..Len(line)} \cup granted
       = {j \in Jobs : phase[j] \in {"queued", "retake"}}
  /\ \A p \in 1..Len(line) : line[p] \notin granted
  /\ slots > 0 => line = <<>>

(* Every queue place is free or held by one waiting job, parked workers
   included, so the queue bounds the renders admitted at once. *)
PlacesAccounted == waiting + Cardinality(PlaceHolders) = QueueCapacity

(* RenderBudget.used is what the jobs hold, byte for byte. *)
ChargedBytes == UNION {{j} \X (1..Bytes[j]) : j \in MemoryHolders}
MemoryAccounted == used = Cardinality(ChargedBytes)

(* A job asleep on the budget that could be admitted, or must be shed, has
   been notified or is about to be: no release and no resize is lost between
   its check and its sleep (the enable() before the check, #1311). *)
NoLostWakeup ==
  \A j \in Jobs :
    phase[j] = "asleep" /\ j \notin notified /\ (HasRoom(j) \/ ~Fits(j))
      => releasing > 0 \/ resizing

(* Every expiry is counted once, at the stage it happened in, and every shed
   request once: a client that left is never counted. *)
CountedOnce ==
  LET Ended(o) == Cardinality({j \in Jobs : outcome[j] = o}) IN
  /\ count["timedOutQueue"] + count["timedOutRender"] = Ended("timeout")
  /\ count["rejected"] + count["oversize"] = Ended("busy")
  /\ count["memoryExpired"] <= count["timedOutQueue"]

(* Admission never grants memory beyond the capacity of that moment, so what
   is reserved above a shrunk budget only falls. *)
NeverOvercommits == [][used' > used => used' <= capacity]_vars

(* What the executor promises its callers, whatever its locks and counters
   do: module BoundedAdmission. *)
QueuedPhases == PlacePhases \ (SlotPhases \cup {"parked", "retake"})
BA == INSTANCE BoundedAdmission WITH
        running <- {j \in Jobs : phase[j] \in SlotPhases},
        queued <- {j \in Jobs : phase[j] \in QueuedPhases},
        parked <- {j \in Jobs : phase[j] \in {"parked", "retake"}},
        left <- {j \in Jobs : phase[j] \in {"slotless", "done"}},
        shed <- {j \in Jobs : outcome[j] = "busy"}
RefinesBoundedAdmission == BA!Spec

(* Every request ends and its worker returns, though no deadline ever fires:
   no wake-up is lost, no job waits for a slot nobody will return. *)
EveryJobEnds ==
  \A j \in Jobs :
    phase[j] # "new" ~> phase[j] = "done" /\ outcome[j] # "none"
=============================================================================
