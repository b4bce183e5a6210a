------------------------- MODULE ServerReloadProofs -------------------------
(***************************************************************************)
(* For any collections, configurations, clients and number of edits: loads *)
(* are serialized, no poll loop sleeps through its shutdown, the engines   *)
(* polled between loads are those registered, and a derived engine reads   *)
(* the registered engine of its source.                                    *)
(***************************************************************************)
EXTENDS ServerReload, TLAPS

(* The engine is polled and will go on being polled.                       *)
Polled(c, s) == loop[<<c, s>>] # "none" /\ ~fired[<<c, s>>]

(* Whoever runs a load or the stop holds the lock.                         *)
LockInv == \A a \in Actors : pc[a] \in Holding => lock = a

(* A shutdown is between flag and wake-up only while someone is about to   *)
(* wake, and a loop that is parked with its flag set is the one to be.     *)
RingInv ==
  /\ ringing # None => /\ \E a \in Actors : pc[a] = "notify"
                       /\ fired[<<ringing, live[ringing]>>]
  /\ \A c \in Collections, s \in Slots :
       loop[<<c, s>>] = "parked" /\ fired[<<c, s>>] => ringing = c /\ live[c] = s

(* Between loads the engines polled are the live ones.  In the rotation    *)
(* those still to be rotated are live, their successors not yet polled,    *)
(* and of the others exactly the new ones are polled.                      *)
RestInv ==
  (\A a \in Actors : pc[a] \notin Rotating) =>
    \A c \in Collections, s \in Slots : (live[c] = s) <=> Polled(c, s)

RotateInv ==
  (\E a \in Actors : pc[a] \in Rotating) =>
    \A c \in Collections, s \in Slots :
      /\ c \in todo => /\ new[c] # live[c]
                       /\ Polled(c, s) => live[c] = s
                       /\ new[c] = s => loop[<<c, s>>] = "none" /\ ~fired[<<c, s>>]
      /\ c \notin todo => ((new[c] = s) <=> Polled(c, s))

NewInv ==
  /\ (\A l \in Loaders : pc[l] \notin Rotating) => new = Nobody
  /\ pc["main"] = "down" => todo = {}

(* Engines read registered ones, those to be registered included.          *)
ReadsFrom(engines) ==
  \A c \in Collections :
    Source[c] # None /\ engines[c] # None =>
      engines[Source[c]] # None /\ reads[<<c, engines[c]>>] = engines[Source[c]]

ReadInv == ReadsFrom(live) /\ ReadsFrom(new)

(* A load applies what it read of the file, the recovery loop's what is    *)
(* accepted.                                                               *)
Loading == {"build", "rotate", "notify"}

WantInv ==
  /\ pc["recovery"] # "read"
  /\ \A l \in Loaders : pc[l] \in Loading =>
       want = IF l = "recovery" THEN accepted ELSE considered

IInv == TypeOK /\ LockInv /\ RingInv /\ RestInv /\ RotateInv /\ NewInv /\ ReadInv /\ WantInv

-----------------------------------------------------------------------------
(* Types. *)

LEMMA InitTyped == Init => TypeOK
<1> SUFFICES ASSUME Init PROVE TypeOK
  OBVIOUS
<1>1. /\ file \in Configs \cup {Malformed} /\ considered \in Configs \cup {Malformed}
      /\ accepted \in Configs /\ want \in Configs
  BY ConfigAssumption DEF Init, ConfigAssumption
<1>6. event \in BOOLEAN
  BY DEF Init
<1>7. edits \in 0..MaxEdits
  BY EditAssumption DEF Init, EditAssumption
<1>2. /\ lock \in Actors \cup {None} /\ queue \in Seq({"watcher", "main"})
      /\ pc \in [Actors -> {"idle", "waiting"} \cup Holding]
      /\ connected \subseteq Clients
  BY DEF Init, Holding
<1>3. /\ live \in [Collections -> Slots \cup {None}]
      /\ new \in [Collections -> Slots \cup {None}]
      /\ todo \subseteq Collections /\ ringing \in Collections \cup {None}
  BY DEF Init, Nobody
<1>4. /\ loop \in [Engines -> LoopStates] /\ fired \in [Engines -> BOOLEAN]
  BY DEF Init, LoopStates
<1>5. reads \in [Engines -> Slots \cup {None}]
  <2>1. ASSUME NEW e \in Engines
        PROVE  (IF live[e[1]] = e[2] /\ Source[e[1]] # None
                THEN live[Source[e[1]]] ELSE None) \in Slots \cup {None}
    BY <1>3, SourceAssumption DEF Engines, SourceAssumption
  <2> QED BY <2>1 DEF Init
<1> QED BY <1>1, <1>2, <1>3, <1>4, <1>5, <1>6, <1>7 DEF TypeOK

\* What Finish does to the types of what it changes.
LEMMA FinishTyped ==
  ASSUME TypeOK, NEW l \in Loaders, Finish(l)
  PROVE  /\ lock' \in Actors \cup {None} /\ queue' \in Seq({"watcher", "main"})
         /\ pc' \in [Actors -> {"idle", "waiting"} \cup Holding]
         /\ connected' \subseteq Clients
         /\ want' \in Configs
         /\ new' \in [Collections -> Slots \cup {None}]
         /\ todo' \subseteq Collections
         /\ ringing' \in Collections \cup {None}
<1>1. lock' \in Actors \cup {None} /\ queue' \in Seq({"watcher", "main"})
  <2>1. CASE queue = <<>>
    BY <2>1 DEF Finish, Unlock, TypeOK
  <2>2. CASE queue # <<>>
    <3>1. Head(queue) \in {"watcher", "main"} /\ Tail(queue) \in Seq({"watcher", "main"})
      BY <2>2 DEF TypeOK
    <3> QED BY <2>2, <3>1 DEF Finish, Unlock, Actors, Loaders
  <2> QED BY <2>1, <2>2
<1>2. pc' \in [Actors -> {"idle", "waiting"} \cup Holding]
  BY DEF Finish, TypeOK
<1>3. connected' \subseteq Clients
  BY DEF Finish, TypeOK
<1>4. /\ want' \in Configs /\ new' \in [Collections -> Slots \cup {None}]
      /\ todo' \subseteq Collections /\ ringing' \in Collections \cup {None}
  BY ConfigAssumption DEF Finish, Nobody, ConfigAssumption
<1> QED BY <1>1, <1>2, <1>3, <1>4

LEMMA LineTyped ==
  ASSUME TypeOK, NEW a \in {"watcher", "main"}, Line(a)
  PROVE  /\ lock' \in Actors \cup {None} /\ queue' \in Seq({"watcher", "main"})
         /\ pc' \in [Actors -> {"idle", "waiting"} \cup Holding]
<1>1. pc' \in [Actors -> {"idle", "waiting"} \cup Holding]
  BY DEF Line, TypeOK
<1>2. lock' \in Actors \cup {None} /\ queue' \in Seq({"watcher", "main"})
  <2>1. a \in Actors
    BY DEF Actors, Loaders
  <2>2. Append(queue, a) \in Seq({"watcher", "main"})
    BY DEF TypeOK
  <2>3. CASE lock = None /\ queue = <<>>
    BY <2>1, <2>3 DEF Line, TypeOK
  <2>4. CASE ~(lock = None /\ queue = <<>>)
    BY <2>2, <2>4 DEF Line, TypeOK
  <2> QED BY <2>3, <2>4
<1> QED BY <1>1, <1>2

\* What a build allocates is free: nobody's engine, and not polled.
LEMMA BuiltTyped ==
  ASSUME TypeOK, NEW l, NEW ok, Buildable(l, ok)
  PROVE  /\ Built(l, ok) \in [Collections -> Slots \cup {None}]
         /\ \A c \in ok : c \in Collections /\ Built(l, ok)[c] \in Free(c)
<1>1. \A c \in ok : c \in Collections /\ Free(c) # {}
  BY DEF Buildable, Configured
<1>2. \A c \in ok : (CHOOSE s \in Free(c) : TRUE) \in Free(c)
  BY <1>1
<1>3. \A c : Free(c) \subseteq Slots
  BY DEF Free
<1>4. \A c \in ok : Built(l, ok)[c] = CHOOSE s \in Free(c) : TRUE
  BY <1>1 DEF Built
<1>5. \A c \in Collections : (IF c \in ok THEN CHOOSE s \in Free(c) : TRUE
                              ELSE IF c \in Reusable(l) THEN live[c] ELSE None)
                                \in Slots \cup {None}
  BY <1>2, <1>3 DEF TypeOK
<1>6. Built(l, ok) \in [Collections -> Slots \cup {None}]
  BY <1>5 DEF Built
<1> QED BY <1>1, <1>2, <1>4, <1>6

LEMMA TypeStep == TypeOK /\ [Next]_vars => TypeOK'
<1> SUFFICES ASSUME TypeOK, [Next]_vars PROVE TypeOK'
  OBVIOUS
<1> USE DEF config, load, engine
<1>a. {"watcher", "main", "recovery"} \cup Clients \subseteq Actors /\ Loaders \subseteq Actors
  BY DEF Actors, Loaders
<1>1. CASE Edit
  BY <1>1, EditAssumption DEF Edit, EditAssumption, TypeOK
<1>2. CASE Stop
  BY <1>2, LineTyped DEF Stop, TypeOK
<1>3. ASSUME NEW a \in {"watcher", "main"}, Granted(a) PROVE TypeOK'
  <2>1. pc' \in [Actors -> {"idle", "waiting"} \cup Holding]
    BY <1>3 DEF Granted, TypeOK, Holding
  <2>2. todo' \subseteq Collections
    BY <1>3 DEF Granted, TypeOK
  <2> QED BY <1>3, <2>1, <2>2 DEF Granted, TypeOK
<1>4. CASE Down
  <2>1. pc' \in [Actors -> {"idle", "waiting"} \cup Holding]
    BY <1>4 DEF Down, TypeOK, Holding
  <2> QED BY <1>4, <2>1 DEF Down, TypeOK
<1>5. CASE Debounced
  BY <1>5, LineTyped DEF Debounced, TypeOK
<1>6. CASE Recover
  <2>1. pc' \in [Actors -> {"idle", "waiting"} \cup Holding] /\ lock' \in Actors \cup {None}
    BY <1>6, <1>a DEF Recover, TryLock, TypeOK, Holding
  <2> QED BY <1>6, <2>1 DEF Recover, TryLock, TypeOK
<1>7. ASSUME NEW l \in Clients, Request(l) PROVE TypeOK'
  <2>1. pc' \in [Actors -> {"idle", "waiting"} \cup Holding] /\ lock' \in Actors \cup {None}
    BY <1>7, <1>a DEF Request, TryLock, TypeOK, Holding
  <2> QED BY <1>7, <2>1 DEF Request, TryLock, TypeOK
<1>8. ASSUME NEW l \in Clients, Disconnect(l) PROVE TypeOK'
  BY <1>8 DEF Disconnect, TypeOK
<1>9. ASSUME NEW l \in Loaders, Read(l) PROVE TypeOK'
  <2>1. CASE file = Malformed
    BY <1>9, <2>1, FinishTyped DEF Read, TypeOK
  <2>2. CASE file # Malformed
    <3>1. pc' \in [Actors -> {"idle", "waiting"} \cup Holding] /\ want' \in Configs
      BY <1>9, <2>2 DEF Read, TypeOK, Holding
    <3> QED BY <1>9, <2>2, <3>1 DEF Read, TypeOK
  <2> QED BY <2>1, <2>2
<1>10. ASSUME NEW l \in Loaders, Build(l) PROVE TypeOK'
  <2>1. PICK ok \in SUBSET Collections :
          /\ Buildable(l, ok)
          /\ new' = Built(l, ok)
          /\ todo' = {c \in Collections : live[c] # new'[c]}
          /\ fired' = [e \in Engines |-> fired[e] /\ ~(e[1] \in ok /\ e[2] = new'[e[1]])]
          /\ reads' = [e \in Engines |-> IF e[1] \in ok /\ e[2] = new'[e[1]] /\ Source[e[1]] # None
                                           THEN new'[Source[e[1]]] ELSE reads[e]]
    BY <1>10 DEF Build
  <2>2. new' \in [Collections -> Slots \cup {None}]
    BY <2>1, BuiltTyped
  <2>3. fired' \in [Engines -> BOOLEAN]
    BY <2>1 DEF TypeOK
  <2>4. ASSUME NEW e \in Engines
        PROVE  (IF e[1] \in ok /\ e[2] = new'[e[1]] /\ Source[e[1]] # None
                THEN new'[Source[e[1]]] ELSE reads[e]) \in Slots \cup {None}
    <3>1. e[1] \in Collections
      BY DEF Engines
    <3>2. Source[e[1]] # None => Source[e[1]] \in Collections
      BY <3>1, SourceAssumption DEF SourceAssumption
    <3> QED BY <2>2, <3>1, <3>2 DEF TypeOK
  <2>5. reads' \in [Engines -> Slots \cup {None}]
    BY <2>1, <2>4
  <2>6. pc' \in [Actors -> {"idle", "waiting"} \cup Holding]
    BY <1>10 DEF Build, TypeOK, Holding
  <2>7. todo' \subseteq Collections
    BY <2>1
  <2> QED BY <1>10, <2>2, <2>3, <2>5, <2>6, <2>7 DEF Build, TypeOK
<1>11. ASSUME NEW l \in Loaders, Reject(l) PROVE TypeOK'
  BY <1>11, FinishTyped DEF Reject, TypeOK
<1>12. ASSUME NEW l \in Loaders, Swap(l) PROVE TypeOK'
  BY <1>12, FinishTyped DEF Swap, TypeOK
<1>13. ASSUME NEW a \in Actors, NotifyWaiters(a) PROVE TypeOK'
  <2>1. loop' \in [Engines -> LoopStates]
    BY <1>13 DEF NotifyWaiters, TypeOK, LoopStates
  <2>2. pc' \in [Actors -> {"idle", "waiting"} \cup Holding]
    BY <1>13 DEF NotifyWaiters, TypeOK, Holding
  <2> QED BY <1>13, <2>1, <2>2 DEF NotifyWaiters, TypeOK
<1>14. ASSUME NEW a \in Actors, NEW c \in Collections, ShutDown(a, c) PROVE TypeOK'
  <2>1. fired' \in [Engines -> BOOLEAN]
    BY <1>14 DEF ShutDown, TypeOK
  <2>2. pc' \in [Actors -> {"idle", "waiting"} \cup Holding] /\ ringing' \in Collections \cup {None}
    BY <1>14 DEF ShutDown, TypeOK, Holding
  <2> QED BY <1>14, <2>1, <2>2 DEF ShutDown, TypeOK
<1>15. ASSUME NEW a \in Actors, NEW c \in Collections, Spawn(a, c) PROVE TypeOK'
  <2>1. loop' \in [Engines -> LoopStates]
    BY <1>15 DEF Spawn, TypeOK, LoopStates
  <2> QED BY <1>15, <2>1 DEF Spawn, TypeOK
<1>16. ASSUME NEW e \in Engines, Poll(e) \/ Tick(e) PROVE TypeOK'
  <2>1. loop' \in [Engines -> LoopStates]
    BY <1>16 DEF Poll, Check, Register, Tick, LoopStep, TypeOK, LoopStates
  <2>2. UNCHANGED <<config, accepted, live, lock, queue, pc, connected, load, fired, reads>>
    BY <1>16 DEF Poll, Check, Register, Tick, LoopStep
  <2> QED BY <2>1, <2>2 DEF TypeOK
<1>17. CASE UNCHANGED vars
  BY <1>17 DEF vars, TypeOK
<1> QED
  BY <1>1, <1>2, <1>3, <1>4, <1>5, <1>6, <1>7, <1>8, <1>9, <1>10, <1>11, <1>12, <1>13,
     <1>14, <1>15, <1>16, <1>17 DEF Next, Watch, Load, Rotate, Halted

-----------------------------------------------------------------------------
(* The lock. *)

LEMMA LockOne == LockInv => OneLoadAtATime
BY DEF LockInv, OneLoadAtATime

LEMMA NoneNoActor == None \notin Actors
BY ActorAssumption DEF ActorAssumption, Actors, Loaders

\* With the lock free, nobody runs a load.
LEMMA LockFree ==
  ASSUME LockInv, lock = None
  PROVE  \A a \in Actors : pc[a] \notin Holding
BY NoneNoActor DEF LockInv

LEMMA LockStep == TypeOK /\ LockInv /\ [Next]_vars => LockInv'
<1> SUFFICES ASSUME TypeOK, LockInv, [Next]_vars, NEW b \in Actors, pc'[b] \in Holding
             PROVE  lock' = b
  BY DEF LockInv
<1> USE DEF config, load, engine
<1>a. {"watcher", "main", "recovery"} \cup Clients \subseteq Actors /\ Loaders \subseteq Actors
  BY DEF Actors, Loaders
<1>b. pc \in [Actors -> {"idle", "waiting"} \cup Holding]
  BY DEF TypeOK
<1>1. ASSUME NEW a \in Actors, Line(a) PROVE lock' = b
  <2>1. b # a /\ pc[b] \in Holding
    BY <1>1, <1>b DEF Line, Holding
  <2> QED BY <1>1, <2>1, LockFree DEF Line, LockInv
<1>2. ASSUME NEW a \in Actors, TryLock(a), NEW p, pc' = [pc EXCEPT ![a] = p] PROVE lock' = b
  <2>1. b = a
    BY <1>2, <1>b, LockFree DEF TryLock
  <2> QED BY <1>2, <2>1 DEF TryLock
<1>3. ASSUME NEW l \in Actors, pc[l] \in Holding, Finish(l) PROVE FALSE
  <2>1. b # l /\ pc[b] \in Holding
    BY <1>3, <1>b DEF Finish, Holding
  <2> QED BY <1>3, <2>1 DEF LockInv
<1>4. ASSUME UNCHANGED lock,
             \/ UNCHANGED pc
             \/ \E a \in Actors : \E p : pc' = [pc EXCEPT ![a] = p] /\ lock = a
      PROVE  lock' = b
  BY <1>4, <1>b DEF LockInv
<1>5. ASSUME NEW l \in Loaders, Load(l) PROVE lock' = b
  <2>1. pc[l] \in Holding /\ lock = l
    BY <1>5, <1>a DEF Load, Read, Build, Reject, Swap, Holding, LockInv
  <2>2. CASE Finish(l)
    BY <1>3, <1>a, <2>1, <2>2
  <2>3. CASE ~Finish(l)
    <3>1. UNCHANGED lock /\ \E p : pc' = [pc EXCEPT ![l] = p]
      BY <1>5, <2>3 DEF Load, Read, Build, Reject, Swap
    <3> QED BY <1>4, <1>a, <2>1, <3>1
  <2> QED BY <2>2, <2>3
<1>6. ASSUME NEW a \in Actors, Rotate(a) PROVE lock' = b
  <2>1. pc[a] \in Holding /\ lock = a
    BY <1>6 DEF Rotate, NotifyWaiters, ShutDown, Spawn, Holding, LockInv
  <2>2. UNCHANGED lock /\ (UNCHANGED pc \/ \E p : pc' = [pc EXCEPT ![a] = p])
    BY <1>6 DEF Rotate, NotifyWaiters, ShutDown, Spawn
  <2> QED BY <1>4, <2>1, <2>2
<1>7. ASSUME NEW a \in {"watcher", "main"}, Granted(a) PROVE lock' = b
  <2>1. UNCHANGED lock /\ lock = a /\ \E p : pc' = [pc EXCEPT ![a] = p]
    BY <1>7 DEF Granted
  <2> QED BY <1>4, <1>a, <2>1
<1>8. CASE Down
  <2>1. lock = "main" /\ UNCHANGED lock /\ \E p : pc' = [pc EXCEPT !["main"] = p]
    BY <1>8, <1>a DEF Down, LockInv, Holding
  <2> QED BY <1>4, <1>a, <2>1
<1>9. ASSUME NEW l \in Clients, Request(l) PROVE lock' = b
  BY <1>9, <1>2, <1>a DEF Request
<1>10. CASE Recover
  BY <1>10, <1>2, <1>a DEF Recover
<1>11. CASE Debounced \/ Stop
  BY <1>11, <1>1, <1>a DEF Debounced, Stop
<1>12. CASE Edit \/ Halted \/ UNCHANGED vars \/ \E l \in Clients : Disconnect(l)
  BY <1>12, <1>4 DEF Edit, Halted, vars, Disconnect
<1>13. CASE \E e \in Engines : Poll(e) \/ Tick(e)
  BY <1>13, <1>4 DEF Poll, Check, Register, Tick, LoopStep
<1> QED
  BY <1>5, <1>6, <1>7, <1>8, <1>9, <1>10, <1>11, <1>12, <1>13 DEF Next, Watch

-----------------------------------------------------------------------------
(* The wake-up. *)

\* Whoever holds the lock elsewhere finds no shutdown under way.
LEMMA Quiet ==
  ASSUME LockInv, RingInv, NEW a \in Actors, pc[a] \in Holding, pc[a] # "notify"
  PROVE  ringing = None
BY DEF LockInv, RingInv, Holding

LEMMA RingStep == TypeOK /\ LockInv /\ RingInv /\ [Next]_vars => RingInv'
<1> SUFFICES ASSUME TypeOK, LockInv, RingInv, [Next]_vars PROVE RingInv'
  OBVIOUS
<1> USE DEF config, load, engine
<1>a. {"watcher", "main", "recovery"} \cup Clients \subseteq Actors /\ Loaders \subseteq Actors
  BY DEF Actors, Loaders
<1>b. pc \in [Actors -> {"idle", "waiting"} \cup Holding]
  BY DEF TypeOK
<1>c. None \notin Collections
  BY SourceAssumption DEF SourceAssumption
<1>d. \A c \in Collections, s \in Slots : <<c, s>> \in Engines
  BY DEF Engines
<1>1. ASSUME UNCHANGED <<loop, fired, live, ringing>>,
             \/ UNCHANGED pc
             \/ \E a \in Actors : \E p : pc' = [pc EXCEPT ![a] = p] /\ pc[a] # "notify"
      PROVE  RingInv'
  <2>1. \A a \in Actors : pc[a] = "notify" => pc'[a] = "notify"
    BY <1>1, <1>b
  <2> QED BY <1>1, <2>1 DEF RingInv
<1>2. ASSUME NEW l \in Actors, pc[l] \in Holding, pc[l] # "notify", Finish(l), UNCHANGED engine
      PROVE  RingInv'
  <2>1. ringing = None /\ ringing' = None
    BY <1>2, Quiet DEF Finish
  <2> QED BY <1>2, <1>c, <2>1 DEF RingInv
<1>3. ASSUME NEW l \in Loaders, Read(l) \/ Reject(l) \/ Swap(l) PROVE RingInv'
  <2>1. pc[l] \in Holding /\ pc[l] # "notify" /\ UNCHANGED engine
    BY <1>3 DEF Read, Reject, Swap, Holding
  <2>2. CASE Finish(l)
    BY <1>2, <1>a, <2>1, <2>2
  <2>3. CASE ~Finish(l)
    BY <1>1, <1>3, <1>a, <2>1, <2>3 DEF Read, Reject, Swap
  <2> QED BY <2>2, <2>3
<1>4. ASSUME NEW l \in Loaders, Build(l) PROVE RingInv'
  <2>1. ringing = None /\ ringing' = None
    BY <1>4, <1>a, Quiet DEF Build, Holding
  <2>2. \A e \in Engines : fired'[e] => fired[e]
    BY <1>4 DEF Build
  <2> QED BY <1>4, <1>d, <2>1, <2>2 DEF RingInv, Build
<1>5. ASSUME NEW a \in Actors, NotifyWaiters(a) PROVE RingInv'
  <2> SUFFICES ASSUME NEW c \in Collections, NEW s \in Slots,
                      loop'[<<c, s>>] = "parked", fired'[<<c, s>>]
               PROVE  FALSE
    BY <1>5 DEF RingInv, NotifyWaiters
  <2>1. loop[<<c, s>>] = "parked" /\ fired[<<c, s>>]
    BY <1>5, <1>d DEF NotifyWaiters, TypeOK
  <2>2. <<c, s>> = <<ringing, live[ringing]>>
    BY <2>1 DEF RingInv
  <2> QED BY <1>5, <1>d, <2>1, <2>2 DEF NotifyWaiters, TypeOK
<1>6. ASSUME NEW a \in Actors, NEW c \in Collections, ShutDown(a, c) PROVE RingInv'
  <2>1. ringing = None
    BY <1>6, Quiet DEF ShutDown, Holding
  <2>2. live[c] \in Slots /\ live' = live /\ loop' = loop /\ ringing' = c /\ pc'[a] = "notify"
    BY <1>6, <1>b DEF ShutDown, TypeOK
  <2>3. \A e \in Engines : fired'[e] <=> fired[e] \/ e = <<c, live[c]>>
    BY <1>6, <1>d, <2>2 DEF ShutDown, TypeOK
  <2> QED BY <1>c, <1>d, <2>1, <2>2, <2>3 DEF RingInv
<1>7. ASSUME NEW a \in Actors, NEW c \in Collections, Spawn(a, c) PROVE RingInv'
  <2>1. \A e \in Engines : loop'[e] = "parked" => loop[e] = "parked"
    BY <1>7 DEF Spawn
  <2> QED BY <1>7, <1>d, <2>1 DEF Spawn, RingInv
<1>8. ASSUME NEW e \in Engines, Poll(e) \/ Tick(e) PROVE RingInv'
  <2>1. UNCHANGED <<fired, live, ringing, pc>>
    BY <1>8 DEF Poll, Check, Register, Tick, LoopStep
  <2>2. \A f \in Engines : loop'[f] = "parked" /\ fired[f] => loop[f] = "parked"
    BY <1>8 DEF Poll, Check, Register, Tick, LoopStep, TypeOK
  <2> QED BY <1>d, <2>1, <2>2 DEF RingInv
<1>9. ASSUME NEW a \in {"watcher", "main"}, Granted(a) PROVE RingInv'
  BY <1>1, <1>9, <1>a DEF Granted
<1>10. CASE Down
  BY <1>1, <1>10, <1>a DEF Down
<1>11. ASSUME NEW l \in Clients, Request(l) \/ Disconnect(l) PROVE RingInv'
  BY <1>1, <1>11, <1>a DEF Request, Disconnect
<1>12. CASE Recover
  BY <1>1, <1>12, <1>a DEF Recover
<1>13. CASE Debounced
  BY <1>1, <1>13, <1>a DEF Debounced, Line
<1>14. CASE Stop
  BY <1>1, <1>14, <1>a DEF Stop, Line
<1>15. CASE Edit \/ Halted \/ UNCHANGED vars
  BY <1>1, <1>15 DEF Edit, Halted, vars
<1> QED
  BY <1>3, <1>4, <1>5, <1>6, <1>7, <1>8, <1>9, <1>10, <1>11, <1>12, <1>13, <1>14, <1>15
     DEF Next, Watch, Load, Rotate

-----------------------------------------------------------------------------
(* The rotation. *)

RotationInv == RestInv /\ RotateInv /\ NewInv

\* While someone else than the stop holds the lock the server is not down,
\* and only its holder may be rotating engines.
LEMMA OneRotates ==
  ASSUME LockInv, NEW a \in Actors, pc[a] \in Holding
  PROVE  /\ \A b \in Actors : pc[b] \in Rotating => b = a
         /\ pc["main"] = "down" => a = "main"
<1>1. "main" \in Actors
  BY DEF Actors
<1> QED BY <1>1 DEF LockInv, Holding, Rotating

LEMMA RotationStep ==
  TypeOK /\ LockInv /\ RingInv /\ RotationInv /\ [Next]_vars => RotationInv'
<1> SUFFICES ASSUME TypeOK, LockInv, RingInv, RestInv, RotateInv, NewInv, [Next]_vars
             PROVE  RestInv' /\ RotateInv' /\ NewInv'
  BY DEF RotationInv
<1> USE DEF config, load, engine
<1>a. {"watcher", "main", "recovery"} \cup Clients \subseteq Actors /\ Loaders \subseteq Actors
  BY DEF Actors, Loaders
<1>b. pc \in [Actors -> {"idle", "waiting"} \cup Holding]
  BY DEF TypeOK
<1>c. None \notin Slots /\ "main" \notin Loaders
  BY ConfigAssumption, ActorAssumption DEF ConfigAssumption, ActorAssumption, Loaders
<1>d. \A c \in Collections, s \in Slots : <<c, s>> \in Engines
  BY DEF Engines
<1>1. ASSUME UNCHANGED <<loop, fired, live, todo, new>>,
             \A a \in Actors : pc[a] \in Rotating <=> pc'[a] \in Rotating,
             pc'["main"] = "down" => pc["main"] = "down"
      PROVE  RestInv' /\ RotateInv' /\ NewInv'
  BY <1>1, <1>a DEF RestInv, RotateInv, NewInv, Polled
<1>2. ASSUME NEW l \in Loaders, pc[l] \in Holding \ Rotating, Finish(l), UNCHANGED <<engine, live>>
      PROVE  RestInv' /\ RotateInv' /\ NewInv'
  <2>1. \A b \in Actors : pc[b] \notin Rotating /\ pc'[b] \notin Rotating
    BY <1>2, <1>a, <1>b, OneRotates DEF Finish, Rotating
  <2>2. pc'["main"] # "down" /\ new' = Nobody
    BY <1>2, <1>a, <2>1 DEF Finish, Rotating
  <2> QED BY <1>2, <2>1, <2>2 DEF RestInv, RotateInv, NewInv, Polled
<1>3. ASSUME NEW l \in Loaders, Read(l) \/ Reject(l) PROVE RestInv' /\ RotateInv' /\ NewInv'
  <2>1. pc[l] \in Holding \ Rotating /\ UNCHANGED <<engine, live>>
    BY <1>3 DEF Read, Reject, Holding, Rotating
  <2>2. CASE Finish(l)
    BY <1>2, <2>1, <2>2
  <2>3. CASE ~Finish(l)
    <3>1. pc[l] = "read" /\ pc' = [pc EXCEPT ![l] = "build"]
          /\ UNCHANGED <<loop, fired, live, todo, new>>
      BY <1>3, <2>3 DEF Read, Reject
    <3>2. /\ \A a \in Actors : pc[a] \in Rotating <=> pc'[a] \in Rotating
          /\ pc'["main"] = "down" => pc["main"] = "down"
      BY <1>a, <1>b, <3>1 DEF Rotating
    <3> QED BY <1>1, <3>1, <3>2
  <2> QED BY <2>2, <2>3
<1>4. ASSUME NEW l \in Loaders, Build(l) PROVE RestInv' /\ RotateInv' /\ NewInv'
  <2>1. PICK ok \in SUBSET Collections :
          /\ Buildable(l, ok)
          /\ new' = Built(l, ok)
          /\ todo' = {c \in Collections : live[c] # new'[c]}
          /\ fired' = [e \in Engines |-> fired[e] /\ ~(e[1] \in ok /\ e[2] = new'[e[1]])]
    BY <1>4 DEF Build
  <2>2. pc[l] = "build" /\ live' = live /\ loop' = loop /\ pc' = [pc EXCEPT ![l] = "rotate"]
    BY <1>4 DEF Build
  <2>3. \A b \in Actors : pc[b] \notin Rotating
    BY <1>a, <2>2, OneRotates DEF Holding, Rotating
  <2>4. pc'[l] \in Rotating /\ pc'["main"] # "down"
    BY <1>a, <1>b, <1>c, <2>2, <2>3 DEF Rotating
  <2>5. ASSUME NEW c \in Collections, NEW s \in Slots
        PROVE  fired'[<<c, s>>] = (fired[<<c, s>>] /\ ~(c \in ok /\ s = new'[c]))
    BY <1>d, <2>1
  <2>6. ASSUME NEW c \in Collections, NEW s \in Slots
        PROVE  /\ c \in todo' => /\ new'[c] # live'[c]
                                 /\ Polled(c, s)' => live'[c] = s
                                 /\ new'[c] = s => loop'[<<c, s>>] = "none" /\ ~fired'[<<c, s>>]
               /\ c \notin todo' => ((new'[c] = s) <=> Polled(c, s)')
    <3>1. (live[c] = s) <=> Polled(c, s)
      BY <2>3 DEF RestInv
    <3>2. CASE c \in ok
      <4>1. new'[c] \in Free(c)
        BY <2>1, <3>2, BuiltTyped
      <4>2. live[c] # new'[c] /\ loop[<<c, new'[c]>>] = "none"
        BY <4>1 DEF Free
      <4>3. c \in todo' /\ live'[c] = live[c]
        BY <2>1, <2>2, <4>2
      <4>4. fired'[<<c, s>>] = (fired[<<c, s>>] /\ s # new'[c])
        BY <2>5, <3>2
      <4>5. loop'[<<c, s>>] = loop[<<c, s>>]
        BY <2>2
      <4>6. CASE new'[c] = s
        <5>1. loop'[<<c, s>>] = "none" /\ ~fired'[<<c, s>>]
          BY <4>2, <4>4, <4>5, <4>6
        <5> QED BY <4>2, <4>3, <5>1 DEF Polled
      <4>7. CASE new'[c] # s
        <5>1. Polled(c, s)' <=> Polled(c, s)
          BY <4>4, <4>5, <4>7 DEF Polled
        <5> QED BY <3>1, <4>2, <4>3, <4>7, <5>1
      <4> QED BY <4>6, <4>7
    <3>3. CASE c \notin ok
      <4>1. new'[c] = live[c] \/ new'[c] = None
        BY <2>1, <3>3 DEF Built
      <4>2. Polled(c, s)' <=> Polled(c, s)
        BY <2>2, <2>5, <3>3 DEF Polled
      <4> QED BY <1>c, <2>1, <2>2, <3>1, <4>1, <4>2
    <3> QED BY <3>2, <3>3
  <2> QED BY <1>a, <2>4, <2>6 DEF RestInv, RotateInv, NewInv
<1>5. ASSUME NEW a \in Actors, NotifyWaiters(a) PROVE RestInv' /\ RotateInv' /\ NewInv'
  <2>1. pc[a] = "notify" /\ pc' = [pc EXCEPT ![a] = "rotate"]
        /\ UNCHANGED <<live, todo, new, fired>>
    BY <1>5 DEF NotifyWaiters
  <2>2. ASSUME NEW c \in Collections, NEW s \in Slots
        PROVE  /\ Polled(c, s)' <=> Polled(c, s)
               /\ loop[<<c, s>>] = "none" => loop'[<<c, s>>] = "none"
    <3>1. CASE <<c, s>> = <<ringing, live[ringing]>> /\ loop[<<c, s>>] = "parked"
      <4>1. fired[<<c, s>>]
        BY <1>c, <1>d, <2>1, <3>1, SourceAssumption DEF RingInv, SourceAssumption
      <4> QED BY <2>1, <3>1, <4>1 DEF Polled
    <3>2. CASE ~(<<c, s>> = <<ringing, live[ringing]>> /\ loop[<<c, s>>] = "parked")
      <4>1. loop'[<<c, s>>] = loop[<<c, s>>]
        BY <1>5, <1>d, <3>2 DEF NotifyWaiters, TypeOK
      <4> QED BY <2>1, <4>1 DEF Polled
    <3> QED BY <3>1, <3>2
  <2>3. \A b \in Actors : pc[b] \in Rotating <=> pc'[b] \in Rotating
    BY <1>b, <2>1 DEF Rotating
  <2>4. pc'["main"] # "down"
    BY <1>a, <1>b, <2>1, OneRotates DEF Holding
  <2> QED BY <1>a, <2>1, <2>2, <2>3, <2>4 DEF RestInv, RotateInv, NewInv
<1>6. ASSUME NEW a \in Actors, NEW c \in Collections, ShutDown(a, c)
      PROVE  RestInv' /\ RotateInv' /\ NewInv'
  <2>1. pc[a] = "rotate" /\ pc' = [pc EXCEPT ![a] = "notify"] /\ c \in todo
        /\ UNCHANGED <<live, todo, new, loop>>
    BY <1>6 DEF ShutDown
  <2>2. live[c] \in Slots /\ <<c, live[c]>> \in Engines
    BY <1>6, <1>d DEF ShutDown, TypeOK
  <2>3. ASSUME NEW d \in Collections, NEW s \in Slots
        PROVE  /\ <<d, s>> # <<c, live[c]>> => fired'[<<d, s>>] = fired[<<d, s>>]
               /\ fired'[<<c, live[c]>>]
    BY <1>6, <1>d, <2>2 DEF ShutDown, TypeOK
  <2>4. \A b \in Actors : pc[b] \in Rotating <=> pc'[b] \in Rotating
    BY <1>b, <2>1 DEF Rotating
  <2>5. pc'["main"] # "down"
    BY <1>a, <1>b, <2>1, OneRotates DEF Holding
  <2>6. pc[a] \in Rotating
    BY <2>1 DEF Rotating
  <2>7. ASSUME NEW d \in Collections, NEW s \in Slots
        PROVE  /\ d \in todo' => /\ new'[d] # live'[d]
                                 /\ Polled(d, s)' => live'[d] = s
                                 /\ new'[d] = s => loop'[<<d, s>>] = "none" /\ ~fired'[<<d, s>>]
               /\ d \notin todo' => ((new'[d] = s) <=> Polled(d, s)')
    <3>1. CASE <<d, s>> = <<c, live[c]>>
      BY <2>1, <2>3, <2>6, <3>1 DEF RotateInv, Polled
    <3>2. CASE <<d, s>> # <<c, live[c]>>
      BY <2>1, <2>3, <2>6, <3>2 DEF RotateInv, Polled
    <3> QED BY <3>1, <3>2
  <2> QED BY <1>a, <2>1, <2>4, <2>5, <2>6, <2>7 DEF RestInv, RotateInv, NewInv
<1>7. ASSUME NEW a \in Actors, NEW c \in Collections, Spawn(a, c)
      PROVE  RestInv' /\ RotateInv' /\ NewInv'
  <2>1. pc[a] = "rotate" /\ c \in todo /\ todo' = todo \ {c}
        /\ UNCHANGED <<pc, live, new, fired>>
    BY <1>7 DEF Spawn
  <2>2. pc[a] \in Rotating /\ pc[a] \in Holding
    BY <2>1 DEF Rotating, Holding
  <2>3. \A d \in Collections, s \in Slots :
          loop'[<<d, s>>] = IF d = c /\ s = new[c] THEN "busy" ELSE loop[<<d, s>>]
    BY <1>7, <1>d DEF Spawn
  <2>4. \A s \in Slots : ~Polled(c, s)
    BY <1>7, <1>c, <2>1, <2>2 DEF Spawn, RotateInv, Polled
  <2>5. ASSUME NEW d \in Collections, NEW s \in Slots
        PROVE  /\ d \in todo' => /\ new'[d] # live'[d]
                                 /\ Polled(d, s)' => live'[d] = s
                                 /\ new'[d] = s => loop'[<<d, s>>] = "none" /\ ~fired'[<<d, s>>]
               /\ d \notin todo' => ((new'[d] = s) <=> Polled(d, s)')
    <3>1. CASE d = c
      BY <2>1, <2>2, <2>3, <2>4, <3>1 DEF RotateInv, Polled
    <3>2. CASE d # c
      BY <2>1, <2>2, <2>3, <3>2 DEF RotateInv, Polled
    <3> QED BY <3>1, <3>2
  <2>6. pc["main"] # "down"
    BY <2>1, <2>2, OneRotates
  <2> QED BY <1>a, <2>1, <2>2, <2>5, <2>6 DEF RestInv, RotateInv, NewInv
<1>8. ASSUME NEW l \in Loaders, Swap(l) PROVE RestInv' /\ RotateInv' /\ NewInv'
  <2>1. pc[l] = "rotate" /\ todo = {} /\ live' = new /\ new' = Nobody
        /\ pc' = [pc EXCEPT ![l] = "idle"] /\ UNCHANGED <<loop, fired>>
    BY <1>8 DEF Swap, Finish
  <2>2. pc[l] \in Rotating /\ pc[l] \in Holding
    BY <2>1 DEF Rotating, Holding
  <2>3. \A b \in Actors : pc'[b] \notin Rotating
    BY <1>a, <1>b, <2>1, <2>2, OneRotates DEF Rotating
  <2>4. pc'["main"] # "down"
    BY <1>a, <2>3 DEF Rotating
  <2> QED BY <1>a, <2>1, <2>2, <2>3, <2>4 DEF RestInv, RotateInv, NewInv, Polled
<1>9. CASE Granted("main")
  <2>1. pc["main"] = "waiting" /\ lock = "main" /\ pc' = [pc EXCEPT !["main"] = "rotate"]
        /\ todo' = {c \in Collections : live[c] # None} /\ UNCHANGED <<loop, fired, live, new>>
    BY <1>9 DEF Granted
  <2>2. \A b \in Actors : pc[b] \notin Rotating
    BY <2>1 DEF LockInv, Holding, Rotating
  <2>3. new = Nobody
    BY <1>a, <2>2 DEF NewInv
  <2>4. pc'["main"] = "rotate" /\ pc'["main"] \in Rotating
    BY <1>a, <1>b, <2>1 DEF Rotating
  <2>5. ASSUME NEW d \in Collections, NEW s \in Slots
        PROVE  /\ d \in todo' => /\ new'[d] # live'[d]
                                 /\ Polled(d, s)' => live'[d] = s
                                 /\ new'[d] = s => loop'[<<d, s>>] = "none" /\ ~fired'[<<d, s>>]
               /\ d \notin todo' => ((new'[d] = s) <=> Polled(d, s)')
    BY <1>c, <2>1, <2>2, <2>3 DEF RestInv, Polled, Nobody
  <2> QED BY <1>a, <2>1, <2>3, <2>4, <2>5 DEF RestInv, RotateInv, NewInv
<1>10. CASE Granted("watcher")
  <2>1. pc' = [pc EXCEPT !["watcher"] = "read"] /\ pc["watcher"] = "waiting"
        /\ UNCHANGED <<loop, fired, live, todo, new>>
    BY <1>10 DEF Granted
  <2>2. /\ \A a \in Actors : pc[a] \in Rotating <=> pc'[a] \in Rotating
        /\ pc'["main"] = "down" => pc["main"] = "down"
    BY <1>a, <1>b, <2>1 DEF Rotating
  <2> QED BY <1>1, <2>1, <2>2
<1>11. CASE Down
  <2>1. pc["main"] = "rotate" /\ todo = {} /\ pc' = [pc EXCEPT !["main"] = "down"]
        /\ UNCHANGED <<loop, fired, live, todo, new>>
    BY <1>11 DEF Down
  <2>2. \A a \in Actors : pc[a] \in Rotating <=> pc'[a] \in Rotating
    BY <1>a, <1>b, <2>1 DEF Rotating
  <2> QED BY <1>a, <2>1, <2>2 DEF RestInv, RotateInv, NewInv, Polled
<1>12. ASSUME NEW l \in Clients, Request(l) \/ Disconnect(l)
       PROVE  RestInv' /\ RotateInv' /\ NewInv'
  <2>1. /\ pc' = pc \/ (pc[l] = "idle" /\ pc' = [pc EXCEPT ![l] = "read"])
        /\ UNCHANGED <<loop, fired, live, todo, new>>
    BY <1>12 DEF Request, Disconnect
  <2>2. /\ \A a \in Actors : pc[a] \in Rotating <=> pc'[a] \in Rotating
        /\ pc'["main"] = "down" => pc["main"] = "down"
    BY <1>a, <1>b, <2>1 DEF Rotating
  <2> QED BY <1>1, <2>1, <2>2
<1>13. CASE Recover
  <2>1. pc' = [pc EXCEPT !["recovery"] = "build"] /\ pc["recovery"] = "idle"
        /\ UNCHANGED <<loop, fired, live, todo, new>>
    BY <1>13 DEF Recover
  <2>2. /\ \A a \in Actors : pc[a] \in Rotating <=> pc'[a] \in Rotating
        /\ pc'["main"] = "down" => pc["main"] = "down"
    BY <1>a, <1>b, <2>1 DEF Rotating
  <2> QED BY <1>1, <2>1, <2>2
<1>14. CASE Debounced
  <2>1. pc' = [pc EXCEPT !["watcher"] = "waiting"] /\ pc["watcher"] = "idle"
        /\ UNCHANGED <<loop, fired, live, todo, new>>
    BY <1>14 DEF Debounced, Line
  <2>2. /\ \A a \in Actors : pc[a] \in Rotating <=> pc'[a] \in Rotating
        /\ pc'["main"] = "down" => pc["main"] = "down"
    BY <1>a, <1>b, <2>1 DEF Rotating
  <2> QED BY <1>1, <2>1, <2>2
<1>15. CASE Stop
  <2>1. pc' = [pc EXCEPT !["main"] = "waiting"] /\ pc["main"] = "idle"
        /\ UNCHANGED <<loop, fired, live, todo, new>>
    BY <1>15 DEF Stop, Line
  <2>2. /\ \A a \in Actors : pc[a] \in Rotating <=> pc'[a] \in Rotating
        /\ pc'["main"] = "down" => pc["main"] = "down"
    BY <1>a, <1>b, <2>1 DEF Rotating
  <2> QED BY <1>1, <2>1, <2>2
<1>16. CASE Edit \/ Halted \/ UNCHANGED vars
  BY <1>1, <1>16 DEF Edit, Halted, vars
<1>17. ASSUME NEW e \in Engines, Poll(e) \/ Tick(e) PROVE RestInv' /\ RotateInv' /\ NewInv'
  <2>1. UNCHANGED <<fired, live, pc, todo, new>>
    BY <1>17 DEF Poll, Check, Register, Tick, LoopStep
  <2>2. \A f \in Engines : ~fired[f] /\ loop[f] # "none" => loop'[f] # "none"
    BY <1>17 DEF Poll, Check, Register, Tick, LoopStep, TypeOK
  <2>3. \A f \in Engines : loop[f] = "none" => loop'[f] = "none"
    BY <1>17 DEF Poll, Check, Register, Tick, LoopStep, TypeOK
  <2>4. \A c \in Collections, s \in Slots : Polled(c, s)' <=> Polled(c, s)
    BY <1>d, <2>1, <2>2, <2>3 DEF Polled
  <2> QED BY <1>d, <2>1, <2>3, <2>4 DEF RestInv, RotateInv, NewInv
<1> QED
  BY <1>3, <1>4, <1>5, <1>6, <1>7, <1>8, <1>9, <1>10, <1>11, <1>12, <1>13, <1>14, <1>15,
     <1>16, <1>17 DEF Next, Watch, Load, Rotate

-----------------------------------------------------------------------------
(* What derived engines read. *)

LEMMA ReadStep == TypeOK /\ ReadInv /\ [Next]_vars => ReadInv'
<1> SUFFICES ASSUME TypeOK, ReadInv, [Next]_vars PROVE ReadsFrom(live)' /\ ReadsFrom(new)'
  BY DEF ReadInv
<1> USE DEF config, load, engine
<1>a. ReadsFrom(Nobody)
  BY DEF ReadsFrom, Nobody
<1>b. \A c \in Collections : Source[c] # None => Source[c] \in Collections /\ Source[Source[c]] = None
  BY SourceAssumption DEF SourceAssumption
<1>1. ASSUME UNCHANGED reads, live' \in {live, new}, new' \in {new, Nobody}
      PROVE  ReadsFrom(live)' /\ ReadsFrom(new)'
  <2>1. \A f : ReadsFrom(f) => ReadsFrom(f)'
    BY <1>1 DEF ReadsFrom
  <2> QED BY <1>1, <1>a DEF ReadInv, ReadsFrom
<1>2. ASSUME NEW l \in Loaders, Build(l) PROVE ReadsFrom(live)' /\ ReadsFrom(new)'
  <2>1. PICK ok \in SUBSET Collections :
          /\ Buildable(l, ok)
          /\ new' = Built(l, ok)
          /\ reads' = [e \in Engines |-> IF e[1] \in ok /\ e[2] = new'[e[1]] /\ Source[e[1]] # None
                                           THEN new'[Source[e[1]]] ELSE reads[e]]
    BY <1>2 DEF Build
  <2>2. live' = live
    BY <1>2 DEF Build
  <2>3. \A c \in ok : new'[c] \in Slots /\ new'[c] # live[c]
    BY <2>1, BuiltTyped DEF Free
  <2>4. \A c \in Collections \ ok : new'[c] = IF c \in Reusable(l) THEN live[c] ELSE None
    BY <2>1 DEF Built
  <2>5. \A c \in Reusable(l) : c \in Collections \ ok /\ live[c] # None /\ new'[c] = live[c]
    BY <2>1, <2>4 DEF Reusable, Buildable
  <2>6. ASSUME NEW c \in Collections, NEW s \in Slots
        PROVE  reads'[<<c, s>>] = IF c \in ok /\ s = new'[c] /\ Source[c] # None
                                  THEN new'[Source[c]] ELSE reads[<<c, s>>]
    <3>1. <<c, s>> \in Engines
      BY DEF Engines
    <3> QED BY <2>1, <3>1
  <2>7. \A c \in Collections : live[c] # None => live[c] \in Slots
    BY DEF TypeOK
  <2>8. ReadsFrom(live)'
    BY <1>b, <2>2, <2>3, <2>6, <2>7 DEF ReadInv, ReadsFrom
  <2>9. ASSUME NEW c \in Collections, Source[c] # None, new'[c] # None
        PROVE  new'[Source[c]] # None /\ reads'[<<c, new'[c]>>] = new'[Source[c]]
    <3>1. CASE c \in ok
      <4>1. Source[c] \in ok \cup Reusable(l)
        BY <2>1, <2>9, <3>1 DEF Buildable
      <4>2. new'[Source[c]] # None
        BY <2>3, <2>5, <4>1, ConfigAssumption DEF ConfigAssumption
      <4> QED BY <2>3, <2>6, <2>9, <3>1, <4>2
    <3>2. CASE c \notin ok
      <4>1. c \in Reusable(l) /\ new'[c] = live[c] /\ live[c] # None
        BY <2>4, <2>9, <3>2
      <4>2. live[Source[c]] # None /\ reads[<<c, live[c]>>] = live[Source[c]]
        BY <2>9, <4>1 DEF ReadInv, ReadsFrom
      <4>3. Source[c] \in Reusable(l)
        BY <1>b, <2>9, <4>1, <4>2 DEF Reusable
      <4> QED BY <2>5, <2>6, <2>7, <3>2, <4>1, <4>2, <4>3
    <3> QED BY <3>1, <3>2
  <2> QED BY <2>8, <2>9 DEF ReadsFrom
<1>3. ASSUME NEW l \in Loaders, Read(l) \/ Reject(l) \/ Swap(l)
      PROVE  ReadsFrom(live)' /\ ReadsFrom(new)'
  BY <1>1, <1>3 DEF Read, Reject, Swap, Finish
<1>4. ASSUME NEW a \in Actors, Rotate(a) PROVE ReadsFrom(live)' /\ ReadsFrom(new)'
  BY <1>1, <1>4 DEF Rotate, NotifyWaiters, ShutDown, Spawn
<1>5. ASSUME NEW e \in Engines, Poll(e) \/ Tick(e) PROVE ReadsFrom(live)' /\ ReadsFrom(new)'
  BY <1>1, <1>5 DEF Poll, Check, Register, Tick, LoopStep
<1>6. ASSUME NEW l \in Clients, Request(l) \/ Disconnect(l) PROVE ReadsFrom(live)' /\ ReadsFrom(new)'
  BY <1>1, <1>6 DEF Request, Disconnect
<1>7. CASE Edit \/ Stop \/ Granted("main") \/ Down \/ Watch \/ Recover \/ Halted \/ UNCHANGED vars
  BY <1>1, <1>7 DEF Edit, Stop, Granted, Down, Watch, Debounced, Recover, Halted, vars
<1> QED
  BY <1>2, <1>3, <1>4, <1>5, <1>6, <1>7 DEF Next, Load

-----------------------------------------------------------------------------
(* What a load applies. *)

LEMMA WantStep == TypeOK /\ LockInv /\ WantInv /\ [Next]_vars => WantInv'
<1> SUFFICES ASSUME TypeOK, LockInv, WantInv, [Next]_vars PROVE WantInv'
  OBVIOUS
<1> USE DEF config, load, engine
<1>a. {"watcher", "main", "recovery"} \cup Clients \subseteq Actors /\ Loaders \subseteq Actors
  BY DEF Actors, Loaders
<1>b. pc \in [Actors -> {"idle", "waiting"} \cup Holding]
  BY DEF TypeOK
<1>c. "recovery" \in Loaders /\ "recovery" \notin Clients /\ "main" \notin Loaders
  BY ActorAssumption DEF ActorAssumption, Loaders
<1>1. ASSUME UNCHANGED <<want, accepted, considered>>,
             pc'["recovery"] # "read",
             \A l \in Loaders : pc'[l] \in Loading => pc[l] \in Loading
      PROVE  WantInv'
  BY <1>1 DEF WantInv
<1>2. ASSUME NEW l \in Loaders, pc[l] \in Holding, Finish(l) PROVE WantInv'
  <2>1. \A k \in Loaders : k # l => pc'[k] = pc[k] /\ pc[k] \notin Holding
    BY <1>2, <1>a, <1>b DEF Finish, LockInv
  <2>2. \A k \in Loaders : pc'[k] \notin Loading /\ pc'[k] # "read"
    BY <1>2, <1>a, <1>b, <2>1 DEF Finish, Loading, Holding
  <2> QED BY <1>c, <2>2 DEF WantInv
<1>3. ASSUME NEW l \in Loaders, Read(l) PROVE WantInv'
  <2>1. pc[l] = "read" /\ l # "recovery" /\ pc[l] \in Holding
    BY <1>3 DEF Read, WantInv, Holding
  <2>2. CASE file = Malformed
    BY <1>2, <1>3, <2>1, <2>2 DEF Read
  <2>3. CASE file # Malformed
    <3>1. pc' = [pc EXCEPT ![l] = "build"] /\ want' = file /\ considered' = file
      BY <1>3, <2>3 DEF Read
    <3>2. \A k \in Loaders : k # l => pc'[k] = pc[k] /\ pc[k] \notin Loading
      BY <1>a, <1>b, <2>1, <3>1 DEF LockInv, Loading, Holding
    <3>3. pc'["recovery"] = pc["recovery"]
      BY <1>c, <2>1, <3>2
    <3> QED BY <2>1, <3>1, <3>2, <3>3 DEF WantInv
  <2> QED BY <2>2, <2>3
<1>4. ASSUME NEW l \in Loaders, Reject(l) \/ Swap(l) PROVE WantInv'
  BY <1>2, <1>4 DEF Reject, Swap, Holding
<1>5. ASSUME NEW a \in Actors, NEW p, NEW q \in {"build", "rotate", "notify"}, pc[a] = q,
             pc' = [pc EXCEPT ![a] = p], p # "read", UNCHANGED <<want, accepted, considered>>
      PROVE  WantInv'
  <2>1. \A l \in Actors : l # a => pc'[l] = pc[l]
    BY <1>5, <1>b
  <2>2. \A l \in Loaders : pc'[l] \in Loading => pc[l] \in Loading
    BY <1>5, <1>a, <2>1 DEF Loading
  <2>3. pc'["recovery"] # "read"
    BY <1>5, <1>a, <1>b, <2>1 DEF WantInv
  <2> QED BY <1>1, <1>5, <2>2, <2>3
<1>6. ASSUME NEW l \in Loaders, Build(l) PROVE WantInv'
  BY <1>5, <1>6, <1>a DEF Build
<1>7. ASSUME NEW a \in Actors, Rotate(a) PROVE WantInv'
  <2>1. CASE NotifyWaiters(a)
    BY <1>5, <2>1 DEF NotifyWaiters
  <2>2. ASSUME NEW c \in Collections, ShutDown(a, c) PROVE WantInv'
    BY <1>5, <2>2 DEF ShutDown
  <2>3. ASSUME NEW c \in Collections, Spawn(a, c) PROVE WantInv'
    BY <1>1, <2>3 DEF Spawn, WantInv
  <2> QED BY <1>7, <2>1, <2>2, <2>3 DEF Rotate
<1>8. CASE Down
  BY <1>5, <1>8, <1>a DEF Down
<1>9. ASSUME NEW a \in Actors, NEW p, pc[a] \in {"idle", "waiting"}, pc' = [pc EXCEPT ![a] = p],
             p \in {"waiting", "read"} \/ (a = "main" /\ p = "rotate"), a # "recovery",
             UNCHANGED <<want, accepted, considered>>
      PROVE  WantInv'
  <2>1. \A l \in Actors : l # a => pc'[l] = pc[l]
    BY <1>9, <1>b
  <2>2. \A l \in Loaders : pc'[l] \in Loading => pc[l] \in Loading
    BY <1>9, <1>a, <1>b, <1>c, <2>1 DEF Loading
  <2>3. pc'["recovery"] # "read"
    BY <1>9, <1>a, <2>1 DEF WantInv
  <2> QED BY <1>1, <1>9, <2>2, <2>3
<1>10. ASSUME NEW a \in {"watcher", "main"}, Granted(a) PROVE WantInv'
  <2>0. /\ UNCHANGED <<want, accepted, considered>> /\ pc[a] = "waiting" /\ a \in Actors
        /\ pc' = [pc EXCEPT ![a] = IF a = "main" THEN "rotate" ELSE "read"]
    BY <1>10, <1>a DEF Granted, config
  <2>1. \A l \in Actors : l # a => pc'[l] = pc[l]
    BY <2>0, <1>b
  <2>2. \A l \in Loaders : pc'[l] \in Loading => pc[l] \in Loading
    BY <2>0, <1>a, <1>b, <1>c, <2>1 DEF Loading
  <2>3. pc'["recovery"] # "read"
    BY <1>10, <1>a, <2>1 DEF WantInv
  <2> QED BY <1>1, <2>0, <2>2, <2>3
<1>11. ASSUME NEW l \in Clients, Request(l) PROVE WantInv'
  <2>0. /\ UNCHANGED <<want, accepted, considered>> /\ pc[l] = "idle" /\ l \in Actors
        /\ l # "recovery" /\ pc' = [pc EXCEPT ![l] = "read"]
    BY <1>11, <1>c, ActorAssumption DEF Request, config, load, Actors, Loaders, ActorAssumption
  <2>1. \A k \in Actors : k # l => pc'[k] = pc[k]
    BY <2>0, <1>b
  <2>2. \A k \in Loaders : pc'[k] \in Loading => pc[k] \in Loading
    BY <2>0, <1>a, <1>b, <2>1 DEF Loading
  <2>3. pc'["recovery"] # "read"
    BY <2>0, <1>a, <2>1 DEF WantInv
  <2> QED BY <1>1, <2>0, <2>2, <2>3
<1>12. CASE Debounced
  BY <1>9, <1>12, <1>a DEF Debounced, Line
<1>13. CASE Stop
  BY <1>9, <1>13, <1>a DEF Stop, Line
<1>14. CASE Recover
  <2>1. want' = accepted /\ accepted' = accepted /\ lock = None
        /\ pc' = [pc EXCEPT !["recovery"] = "build"]
    BY <1>14 DEF Recover, TryLock
  <2>2. \A l \in Loaders : l # "recovery" => pc'[l] = pc[l] /\ pc[l] \notin Loading
    BY <1>a, <1>b, <2>1, LockFree DEF Loading, Holding
  <2> QED BY <1>a, <1>b, <2>1, <2>2 DEF WantInv
<1>15. ASSUME NEW e \in Engines, Poll(e) \/ Tick(e) PROVE WantInv'
  BY <1>1, <1>15 DEF Poll, Check, Register, Tick, LoopStep, WantInv
<1>16. CASE Edit \/ Halted \/ UNCHANGED vars \/ \E l \in Clients : Disconnect(l)
  BY <1>1, <1>16 DEF Edit, Halted, vars, Disconnect, WantInv
<1> QED
  BY <1>3, <1>4, <1>6, <1>7, <1>8, <1>10, <1>11, <1>12, <1>13, <1>14, <1>15, <1>16
     DEF Next, Watch, Load

-----------------------------------------------------------------------------
(* Theorems. *)

LEMMA InitInv == Init => IInv
<1> SUFFICES ASSUME Init PROVE IInv
  OBVIOUS
<1>1. TypeOK
  BY InitTyped
<1>2. \A a \in Actors : pc[a] = "idle"
  BY DEF Init
<1>3. LockInv
  BY <1>2 DEF LockInv, Holding
<1>4. \A c \in Collections, s \in Slots :
        /\ <<c, s>> \in Engines
        /\ loop[<<c, s>>] = IF live[c] = s THEN "busy" ELSE "none"
        /\ ~fired[<<c, s>>]
  BY DEF Init, Engines
<1>5. RingInv
  BY <1>4 DEF RingInv, Init
<1>6. RestInv
  BY <1>4 DEF RestInv, Polled
<1>7. RotateInv /\ NewInv
  <2>1. "main" \in Actors
    BY DEF Actors
  <2> QED BY <1>2, <2>1 DEF RotateInv, NewInv, Rotating, Init
<1>8. ReadsFrom(new)
  BY DEF Init, ReadsFrom, Nobody
<1>9. ReadsFrom(live)
  <2> SUFFICES ASSUME NEW c \in Collections, Source[c] # None, live[c] # None
               PROVE  live[Source[c]] # None /\ reads[<<c, live[c]>>] = live[Source[c]]
    BY DEF ReadsFrom
  <2>1. <<c, live[c]>> \in Engines
    BY DEF Init, Engines
  <2> QED BY <2>1 DEF Init
<1>10. WantInv
  <2>1. "recovery" \in Actors /\ Loaders \subseteq Actors
    BY DEF Actors, Loaders
  <2> QED BY <1>2, <2>1 DEF WantInv, Loading
<1> QED BY <1>1, <1>3, <1>5, <1>6, <1>7, <1>8, <1>9, <1>10 DEF IInv, ReadInv

\* The inductive invariant holds in every reachable state.
LEMMA Inductive == Spec => []IInv
<1>1. IInv /\ [Next]_vars => IInv'
  BY TypeStep, LockStep, RingStep, RotationStep, ReadStep, WantStep DEF IInv, RotationInv
<1> QED BY <1>1, InitInv, PTL DEF Spec

\* Every variable keeps its type.
THEOREM TypeAlwaysOK == Spec => []TypeOK
<1>1. IInv => TypeOK
  BY DEF IInv
<1> QED BY <1>1, Inductive, PTL

\* At most one actor is past the reload lock: loads never overlap, nor does
\* the stop with one, whoever started them and whoever has gone away.
THEOREM LoadsAreSerialized == Spec => []OneLoadAtATime
<1>1. IInv => OneLoadAtATime
  BY LockOne DEF IInv
<1> QED BY <1>1, Inductive, PTL

\* A poll loop that is parked when its shutdown fires is woken by it: flag,
\* registration, second look and wake-up leave no gap.
THEOREM NoShutdownIsLost == Spec => []NoLostShutdown
<1>1. IInv => NoLostShutdown
  <2> SUFFICES ASSUME IInv, NEW e \in Engines, loop[e] = "parked", fired[e] PROVE ringing = e[1]
    BY DEF NoLostShutdown
  <2>1. e[1] \in Collections /\ e[2] \in Slots /\ e = <<e[1], e[2]>>
    BY DEF Engines
  <2> QED BY <2>1 DEF IInv, RingInv
<1> QED BY <1>1, Inductive, PTL

\* Between loads the engines that are polled are those registered, and after
\* the stop none is.
THEOREM RegisteredAlwaysPolled == Spec => []RegisteredArePolled
<1>1. IInv => RegisteredArePolled
  <2> SUFFICES ASSUME IInv PROVE RegisteredArePolled
    OBVIOUS
  <2>1. ASSUME pc["main"] = "down", NEW e \in Engines
        PROVE  loop[e] = "none" \/ fired[e]
    <3>1. e[1] \in Collections /\ e[2] \in Slots /\ e = <<e[1], e[2]>>
      BY DEF Engines
    <3>2. "main" \in Actors /\ pc["main"] \in Rotating /\ pc["main"] \in Holding
      BY <2>1 DEF Actors, Rotating, Holding
    <3>3. \A l \in Loaders : pc[l] \notin Rotating
      BY <3>2, OneRotates, ActorAssumption DEF IInv, Actors, Loaders, ActorAssumption
    <3>4. todo = {} /\ new = Nobody
      BY <2>1, <3>3 DEF IInv, NewInv
    <3>5. new[e[1]] # e[2]
      BY <3>1, <3>4, ConfigAssumption DEF Nobody, ConfigAssumption
    <3>6. ~Polled(e[1], e[2])
      BY <3>1, <3>2, <3>4, <3>5 DEF IInv, RotateInv
    <3> QED BY <3>1, <3>6 DEF Polled
  <2> QED BY <2>1 DEF IInv, RestInv, RegisteredArePolled, Polled
<1> QED BY <1>1, Inductive, PTL

\* A registered engine reads the registered engine of its source.
THEOREM DerivedAlwaysReadLive == Spec => []DerivedReadLive
<1>1. IInv => DerivedReadLive
  BY DEF IInv, ReadInv, ReadsFrom, DerivedReadLive
<1> QED BY <1>1, Inductive, PTL

\* What is accepted changes only to what a request or the watcher has read of
\* the file: the recovery loop picks up no unreviewed edit.
THEOREM OnlyReviewedAlways == Spec => OnlyReviewedEdits
<1>1. IInv /\ [Next]_vars => (accepted' # accepted => accepted' = considered)
  <2> SUFFICES ASSUME IInv, [Next]_vars, accepted' # accepted PROVE accepted' = considered
    OBVIOUS
  <2> USE DEF config, load, engine
  <2>1. PICK l \in Loaders : Swap(l)
    BY DEF Next, Edit, Stop, Granted, Down, Watch, Debounced, Recover, Halted, Request,
           Disconnect, Load, Read, Build, Reject, Rotate, NotifyWaiters, ShutDown, Spawn,
           Poll, Check, Register, Tick, LoopStep, vars
  <2>2. accepted' = want /\ pc[l] \in Loading
    BY <2>1 DEF Swap, Loading
  <2> QED BY <2>1, <2>2 DEF IInv, WantInv
<1>2. IInv /\ [Next]_vars => [accepted' # accepted => accepted' = considered]_vars
  BY <1>1
<1> QED BY <1>2, Inductive, PTL DEF Spec, OnlyReviewedEdits

=============================================================================
