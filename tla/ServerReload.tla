---------------------------- MODULE ServerReload ----------------------------
(***************************************************************************)
(* The live registry of the server and whoever changes it: an admin        *)
(* request (serve_reload), the watcher of the config directories and the   *)
(* recovery loop, each running apply_load under one lock, and main, which  *)
(* takes the same lock to stop the server (server/src/admin.rs,            *)
(* watcher.rs, main.rs); with the poll loops of the engines, which stop by *)
(* ds-poll's Shutdown.                                                     *)
(*                                                                         *)
(* A configuration maps each collection to the version of its settings, 0  *)
(* when it is not configured.  An engine is a collection and a slot: the   *)
(* identity of its Arc while anything holds it.  A collection whose build  *)
(* fails has no engine.  The swap of the registries and the writes of the  *)
(* lists after it, which only the holder of the lock reads back, are one   *)
(* step.                                                                   *)
(***************************************************************************)
EXTENDS Naturals, Sequences, FiniteSets

CONSTANTS
  Collections,   \* collection ids
  Source,        \* the collection a derived one reads, None for the others
  Slots,         \* engines of one collection that may exist at a time
  Configs,       \* configurations the file may hold
  Boot,          \* the one the server started with
  Malformed,     \* a file that does not parse
  Clients,       \* admin requests that may be under way at a time
  MaxEdits,      \* bound: edits of the file
  None

ConfigAssumption ==
  /\ Configs \subseteq [Collections -> Nat] /\ Boot \in Configs
  /\ Malformed \notin Configs /\ None \notin Slots

SourceAssumption ==
  /\ Source \in [Collections -> Collections \cup {None}] /\ None \notin Collections
  /\ \A c \in Collections : Source[c] # None => Source[Source[c]] = None

ActorAssumption ==
  /\ Clients \cap {"watcher", "recovery", "main"} = {}
  /\ None \notin Clients \cup {"watcher", "recovery", "main"}

EditAssumption == MaxEdits \in Nat

ASSUME ConfigAssumption
ASSUME SourceAssumption
ASSUME ActorAssumption
ASSUME EditAssumption

VARIABLES
  file,        \* the configuration on disk
  considered,  \* the last content of the file a load has read
  event,       \* the watcher's channel holds an event
  edits,       \* edits so far
  accepted,    \* accepted_load and last_collections
  live,        \* the engine of each collection: registries, lists, handles
  lock,        \* who holds reload_lock
  queue,       \* who waits for it, in order
  pc,          \* where each actor is
  connected,   \* clients still waiting for their answer
  want,        \* the configuration the running load applies
  new,         \* the engines it registers
  todo,        \* the collections whose engines it has still to rotate
  ringing,     \* the collection whose engine is between flag and wake-up
  loop,        \* the poll loop of each engine
  fired,       \* Shutdown.fired of each engine
  reads        \* the engine a derived engine reads

config == <<file, considered, event, edits>>
load   == <<want, new, todo, ringing>>
engine == <<loop, fired, reads>>
vars   == <<config, accepted, live, lock, queue, pc, connected, load, engine>>

Loaders == Clients \cup {"watcher", "recovery"}
Actors  == Loaders \cup {"main"}
Engines == Collections \X Slots
Nobody  == [c \in Collections |-> None]

(* The lock is held, and the engines are being replaced.                   *)
Holding  == {"read", "build", "rotate", "notify", "down"}
Rotating == {"rotate", "notify", "down"}

(* The loop waits for its next tick, and its waiter is registered.         *)
LoopStates == {"none", "busy", "register", "parked"}

TypeOK ==
  /\ file \in Configs \cup {Malformed} /\ considered \in Configs \cup {Malformed}
  /\ event \in BOOLEAN /\ edits \in 0..MaxEdits
  /\ accepted \in Configs
  /\ live \in [Collections -> Slots \cup {None}]
  /\ lock \in Actors \cup {None} /\ queue \in Seq({"watcher", "main"})
  /\ pc \in [Actors -> {"idle", "waiting"} \cup Holding]
  /\ connected \subseteq Clients
  /\ want \in Configs
  /\ new \in [Collections -> Slots \cup {None}]
  /\ todo \subseteq Collections
  /\ ringing \in Collections \cup {None}
  /\ loop \in [Engines -> LoopStates]
  /\ fired \in [Engines -> BOOLEAN]
  /\ reads \in [Engines -> Slots \cup {None}]

(* At boot nothing need be ready when all that is configured are sources. *)
Init ==
  /\ file = Boot /\ considered = Boot /\ event = FALSE /\ edits = 0
  /\ accepted = Boot
  /\ lock = None /\ queue = <<>>
  /\ pc = [a \in Actors |-> "idle"] /\ connected = {}
  /\ want = Boot /\ new = Nobody /\ todo = {} /\ ringing = None
  /\ live \in [Collections -> Slots \cup {None}]
  /\ \A c \in Collections :
       /\ live[c] # None => Boot[c] # 0
       /\ live[c] # None /\ Source[c] # None => live[Source[c]] # None
  /\ \/ \E c \in Collections : live[c] # None
     \/ \A c \in Collections : Boot[c] # 0 => Source[c] = None
  /\ loop = [e \in Engines |-> IF live[e[1]] = e[2] THEN "busy" ELSE "none"]
  /\ fired = [e \in Engines |-> FALSE]
  /\ reads = [e \in Engines |-> IF live[e[1]] = e[2] /\ Source[e[1]] # None
                                 THEN live[Source[e[1]]] ELSE None]

-----------------------------------------------------------------------------
(* The lock. *)

(* Tokio's mutex passes from its holder to the first in line. *)
Unlock ==
  /\ lock' = IF queue = <<>> THEN None ELSE Head(queue)
  /\ queue' = IF queue = <<>> THEN queue ELSE Tail(queue)

(* lock().await: take the lock, or join the line. *)
Line(a) ==
  /\ pc' = [pc EXCEPT ![a] = "waiting"]
  /\ IF lock = None /\ queue = <<>>
       THEN lock' = a /\ UNCHANGED queue
       ELSE queue' = Append(queue, a) /\ UNCHANGED lock

(* try_lock: an actor that finds the lock held gives up. *)
TryLock(a) ==
  /\ lock = None
  /\ lock' = a /\ UNCHANGED queue

(* The end of a load, whatever came of it: the guard is dropped and the
   client, if it is still there, is answered. *)
Finish(l) ==
  /\ Unlock
  /\ pc' = [pc EXCEPT ![l] = "idle"]
  /\ connected' = connected \ {l}
  /\ want' = Boot /\ new' = Nobody /\ todo' = {} /\ ringing' = None

-----------------------------------------------------------------------------
(* Who starts a load. *)

(* An administrator writes the file; the watcher's channel gets an event. *)
Edit ==
  /\ edits < MaxEdits
  /\ \E f \in (Configs \cup {Malformed}) \ {file} : file' = f
  /\ event' = TRUE /\ edits' = edits + 1
  /\ UNCHANGED <<considered, accepted, live, lock, queue, pc, connected, load, engine>>

(* POST /admin/collections/reload: answered 409 at once when the lock is held,
   which changes nothing; otherwise the task that runs the load owns the guard.
   RequestSlip waits instead. *)
RequestSlip(l) ==
  /\ l \in Clients /\ pc[l] = "idle" /\ pc["main"] = "idle"
  /\ Line(l)
  /\ connected' = connected \cup {l}
  /\ UNCHANGED <<config, accepted, live, load, engine>>

Request(l) ==
  /\ l \in Clients /\ pc[l] = "idle" /\ pc["main"] = "idle"
  /\ TryLock(l)
  /\ pc' = [pc EXCEPT ![l] = "read"]
  /\ connected' = connected \cup {l}
  /\ UNCHANGED <<config, accepted, live, load, engine>>

(* The client goes away before the answer; the load runs on.  DisconnectSlip
   is the handler that owned the guard itself. *)
DisconnectSlip(l) ==
  /\ l \in connected
  /\ connected' = connected \ {l}
  /\ Unlock
  /\ UNCHANGED <<config, accepted, live, pc, load, engine>>

Disconnect(l) ==
  /\ l \in connected
  /\ connected' = connected \ {l}
  /\ UNCHANGED <<config, accepted, live, lock, queue, pc, load, engine>>

(* The watcher's events have settled: the channel is drained and the watcher
   waits for the lock.  DebouncedSlip skips the change when the lock is held. *)
DebouncedSlip ==
  /\ event /\ pc["watcher"] = "idle"
  /\ event' = FALSE
  /\ IF lock = None /\ queue = <<>> THEN Line("watcher")
                                   ELSE UNCHANGED <<lock, queue, pc>>
  /\ UNCHANGED <<file, considered, edits, accepted, live, connected, load, engine>>

Debounced ==
  /\ event /\ pc["watcher"] = "idle"
  /\ event' = FALSE
  /\ Line("watcher")
  /\ UNCHANGED <<file, considered, edits, accepted, live, connected, load, engine>>

(* The recovery loop wakes for a configured source that is not ready, as a
   remote radar may be, or whose polls have found what is not registered yet,
   as a GRIB or NetCDF one's may: it loads what was accepted, not the file.
   RecoverSlip reads the file. *)
Pending == \E c \in Collections : Source[c] = None /\ accepted[c] # 0

RecoverSlip ==
  /\ pc["recovery"] = "idle" /\ pc["main"] = "idle" /\ Pending /\ file # Malformed
  /\ TryLock("recovery")
  /\ pc' = [pc EXCEPT !["recovery"] = "build"]
  /\ want' = file
  /\ UNCHANGED <<config, accepted, live, connected, new, todo, ringing, engine>>

Recover ==
  /\ pc["recovery"] = "idle" /\ pc["main"] = "idle" /\ Pending
  /\ TryLock("recovery")
  /\ pc' = [pc EXCEPT !["recovery"] = "build"]
  /\ want' = accepted
  /\ UNCHANGED <<config, accepted, live, connected, new, todo, ringing, engine>>

(* The server stops: main ends the recovery loop and waits for a running load. *)
Stop ==
  /\ pc["main"] = "idle" /\ connected = {}
  /\ Line("main")
  /\ UNCHANGED <<config, accepted, live, connected, load, engine>>

(* A waiter has been handed the lock: the watcher reloads, main stops every
   registered engine. *)
Granted(a) ==
  /\ pc[a] = "waiting" /\ lock = a
  /\ pc' = [pc EXCEPT ![a] = IF a = "main" THEN "rotate" ELSE "read"]
  /\ todo' = IF a = "main" THEN {c \in Collections : live[c] # None} ELSE todo
  /\ UNCHANGED <<config, accepted, live, lock, queue, connected, want, new, ringing, engine>>

-----------------------------------------------------------------------------
(* A load. *)

(* do_reload reads the file; one that does not parse ends it. *)
Read(l) ==
  /\ pc[l] = "read"
  /\ considered' = file
  /\ IF file = Malformed
       THEN Finish(l)
       ELSE /\ pc' = [pc EXCEPT ![l] = "build"] /\ want' = file
            /\ UNCHANGED <<lock, queue, connected, new, todo, ringing>>
  /\ UNCHANGED <<file, event, edits, accepted, live, engine>>

Configured == {c \in Collections : want[c] # 0}

(* The collections whose live engines are reused: all of them by the recovery
   loop, otherwise those whose settings, and whose source's, are what was
   accepted.  ReusableSlip forgets the source. *)
Unchanged(c) == want[c] = accepted[c] /\ want[c] # 0 /\ live[c] # None

ReusableSlip(l) ==
  {c \in Collections : live[c] # None /\ (l = "recovery" \/ Unchanged(c))}

Reusable(l) ==
  {c \in Collections :
     /\ live[c] # None
     /\ l = "recovery" \/ (Unchanged(c) /\ (Source[c] # None => Unchanged(Source[c])))}

(* A slot no engine is in: not registered, not polled. *)
Free(c) == {s \in Slots : live[c] # s /\ loop[<<c, s>>] = "none"}

(* load_collections: every configured collection that is not reused is built,
   a derived one only on a source that is there; which builds succeed is up
   to the sources (ok).  No slot free is a bound of the model. *)
Buildable(l, ok) ==
  /\ ok \subseteq Configured \ Reusable(l)
  /\ \A c \in ok : Source[c] # None => Source[c] \in ok \cup Reusable(l)
  /\ \A c \in ok : Free(c) # {}

Built(l, ok) ==
  [c \in Collections |-> IF c \in ok THEN CHOOSE s \in Free(c) : TRUE
                         ELSE IF c \in Reusable(l) THEN live[c] ELSE None]

Build(l) ==
  /\ pc[l] = "build"
  /\ \E ok \in SUBSET Collections :
       /\ Buildable(l, ok)
       /\ \/ ok \cup Reusable(l) # {} \/ Configured = {}
       /\ new' = Built(l, ok)
       /\ todo' = {c \in Collections : live[c] # new'[c]}
       /\ fired' = [e \in Engines |-> fired[e] /\ ~(e[1] \in ok /\ e[2] = new'[e[1]])]
       /\ reads' = [e \in Engines |-> IF e[1] \in ok /\ e[2] = new'[e[1]] /\ Source[e[1]] # None
                                        THEN new'[Source[e[1]]] ELSE reads[e]]
  /\ pc' = [pc EXCEPT ![l] = "rotate"]
  /\ UNCHANGED <<config, accepted, live, lock, queue, connected, want, ringing, loop>>

(* Nothing that is configured is ready: the new engines are dropped, the live
   state stays.  A load that panics ends the same way. *)
Reject(l) ==
  /\ pc[l] = "build"
  /\ Reusable(l) = {} /\ Configured # {}
  /\ Finish(l)
  /\ UNCHANGED <<config, accepted, live, engine>>

(* rotate_poll_loops: an engine that is removed is shut down, first the flag,
   then the wake-up of the waiter registered by then, ... *)
ShutDown(a, c) ==
  /\ pc[a] = "rotate" /\ c \in todo /\ live[c] # None /\ ~fired[<<c, live[c]>>]
  /\ fired' = [fired EXCEPT ![<<c, live[c]>>] = TRUE]
  /\ ringing' = c
  /\ pc' = [pc EXCEPT ![a] = "notify"]
  /\ UNCHANGED <<config, accepted, live, lock, queue, connected, want, new, todo, loop, reads>>

NotifyWaiters(a) ==
  /\ pc[a] = "notify"
  /\ LET e == <<ringing, live[ringing]>>
     IN loop' = [loop EXCEPT ![e] = IF @ = "parked" THEN "none" ELSE @]
  /\ ringing' = None
  /\ pc' = [pc EXCEPT ![a] = "rotate"]
  /\ UNCHANGED <<config, accepted, live, lock, queue, connected, want, new, todo, fired, reads>>

(* ... and then the engine built in its place takes over from it and its poll
   loop is spawned.  SpawnSlip does not wait for the shutdown. *)
SpawnSlip(a, c) ==
  /\ pc[a] = "rotate" /\ c \in todo
  /\ todo' = todo \ {c}
  /\ loop' = [e \in Engines |-> IF e[1] = c /\ e[2] = new[c] THEN "busy" ELSE loop[e]]
  /\ UNCHANGED <<config, accepted, live, lock, queue, pc, connected, want, new, ringing, fired, reads>>

Spawn(a, c) ==
  /\ pc[a] = "rotate" /\ c \in todo
  /\ live[c] # None => fired[<<c, live[c]>>]
  /\ todo' = todo \ {c}
  /\ loop' = [e \in Engines |-> IF e[1] = c /\ e[2] = new[c] THEN "busy" ELSE loop[e]]
  /\ UNCHANGED <<config, accepted, live, lock, queue, pc, connected, want, new, ringing, fired, reads>>

(* The registries are swapped and what was loaded is remembered. *)
Swap(l) ==
  /\ l \in Loaders /\ pc[l] = "rotate" /\ todo = {}
  /\ live' = new /\ accepted' = want
  /\ Finish(l)
  /\ UNCHANGED <<config, engine>>

(* Every engine has been told to stop: the process ends. *)
Down ==
  /\ pc["main"] = "rotate" /\ todo = {}
  /\ pc' = [pc EXCEPT !["main"] = "down"]
  /\ UNCHANGED <<config, accepted, live, lock, queue, connected, load, engine>>

-----------------------------------------------------------------------------
(* The poll loop of an engine: one work cycle, or none yet, then tick(). *)

LoopStep(e, from, to) ==
  /\ loop[e] = from
  /\ loop' = [loop EXCEPT ![e] = to]
  /\ UNCHANGED <<config, accepted, live, lock, queue, pc, connected, load, fired, reads>>

(* Shutdown::wait: look at the flag, then register the waiter and look again
   (a wake-up between these two finds the flag set).  RegisterSlip does not. *)
Check(e) == LoopStep(e, "busy", IF fired[e] THEN "none" ELSE "register")

RegisterSlip(e) == LoopStep(e, "register", "parked")
Register(e)     == LoopStep(e, "register", IF fired[e] THEN "none" ELSE "parked")

(* The interval ticks; the flag is looked at again before the work. *)
Tick(e) == LoopStep(e, "parked", IF fired[e] THEN "none" ELSE "busy")

Poll(e) == Check(e) \/ Register(e)

-----------------------------------------------------------------------------

Load(l) == Read(l) \/ Build(l) \/ Reject(l) \/ Swap(l)
Rotate(a) == NotifyWaiters(a) \/ \E c \in Collections : ShutDown(a, c) \/ Spawn(a, c)
Watch == Debounced \/ Granted("watcher")

(* The server is down and nothing is left to do. *)
Halted == pc["main"] = "down" /\ UNCHANGED vars

Next ==
  \/ Edit \/ Stop \/ Granted("main") \/ Down \/ Watch \/ Recover \/ Halted
  \/ \E l \in Clients : Request(l) \/ Disconnect(l)
  \/ \E l \in Loaders : Load(l)
  \/ \E a \in Actors : Rotate(a)
  \/ \E e \in Engines : Poll(e) \/ Tick(e)

Spec == Init /\ [][Next]_vars

(* Tasks that can run are run; nothing depends on a tick, a request, an edit
   or the retries of the recovery loop. *)
FairSpec ==
  /\ Spec
  /\ WF_vars(Watch)
  /\ \A l \in Loaders : WF_vars(Load(l))
  /\ \A a \in Actors : WF_vars(Rotate(a))
  /\ \A e \in Engines : WF_vars(Poll(e))

-----------------------------------------------------------------------------
(* Properties. *)

(* reload_lock serializes loads, whoever asked for them and whether or not the
   client that did is still there (#1402), and a stop with them. *)
OneLoadAtATime ==
  \A a, b \in Actors : pc[a] \in Holding /\ pc[b] \in Holding => a = b

(* No loop sleeps through its shutdown: one whose flag is set while its waiter
   is registered is about to be woken (Shutdown::wait). *)
NoLostShutdown ==
  \A e \in Engines : loop[e] = "parked" /\ fired[e] => ringing = e[1]

(* Between loads the registered engines, and no others, are polled: a reused
   engine was neither stopped nor polled twice, an engine that was replaced or
   dropped has been told to stop, and a load that was given up has left the
   live ones running.  Once the server is down all have been told. *)
RegisteredArePolled ==
  /\ (\A a \in Actors : pc[a] \notin Rotating) =>
       \A c \in Collections, s \in Slots :
         (live[c] = s) <=> (loop[<<c, s>>] # "none" /\ ~fired[<<c, s>>])
  /\ pc["main"] = "down" => \A e \in Engines : loop[e] = "none" \/ fired[e]

(* A derived engine that is registered reads the engine registered for its
   source, not one that has been replaced. *)
DerivedReadLive ==
  \A c \in Collections :
    Source[c] # None /\ live[c] # None =>
      live[Source[c]] # None /\ reads[<<c, live[c]>>] = live[Source[c]]

(* The recovery loop picks up no edit that was not reloaded explicitly: what
   is accepted changes to what a request or the watcher has read. *)
OnlyReviewedEdits ==
  [][accepted' # accepted => accepted' = considered]_vars

(* A change of the file is never silently dropped: a load reads it, unless the
   server stops. *)
EditsAreConsidered == (file # considered) ~> (file = considered \/ pc["main"] # "idle")

=============================================================================
