------------------------------ MODULE BufrFeed ------------------------------
(***************************************************************************)
(* The report store of a WIS2-fed BUFR collection (engine-bufr): the loop  *)
(* that applies notifications, the deletion index, the state snapshot, and *)
(* the replacement of the engine by a reload, a stop or a crash.           *)
(*                                                                         *)
(* A row is a station and a time; its content is the data_id whose report  *)
(* is stored there.  What a reload does to an engine (admin.rs) runs on    *)
(* another thread than the engine's loop.  The write policy is kept as far *)
(* as it is a guard: the five minutes between two attempts.                *)
(***************************************************************************)
EXTENDS Naturals, Sequences, FiniteSets

CONSTANTS
  Engines,         \* engines of the collection that may exist at a time
  Ids,             \* data_ids
  Rows,            \* (station, time) keys
  MaxRemembered,   \* MAX_REMEMBERED
  None

ASSUME FeedAssumption ==
  /\ None \notin Engines \cup Ids
  /\ MaxRemembered \in Nat \ {0}

VARIABLES
  phase,      \* where the engine's life, or a reload of it, is
  live,       \* the engine that is registered
  next,       \* the one built to replace it
  store,      \* the rows of each engine
  shut,       \* Shutdown of each engine
  attempted,  \* it tried to write a snapshot less than five minutes ago
  loop,       \* where its loop is
  job,        \* the data_id the loop is applying, and its rows
  keys,
  owner,      \* Produced: row -> data_id
  listed,     \* by_data_id
  known,      \* the data_ids remembered
  order,      \* the order they came in
  snapshot,   \* the rows in the state store
  held,       \* history: what the feed has stored and not withdrawn
  orphans     \* history: rows no deletion can find

life     == <<phase, live, next>>
work     == <<loop, job, keys>>
produced == <<owner, listed, known, order>>
history  == <<held, orphans>>
vars     == <<life, store, shut, attempted, work, produced, snapshot, history>>

Content == [Rows -> Ids \cup {None}]
Empty   == [r \in Rows |-> None]

Phases == {"off", "run", "built", "shut", "flushed", "installed", "taken"}

TypeOK ==
  /\ phase \in Phases
  /\ live \in Engines \cup {None} /\ next \in Engines \cup {None}
  /\ store \in [Engines -> Content]
  /\ shut \in [Engines -> BOOLEAN] /\ attempted \in [Engines -> BOOLEAN]
  /\ loop \in [Engines -> {"none", "select", "woken", "ingested", "forgot"}]
  /\ job \in [Engines -> Ids \cup {None}]
  /\ keys \in [Engines -> SUBSET Rows]
  /\ owner \in [Engines -> Content]
  /\ listed \in [Engines -> [Ids -> SUBSET Rows]]
  /\ known \in [Engines -> SUBSET Ids]
  /\ order \in [Engines -> Seq(Ids)]
  /\ snapshot \in Content /\ held \in Content
  /\ orphans \subseteq Rows

Init ==
  /\ phase = "off" /\ live = None /\ next = None
  /\ store = [e \in Engines |-> Empty]
  /\ shut = [e \in Engines |-> FALSE] /\ attempted = [e \in Engines |-> FALSE]
  /\ loop = [e \in Engines |-> "none"]
  /\ job = [e \in Engines |-> None] /\ keys = [e \in Engines |-> {}]
  /\ owner = [e \in Engines |-> Empty]
  /\ listed = [e \in Engines |-> [d \in Ids |-> {}]]
  /\ known = [e \in Engines |-> {}] /\ order = [e \in Engines |-> <<>>]
  /\ snapshot = Empty /\ held = Empty /\ orphans = {}

-----------------------------------------------------------------------------
(* The deletion index of one engine: Produced. *)

Without(f, gone) == [r \in Rows |-> IF r \in gone THEN None ELSE f[r]]

(* forget: d's list goes, and with it the rows d still owns. *)
Disowned(o, l, d) == Without(o, {r \in l[d] : o[r] = d})
Unlisted(l, d)    == [l EXCEPT ![d] = {}]

Forget(e, d) ==
  /\ owner' = [owner EXCEPT ![e] = Disowned(owner[e], listed[e], d)]
  /\ listed' = [listed EXCEPT ![e] = Unlisted(listed[e], d)]
  /\ known' = [known EXCEPT ![e] = @ \ {d}]
  /\ UNCHANGED order

(* record: d takes each row over from whichever data_id owned it.  ListedSlip
   leaves it on that one's list. *)
Owned(o, d, ks) == [r \in Rows |-> IF r \in ks THEN d ELSE o[r]]

ListedSlip(o, l, d, ks) == [l EXCEPT ![d] = @ \cup ks]
Listed(o, l, d, ks) ==
  [i \in Ids |-> IF i = d THEN l[i] \cup ks ELSE l[i] \ {r \in ks : o[r] = i}]

(* A data_id not known is put in line; past MAX_REMEMBERED the first in line,
   which may be there more than once, is forgotten. *)
Queued(e, d)    == IF d \in known[e] THEN order[e] ELSE Append(order[e], d)
Overflows(e, d) == Len(Queued(e, d)) > MaxRemembered

Record(e, d, ks) ==
  LET o == Owned(owner[e], d, ks)
      l == Listed(owner[e], listed[e], d, ks)
      q == Queued(e, d)
  IN IF Overflows(e, d)
       THEN /\ owner' = [owner EXCEPT ![e] = Disowned(o, l, Head(q))]
            /\ listed' = [listed EXCEPT ![e] = Unlisted(l, Head(q))]
            /\ known' = [known EXCEPT ![e] = (@ \cup {d}) \ {Head(q)}]
            /\ order' = [order EXCEPT ![e] = Tail(q)]
       ELSE /\ owner' = [owner EXCEPT ![e] = o]
            /\ listed' = [listed EXCEPT ![e] = l]
            /\ known' = [known EXCEPT ![e] = @ \cup {d}]
            /\ order' = [order EXCEPT ![e] = q]

-----------------------------------------------------------------------------
(* Whose rows, and whose index, count: the registered engine's until the one
   built to replace it has taken them over. *)

Keeper  == IF phase \in {"installed", "taken"} THEN next ELSE live
Indexer == IF phase = "taken" THEN next ELSE live

(* Rows whose owner the cap pushes out as ks is recorded, ks's own included:
   nothing will withdraw them. *)
Lost(e, ks) == {r \in Rows : (r \in ks \/ owner[e][r] # None) /\ owner'[e][r] = None}

-----------------------------------------------------------------------------
(* The loop of an engine: Wis2Source::run.  select is biased: a shutdown seen
   there ends it, one that comes later finds it in a branch. *)

Goto(e, at) == loop' = [loop EXCEPT ![e] = at]

(* The branch is over, and nothing is kept of what it was about. *)
Done(e) ==
  /\ Goto(e, "select")
  /\ job' = [job EXCEPT ![e] = None] /\ keys' = [keys EXCEPT ![e] = {}]

Select(e) ==
  /\ loop[e] = "select"
  /\ Goto(e, IF shut[e] THEN "none" ELSE "woken")
  /\ UNCHANGED <<life, store, shut, attempted, job, keys, produced, snapshot, history>>

(* The store takes changes until the shutdown: the flag is looked at under the
   lock of the store.  OpenSlip does not look. *)
OpenSlip(e) == e \in Engines
Open(e)     == ~shut[e]

(* A report: ingest_bytes_keyed.  Which of its rows are in the window is up to
   the clock. *)
Ingest(e) ==
  /\ loop[e] = "woken" /\ Open(e)
  /\ \E d \in Ids, ks \in SUBSET Rows \ {{}} :
       /\ store' = [store EXCEPT ![e] = Owned(@, d, ks)]
       /\ held' = Owned(held, d, ks)
       /\ job' = [job EXCEPT ![e] = d] /\ keys' = [keys EXCEPT ![e] = ks]
  /\ Goto(e, "ingested")
  /\ UNCHANGED <<life, shut, attempted, produced, snapshot, orphans>>

(* A report that does not decode, that is out of the window, or that comes
   after the shutdown leaves nothing. *)
Discard(e) ==
  /\ loop[e] = "woken"
  /\ Goto(e, "select")
  /\ UNCHANGED <<life, store, shut, attempted, job, keys, produced, snapshot, history>>

(* ... and then, under the other lock: record_produced. *)
RecordProduced(e) ==
  /\ loop[e] = "ingested"
  /\ Record(e, job[e], keys[e])
  /\ orphans' = IF e = Indexer THEN (orphans \ keys[e]) \cup Lost(e, keys[e])
                               ELSE orphans \cup keys[e]
  /\ Done(e)
  /\ UNCHANGED <<life, store, shut, attempted, snapshot, held>>

(* A deletion: the index forgets the data_id, then the rows go, unless the
   engine has been shut down by then. *)
Delete(e) ==
  /\ loop[e] = "woken"
  /\ \E d \in Ids :
       /\ Forget(e, d)
       /\ IF listed[e][d] = {}
            THEN Done(e)
            ELSE /\ Goto(e, "forgot")
                 /\ job' = [job EXCEPT ![e] = d]
                 /\ keys' = [keys EXCEPT ![e] = listed[e][d]]
  /\ UNCHANGED <<life, store, shut, attempted, snapshot, history>>

RemoveReports(e) ==
  /\ loop[e] = "forgot"
  /\ IF Open(e)
       THEN /\ store' = [store EXCEPT ![e] = Without(@, keys[e])]
            /\ held' = Without(held, keys[e])
            /\ orphans' = orphans \ keys[e]
       ELSE /\ orphans' = orphans \cup keys[e]
            /\ UNCHANGED <<store, held>>
  /\ Done(e)
  /\ UNCHANGED <<life, shut, attempted, produced, snapshot>>

(* Rows past the retention, or of stations past max_stations, are dropped, by
   a retired engine too. *)
Prune(e) ==
  /\ loop[e] = "woken"
  /\ \E gone \in SUBSET Rows :
       /\ store' = [store EXCEPT ![e] = Without(@, gone)]
       /\ held' = IF e = Keeper THEN Without(held, gone) ELSE held
  /\ Goto(e, "select")
  /\ UNCHANGED <<life, shut, attempted, job, keys, produced, snapshot, orphans>>

(* write_state: the snapshot is written or the previous one stays. *)
Write(e) ==
  /\ snapshot' \in {snapshot, store[e]}
  /\ attempted' = [attempted EXCEPT ![e] = TRUE]

Snap(e) ==
  /\ loop[e] = "woken" /\ ~attempted[e]
  /\ Write(e)
  /\ Goto(e, "select")
  /\ UNCHANGED <<life, store, shut, job, keys, produced, history>>

(* Five minutes after an attempt.  A branch takes less, and only the loop asks. *)
Later(e) ==
  /\ attempted[e] /\ loop[e] = "select"
  /\ attempted' = [attempted EXCEPT ![e] = FALSE]
  /\ UNCHANGED <<life, store, shut, work, produced, snapshot, history>>

Step(e) ==
  \/ Select(e) \/ Discard(e) \/ Ingest(e) \/ RecordProduced(e)
  \/ Delete(e) \/ RemoveReports(e) \/ Prune(e) \/ Snap(e)

-----------------------------------------------------------------------------
(* The life of an engine. *)

(* A new engine restores the last snapshot, and no index. *)
Fresh(e, rows) ==
  /\ store' = [store EXCEPT ![e] = rows]
  /\ shut' = [shut EXCEPT ![e] = FALSE]
  /\ attempted' = [attempted EXCEPT ![e] = FALSE]
  /\ owner' = [owner EXCEPT ![e] = Empty]
  /\ listed' = [listed EXCEPT ![e] = [d \in Ids |-> {}]]
  /\ known' = [known EXCEPT ![e] = {}]
  /\ order' = [order EXCEPT ![e] = <<>>]

Free(e) == loop[e] = "none" /\ e # live

(* At boot, or when the collection is configured again. *)
Start(e) ==
  /\ phase = "off" /\ Free(e)
  /\ \E gone \in SUBSET Rows :
       /\ Fresh(e, Without(snapshot, gone))
       /\ held' = Without(held, gone)
  /\ orphans' = Rows
  /\ Goto(e, "select")
  /\ phase' = "run" /\ live' = e
  /\ UNCHANGED <<next, job, keys, snapshot>>

Build(e) ==
  /\ phase = "run" /\ Free(e)
  /\ Fresh(e, snapshot)
  /\ phase' = "built" /\ next' = e
  /\ UNCHANGED <<live, work, snapshot, history>>

Reject ==
  /\ phase = "built"
  /\ phase' = "run" /\ next' = None
  /\ UNCHANGED <<live, store, shut, attempted, work, produced, snapshot, history>>

(* shutdown(): the flag under the lock of the store, then the flush.  The engine
   is being replaced, or it is removed or the server stops. *)
ShutDown ==
  /\ phase \in {"run", "built"}
  /\ shut' = [shut EXCEPT ![live] = TRUE]
  /\ phase' = "shut"
  /\ UNCHANGED <<live, next, store, attempted, work, produced, snapshot, history>>

(* An engine without a successor leaves what the flush wrote, or, when the flush
   fails, the previous snapshot, and what came since then is given up. *)
Flush ==
  /\ phase = "shut"
  /\ Write(live)
  /\ IF next = None
       THEN /\ phase' = "off" /\ live' = None
            /\ held' = IF snapshot' = store[live] THEN held ELSE snapshot'
       ELSE phase' = "flushed" /\ UNCHANGED <<live, held>>
  /\ UNCHANGED <<next, store, shut, work, produced, orphans>>

(* take_over: the rows replace what was restored, pruned to the new settings. *)
Install ==
  /\ phase = "flushed"
  /\ \E gone \in SUBSET Rows :
       /\ store' = [store EXCEPT ![next] = Without(store[live], gone)]
       /\ held' = Without(held, gone)
  /\ phase' = "installed"
  /\ UNCHANGED <<live, next, shut, attempted, work, produced, snapshot, orphans>>

(* ... and then the index moves (take_deletions).  TakeSlip leaves it behind. *)
TakeSlip ==
  /\ phase = "installed"
  /\ phase' = "taken"
  /\ UNCHANGED <<live, next, store, shut, attempted, work, produced, snapshot, history>>

TakeDeletions ==
  /\ phase = "installed"
  /\ owner' = [owner EXCEPT ![next] = owner[live], ![live] = Empty]
  /\ listed' = [listed EXCEPT ![next] = listed[live], ![live] = [d \in Ids |-> {}]]
  /\ known' = [known EXCEPT ![next] = known[live], ![live] = {}]
  /\ order' = [order EXCEPT ![next] = order[live], ![live] = <<>>]
  /\ phase' = "taken"
  /\ UNCHANGED <<live, next, store, shut, attempted, work, snapshot, history>>

(* The loop of the new engine is spawned and the registries are swapped. *)
Swap ==
  /\ phase = "taken"
  /\ Goto(next, "select")
  /\ phase' = "run" /\ live' = next /\ next' = None
  /\ UNCHANGED <<store, shut, attempted, job, keys, produced, snapshot, history>>

(* The process ends, of its own accord once it has been stopped, or not. *)
Crash ==
  /\ phase' = "off" /\ live' = None /\ next' = None
  /\ loop' = [e \in Engines |-> "none"]
  /\ job' = [e \in Engines |-> None] /\ keys' = [e \in Engines |-> {}]
  /\ held' = snapshot
  /\ UNCHANGED <<store, shut, attempted, produced, snapshot, orphans>>

Next ==
  \/ \E e \in Engines : Step(e) \/ Later(e) \/ Start(e) \/ Build(e)
  \/ Reject \/ ShutDown \/ Flush \/ Install \/ TakeDeletions \/ Swap \/ Crash

Spec == Init /\ [][Next]_vars

-----------------------------------------------------------------------------
(* Properties. *)

(* The two halves of the index agree (the doc of Produced), and the index is
   bounded: what is remembered is in line to be forgotten, and the line is no
   longer than MAX_REMEMBERED, although forget leaves entries in it. *)
IndexAgrees ==
  \A e \in Engines :
    /\ \A r \in Rows, d \in Ids : owner[e][r] = d <=> r \in listed[e][d]
    /\ \A d \in Ids : d \in known[e] => \E i \in 1..Len(order[e]) : order[e][i] = d
    /\ Len(order[e]) <= MaxRemembered

(* No report the feed has stored is lost by a reload, however the loop of the
   old engine runs on, nor by a stop whose flush is written, and none that was
   withdrawn comes back: nothing lands after the shutdown, what is taken over
   replaces what was restored, and a retired engine does not write its rows
   over the snapshot of a later one (shutdown and take_over, #1036). *)
NothingLost == IF phase = "off" THEN snapshot = held ELSE store[Keeper] = held

(* The rows being applied. *)
InFlight == UNION {keys[e] : e \in Engines}

(* A deletion finds the rows of its data_id and no other's: each stored row is
   owned by the data_id whose report it holds (the doc of Produced, #1036),
   unless the index was lost at a restart, or forgot it at the cap, or the
   engine was taken over from while the row was being applied. *)
OwnedByProducer ==
  phase # "off" =>
    \A r \in Rows \ (orphans \cup InFlight) :
      held[r] # None => owner[Indexer][r] = held[r]

=============================================================================
