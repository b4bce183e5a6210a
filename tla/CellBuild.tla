----------------------------- MODULE CellBuild ------------------------------
(***************************************************************************)
(* How the tiles of one cold CELLS viewport share the builds of their scan *)
(* window (crate engine-odim, cells.rs, cell_product): the render slots of *)
(* module RenderAdmission composed with the single flight of the cell-set  *)
(* cache.                                                                  *)
(*                                                                         *)
(* A tile's worker walks the window: it takes what is cached, builds what  *)
(* nobody is building, and remembers the first set another tile builds.    *)
(* At the end of a round it waits for that one through wait_without_slot.  *)
(*                                                                         *)
(* The cache's claim (a quick_cache placeholder guard) is held by one tile *)
(* per key; dropped without a value it passes to one of the tiles waiting  *)
(* for the key.  Operators whose names end in Slip are used nowhere: each  *)
(* is a plausible mistake in the definition after it.                      *)
(***************************************************************************)
EXTENDS RenderAdmission

CONSTANTS
  Window,          \* the keys of the window's cell sets, in scan order
  Nobody,
  MaxFailures,     \* bound: builds that fail
  MaxEvictions     \* bound: sets that leave the cache again

ASSUME CellAssumption ==
  /\ Window \in Seq({Window[p] : p \in DOMAIN Window}) /\ Window # <<>>
  /\ \A p, q \in DOMAIN Window : Window[p] = Window[q] => p = q
  /\ Nobody \notin Jobs \cup {Window[p] : p \in DOMAIN Window}
  /\ MaxFailures \in Nat /\ MaxEvictions \in Nat

VARIABLES
  cached,      \* keys resident in CELL_SET_CACHE
  claim,       \* who holds the fill claim of each key
  sets,        \* the sets each worker has
  at,          \* the position of each worker's scan
  building,    \* the set each worker remembers, then waits for
  joined,      \* workers blocked in the cache until that set's claim ends
  failed,      \* workers that return an error
  builds,      \* sets built, per key
  failures, evictions

single == <<cached, claim, builds, failures, evictions>>
scan == <<sets, at, building, joined, failed>>
cellVars == <<vars, single, scan>>

Keys == {Window[p] : p \in DOMAIN Window}
Waiting == {"parked", "blocked"}
Joined(k) == {j \in joined : building[j] = k}
RoundEnd == Len(Window) + 1

CellInit ==
  /\ Init
  /\ cached = {}
  /\ claim = [k \in Keys |-> Nobody]
  /\ sets = [j \in Jobs |-> {}]
  /\ at = [j \in Jobs |-> 1]
  /\ building = [j \in Jobs |-> Nobody]
  /\ joined = {} /\ failed = {}
  /\ builds = [k \in Keys |-> 0]
  /\ failures = 0 /\ evictions = 0

-----------------------------------------------------------------------------
(* The claim of k goes without a value: to a tile waiting for it, if any. *)
HandOn(k) ==
  \/ /\ Joined(k) = {}
     /\ claim' = [claim EXCEPT ![k] = Nobody]
     /\ UNCHANGED joined
  \/ \E w \in Joined(k) :
       /\ claim' = [claim EXCEPT ![k] = w]
       /\ joined' = joined \ {w}

Scanning(j) ==
  /\ phase[j] = "running"
  /\ j \notin failed
  /\ \A k \in Keys : claim[k] # j

(* The probe of the next key, with no wait: its value, its claim, or another
   tile's build, the first of which the round remembers. *)
Probe(j) ==
  LET k == Window[at[j]] IN
  /\ Scanning(j)
  /\ at[j] < RoundEnd
  /\ \/ /\ k \in sets[j] \cup cached
        /\ sets' = [sets EXCEPT ![j] = @ \cup {k}]
        /\ at' = [at EXCEPT ![j] = @ + 1]
        /\ UNCHANGED <<claim, building>>
     \/ /\ k \notin sets[j] \cup cached /\ claim[k] = Nobody
        /\ claim' = [claim EXCEPT ![k] = j]
        /\ UNCHANGED <<sets, at, building>>
     \/ /\ k \notin sets[j] \cup cached /\ claim[k] # Nobody
        /\ building' = [building EXCEPT ![j] = IF @ = Nobody THEN k ELSE @]
        /\ at' = [at EXCEPT ![j] = @ + 1]
        /\ UNCHANGED <<sets, claim>>
  /\ UNCHANGED <<vars, cached, builds, failures, evictions, joined, failed>>

(* SharedBuilds: the value is handed to the waiters and never kept. *)
PublishedSlip(k) == cached
Published(k) == cached \cup {k}

(* fill_cell_set succeeds: the set is cached, and every tile waiting for it
   has it. *)
Build(j) ==
  \E k \in Keys :
    /\ claim[k] = j /\ phase[j] = "running"
    /\ cached' = Published(k)
    /\ claim' = [claim EXCEPT ![k] = Nobody]
    /\ builds' = [builds EXCEPT ![k] = @ + 1]
    /\ sets' = [i \in Jobs |-> IF i \in Joined(k) \cup {j} THEN sets[i] \cup {k}
                                                           ELSE sets[i]]
    /\ building' = [i \in Jobs |-> IF i \in Joined(k) THEN Nobody ELSE building[i]]
    /\ joined' = joined \ Joined(k)
    /\ UNCHANGED <<vars, failures, evictions, at, failed>>

(* fill_cell_set fails or unwinds: the claim is dropped, and the `?` returns
   the error. *)
BuildFails(j) ==
  /\ failures < MaxFailures
  /\ failures' = failures + 1
  /\ phase[j] = "running"
  /\ \E k \in Keys : claim[k] = j /\ HandOn(k)
  /\ failed' = failed \cup {j}
  /\ UNCHANGED <<vars, cached, builds, evictions, sets, at, building>>

(* CellTypeOK: the scan goes on from where it was, past its end. *)
EndRoundOnSlip(j) ==
  /\ Scanning(j)
  /\ at[j] = RoundEnd /\ building[j] # Nobody
  /\ BeginWait(j)
  /\ UNCHANGED waits
  /\ at' = [at EXCEPT ![j] = @ + 1]
  /\ UNCHANGED <<single, sets, building, joined, failed>>
(* ServedWhole: no next round after the wait. *)
EndRoundLastSlip(j) ==
  /\ Scanning(j)
  /\ at[j] = RoundEnd /\ building[j] # Nobody
  /\ BeginWait(j)
  /\ UNCHANGED waits
  /\ UNCHANGED <<single, scan>>
(* The round is over with a set to wait for; the next starts over. *)
EndRound(j) ==
  /\ Scanning(j)
  /\ at[j] = RoundEnd /\ building[j] # Nobody
  /\ BeginWait(j)
  /\ UNCHANGED waits
  /\ at' = [at EXCEPT ![j] = 1]
  /\ UNCHANGED <<single, sets, building, joined, failed>>

(* NoOrphanWaiter: it waits for the build it remembers without looking. *)
LookSlip(j) ==
  /\ phase[j] \in Waiting
  /\ building[j] # Nobody /\ j \notin joined
  /\ joined' = joined \cup {j}
  /\ UNCHANGED <<vars, single, sets, at, building, failed>>
(* The wait's own lookup: the value, the claim of a vacant entry, or a place
   among the build's waiters. *)
Look(j) ==
  LET k == building[j] IN
  /\ phase[j] \in Waiting
  /\ k # Nobody /\ j \notin joined /\ claim[k] # j
  /\ \/ /\ k \in cached
        /\ sets' = [sets EXCEPT ![j] = @ \cup {k}]
        /\ building' = [building EXCEPT ![j] = Nobody]
        /\ UNCHANGED joined
        /\ UNCHANGED claim
     \/ /\ k \notin cached /\ claim[k] = Nobody
        /\ claim' = [claim EXCEPT ![k] = j]
        /\ UNCHANGED <<sets, building, joined>>
     \/ /\ k \notin cached /\ claim[k] # Nobody
        /\ joined' = joined \cup {j}
        /\ UNCHANGED <<sets, building, claim>>
  /\ UNCHANGED <<vars, cached, builds, failures, evictions, at, failed>>

MustLetGo(j) ==
  /\ phase[j] \in Waiting
  /\ building[j] # Nobody
  /\ claim[building[j]] = j

(* EveryTileEnds, NoHoldAndWait: the claim is kept for the build of the next
   round, across the wait for a slot. *)
LetGoSlip(j) ==
  /\ MustLetGo(j)
  /\ building' = [building EXCEPT ![j] = Nobody]
  /\ UNCHANGED <<vars, single, sets, at, joined, failed>>
(* The claim a waiting tile was handed by a failed builder, or found vacant,
   is let go before the tile queues for a slot. *)
LetGo(j) ==
  /\ MustLetGo(j)
  /\ HandOn(building[j])
  /\ building' = [building EXCEPT ![j] = Nobody]
  /\ UNCHANGED <<vars, cached, builds, failures, evictions, sets, at, failed>>

(* The wait outlasts the tile's deadline. *)
WaitTimesOut(j) ==
  /\ j \in joined /\ j \in expired
  /\ joined' = joined \ {j}
  /\ building' = [building EXCEPT ![j] = Nobody]
  /\ failed' = failed \cup {j}
  /\ UNCHANGED <<vars, single, sets, at>>

(* `wait` has returned: the slot is taken again. *)
Resume(j) ==
  /\ building[j] = Nobody
  /\ EndWait(j)
  /\ UNCHANGED <<single, scan>>

(* The product is complete, or an error is on its way out. *)
Return(j) ==
  /\ \/ phase[j] = "slotless" \/ j \in failed
     \/ Scanning(j) /\ at[j] = RoundEnd /\ building[j] = Nobody
  /\ Finish(j)
  /\ UNCHANGED <<single, scan>>

(* The cache evicts a set to stay within its bytes. *)
Evict(k) ==
  /\ k \in cached /\ evictions < MaxEvictions
  /\ cached' = cached \ {k}
  /\ evictions' = evictions + 1
  /\ UNCHANGED <<vars, claim, builds, failures, scan>>

-----------------------------------------------------------------------------
Tile(j) ==
  \/ Probe(j) \/ Build(j) \/ EndRound(j) \/ Look(j) \/ LetGo(j)
  \/ Resume(j) \/ Return(j)

(* The rest of RenderAdmission, for a render that reserves no memory. *)
Admission(j) ==
  /\ \/ FastSlot(j) \/ TakePlace(j) \/ AskSlot(j) \/ Granted(j)
     \/ DropPlace(j) \/ Start(j) \/ GiveSlot(j) \/ Deliver(j)
  /\ UNCHANGED <<single, scan>>

Client(j) ==
  /\ \/ Arrive(j) \/ Expire(j) \/ QueueTimeout(j) \/ RetakeTimeout(j)
  /\ UNCHANGED <<single, scan>>

CellNext ==
  \/ \E j \in Jobs : \/ Tile(j) \/ Admission(j) \/ Client(j)
                     \/ BuildFails(j) \/ WaitTimesOut(j)
  \/ \E k \in Keys : Evict(k)
  \/ Quiescent /\ UNCHANGED <<single, scan>>

CellSpec == CellInit /\ [][CellNext]_cellVars

(* A build ends, a worker and the executor go on when they can, *)
Fairness == \A j \in Jobs : WF_cellVars(Tile(j) \/ Admission(j))

(* ... and no client's deadline comes to the rescue. *)
PatientSpec == CellInit /\ [][CellNext /\ expired' = {}]_cellVars /\ Fairness

(* The same where the hand-over of a claim is quicker than a probe: a tile
   that must let one go does so before anyone else takes a step. *)
Promptly == (\E j \in Jobs : MustLetGo(j)) => \E j \in Jobs : LetGo(j)
PromptSpec ==
  CellInit /\ [][CellNext /\ expired' = {} /\ Promptly]_cellVars /\ Fairness

-----------------------------------------------------------------------------
(* Properties. *)

CellTypeOK ==
  /\ cached \subseteq Keys
  /\ claim \in [Keys -> Jobs \cup {Nobody}]
  /\ sets \in [Jobs -> SUBSET Keys]
  /\ at \in [Jobs -> 1..RoundEnd]
  /\ building \in [Jobs -> Keys \cup {Nobody}]
  /\ joined \subseteq Jobs /\ failed \subseteq Jobs
  /\ builds \in [Keys -> Nat]
  /\ failures \in 0..MaxFailures /\ evictions \in 0..MaxEvictions

(* "No tile holds a claim the others wait on while it queues": a claim is
   held by a tile that builds in its slot, or for the moment in which a
   waiting tile lets go one it was handed; never by one that waits for a
   set, for a slot, or has returned. *)
NoHoldAndWait ==
  \A k \in Keys : claim[k] # Nobody =>
    LET j == claim[k] IN
    /\ j \notin joined
    /\ phase[j] \in {"running"} \cup Waiting
    /\ phase[j] \in Waiting => building[j] = k

(* Every tile blocked in the cache waits for a key some tile has claimed,
   which ends or passes on that claim: nobody waits on a key left vacant. *)
NoOrphanWaiter == \A j \in joined : claim[building[j]] # Nobody

(* "One whole-file GET per volume": a set is built again only if the cache
   lost it, however the tiles, their failures and their deadlines race. *)
SharedBuilds == \A k \in Keys : builds[k] <= 1 + evictions

(* A tile that is served has every set of its window. *)
ServedWhole ==
  \A j \in Jobs : outcome[j] = "served" => sets[j] = Keys \/ j \in failed

(* Every tile ends, though no deadline fires, whoever fails and whatever the
   cache evicts: neither claims nor slots are waited for in a circle, with
   the queue full and every tile waiting in its slot included. *)
EveryTileEnds ==
  \A j \in Jobs :
    phase[j] # "new" ~> phase[j] = "done" /\ outcome[j] # "none"
=============================================================================
