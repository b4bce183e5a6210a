-------------------------- MODULE CellBuildProofs ---------------------------
(***************************************************************************)
(* For any tiles, window, slots, queue and number of failures and          *)
(* evictions: no tile queues with a claim, nobody waits on a key left      *)
(* vacant, a set is built once, and a tile that is served has its window.  *)
(***************************************************************************)
EXTENDS CellBuild, TLAPS

Whole(j) == sets[j] = Keys \/ j \in failed
InWait == Waiting \cup {"parking"}
Ends == {"slotless", "done"}

CellTyped ==
  CellTypeOK /\ phase \in [Jobs -> Phases] /\ outcome \in [Jobs -> Outcomes]

(* Who holds a claim holds one, and its set is not cached. *)
ClaimsHeld ==
  \A k \in Keys : claim[k] # Nobody =>
    /\ claim[k] \notin joined /\ claim[k] \notin failed
    /\ phase[claim[k]] \in {"running"} \cup Waiting
    /\ phase[claim[k]] \in Waiting => building[claim[k]] = k
    /\ k \notin cached
    /\ \A l \in Keys : claim[l] = claim[k] => l = k

(* Who is blocked in the cache waits, for a set somebody builds. *)
WaitersServed ==
  \A j \in joined :
    /\ phase[j] \in Waiting /\ j \notin failed
    /\ building[j] # Nobody /\ claim[building[j]] # Nobody

(* A round in which nothing is left to wait for has every set behind it. *)
RoundsKept ==
  \A j \in Jobs :
    /\ phase[j] \in InWait => at[j] = 1
    /\ phase[j] \in InWait /\ j \in failed => building[j] = Nobody
    /\ building[j] = Nobody => \A p \in 1..(at[j] - 1) : Window[p] \in sets[j]

BuildsCounted ==
  \A k \in Keys : builds[k] <= (IF k \in cached THEN 1 ELSE 0) + evictions

(* A worker that ended without its window failed, or its client knows. *)
EndsKnown ==
  \A j \in Jobs :
    /\ phase[j] \in Ends => Whole(j) \/ j \in expired \/ outcome[j] # "none"
    /\ outcome[j] = "served" => phase[j] = "done" /\ Whole(j)

Claims == ClaimsHeld /\ WaitersServed
CellInv == CellTyped /\ Claims /\ RoundsKept /\ BuildsCounted /\ EndsKnown

-----------------------------------------------------------------------------
LEMMA KeysAre ==
  /\ Len(Window) \in Nat /\ RoundEnd = Len(Window) + 1
  /\ \A p \in 1..Len(Window) : Window[p] \in Keys
  /\ \A k \in Keys : \E p \in 1..Len(Window) : k = Window[p]
  /\ Nobody \notin Jobs /\ Nobody \notin Keys
BY CellAssumption DEF CellAssumption, Keys, RoundEnd

(* A claim let go by its holder is vacant, with nobody waiting for the key,
   or held by one of those who did. *)
LEMMA HandOnGives ==
  ASSUME CellTyped, Claims, NEW k \in Keys, HandOn(k)
  PROVE  /\ claim' \in [Keys -> Jobs \cup {Nobody}] /\ joined' \subseteq joined
         /\ \A l \in Keys \ {k} : claim'[l] = claim[l]
         /\ claim'[k] # Nobody =>
              claim'[k] \in joined \ joined' /\ building[claim'[k]] = k
         /\ \A i \in joined' : building[i] = k => claim'[k] # Nobody
<1>1. /\ claim \in [Keys -> Jobs \cup {Nobody}] /\ joined \subseteq Jobs
      /\ Nobody \notin Jobs
  BY KeysAre DEF CellTyped, CellTypeOK
<1>2. CASE /\ Joined(k) = {} /\ claim' = [claim EXCEPT ![k] = Nobody]
           /\ joined' = joined
  BY <1>1, <1>2 DEF Joined
<1>3. CASE \E w \in Joined(k) : /\ claim' = [claim EXCEPT ![k] = w]
                                /\ joined' = joined \ {w}
  <2>1. PICK w \in Joined(k) : /\ claim' = [claim EXCEPT ![k] = w]
                               /\ joined' = joined \ {w}
    BY <1>3
  <2>2. w \in joined /\ w \in Jobs /\ building[w] = k
    BY <1>1 DEF Joined
  <2> QED BY <1>1, <2>1, <2>2
<1> QED BY <1>2, <1>3 DEF HandOn

-----------------------------------------------------------------------------
(* Steps of the executor and of clients: they move one job that does not
   scan the window, or end the move of one that is about to wait. *)
Moved(j) ==
  /\ phase' \in [Jobs -> Phases] /\ outcome' \in [Jobs -> Outcomes]
  /\ expired \subseteq expired'
  /\ \A i \in Jobs \ {j} : phase'[i] = phase[i] /\ outcome'[i] = outcome[i]
  /\ \/ phase'[j] = phase[j]
     \/ phase[j] = "parking" /\ phase'[j] = "parked"
     \/ /\ phase[j] \notin InWait \cup {"running", "done"}
        /\ phase'[j] \notin InWait
        /\ phase'[j] \in Ends => j \in expired' \/ outcome'[j] # "none"
  /\ \/ outcome'[j] = outcome[j]
     \/ outcome'[j] \notin {"none", "served"}
     \/ /\ outcome'[j] = "served" /\ phase[j] = "done" /\ phase' = phase
        /\ j \notin expired /\ outcome[j] = "none"

LEMMA AdmissionMoves ==
  ASSUME CellTyped, NEW j \in Jobs, Admission(j)
  PROVE  Moved(j) /\ UNCHANGED <<single, scan>>
<1> USE DEF CellTyped, Moved, InWait, Waiting, Ends, Phases, SlotPhases,
            PlacePhases, MemoryPhases, Outcomes, Goto, Answer
<1>1. ASSUME FastSlot(j) PROVE Moved(j)
  BY <1>1 DEF FastSlot
<1>2. ASSUME TakePlace(j) PROVE Moved(j)
  BY <1>2 DEF TakePlace
<1>3. ASSUME AskSlot(j) PROVE Moved(j)
  BY <1>3 DEF AskSlot, TakeSlotOr
<1>4. ASSUME Granted(j) PROVE Moved(j)
  BY <1>4 DEF Granted
<1>5. ASSUME DropPlace(j) PROVE Moved(j)
  BY <1>5 DEF DropPlace
<1>6. ASSUME Start(j) PROVE Moved(j)
  BY <1>6 DEF Start
<1>7. ASSUME GiveSlot(j) PROVE Moved(j)
  BY <1>7 DEF GiveSlot
<1>8. ASSUME Deliver(j) PROVE Moved(j)
  BY <1>8 DEF Deliver, InPool
<1> HIDE DEF CellTyped, Moved
<1> QED BY <1>1, <1>2, <1>3, <1>4, <1>5, <1>6, <1>7, <1>8 DEF Admission

LEMMA ClientMoves ==
  ASSUME CellTyped, NEW j \in Jobs, Client(j)
  PROVE  Moved(j) /\ UNCHANGED <<single, scan>>
<1> USE DEF CellTyped, Moved, InWait, Waiting, Ends, Phases, SlotPhases,
            PlacePhases, MemoryPhases, Outcomes, Goto, Answer
<1>1. ASSUME Arrive(j) PROVE Moved(j)
  BY <1>1 DEF Arrive
<1>2. ASSUME Expire(j) PROVE Moved(j)
  BY <1>2 DEF Expire
<1>3. ASSUME QueueTimeout(j) PROVE Moved(j)
  BY <1>3 DEF QueueTimeout, LeaveQueue
<1>4. ASSUME RetakeTimeout(j) PROVE Moved(j)
  BY <1>4 DEF RetakeTimeout
<1> HIDE DEF CellTyped, Moved
<1> QED BY <1>1, <1>2, <1>3, <1>4 DEF Client

LEMMA MovedInv ==
  ASSUME CellInv, NEW j \in Jobs, Moved(j), UNCHANGED <<single, scan>>
  PROVE  CellInv'
<1> USE DEF single, scan, Moved, InWait, Ends
<1>1. CellTyped'
  BY DEF CellInv, CellTyped, CellTypeOK
<1>2. Claims'
  <2>1. ClaimsHeld'
    BY KeysAre DEF CellInv, Claims, ClaimsHeld, CellTyped, CellTypeOK, Waiting
  <2>2. WaitersServed'
    BY DEF CellInv, Claims, WaitersServed, CellTyped, CellTypeOK, Waiting
  <2> QED BY <2>1, <2>2 DEF Claims
<1>3. RoundsKept'
  BY DEF CellInv, RoundsKept, Waiting
<1>4. BuildsCounted'
  BY DEF CellInv, BuildsCounted
<1>5. EndsKnown'
  BY DEF CellInv, EndsKnown, Whole, CellTyped
<1> QED BY <1>1, <1>2, <1>3, <1>4, <1>5 DEF CellInv

-----------------------------------------------------------------------------
(* The steps of a tile, one lemma for each action. *)

(* The scan goes on, or takes a claim it is the only one to hold. *)
LEMMA ProbeInv ==
  ASSUME CellInv, NEW j \in Jobs, Probe(j)
  PROVE  CellInv'
<1> USE DEF CellInv, Claims, CellTyped, CellTypeOK, Probe, Scanning, vars, single,
            scan, InWait, Waiting, Ends
<1> DEFINE k == Window[at[j]]
<1>a. /\ at[j] \in 1..Len(Window) /\ k \in Keys /\ phase[j] = "running" /\ j \notin failed
      /\ \A l \in Keys : claim[l] # j
  BY KeysAre
<1>b. \/ /\ k \in sets[j] \cup cached
         /\ sets' = [sets EXCEPT ![j] = @ \cup {k}]
         /\ at' = [at EXCEPT ![j] = @ + 1]
         /\ claim' = claim /\ building' = building
      \/ /\ k \notin sets[j] \cup cached /\ claim[k] = Nobody
         /\ claim' = [claim EXCEPT ![k] = j]
         /\ sets' = sets /\ at' = at /\ building' = building
      \/ /\ k \notin sets[j] \cup cached /\ claim[k] # Nobody
         /\ building' = [building EXCEPT ![j] = IF @ = Nobody THEN k ELSE @]
         /\ at' = [at EXCEPT ![j] = @ + 1]
         /\ sets' = sets /\ claim' = claim
  OBVIOUS
<1>c. UNCHANGED <<vars, cached, builds, failures, evictions, joined, failed>>
  OBVIOUS
<1> HIDE DEF k, Probe
<1>1. CellTyped'
  <2>1. sets' \in [Jobs -> SUBSET Keys]
    <3>1. sets[j] \cup {k} \in SUBSET Keys
      BY <1>a
    <3> QED BY <1>b, <3>1
  <2>4. claim' \in [Keys -> Jobs \cup {Nobody}]
    BY <1>a, <1>b
  <2>2. at' \in [Jobs -> 1..RoundEnd]
    BY <1>a, <1>b, KeysAre
  <2>3. building' \in [Jobs -> Keys \cup {Nobody}]
    BY <1>a, <1>b
  <2> QED BY <1>c, <2>1, <2>2, <2>3, <2>4
<1>2. ClaimsHeld'
  <2>1. j # Nobody /\ j \notin joined
    BY <1>a, KeysAre DEF WaitersServed
  <2>2. CASE claim' = claim /\ k \in cached \cup sets[j]
    <3>1. building' = building /\ claim' = claim
      BY <1>b, <2>2
    <3> QED BY <1>c, <3>1 DEF ClaimsHeld
  <2>3. CASE /\ k \notin sets[j] \cup cached
             /\ claim' = [claim EXCEPT ![k] = j] /\ building' = building
    <3> SUFFICES ASSUME NEW l \in Keys, claim'[l] # Nobody
                 PROVE  /\ claim'[l] \notin joined' /\ claim'[l] \notin failed'
                        /\ phase'[claim'[l]] \in {"running"} \cup Waiting
                        /\ phase'[claim'[l]] \in Waiting => building'[claim'[l]] = l
                        /\ l \notin cached'
                        /\ \A m \in Keys : claim'[m] = claim'[l] => m = l
      BY DEF ClaimsHeld
    <3>1. CASE l = k
      BY <1>a, <1>c, <2>1, <2>3, <3>1
    <3>2. CASE l # k
      <4>1. claim'[l] = claim[l] /\ claim'[k] = j /\ claim[l] # j
        BY <1>a, <2>3, <3>2
      <4>2. \A m \in Keys : claim'[m] = claim[l] => claim[m] = claim[l]
        BY <1>a, <2>3, <4>1
      <4> QED BY <1>c, <2>3, <4>1, <4>2 DEF ClaimsHeld
    <3> QED BY <3>1, <3>2
  <2>4. CASE /\ k \notin sets[j] \cup cached /\ claim' = claim
             /\ building' = [building EXCEPT ![j] = IF @ = Nobody THEN k ELSE @]
    <3>1. \A l \in Keys : claim[l] \in Jobs \ {j} => building'[claim[l]] = building[claim[l]]
      BY <1>a, <2>4
    <3>2. \A l \in Keys : claim[l] # Nobody => claim[l] \in Jobs \ {j}
      BY <1>a
    <3> QED BY <1>c, <2>4, <3>1, <3>2 DEF ClaimsHeld
  <2> QED BY <1>b, <2>2, <2>3, <2>4
<1>3. WaitersServed'
  BY <1>a, <1>b, <1>c, KeysAre DEF ClaimsHeld, WaitersServed
<1>4. RoundsKept'
  <2> SUFFICES ASSUME NEW i \in Jobs
               PROVE  /\ phase'[i] \in InWait => at'[i] = 1
                      /\ phase'[i] \in InWait /\ i \in failed' => building'[i] = Nobody
                      /\ building'[i] = Nobody =>
                           \A p \in 1..(at'[i] - 1) : Window[p] \in sets'[i]
    BY DEF RoundsKept
  <2>1. CASE i # j
    BY <1>a, <1>b, <1>c, <2>1 DEF RoundsKept
  <2>2. CASE i = j
    <3>1. k = Window[at[j]] /\ phase'[j] = "running" /\ k \notin {Nobody}
      BY <1>a, <1>c, KeysAre DEF k
    <3>2. ASSUME building'[j] = Nobody, NEW p \in 1..(at'[j] - 1)
          PROVE  Window[p] \in sets'[j]
      <4>1. at[j] \in Nat /\ building[j] = Nobody /\ sets[j] \subseteq sets'[j]
        BY <1>a, <1>b, <3>1, <3>2
      <4>2. at'[j] = at[j] \/ (at'[j] = at[j] + 1 /\ k \in sets'[j])
        BY <1>a, <1>b, <3>1, <3>2
      <4>3. p \in 1..(at[j] - 1) \/ (p = at[j] /\ k \in sets'[j])
        BY <4>1, <4>2
      <4>4. \A q \in 1..(at[j] - 1) : Window[q] \in sets[j]
        BY <4>1 DEF RoundsKept
      <4> QED BY <3>1, <4>1, <4>3, <4>4
    <3> QED BY <2>2, <3>1, <3>2
  <2> QED BY <2>1, <2>2
<1>5. BuildsCounted'
  BY <1>a, <1>b, <1>c, KeysAre DEF BuildsCounted, ClaimsHeld
<1>6. EndsKnown'
  BY <1>a, <1>b, <1>c, KeysAre DEF EndsKnown, RoundsKept, Whole
<1> QED BY <1>1, <1>2, <1>3, <1>4, <1>5, <1>6

(* A set is built: the claim ends, and with it the wait of those who wait for it. *)
LEMMA BuildInv ==
  ASSUME CellInv, NEW j \in Jobs, Build(j)
  PROVE  CellInv'
<1> USE DEF CellInv, Claims, CellTyped, CellTypeOK, Build, Published, Joined, vars,
            single, scan, InWait, Waiting, Ends
<1>1. CellTyped'
  BY KeysAre DEF Phases, SlotPhases, PlacePhases, MemoryPhases, Outcomes
<1>2. ClaimsHeld'
  BY KeysAre DEF ClaimsHeld, WaitersServed
<1>3. WaitersServed'
  BY KeysAre DEF ClaimsHeld, WaitersServed
<1>4. RoundsKept'
  BY KeysAre DEF RoundsKept, ClaimsHeld, WaitersServed
<1>5. BuildsCounted'
  BY KeysAre DEF BuildsCounted, ClaimsHeld
<1>6. EndsKnown'
  BY KeysAre DEF EndsKnown, RoundsKept, Whole
<1> QED BY <1>1, <1>2, <1>3, <1>4, <1>5, <1>6

(* A failed build passes its claim on. *)
LEMMA BuildFailsInv ==
  ASSUME CellInv, NEW j \in Jobs, BuildFails(j)
  PROVE  CellInv'
<1> USE DEF CellInv, Claims, CellTyped, CellTypeOK, BuildFails, vars, single, scan,
            InWait, Waiting, Ends
<1>a. PICK k \in Keys : claim[k] = j /\ HandOn(k)
  BY DEF BuildFails
<1>b. /\ claim' \in [Keys -> Jobs \cup {Nobody}] /\ joined' \subseteq joined
      /\ \A l \in Keys \ {k} : claim'[l] = claim[l]
      /\ claim'[k] # Nobody =>
           claim'[k] \in joined \ joined' /\ building[claim'[k]] = k
      /\ \A i \in joined' : building[i] = k => claim'[k] # Nobody
  BY <1>a, HandOnGives
<1>1. CellTyped'
  BY <1>a, <1>b, KeysAre, CellAssumption
  DEF CellAssumption, Phases, SlotPhases, PlacePhases, MemoryPhases, Outcomes
<1>2. ClaimsHeld'
  <2> SUFFICES ASSUME NEW l \in Keys, claim'[l] # Nobody
               PROVE  /\ claim'[l] \notin joined' /\ claim'[l] \notin failed'
                      /\ phase'[claim'[l]] \in {"running"} \cup Waiting
                      /\ phase'[claim'[l]] \in Waiting => building'[claim'[l]] = l
                      /\ l \notin cached'
                      /\ \A m \in Keys : claim'[m] = claim'[l] => m = l
    BY DEF ClaimsHeld
  <2>1. /\ phase[j] = "running" /\ failed' = failed \cup {j} /\ j # Nobody
        /\ phase' = phase /\ building' = building /\ cached' = cached
    BY KeysAre
  <2>2. k \notin cached /\ \A m \in Keys \ {k} : claim[m] # j
    BY <1>a, <2>1 DEF ClaimsHeld
  <2>3. \A i \in joined : /\ phase[i] \in Waiting /\ i \notin failed
                          /\ \A m \in Keys : claim[m] # i
    BY KeysAre DEF ClaimsHeld, WaitersServed
  <2>4. CASE l = k
    <3>1. claim'[k] \in joined /\ claim'[k] \notin joined' /\ building[claim'[k]] = k
      BY <1>b, <2>4
    <3>2. \A m \in Keys \ {k} : claim'[m] # claim'[k]
      BY <1>b, <2>3, <3>1
    <3> QED BY <2>1, <2>2, <2>3, <2>4, <3>1, <3>2
  <2>5. CASE l # k
    <3>1. claim'[l] = claim[l] /\ claim[l] # j /\ claim[l] \notin joined
      BY <1>b, <2>2, <2>5 DEF ClaimsHeld
    <3>2. claim'[k] # claim[l]
      BY <1>b, <2>5, <3>1
    <3> QED BY <1>b, <2>1, <2>5, <3>1, <3>2 DEF ClaimsHeld
  <2> QED BY <2>4, <2>5
<1>3. WaitersServed'
  BY <1>a, <1>b, KeysAre DEF ClaimsHeld, WaitersServed
<1>4. RoundsKept'
  BY <1>a, <1>b, KeysAre DEF RoundsKept, ClaimsHeld, WaitersServed
<1>5. BuildsCounted'
  BY <1>a, <1>b, KeysAre DEF BuildsCounted, ClaimsHeld
<1>6. EndsKnown'
  BY <1>a, <1>b, KeysAre DEF EndsKnown, RoundsKept, Whole
<1> QED BY <1>1, <1>2, <1>3, <1>4, <1>5, <1>6

(* A waiting tile passes its claim on. *)
LEMMA LetGoInv ==
  ASSUME CellInv, NEW j \in Jobs, LetGo(j)
  PROVE  CellInv'
<1> USE DEF CellInv, Claims, CellTyped, CellTypeOK, LetGo, MustLetGo, vars, single,
            scan, InWait, Waiting, Ends
<1> DEFINE k == building[j]
<1>a. k \in Keys /\ claim[k] = j /\ HandOn(k)
  BY KeysAre
<1>b. /\ claim' \in [Keys -> Jobs \cup {Nobody}] /\ joined' \subseteq joined
      /\ \A l \in Keys \ {k} : claim'[l] = claim[l]
      /\ claim'[k] # Nobody =>
           claim'[k] \in joined \ joined' /\ building[claim'[k]] = k
      /\ \A i \in joined' : building[i] = k => claim'[k] # Nobody
  BY <1>a, HandOnGives
<1>1. CellTyped'
  BY <1>a, <1>b, KeysAre DEF Phases, SlotPhases, PlacePhases, MemoryPhases, Outcomes
<1>2. ClaimsHeld'
  BY <1>a, <1>b, KeysAre DEF ClaimsHeld, WaitersServed
<1>3. WaitersServed'
  BY <1>a, <1>b, KeysAre DEF ClaimsHeld, WaitersServed
<1>4. RoundsKept'
  BY <1>a, <1>b, KeysAre DEF RoundsKept, ClaimsHeld, WaitersServed
<1>5. BuildsCounted'
  BY <1>a, <1>b, KeysAre DEF BuildsCounted, ClaimsHeld
<1>6. EndsKnown'
  BY <1>a, <1>b, KeysAre DEF EndsKnown, RoundsKept, Whole
<1> QED BY <1>1, <1>2, <1>3, <1>4, <1>5, <1>6

(* The round ends with a set to wait for. *)
LEMMA EndRoundInv ==
  ASSUME CellInv, NEW j \in Jobs, EndRound(j)
  PROVE  CellInv'
<1> USE DEF CellInv, Claims, CellTyped, CellTypeOK, EndRound, Scanning, BeginWait,
            Goto, vars, single, scan, InWait, Waiting, Ends
<1>1. CellTyped'
  <2>1. phase' \in [Jobs -> Phases]
    BY DEF Phases, SlotPhases, PlacePhases, MemoryPhases
  <2>2. at' \in [Jobs -> 1..RoundEnd]
    BY KeysAre
  <2> QED BY <2>1, <2>2
<1>2. ClaimsHeld'
  BY KeysAre DEF ClaimsHeld, WaitersServed
<1>3. WaitersServed'
  BY KeysAre DEF ClaimsHeld, WaitersServed
<1>4. RoundsKept'
  BY KeysAre DEF RoundsKept, ClaimsHeld, WaitersServed
<1>5. BuildsCounted'
  BY KeysAre DEF BuildsCounted, ClaimsHeld
<1>6. EndsKnown'
  BY KeysAre DEF EndsKnown, RoundsKept, Whole
<1> QED BY <1>1, <1>2, <1>3, <1>4, <1>5, <1>6

(* The wait's lookup. *)
LEMMA LookInv ==
  ASSUME CellInv, NEW j \in Jobs, Look(j)
  PROVE  CellInv'
<1> USE DEF CellInv, Claims, CellTyped, CellTypeOK, Look, vars, single, scan,
            InWait, Waiting, Ends
<1> DEFINE k == building[j]
<1>a. /\ k \in Keys /\ k # Nobody /\ j # Nobody /\ claim[k] # j
      /\ phase[j] \in {"parked", "blocked"} /\ j \notin joined /\ at[j] = 1
      /\ j \notin failed
  BY KeysAre DEF RoundsKept
<1>b. \/ /\ k \in cached /\ sets' = [sets EXCEPT ![j] = @ \cup {k}]
         /\ building' = [building EXCEPT ![j] = Nobody]
         /\ joined' = joined /\ claim' = claim
      \/ /\ k \notin cached /\ claim[k] = Nobody
         /\ claim' = [claim EXCEPT ![k] = j]
         /\ sets' = sets /\ building' = building /\ joined' = joined
      \/ /\ k \notin cached /\ claim[k] # Nobody
         /\ joined' = joined \cup {j}
         /\ sets' = sets /\ building' = building /\ claim' = claim
  OBVIOUS
<1>c. UNCHANGED <<vars, cached, builds, failures, evictions, at, failed>>
  OBVIOUS
<1>d. \A l \in Keys : claim[l] # j
  BY <1>a DEF ClaimsHeld
<1> HIDE DEF k, Look
<1>1. CellTyped'
  <2>1. sets' \in [Jobs -> SUBSET Keys] /\ claim' \in [Keys -> Jobs \cup {Nobody}]
    BY <1>a, <1>b
  <2>2. building' \in [Jobs -> Keys \cup {Nobody}] /\ joined' \subseteq Jobs
    BY <1>a, <1>b
  <2> QED BY <1>c, <2>1, <2>2
<1>2. ClaimsHeld'
  BY <1>a, <1>b, <1>c, <1>d DEF k, ClaimsHeld
<1>3. WaitersServed'
  <2> SUFFICES ASSUME NEW i \in joined'
               PROVE  /\ phase'[i] \in Waiting /\ i \notin failed'
                      /\ building'[i] # Nobody /\ claim'[building'[i]] # Nobody
    BY DEF WaitersServed
  <2>1. CASE i = j
    BY <1>a, <1>b, <1>c, <2>1 DEF k
  <2>2. CASE i # j
    BY <1>a, <1>b, <1>c, <2>2 DEF WaitersServed
  <2> QED BY <2>1, <2>2
<1>4. RoundsKept'
  BY <1>a, <1>b, <1>c DEF RoundsKept
<1>5. BuildsCounted'
  BY <1>c DEF BuildsCounted
<1>6. EndsKnown'
  BY <1>a, <1>b, <1>c DEF EndsKnown, Whole
<1> QED BY <1>1, <1>2, <1>3, <1>4, <1>5, <1>6

(* The wait ends at the deadline. *)
LEMMA WaitTimesOutInv ==
  ASSUME CellInv, NEW j \in Jobs, WaitTimesOut(j)
  PROVE  CellInv'
<1> USE DEF CellInv, Claims, CellTyped, CellTypeOK, WaitTimesOut, vars, single,
            scan, InWait, Waiting, Ends
<1>1. CellTyped'
  BY KeysAre DEF Phases, SlotPhases, PlacePhases, MemoryPhases, Outcomes
<1>2. ClaimsHeld'
  BY KeysAre DEF ClaimsHeld, WaitersServed
<1>3. WaitersServed'
  BY KeysAre DEF ClaimsHeld, WaitersServed
<1>4. RoundsKept'
  BY KeysAre DEF RoundsKept, ClaimsHeld, WaitersServed
<1>5. BuildsCounted'
  BY KeysAre DEF BuildsCounted, ClaimsHeld
<1>6. EndsKnown'
  BY KeysAre DEF EndsKnown, RoundsKept, Whole
<1> QED BY <1>1, <1>2, <1>3, <1>4, <1>5, <1>6

(* The tile goes on, in its slot or after one. *)
LEMMA ResumeInv ==
  ASSUME CellInv, NEW j \in Jobs, Resume(j)
  PROVE  CellInv'
<1> USE DEF CellInv, Claims, CellTyped, CellTypeOK, Resume, EndWait, TakeSlotOr,
            Goto, vars, single, scan, InWait, Waiting, Ends
<1>a. \A i \in Jobs \ {j} : phase'[i] = phase[i]
  OBVIOUS
<1>b. UNCHANGED <<claim, joined, failed, building, cached>>
  OBVIOUS
<1>1. CellTyped'
  BY KeysAre DEF Phases, SlotPhases, PlacePhases, MemoryPhases, Outcomes
<1>2. ClaimsHeld'
  <2>1. phase[j] \in {"parked", "blocked"} /\ building[j] = Nobody
    OBVIOUS
  <2>2. \A l \in Keys : claim[l] # j
    BY <2>1, KeysAre DEF ClaimsHeld
  <2> QED BY <1>a, <1>b, <2>2 DEF ClaimsHeld
<1>3. WaitersServed'
  <2>1. j \notin joined
    BY DEF WaitersServed
  <2> QED BY <1>a, <1>b, <2>1 DEF WaitersServed
<1>4. RoundsKept'
  BY KeysAre DEF RoundsKept, ClaimsHeld, WaitersServed
<1>5. BuildsCounted'
  BY KeysAre DEF BuildsCounted, ClaimsHeld
<1>6. EndsKnown'
  BY KeysAre DEF EndsKnown, RoundsKept, Whole
<1> QED BY <1>1, <1>2, <1>3, <1>4, <1>5, <1>6

(* The worker returns: with its window, or failed, or too late. *)
LEMMA ReturnInv ==
  ASSUME CellInv, NEW j \in Jobs, Return(j)
  PROVE  CellInv'
<1> USE DEF CellInv, Claims, CellTyped, CellTypeOK, Return, Finish, Scanning, Goto,
            vars, single, scan, InWait, Waiting, Ends
<1>1. CellTyped'
  BY KeysAre DEF Phases, SlotPhases, PlacePhases, MemoryPhases, Outcomes
<1>2. ClaimsHeld'
  BY KeysAre DEF ClaimsHeld, WaitersServed
<1>3. WaitersServed'
  BY KeysAre DEF ClaimsHeld, WaitersServed
<1>4. RoundsKept'
  BY KeysAre DEF RoundsKept, ClaimsHeld, WaitersServed
<1>5. BuildsCounted'
  BY KeysAre DEF BuildsCounted, ClaimsHeld
<1>6. EndsKnown'
  <2>1. /\ phase' = [phase EXCEPT ![j] = "done"]
        /\ UNCHANGED <<outcome, expired, sets, failed>>
    OBVIOUS
  <2>2. CASE phase[j] = "slotless" \/ j \in failed
    BY <2>1, <2>2 DEF EndsKnown, Whole
  <2>3. CASE /\ phase[j] = "running" /\ at[j] = RoundEnd /\ building[j] = Nobody
    <3>1. \A p \in 1..Len(Window) : Window[p] \in sets[j]
      BY <2>3, KeysAre DEF RoundsKept
    <3>2. sets[j] = Keys
      <4>1. sets[j] \subseteq Keys
        OBVIOUS
      <4>2. \A k \in Keys : k \in sets[j]
        BY ONLY <3>1, KeysAre
      <4> QED BY <4>1, <4>2
    <3> QED BY <2>1, <2>3, <3>2 DEF EndsKnown, Whole
  <2> QED BY <2>2, <2>3
<1> QED BY <1>1, <1>2, <1>3, <1>4, <1>5, <1>6

(* A set leaves the cache. *)
LEMMA EvictInv ==
  ASSUME CellInv, NEW k \in Keys, Evict(k)
  PROVE  CellInv'
<1> USE DEF CellInv, Claims, CellTyped, CellTypeOK, Evict, vars, single, scan,
            InWait, Waiting, Ends
<1>1. CellTyped'
  BY KeysAre, CellAssumption
  DEF CellAssumption, Phases, SlotPhases, PlacePhases, MemoryPhases, Outcomes
<1>2. ClaimsHeld'
  BY KeysAre DEF ClaimsHeld, WaitersServed
<1>3. WaitersServed'
  BY KeysAre DEF ClaimsHeld, WaitersServed
<1>4. RoundsKept'
  BY KeysAre DEF RoundsKept, ClaimsHeld, WaitersServed
<1>5. BuildsCounted'
  BY KeysAre DEF BuildsCounted, ClaimsHeld
<1>6. EndsKnown'
  BY KeysAre DEF EndsKnown, RoundsKept, Whole
<1> QED BY <1>1, <1>2, <1>3, <1>4, <1>5, <1>6

-----------------------------------------------------------------------------
LEMMA CellInitInv ==
  ASSUME CellInit
  PROVE  CellInv
<1> USE CellAssumption, ConstantsAssumption, KeysAre
    DEF CellInit, Init, CellAssumption, ConstantsAssumption
<1>1. CellTyped
  <2>1. at \in [Jobs -> 1..RoundEnd]
    OBVIOUS
  <2> QED BY <2>1 DEF CellTyped, CellTypeOK, Phases, Outcomes
<1>2. Claims
  BY DEF Claims, ClaimsHeld, WaitersServed
<1>3. RoundsKept
  BY DEF RoundsKept, InWait, Waiting
<1>4. BuildsCounted
  BY DEF BuildsCounted
<1>5. EndsKnown
  BY DEF EndsKnown, Ends
<1> QED BY <1>1, <1>2, <1>3, <1>4, <1>5 DEF CellInv

LEMMA CellNextInv ==
  ASSUME CellInv, [CellNext]_cellVars
  PROVE  CellInv'
<1>1. CASE UNCHANGED cellVars
  BY <1>1 DEF cellVars, vars, single, scan, CellInv, CellTyped, CellTypeOK, Claims,
              ClaimsHeld, WaitersServed, RoundsKept, BuildsCounted, EndsKnown, Whole
<1>2. CASE Quiescent /\ UNCHANGED <<single, scan>>
  BY <1>1, <1>2 DEF Quiescent, cellVars
<1>3. ASSUME NEW j \in Jobs, Tile(j)
      PROVE  CellInv'
  BY <1>3, ProbeInv, BuildInv, EndRoundInv, LookInv, LetGoInv, ResumeInv, ReturnInv
  DEF Tile
<1>4. ASSUME NEW j \in Jobs, Admission(j) \/ Client(j)
      PROVE  CellInv'
  <2>1. CellTyped
    BY DEF CellInv
  <2>2. Moved(j) /\ UNCHANGED <<single, scan>>
    BY <1>4, <2>1, AdmissionMoves, ClientMoves
  <2> QED BY <2>2, MovedInv
<1> QED
  BY <1>1, <1>2, <1>3, <1>4, BuildFailsInv, WaitTimesOutInv, EvictInv DEF CellNext

LEMMA AlwaysCellInv == CellSpec => []CellInv
  BY CellInitInv, CellNextInv, PTL DEF CellSpec

-----------------------------------------------------------------------------
(* The results. *)

(* The scan, the claims and the sets of every tile are of the window, and no
   scan runs past its end. *)
THEOREM CellTypeAlwaysOK == CellSpec => []CellTypeOK
<1>1. CellInv => CellTypeOK
  BY DEF CellInv, CellTyped
<1> QED BY <1>1, AlwaysCellInv, PTL

(* cells.rs's "no tile holds a claim the others wait on while it queues": a
   claim is built in a slot, or about to be let go. *)
THEOREM NeverHoldAndWait == CellSpec => []NoHoldAndWait
<1>1. ASSUME CellInv PROVE NoHoldAndWait
  BY <1>1 DEF CellInv, Claims, ClaimsHeld, NoHoldAndWait
<1> QED BY <1>1, AlwaysCellInv, PTL

(* Whoever fails, gives up or hands a claim on, a tile blocked in the cache
   waits for a key that is claimed. *)
THEOREM NeverOrphaned == CellSpec => []NoOrphanWaiter
<1>1. CellInv => NoOrphanWaiter
  BY DEF CellInv, Claims, WaitersServed, NoOrphanWaiter
<1> QED BY <1>1, AlwaysCellInv, PTL

(* "One whole-file GET per volume": each further build of a set answers an
   eviction. *)
THEOREM BuildsAlwaysShared == CellSpec => []SharedBuilds
<1>1. ASSUME CellInv PROVE SharedBuilds
  <2>1. evictions \in Nat /\ builds \in [Keys -> Nat]
    BY <1>1, CellAssumption DEF CellInv, CellTyped, CellTypeOK, CellAssumption
  <2> QED BY <1>1, <2>1 DEF CellInv, BuildsCounted, SharedBuilds
<1> QED BY <1>1, AlwaysCellInv, PTL

(* The product handed to a client has every scan of its window, through any
   number of rounds, or is the error of a build or of the deadline. *)
THEOREM ServedAlwaysWhole == CellSpec => []ServedWhole
<1>1. CellInv => ServedWhole
  BY DEF CellInv, EndsKnown, Whole, ServedWhole
<1> QED BY <1>1, AlwaysCellInv, PTL
=============================================================================
