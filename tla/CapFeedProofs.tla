---------------------------- MODULE CapFeedProofs ---------------------------
(***************************************************************************)
(* For any notifications, bounds and orders of delivery: the duplicate     *)
(* filter refuses every copy it still has a record of (CopiesRefused), as  *)
(* a subscription of its own and within a CAP collection; a flush at       *)
(* shutdown has everything that was applied (FlushComplete); the types     *)
(* (CapTypeOK); what was withdrawn stays out (WithdrawnStaysOut).  If no   *)
(* document withdraws an alert of its own, the index is exact              *)
(* (IndexExact), and if producers keep to Orderly, the order of arrival    *)
(* does not matter (OrderIndependent).                                     *)
(***************************************************************************)
EXTENDS CapFeed, TLAPS, WellFoundedInduction

(* What ties the data_ids to their records, of which number is the last: a *)
(* data_id's current record is there, and no other of its records is newer *)
(* in number or in the pubtime it stands for.                              *)
Tied(entries, records, pubs, number) ==
  /\ \A d \in DOMAIN entries :
       /\ entries[d].pub \in Nat
       /\ entries[d].seq \in DOMAIN records
       /\ records[entries[d].seq] = d
  /\ \A s \in DOMAIN records :
       /\ s \in Nat /\ s <= number
       /\ records[s] \in DOMAIN entries
       /\ s <= entries[records[s]].seq
       /\ s \in DOMAIN pubs /\ pubs[s] \in Nat
       /\ pubs[s] <= entries[records[s]].pub

FeedInv == seq \in Nat /\ Tied(newest, expiry, heard, seq)

\* Popping the oldest records leaves the rest tied: a data_id goes only with
\* its current record.
LEMMA PopTied ==
  ASSUME NEW c, NEW pubs, NEW number \in Nat, NEW cut \in Nat,
         Tied(c.newest, c.expiry, pubs, number)
  PROVE  LET d == PopData(c, cut) IN
         Tied(d.newest, d.expiry, pubs, number)
<1> DEFINE live == Past(c.expiry, cut)
           popped == {<<s, c.expiry[s]>> : s \in DOMAIN c.expiry \ live}
           entries == RemoveIfCurrent(c.newest, popped)
           records == Restrict(c.expiry, live)
<1>1. PopData(c, cut).newest = entries /\ PopData(c, cut).expiry = records
  BY DEF PopData
<1>2. live = {s \in DOMAIN c.expiry : s > cut} /\ DOMAIN records = live
  BY DEF Past, Restrict
<1>3. \A s \in live : records[s] = c.expiry[s]
  BY DEF Restrict
<1>4. ASSUME NEW d \in DOMAIN c.newest
      PROVE  <<c.newest[d].seq, d>> \notin popped <=> c.newest[d].seq \in live
  BY <1>2 DEF Tied
<1>5. /\ DOMAIN entries = {d \in DOMAIN c.newest : c.newest[d].seq \in live}
      /\ \A d \in DOMAIN entries : entries[d] = c.newest[d]
  BY <1>4 DEF RemoveIfCurrent, Restrict
<1>6. ASSUME NEW s \in live
      PROVE  c.newest[c.expiry[s]].seq \in live
  <2>1. c.newest[c.expiry[s]].seq \in DOMAIN c.expiry /\ s <= c.newest[c.expiry[s]].seq
    BY <1>2 DEF Tied
  <2>2. c.newest[c.expiry[s]].seq \in Nat /\ s \in Nat
    BY <2>1, <1>2 DEF Tied
  <2> QED BY <2>1, <2>2, <1>2
<1>7. Tied(entries, records, pubs, number)
  <2> HIDE DEF live, entries, records
  <2>1. ASSUME NEW d \in DOMAIN entries
        PROVE  /\ entries[d].pub \in Nat
               /\ entries[d].seq \in DOMAIN records
               /\ records[entries[d].seq] = d
    BY <1>2, <1>3, <1>5 DEF Tied
  <2>2. ASSUME NEW s \in DOMAIN records
        PROVE  /\ s \in Nat /\ s <= number
               /\ records[s] \in DOMAIN entries
               /\ s <= entries[records[s]].seq
               /\ s \in DOMAIN pubs /\ pubs[s] \in Nat
               /\ pubs[s] <= entries[records[s]].pub
    BY <1>2, <1>3, <1>5, <1>6 DEF Tied
  <2> QED BY <2>1, <2>2 DEF Tied
<1> QED BY <1>1, <1>7

LEMMA PopIdsKeeps ==
  ASSUME NEW c, NEW cut
  PROVE  PopIds(c, cut).newest = c.newest /\ PopIds(c, cut).expiry = c.expiry
BY DEF PopIds

\* So does recording an accepted notification under the next number: it is
\* newer than what the data_id had.
LEMMA RecordTied ==
  ASSUME NEW c, NEW pubs, NEW number \in Nat, NEW n \in Notes,
         Tied(c.newest, c.expiry, pubs, number),
         Verdict(c, n) = "Accept"
  PROVE  LET d == Record(c, n, number + 1) IN
         Tied(d.newest, d.expiry, Insert(pubs, number + 1, n.pub), number + 1)
<1> DEFINE new == number + 1
           entries == Insert(c.newest, n.data, [pub |-> n.pub, seq |-> new])
           records == Insert(c.expiry, new, n.data)
           later == Insert(pubs, new, n.pub)
<1>1. Record(c, n, new).newest = entries /\ Record(c, n, new).expiry = records
  BY DEF Record
<1>2. n.pub \in Nat /\ new \in Nat
  BY FeedAssumption
<1>3. n.data \in DOMAIN c.newest => c.newest[n.data].pub < n.pub
  <2>1. ~(n.data \in DOMAIN c.newest /\ c.newest[n.data].pub >= n.pub)
    BY DEF Verdict
  <2> QED BY <2>1, <1>2 DEF Tied
<1>4. /\ DOMAIN entries = DOMAIN c.newest \cup {n.data}
      /\ entries[n.data] = [pub |-> n.pub, seq |-> new]
      /\ \A d \in DOMAIN c.newest : d # n.data => entries[d] = c.newest[d]
  BY DEF Insert
<1>5. new \notin DOMAIN c.expiry
  BY DEF Tied
<1>6. /\ DOMAIN records = DOMAIN c.expiry \cup {new}
      /\ records[new] = n.data
      /\ \A s \in DOMAIN c.expiry : records[s] = c.expiry[s]
  BY <1>5 DEF Insert
<1>7. /\ DOMAIN later = DOMAIN pubs \cup {new}
      /\ later[new] = n.pub
      /\ \A s \in DOMAIN c.expiry : later[s] = pubs[s]
  BY <1>5 DEF Insert, Tied
<1>8. Tied(entries, records, later, new)
  <2> HIDE DEF entries, records, later, new
  <2> USE <1>2, <1>4, <1>5, <1>6, <1>7
  <2>1. ASSUME NEW d \in DOMAIN entries
        PROVE  /\ entries[d].pub \in Nat
               /\ entries[d].seq \in DOMAIN records
               /\ records[entries[d].seq] = d
    BY DEF Tied
  <2>2. ASSUME NEW s \in DOMAIN c.expiry
        PROVE  /\ s \in Nat /\ s <= new
               /\ records[s] \in DOMAIN entries
               /\ s <= entries[records[s]].seq
               /\ s \in DOMAIN later /\ later[s] \in Nat
               /\ later[s] <= entries[records[s]].pub
    <3>1. s \in Nat /\ s <= number /\ number < new
      BY DEF Tied, new
    <3>2. CASE c.expiry[s] # n.data
      BY <3>1, <3>2 DEF Tied
    <3>3. CASE c.expiry[s] = n.data
      BY <1>3, <3>1, <3>3 DEF Tied
    <3> QED BY <3>2, <3>3
  <2> QED BY <2>1, <2>2 DEF Tied
<1> QED BY <1>1, <1>8

\* Only the pubtimes of the records matter.
LEMMA TiedToRecords ==
  ASSUME NEW entries, NEW records, NEW pubs, NEW number,
         Tied(entries, records, pubs, number)
  PROVE  Tied(entries, records, Restrict(pubs, DOMAIN records), number)
BY DEF Tied, Restrict

LEMMA PruneTied ==
  ASSUME NEW c, NEW pubs, NEW number \in Nat, NEW cut \in Nat,
         Tied(c.newest, c.expiry, pubs, number)
  PROVE  Tied(Prune(c, cut).newest, Prune(c, cut).expiry, pubs, number)
<1>1. Tied(PopData(c, cut).newest, PopData(c, cut).expiry, pubs, number)
  BY PopTied
<1> QED BY <1>1, PopIdsKeeps DEF Prune

-----------------------------------------------------------------------------
(* The invariant of the duplicate filter.                                  *)

LEMMA FreshKeeps == FreshDedup => FeedInv
BY DEF FreshDedup, FeedInv, Tied

LEMMA AcceptKeeps ==
  ASSUME FeedInv, NEW n \in Notes, Accept(n)
  PROVE  FeedInv'
<1>1. PICK cut \in 0..seq, dataCut \in 0..seq, idCut \in 0..seq :
        /\ Verdict(Prune(Collections, cut), n) = "Accept"
        /\ Keep(PopIds(PopData(Record(Prune(Collections, cut), n, seq + 1), dataCut), idCut))
        /\ seq' = seq + 1
        /\ heard' = Restrict(Insert(heard, seq + 1, n.pub), DOMAIN expiry')
  BY DEF Accept
<1> DEFINE c == Prune(Collections, cut)
           d == Record(c, n, seq + 1)
           e == PopData(d, dataCut)
           pubs == Insert(heard, seq + 1, n.pub)
<1>2. seq \in Nat /\ Tied(newest, expiry, heard, seq)
  BY DEF FeedInv
<1>3. Collections.newest = newest /\ Collections.expiry = expiry
  BY DEF Collections
<1>4. cut \in Nat /\ dataCut \in Nat /\ idCut \in Nat /\ seq + 1 \in Nat
  BY <1>2
<1>5. Tied(c.newest, c.expiry, heard, seq)
  BY <1>2, <1>3, <1>4, PruneTied
<1>6. Tied(d.newest, d.expiry, pubs, seq + 1)
  <2> HIDE DEF c
  <2> QED BY <1>1, <1>2, <1>5, RecordTied DEF c
<1>7. Tied(e.newest, e.expiry, pubs, seq + 1)
  <2> HIDE DEF d, pubs
  <2> QED BY <1>4, <1>6, PopTied
<1>8. newest' = e.newest /\ expiry' = e.expiry
  <2> HIDE DEF e
  <2> QED BY <1>1, PopIdsKeeps DEF Keep, e
<1>9. Tied(newest', expiry', heard', seq + 1)
  <2> HIDE DEF e, pubs
  <2> QED BY <1>1, <1>7, <1>8, TiedToRecords DEF pubs
<1> QED BY <1>1, <1>4, <1>9 DEF FeedInv

LEMMA RefuseKeeps ==
  ASSUME FeedInv, NEW n \in Notes, Refuse(n)
  PROVE  FeedInv'
<1>1. PICK cut \in 0..seq :
        /\ Keep(Prune(Collections, cut))
        /\ heard' = Restrict(heard, DOMAIN expiry') /\ seq' = seq
  BY DEF Refuse
<1> DEFINE c == Prune(Collections, cut)
<1>2. seq \in Nat /\ cut \in Nat /\ Tied(newest, expiry, heard, seq)
  BY DEF FeedInv
<1>3. Collections.newest = newest /\ Collections.expiry = expiry
  BY DEF Collections
<1>4. Tied(c.newest, c.expiry, heard, seq)
  BY <1>2, <1>3, PruneTied
<1>5. newest' = c.newest /\ expiry' = c.expiry
  <2> HIDE DEF c
  <2> QED BY <1>1 DEF Keep, c
<1>6. Tied(newest', expiry', heard', seq)
  <2> HIDE DEF c
  <2> QED BY <1>1, <1>4, <1>5, TiedToRecords
<1> QED BY <1>1, <1>2, <1>6 DEF FeedInv

LEMMA PublishKeeps ==
  ASSUME FeedInv, NEW n \in Notes, Publish(n)
  PROVE  FeedInv'
BY AcceptKeeps, RefuseKeeps DEF Publish

\* What changes nothing of the filter, or replaces it by a fresh one.
LEMMA OthersKeep ==
  /\ FeedInv /\ UNCHANGED dedup => FeedInv'
  /\ FreshDedup' => FeedInv'
BY DEF FreshDedup, FeedInv, Tied, dedup

LEMMA FeedInvImplies == FeedInv => CopiesRefused
BY DEF FeedInv, Tied, CopiesRefused

\* Every notification whose record is there is refused when it comes again,
\* and so is every older revision, in a subscription on its own...
THEOREM CopiesAreRefused == FeedSpec => []CopiesRefused
<1>1. FeedInit => FeedInv
  BY FreshKeeps DEF FeedInit
<1>2. FeedInv /\ [FeedNext]_feed => FeedInv'
  <2> SUFFICES ASSUME FeedInv, [FeedNext]_feed PROVE FeedInv'
    OBVIOUS
  <2>1. CASE \E n \in Notes : Publish(n)
    BY <2>1, PublishKeeps
  <2>2. CASE \E i \in 1..Concurrency : Resolve(i)
    BY <2>2, OthersKeep DEF Resolve
  <2>3. CASE Respawn
    BY <2>3, OthersKeep DEF Respawn, FreshDedup
  <2>4. CASE UNCHANGED feed
    BY <2>4, OthersKeep DEF feed
  <2> QED BY <2>1, <2>2, <2>3, <2>4 DEF FeedNext
<1> QED BY <1>1, <1>2, FeedInvImplies, PTL DEF FeedSpec

\* ... and in the CAP collection it feeds, over shutdowns, take-overs,
\* restarts and crashes.
THEOREM CopiesAreRefusedToCap == CapSpec => []CopiesRefused
<1>1. CapInit => FeedInv
  BY FreshKeeps DEF CapInit, FeedInit
<1>2. FeedInv /\ [CapNext]_capVars => FeedInv'
  <2> SUFFICES ASSUME FeedInv, [CapNext]_capVars PROVE FeedInv'
    OBVIOUS
  <2>1. CASE \E n \in Notes : Publish(n) /\ UNCHANGED engine
    BY <2>1, PublishKeeps
  <2>2. CASE \E i \in 1..Concurrency : FailDownload(i) \/ Receive(i)
    BY <2>2, OthersKeep DEF FailDownload, Receive, Resolve
  <2>3. CASE Respawn /\ UNCHANGED engine
    BY <2>3, OthersKeep DEF Respawn, FreshDedup
  <2>4. CASE Apply \/ Tick \/ Seal \/ Flush
    BY <2>4, OthersKeep DEF Apply, Tick, Seal, Flush, feed
  <2>5. CASE TakeOver \/ Restart \/ Crash
    BY <2>5, OthersKeep DEF TakeOver, Restart, Crash, Begin, FreshDedup
  <2>6. CASE UNCHANGED capVars
    BY <2>6, OthersKeep DEF capVars, feed
  <2> QED BY <2>1, <2>2, <2>3, <2>4, <2>5, <2>6 DEF CapNext
<1> QED BY <1>1, <1>2, FeedInvImplies, PTL DEF CapSpec

-----------------------------------------------------------------------------
(* The flush.                                                              *)

\* Whatever the loop has in hand when the engine stops, the snapshot of a
\* flush that succeeded and the alerts a replacing engine takes over are the
\* same: the seal comes before the flush.
THEOREM FlushIsComplete == CapSpec => []FlushComplete
<1>1. CapInit => FlushComplete
  BY DEF CapInit, FlushComplete
<1>2. FlushComplete /\ [CapNext]_capVars => FlushComplete'
  <2> SUFFICES ASSUME FlushComplete, [CapNext]_capVars PROVE FlushComplete'
    OBVIOUS
  <2>1. CASE \/ (\E n \in Notes : Publish(n)) /\ UNCHANGED engine
             \/ \E i \in 1..Concurrency : FailDownload(i) \/ Receive(i)
             \/ Respawn /\ UNCHANGED engine
    BY <2>1 DEF FlushComplete, FailDownload, Receive, engine
  <2>2. CASE Apply
    BY <2>2 DEF FlushComplete, Apply, Land
  <2>3. CASE Tick \/ Seal
    BY <2>3 DEF FlushComplete, Tick, Seal
  <2>4. CASE Flush
    BY <2>4 DEF FlushComplete, Flush
  <2>5. CASE TakeOver \/ Restart \/ Crash
    BY <2>5 DEF FlushComplete, TakeOver, Restart, Crash, Begin
  <2>6. CASE UNCHANGED capVars
    BY <2>6 DEF FlushComplete, capVars, engine
  <2> QED BY <2>1, <2>2, <2>3, <2>4, <2>5, <2>6 DEF CapNext
<1> QED BY <1>1, <1>2, PTL DEF CapSpec
-----------------------------------------------------------------------------
(* A document's alerts in order: the recursive function computes what its  *)
(* definition says, by the least number for which it would not.            *)

LEMMA LeastNumber ==
  ASSUME NEW T \in SUBSET Nat, T # {}
  PROVE  \E x \in T : \A y \in T : x <= y
<1>1. PICK x \in T : \A y \in T : ~(<<y, x>> \in OpToRel(<, Nat))
  BY NatLessThanWellFounded, WFMin
<1>2. \A y \in T : ~(y < x)
  BY <1>1 DEF OpToRel
<1> QED BY <1>2

\* The alerts applied so far, from the alerts applied before.
Step(a, n, s, k) ==
  IF k = 0 THEN [acc |-> a, given |-> {}] ELSE ApplyAlert(n, n.alerts[k], s[k - 1])

LEMMA AlertsAppliedExists ==
  ASSUME NEW a, NEW n, NEW last \in Nat
  PROVE  \E s : s = [k \in 0..last |-> Step(a, n, s, k)]
<1> DEFINE Is(s, m) == s = [k \in 0..m |-> Step(a, n, s, k)]
           missing == {m \in Nat : ~\E s : Is(s, m)}
<1>1. SUFFICES missing = {}
  OBVIOUS
<1>2. SUFFICES ASSUME missing # {} PROVE FALSE
  OBVIOUS
<1>3. PICK m \in missing : \A l \in missing : m <= l
  BY <1>2, LeastNumber
<1>4. CASE m = 0
  <2> DEFINE s == [k \in 0..0 |-> [acc |-> a, given |-> {}]]
  <2>1. Is(s, 0)
    BY DEF Step
  <2> QED BY <1>3, <1>4, <2>1
<1>5. CASE m # 0
  <2>1. m - 1 \in Nat /\ m - 1 \notin missing
    BY <1>3, <1>5
  <2>2. PICK t : Is(t, m - 1)
    BY <2>1
  <2> DEFINE s == [k \in 0..m |-> IF k = m THEN Step(a, n, t, m) ELSE t[k]]
  <2>3. ASSUME NEW k \in 0..m PROVE s[k] = Step(a, n, s, k)
    <3>1. CASE k = m
      <4>1. m - 1 \in 0..m /\ m - 1 # m
        BY <2>1
      <4>2. s[m - 1] = t[m - 1]
        BY <4>1
      <4> QED BY <1>5, <3>1, <4>2 DEF Step
    <3>2. CASE k # m
      <4>1. k \in 0..(m - 1)
        BY <1>3, <3>2
      <4>2. t[k] = Step(a, n, t, k)
        BY <2>2, <4>1
      <4>3. CASE k = 0
        BY <3>2, <4>2, <4>3 DEF Step
      <4>4. CASE k # 0
        <5>1. k - 1 \in 0..m /\ k - 1 # m
          BY <4>1, <4>4
        <5> QED BY <3>2, <4>2, <4>4, <5>1 DEF Step
      <4> QED BY <4>3, <4>4
    <3> QED BY <3>1, <3>2
  <2>4. Is(s, m)
    <3>1. s = [k \in 0..m |-> s[k]]
      OBVIOUS
    <3> HIDE DEF s
    <3> QED BY <2>3, <3>1
  <2> QED BY <1>3, <2>4
<1> QED BY <1>4, <1>5

LEMMA AlertsAppliedStep ==
  ASSUME NEW a, NEW n \in Notes
  PROVE  /\ Len(n.alerts) \in Nat
         /\ \A k \in 0..Len(n.alerts) :
              AlertsApplied(a, n)[k] = Step(a, n, AlertsApplied(a, n), k)
<1>1. Len(n.alerts) \in Nat
  BY CapAssumption
<1>2. PICK s : s = [k \in 0..Len(n.alerts) |-> Step(a, n, s, k)]
  BY <1>1, AlertsAppliedExists
<1>3. AlertsApplied(a, n) =
        CHOOSE t : t = [k \in 0..Len(n.alerts) |->
                          IF k = 0 THEN [acc |-> a, given |-> {}]
                          ELSE ApplyAlert(n, n.alerts[k], t[k - 1])]
  BY DEF AlertsApplied
<1>4. AlertsApplied(a, n) =
        [k \in 0..Len(n.alerts) |->
           IF k = 0 THEN [acc |-> a, given |-> {}]
           ELSE ApplyAlert(n, n.alerts[k], AlertsApplied(a, n)[k - 1])]
  BY <1>2, <1>3 DEF Step
<1>5. ASSUME NEW k \in 0..Len(n.alerts)
      PROVE  AlertsApplied(a, n)[k] = Step(a, n, AlertsApplied(a, n), k)
  BY <1>4 DEF Step
<1> QED BY <1>1, <1>5

-----------------------------------------------------------------------------
(* The accumulator.                                                        *)

Keys == {x.key : x \in AllAlerts}

Accumulators ==
  [alerts : SUBSET Entries, index : SUBSET (DataIds \X Keys),
   tombs : [Messages -> Nat], dataTombs : [DataIds -> Nat]]

EntryOf(n, x) == [key |-> x.key, sent |-> x.sent, pub |-> n.pub, data |-> n.data]

(* Every entry is a published alert, the only one of its key, and younger  *)
(* than what is remembered of its message's and its document's withdrawal. *)
(* Without the last two a late copy could come back.                       *)
Sound(a) ==
  /\ a \in Accumulators
  /\ \A e \in a.alerts : \E n \in Notes : \E x \in DocAlerts(n) : e = EntryOf(n, x)
  /\ \A e, f \in a.alerts : e.key = f.key => e = f
  /\ \A e \in a.alerts : a.tombs[EntryMessage(e)] < e.pub /\ a.dataTombs[e.data] < e.pub

(* The index has every alert held: a deletion finds what it must withdraw. *)
Covered(a) == IndexOf(a.alerts) \subseteq a.index

LEMMA PublishedTypes ==
  ASSUME NEW n \in Notes, NEW x \in DocAlerts(n)
  PROVE  /\ n.pub \in Nat /\ n.pub > 0 /\ n.data \in DataIds
         /\ x \in AllAlerts /\ x.key \in Keys /\ MessageKey(x) \in Messages
         /\ EntryOf(n, x) \in Entries
         /\ EntryOf(n, x).key = x.key /\ EntryOf(n, x).pub = n.pub
         /\ EntryOf(n, x).data = n.data
         /\ EntryMessage(EntryOf(n, x)) = MessageKey(x)
<1>1. n.pub \in Nat /\ n.pub > 0
  BY FeedAssumption
<1>2. x \in AllAlerts
  BY DEF AllAlerts
<1>3. MessageKey(x) \in Messages
  BY <1>2 DEF Messages
<1> QED BY <1>1, <1>2, <1>3 DEF DataIds, Keys, EntryOf, Entries, EntryMessage, MessageKey

LEMMA EntryTypes ==
  ASSUME NEW a, Sound(a), NEW e \in a.alerts
  PROVE  /\ e.pub \in Nat /\ e.pub > 0 /\ e.data \in DataIds /\ e.key \in Keys
         /\ EntryMessage(e) \in Messages
         /\ a.tombs[EntryMessage(e)] \in Nat /\ a.dataTombs[e.data] \in Nat
<1>1. PICK n \in Notes : \E x \in DocAlerts(n) : e = EntryOf(n, x)
  BY DEF Sound
<1>2. PICK x \in DocAlerts(n) : e = EntryOf(n, x)
  BY <1>1
<1>3. /\ e.pub \in Nat /\ e.pub > 0 /\ e.data \in DataIds /\ e.key \in Keys
      /\ EntryMessage(e) \in Messages
  BY <1>2, PublishedTypes
<1>4. a.tombs \in [Messages -> Nat] /\ a.dataTombs \in [DataIds -> Nat]
  BY DEF Sound, Accumulators
<1> QED BY <1>3, <1>4

\* Unindexing removed entries leaves the index of the rest.
LEMMA IndexWithout ==
  ASSUME NEW entries, NEW gone \in SUBSET entries,
         \A e, f \in entries : e.key = f.key => e = f
  PROVE  IndexOf(entries \ gone) = IndexOf(entries) \ IndexOf(gone)
BY DEF IndexOf

LEMMA RemoveFields ==
  ASSUME NEW a \in Accumulators, NEW gone
  PROVE  /\ RemoveAlerts(a, gone) \in Accumulators
         /\ RemoveAlerts(a, gone).alerts = a.alerts \ gone
         /\ RemoveAlerts(a, gone).index = a.index \ IndexOf(gone)
         /\ RemoveAlerts(a, gone).tombs = a.tombs
         /\ RemoveAlerts(a, gone).dataTombs = a.dataTombs
BY DEF RemoveAlerts, Accumulators

LEMMA RememberTypes ==
  ASSUME NEW tombs \in [Messages -> Nat], NEW messages, NEW pub \in Nat
  PROVE  /\ RememberAll(tombs, messages, pub) \in [Messages -> Nat]
         /\ \A m \in Messages :
              /\ m \notin messages => RememberAll(tombs, messages, pub)[m] = tombs[m]
              /\ \A k \in Nat : tombs[m] < k /\ (m \in messages => pub < k)
                   => RememberAll(tombs, messages, pub)[m] < k
BY DEF RememberAll, Later

\* Entries go, and tombstones rise, never above what stays.
LEMMA RemovedSound ==
  ASSUME NEW a, Sound(a), NEW b \in Accumulators, NEW gone \in SUBSET a.alerts,
         b.alerts = a.alerts \ gone,
         \A e \in b.alerts :
           b.tombs[EntryMessage(e)] < e.pub /\ b.dataTombs[e.data] < e.pub
  PROVE  Sound(b)
BY DEF Sound

LEMMA WithdrawFields ==
  ASSUME NEW a \in Accumulators, NEW messages, NEW pub \in Nat
  PROVE  LET b == Withdraw(a, messages, pub)
             gone == {e \in a.alerts : EntryMessage(e) \in messages /\ e.pub <= pub}
         IN /\ b \in Accumulators
            /\ b.alerts = a.alerts \ gone
            /\ b.index = a.index \ IndexOf(gone)
            /\ b.tombs = RememberAll(a.tombs, messages, pub)
            /\ b.dataTombs = a.dataTombs
<1> DEFINE gone == {e \in a.alerts : EntryMessage(e) \in messages /\ e.pub <= pub}
           r == RemoveAlerts(a, gone)
           b == Withdraw(a, messages, pub)
<1>1. /\ r \in Accumulators
      /\ r.alerts = a.alerts \ gone
      /\ r.index = a.index \ IndexOf(gone)
      /\ r.tombs = a.tombs
      /\ r.dataTombs = a.dataTombs
  BY RemoveFields
<1>2. b = [r EXCEPT !.tombs = RememberAll(r.tombs, messages, pub)]
  BY DEF Withdraw
<1>3. RememberAll(r.tombs, messages, pub) \in [Messages -> Nat]
  BY <1>1, RememberTypes DEF Accumulators
<1> HIDE DEF gone, r, b
<1>4. /\ b \in Accumulators /\ b.alerts = r.alerts /\ b.index = r.index
      /\ b.tombs = RememberAll(r.tombs, messages, pub) /\ b.dataTombs = r.dataTombs
  BY <1>1, <1>2, <1>3 DEF Accumulators
<1> QED BY <1>1, <1>4 DEF gone, b

LEMMA WithdrawSound ==
  ASSUME NEW a, Sound(a), NEW messages, NEW pub \in Nat
  PROVE  Sound(Withdraw(a, messages, pub))
<1> DEFINE gone == {e \in a.alerts : EntryMessage(e) \in messages /\ e.pub <= pub}
           b == Withdraw(a, messages, pub)
<1>1. a \in Accumulators
  BY DEF Sound
<1>2. /\ b \in Accumulators
      /\ b.alerts = a.alerts \ gone
      /\ b.tombs = RememberAll(a.tombs, messages, pub)
      /\ b.dataTombs = a.dataTombs
  BY <1>1, WithdrawFields
<1>3. ASSUME NEW e \in b.alerts
      PROVE  b.tombs[EntryMessage(e)] < e.pub /\ b.dataTombs[e.data] < e.pub
  <2>1. e \in a.alerts /\ e \notin gone
    BY <1>2
  <2>2. e.pub \in Nat /\ EntryMessage(e) \in Messages
    BY <2>1, EntryTypes
  <2>3. a.tombs[EntryMessage(e)] < e.pub /\ a.dataTombs[e.data] < e.pub
    BY <2>1 DEF Sound
  <2>4. EntryMessage(e) \in messages => pub < e.pub
    BY <2>1, <2>2
  <2>5. a.tombs \in [Messages -> Nat]
    BY <1>1 DEF Accumulators
  <2>6. RememberAll(a.tombs, messages, pub)[EntryMessage(e)] < e.pub
    BY <2>2, <2>3, <2>4, <2>5, RememberTypes
  <2> QED BY <1>2, <2>3, <2>6
<1> HIDE DEF b, gone
<1>4. gone \in SUBSET a.alerts
  BY DEF gone
<1>5. Sound(b)
  BY <1>2, <1>3, <1>4, RemovedSound
<1> QED BY <1>5 DEF b

LEMMA ReplaceFields ==
  ASSUME NEW a \in Accumulators, NEW n \in Notes, NEW x \in DocAlerts(n)
  PROVE  LET b == Replace(a, x, n)
             old == Held(a, x.key)
         IN /\ b \in Accumulators
            /\ b.alerts = (a.alerts \ old) \cup {EntryOf(n, x)}
            /\ b.index = a.index \ IndexOf({e \in old : e.data # n.data})
            /\ b.tombs = a.tombs /\ b.dataTombs = a.dataTombs
<1>1. EntryOf(n, x) \in Entries
  BY PublishedTypes
<1> QED BY <1>1 DEF Replace, EntryOf, Accumulators

LEMMA ReplaceSound ==
  ASSUME NEW a, Sound(a), NEW n \in Notes, NEW x \in DocAlerts(n),
         a.tombs[MessageKey(x)] < n.pub, a.dataTombs[n.data] < n.pub
  PROVE  Sound(Replace(a, x, n))
<1> DEFINE b == Replace(a, x, n)
           new == EntryOf(n, x)
<1>1. a \in Accumulators
  BY DEF Sound
<1>2. /\ b \in Accumulators
      /\ b.alerts = (a.alerts \ Held(a, x.key)) \cup {new}
      /\ b.tombs = a.tombs /\ b.dataTombs = a.dataTombs
  BY <1>1, ReplaceFields
<1>3. /\ new.key = x.key /\ new.pub = n.pub /\ new.data = n.data
      /\ EntryMessage(new) = MessageKey(x)
  BY PublishedTypes
<1> HIDE DEF b
<1>4. ASSUME NEW e \in b.alerts
      PROVE  /\ \E m \in Notes : \E y \in DocAlerts(m) : e = EntryOf(m, y)
             /\ b.tombs[EntryMessage(e)] < e.pub /\ b.dataTombs[e.data] < e.pub
  <2>1. CASE e = new
    BY <1>2, <1>3, <2>1
  <2>2. CASE e \in a.alerts
    BY <1>2, <2>2 DEF Sound
  <2> QED BY <1>2, <2>1, <2>2
<1>5. ASSUME NEW e \in b.alerts, NEW f \in b.alerts, e.key = f.key
      PROVE  e = f
  <2>1. \A g \in a.alerts \ Held(a, x.key) : g.key # new.key
    BY <1>3 DEF Held
  <2> HIDE DEF new
  <2>2. CASE e = new \/ f = new
    BY <1>2, <1>5, <2>1, <2>2
  <2>3. CASE e # new /\ f # new
    BY <1>2, <1>5, <2>3 DEF Sound
  <2> QED BY <2>2, <2>3
<1>6. Sound(b)
  BY <1>2, <1>4, <1>5 DEF Sound
<1> QED BY <1>6 DEF b

(* Within a document n the keys it has given content are indexed at its    *)
(* end only.                                                               *)
Given(n, s) == {<<n.data, key>> : key \in s.given}

Running(n, s) ==
  /\ s \in [acc : Accumulators, given : SUBSET Keys]
  /\ Sound(s.acc) /\ s.acc.dataTombs[n.data] < n.pub
  /\ IndexOf(s.acc.alerts) \subseteq s.acc.index \cup Given(n, s)

RunningExact(n, s) ==
  /\ s.acc.index \cup Given(n, s) = IndexOf(s.acc.alerts)
  /\ \A e \in s.acc.alerts : e.key \in s.given =>
       \E x \in DocAlerts(n) : EntryMessage(e) = MessageKey(x)

LEMMA WithdrawRuns ==
  ASSUME NEW n \in Notes, NEW s, Running(n, s), NEW messages, NEW b,
         b = Withdraw(s.acc, messages, n.pub)
  PROVE  /\ Running(n, [s EXCEPT !.acc = b])
         /\ /\ RunningExact(n, s)
            /\ \A x \in DocAlerts(n) : MessageKey(x) \notin messages
            => RunningExact(n, [s EXCEPT !.acc = b])
<1> DEFINE gone == {e \in s.acc.alerts : EntryMessage(e) \in messages /\ e.pub <= n.pub}
           t == [s EXCEPT !.acc = b]
<1>1. /\ s \in [acc : Accumulators, given : SUBSET Keys]
      /\ s.acc \in Accumulators /\ Sound(s.acc) /\ s.acc.dataTombs[n.data] < n.pub
      /\ IndexOf(s.acc.alerts) \subseteq s.acc.index \cup Given(n, s)
  BY DEF Running
<1>2. n.pub \in Nat
  BY FeedAssumption
<1>3. /\ b \in Accumulators
      /\ b.alerts = s.acc.alerts \ gone
      /\ b.index = s.acc.index \ IndexOf(gone)
      /\ b.dataTombs = s.acc.dataTombs
  <2> DEFINE a == s.acc
  <2>1. a \in Accumulators /\ b = Withdraw(a, messages, n.pub)
    BY <1>1
  <2> HIDE DEF a
  <2>2. LET lost == {e \in a.alerts : EntryMessage(e) \in messages /\ e.pub <= n.pub}
        IN /\ b \in Accumulators
           /\ b.alerts = a.alerts \ lost
           /\ b.index = a.index \ IndexOf(lost)
           /\ b.dataTombs = a.dataTombs
    BY <1>2, <2>1, WithdrawFields
  <2> QED BY <2>2 DEF a
<1>4. Sound(b)
  BY <1>1, <1>2, WithdrawSound
<1>5. IndexOf(b.alerts) = IndexOf(s.acc.alerts) \ IndexOf(gone)
  <2>1. \A e, f \in s.acc.alerts : e.key = f.key => e = f
    BY <1>1 DEF Sound
  <2>2. gone \in SUBSET s.acc.alerts
    OBVIOUS
  <2> HIDE DEF gone
  <2>3. IndexOf(s.acc.alerts \ gone) = IndexOf(s.acc.alerts) \ IndexOf(gone)
    BY <2>1, <2>2, IndexWithout
  <2> QED BY <1>3, <2>3
<1>6. t.acc = b /\ t.given = s.given /\ t \in [acc : Accumulators, given : SUBSET Keys]
  BY <1>1, <1>3
<1>7. Given(n, t) = Given(n, s)
  BY <1>6 DEF Given
<1>8. Running(n, t)
  <2> HIDE DEF t, gone
  <2> QED BY <1>1, <1>3, <1>4, <1>5, <1>6, <1>7 DEF Running
<1>9. ASSUME RunningExact(n, s), \A x \in DocAlerts(n) : MessageKey(x) \notin messages
      PROVE  RunningExact(n, t)
  <2>1. \A e \in gone : e.key \notin s.given
    BY <1>9 DEF RunningExact
  <2>2. Given(n, s) \cap IndexOf(gone) = {}
    <3> HIDE DEF gone
    <3> QED BY <2>1 DEF Given, IndexOf
  <2> HIDE DEF t, gone
  <2>3. t.acc.index \cup Given(n, t) = IndexOf(t.acc.alerts)
    BY <1>3, <1>5, <1>6, <1>7, <1>9, <2>2 DEF RunningExact
  <2>4. \A e \in t.acc.alerts : e.key \in t.given =>
          \E x \in DocAlerts(n) : EntryMessage(e) = MessageKey(x)
    BY <1>3, <1>6, <1>9 DEF RunningExact
  <2> QED BY <2>3, <2>4 DEF RunningExact
<1> QED BY <1>8, <1>9

LEMMA ReplaceRuns ==
  ASSUME NEW n \in Notes, NEW s, Running(n, s), NEW x \in DocAlerts(n),
         s.acc.tombs[MessageKey(x)] < n.pub, NEW t,
         t = [acc |-> Replace(s.acc, x, n), given |-> s.given \cup {x.key}]
  PROVE  /\ Running(n, t)
         /\ RunningExact(n, s) => RunningExact(n, t)
<1> DEFINE b == Replace(s.acc, x, n)
           old == Held(s.acc, x.key)
           moved == {e \in old : e.data # n.data}
           new == EntryOf(n, x)
<1>1. /\ s \in [acc : Accumulators, given : SUBSET Keys]
      /\ s.acc \in Accumulators /\ Sound(s.acc) /\ s.acc.dataTombs[n.data] < n.pub
      /\ IndexOf(s.acc.alerts) \subseteq s.acc.index \cup Given(n, s)
  BY DEF Running
<1>2. /\ b \in Accumulators
      /\ b.alerts = (s.acc.alerts \ old) \cup {new}
      /\ b.index = s.acc.index \ IndexOf(moved)
      /\ b.dataTombs = s.acc.dataTombs
  BY <1>1, ReplaceFields
<1>3. Sound(b)
  BY <1>1, ReplaceSound
<1>4. /\ new.key = x.key /\ new.data = n.data /\ x.key \in Keys
      /\ EntryMessage(new) = MessageKey(x)
  BY PublishedTypes
<1>5. t.acc = b /\ t.given = s.given \cup {x.key} /\ t \in [acc : Accumulators, given : SUBSET Keys]
  BY <1>1, <1>2, <1>4
<1>6. Given(n, t) = Given(n, s) \cup {<<n.data, x.key>>}
  BY <1>5 DEF Given
<1>7. IndexOf(b.alerts) = IndexOf(s.acc.alerts \ old) \cup {<<n.data, x.key>>}
  <2> HIDE DEF old, new, b
  <2> QED BY <1>2, <1>4 DEF IndexOf
<1>8. Given(n, s) \cap IndexOf(moved) = {}
  BY DEF Given, IndexOf
<1>9. /\ IndexOf(s.acc.alerts \ old) = IndexOf(s.acc.alerts) \ IndexOf(old)
      /\ IndexOf(moved) \subseteq IndexOf(old)
      /\ IndexOf(old) \subseteq IndexOf(moved) \cup {<<n.data, x.key>>}
  <2>1. \A e, f \in s.acc.alerts : e.key = f.key => e = f
    BY <1>1 DEF Sound
  <2>2. old \in SUBSET s.acc.alerts
    BY DEF Held
  <2>3. IndexOf(s.acc.alerts \ old) = IndexOf(s.acc.alerts) \ IndexOf(old)
    <3> HIDE DEF old
    <3> QED BY <2>1, <2>2, IndexWithout
  <2> QED BY <2>3 DEF IndexOf, Held
<1>10. Running(n, t)
  <2> HIDE DEF b, old, moved, new
  <2>1. IndexOf(t.acc.alerts) \subseteq t.acc.index \cup Given(n, t)
    BY <1>1, <1>2, <1>5, <1>6, <1>7, <1>8, <1>9
  <2> QED BY <1>1, <1>2, <1>3, <1>5, <2>1 DEF Running
<1>11. ASSUME RunningExact(n, s) PROVE RunningExact(n, t)
  <2>1. \A e \in t.acc.alerts : e.key \in t.given =>
          \E y \in DocAlerts(n) : EntryMessage(e) = MessageKey(y)
    <3>1. \A e \in s.acc.alerts \ old : e.key # x.key
      BY DEF Held
    <3> HIDE DEF b, old, new
    <3> QED BY <1>2, <1>4, <1>5, <1>11, <3>1 DEF RunningExact
  <2> HIDE DEF b, old, moved, new
  <2>2. t.acc.index \cup Given(n, t) = IndexOf(t.acc.alerts)
    BY <1>2, <1>5, <1>6, <1>7, <1>8, <1>9, <1>11 DEF RunningExact
  <2> QED BY <2>1, <2>2 DEF RunningExact
<1> QED BY <1>10, <1>11

LEMMA ApplyAlertRuns ==
  ASSUME NEW n \in Notes, NEW s, Running(n, s), NEW x \in DocAlerts(n)
  PROVE  /\ Running(n, ApplyAlert(n, x, s))
         /\ KeepsOwnAlerts /\ RunningExact(n, s) => RunningExact(n, ApplyAlert(n, x, s))
<1> DEFINE Stale(a) == \E e \in Held(a, x.key) : e.pub > n.pub
           w == Withdraw(s.acc, ReferencesWithdrawnBy(x), n.pub)
           a == IF Stale(s.acc) THEN s.acc ELSE w
           r == [s EXCEPT !.acc = a]
           t == [acc |-> Replace(r.acc, x, n), given |-> r.given \cup {x.key}]
           tomb == s.acc.tombs[MessageKey(x)]
<1>1. s \in [acc : Accumulators, given : SUBSET Keys] /\ s.acc \in Accumulators
  BY DEF Running
<1>2. tomb \in Nat /\ n.pub \in Nat /\ MessageKey(x) \in Messages
  BY <1>1, PublishedTypes DEF Accumulators
<1>3. r.acc = a /\ r.given = s.given
  BY <1>1
<1>4. /\ tomb >= n.pub => ApplyAlert(n, x, s) = s
      /\ tomb < n.pub => ApplyAlert(n, x, s) = r \/ ApplyAlert(n, x, s) = t
  <2>1. CASE tomb >= n.pub
    BY <1>2, <2>1 DEF ApplyAlert
  <2>2. CASE tomb < n.pub /\ (~IsRenderable(x) \/ Stale(a))
    BY <1>2, <2>2 DEF ApplyAlert
  <2>3. CASE tomb < n.pub /\ ~(~IsRenderable(x) \/ Stale(a))
    <3>1. ApplyAlert(n, x, s) = [acc |-> Replace(a, x, n), given |-> s.given \cup {x.key}]
      BY <1>2, <2>3 DEF ApplyAlert
    <3> QED BY <1>2, <1>3, <2>3, <3>1
  <2> QED BY <1>2, <2>1, <2>2, <2>3
<1>5. /\ Running(n, r)
      /\ KeepsOwnAlerts /\ RunningExact(n, s) => RunningExact(n, r)
  <2>1. CASE Stale(s.acc)
    <3>1. r = s
      BY <1>1, <2>1
    <3> QED BY <3>1
  <2>2. CASE ~Stale(s.acc)
    <3>1. r = [s EXCEPT !.acc = w]
      BY <2>2
    <3>2. KeepsOwnAlerts =>
            \A y \in DocAlerts(n) : MessageKey(y) \notin ReferencesWithdrawnBy(x)
      BY DEF KeepsOwnAlerts
    <3> HIDE DEF r, w
    <3>3. /\ Running(n, [s EXCEPT !.acc = w])
          /\ /\ RunningExact(n, s)
             /\ \A y \in DocAlerts(n) : MessageKey(y) \notin ReferencesWithdrawnBy(x)
             => RunningExact(n, [s EXCEPT !.acc = w])
      BY WithdrawRuns DEF w
    <3> QED BY <3>1, <3>2, <3>3
  <2> QED BY <2>1, <2>2
<1>6. r.acc.tombs[MessageKey(x)] = tomb
  <2>1. CASE Stale(s.acc)
    BY <1>3, <2>1
  <2>2. CASE ~Stale(s.acc)
    <3>1. w.tombs = RememberAll(s.acc.tombs, ReferencesWithdrawnBy(x), n.pub)
      BY <1>1, <1>2, WithdrawFields
    <3>2. MessageKey(x) \notin ReferencesWithdrawnBy(x)
      BY DEF ReferencesWithdrawnBy
    <3>3. s.acc.tombs \in [Messages -> Nat]
      BY <1>1 DEF Accumulators
    <3>4. w.tombs[MessageKey(x)] = tomb
      BY <1>2, <3>1, <3>2, <3>3, RememberTypes
    <3> HIDE DEF w
    <3> QED BY <1>3, <2>2, <3>4
  <2> QED BY <2>1, <2>2
<1>7. ASSUME tomb < n.pub
      PROVE  Running(n, t) /\ (RunningExact(n, r) => RunningExact(n, t))
  <2> HIDE DEF r
  <2> QED BY <1>5, <1>6, <1>7, ReplaceRuns
<1> HIDE DEF r, t, tomb
<1> QED BY <1>2, <1>4, <1>5, <1>7

\* A document begun with a sound, exactly indexed accumulator...
LEMMA DocumentBegins ==
  ASSUME NEW a, Sound(a), Covered(a), NEW n \in Notes, a.dataTombs[n.data] < n.pub
  PROVE  /\ Running(n, [acc |-> a, given |-> {}])
         /\ a.index = IndexOf(a.alerts) => RunningExact(n, [acc |-> a, given |-> {}])
<1> DEFINE s == [acc |-> a, given |-> {}]
<1>1. s.acc = a /\ s.given = {} /\ a \in Accumulators
  BY DEF Sound
<1>2. s \in [acc : Accumulators, given : SUBSET Keys]
  BY <1>1
<1>3. Given(n, s) = {}
  BY <1>1 DEF Given
<1> HIDE DEF s
<1>4. Running(n, s)
  BY <1>1, <1>2, <1>3 DEF Running, Covered
<1>5. a.index = IndexOf(a.alerts) => RunningExact(n, s)
  BY <1>1, <1>3 DEF RunningExact
<1> QED BY <1>4, <1>5 DEF s

\* ... stays so through each of its alerts, by induction.
LEMMA AlertsAppliedRun ==
  ASSUME NEW a, Sound(a), Covered(a), NEW n \in Notes, a.dataTombs[n.data] < n.pub,
         NEW k \in 0..Len(n.alerts)
  PROVE  /\ Running(n, AlertsApplied(a, n)[k])
         /\ KeepsOwnAlerts /\ a.index = IndexOf(a.alerts)
              => RunningExact(n, AlertsApplied(a, n)[k])
<1> DEFINE s == AlertsApplied(a, n)
           Good(j) == /\ Running(n, s[j])
                      /\ KeepsOwnAlerts /\ a.index = IndexOf(a.alerts)
                           => RunningExact(n, s[j])
           bad == {j \in 0..Len(n.alerts) : ~Good(j)}
<1>1. /\ Len(n.alerts) \in Nat
      /\ \A j \in 0..Len(n.alerts) : s[j] = Step(a, n, s, j)
  BY AlertsAppliedStep
<1>2. SUFFICES ASSUME bad # {} PROVE FALSE
  OBVIOUS
<1>3. PICK j \in bad : \A i \in bad : j <= i
  <2>1. bad \in SUBSET Nat
    BY <1>1
  <2> HIDE DEF bad
  <2> QED BY <1>2, <2>1, LeastNumber
<1>4. CASE j = 0
  <2>1. s[j] = [acc |-> a, given |-> {}]
    BY <1>1, <1>3, <1>4 DEF Step
  <2> HIDE DEF s
  <2>2. Good(j)
    BY <2>1, DocumentBegins
  <2> QED BY <1>3, <2>2
<1>5. CASE j # 0
  <2>1. j \in 1..Len(n.alerts) /\ j - 1 \in 0..Len(n.alerts) /\ ~(j <= j - 1)
    BY <1>1, <1>3, <1>5
  <2>2. Good(j - 1)
    BY <1>3, <2>1
  <2>3. s[j] = ApplyAlert(n, n.alerts[j], s[j - 1])
    BY <1>1, <1>5, <2>1 DEF Step
  <2>4. n.alerts[j] \in DocAlerts(n)
    <3>1. n.alerts \in Seq(DocAlerts(n))
      BY CapAssumption
    <3> QED BY <2>1, <3>1
  <2> HIDE DEF s
  <2>5. Good(j)
    BY <2>2, <2>3, <2>4, ApplyAlertRuns
  <2> QED BY <1>3, <2>5
<1> QED BY <1>4, <1>5

LEMMA DocumentSound ==
  ASSUME NEW a, Sound(a), Covered(a), NEW n \in Notes
  PROVE  /\ Sound(Document(a, n)) /\ Covered(Document(a, n))
         /\ KeepsOwnAlerts /\ a.index = IndexOf(a.alerts)
              => Document(a, n).index = IndexOf(Document(a, n).alerts)
<1> DEFINE s == AlertsApplied(a, n)[Len(n.alerts)]
           b == [s.acc EXCEPT !.index = @ \cup {<<n.data, key>> : key \in s.given}]
<1>1. n.pub \in Nat /\ n.data \in DataIds
  BY FeedAssumption DEF DataIds
<1>2. a.dataTombs[n.data] \in Nat
  BY <1>1 DEF Sound, Accumulators
<1>3. CASE a.dataTombs[n.data] >= n.pub
  <2>1. Document(a, n) = a
    BY <1>3 DEF Document
  <2> QED BY <2>1
<1>4. CASE a.dataTombs[n.data] < n.pub
  <2>1. Document(a, n) = b
    BY <1>1, <1>2, <1>4 DEF Document
  <2>2. Len(n.alerts) \in Nat
    BY AlertsAppliedStep
  <2>3. /\ Running(n, s)
        /\ KeepsOwnAlerts /\ a.index = IndexOf(a.alerts) => RunningExact(n, s)
    BY <1>4, <2>2, AlertsAppliedRun
  <2> HIDE DEF s
  <2>4. /\ s.acc \in Accumulators /\ Sound(s.acc) /\ s.given \in SUBSET Keys
        /\ IndexOf(s.acc.alerts) \subseteq s.acc.index \cup Given(n, s)
    BY <2>3 DEF Running
  <2>5. Given(n, s) \in SUBSET (DataIds \X Keys)
    BY <1>1, <2>4 DEF Given
  <2>6. b = [s.acc EXCEPT !.index = @ \cup Given(n, s)]
    BY DEF Given
  <2>7. /\ b \in Accumulators /\ b.alerts = s.acc.alerts
        /\ b.index = s.acc.index \cup Given(n, s)
        /\ b.tombs = s.acc.tombs /\ b.dataTombs = s.acc.dataTombs
    BY <2>4, <2>5, <2>6 DEF Accumulators
  <2> HIDE DEF b
  <2>8. Sound(b)
    BY <2>4, <2>7 DEF Sound
  <2>9. Covered(b)
    BY <2>4, <2>7 DEF Covered
  <2> QED BY <2>1, <2>3, <2>7, <2>8, <2>9 DEF RunningExact
<1> QED BY <1>1, <1>2, <1>3, <1>4

\* What a deletion takes: all that its data_id holds, since that is indexed.
DeletedBy(n, a) == {e \in a.alerts : e.data = n.data /\ e.pub <= n.pub}

LEMMA DeleteFields ==
  ASSUME NEW a, Sound(a), Covered(a), NEW n \in Notes
  PROVE  LET b == Delete(a, n)
             gone == DeletedBy(n, a)
         IN /\ b \in Accumulators /\ b.alerts = a.alerts \ gone
            /\ b.index = a.index \ IndexOf(gone)
            /\ b.tombs = RememberAll(a.tombs, {EntryMessage(e) : e \in gone}, n.pub)
            /\ b.dataTombs = [a.dataTombs EXCEPT ![n.data] = Later(a.dataTombs[n.data], n.pub)]
<1> DEFINE gone == DeletedBy(n, a)
           withdrawn == {EntryMessage(e) : e \in gone}
           r == RemoveAlerts(a, gone)
           b == Delete(a, n)
           documents == [a.dataTombs EXCEPT ![n.data] = Later(a.dataTombs[n.data], n.pub)]
<1>1. /\ a \in Accumulators /\ a.tombs \in [Messages -> Nat]
      /\ a.dataTombs \in [DataIds -> Nat] /\ n.pub \in Nat /\ n.data \in DataIds
  BY FeedAssumption DEF Sound, Accumulators, DataIds
<1>2. /\ r \in Accumulators /\ r.alerts = a.alerts \ gone
      /\ r.index = a.index \ IndexOf(gone)
      /\ r.tombs = a.tombs /\ r.dataTombs = a.dataTombs
  BY <1>1, RemoveFields
<1>3. gone = {e \in a.alerts : /\ <<n.data, e.key>> \in a.index
                               /\ e.data = n.data /\ e.pub <= n.pub}
  BY DEF DeletedBy, Covered, IndexOf
<1>4. b = [r EXCEPT !.dataTombs[n.data] = Later(@, n.pub),
                    !.tombs = RememberAll(@, withdrawn, n.pub)]
  BY <1>3 DEF Delete
<1>5. RememberAll(a.tombs, withdrawn, n.pub) \in [Messages -> Nat]
  <2> HIDE DEF withdrawn
  <2> QED BY <1>1, RememberTypes
<1>6. documents \in [DataIds -> Nat]
  BY <1>1 DEF Later
<1>7. /\ b \in Accumulators /\ b.alerts = a.alerts \ gone
      /\ b.index = a.index \ IndexOf(gone)
      /\ b.tombs = RememberAll(a.tombs, withdrawn, n.pub) /\ b.dataTombs = documents
  <2> HIDE DEF r, b, withdrawn, gone
  <2> QED BY <1>2, <1>4, <1>5, <1>6 DEF Accumulators
<1> HIDE DEF b, gone, documents
<1> QED BY <1>7 DEF b, gone, documents

LEMMA DeleteSound ==
  ASSUME NEW a, Sound(a), Covered(a), NEW n \in Notes
  PROVE  /\ Sound(Delete(a, n)) /\ Covered(Delete(a, n))
         /\ a.index = IndexOf(a.alerts) => Delete(a, n).index = IndexOf(Delete(a, n).alerts)
<1> DEFINE gone == DeletedBy(n, a)
           withdrawn == {EntryMessage(e) : e \in gone}
           documents == [a.dataTombs EXCEPT ![n.data] = Later(a.dataTombs[n.data], n.pub)]
           b == Delete(a, n)
<1>1. /\ a \in Accumulators /\ a.tombs \in [Messages -> Nat]
      /\ a.dataTombs \in [DataIds -> Nat] /\ n.pub \in Nat /\ n.data \in DataIds
  BY FeedAssumption DEF Sound, Accumulators, DataIds
<1>2. /\ b \in Accumulators /\ b.alerts = a.alerts \ gone
      /\ b.index = a.index \ IndexOf(gone)
      /\ b.tombs = RememberAll(a.tombs, withdrawn, n.pub) /\ b.dataTombs = documents
  BY DeleteFields
<1>3. ASSUME NEW e \in b.alerts
      PROVE  b.tombs[EntryMessage(e)] < e.pub /\ b.dataTombs[e.data] < e.pub
  <2>1. e \in a.alerts /\ e \notin gone
    BY <1>2
  <2>2. e.pub \in Nat /\ EntryMessage(e) \in Messages /\ e.data \in DataIds
    BY <2>1, EntryTypes
  <2>3. a.tombs[EntryMessage(e)] < e.pub /\ a.dataTombs[e.data] < e.pub
    BY <2>1 DEF Sound
  <2>4. EntryMessage(e) \notin withdrawn
    <3>1. SUFFICES ASSUME NEW g \in gone, EntryMessage(g) = EntryMessage(e) PROVE FALSE
      OBVIOUS
    <3>2. g.key = e.key /\ g \in a.alerts
      BY <3>1 DEF EntryMessage, DeletedBy
    <3>3. g = e
      BY <2>1, <3>2 DEF Sound
    <3> QED BY <2>1, <3>3
  <2>5. b.tombs[EntryMessage(e)] < e.pub
    <3> HIDE DEF b, withdrawn
    <3> QED BY <1>1, <1>2, <2>2, <2>3, <2>4, RememberTypes
  <2>6. e.data = n.data => n.pub < e.pub
    BY <1>1, <2>1, <2>2 DEF DeletedBy
  <2>7. documents[e.data] < e.pub
    BY <1>1, <2>2, <2>3, <2>6 DEF Later
  <2> HIDE DEF b, documents
  <2> QED BY <1>2, <2>5, <2>7
<1>4. gone \in SUBSET a.alerts
  BY DEF DeletedBy
<1> HIDE DEF b, gone, withdrawn, documents
<1>5. Sound(b)
  BY <1>2, <1>3, <1>4, RemovedSound
<1>6. IndexOf(b.alerts) = IndexOf(a.alerts) \ IndexOf(gone)
  <2>1. IndexOf(a.alerts \ gone) = IndexOf(a.alerts) \ IndexOf(gone)
    BY <1>4, IndexWithout DEF Sound
  <2> QED BY <1>2, <2>1
<1>7. Covered(b) /\ (a.index = IndexOf(a.alerts) => b.index = IndexOf(b.alerts))
  BY <1>2, <1>6 DEF Covered
<1> QED BY <1>5, <1>7 DEF b

LEMMA ForgetSound ==
  ASSUME NEW a, Sound(a), Covered(a), NEW gone \in SUBSET a.alerts,
         NEW messages, NEW documents
  PROVE  LET b == Forget(a, gone, messages, documents)
         IN /\ Sound(b) /\ Covered(b)
            /\ a.index = IndexOf(a.alerts) => b.index = IndexOf(b.alerts)
<1> DEFINE r == RemoveAlerts(a, gone)
           b == Forget(a, gone, messages, documents)
           tombs == [m \in Messages |-> IF m \in messages THEN 0 ELSE a.tombs[m]]
           dataTombs == [d \in DataIds |-> IF d \in documents THEN 0 ELSE a.dataTombs[d]]
<1>1. /\ a \in Accumulators /\ a.tombs \in [Messages -> Nat]
      /\ a.dataTombs \in [DataIds -> Nat]
  BY DEF Sound, Accumulators
<1>2. /\ r \in Accumulators /\ r.alerts = a.alerts \ gone
      /\ r.index = a.index \ IndexOf(gone)
      /\ r.tombs = a.tombs /\ r.dataTombs = a.dataTombs
  BY <1>1, RemoveFields
<1>3. tombs \in [Messages -> Nat] /\ dataTombs \in [DataIds -> Nat]
  BY <1>1
<1>4. b = [r EXCEPT !.tombs = tombs, !.dataTombs = dataTombs]
  BY <1>2 DEF Forget
<1>5. /\ b \in Accumulators /\ b.alerts = a.alerts \ gone
      /\ b.index = a.index \ IndexOf(gone)
      /\ b.tombs = tombs /\ b.dataTombs = dataTombs
  <2> HIDE DEF r, b, tombs, dataTombs
  <2> QED BY <1>2, <1>3, <1>4 DEF Accumulators
<1>6. ASSUME NEW e \in b.alerts
      PROVE  b.tombs[EntryMessage(e)] < e.pub /\ b.dataTombs[e.data] < e.pub
  <2>1. e \in a.alerts
    BY <1>5
  <2>2. e.pub > 0 /\ EntryMessage(e) \in Messages /\ e.data \in DataIds
    BY <2>1, EntryTypes
  <2>3. a.tombs[EntryMessage(e)] < e.pub /\ a.dataTombs[e.data] < e.pub
    BY <2>1 DEF Sound
  <2>4. tombs[EntryMessage(e)] < e.pub /\ dataTombs[e.data] < e.pub
    BY <2>2, <2>3
  <2> HIDE DEF b, tombs, dataTombs
  <2> QED BY <1>5, <2>4
<1> HIDE DEF b, tombs, dataTombs
<1>7. Sound(b)
  BY <1>5, <1>6, RemovedSound
<1>8. IndexOf(b.alerts) = IndexOf(a.alerts) \ IndexOf(gone)
  <2>1. IndexOf(a.alerts \ gone) = IndexOf(a.alerts) \ IndexOf(gone)
    BY IndexWithout DEF Sound
  <2> QED BY <1>5, <2>1
<1>9. Covered(b) /\ (a.index = IndexOf(a.alerts) => b.index = IndexOf(b.alerts))
  BY <1>5, <1>8 DEF Covered
<1> QED BY <1>7, <1>9 DEF b

LEMMA RestoredSound ==
  ASSUME NEW a, Sound(a)
  PROVE  /\ Sound(Restored(a)) /\ Covered(Restored(a))
         /\ Restored(a).index = IndexOf(Restored(a).alerts)
<1> DEFINE b == Restored(a)
<1>1. a \in Accumulators
  BY DEF Sound
<1>2. IndexOf(a.alerts) \in SUBSET (DataIds \X Keys)
  BY EntryTypes DEF IndexOf
<1>3. /\ b \in Accumulators /\ b.alerts = a.alerts /\ b.index = IndexOf(a.alerts)
      /\ b.tombs = a.tombs /\ b.dataTombs = a.dataTombs
  BY <1>1, <1>2 DEF Restored, Accumulators
<1> HIDE DEF b
<1>4. Sound(b)
  BY <1>3 DEF Sound
<1>5. Covered(b) /\ b.index = IndexOf(b.alerts)
  BY <1>3 DEF Covered
<1> QED BY <1>4, <1>5 DEF b

LEMMA EmptySound ==
  Sound(Empty) /\ Covered(Empty) /\ Empty.index = IndexOf(Empty.alerts)
BY DEF Sound, Covered, Empty, Accumulators, IndexOf

-----------------------------------------------------------------------------
(* The collection.  The snapshot is as sound as the accumulator, or a      *)
(* restart would bring back what it must not; its index is not stored.     *)

HandOK == \A p \in DOMAIN inHand : p = 1 /\ inHand[p] \in Notes

CapInv ==
  /\ Sound(acc) /\ Covered(acc) /\ Sound(file)
  /\ accepted \in Seq(Notes) /\ HandOK
  /\ life \in {"up", "sealed", "stopped"} /\ flushed \in BOOLEAN
  /\ applied \subseteq Notes /\ faults \in 0..MaxFaults

\* What a step keeps of it, and of the exact index.
CapKept == CapInv' /\ (KeepsOwnAlerts /\ IndexExact => IndexExact')

LEMMA CapInvInit == CapInit => CapInv /\ IndexExact
<1> SUFFICES ASSUME CapInit PROVE CapInv /\ IndexExact
  OBVIOUS
<1>1. acc = Empty /\ file = Empty
  BY DEF CapInit
<1>2. Sound(acc) /\ Covered(acc) /\ Sound(file) /\ IndexExact
  BY <1>1, EmptySound DEF IndexExact
<1>3. accepted \in Seq(Notes)
  BY DEF CapInit, FeedInit
<1>4. HandOK
  BY DEF CapInit, HandOK
<1>5. /\ life \in {"up", "sealed", "stopped"} /\ flushed \in BOOLEAN
      /\ applied \subseteq Notes /\ faults \in 0..MaxFaults
  <2>1. life = "up" /\ flushed = FALSE /\ applied = {} /\ faults = 0
    BY DEF CapInit
  <2>2. MaxFaults \in Nat
    BY CapAssumption
  <2>3. flushed \in BOOLEAN
    BY <2>1
  <2>4. life \in {"up", "sealed", "stopped"} /\ applied \subseteq Notes
    BY <2>1
  <2>5. faults \in 0..MaxFaults
    BY <2>1, <2>2
  <2> QED BY <2>3, <2>4, <2>5
<1> QED BY <1>2, <1>3, <1>4, <1>5 DEF CapInv

\* What is accepted are notifications, and a download that ends is one.
LEMMA ResolveKeeps ==
  ASSUME accepted \in Seq(Notes), NEW i, Resolve(i)
  PROVE  accepted' \in Seq(Notes) /\ accepted[i] \in Notes
<1>1. i \in 1..Len(accepted) /\ Len(accepted) \in Nat
  BY DEF Resolve
<1>2. accepted' = SubSeq(accepted, 1, i - 1) \o SubSeq(accepted, i + 1, Len(accepted))
  BY DEF Resolve, RemoveAt
<1>3. SubSeq(accepted, 1, i - 1) \in Seq(Notes)
  BY <1>1
<1>4. SubSeq(accepted, i + 1, Len(accepted)) \in Seq(Notes)
  BY <1>1
<1> QED BY <1>1, <1>2, <1>3, <1>4

LEMMA PublishKeepsAccepted ==
  ASSUME accepted \in Seq(Notes), NEW n \in Notes, Publish(n)
  PROVE  accepted' \in Seq(Notes)
<1>1. accepted' = Append(accepted, n) \/ accepted' = accepted
  BY DEF Publish, Accept, Refuse
<1> QED BY <1>1

LEMMA FeedStepKeeps ==
  ASSUME CapInv, UNCHANGED engine, accepted' \in Seq(Notes)
  PROVE  CapKept
BY DEF CapKept, CapInv, HandOK, IndexExact, engine

LEMMA ReceiveKeeps ==
  ASSUME CapInv, NEW i, Receive(i)
  PROVE  CapKept
<1>1. Resolve(i) /\ inHand' = <<accepted[i]>>
      /\ UNCHANGED <<acc, file, life, flushed, applied, faults>>
  BY DEF Receive
<1>2. accepted' \in Seq(Notes) /\ accepted[i] \in Notes
  BY <1>1, ResolveKeeps DEF CapInv
<1>3. HandOK'
  BY <1>1, <1>2 DEF HandOK
<1> QED BY <1>1, <1>2, <1>3 DEF CapKept, CapInv, IndexExact

LEMMA ApplyKeeps ==
  ASSUME CapInv, Apply
  PROVE  CapKept
<1>1. PICK p \in DOMAIN inHand : Land(inHand[p])
  BY DEF Apply
<1> DEFINE n == inHand[p]
<1>2. n \in Notes
  BY DEF CapInv, HandOK
<1>3. /\ HandOK' /\ accepted' = accepted /\ file' = file /\ life' = life
      /\ flushed' = flushed /\ faults' = faults
  BY DEF Apply, HandOK, feed
<1>4. applied' \subseteq Notes
  BY <1>1, <1>2 DEF Land, CapInv
<1>5. /\ Sound(acc') /\ Covered(acc')
      /\ KeepsOwnAlerts /\ acc.index = IndexOf(acc.alerts)
           => acc'.index = IndexOf(acc'.alerts)
  <2>1. CASE acc' = acc
    BY <2>1 DEF CapInv
  <2>2. CASE acc' = Delete(acc, n)
    BY <1>2, <2>2, DeleteSound DEF CapInv
  <2>3. CASE acc' = Document(acc, n)
    BY <1>2, <2>3, DocumentSound DEF CapInv
  <2> QED BY <1>1, <2>1, <2>2, <2>3 DEF Land
<1> QED BY <1>3, <1>4, <1>5 DEF CapKept, CapInv, IndexExact

LEMMA TickKeeps ==
  ASSUME CapInv, Tick
  PROVE  CapKept
<1>1. /\ Sound(acc') /\ Covered(acc')
      /\ acc.index = IndexOf(acc.alerts) => acc'.index = IndexOf(acc'.alerts)
      /\ applied' \subseteq Notes /\ faults' \in 0..MaxFaults
  <2>1. CASE UNCHANGED <<acc, applied, faults>>
    BY <2>1 DEF CapInv
  <2>2. CASE \E expired \in SUBSET acc.alerts,
               messages \in {{}} \cup {{m} : m \in Messages},
               documents \in {{}} \cup {{d} : d \in DataIds} :
               Rebuild(expired, messages, documents)
    <3>1. PICK expired \in SUBSET acc.alerts,
               messages \in {{}} \cup {{m} : m \in Messages},
               documents \in {{}} \cup {{d} : d \in DataIds} :
            Rebuild(expired, messages, documents)
      BY <2>2
    <3>2. PICK capped \in Capped(acc.alerts \ expired) :
            acc' = Forget(acc, expired \cup capped, messages, documents)
      BY <3>1 DEF Rebuild
    <3>3. expired \cup capped \in SUBSET acc.alerts
      BY <3>2 DEF Capped
    <3>4. applied' \subseteq Notes /\ faults' \in 0..MaxFaults
      BY <3>1, CapAssumption DEF Rebuild, CapInv
    <3>5. Sound(acc) /\ Covered(acc)
      BY DEF CapInv
    <3> QED BY <3>2, <3>3, <3>4, <3>5, ForgetSound
  <2> QED BY <2>1, <2>2 DEF Tick
<1>2. /\ inHand' = inHand /\ life' = life /\ flushed' = flushed /\ accepted' = accepted
      /\ (file' = file \/ file' = acc')
  BY DEF Tick, feed
<1>3. Sound(file')
  BY <1>1, <1>2 DEF CapInv
<1>4. HandOK'
  BY <1>2 DEF HandOK, CapInv
<1> QED BY <1>1, <1>2, <1>3, <1>4 DEF CapKept, CapInv, IndexExact

LEMMA StopKeeps ==
  ASSUME CapInv, Seal \/ Flush
  PROVE  CapKept
<1>1. /\ acc' = acc /\ inHand' = inHand /\ accepted' = accepted
      /\ (file' = file \/ file' = acc)
      /\ (life' = "sealed" \/ life' = "stopped")
  BY DEF Seal, Flush, feed
<1>2. flushed' \in BOOLEAN
  BY DEF Seal, Flush, CapInv
<1>3. applied' \subseteq Notes /\ faults' \in 0..MaxFaults
  <2>1. CASE UNCHANGED <<applied, faults>>
    BY <2>1 DEF CapInv
  <2>2. CASE Fault
    BY <2>2, CapAssumption DEF Fault, CapInv
  <2> QED BY <2>1, <2>2 DEF Seal, Flush
<1>4. Sound(file') /\ HandOK'
  BY <1>1 DEF CapInv, HandOK
<1> QED BY <1>1, <1>2, <1>3, <1>4 DEF CapKept, CapInv, IndexExact

LEMMA BeginKeeps ==
  ASSUME CapInv, TakeOver \/ Restart \/ Crash
  PROVE  CapKept
<1>1. /\ file' = file /\ (Begin(acc) \/ Begin(file))
      /\ applied' \subseteq Notes /\ faults' \in 0..MaxFaults
  BY CapAssumption DEF TakeOver, Restart, Crash, Fault, CapInv
<1>2. PICK a \in {acc, file} : Begin(a)
  BY <1>1
<1>3. Sound(a)
  BY DEF CapInv
<1>4. acc' = Restored(a) /\ inHand' = <<>> /\ life' = "up" /\ flushed' = FALSE
      /\ accepted' = <<>>
  BY <1>2 DEF Begin
<1>5. Sound(acc') /\ Covered(acc') /\ acc'.index = IndexOf(acc'.alerts)
  BY <1>3, <1>4, RestoredSound
<1>6. HandOK' /\ accepted' \in Seq(Notes)
  BY <1>4 DEF HandOK
<1>7. Sound(file')
  BY <1>1 DEF CapInv
<1>8. life' \in {"up", "sealed", "stopped"} /\ flushed' \in BOOLEAN
  BY <1>4
<1> QED BY <1>1, <1>5, <1>6, <1>7, <1>8 DEF CapKept, CapInv, IndexExact

LEMMA CapInvNext == CapInv /\ [CapNext]_capVars => CapKept
<1> SUFFICES ASSUME CapInv, [CapNext]_capVars PROVE CapKept
  OBVIOUS
<1>1. CASE \E n \in Notes : Publish(n) /\ UNCHANGED engine
  BY <1>1, PublishKeepsAccepted, FeedStepKeeps DEF CapInv
<1>2. CASE \E i \in 1..Concurrency : FailDownload(i)
  BY <1>2, ResolveKeeps, FeedStepKeeps DEF FailDownload, CapInv
<1>3. CASE \E i \in 1..Concurrency : Receive(i)
  BY <1>3, ReceiveKeeps
<1>4. CASE Respawn /\ UNCHANGED engine
  BY <1>4, FeedStepKeeps DEF Respawn
<1>5. CASE UNCHANGED capVars
  BY <1>5, FeedStepKeeps DEF capVars, feed, CapInv
<1> QED BY <1>1, <1>2, <1>3, <1>4, <1>5, ApplyKeeps, TickKeeps, StopKeeps, BeginKeeps
       DEF CapNext

LEMMA CapInvImplies == CapInv => CapTypeOK /\ WithdrawnStaysOut
BY DEF CapInv, Sound, Accumulators, HandOK, CapTypeOK, WithdrawnStaysOut

\* The types, and one alert of each key, in whatever order notifications,
\* evictions, snapshots, restarts and crashes come.
THEOREM CapTypes == CapSpec => []CapTypeOK
<1>1. CapInv /\ [CapNext]_capVars => CapInv'
  BY CapInvNext DEF CapKept
<1> QED BY <1>1, CapInvInit, CapInvImplies, PTL DEF CapSpec

\* What was withdrawn, by a reference or with its document, is not in force
\* again while that is remembered: not by a late copy, a delayed older
\* revision or a snapshot.
THEOREM WithdrawnAlertsStayOut == CapSpec => []WithdrawnStaysOut
<1>1. CapInv /\ [CapNext]_capVars => CapInv'
  BY CapInvNext DEF CapKept
<1> QED BY <1>1, CapInvInit, CapInvImplies, PTL DEF CapSpec

\* The index names exactly what is held, each alert under the document that
\* has its content, as long as no document withdraws an alert of its own: the
\* keys a document gave content are indexed at its end, when a later alert of
\* it may have withdrawn them.
THEOREM IndexIsExact ==
  ASSUME KeepsOwnAlerts
  PROVE  CapSpec => []IndexExact
<1>1. CapInit => CapInv /\ IndexExact
  BY CapInvInit
<1>2. (CapInv /\ IndexExact) /\ [CapNext]_capVars => (CapInv /\ IndexExact)'
  BY CapInvNext DEF CapKept
<1> QED BY <1>1, <1>2, PTL DEF CapSpec

-----------------------------------------------------------------------------
(* What is in force, whatever the order of arrival.  P are the published   *)
(* alerts applied, D the deletions, Q those of P the accumulator answers   *)
(* for: within an alert's step, all but itself.                            *)

WithdrawnBy(P, D, p) ==
  \/ \E d \in D : d.data = p.n.data /\ p.n.pub <= d.pub
  \/ \E q \in P : p.n.pub <= q.n.pub /\ MessageKey(p.x) \in ReferencesWithdrawnBy(q.x)

Stands(Q, P, D) == {p \in Q : IsRenderable(p.x) /\ ~WithdrawnBy(P, D, p)}

(* The alerts held are among those that stand, a latest revision of each   *)
(* is held, and a tombstone is there for each withdrawal and for nothing   *)
(* else.  A message has one also where a deletion found it held, which     *)
(* depends on the order: what else such a tombstone refuses is withdrawn   *)
(* by that deletion too, as Orderly has it.                                *)
Reflects(a, Q, P, D) ==
  /\ \A e \in a.alerts : \E p \in Stands(Q, P, D) : e = EntryOf(p.n, p.x)
  /\ \A p \in Stands(Q, P, D) : \E e \in a.alerts : e.key = p.x.key /\ p.n.pub <= e.pub
  /\ \A q \in P : \A m \in ReferencesWithdrawnBy(q.x) : q.n.pub <= a.tombs[m]
  /\ \A m \in Messages :
       \/ a.tombs[m] = 0
       \/ \E q \in P : m \in ReferencesWithdrawnBy(q.x) /\ a.tombs[m] <= q.n.pub
       \/ \E d \in D, p \in Published :
            MessageKey(p.x) = m /\ p.n.data = d.data /\ p.n.pub <= d.pub /\ a.tombs[m] <= d.pub
  /\ \A d \in D : d.pub <= a.dataTombs[d.data]
  /\ \A k \in DataIds : a.dataTombs[k] = 0 \/ \E d \in D : d.data = k /\ a.dataTombs[k] <= d.pub

Deletions == {n \in Notes : n.deletion}

LEMMA PublishedPairs ==
  /\ \A p \in Published : p.n \in Notes /\ p.x \in DocAlerts(p.n)
  /\ \A n \in Notes : \A x \in DocAlerts(n) : [n |-> n, x |-> x] \in Published
  /\ \A p \in Published : \A m \in ReferencesWithdrawnBy(p.x) : m \in Messages
<1>1. \A p \in Published : p.n \in Notes /\ p.x \in DocAlerts(p.n)
  BY DEF Published
<1>2. ASSUME NEW n \in Notes, NEW x \in DocAlerts(n)
      PROVE  [n |-> n, x |-> x] \in Published
  BY DEF Published
<1>3. ASSUME NEW p \in Published, NEW m \in ReferencesWithdrawnBy(p.x)
      PROVE  m \in Messages
  <2>1. m \in p.x.refs
    BY DEF ReferencesWithdrawnBy
  <2>2. p.x \in AllAlerts
    BY <1>1, PublishedTypes
  <2> QED BY <2>1, <2>2 DEF Messages
<1> QED BY <1>1, <1>2, <1>3

LEMMA PairTypes ==
  ASSUME NEW p \in Published
  PROVE  /\ p.n \in Notes /\ p.x \in DocAlerts(p.n)
         /\ p.n.pub \in Nat /\ p.n.pub > 0 /\ p.n.data \in DataIds
         /\ MessageKey(p.x) \in Messages
         /\ EntryOf(p.n, p.x).key = p.x.key /\ EntryOf(p.n, p.x).pub = p.n.pub
         /\ EntryOf(p.n, p.x).data = p.n.data
         /\ EntryMessage(EntryOf(p.n, p.x)) = MessageKey(p.x)
BY PublishedPairs, PublishedTypes

\* An alert that withdraws others takes what they replaced along.
LEMMA WithdrawReflects ==
  ASSUME Orderly, NEW a, Sound(a), NEW P \in SUBSET Published, NEW D \in SUBSET Deletions,
         Reflects(a, P, P, D), NEW new \in Published
  PROVE  Reflects(Withdraw(a, ReferencesWithdrawnBy(new.x), new.n.pub), P, P \cup {new}, D)
<1> DEFINE refs == ReferencesWithdrawnBy(new.x)
           pub == new.n.pub
           gone == {e \in a.alerts : EntryMessage(e) \in refs /\ e.pub <= pub}
           b == Withdraw(a, refs, pub)
           P2 == P \cup {new}
<1>1. a \in Accumulators /\ a.tombs \in [Messages -> Nat]
  BY DEF Sound, Accumulators
<1>2. pub \in Nat
  BY PairTypes
<1>3. /\ b.alerts = a.alerts \ gone
      /\ b.tombs = RememberAll(a.tombs, refs, pub)
      /\ b.dataTombs = a.dataTombs
  BY <1>1, <1>2, WithdrawFields
<1>4. ASSUME NEW p \in Published
      PROVE  WithdrawnBy(P2, D, p)
               <=> WithdrawnBy(P, D, p) \/ (p.n.pub <= pub /\ MessageKey(p.x) \in refs)
  BY DEF WithdrawnBy
<1>5. ASSUME NEW m \in Messages
      PROVE  /\ m \notin refs => b.tombs[m] = a.tombs[m]
             /\ m \in refs => b.tombs[m] = Later(a.tombs[m], pub)
  BY <1>1, <1>3 DEF RememberAll
<1> HIDE DEF refs, pub, b, P2
<1>6. ASSUME NEW e \in b.alerts
      PROVE  \E p \in Stands(P, P2, D) : e = EntryOf(p.n, p.x)
  <2>1. e \in a.alerts /\ e \notin gone
    BY <1>3
  <2>2. PICK p \in Stands(P, P, D) : e = EntryOf(p.n, p.x)
    BY <2>1 DEF Reflects
  <2>3. p \in Published /\ p \in P /\ IsRenderable(p.x) /\ ~WithdrawnBy(P, D, p)
    BY <2>2 DEF Stands
  <2>4. EntryMessage(e) = MessageKey(p.x) /\ e.pub = p.n.pub
    BY <2>2, <2>3, PairTypes
  <2>5. ~WithdrawnBy(P2, D, p)
    BY <1>4, <2>1, <2>3, <2>4
  <2> QED BY <2>2, <2>3, <2>5 DEF Stands
<1>7. ASSUME NEW p \in Stands(P, P2, D)
      PROVE  \E e \in b.alerts : e.key = p.x.key /\ p.n.pub <= e.pub
  <2>1. p \in Published /\ p \in P /\ IsRenderable(p.x) /\ ~WithdrawnBy(P2, D, p)
    BY DEF Stands
  <2>2. p \in Stands(P, P, D)
    BY <1>4, <2>1 DEF Stands
  <2>3. PICK e \in a.alerts : e.key = p.x.key /\ p.n.pub <= e.pub
    BY <2>2 DEF Reflects
  <2>4. SUFFICES ASSUME e \in gone PROVE FALSE
    BY <1>3, <2>3
  <2>5. PICK q \in Stands(P, P, D) : e = EntryOf(q.n, q.x)
    BY DEF Reflects
  <2>6. q \in Published
    BY DEF Stands
  <2>7. /\ q.x.key = p.x.key /\ p.n.pub <= q.n.pub /\ q.n.pub <= pub
        /\ MessageKey(q.x) \in refs
    BY <2>3, <2>4, <2>5, <2>6, PairTypes
  <2>8. p.n.pub \in Nat /\ q.n.pub \in Nat
    BY <2>1, <2>6, PairTypes
  <2>9. MessageKey(p.x) \in refs
    <3>1. CASE p.n.pub = q.n.pub
      <4>1. p.x = q.x
        BY <2>1, <2>6, <2>7, <3>1 DEF Orderly
      <4> QED BY <2>7, <4>1
    <3>2. CASE p.n.pub < q.n.pub
      BY <2>1, <2>6, <2>7, <3>2 DEF Orderly, refs, pub
    <3> QED BY <2>7, <2>8, <3>1, <3>2
  <2> QED BY <1>2, <1>4, <2>1, <2>7, <2>8, <2>9
<1>8. ASSUME NEW q \in P2, NEW m \in ReferencesWithdrawnBy(q.x)
      PROVE  q.n.pub <= b.tombs[m]
  <2>1. q \in Published /\ m \in Messages /\ q.n.pub \in Nat /\ a.tombs[m] \in Nat
    <3>1. q \in Published
      BY DEF P2
    <3> QED BY <1>1, <3>1, PublishedPairs, PairTypes
  <2>2. CASE q \in P
    <3>1. q.n.pub <= a.tombs[m]
      BY <2>2 DEF Reflects
    <3> QED BY <1>2, <1>5, <2>1, <3>1 DEF Later
  <2>3. CASE q = new
    BY <1>2, <1>5, <2>1, <2>3 DEF Later, refs, pub
  <2> QED BY <2>2, <2>3 DEF P2
<1>9. ASSUME NEW m \in Messages
      PROVE  \/ b.tombs[m] = 0
             \/ \E q \in P2 : m \in ReferencesWithdrawnBy(q.x) /\ b.tombs[m] <= q.n.pub
             \/ \E d \in D, p \in Published :
                  /\ MessageKey(p.x) = m /\ p.n.data = d.data /\ p.n.pub <= d.pub
                  /\ b.tombs[m] <= d.pub
  <2>1. CASE b.tombs[m] = a.tombs[m]
    BY <2>1 DEF Reflects, P2
  <2>2. CASE m \in refs /\ b.tombs[m] = pub
    BY <1>2, <2>2 DEF P2, refs, pub
  <2> QED BY <1>5, <2>1, <2>2 DEF Later
<1>10. /\ \A d \in D : d.pub <= b.dataTombs[d.data]
       /\ \A k \in DataIds :
            b.dataTombs[k] = 0 \/ \E d \in D : d.data = k /\ b.dataTombs[k] <= d.pub
  BY <1>3 DEF Reflects
<1>11. Reflects(b, P, P2, D)
  BY <1>6, <1>7, <1>8, <1>9, <1>10 DEF Reflects
<1> QED BY <1>11 DEF b, P2, refs, pub

\* A revision put in place of what is held stands for it.
LEMMA ReplaceReflects ==
  ASSUME NEW a, Sound(a), NEW P \in SUBSET Published, NEW Q \in SUBSET Published, NEW D,
         Reflects(a, Q, P, D), NEW n \in Notes, NEW x \in DocAlerts(n), NEW new,
         new = [n |-> n, x |-> x], IsRenderable(x), ~WithdrawnBy(P, D, new),
         \A e \in a.alerts : e.key = x.key => ~(e.pub > n.pub)
  PROVE  Reflects(Replace(a, x, n), Q \cup {new}, P, D)
<1> DEFINE b == Replace(a, x, n)
           entry == EntryOf(n, x)
           Q2 == Q \cup {new}
<1>1. a \in Accumulators
  BY DEF Sound
<1>2. /\ b.alerts = (a.alerts \ Held(a, x.key)) \cup {entry}
      /\ b.tombs = a.tombs /\ b.dataTombs = a.dataTombs
  BY <1>1, ReplaceFields
<1>3. entry.key = x.key /\ entry.pub = n.pub /\ n.pub \in Nat
  BY PublishedTypes
<1>4. new \in Stands(Q2, P, D) /\ new.n = n /\ new.x = x
  BY DEF Stands
<1>5. Stands(Q, P, D) \subseteq Stands(Q2, P, D)
  BY DEF Stands
<1> HIDE DEF b
<1>6. ASSUME NEW e \in b.alerts
      PROVE  \E p \in Stands(Q2, P, D) : e = EntryOf(p.n, p.x)
  <2>1. CASE e = entry
    BY <1>4, <2>1
  <2>2. CASE e \in a.alerts
    <3>1. PICK p \in Stands(Q, P, D) : e = EntryOf(p.n, p.x)
      BY <2>2 DEF Reflects
    <3> QED BY <1>5, <3>1
  <2> QED BY <1>2, <2>1, <2>2
<1>7. ASSUME NEW p \in Stands(Q2, P, D)
      PROVE  \E e \in b.alerts : e.key = p.x.key /\ p.n.pub <= e.pub
  <2>1. CASE p = new
    BY <1>2, <1>3, <1>4, <2>1
  <2>2. CASE p # new
    <3>1. p \in Stands(Q, P, D) /\ p \in Published
      BY <2>2 DEF Stands
    <3>2. PICK e \in a.alerts : e.key = p.x.key /\ p.n.pub <= e.pub
      BY <3>1 DEF Reflects
    <3>3. CASE e.key # x.key
      BY <1>2, <3>2, <3>3 DEF Held
    <3>4. CASE e.key = x.key
      <4>1. e.pub \in Nat /\ p.n.pub \in Nat
        BY <3>1, EntryTypes, PairTypes
      <4>2. p.n.pub <= n.pub
        BY <1>3, <3>2, <3>4, <4>1
      <4> HIDE DEF entry
      <4> QED BY <1>2, <1>3, <3>2, <3>4, <4>2
    <3> QED BY <3>3, <3>4
  <2> QED BY <2>1, <2>2
<1> HIDE DEF Q2
<1>8. Reflects(b, Q2, P, D)
  BY <1>2, <1>6, <1>7 DEF Reflects
<1> QED BY <1>8 DEF b, Q2

\* What withdraws nothing and is not held adds nothing, if it does not stand or
\* a later revision of it is held.
LEMMA PassedOver ==
  ASSUME NEW a, NEW P \in SUBSET Published, NEW D, Reflects(a, P, P, D),
         NEW new \in Published, ReferencesWithdrawnBy(new.x) = {},
         \/ ~IsRenderable(new.x)
         \/ WithdrawnBy(P, D, new)
         \/ \E e \in a.alerts : e.key = new.x.key /\ new.n.pub <= e.pub
  PROVE  Reflects(a, P \cup {new}, P \cup {new}, D)
<1> DEFINE P2 == P \cup {new}
<1>1. \A p : WithdrawnBy(P2, D, p) <=> WithdrawnBy(P, D, p)
  BY DEF WithdrawnBy
<1>2. /\ Stands(P, P, D) \subseteq Stands(P2, P2, D)
      /\ \A p \in Stands(P2, P2, D) :
           \/ p \in Stands(P, P, D)
           \/ p = new /\ IsRenderable(new.x) /\ ~WithdrawnBy(P, D, new)
  BY <1>1 DEF Stands
<1>3. \A e \in a.alerts : \E p \in Stands(P2, P2, D) : e = EntryOf(p.n, p.x)
  BY <1>2 DEF Reflects
<1>4. \A p \in Stands(P2, P2, D) : \E e \in a.alerts : e.key = p.x.key /\ p.n.pub <= e.pub
  BY <1>2 DEF Reflects
<1>5. \A q \in P2 : \A m \in ReferencesWithdrawnBy(q.x) : q.n.pub <= a.tombs[m]
  BY DEF Reflects
<1>6. \A m \in Messages :
        \/ a.tombs[m] = 0
        \/ \E q \in P2 : m \in ReferencesWithdrawnBy(q.x) /\ a.tombs[m] <= q.n.pub
        \/ \E d \in D, p \in Published :
             MessageKey(p.x) = m /\ p.n.data = d.data /\ p.n.pub <= d.pub /\ a.tombs[m] <= d.pub
  BY DEF Reflects
<1>7. /\ \A d \in D : d.pub <= a.dataTombs[d.data]
      /\ \A k \in DataIds :
           a.dataTombs[k] = 0 \/ \E d \in D : d.data = k /\ a.dataTombs[k] <= d.pub
  BY DEF Reflects
<1> HIDE DEF P2
<1>8. Reflects(a, P2, P2, D)
  BY <1>3, <1>4, <1>5, <1>6, <1>7 DEF Reflects
<1> QED BY <1>8 DEF P2

LEMMA ApplyAlertReflects ==
  ASSUME Orderly, NEW n \in Notes, NEW s, Running(n, s), NEW x \in DocAlerts(n),
         NEW P \in SUBSET Published, NEW D \in SUBSET Deletions, Reflects(s.acc, P, P, D),
         NEW new, new = [n |-> n, x |-> x]
  PROVE  Reflects(ApplyAlert(n, x, s).acc, P \cup {new}, P \cup {new}, D)
<1> DEFINE Stale(a) == \E e \in Held(a, x.key) : e.pub > n.pub
           refs == ReferencesWithdrawnBy(x)
           w == Withdraw(s.acc, refs, n.pub)
           a == IF Stale(s.acc) THEN s.acc ELSE w
           tomb == s.acc.tombs[MessageKey(x)]
           P2 == P \cup {new}
<1>1. /\ s \in [acc : Accumulators, given : SUBSET Keys] /\ s.acc \in Accumulators
      /\ Sound(s.acc) /\ s.acc.dataTombs[n.data] < n.pub
  BY DEF Running
<1>2. /\ tomb \in Nat /\ n.pub \in Nat /\ n.pub > 0 /\ MessageKey(x) \in Messages
      /\ n.data \in DataIds
  BY <1>1, PublishedTypes DEF Accumulators
<1>3. new \in Published /\ new.n = n /\ new.x = x
  BY PublishedPairs
<1>4. CASE tomb >= n.pub
  <2>1. ApplyAlert(n, x, s).acc = s.acc
    BY <1>2, <1>4 DEF ApplyAlert
  <2>2. \/ \E q \in P : MessageKey(x) \in ReferencesWithdrawnBy(q.x) /\ tomb <= q.n.pub
        \/ \E d \in D, p \in Published :
             /\ MessageKey(p.x) = MessageKey(x) /\ p.n.data = d.data
             /\ p.n.pub <= d.pub /\ tomb <= d.pub
    BY <1>2, <1>4 DEF Reflects
  <2>3. WithdrawnBy(P, D, new) /\ refs = {}
    <3>1. CASE \E q \in P : MessageKey(x) \in ReferencesWithdrawnBy(q.x) /\ tomb <= q.n.pub
      <4>1. PICK q \in P : MessageKey(x) \in ReferencesWithdrawnBy(q.x) /\ tomb <= q.n.pub
        BY <3>1
      <4>2. q \in Published /\ q.n.pub \in Nat
        BY PairTypes
      <4>3. n.pub <= q.n.pub
        BY <1>2, <1>4, <4>1, <4>2
      <4>4. refs = {}
        BY <1>3, <4>1, <4>2 DEF Orderly
      <4> QED BY <1>3, <4>1, <4>3, <4>4 DEF WithdrawnBy
    <3>2. CASE \E d \in D, p \in Published :
                 /\ MessageKey(p.x) = MessageKey(x) /\ p.n.data = d.data
                 /\ p.n.pub <= d.pub /\ tomb <= d.pub
      <4>1. PICK d \in D, p \in Published :
                 /\ MessageKey(p.x) = MessageKey(x) /\ p.n.data = d.data
                 /\ p.n.pub <= d.pub /\ tomb <= d.pub
        BY <3>2
      <4>2. d \in Notes /\ d.deletion /\ d.pub \in Nat
        BY FeedAssumption DEF Deletions
      <4>3. n.pub <= d.pub /\ x.key = p.x.key
        BY <1>2, <1>4, <4>1, <4>2 DEF MessageKey
      <4>4. n.data = d.data
        BY <1>3, <4>1, <4>2, <4>3 DEF Orderly
      <4>5. refs = {}
        BY <1>3, <4>2, <4>4 DEF Orderly
      <4> QED BY <1>3, <4>3, <4>4, <4>5 DEF WithdrawnBy
    <3> QED BY <2>2, <3>1, <3>2
  <2> QED BY <1>3, <2>1, <2>3, PassedOver
<1>5. CASE tomb < n.pub /\ Stale(s.acc)
  <2>1. ApplyAlert(n, x, s).acc = s.acc
    BY <1>1, <1>2, <1>5 DEF ApplyAlert
  <2>2. PICK e \in s.acc.alerts : e.key = x.key /\ e.pub > n.pub
    BY <1>5 DEF Held
  <2>3. PICK p \in Stands(P, P, D) : e = EntryOf(p.n, p.x)
    BY <2>2 DEF Reflects
  <2>4. p \in Published
    BY <2>3 DEF Stands
  <2>5. e.key = p.x.key /\ e.pub = p.n.pub /\ e.pub \in Nat
    BY <2>3, <2>4, PairTypes
  <2>6. new.x.key = p.x.key /\ new.n.pub # p.n.pub /\ new.n.pub <= e.pub
    <3>1. n.pub \in Nat
      BY <1>2
    <3>2. n.pub # p.n.pub /\ n.pub <= e.pub
      BY ONLY <2>2, <2>5, <3>1
    <3>3. x.key = p.x.key
      BY <2>2, <2>5
    <3> QED BY <1>3, <3>2, <3>3
  <2>7. ReferencesWithdrawnBy(new.x) = {}
    BY <1>3, <2>4, <2>6 DEF Orderly
  <2>8. \E f \in s.acc.alerts : f.key = new.x.key /\ new.n.pub <= f.pub
    BY <1>3, <2>2, <2>6
  <2>9. Reflects(s.acc, P2, P2, D)
    BY <1>3, <2>7, <2>8, PassedOver
  <2> QED BY <2>1, <2>9
<1>6. CASE tomb < n.pub /\ ~Stale(s.acc)
  <2>1. Reflects(w, P, P2, D) /\ Sound(w)
    BY <1>1, <1>2, <1>3, WithdrawReflects, WithdrawSound
  <2>2. w.alerts \subseteq s.acc.alerts /\ w.dataTombs = s.acc.dataTombs
    BY <1>1, <1>2, WithdrawFields
  <2>3. ~Stale(w)
    <3> HIDE DEF w
    <3> QED BY <1>6, <2>2 DEF Held
  <2>4. CASE ~IsRenderable(x)
    <3>1. ApplyAlert(n, x, s).acc = w
      BY <1>1, <1>2, <1>6, <2>4 DEF ApplyAlert
    <3>2. Stands(P2, P2, D) = Stands(P, P2, D)
      BY <1>3, <2>4 DEF Stands
    <3> HIDE DEF w, P2
    <3>3. Reflects(w, P2, P2, D)
      BY <2>1, <3>2 DEF Reflects
    <3> QED BY <3>1, <3>3 DEF P2
  <2>5. CASE IsRenderable(x)
    <3>1. ApplyAlert(n, x, s).acc = Replace(w, x, n)
      <4>1. ApplyAlert(n, x, s) = [acc |-> Replace(a, x, n), given |-> s.given \cup {x.key}]
        BY <1>2, <1>6, <2>3, <2>5 DEF ApplyAlert
      <4>2. a = w
        BY <1>6
      <4> HIDE DEF a, w
      <4> QED BY <4>1, <4>2
    <3>2. ~WithdrawnBy(P2, D, new)
      <4>1. ASSUME NEW d \in D, d.data = n.data, n.pub <= d.pub PROVE FALSE
        <5>1. d.pub <= s.acc.dataTombs[n.data] /\ d.pub \in Nat
          BY <4>1, FeedAssumption DEF Reflects, Deletions
        <5>2. s.acc.dataTombs[n.data] \in Nat
          BY <1>1, <1>2 DEF Accumulators
        <5> QED BY <1>1, <1>2, <4>1, <5>1, <5>2
      <4>2. ASSUME NEW q \in P2, n.pub <= q.n.pub, MessageKey(x) \in ReferencesWithdrawnBy(q.x)
            PROVE  FALSE
        <5>1. CASE q = new
          BY <1>3, <4>2, <5>1 DEF ReferencesWithdrawnBy
        <5>2. CASE q \in P
          <6>1. q.n.pub <= tomb
            BY <4>2, <5>2 DEF Reflects
          <6>2. q.n.pub \in Nat
            BY <5>2, PairTypes
          <6> QED BY <1>2, <1>6, <4>2, <6>1, <6>2
        <5> QED BY <5>1, <5>2
      <4> QED BY <1>3, <4>1, <4>2 DEF WithdrawnBy
    <3>3. \A e \in w.alerts : e.key = x.key => ~(e.pub > n.pub)
      BY <2>3 DEF Held
    <3>4. P2 \in SUBSET Published
      BY <1>3
    <3> HIDE DEF w, P2
    <3>5. Reflects(Replace(w, x, n), P \cup {new}, P2, D)
      BY <2>1, <2>5, <3>2, <3>3, <3>4, ReplaceReflects
    <3> QED BY <3>1, <3>5 DEF P2
  <2> QED BY <2>4, <2>5
<1> QED BY <1>2, <1>4, <1>5, <1>6

\* The alerts of a document up to the k-th, as published ones.
FirstAlerts(n, k) == {[n |-> n, x |-> n.alerts[j]] : j \in 1..k}

LEMMA AlertsAppliedReflect ==
  ASSUME Orderly, NEW a, Sound(a), Covered(a), NEW n \in Notes, a.dataTombs[n.data] < n.pub,
         NEW P \in SUBSET Published, NEW D \in SUBSET Deletions, Reflects(a, P, P, D),
         NEW k \in 0..Len(n.alerts)
  PROVE  LET Q == P \cup FirstAlerts(n, k)
         IN Reflects(AlertsApplied(a, n)[k].acc, Q, Q, D)
<1> DEFINE s == AlertsApplied(a, n)
           Q(j) == P \cup FirstAlerts(n, j)
           Good(j) == Reflects(s[j].acc, Q(j), Q(j), D)
           bad == {j \in 0..Len(n.alerts) : ~Good(j)}
<1>1. /\ Len(n.alerts) \in Nat
      /\ \A j \in 0..Len(n.alerts) : s[j] = Step(a, n, s, j)
  BY AlertsAppliedStep
<1>2. \A j \in 1..Len(n.alerts) : n.alerts[j] \in DocAlerts(n)
  BY CapAssumption
<1>3. SUFFICES ASSUME bad # {} PROVE FALSE
  OBVIOUS
<1>4. PICK j \in bad : \A i \in bad : j <= i
  <2>1. bad \in SUBSET Nat
    BY <1>1
  <2> HIDE DEF bad
  <2> QED BY <1>3, <2>1, LeastNumber
<1>5. CASE j = 0
  <2>1. s[j].acc = a
    BY <1>1, <1>4, <1>5 DEF Step
  <2>2. Q(j) = P
    BY <1>5 DEF FirstAlerts
  <2> HIDE DEF s, Q
  <2>3. Good(j)
    BY <2>1, <2>2
  <2> QED BY <1>4, <2>3
<1>6. CASE j # 0
  <2>1. j \in 1..Len(n.alerts) /\ j - 1 \in 0..Len(n.alerts) /\ ~(j <= j - 1)
    BY <1>1, <1>4, <1>6
  <2>2. Good(j - 1)
    BY <1>4, <2>1
  <2>3. s[j] = ApplyAlert(n, n.alerts[j], s[j - 1])
    BY <1>1, <1>6, <2>1 DEF Step
  <2>4. Running(n, s[j - 1])
    BY <2>1, AlertsAppliedRun
  <2> DEFINE new == [n |-> n, x |-> n.alerts[j]]
  <2>5. Q(j) = Q(j - 1) \cup {new}
    <3>1. 1..j = 1..(j - 1) \cup {j}
      BY <2>1
    <3> QED BY <3>1 DEF FirstAlerts
  <2>6. Q(j - 1) \in SUBSET Published
    <3>1. \A i \in 1..(j - 1) : i \in 1..Len(n.alerts)
      BY <1>1, <2>1
    <3> QED BY <1>2, <3>1, PublishedPairs DEF FirstAlerts
  <2>7. n.alerts[j] \in DocAlerts(n)
    BY <1>2, <2>1
  <2> DEFINE R == Q(j - 1)
             t == s[j - 1]
             x == n.alerts[j]
  <2>8. Reflects(t.acc, R, R, D) /\ Running(n, t)
    BY <2>2, <2>4
  <2> HIDE DEF s, Q, R, t, new, x
  <2>9. Reflects(ApplyAlert(n, x, t).acc, R \cup {new}, R \cup {new}, D)
    BY <2>6, <2>7, <2>8, ApplyAlertReflects DEF R, x, new
  <2>10. Good(j)
    BY <2>3, <2>5, <2>9 DEF R, t, x
  <2> QED BY <1>4, <2>10
<1> QED BY <1>5, <1>6

\* The index plays no part in it.
LEMMA SameReflects ==
  ASSUME NEW a, NEW b, NEW Q, NEW P, NEW D, Reflects(a, Q, P, D),
         b.alerts = a.alerts, b.tombs = a.tombs, b.dataTombs = a.dataTombs
  PROVE  Reflects(b, Q, P, D)
BY DEF Reflects

PairsOf(notes) == UNION {{[n |-> n, x |-> x] : x \in DocAlerts(n)} : n \in notes}
DeletionsOf(notes) == {n \in notes : n.deletion}

ReflectsNotes(a, notes) == Reflects(a, PairsOf(notes), PairsOf(notes), DeletionsOf(notes))

LEMMA NotesPairs ==
  ASSUME NEW notes \in SUBSET Notes
  PROVE  /\ PairsOf(notes) \in SUBSET Published
         /\ DeletionsOf(notes) \in SUBSET Deletions
         /\ \A n \in Notes : PairsOf(notes \cup {n}) =
              PairsOf(notes) \cup {[n |-> n, x |-> x] : x \in DocAlerts(n)}
BY DEF PairsOf, Published, DeletionsOf, Deletions

LEMMA DocumentReflects ==
  ASSUME Orderly, NEW a, Sound(a), Covered(a), NEW n \in Notes, ~n.deletion,
         NEW notes \in SUBSET Notes, ReflectsNotes(a, notes)
  PROVE  ReflectsNotes(Document(a, n), notes \cup {n})
<1> DEFINE P == PairsOf(notes)
           D == DeletionsOf(notes)
           own == {[n |-> n, x |-> x] : x \in DocAlerts(n)}
           s == AlertsApplied(a, n)[Len(n.alerts)]
<1>1. /\ P \in SUBSET Published /\ D \in SUBSET Deletions
      /\ PairsOf(notes \cup {n}) = P \cup own
  BY NotesPairs
<1>2. DeletionsOf(notes \cup {n}) = D
  BY DEF DeletionsOf
<1>3. n.pub \in Nat /\ n.pub > 0 /\ n.data \in DataIds /\ a.dataTombs[n.data] \in Nat
  <2>1. n.pub \in Nat /\ n.pub > 0 /\ n.data \in DataIds
    BY FeedAssumption DEF DataIds
  <2> QED BY <2>1 DEF Sound, Accumulators
<1>4. Reflects(a, P, P, D)
  BY DEF ReflectsNotes
<1> HIDE DEF P, D
<1>5. CASE a.dataTombs[n.data] >= n.pub
  <2>1. Document(a, n) = a
    BY <1>5 DEF Document
  <2>2. PICK d \in D : d.data = n.data /\ n.pub <= d.pub
    <3>1. PICK d \in D : d.data = n.data /\ a.dataTombs[n.data] <= d.pub
      BY <1>3, <1>4, <1>5 DEF Reflects
    <3>2. d.pub \in Nat
      BY <1>1, FeedAssumption DEF Deletions
    <3> QED BY <1>3, <1>5, <3>1, <3>2
  <2>3. d \in Notes /\ d.deletion
    BY <1>1, <2>2 DEF Deletions
  <2>4. ASSUME NEW p \in own
        PROVE  /\ p \in Published /\ p.n = n /\ ReferencesWithdrawnBy(p.x) = {}
               /\ \A Q : WithdrawnBy(Q, D, p)
    <3>1. p \in Published /\ p.n = n
      BY PublishedPairs
    <3>2. ReferencesWithdrawnBy(p.x) = {}
      BY <2>2, <2>3, <3>1 DEF Orderly
    <3> QED BY <2>2, <3>1, <3>2 DEF WithdrawnBy
  <2> DEFINE P2 == P \cup own
  <2>5. \A p : WithdrawnBy(P2, D, p) <=> WithdrawnBy(P, D, p)
    BY <2>4 DEF WithdrawnBy
  <2>6. Stands(P2, P2, D) = Stands(P, P, D)
    BY <2>4, <2>5 DEF Stands
  <2>7. \A q \in P2 : q \in P \/ ReferencesWithdrawnBy(q.x) = {}
    BY <2>4
  <2>8. P \subseteq P2
    OBVIOUS
  <2> HIDE DEF P2, own
  <2>9. Reflects(a, P2, P2, D)
    BY <1>4, <2>6, <2>7, <2>8 DEF Reflects
  <2> QED BY <1>1, <1>2, <2>1, <2>9 DEF P2, ReflectsNotes
<1>6. CASE a.dataTombs[n.data] < n.pub
  <2>1. Document(a, n) = [s.acc EXCEPT !.index = @ \cup {<<n.data, key>> : key \in s.given}]
    BY <1>3, <1>6 DEF Document
  <2>2. Len(n.alerts) \in Nat
    BY AlertsAppliedStep
  <2>3. Running(n, s)
    BY <1>6, <2>2, AlertsAppliedRun
  <2>4. own = FirstAlerts(n, Len(n.alerts))
    <3>1. DOMAIN n.alerts = 1..Len(n.alerts)
      BY CapAssumption
    <3> QED BY <3>1 DEF FirstAlerts, DocAlerts
  <2>5. Reflects(s.acc, P \cup own, P \cup own, D)
    <3> DEFINE last == Len(n.alerts)
    <3>1. last \in 0..last
      BY <2>2
    <3> HIDE DEF own, last
    <3>2. LET Q == P \cup FirstAlerts(n, last)
          IN Reflects(AlertsApplied(a, n)[last].acc, Q, Q, D)
      BY <1>1, <1>4, <1>6, <3>1, AlertsAppliedReflect DEF last
    <3> QED BY <2>4, <3>2 DEF last
  <2> HIDE DEF s, own
  <2>6. s.acc \in Accumulators
    BY <2>3 DEF Running
  <2>7. /\ Document(a, n).alerts = s.acc.alerts /\ Document(a, n).tombs = s.acc.tombs
        /\ Document(a, n).dataTombs = s.acc.dataTombs
    BY <2>1, <2>6 DEF Accumulators
  <2>8. Reflects(Document(a, n), P \cup own, P \cup own, D)
    BY <2>5, <2>7, SameReflects
  <2> QED BY <1>1, <1>2, <2>8 DEF ReflectsNotes
<1> QED BY <1>3, <1>5, <1>6

LEMMA DeleteReflects ==
  ASSUME Orderly, NEW a, Sound(a), Covered(a), NEW n \in Notes, n.deletion,
         NEW notes \in SUBSET Notes, ReflectsNotes(a, notes)
  PROVE  ReflectsNotes(Delete(a, n), notes \cup {n})
<1> DEFINE P == PairsOf(notes)
           D == DeletionsOf(notes)
           D2 == D \cup {n}
           gone == DeletedBy(n, a)
           withdrawn == {EntryMessage(e) : e \in gone}
           b == Delete(a, n)
<1>1. PairsOf(notes \cup {n}) = P /\ P \in SUBSET Published
  <2>1. DocAlerts(n) = {}
    BY CapAssumption DEF DocAlerts
  <2> QED BY <2>1, NotesPairs
<1>2. DeletionsOf(notes \cup {n}) = D2
  BY DEF DeletionsOf
<1>3. /\ a.tombs \in [Messages -> Nat] /\ a.dataTombs \in [DataIds -> Nat]
      /\ n.pub \in Nat /\ n.data \in DataIds
      /\ \A d \in D2 : d \in Notes /\ d.pub \in Nat /\ d.data \in DataIds
  BY FeedAssumption DEF Sound, Accumulators, DataIds, DeletionsOf
<1>4. /\ b.alerts = a.alerts \ gone
      /\ b.tombs = RememberAll(a.tombs, withdrawn, n.pub)
      /\ b.dataTombs = [a.dataTombs EXCEPT ![n.data] = Later(a.dataTombs[n.data], n.pub)]
  BY DeleteFields
<1>5. Reflects(a, P, P, D)
  BY DEF ReflectsNotes
<1>6. ASSUME NEW m \in Messages
      PROVE  /\ m \notin withdrawn => b.tombs[m] = a.tombs[m]
             /\ m \in withdrawn => b.tombs[m] = Later(a.tombs[m], n.pub)
  <2> HIDE DEF withdrawn, b
  <2> QED BY <1>3, <1>4 DEF RememberAll
<1>7. \A p : WithdrawnBy(P, D2, p)
               <=> WithdrawnBy(P, D, p) \/ (n.data = p.n.data /\ p.n.pub <= n.pub)
  BY DEF WithdrawnBy
<1> HIDE DEF P, D, D2, b
<1>8. ASSUME NEW e \in b.alerts
      PROVE  \E p \in Stands(P, P, D2) : e = EntryOf(p.n, p.x)
  <2>1. e \in a.alerts /\ e \notin gone
    BY <1>4
  <2>2. PICK p \in Stands(P, P, D) : e = EntryOf(p.n, p.x)
    BY <1>5, <2>1 DEF Reflects
  <2>3. p \in P /\ p \in Published
    BY <1>1, <2>2 DEF Stands
  <2>4. e.data = p.n.data /\ e.pub = p.n.pub
    BY <2>2, <2>3, PairTypes
  <2>5. ~(n.data = p.n.data /\ p.n.pub <= n.pub)
    BY <2>1, <2>4 DEF DeletedBy
  <2> QED BY <1>7, <2>2, <2>5 DEF Stands
<1>9. ASSUME NEW p \in Stands(P, P, D2)
      PROVE  \E e \in b.alerts : e.key = p.x.key /\ p.n.pub <= e.pub
  <2>1. p \in Stands(P, P, D) /\ ~(n.data = p.n.data /\ p.n.pub <= n.pub)
    BY <1>7 DEF Stands
  <2>2. p \in Published
    BY <1>1 DEF Stands
  <2>3. PICK e \in a.alerts : e.key = p.x.key /\ p.n.pub <= e.pub
    BY <1>5, <2>1 DEF Reflects
  <2>4. SUFFICES ASSUME e \in gone PROVE FALSE
    BY <1>4, <2>3
  <2>5. PICK q \in Stands(P, P, D) : e = EntryOf(q.n, q.x)
    BY <1>5 DEF Reflects
  <2>6. q \in Published
    BY <1>1 DEF Stands
  <2>7. q.x.key = p.x.key /\ p.n.pub <= q.n.pub /\ q.n.pub <= n.pub /\ q.n.data = n.data
    BY <2>3, <2>4, <2>5, <2>6, PairTypes DEF DeletedBy
  <2>8. p.n.pub <= n.pub
    <3>1. p.n.pub \in Nat /\ q.n.pub \in Nat
      BY <2>2, <2>6, PairTypes
    <3> QED BY <1>3, <2>7, <3>1
  <2>9. p.n.data = n.data
    BY <2>2, <2>6, <2>7, <2>8 DEF Orderly
  <2> QED BY <2>1, <2>8, <2>9
<1>10. ASSUME NEW q \in P, NEW m \in ReferencesWithdrawnBy(q.x)
       PROVE  q.n.pub <= b.tombs[m]
  <2>1. q \in Published /\ m \in Messages
    BY <1>1, PublishedPairs
  <2>2. q.n.pub <= a.tombs[m] /\ a.tombs[m] \in Nat /\ q.n.pub \in Nat
    BY <1>3, <1>5, <2>1, PairTypes DEF Reflects
  <2> QED BY <1>3, <1>6, <2>1, <2>2 DEF Later
<1>11. ASSUME NEW m \in Messages
       PROVE  \/ b.tombs[m] = 0
              \/ \E q \in P : m \in ReferencesWithdrawnBy(q.x) /\ b.tombs[m] <= q.n.pub
              \/ \E d \in D2, p \in Published :
                   /\ MessageKey(p.x) = m /\ p.n.data = d.data /\ p.n.pub <= d.pub
                   /\ b.tombs[m] <= d.pub
  <2>1. CASE b.tombs[m] = a.tombs[m]
    BY <1>5, <2>1 DEF Reflects, D2
  <2>2. CASE m \in withdrawn /\ b.tombs[m] = n.pub
    <3>1. PICK e \in gone : EntryMessage(e) = m
      BY <2>2
    <3>2. PICK p \in Stands(P, P, D) : e = EntryOf(p.n, p.x)
      BY <1>5, <3>1 DEF Reflects, DeletedBy
    <3>3. p \in Published
      BY <1>1, <3>2 DEF Stands
    <3>4. MessageKey(p.x) = m /\ p.n.data = n.data /\ p.n.pub <= n.pub
      BY <3>1, <3>2, <3>3, PairTypes DEF DeletedBy
    <3>5. b.tombs[m] <= n.pub /\ n \in D2
      BY <1>3, <2>2 DEF D2
    <3> QED BY <3>3, <3>4, <3>5
  <2> HIDE DEF withdrawn
  <2> QED BY <1>6, <2>1, <2>2 DEF Later
<1>12. ASSUME NEW k \in DataIds
       PROVE  /\ k # n.data => b.dataTombs[k] = a.dataTombs[k]
              /\ k = n.data => b.dataTombs[k] = Later(a.dataTombs[k], n.pub)
  BY <1>3, <1>4
<1>13. ASSUME NEW d \in D2 PROVE d.pub <= b.dataTombs[d.data]
  <2>1. d.data \in DataIds /\ d.pub \in Nat /\ a.dataTombs[d.data] \in Nat
    BY <1>3
  <2>2. CASE d = n
    BY <1>3, <1>12, <2>1, <2>2 DEF Later
  <2>3. CASE d \in D
    <3>1. d.pub <= a.dataTombs[d.data]
      BY <1>5, <2>3 DEF Reflects
    <3> QED BY <1>3, <1>12, <2>1, <3>1 DEF Later
  <2> QED BY <2>2, <2>3 DEF D2
<1>14. ASSUME NEW k \in DataIds
       PROVE  b.dataTombs[k] = 0 \/ \E d \in D2 : d.data = k /\ b.dataTombs[k] <= d.pub
  <2>1. CASE b.dataTombs[k] = a.dataTombs[k]
    BY <1>5, <2>1 DEF Reflects, D2
  <2>2. CASE k = n.data /\ b.dataTombs[k] = n.pub
    BY <1>3, <2>2 DEF D2
  <2> QED BY <1>12, <2>1, <2>2 DEF Later
<1>15. Reflects(b, P, P, D2)
  BY <1>8, <1>9, <1>10, <1>11, <1>13, <1>14 DEF Reflects
<1> QED BY <1>1, <1>2, <1>15 DEF ReflectsNotes, b

\* What reflects the notes has in force what they leave in force.
LEMMA ReflectsExpected ==
  ASSUME Orderly, Sound(acc), applied \subseteq Notes, ReflectsNotes(acc, applied)
  PROVE  acc.alerts = Expected
<1> DEFINE P == PairsOf(applied)
           D == DeletionsOf(applied)
<1>1. Reflects(acc, P, P, D) /\ P \in SUBSET Published
  BY NotesPairs DEF ReflectsNotes
<1>2. ASSUME NEW n \in applied, NEW x \in DocAlerts(n)
      PROVE  Withdrawn(n, x) <=> WithdrawnBy(P, D, [n |-> n, x |-> x])
  <2>1. n \in Notes /\ n.pub \in Nat /\ \A d \in applied : d.pub \in Nat
    BY FeedAssumption
  <2>2. (\E d \in applied : d.deletion /\ d.data = n.data /\ d.pub >= n.pub)
          <=> \E d \in D : d.data = n.data /\ n.pub <= d.pub
    BY <2>1 DEF DeletionsOf
  <2>3. (\E u \in applied : \E by \in DocAlerts(u) :
           u.pub >= n.pub /\ MessageKey(x) \in ReferencesWithdrawnBy(by))
          <=> \E q \in P : n.pub <= q.n.pub /\ MessageKey(x) \in ReferencesWithdrawnBy(q.x)
    <3> DEFINE Withdraws(u, by) ==
          n.pub <= u.pub /\ MessageKey(x) \in ReferencesWithdrawnBy(by)
    <3>1. ASSUME NEW q \in P, Withdraws(q.n, q.x)
          PROVE  \E u \in applied : \E by \in DocAlerts(u) : Withdraws(u, by)
      <4>1. q.n \in applied /\ q.x \in DocAlerts(q.n)
        BY DEF PairsOf
      <4> HIDE DEF Withdraws
      <4> QED BY <3>1, <4>1
    <3>2. ASSUME NEW u \in applied, NEW by \in DocAlerts(u), Withdraws(u, by)
          PROVE  \E q \in P : Withdraws(q.n, q.x)
      <4> DEFINE q == [n |-> u, x |-> by]
      <4>1. q \in P /\ q.n = u /\ q.x = by
        BY DEF PairsOf
      <4> HIDE DEF Withdraws, q
      <4> QED BY <3>2, <4>1
    <3>3. \A u \in applied : u.pub >= n.pub <=> n.pub <= u.pub
      BY <2>1
    <3> QED BY <3>1, <3>2, <3>3
  <2> QED BY <2>2, <2>3 DEF Withdrawn, WithdrawnBy
<1>3. Standing = {EntryOf(p.n, p.x) : p \in Stands(P, P, D)}
  <2>1. ASSUME NEW e \in Standing
        PROVE  \E p \in Stands(P, P, D) : e = EntryOf(p.n, p.x)
    <3>1. PICK n \in applied : \E x \in DocAlerts(n) :
            IsRenderable(x) /\ ~Withdrawn(n, x) /\ e = EntryOf(n, x)
      BY DEF Standing, EntryOf
    <3>2. PICK x \in DocAlerts(n) :
            IsRenderable(x) /\ ~Withdrawn(n, x) /\ e = EntryOf(n, x)
      BY <3>1
    <3> DEFINE p == [n |-> n, x |-> x]
    <3>3. p \in P /\ p.n = n /\ p.x = x
      BY DEF PairsOf
    <3>4. ~WithdrawnBy(P, D, p)
      BY <1>2, <3>2
    <3> HIDE DEF p
    <3> QED BY <3>2, <3>3, <3>4 DEF Stands
  <2>2. ASSUME NEW p \in Stands(P, P, D)
        PROVE  EntryOf(p.n, p.x) \in Standing
    <3>1. PICK n \in applied : \E x \in DocAlerts(n) : p = [n |-> n, x |-> x]
      BY DEF Stands, PairsOf
    <3>2. PICK x \in DocAlerts(n) : p = [n |-> n, x |-> x]
      BY <3>1
    <3>3. IsRenderable(x) /\ ~Withdrawn(n, x)
      BY <1>2, <3>2 DEF Stands
    <3> QED BY <3>2, <3>3 DEF Standing, EntryOf
  <2> QED BY <2>1, <2>2
<1> HIDE DEF P, D
<1>4. \A p \in Stands(P, P, D) : p \in Published
  BY <1>1 DEF Stands
<1>5. ASSUME NEW e \in acc.alerts PROVE e \in Expected
  <2>1. e \in Standing
    BY <1>1, <1>3 DEF Reflects
  <2>2. ASSUME NEW f \in Standing, f.key = e.key PROVE f.pub <= e.pub
    <3>1. PICK p \in Stands(P, P, D) : f = EntryOf(p.n, p.x)
      BY <1>3, <2>2
    <3>2. PICK g \in acc.alerts : g.key = p.x.key /\ p.n.pub <= g.pub
      BY <1>1, <3>1 DEF Reflects
    <3>3. f.key = p.x.key /\ f.pub = p.n.pub
      BY <1>4, <3>1, PairTypes
    <3>4. g = e
      BY <2>2, <3>2, <3>3 DEF Sound
    <3> QED BY <3>2, <3>3, <3>4
  <2> QED BY <2>1, <2>2 DEF Expected
<1>6. ASSUME NEW e \in Expected PROVE e \in acc.alerts
  <2>1. e \in Standing /\ \A f \in Standing : f.key = e.key => f.pub <= e.pub
    BY DEF Expected
  <2>2. PICK p \in Stands(P, P, D) : e = EntryOf(p.n, p.x)
    BY <1>3, <2>1
  <2>3. PICK g \in acc.alerts : g.key = p.x.key /\ p.n.pub <= g.pub
    BY <1>1, <2>2 DEF Reflects
  <2>4. PICK q \in Stands(P, P, D) : g = EntryOf(q.n, q.x)
    BY <1>1, <2>3 DEF Reflects
  <2>5. /\ e.key = p.x.key /\ e.pub = p.n.pub /\ g.key = q.x.key /\ g.pub = q.n.pub
        /\ p.n.pub \in Nat /\ q.n.pub \in Nat
    BY <1>4, <2>2, <2>4, PairTypes
  <2>6. g \in Standing
    BY <1>3, <2>4
  <2>7. p.x.key = q.x.key /\ p.n.pub = q.n.pub
    BY <2>1, <2>3, <2>5, <2>6
  <2>8. p.x = q.x /\ p.n.data = q.n.data
    BY <1>4, <2>7 DEF Orderly
  <2>9. e = g
    BY <2>2, <2>4, <2>7, <2>8 DEF EntryOf
  <2> QED BY <2>3, <2>9
<1> QED BY <1>5, <1>6

\* Until something is forgotten or a write fails, what is in force is what was
\* applied: in memory, and in the snapshot of an engine that has stopped.
OrderInv ==
  faults = 0 => /\ ReflectsNotes(acc, applied)
                /\ life = "stopped" => file = acc

LEMMA OrderInvInit == CapInit => OrderInv
<1> SUFFICES ASSUME CapInit PROVE OrderInv
  OBVIOUS
<1>1. acc = Empty /\ applied = {} /\ life = "up"
  BY DEF CapInit
<1>2. PairsOf(applied) = {} /\ DeletionsOf(applied) = {} /\ Stands({}, {}, {}) = {}
  BY <1>1 DEF PairsOf, DeletionsOf, Stands
<1>3. /\ acc.alerts = {} /\ \A m \in Messages : acc.tombs[m] = 0
      /\ \A k \in DataIds : acc.dataTombs[k] = 0
  BY <1>1 DEF Empty
<1>4. Reflects(acc, {}, {}, {})
  BY <1>2, <1>3 DEF Reflects
<1> QED BY <1>1, <1>2, <1>4 DEF OrderInv, ReflectsNotes

LEMMA SameOrder ==
  ASSUME OrderInv, UNCHANGED <<acc, file, applied, faults>>,
         life' = "stopped" => life = "stopped"
  PROVE  OrderInv'
BY DEF OrderInv, ReflectsNotes, Reflects, PairsOf, DeletionsOf, Stands, WithdrawnBy

LEMMA ApplyOrder ==
  ASSUME Orderly, CapInv, OrderInv, Apply
  PROVE  OrderInv'
<1>1. PICK p \in DOMAIN inHand : Land(inHand[p])
  BY DEF Apply
<1> DEFINE n == inHand[p]
<1>2. n \in Notes /\ applied \in SUBSET Notes /\ Sound(acc) /\ Covered(acc)
  BY DEF CapInv, HandOK
<1>3. file' = file /\ life' = life /\ faults' = faults
  BY DEF Apply
<1>4. CASE life # "up"
  BY <1>1, <1>3, <1>4, SameOrder DEF Land
<1>5. CASE life = "up"
  <2>1. SUFFICES ASSUME faults = 0 PROVE ReflectsNotes(acc, applied)'
    BY <1>3, <1>5 DEF OrderInv
  <2>2. /\ acc' = IF n.deletion THEN Delete(acc, n) ELSE Document(acc, n)
        /\ applied' = applied \cup {n}
    BY <1>1, <1>5, <2>1 DEF Land
  <2>3. ReflectsNotes(acc, applied)
    BY <2>1 DEF OrderInv
  <2> DEFINE a == IF n.deletion THEN Delete(acc, n) ELSE Document(acc, n)
  <2>4. ReflectsNotes(a, applied \cup {n})
    <3>1. CASE n.deletion
      <4>1. ReflectsNotes(Delete(acc, n), applied \cup {n})
        BY <1>2, <2>3, <3>1, DeleteReflects
      <4> QED BY <3>1, <4>1
    <3>2. CASE ~n.deletion
      <4>1. ReflectsNotes(Document(acc, n), applied \cup {n})
        BY <1>2, <2>3, <3>2, DocumentReflects
      <4> QED BY <3>2, <4>1
    <3> QED BY <3>1, <3>2
  <2>5. acc' = a
    BY <2>2
  <2> HIDE DEF a, n
  <2> QED BY <2>2, <2>4, <2>5
<1> QED BY <1>4, <1>5

\* What a tick drops, or a write that fails, counts as a fault.
LEMMA TickOrder ==
  ASSUME CapInv, OrderInv, Tick
  PROVE  OrderInv'
<1>1. life' = "up"
  BY DEF Tick
<1>2. CASE UNCHANGED <<acc, applied, faults>>
  BY <1>1, <1>2 DEF OrderInv, ReflectsNotes, Reflects, PairsOf, DeletionsOf, Stands, WithdrawnBy
<1>3. ASSUME NEW expired, NEW messages, NEW documents, Rebuild(expired, messages, documents)
      PROVE  UNCHANGED <<acc, applied, faults>> \/ faults' # 0
  BY <1>3, CapAssumption DEF Rebuild, CapInv
<1>4. CASE faults' # 0
  BY <1>4 DEF OrderInv
<1> QED BY <1>2, <1>3, <1>4 DEF Tick

LEMMA EndOrder ==
  ASSUME CapInv, OrderInv, Seal \/ Flush \/ TakeOver \/ Restart \/ Crash
  PROVE  OrderInv'
<1>1. CASE Seal
  BY <1>1, SameOrder DEF Seal
<1>2. ASSUME Fault PROVE OrderInv'
  <2>1. faults' # 0
    BY <1>2 DEF Fault, CapInv
  <2> QED BY <2>1 DEF OrderInv
<1>3. CASE Flush /\ ~Fault
  <2>1. acc' = acc /\ file' = acc /\ applied' = applied /\ faults' = faults
    BY <1>3 DEF Flush
  <2> QED BY <2>1 DEF OrderInv, ReflectsNotes, Reflects, PairsOf, DeletionsOf, Stands,
                      WithdrawnBy
<1>4. CASE TakeOver \/ Restart
  <2>1. /\ life = "stopped" /\ life' = "up" /\ (acc' = Restored(acc) \/ acc' = Restored(file))
        /\ applied' = applied /\ faults' = faults
    BY <1>4 DEF TakeOver, Restart, Begin
  <2>2. SUFFICES ASSUME faults = 0 PROVE ReflectsNotes(acc', applied)
    BY <2>1 DEF OrderInv, ReflectsNotes, Reflects, PairsOf, DeletionsOf, Stands, WithdrawnBy
  <2>3. ReflectsNotes(acc, applied) /\ acc' = Restored(acc)
    BY <2>1, <2>2 DEF OrderInv
  <2>4. /\ acc'.alerts = acc.alerts /\ acc'.tombs = acc.tombs
        /\ acc'.dataTombs = acc.dataTombs
    BY <2>3 DEF Restored, CapInv, Sound, Accumulators
  <2> QED BY <2>3, <2>4, SameReflects DEF ReflectsNotes
<1> QED BY <1>1, <1>2, <1>3, <1>4 DEF Flush, Crash

LEMMA OrderInvNext ==
  ASSUME Orderly
  PROVE  CapInv /\ OrderInv /\ [CapNext]_capVars => OrderInv'
<1> SUFFICES ASSUME CapInv, OrderInv, [CapNext]_capVars PROVE OrderInv'
  OBVIOUS
<1>1. CASE UNCHANGED engine
  BY <1>1, SameOrder DEF engine
<1>2. ASSUME NEW i, Receive(i) PROVE OrderInv'
  BY <1>2, SameOrder DEF Receive
<1>3. ASSUME NEW i, FailDownload(i) PROVE UNCHANGED engine
  BY <1>3 DEF FailDownload
<1> QED BY <1>1, <1>2, <1>3, ApplyOrder, TickOrder, EndOrder DEF CapNext, capVars

\* For producers that keep to Orderly: whatever the order in which downloads
\* end, and through copies, late deletions, restarts and take-overs, the
\* alerts in force are those the notifications applied leave in force, until
\* something is forgotten or a write fails.
THEOREM OrderDoesNotMatter ==
  ASSUME Orderly
  PROVE  CapSpec => []OrderIndependent
<1>1. CapInit => CapInv /\ OrderInv
  BY CapInvInit, OrderInvInit
<1>2. (CapInv /\ OrderInv) /\ [CapNext]_capVars => (CapInv /\ OrderInv)'
  BY CapInvNext, OrderInvNext DEF CapKept
<1>3. CapInv /\ OrderInv => OrderIndependent
  <2> SUFFICES ASSUME CapInv, OrderInv, faults = 0 PROVE acc.alerts = Expected
    BY DEF OrderIndependent
  <2> QED BY ReflectsExpected DEF CapInv, OrderInv
<1> QED BY <1>1, <1>2, <1>3, PTL DEF CapSpec
=============================================================================
