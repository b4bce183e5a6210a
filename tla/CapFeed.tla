------------------------------- MODULE CapFeed ------------------------------
(***************************************************************************)
(* A CAP collection fed by WIS2 (crate engine-cap): the accumulator of     *)
(* alerts in force (wis2.rs), the poll loop that applies notifications and *)
(* evicts at its ticks, and the engine's end: shutdown, flush, take-over   *)
(* by the engine that replaces it, or a restart from the state snapshot    *)
(* (engine.rs).  The notifications come from module Wis2Feed in any order. *)
(*                                                                         *)
(* An alert is [key, sent, kind, refs]: key stands for (sender,            *)
(* identifier), <<key, sent>> for the full message identity that           *)
(* references name.  A notification carries the alerts of its document, or *)
(* deletes the document.  Hints, status filters and content are left out.  *)
(*                                                                         *)
(* Operators whose names end in Slip are used nowhere: each is a plausible *)
(* mistake in the definition after it.                                     *)
(***************************************************************************)
EXTENDS Wis2Feed

CONSTANTS
  MaxAlerts,    \* max_alerts
  MaxFaults     \* bound: crashes, evictions, forgotten tombstones, bad writes

DocAlerts(n) == {n.alerts[p] : p \in DOMAIN n.alerts}
AllAlerts == UNION {DocAlerts(n) : n \in Notes}
MessageKey(alert) == <<alert.key, alert.sent>>
Messages == {MessageKey(x) : x \in AllAlerts} \cup UNION {x.refs : x \in AllAlerts}
DataIds == {n.data : n \in Notes}

ASSUME CapAssumption ==
  /\ MaxAlerts \in Nat /\ MaxFaults \in Nat \ {0}
  /\ \A n \in Notes : n.alerts \in Seq(DocAlerts(n))
  /\ \A n \in Notes : n.deletion => n.alerts = <<>>

VARIABLES
  acc,        \* the accumulator
  file,       \* the state snapshot on disk
  inHand,     \* the notification the poll loop applies: none or one
  life,       \* "up", "sealed", then "stopped"
  flushed,    \* the flush at shutdown succeeded
  applied,    \* history: what was applied, until something is forgotten
  faults      \* history: how often it forgot or failed, up to MaxFaults

engine == <<acc, file, inHand, life, flushed, applied, faults>>
capVars == <<feed, engine>>

Empty ==
  [alerts |-> {}, index |-> {},
   tombs |-> [m \in Messages |-> 0],
   dataTombs |-> [d \in DataIds |-> 0]]

CapInit ==
  /\ FeedInit
  /\ acc = Empty /\ file = Empty
  /\ inHand = <<>> /\ life = "up" /\ flushed = FALSE
  /\ applied = {} /\ faults = 0

-----------------------------------------------------------------------------
(* The accumulator.  A tombstone is the pubtime up to which its message or *)
(* document is withdrawn, 0 when there is none.                            *)

Held(a, key) == {e \in a.alerts : e.key = key}
EntryMessage(e) == <<e.key, e.sent>>
IndexOf(entries) == {<<e.data, e.key>> : e \in entries}

Later(x, y) == IF x >= y THEN x ELSE y

RememberAll(tombs, messages, pub) ==
  [m \in DOMAIN tombs |-> IF m \in messages THEN Later(tombs[m], pub) ELSE tombs[m]]

RemoveAlerts(a, entries) ==
  [a EXCEPT !.alerts = @ \ entries, !.index = @ \ IndexOf(entries)]

IsRenderable(alert) == alert.kind \in {"Alert", "Update"}

ReferencesWithdrawnBy(alert) ==
  IF alert.kind \in {"Update", "Cancel"}
    THEN alert.refs \ {MessageKey(alert)}
    ELSE {}

Published == UNION {{[n |-> n, x |-> x] : x \in DocAlerts(n)} : n \in Notes}

\* What the producers must keep to for the outcome not to depend on the order
\* of arrival.  A message that withdraws others is published once and never
\* withdrawn itself: its references would be skipped if it came second.
\* Revisions of a key have pubtimes of their own, and what withdraws one
\* withdraws the earlier ones with it.
Orderly ==
  /\ \A p, q \in Published : p.x.key = q.x.key =>
       /\ p.n.pub = q.n.pub => p.x = q.x /\ p.n.data = q.n.data
       /\ ReferencesWithdrawnBy(p.x) # {} => p.n.pub = q.n.pub
  /\ \A p, q, r \in Published : MessageKey(p.x) \in ReferencesWithdrawnBy(q.x) =>
       /\ ReferencesWithdrawnBy(p.x) = {}
       /\ r.x.key = p.x.key /\ r.n.pub < p.n.pub /\ p.n.pub <= q.n.pub
            => MessageKey(r.x) \in ReferencesWithdrawnBy(q.x)
  /\ \A d \in Notes, p, r \in Published : d.deletion /\ d.data = p.n.data =>
       /\ ReferencesWithdrawnBy(p.x) = {}
       /\ r.x.key = p.x.key /\ r.n.pub <= d.pub /\ p.n.pub <= d.pub => r.n.data = d.data

\* No document withdraws an alert of its own.
KeepsOwnAlerts ==
  \A n \in Notes : \A x, y \in DocAlerts(n) :
    MessageKey(x) \notin ReferencesWithdrawnBy(y)

\* Breaks OrderIndependent: only what is held is withdrawn, so an alert that
\* arrives after its cancellation stays.
WithdrawSlip(a, messages, pub) ==
  LET gone == {e \in a.alerts : EntryMessage(e) \in messages /\ e.pub <= pub}
  IN [RemoveAlerts(a, gone) EXCEPT
       !.tombs = RememberAll(@, {EntryMessage(e) : e \in gone}, pub)]

Withdraw(a, messages, pub) ==
  LET gone == {e \in a.alerts : EntryMessage(e) \in messages /\ e.pub <= pub}
  IN [RemoveAlerts(a, gone) EXCEPT !.tombs = RememberAll(@, messages, pub)]

\* Breaks IndexExact: the entry a revision replaces stays indexed.
ReplaceSlip(a, alert, n) ==
  [a EXCEPT !.alerts = (@ \ Held(a, alert.key)) \cup
     {[key |-> alert.key, sent |-> alert.sent, pub |-> n.pub, data |-> n.data]}]

\* Breaks CapTypeOK: a revision is added beside what it revises.
ReplaceBesideSlip(a, alert, n) ==
  [a EXCEPT !.alerts = @ \cup
     {[key |-> alert.key, sent |-> alert.sent, pub |-> n.pub, data |-> n.data]}]

\* The current content of a key: in place of what is held, if anything.
Replace(a, alert, n) ==
  LET old == Held(a, alert.key)
  IN [a EXCEPT
       !.alerts = (@ \ old) \cup
         {[key |-> alert.key, sent |-> alert.sent, pub |-> n.pub, data |-> n.data]},
       !.index = @ \ IndexOf({e \in old : e.data # n.data})]

\* One alert of a document: the accumulator after it, and the keys of which
\* the document now holds the content.
ApplyAlert(n, alert, s) ==
  LET key == alert.key
      stale(a) == \E e \in Held(a, key) : e.pub > n.pub
      a == IF stale(s.acc) THEN s.acc
           ELSE Withdraw(s.acc, ReferencesWithdrawnBy(alert), n.pub)
  IN CASE s.acc.tombs[MessageKey(alert)] >= n.pub -> s
       [] s.acc.tombs[MessageKey(alert)] < n.pub
          /\ (~IsRenderable(alert) \/ stale(a)) -> [s EXCEPT !.acc = a]
       [] OTHER -> [acc |-> Replace(a, alert, n), given |-> s.given \cup {key}]

\* A document's alerts are applied in order: what is there after the first k.
AlertsApplied(a, n) ==
  LET s[k \in 0..Len(n.alerts)] ==
        IF k = 0 THEN [acc |-> a, given |-> {}]
        ELSE ApplyAlert(n, n.alerts[k], s[k - 1])
  IN s

\* Breaks WithdrawnStaysOut: the document of a deletion that overtook it is
\* applied.
DocumentSlip(a, n) ==
  LET s == AlertsApplied(a, n)[Len(n.alerts)]
  IN [s.acc EXCEPT !.index = @ \cup {<<n.data, key>> : key \in s.given}]

Document(a, n) ==
  LET s == AlertsApplied(a, n)[Len(n.alerts)]
  IN IF a.dataTombs[n.data] >= n.pub THEN a
     ELSE [s.acc EXCEPT !.index = @ \cup {<<n.data, key>> : key \in s.given}]

\* rel=deletion: withdraws what the document's data_id holds by now.
Delete(a, n) ==
  LET gone == {e \in a.alerts : /\ <<n.data, e.key>> \in a.index
                                /\ e.data = n.data /\ e.pub <= n.pub}
  IN [RemoveAlerts(a, gone) EXCEPT
       !.dataTombs[n.data] = Later(@, n.pub),
       !.tombs = RememberAll(@, {EntryMessage(e) : e \in gone}, n.pub)]

\* Entries past their validity, tombstones past their retention.
Forget(a, gone, messages, documents) ==
  [RemoveAlerts(a, gone) EXCEPT
    !.tombs = [m \in Messages |-> IF m \in messages THEN 0 ELSE @[m]],
    !.dataTombs = [d \in DataIds |-> IF d \in documents THEN 0 ELSE @[d]]]

\* A snapshot under the current configuration; the index is rebuilt.
Restored(a) == [a EXCEPT !.index = IndexOf(a.alerts)]

-----------------------------------------------------------------------------
(* The poll loop (wis2_loop).                                              *)

\* A download fails: its notification is dropped, and stays remembered.
FailDownload(i) ==
  /\ Resolve(i) /\ ~accepted[i].deletion
  /\ UNCHANGED engine

\* The loop takes the next notification, in the order the downloads end.
Receive(i) ==
  /\ life = "up" /\ inHand = <<>>
  /\ Resolve(i) /\ inHand' = <<accepted[i]>>
  /\ UNCHANGED <<acc, file, life, flushed, applied, faults>>

\* Breaks FlushComplete: a notification is applied after the flush.
LandSlip(n) ==
  /\ acc' = IF n.deletion THEN Delete(acc, n) ELSE Document(acc, n)
  /\ applied' = IF faults = 0 THEN applied \cup {n} ELSE {}

Land(n) ==
  IF life # "up" THEN UNCHANGED <<acc, applied>>
  ELSE /\ acc' = IF n.deletion THEN Delete(acc, n) ELSE Document(acc, n)
       /\ applied' = IF faults = 0 THEN applied \cup {n} ELSE {}

Apply ==
  /\ \E p \in DOMAIN inHand : Land(inHand[p])
  /\ inHand' = <<>>
  /\ UNCHANGED <<feed, file, life, flushed, faults>>

Fault ==
  /\ faults < MaxFaults /\ faults' = faults + 1
  /\ applied' = {}

\* What lies over max_alerts: the lowest in rank, which any may be.
Capped(entries) ==
  {capped \in SUBSET entries :
     Cardinality(capped) = Later(Cardinality(entries) - MaxAlerts, 0)}

\* The rebuild at a tick: what is past its validity, over the cap or past its
\* retention leaves.
Rebuild(expired, messages, documents) ==
  /\ expired # {} \/ messages # {} \/ documents # {} => faults < MaxFaults
  /\ \E capped \in Capped(acc.alerts \ expired) :
       acc' = Forget(acc, expired \cup capped, messages, documents)
  /\ IF acc' = acc THEN UNCHANGED <<applied, faults>>
     ELSE applied' = {} /\ faults' = IF faults = MaxFaults THEN faults ELSE faults + 1

\* One step: the write shares a lock with the flush at shutdown, and what a
\* rebuild drops does not depend on the seal.  The write may not be due, or
\* fail.
Tick ==
  /\ life = "up" /\ inHand = <<>>
  /\ \/ \E expired \in SUBSET acc.alerts,
            messages \in {{}} \cup {{m} : m \in Messages},
            documents \in {{}} \cup {{d} : d \in DataIds} :
           Rebuild(expired, messages, documents)
     \/ UNCHANGED <<acc, applied, faults>>
  /\ file' \in {file, acc'}
  /\ UNCHANGED <<feed, inHand, life, flushed>>

-----------------------------------------------------------------------------
(* The end of an engine (shutdown) and what follows it.                    *)

\* The loop takes no more, and under the accumulator's lock, which every
\* apply holds while it checks, the source is sealed.  Something in hand that
\* lands in between could as well have landed before.
Seal ==
  /\ life = "up" /\ life' = "sealed"
  /\ UNCHANGED <<feed, acc, file, inHand, flushed, applied, faults>>

Flush ==
  /\ life = "sealed" /\ life' = "stopped"
  /\ \/ file' = acc /\ flushed' = TRUE /\ UNCHANGED <<applied, faults>>
     \/ Fault /\ flushed' = FALSE /\ UNCHANGED file
  /\ UNCHANGED <<feed, acc, inHand>>

\* An engine that begins with alerts, and with a pipeline of its own.
Begin(a) ==
  /\ acc' = Restored(a)
  /\ inHand' = <<>> /\ life' = "up" /\ flushed' = FALSE
  /\ ids' = {} /\ idExpiry' = <<>> /\ newest' = <<>> /\ expiry' = <<>>
  /\ seq' = 0 /\ heard' = <<>> /\ accepted' = <<>>

\* A reload: the replacing engine takes everything over in memory.
TakeOver ==
  /\ life = "stopped" /\ Begin(acc)
  /\ UNCHANGED <<file, applied, faults>>

\* A restart after a shutdown: from the snapshot.
Restart ==
  /\ life = "stopped" /\ Begin(file)
  /\ UNCHANGED <<file, applied, faults>>

Crash ==
  /\ Fault /\ Begin(file)
  /\ UNCHANGED file

CapNext ==
  \/ \E n \in Notes : Publish(n) /\ UNCHANGED engine
  \/ \E i \in 1..Concurrency : FailDownload(i) \/ Receive(i)
  \/ Respawn /\ UNCHANGED engine
  \/ Apply
  \/ Tick
  \/ Seal
  \/ Flush
  \/ TakeOver
  \/ Restart
  \/ Crash

CapSpec == CapInit /\ [][CapNext]_capVars

-----------------------------------------------------------------------------
(* Properties.                                                             *)

Entries == [key : {x.key : x \in AllAlerts}, sent : {x.sent : x \in AllAlerts},
            pub : {n.pub : n \in Notes}, data : DataIds]

\* The type invariant: one entry per key.
CapTypeOK ==
  /\ acc.alerts \subseteq Entries /\ file.alerts \subseteq Entries
  /\ \A e, f \in acc.alerts : e.key = f.key => e = f
  /\ acc.tombs \in [Messages -> Nat] /\ acc.dataTombs \in [DataIds -> Nat]
  /\ \A p \in DOMAIN inHand : p = 1 /\ inHand[p] \in Notes
  /\ life \in {"up", "sealed", "stopped"} /\ flushed \in BOOLEAN
  /\ applied \subseteq Notes /\ faults \in 0..MaxFaults

\* The index names exactly the alerts held, each under the document whose
\* content it has (the Invariant in the doc of data_id_index): through
\* revisions, references, deletions, evictions and restores, as long as no
\* document withdraws an alert of its own.
IndexExact == acc.index = IndexOf(acc.alerts)

\* What a cancellation, an update or a deletion withdrew is not in force
\* again through a late copy or a restored snapshot, for as long as the
\* withdrawal is remembered; only a re-issue published later is.
WithdrawnStaysOut ==
  \A e \in acc.alerts :
    /\ acc.tombs[EntryMessage(e)] < e.pub
    /\ acc.dataTombs[e.data] < e.pub

\* What the documents and deletions applied so far leave in force, whatever
\* their order: what nothing withdrew as of its publication, in its latest
\* revision.
Withdrawn(n, alert) ==
  \/ \E d \in applied : d.deletion /\ d.data = n.data /\ d.pub >= n.pub
  \/ \E u \in applied : \E by \in DocAlerts(u) :
       u.pub >= n.pub /\ MessageKey(alert) \in ReferencesWithdrawnBy(by)

Standing ==
  UNION {{[key |-> x.key, sent |-> x.sent, pub |-> n.pub, data |-> n.data] :
            x \in {y \in DocAlerts(n) : IsRenderable(y) /\ ~Withdrawn(n, y)}} :
           n \in applied}

Expected == {e \in Standing : \A f \in Standing : f.key = e.key => f.pub <= e.pub}

\* The alerts in force depend on what was applied, not on the order the
\* downloads ended in, nor on copies, restarts and take-overs: until
\* something is forgotten or a write fails, and for producers that keep to
\* Orderly.
OrderIndependent == faults = 0 => acc.alerts = Expected

\* A flush that succeeded has everything the engine ever applied, although
\* its loop may still be at work: nothing lands after the seal, neither in
\* the snapshot's absence nor in what a replacing engine takes over.
FlushComplete == life = "stopped" /\ flushed => acc = file
=============================================================================
