------------------------------ MODULE Wis2Feed ------------------------------
(***************************************************************************)
(* The WIS2 subscription an engine consumes (crate ds-wis2): duplicate     *)
(* suppression (dedup.rs) in front of a resolver that downloads several    *)
(* notifications at a time and hands each on as it finishes (pipeline.rs). *)
(*                                                                         *)
(* The brokers lose, repeat and reorder: any notification may be delivered *)
(* at any time and any number of times.  A notification is recorded when   *)
(* it is accepted, before its download.                                    *)
(***************************************************************************)
EXTENDS Integers, Sequences, FiniteSets, Functions, SequencesExt

CONSTANTS
  Notes,          \* the notifications: at least id, data, pub
  MaxEntries,     \* MAX_ENTRIES
  Concurrency,    \* CONCURRENCY: downloads in flight
  MaxAccepted     \* bound: notifications accepted by one Dedup

ASSUME FeedAssumption ==
  /\ \A n \in Notes : n.pub \in Nat \ {0}
  /\ MaxEntries \in Nat \ {0}
  /\ Concurrency \in Nat \ {0}
  /\ MaxAccepted \in Nat

VARIABLES
  ids,         \* the message ids remembered
  idExpiry,    \* their expiry records: sequence number -> id
  newest,      \* data_id -> newest pubtime, number of its current record
  expiry,      \* the expiry records of the data_ids: number -> data_id
  seq,         \* the last number given
  heard,       \* history: the pubtime of each data record still there
  accepted     \* downloading or waiting to, in order of arrival

dedup == <<ids, idExpiry, newest, expiry, seq, heard>>
feed == <<dedup, accepted>>

FreshDedup ==
  /\ ids = {} /\ idExpiry = <<>>
  /\ newest = <<>> /\ expiry = <<>>
  /\ seq = 0 /\ heard = <<>>

FeedInit == FreshDedup /\ accepted = <<>>

-----------------------------------------------------------------------------
(* The four collections while one notification is accepted, as a record.   *)

Collections ==
  [ids |-> ids, idExpiry |-> idExpiry, newest |-> newest, expiry |-> expiry]

Past(records, cut) == {s \in DOMAIN records : s > cut}

\* Breaks CopiesRefused: an expired record takes its data_id along, whatever
\* the number of the current one.
RemoveIfCurrentSlip(entries, popped) ==
  Restrict(entries, {d \in DOMAIN entries : \A p \in popped : p[2] # d})

RemoveIfCurrent(entries, popped) ==
  Restrict(entries, {d \in DOMAIN entries : <<entries[d].seq, d>> \notin popped})

PopData(c, cut) ==
  LET live == Past(c.expiry, cut)
      popped == {<<s, c.expiry[s]>> : s \in DOMAIN c.expiry \ live}
  IN [ids |-> c.ids, idExpiry |-> c.idExpiry,
      newest |-> RemoveIfCurrent(c.newest, popped),
      expiry |-> Restrict(c.expiry, live)]

PopIds(c, cut) ==
  LET live == Past(c.idExpiry, cut)
  IN [ids |-> c.ids \ {c.idExpiry[s] : s \in DOMAIN c.idExpiry \ live},
      idExpiry |-> Restrict(c.idExpiry, live),
      newest |-> c.newest, expiry |-> c.expiry]

\* Records leave in the order they were made: those older than the window.
Prune(c, cut) == PopIds(PopData(c, cut), cut)

Verdict(c, n) ==
  IF n.id \in c.ids THEN "DuplicateId"
  ELSE IF n.data \in DOMAIN c.newest /\ c.newest[n.data].pub >= n.pub
         THEN "DuplicateData"
         ELSE "Accept"

Insert(f, k, v) == [x \in DOMAIN f \cup {k} |-> IF x = k THEN v ELSE f[x]]

Record(c, n, number) ==
  [ids |-> c.ids \cup {n.id},
   idExpiry |-> Insert(c.idExpiry, number, n.id),
   newest |-> Insert(c.newest, n.data, [pub |-> n.pub, seq |-> number]),
   expiry |-> Insert(c.expiry, number, n.data)]

\* At the cap the oldest records go, no more of them than it takes.
CapData(c, cut) ==
  /\ Cardinality(DOMAIN PopData(c, cut).newest) <= MaxEntries
  /\ cut > 0 => Cardinality(DOMAIN PopData(c, cut - 1).newest) > MaxEntries

CapIds(c, cut) ==
  /\ Cardinality(PopIds(c, cut).ids) <= MaxEntries
  /\ cut > 0 => Cardinality(PopIds(c, cut - 1).ids) > MaxEntries

Keep(c) ==
  /\ ids' = c.ids /\ idExpiry' = c.idExpiry
  /\ newest' = c.newest /\ expiry' = c.expiry

-----------------------------------------------------------------------------
(* Subscriber and resolver.                                                *)

Accept(n) ==
  \E cut \in 0..seq :
    LET c == Prune(Collections, cut)
    IN /\ Verdict(c, n) = "Accept"
       /\ seq < MaxAccepted
       /\ \E dataCut, idCut \in 0..seq :
            LET d == Record(c, n, seq + 1)
            IN /\ CapData(d, dataCut) /\ CapIds(d, idCut)
               /\ Keep(PopIds(PopData(d, dataCut), idCut))
       /\ seq' = seq + 1
       /\ heard' = Restrict(Insert(heard, seq + 1, n.pub), DOMAIN expiry')
       /\ accepted' = Append(accepted, n)

Refuse(n) ==
  \E cut \in 0..seq :
    LET c == Prune(Collections, cut)
    IN /\ Verdict(c, n) # "Accept"
       /\ Keep(c)
       /\ heard' = Restrict(heard, DOMAIN expiry')
       /\ UNCHANGED <<seq, accepted>>

\* One delivery by the broker.
Publish(n) == Accept(n) \/ Refuse(n)

\* A download in flight ends, in whatever order.
Resolve(i) ==
  /\ i \in DOMAIN accepted /\ i <= Concurrency
  /\ accepted' = RemoveAt(accepted, i)
  /\ UNCHANGED dedup

\* The subscription ended, what it had accepted is through: the engine
\* starts another, which remembers nothing.
Respawn ==
  /\ accepted = <<>> /\ accepted' = <<>>
  /\ ids' = {} /\ idExpiry' = <<>>
  /\ newest' = <<>> /\ expiry' = <<>>
  /\ seq' = 0 /\ heard' = <<>>

FeedNext ==
  \/ \E n \in Notes : Publish(n)
  \/ \E i \in 1..Concurrency : Resolve(i)
  \/ Respawn

FeedSpec == FeedInit /\ [][FeedNext]_feed

-----------------------------------------------------------------------------
(* Properties.                                                             *)

\* While the record of an accepted notification has neither aged out of the
\* window nor been pushed out by the cap, every copy and every older revision
\* of its data is refused: the current record of a data_id, made by a later
\* revision, outlives the removal of its stale ones (Dedup, remove_if_current
\* and the doc of expiry).
CopiesRefused ==
  \A s \in DOMAIN expiry :
    /\ expiry[s] \in DOMAIN newest
    /\ newest[expiry[s]].pub >= heard[s]
=============================================================================
