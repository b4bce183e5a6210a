--------------------------- MODULE BufrFeedProofs ---------------------------
(***************************************************************************)
(* For any data_ids, rows, engines and cap, whatever order the loops, the  *)
(* reloads, the stops and the crashes come in: the two halves of the       *)
(* deletion index agree (IndexAgrees), no reload and no written flush      *)
(* loses a report or brings one back (NothingLost), and a deletion finds   *)
(* the rows of its data_id and no other's (OwnedByProducer).               *)
(***************************************************************************)
EXTENDS BufrFeed, SequenceTheorems, TLAPS

Down == {"shut", "flushed", "installed", "taken"}

(* Which engines there are in each phase. *)
LifeInv ==
  /\ phase = "off" => live = None /\ next = None
  /\ phase # "off" => live \in Engines
  /\ phase = "run" => next = None
  /\ phase \in {"built", "flushed", "installed", "taken"} => next \in Engines
  /\ next # None => next # live /\ loop[next] = "none" /\ ~shut[next]

(* What a loop holds between the two halves of a branch. *)
LoopInv ==
  \A e \in Engines :
    /\ loop[e] \in {"ingested", "forgot"} \/ keys[e] = {}
    /\ loop[e] = "ingested" => job[e] \in Ids

(* A loop that runs on after its engine was shut down finds the flag set, and,
   once the flush is over, the last attempt recent. *)
RetiredInv ==
  \A e \in Engines :
    /\ e = live => (shut[e] <=> phase \in Down)
    /\ e # live /\ loop[e] # "none" => shut[e]
    /\ loop[e] = "woken" /\ (e # live \/ phase \in {"flushed", "installed", "taken"})
         => attempted[e]

(* The report the registered engine's loop has stored and not yet recorded. *)
FlightInv ==
  \A e \in Engines :
    e = live /\ loop[e] = "ingested" =>
      \A r \in keys[e] : held[r] \in {job[e], None}

IInv ==
  /\ TypeOK /\ LifeInv /\ LoopInv /\ RetiredInv
  /\ IndexAgrees /\ NothingLost /\ FlightInv /\ OwnedByProducer

-----------------------------------------------------------------------------
(* The index of one engine. *)

Halves(o, l) ==
  /\ o \in Content /\ l \in [Ids -> SUBSET Rows]
  /\ \A r \in Rows, d \in Ids : o[r] = d <=> r \in l[d]

Agrees(o, l, k, q) ==
  /\ Halves(o, l)
  /\ \A d \in Ids : d \in k => \E i \in 1..Len(q) : q[i] = d
  /\ Len(q) <= MaxRemembered

IndexTyped(k, q) == k \in SUBSET Ids /\ q \in Seq(Ids)

(* Taking rows over for a data_id keeps the halves in agreement. *)
LEMMA OwnedAgrees ==
  ASSUME NEW o, NEW l, NEW d \in Ids, NEW ks \in SUBSET Rows, Halves(o, l)
  PROVE  Halves(Owned(o, d, ks), Listed(o, l, d, ks))
<1>1. Owned(o, d, ks) \in Content
  BY DEF Owned, Content, Halves
<1>2. Listed(o, l, d, ks) \in [Ids -> SUBSET Rows]
  BY DEF Listed, Halves
<1>3. ASSUME NEW r \in Rows, NEW i \in Ids
      PROVE  Owned(o, d, ks)[r] = i <=> r \in Listed(o, l, d, ks)[i]
  <2>1. Owned(o, d, ks)[r] = IF r \in ks THEN d ELSE o[r]
    BY DEF Owned
  <2>2. Listed(o, l, d, ks)[i] = IF i = d THEN l[i] \cup ks ELSE l[i] \ {x \in ks : o[x] = i}
    BY DEF Listed
  <2> QED BY <2>1, <2>2 DEF Halves
<1> QED BY <1>1, <1>2, <1>3 DEF Halves

(* So does forgetting a data_id. *)
LEMMA ForgetAgrees ==
  ASSUME NEW o, NEW l, NEW d \in Ids, Halves(o, l)
  PROVE  Halves(Disowned(o, l, d), Unlisted(l, d))
<1>1. Disowned(o, l, d) \in Content
  BY DEF Disowned, Without, Content, Halves
<1>2. Unlisted(l, d) \in [Ids -> SUBSET Rows]
  BY DEF Unlisted, Halves
<1>3. ASSUME NEW r \in Rows, NEW i \in Ids
      PROVE  Disowned(o, l, d)[r] = i <=> r \in Unlisted(l, d)[i]
  <2>1. Disowned(o, l, d)[r] = IF r \in l[d] /\ o[r] = d THEN None ELSE o[r]
    BY DEF Disowned, Without
  <2>2. Unlisted(l, d)[i] = IF i = d THEN {} ELSE l[i]
    BY DEF Unlisted, Halves
  <2>3. None \notin Ids
    BY FeedAssumption DEF FeedAssumption
  <2> QED BY <2>1, <2>2, <2>3 DEF Halves
<1> QED BY <1>1, <1>2, <1>3 DEF Halves

(* What record leaves of the index of its engine. *)
LEMMA RecordAgrees ==
  ASSUME NEW e \in Engines, NEW d \in Ids, NEW ks \in SUBSET Rows,
         TypeOK, IndexAgrees, Record(e, d, ks)
  PROVE  /\ IndexTyped(known'[e], order'[e])
         /\ Agrees(owner'[e], listed'[e], known'[e], order'[e])
<1> DEFINE o == Owned(owner[e], d, ks)
           l == Listed(owner[e], listed[e], d, ks)
           q == Queued(e, d)
<1>1. /\ owner[e] \in Content /\ listed[e] \in [Ids -> SUBSET Rows]
      /\ known[e] \in SUBSET Ids /\ order[e] \in Seq(Ids)
      /\ owner \in [Engines -> Content] /\ listed \in [Engines -> [Ids -> SUBSET Rows]]
      /\ known \in [Engines -> SUBSET Ids] /\ order \in [Engines -> Seq(Ids)]
  BY DEF TypeOK
<1>2. /\ Halves(owner[e], listed[e])
      /\ \A i \in Ids : i \in known[e] => \E j \in 1..Len(order[e]) : order[e][j] = i
      /\ Len(order[e]) <= MaxRemembered
  BY <1>1 DEF IndexAgrees, Halves
<1>3. Halves(o, l)
  BY <1>2, OwnedAgrees
<1>q. q = IF d \in known[e] THEN order[e] ELSE Append(order[e], d)
  BY DEF Queued
<1> HIDE DEF o, l, q
<1>4. /\ q \in Seq(Ids) /\ q # <<>>
      /\ \A i \in known[e] \cup {d} : \E j \in 1..Len(q) : q[j] = i
      /\ Len(q) <= MaxRemembered + 1
  <2>1. CASE d \in known[e]
    <3>1. q = order[e] /\ q \in Seq(Ids)
      BY <1>1, <1>q, <2>1
    <3>2. \A i \in known[e] \cup {d} : \E j \in 1..Len(q) : q[j] = i
      BY <1>1, <1>2, <2>1, <3>1
    <3>3. q # <<>>
      <4>1. PICK j \in 1..Len(q) : q[j] = d
        BY <2>1, <3>2
      <4>2. Len(q) # 0
        BY <3>1, <4>1
      <4> QED BY <3>1, <4>2, EmptySeq
    <3>4. Len(q) <= MaxRemembered + 1
      BY <1>2, <3>1, FeedAssumption DEF FeedAssumption
    <3> QED BY <3>1, <3>2, <3>3, <3>4
  <2>2. CASE d \notin known[e]
    <3>1. q = Append(order[e], d)
      BY <1>q, <2>2
    <3>2. /\ q \in Seq(Ids) /\ q # <<>> /\ Len(q) = Len(order[e]) + 1
          /\ \A j \in 1..Len(order[e]) : q[j] = order[e][j]
          /\ q[Len(order[e]) + 1] = d
      <4>1. order[e] \in Seq(Ids)
        BY <1>1
      <4> DEFINE s == order[e]
      <4>2. s \in Seq(Ids)
        BY <4>1
      <4> HIDE DEF s
      <4>3. /\ Append(s, d) \in Seq(Ids) /\ Append(s, d) # <<>>
            /\ Len(Append(s, d)) = Len(s) + 1
            /\ \A j \in 1..Len(s) : Append(s, d)[j] = s[j]
            /\ Append(s, d)[Len(s) + 1] = d
        BY <4>2, AppendProperties
      <4> QED BY <3>1, <4>3 DEF s
    <3>3. Len(order[e]) \in Nat /\ MaxRemembered \in Nat
      BY <1>1, FeedAssumption DEF FeedAssumption
    <3>4. ASSUME NEW i \in known[e] \cup {d} PROVE \E j \in 1..Len(q) : q[j] = i
      <4>1. CASE i = d
        BY <3>2, <3>3, <4>1
      <4>2. CASE i \in known[e]
        <5>1. PICK j \in 1..Len(order[e]) : order[e][j] = i
          BY <1>1, <1>2, <4>2
        <5> QED BY <3>2, <3>3, <5>1
      <4> QED BY <4>1, <4>2
    <3> QED BY <1>2, <3>2, <3>3, <3>4
  <2> QED BY <2>1, <2>2
<1>5. CASE Overflows(e, d)
  <2>1. /\ owner'[e] = Disowned(o, l, Head(q)) /\ listed'[e] = Unlisted(l, Head(q))
        /\ known'[e] = (known[e] \cup {d}) \ {Head(q)} /\ order'[e] = Tail(q)
    BY <1>1, <1>5 DEF Record, o, l, q
  <2>2. /\ Head(q) \in Ids /\ Tail(q) \in Seq(Ids) /\ Len(Tail(q)) = Len(q) - 1
        /\ \A i \in 1..Len(Tail(q)) : Tail(q)[i] = q[i + 1]
    BY <1>4, HeadTailProperties
  <2>3. Len(q) \in Nat /\ MaxRemembered \in Nat /\ q[1] = Head(q)
    BY <1>4, FeedAssumption DEF FeedAssumption
  <2>4. ASSUME NEW i \in Ids, i \in (known[e] \cup {d}) \ {Head(q)}
        PROVE  \E j \in 1..Len(Tail(q)) : Tail(q)[j] = i
    <3>1. PICK j \in 1..Len(q) : q[j] = i
      BY <1>4, <2>4
    <3>2. j # 1 /\ j - 1 \in 1..Len(Tail(q))
      BY <2>2, <2>3, <2>4, <3>1
    <3>3. Tail(q)[j - 1] = i
      <4>1. Tail(q)[j - 1] = q[(j - 1) + 1] /\ (j - 1) + 1 = j
        BY <2>2, <3>2
      <4> QED BY <3>1, <4>1
    <3> QED BY <3>2, <3>3
  <2>5. Halves(Disowned(o, l, Head(q)), Unlisted(l, Head(q)))
    BY <1>3, <2>2, ForgetAgrees
  <2>6. Len(Tail(q)) <= MaxRemembered
    BY <1>4, <2>2, <2>3
  <2> QED BY <1>1, <2>1, <2>2, <2>4, <2>5, <2>6 DEF IndexTyped, Agrees
<1>6. CASE ~Overflows(e, d)
  <2>1. /\ owner'[e] = o /\ listed'[e] = l
        /\ known'[e] = known[e] \cup {d} /\ order'[e] = q
    BY <1>1, <1>6 DEF Record, o, l, q
  <2>2. Len(q) <= MaxRemembered
    BY <1>4, <1>6, FeedAssumption DEF Overflows, q, FeedAssumption
  <2> QED BY <1>1, <1>3, <1>4, <2>1, <2>2 DEF IndexTyped, Agrees
<1> QED BY <1>5, <1>6

-----------------------------------------------------------------------------
(* Every step keeps the types. *)

(* A step of a loop changes nothing of another engine, nor of their lives. *)
LEMMA StepFrame ==
  ASSUME NEW e \in Engines, Step(e), TypeOK
  PROVE  /\ UNCHANGED <<life, shut>>
         /\ \A f \in Engines : f # e =>
              /\ store'[f] = store[f] /\ attempted'[f] = attempted[f]
              /\ loop'[f] = loop[f] /\ job'[f] = job[f] /\ keys'[f] = keys[f]
              /\ owner'[f] = owner[f] /\ listed'[f] = listed[f]
              /\ known'[f] = known[f] /\ order'[f] = order[f]
         /\ loop[e] # "none"
<1> USE DEF life, work, produced, history
<1>1. CASE Select(e) \/ Discard(e) \/ Ingest(e) \/ RemoveReports(e) \/ Prune(e) \/ Snap(e)
  BY <1>1 DEF Select, Discard, Ingest, RemoveReports, Prune, Snap, Write, Done, Goto, TypeOK
<1>2. CASE RecordProduced(e)
  BY <1>2 DEF RecordProduced, Record, Done, Goto, TypeOK
<1>3. CASE Delete(e)
  BY <1>3 DEF Delete, Forget, Done, Goto, TypeOK
<1> QED BY <1>1, <1>2, <1>3 DEF Step

(* Rows taken over or dropped leave rows. *)
LEMMA ContentTyped ==
  /\ \A f \in Content, d \in Ids, ks \in SUBSET Rows : Owned(f, d, ks) \in Content
  /\ \A f \in Content, gone \in SUBSET Rows : Without(f, gone) \in Content
  /\ Empty \in Content
  BY DEF Content, Owned, Without, Empty

LEMMA TypeStep == TypeOK /\ LifeInv /\ LoopInv /\ IndexAgrees /\ [Next]_vars => TypeOK'
<1> SUFFICES ASSUME TypeOK, LifeInv, LoopInv, IndexAgrees, [Next]_vars PROVE TypeOK'
  OBVIOUS
<1> USE DEF life, work, produced, history
<1>1. ASSUME NEW e \in Engines, Select(e) \/ Discard(e) PROVE TypeOK'
  BY <1>1 DEF Select, Discard, Goto, TypeOK
<1>2. ASSUME NEW e \in Engines, Ingest(e) PROVE TypeOK'
  BY <1>2, ContentTyped DEF Ingest, Goto, TypeOK
<1>3. ASSUME NEW e \in Engines, RecordProduced(e) PROVE TypeOK'
  <2>1. job[e] \in Ids /\ keys[e] \in SUBSET Rows /\ Record(e, job[e], keys[e])
    BY <1>3 DEF RecordProduced, LoopInv, TypeOK
  <2>2. Halves(owner'[e], listed'[e]) /\ IndexTyped(known'[e], order'[e])
    BY <2>1, RecordAgrees DEF Agrees
  <2>3. /\ owner' = [owner EXCEPT ![e] = owner'[e]] /\ listed' = [listed EXCEPT ![e] = listed'[e]]
        /\ known' = [known EXCEPT ![e] = known'[e]] /\ order' = [order EXCEPT ![e] = order'[e]]
    BY <2>1 DEF Record, TypeOK
  <2>4. /\ owner' \in [Engines -> Content] /\ listed' \in [Engines -> [Ids -> SUBSET Rows]]
        /\ known' \in [Engines -> SUBSET Ids] /\ order' \in [Engines -> Seq(Ids)]
    BY <2>2, <2>3 DEF TypeOK, Halves, IndexTyped
  <2>5. orphans' \subseteq Rows
    BY <1>3 DEF RecordProduced, Lost, TypeOK
  <2> QED BY <1>3, <2>4, <2>5 DEF RecordProduced, Done, Goto, TypeOK
<1>4. ASSUME NEW e \in Engines, Delete(e) PROVE TypeOK'
  <2>1. PICK d \in Ids :
          /\ Forget(e, d)
          /\ IF listed[e][d] = {}
               THEN Done(e)
               ELSE /\ Goto(e, "forgot") /\ job' = [job EXCEPT ![e] = d]
                    /\ keys' = [keys EXCEPT ![e] = listed[e][d]]
    BY <1>4 DEF Delete
  <2>2. Halves(Disowned(owner[e], listed[e], d), Unlisted(listed[e], d))
    <3>1. Halves(owner[e], listed[e])
      BY DEF Halves, IndexAgrees, TypeOK
    <3> QED BY <3>1, ForgetAgrees
  <2>3. /\ owner' \in [Engines -> Content] /\ listed' \in [Engines -> [Ids -> SUBSET Rows]]
        /\ known' \in [Engines -> SUBSET Ids] /\ order' \in [Engines -> Seq(Ids)]
    BY <2>1, <2>2 DEF Forget, TypeOK, Halves
  <2>4. /\ loop' \in [Engines -> {"none", "select", "woken", "ingested", "forgot"}]
        /\ job' \in [Engines -> Ids \cup {None}] /\ keys' \in [Engines -> SUBSET Rows]
    <3>1. listed[e][d] \in SUBSET Rows
      BY DEF TypeOK
    <3>2. CASE listed[e][d] = {}
      BY <2>1, <3>2 DEF Done, Goto, TypeOK
    <3>3. CASE listed[e][d] # {}
      <4>1. /\ loop' = [loop EXCEPT ![e] = "forgot"]
            /\ job' = [job EXCEPT ![e] = d]
            /\ keys' = [keys EXCEPT ![e] = listed[e][d]]
        BY <2>1, <3>3 DEF Goto
      <4>2. /\ loop \in [Engines -> {"none", "select", "woken", "ingested", "forgot"}]
            /\ job \in [Engines -> Ids \cup {None}] /\ keys \in [Engines -> SUBSET Rows]
        BY DEF TypeOK
      <4> QED BY <2>1, <3>1, <4>1, <4>2
    <3> QED BY <3>2, <3>3
  <2> QED BY <1>4, <2>3, <2>4 DEF Delete, TypeOK
<1>5. ASSUME NEW e \in Engines, RemoveReports(e) PROVE TypeOK'
  <2>1. keys[e] \in SUBSET Rows /\ store[e] \in Content /\ held \in Content
    BY DEF TypeOK
  <2>2. Without(store[e], keys[e]) \in Content /\ Without(held, keys[e]) \in Content
    BY <2>1, ContentTyped
  <2>3. CASE Open(e)
    BY <1>5, <2>2, <2>3 DEF RemoveReports, Done, Goto, TypeOK
  <2>4. CASE ~Open(e)
    BY <1>5, <2>1, <2>4 DEF RemoveReports, Done, Goto, TypeOK
  <2> QED BY <2>3, <2>4
<1>6. ASSUME NEW e \in Engines, Prune(e) PROVE TypeOK'
  <2>1. PICK gone \in SUBSET Rows :
          /\ store' = [store EXCEPT ![e] = Without(store[e], gone)]
          /\ held' = IF e = Keeper THEN Without(held, gone) ELSE held
    BY <1>6 DEF Prune, TypeOK
  <2>2. Without(store[e], gone) \in Content /\ held' \in Content
    BY <2>1, ContentTyped DEF TypeOK
  <2> QED BY <1>6, <2>1, <2>2 DEF Prune, Goto, TypeOK
<1>7. ASSUME NEW e \in Engines, Snap(e) \/ Later(e) PROVE TypeOK'
  <2>1. CASE Snap(e)
    <3>1. snapshot' \in Content
      BY <2>1 DEF Snap, Write, TypeOK
    <3> QED BY <2>1, <3>1 DEF Snap, Write, Goto, TypeOK
  <2>2. CASE Later(e)
    BY <2>2 DEF Later, TypeOK
  <2> QED BY <1>7, <2>1, <2>2
<1>8. ASSUME NEW e \in Engines, NEW rows \in Content, Fresh(e, rows)
      PROVE  /\ store' \in [Engines -> Content]
             /\ shut' \in [Engines -> BOOLEAN] /\ attempted' \in [Engines -> BOOLEAN]
             /\ owner' \in [Engines -> Content]
             /\ listed' \in [Engines -> [Ids -> SUBSET Rows]]
             /\ known' \in [Engines -> SUBSET Ids] /\ order' \in [Engines -> Seq(Ids)]
  <2>1. <<>> \in Seq(Ids)
    BY EmptySeq
  <2> QED BY <1>8, <2>1, ContentTyped DEF Fresh, TypeOK
<1>9. ASSUME NEW e \in Engines, Start(e) PROVE TypeOK'
  <2>1. PICK gone \in SUBSET Rows :
          Fresh(e, Without(snapshot, gone)) /\ held' = Without(held, gone)
    BY <1>9 DEF Start
  <2>2. Without(snapshot, gone) \in Content /\ held' \in Content
    BY <2>1, ContentTyped DEF TypeOK
  <2> QED BY <1>8, <1>9, <2>1, <2>2 DEF Start, Goto, TypeOK, Phases
<1>10. ASSUME NEW e \in Engines, Build(e) PROVE TypeOK'
  <2>1. Fresh(e, snapshot) /\ snapshot \in Content
    BY <1>10 DEF Build, TypeOK
  <2> QED BY <1>8, <1>10, <2>1 DEF Build, TypeOK, Phases
<1>11. CASE Reject \/ ShutDown
  BY <1>11 DEF Reject, ShutDown, TypeOK, Phases
<1>12. CASE Flush
  <2>1. live \in Engines /\ store[live] \in Content
    BY <1>12 DEF Flush, LifeInv, TypeOK
  <2> QED BY <1>12, <2>1 DEF Flush, Write, TypeOK, Phases
<1>13. CASE Install
  <2>1. live \in Engines /\ store[live] \in Content
    BY <1>13 DEF Install, LifeInv, TypeOK
  <2>2. PICK gone \in SUBSET Rows :
          /\ store' = [store EXCEPT ![next] = Without(store[live], gone)]
          /\ held' = Without(held, gone)
    BY <1>13 DEF Install
  <2>3. Without(store[live], gone) \in Content /\ held' \in Content
    BY <2>1, <2>2, ContentTyped DEF TypeOK
  <2> QED BY <1>13, <2>2, <2>3 DEF Install, TypeOK, Phases
<1>14. CASE TakeDeletions
  <2>1. live \in Engines /\ next \in Engines /\ <<>> \in Seq(Ids)
    BY <1>14, EmptySeq DEF TakeDeletions, LifeInv
  <2>2. /\ owner[live] \in Content /\ listed[live] \in [Ids -> SUBSET Rows]
        /\ known[live] \in SUBSET Ids /\ order[live] \in Seq(Ids)
    BY <2>1 DEF TypeOK
  <2>3. /\ owner' \in [Engines -> Content] /\ listed' \in [Engines -> [Ids -> SUBSET Rows]]
        /\ known' \in [Engines -> SUBSET Ids] /\ order' \in [Engines -> Seq(Ids)]
    BY <1>14, <2>1, <2>2, ContentTyped DEF TakeDeletions, TypeOK
  <2> QED BY <1>14, <2>3 DEF TakeDeletions, TypeOK, Phases
<1>15. CASE Swap
  BY <1>15 DEF Swap, Goto, TypeOK, Phases
<1>16. CASE Crash
  BY <1>16 DEF Crash, TypeOK, Phases
<1>17. CASE UNCHANGED vars
  BY <1>17 DEF vars, TypeOK
<1> QED
  BY <1>1, <1>2, <1>3, <1>4, <1>5, <1>6, <1>7, <1>9, <1>10, <1>11, <1>12, <1>13, <1>14, <1>15,
     <1>16, <1>17 DEF Next, Step

-----------------------------------------------------------------------------
(* Every step keeps the phases, the loops and the retired engines in order. *)

LEMMA LifeStep == TypeOK /\ LifeInv /\ RetiredInv /\ [Next]_vars => LifeInv'
<1> SUFFICES ASSUME TypeOK, LifeInv, RetiredInv, [Next]_vars PROVE LifeInv'
  OBVIOUS
<1> USE DEF life, work
<1>0. None \notin Engines
  BY FeedAssumption DEF FeedAssumption
<1>1. ASSUME NEW e \in Engines, Step(e) PROVE LifeInv'
  <2>1. UNCHANGED <<life, shut>> /\ \A f \in Engines : f # e => loop'[f] = loop[f]
    BY <1>1, StepFrame
  <2>2. next # None => next \in Engines /\ next # e
    BY <1>1, StepFrame DEF LifeInv, TypeOK
  <2> QED BY <2>1, <2>2 DEF LifeInv
<1>2. ASSUME NEW e \in Engines, Later(e) PROVE LifeInv'
  BY <1>2 DEF Later, LifeInv
<1>3. ASSUME NEW e \in Engines, Start(e) PROVE LifeInv'
  BY <1>0, <1>3 DEF Start, LifeInv
<1>4. ASSUME NEW e \in Engines, Build(e) PROVE LifeInv'
  BY <1>0, <1>4 DEF Build, Free, Fresh, LifeInv, TypeOK
<1>5. CASE Reject \/ Swap \/ Crash
  BY <1>5 DEF Reject, Swap, Crash, LifeInv
<1>6. CASE ShutDown
  <2>1. next # None => next \in Engines /\ shut'[next] = shut[next]
    BY <1>6 DEF ShutDown, LifeInv, TypeOK
  <2> QED BY <1>6, <2>1 DEF ShutDown, LifeInv
<1>7. CASE Flush \/ Install \/ TakeDeletions
  BY <1>7 DEF Flush, Install, TakeDeletions, LifeInv, TypeOK
<1>8. CASE UNCHANGED vars
  BY <1>8 DEF vars, LifeInv
<1> QED BY <1>1, <1>2, <1>3, <1>4, <1>5, <1>6, <1>7, <1>8 DEF Next

LEMMA LoopStep == TypeOK /\ LifeInv /\ LoopInv /\ [Next]_vars => LoopInv'
<1> SUFFICES ASSUME TypeOK, LifeInv, LoopInv, [Next]_vars, NEW f \in Engines
             PROVE  /\ loop'[f] \in {"ingested", "forgot"} \/ keys'[f] = {}
                    /\ loop'[f] = "ingested" => job'[f] \in Ids
  BY DEF LoopInv
<1> USE DEF life, work
<1>1. ASSUME NEW e \in Engines, Step(e), f # e PROVE UNCHANGED <<loop[f], keys[f], job[f]>>
  BY <1>1, StepFrame
<1>2. CASE Step(f)
  BY <1>2 DEF Step, Select, Discard, Ingest, RecordProduced, Delete, RemoveReports, Prune, Snap,
              Done, Goto, LoopInv, TypeOK
<1>3. ASSUME NEW e \in Engines, Later(e) \/ Build(e) PROVE UNCHANGED <<loop[f], keys[f], job[f]>>
  BY <1>3 DEF Later, Build
<1>4. ASSUME NEW e \in Engines, Start(e), Free(e)
      PROVE  UNCHANGED <<keys, job>> /\ (f # e => loop'[f] = loop[f]) /\ (f = e => keys[f] = {})
             /\ (f = e => loop'[f] = "select")
  BY <1>4 DEF Start, Free, Goto, LoopInv, TypeOK
<1>5. CASE Reject \/ ShutDown \/ Flush \/ Install \/ TakeDeletions \/ UNCHANGED vars
  BY <1>5 DEF Reject, ShutDown, Flush, Install, TakeDeletions, vars, LoopInv
<1>6. CASE Swap
  <2>1. next \in Engines /\ loop[next] = "none"
    BY <1>6, FeedAssumption DEF Swap, LifeInv, FeedAssumption
  <2> QED BY <1>6, <2>1 DEF Swap, Goto, LoopInv, TypeOK
<1>7. CASE Crash
  BY <1>7 DEF Crash
<1>8. \A e \in Engines : Start(e) => Free(e)
  BY DEF Start
<1> QED BY <1>1, <1>2, <1>3, <1>4, <1>5, <1>6, <1>7, <1>8 DEF Next, LoopInv

LEMMA RetiredStep == TypeOK /\ LifeInv /\ RetiredInv /\ [Next]_vars => RetiredInv'
<1> SUFFICES ASSUME TypeOK, LifeInv, RetiredInv, [Next]_vars, NEW f \in Engines
             PROVE  /\ f = live' => (shut'[f] <=> phase' \in Down)
                    /\ f # live' /\ loop'[f] # "none" => shut'[f]
                    /\ loop'[f] = "woken" /\ (f # live' \/ phase' \in {"flushed", "installed", "taken"})
                         => attempted'[f]
  BY DEF RetiredInv
<1> USE DEF life, work, Down
<1>0. None \notin Engines
  BY FeedAssumption DEF FeedAssumption
<1>1. ASSUME NEW e \in Engines, Step(e), f # e
      PROVE  UNCHANGED <<life, shut>> /\ UNCHANGED <<loop[f], attempted[f]>>
  BY <1>1, StepFrame
<1>2. CASE Step(f)
  <2>1. UNCHANGED <<life, shut>> /\ loop[f] # "none"
    BY <1>2, StepFrame
  <2>2. CASE Select(f)
    BY <2>1, <2>2 DEF Select, Goto, RetiredInv, TypeOK
  <2>3. CASE ~Select(f)
    <3>1. loop'[f] # "woken"
      BY <1>2, <2>3 DEF Step, Discard, Ingest, RecordProduced, Delete, RemoveReports, Prune, Snap,
                        Done, Goto, TypeOK
    <3> QED BY <2>1, <3>1 DEF RetiredInv
  <2> QED BY <2>2, <2>3
<1>3. ASSUME NEW e \in Engines, Later(e)
      PROVE  /\ UNCHANGED <<life, shut, loop>>
             /\ attempted'[f] = attempted[f] \/ loop[f] # "woken"
  BY <1>3 DEF Later, TypeOK
<1>4. ASSUME NEW e \in Engines, NEW rows, Fresh(e, rows)
      PROVE  /\ f # e => shut'[f] = shut[f] /\ attempted'[f] = attempted[f]
             /\ ~shut'[e]
  BY <1>4 DEF Fresh, TypeOK
<1>5. ASSUME NEW e \in Engines, Start(e)
      PROVE  /\ f = live' => (shut'[f] <=> phase' \in Down)
             /\ f # live' /\ loop'[f] # "none" => shut'[f]
             /\ loop'[f] = "woken" /\ (f # live' \/ phase' \in {"flushed", "installed", "taken"})
                  => attempted'[f]
  <2>1. /\ live = None /\ live' = e /\ phase' = "run" /\ ~shut'[e] /\ loop'[e] = "select"
        /\ f # e => UNCHANGED <<shut[f], attempted[f], loop[f]>>
    BY <1>4, <1>5 DEF Start, Goto, LifeInv, TypeOK
  <2> QED BY <1>0, <2>1 DEF RetiredInv
<1>6. ASSUME NEW e \in Engines, Build(e)
      PROVE  /\ f = live' => (shut'[f] <=> phase' \in Down)
             /\ f # live' /\ loop'[f] # "none" => shut'[f]
             /\ loop'[f] = "woken" /\ (f # live' \/ phase' \in {"flushed", "installed", "taken"})
                  => attempted'[f]
  <2>1. /\ phase = "run" /\ phase' = "built" /\ e # live /\ loop[e] = "none"
        /\ UNCHANGED <<live, loop>>
        /\ f # e => UNCHANGED <<shut[f], attempted[f]>>
    BY <1>4, <1>6 DEF Build, Free
  <2> QED BY <2>1 DEF RetiredInv
<1>7. CASE Reject \/ Install \/ TakeDeletions \/ UNCHANGED vars
  BY <1>7 DEF Reject, Install, TakeDeletions, vars, RetiredInv
<1>8. CASE ShutDown
  BY <1>8 DEF ShutDown, RetiredInv, LifeInv, TypeOK
<1>9. CASE Flush
  <2>1. live \in Engines
    BY <1>9 DEF Flush, LifeInv
  <2>2. /\ phase = "shut" /\ UNCHANGED <<shut, loop>>
        /\ attempted'[live]
        /\ f # live => attempted'[f] = attempted[f]
    BY <1>9, <2>1 DEF Flush, Write, TypeOK
  <2>3. (live' = None /\ phase' = "off") \/ (live' = live /\ phase' = "flushed")
    BY <1>9 DEF Flush
  <2>4. shut[live]
    BY <2>1, <2>2 DEF RetiredInv
  <2> QED BY <1>0, <2>1, <2>2, <2>3, <2>4 DEF RetiredInv
<1>10. CASE Swap
  <2>1. next \in Engines /\ next # live /\ loop[next] = "none" /\ ~shut[next] /\ live \in Engines
    BY <1>0, <1>10 DEF Swap, LifeInv
  <2>2. /\ live' = next /\ phase = "taken" /\ phase' = "run" /\ UNCHANGED <<shut, attempted>>
        /\ loop'[next] = "select"
        /\ f # next => loop'[f] = loop[f]
    BY <1>10, <2>1 DEF Swap, Goto, TypeOK
  <2> QED BY <2>1, <2>2 DEF RetiredInv
<1>11. CASE Crash
  BY <1>0, <1>11 DEF Crash
<1>12. CASE \E e \in Engines : Later(e)
  BY <1>3, <1>12 DEF RetiredInv
<1>13. ASSUME NEW e \in Engines, Step(e)
       PROVE  /\ f = live' => (shut'[f] <=> phase' \in Down)
              /\ f # live' /\ loop'[f] # "none" => shut'[f]
              /\ loop'[f] = "woken" /\ (f # live' \/ phase' \in {"flushed", "installed", "taken"})
                   => attempted'[f]
  <2>1. CASE f = e
    BY <1>2, <1>13, <2>1
  <2>2. CASE f # e
    BY <1>1, <1>13, <2>2 DEF RetiredInv
  <2> QED BY <2>1, <2>2
<1> QED
  BY <1>5, <1>6, <1>7, <1>8, <1>9, <1>10, <1>11, <1>12, <1>13 DEF Next

-----------------------------------------------------------------------------
(* Every step keeps the halves of the index in agreement. *)

LEMMA IndexStep == TypeOK /\ LifeInv /\ LoopInv /\ IndexAgrees /\ [Next]_vars => IndexAgrees'
<1> SUFFICES ASSUME TypeOK, LifeInv, LoopInv, IndexAgrees, [Next]_vars, NEW f \in Engines
             PROVE  Agrees(owner'[f], listed'[f], known'[f], order'[f])
  BY DEF IndexAgrees, Agrees, Halves
<1> USE DEF life, produced
<1>1. \A e \in Engines : Agrees(owner[e], listed[e], known[e], order[e])
  BY DEF IndexAgrees, Agrees, Halves, TypeOK
<1>2. Agrees(Empty, [d \in Ids |-> {}], {}, <<>>)
  <2>1. Len(<<>>) = 0 /\ None \notin Ids /\ 0 <= MaxRemembered
    BY EmptySeq, FeedAssumption DEF FeedAssumption
  <2> QED BY <2>1 DEF Agrees, Halves, Empty, Content
<1>3. ASSUME NEW e \in Engines, Step(e) PROVE Agrees(owner'[f], listed'[f], known'[f], order'[f])
  <2>1. CASE f # e
    BY <1>1, <1>3, <2>1, StepFrame
  <2>2. CASE f = e /\ RecordProduced(e)
    <3>1. job[e] \in Ids /\ keys[e] \in SUBSET Rows /\ Record(e, job[e], keys[e])
      BY <2>2 DEF RecordProduced, LoopInv, TypeOK
    <3> QED BY <2>2, <3>1, RecordAgrees
  <2>3. CASE f = e /\ Delete(e)
    <3>1. PICK d \in Ids : Forget(e, d)
      BY <2>3 DEF Delete
    <3>2. /\ owner'[e] = Disowned(owner[e], listed[e], d)
          /\ listed'[e] = Unlisted(listed[e], d)
          /\ known'[e] = known[e] \ {d} /\ order'[e] = order[e]
      BY <3>1 DEF Forget, TypeOK
    <3>3. Halves(owner'[e], listed'[e])
      BY <1>1, <3>2, ForgetAgrees DEF Agrees
    <3> QED BY <1>1, <2>3, <3>2, <3>3 DEF Agrees
  <2>4. CASE f = e /\ ~RecordProduced(e) /\ ~Delete(e)
    BY <1>1, <1>3, <2>4
       DEF Step, Select, Discard, Ingest, RemoveReports, Prune, Snap
  <2> QED BY <2>1, <2>2, <2>3, <2>4
<1>4. ASSUME NEW e \in Engines, NEW rows, Fresh(e, rows)
      PROVE  Agrees(owner'[f], listed'[f], known'[f], order'[f])
  <2>1. CASE f = e
    BY <1>2, <1>4, <2>1 DEF Fresh, TypeOK
  <2>2. CASE f # e
    BY <1>1, <1>4, <2>2 DEF Fresh, TypeOK
  <2> QED BY <2>1, <2>2
<1>5. ASSUME NEW e \in Engines, Start(e) \/ Build(e)
      PROVE  Agrees(owner'[f], listed'[f], known'[f], order'[f])
  BY <1>4, <1>5 DEF Start, Build
<1>6. CASE TakeDeletions
  <2>1. live \in Engines /\ next \in Engines /\ next # live
    BY <1>6, FeedAssumption DEF TakeDeletions, LifeInv, FeedAssumption
  <2>2. CASE f = next
    BY <1>1, <1>6, <2>1, <2>2 DEF TakeDeletions, TypeOK
  <2>3. CASE f = live
    BY <1>2, <1>6, <2>1, <2>3 DEF TakeDeletions, TypeOK
  <2>4. CASE f # next /\ f # live
    BY <1>1, <1>6, <2>4 DEF TakeDeletions, TypeOK
  <2> QED BY <2>2, <2>3, <2>4
<1>7. CASE Reject \/ ShutDown \/ Flush \/ Install \/ Swap \/ Crash \/ UNCHANGED vars
           \/ \E e \in Engines : Later(e)
  BY <1>1, <1>7 DEF Reject, ShutDown, Flush, Install, Swap, Crash, vars, Later
<1> QED BY <1>3, <1>5, <1>6, <1>7 DEF Next

-----------------------------------------------------------------------------
(* Every step keeps what the feed has stored. *)

(* A loop whose engine still takes changes is the registered engine's, before
   its shutdown. *)
LEMMA OpenIsLive ==
  ASSUME NEW e \in Engines, TypeOK, LifeInv, RetiredInv, loop[e] # "none", Open(e)
  PROVE  e = live /\ phase \in {"run", "built"} /\ Keeper = live /\ Indexer = live
<1>1. e = live
  BY DEF RetiredInv, Open
<1>2. phase \notin Down /\ phase # "off"
  <2>1. None \notin Engines
    BY FeedAssumption DEF FeedAssumption
  <2> QED BY <1>1, <2>1 DEF RetiredInv, Open, LifeInv
<1> QED BY <1>1, <1>2 DEF TypeOK, Phases, Down, Keeper, Indexer

LEMMA HeldStep == TypeOK /\ LifeInv /\ RetiredInv /\ NothingLost /\ [Next]_vars => NothingLost'
<1> SUFFICES ASSUME TypeOK, LifeInv, RetiredInv, NothingLost, [Next]_vars PROVE NothingLost'
  OBVIOUS
<1> USE DEF life
<1>0. None \notin Engines
  BY FeedAssumption DEF FeedAssumption
<1>1. phase # "off" => Keeper \in Engines
  BY DEF Keeper, LifeInv
<1>2. ASSUME NEW e \in Engines, Select(e) \/ Discard(e) \/ RecordProduced(e) \/ Delete(e) \/ Later(e)
      PROVE  NothingLost'
  BY <1>2 DEF Select, Discard, RecordProduced, Delete, Later, NothingLost, Keeper, history
<1>3. ASSUME NEW e \in Engines, Ingest(e) PROVE NothingLost'
  <2>1. e = live /\ phase \in {"run", "built"} /\ Keeper = live
    BY <1>3, OpenIsLive DEF Ingest
  <2>2. UNCHANGED life /\ held' = store'[e]
    BY <1>3, <2>1 DEF Ingest, NothingLost, TypeOK
  <2> QED BY <2>1, <2>2 DEF NothingLost, Keeper
<1>4. ASSUME NEW e \in Engines, RemoveReports(e) PROVE NothingLost'
  <2>1. UNCHANGED life /\ UNCHANGED snapshot
    BY <1>4 DEF RemoveReports
  <2>2. CASE Open(e)
    <3>1. e = live /\ phase \in {"run", "built"} /\ Keeper = live
      BY <1>4, <2>2, OpenIsLive DEF RemoveReports
    <3>2. held' = store'[e]
      BY <1>4, <2>2, <3>1 DEF RemoveReports, NothingLost, TypeOK
    <3> QED BY <2>1, <3>1, <3>2 DEF NothingLost, Keeper
  <2>3. CASE ~Open(e)
    BY <1>4, <2>1, <2>3 DEF RemoveReports, NothingLost, Keeper
  <2> QED BY <2>2, <2>3
<1>5. ASSUME NEW e \in Engines, Prune(e) PROVE NothingLost'
  <2>1. PICK gone \in SUBSET Rows :
          /\ store' = [store EXCEPT ![e] = Without(store[e], gone)]
          /\ held' = IF e = Keeper THEN Without(held, gone) ELSE held
    BY <1>5 DEF Prune, TypeOK
  <2>2. UNCHANGED life /\ UNCHANGED snapshot
    BY <1>5 DEF Prune
  <2>3. CASE phase = "off"
    <3>1. e # Keeper
      BY <1>0, <2>3 DEF Keeper, LifeInv
    <3> QED BY <2>1, <2>2, <2>3, <3>1 DEF NothingLost
  <2>4. CASE phase # "off"
    <3>1. Keeper' = Keeper /\ store[Keeper] = held
      BY <2>2, <2>4 DEF Keeper, NothingLost
    <3>2. store'[Keeper] = held'
      BY <1>1, <2>1, <2>4, <3>1 DEF TypeOK
    <3> QED BY <2>2, <2>4, <3>1, <3>2 DEF NothingLost
  <2> QED BY <2>3, <2>4
<1>6. ASSUME NEW e \in Engines, Snap(e) PROVE NothingLost'
  <2>1. phase # "off"
    <3>1. e = live
      BY <1>6 DEF Snap, RetiredInv
    <3> QED BY <1>0, <3>1 DEF LifeInv
  <2> QED BY <1>6, <2>1 DEF Snap, NothingLost, Keeper, history
<1>7. ASSUME NEW e \in Engines, Start(e) PROVE NothingLost'
  BY <1>7 DEF Start, Fresh, NothingLost, Keeper, TypeOK
<1>8. ASSUME NEW e \in Engines, Build(e) PROVE NothingLost'
  <2>1. e # live /\ phase = "run" /\ phase' = "built" /\ UNCHANGED <<live, held>>
    BY <1>8 DEF Build, Free, history
  <2>2. store'[live] = store[live]
    BY <1>8, <2>1 DEF Build, Fresh, LifeInv, TypeOK
  <2> QED BY <2>1, <2>2 DEF NothingLost, Keeper
<1>9. CASE Reject \/ ShutDown
  BY <1>9 DEF Reject, ShutDown, NothingLost, Keeper, history
<1>10. CASE Flush
  BY <1>10 DEF Flush, NothingLost, Keeper
<1>11. CASE Install
  BY <1>11 DEF Install, NothingLost, Keeper, LifeInv, TypeOK
<1>12. CASE TakeDeletions \/ Swap \/ UNCHANGED vars
  BY <1>12 DEF TakeDeletions, Swap, vars, NothingLost, Keeper, history
<1>13. CASE Crash
  BY <1>13 DEF Crash, NothingLost
<1> QED
  BY <1>2, <1>3, <1>4, <1>5, <1>6, <1>7, <1>8, <1>9, <1>10, <1>11, <1>12, <1>13 DEF Next, Step

-----------------------------------------------------------------------------
(* Every step keeps the owner of what is stored. *)

LEMMA FlightStep ==
  TypeOK /\ LifeInv /\ LoopInv /\ RetiredInv /\ FlightInv /\ [Next]_vars => FlightInv'
<1> SUFFICES ASSUME TypeOK, LifeInv, LoopInv, RetiredInv, FlightInv, [Next]_vars,
                    NEW f \in Engines, f = live', loop'[f] = "ingested", NEW r \in keys'[f]
             PROVE  held'[r] \in {job'[f], None}
  BY DEF FlightInv
<1> USE DEF life, work, history
<1>0. None \notin Engines
  BY FeedAssumption DEF FeedAssumption
<1>a. keys[f] \in SUBSET Rows
  BY DEF TypeOK
<1>1. ASSUME UNCHANGED <<live, loop, job, keys>>, held'[r] \in {held[r], None}
      PROVE  held'[r] \in {job'[f], None}
  BY <1>1 DEF FlightInv
<1>2. \A gone \in SUBSET Rows : r \in Rows => Without(held, gone)[r] \in {held[r], None}
  BY DEF Without
<1>3. ASSUME NEW e \in Engines, Step(e), e = f PROVE held'[r] \in {job'[f], None}
  <2>1. CASE Ingest(e)
    <3>1. PICK d \in Ids, ks \in SUBSET Rows \ {{}} :
            /\ held' = Owned(held, d, ks)
            /\ job' = [job EXCEPT ![e] = d] /\ keys' = [keys EXCEPT ![e] = ks]
      BY <2>1 DEF Ingest
    <3>2. r \in ks /\ job'[f] = d
      BY <1>3, <3>1 DEF TypeOK
    <3> QED BY <3>1, <3>2 DEF Owned
  <2>2. CASE ~Ingest(e)
    BY <1>3, <2>2 DEF Step, Select, Discard, RecordProduced, Delete, RemoveReports, Prune, Snap,
                      Done, Goto, TypeOK
  <2> QED BY <2>1, <2>2
<1>4. ASSUME NEW e \in Engines, Step(e), e # f PROVE held'[r] \in {job'[f], None}
  <2>1. UNCHANGED life /\ loop'[f] = loop[f] /\ job'[f] = job[f] /\ keys'[f] = keys[f]
        /\ loop[e] # "none"
    BY <1>4, StepFrame
  <2>2. ~Open(e)
    BY <1>4, <2>1, OpenIsLive
  <2>3. held'[r] \in {held[r], None}
    <3>1. CASE Prune(e)
      <4>1. r \in Rows
        BY <1>a, <2>1
      <4> QED BY <1>2, <3>1, <4>1 DEF Prune
    <3>2. CASE ~Prune(e)
      BY <1>4, <2>2, <3>2 DEF Step, Select, Discard, Ingest, RecordProduced, Delete,
                              RemoveReports, Snap
    <3> QED BY <3>1, <3>2
  <2> QED BY <2>1, <2>3 DEF FlightInv
<1>5. ASSUME NEW e \in Engines, Later(e) \/ Build(e) PROVE held'[r] \in {job'[f], None}
  BY <1>1, <1>5 DEF Later, Build
<1>6. ASSUME NEW e \in Engines, Start(e) PROVE held'[r] \in {job'[f], None}
  BY <1>6 DEF Start, Goto, TypeOK
<1>7. CASE Reject \/ ShutDown \/ TakeDeletions \/ UNCHANGED vars
  BY <1>1, <1>7 DEF Reject, ShutDown, TakeDeletions, vars
<1>8. CASE Flush
  BY <1>0, <1>1, <1>8 DEF Flush
<1>9. CASE Install
  <2>1. UNCHANGED <<live, loop, job, keys>>
    BY <1>9 DEF Install
  <2>2. r \in Rows
    BY <1>a, <2>1
  <2> QED BY <1>1, <1>2, <1>9, <2>1, <2>2 DEF Install
<1>10. CASE Swap
  BY <1>10 DEF Swap, Goto, TypeOK
<1>11. CASE Crash
  BY <1>11 DEF Crash
<1> QED
  BY <1>3, <1>4, <1>5, <1>6, <1>7, <1>8, <1>9, <1>10, <1>11 DEF Next

(* What is to show of one row. *)
RowOwned(r) == r \in orphans \/ r \in InFlight \/ held[r] = None \/ owner[Indexer][r] = held[r]

LEMMA OwnStep ==
  TypeOK /\ LifeInv /\ LoopInv /\ RetiredInv /\ FlightInv /\ OwnedByProducer /\ [Next]_vars
    => OwnedByProducer'
<1> SUFFICES ASSUME TypeOK, LifeInv, LoopInv, RetiredInv, FlightInv, OwnedByProducer, [Next]_vars,
                    phase' # "off", NEW r \in Rows
             PROVE  RowOwned(r)'
  BY DEF OwnedByProducer, RowOwned
<1> USE DEF life, work, history
<1>0. None \notin Engines
  BY FeedAssumption DEF FeedAssumption
<1>1. phase # "off" => RowOwned(r)
  BY DEF OwnedByProducer, RowOwned
<1>2. phase # "off" => Indexer \in Engines
  BY DEF Indexer, LifeInv
<1>3. ASSUME phase # "off", orphans \subseteq orphans', keys' = keys, held'[r] \in {held[r], None},
             owner'[Indexer'][r] = owner[Indexer][r]
      PROVE  RowOwned(r)'
  BY <1>1, <1>3 DEF RowOwned, InFlight
<1>4. ASSUME NEW gone \in SUBSET Rows PROVE Without(held, gone)[r] \in {held[r], None}
  BY DEF Without
<1>5. ASSUME NEW e \in Engines, Step(e)
      PROVE  /\ UNCHANGED life /\ phase # "off" /\ Indexer' = Indexer /\ Indexer \in Engines
             /\ RowOwned(r)
             /\ \A x \in InFlight : x \in InFlight' \/ x \in keys[e]
             /\ keys'[e] \subseteq InFlight'
  <2>1. UNCHANGED life /\ \A f \in Engines : f # e => keys'[f] = keys[f]
    BY <1>5, StepFrame
  <2>2. phase # "off" /\ Indexer' = Indexer
    BY <2>1 DEF Indexer
  <2> QED BY <1>1, <1>2, <2>1, <2>2 DEF InFlight
<1>6. ASSUME NEW e \in Engines, Select(e) \/ Discard(e) \/ Snap(e) \/ Later(e) PROVE RowOwned(r)'
  <2>1. phase # "off" /\ Indexer' = Indexer
    BY <1>6 DEF Select, Discard, Snap, Later, Indexer
  <2> QED BY <1>3, <1>6, <2>1 DEF Select, Discard, Snap, Later, produced
<1>7. ASSUME NEW e \in Engines, Ingest(e) PROVE RowOwned(r)'
  <2>1. PICK d \in Ids, ks \in SUBSET Rows \ {{}} :
          held' = Owned(held, d, ks) /\ keys' = [keys EXCEPT ![e] = ks]
    BY <1>7 DEF Ingest
  <2>2. Step(e) /\ keys[e] = {} /\ keys'[e] = ks /\ UNCHANGED <<orphans, owner>>
    BY <1>7, <2>1 DEF Step, Ingest, LoopInv, TypeOK, produced
  <2>3. CASE r \in ks
    BY <1>5, <2>2, <2>3 DEF RowOwned
  <2>4. CASE r \notin ks
    <3>1. held'[r] = held[r]
      BY <2>1, <2>4 DEF Owned
    <3> QED BY <1>5, <2>2, <3>1 DEF RowOwned
  <2> QED BY <2>3, <2>4
<1>8. ASSUME NEW e \in Engines, RecordProduced(e) PROVE RowOwned(r)'
  <2>1. Step(e) /\ Record(e, job[e], keys[e]) /\ held' = held /\ job[e] \in Ids
        /\ loop[e] = "ingested"
    BY <1>8 DEF Step, RecordProduced, LoopInv
  <2>2. CASE e # Indexer
    <3>1. owner'[Indexer] = owner[Indexer] /\ orphans' = orphans \cup keys[e]
      BY <1>5, <1>8, <2>1, <2>2, StepFrame DEF RecordProduced
    <3> QED BY <1>5, <2>1, <3>1 DEF RowOwned
  <2>3. CASE e = Indexer
    <3>1. orphans' = (orphans \ keys[e]) \cup Lost(e, keys[e])
      BY <1>8, <2>3 DEF RecordProduced
    <3>2. owner'[e][r] \in {None, IF r \in keys[e] THEN job[e] ELSE owner[e][r]}
      <4>1. /\ owner[e] \in Content /\ owner \in [Engines -> Content]
        BY DEF TypeOK
      <4>2. \/ owner'[e] = Owned(owner[e], job[e], keys[e])
            \/ \E l, x : owner'[e] = Disowned(Owned(owner[e], job[e], keys[e]), l, x)
        BY <2>1, <4>1 DEF Record
      <4> QED BY <4>2 DEF Owned, Disowned, Without
    <3>3. CASE owner'[e][r] = None
      <4>1. r \in keys[e] \/ owner[e][r] # None => r \in orphans'
        BY <3>1, <3>3 DEF Lost
      <4>2. CASE r \notin keys[e] /\ owner[e][r] = None
        BY <1>5, <2>1, <2>3, <3>1, <3>3, <4>2 DEF RowOwned
      <4> QED BY <4>1, <4>2 DEF RowOwned
    <3>4. CASE r \in keys[e] /\ owner'[e][r] = job[e]
      <4>1. phase # "off" /\ Indexer' = Indexer
        BY <1>5, <2>1
      <4>2. e = live
        BY <1>0, <2>1, <2>3, <4>1 DEF Indexer, LifeInv
      <4>3. held[r] \in {job[e], None}
        BY <2>1, <3>4, <4>2 DEF FlightInv
      <4> QED BY <2>1, <2>3, <3>4, <4>1, <4>3 DEF RowOwned
    <3>5. CASE r \notin keys[e] /\ owner'[e][r] = owner[e][r]
      BY <1>5, <2>1, <2>3, <3>1, <3>5 DEF RowOwned
    <3> QED BY <3>2, <3>3, <3>4, <3>5
  <2> QED BY <2>2, <2>3
<1>9. ASSUME NEW e \in Engines, Delete(e) PROVE RowOwned(r)'
  <2>1. Step(e) /\ UNCHANGED <<held, orphans>> /\ keys[e] = {}
    BY <1>9 DEF Step, Delete, LoopInv
  <2>2. PICK d \in Ids :
          /\ Forget(e, d)
          /\ listed[e][d] # {} => keys' = [keys EXCEPT ![e] = listed[e][d]]
    BY <1>9 DEF Delete
  <2>3. CASE r \in listed[e][d]
    <3>1. keys'[e] = listed[e][d]
      BY <2>2, <2>3 DEF TypeOK
    <3> QED BY <1>5, <2>1, <2>3, <3>1 DEF RowOwned
  <2>4. CASE r \notin listed[e][d]
    <3>1. owner'[Indexer][r] = owner[Indexer][r]
      BY <1>5, <2>1, <2>2, <2>4 DEF Forget, Disowned, Without, TypeOK
    <3> QED BY <1>5, <2>1, <3>1 DEF RowOwned
  <2> QED BY <2>3, <2>4
<1>10. ASSUME NEW e \in Engines, RemoveReports(e) PROVE RowOwned(r)'
  <2>1. Step(e) /\ owner' = owner
    BY <1>10 DEF Step, RemoveReports, produced
  <2>2. CASE Open(e)
    <3>1. held' = Without(held, keys[e]) /\ orphans' = orphans \ keys[e]
      BY <1>10, <2>2 DEF RemoveReports
    <3>2. held'[r] = IF r \in keys[e] THEN None ELSE held[r]
      BY <3>1 DEF Without
    <3> QED BY <1>5, <2>1, <3>1, <3>2 DEF RowOwned
  <2>3. CASE ~Open(e)
    <3>1. held' = held /\ orphans' = orphans \cup keys[e]
      BY <1>10, <2>3 DEF RemoveReports
    <3> QED BY <1>5, <2>1, <3>1 DEF RowOwned
  <2> QED BY <2>2, <2>3
<1>11. ASSUME NEW e \in Engines, Prune(e) PROVE RowOwned(r)'
  <2>1. held'[r] \in {held[r], None}
    BY <1>4, <1>11 DEF Prune
  <2>2. Step(e) /\ UNCHANGED <<owner, orphans, keys>>
    BY <1>11 DEF Step, Prune, produced
  <2> QED BY <1>3, <1>5, <2>1, <2>2
<1>12. ASSUME NEW e \in Engines, Start(e) PROVE RowOwned(r)'
  BY <1>12 DEF Start, RowOwned
<1>13. ASSUME NEW e \in Engines, Build(e) PROVE RowOwned(r)'
  <2>1. phase = "run" /\ phase' = "built" /\ live' = live /\ e # live /\ UNCHANGED <<keys, held, orphans>>
    BY <1>13 DEF Build, Free
  <2>2. owner'[live] = owner[live] /\ Indexer = live /\ Indexer' = live
    BY <1>2, <1>13, <2>1 DEF Build, Fresh, Indexer, TypeOK
  <2> QED BY <1>3, <2>1, <2>2
<1>14. CASE Reject \/ ShutDown \/ Flush \/ UNCHANGED vars
  <2>1. phase # "off" /\ Indexer' = Indexer /\ UNCHANGED <<owner, keys, held, orphans>>
    BY <1>14 DEF Reject, ShutDown, Flush, Indexer, vars, produced
  <2> QED BY <1>3, <2>1
<1>15. CASE Install
  <2>1. phase # "off" /\ Indexer' = Indexer /\ UNCHANGED <<owner, keys, orphans>>
    BY <1>15 DEF Install, Indexer, produced
  <2>2. held'[r] \in {held[r], None}
    BY <1>4, <1>15 DEF Install
  <2> QED BY <1>3, <2>1, <2>2
<1>16. CASE TakeDeletions
  <2>1. next \in Engines /\ live \in Engines /\ next # live
    BY <1>0, <1>16 DEF TakeDeletions, LifeInv
  <2>2. /\ phase = "installed" /\ UNCHANGED <<keys, held, orphans>>
        /\ Indexer = live /\ Indexer' = next /\ owner'[next] = owner[live]
    BY <1>16, <2>1 DEF TakeDeletions, Indexer, TypeOK
  <2> QED BY <1>3, <2>2
<1>17. CASE Swap
  <2>1. phase # "off" /\ Indexer' = Indexer /\ UNCHANGED <<owner, keys, held, orphans>>
    BY <1>17 DEF Swap, Indexer, produced
  <2> QED BY <1>3, <2>1
<1>18. ~Crash
  BY DEF Crash
<1> QED
  BY <1>6, <1>7, <1>8, <1>9, <1>10, <1>11, <1>12, <1>13, <1>14, <1>15, <1>16, <1>17, <1>18
     DEF Next, Step

-----------------------------------------------------------------------------
(* Theorems. *)

LEMMA InitInv == Init => IInv
<1> SUFFICES ASSUME Init PROVE IInv
  OBVIOUS
<1>1. <<>> \in Seq(Ids) /\ Len(<<>>) = 0 /\ 0 <= MaxRemembered /\ None \notin Engines \cup Ids
  BY EmptySeq, FeedAssumption DEF FeedAssumption
<1>2. TypeOK
  BY <1>1, ContentTyped DEF Init, TypeOK, Phases
<1>3. LifeInv /\ LoopInv /\ FlightInv
  BY <1>1 DEF Init, LifeInv, LoopInv, FlightInv
<1>4. RetiredInv
  BY <1>1 DEF Init, RetiredInv
<1>5. IndexAgrees
  BY <1>1 DEF Init, IndexAgrees, Empty
<1>6. NothingLost /\ OwnedByProducer
  BY DEF Init, NothingLost, OwnedByProducer
<1> QED BY <1>2, <1>3, <1>4, <1>5, <1>6 DEF IInv

LEMMA NextInv == IInv /\ [Next]_vars => IInv'
  BY TypeStep, LifeStep, LoopStep, RetiredStep, IndexStep, HeldStep, FlightStep, OwnStep DEF IInv

LEMMA Invariant == Spec => []IInv
  BY InitInv, NextInv, PTL DEF Spec

(* The store, the index and the state of every engine stay what they should be. *)
THEOREM TypeAlwaysOK == Spec => []TypeOK
<1>1. IInv => TypeOK
  BY DEF IInv
<1> QED BY Invariant, <1>1, PTL

(* The halves of the deletion index agree, and it is bounded (Produced). *)
THEOREM IndexAlwaysAgrees == Spec => []IndexAgrees
<1>1. IInv => IndexAgrees
  BY DEF IInv
<1> QED BY Invariant, <1>1, PTL

(* No reload, and no stop whose flush is written, loses a report or brings one
   back (BufrEngine::shutdown, take_over). *)
THEOREM NothingIsLost == Spec => []NothingLost
<1>1. IInv => NothingLost
  BY DEF IInv
<1> QED BY Invariant, <1>1, PTL

(* Outside the cases its statement names, a deletion finds the rows its data_id
   produced and no other's (Wis2Source::apply, delete, take_deletions). *)
THEOREM AlwaysOwnedByProducer == Spec => []OwnedByProducer
<1>1. IInv => OwnedByProducer
  BY DEF IInv
<1> QED BY Invariant, <1>1, PTL
=============================================================================
