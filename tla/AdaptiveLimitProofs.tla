------------------------ MODULE AdaptiveLimitProofs -------------------------
(***************************************************************************)
(* For any requests and any configured limit: the permits free and handed  *)
(* out are always the limit and the debt (PermitsBalance), and never more  *)
(* than was configured (WithinConfigured).                                 *)
(***************************************************************************)
EXTENDS AdaptiveLimit, FiniteSetTheorems, SequenceTheorems, TLAPS

Elems(l) == {l[p] : p \in 1..Len(l)}
Distinct(l) == \A p, q \in 1..Len(l) : l[p] = l[q] => p = q

(* A request is at one place: in the line once, handed a permit, or sent. *)
Placed(l, g, h) ==
  /\ l \in Seq(Requests) /\ Distinct(l)
  /\ g \subseteq Requests /\ h \subseteq Requests /\ g \cap h = {}
  /\ Elems(l) \cap (g \cup h) = {}

(* The limit and its debt, which are what was configured at most. *)
Limited(c, o) == c \in 1..Configured /\ o \in Nat /\ c + o <= Configured

IInv ==
  /\ Limited(current, owed) /\ quiet \in 0..MaxQuiet
  /\ free \in Nat /\ late \subseteq Requests
  /\ Placed(line, granted, held)
  /\ PermitsBalance

-----------------------------------------------------------------------------
(* The operators. *)

LEMMA LesserIs ==
  ASSUME NEW a \in Nat, NEW b \in Nat
  PROVE  /\ Lesser(a, b) \in Nat /\ Lesser(a, b) <= a /\ Lesser(a, b) <= b
         /\ Lesser(a, b) = a \/ Lesser(a, b) = b
BY DEF Lesser

(* The oldest k of a line with nobody in it twice are k requests. *)
LEMMA FirstOf ==
  ASSUME NEW l \in Seq(Requests), Distinct(l), NEW k \in 0..Len(l)
  PROVE  LET to == {l[p] : p \in 1..k} IN IsFiniteSet(to) /\ Cardinality(to) = k
<1> DEFINE to == {l[p] : p \in 1..k}
           f == [p \in 1..k |-> l[p]]
<1>1. Len(l) \in Nat /\ k \in Nat /\ \A p \in 1..k : p \in 1..Len(l)
  OBVIOUS
<1>2. f \in [1..k -> to] /\ \A p \in 1..k : f[p] = l[p]
  OBVIOUS
<1>3. \A t \in to : \E p \in 1..k : f[p] = t
  BY <1>2
<1>4. \A p, q \in 1..k : f[p] = f[q] => p = q
  BY <1>1, <1>2 DEF Distinct
<1> HIDE DEF to, f
<1>5. f \in Surjection(1..k, to)
  BY <1>2, <1>3 DEF Surjection
<1>6. f \in Injection(1..k, to)
  BY <1>2, <1>4 DEF Injection, IsInjective
<1>7. IsFiniteSet(1..k) /\ Cardinality(1..k) = k
  BY <1>1, FS_Interval
<1> QED BY <1>5, <1>6, <1>7, FS_Surjection DEF to

(* Permits added to the semaphore go to the oldest in line, the rest stay
   free; everybody is at one place still. *)
LEMMA ServedGives ==
  ASSUME NEW l, NEW g, NEW h, Placed(l, g, h), NEW n \in Nat, NEW f \in Nat
  PROVE  LET s == Served(n, f, l) IN
         /\ s.free \in Nat
         /\ Placed(s.line, g \cup s.to, h)
         /\ Elems(s.line) \cup s.to \subseteq Elems(l)
         /\ s.free + Cardinality(g \cup s.to) = f + n + Cardinality(g)
<1> DEFINE k == Lesser(n, Len(l))
           rest == SubSeq(l, k + 1, Len(l))
           to == {l[p] : p \in 1..k}
<1>1. l \in Seq(Requests) /\ Len(l) \in Nat /\ Distinct(l)
  BY DEF Placed
<1>2. k \in 0..Len(l) /\ k <= n
  <2>1. k \in Nat /\ k <= n /\ k <= Len(l)
    BY <1>1, LesserIs
  <2> QED BY <1>1, <2>1
<1>3. Served(n, f, l) = [free |-> f + n - k, line |-> rest, to |-> to]
  BY DEF Served
<1> HIDE DEF k
<1>4. /\ rest \in Seq(Requests) /\ Len(rest) = Len(l) - k
      /\ \A p \in 1..(Len(l) - k) : rest[p] = l[k + p]
  BY <1>1, <1>2, SubSeqProperties
<1>5. IsFiniteSet(to) /\ Cardinality(to) = k
  BY <1>1, <1>2, FirstOf
<1> HIDE DEF rest
<1>6. \A p \in 1..Len(rest) : k + p \in 1..Len(l) /\ rest[p] = l[k + p] /\ k + p \notin 1..k
  BY <1>1, <1>2, <1>4
<1>7. Distinct(rest)
  <2> SUFFICES ASSUME NEW p \in 1..Len(rest), NEW q \in 1..Len(rest), rest[p] = rest[q]
               PROVE  p = q
    BY DEF Distinct
  <2>1. k + p = k + q
    BY <1>1, <1>6 DEF Distinct
  <2> QED BY <1>2, <1>4, <2>1
<1>8. \A p \in 1..k : p \in 1..Len(l)
  BY <1>1, <1>2
<1>9. Elems(rest) \subseteq Elems(l) /\ to \subseteq Elems(l)
  BY <1>6, <1>8 DEF Elems
<1>10. Elems(rest) \cap to = {}
  BY <1>1, <1>6, <1>8 DEF Elems, Distinct
<1>11. to \subseteq Requests
  BY <1>1, <1>8
<1> HIDE DEF to
<1>12. Placed(rest, g \cup to, h)
  BY <1>4, <1>7, <1>9, <1>10, <1>11 DEF Placed
<1>13. IsFiniteSet(g) /\ g \cap to = {}
  BY <1>9, ConstantsAssumption, FS_Subset DEF Placed, ConstantsAssumption
<1>14. Cardinality(g \cup to) = Cardinality(g) + k /\ Cardinality(g) \in Nat
  <2>1. Cardinality(g \cap to) = 0
    BY <1>13, FS_EmptySet
  <2>2. IsFiniteSet(to) /\ Cardinality(to) = k
    BY <1>5
  <2>3. Cardinality(g \cup to) = Cardinality(g) + Cardinality(to) - Cardinality(g \cap to)
    BY <1>13, <2>2, FS_Union
  <2>4. Cardinality(g) \in Nat
    BY <1>13, FS_CardinalityType
  <2> QED BY <1>2, <2>1, <2>2, <2>3, <2>4
<1>15. f + n - k \in Nat
  BY <1>2
<1> QED BY <1>2, <1>3, <1>9, <1>12, <1>14, <1>15

(* Growth adds to the limit what it pays and what it makes. *)
LEMMA Grows ==
  ASSUME Limited(current, owed), quiet \in 0..MaxQuiet
  PROVE  /\ Limited(Grown.current, Grown.owed) /\ Grown.quiet \in 0..MaxQuiet
         /\ Grown.permits \in Nat
         /\ Grown.current + Grown.owed = current + owed + Grown.permits
<1>1. Configured \in Nat /\ MaxQuiet \in Nat /\ quiet \in Nat /\ Configured - current \in Nat
  BY ConstantsAssumption DEF ConstantsAssumption, Limited
<1>2. Steps \in Nat /\ Steps <= quiet /\ Steps <= Configured - current
  BY <1>1, LesserIs DEF Steps
<1>3. Paid \in Nat /\ Paid <= Steps /\ Paid <= owed /\ (Paid = Steps \/ Paid = owed)
  BY <1>2, LesserIs DEF Paid, Limited
<1> QED BY <1>1, <1>2, <1>3 DEF Grown, Limited

(* A request that is in none of the places joins the end of the line. *)
LEMMA AppendPlaced ==
  ASSUME NEW l, NEW g, NEW h, Placed(l, g, h),
         NEW r \in Requests, r \notin Elems(l), r \notin g, r \notin h
  PROVE  Placed(Append(l, r), g, h)
<1> DEFINE t == Append(l, r)
<1>1. l \in Seq(Requests) /\ Distinct(l)
  BY DEF Placed
<1>2. /\ Len(l) \in Nat /\ Len(t) = Len(l) + 1 /\ t \in Seq(Requests)
      /\ \A p \in 1..Len(l) : t[p] = l[p]
      /\ t[Len(l) + 1] = r
  BY <1>1
<1> HIDE DEF t
<1>3. Elems(t) = Elems(l) \cup {r}
  BY <1>2 DEF Elems
<1>4. Distinct(t)
  BY <1>1, <1>2 DEF Distinct, Elems
<1>5. Placed(t, g, h)
  BY <1>2, <1>3, <1>4 DEF Placed
<1> QED BY <1>5 DEF t

(* A request that gives up leaves the line, and the others their places. *)
LEMMA RemovePlaced ==
  ASSUME NEW l, NEW g, NEW h, Placed(l, g, h), NEW n \in 1..Len(l)
  PROVE  Placed(RemoveAt(l, n), g, h)
<1> DEFINE t == RemoveAt(l, n)
           before == SubSeq(l, 1, n - 1)
           after == SubSeq(l, n + 1, Len(l))
<1>1. l \in Seq(Requests) /\ Distinct(l) /\ Len(l) \in Nat /\ n \in Nat
  BY DEF Placed
<1>2. /\ before \in Seq(Requests) /\ Len(before) = n - 1
      /\ \A p \in 1..(n - 1) : before[p] = l[p]
  BY <1>1, SubSeqProperties
<1>3. /\ after \in Seq(Requests) /\ Len(after) = Len(l) - n
      /\ \A p \in 1..(Len(l) - n) : after[p] = l[n + p]
  BY <1>1, SubSeqProperties
<1>4. t = before \o after
  BY DEF RemoveAt
<1> HIDE DEF t, before, after
<1>5. /\ t \in Seq(Requests) /\ Len(t) = Len(before) + Len(after)
      /\ \A p \in 1..(Len(before) + Len(after)) :
            t[p] = IF p <= Len(before) THEN before[p] ELSE after[p - Len(before)]
  BY <1>2, <1>3, <1>4, ConcatProperties, Zenon
<1>6. ASSUME NEW p \in 1..Len(t)
      PROVE  t[p] = IF p < n THEN l[p] ELSE l[p + 1]
  <2>1. CASE p < n
    <3>1. p \in 1..(n - 1) /\ p <= Len(before) /\ p \in 1..(Len(before) + Len(after))
      BY <1>1, <1>2, <1>3, <1>5, <2>1
    <3> QED BY <1>2, <1>5, <2>1, <3>1
  <2>2. CASE ~(p < n)
    <3>1. /\ p - (n - 1) \in 1..(Len(l) - n) /\ n + (p - (n - 1)) = p + 1
          /\ ~(p <= Len(before)) /\ p \in 1..(Len(before) + Len(after))
      BY <1>1, <1>2, <1>3, <1>5, <2>2
    <3>2. t[p] = after[p - (n - 1)]
      BY <1>2, <1>5, <3>1
    <3> QED BY <1>3, <2>2, <3>1, <3>2
  <2> QED BY <2>1, <2>2
<1>7. Len(t) = Len(l) - 1
  BY <1>1, <1>2, <1>3, <1>5
<1>8. Distinct(t)
  <2> SUFFICES ASSUME NEW p \in 1..Len(t), NEW q \in 1..Len(t), t[p] = t[q]
               PROVE  p = q
    BY DEF Distinct
  <2> QED BY <1>1, <1>6, <1>7 DEF Distinct
<1>9. Elems(t) \subseteq Elems(l)
  BY <1>1, <1>6, <1>7 DEF Elems
<1>10. Placed(t, g, h)
  BY <1>5, <1>8, <1>9 DEF Placed
<1> QED BY <1>10 DEF t

-----------------------------------------------------------------------------
(* The inductive invariant, one lemma for each action. *)

(* The facts every step starts from. *)
LEMMA Known ==
  ASSUME IInv
  PROVE  /\ Limited(Grown.current, Grown.owed) /\ Grown.quiet \in 0..MaxQuiet
         /\ Grown.permits \in Nat
         /\ Grown.current + Grown.owed = current + owed + Grown.permits
         /\ current \in Nat /\ owed \in Nat /\ free \in Nat /\ quiet \in Nat
         /\ Queued = Elems(line)
         /\ IsFiniteSet(granted) /\ Cardinality(granted) \in Nat
         /\ IsFiniteSet(held) /\ Cardinality(held) \in Nat
<1>1. granted \subseteq Requests /\ held \subseteq Requests
  BY DEF IInv, Placed
<1>2. IsFiniteSet(granted) /\ IsFiniteSet(held)
  BY <1>1, ConstantsAssumption, FS_Subset DEF ConstantsAssumption
<1>3. Cardinality(granted) \in Nat /\ Cardinality(held) \in Nat
  BY <1>2, FS_CardinalityType
<1>4. current \in Nat /\ owed \in Nat /\ free \in Nat /\ quiet \in Nat
  BY ConstantsAssumption DEF ConstantsAssumption, IInv, Limited
<1> QED BY <1>2, <1>3, <1>4, Grows DEF IInv, Queued, Elems

(* What is left to show of a step once the semaphore is given permits, and
   some it had free are taken: by a request, or by a cut. *)
LEMMA AfterServing ==
  ASSUME IInv, Limited(current', owed'), quiet' \in 0..MaxQuiet,
         late' \subseteq Requests, NEW n \in Nat, NEW taken \in Nat,
         NEW g, NEW h, Placed(line, g, h),
         taken <= Served(n, free, line).free,
         free' = Served(n, free, line).free - taken,
         line' = Served(n, free, line).line,
         granted' = g \cup Served(n, free, line).to, held' = h,
         free + n + Cardinality(g) + Cardinality(h) = current' + owed' + taken
  PROVE  IInv'
<1> DEFINE s == Served(n, free, line)
<1>1. free \in Nat
  BY DEF IInv
<1>2. /\ s.free \in Nat /\ Placed(s.line, g \cup s.to, h)
      /\ s.free + Cardinality(g \cup s.to) = free + n + Cardinality(g)
  <2>1. Placed(line, g, h) /\ n \in Nat
    OBVIOUS
  <2> QED BY ONLY <1>1, <2>1, ServedGives
<1> HIDE DEF s
<1>3. free' = s.free - taken /\ line' = s.line /\ granted' = g \cup s.to /\ taken <= s.free
  BY DEF s
<1>4. Placed(line', granted', held')
  BY <1>2, <1>3
<1>5. Cardinality(g) \in Nat /\ Cardinality(granted') \in Nat /\ Cardinality(held') \in Nat
  <2>1. g \subseteq Requests /\ granted' \subseteq Requests /\ held' \subseteq Requests
    BY <1>4 DEF Placed
  <2>2. IsFiniteSet(g) /\ IsFiniteSet(granted') /\ IsFiniteSet(held')
    BY <2>1, ConstantsAssumption, FS_Subset DEF ConstantsAssumption
  <2> QED BY <2>2, FS_CardinalityType
<1>6. current' \in Nat /\ owed' \in Nat
  BY ConstantsAssumption DEF Limited, ConstantsAssumption
<1>7. free' + Cardinality(held') + Cardinality(granted') = current' + owed'
  <2>1. free + n + Cardinality(g) + Cardinality(held') = current' + owed' + taken
    OBVIOUS
  <2>2. free' + taken = s.free
    BY <1>2, <1>3
  <2>3. Cardinality(g \cup s.to) = Cardinality(granted')
    BY <1>3
  <2>4. s.free + Cardinality(granted') = free + n + Cardinality(g)
    BY <1>2, <2>3
  <2> QED BY <1>1, <1>2, <1>5, <1>6, <2>1, <2>2, <2>4
<1>8. free' \in Nat
  BY <1>2, <1>3
<1> QED BY <1>4, <1>7, <1>8 DEF IInv, PermitsBalance

LEMMA InitInv ==
  ASSUME Init
  PROVE  IInv
<1>1. Placed(<<>>, {}, {})
  BY DEF Placed, Distinct, Elems
<1>2. Cardinality({}) = 0
  BY FS_EmptySet
<1> QED BY <1>1, <1>2, ConstantsAssumption
        DEF Init, IInv, Limited, PermitsBalance, ConstantsAssumption

LEMMA AcquireInv ==
  ASSUME IInv, NEW r \in Requests, Acquire(r)
  PROVE  IInv'
<1> DEFINE n == Grown.permits
           s == Served(n, free, line)
<1>1. Placed(line, granted, held) /\ r \notin Elems(line) /\ r \notin granted /\ r \notin held
  BY Known DEF Acquire, Idle, IInv
<1>2. /\ n \in Nat /\ free \in Nat /\ current \in Nat /\ owed \in Nat
      /\ IsFiniteSet(held) /\ Cardinality(held) \in Nat /\ Cardinality(granted) \in Nat
  BY Known
<1>3. /\ Limited(current', owed') /\ quiet' \in 0..MaxQuiet
      /\ current' + owed' = current + owed + n
  BY Known DEF Acquire
<1>4. late' \subseteq Requests /\ granted' = granted \cup s.to
  BY DEF Acquire, IInv
<1>5. free + Cardinality(held) + Cardinality(granted) = current + owed
  BY DEF IInv, PermitsBalance
<1>6. /\ s.free \in Nat /\ Placed(s.line, granted \cup s.to, held)
      /\ Elems(s.line) \cup s.to \subseteq Elems(line)
      /\ s.free + Cardinality(granted \cup s.to) = free + n + Cardinality(granted)
  BY <1>1, <1>2, ServedGives
<1>7. CASE s.free > 0 /\ free' = s.free - 1 /\ line' = s.line /\ held' = held \cup {r}
  <2>1. Placed(line, granted, held \cup {r})
    BY <1>1 DEF Placed
  <2>2. Cardinality(held \cup {r}) = Cardinality(held) + 1
    BY <1>1, <1>2, FS_AddElement
  <2>3. free + n + Cardinality(granted) + Cardinality(held \cup {r}) = current' + owed' + 1
    BY <1>2, <1>3, <1>5, <2>2
  <2>4. 1 <= s.free
    BY <1>6, <1>7
  <2> QED BY <1>2, <1>3, <1>4, <1>7, <2>1, <2>3, <2>4, AfterServing
<1>8. CASE s.free = 0 /\ free' = 0 /\ line' = Append(s.line, r) /\ held' = held
  <2>1. r \notin Elems(s.line) /\ r \notin granted \cup s.to
    BY <1>1, <1>6
  <2>2. Placed(line', granted', held')
    BY <1>1, <1>4, <1>6, <1>8, <2>1, AppendPlaced
  <2>3. Cardinality(granted') = free + n + Cardinality(granted)
    <3>1. granted' \subseteq Requests
      BY <2>2 DEF Placed
    <3>2. Cardinality(granted') \in Nat
      BY <3>1, ConstantsAssumption, FS_Subset, FS_CardinalityType DEF ConstantsAssumption
    <3>3. Cardinality(granted \cup s.to) = Cardinality(granted')
      BY <1>4
    <3> QED BY <1>2, <1>6, <1>8, <3>2, <3>3
  <2>4. free' + Cardinality(held') + Cardinality(granted') = current' + owed'
    BY <1>2, <1>3, <1>5, <1>8, <2>3
  <2> QED BY <1>3, <1>4, <1>8, <2>2, <2>4 DEF IInv, PermitsBalance
<1> QED BY <1>7, <1>8 DEF Acquire

LEMMA PollInv ==
  ASSUME IInv, NEW r \in Requests, Poll(r)
  PROVE  IInv'
<1>1. /\ Cardinality(granted') = Cardinality(granted) - 1
      /\ Cardinality(held') = Cardinality(held) + 1
  BY Known, FS_RemoveElement, FS_AddElement DEF Poll, IInv, Placed
<1>2. Placed(line', granted', held')
  BY DEF Poll, IInv, Placed, Elems
<1>3. PermitsBalance'
  BY Known, <1>1 DEF Poll, limit, IInv, PermitsBalance
<1> QED BY <1>2, <1>3 DEF Poll, limit, IInv

LEMMA ReleaseInv ==
  ASSUME IInv, NEW r \in Requests, Release(r)
  PROVE  IInv'
<1> DEFINE back == IF owed > 0 THEN 0 ELSE 1
           owes == owed - (1 - back)
           paid == Lesser(Steps, owes)
           n == back + Steps - paid
           s == Served(n, free, line)
           h == held \ {r}
<1>1. /\ free \in Nat /\ owed \in Nat /\ quiet \in Nat /\ IsFiniteSet(held)
      /\ Cardinality(held) \in Nat /\ Cardinality(granted) \in Nat
  BY Known
<1>2. /\ current \in 1..Configured /\ current + owed <= Configured
      /\ Configured \in Nat /\ MaxQuiet \in Nat /\ quiet \in 0..MaxQuiet
  BY ConstantsAssumption DEF ConstantsAssumption, IInv, Limited
<1>3. Steps \in Nat /\ Steps <= quiet /\ Steps <= Configured - current
  <2>1. Configured - current \in Nat
    BY <1>2
  <2> QED BY <1>1, <2>1, LesserIs DEF Steps
<1>4. back \in {0, 1} /\ owes \in Nat /\ owes = owed - (1 - back)
  BY <1>1
<1>5. /\ free' = s.free /\ line' = s.line /\ granted' = granted \cup s.to
      /\ held' = h /\ r \in held /\ late' \subseteq Requests
      /\ current' = current + Steps /\ owed' = owes - paid /\ quiet' = quiet - Steps
  BY DEF Release, IInv
<1> HIDE DEF back, owes
<1>6. paid \in Nat /\ paid <= Steps /\ paid <= owes /\ (paid = Steps \/ paid = owes)
  BY <1>3, <1>4, LesserIs
<1> HIDE DEF paid
<1>7. n \in Nat
  BY <1>3, <1>4, <1>6
<1>8. Limited(current', owed') /\ quiet' \in 0..MaxQuiet
  BY <1>1, <1>2, <1>3, <1>4, <1>5, <1>6 DEF Limited
<1>9. Placed(line, granted, h) /\ s.free \in Nat
  <2>1. Placed(line, granted, held)
    BY DEF IInv
  <2>2. Placed(line, granted, h)
    BY <2>1 DEF Placed
  <2> HIDE DEF n, h
  <2>3. s.free \in Nat
    BY <1>1, <1>7, <2>1, ServedGives
  <2> QED BY <2>2, <2>3
<1>10. Cardinality(h) = Cardinality(held) - 1
  BY <1>1, <1>5, FS_RemoveElement
<1>11. free + Cardinality(held) + Cardinality(granted) = current + owed
  BY DEF IInv, PermitsBalance
<1>12. free + n + Cardinality(granted) + Cardinality(h) = current' + owed' + 0
  BY <1>1, <1>2, <1>3, <1>4, <1>5, <1>6, <1>10, <1>11
<1>13. 0 <= s.free /\ free' = s.free - 0
  BY <1>5, <1>9
<1> HIDE DEF n, h
<1> QED BY <1>5, <1>7, <1>8, <1>9, <1>12, <1>13, AfterServing

LEMMA CancelInv ==
  ASSUME IInv, NEW r \in Requests, Cancel(r)
  PROVE  IInv'
<1>1. /\ Limited(current', owed') /\ quiet' \in 0..MaxQuiet /\ late' \subseteq Requests
      /\ current' = current /\ owed' = owed /\ held' = held
  BY DEF Cancel, limit, IInv
<1>2. Placed(line, granted, held)
  BY DEF IInv
<1>3. CASE /\ r \in Queued /\ UNCHANGED <<free, granted>>
           /\ \E p \in 1..Len(line) : line[p] = r /\ line' = RemoveAt(line, p)
  <2>1. PICK p \in 1..Len(line) : line' = RemoveAt(line, p)
    BY <1>3
  <2>2. Placed(line', granted', held')
    BY <1>1, <1>2, <1>3, <2>1, RemovePlaced
  <2> QED BY <1>1, <1>3, <2>2 DEF IInv, PermitsBalance
<1>4. CASE /\ r \in granted
           /\ LET s == Served(1, free, line) IN
                /\ free' = s.free /\ line' = s.line
                /\ granted' = (granted \ {r}) \cup s.to
  <2> DEFINE g == granted \ {r}
             s == Served(1, free, line)
  <2>1. Placed(line, g, held)
    BY <1>2 DEF Placed
  <2>2. Cardinality(g) = Cardinality(granted) - 1
    BY <1>4, Known, FS_RemoveElement
  <2>3. free + 1 + Cardinality(g) + Cardinality(held) = current' + owed' + 0
    BY <1>1, <2>2, Known DEF IInv, PermitsBalance
  <2>4. s.free \in Nat
    BY <2>1, ServedGives, Known
  <2>5. 0 <= s.free /\ free' = s.free - 0 /\ line' = s.line /\ granted' = g \cup s.to
    BY <1>4, <2>4
  <2> HIDE DEF g
  <2> QED BY <1>1, <2>1, <2>3, <2>5, AfterServing
<1> QED BY <1>3, <1>4 DEF Cancel

LEMMA CutInv ==
  ASSUME IInv, Cut
  PROVE  IInv'
<1> DEFINE n == Grown.permits
           s == Served(n, free, line)
           cutTo == IF Grown.current = 1 THEN 1 ELSE Grown.current \div 2
           removed == Grown.current - cutTo
           forgotten == Lesser(removed, s.free)
<1>1. /\ quiet' = 0 /\ current' = cutTo /\ owed' = Grown.owed + removed - forgotten
      /\ free' = s.free - forgotten /\ line' = s.line /\ granted' = granted \cup s.to
      /\ held' = held /\ late' \subseteq Requests
  BY DEF Cut, IInv
<1>2. /\ n \in Nat /\ free \in Nat /\ current \in Nat /\ owed \in Nat
      /\ Cardinality(held) \in Nat /\ Cardinality(granted) \in Nat
      /\ Grown.current + Grown.owed = current + owed + n
  BY Known
<1>3. /\ Grown.current \in 1..Configured /\ Grown.owed \in Nat
      /\ Grown.current + Grown.owed <= Configured
      /\ Configured \in Nat /\ MaxQuiet \in Nat
  BY Known, ConstantsAssumption DEF Limited, ConstantsAssumption
<1>4. Placed(line, granted, held) /\ s.free \in Nat
  BY <1>2, ServedGives DEF IInv
<1>5. cutTo \in 1..Grown.current /\ removed \in Nat
  BY <1>3
<1> HIDE DEF cutTo
<1>6. forgotten \in Nat /\ forgotten <= removed /\ forgotten <= s.free
  BY <1>4, <1>5, LesserIs
<1> HIDE DEF forgotten
<1>7. Limited(current', owed') /\ quiet' \in 0..MaxQuiet
  BY <1>1, <1>3, <1>5, <1>6 DEF Limited
<1>8. free + Cardinality(held) + Cardinality(granted) = current + owed
  BY DEF IInv, PermitsBalance
<1>9. current' + owed' + forgotten = current + owed + n
  BY <1>1, <1>2, <1>3, <1>5, <1>6
<1>10. free + n + Cardinality(granted) + Cardinality(held) = current' + owed' + forgotten
  BY <1>2, <1>8, <1>9
<1> HIDE DEF n
<1> QED BY <1>1, <1>2, <1>4, <1>6, <1>7, <1>10, AfterServing

(* Growth on its own: a 429 in the window of the last, or a read. *)
LEMMA GrowInv ==
  ASSUME IInv, Ignore429 \/ Read
  PROVE  IInv'
<1> DEFINE n == Grown.permits
           s == Served(n, free, line)
<1>1. /\ free' = s.free /\ line' = s.line /\ granted' = granted \cup s.to
      /\ held' = held /\ late' \subseteq Requests
      /\ current' = Grown.current /\ owed' = Grown.owed
      /\ quiet' = 0 \/ quiet' = Grown.quiet
  BY DEF Ignore429, Read, IInv
<1>2. /\ n \in Nat /\ free \in Nat /\ current \in Nat /\ owed \in Nat
      /\ Cardinality(held) \in Nat /\ Cardinality(granted) \in Nat
      /\ current' + owed' = current + owed + n
  BY <1>1, Known
<1>3. Limited(current', owed') /\ quiet' \in 0..MaxQuiet
  BY <1>1, Known, ConstantsAssumption DEF ConstantsAssumption
<1>4. Placed(line, granted, held) /\ s.free \in Nat
  BY <1>2, ServedGives DEF IInv
<1>5. free + n + Cardinality(granted) + Cardinality(held) = current' + owed' + 0
  BY <1>2 DEF IInv, PermitsBalance
<1>6. 0 <= s.free /\ free' = s.free - 0
  BY <1>1, <1>4
<1> HIDE DEF n
<1> QED BY <1>1, <1>2, <1>3, <1>4, <1>5, <1>6, AfterServing

LEMMA NextInv ==
  ASSUME IInv, [Next]_vars
  PROVE  IInv'
<1>1. CASE QuietIntervalPasses
  BY <1>1, ConstantsAssumption
  DEF QuietIntervalPasses, semaphore, IInv, PermitsBalance, ConstantsAssumption
<1>2. CASE UNCHANGED vars
  BY <1>2 DEF vars, limit, semaphore, IInv, PermitsBalance
<1> QED
  BY <1>1, <1>2, AcquireInv, PollInv, ReleaseInv, CancelInv, CutInv, GrowInv DEF Next

LEMMA AlwaysIInv == Spec => []IInv
  BY InitInv, NextInv, PTL DEF Spec

-----------------------------------------------------------------------------
(* The results. *)

(* limit.rs's account of LimitState.current: through every interleaving of
   cuts, growth, releases and cancelled waits, the permits free and handed
   out are the limit and what it still owes. *)
THEOREM PermitsAlwaysBalance == Spec => []PermitsBalance
<1>1. IInv => PermitsBalance
  BY DEF IInv
<1> QED BY <1>1, AlwaysIInv, PTL

(* limit.rs grows to `configured` and no further: no history of cuts and
   quiet times makes more permits than the store was built with, the ones
   still owed included. *)
THEOREM NeverAboveConfigured == Spec => []WithinConfigured
<1>1. IInv => WithinConfigured
  BY DEF IInv, Limited, WithinConfigured
<1> QED BY <1>1, AlwaysIInv, PTL

(* The limit stays between 1 and `configured` (a store is never cut off for
   good), and the semaphore never has more permits than were configured. *)
THEOREM TypeAlwaysOK == Spec => []TypeOK
<1>1. ASSUME IInv PROVE TypeOK
  <2>1. /\ current \in 1..Configured /\ owed \in Nat /\ current + owed <= Configured
        /\ Configured \in Nat
    BY <1>1, ConstantsAssumption DEF IInv, Limited, ConstantsAssumption
  <2>2. free \in Nat /\ Cardinality(held) \in Nat /\ Cardinality(granted) \in Nat
    BY <1>1, Known
  <2>3. owed \in 0..Configured /\ free \in 0..Configured
    BY <1>1, <2>1, <2>2 DEF IInv, PermitsBalance
  <2> QED BY <1>1, <2>1, <2>3 DEF TypeOK, IInv, Placed
<1> QED BY <1>1, AlwaysIInv, PTL
=============================================================================
