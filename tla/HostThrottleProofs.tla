------------------------- MODULE HostThrottleProofs -------------------------
(***************************************************************************)
(* For any requests, times and Retry-After values: the types, with a pace  *)
(* that is off or between its floor and its cap (TypeOK); nothing is sent  *)
(* while a Retry-After runs (RetryAfterHolds); requests that asked since   *)
(* the last 429 start the pace after it and apart (PacedSinceAnswer); a    *)
(* host that has been quiet paces nobody (QuietHostUnpaced).               *)
(***************************************************************************)
EXTENDS HostThrottle, TLAPS, WellFoundedInduction

LEMMA LeastNumber ==
  ASSUME NEW T \in SUBSET Nat, T # {}
  PROVE  \E x \in T : \A y \in T : x <= y
<1>1. PICK x \in T : \A y \in T : ~(<<y, x>> \in OpToRel(<, Nat))
  BY NatLessThanWellFounded, WFMin
<1>2. \A y \in T : ~(y < x)
  BY <1>1 DEF OpToRel
<1> QED BY <1>2

LEMMA MinIsLeast ==
  ASSUME NEW T \in SUBSET Nat, T # {}
  PROVE  Min(T) \in T /\ \A y \in T : Min(T) <= y
BY LeastNumber DEF Min

\* The lesser of two, the greater of two.
LEMMA MinOfTwo ==
  ASSUME NEW x \in Nat, NEW y \in Nat
  PROVE  Min({x, y}) = IF x <= y THEN x ELSE y
<1> DEFINE T == {x, y}
<1>1. Min(T) \in T /\ \A z \in T : Min(T) <= z
  BY MinIsLeast
<1> QED BY <1>1

LEMMA MaxOfTwo ==
  ASSUME NEW x \in Nat, NEW y \in Nat
  PROVE  Max({x, y}) = IF x >= y THEN x ELSE y
<1> DEFINE m == IF x >= y THEN x ELSE y
<1>1. m \in {x, y} /\ \A z \in {x, y} : m >= z
  OBVIOUS
<1>2. Max({x, y}) \in {x, y} /\ \A z \in {x, y} : Max({x, y}) >= z
  BY <1>1 DEF Max
<1> QED BY <1>2

Times == Nat \cup {None}

\* The latest of an instant and two there may be.
LEMMA LatestOf ==
  ASSUME NEW x \in Nat, NEW y \in Times, NEW z \in Times
  PROVE  LET m == Latest({x, y, z})
         IN /\ m \in {x, y, z} /\ m \in Nat /\ m >= x
            /\ y # None => m >= y
            /\ z # None => m >= z
<1> DEFINE T == {x, y, z} \ {None}
           greater(a, b) == IF b = None THEN a ELSE IF a >= b THEN a ELSE b
           g == greater(greater(x, y), z)
<1>1. None \notin Nat /\ x # None
  BY ConstantsAssumption
<1>2. T \subseteq Nat
  BY <1>1 DEF Times
<1>3. g \in T /\ \A t \in T : g >= t
  BY <1>1 DEF Times
<1>4. Max(T) \in T /\ \A t \in T : Max(T) >= t
  <2> HIDE DEF g, T
  <2> QED BY <1>3 DEF Max
<1>5. Latest({x, y, z}) = Max(T)
  BY DEF Latest
<1> HIDE DEF g
<1>6. x \in T /\ (y # None => y \in T) /\ (z # None => z \in T)
  BY <1>1
<1> DEFINE m == Max(T)
<1>7. m \in T /\ m \in {x, y, z} /\ m \in Nat
  BY <1>2, <1>4
<1>8. m >= x /\ (y # None => m >= y) /\ (z # None => m >= z)
  BY <1>4, <1>6
<1> HIDE DEF m
<1> QED BY <1>5, <1>7, <1>8 DEF m

-----------------------------------------------------------------------------
(* The halvings of a pace.                                                 *)

LEMMA HalvesLess ==
  ASSUME NEW p \in Nat
  PROVE  /\ Halves(p) \in Nat /\ Halves(p) <= p /\ (p > 0 => Halves(p) < p)
         /\ Halves(p) = 0 \/ Halves(p) >= PaceFloor
         /\ \A q \in Nat : p <= q => Halves(p) <= Halves(q)
BY ConstantsAssumption DEF Halves

\* The pace after n halvings, from the pace after the one before.
Step(p, h, n) == IF n = 0 THEN p ELSE Halves(h[n - 1])

LEMMA HalvedExists ==
  ASSUME NEW p, NEW last \in Nat
  PROVE  \E h : h = [n \in 0..last |-> Step(p, h, n)]
<1> DEFINE Is(h, m) == h = [n \in 0..m |-> Step(p, h, n)]
           missing == {m \in Nat : ~\E h : Is(h, m)}
<1>1. SUFFICES ASSUME missing # {} PROVE FALSE
  OBVIOUS
<1>2. PICK m \in missing : \A l \in missing : m <= l
  <2> HIDE DEF Is
  <2> QED BY <1>1, LeastNumber
<1>3. CASE m = 0
  <2> DEFINE h == [n \in 0..0 |-> p]
  <2>1. Is(h, 0)
    BY DEF Step
  <2> QED BY <1>2, <1>3, <2>1
<1>4. CASE m # 0
  <2>1. m - 1 \in Nat /\ m - 1 \notin missing
    BY <1>2, <1>4
  <2>2. PICK g : Is(g, m - 1)
    BY <2>1
  <2> DEFINE h == [n \in 0..m |-> IF n = m THEN Step(p, g, m) ELSE g[n]]
  <2>3. ASSUME NEW n \in 0..m PROVE h[n] = Step(p, h, n)
    <3>1. CASE n = m
      <4>1. m - 1 \in 0..m /\ m - 1 # m
        BY <2>1
      <4>2. h[m - 1] = g[m - 1]
        BY <4>1
      <4> QED BY <1>4, <3>1, <4>2 DEF Step
    <3>2. CASE n # m
      <4>1. n \in 0..(m - 1)
        BY <1>2, <3>2
      <4>2. g[n] = Step(p, g, n)
        BY <2>2, <4>1
      <4>3. CASE n = 0
        BY <3>2, <4>2, <4>3 DEF Step
      <4>4. CASE n # 0
        <5>1. n - 1 \in 0..m /\ n - 1 # m
          BY <4>1, <4>4
        <5> QED BY <3>2, <4>2, <4>4, <5>1 DEF Step
      <4> QED BY <4>3, <4>4
    <3> QED BY <3>1, <3>2
  <2>4. Is(h, m)
    <3>1. h = [n \in 0..m |-> h[n]]
      OBVIOUS
    <3> HIDE DEF h
    <3> QED BY <2>3, <3>1
  <2> QED BY <1>2, <2>4
<1> QED BY <1>3, <1>4

LEMMA HalvedStep ==
  ASSUME NEW p \in Nat, NEW n \in 0..p
  PROVE  Halved(p)[n] = Step(p, Halved(p), n)
<1>1. PICK h : h = [k \in 0..p |-> Step(p, h, k)]
  BY HalvedExists
<1>2. Halved(p) =
        CHOOSE g : g = [k \in 0..p |-> IF k = 0 THEN p ELSE Halves(g[k - 1])]
  BY DEF Halved
<1>3. Halved(p) = [k \in 0..p |-> IF k = 0 THEN p ELSE Halves(Halved(p)[k - 1])]
  BY <1>1, <1>2 DEF Step
<1> QED BY <1>3 DEF Step

\* Each halving takes something off, so that as many as the pace is end it.
LEMMA HalvedBounds ==
  ASSUME NEW p \in Nat, NEW n \in 0..p
  PROVE  /\ Halved(p)[n] \in Nat /\ Halved(p)[n] <= p - n
         /\ n > 0 => Halved(p)[n] = 0 \/ Halved(p)[n] >= PaceFloor
<1> DEFINE h == Halved(p)
           Good(k) == h[k] \in Nat /\ h[k] <= p - k
           bad == {k \in 0..p : ~Good(k)}
<1>1. \A k \in 0..p : h[k] = Step(p, h, k)
  BY HalvedStep
<1> HIDE DEF h
<1>2. ASSUME bad # {} PROVE FALSE
  <2>1. bad \in SUBSET Nat
    OBVIOUS
  <2>2. PICK k \in bad : \A l \in bad : k <= l
    <3> HIDE DEF bad
    <3> QED BY <1>2, <2>1, LeastNumber
  <2>3. CASE k = 0
    BY <1>1, <2>2, <2>3 DEF Step
  <2>4. CASE k # 0
    <3>1. k \in 1..p /\ k - 1 \in 0..p /\ k - 1 \notin bad
      BY <2>2, <2>4
    <3>2. h[k - 1] \in Nat /\ h[k - 1] <= p - (k - 1) /\ h[k] = Halves(h[k - 1])
      BY <1>1, <2>4, <3>1 DEF Step
    <3>3. /\ h[k] \in Nat /\ (h[k - 1] > 0 => h[k] < h[k - 1]) /\ h[k] <= h[k - 1]
      BY <3>2, HalvesLess
    <3>4. Good(k)
      BY <3>1, <3>2, <3>3
    <3> QED BY <2>2, <3>4
  <2> QED BY <2>3, <2>4
<1>3. Good(n)
  BY <1>2
<1>4. ASSUME n > 0 PROVE h[n] = 0 \/ h[n] >= PaceFloor
  <2>1. n - 1 \in 0..p /\ h[n] = Halves(h[n - 1])
    BY <1>1, <1>4 DEF Step
  <2>2. h[n - 1] \in Nat
    BY <1>2, <2>1
  <2> QED BY <2>1, <2>2, HalvesLess
<1> QED BY <1>3, <1>4 DEF h

\* More halvings leave no more.
LEMMA HalvedFalls ==
  ASSUME NEW p \in Nat, NEW m \in 0..p, NEW n \in 0..m
  PROVE  Halved(p)[m] <= Halved(p)[n]
<1> DEFINE h == Halved(p)
           bad == {k \in n..p : ~(h[k] <= h[n])}
<1>1. \A k \in 0..p : h[k] = Step(p, h, k) /\ h[k] \in Nat
  BY HalvedStep, HalvedBounds
<1> HIDE DEF h
<1>2. ASSUME bad # {} PROVE FALSE
  <2>1. bad \in SUBSET Nat
    OBVIOUS
  <2>2. PICK k \in bad : \A l \in bad : k <= l
    <3> HIDE DEF bad
    <3> QED BY <1>2, <2>1, LeastNumber
  <2>3. k # n /\ k \in 1..p /\ k - 1 \in n..p /\ k - 1 \notin bad
    BY <1>1, <2>2
  <2>4. h[k - 1] <= h[n] /\ h[k - 1] \in Nat /\ h[n] \in Nat /\ h[k] = Halves(h[k - 1])
    BY <1>1, <2>3 DEF Step
  <2>5. h[k] \in Nat /\ h[k] <= h[k - 1]
    BY <2>4, HalvesLess
  <2> QED BY <2>2, <2>4, <2>5
<1>3. m \in n..p
  OBVIOUS
<1> QED BY <1>2, <1>3 DEF h

\* Halving from what so many halvings of the cap left at most.
LEMMA HalvedFurther ==
  ASSUME NEW cap \in Nat, NEW j \in 0..cap, NEW p \in Nat, p <= Halved(cap)[j],
         NEW k \in 0..p
  PROVE  j + k \in 0..cap /\ Halved(p)[k] <= Halved(cap)[j + k]
<1> DEFINE h == Halved(cap)
           g == Halved(p)
           bad == {i \in 0..p : ~(g[i] <= h[j + i])}
<1>1. \A i \in 0..cap : h[i] = Step(cap, h, i) /\ h[i] \in Nat /\ h[i] <= cap - i
  BY HalvedStep, HalvedBounds
<1>2. \A i \in 0..p : g[i] = Step(p, g, i) /\ g[i] \in Nat
  BY HalvedStep, HalvedBounds
<1>3. p <= h[j]
  OBVIOUS
<1> HIDE DEF h, g
<1>4. \A i \in 0..p : j + i \in 0..cap
  BY <1>1, <1>3
<1>5. ASSUME bad # {} PROVE FALSE
  <2>1. bad \in SUBSET Nat
    OBVIOUS
  <2>2. PICK i \in bad : \A l \in bad : i <= l
    <3> HIDE DEF bad
    <3> QED BY <1>5, <2>1, LeastNumber
  <2>3. CASE i = 0
    <3>1. g[i] = p /\ j + i = j
      BY <1>2, <2>3 DEF Step
    <3> QED BY <1>3, <2>2, <3>1
  <2>4. CASE i # 0
    <3>1. i - 1 \in 0..p /\ i - 1 \notin bad /\ j + i # 0 /\ (j + i) - 1 = j + (i - 1)
      BY <2>2, <2>4
    <3>2. /\ g[i] = Halves(g[i - 1]) /\ g[i - 1] \in Nat
          /\ h[j + i] = Halves(h[j + (i - 1)]) /\ h[j + (i - 1)] \in Nat
      BY <1>1, <1>2, <1>4, <2>2, <2>4, <3>1 DEF Step
    <3>3. g[i - 1] <= h[j + (i - 1)]
      BY <3>1
    <3> QED BY <2>2, <3>2, <3>3, HalvesLess
  <2> QED BY <2>3, <2>4
<1> QED BY <1>4, <1>5 DEF h, g

-----------------------------------------------------------------------------
(* decay.                                                                  *)

\* What the state says of the pace and the quiet time, for decay to rest on.
PaceTypes ==
  /\ now \in Nat /\ pace \in {0} \cup PaceFloor..PaceCap
  /\ quietSince \in Times /\ (quietSince # None => quietSince <= now)

LEMMA ProductNat == ASSUME NEW x \in Nat, NEW y \in Nat PROVE x * y \in Nat
OBVIOUS

LEMMA QuietStepsAre ==
  ASSUME PaceTypes
  PROVE  /\ QuietSteps \in 0..pace
         /\ quietSince = None => QuietSteps = 0
         /\ quietSince # None =>
              /\ quietSince + QuietSteps * QuietInterval \in Nat
              /\ quietSince + QuietSteps * QuietInterval <= now
              /\ \/ Halved(pace)[QuietSteps] = 0
                 \/ now < quietSince + QuietSteps * QuietInterval + QuietInterval
<1>1. /\ pace \in Nat /\ QuietInterval \in Nat /\ now \in Nat
      /\ quietSince # None => quietSince \in Nat
  BY ConstantsAssumption DEF PaceTypes, Times
<1>2. CASE quietSince = None
  <2>1. QuietSteps = 0
    BY <1>2 DEF QuietSteps
  <2> QED BY <1>1, <1>2, <2>1
<1>3. CASE quietSince # None
  <2> DEFINE Enough(n) == \/ Halved(pace)[n] = 0
                          \/ now - quietSince < (n + 1) * QuietInterval
             ends == {n \in 0..pace : Enough(n)}
             k == QuietSteps
  <2>1. k = Min(ends)
    BY <1>3 DEF QuietSteps
  <2>2. pace \in ends
    <3>1. pace \in 0..pace
      BY <1>1
    <3>2. Halved(pace)[pace] = 0
      BY <1>1, <3>1, HalvedBounds
    <3> QED BY <3>1, <3>2
  <2>3. k \in ends /\ \A n \in ends : k <= n
    <3>1. ends \in SUBSET Nat /\ ends # {}
      BY <2>2
    <3> HIDE DEF ends, k
    <3> QED BY <2>1, <3>1, MinIsLeast
  <2>4. k \in 0..pace /\ k \in Nat /\ quietSince \in Nat
    BY <1>1, <1>3, <2>3
  <2>5. k = 0 \/ ~(now - quietSince < k * QuietInterval)
    <3>1. SUFFICES ASSUME k # 0 PROVE ~(now - quietSince < k * QuietInterval)
      OBVIOUS
    <3>2. k - 1 \in 0..pace /\ ~(k <= k - 1) /\ (k - 1) + 1 = k
      BY <1>1, <2>4, <3>1
    <3>3. ~Enough(k - 1)
      BY <2>3, <3>2
    <3> QED BY <3>2, <3>3
  <2>6. Halved(pace)[k] = 0 \/ now - quietSince < (k + 1) * QuietInterval
    BY <2>3
  <2> HIDE DEF k
  <2> DEFINE q == k * QuietInterval
  <2>7. q \in Nat /\ (k = 0 => q = 0)
    BY <1>1, <2>4, ProductNat
  <2>8. (k + 1) * QuietInterval = q + QuietInterval
    BY <1>1, <2>4
  <2> HIDE DEF q
  <2>9. quietSince + q \in Nat /\ quietSince + q <= now
    <3>1. CASE k = 0
      BY <1>1, <1>3, <2>4, <2>7, <3>1 DEF PaceTypes
    <3>2. CASE k # 0
      <4>1. ~(now - quietSince < q)
        BY <2>5, <3>2 DEF q
      <4> QED BY <1>1, <2>4, <2>7, <4>1
    <3> QED BY <3>1, <3>2
  <2>10. Halved(pace)[k] = 0 \/ now < quietSince + q + QuietInterval
    <3>1. CASE now - quietSince < q + QuietInterval
      BY <1>1, <2>4, <2>7, <3>1
    <3> QED BY <2>6, <2>8, <3>1
  <2> QED BY <1>3, <2>4, <2>9, <2>10 DEF q, k
<1> QED BY <1>2, <1>3

\* What decay leaves: no more pace, between the bounds, and the quiet time of
\* the last interval.
LEMMA DecayedTypes ==
  ASSUME PaceTypes
  PROVE  LET d == Decayed
         IN /\ d.pace \in {0} \cup PaceFloor..PaceCap /\ d.pace <= pace /\ d.pace \in Nat
            /\ d.nextAt = nextAt \/ (d.nextAt = None /\ d.pace = 0)
            /\ d.quietSince \in Times
            /\ d.quietSince # None => d.quietSince <= now
            /\ quietSince # None => d.quietSince # None
            /\ d.pace > 0 /\ quietSince # None => now < d.quietSince + QuietInterval
<1> DEFINE d == Decayed
           k == QuietSteps
<1>1. /\ d.pace = Halved(pace)[k]
      /\ d.nextAt = IF k > 0 /\ Halved(pace)[k] = 0 THEN None ELSE nextAt
      /\ d.quietSince = IF quietSince = None THEN None ELSE quietSince + k * QuietInterval
  BY DEF Decayed
<1>2. k \in 0..pace /\ pace \in Nat
  BY QuietStepsAre, ConstantsAssumption DEF PaceTypes
<1>3. /\ d.pace \in Nat /\ d.pace <= pace - k
      /\ k > 0 => d.pace = 0 \/ d.pace >= PaceFloor
  BY <1>1, <1>2, HalvedBounds
<1>4. k = 0 => d.pace = pace
  BY <1>1, <1>2, HalvedStep DEF Step
<1>5. d.pace \in {0} \cup PaceFloor..PaceCap /\ d.pace <= pace
  <2> HIDE DEF d, k
  <2> QED BY <1>2, <1>3, <1>4, ConstantsAssumption DEF PaceTypes
<1>6. None \notin Nat
  BY ConstantsAssumption
<1>7. /\ d.quietSince \in Times
      /\ d.quietSince # None => d.quietSince <= now
      /\ quietSince # None => d.quietSince # None
      /\ d.pace > 0 /\ quietSince # None => now < d.quietSince + QuietInterval
  <2>1. CASE quietSince = None
    BY <1>1, <2>1 DEF Times
  <2>2. CASE quietSince # None
    <3> DEFINE q == quietSince + k * QuietInterval
    <3>1. /\ q \in Nat /\ q <= now
          /\ Halved(pace)[k] = 0 \/ now < q + QuietInterval
      BY <2>2, QuietStepsAre
    <3>2. d.quietSince = q
      BY <1>1, <2>2
    <3> HIDE DEF q, d, k
    <3> QED BY <1>1, <1>6, <2>2, <3>1, <3>2 DEF Times
  <2> QED BY <2>1, <2>2
<1>8. d.nextAt = nextAt \/ (d.nextAt = None /\ d.pace = 0)
  BY <1>1
<1> HIDE DEF d, k
<1> QED BY <1>3, <1>5, <1>7, <1>8 DEF d

-----------------------------------------------------------------------------
(* The types: decay needs of the quiet time that it lies in the past.      *)

Types == TypeOK /\ (quietSince # None => quietSince <= now)

LEMMA TypesAre ==
  ASSUME Types
  PROVE  /\ PaceTypes /\ now \in Nat /\ now <= MaxTime /\ MaxTime \in Nat
         /\ pace \in Nat /\ pace <= PaceCap /\ PaceCap \in Nat
         /\ {pausedUntil, nextAt, pacedAt, answeredAt, quietSince} \subseteq Times
         /\ None \notin Nat /\ QuietInterval \in Nat /\ PaceFloor \in Nat
         /\ \A r \in Requests : until[r] \in Nat
         /\ lastStart # None => lastStart.at \in Nat
BY ConstantsAssumption DEF Types, TypeOK, PaceTypes, Times, Instants

\* The instants a step may set.
LEMMA InstantAfter ==
  ASSUME NEW t \in Nat, t <= MaxTime, NEW w \in Nat,
         w <= PaceCap \/ w <= MaxRetryAfter \/ w <= RetryDelay
  PROVE  t \in Instants /\ t + w \in Instants
BY ConstantsAssumption DEF Instants

Waiting == {r \in Requests : at[r] \in {"turn", "held"}}

\* The turn a request takes.
Turn == Latest({now, Decayed.nextAt, pausedUntil})

LEMMA TurnIs ==
  ASSUME Types
  PROVE  /\ Turn \in Nat /\ now <= Turn
         /\ Decayed.nextAt # None => Decayed.nextAt <= Turn
         /\ pausedUntil # None => pausedUntil <= Turn
<1> DEFINE y == Decayed.nextAt
           z == pausedUntil
<1>1. now \in Nat /\ y \in Times /\ z \in Times
  <2>1. y = nextAt \/ y = None
    BY TypesAre, DecayedTypes
  <2> QED BY <2>1, TypesAre DEF Times
<1>2. Turn = Latest({now, y, z})
  BY DEF Turn
<1>3. /\ Latest({now, y, z}) \in Nat /\ Latest({now, y, z}) >= now
      /\ y # None => Latest({now, y, z}) >= y
      /\ z # None => Latest({now, y, z}) >= z
  <2> HIDE DEF y, z
  <2> QED BY <1>1, LatestOf
<1> DEFINE m == Turn
<1>4. y # None => y \in Nat
  BY <1>1 DEF Times
<1>5. z # None => z \in Nat
  BY <1>1 DEF Times
<1> HIDE DEF y, z, m
<1>6. m \in Nat /\ m >= now /\ (y # None => m >= y) /\ (z # None => m >= z)
  BY <1>2, <1>3 DEF m
<1>7. m \in Nat /\ now <= m /\ (y # None => y <= m) /\ (z # None => z <= m)
  BY <1>1, <1>4, <1>5, <1>6
<1> QED BY <1>7 DEF m, y, z

LEMMA TypesInit == Init => Types
<1> SUFFICES ASSUME Init PROVE Types
  OBVIOUS
<1>1. now = 0 /\ 0 \in 0..MaxTime /\ 0 \in Instants
  BY InstantAfter, ConstantsAssumption DEF Init
<1> QED BY <1>1 DEF Init, Types, TypeOK, Places

LEMMA TakeTurnTypes ==
  ASSUME Types, NEW r \in Requests, TakeTurn(r)
  PROVE  Types'
<1> DEFINE d == Decayed
           t == Turn
<1>1. /\ at[r] = "idle" /\ t <= MaxTime /\ pace' = d.pace /\ quietSince' = d.quietSince
      /\ \/ /\ nextAt' = d.nextAt /\ at' = [at EXCEPT ![r] = "held"]
            /\ until' = [until EXCEPT ![r] = now]
         \/ /\ nextAt' = t + d.pace /\ at' = [at EXCEPT ![r] = "turn"]
            /\ until' = [until EXCEPT ![r] = t]
      /\ paced' \subseteq paced \cup {r} /\ fresh' = fresh \cup {r}
      /\ UNCHANGED <<now, pausedUntil, pacedAt, answeredAt, lastStart>>
  BY DEF TakeTurn, Turn
<1>2. /\ d.pace \in {0} \cup PaceFloor..PaceCap /\ d.pace \in Nat /\ d.pace <= PaceCap
      /\ d.nextAt \in {nextAt, None}
      /\ d.quietSince \in Times /\ (d.quietSince # None => d.quietSince <= now)
  <2>1. PaceCap \in Nat /\ pace \in Nat /\ pace <= PaceCap
    BY TypesAre
  <2> HIDE DEF d
  <2> QED BY <2>1, TypesAre, DecayedTypes DEF d
<1>3. t \in Nat /\ now \in Nat /\ now <= MaxTime /\ MaxTime \in Nat
  BY TurnIs, TypesAre
<1> HIDE DEF d, t
<1>4. t \in Instants /\ t + d.pace \in Instants /\ now \in Instants
  <2>1. t <= MaxTime /\ d.pace \in Nat /\ d.pace <= PaceCap
    BY <1>1, <1>2
  <2> QED BY <1>3, <2>1, InstantAfter
<1>5. d.quietSince \in Instants \cup {None}
  <2>1. CASE d.quietSince = None
    BY <2>1
  <2>2. CASE d.quietSince \in Nat /\ d.quietSince # None
    BY <1>2, <1>3, <2>2, InstantAfter
  <2> QED BY <1>2, <2>1, <2>2 DEF Times
<1>6. {pausedUntil', nextAt', pacedAt', answeredAt', quietSince'} \subseteq Instants \cup {None}
  BY <1>1, <1>2, <1>4, <1>5 DEF Types, TypeOK
<1>7. at' \in [Requests -> Places] /\ until' \in [Requests -> Instants]
  BY <1>1, <1>4 DEF Types, TypeOK, Places
<1>8. paced' \cup fresh' \subseteq {s \in Requests : at'[s] \in {"turn", "held"}}
  BY <1>1 DEF Types, TypeOK
<1>9. quietSince' # None => quietSince' <= now'
  BY <1>1, <1>2
<1>10. pace' \in {0} \cup PaceFloor..PaceCap /\ now' \in 0..MaxTime
       /\ lastStart' \in [at : Instants, paced : BOOLEAN, fresh : BOOLEAN] \cup {None}
  BY <1>1, <1>2 DEF Types, TypeOK
<1> QED BY <1>6, <1>7, <1>8, <1>9, <1>10 DEF Types, TypeOK

\* What a step does that leaves the host's state alone.
LEMMA HostSameTypes ==
  ASSUME Types, UNCHANGED host, now' \in 0..MaxTime, now <= now',
         at' \in [Requests -> Places], until' \in [Requests -> Instants],
         paced' \cup fresh' \subseteq Waiting',
         lastStart' \in [at : Instants, paced : BOOLEAN, fresh : BOOLEAN] \cup {None}
  PROVE  Types'
<1>1. /\ pausedUntil' = pausedUntil /\ pace' = pace /\ nextAt' = nextAt
      /\ pacedAt' = pacedAt /\ answeredAt' = answeredAt /\ quietSince' = quietSince
  BY DEF host
<1>2. TypeOK'
  BY <1>1 DEF Types, TypeOK, Waiting
<1>3. quietSince' # None => quietSince' <= now'
  <2>1. SUFFICES ASSUME quietSince # None PROVE quietSince <= now'
    BY <1>1
  <2>2. quietSince \in Nat /\ quietSince <= now /\ now \in Nat
    BY <2>1, TypesAre DEF Types, Times
  <2>3. now' \in Nat
    BY TypesAre
  <2> QED BY <2>2, <2>3
<1> QED BY <1>2, <1>3 DEF Types

LEMMA PassPauseTypes ==
  ASSUME Types, NEW r \in Requests, PassPause(r)
  PROVE  Types'
<1>1. at[r] = "held" /\ now' = now /\ UNCHANGED host
  BY DEF PassPause
<1>2. now \in Nat /\ now \in 0..MaxTime /\ now <= now /\ now \in Instants /\ 0 \in Instants
  BY TypesAre, InstantAfter DEF Types, TypeOK
<1>3. CASE Pausing /\ until' = [until EXCEPT ![r] = pausedUntil] /\ UNCHANGED <<at, history>>
  <2>1. pausedUntil \in Instants
    BY <1>3 DEF Pausing, Types, TypeOK
  <2>2. /\ at' = at /\ paced' = paced /\ fresh' = fresh /\ lastStart' = lastStart
        /\ until' \in [Requests -> Instants]
    BY <1>3, <2>1 DEF history, Types, TypeOK
  <2>3. paced' \cup fresh' \subseteq Waiting'
    BY <2>2 DEF Types, TypeOK, Waiting
  <2> QED BY <1>1, <1>2, <2>2, <2>3, HostSameTypes DEF Types, TypeOK
<1>4. CASE /\ at' = [at EXCEPT ![r] = "sent"] /\ until' = [until EXCEPT ![r] = 0]
           /\ lastStart' = [at |-> now, paced |-> r \in paced, fresh |-> r \in fresh]
           /\ paced' = paced \ {r} /\ fresh' = fresh \ {r}
  <2>1. at' \in [Requests -> Places] /\ until' \in [Requests -> Instants]
    BY <1>2, <1>4 DEF Types, TypeOK, Places
  <2>2. paced' \cup fresh' \subseteq Waiting'
    BY <1>4 DEF Types, TypeOK, Waiting
  <2>3. lastStart' \in [at : Instants, paced : BOOLEAN, fresh : BOOLEAN] \cup {None}
    BY <1>2, <1>4
  <2> QED BY <1>1, <1>2, <2>1, <2>2, <2>3, HostSameTypes
<1> QED BY <1>3, <1>4 DEF PassPause

LEMMA OtherTypes ==
  ASSUME Types, NEW r \in Requests, TurnComes(r) \/ Ends(r) \/ DelayEnds(r)
  PROVE  Types'
<1>1. now' = now /\ UNCHANGED host /\ lastStart' = lastStart
  BY DEF TurnComes, Ends, DelayEnds, history
<1>2. now \in Nat /\ now \in 0..MaxTime /\ now <= now /\ 0 \in Instants
  <2>1. 0 \in Nat /\ 0 <= MaxTime
    BY TypesAre
  <2> QED BY <2>1, TypesAre, InstantAfter DEF Types, TypeOK
<1>3. at' \in [Requests -> Places] /\ until' \in [Requests -> Instants]
  BY <1>2 DEF TurnComes, Ends, DelayEnds, Types, TypeOK, Places
<1>4. paced' \cup fresh' \subseteq Waiting'
  BY DEF TurnComes, Ends, DelayEnds, Types, TypeOK, Waiting, history
<1> QED BY <1>1, <1>2, <1>3, <1>4, HostSameTypes DEF Types, TypeOK

LEMMA TickTypes ==
  ASSUME Types, Tick \/ UNCHANGED vars
  PROVE  Types'
<1>1. now' \in 0..MaxTime /\ now <= now'
  BY TypesAre DEF Tick, vars
<1>2. /\ UNCHANGED host /\ at' = at /\ until' = until /\ paced' = paced /\ fresh' = fresh
      /\ lastStart' = lastStart
  BY DEF Tick, vars, history
<1>3. paced' \cup fresh' \subseteq Waiting'
  BY <1>2 DEF Types, TypeOK, Waiting
<1> QED BY <1>1, <1>2, <1>3, HostSameTypes DEF Types, TypeOK

\* What a 429 does to the pace and its instants.
LEMMA ThrottledSteps ==
  ASSUME Types, NEW r \in Requests, NEW retryAfter \in RetryAfters \cup {None},
         Throttled(r, retryAfter)
  PROVE  /\ at[r] = "sent" /\ now' = now /\ paced' = paced /\ fresh' = {}
         /\ answeredAt' = now /\ quietSince' = now
         /\ pace' \in {0} \cup PaceFloor..PaceCap
         /\ nextAt' \in Instants /\ now + pace' <= nextAt'
         /\ pausedUntil' \in Instants \cup {None} /\ pacedAt' \in Instants \cup {None}
         /\ lastStart' = IF lastStart = None THEN None ELSE [lastStart EXCEPT !.fresh = FALSE]
         /\ \/ at' = [at EXCEPT ![r] = "idle"] /\ until' = until
            \/ at' = [at EXCEPT ![r] = "delay"] /\ until' = [until EXCEPT ![r] = now + RetryDelay]
<1> DEFINE d == Decayed
           wait == IF retryAfter = None THEN 0 ELSE Min({retryAfter, MaxRetryAfter})
           raised == (pacedAt = None \/ now >= pacedAt + CutWindow) /\ d.pace < PaceCap
           newPace == IF raised THEN Raised(d.pace) ELSE d.pace
<1>1. /\ at[r] = "sent" /\ now' = now /\ paced' = paced /\ fresh' = {}
      /\ answeredAt' = now /\ quietSince' = now
      /\ lastStart' = IF lastStart = None THEN None ELSE [lastStart EXCEPT !.fresh = FALSE]
      /\ \/ at' = [at EXCEPT ![r] = "idle"] /\ until' = until
         \/ at' = [at EXCEPT ![r] = "delay"] /\ until' = [until EXCEPT ![r] = now + RetryDelay]
  BY DEF Throttled
<1>2. /\ pausedUntil' = IF wait = 0 THEN pausedUntil ELSE Latest({pausedUntil, now + wait})
      /\ pace' = newPace /\ pacedAt' = IF raised THEN now ELSE pacedAt
      /\ nextAt' = Latest({d.nextAt, now + newPace})
  BY DEF Throttled
<1>3. /\ d.pace \in {0} \cup PaceFloor..PaceCap /\ d.pace \in Nat
      /\ d.nextAt \in {nextAt, None}
  <2> HIDE DEF d
  <2> QED BY TypesAre, DecayedTypes DEF d
<1>4. /\ PaceFloor \in Nat /\ PaceCap \in Nat /\ PaceFloor <= PaceCap
      /\ MaxRetryAfter \in Nat
  BY ConstantsAssumption
<1>5. newPace \in {0} \cup PaceFloor..PaceCap /\ newPace \in Nat /\ newPace <= PaceCap
  <2>1. Raised(d.pace) \in PaceFloor..PaceCap
    <3> DEFINE p == d.pace
    <3>1. p \in Nat /\ 2 * p \in Nat
      BY <1>3
    <3> HIDE DEF p
    <3>2. Max({PaceFloor, 2 * p}) = IF PaceFloor >= 2 * p THEN PaceFloor ELSE 2 * p
      BY <1>4, <3>1, MaxOfTwo
    <3> DEFINE q == Max({PaceFloor, 2 * p})
    <3>3. q \in Nat /\ q >= PaceFloor
      BY <1>4, <3>1, <3>2
    <3> HIDE DEF q
    <3>4. Min({PaceCap, q}) = IF PaceCap <= q THEN PaceCap ELSE q
      BY <1>4, <3>3, MinOfTwo
    <3>5. Raised(p) = Min({PaceCap, q})
      BY DEF Raised, q
    <3>6. Raised(p) \in PaceFloor..PaceCap
      BY <1>4, <3>3, <3>4, <3>5
    <3> QED BY <3>6 DEF p
  <2> DEFINE p == Raised(d.pace)
             c == d.pace
  <2>2. newPace = p \/ newPace = c
    OBVIOUS
  <2>3. p \in PaceFloor..PaceCap /\ c \in {0} \cup PaceFloor..PaceCap
    BY <1>3, <2>1
  <2> HIDE DEF p, c, newPace
  <2> QED BY <1>4, <2>2, <2>3
<1>6. wait \in Nat /\ wait <= MaxRetryAfter
  <2>1. CASE retryAfter = None
    BY <1>4, <2>1
  <2>2. CASE retryAfter # None
    <3>1. retryAfter \in Nat
      BY <2>2, ConstantsAssumption
    <3>2. Min({retryAfter, MaxRetryAfter})
            = IF retryAfter <= MaxRetryAfter THEN retryAfter ELSE MaxRetryAfter
      BY <1>4, <3>1, MinOfTwo
    <3> QED BY <1>4, <2>2, <3>1, <3>2
  <2> QED BY <2>1, <2>2
<1> HIDE DEF wait, newPace
<1>7. now \in Nat /\ now <= MaxTime /\ None \notin Nat
  BY TypesAre
<1>8. now \in Instants /\ now + wait \in Instants /\ now + newPace \in Instants
  BY <1>5, <1>6, <1>7, InstantAfter
<1>9. now + wait \in Nat /\ now + newPace \in Nat
  BY <1>5, <1>6, <1>7
<1>10. pausedUntil' \in Instants \cup {None}
  <2>1. pausedUntil \in Instants \cup {None} /\ pausedUntil \in Times
    BY TypesAre DEF Types, TypeOK
  <2> DEFINE x == now + wait
             y == pausedUntil
  <2>2. Latest({x, y, y}) \in {x, y, y} /\ Latest({x, y, y}) \in Nat
    <3> HIDE DEF x, y
    <3>1. x \in Nat /\ y \in Times
      BY <1>9, <2>1 DEF x, y
    <3> QED BY <3>1, LatestOf
  <2>3. {x, y, y} = {y, x}
    OBVIOUS
  <2>4. Latest({y, x}) \in Instants \cup {None}
    <3> HIDE DEF x, y
    <3>1. x \in Instants /\ y \in Instants \cup {None}
      BY <1>8, <2>1 DEF x, y
    <3> QED BY <2>2, <2>3, <3>1
  <2> QED BY <1>2, <2>1, <2>4
<1>11. nextAt' \in Instants /\ now + newPace <= nextAt'
  <2> DEFINE x == now + newPace
             y == d.nextAt
             m == Latest({x, y, y})
  <2>1. y \in Instants \cup {None} /\ y \in Times
    <3>1. nextAt \in Instants \cup {None} /\ nextAt \in Times /\ None \in Times
      BY TypesAre DEF Types, TypeOK, Times
    <3> QED BY <1>3, <3>1
  <2>2. x \in Nat /\ x \in Instants
    BY <1>8, <1>9
  <2>3. {x, y, y} = {y, x}
    OBVIOUS
  <2>4. nextAt' = m
    BY <1>2, <2>3
  <2> HIDE DEF x, y
  <2>5. m \in {x, y, y} /\ m \in Nat /\ m >= x
    BY <2>1, <2>2, LatestOf
  <2> HIDE DEF m
  <2>6. m \in Instants /\ x <= m
    BY <1>7, <2>1, <2>2, <2>5
  <2> QED BY <2>4, <2>6 DEF x
<1>12. pacedAt' \in Instants \cup {None}
  BY <1>2, <1>8 DEF Types, TypeOK
<1> QED BY <1>1, <1>2, <1>5, <1>10, <1>11, <1>12

LEMMA ThrottledTypes ==
  ASSUME Types, NEW r \in Requests, NEW retryAfter \in RetryAfters \cup {None},
         Throttled(r, retryAfter)
  PROVE  Types'
<1>1. /\ at[r] = "sent" /\ now' = now /\ paced' = paced /\ fresh' = {}
      /\ answeredAt' = now /\ quietSince' = now
      /\ pace' \in {0} \cup PaceFloor..PaceCap
      /\ nextAt' \in Instants
      /\ pausedUntil' \in Instants \cup {None} /\ pacedAt' \in Instants \cup {None}
      /\ lastStart' = IF lastStart = None THEN None ELSE [lastStart EXCEPT !.fresh = FALSE]
      /\ \/ at' = [at EXCEPT ![r] = "idle"] /\ until' = until
         \/ at' = [at EXCEPT ![r] = "delay"] /\ until' = [until EXCEPT ![r] = now + RetryDelay]
  BY ThrottledSteps
<1>2. now \in Nat /\ now <= MaxTime /\ now \in Instants /\ now + RetryDelay \in Instants
  <2>1. now \in Nat /\ now <= MaxTime /\ RetryDelay \in Nat
    BY TypesAre, ConstantsAssumption
  <2> QED BY <2>1, InstantAfter
<1>3. lastStart' \in [at : Instants, paced : BOOLEAN, fresh : BOOLEAN] \cup {None}
  <2>1. CASE lastStart = None
    BY <1>1, <2>1
  <2>2. CASE lastStart # None
    <3>1. lastStart \in [at : Instants, paced : BOOLEAN, fresh : BOOLEAN]
      BY <2>2 DEF Types, TypeOK
    <3>2. [lastStart EXCEPT !.fresh = FALSE] \in [at : Instants, paced : BOOLEAN, fresh : BOOLEAN]
      BY <3>1
    <3> QED BY <1>1, <2>2, <3>2
  <2> QED BY <2>1, <2>2
<1>4. at' \in [Requests -> Places] /\ until' \in [Requests -> Instants]
  BY <1>1, <1>2 DEF Types, TypeOK, Places
<1>5. paced' \cup fresh' \subseteq {s \in Requests : at'[s] \in {"turn", "held"}}
  BY <1>1 DEF Types, TypeOK
<1>6. {pausedUntil', nextAt', pacedAt', answeredAt', quietSince'} \subseteq Instants \cup {None}
  BY <1>1, <1>2
<1>7. quietSince' # None => quietSince' <= now'
  BY <1>1, <1>2
<1>8. now' \in 0..MaxTime
  BY <1>1 DEF Types, TypeOK
<1> QED BY <1>1, <1>3, <1>4, <1>5, <1>6, <1>7, <1>8 DEF Types, TypeOK

LEMMA TypesNext == Types /\ [Next]_vars => Types'
<1> SUFFICES ASSUME Types, [Next]_vars PROVE Types'
  OBVIOUS
<1>1. ASSUME NEW r \in Requests,
             TakeTurn(r) \/ TurnComes(r) \/ PassPause(r) \/ Ends(r) \/ DelayEnds(r)
      PROVE  Types'
  BY <1>1, TakeTurnTypes, PassPauseTypes, OtherTypes
<1>2. ASSUME NEW r \in Requests, NEW retryAfter \in RetryAfters \cup {None},
             Throttled(r, retryAfter)
      PROVE  Types'
  BY <1>2, ThrottledTypes
<1>3. CASE Tick \/ TimeIsUp \/ UNCHANGED vars
  BY <1>3, TickTypes DEF TimeIsUp
<1> QED BY <1>1, <1>2, <1>3 DEF Next

\* The pace is off or between its floor and its cap, through any doublings
\* and halvings, and every instant lies within the times of the constants.
THEOREM HostTypes == Spec => []TypeOK
<1>1. Types => TypeOK
  BY DEF Types
<1> QED BY <1>1, TypesInit, TypesNext, PTL DEF Spec

-----------------------------------------------------------------------------
(* What may not start.                                                     *)

LEMMA OnlyPassPauseStarts ==
  ASSUME Types, [Next]_vars, NEW r \in Requests, Starts(r)
  PROVE  /\ at[r] = "held" /\ now >= until[r] /\ ~Pausing /\ UNCHANGED <<now, host>>
         /\ fresh' = fresh \ {r} /\ until' = [until EXCEPT ![r] = 0]
         /\ lastStart' = [at |-> now, paced |-> r \in paced, fresh |-> r \in fresh]
<1>1. at[r] # "sent" /\ at'[r] = "sent" /\ at \in [Requests -> Places]
  BY DEF Starts, Types, TypeOK
<1>2. ~UNCHANGED at
  BY <1>1
<1>3. ASSUME NEW s \in Requests, at'[s] # "sent", at' = [at EXCEPT ![s] = at'[s]] PROVE FALSE
  BY <1>1, <1>3
<1>4. ASSUME NEW s \in Requests,
             TakeTurn(s) \/ TurnComes(s) \/ Ends(s) \/ DelayEnds(s)
      PROVE  FALSE
  <2>1. at' = [at EXCEPT ![s] = at'[s]] /\ at'[s] # "sent"
    BY <1>1, <1>4 DEF TakeTurn, TurnComes, Ends, DelayEnds
  <2> QED BY <1>3, <2>1
<1>5. ASSUME NEW s \in Requests, NEW retryAfter \in RetryAfters \cup {None},
             Throttled(s, retryAfter)
      PROVE  FALSE
  <2>1. at' = [at EXCEPT ![s] = at'[s]] /\ at'[s] # "sent"
    <3>1. at' = [at EXCEPT ![s] = "idle"] \/ at' = [at EXCEPT ![s] = "delay"]
      BY <1>5 DEF Throttled
    <3> QED BY <1>1, <3>1
  <2> QED BY <1>3, <2>1
<1>6. PICK s \in Requests : PassPause(s)
  BY <1>2, <1>4, <1>5 DEF Next, Tick, TimeIsUp, vars
<1>7. /\ ~Pausing /\ at' = [at EXCEPT ![s] = "sent"] /\ until' = [until EXCEPT ![s] = 0]
      /\ lastStart' = [at |-> now, paced |-> s \in paced, fresh |-> s \in fresh]
      /\ fresh' = fresh \ {s} /\ at[s] = "held" /\ now >= until[s] /\ UNCHANGED <<now, host>>
  BY <1>2, <1>6 DEF PassPause
<1>8. s = r
  BY <1>1, <1>7
<1> QED BY <1>7, <1>8

\* Nothing is sent while a Retry-After runs, whatever pushes it out while
\* requests sleep.
THEOREM PauseHolds == Spec => RetryAfterHolds
<1>1. Types /\ [Next]_vars => [\A r \in Requests : Starts(r) => ~Pausing]_vars
  BY OnlyPassPauseStarts
<1> QED BY <1>1, TypesInit, TypesNext, PTL DEF Spec, RetryAfterHolds

-----------------------------------------------------------------------------
(* Turns since the last 429.  While there is a pace, the turns given since *)
(* the 429 lie at least that far after it and apart, before the next one   *)
(* to give, and past the pause; nobody's turn has passed, since the clock  *)
(* waits for it.                                                           *)

Apart(x, y) == x + pace <= y \/ y + pace <= x

TurnsApart ==
  /\ answeredAt # None /\ nextAt # None /\ answeredAt + pace <= nextAt
  /\ \A r \in fresh :
       /\ now <= until[r] /\ answeredAt + pace <= until[r] /\ until[r] + pace <= nextAt
       /\ pausedUntil = None \/ pausedUntil <= until[r]
       /\ \A s \in fresh \ {r} : Apart(until[r], until[s])
  /\ lastStart # None /\ lastStart.fresh =>
       /\ lastStart.at <= now /\ lastStart.at + pace <= nextAt
       /\ \A r \in fresh : Apart(until[r], lastStart.at)

PacedInv == pace > 0 => TurnsApart

LEMMA TakeTurnPaced ==
  ASSUME Types, PacedInv, NEW r \in Requests, TakeTurn(r)
  PROVE  PacedInv'
<1> DEFINE p == Decayed.pace
           t == Turn
<1>1. p \in Nat /\ p <= pace /\ pace \in Nat /\ now \in Nat /\ None \notin Nat
  BY TypesAre, DecayedTypes
<1>2. /\ at[r] = "idle" /\ pace' = p /\ fresh' = fresh \cup {r}
      /\ UNCHANGED <<now, pausedUntil, answeredAt, lastStart>>
  BY DEF TakeTurn
<1>3. CASE p = 0
  BY <1>2, <1>3 DEF PacedInv
<1>4. CASE p > 0
  <2>1. /\ nextAt' = t + p /\ until' = [until EXCEPT ![r] = t]
    BY <1>1, <1>4 DEF TakeTurn, Turn
  <2>2. pace > 0 /\ TurnsApart
    BY <1>1, <1>4 DEF PacedInv
  <2>3. Decayed.nextAt = nextAt /\ nextAt # None
    BY <1>1, <1>4, <2>2, TypesAre, DecayedTypes DEF TurnsApart
  <2>4. t \in Nat /\ now <= t /\ nextAt <= t /\ (pausedUntil # None => pausedUntil <= t)
    BY <2>3, TurnIs
  <2>5. r \notin fresh /\ until \in [Requests -> Instants] /\ fresh \subseteq Requests
    BY <1>2 DEF Types, TypeOK
  <2>6. /\ answeredAt \in Nat /\ nextAt \in Nat
        /\ \A s \in Requests : until[s] \in Nat
        /\ lastStart # None => lastStart.at \in Nat
    BY <2>2, <2>3, TypesAre DEF TurnsApart, Times
  <2> HIDE DEF p, t
  <2>7. until'[r] = t /\ \A s \in fresh : until'[s] = until[s] /\ s # r /\ until[s] \in Nat
    BY <2>1, <2>5, <2>6
  <2>8. answeredAt' # None /\ nextAt' # None /\ answeredAt' + pace' <= nextAt'
    <3>1. answeredAt + pace <= nextAt /\ answeredAt # None
      BY <2>2 DEF TurnsApart
    <3>2. answeredAt + p <= t + p /\ t + p \in Nat
      BY <1>1, <2>4, <2>6, <3>1
    <3> QED BY <1>1, <1>2, <2>1, <3>1, <3>2
  <2>9. ASSUME NEW s \in fresh'
        PROVE  /\ now' <= until'[s] /\ answeredAt' + pace' <= until'[s]
               /\ until'[s] + pace' <= nextAt'
               /\ pausedUntil' = None \/ pausedUntil' <= until'[s]
    <3>1. CASE s = r
      <4>1. answeredAt + p <= t
        BY <1>1, <2>2, <2>4, <2>6 DEF TurnsApart
      <4> QED BY <1>1, <1>2, <2>1, <2>4, <2>7, <3>1, <4>1
    <3>2. CASE s \in fresh
      <4>1. /\ now <= until[s] /\ answeredAt + pace <= until[s] /\ until[s] + pace <= nextAt
            /\ pausedUntil = None \/ pausedUntil <= until[s]
        BY <2>2, <3>2 DEF TurnsApart
      <4>2. answeredAt + p <= until[s] /\ until[s] + p <= t + p
        BY <1>1, <2>4, <2>6, <2>7, <3>2, <4>1
      <4> QED BY <1>2, <2>1, <2>7, <3>2, <4>1, <4>2
    <3> QED BY <1>2, <3>1, <3>2
  <2>10. ASSUME NEW s \in fresh', NEW u \in fresh' \ {s}
         PROVE  Apart(until[s], until[u])'
    <3>1. CASE s \in fresh /\ u \in fresh
      <4>1. until[s] + pace <= until[u] \/ until[u] + pace <= until[s]
        BY <2>2, <3>1 DEF TurnsApart, Apart
      <4>2. until[s] + p <= until[u] \/ until[u] + p <= until[s]
        BY <1>1, <2>7, <3>1, <4>1
      <4> QED BY <1>2, <2>7, <3>1, <4>2 DEF Apart
    <3>2. ASSUME NEW v \in fresh PROVE until[v] + p <= t
      <4>1. until[v] + pace <= nextAt
        BY <2>2 DEF TurnsApart
      <4> QED BY <1>1, <2>4, <2>6, <2>7, <4>1
    <3>3. CASE s = r
      BY <1>2, <2>7, <3>2, <3>3 DEF Apart
    <3>4. CASE u = r
      BY <1>2, <2>7, <3>2, <3>4 DEF Apart
    <3> QED BY <1>2, <3>1, <3>3, <3>4
  <2>11. ASSUME lastStart' # None, lastStart'.fresh
         PROVE  /\ lastStart'.at <= now' /\ lastStart'.at + pace' <= nextAt'
                /\ \A s \in fresh' : Apart(until[s], lastStart.at)'
    <3> DEFINE l == lastStart.at
    <3>1. l <= now /\ l + pace <= nextAt /\ \A s \in fresh : Apart(until[s], l)
      BY <1>2, <2>2, <2>11 DEF TurnsApart
    <3>2. l \in Nat /\ lastStart'.at = l
      BY <1>2, <2>6, <2>11
    <3> HIDE DEF l
    <3>3. l + p <= t /\ l + p <= t + p
      BY <1>1, <2>4, <2>6, <3>1, <3>2
    <3>4. ASSUME NEW s \in fresh PROVE until[s] + p <= l \/ l + p <= until[s]
      <4>1. until[s] + pace <= l \/ l + pace <= until[s]
        BY <3>1 DEF Apart
      <4> QED BY <1>1, <2>7, <3>2, <4>1
    <3>5. ASSUME NEW s \in fresh' PROVE Apart(until[s], lastStart.at)'
      BY <1>2, <2>7, <3>2, <3>3, <3>4 DEF Apart
    <3> QED BY <1>2, <2>1, <3>1, <3>2, <3>3, <3>5
  <2> QED BY <2>8, <2>9, <2>10, <2>11 DEF PacedInv, TurnsApart
<1> QED BY <1>1, <1>3, <1>4

\* What leaves the host alone and gives no turn: requests that leave, or
\* change what they wait for when they hold none.
LEMMA SamePaced ==
  ASSUME PacedInv, UNCHANGED <<now, host, lastStart>>, fresh' \subseteq fresh,
         pace > 0 => \A r \in fresh' : until'[r] = until[r]
  PROVE  PacedInv'
BY DEF PacedInv, TurnsApart, Apart, host

\* A request with a turn starts at that turn: no pause can hold it.
LEMMA FreshStart ==
  ASSUME Types, PacedInv, pace > 0, NEW r \in fresh, now >= until[r]
  PROVE  until[r] = now /\ ~Pausing
<1>1. now <= until[r] /\ (pausedUntil = None \/ pausedUntil <= until[r])
  BY DEF PacedInv, TurnsApart
<1>2. now \in Nat /\ until[r] \in Nat /\ pausedUntil \in Times
  <2>1. r \in Requests
    BY DEF Types, TypeOK
  <2> QED BY <2>1, TypesAre
<1> QED BY <1>1, <1>2 DEF Pausing, Times

LEMMA PassPausePaced ==
  ASSUME Types, PacedInv, NEW r \in Requests, PassPause(r)
  PROVE  PacedInv'
<1>1. now >= until[r] /\ UNCHANGED <<now, host>> /\ until \in [Requests -> Instants]
  BY DEF PassPause, Types, TypeOK
<1>2. fresh \subseteq Requests
  BY DEF Types, TypeOK
<1>3. CASE Pausing /\ until' = [until EXCEPT ![r] = pausedUntil] /\ UNCHANGED <<at, history>>
  <2>1. fresh' = fresh /\ lastStart' = lastStart
    BY <1>3 DEF history
  <2>2. pace > 0 => r \notin fresh
    BY <1>1, <1>3, FreshStart
  <2>3. pace > 0 => \A s \in fresh' : until'[s] = until[s]
    BY <1>1, <1>2, <1>3, <2>1, <2>2
  <2> QED BY <1>1, <2>1, <2>3, SamePaced
<1>4. CASE /\ until' = [until EXCEPT ![r] = 0]
           /\ lastStart' = [at |-> now, paced |-> r \in paced, fresh |-> r \in fresh]
           /\ fresh' = fresh \ {r}
  <2>1. /\ lastStart'.at = now /\ (lastStart'.fresh <=> r \in fresh)
        /\ \A s \in fresh' : until'[s] = until[s] /\ s \in fresh /\ s # r
    BY <1>1, <1>2, <1>4
  <2>2. /\ pace' = pace /\ nextAt' = nextAt /\ answeredAt' = answeredAt /\ now' = now
        /\ pausedUntil' = pausedUntil
    BY <1>1 DEF host
  <2>3. SUFFICES ASSUME pace > 0 PROVE TurnsApart'
    BY <2>2 DEF PacedInv
  <2>4. TurnsApart
    BY <2>3 DEF PacedInv
  <2>5. ASSUME r \in fresh
        PROVE  /\ now <= now /\ now + pace <= nextAt
               /\ \A s \in fresh' : Apart(until[s], now)
    <3>1. until[r] = now
      BY <1>1, <2>3, <2>5, FreshStart
    <3>2. until[r] + pace <= nextAt /\ \A s \in fresh \ {r} : Apart(until[r], until[s])
      BY <2>4, <2>5 DEF TurnsApart
    <3>3. now \in Nat
      BY TypesAre
    <3> QED BY <2>1, <3>1, <3>2, <3>3 DEF Apart
  <2>6. /\ answeredAt' # None /\ nextAt' # None /\ answeredAt' + pace' <= nextAt'
        /\ \A s \in fresh' :
             /\ now' <= until'[s] /\ answeredAt' + pace' <= until'[s]
             /\ until'[s] + pace' <= nextAt'
             /\ pausedUntil' = None \/ pausedUntil' <= until'[s]
             /\ \A u \in fresh' \ {s} : Apart(until[s], until[u])'
    BY <2>1, <2>2, <2>4 DEF TurnsApart, Apart
  <2>7. lastStart' # None /\ lastStart'.fresh =>
          /\ lastStart'.at <= now' /\ lastStart'.at + pace' <= nextAt'
          /\ \A s \in fresh' : Apart(until[s], lastStart.at)'
    BY <2>1, <2>2, <2>5 DEF Apart
  <2> QED BY <2>6, <2>7 DEF TurnsApart
<1> QED BY <1>3, <1>4 DEF PassPause

LEMMA OtherPaced ==
  ASSUME Types, PacedInv, NEW r \in Requests, TurnComes(r) \/ Ends(r) \/ DelayEnds(r)
  PROVE  PacedInv'
<1>1. UNCHANGED <<now, host, lastStart>> /\ fresh' \subseteq fresh
  BY DEF TurnComes, Ends, DelayEnds, history
<1>2. /\ fresh \subseteq {s \in Requests : at[s] \in {"turn", "held"}}
      /\ until \in [Requests -> Instants]
  BY DEF Types, TypeOK
<1>3. until' = until \/ (until' = [until EXCEPT ![r] = 0] /\ r \notin fresh')
  BY <1>2 DEF TurnComes, Ends, DelayEnds, history
<1>4. \A s \in fresh' : until'[s] = until[s]
  BY <1>1, <1>2, <1>3
<1> QED BY <1>1, <1>4, SamePaced

LEMMA ThrottledPaced ==
  ASSUME Types, NEW r \in Requests, NEW retryAfter \in RetryAfters \cup {None},
         Throttled(r, retryAfter)
  PROVE  PacedInv'
<1>1. /\ fresh' = {} /\ answeredAt' = now /\ nextAt' \in Instants /\ now + pace' <= nextAt'
      /\ lastStart' = IF lastStart = None THEN None ELSE [lastStart EXCEPT !.fresh = FALSE]
  BY ThrottledSteps
<1>2. answeredAt' # None /\ nextAt' # None
  BY <1>1, TypesAre DEF Instants
<1>3. ~(lastStart' # None /\ lastStart'.fresh)
  BY <1>1 DEF Types, TypeOK
<1> QED BY <1>1, <1>2, <1>3 DEF PacedInv, TurnsApart

LEMMA TickPaced ==
  ASSUME Types, PacedInv, Tick
  PROVE  PacedInv'
<1>1. /\ now' = now + 1 /\ UNCHANGED host /\ until' = until /\ fresh' = fresh
      /\ lastStart' = lastStart /\ \A r \in Requests : ~Due(r)
  BY DEF Tick, history
<1>2. SUFFICES ASSUME TurnsApart, pace > 0 PROVE TurnsApart'
  BY <1>1 DEF PacedInv, host
<1>3. ASSUME NEW r \in fresh PROVE now' <= until'[r]
  <2>1. r \in Requests /\ at[r] \in {"turn", "held"}
    BY DEF Types, TypeOK
  <2>2. ~(now >= until[r]) /\ now \in Nat /\ until[r] \in Nat
    BY <1>1, <2>1, TypesAre DEF Due
  <2> QED BY <1>1, <2>2
<1>4. lastStart # None /\ lastStart.fresh => lastStart.at <= now'
  <2>1. now \in Nat /\ (lastStart # None => lastStart.at \in Nat)
    BY TypesAre
  <2> QED BY <1>1, <1>2, <2>1 DEF TurnsApart
<1> QED BY <1>1, <1>2, <1>3, <1>4 DEF TurnsApart, Apart, host

LEMMA PacedNext == Types /\ PacedInv /\ [Next]_vars => PacedInv'
<1> SUFFICES ASSUME Types, PacedInv, [Next]_vars PROVE PacedInv'
  OBVIOUS
<1>1. CASE UNCHANGED vars
  BY <1>1, SamePaced DEF vars, host, history
<1>2. ASSUME NEW r \in Requests,
             TakeTurn(r) \/ TurnComes(r) \/ PassPause(r) \/ Ends(r) \/ DelayEnds(r)
      PROVE  PacedInv'
  BY <1>2, TakeTurnPaced, PassPausePaced, OtherPaced
<1>3. ASSUME NEW r \in Requests, NEW retryAfter \in RetryAfters \cup {None},
             Throttled(r, retryAfter)
      PROVE  PacedInv'
  BY <1>3, ThrottledPaced
<1> QED BY <1>1, <1>2, <1>3, TickPaced DEF Next, TimeIsUp

\* Requests that asked since the host's last 429 start the pace after it, and
\* the pace apart, as long as there is a pace.
THEOREM FreshStartsArePaced == Spec => PacedSinceAnswer
<1>1. Init => PacedInv
  <2> SUFFICES ASSUME Init PROVE PacedInv
    OBVIOUS
  <2>1. pace = 0
    BY DEF Init
  <2> QED BY <2>1 DEF PacedInv
<1>2. Types /\ PacedInv /\ [Next]_vars =>
        [\A r \in Requests : Starts(r) /\ r \in fresh /\ pace > 0 =>
           /\ now - answeredAt >= pace
           /\ lastStart # None /\ lastStart.fresh => now - lastStart.at >= pace]_vars
  <2> SUFFICES ASSUME Types, PacedInv, [Next]_vars,
                      NEW r \in Requests, Starts(r), r \in fresh, pace > 0
               PROVE  /\ now - answeredAt >= pace
                      /\ lastStart # None /\ lastStart.fresh => now - lastStart.at >= pace
    OBVIOUS
  <2>1. now >= until[r]
    BY OnlyPassPauseStarts
  <2>2. until[r] = now
    BY <2>1, FreshStart
  <2>3. TurnsApart
    BY DEF PacedInv
  <2>4. /\ now \in Nat /\ pace \in Nat /\ answeredAt \in Nat
        /\ lastStart # None => lastStart.at \in Nat
    BY <2>3, TypesAre DEF TurnsApart, Times
  <2>5. answeredAt + pace <= now
    BY <2>2, <2>3 DEF TurnsApart
  <2>6. ASSUME lastStart # None, lastStart.fresh PROVE now - lastStart.at >= pace
    <3>1. /\ lastStart.at <= now
          /\ now + pace <= lastStart.at \/ lastStart.at + pace <= now
      BY <2>2, <2>3, <2>6 DEF TurnsApart, Apart
    <3> QED BY <2>4, <2>6, <3>1
  <2> QED BY <2>4, <2>5, <2>6
<1> QED BY <1>1, <1>2, TypesInit, TypesNext, PacedNext, PTL DEF Spec, PacedSinceAnswer

-----------------------------------------------------------------------------
(* The quiet time.  It restarts a whole number of intervals after the last *)
(* 429, and the pace is at most what so many halvings leave of the cap.    *)

QuietFrom(p, since) ==
  /\ answeredAt # None /\ since # None
  /\ \E j \in 0..PaceCap :
       since = answeredAt + j * QuietInterval /\ p <= Halved(PaceCap)[j]

QuietInv == pace > 0 => QuietFrom(pace, quietSince)

LEMMA DecayedQuiet ==
  ASSUME Types, QuietInv, Decayed.pace > 0
  PROVE  QuietFrom(Decayed.pace, Decayed.quietSince) /\ now < Decayed.quietSince + QuietInterval
<1> DEFINE d == Decayed
           k == QuietSteps
<1>1. /\ d.pace \in Nat /\ d.pace <= pace /\ pace \in Nat /\ PaceCap \in Nat
      /\ QuietInterval \in Nat /\ None \notin Nat
  BY TypesAre, DecayedTypes
<1>2. QuietFrom(pace, quietSince)
  <2> HIDE DEF d
  <2> QED BY <1>1 DEF QuietInv, d
<1>3. PICK j \in 0..PaceCap :
        quietSince = answeredAt + j * QuietInterval /\ pace <= Halved(PaceCap)[j]
  BY <1>2 DEF QuietFrom
<1>4. /\ answeredAt # None /\ quietSince # None
      /\ answeredAt \in Nat /\ quietSince \in Nat
  BY <1>2, TypesAre DEF QuietFrom, Times
<1>5. k \in 0..pace /\ d.pace = Halved(pace)[k] /\ d.quietSince = quietSince + k * QuietInterval
  BY <1>4, TypesAre, QuietStepsAre DEF Decayed
<1>6. j + k \in 0..PaceCap /\ Halved(pace)[k] <= Halved(PaceCap)[j + k]
  BY <1>1, <1>3, <1>5, HalvedFurther
<1>7. now < d.quietSince + QuietInterval
  BY <1>4, TypesAre, DecayedTypes
<1> HIDE DEF d, k
<1>8. d.quietSince = answeredAt + (j + k) * QuietInterval
  <2>1. j \in Nat /\ k \in Nat
    BY <1>1, <1>5
  <2> QED BY <1>1, <1>3, <1>4, <1>5, <2>1
<1>9. d.quietSince # None
  <2>1. (j + k) \in Nat
    BY <1>1, <1>6
  <2>2. (j + k) * QuietInterval \in Nat
    BY <1>1, <2>1, ProductNat
  <2> QED BY <1>1, <1>4, <1>8, <2>2
<1> QED BY <1>4, <1>5, <1>6, <1>7, <1>8, <1>9 DEF QuietFrom, d

LEMMA QuietNext == Types /\ QuietInv /\ [Next]_vars => QuietInv'
<1> SUFFICES ASSUME Types, QuietInv, [Next]_vars PROVE QuietInv'
  OBVIOUS
<1>1. CASE UNCHANGED <<pace, quietSince, answeredAt>>
  BY <1>1 DEF QuietInv, QuietFrom
<1>2. ASSUME NEW r \in Requests, TakeTurn(r) PROVE QuietInv'
  <2>1. pace' = Decayed.pace /\ quietSince' = Decayed.quietSince /\ answeredAt' = answeredAt
    BY <1>2 DEF TakeTurn
  <2> QED BY <2>1, DecayedQuiet DEF QuietInv, QuietFrom
<1>3. ASSUME NEW r \in Requests, NEW retryAfter \in RetryAfters \cup {None},
             Throttled(r, retryAfter)
      PROVE  QuietInv'
  <2>1. answeredAt' = now /\ quietSince' = now /\ pace' \in {0} \cup PaceFloor..PaceCap
    BY <1>3, ThrottledSteps
  <2>2. now \in Nat /\ None \notin Nat /\ PaceCap \in Nat /\ QuietInterval \in Nat
    BY TypesAre
  <2>3. 0 \in 0..PaceCap /\ now = now + 0 * QuietInterval /\ pace' <= PaceCap
    BY <2>1, <2>2
  <2>4. Halved(PaceCap)[0] = PaceCap
    BY <2>2, <2>3, HalvedStep DEF Step
  <2> QED BY <2>1, <2>2, <2>3, <2>4 DEF QuietInv, QuietFrom
<1>4. ASSUME NEW r \in Requests, TurnComes(r) \/ PassPause(r) \/ Ends(r) \/ DelayEnds(r)
      PROVE  UNCHANGED <<pace, quietSince, answeredAt>>
  BY <1>4 DEF TurnComes, PassPause, Ends, DelayEnds, host
<1>5. CASE Tick \/ TimeIsUp \/ UNCHANGED vars
  BY <1>1, <1>5 DEF Tick, TimeIsUp, vars, host
<1> QED BY <1>1, <1>2, <1>3, <1>4, <1>5 DEF Next

\* As long as the host gives turns, its quiet time has not ended any pace.
LEMMA QuietTimeLeft ==
  ASSUME Types, QuietInv, Decayed.pace > 0
  PROVE  now - answeredAt < QuietEnd
<1> DEFINE d == Decayed
           h == Halved(PaceCap)
           ends == {n \in 0..PaceCap : h[n] = 0}
           last == Min(ends)
<1>1. PaceCap \in Nat /\ QuietInterval \in Nat /\ d.pace \in Nat /\ now \in Nat
  BY TypesAre, DecayedTypes
<1>2. PICK j \in 0..PaceCap : d.quietSince = answeredAt + j * QuietInterval /\ d.pace <= h[j]
  BY DecayedQuiet DEF QuietFrom
<1>3. answeredAt \in Nat /\ now < d.quietSince + QuietInterval
  BY DecayedQuiet, TypesAre DEF QuietFrom, Times
<1>4. d.pace > 0
  OBVIOUS
<1>5. \A n \in 0..PaceCap : h[n] \in Nat /\ h[n] <= PaceCap - n
  BY <1>1, HalvedBounds
<1>6. \A n \in 0..j : h[j] <= h[n]
  BY <1>1, HalvedFalls
<1>7. QuietEnd = QuietInterval * last
  BY DEF QuietEnd
<1> HIDE DEF d, h
<1>8. PaceCap \in ends
  <2>1. PaceCap \in 0..PaceCap
    BY <1>1
  <2> QED BY <1>1, <1>5, <2>1
<1>9. last \in ends
  <2>1. ends \in SUBSET Nat /\ ends # {}
    BY <1>8
  <2> HIDE DEF ends
  <2> QED BY <2>1, MinIsLeast
<1>10. last \in Nat /\ j \in Nat /\ j < last
  <2>1. last \in 0..PaceCap /\ h[last] = 0
    BY <1>9
  <2> HIDE DEF last
  <2>2. last \notin 0..j
    BY <1>1, <1>2, <1>4, <1>5, <1>6, <2>1
  <2> QED BY <1>1, <2>1, <2>2
<1> HIDE DEF last
<1>11. (j + 1) * QuietInterval <= QuietInterval * last
  <2> DEFINE more == last - (j + 1)
  <2>1. more \in Nat /\ last = (j + 1) + more
    BY <1>10
  <2> HIDE DEF more
  <2>2. more * QuietInterval \in Nat
    BY <1>1, <2>1, ProductNat
  <2>3. QuietInterval * last = (j + 1) * QuietInterval + more * QuietInterval
    BY <1>1, <1>10, <2>1
  <2>4. (j + 1) * QuietInterval \in Nat
    BY <1>1, <1>10, ProductNat
  <2> QED BY <2>2, <2>3, <2>4
<1>12. now < answeredAt + (j + 1) * QuietInterval
  <2>1. j * QuietInterval \in Nat /\ (j + 1) * QuietInterval = j * QuietInterval + QuietInterval
    BY <1>1, <1>10, ProductNat
  <2> QED BY <1>1, <1>2, <1>3, <2>1
<1>13. (j + 1) * QuietInterval \in Nat /\ QuietInterval * last \in Nat
  BY <1>1, <1>10, ProductNat
<1> QED BY <1>1, <1>3, <1>7, <1>11, <1>12, <1>13

\* A host that has answered no 429 for the quiet intervals that halve the cap
\* to nothing gives no turns: its requests go at once.
THEOREM QuietHostsPaceNobody == Spec => QuietHostUnpaced
<1>1. Init => QuietInv
  BY DEF Init, QuietInv
<1>2. Types /\ QuietInv /\ [Next]_vars =>
        [\A r \in Requests : at[r] = "idle" /\ at'[r] = "turn" =>
           now - answeredAt < QuietEnd]_vars
  <2> SUFFICES ASSUME Types, QuietInv, [Next]_vars,
                      NEW r \in Requests, at[r] = "idle", at'[r] = "turn"
               PROVE  now - answeredAt < QuietEnd
    OBVIOUS
  <2>1. at \in [Requests -> Places] /\ ~UNCHANGED at
    BY DEF Types, TypeOK
  <2>2. ASSUME NEW s \in Requests,
               TurnComes(s) \/ PassPause(s) \/ Ends(s) \/ DelayEnds(s)
        PROVE  FALSE
    BY <2>1, <2>2 DEF TurnComes, PassPause, Ends, DelayEnds
  <2>3. ASSUME NEW s \in Requests, NEW retryAfter \in RetryAfters \cup {None},
               Throttled(s, retryAfter)
        PROVE  FALSE
    <3>1. at' = [at EXCEPT ![s] = "idle"] \/ at' = [at EXCEPT ![s] = "delay"]
      BY <2>3, ThrottledSteps
    <3> QED BY <2>1, <3>1
  <2>4. PICK s \in Requests : TakeTurn(s)
    BY <2>1, <2>2, <2>3 DEF Next, Tick, TimeIsUp, vars
  <2>5. Decayed.pace > 0
    <3>1. SUFFICES ASSUME ~(Decayed.pace > 0) PROVE FALSE
      OBVIOUS
    <3>2. at' = [at EXCEPT ![s] = "held"]
      BY <2>4, <3>1 DEF TakeTurn
    <3> QED BY <2>1, <3>2
  <2> QED BY <2>5, QuietTimeLeft
<1> QED BY <1>1, <1>2, TypesInit, TypesNext, QuietNext, PTL DEF Spec, QuietHostUnpaced
=============================================================================
