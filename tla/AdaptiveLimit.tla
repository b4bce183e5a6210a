--------------------------- MODULE AdaptiveLimit ---------------------------
(***************************************************************************)
(* The adaptive request limit of one host store (crate storage,            *)
(* throttle/limit.rs): additive increase and multiplicative decrease over  *)
(* a FIFO semaphore whose permits a cut can only take back when they are   *)
(* free, and owes otherwise.                                               *)
(*                                                                         *)
(* Time is abstracted: `quiet` counts the QUIET_INTERVALs passed since     *)
(* quiet_since that growth has not used, and a cut may come at any time    *)
(* (CUT_WINDOW only makes cuts rarer).  An operator whose name ends in     *)
(* Slip is a plausible mistake in the definition after it, used nowhere.   *)
(***************************************************************************)
EXTENDS Integers, Sequences, FiniteSets, SequencesExt

CONSTANTS
  Requests,     \* the callers of acquire
  Configured,   \* the limit the store was built with
  MaxQuiet      \* bound: unused quiet intervals

ASSUME ConstantsAssumption ==
  /\ IsFiniteSet(Requests)
  /\ Configured \in Nat \ {0}
  /\ MaxQuiet \in Nat

VARIABLES
  current,   \* LimitState.current, the limit now
  owed,      \* LimitState.owed
  quiet,     \* quiet intervals since quiet_since
  free,      \* the semaphore's free permits
  line,      \* requests queued in the semaphore, oldest first
  granted,   \* requests handed a permit they have not polled yet
  held,      \* requests in flight, each with a Permit
  late       \* requests that began to wait since the last cut

limit == <<current, owed, quiet>>
semaphore == <<free, line, granted>>
vars == <<limit, semaphore, held, late>>

Init ==
  /\ current = Configured /\ owed = 0 /\ quiet = 0
  /\ free = Configured /\ line = <<>> /\ granted = {}
  /\ held = {} /\ late = {}

Queued == {line[p] : p \in 1..Len(line)}
Idle == Requests \ (Queued \cup granted \cup held)
Lesser(a, b) == IF a < b THEN a ELSE b

(* What a number of permits added to the semaphore does to it, for the
   permits `f` free and the requests `l` queued: the oldest are served. *)
Served(n, f, l) ==
  [free |-> f + n - Lesser(n, Len(l)),
   line |-> SubSeq(l, Lesser(n, Len(l)) + 1, Len(l)),
   to |-> {l[p] : p \in 1..Lesser(n, Len(l))}]

(* grow: one step per quiet interval, up to the configured limit; a step
   pays one owed permit, or adds one. *)
Steps == Lesser(quiet, Configured - current)
Paid == Lesser(Steps, owed)
(* WithinConfigured: growth adds a permit though one is owed. *)
GrownSlip == [current |-> current + Steps, owed |-> owed,
              quiet |-> quiet - Steps, permits |-> Steps]
Grown == [current |-> current + Steps, owed |-> owed - Paid,
          quiet |-> quiet - Steps, permits |-> Steps - Paid]

-----------------------------------------------------------------------------
(* acquire: grow, then the semaphore; the first poll takes a free permit or
   joins the line. *)
Acquire(r) ==
  LET s == Served(Grown.permits, free, line) IN
  /\ r \in Idle
  /\ current' = Grown.current /\ owed' = Grown.owed /\ quiet' = Grown.quiet
  /\ \/ /\ s.free > 0
        /\ free' = s.free - 1 /\ line' = s.line
        /\ held' = held \cup {r}
     \/ /\ s.free = 0
        /\ free' = 0 /\ line' = Append(s.line, r)
        /\ UNCHANGED held
  /\ granted' = granted \cup s.to
  /\ late' = late \cup {r}

(* The woken request polls its permit and is sent. *)
Poll(r) ==
  /\ r \in granted
  /\ granted' = granted \ {r}
  /\ held' = held \cup {r}
  /\ UNCHANGED <<limit, free, line, late>>

(* EveryRequestServed: an owed permit is forgotten without being marked
   paid, and every later one with it. *)
ReleaseSlip(r) ==
  LET s == Served(1, free, line) IN
  /\ r \in held
  /\ held' = held \ {r}
  /\ \/ owed > 0 /\ UNCHANGED semaphore
     \/ /\ owed = 0
        /\ free' = s.free /\ line' = s.line /\ granted' = granted \cup s.to
  /\ late' = late \ {r}
  /\ UNCHANGED limit
(* Permit::drop: a permit owed is forgotten, any other goes to the oldest
   in line; then grow. *)
Release(r) ==
  LET back == IF owed > 0 THEN 0 ELSE 1
      owes == owed - (1 - back)
      paid == Lesser(Steps, owes)
      s == Served(back + Steps - paid, free, line)
  IN
  /\ r \in held
  /\ held' = held \ {r}
  /\ owed' = owes - paid
  /\ current' = current + Steps /\ quiet' = quiet - Steps
  /\ free' = s.free /\ line' = s.line /\ granted' = granted \cup s.to
  /\ late' = late \ {r}

(* The caller's deadline drops the acquire future: it leaves the line, or
   its permit goes back to the semaphore itself, not through `release`. *)
Cancel(r) ==
  /\ \/ /\ r \in Queued
        /\ \E p \in 1..Len(line) : line[p] = r /\ line' = RemoveAt(line, p)
        /\ UNCHANGED <<free, granted>>
     \/ /\ r \in granted
        /\ LET s == Served(1, free, line) IN
             /\ free' = s.free /\ line' = s.line
             /\ granted' = (granted \ {r}) \cup s.to
  /\ late' = late \ {r}
  /\ UNCHANGED <<limit, held>>

(* PermitsBalance: the cut owes what it has already forgotten. *)
CutOwesAllSlip ==
  LET s == Served(Grown.permits, free, line)
      cutTo == IF Grown.current = 1 THEN 1 ELSE Grown.current \div 2
      removed == Grown.current - cutTo
      forgotten == Lesser(removed, s.free)
  IN
  /\ quiet' = 0
  /\ current' = cutTo
  /\ owed' = Grown.owed + removed
  /\ free' = s.free - forgotten /\ line' = s.line
  /\ granted' = granted \cup s.to
  /\ late' = IF removed > 0 THEN {} ELSE late
  /\ UNCHANGED held
(* TypeOK: nothing holds the limit at 1. *)
CutToZeroSlip ==
  LET s == Served(Grown.permits, free, line)
      cutTo == Grown.current \div 2
      removed == Grown.current - cutTo
      forgotten == Lesser(removed, s.free)
  IN
  /\ quiet' = 0
  /\ current' = cutTo
  /\ owed' = Grown.owed + removed - forgotten
  /\ free' = s.free - forgotten /\ line' = s.line
  /\ granted' = granted \cup s.to
  /\ late' = IF removed > 0 THEN {} ELSE late
  /\ UNCHANGED held
(* A 429: grow, then halve the limit; free permits are forgotten at once,
   the rest owed.  A limit of 1, or one cut just now, only restarts the
   quiet time. *)
Cut ==
  LET s == Served(Grown.permits, free, line)
      cutTo == IF Grown.current = 1 THEN 1 ELSE Grown.current \div 2
      removed == Grown.current - cutTo
      forgotten == Lesser(removed, s.free)
  IN
  /\ quiet' = 0
  /\ current' = cutTo
  /\ owed' = Grown.owed + removed - forgotten
  /\ free' = s.free - forgotten /\ line' = s.line
  /\ granted' = granted \cup s.to
  /\ late' = IF removed > 0 THEN {} ELSE late
  /\ UNCHANGED held

(* Another 429 within the window of the last cut. *)
Ignore429 ==
  LET s == Served(Grown.permits, free, line) IN
  /\ quiet' = 0 /\ current' = Grown.current /\ owed' = Grown.owed
  /\ free' = s.free /\ line' = s.line /\ granted' = granted \cup s.to
  /\ UNCHANGED <<held, late>>

(* The limit is read (limits, for /metrics): growth is applied. *)
Read ==
  LET s == Served(Grown.permits, free, line) IN
  /\ current' = Grown.current /\ owed' = Grown.owed /\ quiet' = Grown.quiet
  /\ free' = s.free /\ line' = s.line /\ granted' = granted \cup s.to
  /\ UNCHANGED <<held, late>>

QuietIntervalPasses ==
  /\ quiet < MaxQuiet
  /\ quiet' = quiet + 1
  /\ UNCHANGED <<current, owed, semaphore, held, late>>

Next ==
  \/ \E r \in Requests : Acquire(r) \/ Poll(r) \/ Release(r) \/ Cancel(r)
  \/ Cut \/ Ignore429 \/ Read \/ QuietIntervalPasses

Spec == Init /\ [][Next]_vars

(* Requests end (their stores have timeouts) and woken tasks run; 429s and
   quiet times come or do not. *)
FairSpec ==
  Spec /\ \A r \in Requests : WF_vars(Poll(r)) /\ WF_vars(Release(r))

-----------------------------------------------------------------------------
(* Properties. *)

TypeOK ==
  /\ current \in 1..Configured
  /\ owed \in 0..Configured
  /\ quiet \in 0..MaxQuiet
  /\ free \in 0..Configured
  /\ line \in Seq(Requests)
  /\ granted \subseteq Requests /\ held \subseteq Requests
  /\ granted \cap held = {}
  /\ late \subseteq Requests

(* What LimitState.current says of itself: it is the permits free and taken
   less those owed, through every interleaving of cuts, growth, releases
   and cancelled waits. *)
PermitsBalance ==
  free + Cardinality(held) + Cardinality(granted) = current + owed

(* However cuts and growth alternate, the permits in existence never exceed
   the configured limit. *)
WithinConfigured == current + owed <= Configured

(* A request in line is served or gives up, whatever is cut meanwhile: owed
   permits are paid back a bounded number of times, not for ever. *)
EveryRequestServed == \A r \in Requests : r \in Queued ~> r \notin Queued

(* The README's "requests in flight finish, new ones see the lower limit":
   a request that began to wait after the last cut is sent only while no
   more than the limit are in flight. *)
NewSeeTheLimit ==
  [][\A r \in late \cup late' :
       r \notin held /\ r \in held' => Cardinality(held') <= current']_vars
=============================================================================
