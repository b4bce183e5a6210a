---------------------------- MODULE HostThrottle ----------------------------
(***************************************************************************)
(* Backing off a throttling host (crate storage, throttle.rs): the state   *)
(* every HTTP store on one host shares, and the requests that go through   *)
(* Throttled::call.  Time is a clock of equal ticks, and timers are exact: *)
(* the clock stands while a sleeper is due, as under the paused clock of   *)
(* the crate's tests.  The adaptive limits a 429 also cuts are module      *)
(* AdaptiveLimit.                                                          *)
(*                                                                         *)
(* An operator whose name ends in Slip is a plausible mistake in the       *)
(* definition after it, used nowhere.                                      *)
(***************************************************************************)
EXTENDS Integers, FiniteSets, FiniteSetsExt

CONSTANTS
  Requests,        \* requests to the host, from any of its stores
  PaceFloor, PaceCap,
  CutWindow, QuietInterval, RetryDelay, MaxRetryAfter,
  RetryAfters,     \* the Retry-After values a 429 may carry
  None,            \* no instant, no Retry-After
  MaxTime          \* bound: the last tick, and the last turn given

ASSUME ConstantsAssumption ==
  /\ IsFiniteSet(Requests)
  /\ PaceFloor \in Nat \ {0} /\ PaceCap \in Nat /\ PaceFloor <= PaceCap
  /\ CutWindow \in Nat /\ QuietInterval \in Nat \ {0}
  /\ RetryDelay \in Nat \ {0} /\ MaxRetryAfter \in Nat
  /\ RetryAfters \subseteq Nat
  /\ None \notin Nat
  /\ MaxTime \in Nat

VARIABLES
  now,
  pausedUntil, pace, nextAt, pacedAt, answeredAt, quietSince,  \* HostState
  at,          \* where each request is
  until,       \* what a sleeping request sleeps until
  paced,       \* waiting requests that took a turn under a pace
  fresh,       \* waiting requests that asked since the last 429
  lastStart    \* the last request sent: when, and whether paced and fresh

host == <<pausedUntil, pace, nextAt, pacedAt, answeredAt, quietSince>>
history == <<paced, fresh, lastStart>>
vars == <<now, host, at, until, history>>

Places == {"idle", "turn", "held", "sent", "delay"}
Instants == 0..(MaxTime + MaxRetryAfter + RetryDelay + PaceCap)

Init ==
  /\ now = 0
  /\ pausedUntil = None /\ pace = 0 /\ nextAt = None
  /\ pacedAt = None /\ answeredAt = None /\ quietSince = None
  /\ at = [r \in Requests |-> "idle"]
  /\ until = [r \in Requests |-> 0]
  /\ paced = {} /\ fresh = {}
  /\ lastStart = None

-----------------------------------------------------------------------------
Latest(times) == Max(times \ {None})
Pausing == IF pausedUntil = None THEN FALSE ELSE pausedUntil > now

(* decay: each quiet interval that has passed halves the pace, until it is
   below the floor and off.  `Halved` is p after so many halvings, of which
   p are enough. *)
Halves(p) == IF p \div 2 < PaceFloor THEN 0 ELSE p \div 2
Halved(p) ==
  LET h[n \in 0..p] == IF n = 0 THEN p ELSE Halves(h[n - 1])
  IN h
QuietSteps ==
  IF quietSince = None THEN 0
  ELSE Min({n \in 0..pace : \/ Halved(pace)[n] = 0
                            \/ now - quietSince < (n + 1) * QuietInterval})
(* QuietHostUnpaced: each halving restarts the quiet time from the request
   that applied it. *)
DecayedSlip ==
  [pace |-> Halved(pace)[QuietSteps],
   nextAt |-> IF QuietSteps > 0 /\ Halved(pace)[QuietSteps] = 0 THEN None ELSE nextAt,
   quietSince |-> IF QuietSteps = 0 THEN quietSince ELSE now]
Decayed ==
  [pace |-> Halved(pace)[QuietSteps],
   nextAt |-> IF QuietSteps > 0 /\ Halved(pace)[QuietSteps] = 0 THEN None ELSE nextAt,
   quietSince |-> IF quietSince = None THEN None
                  ELSE quietSince + QuietSteps * QuietInterval]

(* PacedSinceAnswer: a turn given without moving the next one on. *)
TakeTurnSlip(r) ==
  LET d == Decayed
      turn == Latest({now, d.nextAt, pausedUntil})
  IN
  /\ at[r] = "idle" /\ turn <= MaxTime
  /\ pace' = d.pace /\ quietSince' = d.quietSince /\ nextAt' = d.nextAt
  /\ at' = [at EXCEPT ![r] = IF d.pace = 0 THEN "held" ELSE "turn"]
  /\ until' = [until EXCEPT ![r] = IF d.pace = 0 THEN now ELSE turn]
  /\ paced' = IF d.pace > 0 THEN paced \cup {r} ELSE paced
  /\ fresh' = fresh \cup {r}
  /\ UNCHANGED <<now, pausedUntil, pacedAt, answeredAt, lastStart>>
(* A request asks to be sent (`wait`): under the lock it takes its turn, the
   next one the pace later. *)
TakeTurn(r) ==
  LET d == Decayed
      turn == Latest({now, d.nextAt, pausedUntil})
  IN
  /\ at[r] = "idle" /\ turn <= MaxTime
  /\ pace' = d.pace
  /\ quietSince' = d.quietSince
  /\ \/ /\ d.pace = 0
        /\ nextAt' = d.nextAt
        /\ at' = [at EXCEPT ![r] = "held"]
        /\ until' = [until EXCEPT ![r] = now]
     \/ /\ d.pace > 0
        /\ nextAt' = turn + d.pace
        /\ at' = [at EXCEPT ![r] = "turn"]
        /\ until' = [until EXCEPT ![r] = turn]
  /\ paced' = IF d.pace > 0 THEN paced \cup {r} ELSE paced
  /\ fresh' = fresh \cup {r}
  /\ UNCHANGED <<now, pausedUntil, pacedAt, answeredAt, lastStart>>

TurnComes(r) ==
  /\ at[r] = "turn" /\ now >= until[r]
  /\ at' = [at EXCEPT ![r] = "held"]
  /\ UNCHANGED <<now, host, until, history>>

(* RetryAfterHolds: the pause is read once, before the sleep. *)
PassPauseSlip(r) ==
  /\ at[r] = "held" /\ now >= until[r]
  /\ at' = [at EXCEPT ![r] = "sent"]
  /\ until' = [until EXCEPT ![r] = 0]
  /\ lastStart' = [at |-> now, paced |-> r \in paced, fresh |-> r \in fresh]
  /\ paced' = paced \ {r} /\ fresh' = fresh \ {r}
  /\ UNCHANGED <<now, host>>
(* The loop on the Retry-After: read again after each sleep, since a later
   429 can push it out; past it, the request is sent. *)
PassPause(r) ==
  /\ at[r] = "held" /\ now >= until[r]
  /\ \/ /\ Pausing
        /\ until' = [until EXCEPT ![r] = pausedUntil]
        /\ UNCHANGED <<at, history>>
     \/ /\ ~Pausing
        /\ at' = [at EXCEPT ![r] = "sent"]
        /\ until' = [until EXCEPT ![r] = 0]
        /\ lastStart' = [at |-> now, paced |-> r \in paced, fresh |-> r \in fresh]
        /\ paced' = paced \ {r} /\ fresh' = fresh \ {r}
  /\ UNCHANGED <<now, host>>

(* The host answers something other than 429, or the caller gives up. *)
Ends(r) ==
  /\ at[r] # "idle"
  /\ at' = [at EXCEPT ![r] = "idle"]
  /\ until' = [until EXCEPT ![r] = 0]
  /\ paced' = paced \ {r} /\ fresh' = fresh \ {r}
  /\ UNCHANGED <<now, host, lastStart>>

(* TypeOK: the doubling is not capped. *)
RaisedSlip(p) == Max({PaceFloor, 2 * p})
(* The pace doubles, from the floor to the cap. *)
Raised(p) == Min({PaceCap, Max({PaceFloor, 2 * p})})

(* A 429 (`throttled`), with a Retry-After or None: pause, raise the pace
   once per window, restart the quiet time.  Without a Retry-After the
   caller sleeps the retry delay before it sees the answer. *)
Throttled(r, retryAfter) ==
  LET d == Decayed
      wait == IF retryAfter = None THEN 0 ELSE Min({retryAfter, MaxRetryAfter})
      raised == (pacedAt = None \/ now >= pacedAt + CutWindow) /\ d.pace < PaceCap
      newPace == IF raised THEN Raised(d.pace) ELSE d.pace
  IN
  /\ at[r] = "sent"
  /\ pausedUntil' = IF wait = 0 THEN pausedUntil ELSE Latest({pausedUntil, now + wait})
  /\ pace' = newPace
  /\ pacedAt' = IF raised THEN now ELSE pacedAt
  /\ answeredAt' = now
  /\ quietSince' = now
  /\ nextAt' = Latest({d.nextAt, now + newPace})
  /\ \/ /\ retryAfter = None
        /\ at' = [at EXCEPT ![r] = "delay"]
        /\ until' = [until EXCEPT ![r] = now + RetryDelay]
     \/ /\ retryAfter # None
        /\ at' = [at EXCEPT ![r] = "idle"]
        /\ UNCHANGED until
  /\ fresh' = {}
  /\ lastStart' = IF lastStart = None THEN None ELSE [lastStart EXCEPT !.fresh = FALSE]
  /\ UNCHANGED <<now, paced>>

(* The refused request goes back to object_store, which retries it. *)
DelayEnds(r) ==
  /\ at[r] = "delay" /\ now >= until[r]
  /\ at' = [at EXCEPT ![r] = "idle"]
  /\ until' = [until EXCEPT ![r] = 0]
  /\ UNCHANGED <<now, host, history>>

Due(r) == at[r] \in {"turn", "held", "delay"} /\ now >= until[r]

Tick ==
  /\ now < MaxTime
  /\ \A r \in Requests : ~Due(r)
  /\ now' = now + 1
  /\ UNCHANGED <<host, at, until, history>>

(* The end of a bounded behaviour. *)
TimeIsUp == now = MaxTime /\ UNCHANGED vars

Next ==
  \/ \E r \in Requests :
       \/ TakeTurn(r) \/ TurnComes(r) \/ PassPause(r)
       \/ Ends(r) \/ DelayEnds(r)
       \/ \E retryAfter \in RetryAfters \cup {None} : Throttled(r, retryAfter)
  \/ Tick
  \/ TimeIsUp

Spec == Init /\ [][Next]_vars

-----------------------------------------------------------------------------
(* Properties. *)

TypeOK ==
  /\ now \in 0..MaxTime
  /\ {pausedUntil, nextAt, pacedAt, answeredAt, quietSince} \subseteq Instants \cup {None}
  /\ pace \in {0} \cup PaceFloor..PaceCap
  /\ at \in [Requests -> Places]
  /\ until \in [Requests -> Instants]
  /\ paced \cup fresh \subseteq {r \in Requests : at[r] \in {"turn", "held"}}
  /\ lastStart \in [at : Instants, paced : BOOLEAN, fresh : BOOLEAN] \cup {None}

Starts(r) == at[r] # "sent" /\ at'[r] = "sent"

(* "New requests to the host, from every store on it, wait until then": none
   is sent while a Retry-After runs, one a later 429 pushed out included. *)
RetryAfterHolds ==
  [][\A r \in Requests : Starts(r) => ~Pausing]_vars

(* Requests that asked since the host's last 429 start at least the pace
   after that answer, and at least the pace apart. *)
PacedSinceAnswer ==
  [][\A r \in Requests : Starts(r) /\ r \in fresh /\ pace > 0 =>
       /\ now - answeredAt >= pace
       /\ lastStart # None /\ lastStart.fresh => now - lastStart.at >= pace]_vars

(* The quiet intervals that end any pace. *)
QuietEnd == QuietInterval * Min({n \in 0..PaceCap : Halved(PaceCap)[n] = 0})

(* "Each QUIET_INTERVAL without a 429 halves it, and below the floor it is
   off": a host quiet for long enough paces nobody, however its requests
   fell between the halvings. *)
QuietHostUnpaced ==
  [][\A r \in Requests : at[r] = "idle" /\ at'[r] = "turn" =>
       now - answeredAt < QuietEnd]_vars

(* "After one the host's requests, from every store on it, start at least
   the pace apart": two requests that each took a turn under a pace, sent
   one after the other while a pace is on, start the least pace apart. *)
StartsApart ==
  [][\A r \in Requests :
       Starts(r) /\ r \in paced /\ pace > 0 /\ lastStart # None /\ lastStart.paced
         => now - lastStart.at >= PaceFloor]_vars
=============================================================================
