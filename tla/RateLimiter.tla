---------------------------- MODULE RateLimiter ----------------------------
(***************************************************************************)
(* internal/identity's KeyedRateLimiter: token buckets in a map that is    *)
(* swept when it is full.  "ideal" is the same bucket in a limiter that    *)
(* forgets nobody.  A bucket refills by Rate at each tick up to Burst.     *)
(***************************************************************************)
EXTENDS Naturals, FiniteSets, FiniteSetsExt

CONSTANTS Client,
          Rate, Burst, \* tokens per tick, bucket size
          StaleAfter,  \* staleRateLimiterKeyWindow
          MaxTracked,  \* maxTrackedRateLimiterKeys
          None,        \* an absent entry
          MaxClock     \* bound: the clock

VARIABLES bucket,    \* the map: one limiter per client
          ideal,     \* the bucket of each client in a limiter without a map
          clock
vars == <<bucket, ideal, clock>>

-----------------------------------------------------------------------------
Full == [tokens |-> Burst, at |-> clock]

\* golang.org/x/time/rate: the tokens of a bucket that was last used at b.at.
Level(b) == Min({Burst, b.tokens + Rate * (clock - b.at)})
Taken(b) == [tokens |-> Level(b) - 1, at |-> clock]

Tracked == {c \in Client : bucket[c] # None}

\* A denied call hands its token back, and counts as activity all the same.
Touched(b) == [tokens |-> Level(b), at |-> clock]
Asked(b) == IF Level(b) > 0 THEN Taken(b) ELSE Touched(b)

\* Mutant of Sweepable: the sweep takes whoever did not call just now.
SweepableAll(c) == bucket[c].at < clock

\* evictStaleLocked.
Sweepable(c) == bucket[c].at + StaleAfter < clock

\* limiterFor, with the sweep that makes room for a new client.
Swept(c) ==
  IF bucket[c] = None /\ Cardinality(Tracked) >= MaxTracked
  THEN {x \in Tracked : Sweepable(x)} ELSE {}

LimiterFor(c) == IF bucket[c] = None THEN Full ELSE bucket[c]

\* Allow, granted or denied.
Allow(c) ==
  /\ bucket' = [x \in Client |-> IF x = c THEN Asked(LimiterFor(c))
                                 ELSE IF x \in Swept(c) THEN None ELSE bucket[x]]
  /\ ideal' = [ideal EXCEPT ![c] = Asked(@)]
  /\ UNCHANGED clock

Tick ==
  /\ clock < MaxClock
  /\ clock' = clock + 1
  /\ UNCHANGED <<bucket, ideal>>

Init ==
  /\ clock = 0
  /\ bucket = [c \in Client |-> None]
  /\ ideal = [c \in Client |-> [tokens |-> Burst, at |-> 0]]

Next == Tick \/ \E c \in Client : Allow(c)

Spec == Init /\ [][Next]_vars

-----------------------------------------------------------------------------
\* What a sweep can change: it costs nobody a call, and the calls it gives a
\* client are at most the part of a burst that the time the map keeps a bucket
\* would not have refilled, however often he is forgotten.  (The comment of
\* staleRateLimiterKeyWindow has it that the time "comfortably outlasts every
\* RPS/RPM window"; Validate lets configurations through for which it does not.)
Near(real, kept) == kept <= real /\ (real = kept \/ real + Rate * StaleAfter <= kept + Burst)

SweepIsBounded == \A c \in Client : Near(Level(LimiterFor(c)), Level(ideal[c]))
=============================================================================
