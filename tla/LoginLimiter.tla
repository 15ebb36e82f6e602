---------------------------- MODULE LoginLimiter ----------------------------
(***************************************************************************)
(* internal/identity's LoginAttemptLimiter beside its two callers, the     *)
(* login form and the device-token exchange.  A caller asks Locked, spends *)
(* a while on the password with no lock held, and records the outcome.     *)
(* The form reads the clock again to record it, the exchange does not.     *)
(***************************************************************************)
EXTENDS Naturals, FiniteSets

CONSTANTS Email, Request,
          Threshold,   \* loginAttemptThreshold
          Window,      \* loginLockoutWindow
          MaxTracked,  \* maxTrackedAccounts
          Lag,         \* the longest that a password check takes
          None,        \* an absent entry
          MaxClock     \* bound: the clock

VARIABLES state,     \* the map: one entry per email
          attempt,   \* the password checks in flight
          clock
vars == <<state, attempt, clock>>

-----------------------------------------------------------------------------
Tracked == {e \in Email : state[e] # None}

\* lockedUntil 0 is the zero time.
Fresh == [failures |-> 0, lockedUntil |-> 0, lastActivity |-> 0]

Locked(e, now) == state[e] # None /\ now < state[e].lockedUntil

Stale(e, now) == state[e].lastActivity + Window < now

\* The entry to count on, before the count.
Counted(e, now) ==
  IF state[e] = None \/ (state[e].lockedUntil # 0 /\ now >= state[e].lockedUntil)
  THEN Fresh ELSE state[e]

\* Mutant of Struck: a lock that has run out leaves the count.
StruckOnTop(e, now) ==
  LET st == IF state[e] = None THEN Fresh ELSE state[e]
      n  == st.failures + 1
  IN  [failures |-> n, lastActivity |-> now,
       lockedUntil |-> IF n = Threshold + 1 THEN now + Window ELSE st.lockedUntil]

\* Mutant of Struck: a failure during the lock starts a fresh count.
StruckFresh(e, now) ==
  LET st == IF state[e] = None \/ state[e].lockedUntil # 0 THEN Fresh ELSE state[e]
      n  == st.failures + 1
  IN  [failures |-> n, lastActivity |-> now,
       lockedUntil |-> IF n = Threshold + 1 THEN now + Window ELSE st.lockedUntil]

Struck(e, now) ==
  LET st == Counted(e, now)
      n  == st.failures + 1
  IN  [failures |-> n, lastActivity |-> now,
       lockedUntil |-> IF n = Threshold + 1 THEN now + Window ELSE st.lockedUntil]

\* Room for an email the map does not have: evictStaleLocked.
Swept(e, now) ==
  IF state[e] = None /\ Cardinality(Tracked) >= MaxTracked
  THEN {x \in Tracked : Stale(x, now)} ELSE {}

-----------------------------------------------------------------------------
\* A locked email is turned away without a check.
Begin(r, e, form) ==
  /\ attempt[r] = None /\ ~Locked(e, clock)
  /\ attempt' = [attempt EXCEPT ![r] = [email |-> e, at |-> clock, form |-> form]]
  /\ UNCHANGED <<state, clock>>

RecordFailure(r) ==
  LET a   == attempt[r]
      now == IF a.form THEN clock ELSE a.at
  IN  /\ a # None
      /\ state' = [x \in Email |-> IF x = a.email THEN Struck(x, now)
                                   ELSE IF x \in Swept(a.email, now) THEN None ELSE state[x]]
      /\ attempt' = [attempt EXCEPT ![r] = None]
      /\ UNCHANGED clock

RecordSuccess(r) ==
  /\ attempt[r] # None
  /\ state' = [state EXCEPT ![attempt[r].email] = None]
  /\ attempt' = [attempt EXCEPT ![r] = None]
  /\ UNCHANGED clock

\* An error of the repository: nothing is recorded.
Fail(r) ==
  /\ attempt[r] # None
  /\ attempt' = [attempt EXCEPT ![r] = None]
  /\ UNCHANGED <<state, clock>>

\* Time passes, but no check takes longer than Lag.
Tick ==
  /\ clock < MaxClock
  /\ \A r \in Request : attempt[r] # None => clock < attempt[r].at + Lag
  /\ clock' = clock + 1
  /\ UNCHANGED <<state, attempt>>

-----------------------------------------------------------------------------
Init ==
  /\ state = [e \in Email |-> None]
  /\ attempt = [r \in Request |-> None]
  /\ clock = 1

Next ==
  \/ \E r \in Request : RecordFailure(r) \/ RecordSuccess(r) \/ Fail(r)
  \/ \E r \in Request, e \in Email, form \in BOOLEAN : Begin(r, e, form)
  \/ Tick

Spec == Init /\ [][Next]_vars

-----------------------------------------------------------------------------
(* Properties. *)

\* Type invariant of the map and the attempts.
TypeOK ==
  /\ state \in [Email -> [failures : Nat, lockedUntil : Nat, lastActivity : Nat] \cup {None}]
  /\ attempt \in [Request -> [email : Email, at : Nat, form : BOOLEAN] \cup {None}]
  /\ clock \in Nat

\* The count passes the threshold only behind a lock: what is counted
\* beyond it was in flight when the lock began, and was counted before it
\* ended.  So no run of wrong passwords steps over the one count that locks
\* (RecordFailure compares with = and resets only a lock that has expired).
NoCountPastTheLock ==
  \A e \in Tracked : state[e].failures > Threshold => state[e].lastActivity < state[e].lockedUntil

\* "Once locked, an email stays locked until lockedUntil": while more than
\* Lag is left, nothing but a right password ends or moves a lock, whatever
\* was in flight when it began and whatever the sweep of a full map takes.
LockStands ==
  [][\A e \in Tracked : clock' + Lag < state[e].lockedUntil =>
       \/ state'[e] # None /\ state'[e].lockedUntil = state[e].lockedUntil
       \/ \E r \in Request : /\ attempt[r] # None /\ attempt[r].email = e
                            /\ attempt'[r] = None /\ state'[e] = None]_vars
=============================================================================
