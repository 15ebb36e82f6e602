----------------------------- MODULE MCAccounts -----------------------------
(* Accounts for TLC, and in lanes of their own the parts of identity that  *)
(* share no state with it: a behaviour runs in one lane.                   *)
EXTENDS Accounts, TLC

CONSTANTS Key, Overlap, MaxDays, Email, Threshold, Window, Lag, Client, Rate, Burst,
          StaleAfter, MaxTracked, MaxClock

\* An absent entry is no entry, and a duration is a number.
ASSUME LanesAssumption ==
  /\ None \notin Nat \cup Key
  /\ None \notin [expires : Nat \cup {None}, revoked : BOOLEAN]
  /\ None \notin [incumbent : Key \cup {None}, deadline : Nat]
  /\ None \notin [failures : Nat, lockedUntil : Nat, lastActivity : Nat]
  /\ None \notin [email : Email, at : Nat, form : BOOLEAN]
  /\ None \notin [tokens : Nat, at : Nat]
  /\ Overlap \subseteq Nat /\ Window \in Nat \ {0}
  /\ {Threshold, Lag, Rate, Burst, StaleAfter} \subseteq Nat

VARIABLES lane, key, rotation, state, attempt, bucket, ideal, clock

Keys   == INSTANCE ApiKeys WITH Admin <- Request, MaxClock <- MaxDays
Logins == INSTANCE LoginLimiter
Calls  == INSTANCE RateLimiter

rest == <<key, rotation, state, attempt, bucket, ideal>>

LaneInit ==
  /\ lane \in {"accounts", "keys", "logins", "calls"}
  /\ Init
  /\ key = [k \in Key |-> None] /\ rotation = [r \in Request |-> None]
  /\ state = [e \in Email |-> None] /\ attempt = [r \in Request |-> None]
  /\ bucket = [c \in Client |-> None] /\ ideal = [c \in Client |-> [tokens |-> Burst, at |-> 0]]
  /\ clock = IF lane = "logins" THEN 1 ELSE 0

LaneNext ==
  /\ UNCHANGED lane
  /\ \/ lane = "accounts" /\ Next /\ UNCHANGED <<rest, clock>>
     \/ lane = "keys" /\ Keys!Next /\ UNCHANGED <<vars, state, attempt, bucket, ideal>>
     \/ lane = "logins" /\ Logins!Next /\ UNCHANGED <<vars, key, rotation, bucket, ideal>>
     \/ lane = "calls" /\ Calls!Next /\ UNCHANGED <<vars, key, rotation, state, attempt>>

LaneSpec == LaneInit /\ [][LaneNext]_<<vars, rest, clock, lane>>

-----------------------------------------------------------------------------
\* ApiKeys: there is a current key until it is revoked, and a key that has been
\* superseded or revoked stays so.
KeysChangeHandsWhole == Keys!CurrentUntilRevoked /\ Keys!RetirementIsFinal

\* LoginLimiter: the count passes the threshold only behind a lock, and a lock
\* stands until its time or a right password.
LockHolds == []Logins!NoCountPastTheLock /\ Logins!LockStands
SweepIsBounded == Calls!SweepIsBounded

Symmetry == Permutations(User) \cup Permutations(Request)
=============================================================================
