------------------------------ MODULE ApiKeys ------------------------------
(***************************************************************************)
(* The account's api key: internal/identity's APIKeyService and its        *)
(* repository.  A rotation reads the current key and fixes the end of its  *)
(* overlap window, and only then opens the transaction that retires that   *)
(* key and inserts the next one.                                           *)
(***************************************************************************)
EXTENDS Naturals

CONSTANTS Key, Admin,
          Overlap,     \* OverlapWindow durations
          None,        \* SQL NULL, an absent row
          MaxClock     \* bound: the clock

VARIABLES key,       \* api_key rows
          rotation,  \* what each admin's rotation has read
          clock
vars == <<key, rotation, clock>>

-----------------------------------------------------------------------------
(* Rows. *)

Fresh == [expires |-> None, revoked |-> FALSE]
Exists(k) == key[k] # None

\* APIKeyStatusCurrent.
Current(k) == Exists(k) /\ ~key[k].revoked /\ key[k].expires = None
Retired(k) == Exists(k) /\ ~key[k].revoked /\ key[k].expires # None
HasCurrent == \E k \in Key : Current(k)

\* Authenticate lets the key's bearer in.
Usable(k) == Current(k) \/ (Retired(k) /\ key[k].expires > clock)

-----------------------------------------------------------------------------
(* Operations. *)

\* The unique index on the current key refuses a second one.
Create(k) ==
  /\ ~Exists(k) /\ ~HasCurrent
  /\ key' = [key EXCEPT ![k] = Fresh]
  /\ UNCHANGED <<rotation, clock>>

\* Current, found or not, and the deadline.
BeginRotation(a, overlap) ==
  /\ rotation[a] = None
  /\ \E found \in Key \cup {None} :
       /\ IF found = None THEN ~HasCurrent ELSE Current(found)
       /\ rotation' = [rotation EXCEPT ![a] = [incumbent |-> found, deadline |-> clock + overlap]]
  /\ UNCHANGED <<key, clock>>

\* The row that the UPDATE finds: WHERE id AND revoked_at IS NULL.
Supersedable(a) ==
  LET found == rotation[a].incumbent IN found # None => ~key[found].revoked
Superseded(a) ==
  LET r == rotation[a]
  IN  IF r.incumbent = None THEN key ELSE [key EXCEPT ![r.incumbent].expires = r.deadline]

\* The index takes the new key when no other key is current by then.
IndexTakes(a) == \A k \in Key : Current(k) => k = rotation[a].incumbent

\* Mutant of Rotate: the two statements commit one by one.
RotateByHalves(a, k) ==
  /\ rotation[a] # None /\ ~Exists(k) /\ Supersedable(a) /\ IndexTakes(a)
  /\ rotation' = [rotation EXCEPT ![a] = None]
  /\ key' \in {Superseded(a), [Superseded(a) EXCEPT ![k] = Fresh]}
  /\ UNCHANGED clock

\* Mutant of Rotate: an INSERT the index refuses does not roll back.
RotateOverIndex(a, k) ==
  /\ rotation[a] # None /\ ~Exists(k) /\ Supersedable(a)
  /\ rotation' = [rotation EXCEPT ![a] = None]
  /\ key' = IF IndexTakes(a) THEN [Superseded(a) EXCEPT ![k] = Fresh] ELSE Superseded(a)
  /\ UNCHANGED clock

\* The transaction, one rotation at a time by the advisory lock.
Rotate(a, k) ==
  /\ rotation[a] # None /\ ~Exists(k) /\ Supersedable(a) /\ IndexTakes(a)
  /\ rotation' = [rotation EXCEPT ![a] = None]
  /\ key' = [Superseded(a) EXCEPT ![k] = Fresh]
  /\ UNCHANGED clock

\* No such row, the index, an error or a crash: nothing is left of it.
RollBack(a) ==
  /\ rotation[a] # None
  /\ rotation' = [rotation EXCEPT ![a] = None]
  /\ UNCHANGED <<key, clock>>

Revoke(k) ==
  /\ Exists(k) /\ ~key[k].revoked
  /\ key' = [key EXCEPT ![k].revoked = TRUE]
  /\ UNCHANGED <<rotation, clock>>

Tick ==
  /\ clock < MaxClock
  /\ clock' = clock + 1
  /\ UNCHANGED <<key, rotation>>

-----------------------------------------------------------------------------
Init ==
  /\ key = [k \in Key |-> None]
  /\ rotation = [a \in Admin |-> None]
  /\ clock = 0

Next ==
  \/ \E k \in Key : Create(k) \/ Revoke(k) \/ \E a \in Admin : Rotate(a, k)
  \/ \E a \in Admin : RollBack(a) \/ \E overlap \in Overlap : BeginRotation(a, overlap)
  \/ Tick

Spec == Init /\ [][Next]_vars

-----------------------------------------------------------------------------
(* Properties. *)

\* Type invariant of the rows and the rotations.
TypeOK ==
  /\ key \in [Key -> [expires : Nat \cup {None}, revoked : BOOLEAN] \cup {None}]
  /\ rotation \in [Admin -> [incumbent : Key \cup {None}, deadline : Nat] \cup {None}]
  /\ clock \in Nat

\* A rotation that fails at any point leaves the account its key: only a
\* revocation takes the current key away without a successor
\* (APIKeyRepository.Rotate: "the incumbent is NOT left superseded").
CurrentUntilRevoked ==
  [][HasCurrent /\ ~HasCurrent' => \E k \in Key : Current(k) /\ key'[k].revoked]_vars

\* The end that a rotation set for the key it retired stands while that
\* key's successor is current: a second rotation that had read the same
\* incumbent moves nothing, and the retired key comes back to life no more.
RetirementIsFinal ==
  [][\A k \in Key : Retired(k) /\ HasCurrent =>
       /\ key'[k].expires = key[k].expires
       /\ ~Usable(k) => ~Usable(k)']_vars

=============================================================================
