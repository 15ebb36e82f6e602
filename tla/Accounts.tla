------------------------------ MODULE Accounts ------------------------------
(***************************************************************************)
(* Members, their sessions and their device tokens: internal/identity's    *)
(* first-run setup, login, user management, password change and the        *)
(* revocation of credentials.                                              *)
(*                                                                         *)
(* A request r is served by one goroutine; op[r] says what it does next    *)
(* and what it read before.  A password is hashed and a session is saved   *)
(* outside any transaction: a session is read when the request begins and  *)
(* written, if the request has changed it, when the request ends.          *)
(*                                                                         *)
(* A member's epoch counts the events that are to end his credentials: a   *)
(* new password, a deactivation.  A credential carries the epoch it was    *)
(* proved under; "late" marks a row that was written after that epoch had  *)
(* ended.  A password is right when it is the one the member now has.      *)
(***************************************************************************)
EXTENDS Naturals, FiniteSets, FiniteSetsExt

CONSTANTS User, Sid, Tid, Request,
          None,        \* SQL NULL, an absent row
          MaxEpoch     \* bound: password changes and deactivations per member

ASSUME AccountsAssumption ==
  /\ None \notin User \cup Sid \cup Tid
  /\ MaxEpoch \in Nat

VARIABLES member,    \* identity.member rows
          session,   \* identity.sessions rows
          token,     \* device_token rows
          op,        \* what each request is doing
          settled,   \* the last epoch of each member whose revocation is done
          founders   \* members made by the setup wizard
vars == <<member, session, token, op, settled, founders>>

-----------------------------------------------------------------------------
(* Rows and requests. *)

Role == {"owner", "member"}
Member == [role : Role, active : BOOLEAN, epoch : 0..MaxEpoch]
Credential == [user : User, epoch : 0..MaxEpoch, late : BOOLEAN]
Session == [user : User, epoch : 0..MaxEpoch, late : BOOLEAN, csrf : BOOLEAN]

\* SQL NULL is no row.
ASSUME NullIsNoRow == None \notin Member \cup Credential \cup Session

Step == {"idle", "found", "sign in", "mint", "save", "lock", "write", "hash",
         "list", "destroy", "revoke tokens"}
Idle == [step |-> "idle", user |-> None, sid |-> None, epoch |-> 0, locks |-> {},
         doomed |-> {}, kind |-> "none", failed |-> FALSE]
Kind == {"none", "change", "reset", "deactivate", "demote"}
Work == [step : Step, user : User \cup {None}, sid : Sid \cup {None}, epoch : 0..MaxEpoch,
         locks : SUBSET User, doomed : SUBSET Sid, kind : Kind, failed : BOOLEAN]

IsMember(u) == member[u] # None
ActiveAdmins == {u \in User : IsMember(u) /\ member[u].role = "owner" /\ member[u].active}
HasAnyUser == \E u \in User : IsMember(u)

\* A row lock of a transaction that has not committed.
Locked(u) == \E r \in Request : u \in op[r].locks

SessionsOf(u) == {s \in Sid : session[s] # None /\ session[s].user = u}
TokensOf(u) == {t \in Tid : token[t] # None /\ token[t].user = u}

Issued(u, epoch) == [user |-> u, epoch |-> epoch, late |-> epoch < member[u].epoch]
Saved(u, epoch) ==
  [user |-> u, epoch |-> epoch, late |-> epoch < member[u].epoch, csrf |-> TRUE]

\* RequireAdmin let the request through: it came with a credential of an
\* active admin, who is not asked again.
ByAdmin == \E u \in ActiveAdmins : SessionsOf(u) # {} \/ TokensOf(u) # {}

Proceeds(r, work) == op' = [op EXCEPT ![r] = work]

-----------------------------------------------------------------------------
(* First-run setup and login. *)

\* The wizard's first look, outside the transaction.
Submit(r) ==
  /\ op[r] = Idle /\ ~HasAnyUser
  /\ Proceeds(r, [Idle EXCEPT !.step = "found"])
  /\ UNCHANGED <<member, session, token, settled, founders>>

\* Mutant of CreateFirstAdmin: the look of Submit is believed.
CreateFirstAdminUnchecked(r, u) ==
  /\ op[r].step = "found" /\ ~IsMember(u)
  /\ member' = [member EXCEPT ![u] = [role |-> "owner", active |-> TRUE, epoch |-> 0]]
  /\ founders' = founders \cup {u}
  /\ Proceeds(r, [op[r] EXCEPT !.step = "sign in", !.user = u])
  /\ UNCHANGED <<session, token, settled>>

\* One transaction under the advisory lock: it looks again and inserts.
CreateFirstAdmin(r, u) ==
  /\ op[r].step = "found" /\ ~IsMember(u)
  /\ IF HasAnyUser
     THEN Proceeds(r, Idle) /\ UNCHANGED <<member, founders>>
     ELSE /\ member' = [member EXCEPT ![u] = [role |-> "owner", active |-> TRUE, epoch |-> 0]]
          /\ founders' = founders \cup {u}
          /\ Proceeds(r, [op[r] EXCEPT !.step = "sign in", !.user = u])
  /\ UNCHANGED <<session, token, settled>>

\* The member is read, then the password is verified against what was read.
Login(r, u, then) ==
  /\ op[r] = Idle /\ IsMember(u) /\ member[u].active
  /\ Proceeds(r, [Idle EXCEPT !.step = then, !.user = u, !.epoch = member[u].epoch])
  /\ UNCHANGED <<member, session, token, settled, founders>>

\* The end of the request: RenewToken has dropped the old row, and the
\* session is saved under a fresh token.
SignIn(r, s) ==
  /\ op[r].step = "sign in"
  /\ session[s] = None /\ \A q \in Request : op[q].sid # s
  /\ session' = [t \in Sid |->
                   IF t = s THEN Saved(op[r].user, op[r].epoch)
                   ELSE IF t = op[r].sid THEN None ELSE session[t]]
  /\ Proceeds(r, Idle)
  /\ UNCHANGED <<member, token, settled, founders>>

\* Issue: Login with "mint" to follow, then one INSERT.
IssueToken(r, t) ==
  /\ op[r].step = "mint" /\ token[t] = None
  /\ token' = [token EXCEPT ![t] = Issued(op[r].user, op[r].epoch)]
  /\ Proceeds(r, Idle)
  /\ UNCHANGED <<member, session, settled, founders>>

\* A login at Nestova, which shares the session store: a session without
\* this application's CSRF token.
Arrive(u, s) ==
  /\ IsMember(u) /\ member[u].active
  /\ session[s] = None /\ \A q \in Request : op[q].sid # s
  /\ session' = [session EXCEPT ![s] = [Saved(u, member[u].epoch) EXCEPT !.csrf = FALSE]]
  /\ UNCHANGED <<member, token, op, settled, founders>>

\* A page: its form mints the CSRF token that the session lacks, and the
\* middleware will save the session.  Other pages change no session.
Browse(r, s) ==
  /\ op[r] = Idle /\ session[s] # None /\ ~session[s].csrf
  /\ member[session[s].user].active
  /\ Proceeds(r, [Idle EXCEPT !.step = "save", !.sid = s, !.user = session[s].user,
                              !.epoch = session[s].epoch])
  /\ UNCHANGED <<member, session, token, settled, founders>>

\* An upsert: it does not ask whether the row is still there.
Save(r) ==
  /\ op[r].step = "save"
  /\ session' = [session EXCEPT ![op[r].sid] = Saved(op[r].user, op[r].epoch)]
  /\ Proceeds(r, Idle)
  /\ UNCHANGED <<member, token, settled, founders>>

\* A session of a deactivated member loses its user id when it next comes.
DropStaleSession(s) ==
  /\ session[s] # None /\ ~member[session[s].user].active
  /\ session' = [session EXCEPT ![s] = None]
  /\ UNCHANGED <<member, token, op, settled, founders>>

Logout(s) ==
  /\ session[s] # None
  /\ session' = [session EXCEPT ![s] = None]
  /\ UNCHANGED <<member, token, op, settled, founders>>

\* A member revokes a device of his own.
RevokeToken(t) ==
  /\ token[t] # None
  /\ token' = [token EXCEPT ![t] = None]
  /\ UNCHANGED <<member, session, op, settled, founders>>

-----------------------------------------------------------------------------
(* User management. *)

Create(u, role) ==
  /\ ByAdmin /\ ~IsMember(u)
  /\ member' = [member EXCEPT ![u] = [role |-> role, active |-> TRUE, epoch |-> 0]]
  /\ UNCHANGED <<session, token, op, settled, founders>>

\* Mutant of Promote: the form's word for the role is written.
PromoteToAdmin(u) ==
  /\ ByAdmin /\ IsMember(u) /\ ~Locked(u)
  /\ member' = [member EXCEPT ![u].role = "admin"]
  /\ UNCHANGED <<session, token, op, settled, founders>>

\* Plain UPDATEs, which wait for a row lock.
Promote(u) ==
  /\ ByAdmin /\ IsMember(u) /\ ~Locked(u)
  /\ member' = [member EXCEPT ![u].role = "owner"]
  /\ UNCHANGED <<session, token, op, settled, founders>>

Reactivate(u) ==
  /\ ByAdmin /\ IsMember(u) /\ ~Locked(u)
  /\ member' = [member EXCEPT ![u].active = TRUE]
  /\ UNCHANGED <<session, token, op, settled, founders>>

\* Deactivate, or ChangeRole to "member": a transaction that begins with
\* lockActiveAdminIDs.
BeginGuarded(r, u, kind) ==
  /\ op[r] = Idle /\ ByAdmin /\ IsMember(u)
  /\ Proceeds(r, [Idle EXCEPT !.step = "lock", !.user = u, !.kind = kind])
  /\ UNCHANGED <<member, session, token, settled, founders>>

\* Mutant of LockActiveAdmins: a SELECT without FOR UPDATE.
ReadActiveAdmins(r) ==
  /\ op[r].step = "lock"
  /\ Proceeds(r, IF ActiveAdmins = {op[r].user} THEN Idle ELSE [op[r] EXCEPT !.step = "write"])
  /\ UNCHANGED <<member, session, token, settled, founders>>

\* SELECT ... FOR UPDATE waits for a holder of any of the rows and then sees
\* what he has committed; the last one is refused.
LockActiveAdmins(r) ==
  /\ op[r].step = "lock" /\ \A u \in ActiveAdmins : ~Locked(u)
  /\ Proceeds(r, IF ActiveAdmins = {op[r].user} THEN Idle
                 ELSE [op[r] EXCEPT !.step = "write", !.locks = ActiveAdmins])
  /\ UNCHANGED <<member, session, token, settled, founders>>

Unlocked(u, r) == \A q \in Request \ {r} : u \notin op[q].locks

WriteGuarded(r) ==
  LET u == op[r].user
  IN  /\ op[r].step = "write" /\ Unlocked(u, r)
      /\ IF op[r].kind = "demote"
         THEN member' = [member EXCEPT ![u].role = "member"] /\ Proceeds(r, Idle)
         ELSE /\ member[u].epoch < MaxEpoch
              /\ member' = [member EXCEPT ![u].active = FALSE, ![u].epoch = @ + 1]
              /\ Proceeds(r, [op[r] EXCEPT !.step = "list", !.locks = {}, !.epoch = member[u].epoch + 1])
      /\ UNCHANGED <<session, token, settled, founders>>

ResetPassword(r, u) ==
  /\ op[r] = Idle /\ ByAdmin /\ IsMember(u)
  /\ Proceeds(r, [Idle EXCEPT !.step = "hash", !.user = u, !.kind = "reset"])
  /\ UNCHANGED <<member, session, token, settled, founders>>

\* The current password is verified against the row that was read; the new
\* one is hashed and written later.
ChangeOwn(r, s) ==
  /\ op[r] = Idle /\ session[s] # None /\ member[session[s].user].active
  /\ Proceeds(r, [Idle EXCEPT !.step = "hash", !.user = session[s].user, !.sid = s,
                              !.kind = "change"])
  /\ UNCHANGED <<member, session, token, settled, founders>>

SetPasswordHash(r) ==
  LET u == op[r].user
  IN  /\ op[r].step = "hash" /\ ~Locked(u) /\ member[u].epoch < MaxEpoch
      /\ member' = [member EXCEPT ![u].epoch = @ + 1]
      /\ Proceeds(r, [op[r] EXCEPT !.step = "list", !.epoch = member[u].epoch + 1])
      /\ UNCHANGED <<session, token, settled, founders>>

-----------------------------------------------------------------------------
(* RevokeAll. *)

\* Iterate reads every session, in one statement.
ListSessions(r) ==
  /\ op[r].step = "list"
  /\ Proceeds(r, [op[r] EXCEPT !.step = "destroy", !.doomed = SessionsOf(op[r].user)])
  /\ UNCHANGED <<member, session, token, settled, founders>>

\* ... and deletes those of the user, one by one.
DestroySession(r) ==
  /\ op[r].step = "destroy"
  /\ IF op[r].doomed = {}
     THEN Proceeds(r, [op[r] EXCEPT !.step = "revoke tokens"]) /\ UNCHANGED session
     ELSE \E s \in op[r].doomed :
            /\ session' = [session EXCEPT ![s] = None]
            /\ Proceeds(r, [op[r] EXCEPT !.doomed = @ \ {s}])
  /\ UNCHANGED <<member, token, settled, founders>>

\* A revoker that fails does not keep the next one from running.
FailToRevoke(r) ==
  /\ op[r].step \in {"list", "destroy"}
  /\ Proceeds(r, [op[r] EXCEPT !.step = "revoke tokens", !.failed = TRUE, !.doomed = {}])
  /\ UNCHANGED <<member, session, token, settled, founders>>

\* A password change signs its own session in again.
Finish(r) ==
  Proceeds(r, IF op[r].kind = "change" /\ ~op[r].failed THEN [op[r] EXCEPT !.step = "sign in"] ELSE Idle)

Settle(r) ==
  settled' = IF op[r].failed THEN settled
             ELSE [settled EXCEPT ![op[r].user] = Max({@, op[r].epoch})]

\* Mutant of RevokeAllTokens: the session revoker is the only one.
RevokeNoTokens(r) ==
  /\ op[r].step = "revoke tokens"
  /\ Settle(r) /\ Finish(r)
  /\ UNCHANGED <<member, session, token, founders>>

RevokeAllTokens(r) ==
  /\ op[r].step = "revoke tokens"
  /\ token' = [t \in Tid |-> IF t \in TokensOf(op[r].user) THEN None ELSE token[t]]
  /\ Settle(r) /\ Finish(r)
  /\ UNCHANGED <<member, session, founders>>

\* A request that fails or dies: its transaction is rolled back.
Stop(r) ==
  /\ op[r] # Idle
  /\ Proceeds(r, Idle)
  /\ UNCHANGED <<member, session, token, settled, founders>>

-----------------------------------------------------------------------------
Init ==
  /\ member = [u \in User |-> None]
  /\ session = [s \in Sid |-> None]
  /\ token = [t \in Tid |-> None]
  /\ op = [r \in Request |-> Idle]
  /\ settled = [u \in User |-> 0]
  /\ founders = {}

Enters(r) ==
  \/ Submit(r) \/ \E u \in User : CreateFirstAdmin(r, u)
  \/ \E u \in User : Login(r, u, "sign in") \/ Login(r, u, "mint")
  \/ \E s \in Sid : SignIn(r, s) \/ Browse(r, s) \/ ChangeOwn(r, s)
  \/ \E t \in Tid : IssueToken(r, t)
  \/ Save(r)

Manages(r) ==
  \/ \E u \in User : BeginGuarded(r, u, "deactivate") \/ BeginGuarded(r, u, "demote")
  \/ \E u \in User : ResetPassword(r, u)
  \/ LockActiveAdmins(r) \/ WriteGuarded(r) \/ SetPasswordHash(r)

Revokes(r) == ListSessions(r) \/ DestroySession(r) \/ FailToRevoke(r) \/ RevokeAllTokens(r)

Next ==
  \/ \E r \in Request : Enters(r) \/ Manages(r) \/ Revokes(r) \/ Stop(r)
  \/ \E u \in User : Promote(u) \/ Reactivate(u) \/ \E role \in Role : Create(u, role)
  \/ \E u \in User, s \in Sid : Arrive(u, s)
  \/ \E s \in Sid : Logout(s) \/ DropStaleSession(s)
  \/ \E t \in Tid : RevokeToken(t)

Spec == Init /\ [][Next]_vars

-----------------------------------------------------------------------------
(* Properties. *)

\* Type invariant of the rows and the requests.
TypeOK ==
  /\ member \in [User -> Member \cup {None}]
  /\ session \in [Sid -> Session \cup {None}]
  /\ token \in [Tid -> Credential \cup {None}]
  /\ op \in [Request -> Work]
  /\ settled \in [User -> 0..MaxEpoch]
  /\ founders \subseteq User

\* Two admins who deactivate or demote each other at once never leave the
\* household without an active admin (lastAdminGuardedUpdate).
AdminRemains == HasAnyUser => ActiveAdmins # {}

\* Two submissions of the wizard never make two first admins
\* (Provisioner.CreateFirstAdmin).
OneFirstAdmin == Cardinality(founders) <= 1

Live == {session[s] : s \in {x \in Sid : session[x] # None}}
        \cup {token[t] : t \in {x \in Tid : token[x] # None}}

\* The order of AdminService.Deactivate and ResetPassword, the change first
\* and the revocation second: once a revocation is done, no credential from
\* before the change is left but one that was written after the change by a
\* request from before it.
RevocationReachesAll == \A c \in Live : c.epoch < settled[c.user] => c.late
=============================================================================
