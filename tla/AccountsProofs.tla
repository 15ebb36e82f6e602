--------------------------- MODULE AccountsProofs ---------------------------
(* Theorems about Accounts for any members, credentials and requests.      *)
EXTENDS Accounts, TLAPS, FiniteSetTheorems

-----------------------------------------------------------------------------
(* The inductive invariant. *)

Serving == {"sign in", "mint", "save", "lock", "write", "hash", "list", "destroy", "revoke tokens"}
Proved == {"sign in", "mint", "save", "list", "destroy", "revoke tokens"}

\* A request works for a member among the rows, and has proved him under an
\* epoch that he has reached.
Known(work, rows) ==
  /\ work.step \in Serving => work.user \in User /\ rows[work.user] # None
  /\ work.step = "save" => work.sid \in Sid
  /\ work.step = "found" => work.epoch = 0
  /\ work.step \in Proved => work.epoch <= rows[work.user].epoch

WorkKnown == \A r \in Request : Known(op[r], member)

\* The row locks of lockActiveAdminIDs keep those members active admins, and
\* one of them is another than the member that the write is about.
LocksHold ==
  \A r \in Request :
    /\ op[r].locks \subseteq ActiveAdmins
    /\ op[r].step = "write" => \E v \in op[r].locks : v # op[r].user

FirstAdminKnown == founders = {} \/ \E u \in User : IsMember(u) /\ founders = {u}

Epoch(u) == IF IsMember(u) THEN member[u].epoch ELSE 0

\* Credentials are members', of epochs that they have reached.
CredentialsKnown ==
  /\ \A s \in Sid : session[s] # None =>
       IsMember(session[s].user) /\ session[s].epoch <= member[session[s].user].epoch
  /\ \A t \in Tid : token[t] # None =>
       IsMember(token[t].user) /\ token[t].epoch <= member[token[t].user].epoch
  /\ \A u \in User : settled[u] <= Epoch(u)

\* The sessions that a revocation must take and has not, at each of its steps.
RevocationCovers ==
  \A r \in Request, s \in Sid :
    session[s] # None /\ session[s].user = op[r].user
        /\ session[s].epoch < op[r].epoch /\ ~session[s].late =>
      /\ op[r].step = "destroy" => s \in op[r].doomed
      /\ op[r].step = "revoke tokens" => op[r].failed

\* RevocationReachesAll, by the two tables.
Reached ==
  /\ \A s \in Sid : session[s] # None =>
       session[s].epoch >= settled[session[s].user] \/ session[s].late
  /\ \A t \in Tid : token[t] # None =>
       token[t].epoch >= settled[token[t].user] \/ token[t].late

Accountable ==
  /\ TypeOK /\ WorkKnown
  /\ LocksHold /\ AdminRemains /\ FirstAdminKnown
  /\ CredentialsKnown /\ RevocationCovers /\ Reached

LEMMA AccountableInit == Init => Accountable
<1> SUFFICES ASSUME Init PROVE Accountable
  OBVIOUS
<1> USE AccountsAssumption DEF Init
<1>1. TypeOK
  BY DEF TypeOK, Idle, Work, Kind, Step
<1>2. WorkKnown /\ RevocationCovers
  BY DEF WorkKnown, Known, IsMember, Serving, Proved, RevocationCovers, Idle
<1>3. LocksHold /\ AdminRemains /\ FirstAdminKnown
  BY DEF LocksHold, AdminRemains, HasAnyUser, IsMember, FirstAdminKnown, Idle
<1>4. CredentialsKnown /\ Reached
  BY DEF CredentialsKnown, Reached, Epoch, IsMember
<1> QED
  BY <1>1, <1>2, <1>3, <1>4 DEF Accountable

-----------------------------------------------------------------------------
(* Types. *)

LEMMA MaxOfTwo ==
  ASSUME NEW a \in Nat, NEW b \in Nat
  PROVE  Max({a, b}) = IF a >= b THEN a ELSE b
<1> DEFINE m == IF a >= b THEN a ELSE b
<1>1. m \in {a, b} /\ \A y \in {a, b} : m >= y
  OBVIOUS
<1>2. \A x \in {a, b} : (\A y \in {a, b} : x >= y) => x = m
  OBVIOUS
<1> HIDE DEF m
<1>3. Max({a, b}) = m
  BY <1>1, <1>2 DEF Max
<1> QED
  BY <1>3 DEF m

LEMMA WorkProceeds ==
  ASSUME TypeOK, NEW r \in Request, NEW work \in Work, Proceeds(r, work)
  PROVE  op' \in [Request -> Work]
BY DEF TypeOK, Proceeds

LEMMA IdleIsWork == Idle \in Work
BY AccountsAssumption DEF Idle, Work, Step, Kind

\* What a request goes on with is well formed.
LEMMA WorkNext ==
  ASSUME TypeOK, WorkKnown, CredentialsKnown, [Next]_vars
  PROVE  op' \in [Request -> Work]
<1> USE AccountsAssumption, IdleIsWork
<1>0. op \in [Request -> Work] /\ \A r \in Request : op[r] \in Work
  BY DEF TypeOK
<1>1. CASE UNCHANGED op
  BY <1>0, <1>1
<1>2. ASSUME NEW r \in Request, NEW work \in Work, Proceeds(r, work) PROVE op' \in [Request -> Work]
  BY <1>0, <1>2 DEF Proceeds
<1>3. ASSUME NEW r \in Request, Proceeds(r, Idle) PROVE op' \in [Request -> Work]
  BY <1>2, <1>3
<1>4. ASSUME NEW r \in Request, NEW step \in Step
      PROVE  [Idle EXCEPT !.step = step] \in Work /\ [op[r] EXCEPT !.step = step] \in Work
  BY <1>0 DEF Idle, Work, Kind
<1>5. ASSUME NEW r \in Request, Enters(r) PROVE op' \in [Request -> Work]
  <2>1. CASE Submit(r)
    <3>1. Proceeds(r, [Idle EXCEPT !.step = "found"])
      BY <2>1 DEF Submit
    <3> QED
      BY <1>2, <1>4, <3>1 DEF Step
  <2>2. ASSUME NEW u \in User, CreateFirstAdmin(r, u) PROVE op' \in [Request -> Work]
    <3>1. [op[r] EXCEPT !.step = "sign in", !.user = u] \in Work
      BY <1>0 DEF Work, Step
    <3>2. Proceeds(r, Idle) \/ Proceeds(r, [op[r] EXCEPT !.step = "sign in", !.user = u])
      BY <2>2 DEF CreateFirstAdmin
    <3> QED
      BY <1>2, <1>3, <3>1, <3>2
  <2>3. ASSUME NEW u \in User, NEW then \in {"sign in", "mint"}, Login(r, u, then)
        PROVE  op' \in [Request -> Work]
    <3>1. member[u].epoch \in 0..MaxEpoch
      BY <2>3 DEF Login, IsMember, TypeOK, Member
    <3>2. [Idle EXCEPT !.step = then, !.user = u, !.epoch = member[u].epoch] \in Work
      BY <3>1 DEF Idle, Work, Step, Kind
    <3>3. Proceeds(r, [Idle EXCEPT !.step = then, !.user = u, !.epoch = member[u].epoch])
      BY <2>3 DEF Login
    <3> QED
      BY <1>2, <3>2, <3>3
  <2>4. ASSUME NEW s \in Sid, Browse(r, s) PROVE op' \in [Request -> Work]
    <3>1. session[s] \in Session
      BY <2>4 DEF Browse, TypeOK
    <3>2. [Idle EXCEPT !.step = "save", !.sid = s, !.user = session[s].user,
                       !.epoch = session[s].epoch] \in Work
      BY <3>1 DEF Idle, Work, Step, Kind, Session
    <3>3. Proceeds(r, [Idle EXCEPT !.step = "save", !.sid = s, !.user = session[s].user,
                                   !.epoch = session[s].epoch])
      BY <2>4 DEF Browse
    <3> QED
      BY <1>2, <3>2, <3>3
  <2>5. ASSUME NEW s \in Sid, ChangeOwn(r, s) PROVE op' \in [Request -> Work]
    <3>1. session[s] \in Session
      BY <2>5 DEF ChangeOwn, TypeOK
    <3>2. [Idle EXCEPT !.step = "hash", !.user = session[s].user, !.sid = s, !.kind = "change"] \in Work
      BY <3>1 DEF Idle, Work, Step, Kind, Session
    <3>3. Proceeds(r, [Idle EXCEPT !.step = "hash", !.user = session[s].user, !.sid = s,
                                   !.kind = "change"])
      BY <2>5 DEF ChangeOwn
    <3> QED
      BY <1>2, <3>2, <3>3
  <2>6. CASE Save(r) \/ (\E s \in Sid : SignIn(r, s)) \/ (\E t \in Tid : IssueToken(r, t))
    BY <1>3, <2>6 DEF Save, SignIn, IssueToken
  <2> QED
    BY <1>5, <2>1, <2>2, <2>3, <2>4, <2>5, <2>6 DEF Enters
<1>6. ASSUME NEW r \in Request, Manages(r) PROVE op' \in [Request -> Work]
  <2>1. ASSUME NEW u \in User, NEW kind \in Kind, BeginGuarded(r, u, kind) PROVE op' \in [Request -> Work]
    <3>1. [Idle EXCEPT !.step = "lock", !.user = u, !.kind = kind] \in Work
      BY DEF Idle, Work, Step
    <3>2. Proceeds(r, [Idle EXCEPT !.step = "lock", !.user = u, !.kind = kind])
      BY <2>1 DEF BeginGuarded
    <3> QED
      BY <1>2, <3>1, <3>2
  <2>2. ASSUME NEW u \in User, ResetPassword(r, u) PROVE op' \in [Request -> Work]
    <3>1. [Idle EXCEPT !.step = "hash", !.user = u, !.kind = "reset"] \in Work
      BY DEF Idle, Work, Step, Kind
    <3>2. Proceeds(r, [Idle EXCEPT !.step = "hash", !.user = u, !.kind = "reset"])
      BY <2>2 DEF ResetPassword
    <3> QED
      BY <1>2, <3>1, <3>2
  <2>3. CASE LockActiveAdmins(r)
    <3>1. [op[r] EXCEPT !.step = "write", !.locks = ActiveAdmins] \in Work
      BY <1>0 DEF Work, Step, ActiveAdmins
    <3>2. Proceeds(r, Idle) \/ Proceeds(r, [op[r] EXCEPT !.step = "write", !.locks = ActiveAdmins])
      BY <2>3 DEF LockActiveAdmins
    <3> QED
      BY <1>2, <1>3, <3>1, <3>2
  <2>4. CASE WriteGuarded(r)
    <3> DEFINE work == [op[r] EXCEPT !.step = "list", !.locks = {}, !.epoch = member[op[r].user].epoch + 1]
    <3>1. CASE op[r].kind = "demote"
      BY <1>3, <2>4, <3>1 DEF WriteGuarded
    <3>2. CASE op[r].kind # "demote"
      <4>1. Proceeds(r, work) /\ member[op[r].user].epoch < MaxEpoch /\ op[r].step = "write"
        BY <2>4, <3>2 DEF WriteGuarded
      <4>2. member[op[r].user] \in Member
        BY <4>1 DEF WorkKnown, Known, IsMember, Serving, IsMember, TypeOK
      <4>4. member[op[r].user].epoch + 1 \in 0..MaxEpoch
        BY <4>1, <4>2 DEF Member
      <4>3. work \in Work
        BY <1>0, <4>4 DEF Work, Step
      <4> QED
        BY <1>2, <4>1, <4>3
    <3> QED
      BY <3>1, <3>2
  <2>5. CASE SetPasswordHash(r)
    <3> DEFINE work == [op[r] EXCEPT !.step = "list", !.epoch = member[op[r].user].epoch + 1]
    <3>1. Proceeds(r, work) /\ member[op[r].user].epoch < MaxEpoch /\ op[r].step = "hash"
      BY <2>5 DEF SetPasswordHash
    <3>2. member[op[r].user] \in Member
      BY <3>1 DEF WorkKnown, Known, IsMember, Serving, IsMember, TypeOK
    <3>4. member[op[r].user].epoch + 1 \in 0..MaxEpoch
      BY <3>1, <3>2 DEF Member
    <3>3. work \in Work
      BY <1>0, <3>4 DEF Work, Step
    <3> QED
      BY <1>2, <3>1, <3>3
  <2> QED
    BY <1>6, <2>1, <2>2, <2>3, <2>4, <2>5 DEF Manages, Kind
<1>7. ASSUME NEW r \in Request, Revokes(r) PROVE op' \in [Request -> Work]
  <2>1. CASE ListSessions(r)
    <3>1. [op[r] EXCEPT !.step = "destroy", !.doomed = SessionsOf(op[r].user)] \in Work
      BY <1>0 DEF Work, Step, SessionsOf
    <3>2. Proceeds(r, [op[r] EXCEPT !.step = "destroy", !.doomed = SessionsOf(op[r].user)])
      BY <2>1 DEF ListSessions
    <3> QED
      BY <1>2, <3>1, <3>2
  <2>2. CASE DestroySession(r)
    <3>1. ASSUME NEW s \in Sid PROVE [op[r] EXCEPT !.doomed = op[r].doomed \ {s}] \in Work
      BY <1>0 DEF Work
    <3>2. op[r].doomed \subseteq Sid
      BY <1>0 DEF Work
    <3>4. [op[r] EXCEPT !.step = "revoke tokens"] \in Work
      BY <1>4 DEF Step
    <3>3. \/ Proceeds(r, [op[r] EXCEPT !.step = "revoke tokens"])
          \/ \E s \in op[r].doomed : Proceeds(r, [op[r] EXCEPT !.doomed = op[r].doomed \ {s}])
      BY <2>2 DEF DestroySession
    <3> QED
      BY <1>2, <3>1, <3>2, <3>3, <3>4
  <2>3. CASE FailToRevoke(r)
    <3>1. [op[r] EXCEPT !.step = "revoke tokens", !.failed = TRUE, !.doomed = {}] \in Work
      BY <1>0 DEF Work, Step
    <3>2. Proceeds(r, [op[r] EXCEPT !.step = "revoke tokens", !.failed = TRUE, !.doomed = {}])
      BY <2>3 DEF FailToRevoke
    <3> QED
      BY <1>2, <3>1, <3>2
  <2>4. CASE RevokeAllTokens(r)
    <3>1. Proceeds(r, Idle) \/ Proceeds(r, [op[r] EXCEPT !.step = "sign in"])
      BY <2>4 DEF RevokeAllTokens, Finish
    <3> QED
      BY <1>2, <1>3, <1>4, <3>1 DEF Step
  <2> QED
    BY <1>7, <2>1, <2>2, <2>3, <2>4 DEF Revokes
<1>8. CASE \E r \in Request : Stop(r)
  BY <1>3, <1>8 DEF Stop
<1> QED
  BY <1>1, <1>5, <1>6, <1>7, <1>8 DEF Next, vars, Promote, Reactivate, Create, Arrive, Logout,
     DropStaleSession, RevokeToken

-----------------------------------------------------------------------------
(* What a step does to the rows. *)

\* The actions that write member rows.
LEMMA Writers ==
  ASSUME [Next]_vars
  PROVE  \/ member' = member
         \/ \E r \in Request, u \in User : CreateFirstAdmin(r, u)
         \/ \E u \in User, role \in Role : Create(u, role)
         \/ \E u \in User : Promote(u) \/ Reactivate(u)
         \/ \E r \in Request : WriteGuarded(r)
         \/ \E r \in Request : SetPasswordHash(r)
BY DEF Next, vars, Enters, Manages, Revokes, Submit, Login, SignIn, Browse, ChangeOwn, IssueToken,
   Save, ListSessions, DestroySession, FailToRevoke, RevokeAllTokens, Stop, BeginGuarded,
   ResetPassword, LockActiveAdmins, Arrive, Logout, DropStaleSession, RevokeToken

\* Members stay, and their epochs only rise; a new one begins at epoch 0.
LEMMA MembersStay ==
  ASSUME TypeOK, WorkKnown, [Next]_vars
  PROVE  /\ member' \in [User -> Member \cup {None}]
         /\ \A u \in User : IsMember(u) => IsMember(u)' /\ member[u].epoch <= member'[u].epoch
         /\ \A u \in User : ~IsMember(u) /\ IsMember(u)' => member'[u].epoch = 0
<1> USE AccountsAssumption, NullIsNoRow
<1>0. /\ member \in [User -> Member \cup {None}]
      /\ \A u \in User : IsMember(u) => member[u] \in Member /\ member[u].epoch \in Nat
  BY DEF TypeOK, IsMember, Member
<1> DEFINE Fine == /\ member' \in [User -> Member \cup {None}]
                   /\ \A u \in User : IsMember(u) => IsMember(u)' /\ member[u].epoch <= member'[u].epoch
                   /\ \A u \in User : ~IsMember(u) /\ IsMember(u)' => member'[u].epoch = 0
<1>1. ASSUME NEW u \in User, ~IsMember(u), NEW row \in Member, row.epoch = 0,
             member' = [member EXCEPT ![u] = row]
      PROVE  Fine
  BY <1>0, <1>1 DEF IsMember
<1>2. ASSUME NEW u \in User, IsMember(u), NEW row \in Member, row.epoch >= member[u].epoch,
             member' = [member EXCEPT ![u] = row]
      PROVE  Fine
  BY <1>0, <1>2 DEF IsMember
<1>3. ASSUME member' = member PROVE Fine
  BY <1>0, <1>3 DEF IsMember
<1> HIDE DEF Fine
<1>4. ASSUME NEW r \in Request, NEW u \in User, CreateFirstAdmin(r, u) PROVE Fine
  <2> DEFINE row == [role |-> "owner", active |-> TRUE, epoch |-> 0]
  <2>1. row \in Member /\ row.epoch = 0
    BY DEF Member, Role
  <2>2. ~IsMember(u) /\ (member' = member \/ member' = [member EXCEPT ![u] = row])
    BY <1>4 DEF CreateFirstAdmin
  <2> HIDE DEF row
  <2>3. CASE member' = member
    BY <1>3, <2>3
  <2>4. CASE member' = [member EXCEPT ![u] = row]
    BY <1>1, <2>1, <2>2, <2>4, Zenon
  <2> QED
    BY <2>2, <2>3, <2>4
<1>5. ASSUME NEW u \in User, NEW role \in Role, Create(u, role) PROVE Fine
  <2>1. [role |-> role, active |-> TRUE, epoch |-> 0] \in Member
    BY DEF Member
  <2> QED
    BY <1>1, <1>5, <2>1 DEF Create
<1>6. ASSUME NEW u \in User, Promote(u) \/ Reactivate(u) PROVE Fine
  <2>1. member[u] \in Member /\ IsMember(u) /\ member[u].epoch \in Nat
    BY <1>0, <1>6 DEF Promote, Reactivate
  <2>2. CASE Promote(u)
    <3> DEFINE row == [member[u] EXCEPT !.role = "owner"]
    <3>1. row \in Member /\ row.epoch >= member[u].epoch
      BY <2>1 DEF Member, Role
    <3>2. member' = [member EXCEPT ![u] = row]
      BY <2>2 DEF Promote
    <3> HIDE DEF row
    <3> QED
      BY <1>2, <2>1, <3>1, <3>2, Zenon
  <2>3. CASE Reactivate(u)
    <3> DEFINE row == [member[u] EXCEPT !.active = TRUE]
    <3>3. row \in Member /\ row.epoch = member[u].epoch
      BY <2>1 DEF Member
    <3>1. row \in Member /\ row.epoch >= member[u].epoch
      BY <2>1, <3>3
    <3>2. member' = [member EXCEPT ![u] = row]
      BY <2>3 DEF Reactivate
    <3> HIDE DEF row
    <3> QED
      BY <1>2, <2>1, <3>1, <3>2, Zenon
  <2> QED
    BY <1>6, <2>2, <2>3
<1>7. ASSUME NEW r \in Request, WriteGuarded(r) PROVE Fine
  <2> DEFINE u == op[r].user
  <2>1. u \in User /\ IsMember(u) /\ member[u] \in Member /\ member[u].epoch \in Nat
    BY <1>0, <1>7 DEF WriteGuarded, WorkKnown, Known, IsMember, Serving
  <2>2. CASE op[r].kind = "demote"
    <3> DEFINE row == [member[u] EXCEPT !.role = "member"]
    <3>1. row \in Member /\ row.epoch >= member[u].epoch
      BY <2>1 DEF Member, Role
    <3>2. member' = [member EXCEPT ![u] = row]
      BY <1>7, <2>2 DEF WriteGuarded
    <3> HIDE DEF row
    <3> QED
      BY <1>2, <2>1, <3>1, <3>2, Zenon
  <2>3. CASE op[r].kind # "demote"
    <3> DEFINE row == [member[u] EXCEPT !.active = FALSE, !.epoch = member[u].epoch + 1]
    <3>1. member[u].epoch < MaxEpoch /\ member' = [member EXCEPT ![u] = row]
      BY <1>7, <2>3 DEF WriteGuarded
    <3>2. member[u].epoch + 1 \in 0..MaxEpoch
      BY <2>1, <3>1
    <3>4. row \in Member /\ row.epoch = member[u].epoch + 1
      BY <2>1, <3>2 DEF Member
    <3>3. row \in Member /\ row.epoch >= member[u].epoch
      BY <2>1, <3>4
    <3> HIDE DEF row
    <3> QED
      BY <1>2, <2>1, <3>1, <3>3, Zenon
  <2> QED
    BY <2>2, <2>3
<1>8. ASSUME NEW r \in Request, SetPasswordHash(r) PROVE Fine
  <2> DEFINE u == op[r].user
             row == [member[u] EXCEPT !.epoch = member[u].epoch + 1]
  <2>1. u \in User /\ IsMember(u) /\ member[u] \in Member /\ member[u].epoch \in Nat
    BY <1>0, <1>8 DEF SetPasswordHash, WorkKnown, Known, IsMember, Serving
  <2>2. member[u].epoch < MaxEpoch /\ member' = [member EXCEPT ![u] = row]
    BY <1>8 DEF SetPasswordHash
  <2>3. member[u].epoch + 1 \in 0..MaxEpoch
    BY <2>1, <2>2
  <2>4. row \in Member /\ row.epoch >= member[u].epoch
    BY <2>1, <2>3 DEF Member
  <2> HIDE DEF row
  <2> QED
    BY <1>2, <2>1, <2>2, <2>4, Zenon
<1>12. Fine
  BY <1>3, <1>4, <1>5, <1>6, <1>7, <1>8, Writers, Zenon
<1> QED
  BY <1>12 DEF Fine

\* The actions that write sessions, tokens and the mark of settled epochs.
LEMMA CredentialWriters ==
  ASSUME [Next]_vars
  PROVE  /\ \/ session' = session
            \/ \E r \in Request, s \in Sid : SignIn(r, s)
            \/ \E u \in User, s \in Sid : Arrive(u, s)
            \/ \E r \in Request : Save(r)
            \/ \E s \in Sid : Logout(s) \/ DropStaleSession(s)
            \/ \E r \in Request : DestroySession(r)
         /\ \/ token' = token
            \/ \E r \in Request, t \in Tid : IssueToken(r, t)
            \/ \E t \in Tid : RevokeToken(t)
            \/ \E r \in Request : RevokeAllTokens(r)
         /\ \/ settled' = settled
            \/ \E r \in Request : RevokeAllTokens(r)
BY DEF Next, vars, Enters, Manages, Revokes, Submit, CreateFirstAdmin, Login, Browse, ChangeOwn, SignIn,
   Arrive, Save, Logout, DropStaleSession, IssueToken, RevokeToken,
   ListSessions, DestroySession, FailToRevoke, RevokeAllTokens, Stop, BeginGuarded, ResetPassword,
   LockActiveAdmins, WriteGuarded, SetPasswordHash, Create, Promote, Reactivate

\* A credential that is written now is late when its epoch is over.
WrittenNow(c) ==
  /\ c.user \in User /\ IsMember(c.user) /\ c.epoch <= member[c.user].epoch
  /\ c.late = (c.epoch < member[c.user].epoch)

LEMMA SessionsWritten ==
  ASSUME TypeOK, WorkKnown, CredentialsKnown, [Next]_vars
  PROVE  /\ session' \in [Sid -> Session \cup {None}]
         /\ \A s \in Sid : session'[s] # session[s] /\ session'[s] # None =>
              WrittenNow(session'[s]) /\ member' = member /\ settled' = settled
<1> USE AccountsAssumption
<1> DEFINE Fine == /\ session' \in [Sid -> Session \cup {None}]
                   /\ \A s \in Sid : session'[s] # session[s] /\ session'[s] # None =>
                        WrittenNow(session'[s]) /\ member' = member /\ settled' = settled
<1>0. session \in [Sid -> Session \cup {None}]
  BY DEF TypeOK
<1>1. ASSUME NEW r \in Request, op[r].step \in {"sign in", "save"}
      PROVE  WrittenNow(Saved(op[r].user, op[r].epoch)) /\ Saved(op[r].user, op[r].epoch) \in Session
  <2>1. /\ op[r].user \in User /\ IsMember(op[r].user) /\ op[r].epoch <= member[op[r].user].epoch
        /\ op[r].epoch \in 0..MaxEpoch
    BY <1>1 DEF WorkKnown, Known, IsMember, Serving, Proved, TypeOK, Work
  <2> QED
    BY <2>1 DEF WrittenNow, Saved, Session
<1>2. ASSUME NEW r \in Request, NEW s \in Sid, SignIn(r, s) PROVE Fine
  <2> DEFINE c == Saved(op[r].user, op[r].epoch)
  <2>1. /\ session' = [t \in Sid |-> IF t = s THEN c ELSE IF t = op[r].sid THEN None ELSE session[t]]
        /\ WrittenNow(c) /\ c \in Session /\ member' = member /\ settled' = settled
    BY <1>1, <1>2 DEF SignIn
  <2> HIDE DEF c
  <2> QED
    BY <1>0, <2>1
<1>3. ASSUME NEW r \in Request, Save(r) PROVE Fine
  <2> DEFINE c == Saved(op[r].user, op[r].epoch)
  <2>1. /\ session' = [session EXCEPT ![op[r].sid] = c]
        /\ WrittenNow(c) /\ c \in Session /\ member' = member /\ settled' = settled
    BY <1>1, <1>3 DEF Save
  <2> HIDE DEF c
  <2> QED
    BY <1>0, <2>1
<1>4. ASSUME NEW u \in User, NEW s \in Sid, Arrive(u, s) PROVE Fine
  <2> DEFINE c == [Saved(u, member[u].epoch) EXCEPT !.csrf = FALSE]
  <2>1. /\ session' = [session EXCEPT ![s] = c] /\ member' = member /\ settled' = settled
        /\ IsMember(u)
    BY <1>4 DEF Arrive
  <2>2. member[u].epoch \in 0..MaxEpoch
    BY <2>1 DEF IsMember, TypeOK, Member
  <2>3. WrittenNow(Saved(u, member[u].epoch)) /\ Saved(u, member[u].epoch) \in Session
    BY <2>1, <2>2 DEF WrittenNow, Saved, Session
  <2>4. WrittenNow(c) /\ c \in Session
    BY <2>3 DEF WrittenNow, Session
  <2> HIDE DEF c
  <2> QED
    BY <1>0, <2>1, <2>4
<1>5. ASSUME NEW s \in Sid, session' = [session EXCEPT ![s] = None] PROVE Fine
  BY <1>0, <1>5
<1>6. ASSUME NEW r \in Request, DestroySession(r) PROVE Fine
  <2>1. op[r].doomed \subseteq Sid
    BY DEF TypeOK, Work
  <2>2. session' = session \/ \E s \in op[r].doomed : session' = [session EXCEPT ![s] = None]
    BY <1>6 DEF DestroySession
  <2> QED
    BY <1>0, <1>5, <2>1, <2>2
<1>7. ASSUME session' = session PROVE Fine
  BY <1>0, <1>7
<1>8. ASSUME NEW s \in Sid, Logout(s) \/ DropStaleSession(s) PROVE Fine
  BY <1>5, <1>8 DEF Logout, DropStaleSession
<1> HIDE DEF Fine
<1>9. Fine
  BY <1>2, <1>3, <1>4, <1>6, <1>7, <1>8, CredentialWriters, Zenon
<1> QED
  BY <1>9 DEF Fine

LEMMA TokensWritten ==
  ASSUME TypeOK, WorkKnown, [Next]_vars
  PROVE  /\ token' \in [Tid -> Credential \cup {None}]
         /\ \A t \in Tid : token'[t] # token[t] /\ token'[t] # None =>
              WrittenNow(token'[t]) /\ member' = member /\ settled' = settled
<1> USE AccountsAssumption
<1> DEFINE Fine == /\ token' \in [Tid -> Credential \cup {None}]
                   /\ \A t \in Tid : token'[t] # token[t] /\ token'[t] # None =>
                        WrittenNow(token'[t]) /\ member' = member /\ settled' = settled
<1>0. token \in [Tid -> Credential \cup {None}]
  BY DEF TypeOK
<1>1. ASSUME NEW r \in Request, NEW t \in Tid, IssueToken(r, t) PROVE Fine
  <2> DEFINE c == Issued(op[r].user, op[r].epoch)
  <2>1. /\ token' = [token EXCEPT ![t] = c] /\ member' = member /\ settled' = settled
        /\ op[r].step = "mint"
    BY <1>1 DEF IssueToken
  <2>2. /\ op[r].user \in User /\ IsMember(op[r].user) /\ op[r].epoch <= member[op[r].user].epoch
        /\ op[r].epoch \in 0..MaxEpoch
    BY <2>1 DEF WorkKnown, Known, IsMember, Serving, Proved, TypeOK, Work
  <2>3. WrittenNow(c) /\ c \in Credential
    BY <2>2 DEF WrittenNow, Issued, Credential
  <2> HIDE DEF c
  <2> QED
    BY <1>0, <2>1, <2>3
<1>2. ASSUME NEW t \in Tid, RevokeToken(t) PROVE Fine
  BY <1>0, <1>2 DEF RevokeToken
<1>3. ASSUME NEW r \in Request, RevokeAllTokens(r) PROVE Fine
  BY <1>0, <1>3 DEF RevokeAllTokens
<1>4. ASSUME token' = token PROVE Fine
  BY <1>0, <1>4
<1> HIDE DEF Fine
<1>5. Fine
  BY <1>1, <1>2, <1>3, <1>4, CredentialWriters, Zenon
<1> QED
  BY <1>5 DEF Fine

LEMMA SettledWritten ==
  ASSUME TypeOK, WorkKnown, [Next]_vars
  PROVE  \/ settled' = settled
         \/ \E r \in Request :
              /\ op[r].step = "revoke tokens" /\ ~op[r].failed /\ op[r].user \in User
              /\ RevokeAllTokens(r)
              /\ settled' = [settled EXCEPT ![op[r].user] =
                               IF settled[op[r].user] >= op[r].epoch THEN settled[op[r].user] ELSE op[r].epoch]
<1>1. CASE settled' = settled
  BY <1>1
<1>2. ASSUME NEW r \in Request, RevokeAllTokens(r), settled' # settled
      PROVE  /\ op[r].step = "revoke tokens" /\ ~op[r].failed /\ op[r].user \in User
             /\ settled' = [settled EXCEPT ![op[r].user] =
                              IF settled[op[r].user] >= op[r].epoch THEN settled[op[r].user] ELSE op[r].epoch]
  <2>1. /\ op[r].step = "revoke tokens" /\ ~op[r].failed
        /\ settled' = [settled EXCEPT ![op[r].user] = Max({settled[op[r].user], op[r].epoch})]
    BY <1>2 DEF RevokeAllTokens, Settle
  <2>2. op[r].user \in User
    BY <2>1 DEF WorkKnown, Known, IsMember, Serving
  <2>4. op[r].epoch \in Nat
    BY AccountsAssumption DEF TypeOK, Work
  <2>3. settled[op[r].user] \in Nat
    BY <2>2 DEF TypeOK
  <2> QED
    BY <2>1, <2>2, <2>3, <2>4, MaxOfTwo
<1> QED
  BY <1>1, <1>2, CredentialWriters

\* The founders are written with their rows.
LEMMA Founding ==
  ASSUME [Next]_vars
  PROVE  \/ founders' = founders
         \/ \E u \in User : /\ ~HasAnyUser /\ founders' = founders \cup {u}
                            /\ member' = [member EXCEPT ![u] = [role |-> "owner", active |-> TRUE, epoch |-> 0]]
BY DEF Next, vars, Enters, Manages, Revokes, Submit, CreateFirstAdmin, Login, Browse, ChangeOwn, SignIn,
   Arrive, Save, Logout, DropStaleSession, IssueToken, RevokeToken,
   ListSessions, DestroySession, FailToRevoke, RevokeAllTokens, Stop, BeginGuarded, ResetPassword,
   LockActiveAdmins, WriteGuarded, SetPasswordHash, Create, Promote, Reactivate

LEMMA TypeNext ==
  ASSUME TypeOK, WorkKnown, CredentialsKnown, [Next]_vars
  PROVE  TypeOK'
<1>1. settled' \in [User -> 0..MaxEpoch]
  <2>1. CASE settled' = settled
    BY <2>1 DEF TypeOK
  <2>2. ASSUME NEW r \in Request, op[r].user \in User,
               settled' = [settled EXCEPT ![op[r].user] =
                             IF settled[op[r].user] >= op[r].epoch THEN settled[op[r].user] ELSE op[r].epoch]
        PROVE  settled' \in [User -> 0..MaxEpoch]
    <3>1. op[r].epoch \in 0..MaxEpoch /\ settled \in [User -> 0..MaxEpoch]
      BY DEF TypeOK, Work
    <3> QED
      BY <2>2, <3>1
  <2> QED
    BY <2>1, <2>2, SettledWritten
<1>2. founders' \subseteq User
  BY Founding DEF TypeOK
<1> QED
  BY <1>1, <1>2, WorkNext, MembersStay, SessionsWritten, TokensWritten DEF TypeOK

-----------------------------------------------------------------------------
(* What a request does to its own work. *)

\* The actions of one request that write its work.
LEMMA OwnWork ==
  ASSUME TypeOK, [Next]_vars, NEW r \in Request, op'[r] # op[r]
  PROVE  Enters(r) \/ Manages(r) \/ Revokes(r) \/ Stop(r)
<1>1. op \in [Request -> Work]
  BY DEF TypeOK
<1>2. ASSUME NEW q \in Request, NEW work, Proceeds(q, work) PROVE q = r
  BY <1>1, <1>2 DEF Proceeds
<1>3. ASSUME NEW q \in Request, Enters(q) PROVE q = r
  BY <1>2, <1>3 DEF Enters, Submit, CreateFirstAdmin, Login, SignIn, Browse, ChangeOwn, IssueToken, Save
<1>4. ASSUME NEW q \in Request, Manages(q) PROVE q = r
  BY <1>2, <1>4 DEF Manages, BeginGuarded, ResetPassword, LockActiveAdmins, WriteGuarded, SetPasswordHash
<1>5. ASSUME NEW q \in Request, Revokes(q) PROVE q = r
  BY <1>2, <1>5 DEF Revokes, ListSessions, DestroySession, FailToRevoke, RevokeAllTokens, Finish
<1>6. ASSUME NEW q \in Request, Stop(q) PROVE q = r
  BY <1>2, <1>6 DEF Stop
<1>7. \E q \in Request : Enters(q) \/ Manages(q) \/ Revokes(q) \/ Stop(q)
  BY DEF Next, vars, Promote, Reactivate, Create, Arrive, Logout, DropStaleSession, RevokeToken
<1> QED
  BY <1>3, <1>4, <1>5, <1>6, <1>7

LEMMA WorkKnownNext ==
  ASSUME TypeOK, WorkKnown, CredentialsKnown, [Next]_vars
  PROVE  WorkKnown'
<1> USE AccountsAssumption, NullIsNoRow
<1>0. /\ op \in [Request -> Work] /\ \A r \in Request : op[r] \in Work /\ Known(op[r], member)
      /\ \A u \in User : IsMember(u) => /\ member[u].epoch \in Nat /\ member'[u].epoch \in Nat
                                        /\ member'[u] # None /\ member[u].epoch <= member'[u].epoch
  BY MembersStay DEF TypeOK, WorkKnown, IsMember, Member
<1> SUFFICES ASSUME NEW r \in Request PROVE Known(op'[r], member')
  BY DEF WorkKnown
<1>1. CASE op'[r] = op[r]
  <2>1. op[r].epoch \in Nat
    BY <1>0 DEF Work
  <2>2. Known(op[r], member) /\ op[r] \in Work
    BY <1>0
  <2>3. op[r].step \in Serving => op[r].user \in User /\ IsMember(op[r].user)
    BY <2>2 DEF Known, IsMember
  <2>4. op[r].step \in Proved => op[r].step \in Serving
    BY DEF Proved, Serving
  <2>5. op[r].step \in Proved => op[r].epoch <= member'[op[r].user].epoch
    BY <1>0, <2>1, <2>2, <2>3, <2>4 DEF Known
  <2> QED
    BY <1>0, <1>1, <2>2, <2>3, <2>5 DEF Known
<1>2. ASSUME NEW work, Proceeds(r, work) PROVE op'[r] = work
  BY <1>0, <1>2 DEF Proceeds
<1>3. CASE Proceeds(r, Idle)
  <2>1. op'[r] = Idle
    BY <1>2, <1>3
  <2> QED
    BY <2>1 DEF Known, Idle, Serving, Proved
\* Work for the same member goes on.
<1>4. ASSUME NEW work \in Work, Proceeds(r, work), op[r].step \in Serving,
             work.user = op[r].user, work.epoch = op[r].epoch,
             work.step \in Serving \ {"save"}, work.step \in Proved => op[r].step \in Proved
      PROVE  Known(op'[r], member')
  <2>1. op'[r] = work /\ work.user \in User /\ IsMember(work.user) /\ op[r].epoch \in Nat
    BY <1>0, <1>2, <1>4 DEF Known, IsMember, Work
  <2>2. member'[work.user] # None /\ (work.step \in Proved => work.epoch <= member'[work.user].epoch)
    BY <1>0, <1>4, <2>1 DEF Known
  <2> QED
    BY <1>4, <2>1, <2>2 DEF Known, IsMember, Serving, Proved
<1>5. CASE Enters(r)
  <2>1. CASE Submit(r)
    <3>1. Proceeds(r, [Idle EXCEPT !.step = "found"])
      BY <2>1 DEF Submit
    <3> QED
      BY <1>2, <3>1 DEF Known, Idle, Serving, Proved
  <2>2. ASSUME NEW u \in User, CreateFirstAdmin(r, u) PROVE Known(op'[r], member')
    <3>1. CASE HasAnyUser
      BY <1>3, <2>2, <3>1 DEF CreateFirstAdmin
    <3>2. CASE ~HasAnyUser
      <4>1. /\ op'[r] = [op[r] EXCEPT !.step = "sign in", !.user = u] /\ op[r].step = "found"
            /\ member' = [member EXCEPT ![u] = [role |-> "owner", active |-> TRUE, epoch |-> 0]]
        BY <1>2, <2>2, <3>2 DEF CreateFirstAdmin
      <4>2. /\ op'[r].step = "sign in" /\ op'[r].user = u /\ op'[r].epoch = 0
        BY <1>0, <4>1 DEF Work, Known
      <4>3. IsMember(u)' /\ member'[u].epoch = 0
        <5>1. [role |-> "owner", active |-> TRUE, epoch |-> 0] \in Member
          BY DEF Member, Role
        <5> QED
          BY <4>1, <5>1 DEF TypeOK, IsMember
      <4>4. op'[r].user \in User /\ member'[op'[r].user] # None
        BY <4>2, <4>3 DEF IsMember
      <4>5. op'[r].epoch <= member'[op'[r].user].epoch
        <5>1. member'[op'[r].user].epoch = 0 /\ op'[r].epoch = 0
          BY <4>2, <4>3
        <5>2. 0 <= 0
          OBVIOUS
        <5> QED
          BY <5>1, <5>2
      <4> QED
        BY <4>2, <4>4, <4>5 DEF Known
    <3> QED
      BY <3>1, <3>2
  <2>3. ASSUME NEW u \in User, NEW then \in {"sign in", "mint"}, Login(r, u, then)
        PROVE  Known(op'[r], member')
    <3>1. /\ op'[r] = [Idle EXCEPT !.step = then, !.user = u, !.epoch = member[u].epoch]
          /\ IsMember(u) /\ member' = member
      BY <1>2, <2>3 DEF Login
    <3> QED
      BY <1>0, <3>1 DEF Known, IsMember, Idle, Serving, Proved
  <2>4. ASSUME NEW s \in Sid, Browse(r, s) PROVE Known(op'[r], member')
    <3>1. /\ op'[r] = [Idle EXCEPT !.step = "save", !.sid = s, !.user = session[s].user,
                                   !.epoch = session[s].epoch]
          /\ session[s] # None /\ member' = member
      BY <1>2, <2>4 DEF Browse
    <3>2. session[s].user \in User /\ session[s].epoch <= member[session[s].user].epoch
          /\ IsMember(session[s].user)
      BY <3>1 DEF CredentialsKnown, TypeOK, Session
    <3> QED
      BY <3>1, <3>2 DEF Known, IsMember, Idle, Serving, Proved
  <2>5. ASSUME NEW s \in Sid, ChangeOwn(r, s) PROVE Known(op'[r], member')
    <3>1. /\ op'[r] = [Idle EXCEPT !.step = "hash", !.user = session[s].user, !.sid = s, !.kind = "change"]
          /\ session[s] # None /\ member' = member
      BY <1>2, <2>5 DEF ChangeOwn
    <3>2. session[s].user \in User /\ IsMember(session[s].user)
      BY <3>1 DEF CredentialsKnown, TypeOK, Session
    <3> QED
      BY <3>1, <3>2 DEF Known, IsMember, Idle, Serving, Proved
  <2>6. CASE Save(r) \/ (\E s \in Sid : SignIn(r, s)) \/ (\E t \in Tid : IssueToken(r, t))
    BY <1>3, <2>6 DEF Save, SignIn, IssueToken
  <2> QED
    BY <1>5, <2>1, <2>2, <2>3, <2>4, <2>5, <2>6 DEF Enters
<1>6. CASE Manages(r)
  <2>1. ASSUME NEW u \in User, NEW kind, BeginGuarded(r, u, kind) PROVE Known(op'[r], member')
    <3>1. /\ op'[r] = [Idle EXCEPT !.step = "lock", !.user = u, !.kind = kind]
          /\ IsMember(u) /\ member' = member
      BY <1>2, <2>1 DEF BeginGuarded
    <3> QED
      BY <3>1 DEF Known, IsMember, Idle, Serving, Proved
  <2>2. ASSUME NEW u \in User, ResetPassword(r, u) PROVE Known(op'[r], member')
    <3>1. /\ op'[r] = [Idle EXCEPT !.step = "hash", !.user = u, !.kind = "reset"]
          /\ IsMember(u) /\ member' = member
      BY <1>2, <2>2 DEF ResetPassword
    <3> QED
      BY <3>1 DEF Known, IsMember, Idle, Serving, Proved
  <2>3. CASE LockActiveAdmins(r)
    <3> DEFINE work == [op[r] EXCEPT !.step = "write", !.locks = ActiveAdmins]
    <3>1. op[r].step = "lock" /\ (Proceeds(r, Idle) \/ Proceeds(r, work))
      BY <2>3 DEF LockActiveAdmins
    <3>2. work \in Work /\ work.user = op[r].user /\ work.epoch = op[r].epoch /\ work.step = "write"
      BY <1>0 DEF Work, Step, ActiveAdmins
    <3> HIDE DEF work
    <3> QED
      BY <1>3, <1>4, <3>1, <3>2 DEF Serving, Proved
  <2>4. ASSUME op[r].step \in {"write", "hash"}, NEW work \in Work, Proceeds(r, work), work.step = "list",
               work.user = op[r].user, work.epoch = member[op[r].user].epoch + 1,
               member'[op[r].user].epoch = member[op[r].user].epoch + 1
        PROVE  Known(op'[r], member')
    <3>1. op[r].user \in User /\ IsMember(op[r].user) /\ op'[r] = work
      BY <1>0, <1>2, <2>4 DEF Known, IsMember, Serving
    <3>2. member'[op[r].user] # None /\ member'[op[r].user].epoch \in Nat
      BY <1>0, <3>1
    <3>3. op'[r].epoch <= member'[op'[r].user].epoch
      BY <2>4, <3>1, <3>2
    <3> QED
      BY <2>4, <3>1, <3>2, <3>3 DEF Known
  <2>5. CASE WriteGuarded(r)
    <3> DEFINE work == [op[r] EXCEPT !.step = "list", !.locks = {}, !.epoch = member[op[r].user].epoch + 1]
               row  == [member[op[r].user] EXCEPT !.active = FALSE, !.epoch = member[op[r].user].epoch + 1]
    <3>1. CASE op[r].kind = "demote"
      BY <1>3, <2>5, <3>1 DEF WriteGuarded
    <3>2. CASE op[r].kind # "demote"
      <4>1. /\ op[r].step = "write" /\ Proceeds(r, work)
            /\ member' = [member EXCEPT ![op[r].user] = row]
        BY <2>5, <3>2 DEF WriteGuarded
      <4>2. op[r].user \in User /\ member[op[r].user] \in Member
        BY <1>0, <4>1 DEF Known, Serving, TypeOK
      <4>3. op'[r] = work /\ op'[r] \in Work
        BY <1>2, <4>1, WorkNext
      <4>4. work.step = "list" /\ work.user = op[r].user /\ work.epoch = member[op[r].user].epoch + 1
        BY <1>0 DEF Work
      <4>5. member'[op[r].user].epoch = member[op[r].user].epoch + 1
        BY <4>1, <4>2 DEF Member, TypeOK
      <4> HIDE DEF work, row
      <4> QED
        BY <2>4, <4>1, <4>3, <4>4, <4>5
    <3> QED
      BY <3>1, <3>2
  <2>6. CASE SetPasswordHash(r)
    <3> DEFINE work == [op[r] EXCEPT !.step = "list", !.epoch = member[op[r].user].epoch + 1]
               row  == [member[op[r].user] EXCEPT !.epoch = member[op[r].user].epoch + 1]
    <3>1. op[r].step = "hash" /\ Proceeds(r, work) /\ member' = [member EXCEPT ![op[r].user] = row]
      BY <2>6 DEF SetPasswordHash
    <3>2. op[r].user \in User /\ member[op[r].user] \in Member
      BY <1>0, <3>1 DEF Known, Serving, TypeOK
    <3>3. op'[r] = work /\ op'[r] \in Work
      BY <1>2, <3>1, WorkNext
    <3>4. work.step = "list" /\ work.user = op[r].user /\ work.epoch = member[op[r].user].epoch + 1
      BY <1>0 DEF Work
    <3>5. member'[op[r].user].epoch = member[op[r].user].epoch + 1
      BY <3>1, <3>2 DEF Member, TypeOK
    <3> HIDE DEF work, row
    <3> QED
      BY <2>4, <3>1, <3>3, <3>4, <3>5
  <2> QED
    BY <1>6, <2>1, <2>2, <2>3, <2>5, <2>6 DEF Manages
<1>7. CASE Revokes(r)
  <2>1. op[r].step \in {"list", "destroy", "revoke tokens"}
    BY <1>7 DEF Revokes, ListSessions, DestroySession, FailToRevoke, RevokeAllTokens
  <2> DEFINE GoesOn == /\ op'[r].user = op[r].user /\ op'[r].epoch = op[r].epoch
                       /\ op'[r].step \in {"sign in", "destroy", "revoke tokens"}
  <2>2. op'[r] = Idle \/ GoesOn
    <3>1. CASE ListSessions(r)
      <4>1. op'[r] = [op[r] EXCEPT !.step = "destroy", !.doomed = SessionsOf(op[r].user)]
        BY <1>2, <3>1 DEF ListSessions
      <4> QED
        BY <1>0, <4>1 DEF Work
    <3>2. CASE DestroySession(r)
      <4>1. \/ op'[r] = [op[r] EXCEPT !.step = "revoke tokens"]
            \/ \E s \in op[r].doomed : op'[r] = [op[r] EXCEPT !.doomed = op[r].doomed \ {s}]
        BY <1>2, <3>2 DEF DestroySession
      <4>2. op[r].step = "destroy"
        BY <3>2 DEF DestroySession
      <4> QED
        BY <1>0, <4>1, <4>2 DEF Work
    <3>3. CASE FailToRevoke(r)
      <4>1. op'[r] = [op[r] EXCEPT !.step = "revoke tokens", !.failed = TRUE, !.doomed = {}]
        BY <1>2, <3>3 DEF FailToRevoke
      <4> QED
        BY <1>0, <4>1 DEF Work
    <3>4. CASE RevokeAllTokens(r)
      <4>1. op'[r] = Idle \/ op'[r] = [op[r] EXCEPT !.step = "sign in"]
        BY <1>2, <3>4 DEF RevokeAllTokens, Finish
      <4> QED
        BY <1>0, <4>1 DEF Work
    <3> QED
      BY <1>7, <3>1, <3>2, <3>3, <3>4 DEF Revokes
  <2>3. CASE op'[r] = Idle
    BY <2>3 DEF Known, Idle, Serving, Proved
  <2>4. CASE op'[r] # Idle
    <3>1. op[r].user \in User /\ IsMember(op[r].user) /\ op[r].epoch <= member[op[r].user].epoch
          /\ op[r].epoch \in Nat
      <4>1. Known(op[r], member) /\ op[r] \in Work
        BY <1>0
      <4>2. op[r].epoch \in Nat
        BY <4>1 DEF Work
      <4> QED
        BY <2>1, <4>1, <4>2 DEF Known, IsMember, Serving, Proved
    <3>2. member'[op[r].user] # None /\ op[r].epoch <= member'[op[r].user].epoch
      BY <1>0, <3>1
    <3> QED
      BY <2>2, <2>4, <3>1, <3>2 DEF Known, IsMember, Serving, Proved
  <2> QED
    BY <2>3, <2>4
<1>8. CASE Stop(r)
  BY <1>3, <1>8 DEF Stop
<1> QED
  BY <1>1, <1>5, <1>6, <1>7, <1>8, OwnWork

-----------------------------------------------------------------------------
(* The active admins and the locks on their rows. *)

\* An active admin is deposed by a guarded write only, and by it only he.
LEMMA AdminsStay ==
  ASSUME TypeOK, WorkKnown, [Next]_vars
  PROVE  \/ ActiveAdmins \subseteq ActiveAdmins'
         \/ \E r \in Request : WriteGuarded(r) /\ ActiveAdmins \ {op[r].user} \subseteq ActiveAdmins'
<1>0. /\ member \in [User -> Member \cup {None}]
      /\ \A v \in ActiveAdmins : v \in User /\ IsMember(v) /\ member'[v] # None /\ member[v] \in Member
  BY MembersStay DEF TypeOK, ActiveAdmins, IsMember
<1>1. ASSUME NEW v \in ActiveAdmins, member'[v].role = member[v].role \/ member'[v].role = "owner",
             member'[v].active = member[v].active \/ member'[v].active
      PROVE  v \in ActiveAdmins'
  BY <1>0, <1>1 DEF ActiveAdmins, IsMember
<1>2. CASE member' = member
  BY <1>2 DEF ActiveAdmins, IsMember
<1>3. ASSUME NEW u \in User, ~IsMember(u), NEW row, member' = [member EXCEPT ![u] = row]
      PROVE  ActiveAdmins \subseteq ActiveAdmins'
  BY <1>0, <1>1, <1>3
<1>4. CASE (\E r \in Request, u \in User : CreateFirstAdmin(r, u)) \/ \E u \in User, role \in Role : Create(u, role)
  <2>1. \/ member' = member
        \/ \E u \in User : ~IsMember(u) /\ \E row : member' = [member EXCEPT ![u] = row]
    BY <1>4 DEF CreateFirstAdmin, Create
  <2> QED
    BY <1>2, <1>3, <2>1
<1>5. ASSUME NEW u \in User, Promote(u) \/ Reactivate(u) PROVE ActiveAdmins \subseteq ActiveAdmins'
  <2>1. ASSUME NEW v \in ActiveAdmins
        PROVE  /\ member'[v].role = member[v].role \/ member'[v].role = "owner"
               /\ member'[v].active = member[v].active \/ member'[v].active = TRUE
    BY <1>0, <1>5, <2>1 DEF Promote, Reactivate, Member
  <2> QED
    BY <1>1, <2>1
<1>6. ASSUME NEW r \in Request, SetPasswordHash(r) PROVE ActiveAdmins \subseteq ActiveAdmins'
  <2>1. ASSUME NEW v \in ActiveAdmins
        PROVE  member'[v].role = member[v].role /\ member'[v].active = member[v].active
    BY <1>0, <1>6, <2>1 DEF SetPasswordHash, Member
  <2> QED
    BY <1>1, <2>1
<1>7. ASSUME NEW r \in Request, WriteGuarded(r) PROVE ActiveAdmins \ {op[r].user} \subseteq ActiveAdmins'
  <2>1. ASSUME NEW v \in ActiveAdmins \ {op[r].user} PROVE member'[v] = member[v]
    BY <1>0, <1>7, <2>1 DEF WriteGuarded
  <2> QED
    BY <1>1, <2>1
<1> QED
  BY <1>2, <1>4, <1>5, <1>6, <1>7, Writers

\* What a request does with its row locks.
LEMMA LocksNext ==
  ASSUME TypeOK, WorkKnown, [Next]_vars, NEW r \in Request, op'[r] # op[r]
  PROVE  \/ op'[r].locks = {} /\ op'[r].step # "write"
         \/ op'[r].locks = op[r].locks /\ op'[r].step # "write" /\ ~WriteGuarded(r)
         \/ /\ op[r].step = "lock" /\ ActiveAdmins # {op[r].user} /\ member' = member
            /\ op'[r].locks = ActiveAdmins /\ op'[r].user = op[r].user
<1> DEFINE Fine == \/ op'[r].locks = {} /\ op'[r].step # "write"
                   \/ op'[r].locks = op[r].locks /\ op'[r].step # "write" /\ ~WriteGuarded(r)
                   \/ /\ op[r].step = "lock" /\ ActiveAdmins # {op[r].user} /\ member' = member
                      /\ op'[r].locks = ActiveAdmins /\ op'[r].user = op[r].user
<1>0. op \in [Request -> Work] /\ op[r] \in Work
  BY DEF TypeOK
<1>2. ASSUME NEW work, Proceeds(r, work) PROVE op'[r] = work
  BY <1>0, <1>2 DEF Proceeds
<1>3. ASSUME Proceeds(r, Idle) PROVE Fine
  <2>1. op'[r] = Idle
    BY <1>2, <1>3
  <2> QED
    BY <2>1 DEF Idle
<1>4. CASE Enters(r)
  <2>1. ASSUME NEW u \in User, CreateFirstAdmin(r, u) PROVE Fine
    <3>1. Proceeds(r, Idle) \/ op'[r] = [op[r] EXCEPT !.step = "sign in", !.user = u]
      BY <1>2, <2>1 DEF CreateFirstAdmin
    <3>2. op[r].step = "found" /\ ~WriteGuarded(r)
      BY <2>1 DEF CreateFirstAdmin, WriteGuarded
    <3> QED
      BY <1>0, <1>3, <3>1, <3>2 DEF Work
  <2>2. CASE \/ Submit(r)
             \/ \E u \in User : Login(r, u, "sign in") \/ Login(r, u, "mint")
             \/ \E s \in Sid : Browse(r, s) \/ ChangeOwn(r, s)
    <3>1. CASE Submit(r)
      <4>1. op'[r] = [Idle EXCEPT !.step = "found"]
        BY <1>2, <3>1 DEF Submit
      <4> QED
        BY <4>1 DEF Idle
    <3>2. ASSUME NEW u \in User, NEW then \in {"sign in", "mint"}, Login(r, u, then) PROVE Fine
      <4>1. op'[r] = [Idle EXCEPT !.step = then, !.user = u, !.epoch = member[u].epoch]
        BY <1>2, <3>2 DEF Login
      <4> QED
        BY <4>1 DEF Idle
    <3>3. ASSUME NEW s \in Sid, Browse(r, s) PROVE Fine
      <4>1. op'[r] = [Idle EXCEPT !.step = "save", !.sid = s, !.user = session[s].user,
                                  !.epoch = session[s].epoch]
        BY <1>2, <3>3 DEF Browse
      <4> QED
        BY <4>1 DEF Idle
    <3>4. ASSUME NEW s \in Sid, ChangeOwn(r, s) PROVE Fine
      <4>1. op'[r] = [Idle EXCEPT !.step = "hash", !.user = session[s].user, !.sid = s,
                                  !.kind = "change"]
        BY <1>2, <3>4 DEF ChangeOwn
      <4> QED
        BY <4>1 DEF Idle
    <3> QED
      BY <2>2, <3>1, <3>2, <3>3, <3>4
  <2>3. CASE Save(r) \/ (\E s \in Sid : SignIn(r, s)) \/ (\E t \in Tid : IssueToken(r, t))
    BY <1>3, <2>3 DEF Save, SignIn, IssueToken
  <2> QED
    BY <1>4, <2>1, <2>2, <2>3 DEF Enters
<1>5. CASE Manages(r)
  <2>1. CASE \/ \E u \in User : BeginGuarded(r, u, "deactivate") \/ BeginGuarded(r, u, "demote")
             \/ \E u \in User : ResetPassword(r, u)
    <3>1. op'[r].locks = {} /\ op'[r].step # "write"
      BY <1>2, <2>1 DEF BeginGuarded, ResetPassword, Idle
    <3> QED
      BY <3>1
  <2>2. CASE LockActiveAdmins(r)
    <3>1. CASE ActiveAdmins = {op[r].user}
      BY <1>3, <2>2, <3>1 DEF LockActiveAdmins
    <3>2. CASE ActiveAdmins # {op[r].user}
      <4>1. /\ op'[r] = [op[r] EXCEPT !.step = "write", !.locks = ActiveAdmins]
            /\ op[r].step = "lock" /\ member' = member
        BY <1>2, <2>2, <3>2 DEF LockActiveAdmins
      <4> QED
        BY <1>0, <3>2, <4>1 DEF Work
    <3> QED
      BY <3>1, <3>2
  <2>3. CASE WriteGuarded(r)
    <3>1. \/ Proceeds(r, Idle)
          \/ op'[r] = [op[r] EXCEPT !.step = "list", !.locks = {}, !.epoch = member[op[r].user].epoch + 1]
      BY <1>2, <2>3 DEF WriteGuarded
    <3> QED
      BY <1>0, <1>3, <3>1 DEF Work
  <2>4. CASE SetPasswordHash(r)
    <3>1. op'[r] = [op[r] EXCEPT !.step = "list", !.epoch = member[op[r].user].epoch + 1]
      BY <1>2, <2>4 DEF SetPasswordHash
    <3>2. ~WriteGuarded(r)
      BY <2>4 DEF SetPasswordHash, WriteGuarded
    <3> QED
      BY <1>0, <3>1, <3>2 DEF Work
  <2> QED
    BY <1>5, <2>1, <2>2, <2>3, <2>4 DEF Manages
<1>6. CASE Revokes(r)
  <2>1. op[r].step \in {"list", "destroy", "revoke tokens"} /\ ~WriteGuarded(r)
    BY <1>6 DEF Revokes, ListSessions, DestroySession, FailToRevoke, RevokeAllTokens, WriteGuarded
  <2>2. ASSUME \/ op'[r] = [op[r] EXCEPT !.step = "destroy", !.doomed = SessionsOf(op[r].user)]
               \/ op'[r] = [op[r] EXCEPT !.step = "revoke tokens"]
               \/ \E s \in op[r].doomed : op'[r] = [op[r] EXCEPT !.doomed = op[r].doomed \ {s}]
               \/ op'[r] = [op[r] EXCEPT !.step = "revoke tokens", !.failed = TRUE, !.doomed = {}]
               \/ op'[r] = [op[r] EXCEPT !.step = "sign in"]
        PROVE  op'[r].locks = op[r].locks /\ op'[r].step # "write"
    BY <1>0, <2>1, <2>2 DEF Work
  <2>3. Proceeds(r, Idle) \/ (op'[r].locks = op[r].locks /\ op'[r].step # "write")
    BY <1>2, <1>6, <2>2 DEF Revokes, ListSessions, DestroySession, FailToRevoke, RevokeAllTokens, Finish
  <2> QED
    BY <1>3, <2>1, <2>3
<1>7. CASE Stop(r)
  BY <1>3, <1>7 DEF Stop
<1> QED
  BY <1>4, <1>5, <1>6, <1>7, OwnWork

LEMMA LocksHoldNext ==
  ASSUME Accountable, [Next]_vars
  PROVE  LocksHold'
<1>0. TypeOK /\ WorkKnown /\ LocksHold /\ AdminRemains
  BY DEF Accountable
<1> SUFFICES ASSUME NEW q \in Request
             PROVE  /\ op'[q].locks \subseteq ActiveAdmins'
                    /\ op'[q].step = "write" => \E v \in op'[q].locks : v # op'[q].user
  BY DEF LocksHold
\* Nobody else writes a locked row.
<1>1. ~WriteGuarded(q) => op[q].locks \subseteq ActiveAdmins'
  <2>1. ASSUME NEW r \in Request, WriteGuarded(r), r # q PROVE op[r].user \notin op[q].locks
    BY <2>1 DEF WriteGuarded, Unlocked
  <2> QED
    BY <1>0, <2>1, AdminsStay DEF LocksHold
<1>2. CASE op'[q] = op[q]
  <2>1. ~WriteGuarded(q)
    <3> SUFFICES ASSUME WriteGuarded(q) PROVE FALSE
      OBVIOUS
    <3>1. /\ op[q].step = "write" /\ op \in [Request -> Work] /\ op[q] \in Work
          /\ \/ op' = [op EXCEPT ![q] = Idle]
             \/ op' = [op EXCEPT ![q] = [op[q] EXCEPT !.step = "list", !.locks = {},
                                                    !.epoch = member[op[q].user].epoch + 1]]
      BY <1>0 DEF WriteGuarded, Proceeds, TypeOK
    <3>2. op'[q].step # "write"
      <4>1. CASE op' = [op EXCEPT ![q] = Idle]
        <5>1. op'[q] = Idle
          BY <3>1, <4>1
        <5> QED
          BY <5>1 DEF Idle
      <4>2. CASE op' = [op EXCEPT ![q] = [op[q] EXCEPT !.step = "list", !.locks = {},
                                                    !.epoch = member[op[q].user].epoch + 1]]
        <5>1. op'[q] = [op[q] EXCEPT !.step = "list", !.locks = {}, !.epoch = member[op[q].user].epoch + 1]
          BY <3>1, <4>2
        <5> QED
          BY <3>1, <5>1 DEF Work
      <4> QED
        BY <3>1, <4>1, <4>2
    <3> QED
      BY <1>2, <3>1, <3>2
  <2> QED
    BY <1>0, <1>1, <1>2, <2>1 DEF LocksHold
<1>3. CASE op'[q].locks = {} /\ op'[q].step # "write"
  BY <1>3
<1>4. CASE op'[q].locks = op[q].locks /\ op'[q].step # "write" /\ ~WriteGuarded(q)
  BY <1>1, <1>4
<1>5. CASE /\ op[q].step = "lock" /\ ActiveAdmins # {op[q].user} /\ member' = member
           /\ op'[q].locks = ActiveAdmins /\ op'[q].user = op[q].user
  <2>1. op[q].user \in User /\ IsMember(op[q].user)
    BY <1>0, <1>5 DEF WorkKnown, Known, IsMember, Serving
  <2>2. ActiveAdmins # {} /\ ActiveAdmins' = ActiveAdmins
    BY <1>0, <1>5, <2>1 DEF AdminRemains, HasAnyUser, ActiveAdmins, IsMember
  <2> QED
    BY <1>5, <2>2
<1> QED
  BY <1>0, <1>2, <1>3, <1>4, <1>5, LocksNext

LEMMA AdminRemainsNext ==
  ASSUME Accountable, [Next]_vars
  PROVE  AdminRemains'
<1>0. TypeOK /\ WorkKnown /\ LocksHold /\ AdminRemains
  BY DEF Accountable
<1>1. CASE ActiveAdmins # {}
  <2>1. CASE ActiveAdmins \subseteq ActiveAdmins'
    BY <1>1, <2>1 DEF AdminRemains
  <2>2. ASSUME NEW r \in Request, WriteGuarded(r), ActiveAdmins \ {op[r].user} \subseteq ActiveAdmins'
        PROVE  ActiveAdmins' # {}
    <3>1. PICK v \in op[r].locks : v # op[r].user
      BY <1>0, <2>2 DEF LocksHold, WriteGuarded
    <3> QED
      BY <1>0, <2>2, <3>1 DEF LocksHold
  <2> QED
    BY <1>0, <2>1, <2>2, AdminsStay DEF AdminRemains
<1>2. CASE ActiveAdmins = {}
  <2>1. \A u \in User : ~IsMember(u)
    BY <1>0, <1>2 DEF AdminRemains, HasAnyUser
  <2>2. SUFFICES ASSUME member' # member PROVE ActiveAdmins' # {}
    BY <2>1 DEF AdminRemains, HasAnyUser, IsMember
  <2>3. ~ByAdmin
    BY <1>2 DEF ByAdmin
  <2>4. ASSUME NEW r \in Request, WriteGuarded(r) \/ SetPasswordHash(r) PROVE FALSE
    BY <1>0, <2>1, <2>4 DEF WriteGuarded, SetPasswordHash, WorkKnown, Known, IsMember, Serving
  <2>5. PICK r \in Request, u \in User : CreateFirstAdmin(r, u)
    BY <2>2, <2>3, <2>4, Writers DEF Create, Promote, Reactivate
  <2> DEFINE row == [role |-> "owner", active |-> TRUE, epoch |-> 0]
  <2>6. member' = [member EXCEPT ![u] = row]
    BY <2>2, <2>5 DEF CreateFirstAdmin
  <2>7. row # None
    <3>1. row \in Member
      BY AccountsAssumption DEF Member, Role
    <3> QED
      BY <3>1, NullIsNoRow
  <2>8. u \in ActiveAdmins'
    BY <1>0, <2>6, <2>7 DEF ActiveAdmins, IsMember, TypeOK
  <2> QED
    BY <2>8
<1> QED
  BY <1>1, <1>2

LEMMA FirstAdminNext ==
  ASSUME Accountable, [Next]_vars
  PROVE  FirstAdminKnown'
<1>0. TypeOK /\ WorkKnown /\ FirstAdminKnown
  BY DEF Accountable
<1>1. CASE founders' = founders
  BY <1>0, <1>1, MembersStay DEF FirstAdminKnown
<1>2. ASSUME NEW u \in User, ~HasAnyUser, founders' = founders \cup {u},
             member' = [member EXCEPT ![u] = [role |-> "owner", active |-> TRUE, epoch |-> 0]]
      PROVE  FirstAdminKnown'
  <2>1. founders' = {u}
    BY <1>0, <1>2 DEF FirstAdminKnown, HasAnyUser
  <2>2. [role |-> "owner", active |-> TRUE, epoch |-> 0] # None
    <3>1. [role |-> "owner", active |-> TRUE, epoch |-> 0] \in Member
      BY AccountsAssumption DEF Member, Role
    <3> QED
      BY <3>1, NullIsNoRow
  <2> QED
    BY <1>0, <1>2, <2>1, <2>2 DEF FirstAdminKnown, IsMember, TypeOK
<1> QED
  BY <1>1, <1>2, Founding

-----------------------------------------------------------------------------
(* The credentials and their revocation. *)

\* What a request does to what its revocation has listed.
LEMMA RevocationNext ==
  ASSUME TypeOK, [Next]_vars, NEW r \in Request, op'[r] # op[r], op'[r].step \in {"destroy", "revoke tokens"}
  PROVE  /\ op[r].step \in {"list", "destroy"}
         /\ op'[r].user = op[r].user /\ op'[r].epoch = op[r].epoch
         /\ \/ op'[r].step = "destroy" /\ op'[r].doomed = SessionsOf(op[r].user) /\ session' = session
            \/ /\ op[r].step = "destroy" /\ op'[r].step = "destroy"
               /\ \E s \in op[r].doomed : op'[r].doomed = op[r].doomed \ {s} /\ session' = [session EXCEPT ![s] = None]
            \/ op[r].step = "destroy" /\ op[r].doomed = {} /\ session' = session
            \/ op'[r].step = "revoke tokens" /\ op'[r].failed
<1>0. op \in [Request -> Work] /\ op[r] \in Work
  BY DEF TypeOK
<1>2. ASSUME NEW work, Proceeds(r, work) PROVE op'[r] = work
  BY <1>0, <1>2 DEF Proceeds
<1>i. ~Proceeds(r, Idle)
  <2>1. Idle.step = "idle"
    BY DEF Idle
  <2> QED
    BY <1>2, <2>1
\* Any other step that a request may take leads elsewhere.
<1>e. ASSUME NEW work, Proceeds(r, work) PROVE work.step \in {"destroy", "revoke tokens"}
  BY <1>2, <1>e
<1>3. ~Enters(r)
  <2>1. ~Submit(r) /\ \A s \in Sid : ~Browse(r, s) /\ ~ChangeOwn(r, s)
    <3>1. [Idle EXCEPT !.step = "found"].step = "found"
      BY DEF Idle
    <3>2. ASSUME NEW s \in Sid
          PROVE  /\ [Idle EXCEPT !.step = "save", !.sid = s, !.user = session[s].user,
                                 !.epoch = session[s].epoch].step = "save"
                 /\ [Idle EXCEPT !.step = "hash", !.user = session[s].user, !.sid = s,
                                 !.kind = "change"].step = "hash"
      BY DEF Idle
    <3> QED
      BY <1>e, <3>1, <3>2 DEF Submit, Browse, ChangeOwn
  <2>2. \A u \in User : ~Login(r, u, "sign in") /\ ~Login(r, u, "mint")
    <3> SUFFICES ASSUME NEW u \in User, NEW then \in {"sign in", "mint"}, Login(r, u, then) PROVE FALSE
      OBVIOUS
    <3>1. Proceeds(r, [Idle EXCEPT !.step = then, !.user = u, !.epoch = member[u].epoch])
      BY DEF Login
    <3>2. [Idle EXCEPT !.step = then, !.user = u, !.epoch = member[u].epoch].step = then
      BY DEF Idle
    <3> QED
      BY <1>e, <3>1, <3>2
  <2>3. \A u \in User : ~CreateFirstAdmin(r, u)
    <3> SUFFICES ASSUME NEW u \in User, CreateFirstAdmin(r, u) PROVE FALSE
      OBVIOUS
    <3>1. Proceeds(r, [op[r] EXCEPT !.step = "sign in", !.user = u])
      BY <1>i DEF CreateFirstAdmin
    <3>2. [op[r] EXCEPT !.step = "sign in", !.user = u].step = "sign in"
      BY <1>0 DEF Work
    <3> QED
      BY <1>e, <3>1, <3>2
  <2> QED
    BY <1>i, <2>1, <2>2, <2>3 DEF Enters, SignIn, IssueToken, Save
<1>4. ~Manages(r)
  <2>1. \A u \in User, kind \in Kind : ~BeginGuarded(r, u, kind) /\ ~ResetPassword(r, u)
    <3>1. ASSUME NEW u \in User, NEW kind \in Kind
          PROVE  /\ [Idle EXCEPT !.step = "lock", !.user = u, !.kind = kind].step = "lock"
                 /\ [Idle EXCEPT !.step = "hash", !.user = u, !.kind = "reset"].step = "hash"
      BY DEF Idle
    <3> QED
      BY <1>e, <3>1 DEF BeginGuarded, ResetPassword
  <2>2. ~LockActiveAdmins(r)
    <3>1. [op[r] EXCEPT !.step = "write", !.locks = ActiveAdmins].step = "write"
      BY <1>0 DEF Work
    <3> QED
      BY <1>i, <1>e, <3>1 DEF LockActiveAdmins
  <2>3. ~WriteGuarded(r)
    <3>1. [op[r] EXCEPT !.step = "list", !.locks = {}, !.epoch = member[op[r].user].epoch + 1].step = "list"
      BY <1>0 DEF Work
    <3> QED
      BY <1>i, <1>e, <3>1 DEF WriteGuarded
  <2>4. ~SetPasswordHash(r)
    <3>1. [op[r] EXCEPT !.step = "list", !.epoch = member[op[r].user].epoch + 1].step = "list"
      BY <1>0 DEF Work
    <3> QED
      BY <1>e, <3>1 DEF SetPasswordHash
  <2> QED
    BY <2>1, <2>2, <2>3, <2>4 DEF Manages, Kind
<1>5. ~Stop(r)
  BY <1>i DEF Stop
<1>6. ~RevokeAllTokens(r)
  <2>1. [op[r] EXCEPT !.step = "sign in"].step = "sign in"
    BY <1>0 DEF Work
  <2> QED
    BY <1>i, <1>e, <2>1 DEF RevokeAllTokens, Finish
<1>7. CASE ListSessions(r)
  <2>1. /\ op'[r] = [op[r] EXCEPT !.step = "destroy", !.doomed = SessionsOf(op[r].user)]
        /\ op[r].step = "list" /\ session' = session
    BY <1>2, <1>7 DEF ListSessions
  <2> QED
    BY <1>0, <2>1 DEF Work
<1>8. CASE DestroySession(r)
  <2>1. CASE op[r].doomed = {}
    <3>1. /\ op'[r] = [op[r] EXCEPT !.step = "revoke tokens"]
          /\ op[r].step = "destroy" /\ session' = session
      BY <1>2, <1>8, <2>1 DEF DestroySession
    <3> QED
      BY <1>0, <2>1, <3>1 DEF Work
  <2>2. CASE op[r].doomed # {}
    <3>1. op[r].step = "destroy" /\ \E s \in op[r].doomed :
            op'[r] = [op[r] EXCEPT !.doomed = op[r].doomed \ {s}] /\ session' = [session EXCEPT ![s] = None]
      BY <1>2, <1>8, <2>2 DEF DestroySession
    <3> QED
      BY <1>0, <3>1 DEF Work
  <2> QED
    BY <2>1, <2>2
<1>9. CASE FailToRevoke(r)
  <2>1. /\ op'[r] = [op[r] EXCEPT !.step = "revoke tokens", !.failed = TRUE, !.doomed = {}]
        /\ op[r].step \in {"list", "destroy"}
    BY <1>2, <1>9 DEF FailToRevoke
  <2> QED
    BY <1>0, <2>1 DEF Work
<1> QED
  BY <1>3, <1>4, <1>5, <1>6, <1>7, <1>8, <1>9, OwnWork DEF Revokes

LEMMA CredentialsKnownNext ==
  ASSUME Accountable, [Next]_vars
  PROVE  CredentialsKnown'
<1> USE AccountsAssumption
<1>0. TypeOK /\ WorkKnown /\ CredentialsKnown
  BY DEF Accountable
<1>1. \A u \in User : IsMember(u) => /\ member[u].epoch \in Nat /\ member'[u].epoch \in Nat
                                     /\ member'[u] # None /\ member[u].epoch <= member'[u].epoch
  BY <1>0, MembersStay DEF TypeOK, IsMember, Member
<1>2. ASSUME NEW s \in Sid, session'[s] # None
      PROVE  /\ member'[session'[s].user] # None
             /\ session'[s].epoch <= member'[session'[s].user].epoch
  <2>1. CASE session'[s] = session[s]
    <3>1. session[s] \in Session /\ session[s].user \in User /\ session[s].epoch \in Nat
      BY <1>0, <1>2, <2>1 DEF TypeOK, Session
    <3>2. IsMember(session[s].user) /\ session[s].epoch <= member[session[s].user].epoch
      BY <1>0, <1>2, <2>1 DEF CredentialsKnown
    <3> QED
      BY <1>1, <2>1, <3>1, <3>2
  <2>2. CASE session'[s] # session[s]
    BY <1>0, <1>2, <2>2, SessionsWritten DEF WrittenNow, IsMember
  <2> QED
    BY <2>1, <2>2
<1>3. ASSUME NEW t \in Tid, token'[t] # None
      PROVE  /\ member'[token'[t].user] # None
             /\ token'[t].epoch <= member'[token'[t].user].epoch
  <2>1. CASE token'[t] = token[t]
    <3>1. token[t] \in Credential /\ token[t].user \in User /\ token[t].epoch \in Nat
      BY <1>0, <1>3, <2>1 DEF TypeOK, Credential
    <3>2. IsMember(token[t].user) /\ token[t].epoch <= member[token[t].user].epoch
      BY <1>0, <1>3, <2>1 DEF CredentialsKnown
    <3> QED
      BY <1>1, <2>1, <3>1, <3>2
  <2>2. CASE token'[t] # token[t]
    BY <1>0, <1>3, <2>2, TokensWritten DEF WrittenNow, IsMember
  <2> QED
    BY <2>1, <2>2
<1>4. ASSUME NEW u \in User PROVE settled'[u] <= IF member'[u] # None THEN member'[u].epoch ELSE 0
  <2>0. settled \in [User -> 0..MaxEpoch] /\ settled[u] \in Nat /\ settled[u] <= Epoch(u)
    BY <1>0 DEF TypeOK, CredentialsKnown
  <2>1. settled[u] <= IF member'[u] # None THEN member'[u].epoch ELSE 0
    <3>1. CASE IsMember(u)
      BY <1>1, <2>0, <3>1 DEF Epoch
    <3>2. CASE ~IsMember(u)
      <4>1. settled[u] = 0
        BY <2>0, <3>2 DEF Epoch
      <4>2. member'[u] # None => member'[u].epoch = 0
        BY <1>0, <3>2, MembersStay DEF IsMember
      <4> QED
        BY <4>1, <4>2
    <3> QED
      BY <3>1, <3>2
  <2>2. ASSUME NEW r \in Request, op[r].step = "revoke tokens", op[r].user = u
        PROVE  member'[u] # None /\ op[r].epoch <= member'[u].epoch
    <3>0. Known(op[r], member) /\ op[r].epoch \in Nat
      BY <1>0 DEF WorkKnown, TypeOK, Work
    <3>1. IsMember(u) /\ op[r].epoch <= member[u].epoch /\ op[r].epoch \in Nat
      BY <2>2, <3>0 DEF Known, IsMember, Serving, Proved
    <3> QED
      BY <1>1, <3>1
  <2>3. ASSUME NEW r \in Request, op[r].step = "revoke tokens", op[r].user \in User,
               settled' = [settled EXCEPT ![op[r].user] =
                             IF settled[op[r].user] >= op[r].epoch THEN settled[op[r].user] ELSE op[r].epoch]
        PROVE  settled'[u] <= IF member'[u] # None THEN member'[u].epoch ELSE 0
    BY <2>0, <2>1, <2>2, <2>3
  <2> QED
    BY <1>0, <2>1, <2>3, SettledWritten
<1> QED
  BY <1>2, <1>3, <1>4 DEF CredentialsKnown, Epoch, IsMember

LEMMA NotBefore ==
  ASSUME NEW a \in Nat, NEW b \in Nat, NEW m \in Nat, a <= m, ~(b < m)
  PROVE  ~(b < a)
OBVIOUS

LEMMA RevocationCoversNext ==
  ASSUME Accountable, [Next]_vars, WorkKnown'
  PROVE  RevocationCovers'
<1> USE AccountsAssumption
<1>0. TypeOK /\ WorkKnown /\ CredentialsKnown /\ RevocationCovers
  BY DEF Accountable
<1>t. /\ op' \in [Request -> Work] /\ session' \in [Sid -> Session \cup {None}]
      /\ member' \in [User -> Member \cup {None}]
  BY <1>0, TypeNext DEF TypeOK
<1>n. /\ \A r \in Request : op'[r].epoch \in Nat
      /\ \A s \in Sid : session'[s] # None => session'[s].epoch \in Nat
      /\ \A u \in User : member'[u] # None => member'[u].epoch \in Nat
  <2>1. \A w \in Work : w.epoch \in Nat
    BY DEF Work
  <2>2. \A c \in Session : c.epoch \in Nat
    BY DEF Session
  <2>3. \A m \in Member : m.epoch \in Nat
    BY DEF Member
  <2> QED
    BY <1>t, <2>1, <2>2, <2>3
<1> SUFFICES ASSUME NEW r \in Request, NEW s \in Sid, session'[s] # None, session'[s].user = op'[r].user,
                    session'[s].epoch < op'[r].epoch, ~session'[s].late,
                    op'[r].step \in {"destroy", "revoke tokens"}
             PROVE  /\ op'[r].step = "destroy" => s \in op'[r].doomed
                    /\ op'[r].step = "revoke tokens" => op'[r].failed
  BY DEF RevocationCovers
\* A session of now that is not late has the epoch of now.
<1>1. session'[s] = session[s]
  <2> SUFFICES ASSUME session'[s] # session[s] PROVE FALSE
    OBVIOUS
  <2>1. WrittenNow(session'[s]) /\ member' = member
    BY <1>0, SessionsWritten
  <2>2. op'[r].epoch <= member'[op'[r].user].epoch /\ op'[r].user \in User /\ member'[op'[r].user] # None
    BY DEF WorkKnown, Known, Serving, Proved
  <2>3. op'[r].epoch \in Nat /\ session'[s].epoch \in Nat /\ member'[op'[r].user].epoch \in Nat
    BY <1>n, <2>2
  <2>4. ~(session'[s].epoch < member'[op'[r].user].epoch)
    BY <2>1 DEF WrittenNow
  <2> QED
    BY <2>2, <2>3, <2>4, NotBefore, Zenon
<1>2. CASE op'[r] = op[r]
  BY <1>0, <1>1, <1>2 DEF RevocationCovers
<1>3. CASE op'[r] # op[r]
  <2>1. /\ op[r].step \in {"list", "destroy"}
        /\ op'[r].user = op[r].user /\ op'[r].epoch = op[r].epoch
        /\ \/ op'[r].step = "destroy" /\ op'[r].doomed = SessionsOf(op[r].user) /\ session' = session
           \/ /\ op[r].step = "destroy" /\ op'[r].step = "destroy"
              /\ \E x \in op[r].doomed : op'[r].doomed = op[r].doomed \ {x} /\ session' = [session EXCEPT ![x] = None]
           \/ op[r].step = "destroy" /\ op[r].doomed = {} /\ session' = session
           \/ op'[r].step = "revoke tokens" /\ op'[r].failed
    BY <1>0, <1>3, RevocationNext
  <2>2. op[r].step = "destroy" => s \in op[r].doomed
    BY <1>0, <1>1, <2>1 DEF RevocationCovers
  <2>3. s \in SessionsOf(op[r].user)
    BY <1>1, <2>1 DEF SessionsOf
  <2>4. ASSUME NEW x \in op[r].doomed, session' = [session EXCEPT ![x] = None] PROVE x # s
    BY <1>0, <2>4 DEF TypeOK
  <2> QED
    BY <2>1, <2>2, <2>3, <2>4
<1> QED
  BY <1>2, <1>3

LEMMA ReachedNext ==
  ASSUME Accountable, [Next]_vars
  PROVE  Reached'
<1> USE AccountsAssumption
<1>0. TypeOK /\ WorkKnown /\ CredentialsKnown /\ RevocationCovers /\ Reached
  BY DEF Accountable
<1>s. settled \in [User -> 0..MaxEpoch]
  BY <1>0 DEF TypeOK
<1>1. ASSUME NEW c, WrittenNow(c), c.epoch \in Nat PROVE c.epoch >= settled[c.user] \/ c.late
  <2>1. settled[c.user] <= member[c.user].epoch /\ member[c.user].epoch \in Nat /\ settled[c.user] \in Nat
    BY <1>0, <1>1, <1>s DEF WrittenNow, CredentialsKnown, Epoch, IsMember, TypeOK, Member
  <2>2. c.late = (c.epoch < member[c.user].epoch)
    BY <1>1 DEF WrittenNow
  <2>3. CASE c.epoch < member[c.user].epoch
    BY <2>2, <2>3
  <2>4. CASE ~(c.epoch < member[c.user].epoch)
    BY <1>1, <2>1, <2>4
  <2> QED
    BY <2>3, <2>4
<1>2. ASSUME NEW s \in Sid, session'[s] # None
      PROVE  session'[s].epoch >= settled'[session'[s].user] \/ session'[s].late
  <2>0. session'[s] \in Session /\ session'[s].epoch \in Nat /\ session'[s].user \in User
    BY <1>0, <1>2, SessionsWritten DEF Session
  <2>1. CASE session'[s] # session[s]
    BY <1>0, <1>1, <1>2, <2>0, <2>1, SessionsWritten
  <2>2. CASE session'[s] = session[s]
    <3>1. session[s].epoch >= settled[session[s].user] \/ session[s].late
      BY <1>0, <1>2, <2>2 DEF Reached
    <3>2. ASSUME NEW r \in Request, op[r].step = "revoke tokens", ~op[r].failed, op[r].user \in User,
                 settled' = [settled EXCEPT ![op[r].user] =
                               IF settled[op[r].user] >= op[r].epoch THEN settled[op[r].user] ELSE op[r].epoch]
          PROVE  session[s].epoch >= settled'[session[s].user] \/ session[s].late
      <4>1. op[r].epoch \in Nat
        BY <1>0 DEF TypeOK, Work
      <4>2. session[s].user = op[r].user => session[s].epoch >= op[r].epoch \/ session[s].late
        <5>1. session[s].epoch \in Nat /\ session[s] # None
          BY <1>2, <2>0, <2>2
        <5>2. session[s].user = op[r].user => ~(session[s].epoch < op[r].epoch) \/ session[s].late
          BY <1>0, <3>2, <5>1 DEF RevocationCovers
        <5> QED
          BY <4>1, <5>1, <5>2
      <4> QED
        BY <1>s, <2>0, <2>2, <3>1, <3>2, <4>1, <4>2
    <3> QED
      BY <1>0, <2>2, <3>1, <3>2, SettledWritten
  <2> QED
    BY <2>1, <2>2
<1>3. ASSUME NEW t \in Tid, token'[t] # None
      PROVE  token'[t].epoch >= settled'[token'[t].user] \/ token'[t].late
  <2>0. token'[t] \in Credential /\ token'[t].epoch \in Nat /\ token'[t].user \in User
    BY <1>0, <1>3, TokensWritten DEF Credential
  <2>1. CASE token'[t] # token[t]
    BY <1>0, <1>1, <1>3, <2>0, <2>1, TokensWritten
  <2>2. CASE token'[t] = token[t]
    <3>1. token[t].epoch >= settled[token[t].user] \/ token[t].late
      BY <1>0, <1>3, <2>2 DEF Reached
    <3>2. ASSUME NEW r \in Request, op[r].user \in User, RevokeAllTokens(r),
                 settled' = [settled EXCEPT ![op[r].user] =
                               IF settled[op[r].user] >= op[r].epoch THEN settled[op[r].user] ELSE op[r].epoch]
          PROVE  token[t].epoch >= settled'[token[t].user] \/ token[t].late
      <4>1. token[t].user # op[r].user
        BY <1>3, <2>2, <3>2 DEF RevokeAllTokens, TokensOf
      <4> QED
        BY <1>s, <2>0, <2>2, <3>1, <3>2, <4>1
    <3> QED
      BY <1>0, <2>2, <3>1, <3>2, SettledWritten
  <2> QED
    BY <2>1, <2>2
<1> QED
  BY <1>2, <1>3 DEF Reached

-----------------------------------------------------------------------------
(* Theorems. *)

LEMMA AccountableNext == Accountable /\ [Next]_vars => Accountable'
<1> SUFFICES ASSUME Accountable, [Next]_vars PROVE Accountable'
  OBVIOUS
<1>1. TypeOK' /\ WorkKnown'
  BY TypeNext, WorkKnownNext DEF Accountable
<1>2. LocksHold' /\ AdminRemains' /\ FirstAdminKnown'
  BY LocksHoldNext, AdminRemainsNext, FirstAdminNext
<1>3. CredentialsKnown' /\ RevocationCovers' /\ Reached'
  BY <1>1, CredentialsKnownNext, RevocationCoversNext, ReachedNext
<1> QED
  BY <1>1, <1>2, <1>3 DEF Accountable

LEMMA AccountableAlways == Spec => []Accountable
BY AccountableInit, AccountableNext, PTL DEF Spec

\* Types, for any numbers of members, credentials and requests.
THEOREM AccountsTypes == Spec => []TypeOK
<1>1. Accountable => TypeOK
  BY DEF Accountable
<1> QED
  BY <1>1, AccountableAlways, PTL

\* However many admins deactivate and demote each other at once, one stays: a
\* guarded write holds the row of another active admin than its victim.
THEOREM AnAdminRemains == Spec => []AdminRemains
<1>1. Accountable => AdminRemains
  BY DEF Accountable
<1> QED
  BY <1>1, AccountableAlways, PTL

\* However often the wizard is submitted, one first admin comes of it.
THEOREM OneFirstAdminComes == Spec => []OneFirstAdmin
<1>1. Accountable => OneFirstAdmin
  <2> SUFFICES ASSUME FirstAdminKnown PROVE OneFirstAdmin
    BY DEF Accountable
  <2>1. CASE founders = {}
    BY <2>1, FS_EmptySet DEF OneFirstAdmin
  <2>2. ASSUME NEW u, founders = {u} PROVE OneFirstAdmin
    BY <2>2, FS_Singleton DEF OneFirstAdmin
  <2> QED
    BY <2>1, <2>2 DEF FirstAdminKnown
<1> QED
  BY <1>1, AccountableAlways, PTL

\* A revocation that is done has reached every credential from before the
\* change, but for those that were written after it, whatever other requests
\* were under way.
THEOREM RevocationsReachAll == Spec => []RevocationReachesAll
<1>1. Accountable => RevocationReachesAll
  <2> SUFFICES ASSUME Accountable, NEW c \in Live, c.epoch < settled[c.user] PROVE c.late
    BY DEF RevocationReachesAll
  <2>0. TypeOK /\ Reached
    BY DEF Accountable
  <2>1. /\ c.epoch \in Nat /\ settled[c.user] \in Nat
        /\ c.epoch >= settled[c.user] \/ c.late
    <3>1. CASE \E s \in Sid : session[s] # None /\ c = session[s]
      BY <2>0, <3>1 DEF TypeOK, Session, Reached
    <3>2. CASE \E t \in Tid : token[t] # None /\ c = token[t]
      BY <2>0, <3>2 DEF TypeOK, Credential, Reached
    <3> QED
      BY <3>1, <3>2 DEF Live
  <2> QED
    BY <2>1
<1> QED
  BY <1>1, AccountableAlways, PTL
=============================================================================
