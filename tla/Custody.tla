------------------------------ MODULE Custody ------------------------------
(***************************************************************************)
(* The custody of a household's items: internal/storage's item rows, bins, *)
(* return requests and the item_event ledger, and the concurrent requests  *)
(* that change them.                                                       *)
(*                                                                         *)
(* A session s is one request being served by one goroutine.  It reads     *)
(* through the pool and checks its guards outside any transaction (phase   *)
(* "read"), begins a transaction (phase "tx": PostgreSQL fixes now() for   *)
(* all of it), takes the item row FOR UPDATE and runs the domain guard     *)
(* (phase "held"), and commits.  It may instead stop at any point, which   *)
(* stands for a database error, a cancelled context or the death of the    *)
(* server: nothing it wrote is kept.  What it writes between the lock and  *)
(* the commit is invisible to the others (READ COMMITTED), so the writes   *)
(* of a transaction appear here in its commit step.                        *)
(***************************************************************************)
EXTENDS Naturals, Sequences, FiniteSets

CONSTANTS User,         \* app_user rows of the household
          Admin,        \* the users whose role is owner
          Integration,  \* the principal of the account api key
          Item, Bin, RequestId, Session,
          Creator,      \* Creator[b]: the user who creates bin b
          None,         \* SQL NULL
          Offered,      \* bound: the verbs clients send
          MaxEvents,    \* bound: events per item
          MaxClock      \* bound: readings of the database clock

Actor == User \cup {Integration}
Visible == {"public", "private"}
PutKind == {"added", "returned"}
Verb == {"add", "remove", "return", "request", "cancel", "create", "edit", "delete"}

ASSUME CustodyAssumption ==
  /\ Admin \subseteq User
  /\ Integration \notin User
  /\ Creator \in [Bin -> User] /\ User \cap Bin = {}
  /\ None \notin User \cup {Integration} \cup Item \cup Bin \cup RequestId \cup Session
  /\ Offered \subseteq Verb
  /\ MaxEvents \in Nat /\ MaxClock \in Nat

VARIABLES visibility,  \* bin.visibility; "unborn" before the INSERT, "deleted" after the DELETE
          row,         \* the committed item row, NoRow where there is none
          lock,        \* the session holding the item row FOR UPDATE
          req,         \* return_request rows
          log,         \* item_event rows of each item, in commit order
          clock,       \* the database clock
          op           \* what each session is doing
vars == <<visibility, row, lock, req, log, clock, op>>

-----------------------------------------------------------------------------
(* Rows. *)

NoRow == [bin |-> None, heldBy |-> None, placedAt |-> 0]
Row == [bin : Bin \cup {None}, heldBy : User \cup {None}, placedAt : Nat]

Event == [kind : PutKind \cup {"created", "removed", "deleted", "edited",
                               "return_requested", "return_request_cancelled"},
          actor : Actor, bin : Bin \cup {None}, at : Nat]

\* asked is not a column: it remembers which event of the ledger the request
\* was recorded with.
NoRequest == [status |-> "none", item |-> None, requester |-> None,
              holder |-> None, asked |-> 0]
Request == [status : {"none", "open", "fulfilled", "cancelled"},
            item : Item \cup {None}, requester : User \cup {None},
            holder : User \cup {None}, asked : Nat]

Idle == [phase |-> "idle", verb |-> "none", actor |-> None, item |-> None,
         bin |-> None, req |-> None, at |-> 0, seen |-> NoRow]
Work == [phase : {"idle", "read", "tx", "held"}, verb : Verb \cup {"none"},
         actor : Actor \cup {None}, item : Item \cup {None},
         bin : Bin \cup {None}, req : RequestId \cup {None},
         at : Nat, seen : Row]

InBin(it) == it.bin # None /\ it.heldBy = None
CheckedOut(it) == it.heldBy # None /\ it.bin = None
Exists(i) == row[i] # NoRow
BinExists(b) == visibility[b] \in Visible

PlacementInBin(b) == [bin |-> b, heldBy |-> None]
PlacementHeldBy(u) == [bin |-> None, heldBy |-> u]

-----------------------------------------------------------------------------
(* Who may see what. *)

CanSeeBin(a, b) ==
  \/ visibility[b] = "public"
  \/ visibility[b] = "private" /\ (a = Creator[b] \/ a \in Admin)

\* A held item has no bin to hide it.
CanSeeItem(a, i) ==
  Exists(i) /\ (~CheckedOut(row[i]) => CanSeeBin(a, row[i].bin))

-----------------------------------------------------------------------------
(* The statements of the repositories. *)

Append1(i, kind, actor, bin, at) ==
  log' = [log EXCEPT ![i] = Append(@, [kind |-> kind, actor |-> actor, bin |-> bin, at |-> at])]

\* Mutant of Move: the clock is read when the statement runs.
MoveAtStatementTime(i, dst, at) ==
  row' = [row EXCEPT ![i] = [bin |-> dst.bin, heldBy |-> dst.heldBy, placedAt |-> clock]]

Move(i, dst, at) ==
  row' = [row EXCEPT ![i] = [bin |-> dst.bin, heldBy |-> dst.heldBy, placedAt |-> at]]

OpenOn(i) == {r \in RequestId : req[r].status = "open" /\ req[r].item = i}

FulfillOpenForItem(i) ==
  req' = [r \in RequestId |->
            IF r \in OpenOn(i) THEN [req[r] EXCEPT !.status = "fulfilled"] ELSE req[r]]

\* Mutant of CancelOpen: the WHERE clause forgets the status.
CancelAnyStatus(r, actor) ==
  /\ req[r].requester = actor
  /\ req' = [req EXCEPT ![r].status = "cancelled"]

CancelOpen(r, actor) ==
  /\ req[r].status = "open" /\ req[r].requester = actor
  /\ req' = [req EXCEPT ![r].status = "cancelled"]

\* Mutant of CascadeToRequests: the foreign key does not cascade.
CascadeNothing(i) == UNCHANGED req

CascadeToRequests(i) ==
  req' = [r \in RequestId |-> IF req[r].item = i THEN NoRequest ELSE req[r]]

InsertRequest(r, i, requester, holder) ==
  /\ req[r] = NoRequest
  /\ \A q \in OpenOn(i) : req[q].requester # requester
  /\ req' = [req EXCEPT ![r] = [status |-> "open", item |-> i, requester |-> requester,
                                holder |-> holder, asked |-> Len(log[i]) + 1]]

-----------------------------------------------------------------------------
(* A request arrives: the pool reads and the guards before the transaction. *)

Start(s, verb, a, i, b, r, seen) ==
  /\ op[s] = Idle /\ verb \in Offered
  /\ op' = [op EXCEPT ![s] = [phase |-> "read", verb |-> verb, actor |-> a, item |-> i,
                              bin |-> b, req |-> r, at |-> 0, seen |-> seen]]
  /\ UNCHANGED <<visibility, row, lock, req, log, clock>>

AddToBin(s, a, i, b) == CanSeeBin(a, b) /\ Start(s, "add", a, i, b, None, NoRow)

\* Mutant of RemoveFromBin: the api key may check out.
RemoveForAnyone(s, a, i) == Start(s, "remove", a, i, None, None, NoRow)

RemoveFromBin(s, a, i) == a \in User /\ Start(s, "remove", a, i, None, None, NoRow)

ReturnToBin(s, a, i, b) == CanSeeBin(a, b) /\ Start(s, "return", a, i, b, None, NoRow)

\* Mutant of RequestReturn: the holder may ask for what he holds.
RequestByAnyone(s, a, i) ==
  /\ a \in User
  /\ CanSeeItem(a, i)
  /\ CheckedOut(row[i])
  /\ Start(s, "request", a, i, None, None, row[i])

RequestReturn(s, a, i) ==
  /\ a \in User
  /\ CanSeeItem(a, i)
  /\ CheckedOut(row[i]) /\ row[i].heldBy # a
  /\ Start(s, "request", a, i, None, None, row[i])

CancelReturnRequest(s, a, i, r) == CanSeeItem(a, i) /\ Start(s, "cancel", a, i, None, r, NoRow)

CreateItem(s, a, b) == a \in User /\ Start(s, "create", a, None, b, None, NoRow)

EditItem(s, a, i) == CanSeeItem(a, i) /\ Start(s, "edit", a, i, None, None, NoRow)

DeleteItem(s, a, i) == CanSeeItem(a, i) /\ Start(s, "delete", a, i, None, None, NoRow)

-----------------------------------------------------------------------------
(* The transaction. *)

Begin(s) ==
  /\ op[s].phase = "read"
  /\ op' = [op EXCEPT ![s].phase = "tx", ![s].at = clock]
  /\ UNCHANGED <<visibility, row, lock, req, log, clock>>

\* Mutant of GetForUpdate: a plain SELECT, which waits for nobody.
GetWithoutLock(s) ==
  LET i == op[s].item
  IN  /\ op[s].phase = "tx"
      /\ i # None /\ Exists(i)
      /\ lock' = [lock EXCEPT ![i] = s]
      /\ op' = [op EXCEPT ![s].phase = "held", ![s].seen = row[i]]
      /\ UNCHANGED <<visibility, row, req, log, clock>>

\* GetForUpdate: waits while another transaction holds the row, then reads
\* what that one committed.
GetForUpdate(s) ==
  LET i == op[s].item
  IN  /\ op[s].phase = "tx"
      /\ i # None /\ lock[i] = None /\ Exists(i)
      /\ lock' = [lock EXCEPT ![i] = s]
      /\ op' = [op EXCEPT ![s].phase = "held", ![s].seen = row[i]]
      /\ UNCHANGED <<visibility, row, req, log, clock>>

EnterBin(s) == op[s].verb = "add" /\ ~InBin(row[op[s].item]) /\ GetForUpdate(s)

\* The bin is read again, through the pool, to label the removed event: a bin
\* the actor may not see fails the whole operation.
CheckOut(s) ==
  /\ op[s].verb = "remove"
  /\ ~CheckedOut(row[op[s].item])
  /\ Exists(op[s].item) => CanSeeBin(op[s].actor, row[op[s].item].bin)
  /\ GetForUpdate(s)

ReturnTo(s) == op[s].verb = "return" /\ CheckedOut(row[op[s].item]) /\ GetForUpdate(s)

LockItem(s) == op[s].verb \in {"edit", "delete"} /\ GetForUpdate(s)

\* COMMIT: the session is free again and its row lock is released.
Release(s) ==
  /\ op' = [op EXCEPT ![s] = Idle]
  /\ lock' = [i \in Item |-> IF lock[i] = s THEN None ELSE lock[i]]

HasRoom(i) == Len(log[i]) < MaxEvents

\* The tail of transition for AddToBin and ReturnToBin.
CommitPut(s) ==
  LET o == op[s]
  IN  /\ o.phase = "held" /\ o.verb \in {"add", "return"} /\ HasRoom(o.item)
      /\ BinExists(o.bin)
      /\ Move(o.item, PlacementInBin(o.bin), o.at)
      /\ Append1(o.item, IF o.verb = "add" THEN "added" ELSE "returned", o.actor, o.bin, o.at)
      /\ IF o.seen.heldBy # None THEN FulfillOpenForItem(o.item) ELSE UNCHANGED req
      /\ Release(s)
      /\ UNCHANGED <<visibility, clock>>

\* Mutant of CommitRemove: the bin is read off the row after the check-out.
CommitRemoveReadingLate(s) ==
  LET o == op[s]
  IN  /\ o.phase = "held" /\ o.verb = "remove" /\ HasRoom(o.item)
      /\ Move(o.item, PlacementHeldBy(o.actor), o.at)
      /\ Append1(o.item, "removed", o.actor, PlacementHeldBy(o.actor).bin, o.at)
      /\ Release(s)
      /\ UNCHANGED <<visibility, req, clock>>

\* The tail of transition for RemoveFromBin: the event keeps the bin left.
CommitRemove(s) ==
  LET o == op[s]
  IN  /\ o.phase = "held" /\ o.verb = "remove" /\ HasRoom(o.item)
      /\ Move(o.item, PlacementHeldBy(o.actor), o.at)
      /\ Append1(o.item, "removed", o.actor, o.seen.bin, o.at)
      /\ Release(s)
      /\ UNCHANGED <<visibility, req, clock>>

\* Edit always writes the row; the event is there only when a field differs.
CommitEdit(s, changed) ==
  LET o == op[s]
  IN  /\ o.phase = "held" /\ o.verb = "edit" /\ HasRoom(o.item)
      /\ IF changed THEN Append1(o.item, "edited", o.actor, None, o.at) ELSE UNCHANGED log
      /\ Release(s)
      /\ UNCHANGED <<visibility, row, req, clock>>

\* Mutant of CommitDelete: the deletion leaves no event.
CommitDeleteSilently(s) ==
  LET o == op[s]
  IN  /\ o.phase = "held" /\ o.verb = "delete"
      /\ row' = [row EXCEPT ![o.item] = NoRow]
      /\ CascadeToRequests(o.item)
      /\ Release(s)
      /\ UNCHANGED <<visibility, log, clock>>

CommitDelete(s) ==
  LET o == op[s]
  IN  /\ o.phase = "held" /\ o.verb = "delete" /\ HasRoom(o.item)
      /\ row' = [row EXCEPT ![o.item] = NoRow]
      /\ CascadeToRequests(o.item)
      /\ Append1(o.item, "deleted", o.actor, None, o.at)
      /\ Release(s)
      /\ UNCHANGED <<visibility, clock>>

\* Create uses a fresh id and does not look at the bin beyond its foreign key.
CommitCreate(s, i) ==
  LET o == op[s]
  IN  /\ o.phase = "tx" /\ o.verb = "create" /\ log[i] = <<>> /\ HasRoom(i)
      /\ BinExists(o.bin)
      /\ Move(i, PlacementInBin(o.bin), o.at)
      /\ Append1(i, "created", o.actor, None, o.at)
      /\ Release(s)
      /\ UNCHANGED <<visibility, req, clock>>

\* The INSERT's foreign key needs the item row, and waits for a FOR UPDATE on
\* it; the holder is the one the unlocked read saw.
CommitRequest(s, r) ==
  LET o == op[s]
  IN  /\ o.phase = "tx" /\ o.verb = "request" /\ HasRoom(o.item)
      /\ Exists(o.item) /\ lock[o.item] = None
      /\ InsertRequest(r, o.item, o.actor, o.seen.heldBy)
      /\ Append1(o.item, "return_requested", o.actor, None, o.at)
      /\ Release(s)
      /\ UNCHANGED <<visibility, row, clock>>

CommitCancel(s) ==
  LET o == op[s]
  IN  /\ o.phase = "tx" /\ o.verb = "cancel" /\ HasRoom(o.item)
      /\ CancelOpen(o.req, o.actor)
      /\ req[o.req].item = o.item
      /\ Append1(o.item, "return_request_cancelled", o.actor, None, o.at)
      /\ Release(s)
      /\ UNCHANGED <<visibility, row, clock>>

\* The deferred Rollback, and every way not to reach Commit.
Rollback(s) ==
  /\ op[s].phase # "idle"
  /\ Release(s)
  /\ UNCHANGED <<visibility, row, req, log, clock>>

-----------------------------------------------------------------------------
(* Bins: one statement each. *)

CreateBin(b, v) ==
  /\ visibility[b] = "unborn"
  /\ visibility' = [visibility EXCEPT ![b] = v]
  /\ UNCHANGED <<row, lock, req, log, clock, op>>

EditBin(a, b, v) ==
  /\ CanSeeBin(a, b)
  /\ visibility' = [visibility EXCEPT ![b] = v]
  /\ UNCHANGED <<row, lock, req, log, clock, op>>

\* Mutant of DeleteBin: the foreign key does not restrict.
DeleteFullBin(a, b) ==
  /\ CanSeeBin(a, b)
  /\ visibility' = [visibility EXCEPT ![b] = "deleted"]
  /\ UNCHANGED <<row, lock, req, log, clock, op>>

\* ON DELETE RESTRICT: a bin some item row names stays.
DeleteBin(a, b) ==
  /\ CanSeeBin(a, b)
  /\ \A i \in Item : row[i].bin # b
  /\ visibility' = [visibility EXCEPT ![b] = "deleted"]
  /\ UNCHANGED <<row, lock, req, log, clock, op>>

Tick ==
  /\ clock < MaxClock
  /\ clock' = clock + 1
  /\ UNCHANGED <<visibility, row, lock, req, log, op>>

-----------------------------------------------------------------------------
Init ==
  /\ visibility = [b \in Bin |-> "unborn"]
  /\ row = [i \in Item |-> NoRow]
  /\ lock = [i \in Item |-> None]
  /\ req = [r \in RequestId |-> NoRequest]
  /\ log = [i \in Item |-> <<>>]
  /\ clock = 0
  /\ op = [s \in Session |-> Idle]

\* A client names an item, a bin or a request by the id the program gave it.
Arrive(s) ==
  \E a \in Actor :
    \/ \E i \in {j \in Item : log[j] # <<>>} :
         \/ RemoveFromBin(s, a, i)
         \/ RequestReturn(s, a, i)
         \/ EditItem(s, a, i)
         \/ DeleteItem(s, a, i)
         \/ \E b \in Bin : AddToBin(s, a, i, b)
         \/ \E b \in Bin : ReturnToBin(s, a, i, b)
         \/ \E r \in {q \in RequestId : req[q] # NoRequest} : CancelReturnRequest(s, a, i, r)
    \/ \E b \in {c \in Bin : visibility[c] # "unborn"} : CreateItem(s, a, b)

Transact(s) ==
  \/ Begin(s)
  \/ EnterBin(s) \/ CheckOut(s) \/ ReturnTo(s) \/ LockItem(s)
  \/ CommitPut(s) \/ CommitRemove(s) \/ CommitDelete(s) \/ CommitCancel(s)
  \/ \E changed \in BOOLEAN : CommitEdit(s, changed)
  \/ \E i \in Item : CommitCreate(s, i)
  \/ \E r \in RequestId : CommitRequest(s, r)
  \/ Rollback(s)

ManageBins ==
  \E b \in Bin :
    \/ \E v \in Visible : CreateBin(b, v)
    \/ \E a \in Actor : DeleteBin(a, b) \/ \E v \in Visible : EditBin(a, b, v)

Next == (\E s \in Session : Arrive(s) \/ Transact(s)) \/ ManageBins \/ Tick

Spec == Init /\ [][Next]_vars

-----------------------------------------------------------------------------
(* Properties. *)

\* Type invariant of the rows, the ledger and the sessions.
TypeOK ==
  /\ visibility \in [Bin -> Visible \cup {"unborn", "deleted"}]
  /\ row \in [Item -> Row]
  /\ lock \in [Item -> Session \cup {None}]
  /\ req \in [RequestId -> Request]
  /\ log \in [Item -> Seq(Event)]
  /\ clock \in Nat
  /\ op \in [Session -> Work]

\* What a session has checked so far; with TypeOK and LockedRowIsStable it is
\* what every commit relies on.
Justified(o) ==
  /\ o.phase # "idle" => o.verb \in Verb /\ o.actor \in Actor
  /\ o.phase # "idle" /\ o.verb # "create" => o.item \in Item
  /\ o.verb \in {"remove", "request", "create"} => o.actor \in User
  /\ o.verb \in {"add", "return", "create"} => o.bin \in Bin
  /\ o.verb = "cancel" => o.req \in RequestId
  /\ o.verb = "request" => CheckedOut(o.seen) /\ o.seen.heldBy # o.actor
  /\ o.phase = "held" =>
       /\ o.verb \in {"add", "remove", "return", "edit", "delete"}
       /\ o.seen # NoRow
       /\ o.verb = "add" => ~InBin(o.seen)
       /\ o.verb = "remove" => ~CheckedOut(o.seen)
       /\ o.verb = "return" => CheckedOut(o.seen)

SessionsJustified == \A s \in Session : Justified(op[s])

\* The row a transaction's guard judged is the row its commit replaces: while a
\* session is past GetForUpdate it alone holds the row, and the row has not
\* moved under it (OperationService: "never produce a partial write").
LockedRowIsStable ==
  \A s \in Session :
    op[s].phase = "held" => lock[op[s].item] = s /\ row[op[s].item] = op[s].seen

\* An item sits only in a bin that is there: the unlocked read of the
\* destination before the transaction, a bin deleted meanwhile, and the delete
\* of a bin an item is about to enter never leave a dangling placement.
PlacedBinExists ==
  \A i \in Item : row[i].bin # None => BinExists(row[i].bin)

IsPlacement(e) == e.kind \in PutKind \cup {"created", "removed"}

IsLastPlacement(i, n) ==
  /\ IsPlacement(log[i][n])
  /\ \A m \in (n + 1)..Len(log[i]) : ~IsPlacement(log[i][m])

Records(e, it) ==
  /\ it.placedAt = e.at
  /\ IF e.kind = "removed" THEN CheckedOut(it) /\ it.heldBy = e.actor ELSE InBin(it)
  /\ e.kind \in PutKind => it.bin = e.bin

\* The audit trail and the item row never disagree (operations.go: "commit or
\* roll back together"): the last placement event of a living item says where
\* it is, with whom and since when, whatever edits and requests came after,
\* and an item without a row was never created or its ledger ends with its
\* deletion.
LedgerMatchesPlacement ==
  \A i \in Item :
    IF Exists(i)
    THEN \E n \in DOMAIN log[i] : IsLastPlacement(i, n) /\ Records(log[i][n], row[i])
    ELSE log[i] = <<>> \/ log[i][Len(log[i])].kind = "deleted"

Follows(e, f) ==
  IF e.kind = "removed" THEN f.kind \in PutKind
  ELSE f.kind = "removed" /\ (e.kind \in PutKind => f.bin = e.bin)

\* The chain of custody: an item's ledger opens with its creation, the placement
\* events after it alternate between leaving a bin and being put into one, an
\* item is taken out of the bin it was last put into, and nothing follows a
\* deletion.  Two sessions that race for the item never both win.
ChainOfCustody ==
  \A i \in Item : \A n \in DOMAIN log[i] :
    /\ (log[i][n].kind = "created") <=> (n = 1)
    /\ log[i][n].kind = "deleted" => n = Len(log[i])
    /\ IsPlacement(log[i][n]) =>
         \A m \in 1..(n - 1) :
           (IsPlacement(log[i][m]) /\ \A k \in (m + 1)..(n - 1) : ~IsPlacement(log[i][k]))
             => Follows(log[i][m], log[i][n])

\* The events after request r was recorded that settle it: the item is put into
\* a bin, or the requester withdraws.
Settling(r) ==
  LET l == log[req[r].item]
  IN  {n \in (req[r].asked + 1)..Len(l) :
         \/ l[n].kind \in PutKind
         \/ l[n].kind = "return_request_cancelled" /\ l[n].actor = req[r].requester}

FirstSettles(r, kinds) ==
  \E n \in Settling(r) :
    (\A m \in Settling(r) : n <= m) /\ log[req[r].item][n].kind \in kinds

\* A return request's status can be read off the ledger: it is open while no
\* event has settled it, fulfilled when the first that does is a put into a
\* bin, and cancelled when it is the requester's own withdrawal.  A lost
\* fulfilment, a cancel that overtakes one, or two open requests of one person
\* on one item each break it.
RequestFateInLedger ==
  \A r \in RequestId :
    /\ req[r].status = "open" => Settling(r) = {}
    /\ req[r].status = "fulfilled" => FirstSettles(r, PutKind)
    /\ req[r].status = "cancelled" => FirstSettles(r, {"return_request_cancelled"})

\* The holder a request names did take the item before it was recorded, and is
\* never the requester, although the row is read without a lock.
HolderTookTheItem ==
  \A r \in RequestId : req[r] # NoRequest =>
    /\ req[r].holder # req[r].requester
    /\ \E n \in 1..(req[r].asked - 1) :
         LET e == log[req[r].item][n]
         IN  e.kind = "removed" /\ e.actor = req[r].holder

Where(i) ==
  IF log[i] = <<>> THEN "unborn"
  ELSE IF row[i].bin # None THEN row[i].bin
  ELSE IF row[i].heldBy # None THEN row[i].heldBy
  ELSE "gone"

Desk == INSTANCE LendingDesk
          WITH Person <- User, Unborn <- "unborn", Gone <- "gone",
               at <- [i \in Item |-> Where(i)],
               wanted <- [i \in Item |-> {req[r].requester : r \in OpenOn(i)}]

\* The concurrent transactions implement the lending desk: whatever the
\* interleaving, each commit is one of its six steps, and a put back answers
\* every open request at once.
ImplementsDesk == Desk!Spec

\* What 00013_return_request.sql says of the snapshot: "the snapshot never goes
\* stale while a request stays open".
HolderSnapshotFresh ==
  \A r \in RequestId :
    req[r].status = "open" => row[req[r].item].heldBy = req[r].holder
=============================================================================
