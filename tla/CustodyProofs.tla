--------------------------- MODULE CustodyProofs ---------------------------
(* Theorems about Custody for any users, items, bins, sessions and requests. *)
EXTENDS Custody, TLAPS

-----------------------------------------------------------------------------
(* Types and what each session has checked. *)

Sound == TypeOK /\ SessionsJustified

\* In the initial state nothing is stored and every session is idle.
LEMMA SoundInit == Init => Sound
<1> SUFFICES ASSUME Init PROVE Sound
  OBVIOUS
<1> USE CustodyAssumption DEF Init
<1>1. NoRow \in Row /\ NoRequest \in Request /\ Idle \in Work
  BY DEF NoRow, Row, NoRequest, Request, Idle, Work
<1>2. TypeOK
  BY <1>1 DEF TypeOK
<1>3. SessionsJustified
  BY DEF SessionsJustified, Justified, Idle
<1> QED
  BY <1>2, <1>3 DEF Sound

\* A request that starts carries the guards of its verb.
LEMMA SoundStart ==
  ASSUME Sound, NEW s \in Session,
         NEW verb \in Verb, NEW a \in Actor, NEW i \in Item \cup {None},
         NEW b \in Bin \cup {None}, NEW r \in RequestId \cup {None}, NEW seen \in Row,
         verb # "create" => i \in Item,
         verb \in {"remove", "request", "create"} => a \in User,
         verb \in {"add", "return", "create"} => b \in Bin,
         verb = "cancel" => r \in RequestId,
         verb = "request" => CheckedOut(seen) /\ seen.heldBy # a,
         Start(s, verb, a, i, b, r, seen)
  PROVE  Sound'
<1> DEFINE o == [phase |-> "read", verb |-> verb, actor |-> a, item |-> i,
                 bin |-> b, req |-> r, at |-> 0, seen |-> seen]
<1>1. op' = [op EXCEPT ![s] = o] /\ UNCHANGED <<visibility, row, lock, req, log, clock>>
  BY DEF Start
<1>2. o \in Work
  BY DEF Work
<1>3. TypeOK'
  BY <1>1, <1>2 DEF Sound, TypeOK
<1>4. Justified(o)
  BY DEF Justified, CheckedOut
<1>5. SessionsJustified'
  <2> SUFFICES ASSUME NEW t \in Session PROVE Justified(op'[t])
    BY DEF SessionsJustified, Justified, CheckedOut, InBin
  <2> QED
    BY <1>1, <1>4 DEF Sound, TypeOK, SessionsJustified
<1> QED
  BY <1>3, <1>5 DEF Sound

\* Every way a request arrives is such a start.
LEMMA SoundArrive ==
  ASSUME Sound, NEW s \in Session, Arrive(s)
  PROVE  Sound'
<1> USE DEF Verb, Actor
<1>0. /\ NoRow \in Row
      /\ \A i \in Item : row[i] \in Row
  BY DEF Sound, TypeOK, NoRow, Row
<1>1. PICK a \in Actor :
        \/ \E i \in Item :
             \/ RemoveFromBin(s, a, i)
             \/ RequestReturn(s, a, i)
             \/ EditItem(s, a, i)
             \/ DeleteItem(s, a, i)
             \/ \E b \in Bin : AddToBin(s, a, i, b) \/ ReturnToBin(s, a, i, b)
             \/ \E r \in RequestId : CancelReturnRequest(s, a, i, r)
        \/ \E b \in Bin : CreateItem(s, a, b)
  BY Zenon DEF Arrive
<1>2. CASE \E i \in Item : RemoveFromBin(s, a, i)
  BY <1>0, <1>2, SoundStart DEF RemoveFromBin
<1>3. CASE \E i \in Item : RequestReturn(s, a, i)
  BY <1>0, <1>3, SoundStart DEF RequestReturn
<1>4. CASE \E i \in Item : EditItem(s, a, i)
  BY <1>0, <1>4, SoundStart DEF EditItem
<1>5. CASE \E i \in Item : DeleteItem(s, a, i)
  BY <1>0, <1>5, SoundStart DEF DeleteItem
<1>6. CASE \E i \in Item, b \in Bin : AddToBin(s, a, i, b) \/ ReturnToBin(s, a, i, b)
  BY <1>0, <1>6, SoundStart DEF AddToBin, ReturnToBin
<1>7. CASE \E i \in Item, r \in RequestId : CancelReturnRequest(s, a, i, r)
  BY <1>0, <1>7, SoundStart DEF CancelReturnRequest
<1>8. CASE \E b \in Bin : CreateItem(s, a, b)
  BY <1>0, <1>8, SoundStart DEF CreateItem
<1> QED
  BY <1>1, <1>2, <1>3, <1>4, <1>5, <1>6, <1>7, <1>8

\* BEGIN and the row lock keep what was checked and add the guard's verdict.
LEMMA SoundLock ==
  ASSUME Sound, NEW s \in Session,
         Begin(s) \/ EnterBin(s) \/ CheckOut(s) \/ ReturnTo(s) \/ LockItem(s)
  PROVE  Sound'
<1> USE DEF Sound, TypeOK
<1>1. CASE Begin(s)
  <2>1. op'[s] = [op[s] EXCEPT !.phase = "tx", !.at = clock]
    BY <1>1 DEF Begin
  <2>2. op'[s] \in Work
    BY <2>1 DEF Work
  <2>3. TypeOK'
    BY <1>1, <2>2 DEF Begin
  <2>4. Justified(op'[s])
    BY <1>1, <2>1 DEF Begin, SessionsJustified, Justified, Work, CheckedOut
  <2>5. \A t \in Session : t # s => op'[t] = op[t]
    BY <1>1 DEF Begin
  <2>6. \A t \in Session : Justified(op'[t])
    BY <2>4, <2>5 DEF SessionsJustified
  <2> QED
    BY <2>3, <2>6 DEF SessionsJustified, Justified, CheckedOut, InBin
<1>2. CASE EnterBin(s) \/ CheckOut(s) \/ ReturnTo(s) \/ LockItem(s)
  <2> DEFINE i == op[s].item
  <2>1. GetForUpdate(s)
    BY <1>2 DEF EnterBin, CheckOut, ReturnTo, LockItem
  <2>2. /\ op[s].phase = "tx" /\ i # None /\ row[i] # NoRow
        /\ lock' = [lock EXCEPT ![i] = s]
        /\ op' = [op EXCEPT ![s].phase = "held", ![s].seen = row[i]]
        /\ UNCHANGED <<visibility, row, req, log, clock>>
    BY <2>1 DEF GetForUpdate, Exists
  <2>3. i \in Item /\ op[s] \in Work /\ row[i] \in Row
    <3>1. op[s] \in Work
      OBVIOUS
    <3>2. i \in Item
      BY <2>2, <3>1 DEF Work
    <3> QED
      BY <3>1, <3>2
  <2>4. op'[s] = [op[s] EXCEPT !.phase = "held", !.seen = row[i]]
    BY <2>2
  <2>5. op'[s] \in Work
    BY <2>3, <2>4 DEF Work
  <2>6. TypeOK'
    BY <2>2, <2>3, <2>5
  <2>7. /\ op[s].verb \in {"add", "remove", "return", "edit", "delete"}
        /\ op[s].verb = "add" => ~InBin(row[i])
        /\ op[s].verb = "remove" => ~CheckedOut(row[i])
        /\ op[s].verb = "return" => CheckedOut(row[i])
    BY <1>2 DEF EnterBin, CheckOut, ReturnTo, LockItem
  <2>8. Justified(op'[s])
    BY <2>2, <2>3, <2>4, <2>7 DEF SessionsJustified, Justified, Work
  <2>9. \A t \in Session : t # s => op'[t] = op[t]
    BY <2>2
  <2>10. \A t \in Session : Justified(op'[t])
    BY <2>8, <2>9 DEF SessionsJustified
  <2> QED
    BY <2>6, <2>10 DEF SessionsJustified, Justified, CheckedOut, InBin
<1> QED
  BY <1>1, <1>2

\* The end of a transaction frees its session and touches no other.
LEMMA SoundRelease ==
  ASSUME Sound, NEW s \in Session, Release(s)
  PROVE  /\ op' \in [Session -> Work]
         /\ lock' \in [Item -> Session \cup {None}]
         /\ SessionsJustified'
<1>1. Idle \in Work
  BY DEF Idle, Work, NoRow, Row
<1>2. op' = [op EXCEPT ![s] = Idle]
  BY DEF Release
<1>3. lock' \in [Item -> Session \cup {None}]
  BY DEF Release, Sound, TypeOK
<1>4. Justified(Idle)
  BY DEF Justified, Idle
<1>5. \A t \in Session : Justified(op'[t])
  BY <1>2, <1>4 DEF Sound, TypeOK, SessionsJustified
<1> QED
  BY <1>1, <1>2, <1>3, <1>5
     DEF Sound, TypeOK, SessionsJustified, Justified, CheckedOut, InBin

Kind == PutKind \cup {"created", "removed", "deleted", "edited",
                      "return_requested", "return_request_cancelled"}

\* Append1 lengthens one ledger by one event and leaves the others.
LEMMA AppendedEvent ==
  ASSUME TypeOK, NEW i \in Item, NEW kind \in Kind, NEW a \in Actor,
         NEW b \in Bin \cup {None}, NEW at \in Nat, Append1(i, kind, a, b, at)
  PROVE  /\ log' \in [Item -> Seq(Event)]
         /\ Len(log'[i]) = Len(log[i]) + 1
         /\ log'[i][Len(log[i]) + 1] = [kind |-> kind, actor |-> a, bin |-> b, at |-> at]
         /\ \A n \in 1..Len(log[i]) : log'[i][n] = log[i][n]
         /\ \A j \in Item : j # i => log'[j] = log[j]
<1> DEFINE e == [kind |-> kind, actor |-> a, bin |-> b, at |-> at]
<1>1. e \in Event
  BY DEF Event, Kind
<1>2. log[i] \in Seq(Event) /\ log \in [Item -> Seq(Event)]
  BY DEF TypeOK
<1>3. log' = [log EXCEPT ![i] = Append(log[i], e)]
  BY DEF Append1
<1> QED
  BY <1>1, <1>2, <1>3

\* Move writes one row, and a row of the right type for a typed placement.
LEMMA MovedRow ==
  ASSUME TypeOK, NEW i \in Item, NEW b \in Bin \cup {None},
         NEW u \in User \cup {None}, NEW at \in Nat,
         Move(i, [bin |-> b, heldBy |-> u], at)
  PROVE  /\ row' \in [Item -> Row]
         /\ row'[i] = [bin |-> b, heldBy |-> u, placedAt |-> at]
         /\ \A j \in Item : j # i => row'[j] = row[j]
BY DEF TypeOK, Move, Row

\* Settling a request changes its status and keeps the rest of its row.
LEMMA SettledRequest ==
  ASSUME NEW q \in Request, NEW st \in {"fulfilled", "cancelled"}
  PROVE  /\ [q EXCEPT !.status = st] \in Request
         /\ [q EXCEPT !.status = st].status = st
         /\ [q EXCEPT !.status = st].item = q.item
         /\ [q EXCEPT !.status = st].requester = q.requester
         /\ [q EXCEPT !.status = st].holder = q.holder
         /\ [q EXCEPT !.status = st].asked = q.asked
BY DEF Request

\* Every commit leaves rows, requests and ledger typed.
LEMMA SoundCommit ==
  ASSUME Sound, NEW s \in Session,
         \/ CommitPut(s) \/ CommitRemove(s) \/ CommitDelete(s) \/ CommitCancel(s)
         \/ \E changed \in BOOLEAN : CommitEdit(s, changed)
         \/ \E i \in Item : CommitCreate(s, i)
         \/ \E r \in RequestId : CommitRequest(s, r)
  PROVE  Sound'
<1> DEFINE o == op[s]
<1>0. /\ o \in Work /\ Justified(o) /\ TypeOK /\ None \notin User
      /\ o.at \in Nat /\ o.seen \in Row
      /\ NoRow \in Row /\ NoRequest \in Request
  <2>1. o \in Work /\ Justified(o) /\ TypeOK
    BY DEF Sound, TypeOK, SessionsJustified
  <2>2. o.at \in Nat /\ o.seen \in Row
    BY <2>1 DEF Work
  <2> QED
    BY <2>1, <2>2, CustodyAssumption DEF NoRow, Row, NoRequest, Request
<1> DEFINE Stored == /\ row' \in [Item -> Row] /\ req' \in [RequestId -> Request]
                     /\ log' \in [Item -> Seq(Event)]
                     /\ UNCHANGED <<visibility, clock>> /\ Release(s)
<1> SUFFICES Stored
  BY <1>0, SoundRelease DEF Sound, TypeOK
<1>1. CASE CommitPut(s)
  <2> DEFINE kind == IF o.verb = "add" THEN "added" ELSE "returned"
  <2>1. o.item \in Item /\ o.bin \in Bin /\ o.actor \in Actor /\ kind \in Kind
    BY <1>0, <1>1 DEF CommitPut, Justified, Kind, PutKind
  <2>2. Move(o.item, [bin |-> o.bin, heldBy |-> None], o.at) /\ Append1(o.item, kind, o.actor, o.bin, o.at)
    BY <1>1 DEF CommitPut, PlacementInBin
  <2>3. row' \in [Item -> Row] /\ log' \in [Item -> Seq(Event)]
    BY <1>0, <2>1, <2>2, MovedRow, AppendedEvent
  <2>4. req' \in [RequestId -> Request]
    <3>1. FulfillOpenForItem(o.item) \/ UNCHANGED req
      BY <1>1 DEF CommitPut
    <3>2. \A r \in RequestId : req[r] \in Request /\ [req[r] EXCEPT !.status = "fulfilled"] \in Request
      BY <1>0, SettledRequest DEF TypeOK
    <3> QED
      BY <1>0, <3>1, <3>2 DEF FulfillOpenForItem, TypeOK
  <2> QED
    BY <1>1, <2>3, <2>4 DEF CommitPut
<1>2. CASE CommitRemove(s)
  <2>1. o.item \in Item /\ o.actor \in User /\ o.actor \in Actor /\ "removed" \in Kind
        /\ o.seen.bin \in Bin \cup {None}
    BY <1>0, <1>2 DEF CommitRemove, Justified, Kind, Actor, Row
  <2>2. Move(o.item, [bin |-> None, heldBy |-> o.actor], o.at)
        /\ Append1(o.item, "removed", o.actor, o.seen.bin, o.at)
    BY <1>2 DEF CommitRemove, PlacementHeldBy
  <2>3. row' \in [Item -> Row] /\ log' \in [Item -> Seq(Event)]
    BY <1>0, <2>1, <2>2, MovedRow, AppendedEvent
  <2> QED
    BY <1>0, <1>2, <2>3 DEF CommitRemove, TypeOK
<1>3. CASE CommitDelete(s)
  <2>1. o.item \in Item /\ o.actor \in Actor /\ "deleted" \in Kind
    BY <1>0, <1>3 DEF CommitDelete, Justified, Kind
  <2>2. Append1(o.item, "deleted", o.actor, None, o.at)
    BY <1>3 DEF CommitDelete
  <2>3. log' \in [Item -> Seq(Event)]
    BY <1>0, <2>1, <2>2, AppendedEvent
  <2>4. row' \in [Item -> Row]
    BY <1>0, <1>3 DEF CommitDelete, TypeOK
  <2>5. req' \in [RequestId -> Request]
    BY <1>0, <1>3 DEF CommitDelete, CascadeToRequests, TypeOK
  <2> QED
    BY <1>3, <2>3, <2>4, <2>5 DEF CommitDelete
<1>4. CASE CommitCancel(s)
  <2>1. o.item \in Item /\ o.actor \in Actor /\ "return_request_cancelled" \in Kind
        /\ o.req \in RequestId
    BY <1>0, <1>4 DEF CommitCancel, Justified, Kind
  <2>2. Append1(o.item, "return_request_cancelled", o.actor, None, o.at)
    BY <1>4 DEF CommitCancel
  <2>3. log' \in [Item -> Seq(Event)]
    BY <1>0, <2>1, <2>2, AppendedEvent
  <2>4. req' \in [RequestId -> Request]
    <3>1. req' = [req EXCEPT ![o.req] = [req[o.req] EXCEPT !.status = "cancelled"]]
      BY <1>4 DEF CommitCancel, CancelOpen
    <3>2. [req[o.req] EXCEPT !.status = "cancelled"] \in Request
      BY <1>0, <2>1, SettledRequest DEF TypeOK
    <3> QED
      BY <1>0, <3>1, <3>2 DEF TypeOK
  <2> QED
    BY <1>0, <1>4, <2>3, <2>4 DEF CommitCancel, TypeOK
<1>5. CASE \E changed \in BOOLEAN : CommitEdit(s, changed)
  <2>1. o.item \in Item /\ o.actor \in Actor /\ "edited" \in Kind
    BY <1>0, <1>5 DEF CommitEdit, Justified, Kind
  <2>2. Append1(o.item, "edited", o.actor, None, o.at) \/ UNCHANGED log
    BY <1>5 DEF CommitEdit
  <2>3. log' \in [Item -> Seq(Event)]
    <3>1. CASE UNCHANGED log
      BY <1>0, <3>1 DEF TypeOK
    <3>2. CASE Append1(o.item, "edited", o.actor, None, o.at)
      BY <1>0, <2>1, <3>2, AppendedEvent
    <3> QED
      BY <2>2, <3>1, <3>2
  <2> QED
    BY <1>0, <1>5, <2>3 DEF CommitEdit, TypeOK
<1>6. CASE \E i \in Item : CommitCreate(s, i)
  <2>1. PICK i \in Item : CommitCreate(s, i)
    BY <1>6
  <2>2. o.bin \in Bin /\ o.actor \in Actor /\ "created" \in Kind
    BY <1>0, <2>1 DEF CommitCreate, Justified, Kind
  <2>3. Move(i, [bin |-> o.bin, heldBy |-> None], o.at)
        /\ Append1(i, "created", o.actor, None, o.at)
    BY <2>1 DEF CommitCreate, PlacementInBin
  <2>4. row' \in [Item -> Row] /\ log' \in [Item -> Seq(Event)]
    BY <1>0, <2>2, <2>3, MovedRow, AppendedEvent
  <2> QED
    BY <1>0, <2>1, <2>4 DEF CommitCreate, TypeOK
<1>7. CASE \E r \in RequestId : CommitRequest(s, r)
  <2>1. PICK r \in RequestId : CommitRequest(s, r)
    BY <1>7
  <2>2. o.item \in Item /\ o.actor \in User /\ o.actor \in Actor /\ "return_requested" \in Kind
        /\ o.seen.heldBy \in User \cup {None} /\ Len(log[o.item]) + 1 \in Nat
    BY <1>0, <2>1 DEF CommitRequest, Justified, Kind, Row, TypeOK, Actor
  <2>3. Append1(o.item, "return_requested", o.actor, None, o.at)
    BY <2>1 DEF CommitRequest
  <2>4. log' \in [Item -> Seq(Event)]
    BY <1>0, <2>2, <2>3, AppendedEvent
  <2>5. req' \in [RequestId -> Request]
    BY <1>0, <2>1, <2>2 DEF CommitRequest, InsertRequest, TypeOK, Request
  <2> QED
    BY <1>0, <2>1, <2>4, <2>5 DEF CommitRequest, TypeOK
<1> QED
  BY <1>1, <1>2, <1>3, <1>4, <1>5, <1>6, <1>7

\* No step of the system loses a type or a checked guard.
LEMMA SoundNext == Sound /\ [Next]_vars => Sound'
<1> SUFFICES ASSUME Sound, [Next]_vars PROVE Sound'
  OBVIOUS
<1>1. CASE UNCHANGED vars
  BY <1>1 DEF vars, Sound, TypeOK, SessionsJustified, Justified, CheckedOut, InBin
<1>2. ASSUME NEW s \in Session, Transact(s) PROVE Sound'
  <2>1. CASE Rollback(s)
    BY <2>1, SoundRelease DEF Rollback, Sound, TypeOK
  <2>2. CASE ~Rollback(s)
    <3>1. \/ Begin(s) \/ EnterBin(s) \/ CheckOut(s) \/ ReturnTo(s) \/ LockItem(s)
          \/ CommitPut(s) \/ CommitRemove(s) \/ CommitDelete(s) \/ CommitCancel(s)
          \/ \E changed \in BOOLEAN : CommitEdit(s, changed)
          \/ \E i \in Item : CommitCreate(s, i)
          \/ \E r \in RequestId : CommitRequest(s, r)
      BY <1>2, <2>2, Zenon DEF Transact
    <3> QED
      BY <3>1, SoundLock, SoundCommit
  <2> QED
    BY <2>1, <2>2
<1>3. CASE ManageBins
  <2>1. /\ visibility' \in [Bin -> Visible \cup {"unborn", "deleted"}]
        /\ UNCHANGED <<row, lock, req, log, clock, op>>
    BY <1>3 DEF ManageBins, CreateBin, EditBin, DeleteBin, Sound, TypeOK, Visible
  <2> QED
    BY <2>1 DEF Sound, TypeOK, SessionsJustified, Justified, CheckedOut, InBin
<1>4. CASE Tick
  <2>1. clock' \in Nat /\ UNCHANGED <<visibility, row, lock, req, log, op>>
    BY <1>4 DEF Tick, Sound, TypeOK
  <2> QED
    BY <2>1 DEF Sound, TypeOK, SessionsJustified, Justified, CheckedOut, InBin
<1> QED
  BY <1>1, <1>2, <1>3, <1>4, SoundArrive DEF Next

\* Every reachable state is typed, and every session carries the guards its verb
\* demands: in particular no commit can place an item with the api key.
THEOREM TypeCorrect == Spec => []TypeOK
<1>1. Sound => TypeOK
  BY DEF Sound
<1> QED
  BY <1>1, SoundInit, SoundNext, PTL DEF Spec

THEOREM SessionsCorrect == Spec => []SessionsJustified
<1>1. Sound => SessionsJustified
  BY DEF Sound
<1> QED
  BY <1>1, SoundInit, SoundNext, PTL DEF Spec

-----------------------------------------------------------------------------
(* Row locks. *)

\* item_placement_exclusive, and an item without events was never inserted.
RowsExclusive ==
  \A i \in Item :
    /\ row[i] = NoRow \/ InBin(row[i]) \/ CheckedOut(row[i])
    /\ log[i] = <<>> => row[i] = NoRow

Locking == LockedRowIsStable /\ RowsExclusive

\* A session that holds a row is the only one that does.
LEMMA HolderIsUnique ==
  ASSUME Locking, NEW s \in Session, NEW t \in Session, s # t,
         op[s].phase = "held", op[t].phase = "held"
  PROVE  op[s].item # op[t].item
BY DEF Locking, LockedRowIsStable

\* A commit by s that rewrites only the row s holds, or one nobody can hold,
\* leaves the other holders' rows alone.
LEMMA CommitKeepsLocks ==
  ASSUME Sound, Locking, NEW s \in Session, NEW i \in Item, Release(s),
         \A j \in Item : j # i => row'[j] = row[j],
         (op[s].phase = "held" /\ op[s].item = i) \/ row[i] = NoRow \/ row'[i] = row[i]
  PROVE  LockedRowIsStable'
<1> SUFFICES ASSUME NEW t \in Session, op'[t].phase = "held"
             PROVE  lock'[op'[t].item] = t /\ row'[op'[t].item] = op'[t].seen
  BY DEF LockedRowIsStable
<1>1. op' = [op EXCEPT ![s] = Idle] /\ op \in [Session -> Work]
  BY DEF Release, Sound, TypeOK
<1>2. t # s /\ op'[t] = op[t]
  BY <1>1 DEF Idle
<1>3. op[t] \in Work /\ Justified(op[t])
  BY <1>1 DEF Sound, SessionsJustified
<1>4. op[t].item \in Item /\ op[t].seen # NoRow
  BY <1>2, <1>3 DEF Justified
<1>5. lock[op[t].item] = t /\ row[op[t].item] = op[t].seen
  BY <1>2 DEF Locking, LockedRowIsStable
<1>6. lock'[op[t].item] = t
  BY <1>2, <1>4, <1>5 DEF Release
<1>7. row'[op[t].item] = row[op[t].item]
  <2>1. CASE op[t].item # i
    BY <1>4, <2>1
  <2>2. CASE op[t].item = i
    BY <1>2, <1>4, <1>5, <2>2, HolderIsUnique
  <2> QED
    BY <2>1, <2>2
<1> QED
  BY <1>2, <1>5, <1>6, <1>7

LEMMA LockingInit == Init => Locking
BY DEF Init, Locking, LockedRowIsStable, RowsExclusive, Idle

\* Taking a lock: the row read is the committed one, and nobody had it.
LEMMA LockingLock ==
  ASSUME Sound, Locking, NEW s \in Session,
         Begin(s) \/ EnterBin(s) \/ CheckOut(s) \/ ReturnTo(s) \/ LockItem(s)
  PROVE  Locking'
<1> SUFFICES LockedRowIsStable'
  <2>1. UNCHANGED <<row, log>>
    BY DEF Begin, EnterBin, CheckOut, ReturnTo, LockItem, GetForUpdate
  <2> QED
    BY <2>1 DEF Locking, RowsExclusive, InBin, CheckedOut
<1> SUFFICES ASSUME NEW t \in Session, op'[t].phase = "held"
             PROVE  lock'[op'[t].item] = t /\ row'[op'[t].item] = op'[t].seen
  BY DEF LockedRowIsStable
<1>0. op \in [Session -> Work] /\ lock \in [Item -> Session \cup {None}] /\ None \notin Session
  BY CustodyAssumption DEF Sound, TypeOK
<1>1. CASE Begin(s)
  <2>1. op'[t] = op[t] /\ UNCHANGED <<lock, row>>
    BY <1>0, <1>1 DEF Begin, Work
  <2> QED
    BY <2>1 DEF Locking, LockedRowIsStable
<1>2. CASE EnterBin(s) \/ CheckOut(s) \/ ReturnTo(s) \/ LockItem(s)
  <2> DEFINE i == op[s].item
  <2>1. GetForUpdate(s)
    BY <1>2 DEF EnterBin, CheckOut, ReturnTo, LockItem
  <2>2. /\ i # None /\ lock[i] = None
        /\ lock' = [lock EXCEPT ![i] = s]
        /\ op' = [op EXCEPT ![s].phase = "held", ![s].seen = row[i]]
        /\ row' = row
    BY <2>1 DEF GetForUpdate
  <2>3. op[s] \in Work
    BY <1>0
  <2>4. i \in Item
    BY <2>2, <2>3 DEF Work
  <2>5. CASE t = s
    <3>1. op'[s] = [op[s] EXCEPT !.phase = "held", !.seen = row[i]]
      BY <1>0, <2>2
    <3>2. op'[s].item = i /\ op'[s].seen = row[i]
      BY <2>3, <3>1 DEF Work
    <3> QED
      BY <1>0, <2>2, <2>4, <2>5, <3>2
  <2>6. CASE t # s
    <3>1. op'[t] = op[t]
      BY <1>0, <2>2, <2>6
    <3>2. lock[op[t].item] = t /\ row[op[t].item] = op[t].seen
      BY <3>1 DEF Locking, LockedRowIsStable
    <3>3. op[t].item # i
      BY <1>0, <2>2, <3>2
    <3> QED
      BY <1>0, <2>2, <3>1, <3>2, <3>3
  <2> QED
    BY <2>5, <2>6
<1> QED
  BY <1>1, <1>2

-----------------------------------------------------------------------------
(* What a step does to the committed rows: nothing, or one of seven changes.  *)

Rewrites(i, it) == row'[i] = it /\ \A j \in Item : j # i => row'[j] = row[j]

Logs(i, e) ==
  /\ log'[i] \in Seq(Event)
  /\ Len(log'[i]) = Len(log[i]) + 1
  /\ log'[i][Len(log[i]) + 1] = e
  /\ \A n \in 1..Len(log[i]) : log'[i][n] = log[i][n]
  /\ \A j \in Item : j # i => log'[j] = log[j]

Quiet == UNCHANGED <<row, req, log>>

IntroduceStep(i) ==
  \E e \in Event, b \in Bin :
    /\ e.kind = "created" /\ log[i] = <<>> /\ BinExists(b)
    /\ Rewrites(i, [bin |-> b, heldBy |-> None, placedAt |-> e.at])
    /\ Logs(i, e) /\ UNCHANGED req

TakeStep(i) ==
  \E e \in Event :
    /\ e.kind = "removed" /\ e.actor \in User
    /\ InBin(row[i]) /\ e.bin = row[i].bin
    /\ Rewrites(i, [bin |-> None, heldBy |-> e.actor, placedAt |-> e.at])
    /\ Logs(i, e) /\ UNCHANGED req

PutStep(i) ==
  \E e \in Event :
    /\ e.kind \in PutKind /\ e.bin \in Bin /\ BinExists(e.bin)
    /\ CheckedOut(row[i])
    /\ Rewrites(i, [bin |-> e.bin, heldBy |-> None, placedAt |-> e.at])
    /\ Logs(i, e) /\ FulfillOpenForItem(i)

EditStep(i) ==
  \E e \in Event :
    /\ e.kind = "edited" /\ row[i] # NoRow
    /\ Logs(i, e) /\ UNCHANGED <<row, req>>

DestroyStep(i) ==
  \E e \in Event :
    /\ e.kind = "deleted" /\ row[i] # NoRow
    /\ Rewrites(i, NoRow)
    /\ Logs(i, e) /\ CascadeToRequests(i)

AskStep(i, r) ==
  \E e \in Event, s \in Session :
    /\ e.kind = "return_requested" /\ e.actor \in User /\ row[i] # NoRow
    /\ op[s].phase = "tx" /\ op[s].verb = "request" /\ op[s].item = i
    /\ op[s].seen.heldBy \in User /\ op[s].seen.heldBy # e.actor
    /\ InsertRequest(r, i, e.actor, op[s].seen.heldBy)
    /\ Logs(i, e) /\ UNCHANGED row

WithdrawStep(i, r) ==
  \E e \in Event :
    /\ e.kind = "return_request_cancelled"
    /\ CancelOpen(r, e.actor) /\ req[r].item = i
    /\ Logs(i, e) /\ UNCHANGED row

LedgerStep ==
  \/ Quiet
  \/ \E i \in Item :
       \/ IntroduceStep(i) \/ TakeStep(i) \/ PutStep(i) \/ EditStep(i) \/ DestroyStep(i)
       \/ \E r \in RequestId : AskStep(i, r) \/ WithdrawStep(i, r)

\* Append1 logs one event.
LEMMA LoggedEvent ==
  ASSUME TypeOK, NEW i \in Item, NEW kind \in Kind, NEW a \in Actor,
         NEW b \in Bin \cup {None}, NEW at \in Nat, Append1(i, kind, a, b, at)
  PROVE  /\ Logs(i, [kind |-> kind, actor |-> a, bin |-> b, at |-> at])
         /\ [kind |-> kind, actor |-> a, bin |-> b, at |-> at] \in Event
<1>1. [kind |-> kind, actor |-> a, bin |-> b, at |-> at] \in Event
  BY DEF Event, Kind
<1>2. log' \in [Item -> Seq(Event)]
  BY AppendedEvent
<1> QED
  BY <1>1, <1>2, AppendedEvent DEF Logs

\* Every commit is one of the seven changes: the guard that ran under the lock
\* still holds of the row it replaces.
LEMMA CommitIsLedgerStep ==
  ASSUME Sound, Locking, NEW s \in Session,
         \/ CommitPut(s) \/ CommitRemove(s) \/ CommitDelete(s) \/ CommitCancel(s)
         \/ \E changed \in BOOLEAN : CommitEdit(s, changed)
         \/ \E i \in Item : CommitCreate(s, i)
         \/ \E r \in RequestId : CommitRequest(s, r)
  PROVE  LedgerStep
<1> DEFINE o == op[s]
<1>0. /\ o \in Work /\ Justified(o) /\ TypeOK /\ None \notin User /\ None \notin Bin
      /\ o.at \in Nat /\ o.seen \in Row
      /\ \A i \in Item : row[i] \in Row
  <2>1. o \in Work /\ Justified(o) /\ TypeOK
    BY DEF Sound, TypeOK, SessionsJustified
  <2>2. o.at \in Nat /\ o.seen \in Row
    BY <2>1 DEF Work
  <2> QED
    BY <2>1, <2>2, CustodyAssumption DEF TypeOK
<1>e. \A k \in Kind, a \in Actor, b \in Bin \cup {None} :
        [kind |-> k, actor |-> a, bin |-> b, at |-> o.at] \in Event
  BY <1>0 DEF Event, Kind
<1>h. ASSUME o.phase = "held"
      PROVE  o.item \in Item /\ o.actor \in Actor /\ row[o.item] = o.seen /\ o.seen # NoRow
             /\ (InBin(o.seen) \/ CheckedOut(o.seen))
  BY <1>0, <1>h DEF Justified, Locking, LockedRowIsStable, RowsExclusive
<1>1. CASE CommitPut(s)
  <2> DEFINE k == IF o.verb = "add" THEN "added" ELSE "returned"
             e == [kind |-> k, actor |-> o.actor, bin |-> o.bin, at |-> o.at]
  <2>1. o.phase = "held" /\ o.verb \in {"add", "return"} /\ BinExists(o.bin)
    BY <1>1 DEF CommitPut
  <2>2. o.bin \in Bin /\ k \in Kind /\ k \in PutKind
    BY <1>0, <2>1 DEF Justified, Kind, PutKind
  <2>3. CheckedOut(row[o.item])
    BY <1>0, <1>h, <2>1 DEF Justified
  <2>4. FulfillOpenForItem(o.item)
    BY <1>1, <1>h, <2>1, <2>3 DEF CommitPut, CheckedOut
  <2>5. Rewrites(o.item, [bin |-> o.bin, heldBy |-> None, placedAt |-> o.at])
    <3>1. Move(o.item, [bin |-> o.bin, heldBy |-> None], o.at)
      BY <1>1 DEF CommitPut, PlacementInBin
    <3> QED
      BY <1>0, <1>h, <2>1, <2>2, <3>1, MovedRow DEF Rewrites
  <2>6. Logs(o.item, e)
    <3>1. Append1(o.item, k, o.actor, o.bin, o.at)
      BY <1>1 DEF CommitPut
    <3> QED
      BY <1>0, <1>h, <2>1, <2>2, <3>1, LoggedEvent
  <2>7. e \in Event /\ e.kind = k /\ e.bin = o.bin /\ e.at = o.at
    BY <1>e, <1>h, <2>1, <2>2
  <2>8. PutStep(o.item)
    BY <2>1, <2>2, <2>3, <2>4, <2>5, <2>6, <2>7 DEF PutStep
  <2> QED
    BY <1>h, <2>1, <2>8 DEF LedgerStep
<1>2. CASE CommitRemove(s)
  <2> DEFINE e == [kind |-> "removed", actor |-> o.actor, bin |-> o.seen.bin, at |-> o.at]
  <2>1. o.phase = "held" /\ o.verb = "remove" /\ UNCHANGED req
    BY <1>2 DEF CommitRemove
  <2>2. o.actor \in User /\ o.seen.bin \in Bin \cup {None} /\ "removed" \in Kind
    BY <1>0, <2>1 DEF Justified, Row, Kind
  <2>3. InBin(row[o.item]) /\ o.seen.bin = row[o.item].bin
    BY <1>0, <1>h, <2>1 DEF Justified
  <2>4. Rewrites(o.item, [bin |-> None, heldBy |-> o.actor, placedAt |-> o.at])
    <3>1. Move(o.item, [bin |-> None, heldBy |-> o.actor], o.at)
      BY <1>2 DEF CommitRemove, PlacementHeldBy
    <3> QED
      BY <1>0, <1>h, <2>1, <2>2, <3>1, MovedRow DEF Rewrites
  <2>5. Logs(o.item, e)
    <3>1. Append1(o.item, "removed", o.actor, o.seen.bin, o.at)
      BY <1>2 DEF CommitRemove
    <3> QED
      BY <1>0, <1>h, <2>1, <2>2, <3>1, LoggedEvent
  <2>6. e \in Event
    BY <1>e, <1>h, <2>1, <2>2
  <2>7. TakeStep(o.item)
    BY <2>1, <2>2, <2>3, <2>4, <2>5, <2>6 DEF TakeStep
  <2> QED
    BY <1>h, <2>1, <2>7 DEF LedgerStep
<1>3. CASE CommitDelete(s)
  <2> DEFINE e == [kind |-> "deleted", actor |-> o.actor, bin |-> None, at |-> o.at]
  <2>1. o.phase = "held" /\ CascadeToRequests(o.item) /\ row' = [row EXCEPT ![o.item] = NoRow]
        /\ Append1(o.item, "deleted", o.actor, None, o.at)
    BY <1>3 DEF CommitDelete
  <2>2. Rewrites(o.item, NoRow)
    BY <1>0, <1>h, <2>1 DEF Rewrites, TypeOK
  <2>3. "deleted" \in Kind
    BY DEF Kind
  <2>4. Logs(o.item, e) /\ e \in Event
    BY <1>0, <1>h, <2>1, <2>3, LoggedEvent
  <2>5. DestroyStep(o.item)
    BY <1>h, <2>1, <2>2, <2>4 DEF DestroyStep
  <2> QED
    BY <1>h, <2>1, <2>5 DEF LedgerStep
<1>4. CASE CommitCancel(s)
  <2> DEFINE e == [kind |-> "return_request_cancelled", actor |-> o.actor, bin |-> None, at |-> o.at]
  <2>1. /\ o.phase = "tx" /\ o.verb = "cancel" /\ CancelOpen(o.req, o.actor)
        /\ req[o.req].item = o.item /\ UNCHANGED row
        /\ Append1(o.item, "return_request_cancelled", o.actor, None, o.at)
    BY <1>4 DEF CommitCancel
  <2>2. o.item \in Item /\ o.actor \in Actor /\ o.req \in RequestId
        /\ "return_request_cancelled" \in Kind
    BY <1>0, <2>1 DEF Justified, Kind
  <2>3. Logs(o.item, e) /\ e \in Event
    BY <1>0, <2>1, <2>2, LoggedEvent
  <2>4. WithdrawStep(o.item, o.req)
    BY <2>1, <2>3 DEF WithdrawStep
  <2> QED
    BY <2>2, <2>4 DEF LedgerStep
<1>5. CASE \E changed \in BOOLEAN : CommitEdit(s, changed)
  <2> DEFINE e == [kind |-> "edited", actor |-> o.actor, bin |-> None, at |-> o.at]
  <2>1. /\ o.phase = "held" /\ UNCHANGED <<row, req>>
        /\ UNCHANGED log \/ Append1(o.item, "edited", o.actor, None, o.at)
    BY <1>5 DEF CommitEdit
  <2>2. CASE UNCHANGED log
    BY <2>1, <2>2 DEF LedgerStep, Quiet
  <2>3. CASE Append1(o.item, "edited", o.actor, None, o.at)
    <3>1. "edited" \in Kind
      BY DEF Kind
    <3>2. Logs(o.item, e) /\ e \in Event
      BY <1>0, <1>h, <2>1, <2>3, <3>1, LoggedEvent
    <3>3. EditStep(o.item)
      BY <1>h, <2>1, <3>2 DEF EditStep
    <3> QED
      BY <1>h, <2>1, <3>3 DEF LedgerStep
  <2> QED
    BY <2>1, <2>2, <2>3
<1>6. CASE \E i \in Item : CommitCreate(s, i)
  <2>1. PICK i \in Item : CommitCreate(s, i)
    BY <1>6
  <2> DEFINE e == [kind |-> "created", actor |-> o.actor, bin |-> None, at |-> o.at]
  <2>2. /\ o.phase = "tx" /\ o.verb = "create" /\ log[i] = <<>> /\ BinExists(o.bin)
        /\ Move(i, [bin |-> o.bin, heldBy |-> None], o.at)
        /\ Append1(i, "created", o.actor, None, o.at) /\ UNCHANGED req
    BY <2>1 DEF CommitCreate, PlacementInBin
  <2>3. o.bin \in Bin /\ o.actor \in Actor /\ "created" \in Kind
    BY <1>0, <2>2 DEF Justified, Kind
  <2>4. Rewrites(i, [bin |-> o.bin, heldBy |-> None, placedAt |-> o.at])
    BY <1>0, <2>2, <2>3, MovedRow DEF Rewrites
  <2>5. Logs(i, e)
    BY <1>0, <2>2, <2>3, LoggedEvent
  <2>6. e \in Event /\ e.kind = "created" /\ e.at = o.at
    BY <1>e, <2>3
  <2>7. IntroduceStep(i)
    BY <2>2, <2>3, <2>4, <2>5, <2>6 DEF IntroduceStep
  <2> QED
    BY <2>7 DEF LedgerStep
<1>7. CASE \E r \in RequestId : CommitRequest(s, r)
  <2>1. PICK r \in RequestId : CommitRequest(s, r)
    BY <1>7
  <2> DEFINE e == [kind |-> "return_requested", actor |-> o.actor, bin |-> None, at |-> o.at]
  <2>2. /\ o.phase = "tx" /\ o.verb = "request" /\ row[o.item] # NoRow /\ UNCHANGED row
        /\ InsertRequest(r, o.item, o.actor, o.seen.heldBy)
        /\ Append1(o.item, "return_requested", o.actor, None, o.at)
    BY <2>1 DEF CommitRequest, Exists
  <2>3. /\ o.item \in Item /\ o.actor \in User /\ o.actor \in Actor
        /\ "return_requested" \in Kind
        /\ o.seen.heldBy \in User /\ o.seen.heldBy # o.actor
    BY <1>0, <2>2 DEF Justified, Kind, CheckedOut, Row
  <2>4. Logs(o.item, e) /\ e \in Event
    BY <1>0, <2>2, <2>3, LoggedEvent
  <2>5. AskStep(o.item, r)
    BY <2>2, <2>3, <2>4 DEF AskStep
  <2> QED
    BY <2>3, <2>5 DEF LedgerStep
<1> QED
  BY <1>1, <1>2, <1>3, <1>4, <1>5, <1>6, <1>7

\* Every step is one of the seven changes or leaves the committed rows alone.
LEMMA NextIsLedgerStep == Sound /\ Locking /\ [Next]_vars => LedgerStep
<1> SUFFICES ASSUME Sound, Locking, [Next]_vars PROVE LedgerStep
  OBVIOUS
<1>1. CASE UNCHANGED vars
  BY <1>1 DEF vars, LedgerStep, Quiet
<1>2. ASSUME NEW s \in Session, Arrive(s) PROVE Quiet
  BY <1>2 DEF Arrive, AddToBin, RemoveFromBin, ReturnToBin, RequestReturn, CancelReturnRequest,
              CreateItem, EditItem, DeleteItem, Start, Quiet
<1>3. ASSUME NEW s \in Session, Transact(s) PROVE LedgerStep
  <2>1. CASE Rollback(s) \/ Begin(s) \/ EnterBin(s) \/ CheckOut(s) \/ ReturnTo(s) \/ LockItem(s)
    BY <2>1 DEF Rollback, Begin, EnterBin, CheckOut, ReturnTo, LockItem, GetForUpdate,
                Quiet, LedgerStep
  <2>2. CASE ~(Rollback(s) \/ Begin(s) \/ EnterBin(s) \/ CheckOut(s) \/ ReturnTo(s) \/ LockItem(s))
    <3>1. \/ CommitPut(s) \/ CommitRemove(s) \/ CommitDelete(s) \/ CommitCancel(s)
          \/ \E changed \in BOOLEAN : CommitEdit(s, changed)
          \/ \E i \in Item : CommitCreate(s, i)
          \/ \E r \in RequestId : CommitRequest(s, r)
      BY <1>3, <2>2, Zenon DEF Transact
    <3> QED
      BY <3>1, CommitIsLedgerStep
  <2> QED
    BY <2>1, <2>2
<1>4. CASE ManageBins \/ Tick
  BY <1>4 DEF ManageBins, CreateBin, EditBin, DeleteBin, Tick, LedgerStep, Quiet
<1> QED
  BY <1>1, <1>2, <1>3, <1>4 DEF Next, LedgerStep

\* Rows stay exclusive, whichever change happens.
LEMMA RowsStayExclusive ==
  ASSUME TypeOK, RowsExclusive, LedgerStep
  PROVE  RowsExclusive'
<1> SUFFICES ASSUME NEW j \in Item
             PROVE  /\ row'[j] = NoRow \/ InBin(row'[j]) \/ CheckedOut(row'[j])
                    /\ log'[j] = <<>> => row'[j] = NoRow
  BY DEF RowsExclusive, InBin, CheckedOut
<1>0. /\ row[j] = NoRow \/ InBin(row[j]) \/ CheckedOut(row[j])
      /\ log[j] = <<>> => row[j] = NoRow
      /\ \A i \in Item : log[i] \in Seq(Event)
      /\ None \notin Bin /\ None \notin User
  BY CustodyAssumption DEF RowsExclusive, TypeOK
<1>1. \A i \in Item, e \in Event : Logs(i, e) => log'[i] # <<>> /\ (j # i => log'[j] = log[j])
  BY DEF Logs, TypeOK
<1>2. CASE Quiet
  BY <1>0, <1>2 DEF Quiet
<1>3. ASSUME NEW i \in Item, IntroduceStep(i) \/ TakeStep(i) \/ PutStep(i) \/ DestroyStep(i)
      PROVE  /\ row'[i] = NoRow \/ InBin(row'[i]) \/ CheckedOut(row'[i])
             /\ log'[i] # <<>>
             /\ j # i => row'[j] = row[j] /\ log'[j] = log[j]
  <2>1. CASE IntroduceStep(i)
    BY <1>0, <1>1, <2>1 DEF IntroduceStep, Rewrites, InBin
  <2>2. CASE TakeStep(i)
    BY <1>0, <1>1, <2>2 DEF TakeStep, Rewrites, CheckedOut
  <2>3. CASE PutStep(i)
    BY <1>0, <1>1, <2>3 DEF PutStep, Rewrites, InBin
  <2>4. CASE DestroyStep(i)
    BY <1>0, <1>1, <2>4 DEF DestroyStep, Rewrites
  <2> QED
    BY <1>3, <2>1, <2>2, <2>3, <2>4
<1>4. ASSUME NEW i \in Item, NEW r \in RequestId,
             EditStep(i) \/ AskStep(i, r) \/ WithdrawStep(i, r)
      PROVE  row' = row /\ log'[i] # <<>> /\ (j # i => log'[j] = log[j])
  BY <1>1, <1>4 DEF EditStep, AskStep, WithdrawStep
<1>5. ASSUME NEW i \in Item, EditStep(i)
      PROVE  row' = row /\ log'[i] # <<>> /\ (j # i => log'[j] = log[j])
  BY <1>1, <1>5 DEF EditStep
<1> QED
  BY <1>0, <1>2, <1>3, <1>4, <1>5 DEF LedgerStep

\* A commit replaces only the row its session holds.
LEMMA LockingNext == Sound /\ Locking /\ [Next]_vars => Locking'
<1> SUFFICES ASSUME Sound, Locking, [Next]_vars PROVE LockedRowIsStable'
  BY NextIsLedgerStep, RowsStayExclusive DEF Sound, Locking
<1>0. op \in [Session -> Work] /\ row \in [Item -> Row]
  BY DEF Sound, TypeOK
<1>1. CASE UNCHANGED vars \/ ManageBins \/ Tick
  <2>1. UNCHANGED <<op, lock, row>>
    BY <1>1 DEF vars, ManageBins, CreateBin, EditBin, DeleteBin, Tick
  <2> QED
    BY <2>1 DEF Locking, LockedRowIsStable
<1>2. ASSUME NEW s \in Session, Arrive(s) PROVE LockedRowIsStable'
  <2>1. \E o : o.phase = "read" /\ op' = [op EXCEPT ![s] = o] /\ UNCHANGED <<lock, row>>
    BY <1>2 DEF Arrive, AddToBin, RemoveFromBin, ReturnToBin, RequestReturn, CancelReturnRequest,
                CreateItem, EditItem, DeleteItem, Start
  <2>2. \A t \in Session : op'[t].phase = "held" => op'[t] = op[t]
    BY <1>0, <2>1
  <2> QED
    BY <2>1, <2>2 DEF Locking, LockedRowIsStable
<1>3. ASSUME NEW s \in Session, Transact(s) PROVE LockedRowIsStable'
  <2> DEFINE o == op[s]
  <2>0. o \in Work /\ Justified(o)
    BY <1>0 DEF Sound, SessionsJustified
  <2>1. CASE Begin(s) \/ EnterBin(s) \/ CheckOut(s) \/ ReturnTo(s) \/ LockItem(s)
    BY <2>1, LockingLock DEF Locking
  <2>2. ASSUME o.phase = "held" PROVE o.item \in Item
    BY <2>0, <2>2 DEF Justified
  <2>3. CASE CommitPut(s) \/ CommitRemove(s) \/ CommitDelete(s)
    <3>1. o.phase = "held" /\ Release(s)
      BY <2>3 DEF CommitPut, CommitRemove, CommitDelete
    <3>2. \A j \in Item : j # o.item => row'[j] = row[j]
      BY <1>0, <2>2, <2>3, <3>1 DEF CommitPut, CommitRemove, CommitDelete, Move
    <3> QED
      BY <2>2, <3>1, <3>2, CommitKeepsLocks
  <2>4. ASSUME NEW i \in Item, CommitCreate(s, i) PROVE LockedRowIsStable'
    <3>1. row[i] = NoRow /\ Release(s)
      BY <2>4 DEF CommitCreate, Locking, RowsExclusive
    <3>2. \A j \in Item : j # i => row'[j] = row[j]
      BY <1>0, <2>4 DEF CommitCreate, Move
    <3> QED
      BY <3>1, <3>2, CommitKeepsLocks
  <2>5. ASSUME row' = row, Release(s) PROVE LockedRowIsStable'
    <3>1. CASE Item = {}
      <4>1. \A t \in Session : op'[t].phase # "held"
        BY <1>0, <2>5, <3>1 DEF Release, Idle, Sound, SessionsJustified, Justified
      <4> QED
        BY <4>1 DEF LockedRowIsStable
    <3>2. ASSUME NEW i \in Item PROVE LockedRowIsStable'
      BY <2>5, CommitKeepsLocks
    <3> QED
      BY <3>1, <3>2
  <2>6. CASE \/ Rollback(s) \/ CommitCancel(s)
             \/ \E changed \in BOOLEAN : CommitEdit(s, changed)
             \/ \E r \in RequestId : CommitRequest(s, r)
    BY <2>5, <2>6 DEF Rollback, CommitCancel, CommitEdit, CommitRequest
  <2> QED
    BY <1>3, <2>1, <2>3, <2>4, <2>6 DEF Transact
<1> QED
  BY <1>1, <1>2, <1>3 DEF Next

\* The row a guard judged under FOR UPDATE is the row its commit replaces.
THEOREM LockedRowsAreStable == Spec => []LockedRowIsStable
<1>1. Sound /\ Locking => LockedRowIsStable
  BY DEF Locking
<1> QED
  BY <1>1, SoundInit, SoundNext, LockingInit, LockingNext, PTL DEF Spec

-----------------------------------------------------------------------------
(* Requests and their items. *)

\* A request row names a living item and the event it was recorded with
\* (return_request_item_id_fkey, ON DELETE CASCADE), and nobody has two open
\* requests on one item (return_request_open_uniq).
RequestsPlaced ==
  \A r \in RequestId : req[r] # NoRequest =>
    /\ req[r].status # "none"
    /\ req[r].item \in Item /\ row[req[r].item] # NoRow
    /\ req[r].requester \in User
    /\ req[r].asked \in 1..Len(log[req[r].item])

OneOpenEach ==
  \A r, q \in RequestId :
    r # q /\ req[r].status = "open" /\ req[q].status = "open" /\ req[r].item = req[q].item
      => req[r].requester # req[q].requester

Lending == RequestsPlaced /\ OneOpenEach

LEMMA LendingInit == Init => Lending
BY DEF Init, Lending, RequestsPlaced, OneOpenEach, NoRequest

\* A row is there after a step when it was there before, unless it was destroyed.
LEMMA LendingStep ==
  ASSUME TypeOK, Lending, LedgerStep
  PROVE  Lending'
<1> USE CustodyAssumption
<1>0. /\ \A r \in RequestId : req[r] \in Request
      /\ \A i \in Item : Len(log[i]) \in Nat
      /\ NoRequest.status = "none" /\ NoRow.bin = None /\ NoRow.heldBy = None
  BY DEF TypeOK, NoRequest, NoRow
<1>1. CASE Quiet
  BY <1>1 DEF Quiet, Lending, RequestsPlaced, OneOpenEach
<1>2. ASSUME NEW i \in Item, NEW e \in Event, Logs(i, e),
             req' = req, row' = row \/ (row'[i] # NoRow /\ \A j \in Item : j # i => row'[j] = row[j])
      PROVE  Lending'
  BY <1>0, <1>2 DEF Lending, RequestsPlaced, OneOpenEach, Logs
<1>3. ASSUME NEW i \in Item, IntroduceStep(i) \/ TakeStep(i) \/ EditStep(i) PROVE Lending'
  <2>1. CASE IntroduceStep(i)
    BY <1>0, <1>2, <2>1 DEF IntroduceStep, Rewrites
  <2>2. CASE TakeStep(i)
    BY <1>0, <1>2, <2>2 DEF TakeStep, Rewrites
  <2>3. CASE EditStep(i)
    BY <1>2, <2>3 DEF EditStep
  <2> QED
    BY <1>3, <2>1, <2>2, <2>3
<1>4. ASSUME NEW i \in Item, PutStep(i) PROVE Lending'
  <2>1. PICK e \in Event : /\ Logs(i, e) /\ FulfillOpenForItem(i) /\ row'[i] # NoRow
                           /\ \A j \in Item : j # i => row'[j] = row[j]
    BY <1>0, <1>4 DEF PutStep, Rewrites
  <2>2. \A r \in RequestId :
          \/ req'[r] = req[r]
          \/ req[r].status = "open" /\ req'[r] = [req[r] EXCEPT !.status = "fulfilled"]
    BY <2>1 DEF FulfillOpenForItem, OpenOn
  <2>3. ASSUME NEW r \in RequestId
        PROVE  /\ req'[r].item = req[r].item /\ req'[r].requester = req[r].requester
               /\ req'[r].asked = req[r].asked
               /\ req'[r].status = "open" => req[r].status = "open"
               /\ req'[r].status = req[r].status \/ req'[r].status = "fulfilled"
               /\ req'[r] # NoRequest => req[r] # NoRequest
    <3>1. CASE req'[r] = req[r]
      BY <3>1
    <3>2. CASE req[r].status = "open" /\ req'[r] = [req[r] EXCEPT !.status = "fulfilled"]
      <4>1. req[r] # NoRequest
        BY <1>0, <3>2
      <4> QED
        BY <1>0, <3>2, <4>1, SettledRequest
    <3> QED
      BY <2>2, <3>1, <3>2
  <2>4. RequestsPlaced'
    BY <1>0, <2>1, <2>3 DEF Lending, RequestsPlaced, Logs
  <2> QED
    BY <2>3, <2>4 DEF Lending, OneOpenEach
<1>5. ASSUME NEW i \in Item, DestroyStep(i) PROVE Lending'
  <2>1. PICK e \in Event : /\ Logs(i, e) /\ CascadeToRequests(i)
                           /\ \A j \in Item : j # i => row'[j] = row[j]
    BY <1>5 DEF DestroyStep, Rewrites
  <2>2. \A r \in RequestId : req'[r] = NoRequest \/ (req'[r] = req[r] /\ req[r].item # i)
    BY <2>1 DEF CascadeToRequests
  <2>3. RequestsPlaced'
    BY <1>0, <2>1, <2>2 DEF Lending, RequestsPlaced, Logs
  <2> QED
    BY <1>0, <2>2, <2>3 DEF Lending, OneOpenEach
<1>6. ASSUME NEW i \in Item, NEW r \in RequestId, AskStep(i, r) PROVE Lending'
  <2>1. PICK e \in Event, s \in Session :
          /\ e.actor \in User /\ row[i] # NoRow
          /\ InsertRequest(r, i, e.actor, op[s].seen.heldBy)
          /\ Logs(i, e) /\ row' = row
    BY <1>6 DEF AskStep
  <2>2. /\ req'[r] = [status |-> "open", item |-> i, requester |-> e.actor,
                      holder |-> op[s].seen.heldBy, asked |-> Len(log[i]) + 1]
        /\ \A q \in RequestId : q # r => req'[q] = req[q]
        /\ req[r] = NoRequest
    BY <2>1 DEF InsertRequest, TypeOK
  <2>3. \A q \in RequestId : req[q].status = "open" /\ req[q].item = i => req[q].requester # e.actor
    BY <2>1 DEF InsertRequest, OpenOn
  <2>4. ASSUME NEW q \in RequestId, q # r, req'[q] # NoRequest
        PROVE  /\ req'[q].status # "none"
               /\ req'[q].item \in Item /\ row'[req'[q].item] # NoRow
               /\ req'[q].requester \in User
               /\ req'[q].asked \in 1..Len(log'[req'[q].item])
    <3>1. req'[q] = req[q]
      BY <2>2, <2>4
    <3>2. /\ req[q].status # "none"
          /\ req[q].item \in Item /\ row[req[q].item] # NoRow
          /\ req[q].requester \in User
          /\ req[q].asked \in 1..Len(log[req[q].item])
      BY <2>4, <3>1 DEF Lending, RequestsPlaced
    <3>3. Len(log'[req[q].item]) \in {Len(log[req[q].item]), Len(log[req[q].item]) + 1}
      BY <2>1, <3>2 DEF Logs
    <3> QED
      BY <1>0, <2>1, <3>1, <3>2, <3>3
  <2>5. /\ req'[r].status # "none"
        /\ req'[r].item \in Item /\ row'[req'[r].item] # NoRow
        /\ req'[r].requester \in User
        /\ req'[r].asked \in 1..Len(log'[req'[r].item])
    BY <1>0, <2>1, <2>2 DEF Logs
  <2>6. RequestsPlaced'
    BY <2>4, <2>5 DEF RequestsPlaced
  <2> QED
    BY <2>2, <2>3, <2>6 DEF Lending, OneOpenEach
<1>7. ASSUME NEW i \in Item, NEW r \in RequestId, WithdrawStep(i, r) PROVE Lending'
  <2>1. PICK e \in Event : CancelOpen(r, e.actor) /\ Logs(i, e) /\ row' = row
    BY <1>7 DEF WithdrawStep
  <2>2. /\ req[r].status = "open" /\ req'[r] = [req[r] EXCEPT !.status = "cancelled"]
        /\ \A q \in RequestId : q # r => req'[q] = req[q]
    BY <2>1 DEF CancelOpen, TypeOK
  <2>3. /\ req'[r].item = req[r].item /\ req'[r].requester = req[r].requester
        /\ req'[r].asked = req[r].asked /\ req'[r].status = "cancelled"
        /\ req[r] # NoRequest
    BY <1>0, <2>2, SettledRequest
  <2>4. ASSUME NEW q \in RequestId, req'[q] # NoRequest
        PROVE  /\ req[q] # NoRequest
               /\ req'[q].status # "none" \/ req'[q].status = req[q].status
               /\ req'[q].item = req[q].item /\ req'[q].requester = req[q].requester
               /\ req'[q].asked = req[q].asked
    BY <2>2, <2>3, <2>4
  <2>5. RequestsPlaced'
    BY <1>0, <2>1, <2>4 DEF Lending, RequestsPlaced, Logs
  <2>6. \A q \in RequestId : req'[q].status = "open" => q # r /\ req'[q] = req[q]
    BY <2>2, <2>3
  <2> QED
    BY <2>5, <2>6 DEF Lending, OneOpenEach
<1> QED
  BY <1>1, <1>3, <1>4, <1>5, <1>6, <1>7 DEF LedgerStep

-----------------------------------------------------------------------------
(* The ledger and the rows. *)

LEMMA LedgerInit == Init => LedgerMatchesPlacement
BY DEF Init, LedgerMatchesPlacement, Exists

\* The last placement event of a ledger stays the last one under an event of
\* another kind, and a new placement event becomes it.
LEMMA LastPlacementAfter ==
  ASSUME TypeOK, NEW i \in Item, NEW e \in Event, Logs(i, e)
  PROVE  /\ IsPlacement(e) => \A n \in Nat : n = Len(log[i]) + 1 => IsLastPlacement(i, n)'
         /\ ~IsPlacement(e) =>
              \A n \in DOMAIN log[i] : IsLastPlacement(i, n) => IsLastPlacement(i, n)'
         /\ DOMAIN log'[i] = 1..(Len(log[i]) + 1)
         /\ DOMAIN log[i] = 1..Len(log[i])
<1>1. Len(log[i]) \in Nat /\ DOMAIN log[i] = 1..Len(log[i])
  BY DEF TypeOK
<1>2. /\ Len(log'[i]) = Len(log[i]) + 1 /\ log'[i][Len(log[i]) + 1] = e
      /\ \A n \in 1..Len(log[i]) : log'[i][n] = log[i][n]
  BY DEF Logs
<1>3. DOMAIN log'[i] = 1..(Len(log[i]) + 1)
  BY <1>1, <1>2 DEF Logs
<1>4. ASSUME IsPlacement(e), NEW n \in Nat, n = Len(log[i]) + 1
      PROVE  IsLastPlacement(i, n)'
  BY <1>1, <1>2, <1>4 DEF IsLastPlacement
<1>5. ASSUME ~IsPlacement(e), NEW n \in DOMAIN log[i], IsLastPlacement(i, n)
      PROVE  IsLastPlacement(i, n)'
  <2>1. log'[i][n] = log[i][n] /\ n \in 1..Len(log[i])
    BY <1>1, <1>2
  <2>2. ASSUME NEW m \in (n + 1)..(Len(log[i]) + 1) PROVE ~IsPlacement(log'[i][m])
    BY <1>1, <1>2, <1>5, <2>1 DEF IsLastPlacement
  <2> QED
    BY <1>2, <1>5, <2>1, <2>2 DEF IsLastPlacement
<1> QED
  BY <1>1, <1>3, <1>4, <1>5
\* What LedgerMatchesPlacement says of one item.
Matches(i) ==
  IF row[i] # NoRow
  THEN \E n \in DOMAIN log[i] : IsLastPlacement(i, n) /\ Records(log[i][n], row[i])
  ELSE log[i] = <<>> \/ log[i][Len(log[i])].kind = "deleted"

\* A new placement event records the row it is written with.
LEMMA PlacementRecorded ==
  ASSUME TypeOK, NEW i \in Item, NEW e \in Event, Logs(i, e), IsPlacement(e),
         row'[i] # NoRow, Records(e, row'[i])
  PROVE  Matches(i)'
<1>1. PICK n \in Nat : n = Len(log[i]) + 1
  BY DEF TypeOK
<1>2. n \in DOMAIN log'[i] /\ IsLastPlacement(i, n)'
  <2>1. IsLastPlacement(i, n)'
    BY <1>1, LastPlacementAfter
  <2>2. DOMAIN log'[i] = 1..n /\ n \in 1..n
    <3>1. Len(log[i]) \in Nat
      BY DEF TypeOK
    <3> QED
      BY <1>1, <3>1, LastPlacementAfter
  <2> QED
    BY <2>1, <2>2
<1>3. log'[i][n] = e
  BY <1>1 DEF Logs
<1> QED
  BY <1>2, <1>3 DEF Matches, Records, InBin, CheckedOut

\* An event of another kind leaves a matching item matching.
LEMMA OtherEventKeepsMatch ==
  ASSUME TypeOK, NEW i \in Item, NEW e \in Event, Logs(i, e), ~IsPlacement(e),
         row[i] # NoRow, row'[i] = row[i], Matches(i)
  PROVE  Matches(i)'
<1>1. PICK n \in DOMAIN log[i] : IsLastPlacement(i, n) /\ Records(log[i][n], row[i])
  BY DEF Matches
<1>2. n \in DOMAIN log'[i] /\ IsLastPlacement(i, n)' /\ n \in 1..Len(log[i])
  <2>1. IsLastPlacement(i, n)'
    BY <1>1, LastPlacementAfter
  <2>2. DOMAIN log'[i] = 1..(Len(log[i]) + 1) /\ DOMAIN log[i] = 1..Len(log[i])
    BY LastPlacementAfter
  <2>3. Len(log[i]) \in Nat
    BY DEF TypeOK
  <2> QED
    BY <1>1, <2>1, <2>2, <2>3
<1>3. log'[i][n] = log[i][n]
  BY <1>2 DEF Logs
<1> QED
  BY <1>1, <1>2, <1>3 DEF Matches, Records, InBin, CheckedOut

\* No change makes the ledger and the row of an item disagree.
LEMMA LedgerStepMatches ==
  ASSUME TypeOK, Lending, LedgerMatchesPlacement, LedgerStep
  PROVE  LedgerMatchesPlacement'
<1> SUFFICES ASSUME NEW j \in Item PROVE Matches(j)'
  BY DEF LedgerMatchesPlacement, Matches, Exists, Records, InBin, CheckedOut
<1>0. Matches(j) /\ None \notin Bin /\ None \notin User
  BY CustodyAssumption DEF LedgerMatchesPlacement, Matches, Exists
<1>1. ASSUME row'[j] = row[j], log'[j] = log[j] PROVE Matches(j)'
  BY <1>0, <1>1 DEF Matches, Records, IsLastPlacement, InBin, CheckedOut
<1>2. CASE Quiet
  BY <1>1, <1>2 DEF Quiet
<1>3. CASE \E i \in Item : IntroduceStep(i)
  <2>1. PICK i \in Item, e \in Event, b \in Bin :
          /\ e.kind = "created" /\ Logs(i, e)
          /\ Rewrites(i, [bin |-> b, heldBy |-> None, placedAt |-> e.at])
    BY <1>3 DEF IntroduceStep
  <2>2. CASE j = i
    <3>1. row'[i] # NoRow /\ Records(e, row'[i]) /\ IsPlacement(e)
      BY <1>0, <2>1 DEF Rewrites, NoRow, Records, InBin, PutKind, IsPlacement
    <3> QED
      BY <2>1, <2>2, <3>1, PlacementRecorded
  <2> QED
    BY <1>1, <2>1, <2>2 DEF Rewrites, Logs
<1>4. CASE \E i \in Item : TakeStep(i)
  <2>1. PICK i \in Item, e \in Event :
          /\ e.kind = "removed" /\ e.actor \in User /\ Logs(i, e)
          /\ Rewrites(i, [bin |-> None, heldBy |-> e.actor, placedAt |-> e.at])
    BY <1>4 DEF TakeStep
  <2>2. CASE j = i
    <3>1. row'[i] # NoRow /\ Records(e, row'[i]) /\ IsPlacement(e)
      BY <1>0, <2>1 DEF Rewrites, NoRow, Records, CheckedOut, PutKind, IsPlacement
    <3> QED
      BY <2>1, <2>2, <3>1, PlacementRecorded
  <2> QED
    BY <1>1, <2>1, <2>2 DEF Rewrites, Logs
<1>5. CASE \E i \in Item : PutStep(i)
  <2>1. PICK i \in Item, e \in Event :
          /\ e.kind \in PutKind /\ e.bin \in Bin /\ Logs(i, e)
          /\ Rewrites(i, [bin |-> e.bin, heldBy |-> None, placedAt |-> e.at])
    BY <1>5 DEF PutStep
  <2>2. CASE j = i
    <3>1. row'[i] # NoRow /\ Records(e, row'[i]) /\ IsPlacement(e)
      BY <1>0, <2>1 DEF Rewrites, NoRow, Records, InBin, PutKind, IsPlacement
    <3> QED
      BY <2>1, <2>2, <3>1, PlacementRecorded
  <2> QED
    BY <1>1, <2>1, <2>2 DEF Rewrites, Logs
<1>6. CASE \E i \in Item : DestroyStep(i)
  <2>1. PICK i \in Item, e \in Event :
          e.kind = "deleted" /\ Logs(i, e) /\ Rewrites(i, NoRow)
    BY <1>6 DEF DestroyStep
  <2>2. CASE j = i
    <3>1. log'[i][Len(log'[i])].kind = "deleted" /\ row'[i] = NoRow
      BY <2>1 DEF Logs, Rewrites
    <3> QED
      BY <2>2, <3>1 DEF Matches
  <2> QED
    BY <1>1, <2>1, <2>2 DEF Rewrites, Logs
<1>7. ASSUME NEW i \in Item, NEW e \in Event, Logs(i, e), ~IsPlacement(e),
             row[i] # NoRow, row' = row
      PROVE  Matches(j)'
  <2>1. CASE j = i
    BY <1>0, <1>7, <2>1, OtherEventKeepsMatch
  <2> QED
    BY <1>1, <1>7, <2>1 DEF Logs
<1>8. CASE \E i \in Item : EditStep(i)
  BY <1>7, <1>8 DEF EditStep, IsPlacement, PutKind
<1>9. CASE \E i \in Item, r \in RequestId : AskStep(i, r)
  BY <1>7, <1>9 DEF AskStep, IsPlacement, PutKind
<1>10. CASE \E i \in Item, r \in RequestId : WithdrawStep(i, r)
  <2>1. PICK i \in Item, r \in RequestId, e \in Event :
          /\ e.kind = "return_request_cancelled" /\ Logs(i, e) /\ row' = row
          /\ req[r].status = "open" /\ req[r].item = i
    BY <1>10 DEF WithdrawStep, CancelOpen
  <2>2. row[i] # NoRow
    BY <2>1 DEF Lending, RequestsPlaced, NoRequest
  <2> QED
    BY <1>7, <2>1, <2>2 DEF IsPlacement, PutKind
<1> QED
  BY <1>2, <1>3, <1>4, <1>5, <1>6, <1>8, <1>9, <1>10 DEF LedgerStep

\* The inductive invariant of the ledger: typed, locked, every request on a
\* living item, and the ledger agreeing with the rows.
Kept == Sound /\ Locking /\ Lending /\ LedgerMatchesPlacement

LEMMA KeptInit == Init => Kept
BY SoundInit, LockingInit, LendingInit, LedgerInit DEF Kept

LEMMA KeptNext == Kept /\ [Next]_vars => Kept'
<1> SUFFICES ASSUME Kept, [Next]_vars PROVE Kept'
  OBVIOUS
<1>1. LedgerStep /\ TypeOK
  BY NextIsLedgerStep DEF Kept, Sound
<1> QED
  BY <1>1, SoundNext, LockingNext, LendingStep, LedgerStepMatches DEF Kept

\* The last placement event of every living item says where it is, with whom
\* and since when: row and ledger commit or roll back together.
THEOREM LedgerAndRowsAgree == Spec => []LedgerMatchesPlacement
<1>1. Kept => LedgerMatchesPlacement
  BY DEF Kept
<1> QED
  BY <1>1, KeptInit, KeptNext, PTL DEF Spec
=============================================================================
