---------------------------- MODULE LedgerProofs ----------------------------
(* What the ledger of Custody tells of items and return requests, and that  *)
(* Custody implements LendingDesk, for any users, items, bins and sessions. *)
(* The steps of the system are the seven changes of CustodyProofs.          *)
EXTENDS CustodyProofs

-----------------------------------------------------------------------------
(* Ledgers only grow. *)

\* An event once written stays where it is.
LEMMA LedgersGrow ==
  ASSUME TypeOK, LedgerStep, NEW j \in Item
  PROVE  /\ Len(log[j]) \in Nat /\ Len(log'[j]) \in Nat
         /\ Len(log[j]) <= Len(log'[j])
         /\ \A n \in 1..Len(log[j]) : log'[j][n] = log[j][n]
<1>0. Len(log[j]) \in Nat
  BY DEF TypeOK
<1>1. CASE Quiet
  BY <1>0, <1>1 DEF Quiet
<1>2. ASSUME NEW i \in Item, NEW e \in Event, Logs(i, e)
      PROVE  /\ Len(log'[j]) \in Nat /\ Len(log[j]) <= Len(log'[j])
             /\ \A n \in 1..Len(log[j]) : log'[j][n] = log[j][n]
  BY <1>0, <1>2 DEF Logs
<1>3. Quiet \/ \E i \in Item, e \in Event : Logs(i, e)
  BY DEF LedgerStep, IntroduceStep, TakeStep, PutStep, EditStep, DestroyStep, AskStep, WithdrawStep
<1> QED
  BY <1>0, <1>1, <1>2, <1>3

-----------------------------------------------------------------------------
(* Bins of items. *)

LEMMA PlacedInit == Init => PlacedBinExists
BY DEF Init, PlacedBinExists, NoRow

\* A bin loses its row only when no item names it.
LEMMA BinsOfItemsStay ==
  ASSUME TypeOK, [Next]_vars
  PROVE  \/ UNCHANGED visibility
         \/ /\ UNCHANGED row
            /\ \A b \in Bin : BinExists(b) => visibility'[b] \in Visible \/ \A i \in Item : row[i].bin # b
<1>1. CASE UNCHANGED vars \/ Tick
  BY <1>1 DEF vars, Tick
<1>2. ASSUME NEW s \in Session, Arrive(s) \/ Transact(s) PROVE UNCHANGED visibility
  <2>1. CASE Arrive(s)
    BY <2>1 DEF Arrive, AddToBin, RemoveFromBin, ReturnToBin, RequestReturn, CancelReturnRequest,
                CreateItem, EditItem, DeleteItem, Start
  <2>2. CASE Transact(s)
    BY <2>2 DEF Transact, Begin, EnterBin, CheckOut, ReturnTo, LockItem, GetForUpdate, CommitPut,
                CommitRemove, CommitDelete, CommitCancel, CommitEdit, CommitCreate, CommitRequest, Rollback
  <2> QED
    BY <1>2, <2>1, <2>2
<1>3. CASE ManageBins
  BY <1>3 DEF ManageBins, CreateBin, EditBin, DeleteBin, TypeOK, BinExists
<1> QED
  BY <1>1, <1>2, <1>3 DEF Next

\* A change puts an item only into a bin that is there.
LEMMA PlacedNext ==
  ASSUME TypeOK, PlacedBinExists, LedgerStep, [Next]_vars
  PROVE  PlacedBinExists'
<1> SUFFICES ASSUME NEW j \in Item, row'[j].bin # None PROVE visibility'[row'[j].bin] \in Visible
  BY DEF PlacedBinExists, BinExists
<1>0. NoRow.bin = None /\ (row[j].bin # None => row[j].bin \in Bin /\ BinExists(row[j].bin))
  BY DEF NoRow, TypeOK, Row, PlacedBinExists
<1>1. row'[j] = row[j] \/ BinExists(row'[j].bin)
  <2>1. ASSUME NEW i \in Item, IntroduceStep(i) \/ TakeStep(i) \/ PutStep(i) \/ DestroyStep(i)
        PROVE  row'[j] = row[j] \/ BinExists(row'[j].bin)
    <3>1. CASE IntroduceStep(i)
      BY <3>1 DEF IntroduceStep, Rewrites
    <3>2. CASE TakeStep(i)
      BY <3>2 DEF TakeStep, Rewrites
    <3>3. CASE PutStep(i)
      BY <3>3 DEF PutStep, Rewrites
    <3>4. CASE DestroyStep(i)
      BY <1>0, <3>4 DEF DestroyStep, Rewrites
    <3> QED
      BY <2>1, <3>1, <3>2, <3>3, <3>4
  <2>2. ASSUME NEW i \in Item, NEW r \in RequestId, AskStep(i, r) \/ WithdrawStep(i, r)
        PROVE  row' = row
    BY <2>2 DEF AskStep, WithdrawStep
  <2>3. ASSUME NEW i \in Item, EditStep(i) PROVE row' = row
    BY <2>3 DEF EditStep
  <2> QED
    BY <2>1, <2>2, <2>3 DEF LedgerStep, Quiet
<1>2. CASE UNCHANGED visibility
  BY <1>0, <1>1, <1>2 DEF BinExists
<1>3. CASE ~UNCHANGED visibility
  BY <1>0, <1>3, BinsOfItemsStay
<1> QED
  BY <1>2, <1>3

-----------------------------------------------------------------------------
(* Who took an item before somebody asks for it. *)

Took(i, u) == \E n \in 1..Len(log[i]) : log[i][n].kind = "removed" /\ log[i][n].actor = u

\* The holder a request is about to be recorded with, read without a lock, has
\* taken the item at some time before.
SeenTook ==
  \A s \in Session : op[s].verb = "request" =>
    op[s].item \in Item /\ Took(op[s].item, op[s].seen.heldBy)

\* The ledger's last placement of an item that is out is the taking.
LEMMA HolderTook ==
  ASSUME Kept, NEW i \in Item, CheckedOut(row[i])
  PROVE  Took(i, row[i].heldBy)
<1>1. row[i] # NoRow /\ ~InBin(row[i])
  BY DEF CheckedOut, InBin, NoRow
<1>2. PICK n \in DOMAIN log[i] : Records(log[i][n], row[i])
  BY <1>1 DEF Kept, LedgerMatchesPlacement, Exists
<1>3. DOMAIN log[i] = 1..Len(log[i])
  BY DEF Kept, Sound, TypeOK
<1> QED
  BY <1>1, <1>2, <1>3 DEF Records, Took

\* What a session that asks for an item has seen is kept from its first read.
LEMMA RequestSeen ==
  ASSUME Kept, [Next]_vars, NEW t \in Session, op'[t].verb = "request"
  PROVE  \/ op[t].verb = "request" /\ op'[t].item = op[t].item /\ op'[t].seen = op[t].seen
         \/ \E i \in Item : /\ op'[t].item = i /\ op'[t].seen = row[i]
                            /\ CheckedOut(row[i]) /\ UNCHANGED <<row, log>>
<1> DEFINE Same == op[t].verb = "request" /\ op'[t].item = op[t].item /\ op'[t].seen = op[t].seen
           Fresh == \E i \in Item : /\ op'[t].item = i /\ op'[t].seen = row[i]
                                    /\ CheckedOut(row[i]) /\ UNCHANGED <<row, log>>
<1>0. op \in [Session -> Work]
  BY DEF Kept, Sound, TypeOK
<1>1. ASSUME op'[t] = op[t] PROVE Same
  BY <1>1
<1>2. CASE UNCHANGED vars \/ Tick \/ ManageBins
  BY <1>1, <1>2 DEF vars, Tick, ManageBins, CreateBin, EditBin, DeleteBin
<1>3. ASSUME NEW s \in Session, Arrive(s) PROVE Same \/ Fresh
  <2>1. ASSUME NEW verb, NEW a, NEW i, NEW b, NEW r, NEW seen, Start(s, verb, a, i, b, r, seen), verb # "request"
        PROVE  Same
    BY <1>0, <1>1, <2>1 DEF Start
  <2>2. ASSUME NEW a \in Actor, NEW i \in Item, RequestReturn(s, a, i)
        PROVE  Same \/ Fresh
    <3>1. /\ op' = [op EXCEPT ![s] = [phase |-> "read", verb |-> "request", actor |-> a, item |-> i,
                                     bin |-> None, req |-> None, at |-> 0, seen |-> row[i]]]
          /\ CheckedOut(row[i]) /\ UNCHANGED <<row, log>>
      BY <2>2 DEF RequestReturn, Start
    <3>2. CASE t = s
      BY <1>0, <3>1, <3>2
    <3>3. CASE t # s
      BY <1>0, <1>1, <3>1, <3>3
    <3> QED
      BY <3>2, <3>3
  <2> QED
    BY <1>3, <2>1, <2>2 DEF Arrive, AddToBin, RemoveFromBin, ReturnToBin, CancelReturnRequest,
                            CreateItem, EditItem, DeleteItem
<1>4. ASSUME NEW s \in Session, Transact(s) PROVE Same
  <2>1. CASE Begin(s)
    BY <1>0, <2>1 DEF Begin, Work
  <2>2. CASE EnterBin(s) \/ CheckOut(s) \/ ReturnTo(s) \/ LockItem(s)
    <3>1. op[s].verb # "request" /\ op' = [op EXCEPT ![s].phase = "held", ![s].seen = row[op[s].item]]
      BY <2>2 DEF EnterBin, CheckOut, ReturnTo, LockItem, GetForUpdate
    <3>2. op[s] \in Work
      BY <1>0
    <3>3. op'[s] = [op[s] EXCEPT !.phase = "held", !.seen = row[op[s].item]]
      BY <1>0, <3>1
    <3>4. op'[s].verb = op[s].verb
      BY <3>2, <3>3 DEF Work
    <3>5. t # s
      BY <3>1, <3>4
    <3> QED
      BY <1>0, <1>1, <3>1, <3>5
  <2>3. CASE Release(s)
    BY <1>0, <1>1, <2>3 DEF Release, Idle
  <2> QED
    BY <1>4, <2>1, <2>2, <2>3 DEF Transact, CommitPut, CommitRemove, CommitDelete, CommitCancel,
                                  CommitEdit, CommitCreate, CommitRequest, Rollback
<1> QED
  BY <1>2, <1>3, <1>4 DEF Next

LEMMA SeenTookNext ==
  ASSUME Kept, SeenTook, LedgerStep, [Next]_vars
  PROVE  SeenTook'
<1> SUFFICES ASSUME NEW t \in Session, op'[t].verb = "request"
             PROVE  op'[t].item \in Item /\ Took(op[t].item, op[t].seen.heldBy)'
  BY DEF SeenTook
<1>1. CASE op[t].verb = "request" /\ op'[t].item = op[t].item /\ op'[t].seen = op[t].seen
  <2> DEFINE i == op[t].item
             u == op[t].seen.heldBy
  <2>1. i \in Item /\ Took(i, u) /\ TypeOK
    BY <1>1 DEF Kept, Sound, SeenTook
  <2>2. \E n \in 1..Len(log'[i]) : log'[i][n].kind = "removed" /\ log'[i][n].actor = u
    <3> HIDE DEF i, u
    <3> QED
      BY <2>1, LedgersGrow DEF Took
  <2> QED
    BY <1>1, <2>1, <2>2 DEF Took
<1>2. ASSUME NEW i \in Item, op'[t].item = i, op'[t].seen = row[i], CheckedOut(row[i]), UNCHANGED <<row, log>>
      PROVE  op'[t].item \in Item /\ Took(op[t].item, op[t].seen.heldBy)'
  BY <1>2, HolderTook DEF Took
<1> QED
  BY <1>1, <1>2, RequestSeen

-----------------------------------------------------------------------------
(* Requests and their holders. *)

Keeps(r) ==
  /\ req[r] # NoRequest
  /\ req'[r].item = req[r].item /\ req'[r].requester = req[r].requester
  /\ req'[r].holder = req[r].holder /\ req'[r].asked = req[r].asked

\* A request that is there after a step was there before, with the same item,
\* people and event, or has just been recorded.
LEMMA RequestsKept ==
  ASSUME TypeOK, LedgerStep, NEW r \in RequestId, req'[r] # NoRequest
  PROVE  Keeps(r) \/ \E i \in Item : AskStep(i, r)
<1>0. req[r] \in Request /\ NoRequest.status = "none"
  BY DEF TypeOK, NoRequest
<1>1. ASSUME req'[r] = req[r] PROVE Keeps(r)
  BY <1>1 DEF Keeps
<1>s. ASSUME NEW st \in {"fulfilled", "cancelled"}, req[r].status = "open", req'[r] = [req[r] EXCEPT !.status = st]
      PROVE  Keeps(r)
  BY <1>0, <1>s, SettledRequest DEF Keeps
<1>2. ASSUME NEW i \in Item, PutStep(i) PROVE Keeps(r)
  <2>1. req'[r] = req[r] \/ (req[r].status = "open" /\ req'[r] = [req[r] EXCEPT !.status = "fulfilled"])
    BY <1>2 DEF PutStep, FulfillOpenForItem, OpenOn
  <2> QED
    BY <1>1, <1>s, <2>1
<1>3. ASSUME NEW i \in Item, DestroyStep(i) PROVE Keeps(r)
  BY <1>1, <1>3 DEF DestroyStep, CascadeToRequests
<1>4. ASSUME NEW i \in Item, NEW q \in RequestId, AskStep(i, q), q # r PROVE Keeps(r)
  <2>1. req'[r] = req[r]
    BY <1>4 DEF AskStep, InsertRequest, TypeOK
  <2> QED
    BY <1>1, <2>1
<1>5. ASSUME NEW i \in Item, NEW q \in RequestId, WithdrawStep(i, q) PROVE Keeps(r)
  <2>1. req'[r] = req[r] \/ (req[r].status = "open" /\ req'[r] = [req[r] EXCEPT !.status = "cancelled"])
    BY <1>5 DEF WithdrawStep, CancelOpen, TypeOK
  <2> QED
    BY <1>1, <1>s, <2>1
<1>6. ASSUME NEW i \in Item, IntroduceStep(i) \/ TakeStep(i) \/ EditStep(i) PROVE Keeps(r)
  <2>1. req' = req
    BY <1>6 DEF IntroduceStep, TakeStep, EditStep
  <2> QED
    BY <1>1, <2>1
<1> QED
  BY <1>1, <1>2, <1>3, <1>4, <1>5, <1>6 DEF LedgerStep, Quiet

\* What AskStep writes.
LEMMA AskedRequest ==
  ASSUME TypeOK, NEW i \in Item, NEW r \in RequestId, AskStep(i, r)
  PROVE  \E e \in Event, s \in Session :
           /\ e.kind = "return_requested" /\ Logs(i, e) /\ UNCHANGED row /\ row[i] # NoRow
           /\ op[s].verb = "request" /\ op[s].item = i /\ op[s].seen.heldBy # e.actor
           /\ req[r] = NoRequest
           /\ req'[r] = [status |-> "open", item |-> i, requester |-> e.actor,
                         holder |-> op[s].seen.heldBy, asked |-> Len(log[i]) + 1]
           /\ \A q \in RequestId : q # r => req'[q] = req[q]
           /\ \A q \in OpenOn(i) : req[q].requester # e.actor
BY DEF AskStep, InsertRequest, TypeOK

LEMMA HolderInit == Init => HolderTookTheItem /\ SeenTook
BY DEF Init, HolderTookTheItem, SeenTook, Idle

LEMMA HolderNext ==
  ASSUME Kept, SeenTook, HolderTookTheItem, LedgerStep
  PROVE  HolderTookTheItem'
<1> SUFFICES ASSUME NEW r \in RequestId, req'[r] # NoRequest
             PROVE  /\ req'[r].holder # req'[r].requester
                    /\ \E n \in 1..(req'[r].asked - 1) :
                         /\ log'[req'[r].item][n].kind = "removed"
                         /\ log'[req'[r].item][n].actor = req'[r].holder
  BY DEF HolderTookTheItem
<1>0. TypeOK
  BY DEF Kept, Sound
<1>1. CASE Keeps(r)
  <2>1. /\ req[r] # NoRequest /\ req'[r].item = req[r].item /\ req'[r].requester = req[r].requester
        /\ req'[r].holder = req[r].holder /\ req'[r].asked = req[r].asked
        /\ req[r].item \in Item /\ req[r].asked \in 1..Len(log[req[r].item])
    BY <1>1 DEF Keeps, Kept, Lending, RequestsPlaced
  <2>2. PICK n \in 1..(req[r].asked - 1) : /\ log[req[r].item][n].kind = "removed"
                                           /\ log[req[r].item][n].actor = req[r].holder
    BY <2>1 DEF HolderTookTheItem
  <2>3. Len(log[req[r].item]) \in Nat
    BY <1>0, <2>1, LedgersGrow
  <2>4. n \in 1..Len(log[req[r].item])
    BY <2>1, <2>2, <2>3
  <2>5. log'[req[r].item][n] = log[req[r].item][n]
    BY <1>0, <2>1, <2>4, LedgersGrow
  <2>6. req[r].holder # req[r].requester
    BY <2>1 DEF HolderTookTheItem
  <2> QED
    BY <2>1, <2>2, <2>5, <2>6
<1>2. ASSUME NEW i \in Item, AskStep(i, r)
      PROVE  /\ req'[r].holder # req'[r].requester
             /\ \E n \in 1..(req'[r].asked - 1) :
                  /\ log'[req'[r].item][n].kind = "removed"
                  /\ log'[req'[r].item][n].actor = req'[r].holder
  <2>1. PICK e \in Event, s \in Session :
          /\ op[s].verb = "request" /\ op[s].item = i /\ op[s].seen.heldBy # e.actor
          /\ req'[r] = [status |-> "open", item |-> i, requester |-> e.actor,
                        holder |-> op[s].seen.heldBy, asked |-> Len(log[i]) + 1]
    BY <1>0, <1>2, AskedRequest
  <2>2. /\ req'[r].item = i /\ req'[r].requester = e.actor /\ req'[r].holder = op[s].seen.heldBy
        /\ req'[r].asked = Len(log[i]) + 1
    BY <2>1
  <2>3. Took(i, op[s].seen.heldBy)
    BY <2>1 DEF SeenTook
  <2>4. Len(log[i]) \in Nat /\ \A n \in 1..Len(log[i]) : log'[i][n] = log[i][n]
    BY <1>0, LedgersGrow
  <2> QED
    BY <2>1, <2>2, <2>3, <2>4 DEF Took
<1> QED
  BY <1>0, <1>1, <1>2, RequestsKept

-----------------------------------------------------------------------------
(* The fate of requests. *)

Settles(e, r) ==
  \/ e.kind \in PutKind
  \/ e.kind = "return_request_cancelled" /\ e.actor = req[r].requester

\* What RequestFateInLedger says of one request.
Fate(r) ==
  /\ req[r].status = "open" => Settling(r) = {}
  /\ req[r].status = "fulfilled" => FirstSettles(r, PutKind)
  /\ req[r].status = "cancelled" => FirstSettles(r, {"return_request_cancelled"})

\* The events that settle a request are there to stay, and a new event is one
\* more of them or not.
LEMMA SettlingGrows ==
  ASSUME TypeOK, RequestsPlaced, NEW i \in Item, NEW e \in Event, Logs(i, e),
         NEW r \in RequestId, Keeps(r)
  PROVE  /\ Settling(r)' = IF req[r].item = i /\ Settles(e, r)
                           THEN Settling(r) \cup {Len(log[i]) + 1} ELSE Settling(r)
         /\ \A n \in Settling(r) : n \in Nat /\ n <= Len(log[req[r].item])
                                   /\ log'[req[r].item][n] = log[req[r].item][n]
<1> DEFINE j == req[r].item
           a == req[r].asked
           N == Len(log[j])
<1>1. j \in Item /\ a \in 1..N /\ N \in Nat /\ req[r] # NoRequest
  BY DEF Keeps, RequestsPlaced, TypeOK
<1>2. /\ req'[r].item = j /\ req'[r].requester = req[r].requester /\ req'[r].asked = a
  BY DEF Keeps
<1>3. \A n \in 1..N : log'[j][n] = log[j][n]
  BY <1>1 DEF Logs
<1>4. Settling(r) = {n \in (a + 1)..N : Settles(log[j][n], r)}
  BY DEF Settling, Settles
<1>5. Settling(r)' = {n \in (a + 1)..Len(log'[j]) : Settles(log'[j][n], r)}
  BY <1>2 DEF Settling, Settles
<1>6. CASE j = i
  <2>1. Len(log'[j]) = N + 1 /\ log'[j][N + 1] = e
    BY <1>6 DEF Logs
  <2>2. \A n \in (a + 1)..(N + 1) : n = N + 1 \/ (n \in (a + 1)..N /\ log'[j][n] = log[j][n])
    <3> HIDE DEF j, a, N
    <3> QED
      BY <1>1, <1>3
  <2>3. N + 1 \in (a + 1)..(N + 1) /\ \A n \in (a + 1)..N : n \in (a + 1)..(N + 1) /\ n # N + 1
    BY <1>1
  <2>4. \A n \in Settling(r) : n \in Nat /\ n <= N /\ log'[j][n] = log[j][n]
    BY <1>1, <1>3, <1>4
  <2> HIDE DEF j, a, N
  <2>5. Settling(r)' = IF Settles(e, r) THEN Settling(r) \cup {N + 1} ELSE Settling(r)
    BY <1>4, <1>5, <2>1, <2>2, <2>3
  <2> QED
    BY <1>6, <2>4, <2>5 DEF j, N
<1>7. CASE j # i
  <2>1. log'[j] = log[j]
    BY <1>1, <1>7 DEF Logs
  <2> QED
    BY <1>1, <1>4, <1>5, <1>7, <2>1
<1> QED
  BY <1>6, <1>7

\* An event that does not settle an open request, and any event after the
\* first that did, changes nothing.
LEMMA FateKept ==
  ASSUME TypeOK, RequestsPlaced, NEW i \in Item, NEW e \in Event, Logs(i, e),
         NEW r \in RequestId, Keeps(r), Fate(r), req'[r].status = req[r].status,
         req[r].status = "open" => ~(req[r].item = i /\ Settles(e, r))
  PROVE  Fate(r)'
<1> DEFINE j == req[r].item
<1>1. /\ Settling(r)' = IF j = i /\ Settles(e, r)
                        THEN Settling(r) \cup {Len(log[i]) + 1} ELSE Settling(r)
      /\ \A n \in Settling(r) : n \in Nat /\ n <= Len(log[j]) /\ log'[j][n] = log[j][n]
  BY SettlingGrows
<1>2. Len(log[j]) \in Nat /\ req'[r].item = j
  BY DEF Keeps, RequestsPlaced, TypeOK
<1>3. ASSUME NEW kinds, FirstSettles(r, kinds)
      PROVE  \E n \in Settling(r)' : (\A m \in Settling(r)' : n <= m) /\ log'[j][n].kind \in kinds
  <2>1. PICK n \in Settling(r) : (\A m \in Settling(r) : n <= m) /\ log[j][n].kind \in kinds
    BY <1>3 DEF FirstSettles
  <2>2. n \in Settling(r)' /\ log'[j][n].kind \in kinds
    BY <1>1, <2>1
  <2>3. ASSUME NEW m \in Settling(r)' PROVE n <= m
    <3>1. m \in Settling(r) \/ (j = i /\ m = Len(log[j]) + 1)
      BY <1>1
    <3> QED
      BY <1>1, <1>2, <2>1, <3>1
  <2> QED
    BY <2>2, <2>3
<1>4. req'[r].status = "open" => Settling(r)' = {}
  BY <1>1 DEF Fate
<1>5. /\ req'[r].status = "fulfilled" => FirstSettles(r, PutKind)'
      /\ req'[r].status = "cancelled" => FirstSettles(r, {"return_request_cancelled"})'
  BY <1>2, <1>3 DEF Fate, FirstSettles
<1> QED
  BY <1>4, <1>5 DEF Fate

\* The event that settles an open request is the first that does.
LEMMA FateDecided ==
  ASSUME TypeOK, RequestsPlaced, NEW i \in Item, NEW e \in Event, Logs(i, e),
         NEW r \in RequestId, Keeps(r), Fate(r), req[r].status = "open",
         req[r].item = i, Settles(e, r), NEW kinds, e.kind \in kinds
  PROVE  FirstSettles(r, kinds)'
<1>1. Len(log[i]) \in Nat
  BY DEF TypeOK
<1>2. Settling(r)' = {Len(log[i]) + 1}
  BY SettlingGrows DEF Fate
<1>3. log'[i][Len(log[i]) + 1] = e /\ req'[r].item = i
  BY DEF Logs, Keeps
<1> QED
  BY <1>1, <1>2, <1>3 DEF FirstSettles

LEMMA FateInit == Init => RequestFateInLedger
BY DEF Init, RequestFateInLedger, NoRequest

\* No change makes the ledger and the status of a request disagree.
LEMMA FateNext ==
  ASSUME TypeOK, RowsExclusive, Lending, RequestFateInLedger, LedgerStep
  PROVE  RequestFateInLedger'
<1> SUFFICES ASSUME NEW r \in RequestId PROVE Fate(r)'
  BY DEF RequestFateInLedger, Fate
<1>0. /\ Fate(r) /\ RequestsPlaced /\ OneOpenEach /\ req[r] \in Request
      /\ NoRequest.status = "none" /\ NoRequest.item = None /\ NoRow.bin = None
  BY DEF RequestFateInLedger, Fate, Lending, TypeOK, NoRequest, NoRow
<1>n. ASSUME req'[r] = NoRequest PROVE Fate(r)'
  BY <1>0, <1>n DEF Fate
<1>k. ASSUME NEW i \in Item, NEW e \in Event, Logs(i, e), req'[r] = req[r],
             req[r].status = "open" => ~(req[r].item = i /\ Settles(e, r))
      PROVE  Fate(r)'
  <2>1. CASE req[r] = NoRequest
    BY <1>k, <1>n, <2>1
  <2>2. CASE req[r] # NoRequest
    <3>1. Keeps(r)
      BY <1>k, <2>2 DEF Keeps
    <3> QED
      BY <1>0, <1>k, <3>1, FateKept
  <2> QED
    BY <2>1, <2>2
<1>1. CASE Quiet
  BY <1>0, <1>1 DEF Quiet, Fate, Settling, FirstSettles
<1>2. ASSUME NEW i \in Item, IntroduceStep(i) \/ TakeStep(i) \/ EditStep(i) PROVE Fate(r)'
  <2>1. PICK e \in Event : Logs(i, e) /\ e.kind \in {"created", "removed", "edited"} /\ req' = req
    BY <1>2 DEF IntroduceStep, TakeStep, EditStep
  <2>2. ~Settles(e, r)
    BY <2>1 DEF Settles, PutKind
  <2> QED
    BY <1>k, <2>1, <2>2
<1>3. ASSUME NEW i \in Item, DestroyStep(i) PROVE Fate(r)'
  <2>1. PICK e \in Event : Logs(i, e) /\ e.kind = "deleted" /\ CascadeToRequests(i)
    BY <1>3 DEF DestroyStep
  <2>2. req'[r] = NoRequest \/ req'[r] = req[r]
    BY <2>1 DEF CascadeToRequests
  <2>3. ~Settles(e, r)
    BY <2>1 DEF Settles, PutKind
  <2> QED
    BY <1>k, <1>n, <2>1, <2>2, <2>3
<1>4. ASSUME NEW i \in Item, PutStep(i) PROVE Fate(r)'
  <2>1. PICK e \in Event : Logs(i, e) /\ e.kind \in PutKind /\ FulfillOpenForItem(i)
    BY <1>4 DEF PutStep
  <2>2. CASE req[r].status = "open" /\ req[r].item = i
    <3>1. req'[r] = [req[r] EXCEPT !.status = "fulfilled"]
      BY <2>1, <2>2 DEF FulfillOpenForItem, OpenOn
    <3>2. Keeps(r) /\ req'[r].status = "fulfilled"
      BY <1>0, <2>2, <3>1, SettledRequest DEF Keeps
    <3>3. FirstSettles(r, PutKind)'
      BY <1>0, <2>1, <2>2, <3>2, FateDecided DEF Settles
    <3> QED
      BY <3>2, <3>3 DEF Fate
  <2>3. CASE ~(req[r].status = "open" /\ req[r].item = i)
    <3>1. req'[r] = req[r]
      BY <2>1, <2>3 DEF FulfillOpenForItem, OpenOn
    <3> QED
      BY <1>k, <2>1, <2>3, <3>1
  <2> QED
    BY <2>2, <2>3
<1>5. ASSUME NEW i \in Item, NEW q \in RequestId, AskStep(i, q) PROVE Fate(r)'
  <2>1. PICK e \in Event, s \in Session :
          /\ e.kind = "return_requested" /\ Logs(i, e)
          /\ req'[q] = [status |-> "open", item |-> i, requester |-> e.actor,
                        holder |-> op[s].seen.heldBy, asked |-> Len(log[i]) + 1]
          /\ \A p \in RequestId : p # q => req'[p] = req[p]
    BY <1>5, AskedRequest
  <2>2. CASE r = q
    <3>1. /\ req'[r].status = "open" /\ req'[r].item = i /\ req'[r].asked = Len(log[i]) + 1
      BY <2>1, <2>2
    <3>2. Len(log'[i]) = Len(log[i]) + 1 /\ Len(log[i]) \in Nat
      BY <2>1 DEF Logs, TypeOK
    <3>3. Settling(r)' = {}
      BY <3>1, <3>2 DEF Settling
    <3> QED
      BY <3>1, <3>3 DEF Fate
  <2>3. CASE r # q
    <3>1. ~Settles(e, r)
      BY <2>1 DEF Settles, PutKind
    <3> QED
      BY <1>k, <2>1, <2>3, <3>1
  <2> QED
    BY <2>2, <2>3
<1>6. ASSUME NEW i \in Item, NEW q \in RequestId, WithdrawStep(i, q) PROVE Fate(r)'
  <2>1. PICK e \in Event : /\ e.kind = "return_request_cancelled" /\ Logs(i, e)
                           /\ req[q].status = "open" /\ req[q].requester = e.actor /\ req[q].item = i
                           /\ req' = [req EXCEPT ![q].status = "cancelled"]
    BY <1>6 DEF WithdrawStep, CancelOpen
  <2>2. CASE r = q
    <3>1. req'[r] = [req[r] EXCEPT !.status = "cancelled"]
      BY <2>1, <2>2 DEF TypeOK
    <3>2. Keeps(r) /\ req'[r].status = "cancelled"
      <4>1. req[r].status = "open" /\ req[r] # NoRequest
        BY <1>0, <2>1, <2>2
      <4> QED
        BY <1>0, <3>1, <4>1, SettledRequest DEF Keeps
    <3>3. FirstSettles(r, {"return_request_cancelled"})'
      BY <1>0, <2>1, <2>2, <3>2, FateDecided DEF Settles
    <3> QED
      BY <3>2, <3>3 DEF Fate
  <2>3. CASE r # q
    <3>1. req'[r] = req[r]
      BY <2>1, <2>3 DEF TypeOK
    <3>2. req[r].status = "open" => ~(req[r].item = i /\ Settles(e, r))
      BY <1>0, <2>1, <2>3 DEF OneOpenEach, Settles, PutKind
    <3> QED
      BY <1>k, <2>1, <3>1, <3>2
  <2> QED
    BY <2>2, <2>3
<1> QED
  BY <1>1, <1>2, <1>3, <1>4, <1>5, <1>6 DEF LedgerStep

-----------------------------------------------------------------------------
(* The chain of custody. *)

\* An item whose ledger tells its deletion has no row, and never gets one.
GoneIsGone == \A i \in Item : \A n \in DOMAIN log[i] : log[i][n].kind = "deleted" => row[i] = NoRow

LEMMA GoneInit == Init => GoneIsGone /\ ChainOfCustody
BY DEF Init, GoneIsGone, ChainOfCustody

\* What a step does to one ledger: nothing, its first event, or one more event
\* of an item that has a row.
LEMMA OneMoreEvent ==
  ASSUME TypeOK, Lending, LedgerStep, NEW j \in Item
  PROVE  \/ log'[j] = log[j] /\ row'[j] = row[j]
         \/ \E e \in Event : Logs(j, e) /\ log[j] = <<>> /\ e.kind = "created"
         \/ \E e \in Event :
              /\ Logs(j, e) /\ row[j] # NoRow /\ e.kind # "created"
              /\ e.kind = "deleted" <=> row'[j] = NoRow
              /\ e.kind = "removed" => InBin(row[j]) /\ e.bin = row[j].bin
              /\ e.kind \in PutKind => CheckedOut(row[j])
<1> DEFINE Goal == \/ log'[j] = log[j] /\ row'[j] = row[j]
                   \/ \E e \in Event : Logs(j, e) /\ log[j] = <<>> /\ e.kind = "created"
                   \/ \E e \in Event :
                        /\ Logs(j, e) /\ row[j] # NoRow /\ e.kind # "created"
                        /\ e.kind = "deleted" <=> row'[j] = NoRow
                        /\ e.kind = "removed" => InBin(row[j]) /\ e.bin = row[j].bin
                        /\ e.kind \in PutKind => CheckedOut(row[j])
<1>0. NoRow.bin = None /\ NoRow.heldBy = None /\ None \notin Bin /\ None \notin User
  BY CustodyAssumption DEF NoRow
<1>1. CASE Quiet
  BY <1>1 DEF Quiet
<1>2. ASSUME NEW i \in Item, IntroduceStep(i) PROVE Goal
  BY <1>2 DEF IntroduceStep, Rewrites, Logs
<1>3. ASSUME NEW i \in Item, TakeStep(i) PROVE Goal
  <2>1. PICK e \in Event :
          /\ e.kind = "removed" /\ e.actor \in User /\ InBin(row[i]) /\ e.bin = row[i].bin /\ Logs(i, e)
          /\ Rewrites(i, [bin |-> None, heldBy |-> e.actor, placedAt |-> e.at])
    BY <1>3 DEF TakeStep
  <2>2. row[i] # NoRow /\ row'[i] # NoRow
    BY <1>0, <2>1 DEF InBin, Rewrites
  <2> QED
    BY <2>1, <2>2 DEF Rewrites, Logs, PutKind
<1>4. ASSUME NEW i \in Item, PutStep(i) PROVE Goal
  <2>1. PICK e \in Event :
          /\ e.kind \in PutKind /\ e.bin \in Bin /\ CheckedOut(row[i]) /\ Logs(i, e)
          /\ Rewrites(i, [bin |-> e.bin, heldBy |-> None, placedAt |-> e.at])
    BY <1>4 DEF PutStep
  <2>2. row[i] # NoRow /\ row'[i] # NoRow
    BY <1>0, <2>1 DEF CheckedOut, Rewrites
  <2> QED
    BY <2>1, <2>2 DEF Rewrites, Logs, PutKind
<1>5. ASSUME NEW i \in Item, DestroyStep(i) PROVE Goal
  BY <1>5 DEF DestroyStep, Rewrites, Logs, PutKind
<1>6. ASSUME NEW i \in Item, NEW e \in Event, Logs(i, e), row' = row, row[i] # NoRow,
             e.kind \in {"edited", "return_requested", "return_request_cancelled"}
      PROVE  Goal
  BY <1>6 DEF Logs, PutKind
<1>7. ASSUME NEW i \in Item, EditStep(i) PROVE Goal
  BY <1>6, <1>7 DEF EditStep
<1>8. ASSUME NEW i \in Item, NEW r \in RequestId, AskStep(i, r) \/ WithdrawStep(i, r) PROVE Goal
  <2>1. CASE AskStep(i, r)
    BY <1>6, <2>1 DEF AskStep
  <2>2. CASE WithdrawStep(i, r)
    <3>1. row[i] # NoRow
      BY <2>2 DEF WithdrawStep, CancelOpen, Lending, RequestsPlaced, NoRequest
    <3> QED
      BY <1>6, <2>2, <3>1 DEF WithdrawStep
  <2> QED
    BY <1>8, <2>1, <2>2
<1> QED
  BY <1>1, <1>2, <1>3, <1>4, <1>5, <1>7, <1>8 DEF LedgerStep

LEMMA GoneNext ==
  ASSUME TypeOK, Lending, GoneIsGone, LedgerStep
  PROVE  GoneIsGone'
<1> SUFFICES ASSUME NEW j \in Item, NEW n \in DOMAIN log'[j], log'[j][n].kind = "deleted"
             PROVE  row'[j] = NoRow
  BY DEF GoneIsGone
<1>1. CASE log'[j] = log[j] /\ row'[j] = row[j]
  BY <1>1 DEF GoneIsGone
<1>2. ASSUME NEW e \in Event, Logs(j, e)
      PROVE  (n \in DOMAIN log[j] /\ log[j][n].kind = "deleted") \/ e.kind = "deleted"
  <2>1. Len(log[j]) \in Nat /\ DOMAIN log[j] = 1..Len(log[j]) /\ DOMAIN log'[j] = 1..(Len(log[j]) + 1)
    BY <1>2 DEF Logs, TypeOK
  <2>2. n \in 1..Len(log[j]) \/ n = Len(log[j]) + 1
    BY <2>1
  <2> QED
    BY <1>2, <2>1, <2>2 DEF Logs
<1> QED
  BY <1>1, <1>2, OneMoreEvent DEF GoneIsGone

\* What ChainOfCustody says of the n-th event of an item.
Linked(i, n) ==
  /\ (log[i][n].kind = "created") <=> (n = 1)
  /\ log[i][n].kind = "deleted" => n = Len(log[i])
  /\ IsPlacement(log[i][n]) =>
       \A m \in 1..(n - 1) :
         (IsPlacement(log[i][m]) /\ \A k \in (m + 1)..(n - 1) : ~IsPlacement(log[i][k]))
           => Follows(log[i][m], log[i][n])

\* No change breaks the chain of custody: the last placement in the ledger is
\* the one the row shows, so the guard on the row is a guard on the ledger.
LEMMA ChainNext ==
  ASSUME Kept, GoneIsGone, ChainOfCustody, LedgerStep
  PROVE  ChainOfCustody'
<1> SUFFICES ASSUME NEW j \in Item, NEW n \in DOMAIN log'[j] PROVE Linked(j, n)'
  BY DEF ChainOfCustody, Linked
<1>0. /\ TypeOK /\ Lending /\ RowsExclusive /\ LedgerMatchesPlacement
      /\ Len(log[j]) \in Nat /\ DOMAIN log[j] = 1..Len(log[j])
      /\ \A m \in DOMAIN log[j] : Linked(j, m)
  BY DEF Kept, Sound, Locking, TypeOK, ChainOfCustody, Linked
<1>1. CASE log'[j] = log[j]
  BY <1>0, <1>1 DEF Linked
<1>2. ASSUME NEW e \in Event, Logs(j, e)
      PROVE  /\ DOMAIN log'[j] = 1..(Len(log[j]) + 1) /\ Len(log'[j]) = Len(log[j]) + 1
             /\ log'[j][Len(log[j]) + 1] = e
             /\ \A m \in 1..Len(log[j]) : log'[j][m] = log[j][m]
  BY <1>0, <1>2 DEF Logs
<1>3. ASSUME NEW e \in Event, Logs(j, e), log[j] = <<>>, e.kind = "created" PROVE Linked(j, n)'
  <2>1. Len(log[j]) = 0 /\ n = 1 /\ log'[j][1] = e
    BY <1>2, <1>3
  <2> QED
    BY <1>3, <2>1 DEF Linked
<1>4. ASSUME NEW e \in Event, Logs(j, e), row[j] # NoRow, e.kind # "created",
             e.kind = "removed" => InBin(row[j]) /\ e.bin = row[j].bin,
             e.kind \in PutKind => CheckedOut(row[j])
      PROVE  Linked(j, n)'
  <2> DEFINE N == Len(log[j])
  <2>0. N \in Nat /\ N > 0 /\ n \in 1..(N + 1)
    BY <1>0, <1>2, <1>4 DEF RowsExclusive
  <2>1. CASE n \in 1..N
    <3>1. log'[j][n] = log[j][n] /\ Linked(j, n)
      BY <1>0, <1>2, <1>4, <2>1
    <3>2. log[j][n].kind # "deleted"
      BY <1>0, <1>4, <2>1 DEF GoneIsGone
    <3>3. \A m \in 1..(n - 1) : log'[j][m] = log[j][m]
      BY <1>2, <1>4, <2>0, <2>1
    <3>4. \A m \in 1..(n - 1) : \A k \in (m + 1)..(n - 1) : k \in 1..(n - 1)
      BY <2>0, <2>1
    <3> QED
      BY <3>1, <3>2, <3>3, <3>4 DEF Linked
  <2>2. CASE n = N + 1
    <3>1. log'[j][n] = e /\ n # 1 /\ n = Len(log'[j])
      BY <1>2, <1>4, <2>0, <2>2
    <3>2. ASSUME IsPlacement(e), NEW m \in 1..N, IsPlacement(log[j][m]),
                 \A k \in (m + 1)..N : ~IsPlacement(log[j][k])
          PROVE  Follows(log[j][m], e)
      <4>1. PICK p \in 1..N : IsLastPlacement(j, p) /\ Records(log[j][p], row[j])
        BY <1>0, <1>4 DEF LedgerMatchesPlacement, Exists
      <4>2. p = m
        BY <2>0, <3>2, <4>1 DEF IsLastPlacement
      <4>3. e.kind = "removed" \/ e.kind \in PutKind
        BY <1>4, <3>2 DEF IsPlacement
      <4> QED
        BY <1>4, <4>1, <4>2, <4>3 DEF Records, Follows, InBin, CheckedOut, PutKind
    <3>3. \A m \in 1..N : log'[j][m] = log[j][m]
      BY <1>2, <1>4
    <3>4. n - 1 = N /\ \A m \in 1..N : \A k \in (m + 1)..N : k \in 1..N
      BY <2>0, <2>2
    <3>5. IsPlacement(e) =>
            \A m \in 1..(n - 1) :
              (IsPlacement(log'[j][m]) /\ \A k \in (m + 1)..(n - 1) : ~IsPlacement(log'[j][k]))
                => Follows(log'[j][m], e)
      <4> HIDE DEF N
      <4> QED
        BY <3>2, <3>3, <3>4
    <3> QED
      BY <1>4, <3>1, <3>5 DEF Linked
  <2> QED
    BY <2>0, <2>1, <2>2
<1> QED
  BY <1>0, <1>1, <1>3, <1>4, OneMoreEvent

-----------------------------------------------------------------------------
(* The inductive invariant of all of it. *)

Told ==
  Kept /\ PlacedBinExists /\ SeenTook /\ HolderTookTheItem /\ RequestFateInLedger
       /\ GoneIsGone /\ ChainOfCustody

LEMMA ToldInit == Init => Told
BY KeptInit, PlacedInit, HolderInit, FateInit, GoneInit DEF Told

LEMMA ToldNext == Told /\ [Next]_vars => Told'
<1> SUFFICES ASSUME Told, [Next]_vars PROVE Told'
  OBVIOUS
<1>1. LedgerStep /\ TypeOK /\ RowsExclusive /\ Lending /\ Kept
  BY NextIsLedgerStep DEF Told, Kept, Sound, Locking
<1>2. Kept'
  BY <1>1, KeptNext
<1>3. PlacedBinExists' /\ SeenTook' /\ HolderTookTheItem'
  BY <1>1, PlacedNext, SeenTookNext, HolderNext DEF Told
<1>4. RequestFateInLedger' /\ GoneIsGone' /\ ChainOfCustody'
  BY <1>1, FateNext, GoneNext, ChainNext DEF Told
<1> QED
  BY <1>2, <1>3, <1>4 DEF Told

LEMMA ToldAlways == Spec => []Told
BY ToldInit, ToldNext, PTL DEF Spec

\* No item names a bin that is not there, whatever bin is created, hidden or
\* deleted between the reads and the commit of a placement.
THEOREM PlacedBinsExist == Spec => []PlacedBinExists
<1>1. Told => PlacedBinExists
  BY DEF Told
<1> QED
  BY <1>1, ToldAlways, PTL

\* The holder that a request names has taken the item before and is not the
\* requester, although the row was read without a lock.
THEOREM HoldersTookTheItem == Spec => []HolderTookTheItem
<1>1. Told => HolderTookTheItem
  BY DEF Told
<1> QED
  BY <1>1, ToldAlways, PTL

\* A request's status is what the first event that settles it says.
THEOREM RequestFatesInLedger == Spec => []RequestFateInLedger
<1>1. Told => RequestFateInLedger
  BY DEF Told
<1> QED
  BY <1>1, ToldAlways, PTL

\* Ledgers open with a creation, alternate between taking and putting back, and
\* end with a deletion: of two sessions that race for an item one loses.
THEOREM ChainsOfCustody == Spec => []ChainOfCustody
<1>1. Told => ChainOfCustody
  BY DEF Told
<1> QED
  BY <1>1, ToldAlways, PTL

-----------------------------------------------------------------------------
(* Custody implements the lending desk. *)

At == [i \in Item |-> Where(i)]
Wanted == [i \in Item |-> {req[r].requester : r \in OpenOn(i)}]

\* The mapped variables of an item whose row, ledger and requests a step leaves
\* alone, or whose ledger gets an event that moves nothing.
LEMMA WhereStays ==
  ASSUME TypeOK, NEW i \in Item, row'[i] = row[i],
         log'[i] = log[i] \/ (log[i] # <<>> /\ log'[i] # <<>>)
  PROVE  Where(i)' = Where(i)
BY DEF Where

\* Where the row of a living item puts it.
LEMMA WhereIs ==
  ASSUME TypeOK, RowsExclusive, NEW i \in Item
  PROVE  /\ row[i] # NoRow => Where(i) \in Bin \cup User /\ log[i] # <<>>
         /\ InBin(row[i]) => Where(i) = row[i].bin /\ Where(i) \in Bin
         /\ CheckedOut(row[i]) => Where(i) = row[i].heldBy /\ Where(i) \in User
<1>1. row[i] \in Row /\ NoRow.bin = None /\ NoRow.heldBy = None
  BY DEF TypeOK, NoRow
<1>2. /\ row[i] = NoRow \/ InBin(row[i]) \/ CheckedOut(row[i])
      /\ log[i] = <<>> => row[i] = NoRow
  BY DEF RowsExclusive
<1> QED
  BY <1>1, <1>2 DEF Where, InBin, CheckedOut, Row

\* The people who wait for an item after its requests have changed or not.
LEMMA WantedStays ==
  ASSUME NEW i \in Item, \A r \in RequestId :
           \/ req'[r] = req[r]
           \/ /\ ~(req[r].status = "open" /\ req[r].item = i)
              /\ ~(req'[r].status = "open" /\ req'[r].item = i)
  PROVE  Wanted[i]' = Wanted[i]
BY DEF Wanted, OpenOn

LEMMA DeskInit == Init => Desk!Init
<1> SUFFICES ASSUME Init PROVE Desk!Init
  OBVIOUS
<1>1. \A i \in Item : Where(i) = "unborn"
  BY DEF Init, Where
<1>2. \A i \in Item : OpenOn(i) = {}
  BY DEF Init, OpenOn, NoRequest
<1> QED
  BY <1>1, <1>2 DEF Desk!Init

\* A step that moves one item at most, and to a place where it is found.
LEMMA AtAfter ==
  ASSUME TypeOK, NEW i \in Item, NEW e \in Event, Logs(i, e),
         \A j \in Item : j # i => row'[j] = row[j], row'[i] # row[i]
  PROVE  At' = [At EXCEPT ![i] = IF row'[i].bin # None THEN row'[i].bin
                                 ELSE IF row'[i].heldBy # None THEN row'[i].heldBy ELSE "gone"]
<1>1. log'[i] # <<>>
  BY DEF Logs, TypeOK
<1>2. \A j \in Item : j # i => log'[j] = log[j]
  BY DEF Logs
<1> QED
  BY <1>1, <1>2 DEF At, Where

LEMMA AtStays ==
  ASSUME TypeOK, RowsExclusive, UNCHANGED row,
         UNCHANGED log \/ \E i \in Item, e \in Event : Logs(i, e) /\ row[i] # NoRow
  PROVE  At' = At
<1>1. ASSUME NEW j \in Item PROVE Where(j)' = Where(j)
  <2>1. log'[j] = log[j] \/ (log[j] # <<>> /\ log'[j] # <<>>)
    BY DEF Logs, TypeOK, RowsExclusive
  <2> QED
    BY <2>1, WhereStays
<1> QED
  BY <1>1 DEF At

\* The wishes of the items that a step does not name.
LEMMA WantedAfter ==
  ASSUME NEW i \in Item, NEW w, Wanted[i]' = w,
         \A r \in RequestId : \/ req'[r] = req[r]
                              \/ /\ req[r].status = "open" => req[r].item = i
                                 /\ req'[r].status = "open" => req'[r].item = i
  PROVE  Wanted' = [Wanted EXCEPT ![i] = w]
<1>1. \A j \in Item : j # i => Wanted[j]' = Wanted[j]
  BY WantedStays
<1> QED
  BY <1>1 DEF Wanted

\* Each of the seven changes is a step of the desk, or none that it can see.
LEMMA DeskNext ==
  ASSUME TypeOK, RowsExclusive, Lending, LedgerStep
  PROVE  Desk!Next \/ (At' = At /\ Wanted' = Wanted)
<1>0. /\ None \notin Bin /\ None \notin User /\ NoRow.bin = None /\ NoRow.heldBy = None
      /\ NoRequest.status = "none" /\ NoRequest.item = None /\ RequestsPlaced /\ OneOpenEach
      /\ \A r \in RequestId : req[r] \in Request
  BY CustodyAssumption DEF NoRow, NoRequest, Lending, TypeOK
<1>w. ASSUME req' = req PROVE Wanted' = Wanted
  BY <1>w DEF Wanted, OpenOn
<1>d. /\ \A i \in Item : At[i] = Where(i)
      /\ \A i \in Item : Wanted[i] = {req[r].requester : r \in OpenOn(i)}
  BY DEF At, Wanted
<1>1. CASE Quiet
  BY <1>1, <1>w, AtStays DEF Quiet
<1>2. ASSUME NEW i \in Item, EditStep(i) PROVE At' = At /\ Wanted' = Wanted
  <2>1. PICK e \in Event : Logs(i, e) /\ row[i] # NoRow /\ UNCHANGED <<row, req>>
    BY <1>2 DEF EditStep
  <2> QED
    BY <1>w, <2>1, AtStays
<1>3. ASSUME NEW i \in Item, IntroduceStep(i) PROVE Desk!Next
  <2>1. PICK e \in Event, b \in Bin :
          /\ log[i] = <<>> /\ Logs(i, e) /\ UNCHANGED req
          /\ Rewrites(i, [bin |-> b, heldBy |-> None, placedAt |-> e.at])
    BY <1>3 DEF IntroduceStep
  <2>2. At[i] = "unborn"
    BY <1>d, <2>1 DEF Where
  <2>3. row[i] = NoRow /\ row'[i].bin = b /\ row'[i] # row[i]
    BY <1>0, <2>1 DEF RowsExclusive, Rewrites
  <2>4. At' = [At EXCEPT ![i] = b]
    BY <1>0, <2>1, <2>3, AtAfter DEF Rewrites
  <2>5. Desk!Introduce(i, b)
    BY <1>w, <2>1, <2>2, <2>4 DEF Desk!Introduce, At, Wanted
  <2> QED
    BY <2>5 DEF Desk!Next
<1>4. ASSUME NEW i \in Item, TakeStep(i) PROVE Desk!Next
  <2>1. PICK e \in Event :
          /\ e.actor \in User /\ InBin(row[i]) /\ Logs(i, e) /\ UNCHANGED req
          /\ Rewrites(i, [bin |-> None, heldBy |-> e.actor, placedAt |-> e.at])
    BY <1>4 DEF TakeStep
  <2>2. At[i] \in Bin
    BY <1>d, <2>1, WhereIs
  <2>3. row'[i].bin = None /\ row'[i].heldBy = e.actor /\ row'[i] # row[i]
    BY <1>0, <2>1 DEF InBin, Rewrites
  <2>4. At' = [At EXCEPT ![i] = e.actor]
    BY <1>0, <2>1, <2>3, AtAfter DEF Rewrites
  <2>5. Desk!Take(i, e.actor)
    BY <1>w, <2>1, <2>2, <2>4 DEF Desk!Take, At, Wanted
  <2> QED
    BY <2>1, <2>5 DEF Desk!Next
<1>5. ASSUME NEW i \in Item, PutStep(i) PROVE Desk!Next
  <2>1. PICK e \in Event :
          /\ e.bin \in Bin /\ CheckedOut(row[i]) /\ Logs(i, e) /\ FulfillOpenForItem(i)
          /\ Rewrites(i, [bin |-> e.bin, heldBy |-> None, placedAt |-> e.at])
    BY <1>5 DEF PutStep
  <2>2. At[i] \in User
    BY <1>d, <2>1, WhereIs
  <2>3. row'[i].bin = e.bin /\ row'[i] # row[i]
    BY <1>0, <2>1 DEF CheckedOut, Rewrites
  <2>4. At' = [At EXCEPT ![i] = e.bin]
    BY <1>0, <2>1, <2>3, AtAfter DEF Rewrites
  <2>5. ASSUME NEW r \in RequestId
        PROVE  \/ req'[r] = req[r] /\ ~(req[r].status = "open" /\ req[r].item = i)
               \/ /\ req[r].status = "open" /\ req[r].item = i
                  /\ req'[r].status # "open"
    <3>1. [req[r] EXCEPT !.status = "fulfilled"].status = "fulfilled"
      BY <1>0, SettledRequest
    <3> QED
      BY <2>1, <3>1 DEF FulfillOpenForItem, OpenOn
  <2>6. Wanted[i]' = {}
    BY <2>5 DEF Wanted, OpenOn
  <2>7. Wanted' = [Wanted EXCEPT ![i] = {}]
    BY <2>5, <2>6, WantedAfter
  <2>8. Desk!PutBack(i, e.bin)
    BY <2>2, <2>4, <2>7 DEF Desk!PutBack, At, Wanted
  <2> QED
    BY <2>1, <2>8 DEF Desk!Next
<1>6. ASSUME NEW i \in Item, DestroyStep(i) PROVE Desk!Next
  <2>1. PICK e \in Event :
          row[i] # NoRow /\ Logs(i, e) /\ CascadeToRequests(i) /\ Rewrites(i, NoRow)
    BY <1>6 DEF DestroyStep
  <2>2. At[i] \in Bin \cup User
    BY <1>d, <2>1, WhereIs
  <2>3. At' = [At EXCEPT ![i] = "gone"]
    BY <1>0, <2>1, AtAfter DEF Rewrites
  <2>4. \A r \in RequestId : \/ req'[r] = req[r] /\ req[r].item # i
                             \/ req[r].item = i /\ req'[r].status # "open"
    BY <1>0, <2>1 DEF CascadeToRequests
  <2>5. Wanted[i]' = {}
    BY <2>4 DEF Wanted, OpenOn
  <2>6. Wanted' = [Wanted EXCEPT ![i] = {}]
    BY <2>4, <2>5, WantedAfter
  <2>7. Desk!Destroy(i)
    BY <2>2, <2>3, <2>6 DEF Desk!Destroy, At, Wanted
  <2> QED
    BY <2>7 DEF Desk!Next
<1>7. ASSUME NEW i \in Item, NEW r \in RequestId, AskStep(i, r) PROVE Desk!Next
  <2>1. PICK e \in Event, s \in Session :
          /\ Logs(i, e) /\ UNCHANGED row /\ row[i] # NoRow
          /\ req[r] = NoRequest
          /\ req'[r] = [status |-> "open", item |-> i, requester |-> e.actor,
                        holder |-> op[s].seen.heldBy, asked |-> Len(log[i]) + 1]
          /\ \A q \in RequestId : q # r => req'[q] = req[q]
          /\ \A q \in OpenOn(i) : req[q].requester # e.actor
    BY <1>7, AskedRequest
  <2>2. e.actor \in User
    <3>1. \E f \in Event : f.actor \in User /\ Logs(i, f)
      BY <1>7 DEF AskStep
    <3> QED
      BY <2>1, <3>1 DEF Logs
  <2>3. At' = At /\ At[i] \in Bin \cup User
    BY <1>d, <2>1, AtStays, WhereIs
  <2>4. e.actor \notin Wanted[i]
    BY <1>d, <2>1
  <2>5. Wanted[i]' = Wanted[i] \cup {e.actor}
    <3>1. OpenOn(i)' = OpenOn(i) \cup {r} /\ r \notin OpenOn(i)
      BY <1>0, <2>1 DEF OpenOn
    <3>2. Wanted[i]' = {req'[q].requester : q \in OpenOn(i) \cup {r}}
      BY <3>1 DEF Wanted
    <3>3. \A q \in OpenOn(i) : req'[q].requester = req[q].requester
      BY <2>1, <3>1 DEF OpenOn
    <3>4. req'[r].requester = e.actor
      BY <2>1
    <3> QED
      BY <1>d, <3>2, <3>3, <3>4
  <2>6. Wanted' = [Wanted EXCEPT ![i] = Wanted[i] \cup {e.actor}]
    BY <1>0, <2>1, <2>5, WantedAfter
  <2>7. Desk!Ask(i, e.actor)
    BY <2>3, <2>4, <2>6 DEF Desk!Ask, At, Wanted
  <2> QED
    BY <2>2, <2>7 DEF Desk!Next
<1>8. ASSUME NEW i \in Item, NEW r \in RequestId, WithdrawStep(i, r) PROVE Desk!Next
  <2>1. PICK e \in Event :
          /\ Logs(i, e) /\ UNCHANGED row /\ req[r].item = i
          /\ req[r].status = "open" /\ req[r].requester = e.actor
          /\ req' = [req EXCEPT ![r].status = "cancelled"]
    BY <1>8 DEF WithdrawStep, CancelOpen
  <2>2. row[i] # NoRow /\ e.actor \in User
    BY <1>0, <2>1 DEF RequestsPlaced
  <2>3. At' = At
    BY <2>1, <2>2, AtStays
  <2>4. r \in OpenOn(i) /\ e.actor \in Wanted[i]
    BY <1>d, <2>1 DEF OpenOn
  <2>5. req'[r].status = "cancelled" /\ \A q \in RequestId : q # r => req'[q] = req[q]
    BY <1>0, <2>1, SettledRequest DEF TypeOK
  <2>6. Wanted[i]' = Wanted[i] \ {e.actor}
    <3>1. OpenOn(i)' = OpenOn(i) \ {r}
      BY <2>5 DEF OpenOn
    <3>2. Wanted[i]' = {req'[q].requester : q \in OpenOn(i) \ {r}}
      BY <3>1 DEF Wanted
    <3>3. \A q \in OpenOn(i) \ {r} : req'[q].requester = req[q].requester /\ req[q].requester # e.actor
      BY <1>0, <2>1, <2>5 DEF OpenOn, OneOpenEach
    <3> QED
      BY <1>d, <2>1, <2>4, <3>2, <3>3
  <2>7. Wanted' = [Wanted EXCEPT ![i] = Wanted[i] \ {e.actor}]
    BY <2>1, <2>5, <2>6, WantedAfter
  <2>8. Desk!Withdraw(i, e.actor)
    BY <2>3, <2>4, <2>7 DEF Desk!Withdraw, At, Wanted
  <2> QED
    BY <2>2, <2>8 DEF Desk!Next
<1> QED
  BY <1>1, <1>2, <1>3, <1>4, <1>5, <1>6, <1>7, <1>8 DEF LedgerStep

\* The concurrent transactions implement the lending desk: each commit is one of
\* its six steps, whatever the interleaving, and nothing else moves an item.
THEOREM CustodyImplementsDesk == Spec => ImplementsDesk
<1>1. Told /\ [Next]_vars => [Desk!Next]_(Desk!vars)
  <2> SUFFICES ASSUME Told, [Next]_vars PROVE Desk!Next \/ UNCHANGED Desk!vars
    OBVIOUS
  <2>1. LedgerStep /\ TypeOK /\ RowsExclusive /\ Lending
    BY NextIsLedgerStep DEF Told, Kept, Sound, Locking
  <2> QED
    BY <2>1, DeskNext DEF Desk!vars, At, Wanted
<1> QED
  BY <1>1, DeskInit, ToldAlways, PTL DEF Spec, ImplementsDesk, Desk!Spec
=============================================================================
