---------------------------- MODULE OutboxProofs ----------------------------
(***************************************************************************)
(* Theorems about Outbox, for any notices, dispatchers, batch size and     *)
(* attempt caps: the types, that a row has one carrier, that the messages  *)
(* are bounded by the calls counted, that in-app rows are left alone, and  *)
(* that an accepted message is not handed to Send again.  They share one   *)
(* inductive invariant, Kept.                                              *)
(***************************************************************************)
EXTENDS Outbox, TLAPS

-----------------------------------------------------------------------------
(* The inductive invariant. *)

\* A row is inserted only once: until its INSERT there is nothing in its place.
NotYetInserted ==
  \A n \in Notice :
    /\ notifier[n] # "done" =>
         row[<<n, "email">>] = NoRow /\ sends[<<n, "email">>] = 0 /\ <<n, "email">> \notin accepted
    /\ notifier[n] \in {"quiet", "raised", "in_app", "in_app, email"} => row[<<n, "in_app">>] = NoRow

\* A dispatcher that is down, or between two rows, works on none, and the row
\* it works on has left the batch.
WorkIsInOrder ==
  \A d \in Dispatcher :
    /\ run[d].state = "down" => run[d].batch = {}
    /\ run[d].state = "down" => run[d].cur = None
    /\ run[d].cur = None <=> run[d].stage = "idle"
    /\ run[d].cur \notin run[d].batch

\* What a row has cost so far, by where it is: waiting in the table, waiting in
\* a batch, or at a stage of deliver.
Budget ==
  /\ \A r \in RowId : row[r].status = "pending" => sends[r] <= MostMessages(row[r].attempts) /\ row[r].attempts < MaxAttempts
  /\ \A d \in Dispatcher : \A r \in Carries(d) :
       /\ row[r].attempts < MaxAttempts
       /\ r \in run[d].batch \/ run[d].stage \in {"resolve", "send"} => sends[r] <= MostMessages(row[r].attempts)
       /\ sends[r] <= MostMessages(row[r].attempts + 1)

\* An accepted message is out of the queue: its row is not pending, and whoever
\* carries it is about to mark it.
AcceptedIsOut ==
  \A r \in accepted :
    /\ row[r].status # "pending"
    /\ \A d \in Dispatcher : r \in Carries(d) => r \notin run[d].batch /\ run[d].stage = "mark"

\* sent_at is set on no row that can be claimed.
PendingIsUnstamped == \A r \in RowId : row[r].status = "pending" => ~row[r].stamped

Kept == /\ TypeOK /\ NotYetInserted /\ WorkIsInOrder /\ PendingIsUnstamped
        /\ OneCarrier /\ Budget /\ AcceptedIsOut /\ InAppStaysDelivered

-----------------------------------------------------------------------------
(* Facts about the operators. *)

\* backoffDuration stays within its bound.
LEMMA BackoffBounded == ASSUME NEW a \in Nat PROVE Backoff(a) \in 0..BackoffMax
<1>1. CASE a >= 5
  BY <1>1 DEF Backoff, BackoffMax
<1>2. CASE a = 0
  BY <1>2 DEF Backoff, BackoffMax
<1>3. CASE a = 1
  BY <1>3 DEF Backoff, BackoffMax
<1>4. CASE a = 2
  BY <1>4 DEF Backoff, BackoffMax
<1>5. CASE a = 3
  BY <1>5 DEF Backoff, BackoffMax
<1>6. CASE a = 4
  BY <1>6 DEF Backoff, BackoffMax
<1> QED
  BY <1>1, <1>2, <1>3, <1>4, <1>5, <1>6

LEMMA SomeAttempts == 0 < MaxAttempts
BY OutboxAssumption

\* What a call of Send may add is what one more attempt allows.
LEMMA MessagesGrow ==
  /\ 0 <= MostMessages(0)
  /\ \A a \in Nat : /\ MostMessages(a) \in Nat
                     /\ MostMessages(a + 1) = MostMessages(a) + SdkAttempts
  /\ \A a, b \in Nat : a <= b => MostMessages(a) <= MostMessages(b)
<1> DEFINE k == SdkAttempts
<1>1. k \in Nat
  BY OutboxAssumption
<1>2. 0 <= k * 0
  BY <1>1
<1>3. \A a \in Nat : k * a \in Nat /\ k * (a + 1) = k * a + k
  BY <1>1
<1>4. \A a, b \in Nat : a <= b => k * a <= k * b
  <2> SUFFICES ASSUME NEW a \in Nat, NEW b \in Nat, a <= b PROVE k * a <= k * b
    OBVIOUS
  <2> DEFINE c == b - a
  <2>1. c \in Nat /\ b = a + c
    OBVIOUS
  <2> HIDE DEF c
  <2>2. k * b = k * a + k * c /\ k * c \in Nat /\ k * a \in Nat
    BY <1>1, <2>1
  <2> QED
    BY <2>2
<1> QED
  BY <1>2, <1>3, <1>4 DEF MostMessages

\* The settling calls keep a row a row, and only a cap above the attempts made
\* sends it back to pending.
LEMMA SettledRow ==
  ASSUME NEW r \in Row, r.attempts < MaxAttempts, NEW stage \in {"mark", "reschedule", "fail"}
  PROVE  /\ Settled(stage, r) \in Row
         /\ stage = "mark" => /\ Settled(stage, r).status = r.status
                              /\ Settled(stage, r).attempts = r.attempts
                              /\ Settled(stage, r).stamped
         /\ stage # "mark" => /\ Settled(stage, r).status \in {"pending", "failed"}
                              /\ Settled(stage, r).attempts = r.attempts + 1
                              /\ ~Settled(stage, r).stamped
                              /\ Settled(stage, r).status = "pending" => r.attempts + 1 < MaxAttempts
<1>1. r.attempts \in Nat /\ r.attempts + 1 \in 0..MaxAttempts
  BY OutboxAssumption DEF Row
<1>2. Backoff(r.attempts) \in 0..BackoffMax /\ 0 \in 0..BackoffMax
  BY <1>1, BackoffBounded DEF BackoffMax
<1>3. CASE stage = "mark"
  BY <1>3 DEF Settled, Stamped, Row
<1>4. CASE stage \in {"reschedule", "fail"}
  <2>1. PICK s \in {"pending", "failed"}, w \in 0..BackoffMax :
          /\ Settled(stage, r) = [status |-> s, attempts |-> r.attempts + 1, wait |-> w, stamped |-> FALSE]
          /\ s = "pending" => r.attempts + 1 < MaxAttempts
    <3>1. CASE stage = "reschedule" /\ r.attempts + 1 >= MaxAttempts
      <4>1. Settled(stage, r) = [status |-> "failed", attempts |-> r.attempts + 1, wait |-> 0, stamped |-> FALSE]
        BY <3>1 DEF Settled, Rescheduled
      <4> QED
        BY <1>2, <4>1
    <3>2. CASE stage = "reschedule" /\ ~(r.attempts + 1 >= MaxAttempts)
      <4>1. Settled(stage, r) = [status |-> "pending", attempts |-> r.attempts + 1,
                                 wait |-> Backoff(r.attempts), stamped |-> FALSE]
        BY <3>2 DEF Settled, Rescheduled
      <4>2. r.attempts + 1 < MaxAttempts
        BY <1>1, <3>2, OutboxAssumption
      <4> QED
        BY <1>2, <4>1, <4>2
    <3>3. CASE stage = "fail"
      <4>1. r.attempts + 1 >= 0
        BY <1>1
      <4>2. Settled(stage, r) = [status |-> "failed", attempts |-> r.attempts + 1, wait |-> 0, stamped |-> FALSE]
        BY <3>3, <4>1 DEF Settled, Rescheduled
      <4> QED
        BY <1>2, <4>2
    <3> QED
      BY <1>4, <3>1, <3>2, <3>3
  <2>2. s \in Status
    BY DEF Status
  <2>3. Settled(stage, r) \in Row
    BY <1>1, <2>1, <2>2 DEF Row
  <2> QED
    BY <1>4, <2>1, <2>3
<1> QED
  BY <1>3, <1>4

\* A dispatcher that carries a row is typed, and its current row is one.
LEMMA CarriedRow ==
  ASSUME TypeOK, WorkIsInOrder, NEW d \in Dispatcher
  PROVE  /\ Carries(d) \subseteq RowId
         /\ run[d].stage # "idle" => run[d].cur \in RowId /\ run[d].cur \in Carries(d) /\ run[d].cur # None
         /\ run[d].stage = "idle" => Carries(d) = run[d].batch
         /\ run[d].state = "down" => Carries(d) = {}
<1>1. run[d] \in Run
  BY DEF TypeOK
<1> QED
  BY <1>1 DEF Carries, Run, WorkIsInOrder

\* The fault counter stays within its bound.
LEMMA FaultCounted ==
  ASSUME Kept, faults' = faults \/ (faults < MaxFaults /\ faults' = faults + 1)
  PROVE  faults' \in 0..MaxFaults
<1>1. faults \in 0..MaxFaults /\ MaxFaults \in Nat
  BY OutboxAssumption DEF Kept, TypeOK
<1>2. CASE faults' = faults
  BY <1>1, <1>2
<1>3. CASE faults < MaxFaults /\ faults' = faults + 1
  BY <1>1, <1>3
<1> QED
  BY <1>2, <1>3

LEMMA NoRowIsEmpty == NoRow.status = "none" /\ NoRow.attempts = 0
BY DEF NoRow

LEMMA NoRowIsRow == NoRow \in Row /\ BornInApp \in Row /\ BornEmail \in Row
<1>1. 0 \in 0..MaxAttempts /\ 0 \in 0..BackoffMax
  BY OutboxAssumption DEF BackoffMax
<1>2. NoRow \in Row
  BY <1>1 DEF NoRow, Row, Status
<1> QED
  BY <1>2 DEF BornInApp, BornEmail, Row, Status

-----------------------------------------------------------------------------
(* Every step keeps the invariant. *)

LEMMA KeptInit == ASSUME Init PROVE Kept
<1> USE OutboxAssumption, NoRowIsRow DEF Init
<1>1. TypeOK
  <2>1. Down \in Run
    BY DEF Down, Run
  <2>2. emailOn \in BOOLEAN
    BY Zenon
  <2>3. 0 \in 0..MaxFaults /\ 0 \in 0..MaxAttempts /\ 0 \in 0..MostMessages(MaxAttempts)
    BY MessagesGrow
  <2>4. sends \in [RowId -> 0..MostMessages(MaxAttempts)] /\ row \in [RowId -> Row] /\ run \in [Dispatcher -> Run]
    BY <2>1, <2>3
  <2> QED
    BY <2>2, <2>3, <2>4 DEF TypeOK
<1>2. \A d \in Dispatcher : Carries(d) = {} /\ run[d] = Down
  BY DEF Carries, Down
<1>3. NotYetInserted /\ WorkIsInOrder /\ OneCarrier /\ AcceptedIsOut
  BY <1>2 DEF NotYetInserted, WorkIsInOrder, OneCarrier, AcceptedIsOut, Down, RowId, Channel
<1>4. Budget /\ InAppStaysDelivered /\ PendingIsUnstamped
  BY <1>2 DEF Budget, InAppStaysDelivered, PendingIsUnstamped, NoRow, RowId, Channel
<1> QED
  BY <1>1, <1>3, <1>4 DEF Kept

\* The notifier's own bookkeeping, and the preference: the table is not touched.
LEMMA KeptByBookkeeping ==
  ASSUME Kept, UNCHANGED <<row, run, sends, accepted, lost>>,
         emailOn' \in BOOLEAN, faults' \in 0..MaxFaults,
         notifier' \in [Notice -> {"quiet", "raised", "in_app", "in_app, email", "email", "done"}],
         \A n \in Notice : notifier'[n] # notifier[n] =>
            \/ notifier'[n] = "done"
            \/ notifier[n] \in {"quiet", "raised"} /\ notifier'[n] # "quiet"
  PROVE  Kept'
<1>1. TypeOK'
  BY DEF Kept, TypeOK
<1>2. NotYetInserted'
  BY DEF Kept, NotYetInserted
<1>3. \A d \in Dispatcher : Carries(d)' = Carries(d)
  BY DEF Carries
<1>4. WorkIsInOrder'
  BY DEF Kept, WorkIsInOrder
<1>7. OneCarrier'
  BY DEF Kept, OneCarrier, Carries
<1>6. Budget'
  BY <1>3 DEF Kept, Budget
<1>5. AcceptedIsOut' /\ InAppStaysDelivered' /\ PendingIsUnstamped'
  BY <1>3 DEF Kept, AcceptedIsOut, InAppStaysDelivered, PendingIsUnstamped
<1> QED
  BY <1>1, <1>2, <1>4, <1>5, <1>6, <1>7 DEF Kept

\* An INSERT of the notifier, or one that failed.
LEMMA KeptByEnqueue ==
  ASSUME Kept, NEW n \in Notice, NEW ch \in Channel, NEW next, Enqueue(n, ch, next),
         \/ ch = "in_app" /\ notifier[n] = "in_app" /\ next = "done"
         \/ ch = "in_app" /\ notifier[n] = "in_app, email" /\ next = "email"
         \/ ch = "email" /\ notifier[n] = "email" /\ next = "done"
  PROVE  Kept'
<1> DEFINE new == <<n, ch>>
<1>1. new \in RowId /\ row[new] = NoRow
  BY DEF Kept, NotYetInserted, RowId
<1>2. /\ notifier' = [notifier EXCEPT ![n] = next]
      /\ UNCHANGED <<emailOn, run, sends, accepted, lost>>
      /\ faults' \in 0..MaxFaults
  <2>1. faults' \in 0..MaxFaults
    BY FaultCounted DEF Enqueue
  <2> QED
    BY <2>1 DEF Enqueue, UnchangedByNotifier
<1>3. CASE row' = row
  <2>1. \A m \in Notice : notifier'[m] # notifier[m] => m = n /\ notifier'[m] = next
    BY <1>2 DEF Kept, TypeOK
  <2>2. TypeOK'
    BY <1>2, <1>3 DEF Kept, TypeOK
  <2>3. NotYetInserted'
    BY <1>2, <1>3, <2>1 DEF Kept, NotYetInserted
  <2>4. WorkIsInOrder'
    BY <1>2 DEF Kept, WorkIsInOrder
  <2>6. OneCarrier'
    BY <1>2, <1>3 DEF Kept, OneCarrier, Carries
  <2>7. AcceptedIsOut'
    BY <1>2, <1>3 DEF Kept, AcceptedIsOut, Carries
  <2>8. InAppStaysDelivered' /\ PendingIsUnstamped'
    BY <1>2, <1>3 DEF Kept, InAppStaysDelivered, PendingIsUnstamped, Carries
  <2>5. Budget'
    BY <1>2, <1>3 DEF Kept, Budget, Carries
  <2> QED
    BY <2>2, <2>3, <2>4, <2>5, <2>6, <2>7, <2>8 DEF Kept
<1>4. CASE row' = [row EXCEPT ![new] = Born(ch)]
  <2>1. /\ \A r \in RowId : row'[r] = IF r = new THEN Born(ch) ELSE row[r]
        /\ \A m \in Notice : notifier'[m] = IF m = n THEN next ELSE notifier[m]
    BY <1>1, <1>2, <1>4 DEF Kept, TypeOK
  <2>2. /\ Born(ch).status = IF ch = "in_app" THEN "sent" ELSE "pending"
        /\ Born(ch).stamped = (ch = "in_app") /\ Born(ch).attempts = 0
        /\ Born(ch) \in Row
    BY NoRowIsRow DEF Born, BornInApp, BornEmail, NoRow, Channel
  <2>3. \A d \in Dispatcher : new \notin Carries(d)
    BY <1>1, NoRowIsEmpty DEF Kept, OneCarrier
  <2>4. \A d \in Dispatcher : Carries(d)' = Carries(d) /\ Carries(d) \subseteq RowId
    BY <1>2, CarriedRow DEF Kept, Carries
  <2>5. ch = "email" => sends[new] = 0 /\ new \notin accepted
    BY DEF Kept, NotYetInserted
  <2>6. TypeOK'
    BY <1>2, <1>4, <2>2 DEF Kept, TypeOK
  <2>7. NotYetInserted'
    <3>1. \A m \in Notice : \A c \in Channel : <<m, c>> \in RowId /\ (<<m, c>> = new <=> m = n /\ c = ch)
      BY DEF RowId
    <3>2. \A m \in Notice : notifier'[m] # "done" =>
            row'[<<m, "email">>] = NoRow /\ sends[<<m, "email">>] = 0 /\ <<m, "email">> \notin accepted
      BY <2>1, <3>1 DEF Kept, NotYetInserted, Channel
    <3>3. \A m \in Notice : notifier'[m] \in {"quiet", "raised", "in_app", "in_app, email"} =>
            row'[<<m, "in_app">>] = NoRow
      BY <2>1, <3>1 DEF Kept, NotYetInserted, Channel
    <3> QED
      BY <1>2, <3>2, <3>3 DEF NotYetInserted
  <2>8. WorkIsInOrder' /\ OneCarrier'
    <3>1. WorkIsInOrder'
      BY <1>2 DEF Kept, WorkIsInOrder
    <3>2. \A d \in Dispatcher : \A r \in Carries(d) : row'[r] = row[r]
      BY <2>1, <2>3, <2>4
    <3> QED
      BY <1>2, <3>1, <3>2 DEF Kept, OneCarrier, Carries
  <2>9. Budget'
    <3>1. \A r \in RowId : row'[r].status = "pending" => sends[r] <= MostMessages(row'[r].attempts) /\ row'[r].attempts < MaxAttempts
      <4>1. row'[new].status = "pending" => ch = "email" /\ row'[new].attempts = 0
        BY <1>1, <2>1, <2>2 DEF Channel
      <4>2. row'[new].status = "pending" => sends[new] <= MostMessages(row'[new].attempts) /\ row'[new].attempts < MaxAttempts
        <5>1. 0 <= MostMessages(0)
          BY MessagesGrow
        <5>2. row'[new].status = "pending" => sends[new] = 0 /\ row'[new].attempts = 0
          BY <2>5, <4>1
        <5>3. 0 < MaxAttempts
          BY SomeAttempts
        <5> QED
          BY <5>1, <5>2, <5>3
      <4> QED
        BY <2>1, <4>2 DEF Kept, Budget
    <3>2. \A d \in Dispatcher : \A r \in Carries(d) : row'[r] = row[r]
      BY <2>1, <2>3, <2>4
    <3> QED
      BY <1>2, <3>1, <3>2, <2>4 DEF Kept, Budget
  <2>10. AcceptedIsOut'
    <3>1. accepted \subseteq RowId
      BY DEF Kept, TypeOK
    <3> QED
      BY <1>2, <2>1, <2>2, <2>4, <2>5, <3>1 DEF Kept, AcceptedIsOut, Channel
  <2>11. InAppStaysDelivered'
    BY <1>1, <2>1, <2>2, <2>4 DEF Kept, InAppStaysDelivered, RowId, Channel
  <2>12. PendingIsUnstamped'
    BY <2>1, <2>2 DEF Kept, PendingIsUnstamped, Channel
  <2> QED
    BY <2>12, <2>6, <2>7, <2>8, <2>9, <2>10, <2>11 DEF Kept
<1> QED
  BY <1>3, <1>4 DEF Enqueue

\* A step of one dispatcher that leaves the table alone and takes on no row:
\* what it may do to the counters is what the invariant asks of it.
LEMMA KeptByOneDispatcher ==
  ASSUME Kept, NEW d \in Dispatcher, NEW w \in Run, run' = [run EXCEPT ![d] = w],
         UNCHANGED <<emailOn, notifier, row>>,
         faults' \in 0..MaxFaults, lost' \subseteq RowId,
         w.state = "down" => w.batch = {} /\ w.cur = None,
         w.cur = None <=> w.stage = "idle",
         w.cur \notin w.batch,
         w.batch \subseteq run[d].batch,
         w.batch \cup ({w.cur} \ {None}) \subseteq Carries(d),
         sends' \in [RowId -> 0..MostMessages(MaxAttempts)],
         \A r \in RowId : sends'[r] # sends[r] => r \in Carries(d),
         accepted \subseteq accepted', accepted' \subseteq accepted \cup (Carries(d) \ run[d].batch),
         \A r \in w.batch \cup ({w.cur} \ {None}) :
            /\ r \in w.batch \/ w.stage \in {"resolve", "send"} => sends'[r] <= MostMessages(row[r].attempts)
            /\ sends'[r] <= MostMessages(row[r].attempts + 1)
            /\ r \in accepted' => r \notin w.batch /\ w.stage = "mark"
  PROVE  Kept'
<1>1. /\ \A e \in Dispatcher : run'[e] = IF e = d THEN w ELSE run[e]
      /\ Carries(d) \subseteq RowId
  BY CarriedRow DEF Kept, TypeOK
<1>2. /\ \A e \in Dispatcher \ {d} : Carries(e)' = Carries(e)
      /\ Carries(d)' = w.batch \cup ({w.cur} \ {None})
      /\ \A e \in Dispatcher : Carries(e)' \subseteq Carries(e)
  BY <1>1 DEF Carries
<1>3. \A r \in Carries(d) : row[r].status = "sent" /\ \A e \in Dispatcher \ {d} : r \notin Carries(e)
  BY DEF Kept, OneCarrier
<1>4. TypeOK'
  BY <1>1 DEF Kept, TypeOK
<1>5. NotYetInserted'
  <2>1. \A n \in Notice : notifier[n] # "done" =>
          sends'[<<n, "email">>] = 0 /\ <<n, "email">> \notin accepted'
    <3> SUFFICES ASSUME NEW n \in Notice, notifier[n] # "done"
                 PROVE  sends'[<<n, "email">>] = 0 /\ <<n, "email">> \notin accepted'
      OBVIOUS
    <3>1. <<n, "email">> \in RowId /\ row[<<n, "email">>].status # "sent"
      BY NoRowIsEmpty DEF Kept, NotYetInserted, RowId, Channel
    <3>2. sends[<<n, "email">>] = 0 /\ <<n, "email">> \notin accepted
      BY DEF Kept, NotYetInserted
    <3> QED
      BY <1>3, <3>1, <3>2
  <2> QED
    BY <2>1 DEF Kept, NotYetInserted
<1>6. WorkIsInOrder'
  BY <1>1 DEF Kept, WorkIsInOrder
<1>7. OneCarrier'
  BY <1>2 DEF Kept, OneCarrier
<1>8. Budget'
  <2>1. \A r \in RowId : row[r].status = "pending" => sends'[r] <= MostMessages(row[r].attempts) /\ row[r].attempts < MaxAttempts
    BY <1>3 DEF Kept, Budget
  <2>2. \A r \in Carries(d)' :
          /\ row[r].attempts < MaxAttempts
          /\ r \in run'[d].batch \/ run'[d].stage \in {"resolve", "send"} => sends'[r] <= MostMessages(row[r].attempts)
          /\ sends'[r] <= MostMessages(row[r].attempts + 1)
    BY <1>1, <1>2 DEF Kept, Budget
  <2>3. \A e \in Dispatcher \ {d} : \A r \in Carries(e)' :
          /\ row[r].attempts < MaxAttempts
          /\ r \in run'[e].batch \/ run'[e].stage \in {"resolve", "send"} => sends'[r] <= MostMessages(row[r].attempts)
          /\ sends'[r] <= MostMessages(row[r].attempts + 1)
    <3> SUFFICES ASSUME NEW e \in Dispatcher \ {d}, NEW r \in Carries(e)
                 PROVE  /\ row[r].attempts < MaxAttempts
                        /\ r \in run[e].batch \/ run[e].stage \in {"resolve", "send"} => sends'[r] <= MostMessages(row[r].attempts)
                        /\ sends'[r] <= MostMessages(row[r].attempts + 1)
      BY <1>1, <1>2
    <3>1. r \in RowId /\ sends'[r] = sends[r]
      BY <1>3, CarriedRow DEF Kept
    <3> QED
      BY <3>1 DEF Kept, Budget
  <2> QED
    BY <2>1, <2>2, <2>3 DEF Budget
<1>9. AcceptedIsOut'
  <2> SUFFICES ASSUME NEW r \in accepted'
               PROVE  /\ row[r].status # "pending"
                      /\ \A e \in Dispatcher : r \in Carries(e)' => r \notin run'[e].batch /\ run'[e].stage = "mark"
    BY DEF AcceptedIsOut
  <2>1. row[r].status # "pending"
    BY <1>3 DEF Kept, AcceptedIsOut
  <2>2. r \in Carries(d)' => r \notin run'[d].batch /\ run'[d].stage = "mark"
    BY <1>1, <1>2
  <2>3. \A e \in Dispatcher \ {d} : r \in Carries(e)' => r \notin run'[e].batch /\ run'[e].stage = "mark"
    BY <1>1, <1>2, <1>3 DEF Kept, AcceptedIsOut
  <2> QED
    BY <2>1, <2>2, <2>3
<1>10. InAppStaysDelivered'
  BY <1>2 DEF Kept, InAppStaysDelivered
<1>11. PendingIsUnstamped'
  BY DEF Kept, PendingIsUnstamped
<1> QED
  BY <1>11, <1>4, <1>5, <1>6, <1>7, <1>8, <1>9, <1>10 DEF Kept

\* A batch is claimed from pending rows, which nobody carries.
LEMMA KeptByClaim ==
  ASSUME Kept, NEW d \in Dispatcher, ClaimDue(d)
  PROVE  Kept'
<1>1. PICK B \in Batches :
        /\ row' = Claimed(B)
        /\ \/ run' = [run EXCEPT ![d].batch = B] /\ UNCHANGED <<lost, faults>>
           \/ faults < MaxFaults /\ faults' = faults + 1 /\ lost' = lost \cup B /\ UNCHANGED run
  BY DEF ClaimDue
<1>2. /\ run[d] = [Down EXCEPT !.state = "up"]
      /\ UNCHANGED <<sends, accepted, emailOn, notifier>>
  BY DEF ClaimDue, UnchangedByDispatcher
<1>3. /\ run[d].state = "up" /\ run[d].batch = {} /\ run[d].cur = None /\ run[d].stage = "idle"
      /\ run[d] \in Run
  BY <1>2 DEF Down, Kept, TypeOK
<1>4. \A r \in B : r \in RowId /\ row[r].status = "pending"
  BY DEF Batches, Due
<1>5. \A r \in RowId : /\ row'[r].status = IF r \in B THEN "sent" ELSE row[r].status
                       /\ row'[r].attempts = row[r].attempts /\ row'[r].stamped = row[r].stamped
                       /\ row'[r] \in Row
                       /\ r \notin B => row'[r] = row[r]
  BY <1>1 DEF Claimed, Kept, TypeOK, Row, Status
<1>6. \A e \in Dispatcher : Carries(e) \cap B = {} /\ Carries(e) \subseteq RowId
  BY <1>4, CarriedRow DEF Kept, OneCarrier
<1>7. \A r \in B : ~row[r].stamped /\ r \notin accepted
  BY <1>4 DEF Kept, AcceptedIsOut, PendingIsUnstamped
<1>8. lost' \subseteq RowId /\ faults' \in 0..MaxFaults
  <2>1. faults' \in 0..MaxFaults
    BY <1>1, FaultCounted
  <2> QED
    BY <1>1, <1>4, <2>1 DEF Kept, TypeOK
<1>9. /\ \A e \in Dispatcher : run'[e] \in Run /\ (e # d => run'[e] = run[e])
      /\ run'[d].batch \in {{}, B} /\ run'[d].state = "up" /\ run'[d].cur = None /\ run'[d].stage = "idle"
      /\ run' \in [Dispatcher -> Run]
  <2>1. CASE run' = [run EXCEPT ![d].batch = B]
    <3>1. [run[d] EXCEPT !.batch = B] \in Run
      BY <1>3, <1>4 DEF Run
    <3>2. run' = [run EXCEPT ![d] = [run[d] EXCEPT !.batch = B]]
      BY <2>1 DEF Kept, TypeOK
    <3> QED
      BY <1>3, <3>1, <3>2 DEF Kept, TypeOK, Run
  <2>2. CASE run' = run
    BY <1>3, <2>2 DEF Kept, TypeOK
  <2> QED
    BY <1>1, <2>1, <2>2
<1>10. /\ \A e \in Dispatcher : e # d => Carries(e)' = Carries(e)
       /\ Carries(d)' = run'[d].batch
  BY <1>9 DEF Carries
<1>11. TypeOK'
  <2>1. row' \in [RowId -> Row]
    BY <1>1, <1>5 DEF Claimed
  <2> QED
    BY <1>2, <1>8, <1>9, <2>1 DEF Kept, TypeOK
<1>12. NotYetInserted'
  <2>1. \A r \in RowId : row[r] = NoRow => row'[r] = row[r]
    BY <1>4, <1>5, NoRowIsEmpty
  <2> QED
    BY <1>2, <2>1 DEF Kept, NotYetInserted, RowId, Channel
<1>13. WorkIsInOrder'
  <2>1. None \notin B
    BY <1>4, OutboxAssumption DEF RowId, Channel
  <2> QED
    BY <1>9, <2>1 DEF Kept, WorkIsInOrder
<1>14. PendingIsUnstamped'
  BY <1>5 DEF Kept, PendingIsUnstamped
<1>15. OneCarrier'
  <2> SUFFICES ASSUME NEW e \in Dispatcher, NEW r \in Carries(e)'
               PROVE  /\ row'[r].status = "sent" /\ ~row'[r].stamped
                      /\ \A f \in Dispatcher \ {e} : r \notin Carries(f)'
    BY DEF OneCarrier
  <2>1. CASE r \in B
    <3>1. row'[r].status = "sent" /\ ~row'[r].stamped
      BY <1>4, <1>5, <1>7, <2>1
    <3>2. e = d
      BY <1>6, <1>10, <2>1
    <3> QED
      BY <1>6, <1>10, <2>1, <3>1, <3>2
  <2>2. CASE r \notin B
    <3>1. e # d /\ r \in Carries(e)
      BY <1>9, <1>10, <2>2
    <3>2. row'[r] = row[r]
      BY <1>5, <1>6, <2>2, <3>1
    <3> QED
      BY <1>9, <1>10, <2>2, <3>1, <3>2 DEF Kept, OneCarrier
  <2> QED
    BY <2>1, <2>2
<1>16. Budget'
  <2>1. \A r \in RowId : row'[r].status = "pending" => sends'[r] <= MostMessages(row'[r].attempts) /\ row'[r].attempts < MaxAttempts
    BY <1>2, <1>5 DEF Kept, Budget
  <2>2. \A e \in Dispatcher : \A r \in Carries(e)' :
          /\ row'[r].attempts < MaxAttempts
          /\ r \in run'[e].batch \/ run'[e].stage \in {"resolve", "send"} => sends'[r] <= MostMessages(row'[r].attempts)
          /\ sends'[r] <= MostMessages(row'[r].attempts + 1)
    <3> SUFFICES ASSUME NEW e \in Dispatcher, NEW r \in Carries(e)'
                 PROVE  /\ row'[r].attempts < MaxAttempts
                        /\ r \in run'[e].batch \/ run'[e].stage \in {"resolve", "send"} => sends'[r] <= MostMessages(row'[r].attempts)
                        /\ sends'[r] <= MostMessages(row'[r].attempts + 1)
      OBVIOUS
    <3>1. CASE e = d
      <4>1. r \in B
        BY <1>9, <1>10, <3>1
      <4>2. sends[r] <= MostMessages(row[r].attempts) /\ row[r].attempts < MaxAttempts
        BY <1>4, <4>1 DEF Kept, Budget
      <4>3. sends[r] \in Nat /\ row[r].attempts \in Nat
        <5>1. r \in RowId /\ MaxAttempts \in Nat
          BY <1>4, <4>1, OutboxAssumption
        <5>2. sends[r] \in 0..MostMessages(MaxAttempts) /\ row[r] \in Row
          BY <5>1 DEF Kept, TypeOK
        <5> QED
          BY <5>1, <5>2 DEF Row
      <4>4. sends'[r] = sends[r] /\ row'[r].attempts = row[r].attempts
        BY <1>2, <1>4, <1>5, <4>1
      <4>5. /\ MostMessages(row[r].attempts) \in Nat /\ MostMessages(row[r].attempts + 1) \in Nat
            /\ MostMessages(row[r].attempts) <= MostMessages(row[r].attempts + 1)
        BY <4>3, MessagesGrow
      <4>6. sends[r] <= MostMessages(row[r].attempts + 1)
        BY <4>2, <4>3, <4>5
      <4> QED
        BY <4>2, <4>4, <4>6
    <3>2. CASE e # d
      BY <1>2, <1>5, <1>6, <1>9, <1>10, <3>2 DEF Kept, Budget
    <3> QED
      BY <3>1, <3>2
  <2> QED
    BY <2>1, <2>2 DEF Budget
<1>17. AcceptedIsOut'
  <2>1. accepted \subseteq RowId
    BY DEF Kept, TypeOK
  <2>2. \A r \in accepted : row'[r].status # "pending"
    BY <1>5, <2>1 DEF Kept, AcceptedIsOut
  <2>3. \A r \in accepted : \A e \in Dispatcher : r \in Carries(e)' => r \notin run'[e].batch /\ run'[e].stage = "mark"
    BY <1>7, <1>9, <1>10 DEF Kept, AcceptedIsOut
  <2> QED
    BY <1>2, <2>2, <2>3 DEF AcceptedIsOut
<1>18. InAppStaysDelivered'
  <2>1. \A n \in Notice : <<n, "in_app">> \in RowId /\ <<n, "in_app">> \notin B
    BY <1>4 DEF Kept, InAppStaysDelivered, RowId, Channel
  <2> QED
    <3>1. \A n \in Notice : row'[<<n, "in_app">>] = row[<<n, "in_app">>]
      BY <1>5, <2>1
    <3>2. \A n \in Notice : \A e \in Dispatcher : <<n, "in_app">> \notin Carries(e)'
      BY <1>9, <1>10, <2>1 DEF Kept, InAppStaysDelivered
    <3> QED
      BY <3>1, <3>2 DEF Kept, InAppStaysDelivered
<1> QED
  BY <1>11, <1>12, <1>13, <1>14, <1>15, <1>16, <1>17, <1>18 DEF Kept

\* The row leaves its dispatcher as it is settled: marked, or counted once more.
LEMMA KeptBySettle ==
  ASSUME Kept, NEW d \in Dispatcher, Settle(d)
  PROVE  Kept'
<1> DEFINE r == run[d].cur
           stage == run[d].stage
<1>1. /\ stage \in {"mark", "reschedule", "fail"} /\ run[d].state = "up"
      /\ row' = [row EXCEPT ![r] = Settled(stage, @)]
      /\ run' = [run EXCEPT ![d].cur = None, ![d].stage = "idle"]
      /\ UNCHANGED <<sends, accepted, lost, faults, emailOn, notifier>>
  BY DEF Settle, Settling, NextInBatch, UnchangedByDispatcher
<1>2. /\ r \in RowId /\ r \in Carries(d) /\ r # None /\ Carries(d) \subseteq RowId
      /\ r \notin run[d].batch /\ run[d] \in Run /\ None \notin run[d].batch
  <2>1. run[d] \in Run /\ stage # "idle"
    BY <1>1 DEF Kept, TypeOK
  <2>2. r \in RowId /\ r \in Carries(d) /\ r # None /\ Carries(d) \subseteq RowId
    BY <2>1, CarriedRow DEF Kept
  <2>3. None \notin RowId
    BY OutboxAssumption DEF RowId, Channel
  <2>4. run[d].batch \subseteq RowId
    BY <2>1 DEF Run
  <2> QED
    BY <2>1, <2>2, <2>3, <2>4 DEF Kept, WorkIsInOrder
<1>3. /\ row[r] \in Row /\ row[r].status = "sent" /\ ~row[r].stamped /\ row[r].attempts < MaxAttempts
      /\ sends[r] <= MostMessages(row[r].attempts + 1)
      /\ \A e \in Dispatcher \ {d} : r \notin Carries(e)
  BY <1>2 DEF Kept, TypeOK, OneCarrier, Budget
<1>4. \A q \in RowId : row'[q] = IF q = r THEN Settled(stage, row[r]) ELSE row[q]
  BY <1>1, <1>2 DEF Kept, TypeOK
<1>5. /\ row'[r] \in Row
      /\ stage = "mark" => row'[r].status = "sent" /\ row'[r].attempts = row[r].attempts
      /\ stage # "mark" => /\ row'[r].status \in {"pending", "failed"} /\ ~row'[r].stamped
                           /\ row'[r].attempts = row[r].attempts + 1
                           /\ row'[r].status = "pending" => row'[r].attempts < MaxAttempts
  BY <1>1, <1>2, <1>3, <1>4, SettledRow
<1>6. /\ \A e \in Dispatcher : e # d => run'[e] = run[e]
      /\ run'[d].batch = run[d].batch /\ run'[d].cur = None /\ run'[d].stage = "idle"
      /\ run'[d].state = "up" /\ run' \in [Dispatcher -> Run]
  BY <1>1, <1>2 DEF Kept, TypeOK, Run
<1>7. /\ \A e \in Dispatcher : e # d => Carries(e)' = Carries(e)
      /\ Carries(d)' = run[d].batch
      /\ \A e \in Dispatcher : Carries(e)' \subseteq Carries(e) /\ r \notin Carries(e)'
  BY <1>2, <1>3, <1>6 DEF Carries
<1>8. \A e \in Dispatcher : \A q \in Carries(e)' : q \in RowId /\ row'[q] = row[q]
  BY <1>4, <1>7, CarriedRow DEF Kept
<1>9. TypeOK'
  <2>1. row' \in [RowId -> Row]
    BY <1>1, <1>2, <1>4, <1>5 DEF Kept, TypeOK
  <2> QED
    BY <1>1, <1>6, <2>1 DEF Kept, TypeOK
<1>10. NotYetInserted'
  <2>1. \A q \in RowId : row[q] = NoRow => row'[q] = row[q]
    BY <1>3, <1>4, NoRowIsEmpty
  <2> QED
    BY <1>1, <2>1 DEF Kept, NotYetInserted, RowId, Channel
<1>11. WorkIsInOrder'
  BY <1>2, <1>6 DEF Kept, WorkIsInOrder
<1>12. PendingIsUnstamped'
  BY <1>4, <1>5 DEF Kept, PendingIsUnstamped
<1>13. OneCarrier'
  BY <1>7, <1>8 DEF Kept, OneCarrier
<1>14. Budget'
  <2>1. row'[r].status = "pending" => sends[r] <= MostMessages(row'[r].attempts) /\ row'[r].attempts < MaxAttempts
    BY <1>3, <1>5
  <2>2. \A q \in RowId : row'[q].status = "pending" => sends[q] <= MostMessages(row'[q].attempts) /\ row'[q].attempts < MaxAttempts
    BY <1>4, <2>1 DEF Kept, Budget
  <2>3. \A e \in Dispatcher : \A q \in Carries(e)' :
          /\ row[q].attempts < MaxAttempts
          /\ q \in run'[e].batch \/ run'[e].stage \in {"resolve", "send"} => sends[q] <= MostMessages(row[q].attempts)
          /\ sends[q] <= MostMessages(row[q].attempts + 1)
    BY <1>6, <1>7 DEF Kept, Budget
  <2> QED
    BY <1>1, <1>8, <2>2, <2>3 DEF Budget
<1>15. AcceptedIsOut'
  <2>1. accepted \subseteq RowId
    BY DEF Kept, TypeOK
  <2>2. r \in accepted => stage = "mark"
    BY <1>2 DEF Kept, AcceptedIsOut
  <2>3. \A q \in accepted : row'[q].status # "pending"
    BY <1>4, <1>5, <2>1, <2>2 DEF Kept, AcceptedIsOut
  <2>4. \A q \in accepted : \A e \in Dispatcher : q \in Carries(e)' => q \notin run'[e].batch /\ run'[e].stage = "mark"
    BY <1>6, <1>7 DEF Kept, AcceptedIsOut
  <2> QED
    BY <1>1, <2>3, <2>4 DEF AcceptedIsOut
<1>16. InAppStaysDelivered'
  <2>1. \A n \in Notice : <<n, "in_app">> \in RowId /\ <<n, "in_app">> # r
    BY <1>2 DEF Kept, InAppStaysDelivered, RowId, Channel
  <2>2. \A n \in Notice : row'[<<n, "in_app">>] = row[<<n, "in_app">>]
    BY <1>4, <2>1
  <2> QED
    BY <1>7, <2>2 DEF Kept, InAppStaysDelivered
<1> QED
  BY <1>9, <1>10, <1>11, <1>12, <1>13, <1>14, <1>15, <1>16 DEF Kept

\* The passing of time changes how long a row waits and nothing else.
LEMMA KeptByTick == ASSUME Kept, Tick PROVE Kept'
<1>1. /\ row' = [q \in RowId |-> [row[q] EXCEPT !.wait = IF @ > 0 THEN @ - 1 ELSE 0]]
      /\ UNCHANGED <<run, sends, accepted, lost, faults, emailOn, notifier>>
  BY DEF Tick, UnchangedByDispatcher
<1>2. \A q \in RowId : /\ row'[q] \in Row
                       /\ row'[q].status = row[q].status /\ row'[q].attempts = row[q].attempts
                       /\ row'[q].stamped = row[q].stamped
  <2> SUFFICES ASSUME NEW q \in RowId
               PROVE  /\ row'[q] \in Row
                      /\ row'[q].status = row[q].status /\ row'[q].attempts = row[q].attempts
                      /\ row'[q].stamped = row[q].stamped
    OBVIOUS
  <2>1. row[q] \in Row
    BY DEF Kept, TypeOK
  <2>2. row[q].wait \in 0..BackoffMax
    BY <2>1 DEF Row
  <2>3. PICK w \in 0..BackoffMax : w = IF row[q].wait > 0 THEN row[q].wait - 1 ELSE 0
    BY <2>2 DEF BackoffMax
  <2>4. row'[q] = [row[q] EXCEPT !.wait = w]
    BY <1>1, <2>3
  <2> QED
    BY <2>1, <2>4 DEF Row
<1>3. \A q \in RowId : row[q] = NoRow => row'[q] = NoRow
  BY <1>1 DEF NoRow
<1>4. \A e \in Dispatcher : Carries(e)' = Carries(e) /\ Carries(e) \subseteq RowId
  BY <1>1, CarriedRow DEF Kept, Carries
<1>5. TypeOK'
  <2>1. row' \in [RowId -> Row]
    BY <1>1, <1>2
  <2> QED
    BY <1>1, <2>1 DEF Kept, TypeOK
<1>6. NotYetInserted'
  BY <1>1, <1>3 DEF Kept, NotYetInserted, RowId, Channel
<1>7. WorkIsInOrder' /\ PendingIsUnstamped'
  BY <1>1, <1>2 DEF Kept, WorkIsInOrder, PendingIsUnstamped
<1>8. OneCarrier'
  BY <1>2, <1>4 DEF Kept, OneCarrier
<1>9. Budget'
  BY <1>1, <1>2, <1>4 DEF Kept, Budget
<1>10. AcceptedIsOut'
  <2>1. accepted \subseteq RowId
    BY DEF Kept, TypeOK
  <2> QED
    BY <1>1, <1>2, <1>4, <2>1 DEF Kept, AcceptedIsOut
<1>11. InAppStaysDelivered'
  <2>1. \A n \in Notice : <<n, "in_app">> \in RowId
    BY DEF RowId, Channel
  <2> QED
    BY <1>2, <1>4, <2>1, NoRowIsEmpty DEF Kept, InAppStaysDelivered
<1> QED
  BY <1>5, <1>6, <1>7, <1>8, <1>9, <1>10, <1>11 DEF Kept

\* Every step of a dispatcher that neither claims nor settles.
LEMMA KeptByDispatcher ==
  ASSUME Kept, NEW d \in Dispatcher,
         \/ Start(d) \/ NextRow(d) \/ Resolve(d) \/ SendAccepted(d) \/ SendFails(d)
         \/ SendNotConfigured(d) \/ SettleFails(d) \/ Shutdown(d) \/ Return(d) \/ Crash(d)
  PROVE  Kept'
<1> DEFINE old == run[d]
<1>1. /\ old \in Run /\ run \in [Dispatcher -> Run] /\ sends \in [RowId -> 0..MostMessages(MaxAttempts)]
      /\ accepted \subseteq RowId /\ lost \subseteq RowId /\ faults \in 0..MaxFaults
      /\ MaxAttempts \in Nat
  BY OutboxAssumption DEF Kept, TypeOK
<1>2. /\ old.state = "down" => old.batch = {} /\ old.cur = None
      /\ old.cur = None <=> old.stage = "idle"
      /\ old.cur \notin old.batch
  BY DEF Kept, WorkIsInOrder
<1>3. None \notin RowId /\ old.batch \subseteq RowId /\ old.cur \in RowId \cup {None}
  BY <1>1, OutboxAssumption DEF RowId, Channel, Run
<1>4. Carries(d) = old.batch \cup ({old.cur} \ {None})
  BY DEF Carries
<1>5. \A r \in Carries(d) :
        /\ row[r].attempts < MaxAttempts
        /\ r \in old.batch \/ old.stage \in {"resolve", "send"} => sends[r] <= MostMessages(row[r].attempts)
        /\ sends[r] <= MostMessages(row[r].attempts + 1)
        /\ r \in accepted => r \notin old.batch /\ old.stage = "mark"
  BY DEF Kept, Budget, AcceptedIsOut
<1>6. ASSUME NEW w \in Run, run' = [run EXCEPT ![d] = w],
             UNCHANGED <<emailOn, notifier, row, sends, accepted>>,
             faults' \in 0..MaxFaults, lost' \subseteq RowId,
             w.state = "down" => w.batch = {} /\ w.cur = None,
             w.cur = None <=> w.stage = "idle",
             w.cur \notin w.batch,
             w.batch \subseteq old.batch,
             w.batch \cup ({w.cur} \ {None}) \subseteq Carries(d),
             w.cur # None => \/ w.cur \in old.batch
                             \/ /\ w.cur = old.cur
                                /\ old.stage \in {"resolve", "send"} \/ w.stage = old.stage
      PROVE  Kept'
  <2>1. \A r \in w.batch \cup ({w.cur} \ {None}) :
          /\ r \in w.batch \/ w.stage \in {"resolve", "send"} => sends'[r] <= MostMessages(row[r].attempts)
          /\ sends'[r] <= MostMessages(row[r].attempts + 1)
          /\ r \in accepted' => r \notin w.batch /\ w.stage = "mark"
    <3> SUFFICES ASSUME NEW r \in w.batch \cup ({w.cur} \ {None})
                 PROVE  /\ r \in w.batch \/ w.stage \in {"resolve", "send"} => sends[r] <= MostMessages(row[r].attempts)
                        /\ sends[r] <= MostMessages(row[r].attempts + 1)
                        /\ r \in accepted => r \notin w.batch /\ w.stage = "mark"
      BY <1>6
    <3>1. r \in Carries(d)
      BY <1>6
    <3>2. CASE r \in old.batch
      BY <1>5, <3>1, <3>2
    <3>3. CASE r \notin old.batch
      <4>1. r = w.cur /\ r \notin w.batch /\ (old.stage \in {"resolve", "send"} \/ w.stage = old.stage)
        BY <1>6, <3>3
      <4> QED
        BY <1>5, <3>1, <4>1
    <3> QED
      BY <3>2, <3>3
  <2> QED
    BY <1>1, <1>6, <2>1, KeptByOneDispatcher
<1>7. ASSUME NEW stage \in {"mark", "reschedule"}, old.stage = "send",
             run' = [run EXCEPT ![d].stage = stage],
             UNCHANGED <<emailOn, notifier, row, lost, faults>>,
             NEW out \in 0..SdkAttempts, sends' = [sends EXCEPT ![old.cur] = @ + out],
             accepted' = accepted \cup IF stage = "mark" THEN {old.cur} ELSE {}
      PROVE  Kept'
  <2> DEFINE w == [old EXCEPT !.stage = stage]
  <2>1. /\ w \in Run /\ run' = [run EXCEPT ![d] = w]
        /\ w.state = old.state /\ w.batch = old.batch /\ w.cur = old.cur /\ w.stage = stage
    BY <1>1, <1>7 DEF Run
  <2>2. old.cur \in RowId /\ old.cur \in Carries(d) /\ old.cur # None /\ old.cur \notin old.batch
    BY <1>2, <1>3, <1>4, <1>7
  <2>3. sends[old.cur] <= MostMessages(row[old.cur].attempts) /\ row[old.cur].attempts < MaxAttempts
        /\ sends[old.cur] \in Nat /\ row[old.cur].attempts \in Nat
    <3>1. row[old.cur] \in Row
      BY <2>2 DEF Kept, TypeOK
    <3> QED
      BY <1>1, <1>5, <1>7, <2>2, <3>1 DEF Row
  <2>4. \A r \in RowId : sends'[r] = IF r = old.cur THEN sends[r] + out ELSE sends[r]
    BY <1>1, <1>7, <2>2
  <2>5. sends' \in [RowId -> 0..MostMessages(MaxAttempts)]
    <3> DEFINE a == row[old.cur].attempts
    <3>1. /\ MostMessages(a) \in Nat /\ MostMessages(a + 1) = MostMessages(a) + SdkAttempts
          /\ MostMessages(a + 1) <= MostMessages(MaxAttempts) /\ MostMessages(MaxAttempts) \in Nat
      <4>1. a \in Nat /\ a + 1 \in Nat /\ a + 1 <= MaxAttempts /\ MaxAttempts \in Nat
        BY <1>1, <2>3
      <4> HIDE DEF a
      <4> QED
        BY <4>1, MessagesGrow
    <3>2. sends[old.cur] <= MostMessages(a)
      BY <2>3
    <3> HIDE DEF a
    <3>3. sends[old.cur] + out \in 0..MostMessages(MaxAttempts)
      BY <2>3, <3>1, <3>2, OutboxAssumption
    <3> QED
      BY <1>1, <1>7, <2>2, <3>3
  <2>6. \A r \in w.batch \cup ({w.cur} \ {None}) :
          /\ r \in w.batch \/ w.stage \in {"resolve", "send"} => sends'[r] <= MostMessages(row[r].attempts)
          /\ sends'[r] <= MostMessages(row[r].attempts + 1)
          /\ r \in accepted' => r \notin w.batch /\ w.stage = "mark"
    <3> SUFFICES ASSUME NEW r \in old.batch \cup {old.cur}
                 PROVE  /\ r \in old.batch => sends'[r] <= MostMessages(row[r].attempts)
                        /\ sends'[r] <= MostMessages(row[r].attempts + 1)
                        /\ r \in accepted' => r \notin old.batch /\ stage = "mark"
      BY <1>7, <2>1
    <3>1. r \in RowId /\ r \in Carries(d)
      BY <1>3, <1>4, <2>2
    <3>2. CASE r = old.cur
      <4>1. r \in accepted' => stage = "mark"
        BY <1>5, <1>7, <3>1, <3>2
      <4>2. /\ MostMessages(row[r].attempts) \in Nat
            /\ MostMessages(row[r].attempts + 1) = MostMessages(row[r].attempts) + SdkAttempts
        BY <2>3, <3>2, MessagesGrow
      <4>3. sends'[r] = sends[r] + out /\ sends[r] <= MostMessages(row[r].attempts) /\ sends[r] \in Nat
        BY <2>3, <2>4, <3>1, <3>2
      <4>4. sends'[r] <= MostMessages(row[r].attempts + 1)
        BY <4>2, <4>3, OutboxAssumption
      <4> QED
        BY <2>2, <3>2, <4>1, <4>4
    <3>3. CASE r # old.cur
      BY <1>5, <1>7, <2>4, <3>1, <3>3
    <3> QED
      BY <3>2, <3>3
  <2>7. /\ w.state = "down" => w.batch = {} /\ w.cur = None
        /\ w.cur = None <=> w.stage = "idle"
        /\ w.cur \notin w.batch
    BY <1>2, <1>7, <2>1, <2>2
  <2>8. accepted' \subseteq accepted \cup (Carries(d) \ old.batch)
    BY <1>7, <2>2
  <2>9. /\ \A r \in RowId : sends'[r] # sends[r] => r \in Carries(d)
        /\ w.batch \subseteq old.batch /\ w.batch \cup ({w.cur} \ {None}) \subseteq Carries(d)
    BY <1>4, <2>1, <2>2, <2>4
  <2>10. /\ UNCHANGED <<emailOn, notifier, row>> /\ faults' \in 0..MaxFaults /\ lost' \subseteq RowId
         /\ accepted \subseteq accepted'
    BY <1>1, <1>7
  <2> HIDE DEF w
  <2> QED
    BY <2>1, <2>5, <2>6, <2>7, <2>8, <2>9, <2>10, KeptByOneDispatcher
<1>8. CASE Start(d) \/ Shutdown(d)
  <2>1. PICK st \in {"up", "stopping"} : run' = [run EXCEPT ![d].state = st]
    BY <1>8 DEF Start, Shutdown
  <2> DEFINE w == [old EXCEPT !.state = st]
  <2>2. /\ w \in Run /\ run' = [run EXCEPT ![d] = w]
        /\ w.state = st /\ w.batch = old.batch /\ w.cur = old.cur /\ w.stage = old.stage
    BY <1>1, <2>1 DEF Run
  <2> QED
    BY <1>1, <1>2, <1>4, <1>6, <1>8, <2>2 DEF Start, Shutdown, UnchangedByDispatcher
<1>9. CASE NextRow(d)
  <2>1. PICK r \in old.batch : run' = [run EXCEPT ![d].batch = @ \ {r}, ![d].cur = r, ![d].stage = "resolve"]
    BY <1>9 DEF NextRow
  <2> DEFINE w == [old EXCEPT !.batch = @ \ {r}, !.cur = r, !.stage = "resolve"]
  <2>2. /\ w \in Run /\ run' = [run EXCEPT ![d] = w]
        /\ w.state = old.state /\ w.batch = old.batch \ {r} /\ w.cur = r /\ w.stage = "resolve"
    BY <1>1, <1>3, <2>1 DEF Run
  <2>3. /\ w.state # "down" /\ w.cur # None /\ w.cur \notin w.batch
        /\ w.batch \subseteq old.batch /\ w.batch \cup ({w.cur} \ {None}) \subseteq Carries(d)
        /\ w.cur \in old.batch /\ w.stage # "idle"
    BY <1>2, <1>3, <1>4, <2>2
  <2>4. /\ UNCHANGED <<emailOn, notifier, row, sends, accepted>>
        /\ faults' \in 0..MaxFaults /\ lost' \subseteq RowId
    BY <1>1, <1>9 DEF NextRow, UnchangedByDispatcher
  <2> HIDE DEF w
  <2> QED
    BY <1>6, <2>2, <2>3, <2>4
<1>10. CASE Resolve(d) \/ SendNotConfigured(d)
  <2>1. PICK stage \in {"send", "fail"} : run' = [run EXCEPT ![d].stage = stage]
    BY <1>10 DEF Resolve, SendNotConfigured
  <2>2. old.stage \in {"resolve", "send"}
    BY <1>10 DEF Resolve, SendNotConfigured
  <2> DEFINE w == [old EXCEPT !.stage = stage]
  <2>3. /\ w \in Run /\ run' = [run EXCEPT ![d] = w]
        /\ w.state = old.state /\ w.batch = old.batch /\ w.cur = old.cur /\ w.stage = stage
    BY <1>1, <2>1 DEF Run
  <2> QED
    BY <1>1, <1>2, <1>4, <1>6, <1>10, <2>2, <2>3 DEF Resolve, SendNotConfigured, UnchangedByDispatcher
<1>11. CASE SendAccepted(d)
  <2>1. PICK out \in 0..SdkAttempts : sends' = [sends EXCEPT ![run[d].cur] = @ + out]
    <3>1. PICK k \in 1..SdkAttempts : sends' = [sends EXCEPT ![run[d].cur] = @ + k]
      BY <1>11 DEF SendAccepted
    <3>2. k \in 0..SdkAttempts
      OBVIOUS
    <3> QED
      BY <3>1, <3>2
  <2> QED
    BY <1>7, <1>11, <2>1 DEF SendAccepted, UnchangedByDispatcher
<1>12. CASE SendFails(d)
  <2>1. PICK out \in 0..SdkAttempts : sends' = [sends EXCEPT ![run[d].cur] = @ + out]
    BY <1>12 DEF SendFails
  <2> QED
    BY <1>7, <1>12, <2>1 DEF SendFails, UnchangedByDispatcher
<1>13. CASE SettleFails(d)
  <2> DEFINE w == [old EXCEPT !.cur = None, !.stage = "idle"]
  <2>1. /\ w \in Run /\ run' = [run EXCEPT ![d] = w]
        /\ w.state = old.state /\ w.batch = old.batch /\ w.cur = None /\ w.stage = "idle"
    BY <1>1, <1>13 DEF SettleFails, NextInBatch, Run
  <2>2. faults' \in 0..MaxFaults
    BY <1>13, FaultCounted DEF SettleFails
  <2>3. lost' \subseteq RowId
    BY <1>1, <1>2, <1>3, <1>13 DEF SettleFails, Settling
  <2> QED
    BY <1>1, <1>2, <1>3, <1>4, <1>6, <1>13, <2>1, <2>2, <2>3 DEF SettleFails, UnchangedByDispatcher
<1>14. CASE Return(d) \/ Crash(d)
  <2>1. Down \in Run /\ Down.state = "down" /\ Down.batch = {} /\ Down.cur = None /\ Down.stage = "idle"
    BY DEF Down, Run
  <2>2. faults' \in 0..MaxFaults
    BY <1>14, FaultCounted DEF Return, Crash
  <2>3. lost' \subseteq RowId
    BY <1>1, <1>3, <1>4, <1>14 DEF Return, Crash
  <2> QED
    BY <1>1, <1>6, <1>14, <2>1, <2>2, <2>3 DEF Return, Crash, UnchangedByDispatcher
<1> QED
  BY <1>8, <1>9, <1>10, <1>11, <1>12, <1>13, <1>14

LEMMA KeptByNotifier == ASSUME Kept, NEW n \in Notice, Notify(n) PROVE Kept'
<1>1. /\ notifier \in [Notice -> {"quiet", "raised", "in_app", "in_app, email", "email", "done"}]
      /\ emailOn \in BOOLEAN /\ faults \in 0..MaxFaults
  BY DEF Kept, TypeOK
<1>2. CASE Raise(n) \/ ReadPreference(n) \/ NotifierStops(n)
  <2>1. PICK phase \in {"raised", "in_app", "in_app, email", "done"} :
          /\ notifier' = [notifier EXCEPT ![n] = phase]
          /\ phase = "done" \/ notifier[n] \in {"quiet", "raised"}
    BY <1>2 DEF Raise, ReadPreference, NotifierStops
  <2>2. faults' \in 0..MaxFaults
    BY <1>2, FaultCounted DEF Raise, ReadPreference, NotifierStops
  <2>3. UNCHANGED <<emailOn, row, run, sends, accepted, lost>>
    BY <1>2 DEF Raise, ReadPreference, NotifierStops, UnchangedByNotifier
  <2>4. \A m \in Notice : notifier'[m] # notifier[m] =>
          \/ notifier'[m] = "done"
          \/ notifier[m] \in {"quiet", "raised"} /\ notifier'[m] # "quiet"
    BY <1>1, <2>1
  <2>5. notifier' \in [Notice -> {"quiet", "raised", "in_app", "in_app, email", "email", "done"}]
    BY <1>1, <2>1
  <2> QED
    BY <1>1, <2>2, <2>3, <2>4, <2>5, KeptByBookkeeping
<1>3. CASE EnqueueInApp(n)
  BY <1>3, KeptByEnqueue DEF EnqueueInApp, Channel
<1>4. CASE EnqueueEmail(n)
  BY <1>4, KeptByEnqueue DEF EnqueueEmail, Channel
<1> QED
  BY <1>2, <1>3, <1>4 DEF Notify

LEMMA KeptNext == ASSUME Kept, [Next]_vars PROVE Kept'
<1>1. ASSUME NEW n \in Notice, Notify(n) PROVE Kept'
  BY <1>1, KeptByNotifier
<1>2. ASSUME NEW enabled \in BOOLEAN, SetEmailEnabled(enabled) PROVE Kept'
  <2>1. emailOn' \in BOOLEAN
    BY <1>2 DEF SetEmailEnabled
  <2>2. UNCHANGED <<notifier, row, faults, run, sends, accepted, lost>>
    BY <1>2 DEF SetEmailEnabled, UnchangedByNotifier
  <2> QED
    BY <2>1, <2>2, KeptByBookkeeping DEF Kept, TypeOK
<1>3. ASSUME NEW d \in Dispatcher,
             Start(d) \/ ClaimDue(d) \/ Deliver(d) \/ Shutdown(d) \/ Return(d) \/ Crash(d)
      PROVE  Kept'
  BY <1>3, KeptByClaim, KeptBySettle, KeptByDispatcher DEF Deliver
<1>4. CASE Tick
  BY <1>4, KeptByTick
<1>5. CASE UNCHANGED vars
  <2>1. UNCHANGED <<emailOn, notifier, faults, row, run, sends, accepted, lost>>
    BY <1>5 DEF vars
  <2> QED
    BY <2>1, KeptByBookkeeping DEF Kept, TypeOK
<1> QED
  BY <1>1, <1>2, <1>3, <1>4, <1>5 DEF Next

LEMMA AlwaysKept == Spec => []Kept
<1>1. Init => Kept
  BY KeptInit
<1>2. Kept /\ [Next]_vars => Kept'
  BY KeptNext
<1> QED
  BY <1>1, <1>2, PTL DEF Spec

-----------------------------------------------------------------------------
(* The theorems. *)

\* The rows, the dispatchers and the counters keep their types: the attempts
\* column never passes EMAIL_MAX_ATTEMPTS, and no row is sent more often.
THEOREM TypeCorrect == Spec => []TypeOK
<1>1. Kept => TypeOK
  BY DEF Kept
<1> QED
  BY <1>1, AlwaysKept, PTL

\* However many server processes run, a claimed row is worked on by one of them
\* and looks claimed to the others.
THEOREM RowsHaveOneCarrier == Spec => []OneCarrier
<1>1. Kept => OneCarrier
  BY DEF Kept
<1> QED
  BY <1>1, AlwaysKept, PTL

\* The messages that have reached the provider for a row are no more than the
\* SDK can make of the Send calls the attempts column counts.
THEOREM MessagesAreCounted == Spec => []SendsAreCounted
<1>1. Kept => SendsAreCounted
  <2> SUFFICES ASSUME Kept, NEW r \in RowId
               PROVE  /\ row[r].status = "pending" => sends[r] <= MostMessages(row[r].attempts) /\ row[r].attempts < MaxAttempts
                      /\ sends[r] <= MostMessages(MaxAttempts)
    BY DEF SendsAreCounted
  <2>1. sends[r] \in 0..MostMessages(MaxAttempts)
    BY DEF Kept, TypeOK
  <2> QED
    BY <2>1, OutboxAssumption DEF Kept, Budget
<1> QED
  BY <1>1, AlwaysKept, PTL

\* Nothing the dispatchers do reaches the in-app row of an event.
THEOREM InAppIsLeftAlone == Spec => []InAppStaysDelivered
<1>1. Kept => InAppStaysDelivered
  BY DEF Kept
<1> QED
  BY <1>1, AlwaysKept, PTL

\* Once Send has returned without an error, no later call hands the message over.
THEOREM AcceptedOnlyOnce == Spec => NoSendAfterAcceptance
<1>1. Kept /\ [Next]_vars => [\A r \in accepted : sends'[r] = sends[r]]_vars
  <2> SUFFICES ASSUME Kept, Next, NEW r \in accepted PROVE sends'[r] = sends[r]
    BY DEF Next
  <2>1. r \in RowId /\ sends \in [RowId -> 0..MostMessages(MaxAttempts)]
    BY DEF Kept, TypeOK
  <2>2. ASSUME NEW d \in Dispatcher, SendAccepted(d) \/ SendFails(d) PROVE sends'[r] = sends[r]
    <3>1. run[d].stage = "send"
      BY <2>2 DEF SendAccepted, SendFails
    <3>2. run[d].cur \in Carries(d)
      BY <3>1, CarriedRow DEF Kept
    <3>3. r # run[d].cur
      BY <3>1, <3>2 DEF Kept, AcceptedIsOut
    <3>4. \A q \in RowId : q # run[d].cur => sends'[q] = sends[q]
      BY <2>1, <2>2 DEF SendAccepted, SendFails
    <3> QED
      BY <2>1, <3>3, <3>4
  <2>3. CASE UNCHANGED sends
    BY <2>3
  <2>4. ASSUME NEW d \in Dispatcher,
               \/ Start(d) \/ ClaimDue(d) \/ NextRow(d) \/ Resolve(d) \/ SendNotConfigured(d)
               \/ Settle(d) \/ SettleFails(d) \/ Shutdown(d) \/ Return(d) \/ Crash(d)
        PROVE  UNCHANGED sends
    BY <2>4 DEF Start, ClaimDue, NextRow, Resolve, SendNotConfigured, Settle, SettleFails, Shutdown, Return, Crash
  <2>5. ASSUME NEW n \in Notice, Notify(n) PROVE UNCHANGED sends
    BY <2>5 DEF Notify, Raise, ReadPreference, EnqueueInApp, EnqueueEmail, Enqueue, NotifierStops, UnchangedByNotifier
  <2>6. ASSUME NEW enabled \in BOOLEAN, SetEmailEnabled(enabled) PROVE UNCHANGED sends
    BY <2>6 DEF SetEmailEnabled, UnchangedByNotifier
  <2>7. CASE Tick
    BY <2>7 DEF Tick
  <2> QED
    BY <2>2, <2>3, <2>4, <2>5, <2>6, <2>7 DEF Next, Deliver
<1> QED
  BY <1>1, AlwaysKept, PTL DEF Spec, NoSendAfterAcceptance
=============================================================================
