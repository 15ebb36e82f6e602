------------------------------- MODULE Outbox -------------------------------
(***************************************************************************)
(* Notifications: app.Notifier, which writes one row per enabled channel   *)
(* after a storage transaction has committed, and app.Dispatcher, which    *)
(* claims the pending rows and sends them, of internal/notify.             *)
(*                                                                         *)
(* The notifier runs in the request that committed: it reads the           *)
(* recipient's preference and makes one INSERT per channel, each of which  *)
(* can fail on its own, and nothing is retried.  A dispatcher runs in each *)
(* server process.  It claims a batch in one statement, which makes the    *)
(* rows (sent, sent_at NULL), and carries every row through the calls of   *)
(* deliver: resolve the address, send, and settle with MarkSent or         *)
(* RescheduleOrFail.  All of its calls share the context that Shutdown     *)
(* cancels.  A process may also die between any two calls.                 *)
(*                                                                         *)
(* Time counts in minutes: wait is what is left until next_attempt_at, and *)
(* stamped says that sent_at is set.  Reading the inbox is left out.       *)
(***************************************************************************)
EXTENDS Naturals, FiniteSets

CONSTANTS Notice,       \* facts to notify somebody of, one recipient each
          Dispatcher,   \* one per server process
          None,
          BatchSize,    \* EMAIL_DISPATCH_BATCH_SIZE
          MaxAttempts,  \* EMAIL_MAX_ATTEMPTS
          SdkAttempts,  \* sesRetryMaxAttempts: tries of the AWS SDK within one Send
          MaxFaults     \* bound: crashes and failed database calls

ASSUME OutboxAssumption ==
  /\ None \notin (Notice \X {"in_app", "email"})
  /\ BatchSize \in Nat \ {0} /\ MaxAttempts \in Nat \ {0} /\ SdkAttempts \in Nat \ {0}
  /\ MaxFaults \in Nat

VARIABLES emailOn,   \* the recipient's stored email preference
          notifier,  \* how far the notifier is with each notice
          row,       \* the notification table
          run,       \* what each dispatcher is doing
          sends,     \* per row: messages that reached the provider
          accepted,  \* rows for which a Send call returned no error
          lost,      \* rows whose settling call failed or never ran
          faults
vars == <<emailOn, notifier, row, run, sends, accepted, lost, faults>>

Channel == {"in_app", "email"}
RowId == Notice \X Channel

Status == {"none", "pending", "sent", "failed"}
BackoffMax == 30

\* backoffDuration: one minute doubled per earlier failure, at most thirty.
Backoff(attempts) == IF attempts >= 5 THEN BackoffMax ELSE 2 ^ attempts

Row == [status : Status, attempts : 0..MaxAttempts, wait : 0..BackoffMax,
        stamped : BOOLEAN]
NoRow == [status |-> "none", attempts |-> 0, wait |-> 0, stamped |-> FALSE]

Down == [state |-> "down", batch |-> {}, cur |-> None, stage |-> "idle"]
Run == [state : {"down", "up", "stopping"}, batch : SUBSET RowId, cur : RowId \cup {None},
        stage : {"idle", "resolve", "send", "mark", "reschedule", "fail"}]

\* The rows dispatcher d has claimed and not settled.
Carries(d) == run[d].batch \cup ({run[d].cur} \ {None})

-----------------------------------------------------------------------------
(* The notifier. *)

UnchangedByNotifier == UNCHANGED <<run, sends, accepted, lost>>

\* The storage transaction has committed; ReturnRequested or
\* ReturnRequestsFulfilled runs.
Raise(n) ==
  /\ notifier[n] = "quiet"
  /\ notifier' = [notifier EXCEPT ![n] = "raised"]
  /\ UNCHANGED <<emailOn, row, faults>> /\ UnchangedByNotifier

\* ChannelsFor: in-app always, email by the stored preference.
EffectiveChannels(enabled) == {"in_app"} \cup (IF enabled THEN {"email"} ELSE {})

ReadPreference(n) ==
  /\ notifier[n] = "raised"
  /\ notifier' = [notifier EXCEPT ![n] =
                    IF "email" \in EffectiveChannels(emailOn) THEN "in_app, email" ELSE "in_app"]
  /\ UNCHANGED <<emailOn, row, faults>> /\ UnchangedByNotifier

\* Mutant of BornInApp: every row is born pending.
BornPending == [NoRow EXCEPT !.status = "pending"]

\* An in-app row is its own delivery; an email row is due at once.
BornInApp == [NoRow EXCEPT !.status = "sent", !.stamped = TRUE]
BornEmail == [NoRow EXCEPT !.status = "pending"]

Born(ch) == IF ch = "in_app" THEN BornInApp ELSE BornEmail

\* enqueueChannel: a failed INSERT is logged and the next channel is tried.
Enqueue(n, ch, next) ==
  /\ notifier' = [notifier EXCEPT ![n] = next]
  /\ \/ row' = [row EXCEPT ![<<n, ch>>] = Born(ch)] /\ UNCHANGED faults
     \/ faults < MaxFaults /\ faults' = faults + 1 /\ UNCHANGED row
  /\ UNCHANGED emailOn /\ UnchangedByNotifier

EnqueueInApp(n) ==
  \/ notifier[n] = "in_app" /\ Enqueue(n, "in_app", "done")
  \/ notifier[n] = "in_app, email" /\ Enqueue(n, "in_app", "email")

EnqueueEmail(n) == notifier[n] = "email" /\ Enqueue(n, "email", "done")

\* The preference cannot be read, the request's context is cancelled, or the
\* process dies: the rest of the notification is never made.
NotifierStops(n) ==
  /\ notifier[n] \notin {"quiet", "done"}
  /\ faults < MaxFaults /\ faults' = faults + 1
  /\ notifier' = [notifier EXCEPT ![n] = "done"]
  /\ UNCHANGED <<emailOn, row>> /\ UnchangedByNotifier

SetEmailEnabled(enabled) ==
  /\ emailOn # enabled
  /\ emailOn' = enabled
  /\ UNCHANGED <<notifier, row, faults>> /\ UnchangedByNotifier

-----------------------------------------------------------------------------
(* The dispatcher. *)

UnchangedByDispatcher == UNCHANGED <<emailOn, notifier>>

Start(d) ==
  /\ run[d].state = "down"
  /\ run' = [run EXCEPT ![d].state = "up"]
  /\ UNCHANGED <<row, sends, accepted, lost, faults>> /\ UnchangedByDispatcher

Due == {r \in RowId : row[r].status = "pending" /\ row[r].wait = 0}

\* LIMIT: a batch that is not full leaves nothing due behind.
Batches == {B \in SUBSET Due : /\ Cardinality(B) <= BatchSize
                               /\ Cardinality(B) < BatchSize => B = Due}

\* Mutant of Claimed: the SELECT without its UPDATE.
ClaimedByNobody(B) == row

\* The claim marker: sent, with sent_at still NULL.
Claimed(B) == [r \in RowId |-> IF r \in B THEN [row[r] EXCEPT !.status = "sent"] ELSE row[r]]

\* A tick of Run: DispatchOnce claims.  The statement can commit and its answer
\* be lost: DispatchOnce then only logs the error.
ClaimDue(d) ==
  /\ run[d] = [Down EXCEPT !.state = "up"]
  /\ Due # {}
  /\ \E B \in Batches :
       /\ row' = Claimed(B)
       /\ \/ run' = [run EXCEPT ![d].batch = B] /\ UNCHANGED <<lost, faults>>
          \/ /\ faults < MaxFaults /\ faults' = faults + 1
             /\ lost' = lost \cup B /\ UNCHANGED run
  /\ UNCHANGED <<sends, accepted>> /\ UnchangedByDispatcher

\* The loop over the batch goes on after a shutdown, with a cancelled context.
NextRow(d) ==
  /\ run[d].stage = "idle"
  /\ \E r \in run[d].batch :
       run' = [run EXCEPT ![d].batch = @ \ {r}, ![d].cur = r, ![d].stage = "resolve"]
  /\ UNCHANGED <<row, sends, accepted, lost, faults>> /\ UnchangedByDispatcher

\* Any failure to find the user is terminal, and a cancelled call fails.
Resolve(d) ==
  /\ run[d].stage = "resolve"
  /\ \E found \in BOOLEAN :
       /\ run[d].state = "stopping" => ~found
       /\ run' = [run EXCEPT ![d].stage = IF found THEN "send" ELSE "fail"]
  /\ UNCHANGED <<row, sends, accepted, lost, faults>> /\ UnchangedByDispatcher

\* The provider takes the message and says so.  Each earlier try of the SDK may
\* have delivered it too, and lost its answer.
SendAccepted(d) ==
  /\ run[d].stage = "send" /\ run[d].state = "up"
  /\ \E out \in 1..SdkAttempts : sends' = [sends EXCEPT ![run[d].cur] = @ + out]
  /\ accepted' = accepted \cup {run[d].cur}
  /\ run' = [run EXCEPT ![d].stage = "mark"]
  /\ UNCHANGED <<row, lost, faults>> /\ UnchangedByDispatcher

\* Send returns an error, though any try of the SDK may have delivered.
SendFails(d) ==
  /\ run[d].stage = "send"
  /\ \E out \in 0..SdkAttempts : sends' = [sends EXCEPT ![run[d].cur] = @ + out]
  /\ run' = [run EXCEPT ![d].stage = "reschedule"]
  /\ UNCHANGED <<row, accepted, lost, faults>> /\ UnchangedByDispatcher

\* The no-op sender and an unconfigured SES answer ErrEmailNotConfigured.
SendNotConfigured(d) ==
  /\ run[d].stage = "send"
  /\ run' = [run EXCEPT ![d].stage = "fail"]
  /\ UNCHANGED <<row, sends, accepted, lost, faults>> /\ UnchangedByDispatcher

Stamped(r) == [r EXCEPT !.stamped = TRUE]

\* Mutant of Rescheduled: the cap is compared with the attempts before this one.
RescheduledOnceMore(r, cap) ==
  LET terminal == r.attempts >= cap
  IN  [status |-> IF terminal THEN "failed" ELSE "pending",
       attempts |-> r.attempts + 1,
       wait |-> IF terminal THEN 0 ELSE Backoff(r.attempts),
       stamped |-> FALSE]

\* Mutant of Rescheduled: only the attempt is counted.
RescheduledInPlace(r, cap) == [r EXCEPT !.attempts = @ + 1, !.stamped = FALSE]

\* RescheduleOrFail, with the cap its caller passes.
Rescheduled(r, cap) ==
  LET terminal == r.attempts + 1 >= cap
  IN  [status |-> IF terminal THEN "failed" ELSE "pending",
       attempts |-> r.attempts + 1,
       wait |-> IF terminal THEN 0 ELSE Backoff(r.attempts),
       stamped |-> FALSE]

\* Mutant of Settled: a message that was sent goes back to the queue.
SettledByRetry(stage, r) ==
  IF stage = "fail" THEN Rescheduled(r, 0) ELSE Rescheduled(r, MaxAttempts)

\* What the settling call of a stage writes; forceFail passes the cap 0.
Settled(stage, r) ==
  CASE stage = "mark" -> Stamped(r)
    [] stage = "reschedule" -> Rescheduled(r, MaxAttempts)
    [] stage = "fail" -> Rescheduled(r, 0)

NextInBatch(d) == run' = [run EXCEPT ![d].cur = None, ![d].stage = "idle"]
Settling(d) == run[d].stage \in {"mark", "reschedule", "fail"}

Settle(d) ==
  /\ Settling(d) /\ run[d].state = "up"
  /\ row' = [row EXCEPT ![run[d].cur] = Settled(run[d].stage, @)]
  /\ NextInBatch(d)
  /\ UNCHANGED <<sends, accepted, lost, faults>> /\ UnchangedByDispatcher

\* The settling call fails, always once the context is cancelled; it is logged
\* and the row stays claimed.
SettleFails(d) ==
  /\ Settling(d)
  /\ \/ run[d].state = "stopping" /\ UNCHANGED faults
     \/ faults < MaxFaults /\ faults' = faults + 1
  /\ lost' = lost \cup {run[d].cur}
  /\ NextInBatch(d)
  /\ UNCHANGED <<row, sends, accepted>> /\ UnchangedByDispatcher

\* main cancels the context Run was given.
Shutdown(d) ==
  /\ run[d].state = "up"
  /\ run' = [run EXCEPT ![d].state = "stopping"]
  /\ UNCHANGED <<row, sends, accepted, lost, faults>> /\ UnchangedByDispatcher

Return(d) ==
  /\ run[d] = [Down EXCEPT !.state = "stopping"]
  /\ run' = [run EXCEPT ![d] = Down]
  /\ UNCHANGED <<row, sends, accepted, lost, faults>> /\ UnchangedByDispatcher

\* The process dies, or is killed when the shutdown timeout has passed.
Crash(d) ==
  /\ run[d].state # "down"
  /\ faults < MaxFaults /\ faults' = faults + 1
  /\ lost' = lost \cup Carries(d)
  /\ run' = [run EXCEPT ![d] = Down]
  /\ UNCHANGED <<row, sends, accepted>> /\ UnchangedByDispatcher

Tick ==
  /\ \E r \in RowId : row[r].wait > 0
  /\ row' = [r \in RowId |-> [row[r] EXCEPT !.wait = IF @ > 0 THEN @ - 1 ELSE 0]]
  /\ UNCHANGED <<run, sends, accepted, lost, faults>> /\ UnchangedByDispatcher

-----------------------------------------------------------------------------
Init ==
  /\ emailOn = FALSE
  /\ notifier = [n \in Notice |-> "quiet"]
  /\ row = [r \in RowId |-> NoRow]
  /\ run = [d \in Dispatcher |-> Down]
  /\ sends = [r \in RowId |-> 0]
  /\ accepted = {} /\ lost = {} /\ faults = 0

Notify(n) ==
  Raise(n) \/ ReadPreference(n) \/ EnqueueInApp(n) \/ EnqueueEmail(n) \/ NotifierStops(n)

Deliver(d) ==
  \/ NextRow(d) \/ Resolve(d) \/ SendAccepted(d) \/ SendFails(d) \/ SendNotConfigured(d)
  \/ Settle(d) \/ SettleFails(d)

Next ==
  \/ \E n \in Notice : Notify(n)
  \/ \E enabled \in BOOLEAN : SetEmailEnabled(enabled)
  \/ \E d \in Dispatcher : Start(d) \/ ClaimDue(d) \/ Deliver(d) \/ Shutdown(d) \/ Return(d) \/ Crash(d)
  \/ Tick

\* While a process is up its ticker fires and its calls return; time passes.
\* Nothing promises that a process is ever started, or that a client asks.
Fairness ==
  /\ \A d \in Dispatcher : WF_vars(ClaimDue(d)) /\ WF_vars(Deliver(d)) /\ WF_vars(Return(d))
  /\ WF_vars(Tick)

Spec == Init /\ [][Next]_vars
FairSpec == Spec /\ Fairness

-----------------------------------------------------------------------------
\* What can reach the provider in that many calls of Send.
MostMessages(attempts) == SdkAttempts * attempts

TypeOK ==
  /\ emailOn \in BOOLEAN
  /\ notifier \in [Notice -> {"quiet", "raised", "in_app", "in_app, email", "email", "done"}]
  /\ row \in [RowId -> Row]
  /\ run \in [Dispatcher -> Run]
  /\ sends \in [RowId -> 0..MostMessages(MaxAttempts)]
  /\ accepted \subseteq RowId /\ lost \subseteq RowId
  /\ faults \in 0..MaxFaults

\* A row has at most one dispatcher working on it, and to all others it reads
\* as claimed (domain.Outbox: "sent, sent_at IS NULL IS the claim marker").
OneCarrier ==
  \A d \in Dispatcher : \A r \in Carries(d) :
    /\ row[r].status = "sent" /\ ~row[r].stamped
    /\ \A e \in Dispatcher \ {d} : r \notin Carries(e)

\* The attempts column bounds the calls of Send that a row can still cost, and
\* so the messages: what has reached the provider for a row that can be claimed
\* is what the SDK makes of as many calls as the column counts, each up to
\* SdkAttempts messages, and no row ever gets beyond MaxAttempts calls.
SendsAreCounted ==
  \A r \in RowId :
    /\ row[r].status = "pending" =>
         sends[r] <= MostMessages(row[r].attempts) /\ row[r].attempts < MaxAttempts
    /\ sends[r] <= MostMessages(MaxAttempts)

\* ClaimDue does not ask for the channel: that an in-app row is never e-mailed,
\* retried or failed rests on the way it is born.
InAppStaysDelivered ==
  \A n \in Notice :
    LET r == <<n, "in_app">>
    IN  /\ row[r].status # "none" => row[r].status = "sent" /\ row[r].stamped /\ row[r].attempts = 0
        /\ \A d \in Dispatcher : r \notin Carries(d)

\* A message whose Send has returned without an error is never handed to Send
\* again, whatever becomes of the call that should record it.
NoSendAfterAcceptance == [][\A r \in accepted : sends'[r] = sends[r]]_vars

\* While some server process stays up, a pending email is delivered or failed in
\* the end, unless the call that would have settled it was lost.
StaysUp(d) == <>[](run[d].state = "up")

PendingIsSettled ==
  (\E d \in Dispatcher : StaysUp(d)) =>
    \A r \in RowId :
      (row[r].status = "pending") ~>
        (row[r].status = "failed" \/ row[r].stamped \/ r \in lost)

\* main.go: cancelling the context "signals the dispatcher loop to return after
\* its in-flight batch".  With no database failure and no crash, every row that
\* is claimed and not stamped is still being worked on.
InFlightBatchIsSettled ==
  faults = 0 =>
    \A r \in RowId :
      row[r].status = "sent" /\ ~row[r].stamped => \E d \in Dispatcher : r \in Carries(d)
=============================================================================
