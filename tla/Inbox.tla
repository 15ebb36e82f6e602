------------------------------- MODULE Inbox --------------------------------
(***************************************************************************)
(* The notifications of one member in his browser: the inbox page, the     *)
(* bell in the shell of every page, which loads its count by itself, and   *)
(* the settings page with one email switch per kind of event.  Outbox      *)
(* models how the rows come about; here they arrive.                       *)
(*                                                                         *)
(* A click sends a form; the handler writes, reads the page again, and     *)
(* htmx puts the answer in the place of the element that was on the page   *)
(* when the form was sent.                                                 *)
(***************************************************************************)
EXTENDS Naturals, Sequences, FiniteSets

CONSTANTS Kind,          \* kinds of event
          Request,       \* requests of the page that can be under way
          InboxLimit,    \* inboxListLimit
          None,
          MaxRows        \* bound: notification rows

VARIABLES row,        \* the member's notification rows in the order of created_at
          email,      \* the member's email preference of each kind
          page,       \* the page on the screen
          bell,       \* the bell in its shell
          request,    \* the requests that are under way
          calm        \* since the page was opened nothing was notified, nothing
                      \* failed, and no two requests were under way at once
vars == <<row, email, page, bell, request, calm>>

-----------------------------------------------------------------------------
\* Mutant of Listed: an email row is not listed beside its in-app twin.
ListedInApp ==
  {i \in DOMAIN row : row[i].channel = "in_app" /\ i + InboxLimit > Len(row)}

\* ListForRecipient: the newest rows, of either channel.
Listed == {i \in DOMAIN row : i + InboxLimit > Len(row)}

\* NotificationInbox: each row, and whether it is read; UnreadCount.
InboxView == [i \in Listed |-> row[i].read]
UnreadCount == Cardinality({i \in DOMAIN row : ~row[i].read})

Nowhere == [name |-> "nowhere", shown |-> <<>>]
View(name) == [name |-> name, shown |-> IF name = "inbox" THEN InboxView ELSE email]

\* The bell: a stub that is idle, has asked or has its answer, or a number.
Stub(state) == [state |-> state, count |-> 0]
Count(state) == [state |-> state, count |-> UnreadCount]

Idle == [stage |-> "idle", form |-> None, live |-> FALSE, answer |-> None]
Quiet == \A c \in Request : request[c] = Idle

\* markReadForm and eventSection: what a click on the page sends.
MarkReadForm(i) == [page |-> "inbox", of |-> i, on |-> TRUE]
SwitchForm(k) == [page |-> "settings", of |-> k, on |-> ~page.shown[k]]

-----------------------------------------------------------------------------
\* A notification arrives.
Enqueue(channel) ==
  /\ Len(row) < MaxRows
  /\ row' = Append(row, [channel |-> channel, read |-> FALSE])
  /\ calm' = FALSE
  /\ UNCHANGED <<email, page, bell, request>>

\* GET /notifications, GET /settings/notifications: the new page's bell asks at
\* once.  Bound: while nothing is under way.
Open(name) ==
  /\ Quiet
  /\ page' = View(name) /\ bell' = Stub("asked") /\ calm' = TRUE
  /\ UNCHANGED <<row, email, request>>

\* Badge; an error leaves the stub, which can ask again.
Badge ==
  /\ bell.state = "asked"
  /\ \/ bell' = Count("answered")
     \/ bell' = Stub("stub")
  /\ UNCHANGED <<row, email, page, request, calm>>

\* NotificationBadge takes the place of the stub, and asks no more.
ShowBadge ==
  /\ bell.state = "answered" /\ bell' = [bell EXCEPT !.state = "shown"]
  /\ UNCHANGED <<row, email, page, request, calm>>

-----------------------------------------------------------------------------
(* A click.  Bound: not on a control whose request is under way. *)

Send(c, f) ==
  /\ request[c] = Idle
  /\ \A d \in Request : request[d].live => request[d].form.of # f.of
  /\ request' = [request EXCEPT ![c] = [Idle EXCEPT !.stage = "sent", !.form = f, !.live = TRUE]]
  /\ calm' = (calm /\ Quiet)
  /\ UNCHANGED <<row, email, bell>>

ClickMarkRead(c) ==
  /\ page.name = "inbox" /\ UNCHANGED page
  /\ \E i \in DOMAIN page.shown : ~page.shown[i] /\ Send(c, MarkReadForm(i))

\* The checkbox changes at once.
ClickSwitch(c) ==
  /\ page.name = "settings"
  /\ \E k \in Kind :
       /\ Send(c, SwitchForm(k))
       /\ page' = [page EXCEPT !.shown[k] = ~@]

Becomes(c, stage, answer) == request' = [request EXCEPT ![c].stage = stage, ![c].answer = answer]

\* A statement fails: the answer is an error, which htmx does not put in place.
Fails(c) ==
  /\ request[c].stage \in {"sent", "acted"}
  /\ Becomes(c, "answered", None) /\ calm' = FALSE
  /\ UNCHANGED <<row, email, page, bell>>

\* One row of the member's own: its twin of the other channel stays unread.
MarkRead(i) == row' = [row EXCEPT ![i].read = TRUE]

\* Mutant of SetEmailEnabled: a box that is not ticked sends no field, which is
\* taken for no change.
SetEmailIfTicked(k, on) == email' = [email EXCEPT ![k] = @ \/ on]

SetEmailEnabled(k, on) == email' = [email EXCEPT ![k] = on]

Act(c) ==
  LET f == request[c].form
  IN  /\ request[c].stage = "sent"
      /\ \/ f.page = "inbox" /\ MarkRead(f.of) /\ UNCHANGED email
         \/ f.page = "settings" /\ SetEmailEnabled(f.of, f.on) /\ UNCHANGED row
      /\ Becomes(c, "acted", None)
      /\ UNCHANGED <<page, bell, calm>>

\* Mutant of ReadAnswer: the answer has no content.
ReadAnswerEmpty(c) ==
  /\ request[c].stage = "acted"
  /\ Becomes(c, "answered", None)
  /\ UNCHANGED <<row, email, page, bell, calm>>

\* renderInboxFragment, renderSettings.
ReadAnswer(c) ==
  /\ request[c].stage = "acted"
  /\ Becomes(c, "answered", IF request[c].live THEN View(request[c].form.page) ELSE None)
  /\ UNCHANGED <<row, email, page, bell, calm>>

\* An answer to MarkRead carries an event, on which the bell asks again if it
\* is still a stub.
Triggered(c) ==
  IF request[c].form.page = "inbox" /\ bell.state = "stub" THEN Stub("asked") ELSE bell

\* The element that was replaced takes the target of other answers with it.
Swap(c) ==
  /\ request[c].stage = "answered"
  /\ IF request[c].live /\ request[c].answer # None
     THEN /\ page' = request[c].answer /\ bell' = Triggered(c)
          /\ request' = [d \in Request |-> IF d = c THEN Idle ELSE [request[d] EXCEPT !.live = FALSE, !.answer = None]]
     ELSE /\ request' = [request EXCEPT ![c] = Idle]
          /\ UNCHANGED <<page, bell>>
  /\ UNCHANGED <<row, email, calm>>

-----------------------------------------------------------------------------
Init ==
  /\ row = <<>> /\ email = [k \in Kind |-> FALSE]   \* no preference is stored
  /\ page = Nowhere /\ bell = Stub("stub")
  /\ request = [c \in Request |-> Idle] /\ calm = FALSE

Next ==
  \/ \E channel \in {"in_app", "email"} : Enqueue(channel)
  \/ \E name \in {"inbox", "settings"} : Open(name)
  \/ Badge \/ ShowBadge
  \/ \E c \in Request :
       ClickMarkRead(c) \/ ClickSwitch(c) \/ Fails(c) \/ Act(c) \/ ReadAnswer(c) \/ Swap(c)

Spec == Init /\ [][Next]_vars

-----------------------------------------------------------------------------
\* What a member sees, who does one thing at a time while nothing arrives, is
\* what is stored: each row he has not read, and each switch (Inbox, MarkRead,
\* SetEmailEnabled and their fragments).
OwnNoticesAreCurrent == calm /\ Quiet /\ page.name # "nowhere" => page = View(page.name)

\* The bell may lag behind the clicks (BellShrinks), but only one way: it
\* leaves out no row that is unread, of either channel, and counts none that
\* the list, unless it is full, does not show.
BellNeverTooLow ==
  calm /\ page.name = "inbox" /\ bell.state = "shown" =>
    /\ bell.count >= UnreadCount
    /\ Cardinality(Listed) < InboxLimit => bell.count <= Cardinality(DOMAIN page.shown)

\* The answer to a click that nothing crossed shows what was asked for: the row
\* is read, the switch is as the box was left.
ClickIsObeyed ==
  calm => \A c \in Request :
    LET f == request[c].form
    IN  request[c].answer # None => request[c].answer.shown[f.of] = f.on

\* inbox_web.go of MarkRead: "the sidebar badge [...] refetches and shrinks
\* without a full page reload".  When the answer to his click is on the screen
\* and the bell asks no more, it counts what is unread.
BellShrinks ==
  calm /\ Quiet /\ page.name = "inbox" /\ bell.state = "shown" => bell.count = UnreadCount
=============================================================================
