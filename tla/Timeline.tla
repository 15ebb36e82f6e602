------------------------------ MODULE Timeline ------------------------------
(***************************************************************************)
(* Paging through the history of an item or a bin: ItemEventRepository's   *)
(* keyset query and loadHistoryEventPage.  An event carries the time at    *)
(* which its transaction began and is seen once that has committed.        *)
(***************************************************************************)
EXTENDS Naturals, SequencesExt

CONSTANTS Event,       \* event ids, which are ordered: a set of numbers
          Limit,       \* rows per page
          None,        \* no event, no cursor
          MaxClock     \* bound: the clock

VARIABLES event,     \* item_event rows, committed or not
          reader,    \* a caller who follows next_cursor from page to page
          there,     \* the events that were there when his first page was read
          clock
vars == <<event, reader, there, clock>>

-----------------------------------------------------------------------------
Seen == {e \in Event : event[e] # None /\ event[e].committed}
Key(e) == <<event[e].at, e>>

\* (occurred_at, id) < (occurred_at, id)
Before(k, l) == k[1] < l[1] \/ (k[1] = l[1] /\ k[2] < l[2])

\* ORDER BY occurred_at DESC, id DESC.
NewestFirst(events) ==
  CHOOSE order \in [1..Cardinality(events) -> events] :
    \A i, j \in DOMAIN order : i < j => Before(Key(order[j]), Key(order[i]))

\* Mutant of Rows: the row of the cursor is not left out.
RowsFromCursor(cursor) == NewestFirst({e \in Seen : cursor # None => ~Before(cursor, Key(e))})

\* buildKeysetHistoryQuery, all of its rows.
Rows(cursor) == NewestFirst({e \in Seen : cursor # None => Before(Key(e), cursor)})

More(rows) == Len(rows) > Limit
Page(rows) == IF More(rows) THEN SubSeq(rows, 1, Limit) ELSE rows

\* Mutant of NextCursor: the row that was read beyond the page.
NextCursorBeyond(rows) == IF More(rows) THEN Key(rows[Limit + 1]) ELSE None

NextCursor(rows) == IF More(rows) THEN Key(rows[Limit]) ELSE None

-----------------------------------------------------------------------------
\* A transaction that will append an event begins, and ends.
Begin(e) ==
  /\ event[e] = None
  /\ event' = [event EXCEPT ![e] = [at |-> clock, committed |-> FALSE]]
  /\ UNCHANGED <<reader, there, clock>>

Commit(e) ==
  /\ event[e] # None /\ ~event[e].committed
  /\ event' = [event EXCEPT ![e].committed = TRUE]
  /\ UNCHANGED <<reader, there, clock>>

Abort(e) ==
  /\ event[e] # None /\ ~event[e].committed
  /\ event' = [event EXCEPT ![e] = None]
  /\ UNCHANGED <<reader, there, clock>>

\* LIMIT + 1 rows are read; the last one only tells that there are more.
ReadPage ==
  LET rows == Rows(reader.cursor)
  IN  /\ ~reader.done
      /\ there' = IF reader.shown = <<>> THEN Seen ELSE there
      /\ reader' = [shown  |-> reader.shown \o Page(rows),
                    cursor |-> NextCursor(rows),
                    done   |-> NextCursor(rows) = None]
      /\ UNCHANGED <<event, clock>>

Tick ==
  /\ clock < MaxClock
  /\ clock' = clock + 1
  /\ UNCHANGED <<event, reader, there>>

Unread == [shown |-> <<>>, cursor |-> None, done |-> FALSE]

Init ==
  /\ event = [e \in Event |-> None]
  /\ reader = Unread
  /\ there = {}
  /\ clock = 0

Next == ReadPage \/ Tick \/ \E e \in Event : Begin(e) \/ Commit(e) \/ Abort(e)

Spec == Init /\ [][Next]_vars

-----------------------------------------------------------------------------
\* No event comes twice and none comes out of order, whatever is committed
\* between two pages, with an earlier time too (ListByItem, ListByBin).
ShownNewestFirst ==
  \A i, j \in DOMAIN reader.shown : i < j => Before(Key(reader.shown[j]), Key(reader.shown[i]))

\* The reader who has come to the end has seen every event that was there
\* when he began, with equal times and page boundaries among them.
ShownWhole == reader.done => there \subseteq ToSet(reader.shown)
=============================================================================
