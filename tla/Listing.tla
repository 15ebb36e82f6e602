------------------------------- MODULE Listing -------------------------------
(***************************************************************************)
(* Paging through the bins, the items or the locations over the api: every *)
(* request reads the whole sorted list, and "page" takes a window of it    *)
(* behind the row that the cursor names by sort key and id.                *)
(***************************************************************************)
EXTENDS Naturals, SequencesExt

CONSTANTS Id,          \* row ids, which are ordered: a set of numbers
          Name,        \* sort keys: a set of numbers
          Limit,       \* rows per page
          None, Gone   \* a row not made yet, a deleted row

VARIABLES row,       \* the sort key of each row
          reader,    \* a caller who follows next_cursor from page to page
          steady     \* rows left alone since before his first page
vars == <<row, reader, steady>>

-----------------------------------------------------------------------------
Live == {i \in Id : row[i] \in Name}
Key(i) == <<row[i], i>>

Ahead(k, l) == k[1] < l[1] \/ (k[1] = l[1] /\ k[2] < l[2])

\* ORDER BY name, id.
Sorted ==
  CHOOSE order \in [1..Cardinality(Live) -> Live] :
    \A i, j \in DOMAIN order : i < j => Ahead(Key(order[i]), Key(order[j]))

\* Mutant of Start: a lost anchor begins the list again.
StartOver(rows, cursor) ==
  IF cursor = None \/ ~\E n \in DOMAIN rows : Key(rows[n]) = cursor THEN 0
  ELSE CHOOSE n \in DOMAIN rows : Key(rows[n]) = cursor

\* The rows before the window: up to the anchor, or all when it is lost.
Start(rows, cursor) ==
  IF cursor = None THEN 0
  ELSE IF \E n \in DOMAIN rows : Key(rows[n]) = cursor
  THEN CHOOSE n \in DOMAIN rows : Key(rows[n]) = cursor
  ELSE Len(rows)

Lost == reader.cursor # None /\ \A i \in Live : Key(i) # reader.cursor

\* Mutant of NextCursor: it names the row the next page should begin with.
NextCursorAhead(rows, end) == IF end >= Len(rows) THEN None ELSE Key(rows[end + 1])

\* The cursor behind a window that ends at "end": its own last row.
NextCursor(rows, end) == IF end >= Len(rows) THEN None ELSE Key(rows[end])

Window(rows, start) == [n \in 1..Min({Limit, Len(rows) - start}) |-> rows[start + n]]

-----------------------------------------------------------------------------
ReadPage ==
  LET rows  == Sorted
      start == Start(rows, reader.cursor)
  IN  /\ ~reader.done
      /\ reader' = [shown  |-> reader.shown \o Window(rows, start),
                    cursor |-> NextCursor(rows, start + Limit),
                    done   |-> NextCursor(rows, start + Limit) = None,
                    lost   |-> Lost]
      /\ steady' = IF reader.shown = <<>> THEN Live ELSE steady
      /\ UNCHANGED row

Insert(i, n) ==
  /\ row[i] = None
  /\ row' = [row EXCEPT ![i] = n]
  /\ UNCHANGED <<reader, steady>>

Rename(i, n) ==
  /\ i \in Live /\ row[i] # n
  /\ row' = [row EXCEPT ![i] = n]
  /\ steady' = steady \ {i}
  /\ UNCHANGED reader

Delete(i) ==
  /\ i \in Live
  /\ row' = [row EXCEPT ![i] = Gone]
  /\ steady' = steady \ {i}
  /\ UNCHANGED reader

Unread == [shown |-> <<>>, cursor |-> None, done |-> FALSE, lost |-> FALSE]

Init ==
  /\ row \in [Id -> Name \cup {None}]
  /\ reader = Unread
  /\ steady = {}

Next ==
  \/ ReadPage
  \/ \E i \in Id : Delete(i) \/ \E n \in Name : Insert(i, n) \/ Rename(i, n)

Spec == Init /\ [][Next]_vars

-----------------------------------------------------------------------------
\* "An insert before the anchor can never shift or duplicate a page": no
\* edit of other rows, and no loss of the anchor, shows a row twice that
\* was itself left alone.
NoRowTwice ==
  \A i, j \in DOMAIN reader.shown :
    reader.shown[i] = reader.shown[j] /\ reader.shown[i] \in steady => i = j

\* Nor does it hide one: who has come to the end without losing an anchor
\* to an edit has seen every row that was left alone.
WholeUnlessLost == reader.done /\ ~reader.lost => steady \subseteq ToSet(reader.shown)
=============================================================================
