----------------------------- MODULE Relocation -----------------------------
(***************************************************************************)
(* Moving a bin to another location: app.BinMover.Move of                  *)
(* internal/storage, with the item placements, bin deletions and location  *)
(* deletions that run beside it.                                           *)
(*                                                                         *)
(* A move session reads the bin and both locations through the pool (phase *)
(* "read"), takes the bin row FOR UPDATE and judges the move again         *)
(* ("held"), updates the row ("moved"), lists the items that are in the    *)
(* bin ("listed") and commits one moved event for each.  The bin row       *)
(* changes for the others only at the commit.  Placing an item in a bin    *)
(* takes two steps, because its foreign key holds the bin row FOR KEY      *)
(* SHARE from the UPDATE of the item to the commit; taking an item out     *)
(* touches no bin row.  Who may see the bin is Custody's subject.          *)
(***************************************************************************)
EXTENDS Naturals, Sequences, FiniteSets

CONSTANTS Bin, Location, Item, Session,
          None,       \* SQL NULL
          MaxEvents   \* bound: events per item

ASSUME RelocationAssumption ==
  /\ None \notin Bin \cup Location \cup Session
  /\ {"unborn", "deleted"} \cap Location = {}
  /\ MaxEvents \in Nat

VARIABLES place,     \* location rows: "unborn", "there" or "deleted"
          location,  \* bin.location_id; "unborn" or "deleted" where there is no row
          placed,    \* item.current_bin_id; None while somebody holds the item
          entering,  \* the bin an uncommitted placement of the item names
          lock,      \* the session holding the bin row FOR UPDATE
          log,       \* item_event rows of each item, in commit order
          op         \* what each move session is doing
vars == <<place, location, placed, entering, lock, log, op>>

\* at is not a column of an entered event: it remembers where the bin stood.
Event == [kind : {"entered", "left", "moved"}, bin : Bin,
          from : Location \cup {None}, at : Location \cup {None}]

Idle == [phase |-> "idle", bin |-> None, from |-> None, target |-> None, listed |-> {}]
Work == [phase : {"idle", "read", "held", "moved", "listed"}, bin : Bin \cup {None},
         from : Location \cup {None}, target : Location \cup {None}, listed : SUBSET Item]

Stands(b) == location[b] \in Location
There(l) == place[l] = "there"

HasRoom(i) == Len(log[i]) < MaxEvents

-----------------------------------------------------------------------------
(* The move. *)

\* The unlocked reads: MoveTo rejects the bin's own location first, then both
\* locations must be there.
ReadMove(s, b, target) ==
  /\ op[s] = Idle
  /\ Stands(b) /\ location[b] # target
  /\ There(location[b]) /\ There(target)
  /\ op' = [op EXCEPT ![s] = [phase |-> "read", bin |-> b, from |-> location[b],
                              target |-> target, listed |-> {}]]
  /\ UNCHANGED <<place, location, placed, entering, lock, log>>

\* A placement that has updated its item and not yet committed holds the bin
\* row FOR KEY SHARE.
KeyShared(b) == \E i \in Item : entering[i] = b

TakeLock(s) ==
  /\ lock' = [lock EXCEPT ![op[s].bin] = s]
  /\ op' = [op EXCEPT ![s].phase = "held"]
  /\ UNCHANGED <<place, location, placed, entering, log>>

\* Mutant of LockBin: the move is not judged again under the lock.
LockWithoutRecheck(s) ==
  LET b == op[s].bin
  IN  /\ op[s].phase = "read" /\ Stands(b)
      /\ lock[b] = None /\ ~KeyShared(b)
      /\ TakeLock(s)

\* Mutant of LockBin: a lock that key-share holders do not block.
LockBesideKeyShare(s) ==
  LET b == op[s].bin
  IN  /\ op[s].phase = "read" /\ Stands(b)
      /\ lock[b] = None
      /\ location[b] # op[s].target
      /\ TakeLock(s)

\* GetForUpdate waits for other movers and for placements under way; MoveTo
\* runs again on the row it returns.
LockBin(s) ==
  LET b == op[s].bin
  IN  /\ op[s].phase = "read" /\ Stands(b)
      /\ lock[b] = None /\ ~KeyShared(b)
      /\ location[b] # op[s].target
      /\ TakeLock(s)

\* BinRepository.Move: the foreign key wants the target to be there still.
UpdateBin(s) ==
  /\ op[s].phase = "held"
  /\ There(op[s].target)
  /\ op' = [op EXCEPT ![s].phase = "moved"]
  /\ UNCHANGED <<place, location, placed, entering, lock, log>>

\* ListIDsByBin sees the committed placements.
ListItems(s) ==
  /\ op[s].phase = "moved"
  /\ op' = [op EXCEPT ![s].phase = "listed",
                      ![s].listed = {i \in Item : placed[i] = op[s].bin}]
  /\ UNCHANGED <<place, location, placed, entering, lock, log>>

Unlock(s) ==
  /\ op' = [op EXCEPT ![s] = Idle]
  /\ lock' = [b \in Bin |-> IF lock[b] = s THEN None ELSE lock[b]]

MovedEvent(o) == [kind |-> "moved", bin |-> o.bin, from |-> o.from, at |-> o.target]

\* The commit: the new location, and one event for each item that was listed,
\* even for one that has left the bin or was deleted since.
CommitMove(s) ==
  LET o == op[s]
  IN  /\ o.phase = "listed"
      /\ \A i \in o.listed : HasRoom(i)
      /\ location' = [location EXCEPT ![o.bin] = o.target]
      /\ log' = [i \in Item |-> IF i \in o.listed THEN Append(log[i], MovedEvent(o)) ELSE log[i]]
      /\ Unlock(s)
      /\ UNCHANGED <<place, placed, entering>>

\* A guard that fails, a database error, a cancelled context, a dead server.
AbandonMove(s) ==
  /\ op[s].phase # "idle"
  /\ Unlock(s)
  /\ UNCHANGED <<place, location, placed, entering, log>>

-----------------------------------------------------------------------------
(* Items enter and leave the bin beside it. *)

\* The UPDATE or INSERT of an item row that names b: its key-share lock waits
\* for a FOR UPDATE on the bin row.
PlaceItem(i, b) ==
  /\ placed[i] = None /\ entering[i] = None
  /\ Stands(b) /\ lock[b] = None
  /\ entering' = [entering EXCEPT ![i] = b]
  /\ UNCHANGED <<place, location, placed, lock, log, op>>

CommitPlacement(i) ==
  LET b == entering[i]
  IN  /\ b # None /\ HasRoom(i)
      /\ placed' = [placed EXCEPT ![i] = b]
      /\ entering' = [entering EXCEPT ![i] = None]
      /\ log' = [log EXCEPT ![i] = Append(@, [kind |-> "entered", bin |-> b, from |-> None,
                                              at |-> location[b]])]
      /\ UNCHANGED <<place, location, lock, op>>

RollbackPlacement(i) ==
  /\ entering[i] # None
  /\ entering' = [entering EXCEPT ![i] = None]
  /\ UNCHANGED <<place, location, placed, lock, log, op>>

\* Checking an item out, or deleting it, in one step: it locks no bin row.
TakeItem(i) ==
  /\ placed[i] # None /\ HasRoom(i)
  /\ placed' = [placed EXCEPT ![i] = None]
  /\ log' = [log EXCEPT ![i] = Append(@, [kind |-> "left", bin |-> placed[i], from |-> None,
                                          at |-> None])]
  /\ UNCHANGED <<place, location, entering, lock, op>>

-----------------------------------------------------------------------------
(* Bins and locations come and go. *)

CreateLocation(l) ==
  /\ place[l] = "unborn"
  /\ place' = [place EXCEPT ![l] = "there"]
  /\ UNCHANGED <<location, placed, entering, lock, log, op>>

\* Mutant of DeleteLocation: a move that has named the location does not hold it.
DeleteLocationUnderMove(l) ==
  /\ There(l)
  /\ \A b \in Bin : location[b] # l
  /\ place' = [place EXCEPT ![l] = "deleted"]
  /\ UNCHANGED <<location, placed, entering, lock, log, op>>

\* ON DELETE RESTRICT over the bin rows; a move past UpdateBin holds its
\* target FOR KEY SHARE.
DeleteLocation(l) ==
  /\ There(l)
  /\ \A b \in Bin : location[b] # l
  /\ \A s \in Session : op[s].phase \in {"moved", "listed"} => op[s].target # l
  /\ place' = [place EXCEPT ![l] = "deleted"]
  /\ UNCHANGED <<location, placed, entering, lock, log, op>>

CreateBin(b, l) ==
  /\ location[b] = "unborn" /\ There(l)
  /\ location' = [location EXCEPT ![b] = l]
  /\ UNCHANGED <<place, placed, entering, lock, log, op>>

\* Mutant of DeleteBin: it does not wait for a placement under way.
DeleteBinUnderPlacement(b) ==
  /\ Stands(b) /\ lock[b] = None
  /\ \A i \in Item : placed[i] # b
  /\ location' = [location EXCEPT ![b] = "deleted"]
  /\ UNCHANGED <<place, placed, entering, lock, log, op>>

\* DELETE waits for the row's other holders; ON DELETE RESTRICT over the items.
DeleteBin(b) ==
  /\ Stands(b) /\ lock[b] = None /\ ~KeyShared(b)
  /\ \A i \in Item : placed[i] # b
  /\ location' = [location EXCEPT ![b] = "deleted"]
  /\ UNCHANGED <<place, placed, entering, lock, log, op>>

-----------------------------------------------------------------------------
Init ==
  /\ place = [l \in Location |-> "unborn"]
  /\ location = [b \in Bin |-> "unborn"]
  /\ placed = [i \in Item |-> None]
  /\ entering = [i \in Item |-> None]
  /\ lock = [b \in Bin |-> None]
  /\ log = [i \in Item |-> <<>>]
  /\ op = [s \in Session |-> Idle]

MoveBin(s) ==
  \/ \E b \in Bin, target \in Location : ReadMove(s, b, target)
  \/ LockBin(s) \/ UpdateBin(s) \/ ListItems(s) \/ CommitMove(s) \/ AbandonMove(s)

MoveItems ==
  \E i \in Item :
    \/ \E b \in Bin : PlaceItem(i, b)
    \/ CommitPlacement(i) \/ RollbackPlacement(i) \/ TakeItem(i)

Manage ==
  \/ \E l \in Location : CreateLocation(l) \/ DeleteLocation(l)
  \/ \E b \in Bin : DeleteBin(b) \/ \E l \in Location : CreateBin(b, l)

Next == (\E s \in Session : MoveBin(s)) \/ MoveItems \/ Manage

Spec == Init /\ [][Next]_vars

-----------------------------------------------------------------------------
(* Properties. *)

\* Type invariant.
TypeOK ==
  /\ place \in [Location -> {"unborn", "there", "deleted"}]
  /\ location \in [Bin -> Location \cup {"unborn", "deleted"}]
  /\ placed \in [Item -> Bin \cup {None}]
  /\ entering \in [Item -> Bin \cup {None}]
  /\ lock \in [Bin -> Session \cup {None}]
  /\ log \in [Item -> Seq(Event)]
  /\ op \in [Session -> Work]

\* A bin always stands in a location that is there: a location that a move has
\* chosen and somebody deletes meanwhile never becomes a bin's location.
BinStandsSomewhere == \A b \in Bin : Stands(b) => There(location[b])

Naming(i, b) == {n \in DOMAIN log[i] : log[i][n].bin = b}

\* The audit trail follows every item (mover.go: "the audit record must include
\* every item in the bin"): for an item in a bin, the last of its events that
\* names the bin puts it there, at the place where the bin now stands, although
\* the bin's items are listed one statement before the commit.
TrailFollowsItem ==
  \A i \in Item : placed[i] # None =>
    \E n \in Naming(i, placed[i]) :
      /\ \A m \in Naming(i, placed[i]) : m <= n
      /\ log[i][n].kind # "left" /\ log[i][n].at = location[placed[i]]

\* A move that is told twice happens once (BinMover: the loser "re-reads the
\* just-committed location and re-runs MoveTo's own no-op guard"): moved events
\* are written only by a step that takes their bin to another location.
MovedMeansMoved ==
  [][\A i \in Item, n \in 1..MaxEvents :
       n \in DOMAIN log'[i] \ DOMAIN log[i] /\ log'[i][n].kind = "moved" =>
         LET e == log'[i][n]
         IN  location[e.bin] # e.at /\ location'[e.bin] = e.at]_vars
=============================================================================
