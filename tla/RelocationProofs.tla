-------------------------- MODULE RelocationProofs --------------------------
(* Theorems about Relocation, Timeline, Listing and LabelSheets for any     *)
(* bins, locations, items, sessions, events, rows and page sizes.           *)
EXTENDS MCRelocation, TLAPS, FiniteSetTheorems

-----------------------------------------------------------------------------
(* The inductive invariant: types, what a move session has checked, what    *)
(* its locks keep, and where items and bins stand.                          *)

Locking(s) == op[s].phase \in {"held", "moved", "listed"}

\* A session that holds the bin row judges a bin that stands, and elsewhere
\* than where it goes; past UpdateBin its target is there, and past ListItems
\* it has listed all that is in the bin.
MoveJudged ==
  \A s \in Session :
    /\ op[s].phase # "idle" =>
         op[s].bin \in Bin /\ op[s].from \in Location /\ op[s].target \in Location
    /\ Locking(s) => /\ lock[op[s].bin] = s
                     /\ Stands(op[s].bin) /\ location[op[s].bin] # op[s].target
    /\ op[s].phase \in {"moved", "listed"} => There(op[s].target)
    /\ op[s].phase = "listed" => \A i \in Item : placed[i] = op[s].bin => i \in op[s].listed

\* FOR UPDATE and FOR KEY SHARE exclude each other.
LocksExclude == \A b \in Bin : lock[b] # None => ~KeyShared(b)

\* A bin that an item row names has its row (ON DELETE RESTRICT).
NamedBinsStand ==
  \A i \in Item : /\ placed[i] # None => Stands(placed[i])
                  /\ entering[i] # None => Stands(entering[i])

Guarded == TypeOK /\ MoveJudged /\ LocksExclude /\ NamedBinsStand /\ BinStandsSomewhere

LEMMA GuardedInit == Init => Guarded
<1> SUFFICES ASSUME Init PROVE Guarded
  OBVIOUS
<1> USE RelocationAssumption DEF Init
<1>1. TypeOK
  BY DEF TypeOK, Idle, Work
<1>2. MoveJudged /\ LocksExclude /\ NamedBinsStand
  BY DEF MoveJudged, Locking, LocksExclude, NamedBinsStand, Idle
<1>3. BinStandsSomewhere
  BY DEF BinStandsSomewhere, Stands
<1> QED
  BY <1>1, <1>2, <1>3 DEF Guarded

\* Two sessions never hold the row of one bin.
LEMMA HolderIsUnique ==
  ASSUME Guarded, NEW s \in Session, NEW t \in Session, s # t, Locking(s), Locking(t)
  PROVE  op[s].bin # op[t].bin
BY DEF Guarded, MoveJudged

-----------------------------------------------------------------------------
(* Types. *)

LEMMA TypeNext ==
  ASSUME Guarded, [Next]_vars
  PROVE  TypeOK'
<1> USE RelocationAssumption
<1>0. TypeOK /\ MoveJudged
  BY DEF Guarded
<1>1. CASE UNCHANGED vars
  BY <1>0, <1>1 DEF vars, TypeOK
<1>w. Idle \in Work
  BY DEF Idle, Work
<1>2. ASSUME NEW s \in Session, MoveBin(s) PROVE TypeOK'
  <2>0. op[s] \in Work /\ op \in [Session -> Work]
    BY <1>0 DEF TypeOK
  <2>1. ASSUME NEW b \in Bin, NEW target \in Location, ReadMove(s, b, target) PROVE TypeOK'
    <3>1. [phase |-> "read", bin |-> b, from |-> location[b], target |-> target, listed |-> {}] \in Work
      BY <2>1 DEF ReadMove, Stands, Work
    <3> QED
      BY <1>0, <2>1, <3>1 DEF ReadMove, TypeOK
  <2>2. CASE LockBin(s)
    <3>1. op[s].bin \in Bin
      BY <1>0, <2>2 DEF LockBin, MoveJudged
    <3>2. [op[s] EXCEPT !.phase = "held"] \in Work
      BY <2>0 DEF Work
    <3>3. op' = [op EXCEPT ![s] = [op[s] EXCEPT !.phase = "held"]]
      BY <2>2 DEF LockBin, TakeLock
    <3> QED
      BY <1>0, <2>2, <3>1, <3>2, <3>3 DEF LockBin, TakeLock, TypeOK
  <2>3. CASE UpdateBin(s)
    <3>1. [op[s] EXCEPT !.phase = "moved"] \in Work
      BY <2>0 DEF Work
    <3>2. op' = [op EXCEPT ![s] = [op[s] EXCEPT !.phase = "moved"]]
      BY <2>3 DEF UpdateBin
    <3> QED
      BY <1>0, <2>3, <3>1, <3>2 DEF UpdateBin, TypeOK
  <2>4. CASE ListItems(s)
    <3> DEFINE w == [op[s] EXCEPT !.phase = "listed", !.listed = {i \in Item : placed[i] = op[s].bin}]
    <3>1. w \in Work
      BY <2>0 DEF Work
    <3>2. op' = [op EXCEPT ![s] = w] /\ UNCHANGED <<place, location, placed, entering, lock, log>>
      BY <2>4 DEF ListItems
    <3> HIDE DEF w
    <3> QED
      BY <1>0, <3>1, <3>2 DEF TypeOK
  <2>5. ASSUME Unlock(s) PROVE op' \in [Session -> Work] /\ lock' \in [Bin -> Session \cup {None}]
    BY <1>0, <1>w, <2>5 DEF Unlock, TypeOK
  <2>6. CASE CommitMove(s)
    <3>1. op[s].bin \in Bin /\ op[s].target \in Location /\ op[s].from \in Location
      BY <1>0, <2>6 DEF CommitMove, MoveJudged
    <3>2. MovedEvent(op[s]) \in Event
      BY <3>1 DEF MovedEvent, Event
    <3>3. log' \in [Item -> Seq(Event)]
      <4> DEFINE e == MovedEvent(op[s])
      <4> HIDE DEF e
      <4>1. \A i \in Item : log[i] \in Seq(Event) /\ Append(log[i], e) \in Seq(Event)
        BY <1>0, <3>2 DEF TypeOK, e
      <4>2. log' = [i \in Item |-> IF i \in op[s].listed THEN Append(log[i], e) ELSE log[i]]
        BY <2>6 DEF CommitMove, e
      <4> QED
        BY <4>1, <4>2
    <3>4. location' \in [Bin -> Location \cup {"unborn", "deleted"}]
      BY <1>0, <2>6, <3>1 DEF CommitMove, TypeOK
    <3> QED
      BY <1>0, <2>5, <2>6, <3>3, <3>4 DEF CommitMove, TypeOK
  <2>7. CASE AbandonMove(s)
    BY <1>0, <2>5, <2>7 DEF AbandonMove, TypeOK
  <2> QED
    BY <1>2, <2>1, <2>2, <2>3, <2>4, <2>6, <2>7 DEF MoveBin
<1>3. ASSUME NEW i \in Item, NEW e \in Event, log' = [log EXCEPT ![i] = Append(@, e)]
      PROVE  log' \in [Item -> Seq(Event)]
  BY <1>0, <1>3 DEF TypeOK
<1>4. CASE MoveItems
  <2>1. PICK i \in Item : \/ \E b \in Bin : PlaceItem(i, b)
                          \/ CommitPlacement(i) \/ RollbackPlacement(i) \/ TakeItem(i)
    BY <1>4 DEF MoveItems
  <2>2. CASE CommitPlacement(i)
    <3>1. entering[i] \in Bin
      BY <1>0, <2>2 DEF CommitPlacement, TypeOK
    <3>2. location[entering[i]] \in Location
      BY <2>2, <3>1 DEF CommitPlacement, Guarded, NamedBinsStand, Stands
    <3>3. [kind |-> "entered", bin |-> entering[i], from |-> None, at |-> location[entering[i]]] \in Event
      BY <3>1, <3>2 DEF Event
    <3> QED
      BY <1>0, <1>3, <2>2, <3>1, <3>3 DEF CommitPlacement, TypeOK
  <2>3. CASE TakeItem(i)
    <3>1. placed[i] \in Bin
      BY <1>0, <2>3 DEF TakeItem, TypeOK
    <3>2. [kind |-> "left", bin |-> placed[i], from |-> None, at |-> None] \in Event
      BY <3>1 DEF Event
    <3> QED
      BY <1>0, <1>3, <2>3, <3>2 DEF TakeItem, TypeOK
  <2>4. CASE RollbackPlacement(i) \/ \E b \in Bin : PlaceItem(i, b)
    BY <1>0, <2>4 DEF RollbackPlacement, PlaceItem, TypeOK
  <2> QED
    BY <2>1, <2>2, <2>3, <2>4
<1>5. CASE Manage
  BY <1>0, <1>5 DEF Manage, CreateLocation, DeleteLocation, CreateBin, DeleteBin, TypeOK
<1> QED
  BY <1>1, <1>2, <1>4, <1>5 DEF Next

-----------------------------------------------------------------------------
(* The guards of the moves. *)

\* What a move session does to the rows, to the locks and to its own work.
LEMMA MoveKeepsGuards ==
  ASSUME Guarded, NEW s \in Session, MoveBin(s)
  PROVE  MoveJudged' /\ LocksExclude' /\ NamedBinsStand' /\ BinStandsSomewhere'
<1> USE RelocationAssumption
<1>0. /\ TypeOK /\ MoveJudged /\ LocksExclude /\ NamedBinsStand /\ BinStandsSomewhere
      /\ op \in [Session -> Work] /\ op[s] \in Work
  BY DEF Guarded, TypeOK
\* Judged(t) is MoveJudged of one session.
<1> DEFINE Judged(t) ==
      /\ op[t].phase # "idle" =>
           op[t].bin \in Bin /\ op[t].from \in Location /\ op[t].target \in Location
      /\ Locking(t) => /\ lock[op[t].bin] = t
                       /\ Stands(op[t].bin) /\ location[op[t].bin] # op[t].target
      /\ op[t].phase \in {"moved", "listed"} => There(op[t].target)
      /\ op[t].phase = "listed" => \A i \in Item : placed[i] = op[t].bin => i \in op[t].listed
<1>j. (\A t \in Session : Judged(t)) /\ ((\A t \in Session : Judged(t)') => MoveJudged')
  BY <1>0 DEF MoveJudged
<1>1. ASSUME NEW b \in Bin, NEW target \in Location, ReadMove(s, b, target)
      PROVE  MoveJudged' /\ LocksExclude' /\ NamedBinsStand' /\ BinStandsSomewhere'
  <2>1. /\ op' = [op EXCEPT ![s] = [phase |-> "read", bin |-> b, from |-> location[b],
                                    target |-> target, listed |-> {}]]
        /\ Stands(b) /\ UNCHANGED <<place, location, placed, entering, lock, log>>
    BY <1>1 DEF ReadMove
  <2>2. \A t \in Session : Judged(t)'
    BY <1>0, <1>j, <2>1 DEF Locking, Stands, There
  <2> QED
    BY <1>0, <1>j, <2>1, <2>2 DEF LocksExclude, KeyShared, NamedBinsStand, BinStandsSomewhere, Stands, There
<1>2. CASE LockBin(s)
  <2> DEFINE b == op[s].bin
  <2>1. /\ op[s].phase = "read" /\ Stands(b) /\ lock[b] = None /\ ~KeyShared(b)
        /\ location[b] # op[s].target /\ lock' = [lock EXCEPT ![b] = s]
        /\ op' = [op EXCEPT ![s] = [op[s] EXCEPT !.phase = "held"]]
        /\ UNCHANGED <<place, location, placed, entering, log>>
    BY <1>2 DEF LockBin, TakeLock
  <2>2. b \in Bin /\ op[s].from \in Location /\ op[s].target \in Location
    BY <1>j, <2>1
  <2>3. /\ op'[s].phase = "held" /\ op'[s].bin = b /\ op'[s].from = op[s].from /\ op'[s].target = op[s].target
        /\ lock'[b] = s
    BY <1>0, <2>1, <2>2 DEF Work, TypeOK
  <2>4. Judged(s)'
    BY <2>1, <2>2, <2>3 DEF Locking, Stands
  <2>5. ASSUME NEW t \in Session, t # s PROVE Judged(t)'
    <3>1. op'[t] = op[t] /\ Judged(t)
      BY <1>0, <1>j, <2>1, <2>5
    <3>2. Locking(t) => op[t].bin # b
      BY <1>0, <2>1, <3>1
    <3> QED
      BY <1>0, <2>1, <3>1, <3>2 DEF Locking, Stands, There, TypeOK
  <2>6. LocksExclude'
    BY <1>0, <2>1, <2>2 DEF LocksExclude, KeyShared, TypeOK
  <2> QED
    BY <1>0, <1>j, <2>1, <2>4, <2>5, <2>6 DEF NamedBinsStand, BinStandsSomewhere, Stands, There
<1>3. CASE UpdateBin(s) \/ ListItems(s)
  <2>1. /\ op[s].phase \in {"held", "moved"}
        /\ UNCHANGED <<place, location, placed, entering, lock, log>>
    BY <1>3 DEF UpdateBin, ListItems
  <2>2. CASE UpdateBin(s)
    <3>1. op' = [op EXCEPT ![s] = [op[s] EXCEPT !.phase = "moved"]] /\ There(op[s].target) /\ op[s].phase = "held"
      BY <2>2 DEF UpdateBin
    <3>2. /\ op'[s].phase = "moved" /\ op'[s].bin = op[s].bin /\ op'[s].from = op[s].from
          /\ op'[s].target = op[s].target
      BY <1>0, <3>1 DEF Work
    <3>3. \A t \in Session : Judged(t)'
      BY <1>0, <1>j, <2>1, <3>1, <3>2 DEF Locking, Stands, There
    <3> QED
      BY <1>0, <1>j, <2>1, <3>3 DEF LocksExclude, KeyShared, NamedBinsStand, BinStandsSomewhere, Stands, There
  <2>3. CASE ListItems(s)
    <3> DEFINE found == {i \in Item : placed[i] = op[s].bin}
    <3>1. op' = [op EXCEPT ![s] = [op[s] EXCEPT !.phase = "listed", !.listed = found]] /\ op[s].phase = "moved"
      BY <2>3 DEF ListItems
    <3>2. /\ op'[s].phase = "listed" /\ op'[s].bin = op[s].bin /\ op'[s].from = op[s].from
          /\ op'[s].target = op[s].target /\ op'[s].listed = found
      BY <1>0, <3>1 DEF Work
    <3>3. Judged(s)'
      BY <1>j, <2>1, <3>1, <3>2 DEF Locking, Stands, There
    <3>4. \A t \in Session : t # s => Judged(t)'
      BY <1>0, <1>j, <2>1, <3>1 DEF Locking, Stands, There
    <3> QED
      BY <1>0, <1>j, <2>1, <3>3, <3>4 DEF LocksExclude, KeyShared, NamedBinsStand, BinStandsSomewhere, Stands, There
  <2> QED
    BY <1>3, <2>2, <2>3
<1>4. ASSUME Unlock(s), UNCHANGED <<place, placed, entering>>,
             UNCHANGED location \/ (/\ Locking(s) /\ There(op[s].target) /\ op[s].target \in Location
                                   /\ location' = [location EXCEPT ![op[s].bin] = op[s].target])
      PROVE  MoveJudged' /\ LocksExclude' /\ NamedBinsStand' /\ BinStandsSomewhere'
  <2>1. op' = [op EXCEPT ![s] = Idle] /\ lock' = [b \in Bin |-> IF lock[b] = s THEN None ELSE lock[b]]
    BY <1>4 DEF Unlock
  <2>2. \A b \in Bin : Stands(b) => Stands(b)'
    BY <1>0, <1>4 DEF Stands, TypeOK
  <2>3. Judged(s)'
    BY <1>0, <2>1 DEF Idle, Locking
  <2>4. ASSUME NEW t \in Session, t # s PROVE Judged(t)'
    <3>1. op'[t] = op[t] /\ Judged(t)
      BY <1>0, <1>j, <2>1, <2>4
    <3>2. Locking(t) => /\ op[t].bin \in Bin /\ lock'[op[t].bin] = t
                        /\ location'[op[t].bin] = location[op[t].bin]
      <4>1. SUFFICES ASSUME Locking(t) PROVE op[t].bin \in Bin /\ lock'[op[t].bin] = t
                                             /\ location'[op[t].bin] = location[op[t].bin]
        OBVIOUS
      <4>2. op[t].bin \in Bin /\ lock[op[t].bin] = t
        BY <3>1, <4>1 DEF Locking
      <4>3. Locking(s) => op[s].bin # op[t].bin
        BY <2>4, <4>1, HolderIsUnique
      <4> QED
        BY <1>0, <1>4, <2>1, <2>4, <4>2, <4>3 DEF TypeOK
    <3> QED
      BY <1>4, <3>1, <3>2 DEF Locking, Stands, There
  <2>5. LocksExclude'
    BY <1>0, <1>4, <2>1 DEF LocksExclude, KeyShared
  <2>6. NamedBinsStand'
    BY <1>0, <1>4, <2>2 DEF NamedBinsStand, TypeOK
  <2>7. BinStandsSomewhere'
    BY <1>0, <1>4 DEF BinStandsSomewhere, Stands, There, TypeOK
  <2> QED
    BY <1>j, <2>3, <2>4, <2>5, <2>6, <2>7
<1>5. CASE CommitMove(s)
  <2>1. op[s].phase = "listed" /\ Unlock(s) /\ location' = [location EXCEPT ![op[s].bin] = op[s].target]
        /\ UNCHANGED <<place, placed, entering>>
    BY <1>5 DEF CommitMove
  <2>2. Locking(s) /\ There(op[s].target) /\ op[s].target \in Location
    BY <1>j, <2>1 DEF Locking
  <2> QED
    BY <1>4, <2>1, <2>2
<1>6. CASE AbandonMove(s)
  BY <1>4, <1>6 DEF AbandonMove
<1> QED
  BY <1>1, <1>2, <1>3, <1>5, <1>6 DEF MoveBin

\* Nothing that the other actors do touches a session's work or its locks; it
\* is enough that they respect what the locks keep.
LEMMA OthersKeepGuards ==
  ASSUME Guarded, TypeOK', UNCHANGED <<lock, op>>,
         \A s \in Session : Locking(s) =>
           /\ location'[op[s].bin] = location[op[s].bin]
           /\ \A i \in Item : placed'[i] = op[s].bin => placed[i] = op[s].bin,
         \A s \in Session : op[s].phase \in {"moved", "listed"} => There(op[s].target)'
  PROVE  MoveJudged'
<1>1. TypeOK /\ MoveJudged
  BY DEF Guarded
<1> QED
  BY <1>1, RelocationAssumption DEF MoveJudged, Locking, Stands, TypeOK, Work

LEMMA ItemsKeepGuards ==
  ASSUME Guarded, TypeOK', MoveItems
  PROVE  MoveJudged' /\ LocksExclude' /\ NamedBinsStand' /\ BinStandsSomewhere'
<1> USE RelocationAssumption
<1>0. TypeOK /\ MoveJudged /\ LocksExclude /\ NamedBinsStand /\ BinStandsSomewhere
  BY DEF Guarded
<1>1. PICK i \in Item : \/ \E b \in Bin : PlaceItem(i, b)
                        \/ CommitPlacement(i) \/ RollbackPlacement(i) \/ TakeItem(i)
  BY DEF MoveItems
<1>2. UNCHANGED <<place, location, lock, op>>
  BY <1>1 DEF PlaceItem, CommitPlacement, RollbackPlacement, TakeItem
<1>3. ASSUME NEW j \in Item
      PROVE  /\ placed'[j] = placed[j] \/ placed'[j] = None \/ placed'[j] = entering[j]
             /\ entering'[j] \in Bin => \/ entering'[j] = entering[j]
                                        \/ Stands(entering'[j]) /\ lock[entering'[j]] = None
  <2>0. placed \in [Item -> Bin \cup {None}] /\ entering \in [Item -> Bin \cup {None}] /\ None \notin Bin
    BY <1>0 DEF TypeOK
  <2>1. CASE CommitPlacement(i)
    BY <2>0, <2>1 DEF CommitPlacement
  <2>2. CASE RollbackPlacement(i)
    BY <2>0, <2>2 DEF RollbackPlacement
  <2>3. CASE TakeItem(i)
    BY <2>0, <2>3 DEF TakeItem
  <2>4. ASSUME NEW b \in Bin, PlaceItem(i, b)
        PROVE  /\ placed'[j] = placed[j] /\ entering'[j] = IF j = i THEN b ELSE entering[j]
               /\ Stands(b) /\ lock[b] = None
    BY <2>0, <2>4 DEF PlaceItem
  <2> QED
    BY <1>1, <2>1, <2>2, <2>3, <2>4
<1>4. ASSUME NEW s \in Session, Locking(s), NEW j \in Item, placed'[j] = op[s].bin
      PROVE  placed[j] = op[s].bin
  <2>1. op[s].bin \in Bin /\ lock[op[s].bin] = s
    BY <1>0, <1>4 DEF MoveJudged, Locking
  <2>2. entering[j] # op[s].bin
    BY <1>0, <2>1 DEF LocksExclude, KeyShared
  <2> QED
    BY <1>3, <1>4, <2>1, <2>2
<1>5. MoveJudged'
  BY <1>0, <1>2, <1>4, OthersKeepGuards DEF MoveJudged, There
<1>6. LocksExclude'
  BY <1>0, <1>2, <1>3 DEF LocksExclude, KeyShared
<1>7. NamedBinsStand'
  <2>1. \A j \in Item : /\ placed'[j] # None => Stands(placed'[j])
                        /\ entering'[j] # None => entering'[j] \in Bin
    BY <1>0, <1>3 DEF NamedBinsStand, TypeOK
  <2>2. \A j \in Item : entering'[j] # None => Stands(entering'[j])
    BY <1>0, <1>3, <2>1 DEF NamedBinsStand
  <2> QED
    BY <1>2, <2>1, <2>2 DEF NamedBinsStand, Stands
<1>8. BinStandsSomewhere'
  BY <1>0, <1>2 DEF BinStandsSomewhere, Stands, There
<1> QED
  BY <1>8, <1>5, <1>6, <1>7

\* A bin row that is there, and locked or named, does not change.
LEMMA NamedBinStays ==
  ASSUME Guarded, Manage, NEW b \in Bin, Stands(b),
         lock[b] # None \/ \E i \in Item : placed[i] = b \/ entering[i] = b
  PROVE  location'[b] = location[b]
<1> USE RelocationAssumption
<1>0. TypeOK
  BY DEF Guarded
<1>1. CASE \E l \in Location : CreateLocation(l) \/ DeleteLocation(l)
  BY <1>1 DEF CreateLocation, DeleteLocation
<1>2. ASSUME NEW c \in Bin, DeleteBin(c) PROVE location'[b] = location[b]
  BY <1>0, <1>2 DEF DeleteBin, KeyShared, TypeOK
<1>3. ASSUME NEW c \in Bin, NEW l \in Location, CreateBin(c, l) PROVE location'[b] = location[b]
  BY <1>0, <1>3 DEF CreateBin, Stands, TypeOK
<1> QED
  BY <1>1, <1>2, <1>3 DEF Manage

LEMMA ManageKeepsGuards ==
  ASSUME Guarded, TypeOK', Manage
  PROVE  MoveJudged' /\ LocksExclude' /\ NamedBinsStand' /\ BinStandsSomewhere'
<1> USE RelocationAssumption
<1>0. TypeOK /\ MoveJudged /\ LocksExclude /\ NamedBinsStand /\ BinStandsSomewhere
  BY DEF Guarded
<1>1. UNCHANGED <<placed, entering, lock, op, log>>
  BY DEF Manage, CreateLocation, DeleteLocation, CreateBin, DeleteBin
<1>2. ASSUME NEW b \in Bin, Stands(b),
             lock[b] # None \/ \E i \in Item : placed[i] = b \/ entering[i] = b
      PROVE  location'[b] = location[b]
  BY <1>2, NamedBinStays
\* A location that a bin stands in, or a move goes to, stays there.
<1>3. ASSUME NEW l \in Location, There(l),
             \/ \E b \in Bin : location[b] = l
             \/ \E s \in Session : op[s].phase \in {"moved", "listed"} /\ op[s].target = l
      PROVE  There(l)'
  <2>1. ASSUME NEW k \in Location, CreateLocation(k) PROVE There(l)'
    BY <1>0, <1>3, <2>1 DEF CreateLocation, There, TypeOK
  <2>2. ASSUME NEW k \in Location, DeleteLocation(k) PROVE There(l)'
    BY <1>0, <1>3, <2>2 DEF DeleteLocation, There, TypeOK
  <2>3. CASE \E b \in Bin : DeleteBin(b) \/ \E k \in Location : CreateBin(b, k)
    BY <1>3, <2>3 DEF DeleteBin, CreateBin, There
  <2> QED
    BY <2>1, <2>2, <2>3 DEF Manage
<1>4. MoveJudged'
  <2>1. \A s \in Session : Locking(s) => location'[op[s].bin] = location[op[s].bin]
    BY <1>0, <1>2 DEF MoveJudged, Locking
  <2>2. \A s \in Session : op[s].phase \in {"moved", "listed"} => There(op[s].target)'
    BY <1>0, <1>1, <1>3 DEF MoveJudged, There
  <2> QED
    BY <1>1, <2>1, <2>2, OthersKeepGuards
<1>5. LocksExclude'
  BY <1>0, <1>1 DEF LocksExclude, KeyShared
<1>6. NamedBinsStand'
  <2>1. ASSUME NEW i \in Item PROVE /\ placed[i] # None => location'[placed[i]] = location[placed[i]]
                                    /\ entering[i] # None => location'[entering[i]] = location[entering[i]]
    BY <1>0, <1>2 DEF NamedBinsStand, TypeOK
  <2>2. placed' = placed /\ entering' = entering
    BY <1>1
  <2>3. ASSUME NEW i \in Item PROVE /\ placed'[i] # None => location'[placed'[i]] \in Location
                                    /\ entering'[i] # None => location'[entering'[i]] \in Location
    BY <1>0, <2>1, <2>2 DEF NamedBinsStand, Stands
  <2> QED
    BY <2>3 DEF NamedBinsStand, Stands
<1>7. BinStandsSomewhere'
  <2>1. SUFFICES ASSUME NEW b \in Bin, Stands(b)' PROVE There(location[b])'
    BY DEF BinStandsSomewhere
  <2>2. CASE location'[b] = location[b]
    BY <1>0, <1>3, <2>1, <2>2 DEF BinStandsSomewhere, Stands, There
  <2>3. CASE location'[b] # location[b]
    <3>1. PICK c \in Bin : DeleteBin(c) \/ \E l \in Location : CreateBin(c, l)
      BY <2>3 DEF Manage, CreateLocation, DeleteLocation
    <3>2. PICK l \in Location : CreateBin(c, l)
      BY <1>0, <2>1, <2>3, <3>1 DEF DeleteBin, Stands, TypeOK
    <3> QED
      BY <1>0, <2>1, <2>3, <3>2 DEF CreateBin, There, TypeOK
  <2> QED
    BY <2>2, <2>3
<1> QED
  BY <1>4, <1>5, <1>6, <1>7

LEMMA GuardedNext == Guarded /\ [Next]_vars => Guarded'
<1> SUFFICES ASSUME Guarded, [Next]_vars PROVE Guarded'
  OBVIOUS
<1>1. TypeOK'
  BY TypeNext
<1>2. CASE Next
  <2>1. MoveJudged' /\ LocksExclude' /\ NamedBinsStand' /\ BinStandsSomewhere'
    BY <1>1, <1>2, MoveKeepsGuards, ItemsKeepGuards, ManageKeepsGuards DEF Next
  <2> QED
    BY <1>1, <2>1 DEF Guarded
<1>3. CASE UNCHANGED vars
  BY <1>1, <1>3 DEF vars, Guarded, MoveJudged, Locking, LocksExclude, KeyShared, NamedBinsStand,
                    BinStandsSomewhere, Stands, There
<1> QED
  BY <1>2, <1>3

LEMMA GuardedAlways == Spec => []Guarded
BY GuardedInit, GuardedNext, PTL DEF Spec

\* Types, for any numbers of bins, locations, items and sessions.
THEOREM RelocationTypes == Spec => []TypeOK
<1>1. Guarded => TypeOK
  BY DEF Guarded
<1> QED
  BY <1>1, GuardedAlways, PTL

\* No bin ever stands in a location that is not there: the move's key share on
\* its target, the RESTRICT of the bins and the second judgement under the row
\* lock together leave the location's deletion no moment to slip in.
THEOREM BinsStandSomewhere == Spec => []BinStandsSomewhere
<1>1. Guarded => BinStandsSomewhere
  BY DEF Guarded
<1> QED
  BY <1>1, GuardedAlways, PTL

-----------------------------------------------------------------------------
(* The audit trail of an item. *)

\* TrailFollowsItem for one item and one bin.
Follows(i, b) ==
  \E n \in Naming(i, b) :
    /\ \A m \in Naming(i, b) : m <= n
    /\ log[i][n].kind # "left" /\ log[i][n].at = location[b]

\* A new event that names b puts the item where it says; one that names
\* another bin, or none, changes nothing for b.
LEMMA TrailGrows ==
  ASSUME TypeOK, NEW i \in Item, NEW b \in Bin, NEW e \in Event, log'[i] = Append(log[i], e)
  PROVE  /\ e.bin = b /\ e.kind # "left" /\ e.at = location'[b] => Follows(i, b)'
         /\ e.bin # b /\ location'[b] = location[b] /\ Follows(i, b) => Follows(i, b)'
<1>1. /\ log[i] \in Seq(Event) /\ Len(log[i]) \in Nat
      /\ DOMAIN log[i] = 1..Len(log[i]) /\ DOMAIN log'[i] = 1..(Len(log[i]) + 1)
      /\ log'[i][Len(log[i]) + 1] = e
      /\ \A n \in DOMAIN log[i] : log'[i][n] = log[i][n]
  BY DEF TypeOK
<1>2. Naming(i, b)' = Naming(i, b) \cup {n \in {Len(log[i]) + 1} : e.bin = b}
  BY <1>1 DEF Naming
<1>3. ASSUME e.bin = b, e.kind # "left", e.at = location'[b] PROVE Follows(i, b)'
  <2>1. Len(log[i]) + 1 \in Naming(i, b)' /\ \A m \in Naming(i, b)' : m <= Len(log[i]) + 1
    BY <1>1, <1>2, <1>3 DEF Naming
  <2> QED
    BY <1>1, <1>3, <2>1 DEF Follows
<1>4. ASSUME e.bin # b, location'[b] = location[b], Follows(i, b) PROVE Follows(i, b)'
  <2>1. Naming(i, b)' = Naming(i, b) /\ Naming(i, b) \subseteq DOMAIN log[i]
    BY <1>2, <1>4 DEF Naming
  <2> QED
    BY <1>1, <1>4, <2>1 DEF Follows
<1> QED
  BY <1>3, <1>4

LEMMA TrailStays ==
  ASSUME NEW i \in Item, NEW b \in Bin, log'[i] = log[i], location'[b] = location[b], Follows(i, b)
  PROVE  Follows(i, b)'
BY DEF Follows, Naming

LEMMA TrailNext ==
  ASSUME Guarded, TrailFollowsItem, [Next]_vars
  PROVE  TrailFollowsItem'
<1> USE RelocationAssumption
<1>0. TypeOK /\ MoveJudged /\ NamedBinsStand
  BY DEF Guarded
<1>i. \A i \in Item : placed[i] # None => placed[i] \in Bin /\ Follows(i, placed[i])
  BY <1>0 DEF TypeOK, TrailFollowsItem, Follows
<1>s. SUFFICES ASSUME NEW i \in Item, NEW b \in Bin, placed'[i] = b PROVE Follows(i, b)'
  <2>1. TypeOK'
    BY TypeNext
  <2>2. \A i \in Item : placed'[i] # None => Follows(i, placed[i])'
    <3> SUFFICES ASSUME NEW i \in Item, placed'[i] # None PROVE Follows(i, placed[i])'
      OBVIOUS
    <3>1. PICK b \in Bin : placed'[i] = b
      BY <2>1 DEF TypeOK
    <3>2. Follows(i, b)'
      BY <1>s, <3>1
    <3> QED
      BY <3>1, <3>2 DEF Follows, Naming
  <2> QED
    BY <2>2 DEF TrailFollowsItem, Follows
<1>1. ASSUME NEW s \in Session, CommitMove(s) PROVE Follows(i, b)'
  <2> DEFINE o == op[s]
             e == MovedEvent(o)
  <2>1. /\ o.phase = "listed" /\ location' = [location EXCEPT ![o.bin] = o.target]
        /\ log' = [j \in Item |-> IF j \in o.listed THEN Append(log[j], e) ELSE log[j]]
        /\ placed' = placed
    BY <1>1 DEF CommitMove
  <2>2. /\ o.bin \in Bin /\ o.from \in Location /\ o.target \in Location
        /\ placed[i] = o.bin => i \in o.listed
    BY <1>0, <2>1 DEF MoveJudged
  <2>3. e \in Event /\ e.bin = o.bin /\ e.kind = "moved" /\ e.at = o.target
    BY <2>2 DEF MovedEvent, Event
  <2>4. Follows(i, b) /\ location' [b] = IF b = o.bin THEN o.target ELSE location[b]
    BY <1>0, <1>i, <1>s, <2>1, <2>2 DEF TypeOK
  <2> HIDE DEF o, e
  <2>5. CASE i \in o.listed
    <3>1. log'[i] = Append(log[i], e)
      BY <2>1, <2>5
    <3> QED
      BY <1>0, <2>3, <2>4, <3>1, TrailGrows
  <2>6. CASE i \notin o.listed
    <3>1. log'[i] = log[i] /\ location'[b] = location[b]
      BY <1>s, <2>1, <2>2, <2>4, <2>6
    <3> QED
      BY <2>4, <3>1, TrailStays
  <2> QED
    BY <2>5, <2>6
<1>2. CASE \E s \in Session : MoveBin(s) /\ ~CommitMove(s)
  <2>1. UNCHANGED <<location, placed, log>>
    BY <1>2 DEF MoveBin, ReadMove, LockBin, TakeLock, UpdateBin, ListItems, AbandonMove
  <2> QED
    BY <1>i, <1>s, <2>1, TrailStays
<1>3. ASSUME NEW j \in Item, CommitPlacement(j) PROVE Follows(i, b)'
  <2> DEFINE c == entering[j]
             e == [kind |-> "entered", bin |-> c, from |-> None, at |-> location[c]]
  <2>1. /\ c \in Bin /\ placed' = [placed EXCEPT ![j] = c] /\ location' = location
        /\ log' = [log EXCEPT ![j] = Append(@, e)]
    BY <1>0, <1>3 DEF CommitPlacement, TypeOK
  <2>2. e \in Event /\ e.bin = c /\ e.kind # "left" /\ e.at = location[c]
    BY <1>0, <2>1 DEF Event, NamedBinsStand, Stands
  <2> HIDE DEF c, e
  <2>3. CASE i = j
    <3>1. b = c /\ log'[i] = Append(log[i], e)
      BY <1>0, <1>s, <2>1, <2>3 DEF TypeOK
    <3> QED
      BY <1>0, <2>1, <2>2, <3>1, TrailGrows
  <2>4. CASE i # j
    <3>1. placed[i] = b /\ log'[i] = log[i]
      BY <1>0, <1>s, <2>1, <2>4 DEF TypeOK
    <3> QED
      BY <1>i, <2>1, <3>1, TrailStays
  <2> QED
    BY <2>3, <2>4
<1>4. ASSUME NEW j \in Item, TakeItem(j) PROVE Follows(i, b)'
  <2>1. i # j /\ placed[i] = b /\ log'[i] = log[i] /\ location' = location
    BY <1>0, <1>4, <1>s DEF TakeItem, TypeOK
  <2> QED
    BY <1>i, <2>1, TrailStays
<1>5. CASE \E j \in Item : RollbackPlacement(j) \/ \E c \in Bin : PlaceItem(j, c)
  BY <1>5, <1>i, <1>s, TrailStays DEF RollbackPlacement, PlaceItem
<1>6. CASE Manage
  <2>1. placed' = placed /\ log' = log
    BY <1>6 DEF Manage, CreateLocation, DeleteLocation, CreateBin, DeleteBin
  <2>2. location'[b] = location[b]
    BY <1>0, <1>6, <1>s, <2>1, NamedBinStays DEF Guarded, NamedBinsStand
  <2> QED
    BY <1>i, <1>s, <2>1, <2>2, TrailStays
<1>7. CASE UNCHANGED vars
  BY <1>7, <1>i, <1>s, TrailStays DEF vars
<1> QED
  BY <1>1, <1>2, <1>3, <1>4, <1>5, <1>6, <1>7 DEF Next, MoveItems

\* The audit trail keeps up with every item in a bin, whatever enters, leaves
\* or is moved beside it: the row lock holds placements off from the listing
\* to the commit, and a listed item that leaves names the bin no more.
THEOREM TrailsFollowItems == Spec => []TrailFollowsItem
<1>1. Init => TrailFollowsItem
  BY DEF Init, TrailFollowsItem
<1>2. Guarded /\ TrailFollowsItem /\ [Next]_vars => TrailFollowsItem'
  BY TrailNext
<1> QED
  BY <1>1, <1>2, GuardedAlways, PTL DEF Spec

-----------------------------------------------------------------------------
(* A move that is told twice. *)

\* Every moved event is written by the step that takes its bin elsewhere: the
\* second of two moves to one place finds the bin there under the row lock.
THEOREM MovedEventsMove == Spec => MovedMeansMoved
<1> DEFINE Moves ==
      \A i \in Item, n \in 1..MaxEvents :
        n \in DOMAIN log'[i] \ DOMAIN log[i] /\ log'[i][n].kind = "moved" =>
          LET e == log'[i][n]
          IN  location[e.bin] # e.at /\ location'[e.bin] = e.at
<1>1. ASSUME Guarded, [Next]_vars PROVE [Moves]_vars
  <2> SUFFICES ASSUME Next, NEW i \in Item, NEW n \in 1..MaxEvents,
                      n \in DOMAIN log'[i] \ DOMAIN log[i], log'[i][n].kind = "moved"
               PROVE  LET e == log'[i][n] IN location[e.bin] # e.at /\ location'[e.bin] = e.at
    BY <1>1
  <2>0. TypeOK /\ MoveJudged /\ log'[i] # log[i] /\ log[i] \in Seq(Event)
    BY <1>1 DEF Guarded, TypeOK
  <2>1. ASSUME NEW e, log'[i] = Append(log[i], e) PROVE log'[i][n] = e
    BY <2>0, <2>1
  <2>2. ASSUME NEW s \in Session, CommitMove(s)
        PROVE  LET e == log'[i][n] IN location[e.bin] # e.at /\ location'[e.bin] = e.at
    <3>1. /\ op[s].phase = "listed" /\ location' = [location EXCEPT ![op[s].bin] = op[s].target]
          /\ log'[i] = Append(log[i], MovedEvent(op[s]))
      BY <2>0, <2>2 DEF CommitMove
    <3>2. op[s].bin \in Bin /\ location[op[s].bin] # op[s].target
      BY <2>0, <3>1 DEF MoveJudged, Locking
    <3>3. location'[op[s].bin] = op[s].target
      BY <2>0, <3>1, <3>2 DEF TypeOK
    <3> QED
      BY <2>1, <3>1, <3>2, <3>3 DEF MovedEvent
  <2>3. ASSUME NEW j \in Item, CommitPlacement(j) \/ TakeItem(j) PROVE FALSE
    <3>1. PICK e : log'[i] = Append(log[i], e) /\ e.kind # "moved"
      BY <2>0, <2>3 DEF CommitPlacement, TakeItem, TypeOK
    <3> QED
      BY <2>1, <3>1
  <2> QED
    BY <2>0, <2>2, <2>3 DEF Next, MoveBin, ReadMove, LockBin, TakeLock, UpdateBin, ListItems,
         AbandonMove, MoveItems, PlaceItem, RollbackPlacement, Manage, CreateLocation,
         DeleteLocation, CreateBin, DeleteBin
<1> QED
  BY <1>1, GuardedAlways, PTL DEF Spec, MovedMeansMoved

-----------------------------------------------------------------------------
(* The lanes of the readers. *)

laneVars == <<vars, history, lists, sheets, lane>>

\* In all lanes together the moves are those of Relocation, of which the
\* theorems above speak.
THEOREM LanesRelocate == LaneSpec => Spec
<1>1. LaneInit => Init
  BY DEF LaneInit
<1>2. [LaneNext]_laneVars => [Next]_vars
  BY DEF LaneNext, laneVars, vars
<1> QED
  BY <1>1, <1>2, PTL DEF LaneSpec, Spec, laneVars

-----------------------------------------------------------------------------
(* Lists in order. *)

\* One key comes before another: by its first part, and by the id where that
\* is the same.
Below(k, l) == k[1] < l[1] \/ (k[1] = l[1] /\ k[2] < l[2])
Keys == Nat \X Nat

LEMMA BelowOrders ==
  ASSUME NEW k \in Keys, NEW l \in Keys, NEW m \in Keys
  PROVE  /\ ~Below(k, k)
         /\ Below(k, l) /\ Below(l, m) => Below(k, m)
         /\ Below(k, l) \/ Below(l, k) \/ k = l
         /\ Below(k, l) => ~Below(l, k)
<1>1. \A j \in Keys : j = <<j[1], j[2]>> /\ j[1] \in Nat /\ j[2] \in Nat
  BY DEF Keys
<1> QED
  BY <1>1 DEF Below

\* The members of a finite set whose keys differ can be listed from the lowest
\* key to the highest, and such a list names each of them.
LEMMA SortedExists ==
  ASSUME NEW S, IsFiniteSet(S), NEW key \in [S -> Keys],
         \A p, q \in S : key[p] = key[q] => p = q
  PROVE  \E order \in [1..Cardinality(S) -> S] :
           \A i, j \in 1..Cardinality(S) : i < j => Below(key[order[i]], key[order[j]])
<1> DEFINE n == Cardinality(S)
           Upto(p) == {q \in S : q = p \/ Below(key[q], key[p])}
           rank == [p \in S |-> Cardinality(Upto(p))]
<1>0. n \in Nat
  BY FS_CardinalityType
<1>1. \A p, q \in S : Below(key[p], key[q]) \/ Below(key[q], key[p]) \/ p = q
  BY BelowOrders
<1>2. \A p \in S : Upto(p) \in SUBSET S /\ IsFiniteSet(Upto(p)) /\ p \in Upto(p)
  BY FS_Subset
<1>3. \A p \in S : rank[p] \in 1..n
  <2> SUFFICES ASSUME NEW p \in S PROVE rank[p] \in 1..n
    OBVIOUS
  <2>1. Cardinality(Upto(p)) \in Nat /\ Cardinality(Upto(p)) <= n
    BY <1>2, FS_Subset, FS_CardinalityType
  <2>2. Cardinality(Upto(p)) # 0
    BY <1>2, FS_EmptySet
  <2> QED
    BY <1>0, <2>1, <2>2
<1>4. \A p, q \in S : Below(key[p], key[q]) => rank[p] < rank[q]
  <2> SUFFICES ASSUME NEW p \in S, NEW q \in S, Below(key[p], key[q]) PROVE rank[p] < rank[q]
    OBVIOUS
  <2>1. Upto(p) \in SUBSET Upto(q)
    BY BelowOrders
  <2>2. q \notin Upto(p)
    BY BelowOrders
  <2>3. Cardinality(Upto(p)) <= Cardinality(Upto(q)) /\ Cardinality(Upto(p)) # Cardinality(Upto(q))
    BY <1>2, <2>1, <2>2, FS_Subset
  <2>4. Cardinality(Upto(p)) \in Nat /\ Cardinality(Upto(q)) \in Nat
    BY <1>2, FS_CardinalityType
  <2> QED
    BY <2>3, <2>4
<1> HIDE DEF Upto
<1> HIDE DEF n
<1>5. \A p, q \in S : rank[p] < rank[q] => Below(key[p], key[q])
  BY <1>1, <1>3, <1>4
<1>6. \A p, q \in S : rank[p] = rank[q] => p = q
  BY <1>1, <1>3, <1>4
<1> HIDE DEF rank
<1>7. rank \in Injection(S, 1..n)
  <2>1. rank \in [S -> 1..n]
    BY <1>3 DEF rank
  <2> QED
    BY <1>6, <2>1 DEF Injection, IsInjective
<1>8. IsFiniteSet(1..n) /\ Cardinality(1..n) = n
  BY <1>0, FS_Interval
<1>9. rank \in Surjection(S, 1..n)
  BY <1>7, <1>8, FS_Injection DEF n
<1>10. \A j \in 1..n : \E p \in S : rank[p] = j
  BY <1>9 DEF Surjection
<1> DEFINE order == [j \in 1..n |-> CHOOSE p \in S : rank[p] = j]
<1>11. order \in [1..n -> S] /\ \A j \in 1..n : rank[order[j]] = j
  BY <1>10
<1> HIDE DEF order
<1>12. \A i, j \in 1..n : i < j => Below(key[order[i]], key[order[j]])
  BY <1>5, <1>11
<1> QED
  BY <1>11, <1>12 DEF n

LEMMA SortedEnumerates ==
  ASSUME NEW S, IsFiniteSet(S), NEW key \in [S -> Keys],
         NEW order \in [1..Cardinality(S) -> S],
         \A i, j \in 1..Cardinality(S) : i < j =>
           Below(key[order[i]], key[order[j]]) \/ Below(key[order[j]], key[order[i]])
  PROVE  /\ \A i, j \in 1..Cardinality(S) : order[i] = order[j] => i = j
         /\ \A p \in S : \E j \in 1..Cardinality(S) : order[j] = p
<1> DEFINE n == Cardinality(S)
<1>1. n \in Nat
  BY FS_CardinalityType
<1>2. IsFiniteSet(1..n) /\ Cardinality(1..n) = n
  BY <1>1, FS_Interval
<1>3. \A i, j \in 1..n : order[i] = order[j] => i = j
  BY <1>1, BelowOrders
<1> HIDE DEF n
<1>4. order \in Injection(1..n, S)
  BY <1>3 DEF Injection, IsInjective, n
<1>5. order \in Surjection(1..n, S)
  BY <1>2, <1>4, FS_Injection DEF n
<1> QED
  BY <1>3, <1>5 DEF Surjection, n

-----------------------------------------------------------------------------
(* The history. *)

EventRow == [at : 0..Clock, committed : BOOLEAN]
EventKey == (0..Clock) \X EventId
SeenOf(events) == {e \in EventId : events[e] # None /\ events[e].committed}
KeyOf(events, e) == <<events[e].at, e>>

EventsSound(events) ==
  /\ events \in [EventId -> EventRow \cup {None}]
  /\ IsFiniteSet({e \in EventId : events[e] # None})

\* What has been shown is in order, ends where the cursor stands, and lacks of
\* what was there only what is older than the cursor.
ReaderTrue(events, r, first) ==
  /\ r \in [shown : Seq(EventId), cursor : EventKey \cup {None}, done : BOOLEAN]
  /\ \A n \in 1..Len(r.shown) : r.shown[n] \in SeenOf(events)
  /\ \A i, j \in 1..Len(r.shown) :
       i < j => Below(KeyOf(events, r.shown[j]), KeyOf(events, r.shown[i]))
  /\ r.cursor # None => r.shown # <<>> /\ r.cursor = KeyOf(events, r.shown[Len(r.shown)])
  /\ r.done \/ r.shown = <<>> \/ r.cursor # None
  /\ first \subseteq SeenOf(events)
  /\ \A e \in first : \/ \E n \in 1..Len(r.shown) : r.shown[n] = e
                      \/ ~r.done /\ r.cursor # None /\ Below(KeyOf(events, e), r.cursor)

TimelineKept ==
  /\ lane = "history" => clock \in 0..Clock /\ EventsSound(event) /\ ReaderTrue(event, reader, there)
  /\ lane # "history" => reader = History!Unread

LEMMA SeenKeys ==
  ASSUME NEW events, EventsSound(events)
  PROVE  /\ IsFiniteSet(SeenOf(events)) /\ SeenOf(events) \subseteq EventId
         /\ \A e \in SeenOf(events) :
              /\ KeyOf(events, e) \in EventKey /\ KeyOf(events, e) \in Keys /\ KeyOf(events, e) # None
              /\ KeyOf(events, e)[2] = e
<1>1. SeenOf(events) \in SUBSET {e \in EventId : events[e] # None}
  BY DEF SeenOf
<1>2. IsFiniteSet(SeenOf(events))
  BY <1>1, FS_Subset DEF EventsSound
<1>3. ASSUME NEW e \in SeenOf(events)
      PROVE  events[e].at \in 0..Clock /\ events[e].at \in Nat /\ e \in EventId /\ e \in Nat
  BY <1>3, ReadersAssumption DEF SeenOf, EventsSound, EventRow
<1> QED
  BY <1>1, <1>2, <1>3, ReadersAssumption DEF KeyOf, EventKey, Keys

\* The keyset query answers every row below the cursor, from the newest on.
LEMMA NewestFirstLists ==
  ASSUME EventsSound(event), NEW S \in SUBSET SeenOf(event)
  PROVE  \E n \in Nat :
           /\ History!NewestFirst(S) \in [1..n -> S]
           /\ \A i, j \in 1..n : i < j =>
                Below(KeyOf(event, History!NewestFirst(S)[j]), KeyOf(event, History!NewestFirst(S)[i]))
           /\ \A e \in S : \E j \in 1..n : History!NewestFirst(S)[j] = e
<1> DEFINE key == [e \in S |-> KeyOf(event, e)]
           n == Cardinality(S)
           Falls(order) == \A i, j \in DOMAIN order :
                             i < j => History!Before(History!Key(order[j]), History!Key(order[i]))
<1>1. IsFiniteSet(S) /\ n \in Nat
  BY SeenKeys, FS_Subset, FS_CardinalityType
<1>2. key \in [S -> Keys] /\ \A p, q \in S : key[p] = key[q] => p = q
  BY SeenKeys
<1>3. \A order \in [1..n -> S] :
        Falls(order) <=> \A i, j \in 1..n : i < j => Below(key[order[j]], key[order[i]])
  BY DEF History!Before, History!Key, Below, KeyOf
<1>4. History!NewestFirst(S) = CHOOSE order \in [1..n -> S] : Falls(order)
  <2>1. History!Cardinality(S) = Cardinality(S)
    BY DEF History!Cardinality, Cardinality
  <2> QED
    BY <2>1 DEF History!NewestFirst
<1> HIDE DEF Falls, key
<1>5. PICK up \in [1..n -> S] : \A i, j \in 1..n : i < j => Below(key[up[i]], key[up[j]])
  BY <1>1, <1>2, SortedExists
<1> DEFINE down == [i \in 1..n |-> up[n + 1 - i]]
<1> HIDE DEF n
<1>6. down \in [1..n -> S] /\ \A i, j \in 1..n : i < j => Below(key[down[j]], key[down[i]])
  <2>1. \A i \in 1..n : n + 1 - i \in 1..n
    BY <1>1
  <2>2. \A i, j \in 1..n : i < j => n + 1 - j < n + 1 - i
    BY <1>1
  <2> QED
    BY <1>5, <2>1, <2>2
<1> HIDE DEF down
<1>7. PICK order \in [1..n -> S] : order = History!NewestFirst(S) /\ Falls(order)
  BY <1>3, <1>4, <1>6
<1>8. \A i, j \in 1..n : i < j => Below(key[order[j]], key[order[i]])
  BY <1>3, <1>7
<1>9. \A e \in S : \E j \in 1..n : order[j] = e
  BY <1>1, <1>2, <1>8, SortedEnumerates DEF n
<1> QED
  BY <1>1, <1>7, <1>8, <1>9 DEF key

\* While transactions come and go, what has been committed stays as it is.
LEMMA EventsGoOn ==
  ASSUME NEW events, NEW later, NEW r, NEW first, ReaderTrue(events, r, first),
         \A e \in SeenOf(events) : e \in SeenOf(later) /\ later[e].at = events[e].at
  PROVE  ReaderTrue(later, r, first)
<1>1. \A e \in SeenOf(events) : KeyOf(later, e) = KeyOf(events, e)
  BY DEF KeyOf
<1>2. r.shown # <<>> => r.shown[Len(r.shown)] \in SeenOf(events)
  <2>1. Len(r.shown) \in Nat /\ (r.shown # <<>> => Len(r.shown) # 0)
    BY DEF ReaderTrue
  <2> QED
    BY <2>1 DEF ReaderTrue
<1> QED
  BY <1>1, <1>2 DEF ReaderTrue

LEMMA TransactionKept ==
  ASSUME EventsSound(event), ReaderTrue(event, reader, there), clock \in 0..Clock,
         NEW e \in EventId, History!Begin(e) \/ History!Commit(e) \/ History!Abort(e)
  PROVE  EventsSound(event') /\ ReaderTrue(event', reader', there') /\ clock' \in 0..Clock
<1>1. UNCHANGED <<reader, there, clock>>
  BY DEF History!Begin, History!Commit, History!Abort
<1>2. PICK new \in EventRow \cup {None} :
        /\ event' = [event EXCEPT ![e] = new]
        /\ e \notin SeenOf(event)
  <2>1. CASE History!Begin(e)
    <3>1. [at |-> clock, committed |-> FALSE] \in EventRow
      BY DEF EventRow
    <3> QED
      BY <2>1, <3>1 DEF History!Begin, SeenOf
  <2>2. CASE History!Commit(e)
    <3>1. event[e] \in EventRow /\ event' = [event EXCEPT ![e] = [event[e] EXCEPT !.committed = TRUE]]
      BY <2>2 DEF History!Commit, EventsSound
    <3>2. [event[e] EXCEPT !.committed = TRUE] \in EventRow
      BY <3>1 DEF EventRow
    <3> QED
      BY <2>2, <3>1, <3>2 DEF History!Commit, SeenOf
  <2>3. CASE History!Abort(e)
    BY <2>3 DEF History!Abort, SeenOf
  <2> QED
    BY <2>1, <2>2, <2>3
<1>3. /\ event' \in [EventId -> EventRow \cup {None}]
      /\ \A d \in EventId \ {e} : event'[d] = event[d]
  BY <1>2 DEF EventsSound
<1>4. IsFiniteSet({d \in EventId : event'[d] # None})
  <2> DEFINE before == {d \in EventId : event[d] # None}
             after == {d \in EventId : event'[d] # None}
  <2>1. IsFiniteSet(before \cup {e})
    BY FS_AddElement DEF EventsSound
  <2>2. after \in SUBSET (before \cup {e})
    BY <1>3
  <2> QED
    BY <2>1, <2>2, FS_Subset
<1>5. \A d \in SeenOf(event) : d \in SeenOf(event') /\ event'[d].at = event[d].at
  BY <1>2, <1>3 DEF SeenOf
<1> QED
  BY <1>1, <1>3, <1>4, <1>5, EventsGoOn DEF EventsSound

LEMMA ReadPageKept ==
  ASSUME EventsSound(event), ReaderTrue(event, reader, there), History!ReadPage
  PROVE  ReaderTrue(event, reader', there')
<1> DEFINE cursor == reader.cursor
           shown == reader.shown
           S == {e \in SeenOf(event) : cursor # None => Below(KeyOf(event, e), cursor)}
           rows == History!Rows(cursor)
           page == History!Page(rows)
           next == History!NextCursor(rows)
           seen == shown \o page
<1>1. /\ reader \in [shown : Seq(EventId), cursor : EventKey \cup {None}, done : BOOLEAN]
      /\ shown \in Seq(EventId) /\ Len(shown) \in Nat
      /\ shown = <<>> => cursor = None
      /\ shown # <<>> => cursor # None /\ cursor = KeyOf(event, shown[Len(shown)]) /\ Len(shown) \in 1..Len(shown)
  BY DEF ReaderTrue, History!ReadPage
<1>2. rows = History!NewestFirst(S) /\ S \in SUBSET SeenOf(event)
  BY DEF History!Rows, History!Seen, SeenOf, History!Before, Below, History!Key, KeyOf
<1> HIDE DEF rows
<1>3. PICK n \in Nat :
        /\ rows \in [1..n -> S]
        /\ \A i, j \in 1..n : i < j => Below(KeyOf(event, rows[j]), KeyOf(event, rows[i]))
        /\ \A e \in S : \E j \in 1..n : rows[j] = e
  BY <1>2, NewestFirstLists
<1>4. rows \in Seq(S) /\ Len(rows) = n /\ Limit \in Nat \ {0}
  BY <1>3, ReadersAssumption
<1> DEFINE m == IF n > Limit THEN Limit ELSE n
<1>5. page \in Seq(S) /\ Len(page) = m /\ \A i \in 1..m : page[i] = rows[i]
  BY <1>3, <1>4 DEF History!Page, History!More
<1>6. n > Limit => m \in 1..n /\ next = KeyOf(event, page[m])
  BY <1>3, <1>4, <1>5 DEF History!NextCursor, History!More, History!Key, KeyOf
<1>7. n <= Limit => next = None
  BY <1>4 DEF History!NextCursor, History!More
<1>8. m \in Nat /\ m <= n
  BY <1>3, <1>4
<1> HIDE DEF page, next, m
<1>9. S \subseteq SeenOf(event) /\ SeenOf(event) \subseteq EventId
  BY SeenKeys
<1>10. /\ seen \in Seq(EventId) /\ Len(seen) = Len(shown) + m
       /\ \A i \in 1..Len(shown) : seen[i] = shown[i]
       /\ \A i \in 1..m : seen[Len(shown) + i] = page[i]
  BY <1>1, <1>5, <1>8, <1>9
<1>11. \A i \in 1..Len(seen) : i \in 1..Len(shown) \/ (i - Len(shown) \in 1..m /\ seen[i] = page[i - Len(shown)])
  <2> SUFFICES ASSUME NEW i \in 1..Len(seen), i \notin 1..Len(shown)
               PROVE  i - Len(shown) \in 1..m /\ seen[i] = page[i - Len(shown)]
    OBVIOUS
  <2>1. i - Len(shown) \in 1..m
    BY <1>1, <1>8, <1>10
  <2>2. seen[Len(shown) + (i - Len(shown))] = page[i - Len(shown)]
    BY <1>10, <2>1
  <2>3. Len(shown) + (i - Len(shown)) = i
    BY <1>1, <1>10
  <2> QED
    BY <2>1, <2>2, <2>3
<1> HIDE DEF seen
<1>12. \A i \in 1..m : page[i] \in S
  BY <1>5
<1>13. \A i \in 1..Len(seen) : seen[i] \in SeenOf(event)
  BY <1>9, <1>10, <1>11, <1>12 DEF ReaderTrue
<1>14. ASSUME NEW i \in 1..Len(seen), NEW j \in 1..Len(seen), i < j
       PROVE  Below(KeyOf(event, seen[j]), KeyOf(event, seen[i]))
  <2>1. CASE i \in 1..Len(shown) /\ j \in 1..Len(shown)
    BY <1>10, <1>14, <2>1 DEF ReaderTrue
  <2>2. CASE i \in 1..Len(shown) /\ j \notin 1..Len(shown)
    <3>1. seen[j] \in S /\ shown # <<>>
      BY <1>1, <1>11, <1>12, <2>2
    <3>2. Below(KeyOf(event, seen[j]), KeyOf(event, shown[Len(shown)]))
      BY <1>1, <3>1
    <3>3. i = Len(shown) \/ Below(KeyOf(event, shown[Len(shown)]), KeyOf(event, shown[i]))
      BY <1>1, <2>2 DEF ReaderTrue
    <3>4. /\ shown[Len(shown)] \in SeenOf(event) /\ shown[i] \in SeenOf(event) /\ seen[j] \in SeenOf(event)
          /\ seen[i] = shown[i]
      BY <1>1, <1>10, <1>13, <2>2, <3>1 DEF ReaderTrue
    <3> QED
      BY <3>2, <3>3, <3>4, SeenKeys, BelowOrders
  <2>3. CASE i \notin 1..Len(shown) /\ j \notin 1..Len(shown)
    <3>1. /\ i - Len(shown) \in 1..n /\ j - Len(shown) \in 1..n /\ i - Len(shown) < j - Len(shown)
          /\ seen[i] = rows[i - Len(shown)] /\ seen[j] = rows[j - Len(shown)]
      <4>1. /\ i - Len(shown) \in 1..m /\ seen[i] = page[i - Len(shown)]
            /\ j - Len(shown) \in 1..m /\ seen[j] = page[j - Len(shown)]
        BY <1>11, <2>3
      <4>2. i - Len(shown) < j - Len(shown) /\ \A k \in 1..m : k \in 1..n
        BY <1>1, <1>8, <1>10, <1>14
      <4> QED
        BY <1>5, <4>1, <4>2
    <3> QED
      BY <1>3, <3>1
  <2>4. j \in 1..Len(shown) => i \in 1..Len(shown)
    BY <1>1, <1>14
  <2> QED
    BY <2>1, <2>2, <2>3, <2>4
<1>15. next \in EventKey \cup {None} /\ (next # None <=> n > Limit)
  <2>1. n > Limit => next \in EventKey /\ next # None
    BY <1>6, <1>8, <1>9, <1>12, SeenKeys DEF m
  <2> QED
    BY <1>3, <1>4, <1>7, <2>1
<1>16. next # None => seen # <<>> /\ next = KeyOf(event, seen[Len(seen)])
  <2> SUFFICES ASSUME next # None PROVE seen # <<>> /\ next = KeyOf(event, seen[Len(seen)])
    OBVIOUS
  <2>1. m \in 1..m /\ next = KeyOf(event, page[m])
    BY <1>6, <1>8, <1>15
  <2>2. Len(seen) # 0 /\ seen[Len(seen)] = page[m]
    BY <1>1, <1>10, <2>1
  <2> QED
    BY <1>10, <2>1, <2>2
<1>17. ASSUME NEW e \in S
       PROVE  \/ \E i \in 1..Len(seen) : seen[i] = e
              \/ next # None /\ Below(KeyOf(event, e), next)
  <2>1. PICK j \in 1..n : rows[j] = e
    BY <1>3
  <2>2. CASE j <= m
    <3>1. j \in 1..m /\ seen[Len(shown) + j] = e /\ Len(shown) + j \in 1..Len(seen)
      BY <1>1, <1>5, <1>8, <1>10, <2>1, <2>2
    <3> QED
      BY <3>1
  <2>3. CASE m < j
    <3>1. n > Limit
      BY <1>3, <2>3 DEF m
    <3>2. m \in 1..n /\ page[m] = rows[m] /\ next # None
      BY <1>5, <1>6, <1>15, <3>1
    <3> QED
      BY <1>3, <1>6, <2>1, <2>3, <3>1, <3>2
  <2> QED
    BY <1>8, <2>2, <2>3
<1>18. /\ there' = (IF shown = <<>> THEN SeenOf(event) ELSE there)
       /\ reader' = [shown |-> seen, cursor |-> next, done |-> next = None]
  BY DEF History!ReadPage, History!Seen, SeenOf, seen, page, next, rows
<1>19. there' \subseteq SeenOf(event)
  BY <1>18 DEF ReaderTrue
<1>20. ASSUME NEW e \in there'
       PROVE  \/ \E i \in 1..Len(seen) : seen[i] = e
              \/ next # None /\ Below(KeyOf(event, e), next)
  <2>1. CASE shown = <<>>
    BY <1>1, <1>17, <1>18, <2>1
  <2>2. CASE shown # <<>> /\ \E i \in 1..Len(shown) : shown[i] = e
    <3>1. PICK i \in 1..Len(shown) : shown[i] = e
      BY <2>2
    <3>2. i \in 1..Len(seen) /\ seen[i] = e
      BY <1>1, <1>8, <1>10, <3>1
    <3> QED
      BY <3>2
  <2>3. CASE shown # <<>> /\ Below(KeyOf(event, e), cursor)
    <3>1. e \in S
      BY <1>19, <2>3
    <3> QED
      BY <1>17, <3>1
  <2> QED
    BY <1>18, <2>1, <2>2, <2>3 DEF ReaderTrue
<1>21. /\ reader'.shown = seen /\ reader'.cursor = next /\ reader'.done = (next = None)
       /\ reader' \in [shown : Seq(EventId), cursor : EventKey \cup {None}, done : BOOLEAN]
  <2>1. (next = None) \in BOOLEAN
    OBVIOUS
  <2> QED
    BY <1>10, <1>15, <1>18, <2>1
<1> QED
  BY <1>13, <1>14, <1>16, <1>19, <1>20, <1>21 DEF ReaderTrue

LEMMA HistoryStarts == LaneInit => TimelineKept
<1> SUFFICES ASSUME LaneInit PROVE TimelineKept
  OBVIOUS
<1>1. lane # "history" => reader = History!Unread
  BY DEF LaneInit
<1>2. ASSUME lane = "history" PROVE clock \in 0..Clock /\ EventsSound(event) /\ ReaderTrue(event, reader, there)
  <2>1. event = [e \in EventId |-> None] /\ reader = History!Unread /\ there = {} /\ clock = 0
    BY <1>2 DEF LaneInit, History!Init
  <2>2. clock \in 0..Clock
    BY <2>1, ReadersAssumption
  <2>3. EventsSound(event)
    <3>1. {e \in EventId : event[e] # None} = {}
      BY <2>1
    <3>2. event \in [EventId -> EventRow \cup {None}]
      BY <2>1
    <3> QED
      BY <3>1, <3>2, FS_EmptySet DEF EventsSound
  <2>4. ReaderTrue(event, reader, there)
    <3>1. reader = [shown |-> <<>>, cursor |-> None, done |-> FALSE]
      BY <2>1 DEF History!Unread
    <3> QED
      BY <2>1, <3>1 DEF ReaderTrue
  <2> QED
    BY <2>2, <2>3, <2>4
<1> QED
  BY <1>1, <1>2 DEF TimelineKept

LEMMA HistoryStays == TimelineKept /\ [LaneNext]_laneVars => TimelineKept'
<1> SUFFICES ASSUME TimelineKept, [LaneNext]_laneVars PROVE TimelineKept'
  OBVIOUS
<1>1. CASE UNCHANGED history /\ UNCHANGED lane
  BY <1>1 DEF history, TimelineKept
<1>2. CASE lane = "history" /\ History!Next /\ UNCHANGED lane
  <2>1. clock \in 0..Clock /\ EventsSound(event) /\ ReaderTrue(event, reader, there)
    BY <1>2 DEF TimelineKept
  <2>2. CASE History!ReadPage
    <3>1. UNCHANGED <<event, clock>>
      BY <2>2 DEF History!ReadPage
    <3>2. ReaderTrue(event, reader', there')
      BY <2>1, <2>2, ReadPageKept
    <3> QED
      BY <1>2, <2>1, <3>1, <3>2 DEF TimelineKept
  <2>3. CASE History!Tick
    <3>1. UNCHANGED <<event, reader, there>> /\ clock' \in 0..Clock
      BY <2>1, <2>3, ReadersAssumption DEF History!Tick
    <3> QED
      BY <1>2, <2>1, <3>1 DEF TimelineKept
  <2>4. CASE \E e \in EventId : History!Begin(e) \/ History!Commit(e) \/ History!Abort(e)
    <3>1. EventsSound(event') /\ ReaderTrue(event', reader', there') /\ clock' \in 0..Clock
      BY <2>1, <2>4, TransactionKept
    <3> QED
      BY <1>2, <3>1 DEF TimelineKept
  <2> QED
    BY <1>2, <2>2, <2>3, <2>4 DEF History!Next
<1> QED
  BY <1>1, <1>2 DEF LaneNext, laneVars

\* The pages of a history are newest first and, at the end, hold every event
\* that was there at the start, whatever commits in between and with whatever
\* time (ItemEventRepository.ListByItem, ListByBin, loadHistoryEventPage).
THEOREM HistoriesAreWhole == LaneSpec => []HistoryIsWhole
<1>1. LaneInit => TimelineKept
  BY HistoryStarts
<1>2. TimelineKept /\ [LaneNext]_laneVars => TimelineKept'
  BY HistoryStays
<1>3. ASSUME TimelineKept PROVE HistoryIsWhole
  <2>1. CASE lane # "history"
    <3>1. reader = [shown |-> <<>>, cursor |-> None, done |-> FALSE]
      BY <1>3, <2>1 DEF TimelineKept, History!Unread
    <3> QED
      BY <3>1 DEF HistoryIsWhole, History!ShownNewestFirst, History!ShownWhole
  <2>2. CASE lane = "history"
    <3>1. ReaderTrue(event, reader, there)
      BY <1>3, <2>2 DEF TimelineKept
    <3>2. reader.shown \in Seq(EventId) /\ DOMAIN reader.shown = 1..Len(reader.shown)
      BY <3>1 DEF ReaderTrue
    <3>3. History!ShownNewestFirst
      BY <3>1, <3>2 DEF ReaderTrue, History!ShownNewestFirst, History!Before, History!Key, Below, KeyOf
    <3>4. History!ShownWhole
      BY <3>1, <3>2 DEF ReaderTrue, History!ShownWhole, History!ToSet
    <3> QED
      BY <3>3, <3>4 DEF HistoryIsWhole
  <2> QED
    BY <2>1, <2>2
<1> QED
  BY <1>1, <1>2, <1>3, PTL DEF LaneSpec, laneVars

-----------------------------------------------------------------------------
(* The lists of the api. *)

LiveOf(rows) == {i \in Row : rows[i] \in Name}
SortKey(rows, i) == <<rows[i], i>>
UpTo(k, l) == k = l \/ Below(k, l)

\* Of the rows that stood still, those up to the cursor have been shown, once,
\* and those behind it not yet; or the cursor's row was lost on the way.
ShelfTrue(rows, r, still) ==
  /\ r \in [shown : Seq(Row), cursor : (Name \X Row) \cup {None}, done : BOOLEAN, lost : BOOLEAN]
  /\ still \subseteq LiveOf(rows)
  /\ r.shown = <<>> /\ ~r.done => r.cursor = None
  /\ r.done \/ r.shown = <<>> \/ r.cursor # None
  /\ \A i, j \in 1..Len(r.shown) : r.shown[i] = r.shown[j] /\ r.shown[i] \in still => i = j
  /\ r.cursor # None =>
       \A i \in 1..Len(r.shown) : r.shown[i] \in still => UpTo(SortKey(rows, r.shown[i]), r.cursor)
  /\ \A s \in still : \/ \E i \in 1..Len(r.shown) : r.shown[i] = s
                      \/ r.done /\ r.lost
                      \/ ~r.done /\ r.cursor # None /\ Below(r.cursor, SortKey(rows, s))

ListingKept ==
  /\ lane = "lists" => row \in [Row -> Name \cup {None, Gone}] /\ ShelfTrue(row, shelf, steady)
  /\ lane # "lists" => shelf = Lists!Unread /\ steady = {}

LEMMA LiveKeys ==
  ASSUME NEW rows
  PROVE  /\ IsFiniteSet(LiveOf(rows)) /\ LiveOf(rows) \subseteq Row
         /\ \A i \in LiveOf(rows) :
              /\ SortKey(rows, i) \in Name \X Row /\ SortKey(rows, i) \in Keys /\ SortKey(rows, i) # None
              /\ SortKey(rows, i)[2] = i
         /\ Name \X Row \subseteq Keys
<1>1. IsFiniteSet(LiveOf(rows)) /\ LiveOf(rows) \subseteq Row
  BY FS_Subset, ReadersAssumption DEF LiveOf
<1>2. Name \X Row \subseteq Keys /\ None \notin Name \X Row
  BY ReadersAssumption DEF Keys
<1>3. \A i \in LiveOf(rows) : SortKey(rows, i) \in Name \X Row /\ SortKey(rows, i)[2] = i
  BY DEF LiveOf, SortKey
<1> QED
  BY <1>1, <1>2, <1>3

\* The handlers read every row that the caller may see, by name and id.
LEMMA SortedLists ==
  \E n \in Nat :
    /\ Lists!Sorted \in [1..n -> LiveOf(row)]
    /\ \A i, j \in 1..n : i < j => Below(SortKey(row, Lists!Sorted[i]), SortKey(row, Lists!Sorted[j]))
    /\ \A s \in LiveOf(row) : \E j \in 1..n : Lists!Sorted[j] = s
    /\ \A i, j \in 1..n : Lists!Sorted[i] = Lists!Sorted[j] => i = j
<1>0. PICK S : S = LiveOf(row)
  OBVIOUS
<1> DEFINE key == [i \in S |-> SortKey(row, i)]
           n == Cardinality(S)
           Rises(order) == \A i, j \in DOMAIN order :
                             i < j => Lists!Ahead(Lists!Key(order[i]), Lists!Key(order[j]))
<1>1. IsFiniteSet(S) /\ n \in Nat
  BY <1>0, LiveKeys, FS_CardinalityType
<1>2. key \in [S -> Keys] /\ \A p, q \in S : key[p] = key[q] => p = q
  BY <1>0, LiveKeys
<1>3. \A order \in [1..n -> S] :
        Rises(order) <=> \A i, j \in 1..n : i < j => Below(key[order[i]], key[order[j]])
  <2> SUFFICES ASSUME NEW order \in [1..n -> S]
               PROVE  Rises(order) <=> \A i, j \in 1..n : i < j => Below(key[order[i]], key[order[j]])
    OBVIOUS
  <2>1. DOMAIN order = 1..n /\ \A i \in 1..n : key[order[i]] = Lists!Key(order[i])
    BY DEF Lists!Key, SortKey
  <2>2. \A k, l : Lists!Ahead(k, l) <=> Below(k, l)
    BY DEF Lists!Ahead, Below
  <2> HIDE DEF n, key
  <2> QED
    BY <2>1, <2>2
<1>4. Lists!Sorted = CHOOSE order \in [1..n -> S] : Rises(order)
  <2>1. Lists!Cardinality(Lists!Live) = Cardinality(S) /\ Lists!Live = S
    BY <1>0 DEF Lists!Cardinality, Cardinality, Lists!Live, LiveOf
  <2> QED
    BY <2>1 DEF Lists!Sorted
<1> HIDE DEF Rises, key
<1>5. \E order \in [1..n -> S] : \A i, j \in 1..n : i < j => Below(key[order[i]], key[order[j]])
  BY <1>1, <1>2, SortedExists
<1> HIDE DEF n
<1>6. PICK order \in [1..n -> S] : order = Lists!Sorted /\ Rises(order)
  BY <1>3, <1>4, <1>5
<1>7. \A i, j \in 1..n : i < j => Below(key[order[i]], key[order[j]])
  BY <1>3, <1>6
<1>8. /\ \A i, j \in 1..n : order[i] = order[j] => i = j
      /\ \A p \in S : \E j \in 1..n : order[j] = p
  <2>1. /\ order \in [1..Cardinality(S) -> S]
        /\ \A i, j \in 1..Cardinality(S) : i < j => Below(key[order[i]], key[order[j]])
    BY <1>7 DEF n
  <2>2. /\ \A i, j \in 1..Cardinality(S) : order[i] = order[j] => i = j
        /\ \A p \in S : \E j \in 1..Cardinality(S) : order[j] = p
    BY <1>1, <1>2, <2>1, SortedEnumerates
  <2> QED
    BY <2>2 DEF n
<1> QED
  BY <1>0, <1>1, <1>6, <1>7, <1>8 DEF key

\* An edit of a row takes it out of those that stood still.
LEMMA EditKept ==
  ASSUME NEW rows, NEW later, NEW r, NEW still, NEW left, ShelfTrue(rows, r, still),
         left \subseteq still, \A s \in left : later[s] = rows[s]
  PROVE  ShelfTrue(later, r, left)
<1>1. \A s \in left : SortKey(later, s) = SortKey(rows, s) /\ s \in LiveOf(later)
  BY DEF SortKey, LiveOf, ShelfTrue
<1> QED
  BY <1>1 DEF ShelfTrue

LEMMA ReadListKept ==
  ASSUME ShelfTrue(row, shelf, steady), Lists!ReadPage
  PROVE  ShelfTrue(row, shelf', steady')
<1> DEFINE cursor == shelf.cursor
           shown == shelf.shown
           rows == Lists!Sorted
           start == Lists!Start(rows, cursor)
           page == Lists!Window(rows, start)
           next == Lists!NextCursor(rows, start + Limit)
           seen == shown \o page
           key(i) == SortKey(row, i)
<1>1. /\ shelf \in [shown : Seq(Row), cursor : (Name \X Row) \cup {None}, done : BOOLEAN, lost : BOOLEAN]
      /\ shown \in Seq(Row) /\ Len(shown) \in Nat /\ ~shelf.done
      /\ shown = <<>> <=> cursor = None
      /\ shown # <<>> => cursor \in Keys
      /\ Limit \in Nat \ {0}
  <2>1. /\ shelf \in [shown : Seq(Row), cursor : (Name \X Row) \cup {None}, done : BOOLEAN, lost : BOOLEAN]
        /\ ~shelf.done
    BY DEF ShelfTrue, Lists!ReadPage
  <2>2. shown \in Seq(Row) /\ cursor \in (Name \X Row) \cup {None} /\ Name \X Row \subseteq Keys
    BY <2>1, LiveKeys
  <2>3. shown = <<>> <=> cursor = None
    BY <2>1 DEF ShelfTrue
  <2> QED
    BY <2>1, <2>2, <2>3, ReadersAssumption
<1> HIDE DEF shown, cursor
<1>2. PICK n \in Nat :
        /\ rows \in [1..n -> LiveOf(row)]
        /\ \A i, j \in 1..n : i < j => Below(key(rows[i]), key(rows[j]))
        /\ \A s \in LiveOf(row) : \E j \in 1..n : rows[j] = s
        /\ \A i, j \in 1..n : rows[i] = rows[j] => i = j
  BY SortedLists
<1> HIDE DEF rows
<1>3. Len(rows) = n /\ DOMAIN rows = 1..n /\ \A j \in 1..n : rows[j] \in LiveOf(row) /\ rows[j] \in Row
  BY <1>2, LiveKeys
<1>4. \A j \in 1..n : key(rows[j]) \in Keys /\ key(rows[j]) \in Name \X Row /\ key(rows[j]) # None
  BY <1>3, LiveKeys
\* Where the page begins: at the top, behind the cursor's row, or, when that is
\* lost, at the end.
<1> DEFINE isLost == cursor # None /\ \A j \in 1..n : key(rows[j]) # cursor
<1>5. /\ start \in 0..n
      /\ cursor = None => start = 0
      /\ cursor # None /\ ~isLost => start \in 1..n /\ key(rows[start]) = cursor
      /\ isLost => start = n
      /\ Lists!Lost <=> isLost
  <2>1. \A j \in 1..n : Lists!Key(rows[j]) = key(rows[j])
    BY DEF Lists!Key, SortKey
  <2>0. Lists!Lost <=> cursor # None /\ \A i \in LiveOf(row) : Lists!Key(i) # cursor
    BY DEF Lists!Lost, Lists!Live, LiveOf, cursor
  <2>2. CASE cursor = None
    BY <1>2, <2>0, <2>2 DEF Lists!Start
  <2>3. CASE cursor # None /\ isLost
    <3>1. start = n
      BY <1>3, <2>1, <2>3 DEF Lists!Start
    <3>2. \A i \in LiveOf(row) : Lists!Key(i) # cursor
      BY <1>2, <2>1, <2>3
    <3> QED
      BY <1>2, <2>0, <2>3, <3>1, <3>2
  <2>4. CASE cursor # None /\ ~isLost
    <3>1. PICK a \in 1..n : key(rows[a]) = cursor
      BY <2>4
    <3>2. start = CHOOSE j \in 1..n : Lists!Key(rows[j]) = cursor
      BY <1>3, <2>1, <2>4, <3>1 DEF Lists!Start
    <3>3. start \in 1..n /\ key(rows[start]) = cursor
      BY <2>1, <3>1, <3>2
    <3>4. ~Lists!Lost
      BY <1>3, <2>0, <2>1, <3>1
    <3> QED
      BY <2>4, <3>3, <3>4
  <2> QED
    BY <2>2, <2>3, <2>4
<1> HIDE DEF start
<1> DEFINE m == IF Limit <= n - start THEN Limit ELSE n - start
<1>6. m \in Nat /\ start + m <= n /\ (m = Limit \/ start + m = n)
  BY <1>1, <1>2, <1>5
<1>7. page \in Seq(Row) /\ Len(page) = m /\ \A i \in 1..m : page[i] = rows[start + i]
  <2>1. Lists!Min({Limit, n - start}) = m
    <3>1. m \in {Limit, n - start} /\ \A y \in {Limit, n - start} : m <= y
      BY <1>1, <1>2, <1>5
    <3>2. \A x \in {Limit, n - start} : (\A y \in {Limit, n - start} : x <= y) => x = m
      BY <1>1, <1>2, <1>5
    <3> HIDE DEF m
    <3> QED
      BY <3>1, <3>2 DEF Lists!Min
  <2>2. page = [i \in 1..m |-> rows[start + i]]
    BY <1>3, <2>1 DEF Lists!Window
  <2>3. \A i \in 1..m : start + i \in 1..n
    BY <1>2, <1>5, <1>6
  <2> HIDE DEF m, page
  <2>4. page \in [1..m -> Row]
    BY <1>3, <2>2, <2>3
  <2> QED
    BY <1>6, <2>2, <2>4
<1>8. /\ start + Limit >= n => next = None
      /\ start + Limit < n => m = Limit /\ start + m \in 1..n /\ next = key(rows[start + m])
  <2>1. CASE start + Limit >= n
    BY <1>1, <1>2, <1>3, <1>5, <2>1 DEF Lists!NextCursor
  <2>2. CASE start + Limit < n
    <3>1. m = Limit /\ start + m \in 1..n /\ ~(start + Limit >= n)
      BY <1>1, <1>2, <1>5, <2>2
    <3>2. next = Lists!Key(rows[start + Limit])
      BY <1>3, <3>1 DEF Lists!NextCursor
    <3> QED
      BY <1>1, <1>2, <1>5, <2>2, <3>1, <3>2 DEF Lists!Key, SortKey
  <2> QED
    BY <1>1, <1>2, <1>5, <2>1, <2>2
<1>9. next # None <=> start + Limit < n
  BY <1>1, <1>2, <1>4, <1>5, <1>8
<1> HIDE DEF page, next, m, isLost
<1>10. /\ seen \in Seq(Row) /\ Len(seen) = Len(shown) + m
       /\ \A i \in 1..Len(shown) : seen[i] = shown[i]
       /\ \A i \in 1..m : seen[Len(shown) + i] = page[i]
  <2>1. shown \in Seq(Row) /\ page \in Seq(Row) /\ Len(page) = m /\ Len(shown) \in Nat /\ m \in Nat
    BY <1>1, <1>6, <1>7
  <2>2. seen \in Seq(Row) /\ Len(seen) = Len(shown) + m
    BY <2>1
  <2>3. \A i \in 1..Len(shown) : seen[i] = shown[i]
    BY <2>1
  <2>4. \A i \in 1..m : seen[Len(shown) + i] = page[i]
    BY <2>1
  <2> QED
    BY <2>2, <2>3, <2>4
<1> HIDE DEF seen
<1>11. ASSUME NEW i \in 1..Len(seen), i \notin 1..Len(shown)
       PROVE  /\ i - Len(shown) \in 1..m /\ start + (i - Len(shown)) \in 1..n
              /\ seen[i] = rows[start + (i - Len(shown))]
  <2>1. i - Len(shown) \in 1..m /\ Len(shown) + (i - Len(shown)) = i
    BY <1>1, <1>6, <1>10, <1>11
  <2>2. seen[i] = page[i - Len(shown)]
    BY <1>10, <2>1
  <2>3. page[i - Len(shown)] = rows[start + (i - Len(shown))]
    BY <1>7, <2>1
  <2>4. start + (i - Len(shown)) \in 1..n
    BY <1>1, <1>2, <1>5, <1>6, <1>10, <2>1
  <2> QED
    BY <2>1, <2>2, <2>3, <2>4
<1>12. \A i \in 1..Len(shown) : i \in 1..Len(seen) /\ seen[i] = shown[i]
  BY <1>1, <1>6, <1>10
<1> DEFINE later == [shown |-> seen, cursor |-> next, done |-> next = None, lost |-> Lists!Lost]
           left == IF shown = <<>> THEN LiveOf(row) ELSE steady
<1>13. shelf' = later /\ steady' = left
  BY DEF Lists!ReadPage, Lists!Live, LiveOf, later, left, seen, next, page, start, rows, shown, cursor
<1>14. later \in [shown : Seq(Row), cursor : (Name \X Row) \cup {None}, done : BOOLEAN, lost : BOOLEAN]
  <2>1. (next = None) \in BOOLEAN /\ Lists!Lost \in BOOLEAN
    BY DEF Lists!Lost
  <2>2. next \in (Name \X Row) \cup {None}
    BY <1>4, <1>8, <1>9
  <2> QED
    BY <1>10, <2>1, <2>2
<1>15. left \subseteq LiveOf(row)
  BY DEF ShelfTrue
<1>16. ASSUME shown # <<>>
       PROVE  /\ left = steady /\ cursor # None /\ cursor \in Keys
              /\ \A i, j \in 1..Len(shown) : shown[i] = shown[j] /\ shown[i] \in steady => i = j
              /\ \A i \in 1..Len(shown) : shown[i] \in steady => UpTo(key(shown[i]), cursor)
              /\ \A s \in steady : (\E i \in 1..Len(shown) : shown[i] = s) \/ Below(cursor, key(s))
  BY <1>1, <1>16 DEF ShelfTrue, shown, cursor
\* A row up to the cursor does not stand behind the place where the page begins.
<1>17. ASSUME NEW i \in 1..Len(shown), shown[i] \in left, NEW j \in 1..n, j > start
       PROVE  Below(key(shown[i]), key(rows[j]))
  <2>1. shown # <<>>
    BY <1>1
  <2>2. ~isLost
    BY <1>2, <1>5, <1>17
  <2>3. start \in 1..n /\ key(rows[start]) = cursor
    BY <1>5, <1>16, <2>1, <2>2
  <2>4. Below(cursor, key(rows[j]))
    BY <1>2, <1>17, <2>3
  <2>5. UpTo(key(shown[i]), cursor) /\ key(shown[i]) \in Keys
    BY <1>15, <1>16, <1>17, <2>1, LiveKeys
  <2> QED
    BY <1>4, <1>16, <2>1, <2>4, <2>5, BelowOrders DEF UpTo
<1>18. ASSUME NEW i \in 1..Len(seen), NEW j \in 1..Len(seen), seen[i] = seen[j], seen[i] \in left
       PROVE  i = j
  <2>1. CASE i \in 1..Len(shown) /\ j \in 1..Len(shown)
    <3>1. shown # <<>>
      BY <1>1, <2>1
    <3> QED
      BY <1>12, <1>16, <1>18, <2>1, <3>1
  <2>2. CASE i \in 1..Len(shown) /\ j \notin 1..Len(shown)
    BY <1>2, <1>4, <1>5, <1>11, <1>12, <1>17, <1>18, <2>2, BelowOrders
  <2>3. CASE i \notin 1..Len(shown) /\ j \in 1..Len(shown)
    BY <1>2, <1>4, <1>5, <1>11, <1>12, <1>17, <1>18, <2>3, BelowOrders
  <2>4. CASE i \notin 1..Len(shown) /\ j \notin 1..Len(shown)
    <3>1. start + (i - Len(shown)) = start + (j - Len(shown))
      BY <1>2, <1>11, <1>18, <2>4
    <3> QED
      BY <1>1, <1>5, <1>10, <3>1
  <2> QED
    BY <2>1, <2>2, <2>3, <2>4
<1>19. ASSUME next # None, NEW i \in 1..Len(seen), seen[i] \in left
       PROVE  UpTo(key(seen[i]), next)
  <2>1. start + m \in 1..n /\ next = key(rows[start + m]) /\ start + m > start
    BY <1>1, <1>2, <1>5, <1>8, <1>9, <1>19
  <2>2. CASE i \in 1..Len(shown)
    BY <1>12, <1>17, <1>19, <2>1, <2>2 DEF UpTo
  <2>3. CASE i \notin 1..Len(shown)
    <3>1. PICK j \in 1..n : seen[i] = rows[j] /\ j <= start + m
      BY <1>2, <1>5, <1>6, <1>11, <2>3
    <3>2. j = start + m \/ j < start + m
      BY <2>1, <3>1
    <3> QED
      BY <1>2, <2>1, <3>1, <3>2 DEF UpTo
  <2> QED
    BY <2>2, <2>3
<1>20. ASSUME NEW s \in left
       PROVE  \/ \E i \in 1..Len(seen) : seen[i] = s
              \/ next = None /\ Lists!Lost
              \/ next # None /\ Below(next, key(s))
  <2>1. PICK j \in 1..n : rows[j] = s
    BY <1>2, <1>15
  <2>2. CASE j <= start /\ ~isLost
    <3>1. cursor # None
      BY <1>5, <2>1, <2>2
    <3>2. start \in 1..n /\ key(rows[start]) = cursor
      BY <1>5, <2>2, <3>1
    <3>3. ~Below(cursor, key(s))
      <4>1. j = start \/ Below(key(s), cursor)
        BY <1>2, <2>1, <2>2, <3>2
      <4> QED
        BY <1>4, <2>1, <3>2, <4>1, BelowOrders
    <3>4. PICK i \in 1..Len(shown) : shown[i] = s
      BY <1>1, <1>16, <1>20, <3>1, <3>3
    <3> QED
      BY <1>12, <3>4
  <2>3. CASE isLost
    BY <1>1, <1>2, <1>5, <1>8, <2>3
  <2>4. CASE j > start /\ j <= start + m
    <3>1. j - start \in 1..m /\ start + (j - start) = j
      BY <1>5, <1>6, <2>1, <2>4
    <3>2. seen[Len(shown) + (j - start)] = s
      BY <1>7, <1>10, <2>1, <3>1
    <3>3. Len(shown) + (j - start) \in 1..Len(seen)
      BY <1>1, <1>6, <1>10, <3>1
    <3> QED
      BY <3>2, <3>3
  <2>5. CASE j > start + m
    <3>1. start + m < n
      BY <1>2, <1>5, <1>6, <2>1, <2>5
    <3>2. start + Limit < n
      BY <1>1, <1>5, <1>6, <3>1
    <3>3. start + m \in 1..n /\ next = key(rows[start + m]) /\ next # None
      BY <1>8, <1>9, <3>2
    <3> QED
      BY <1>2, <2>1, <2>5, <3>3
  <2> QED
    BY <1>2, <1>5, <1>6, <2>1, <2>2, <2>3, <2>4, <2>5
<1>21. ShelfTrue(row, later, left)
  <2> HIDE DEF left
  <2>1. /\ later.shown = seen /\ later.cursor = next /\ later.lost = Lists!Lost
        /\ later.done <=> next = None
    OBVIOUS
  <2> HIDE DEF later
  <2>2. \A i, j \in 1..Len(later.shown) :
          later.shown[i] = later.shown[j] /\ later.shown[i] \in left => i = j
    BY <1>18, <2>1
  <2>3. later.cursor # None =>
          \A i \in 1..Len(later.shown) :
            later.shown[i] \in left => UpTo(SortKey(row, later.shown[i]), later.cursor)
    BY <1>19, <2>1
  <2>4. \A s \in left :
          \/ \E i \in 1..Len(later.shown) : later.shown[i] = s
          \/ later.done /\ later.lost
          \/ ~later.done /\ later.cursor # None /\ Below(later.cursor, SortKey(row, s))
    BY <1>20, <2>1
  <2>5. /\ later.done \/ later.shown = <<>> \/ later.cursor # None
        /\ later.shown = <<>> /\ ~later.done => later.cursor = None
    <3>1. next # None => seen # <<>>
      BY <1>1, <1>6, <1>8, <1>9, <1>10
    <3> QED
      BY <2>1, <3>1
  <2> QED
    BY <1>14, <1>15, <2>2, <2>3, <2>4, <2>5 DEF ShelfTrue
<1> QED
  BY <1>13, <1>21

LEMMA EditsKept ==
  ASSUME row \in [Row -> Name \cup {None, Gone}], ShelfTrue(row, shelf, steady),
         NEW i \in Row, Lists!Delete(i) \/ \E n \in Name : Lists!Insert(i, n) \/ Lists!Rename(i, n)
  PROVE  row' \in [Row -> Name \cup {None, Gone}] /\ ShelfTrue(row', shelf', steady')
<1>1. PICK new \in Name \cup {None, Gone} :
        /\ row' = [row EXCEPT ![i] = new] /\ shelf' = shelf
        /\ steady' \subseteq steady /\ i \notin steady'
  <2>1. CASE Lists!Delete(i)
    BY <2>1 DEF Lists!Delete
  <2>2. CASE \E n \in Name : Lists!Insert(i, n)
    <3>1. PICK n \in Name : Lists!Insert(i, n)
      BY <2>2
    <3>2. i \notin steady
      BY <3>1, ReadersAssumption DEF Lists!Insert, ShelfTrue, LiveOf
    <3> QED
      BY <3>1, <3>2 DEF Lists!Insert
  <2>3. CASE \E n \in Name : Lists!Rename(i, n)
    BY <2>3 DEF Lists!Rename
  <2> QED
    BY <2>1, <2>2, <2>3
<1>2. row' \in [Row -> Name \cup {None, Gone}]
  BY <1>1
<1>3. \A s \in steady' : row'[s] = row[s]
  BY <1>1 DEF ShelfTrue, LiveOf
<1>4. ShelfTrue(row', shelf, steady')
  BY <1>1, <1>3, EditKept
<1> QED
  BY <1>1, <1>2, <1>4

LEMMA ListsStart == LaneInit => ListingKept
<1> SUFFICES ASSUME LaneInit PROVE ListingKept
  OBVIOUS
<1>1. lane # "lists" => shelf = Lists!Unread /\ steady = {}
  BY DEF LaneInit
<1>2. ASSUME lane = "lists" PROVE row \in [Row -> Name \cup {None, Gone}] /\ ShelfTrue(row, shelf, steady)
  <2>1. row \in [Row -> Name \cup {None}] /\ shelf = Lists!Unread /\ steady = {}
    BY <1>2 DEF LaneInit, Lists!Init
  <2>2. shelf = [shown |-> <<>>, cursor |-> None, done |-> FALSE, lost |-> FALSE]
    BY <2>1 DEF Lists!Unread
  <2>3. ShelfTrue(row, shelf, steady)
    BY <2>1, <2>2 DEF ShelfTrue
  <2> QED
    BY <2>1, <2>3
<1> QED
  BY <1>1, <1>2 DEF ListingKept

LEMMA ListsStay == ListingKept /\ [LaneNext]_laneVars => ListingKept'
<1> SUFFICES ASSUME ListingKept, [LaneNext]_laneVars PROVE ListingKept'
  OBVIOUS
<1>1. CASE UNCHANGED lists /\ UNCHANGED lane
  BY <1>1 DEF lists, ListingKept
<1>2. CASE lane = "lists" /\ Lists!Next /\ UNCHANGED lane
  <2>1. row \in [Row -> Name \cup {None, Gone}] /\ ShelfTrue(row, shelf, steady)
    BY <1>2 DEF ListingKept
  <2>2. CASE Lists!ReadPage
    <3>1. UNCHANGED row
      BY <2>2 DEF Lists!ReadPage
    <3>2. ShelfTrue(row, shelf', steady')
      BY <2>1, <2>2, ReadListKept
    <3> QED
      BY <1>2, <2>1, <3>1, <3>2 DEF ListingKept
  <2>3. CASE \E i \in Row : Lists!Delete(i) \/ \E n \in Name : Lists!Insert(i, n) \/ Lists!Rename(i, n)
    <3>1. row' \in [Row -> Name \cup {None, Gone}] /\ ShelfTrue(row', shelf', steady')
      BY <2>1, <2>3, EditsKept
    <3> QED
      BY <1>2, <3>1 DEF ListingKept
  <2> QED
    BY <1>2, <2>2, <2>3 DEF Lists!Next
<1> QED
  BY <1>1, <1>2 DEF LaneNext, laneVars

\* Whoever follows next_cursor to the end gets no row twice that stood still
\* and, unless the row his cursor named was lost to an edit, misses none of
\* them, whatever is inserted, renamed or deleted between two pages ("page").
THEOREM ListsAreWhole == LaneSpec => []ListIsWhole
<1>1. LaneInit => ListingKept
  BY ListsStart
<1>2. ListingKept /\ [LaneNext]_laneVars => ListingKept'
  BY ListsStay
<1>3. ASSUME ListingKept PROVE ListIsWhole
  <2>1. CASE lane # "lists"
    <3>1. shelf = [shown |-> <<>>, cursor |-> None, done |-> FALSE, lost |-> FALSE]
      BY <1>3, <2>1 DEF ListingKept, Lists!Unread
    <3> QED
      BY <3>1 DEF ListIsWhole, Lists!NoRowTwice, Lists!WholeUnlessLost
  <2>2. CASE lane = "lists"
    <3>1. ShelfTrue(row, shelf, steady)
      BY <1>3, <2>2 DEF ListingKept
    <3>2. shelf.shown \in Seq(Row) /\ DOMAIN shelf.shown = 1..Len(shelf.shown)
      BY <3>1 DEF ShelfTrue
    <3>3. Lists!NoRowTwice
      BY <3>1, <3>2 DEF ShelfTrue, Lists!NoRowTwice
    <3>4. Lists!WholeUnlessLost
      BY <3>1, <3>2 DEF ShelfTrue, Lists!WholeUnlessLost, Lists!ToSet
    <3> QED
      BY <3>3, <3>4 DEF ListIsWhole
  <2> QED
    BY <2>1, <2>2
<1> QED
  BY <1>1, <1>2, <1>3, PTL DEF LaneSpec, laneVars

-----------------------------------------------------------------------------
(* The labels. *)

\* The place in the batch of the label on a cell of a page, on sheets of n
\* cells that begin at an offset.
At(n, offset, p, c) == (p - 1) * n + c - offset + 1
PlaceOf(d, p, c) == At(Sheets!CellsPerPage(d.size), d.offset, p, c)

\* The labels drawn so far lie on their places, and the next one comes behind
\* them, on this page or on a new one.
DocTrue(d) ==
  /\ d = [size |-> d.size, offset |-> d.offset, labels |-> d.labels, seen |-> d.seen,
          pages |-> d.pages, cell |-> d.cell, drawn |-> d.drawn]
  /\ d.size \in Sheets!Size /\ d.offset \in Sheets!Cells(d.size)
  /\ d.labels \in Seq(Labelled) /\ d.labels # <<>>
  /\ d.pages \in Seq([Sheets!Cells(d.size) -> Int]) /\ d.pages # <<>>
  /\ d.drawn \in 0..Len(d.labels)
  /\ d.cell \in 0..Sheets!CellsPerPage(d.size)
  /\ PlaceOf(d, Len(d.pages), d.cell) = d.drawn + 1
  /\ Len(d.pages) = 1 \/ d.cell > 0 \/ d.drawn < Len(d.labels)
  /\ \A p \in 1..Len(d.pages), c \in Sheets!Cells(d.size) :
       d.pages[p][c] = IF PlaceOf(d, p, c) \in 1..d.drawn THEN d.labels[PlaceOf(d, p, c)]
                       ELSE Sheets!Blank

LabelsKept ==
  /\ lane = "sheets" =>
       /\ bins \subseteq Labelled /\ pref \in Sheets!Size \cup {None} /\ radio \in Sheets!Size
       /\ doc = None \/ DocTrue(doc)
  /\ lane # "sheets" => doc = None

LEMMA SizesHaveCells ==
  ASSUME NEW s \in Sheets!Size
  PROVE  /\ Sheets!CellsPerPage(s) \in {1, 10, 30}
         /\ Sheets!Cells(s) = 0..Sheets!CellsPerPage(s) - 1
  BY DEF Sheets!Size, Sheets!CellsPerPage, Sheets!Cells, Sheets!Avery5160, Sheets!Avery5163, Sheets!Single4x6

\* Places rise from cell to cell and from page to page, by one.
LEMMA PlacesRise ==
  ASSUME NEW n \in {1, 10, 30}, NEW offset \in 0..n - 1
  PROVE  /\ \A p \in Nat \ {0} : At(n, offset, p, 0) \in Int
         /\ \A p \in Nat \ {0}, c \in 0..n : At(n, offset, p, c) = At(n, offset, p, 0) + c
         /\ \A p \in Nat \ {0} : At(n, offset, p + 1, 0) = At(n, offset, p, n)
         /\ \A p \in Nat \ {0}, c \in 0..n : At(n, offset, p, c + 1) = At(n, offset, p, c) + 1
         /\ \A c \in 0..n : At(n, offset, 1, c) = c - offset + 1
<1>1. CASE n = 1
  BY <1>1 DEF At
<1>2. CASE n = 10
  BY <1>2 DEF At
<1>3. CASE n = 30
  BY <1>3 DEF At
<1> QED
  BY <1>1, <1>2, <1>3

LEMMA PagesRise ==
  ASSUME NEW n \in {1, 10, 30}, NEW offset \in 0..n - 1
  PROVE  \A p, q \in Nat \ {0} : \A c \in 0..n - 1, e \in 0..n :
           p < q => At(n, offset, p, c) < At(n, offset, q, e)
<1>1. CASE n = 1
  BY <1>1 DEF At
<1>2. CASE n = 10
  BY <1>2 DEF At
<1>3. CASE n = 30
  BY <1>3 DEF At
<1> QED
  BY <1>1, <1>2, <1>3

\* The labels of a size lie on its sheet, apart from each other.
LEMMA CellsLieApart ==
  ASSUME NEW s \in Sheets!Size, NEW c \in Sheets!Cells(s)
  PROVE  /\ Sheets!Inside(Sheets!Rect(s, c), s.pageWidth, s.pageHeight)
         /\ \A d \in 0..c - 1 : Sheets!Apart(Sheets!Rect(s, c), Sheets!Rect(s, d))
<1>1. CASE s = Sheets!Avery5160
  BY <1>1 DEF Sheets!Avery5160, Sheets!Cells, Sheets!CellsPerPage, Sheets!Inside, Sheets!Rect, Sheets!CellOrigin, Sheets!Epsilon, Sheets!Apart
<1>2. CASE s = Sheets!Avery5163
  BY <1>2 DEF Sheets!Avery5163, Sheets!Cells, Sheets!CellsPerPage, Sheets!Inside, Sheets!Rect, Sheets!CellOrigin, Sheets!Epsilon, Sheets!Apart
<1>3. CASE s = Sheets!Single4x6
  BY <1>3 DEF Sheets!Single4x6, Sheets!Cells, Sheets!CellsPerPage, Sheets!Inside, Sheets!Rect, Sheets!CellOrigin, Sheets!Epsilon, Sheets!Apart
<1> QED
  BY <1>1, <1>2, <1>3 DEF Sheets!Size

\* Within a label the square and the text lie apart.
LEMMA PartsLieApart ==
  ASSUME NEW s \in Sheets!Size
  PROVE  /\ Sheets!Inside(Sheets!CellLayout(s).qr, s.width, s.height)
         /\ Sheets!Inside(Sheets!CellLayout(s).text, s.width, s.height)
         /\ Sheets!Apart(Sheets!CellLayout(s).qr, Sheets!CellLayout(s).text)
<1>1. CASE s = Sheets!Avery5160
  BY <1>1 DEF Sheets!Avery5160, Sheets!CellLayout, Sheets!Padding, Sheets!Gap, Sheets!Inside, Sheets!Epsilon, Sheets!Apart
<1>2. CASE s = Sheets!Avery5163
  BY <1>2 DEF Sheets!Avery5163, Sheets!CellLayout, Sheets!Padding, Sheets!Gap, Sheets!Inside, Sheets!Epsilon, Sheets!Apart
<1>3. CASE s = Sheets!Single4x6
  BY <1>3 DEF Sheets!Single4x6, Sheets!CellLayout, Sheets!Padding, Sheets!Gap, Sheets!Inside, Sheets!Epsilon, Sheets!Apart
<1> QED
  BY <1>1, <1>2, <1>3 DEF Sheets!Size

\* The bins of the location come in the order of their codes.
LEMMA ListedLists ==
  ASSUME bins \subseteq Labelled
  PROVE  Sheets!Listed \in Seq(Labelled)
<1>0. PICK S : S = bins
  OBVIOUS
<1> DEFINE n == Cardinality(S)
           key == [b \in S |-> <<b, b>>]
           Rises(order) == \A i, j \in DOMAIN order : i < j => order[i] < order[j]
<1>1. IsFiniteSet(S) /\ n \in Nat /\ S \subseteq Nat
  BY <1>0, ReadersAssumption, FS_Subset, FS_CardinalityType
<1>2. key \in [S -> Keys] /\ \A p, q \in S : key[p] = key[q] => p = q
  BY <1>1 DEF Keys
<1>3. PICK up \in [1..n -> S] : \A i, j \in 1..n : i < j => Below(key[up[i]], key[up[j]])
  BY <1>1, <1>2, SortedExists
<1>4. Sheets!Listed = CHOOSE order \in [1..n -> S] : Rises(order)
  <2>1. Sheets!Cardinality(bins) = Cardinality(S)
    BY <1>0 DEF Sheets!Cardinality, Cardinality
  <2> QED
    BY <1>0, <2>1 DEF Sheets!Listed
<1> HIDE DEF n
<1>5. \A b, e \in S : Below(key[b], key[e]) => b < e
  BY <1>1 DEF Below
<1>6. Rises(up)
  BY <1>3, <1>5
<1> HIDE DEF Rises, key
<1>7. PICK list : list = Sheets!Listed /\ list \in [1..n -> S]
  BY <1>3, <1>4, <1>6
<1>8. list \in Seq(Labelled)
  <2>1. list \in [1..n -> Labelled]
    BY <1>0, <1>7
  <2> QED
    BY <1>1, <2>1
<1> QED
  BY <1>7, <1>8

LEMMA OffsetIsClamped ==
  ASSUME NEW s \in Sheets!Size, NEW offset
  PROVE  /\ 0 \in Sheets!Cells(s)
         /\ Sheets!ClampOffset(offset, s) \in Sheets!Cells(s)
<1>1. 0 \in Sheets!Cells(s) /\ Sheets!CellsPerPage(s) - 1 \in Sheets!Cells(s)
  BY SizesHaveCells
<1> QED
  BY <1>1 DEF Sheets!ClampOffset

LEMMA DocumentTrue ==
  ASSUME bins \subseteq Labelled, NEW s \in Sheets!Size, NEW offset \in Sheets!Cells(s),
         Sheets!Printable, NEW seen
  PROVE  DocTrue(Sheets!Document(s, offset, seen))
<1>1. PICK d : d = Sheets!Document(s, offset, seen)
  OBVIOUS
<1>2. /\ d = [size |-> s, offset |-> offset, labels |-> Sheets!Listed, seen |-> seen,
              pages |-> <<Sheets!BlankPage(s)>>, cell |-> offset, drawn |-> 0]
      /\ d.size = s /\ d.offset = offset /\ d.labels = Sheets!Listed /\ d.seen = seen
      /\ d.pages = <<Sheets!BlankPage(s)>> /\ d.cell = offset /\ d.drawn = 0
  BY <1>1 DEF Sheets!Document
<1>3. d.labels \in Seq(Labelled) /\ d.labels # <<>> /\ Len(d.labels) \in Nat
  <2>1. Len(Sheets!Listed) # 0
    BY DEF Sheets!Printable
  <2> QED
    BY <1>2, <2>1, ListedLists
<1>4. Sheets!BlankPage(s) \in [Sheets!Cells(s) -> Int]
  BY DEF Sheets!BlankPage, Sheets!Blank
<1>5. /\ d.pages \in Seq([Sheets!Cells(s) -> Int]) /\ Len(d.pages) = 1 /\ d.pages # <<>>
      /\ d.pages[1] = Sheets!BlankPage(s)
  BY <1>2, <1>4
<1>6. d.cell \in 0..Sheets!CellsPerPage(s) /\ PlaceOf(d, 1, d.cell) = 1
  <2>1. PICK n \in {1, 10, 30} : n = Sheets!CellsPerPage(s) /\ Sheets!Cells(s) = 0..n - 1
    BY SizesHaveCells
  <2>2. offset \in 0..n - 1 /\ offset \in 0..n /\ offset \in Int
    BY <2>1
  <2>3. At(n, offset, 1, offset) = offset - offset + 1
    BY <2>1, <2>2, PlacesRise
  <2> QED
    BY <1>2, <2>1, <2>2, <2>3 DEF PlaceOf
<1>7. \A p \in 1..1, c \in Sheets!Cells(s) : d.pages[p][c] = Sheets!Blank
  BY <1>5 DEF Sheets!BlankPage
<1> QED
  BY <1>1, <1>2, <1>3, <1>5, <1>6, <1>7 DEF DocTrue

LEMMA DocTypes ==
  ASSUME NEW d, DocTrue(d)
  PROVE  \E n \in {1, 10, 30}, last \in Nat \ {0} :
           /\ n = Sheets!CellsPerPage(d.size) /\ last = Len(d.pages) /\ n \in Nat
           /\ Sheets!Cells(d.size) = 0..n - 1
           /\ d.pages \in Seq([0..n - 1 -> Int])
           /\ d.cell \in 0..n /\ d.cell \in Nat
           /\ d.offset \in 0..n - 1 /\ d.offset \in Nat
           /\ d.labels \in Seq(Labelled) /\ Len(d.labels) \in Nat
           /\ d.drawn \in Nat /\ d.drawn <= Len(d.labels)
           /\ At(n, d.offset, last, d.cell) = d.drawn + 1
           /\ \A p, c : PlaceOf(d, p, c) = At(n, d.offset, p, c)
           /\ \A p \in 1..last, c \in 0..n - 1 :
                d.pages[p][c] = IF At(n, d.offset, p, c) \in 1..d.drawn
                                THEN d.labels[At(n, d.offset, p, c)] ELSE Sheets!Blank
<1>1. PICK n \in {1, 10, 30} : n = Sheets!CellsPerPage(d.size) /\ Sheets!Cells(d.size) = 0..n - 1
  BY SizesHaveCells DEF DocTrue
<1>2. \A p, c : PlaceOf(d, p, c) = At(n, d.offset, p, c)
  BY <1>1 DEF PlaceOf
<1>3. d.pages \in Seq([0..n - 1 -> Int]) /\ d.pages # <<>>
  BY <1>1 DEF DocTrue
<1>4. PICK last \in Nat \ {0} : last = Len(d.pages)
  BY <1>3
<1>5. d.labels \in Seq(Labelled) /\ Len(d.labels) \in Nat
  BY DEF DocTrue
<1>6. d.drawn \in Nat /\ d.drawn <= Len(d.labels)
  BY <1>5 DEF DocTrue
<1>7. n \in Nat
  BY <1>1
<1>8. d.cell \in 0..n /\ d.cell \in Nat /\ d.offset \in 0..n - 1 /\ d.offset \in Nat
  BY <1>1, <1>7 DEF DocTrue
<1>9. /\ At(n, d.offset, last, d.cell) = d.drawn + 1
      /\ \A p \in 1..last, c \in 0..n - 1 :
           d.pages[p][c] = IF At(n, d.offset, p, c) \in 1..d.drawn
                           THEN d.labels[At(n, d.offset, p, c)] ELSE Sheets!Blank
  <2>1. /\ PlaceOf(d, last, d.cell) = d.drawn + 1
        /\ \A p \in 1..last, c \in 0..n - 1 :
             d.pages[p][c] = IF PlaceOf(d, p, c) \in 1..d.drawn THEN d.labels[PlaceOf(d, p, c)]
                             ELSE Sheets!Blank
    BY <1>1, <1>4 DEF DocTrue
  <2> QED
    BY <1>2, <2>1
<1> QED
  BY <1>1, <1>2, <1>3, <1>4, <1>5, <1>6, <1>7, <1>8, <1>9

\* A page is added when the last one is full, and the next label's place is on it.
LEMMA PageAdded ==
  ASSUME NEW d, DocTrue(d), d.drawn < Len(d.labels)
  PROVE  /\ DocTrue(Sheets!AddPage(d)) /\ Sheets!AddPage(d).cell \in Sheets!Cells(d.size)
         /\ Sheets!AddPage(d).size = d.size /\ Sheets!AddPage(d).drawn = d.drawn
         /\ Sheets!AddPage(d).labels = d.labels
<1>1. PICK n \in {1, 10, 30}, last \in Nat \ {0} :
        /\ n = Sheets!CellsPerPage(d.size) /\ last = Len(d.pages) /\ n \in Nat
        /\ Sheets!Cells(d.size) = 0..n - 1
        /\ d.pages \in Seq([0..n - 1 -> Int])
        /\ d.cell \in 0..n /\ d.cell \in Nat
        /\ d.offset \in 0..n - 1 /\ d.offset \in Nat
        /\ d.labels \in Seq(Labelled) /\ Len(d.labels) \in Nat
        /\ d.drawn \in Nat /\ d.drawn <= Len(d.labels)
        /\ At(n, d.offset, last, d.cell) = d.drawn + 1
        /\ \A p, c : PlaceOf(d, p, c) = At(n, d.offset, p, c)
        /\ \A p \in 1..last, c \in 0..n - 1 :
             d.pages[p][c] = IF At(n, d.offset, p, c) \in 1..d.drawn
                             THEN d.labels[At(n, d.offset, p, c)] ELSE Sheets!Blank
  BY DocTypes
<1>n. /\ n \in Nat /\ n > 0 /\ last \in Nat /\ last > 0 /\ last + 1 \in Nat \ {0}
      /\ d.cell \in Nat /\ d.cell <= n /\ d.cell \in 0..n
      /\ d.drawn \in Nat /\ Len(d.labels) \in Nat /\ d.drawn < Len(d.labels)
  BY <1>1
<1>a. /\ At(n, d.offset, last, d.cell) = d.drawn + 1
      /\ \A p \in Nat \ {0} : At(n, d.offset, p, 0) \in Int
      /\ \A p \in Nat \ {0}, c \in 0..n : At(n, d.offset, p, c) = At(n, d.offset, p, 0) + c
      /\ \A p \in Nat \ {0} : At(n, d.offset, p + 1, 0) = At(n, d.offset, p, n)
      /\ \A p \in Nat \ {0}, c \in 0..n : At(n, d.offset, p, c + 1) = At(n, d.offset, p, c) + 1
  BY <1>1, PlacesRise
<1>p. \A p \in 1..last, c \in 0..n - 1 :
        d.pages[p][c] = IF At(n, d.offset, p, c) \in 1..d.drawn
                        THEN d.labels[At(n, d.offset, p, c)] ELSE Sheets!Blank
  BY <1>1
<1>2. CASE d.cell \in 0..n - 1
  BY <1>1, <1>2 DEF Sheets!AddPage
<1>3. CASE d.cell \notin 0..n - 1
  <2> DEFINE blank == Sheets!BlankPage(d.size)
             Page == [0..n - 1 -> Int]
  <2>1. PICK e : e = Sheets!AddPage(d)
    OBVIOUS
  <2>2. /\ e.size = d.size /\ e.offset = d.offset /\ e.labels = d.labels /\ e.seen = d.seen
        /\ e.pages = Append(d.pages, blank) /\ e.cell = 0 /\ e.drawn = d.drawn
        /\ e = [size |-> e.size, offset |-> e.offset, labels |-> e.labels, seen |-> e.seen,
                pages |-> e.pages, cell |-> e.cell, drawn |-> e.drawn]
    BY <1>1, <1>3, <2>1 DEF Sheets!AddPage, DocTrue
  <2>3. d.cell = n
    BY <1>1, <1>3
  <2>4. blank \in Page /\ \A c \in 0..n - 1 : blank[c] = Sheets!Blank
    BY <1>1 DEF Sheets!BlankPage, Sheets!Blank
  <2> HIDE DEF blank
  <2>5. /\ e.pages \in Seq(Page) /\ e.pages # <<>> /\ Len(e.pages) = last + 1
        /\ e.pages[last + 1] = blank /\ \A p \in 1..last : e.pages[p] = d.pages[p]
    <3>1. PICK pages : pages = d.pages /\ pages \in Seq(Page) /\ Len(pages) = last
      BY <1>1
    <3> HIDE DEF Page
    <3>2. /\ Append(pages, blank) \in Seq(Page) /\ Len(Append(pages, blank)) = last + 1
          /\ Append(pages, blank)[last + 1] = blank
      BY <1>1, <2>4, <3>1
    <3>3. \A p \in 1..last : Append(pages, blank)[p] = pages[p]
      BY <1>1, <2>4, <3>1
    <3>4. Append(pages, blank) # <<>>
      BY <1>n, <3>2
    <3> QED
      BY <2>2, <3>1, <3>2, <3>3, <3>4
  <2>6. At(n, d.offset, last + 1, 0) = d.drawn + 1
    BY <1>n, <1>a, <2>3
  <2>7. \A p, c : PlaceOf(e, p, c) = At(n, d.offset, p, c)
    BY <1>1, <2>2 DEF PlaceOf
  <2>8. \A c \in 0..n - 1 : At(n, d.offset, last + 1, c) \notin 1..d.drawn
    <3>1. \A c \in 0..n - 1 : c \in 0..n /\ c \in Nat
      BY <1>1
    <3>2. \A c \in 0..n : At(n, d.offset, last + 1, c) = At(n, d.offset, last + 1, 0) + c
      BY <1>n, <1>a
    <3> QED
      BY <1>n, <2>6, <3>1, <3>2
  <2>9. ASSUME NEW p \in 1..last + 1, NEW c \in 0..n - 1
        PROVE  e.pages[p][c] = IF At(n, d.offset, p, c) \in 1..d.drawn
                               THEN d.labels[At(n, d.offset, p, c)] ELSE Sheets!Blank
    <3>1. CASE p \in 1..last
      <4>1. e.pages[p] = d.pages[p]
        BY <2>5, <3>1
      <4> QED
        BY <1>p, <3>1, <4>1
    <3>2. CASE p = last + 1
      BY <2>4, <2>5, <2>8, <3>2
    <3> QED
      BY <1>n, <3>1, <3>2
  <2>10. e.cell \in 0..n - 1 /\ e.cell \in 0..n
    BY <1>1, <2>2
  <2>11. DocTrue(e)
    <3>1. /\ e.size \in Sheets!Size /\ e.offset \in Sheets!Cells(e.size) /\ e.labels \in Seq(Labelled)
          /\ e.labels # <<>> /\ e.drawn < Len(e.labels)
      BY <2>2 DEF DocTrue
    <3>2. e.pages \in Seq([Sheets!Cells(e.size) -> Int]) /\ e.cell \in 0..Sheets!CellsPerPage(e.size)
      BY <1>1, <2>2, <2>5, <2>10
    <3>3. e.drawn \in 0..Len(e.labels) /\ PlaceOf(e, Len(e.pages), e.cell) = e.drawn + 1
      BY <1>n, <2>2, <2>5, <2>6, <2>7
    <3>4. \A p \in 1..Len(e.pages), c \in Sheets!Cells(e.size) :
            e.pages[p][c] = IF PlaceOf(e, p, c) \in 1..e.drawn THEN e.labels[PlaceOf(e, p, c)] ELSE Sheets!Blank
      <4>1. /\ Len(e.pages) = last + 1 /\ Sheets!Cells(e.size) = 0..n - 1
            /\ e.labels = d.labels /\ e.drawn = d.drawn
        BY <1>1, <2>2, <2>5
      <4> QED
        BY <2>7, <2>9, <4>1
    <3> QED
      BY <2>2, <2>5, <3>1, <3>2, <3>3, <3>4 DEF DocTrue
  <2> QED
    BY <1>1, <2>1, <2>2, <2>10, <2>11
<1> QED
  BY <1>2, <1>3

LEMMA CellDrawn ==
  ASSUME NEW d, DocTrue(d), d.drawn < Len(d.labels), d.cell \in Sheets!Cells(d.size)
  PROVE  DocTrue(Sheets!DrawCell(d))
<1>1. PICK n \in {1, 10, 30}, last \in Nat \ {0} :
        /\ n = Sheets!CellsPerPage(d.size) /\ last = Len(d.pages) /\ n \in Nat
        /\ Sheets!Cells(d.size) = 0..n - 1
        /\ d.pages \in Seq([0..n - 1 -> Int])
        /\ d.cell \in 0..n /\ d.cell \in Nat
        /\ d.offset \in 0..n - 1 /\ d.offset \in Nat
        /\ d.labels \in Seq(Labelled) /\ Len(d.labels) \in Nat
        /\ d.drawn \in Nat /\ d.drawn <= Len(d.labels)
        /\ At(n, d.offset, last, d.cell) = d.drawn + 1
        /\ \A p, c : PlaceOf(d, p, c) = At(n, d.offset, p, c)
        /\ \A p \in 1..last, c \in 0..n - 1 :
             d.pages[p][c] = IF At(n, d.offset, p, c) \in 1..d.drawn
                             THEN d.labels[At(n, d.offset, p, c)] ELSE Sheets!Blank
  BY DocTypes
<1>n. /\ n \in Nat /\ n > 0 /\ last \in Nat /\ last > 0 /\ last + 1 \in Nat \ {0}
      /\ d.cell \in Nat /\ d.cell <= n /\ d.cell \in 0..n
      /\ d.drawn \in Nat /\ Len(d.labels) \in Nat /\ d.drawn < Len(d.labels)
  BY <1>1
<1>a. /\ At(n, d.offset, last, d.cell) = d.drawn + 1
      /\ \A p \in Nat \ {0} : At(n, d.offset, p, 0) \in Int
      /\ \A p \in Nat \ {0}, c \in 0..n : At(n, d.offset, p, c) = At(n, d.offset, p, 0) + c
      /\ \A p \in Nat \ {0} : At(n, d.offset, p + 1, 0) = At(n, d.offset, p, n)
      /\ \A p \in Nat \ {0}, c \in 0..n : At(n, d.offset, p, c + 1) = At(n, d.offset, p, c) + 1
  BY <1>1, PlacesRise
<1>p. \A p \in 1..last, c \in 0..n - 1 :
        d.pages[p][c] = IF At(n, d.offset, p, c) \in 1..d.drawn
                        THEN d.labels[At(n, d.offset, p, c)] ELSE Sheets!Blank
  BY <1>1
<1> DEFINE Page == [0..n - 1 -> Int]
           label == d.labels[d.drawn + 1]
<1>2. label \in Int /\ d.cell \in 0..n - 1
  <2>1. d.drawn + 1 \in 1..Len(d.labels) /\ d.labels \in Seq(Labelled)
    BY <1>1
  <2>2. label \in Labelled
    BY <2>1
  <2>3. Labelled \subseteq Int
    BY ReadersAssumption
  <2> QED
    BY <1>1, <2>2, <2>3
<1>3. PICK e : e = Sheets!DrawCell(d)
  OBVIOUS
<1>4. /\ e.size = d.size /\ e.offset = d.offset /\ e.labels = d.labels /\ e.seen = d.seen
      /\ e.pages = [d.pages EXCEPT ![last] = [d.pages[last] EXCEPT ![d.cell] = label]]
      /\ e.cell = d.cell + 1 /\ e.drawn = d.drawn + 1
      /\ e = [size |-> e.size, offset |-> e.offset, labels |-> e.labels, seen |-> e.seen,
              pages |-> e.pages, cell |-> e.cell, drawn |-> e.drawn]
  BY <1>1, <1>3 DEF Sheets!DrawCell, DocTrue
<1> HIDE DEF label
<1>5. /\ e.pages \in Seq(Page) /\ e.pages # <<>> /\ Len(e.pages) = last
      /\ \A p \in 1..last, c \in 0..n - 1 :
           e.pages[p][c] = IF p = last /\ c = d.cell THEN label ELSE d.pages[p][c]
  <2>1. d.pages \in Seq(Page) /\ DOMAIN d.pages = 1..last /\ \A p \in 1..last : d.pages[p] \in Page
    <3>1. PICK pages : pages = d.pages /\ pages \in Seq(Page) /\ Len(pages) = last
      BY <1>1
    <3> HIDE DEF Page
    <3> QED
      BY <3>1
  <2> DEFINE drawn == [d.pages[last] EXCEPT ![d.cell] = label]
  <2>2. d.pages[last] \in Page
    BY <2>1
  <2>3. /\ drawn \in Page
        /\ \A c \in 0..n - 1 : drawn[c] = IF c = d.cell THEN label ELSE d.pages[last][c]
    BY <1>2, <2>2
  <2> HIDE DEF drawn, Page
  <2>4. e.pages = [d.pages EXCEPT ![last] = drawn]
    BY <1>4 DEF drawn
  <2>5. e.pages \in Seq(Page) /\ Len(e.pages) = last
    BY <2>1, <2>3, <2>4
  <2>6. \A p \in 1..last : e.pages[p] = IF p = last THEN drawn ELSE d.pages[p]
    BY <2>1, <2>4
  <2>7. e.pages # <<>>
    BY <2>5
  <2> QED
    BY <2>3, <2>5, <2>6, <2>7
<1>6. ASSUME NEW p \in 1..last, NEW c \in 0..n - 1
      PROVE  /\ At(n, d.offset, p, c) \in Int
             /\ At(n, d.offset, p, c) = d.drawn + 1 <=> p = last /\ c = d.cell
  <2>1. c \in 0..n /\ c \in Nat /\ p \in Nat \ {0} /\ (p < last \/ p = last)
    BY <1>1
  <2>2. At(n, d.offset, p, 0) \in Int /\ At(n, d.offset, p, c) = At(n, d.offset, p, 0) + c
    BY <1>a, <2>1
  <2>3. At(n, d.offset, last, 0) \in Int /\ At(n, d.offset, last, d.cell) = At(n, d.offset, last, 0) + d.cell
    BY <1>n, <1>a
  <2>4. p < last => At(n, d.offset, p, c) < At(n, d.offset, last, d.cell)
    BY <1>1, <2>1, PagesRise
  <2>5. At(n, d.offset, last, d.cell) = d.drawn + 1
    BY <1>a
  <2> QED
    BY <1>n, <2>1, <2>2, <2>3, <2>4, <2>5
<1>7. ASSUME NEW p \in 1..last, NEW c \in 0..n - 1
      PROVE  e.pages[p][c] = IF At(n, d.offset, p, c) \in 1..e.drawn
                             THEN d.labels[At(n, d.offset, p, c)] ELSE Sheets!Blank
  <2>1. CASE p = last /\ c = d.cell
    <3>1. At(n, d.offset, p, c) = d.drawn + 1
      BY <1>6, <2>1
    <3>2. d.drawn + 1 \in 1..e.drawn
      BY <1>n, <1>4
    <3> QED
      BY <1>5, <2>1, <3>1, <3>2 DEF label
  <2>2. CASE ~(p = last /\ c = d.cell)
    <3>1. At(n, d.offset, p, c) # d.drawn + 1 /\ At(n, d.offset, p, c) \in Int /\ e.pages[p][c] = d.pages[p][c]
      BY <1>5, <1>6, <2>2
    <3>2. At(n, d.offset, p, c) \in 1..e.drawn <=> At(n, d.offset, p, c) \in 1..d.drawn
      BY <1>n, <1>4, <3>1
    <3> QED
      BY <1>p, <3>1, <3>2
  <2> QED
    BY <2>1, <2>2
<1>8. At(n, d.offset, last, e.cell) = e.drawn + 1
  BY <1>n, <1>a, <1>4
<1>9. e.cell \in 0..n /\ e.cell > 0 /\ e.drawn \in 0..Len(d.labels)
  BY <1>n, <1>2, <1>4
<1>10. \A p, c : PlaceOf(e, p, c) = At(n, d.offset, p, c)
  BY <1>1, <1>4 DEF PlaceOf
<1>11. DocTrue(e)
  <2>1. /\ e.size \in Sheets!Size /\ e.offset \in Sheets!Cells(e.size) /\ e.labels \in Seq(Labelled)
        /\ e.labels # <<>>
    BY <1>4 DEF DocTrue
  <2>2. e.pages \in Seq([Sheets!Cells(e.size) -> Int]) /\ e.cell \in 0..Sheets!CellsPerPage(e.size)
    BY <1>1, <1>4, <1>5, <1>9
  <2>3. e.drawn \in 0..Len(e.labels) /\ PlaceOf(e, Len(e.pages), e.cell) = e.drawn + 1
    BY <1>4, <1>5, <1>8, <1>9, <1>10
  <2>4. \A p \in 1..Len(e.pages), c \in Sheets!Cells(e.size) :
          e.pages[p][c] = IF PlaceOf(e, p, c) \in 1..e.drawn THEN e.labels[PlaceOf(e, p, c)] ELSE Sheets!Blank
    <3>1. Len(e.pages) = last /\ Sheets!Cells(e.size) = 0..n - 1 /\ e.labels = d.labels
      BY <1>1, <1>4, <1>5
    <3> QED
      BY <1>7, <1>10, <3>1
  <2> QED
    BY <1>4, <1>5, <1>9, <2>1, <2>2, <2>3, <2>4 DEF DocTrue
<1> QED
  BY <1>3, <1>11


LEMMA PlacesFound ==
  ASSUME NEW n \in {1, 10, 30}, NEW offset \in 0..n - 1
  PROVE  /\ \A k \in Nat \ {0} : \E p \in Nat \ {0}, c \in 0..n - 1 : At(n, offset, p, c) = k
         /\ \A p, q \in Nat \ {0} : \A c \in 0..n, e \in 0..n :
              p < q => At(n, offset, p, c) <= At(n, offset, q, e)
         /\ \A p \in Nat \ {0} : At(n, offset, p, n - 1) >= 1
<1>1. ASSUME NEW k \in Nat \ {0}
      PROVE  \E p \in Nat \ {0}, c \in 0..n - 1 : At(n, offset, p, c) = k
  <2> DEFINE p == ((k - 1 + offset) \div n) + 1
             c == (k - 1 + offset) % n
  <2>1. p \in Nat \ {0} /\ c \in 0..n - 1 /\ At(n, offset, p, c) = k
    <3>1. CASE n = 1
      BY <3>1 DEF At
    <3>2. CASE n = 10
      BY <3>2 DEF At
    <3>3. CASE n = 30
      BY <3>3 DEF At
    <3> QED
      BY <3>1, <3>2, <3>3
  <2> QED
    BY <2>1
<1>2. /\ \A p, q \in Nat \ {0} : \A c \in 0..n, e \in 0..n :
           p < q => At(n, offset, p, c) <= At(n, offset, q, e)
      /\ \A p \in Nat \ {0} : At(n, offset, p, n - 1) >= 1
  <2>1. CASE n = 1
    BY <2>1 DEF At
  <2>2. CASE n = 10
    BY <2>2 DEF At
  <2>3. CASE n = 30
    BY <2>3 DEF At
  <2> QED
    BY <2>1, <2>2, <2>3
<1> QED
  BY <1>1, <1>2

\* Every label of d lies on its place, on sheets of n cells up to the last.
Filled(d, n, last) ==
  /\ n = Sheets!CellsPerPage(d.size) /\ Sheets!Cells(d.size) = 0..n - 1
  /\ last = Len(d.pages) /\ DOMAIN d.pages = 1..last /\ DOMAIN d.labels = 1..Len(d.labels)
  /\ \A p \in 1..last, c \in 0..n - 1 :
       d.pages[p][c] = IF At(n, d.offset, p, c) \in 1..Len(d.labels)
                       THEN d.labels[At(n, d.offset, p, c)] ELSE Sheets!Blank
  /\ \A k \in 1..Len(d.labels) : \E p \in 1..last, c \in 0..n - 1 : At(n, d.offset, p, c) = k
  /\ \A p \in 1..last : \E c \in 0..n - 1 : d.pages[p][c] # Sheets!Blank

\* A document that is drawn to the end fills its sheets.
LEMMA DrawnFills ==
  ASSUME NEW d, DocTrue(d), d.drawn = Len(d.labels)
  PROVE  \E n \in {1, 10, 30}, last \in Nat \ {0} : Filled(d, n, last)
<1>1. PICK n \in {1, 10, 30}, last \in Nat \ {0} :
        /\ n = Sheets!CellsPerPage(d.size) /\ last = Len(d.pages) /\ n \in Nat
        /\ Sheets!Cells(d.size) = 0..n - 1
        /\ d.pages \in Seq([0..n - 1 -> Int])
        /\ d.cell \in 0..n /\ d.cell \in Nat
        /\ d.offset \in 0..n - 1 /\ d.offset \in Nat
        /\ d.labels \in Seq(Labelled) /\ Len(d.labels) \in Nat
        /\ d.drawn \in Nat /\ d.drawn <= Len(d.labels)
        /\ At(n, d.offset, last, d.cell) = d.drawn + 1
        /\ \A p, c : PlaceOf(d, p, c) = At(n, d.offset, p, c)
        /\ \A p \in 1..last, c \in 0..n - 1 :
             d.pages[p][c] = IF At(n, d.offset, p, c) \in 1..d.drawn
                             THEN d.labels[At(n, d.offset, p, c)] ELSE Sheets!Blank
  BY DocTypes
<1> DEFINE count == Len(d.labels)
           at(p, c) == At(n, d.offset, p, c)
<1>n. /\ n \in Nat /\ n > 0 /\ last \in Nat /\ last > 0
      /\ d.cell \in 0..n /\ d.cell \in Nat /\ count \in Nat /\ at(last, d.cell) = count + 1
      /\ d.offset \in 0..n - 1 /\ d.offset \in 0..n /\ d.offset \in Nat
  BY <1>1
<1>c. count > 0
  <2>1. d.labels # <<>> /\ d.labels \in Seq(Labelled)
    BY DEF DocTrue
  <2> QED
    BY <2>1
<1>p. \A p \in 1..last, c \in 0..n - 1 :
        d.pages[p][c] = IF at(p, c) \in 1..count THEN d.labels[at(p, c)] ELSE Sheets!Blank
  BY <1>1
<1>a. /\ \A p \in Nat \ {0} : at(p, 0) \in Int
      /\ \A p \in Nat \ {0}, c \in 0..n : at(p, c) = at(p, 0) + c
      /\ \A c \in 0..n : at(1, c) = c - d.offset + 1
  BY <1>1, PlacesRise
<1>b. /\ \A k \in Nat \ {0} : \E p \in Nat \ {0}, c \in 0..n - 1 : at(p, c) = k
      /\ \A p, q \in Nat \ {0} : \A c \in 0..n, e \in 0..n : p < q => at(p, c) <= at(q, e)
      /\ \A p \in Nat \ {0} : at(p, n - 1) >= 1
  <2>1. n \in {1, 10, 30} /\ d.offset \in 0..n - 1
    BY <1>1
  <2> QED
    BY <2>1, PlacesFound
<1>d. \A p, q \in Nat \ {0} : \A c \in 0..n - 1, e \in 0..n : p < q => at(p, c) < at(q, e)
  BY <1>1, PagesRise
<1> HIDE DEF count, at
\* The last page holds a label.
<1>2. d.cell > 0
  <2>1. CASE last = 1
    <3>1. at(1, d.cell) = d.cell - d.offset + 1
      BY <1>n, <1>a
    <3> QED
      BY <1>n, <1>c, <2>1, <3>1
  <2>2. CASE last # 1
    BY <1>1, <2>2 DEF DocTrue
  <2> QED
    BY <2>1, <2>2
<1>4. ASSUME NEW k \in 1..count PROVE \E p \in 1..last, c \in 0..n - 1 : at(p, c) = k
  <2>1. k \in Nat \ {0}
    OBVIOUS
  <2>2. PICK p \in Nat \ {0}, c \in 0..n - 1 : at(p, c) = k
    BY <1>b, <2>1
  <2>3. c \in 0..n
    BY <1>n
  <2>4. last < p => at(last, d.cell) <= at(p, c)
    BY <1>n, <1>b, <2>3
  <2>5. p \in 1..last
    BY <1>n, <2>2, <2>4
  <2> QED
    BY <2>2, <2>5
<1>5. ASSUME NEW p \in 1..last PROVE \E c \in 0..n - 1 : at(p, c) \in 1..count
  <2>1. CASE p < last
    <3>1. n - 1 \in 0..n - 1 /\ n - 1 \in 0..n /\ p \in Nat \ {0}
      BY <1>n
    <3>2. at(p, n - 1) < at(last, d.cell)
      BY <1>n, <1>d, <2>1, <3>1
    <3>3. at(p, n - 1) >= 1
      BY <1>b, <3>1
    <3>4. at(p, n - 1) \in Int
      BY <1>a, <3>1
    <3> QED
      BY <1>n, <3>1, <3>2, <3>3, <3>4
  <2>2. CASE p = last /\ last = 1
    <3>1. at(1, d.offset) = d.offset - d.offset + 1
      BY <1>n, <1>a
    <3>2. at(1, d.offset) = 1
      BY <1>n, <3>1
    <3> QED
      BY <1>n, <1>c, <2>2, <3>2
  <2>3. CASE p = last /\ last # 1
    <3>1. at(last, d.cell) = at(last, 0) + d.cell /\ at(last, 0) \in Int
      BY <1>n, <1>a
    <3>2. n - 1 \in 0..n - 1 /\ n - 1 \in 0..n /\ 1 \in Nat \ {0} /\ 0 \in 0..n /\ 0 \in 0..n - 1 /\ 1 < last
      BY <1>n, <2>3
    <3>3. at(1, n - 1) < at(last, 0)
      BY <1>n, <1>d, <3>2
    <3>4. at(1, n - 1) >= 1 /\ at(1, n - 1) \in Int
      BY <1>a, <1>b, <3>2
    <3>5. at(last, 0) \in 1..count
      BY <1>n, <1>2, <3>1, <3>3, <3>4
    <3> QED
      BY <2>3, <3>2, <3>5
  <2> QED
    BY <2>1, <2>2, <2>3
<1>6. \A p \in 1..last : \E c \in 0..n - 1 : d.pages[p][c] # Sheets!Blank
  <2>1. \A k \in 1..count : d.labels[k] # Sheets!Blank
    <3>1. d.labels \in Seq(Labelled) /\ Labelled \subseteq Nat \ {0}
      BY <1>1, ReadersAssumption
    <3> QED
      BY <3>1 DEF count, Sheets!Blank
  <2> QED
    BY <1>5, <1>p, <2>1
<1>7. /\ DOMAIN d.pages = 1..last /\ DOMAIN d.labels = 1..count
      /\ n = Sheets!CellsPerPage(d.size) /\ Sheets!Cells(d.size) = 0..n - 1 /\ last = Len(d.pages)
  BY <1>1 DEF count
<1>8. Filled(d, n, last)
  <2>1. \A p \in 1..last, c \in 0..n - 1 :
          d.pages[p][c] = IF At(n, d.offset, p, c) \in 1..Len(d.labels)
                          THEN d.labels[At(n, d.offset, p, c)] ELSE Sheets!Blank
    BY <1>p DEF count, at
  <2>2. \A k \in 1..Len(d.labels) : \E p \in 1..last, c \in 0..n - 1 : At(n, d.offset, p, c) = k
    BY <1>4 DEF count, at
  <2>3. DOMAIN d.labels = 1..Len(d.labels)
    BY <1>7 DEF count
  <2> QED
    BY <1>6, <1>7, <2>1, <2>2, <2>3 DEF Filled
<1> QED
  BY <1>8

LEMMA MadeIsRight ==
  ASSUME doc # None => DocTrue(doc)
  PROVE  LabelsAreRight
<1>1. ASSUME Sheets!Made PROVE Sheets!LabelsFillTheSheets
  <2>0. PICK d : d = doc
    OBVIOUS
  <2>1. DocTrue(d) /\ d.drawn = Len(d.labels)
    BY <1>1, <2>0 DEF Sheets!Made
  <2>f. PICK n \in {1, 10, 30}, last \in Nat \ {0} : Filled(d, n, last)
    BY <2>1, DrawnFills
  <2>2. /\ n = Sheets!CellsPerPage(d.size) /\ Sheets!Cells(d.size) = 0..n - 1
        /\ last = Len(d.pages) /\ DOMAIN d.pages = 1..last /\ DOMAIN d.labels = 1..Len(d.labels)
        /\ \A p \in 1..last, c \in 0..n - 1 :
             d.pages[p][c] = IF At(n, d.offset, p, c) \in 1..Len(d.labels)
                             THEN d.labels[At(n, d.offset, p, c)] ELSE Sheets!Blank
        /\ \A k \in 1..Len(d.labels) : \E p \in 1..last, c \in 0..n - 1 : At(n, d.offset, p, c) = k
        /\ \A p \in 1..last : \E c \in 0..n - 1 : d.pages[p][c] # Sheets!Blank
    BY <2>f DEF Filled
  <2>3. Sheets!LabelsFillTheSheets
    <3> DEFINE Place(p, c) == (p - 1) * n + c - d.offset + 1
    <3>1. \A p, c : At(n, d.offset, p, c) = Place(p, c)
      BY DEF At
    <3>2. /\ \A p \in DOMAIN d.pages, c \in Sheets!Cells(d.size) :
               d.pages[p][c] = IF Place(p, c) \in DOMAIN d.labels THEN d.labels[Place(p, c)] ELSE Sheets!Blank
          /\ \A k \in DOMAIN d.labels : \E p \in DOMAIN d.pages, c \in Sheets!Cells(d.size) : Place(p, c) = k
          /\ \A p \in DOMAIN d.pages : \E c \in Sheets!Cells(d.size) : d.pages[p][c] # Sheets!Blank
      <4>1. \A p \in 1..last, c \in 0..n - 1 :
              d.pages[p][c] = IF Place(p, c) \in 1..Len(d.labels) THEN d.labels[Place(p, c)] ELSE Sheets!Blank
        <5>1. \A p \in 1..last, c \in 0..n - 1 :
                d.pages[p][c] = IF At(n, d.offset, p, c) \in 1..Len(d.labels)
                                THEN d.labels[At(n, d.offset, p, c)] ELSE Sheets!Blank
          BY <2>2
        <5> HIDE DEF Place
        <5> QED
          BY <3>1, <5>1
      <4>2. \A k \in 1..Len(d.labels) : \E p \in 1..last, c \in 0..n - 1 : Place(p, c) = k
        <5>1. \A k \in 1..Len(d.labels) : \E p \in 1..last, c \in 0..n - 1 : At(n, d.offset, p, c) = k
          BY <2>2
        <5> HIDE DEF Place
        <5> QED
          BY <3>1, <5>1
      <4>3. \A p \in 1..last : \E c \in 0..n - 1 : d.pages[p][c] # Sheets!Blank
        BY <2>2
      <4>4. DOMAIN d.pages = 1..last /\ DOMAIN d.labels = 1..Len(d.labels) /\ Sheets!Cells(d.size) = 0..n - 1
        BY <2>2
      <4> HIDE DEF Place
      <4>5. \A p \in DOMAIN d.pages, c \in Sheets!Cells(d.size) :
              d.pages[p][c] = IF Place(p, c) \in DOMAIN d.labels THEN d.labels[Place(p, c)] ELSE Sheets!Blank
        BY <4>1, <4>4
      <4>6. \A k \in DOMAIN d.labels : \E p \in DOMAIN d.pages, c \in Sheets!Cells(d.size) : Place(p, c) = k
        BY <4>2, <4>4
      <4>7. \A p \in DOMAIN d.pages : \E c \in Sheets!Cells(d.size) : d.pages[p][c] # Sheets!Blank
        BY <4>3, <4>4
      <4> QED
        BY <4>5, <4>6, <4>7
    <3>3. n = Sheets!CellsPerPage(d.size)
      BY <2>2
    <3> QED
      BY <2>0, <3>2, <3>3 DEF Sheets!LabelsFillTheSheets
  <2> QED
    BY <2>3
<1>2. ASSUME doc # None PROVE Sheets!LabelsLieApart
  <2>1. doc.size \in Sheets!Size
    BY <1>2 DEF DocTrue
  <2>2. /\ \A c \in Sheets!Cells(doc.size) :
             Sheets!Inside(Sheets!Rect(doc.size, c), doc.size.pageWidth, doc.size.pageHeight)
        /\ \A c \in Sheets!Cells(doc.size) : \A d \in 0..c - 1 :
             d \in Sheets!Cells(doc.size) /\ Sheets!Apart(Sheets!Rect(doc.size, c), Sheets!Rect(doc.size, d))
    <3>1. \A c \in Sheets!Cells(doc.size) : \A d \in 0..c - 1 : d \in Sheets!Cells(doc.size)
      BY <2>1, SizesHaveCells
    <3> QED
      BY <2>1, <3>1, CellsLieApart
  <2> QED
    BY <2>1, <2>2, PartsLieApart DEF Sheets!LabelsLieApart
<1>3. ~Sheets!Made => Sheets!LabelsFillTheSheets
  BY DEF Sheets!LabelsFillTheSheets
<1>4. doc = None => Sheets!LabelsLieApart
  BY DEF Sheets!LabelsLieApart
<1> QED
  BY <1>1, <1>2, <1>3, <1>4 DEF LabelsAreRight

LEMMA LabelsStart == LaneInit => LabelsKept
<1> SUFFICES ASSUME LaneInit PROVE LabelsKept
  OBVIOUS
<1>1. lane # "sheets" => doc = None
  BY DEF LaneInit
<1>2. ASSUME lane = "sheets"
      PROVE  /\ bins \subseteq Labelled /\ pref \in Sheets!Size \cup {None} /\ radio \in Sheets!Size
             /\ doc = None
  <2>1. /\ bins = {} /\ pref = None /\ doc = None /\ radio = Sheets!PreferredSize
    BY <1>2 DEF LaneInit, Sheets!Init
  <2>2. radio \in Sheets!Size
    BY <2>1 DEF Sheets!PreferredSize, Sheets!Size
  <2> QED
    BY <2>1, <2>2
<1> QED
  BY <1>1, <1>2 DEF LabelsKept

LEMMA ScreenKeeps ==
  ASSUME bins \subseteq Labelled, pref \in Sheets!Size \cup {None}, radio \in Sheets!Size,
         doc = None, Sheets!Screen
  PROVE  /\ bins' \subseteq Labelled /\ pref' \in Sheets!Size \cup {None} /\ radio' \in Sheets!Size
         /\ (doc' = None \/ DocTrue(doc'))
<1>1. CASE Sheets!PrintScreen
  <2>1. Sheets!PreferredSize \in Sheets!Size
    BY DEF Sheets!PreferredSize, Sheets!Size
  <2> QED
    BY <1>1, <2>1 DEF Sheets!PrintScreen
<1>2. CASE Sheets!PrintPreview
  BY <1>2 DEF Sheets!PrintPreview
<1>3. CASE Sheets!PrintBatch
  <2> DEFINE offset == Sheets!ClampOffset(picture.offset, radio)
  <2>1. PICK seen : seen = IF flight = None THEN picture ELSE None
    OBVIOUS
  <2>2. CASE Sheets!Printable
    <3>1. DocTrue(Sheets!Document(radio, offset, seen))
      BY <2>2, OffsetIsClamped, DocumentTrue
    <3> QED
      BY <1>3, <2>1, <2>2, <3>1 DEF Sheets!PrintBatch
  <2>3. CASE ~Sheets!Printable
    BY <1>3, <2>3 DEF Sheets!PrintBatch
  <2> QED
    BY <2>2, <2>3
<1>4. CASE \E b \in Labelled : Sheets!ChangeBins(b)
  BY <1>4 DEF Sheets!ChangeBins
<1>5. CASE \E s \in Sheets!Size : Sheets!ChooseSize(s)
  BY <1>5 DEF Sheets!ChooseSize
<1>6. CASE \E cell \in DOMAIN picture.cells : Sheets!TapCell(cell)
  BY <1>6 DEF Sheets!TapCell
<1> QED
  BY <1>1, <1>2, <1>3, <1>4, <1>5, <1>6 DEF Sheets!Screen

LEMMA LabelsStay == LabelsKept /\ [LaneNext]_laneVars => LabelsKept'
<1> SUFFICES ASSUME LabelsKept, [LaneNext]_laneVars PROVE LabelsKept'
  OBVIOUS
<1>1. CASE UNCHANGED sheets /\ UNCHANGED lane
  BY <1>1 DEF sheets, LabelsKept
<1>2. CASE lane = "sheets" /\ Sheets!Next /\ UNCHANGED lane
  <2>1. /\ bins \subseteq Labelled /\ pref \in Sheets!Size \cup {None} /\ radio \in Sheets!Size
        /\ (doc = None \/ DocTrue(doc))
    BY <1>2 DEF LabelsKept
  <2> SUFFICES /\ bins' \subseteq Labelled /\ pref' \in Sheets!Size \cup {None} /\ radio' \in Sheets!Size
               /\ (doc' = None \/ DocTrue(doc'))
    BY <1>2 DEF LabelsKept
  <2>2. CASE doc = None /\ Sheets!Screen
    BY <2>1, <2>2, ScreenKeeps
  <2>3. CASE \E s \in Sheets!Size : \E offset \in Sheets!Cells(s) : Sheets!Download(s, offset)
    <3>0. PICK s \in Sheets!Size : \E offset \in Sheets!Cells(s) : Sheets!Download(s, offset)
      BY <2>3
    <3>1. PICK offset \in Sheets!Cells(s) : Sheets!Download(s, offset)
      BY <3>0
    <3>2. /\ Sheets!Printable /\ UNCHANGED <<bins, pref, picture, radio>>
          /\ doc' = Sheets!Document(s, offset, None)
      BY <3>1 DEF Sheets!Download
    <3>3. PICK seen : seen = None
      OBVIOUS
    <3>4. DocTrue(Sheets!Document(s, offset, seen))
      <4>1. bins \subseteq Labelled /\ Sheets!Printable
        BY <2>1, <3>2
      <4> QED
        BY <4>1, DocumentTrue
    <3> QED
      BY <2>1, <3>2, <3>3, <3>4
  <2>4. CASE doc # None /\ Sheets!DrawLabel
    <3>1. PICK d : d = Sheets!AddPage(doc)
      OBVIOUS
    <3>2. DocTrue(doc) /\ doc.drawn < Len(doc.labels) /\ doc' = Sheets!DrawCell(d)
      BY <2>1, <2>4, <3>1 DEF Sheets!DrawLabel
    <3>3. DocTrue(d) /\ d.cell \in Sheets!Cells(d.size) /\ d.drawn < Len(d.labels)
      BY <3>1, <3>2, PageAdded
    <3>4. DocTrue(doc')
      BY <3>2, <3>3, CellDrawn
    <3> QED
      BY <2>1, <2>4, <3>4 DEF Sheets!DrawLabel
  <2>5. CASE Sheets!Close
    BY <2>1, <2>5 DEF Sheets!Close
  <2> QED
    BY <1>2, <2>2, <2>3, <2>4, <2>5 DEF Sheets!Next
<1> QED
  BY <1>1, <1>2 DEF LaneNext, laneVars

\* Every label of a batch is printed once, on the cell that its place and the
\* start offset give, over as many sheets as it takes and no empty one; and no
\* label touches another (Render, cellLayout, builtinLabelSizes).
THEOREM LabelsAreAlwaysRight == LaneSpec => []LabelsAreRight
<1>1. LaneInit => LabelsKept
  BY LabelsStart
<1>2. LabelsKept /\ [LaneNext]_laneVars => LabelsKept'
  BY LabelsStay
<1>3. LabelsKept => LabelsAreRight
  <2>1. LabelsKept => (doc # None => DocTrue(doc))
    BY DEF LabelsKept
  <2> QED
    BY <2>1, MadeIsRight
<1> QED
  BY <1>1, <1>2, <1>3, PTL DEF LaneSpec, laneVars
=============================================================================
