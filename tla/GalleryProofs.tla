--------------------------- MODULE GalleryProofs ---------------------------
(* Theorems about Gallery for any items, photos and requests.             *)
EXTENDS Gallery, TLAPS, FiniteSetTheorems

-----------------------------------------------------------------------------
(* Ordering a finite set. *)

Increasing(order, f) == \A j, k \in DOMAIN order : j < k => f[order[j]] < f[order[k]]

\* A sequence names every member of a set, once.
Enumerates(order, S) ==
  /\ \A j \in DOMAIN order : order[j] \in S
  /\ \A j, k \in DOMAIN order : order[j] = order[k] => j = k
  /\ \A p \in S : \E j \in DOMAIN order : order[j] = p

\* A finite set whose members have different numbers can be listed by them:
\* what ListByItem's ORDER BY position answers with exists.
LEMMA SortedExists ==
  ASSUME NEW S, IsFiniteSet(S), NEW f \in [S -> Nat],
         \A p, q \in S : f[p] = f[q] => p = q
  PROVE  \E order \in [1..Cardinality(S) -> S] : Increasing(order, f)
<1> DEFINE n == Cardinality(S)
           Upto(p) == {q \in S : f[q] <= f[p]}
           rank == [p \in S |-> Cardinality(Upto(p))]
<1>0. n \in Nat
  BY FS_CardinalityType
<1>1. \A p \in S : IsFiniteSet(Upto(p)) /\ Cardinality(Upto(p)) <= n
  <2> TAKE p \in S
  <2>1. Upto(p) \in SUBSET S
    OBVIOUS
  <2> HIDE DEF Upto
  <2> QED
    BY <2>1, FS_Subset
<1>2. \A p \in S : Cardinality(Upto(p)) \in Nat /\ Cardinality(Upto(p)) # 0
  <2> TAKE p \in S
  <2>1. p \in Upto(p)
    OBVIOUS
  <2> HIDE DEF Upto
  <2> QED
    BY <1>1, <2>1, FS_EmptySet, FS_CardinalityType
<1>3. \A p, q \in S : f[p] < f[q] => Cardinality(Upto(p)) < Cardinality(Upto(q))
  <2> SUFFICES ASSUME NEW p \in S, NEW q \in S, f[p] < f[q]
               PROVE  Cardinality(Upto(p)) < Cardinality(Upto(q))
    OBVIOUS
  <2>1. Upto(p) \in SUBSET Upto(q) /\ q \in Upto(q) /\ q \notin Upto(p)
    OBVIOUS
  <2> HIDE DEF Upto
  <2>2. Upto(p) # Upto(q)
    BY <2>1
  <2>3. Cardinality(Upto(p)) <= Cardinality(Upto(q))
        /\ Cardinality(Upto(p)) # Cardinality(Upto(q))
    BY <1>1, <2>1, <2>2, FS_Subset
  <2> QED
    BY <1>2, <2>3
<1>4. rank \in [S -> 1..n]
  BY <1>0, <1>1, <1>2
<1> HIDE DEF Upto
<1>5. \A p \in S : f[p] \in Nat
  OBVIOUS
<1>6. \A p, q \in S : f[p] < f[q] \/ f[q] < f[p] \/ p = q
  BY <1>5
<1> HIDE DEF n
<1>7. \A p, q \in S : rank[p] < rank[q] => f[p] < f[q]
  BY <1>2, <1>3, <1>6
<1>8. \A p, q \in S : rank[p] = rank[q] => p = q
  BY <1>2, <1>3, <1>6
<1> HIDE DEF rank, n
<1>9. rank \in Injection(S, 1..n)
  BY <1>4, <1>8 DEF Injection, IsInjective
<1>10. IsFiniteSet(1..n) /\ Cardinality(1..n) = n
  BY <1>0, FS_Interval
<1>11. rank \in Surjection(S, 1..n)
  BY <1>9, <1>10, FS_Injection DEF n
<1>12. \A j \in 1..n : \E p \in S : rank[p] = j
  BY <1>11 DEF Surjection
<1> DEFINE order == [j \in 1..n |-> CHOOSE p \in S : rank[p] = j]
<1>13. order \in [1..n -> S] /\ \A j \in 1..n : rank[order[j]] = j
  BY <1>12
<1> HIDE DEF order
<1>14. Increasing(order, f)
  BY <1>7, <1>13 DEF Increasing
<1> QED
  BY <1>13, <1>14 DEF n

\* An increasing list of as many members as the set has names every one.
LEMMA SortedEnumerates ==
  ASSUME NEW S, IsFiniteSet(S), NEW f \in [S -> Nat],
         NEW order \in [1..Cardinality(S) -> S], Increasing(order, f)
  PROVE  Enumerates(order, S)
<1> DEFINE n == Cardinality(S)
<1>1. n \in Nat
  BY FS_CardinalityType
<1>2. IsFiniteSet(1..n) /\ Cardinality(1..n) = n
  BY <1>1, FS_Interval
<1>3. \A j, k \in 1..n : order[j] = order[k] => j = k
  BY <1>1 DEF Increasing
<1> HIDE DEF n
<1>4. order \in Injection(1..n, S)
  BY <1>3 DEF Injection, IsInjective, n
<1>5. order \in Surjection(1..n, S)
  BY <1>2, <1>4, FS_Injection DEF n
<1> QED
  BY <1>3, <1>5 DEF Enumerates, Surjection, n

-----------------------------------------------------------------------------
(* The inductive invariant. *)

Naming == {"list", "attach", "unlink", "delete row", "clear", "set", "open",
           "put thumb", "set thumb"}

\* A session that works has a key, and the photo row it names, while it is
\* there, is of that key: a photo's id is never used for another.
Named(work, rows) ==
  /\ work.step # "idle" => work.key \in Key
  /\ work.step \in Naming => work.photo \in PhotoId
  /\ work.step \in MoveStep => work.position < Len(work.order)
  /\ work.photo \in PhotoId /\ rows[work.photo] # NoPhoto => rows[work.photo].key = work.key

WorkNames == \A t \in Session : Named(op[t], photo)

RowsFinite == IsFiniteSet({p \in PhotoId : photo[p] # NoPhoto})

KeysUnique ==
  \A p, q \in PhotoId :
    photo[p] # NoPhoto /\ photo[q] # NoPhoto /\ photo[p].key = photo[q].key => p = q

\* The unique index on item_photo (item, position).
LinksApart ==
  \A p, q \in PhotoId :
    link[p] # NoLink /\ link[q] # NoLink /\ ItemOf(p) = ItemOf(q)
        /\ link[p].position = link[q].position => p = q

\* An upload that met no deletion of its key has its bytes.
UploadsHoldBytes ==
  \A t \in Session :
    op[t].step \in {"find", "thumbnail", "insert"} /\ ~op[t].raced =>
      /\ <<op[t].key, "full">> \in blobs
      /\ op[t].step = "insert" /\ op[t].thumb => <<op[t].key, "thumb">> \in blobs
      /\ Deleting(op[t].key) = {}

\* Nobody removes the bytes of a row that is there.
RowsNotDeleting ==
  \A p \in PhotoId \ rival : photo[p] # NoPhoto => Deleting(photo[p].key) = {}

\* The backfill has stored the thumbnail of the row that it is about to mark.
BackfillHoldsThumb ==
  \A t \in Session :
    op[t].step = "set thumb" /\ photo[op[t].photo] # NoPhoto /\ op[t].photo \notin rival =>
      <<op[t].key, "thumb">> \in blobs

Hung ==
  /\ TypeOK /\ WorkNames /\ RowsFinite
  /\ KeysUnique /\ LinksApart /\ AttachedIsReal
  /\ UploadsHoldBytes /\ RowsNotDeleting /\ BackfillHoldsThumb /\ BytesOutliveTheirRow

LEMMA HungInit == Init => Hung
<1> SUFFICES ASSUME Init PROVE Hung
  OBVIOUS
<1> USE GalleryAssumption DEF Init
<1>1. TypeOK
  BY DEF TypeOK, Idle, Work, Step, NoPhoto, NoLink, Photo, Link
<1>2. WorkNames /\ UploadsHoldBytes /\ BackfillHoldsThumb
  BY DEF WorkNames, Named, UploadsHoldBytes, BackfillHoldsThumb, Idle, Naming, MoveStep
<1>3. KeysUnique /\ LinksApart /\ AttachedIsReal /\ RowsNotDeleting /\ BytesOutliveTheirRow
  BY DEF KeysUnique, LinksApart, AttachedIsReal, RowsNotDeleting, BytesOutliveTheirRow
<1>4. RowsFinite
  <2>1. {p \in PhotoId : photo[p] # NoPhoto} = {}
    OBVIOUS
  <2> QED
    BY <2>1, FS_EmptySet DEF RowsFinite
<1> QED
  BY <1>1, <1>2, <1>3, <1>4 DEF Hung

-----------------------------------------------------------------------------
(* Which steps write what. *)

\* Rows are written by three statements.
LEMMA RowWriters ==
  ASSUME Next
  PROVE  \/ UNCHANGED <<photo, rival>>
         \/ \E s \in Session : \/ \E p \in PhotoId : Fresh(p) /\ CreateRow(s, p)
                               \/ DeleteRow(s) \/ SetThumbnailRef(s)
BY DEF Next, Uploads, Deletes, Arranges, Backfills, Stop, CreateItem, DeleteItem,
       Upload, PutFull, FindByStorageRef, TryGenerateThumbnail, ListByItem, AttachToItem,
       Delete, Unlink, DropThumb, DropFull, SetPrimary, ClearPrimary, MarkPrimary, Move,
       Reorder, ListMissingThumbnail, OpenFull, PutThumb

\* item_photo rows are written by six.
LEMMA LinkWriters ==
  ASSUME Next
  PROVE  \/ UNCHANGED link
         \/ \E s \in Session : AttachToItem(s) \/ Unlink(s) \/ ClearPrimary(s)
                               \/ MarkPrimary(s) \/ Reorder(s)
         \/ \E i \in Item : DeleteItem(i)
BY DEF Next, Uploads, Deletes, Arranges, Backfills, Stop, CreateItem,
       Upload, PutFull, FindByStorageRef, TryGenerateThumbnail, CreateRow, ListByItem,
       Delete, DeleteRow, DropThumb, DropFull, SetPrimary, Move,
       ListMissingThumbnail, OpenFull, PutThumb, SetThumbnailRef

\* Objects are written by five calls.
LEMMA BlobWriters ==
  ASSUME Next
  PROVE  \/ UNCHANGED blobs
         \/ \E s \in Session : \/ PutFull(s) \/ \E made \in BOOLEAN : TryGenerateThumbnail(s, made)
                               \/ DropThumb(s) \/ DropFull(s) \/ PutThumb(s)
BY DEF Next, Uploads, Deletes, Arranges, Backfills, Stop, CreateItem, DeleteItem,
       Upload, FindByStorageRef, CreateRow, ListByItem, AttachToItem,
       Delete, Unlink, DeleteRow, SetPrimary, ClearPrimary, MarkPrimary, Move,
       Reorder, ListMissingThumbnail, OpenFull, SetThumbnailRef

-----------------------------------------------------------------------------
(* Sessions. *)

\* The same work, apart from what others note about it: a deletion that it
\* raced, a reorder that is no longer alone.
Same(work, before) ==
  /\ work.step = before.step /\ work.key = before.key /\ work.photo = before.photo
  /\ work.thumb = before.thumb /\ work.position = before.position /\ work.order = before.order
  /\ before.raced => work.raced
  /\ work.calm => before.calm

Goes(s, work) ==
  /\ op' \in [Session -> Work] /\ op'[s] = work
  /\ \A t \in Session \ {s} : Same(op'[t], op[t])

\* What one session notes about another's work leaves that work as it is.
LEMMA Noted ==
  ASSUME NEW work \in Work, NEW note \in BOOLEAN
  PROVE  /\ [work EXCEPT !.calm = note] \in Work
         /\ [work EXCEPT !.raced = note] \in Work
         /\ (note => work.calm) => Same([work EXCEPT !.calm = note], work)
         /\ (work.raced => note) => Same([work EXCEPT !.raced = note], work)
BY DEF Work, Same

LEMMA OnwardProceeds ==
  ASSUME TypeOK, NEW s \in Session, NEW work \in Work, Proceeds(s, work)
  PROVE  Goes(s, work)
BY DEF TypeOK, Proceeds, Goes, Same

LEMMA OnwardDisturbs ==
  ASSUME TypeOK, NEW s \in Session, NEW work \in Work, NEW i, Disturbs(s, work, i)
  PROVE  Goes(s, work)
<1>1. \A t \in Session : op[t] \in Work
  BY DEF TypeOK
<1>2. \A t \in Session \ {s} : op'[t] = [op[t] EXCEPT !.calm = @ /\ op[t].key[1] # i]
  BY DEF Disturbs
<1>3. \A t \in Session \ {s} : op'[t] \in Work /\ Same(op'[t], op[t])
  <2> TAKE t \in Session \ {s}
  <2> DEFINE note == op[t].calm /\ op[t].key[1] # i
  <2>1. note \in BOOLEAN /\ (note => op[t].calm)
    OBVIOUS
  <2>2. op'[t] = [op[t] EXCEPT !.calm = note]
    BY <1>2
  <2> HIDE DEF note
  <2> QED
    BY <1>1, <2>1, <2>2, Noted
<1>4. op'[s] = work /\ op' = [t \in Session |-> op'[t]]
  BY DEF Disturbs
<1>5. op' \in [Session -> Work]
  BY <1>3, <1>4
<1> QED
  BY <1>3, <1>4, <1>5 DEF Goes

LEMMA OnwardDropBytes ==
  ASSUME TypeOK, NEW s \in Session, DropBytes(s)
  PROVE  Goes(s, [op[s] EXCEPT !.step = FirstBlob(op[s])])
<1>1. \A t \in Session : op[t] \in Work
  BY DEF TypeOK
<1> DEFINE work == [op[s] EXCEPT !.step = FirstBlob(op[s])]
<1>2. \A t \in Session \ {s} : op'[t] = [op[t] EXCEPT !.raced = @ \/ Uploading(t, op[s].key)]
  BY DEF DropBytes
<1>3. \A t \in Session \ {s} : op'[t] \in Work /\ Same(op'[t], op[t])
  <2> TAKE t \in Session \ {s}
  <2> DEFINE note == op[t].raced \/ Uploading(t, op[s].key)
  <2>1. note \in BOOLEAN /\ (op[t].raced => note)
    OBVIOUS
  <2>2. op'[t] = [op[t] EXCEPT !.raced = note]
    BY <1>2
  <2> HIDE DEF note
  <2> QED
    BY <1>1, <2>1, <2>2, Noted
<1>4. op'[s] = work /\ op' = [t \in Session |-> op'[t]]
  BY DEF DropBytes
<1>5. work \in Work
  BY <1>1 DEF Work, FirstBlob, Step, DeleteStep
<1>6. op' \in [Session -> Work]
  BY <1>3, <1>4, <1>5
<1> HIDE DEF work
<1> QED
  BY <1>3, <1>4, <1>6 DEF Goes, work

LEMMA ItemGone ==
  ASSUME TypeOK, NEW i \in Item, DeleteItem(i)
  PROVE  op' \in [Session -> Work] /\ \A t \in Session : Same(op'[t], op[t])
<1>1. op' = [t \in Session |-> [op[t] EXCEPT !.calm = @ /\ op[t].key[1] # i]]
  BY DEF DeleteItem
<1>2. \A t \in Session : op'[t] \in Work /\ Same(op'[t], op[t])
  <2> TAKE t \in Session
  <2> DEFINE note == op[t].calm /\ op[t].key[1] # i
  <2>1. note \in BOOLEAN /\ (note => op[t].calm) /\ op[t] \in Work
    BY DEF TypeOK
  <2>2. op'[t] = [op[t] EXCEPT !.calm = note]
    BY <1>1
  <2> HIDE DEF note
  <2> QED
    BY <2>1, <2>2, Noted
<1>3. op' = [t \in Session |-> op'[t]]
  BY <1>1
<1> QED
  BY <1>2, <1>3

LEMMA IdleIsWork == Idle \in Work
BY GalleryAssumption DEF Idle, Work, Step

-----------------------------------------------------------------------------
(* The order of a gallery. *)

LEMMA AttachedCounted ==
  ASSUME TypeOK, RowsFinite, AttachedIsReal, NEW i
  PROVE  /\ IsFiniteSet(Attached(i)) /\ Cardinality(Attached(i)) \in Nat
         /\ Attached(i) \subseteq PhotoId
         /\ \A p \in Attached(i) : link[p] # NoLink /\ link[p].position \in Nat
<1>1. Attached(i) \in SUBSET {p \in PhotoId : photo[p] # NoPhoto}
  BY DEF Attached, AttachedIsReal
<1>2. IsFiniteSet(Attached(i))
  BY <1>1, FS_Subset DEF RowsFinite
<1>3. Cardinality(Attached(i)) \in Nat
  BY <1>2, FS_CardinalityType
<1>4. \A p \in Attached(i) : link[p] # NoLink /\ link[p].position \in Nat
  BY DEF Attached, TypeOK, Link
<1> QED
  BY <1>2, <1>3, <1>4 DEF Attached

\* ListByItem's answer names every photo of the item, once.
LEMMA InOrderLists ==
  ASSUME TypeOK, RowsFinite, AttachedIsReal, LinksApart, NEW i
  PROVE  /\ InOrder(i) \in [1..Cardinality(Attached(i)) -> Attached(i)]
         /\ Enumerates(InOrder(i), Attached(i))
<1> DEFINE S == Attached(i)
           f == [p \in S |-> link[p].position]
           Sorted(order) == \A j, k \in 1..Cardinality(S) :
                              j < k => link[order[j]].position < link[order[k]].position
<1>1. IsFiniteSet(S) /\ f \in [S -> Nat] /\ S \subseteq PhotoId
  BY AttachedCounted
<1>2. \A p, q \in S : f[p] = f[q] => p = q
  BY DEF Attached, LinksApart
<1>3. \A order \in [1..Cardinality(S) -> S] : Increasing(order, f) <=> Sorted(order)
  BY DEF Increasing
<1>4. InOrder(i) = CHOOSE order \in [1..Cardinality(S) -> S] : Sorted(order)
  BY DEF InOrder
<1> HIDE DEF S, f
<1>5. \E order \in [1..Cardinality(S) -> S] : Increasing(order, f)
  BY <1>1, <1>2, SortedExists
<1>6. \E order \in [1..Cardinality(S) -> S] : Sorted(order)
  BY <1>3, <1>5
<1> HIDE DEF Sorted
<1>7. InOrder(i) \in [1..Cardinality(S) -> S] /\ Sorted(InOrder(i))
  BY <1>4, <1>6
<1>8. Enumerates(InOrder(i), S)
  BY <1>1, <1>3, <1>7, SortedEnumerates
<1> QED
  BY <1>7, <1>8 DEF S

\* moveOrder swaps two neighbours or nothing: it lists the same photos.
LEMMA MoveOrderLists ==
  ASSUME NEW S, NEW n \in Nat, NEW order \in [1..n -> S], Enumerates(order, S),
         NEW p \in S, NEW up \in BOOLEAN
  PROVE  MoveOrder(order, p, up) \in [1..n -> S] /\ Enumerates(MoveOrder(order, p, up), S)
<1> DEFINE a == CHOOSE k \in DOMAIN order : order[k] = p
           b == IF up THEN a - 1 ELSE a + 1
           swapped == [order EXCEPT ![a] = order[b], ![b] = p]
<1>1. a \in 1..n /\ order[a] = p
  BY DEF Enumerates
<1>2. MoveOrder(order, p, up) = IF b \in 1..n THEN swapped ELSE order
  <2>1. DOMAIN order = 1..n
    OBVIOUS
  <2>2. MoveOrder(order, p, up) = IF b \in DOMAIN order THEN swapped ELSE order
    BY Zenon DEF MoveOrder
  <2> QED
    BY <2>1, <2>2
<1> HIDE DEF a
<1>3. a # b /\ \A k \in 1..n : order[k] \in S
  BY <1>1
<1> HIDE DEF b
<1>4. ASSUME b \in 1..n PROVE swapped \in [1..n -> S] /\ Enumerates(swapped, S)
  <2>1. /\ swapped \in [1..n -> S] /\ swapped[a] = order[b] /\ swapped[b] = order[a]
        /\ \A k \in (1..n) \ {a, b} : swapped[k] = order[k]
    BY <1>1, <1>3, <1>4
  <2> HIDE DEF swapped
  <2>2. \A j, k \in 1..n : swapped[j] = swapped[k] => j = k
    BY <1>1, <1>3, <1>4, <2>1 DEF Enumerates
  <2>3. \A q \in S : \E j \in 1..n : swapped[j] = q
    BY <1>1, <1>3, <1>4, <2>1 DEF Enumerates
  <2> QED
    BY <2>1, <2>2, <2>3 DEF Enumerates
<1> HIDE DEF swapped
<1> QED
  BY <1>2, <1>4
-----------------------------------------------------------------------------
(* Every step goes on with work that has its names. *)

LEMMA IdleNames == \A rows : Named(Idle, rows)
BY GalleryAssumption DEF Named, Idle, Naming, MoveStep

LEMMA StepsOn ==
  ASSUME TypeOK, WorkNames, NEW s \in Session, op[s].step # "idle",
         NEW step \in Step \ MoveStep, step \in Naming => op[s].photo \in PhotoId,
         NEW note \in BOOLEAN
  PROVE  /\ [op[s] EXCEPT !.step = step] \in Work /\ Named([op[s] EXCEPT !.step = step], photo)
         /\ [op[s] EXCEPT !.step = step, !.raced = note] \in Work
         /\ Named([op[s] EXCEPT !.step = step, !.raced = note], photo)
         /\ [op[s] EXCEPT !.step = step, !.thumb = note] \in Work
         /\ Named([op[s] EXCEPT !.step = step, !.thumb = note], photo)
<1>1. op[s] \in Work /\ Named(op[s], photo)
  BY DEF TypeOK, WorkNames
<1> QED
  BY <1>1 DEF Work, Named

GoesNamed(s) == \E work \in Work : Goes(s, work) /\ Named(work, photo')

LEMMA GoesIdle ==
  ASSUME TypeOK, NEW s \in Session, Proceeds(s, Idle)
  PROVE  GoesNamed(s)
BY IdleIsWork, IdleNames, OnwardProceeds DEF GoesNamed

LEMMA UploadWork ==
  ASSUME TypeOK, WorkNames, RowsFinite, AttachedIsReal, NEW s \in Session, Uploads(s)
  PROVE  GoesNamed(s)
<1>0. op[s] \in Work /\ Named(op[s], photo)
  BY DEF TypeOK, WorkNames
<1> USE GoesIdle
<1>1. ASSUME NEW i \in Item, NEW c \in Content, Upload(s, i, c) PROVE GoesNamed(s)
  <2> DEFINE work == [Idle EXCEPT !.step = "put", !.key = <<i, c>>]
  <2>1. work \in Work
    <3>1. <<i, c>> \in Key /\ "put" \in Step
      BY DEF Key, Step, UploadStep
    <3> QED
      BY <3>1, IdleIsWork DEF Work
  <2>2. Named(work, photo')
    BY GalleryAssumption DEF Idle, Named, Naming, MoveStep, Key
  <2>3. Proceeds(s, work)
    BY <1>1 DEF Upload
  <2> QED
    BY <2>1, <2>2, <2>3, OnwardProceeds DEF GoesNamed
<1>2. CASE PutFull(s)
  <2> DEFINE work == [op[s] EXCEPT !.step = "find", !.raced = Deleting(op[s].key) # {}]
  <2>1. op[s].step = "put" /\ Proceeds(s, work) /\ photo' = photo
    BY <1>2 DEF PutFull
  <2>2. "find" \in Step \ MoveStep /\ "find" \notin Naming
    BY DEF Step, UploadStep, MoveStep, Naming
  <2>3. (Deleting(op[s].key) # {}) \in BOOLEAN
    OBVIOUS
  <2>4. work \in Work /\ Named(work, photo)
    BY <2>1, <2>2, <2>3, StepsOn
  <2> QED
    BY <2>1, <2>4, OnwardProceeds DEF GoesNamed
<1>3. CASE FindByStorageRef(s)
  <2> DEFINE work == [op[s] EXCEPT !.step = "thumbnail"]
  <2>1. op[s].step = "find" /\ (Proceeds(s, Idle) \/ Proceeds(s, work)) /\ photo' = photo
    BY <1>3 DEF FindByStorageRef
  <2>2. "thumbnail" \in Step \ MoveStep /\ "thumbnail" \notin Naming
    BY DEF Step, UploadStep, MoveStep, Naming
  <2>3. work \in Work /\ Named(work, photo)
    BY <2>1, <2>2, StepsOn
  <2> QED
    BY <2>1, <2>3, OnwardProceeds DEF GoesNamed
<1>4. ASSUME NEW made \in BOOLEAN, TryGenerateThumbnail(s, made) PROVE GoesNamed(s)
  <2> DEFINE work == [op[s] EXCEPT !.step = "insert", !.thumb = made]
  <2>1. op[s].step = "thumbnail" /\ Proceeds(s, work) /\ photo' = photo
    BY <1>4 DEF TryGenerateThumbnail
  <2>2. "insert" \in Step \ MoveStep /\ "insert" \notin Naming
    BY DEF Step, UploadStep, MoveStep, Naming
  <2>3. work \in Work /\ Named(work, photo)
    BY <2>1, <2>2, StepsOn
  <2> QED
    BY <2>1, <2>3, OnwardProceeds DEF GoesNamed
<1>5. ASSUME NEW p \in PhotoId, CreateRow(s, p) PROVE GoesNamed(s)
  <2> DEFINE work == [op[s] EXCEPT !.step = "list", !.photo = p]
  <2>1. CASE Proceeds(s, Idle)
    BY <2>1
  <2>2. CASE ~Proceeds(s, Idle)
    <3>1. /\ op[s].step = "insert" /\ Proceeds(s, work)
          /\ photo' = [photo EXCEPT ![p] = [key |-> op[s].key, thumb |-> op[s].thumb]]
      BY <1>5, <2>2 DEF CreateRow
    <3>2. work \in Work
      BY <1>0 DEF Work, Step, UploadStep
    <3>3. photo'[p].key = op[s].key /\ op[s].key \in Key
      BY <1>0, <3>1 DEF TypeOK, Named
    <3>4. Named(work, photo')
      BY <1>0, <3>3 DEF Named, MoveStep, Work
    <3> QED
      BY <3>1, <3>2, <3>4, OnwardProceeds DEF GoesNamed
  <2> QED
    BY <2>1, <2>2
<1>6. CASE ListByItem(s)
  <2> DEFINE n == Cardinality(Attached(op[s].key[1]))
             work == [op[s] EXCEPT !.step = "attach", !.position = n]
  <2>1. op[s].step = "list" /\ Proceeds(s, work) /\ photo' = photo
    BY <1>6 DEF ListByItem
  <2>2. n \in Nat
    BY AttachedCounted
  <2>3. op[s].key \in Key /\ op[s].photo \in PhotoId
    BY <1>0, <2>1 DEF Named, Naming
  <2> HIDE DEF n
  <2>4. work \in Work
    BY <1>0, <2>2 DEF Work, Step, UploadStep
  <2>5. Named(work, photo)
    BY <1>0, <2>3 DEF Named, Work, MoveStep
  <2> QED
    BY <2>1, <2>4, <2>5, OnwardProceeds DEF GoesNamed, n
<1>7. CASE AttachToItem(s)
  <2>1. CASE Proceeds(s, Idle)
    BY <2>1
  <2>2. CASE ~Proceeds(s, Idle)
    <3>1. Disturbs(s, Idle, op[s].key[1])
      BY <1>7, <2>2 DEF AttachToItem
    <3> QED
      BY <3>1, IdleIsWork, IdleNames, OnwardDisturbs DEF GoesNamed
  <2> QED
    BY <2>1, <2>2
<1> QED
  BY <1>1, <1>2, <1>3, <1>4, <1>5, <1>6, <1>7 DEF Uploads
LEMMA AttachedRow ==
  ASSUME TypeOK, AttachedIsReal, NEW p \in PhotoId, link[p] # NoLink
  PROVE  photo[p] # NoPhoto /\ photo[p].key \in Key /\ photo[p].thumb \in BOOLEAN
BY DEF TypeOK, AttachedIsReal, Photo

LEMMA DeleteWork ==
  ASSUME TypeOK, WorkNames, AttachedIsReal, NEW s \in Session, Deletes(s)
  PROVE  GoesNamed(s)
<1>0. op[s] \in Work /\ Named(op[s], photo)
  BY DEF TypeOK, WorkNames
<1> USE GoesIdle
<1>1. ASSUME NEW p \in PhotoId, Delete(s, p) PROVE GoesNamed(s)
  <2> DEFINE work == [Idle EXCEPT !.step = "unlink", !.key = photo[p].key, !.photo = p,
                                  !.thumb = photo[p].thumb]
  <2>1. Proceeds(s, work) /\ link[p] # NoLink /\ photo' = photo
    BY <1>1 DEF Delete, Viewable
  <2>2. photo[p].key \in Key /\ photo[p].thumb \in BOOLEAN
    BY <2>1, AttachedRow
  <2>3. work \in Work
    BY <2>2, IdleIsWork DEF Work, Step, DeleteStep
  <2>4. Named(work, photo)
    BY <2>2, IdleIsWork DEF Named, Work, MoveStep
  <2> QED
    BY <2>1, <2>3, <2>4, OnwardProceeds DEF GoesNamed
<1>2. CASE Unlink(s)
  <2> DEFINE work == [op[s] EXCEPT !.step = "delete row"]
  <2>1. op[s].step = "unlink" /\ Disturbs(s, work, op[s].key[1]) /\ photo' = photo
    BY <1>2 DEF Unlink
  <2>2. op[s].photo \in PhotoId
    BY <1>0, <2>1 DEF Named, Naming
  <2>3. "delete row" \in Step \ MoveStep
    BY DEF Step, DeleteStep, MoveStep
  <2>4. work \in Work /\ Named(work, photo)
    BY <2>1, <2>2, <2>3, StepsOn
  <2> QED
    BY <2>1, <2>4, OnwardDisturbs DEF GoesNamed
<1>3. CASE DeleteRow(s)
  <2>1. CASE Proceeds(s, Idle)
    BY <2>1
  <2>2. CASE ~Proceeds(s, Idle)
    <3> DEFINE work == [op[s] EXCEPT !.step = FirstBlob(op[s])]
    <3>1. op[s].step = "delete row" /\ DropBytes(s) /\ photo' = [photo EXCEPT ![op[s].photo] = NoPhoto]
      BY <1>3, <2>2 DEF DeleteRow
    <3>2. op[s].photo \in PhotoId /\ photo'[op[s].photo] = NoPhoto /\ op[s].key \in Key
      BY <1>0, <3>1 DEF TypeOK, Named, Naming
    <3>3. FirstBlob(op[s]) \in Step \ MoveStep /\ FirstBlob(op[s]) \notin Naming
      BY DEF FirstBlob, Step, DeleteStep, MoveStep, Naming
    <3>4. work \in Work
      BY <1>0, <3>3 DEF Work
    <3>5. Named(work, photo')
      BY <1>0, <3>2, <3>3 DEF Named, Work
    <3> QED
      BY <3>1, <3>4, <3>5, OnwardDropBytes DEF GoesNamed
  <2> QED
    BY <2>1, <2>2
<1>4. CASE DropThumb(s)
  <2> DEFINE work == [op[s] EXCEPT !.step = "drop full"]
  <2>1. op[s].step = "drop thumb" /\ Proceeds(s, work) /\ photo' = photo
    BY <1>4 DEF DropThumb
  <2>2. "drop full" \in Step \ MoveStep /\ "drop full" \notin Naming
    BY DEF Step, DeleteStep, MoveStep, Naming
  <2>3. work \in Work /\ Named(work, photo)
    BY <2>1, <2>2, StepsOn
  <2> QED
    BY <2>1, <2>3, OnwardProceeds DEF GoesNamed
<1>5. CASE DropFull(s)
  BY <1>5 DEF DropFull
<1> QED
  BY <1>1, <1>2, <1>3, <1>4, <1>5 DEF Deletes

\* The photos of a reorder keep their list, and its counter stays within it.
LEMMA NextUpdateNames ==
  ASSUME NEW work \in Work, NEW rows, Named(work, rows), work.step \in MoveStep
  PROVE  NextUpdate(work) \in Work /\ Named(NextUpdate(work), rows)
<1>1. work.position \in Nat /\ Len(work.order) \in Nat /\ work.position < Len(work.order)
  BY DEF Named, Work
<1>2. CASE work.position + 1 < Len(work.order)
  <2>1. NextUpdate(work) = [work EXCEPT !.position = work.position + 1]
    BY <1>2 DEF NextUpdate
  <2>2. [work EXCEPT !.position = work.position + 1] \in Work
    BY <1>1 DEF Work
  <2> QED
    BY <1>2, <2>1, <2>2 DEF Named, Work
<1>3. CASE ~(work.position + 1 < Len(work.order)) /\ work.step = "stage"
  <2>1. NextUpdate(work) = [work EXCEPT !.step = "finalize", !.position = 0]
    BY <1>3 DEF NextUpdate
  <2>2. [work EXCEPT !.step = "finalize", !.position = 0] \in Work
    BY DEF Work, Step, MoveStep
  <2>3. "finalize" \notin Naming /\ 0 < Len(work.order)
    BY <1>1 DEF Naming
  <2> QED
    BY <1>3, <2>1, <2>2, <2>3 DEF Named, Work
<1>4. CASE ~(work.position + 1 < Len(work.order)) /\ work.step # "stage"
  BY <1>4, IdleIsWork, IdleNames DEF NextUpdate
<1> QED
  BY <1>2, <1>3, <1>4

LEMMA ArrangeWork ==
  ASSUME TypeOK, WorkNames, RowsFinite, AttachedIsReal, LinksApart,
         NEW s \in Session, Arranges(s)
  PROVE  GoesNamed(s)
<1>0. op[s] \in Work /\ Named(op[s], photo)
  BY DEF TypeOK, WorkNames
<1> USE GoesIdle
<1>1. ASSUME NEW p \in PhotoId, SetPrimary(s, p) PROVE GoesNamed(s)
  <2> DEFINE work == [Idle EXCEPT !.step = "clear", !.key = photo[p].key, !.photo = p]
  <2>1. Proceeds(s, work) /\ link[p] # NoLink /\ photo' = photo
    BY <1>1 DEF SetPrimary, Viewable
  <2>2. photo[p].key \in Key
    BY <2>1, AttachedRow
  <2>3. work \in Work
    BY <2>2, IdleIsWork DEF Work, Step
  <2>4. Named(work, photo)
    BY <2>2, IdleIsWork DEF Named, Work, MoveStep
  <2> QED
    BY <2>1, <2>3, <2>4, OnwardProceeds DEF GoesNamed
<1>2. ASSUME NEW p \in PhotoId, NEW up \in BOOLEAN, Move(s, p, up) PROVE GoesNamed(s)
  <2> DEFINE i == ItemOf(p)
             n == Cardinality(Attached(i))
             order == MoveOrder(InOrder(i), p, up)
             calm == Dense(i)
             work == [Idle EXCEPT !.step = "stage", !.key = photo[p].key, !.calm = calm,
                                  !.order = order]
  <2>1. Proceeds(s, work) /\ link[p] # NoLink /\ photo' = photo
    BY <1>2 DEF Move, Viewable
  <2>2. photo[p].key \in Key /\ p \in Attached(i) /\ calm \in BOOLEAN
    BY <2>1, AttachedRow DEF Attached, Dense
  <2>3. n \in Nat /\ Attached(i) \subseteq PhotoId /\ IsFiniteSet(Attached(i))
    BY AttachedCounted
  <2>4. n # 0
    BY <2>2, <2>3, FS_EmptySet
  <2>5. order \in [1..n -> Attached(i)]
    BY <2>2, <2>3, InOrderLists, MoveOrderLists
  <2> HIDE DEF order, n, calm
  <2>6. order \in Seq(PhotoId) /\ Len(order) = n
    BY <2>3, <2>5
  <2>7. work \in Work
    BY <2>2, <2>6, IdleIsWork DEF Work, Step, MoveStep
  <2>8. work.photo = None /\ work.position = 0
    BY IdleIsWork DEF Work, Idle
  <2>9. Named(work, photo)
    BY <2>2, <2>3, <2>4, <2>6, <2>8, IdleIsWork, GalleryAssumption DEF Named, Work, Naming
  <2> QED
    BY <2>1, <2>7, <2>9, OnwardProceeds DEF GoesNamed
<1>3. CASE ClearPrimary(s)
  <2> DEFINE work == [op[s] EXCEPT !.step = "set"]
  <2>1. op[s].step = "clear" /\ Proceeds(s, work) /\ photo' = photo
    BY <1>3 DEF ClearPrimary
  <2>2. op[s].photo \in PhotoId
    BY <1>0, <2>1 DEF Named, Naming
  <2>3. "set" \in Step \ MoveStep
    BY DEF Step, MoveStep
  <2>4. work \in Work /\ Named(work, photo)
    BY <2>1, <2>2, <2>3, StepsOn
  <2> QED
    BY <2>1, <2>4, OnwardProceeds DEF GoesNamed
<1>4. CASE MarkPrimary(s)
  BY <1>4 DEF MarkPrimary
<1>5. CASE Reorder(s)
  <2>1. op[s].step \in MoveStep /\ photo' = photo
    BY <1>5 DEF Reorder
  <2>2. \/ Proceeds(s, Idle) \/ Proceeds(s, NextUpdate(op[s]))
        \/ Disturbs(s, NextUpdate(op[s]), op[s].key[1])
    BY <1>5 DEF Reorder
  <2>3. NextUpdate(op[s]) \in Work /\ Named(NextUpdate(op[s]), photo)
    BY <1>0, <2>1, NextUpdateNames
  <2> QED
    BY <2>1, <2>2, <2>3, OnwardProceeds, OnwardDisturbs DEF GoesNamed
<1> QED
  BY <1>1, <1>2, <1>3, <1>4, <1>5 DEF Arranges

LEMMA BackfillWork ==
  ASSUME TypeOK, WorkNames, AttachedIsReal, NEW s \in Session, Backfills(s)
  PROVE  GoesNamed(s)
<1>0. op[s] \in Work /\ Named(op[s], photo)
  BY DEF TypeOK, WorkNames
<1> USE GoesIdle
<1>1. ASSUME NEW p \in PhotoId, ListMissingThumbnail(s, p) PROVE GoesNamed(s)
  <2> DEFINE work == [Idle EXCEPT !.step = "open", !.key = photo[p].key, !.photo = p]
  <2>1. Proceeds(s, work) /\ link[p] # NoLink /\ photo' = photo
    BY <1>1 DEF ListMissingThumbnail
  <2>2. photo[p].key \in Key
    BY <2>1, AttachedRow
  <2>3. work \in Work
    BY <2>2, IdleIsWork DEF Work, Step, BackfillStep
  <2>4. Named(work, photo)
    BY <2>2, IdleIsWork DEF Named, Work, MoveStep
  <2> QED
    BY <2>1, <2>3, <2>4, OnwardProceeds DEF GoesNamed
<1>2. CASE OpenFull(s)
  <2> DEFINE work == [op[s] EXCEPT !.step = "put thumb"]
  <2>1. op[s].step = "open" /\ (Proceeds(s, Idle) \/ Proceeds(s, work)) /\ photo' = photo
    BY <1>2 DEF OpenFull
  <2>2. op[s].photo \in PhotoId
    BY <1>0, <2>1 DEF Named, Naming
  <2>3. "put thumb" \in Step \ MoveStep
    BY DEF Step, BackfillStep, MoveStep
  <2>4. work \in Work /\ Named(work, photo)
    BY <2>1, <2>2, <2>3, StepsOn
  <2> QED
    BY <2>1, <2>4, OnwardProceeds DEF GoesNamed
<1>3. CASE PutThumb(s)
  <2> DEFINE work == [op[s] EXCEPT !.step = "set thumb"]
  <2>1. op[s].step = "put thumb" /\ Proceeds(s, work) /\ photo' = photo
    BY <1>3 DEF PutThumb
  <2>2. op[s].photo \in PhotoId
    BY <1>0, <2>1 DEF Named, Naming
  <2>3. "set thumb" \in Step \ MoveStep
    BY DEF Step, BackfillStep, MoveStep
  <2>4. work \in Work /\ Named(work, photo)
    BY <2>1, <2>2, <2>3, StepsOn
  <2> QED
    BY <2>1, <2>4, OnwardProceeds DEF GoesNamed
<1>4. CASE SetThumbnailRef(s)
  BY <1>4 DEF SetThumbnailRef
<1> QED
  BY <1>1, <1>2, <1>3, <1>4 DEF Backfills
-----------------------------------------------------------------------------
(* Photo rows. *)

\* A row that is there after a step was there, under its key, or has just been
\* made with an id that no session knows.
LEMMA RowsKeepKeys ==
  ASSUME TypeOK, WorkNames, [Next]_vars, NEW p \in PhotoId, photo'[p] # NoPhoto
  PROVE  \/ photo[p] # NoPhoto /\ photo'[p].key = photo[p].key
         \/ \E s \in Session : Fresh(p) /\ CreateRow(s, p) /\ ~Proceeds(s, Idle)
<1>1. CASE UNCHANGED photo
  BY <1>1
<1>2. ASSUME NEW s \in Session, NEW q \in PhotoId, Fresh(q), CreateRow(s, q)
      PROVE  \/ photo[p] # NoPhoto /\ photo'[p].key = photo[p].key
             \/ \E t \in Session : Fresh(p) /\ CreateRow(t, p) /\ ~Proceeds(t, Idle)
  <2>1. CASE p = q /\ ~Proceeds(s, Idle)
    BY <1>2, <2>1
  <2>2. CASE p # q \/ Proceeds(s, Idle)
    <3>1. photo' = photo \/ photo' = [photo EXCEPT ![q] = [key |-> op[s].key, thumb |-> op[s].thumb]]
      BY <1>2 DEF CreateRow
    <3>2. CASE p # q
      BY <3>1, <3>2 DEF TypeOK
    <3>3. CASE Proceeds(s, Idle)
      <4>1. Carrying(op[s].key) # {}
        <5>1. SUFFICES ASSUME Carrying(op[s].key) = {} PROVE FALSE
          OBVIOUS
        <5>2. op[s].step = "insert" /\ op' = [op EXCEPT ![s] = [op[s] EXCEPT !.step = "list", !.photo = q]]
          BY <1>2, <5>1 DEF CreateRow, Proceeds
        <5>3. op[s] \in Work /\ op'[s].step = "list"
          BY <5>2 DEF TypeOK, Work
        <5>4. op'[s] = Idle
          BY <3>3 DEF Proceeds, TypeOK
        <5> QED
          BY <5>3, <5>4 DEF Idle
      <4>2. photo' = photo
        BY <1>2, <4>1 DEF CreateRow
      <4> QED
        BY <4>2
    <3> QED
      BY <2>2, <3>2, <3>3
  <2> QED
    BY <2>1, <2>2
<1>3. ASSUME NEW s \in Session, DeleteRow(s)
      PROVE  photo[p] # NoPhoto /\ photo'[p].key = photo[p].key
  <2>1. photo' = photo \/ photo' = [photo EXCEPT ![op[s].photo] = NoPhoto]
    BY <1>3 DEF DeleteRow
  <2> QED
    BY <2>1 DEF TypeOK
<1>4. ASSUME NEW s \in Session, SetThumbnailRef(s)
      PROVE  photo[p] # NoPhoto /\ photo'[p].key = photo[p].key
  <2>1. photo' = photo \/ (photo[op[s].photo] # NoPhoto /\ photo' = [photo EXCEPT ![op[s].photo].thumb = TRUE])
    BY <1>4 DEF SetThumbnailRef
  <2> QED
    BY <2>1 DEF TypeOK, Photo
<1> QED
  BY <1>1, <1>2, <1>3, <1>4, RowWriters DEF vars

\* Rows and work keep their types; work keeps its names.
LEMMA WorkNext ==
  ASSUME TypeOK, WorkNames, RowsFinite, AttachedIsReal, LinksApart, [Next]_vars
  PROVE  op' \in [Session -> Work] /\ WorkNames'
<1> DEFINE Kept == \A t \in Session : Same(op'[t], op[t])
<1>1. ASSUME NEW t \in Session, Same(op'[t], op[t]) PROVE Named(op'[t], photo')
  <2>1. Named(op[t], photo) /\ op[t] \in Work
    BY DEF WorkNames, TypeOK
  <2>2. ASSUME op[t].photo \in PhotoId, photo'[op[t].photo] # NoPhoto
        PROVE  photo[op[t].photo] # NoPhoto /\ photo'[op[t].photo].key = photo[op[t].photo].key
    BY <2>2, RowsKeepKeys DEF Fresh
  <2> QED
    BY <1>1, <2>1, <2>2 DEF Named, Same
<1>2. ASSUME NEW s \in Session, GoesNamed(s) PROVE op' \in [Session -> Work] /\ WorkNames'
  <2>1. PICK work \in Work : Goes(s, work) /\ Named(work, photo')
    BY <1>2 DEF GoesNamed
  <2>2. \A t \in Session : Named(op'[t], photo')
    BY <1>1, <2>1 DEF Goes
  <2> QED
    BY <2>1, <2>2 DEF Goes, WorkNames
<1>3. ASSUME op' \in [Session -> Work], Kept PROVE op' \in [Session -> Work] /\ WorkNames'
  BY <1>1, <1>3 DEF WorkNames
<1>4. CASE UNCHANGED op
  <2>1. Kept
    BY <1>4 DEF Same
  <2>2. op' \in [Session -> Work]
    BY <1>4 DEF TypeOK
  <2> QED
    BY <1>3, <2>1, <2>2
<1>5. ASSUME NEW i \in Item, DeleteItem(i) PROVE op' \in [Session -> Work] /\ Kept
  BY <1>5, ItemGone
<1>6. ASSUME NEW s \in Session, Stop(s) PROVE GoesNamed(s)
  BY <1>6, GoesIdle DEF Stop
<1>7. ASSUME NEW i \in Item, CreateItem(i) PROVE UNCHANGED op
  BY <1>7 DEF CreateItem
<1> QED
  BY <1>2, <1>3, <1>4, <1>5, <1>6, <1>7, UploadWork, DeleteWork, ArrangeWork, BackfillWork DEF Next, vars
LEMMA RowsNext ==
  ASSUME TypeOK, WorkNames, [Next]_vars
  PROVE  photo' \in [PhotoId -> Photo] /\ rival' \subseteq PhotoId
<1>1. CASE UNCHANGED <<photo, rival>>
  BY <1>1 DEF TypeOK
<1>2. ASSUME NEW s \in Session, NEW q \in PhotoId, CreateRow(s, q)
      PROVE  photo' \in [PhotoId -> Photo] /\ rival' \subseteq PhotoId
  <2>1. op[s].step = "insert" /\ op[s] \in Work /\ Named(op[s], photo)
    BY <1>2 DEF CreateRow, TypeOK, WorkNames
  <2>2. [key |-> op[s].key, thumb |-> op[s].thumb] \in Photo
    BY <2>1 DEF Named, Work, Photo
  <2> QED
    BY <1>2, <2>2 DEF CreateRow, TypeOK
<1>3. ASSUME NEW s \in Session, DeleteRow(s)
      PROVE  photo' \in [PhotoId -> Photo] /\ rival' \subseteq PhotoId
  BY <1>3 DEF DeleteRow, TypeOK, Photo
<1>4. ASSUME NEW s \in Session, SetThumbnailRef(s)
      PROVE  photo' \in [PhotoId -> Photo] /\ rival' \subseteq PhotoId
  <2>1. \/ photo' = photo
        \/ photo[op[s].photo] # NoPhoto /\ photo' = [photo EXCEPT ![op[s].photo].thumb = TRUE]
    BY <1>4 DEF SetThumbnailRef
  <2> QED
    BY <1>4, <2>1 DEF SetThumbnailRef, TypeOK, Photo
<1> QED
  BY <1>1, <1>2, <1>3, <1>4, RowWriters DEF vars

\* The row of a photo in a gallery stays: its foreign key is RESTRICT.
LEMMA AttachedRowStays ==
  ASSUME TypeOK, AttachedIsReal, [Next]_vars, NEW p \in PhotoId, link[p] # NoLink
  PROVE  photo'[p] # NoPhoto /\ photo'[p].key = photo[p].key
<1>0. photo[p] # NoPhoto /\ photo[p] \in Photo
  BY DEF AttachedIsReal, TypeOK
<1>1. CASE UNCHANGED photo
  BY <1>0, <1>1
<1>2. ASSUME NEW s \in Session, NEW q \in PhotoId, Fresh(q), CreateRow(s, q)
      PROVE  photo'[p] = photo[p]
  BY <1>0, <1>2 DEF Fresh, CreateRow, TypeOK
<1>3. ASSUME NEW s \in Session, DeleteRow(s) PROVE photo'[p] = photo[p]
  BY <1>0, <1>3 DEF DeleteRow, TypeOK
<1>4. ASSUME NEW s \in Session, SetThumbnailRef(s)
      PROVE  photo'[p] # NoPhoto /\ photo'[p].key = photo[p].key
  <2>1. photo' = photo \/ photo' = [photo EXCEPT ![op[s].photo].thumb = TRUE]
    BY <1>4 DEF SetThumbnailRef
  <2>2. NoPhoto \notin [key : Key, thumb : BOOLEAN]
    BY GalleryAssumption DEF NoPhoto, Key
  <2>3. photo'[p] = photo[p] \/ photo'[p] = [photo[p] EXCEPT !.thumb = TRUE]
    BY <2>1 DEF TypeOK
  <2>4. photo[p] \in [key : Key, thumb : BOOLEAN]
    BY <1>0 DEF Photo
  <2>5. photo'[p] \in [key : Key, thumb : BOOLEAN] /\ photo'[p].key = photo[p].key
    BY <2>3, <2>4
  <2> QED
    BY <2>2, <2>5
<1> QED
  BY <1>0, <1>1, <1>2, <1>3, <1>4, RowWriters DEF vars

\* One UPDATE of Reorder moves a photo of the item to a position that no other
\* photo of it has, or nothing.
Updates(s, p, i) ==
  /\ p \in Attached(i) /\ \A q \in Attached(i) \ {p} : link[q].position # Target(op[s])
  /\ link' = [link EXCEPT ![p].position = Target(op[s])]

LEMMA ReorderWrites ==
  ASSUME NEW s \in Session, Reorder(s)
  PROVE  link' = link \/ Updates(s, op[s].order[op[s].position + 1], op[s].key[1])
<1> DEFINE p == op[s].order[op[s].position + 1]
           i == op[s].key[1]
           taken == \E q \in Attached(i) \ {p} : link[q].position = Target(op[s])
<1>1. CASE p \notin Attached(i) \/ taken
  BY <1>1 DEF Reorder
<1>2. CASE p \in Attached(i) /\ ~taken
  <2>1. link' = [link EXCEPT ![p].position = Target(op[s])]
    BY <1>2 DEF Reorder
  <2> QED
    BY <1>2, <2>1 DEF Updates
<1> QED
  BY <1>1, <1>2

\* A position is stored for a photo of the item only.
LEMMA LinksNext ==
  ASSUME TypeOK, WorkNames, [Next]_vars
  PROVE  link' \in [PhotoId -> Link]
<1>1. CASE UNCHANGED link
  BY <1>1 DEF TypeOK
<1>0. \A s \in Session : op[s] \in Work /\ Named(op[s], photo)
  BY DEF TypeOK, WorkNames
<1>2. ASSUME NEW s \in Session, AttachToItem(s) PROVE link' \in [PhotoId -> Link]
  <2>1. op[s].position \in Nat
    BY <1>0 DEF Work
  <2>2. [position |-> op[s].position, primary |-> op[s].position = 0] \in Link
    BY <2>1 DEF Link
  <2> QED
    BY <1>2, <2>2 DEF AttachToItem, TypeOK
<1>3. ASSUME NEW s \in Session, Unlink(s) PROVE link' \in [PhotoId -> Link]
  BY <1>3 DEF Unlink, TypeOK, Link
<1>4. ASSUME NEW p \in PhotoId, link[p] # NoLink, NEW b \in BOOLEAN
      PROVE  [link[p] EXCEPT !.primary = b] \in Link
  BY <1>4 DEF TypeOK, Link
<1>5. ASSUME NEW s \in Session, ClearPrimary(s) PROVE link' \in [PhotoId -> Link]
  BY <1>4, <1>5 DEF ClearPrimary, TypeOK, Attached
<1>6. ASSUME NEW s \in Session, MarkPrimary(s) PROVE link' \in [PhotoId -> Link]
  <2>1. \/ link' = link
        \/ op[s].photo \in Attached(op[s].key[1]) /\ link' = [link EXCEPT ![op[s].photo].primary = TRUE]
    BY <1>6 DEF MarkPrimary
  <2> QED
    BY <1>4, <2>1 DEF TypeOK, Attached
<1>7. ASSUME NEW s \in Session, Reorder(s) PROVE link' \in [PhotoId -> Link]
  <2> DEFINE p == op[s].order[op[s].position + 1]
             target == Target(op[s])
  <2>0. link' = link \/ Updates(s, p, op[s].key[1])
    BY <1>7, ReorderWrites
  <2> HIDE DEF p
  <2>1. link' = link \/ (p \in Attached(op[s].key[1]) /\ link' = [link EXCEPT ![p].position = target])
    BY <2>0 DEF Updates
  <2>2. target \in Nat
    BY <1>0 DEF Target, Work
  <2> HIDE DEF target
  <2>3. ASSUME p \in PhotoId, link[p] # NoLink PROVE [link[p] EXCEPT !.position = target] \in Link
    BY <2>2, <2>3 DEF TypeOK, Link
  <2> QED
    BY <2>1, <2>3 DEF TypeOK, Attached
<1>8. ASSUME NEW i \in Item, DeleteItem(i) PROVE link' \in [PhotoId -> Link]
  BY <1>8 DEF DeleteItem, TypeOK, Link
<1> QED
  BY <1>1, <1>2, <1>3, <1>5, <1>6, <1>7, <1>8, LinkWriters DEF vars

LEMMA TypeNext ==
  ASSUME TypeOK, WorkNames, RowsFinite, AttachedIsReal, LinksApart, [Next]_vars
  PROVE  TypeOK'
<1>1. CASE UNCHANGED vars
  BY <1>1 DEF vars, TypeOK
<1>2. CASE Next
  <2>1. blobs' \subseteq Key \X Variant
    <3>1. \A s \in Session : op[s].step # "idle" => op[s].key \in Key
      BY DEF WorkNames, Named
    <3>2. ASSUME NEW s \in Session, PutFull(s) \/ PutThumb(s) \/ \E made \in BOOLEAN : TryGenerateThumbnail(s, made)
          PROVE  blobs' \subseteq Key \X Variant
      <4>1. op[s].key \in Key
        BY <3>1, <3>2 DEF PutFull, PutThumb, TryGenerateThumbnail
      <4>2. blobs' \subseteq blobs \cup {<<op[s].key, "full">>, <<op[s].key, "thumb">>}
        BY <3>2 DEF PutFull, PutThumb, TryGenerateThumbnail
      <4> QED
        BY <4>1, <4>2 DEF TypeOK, Variant
    <3>3. ASSUME NEW s \in Session, DropThumb(s) \/ DropFull(s) PROVE blobs' \subseteq blobs
      BY <3>3 DEF DropThumb, DropFull
    <3> QED
      BY <1>2, <3>2, <3>3, BlobWriters DEF TypeOK
  <2>2. item' \in [Item -> {"unborn", "there", "deleted"}] /\ faults' \in 0..MaxFaults
    <3>1. \/ UNCHANGED <<item, faults>>
          \/ \E i \in Item : CreateItem(i) \/ DeleteItem(i)
          \/ \E s \in Session : Stop(s)
      BY <1>2 DEF Next, Uploads, Deletes, Arranges, Backfills, Upload, PutFull, FindByStorageRef,
                  TryGenerateThumbnail, CreateRow, ListByItem, AttachToItem, Delete, Unlink,
                  DeleteRow, DropThumb, DropFull, SetPrimary, ClearPrimary, MarkPrimary, Move,
                  Reorder, ListMissingThumbnail, OpenFull, PutThumb, SetThumbnailRef
    <3> QED
      BY <3>1, GalleryAssumption DEF CreateItem, DeleteItem, Stop, TypeOK
  <2> QED
    BY <2>1, <2>2, RowsNext, LinksNext, WorkNext DEF TypeOK
<1> QED
  BY <1>1, <1>2
\* storage_ref is UNIQUE, and a page of photo rows is finite.
LEMMA KeysNext ==
  ASSUME TypeOK, WorkNames, KeysUnique, RowsFinite, [Next]_vars
  PROVE  KeysUnique' /\ RowsFinite'
<1> DEFINE Rows == {p \in PhotoId : photo[p] # NoPhoto}
<1>1. ASSUME \A p \in PhotoId : photo'[p] # NoPhoto => photo[p] # NoPhoto /\ photo'[p].key = photo[p].key
      PROVE  KeysUnique' /\ RowsFinite'
  <2>1. KeysUnique'
    BY <1>1 DEF KeysUnique
  <2>2. Rows' \in SUBSET Rows
    BY <1>1
  <2> HIDE DEF Rows
  <2>3. IsFiniteSet(Rows')
    BY <2>2, FS_Subset DEF RowsFinite, Rows
  <2> QED
    BY <2>1, <2>3 DEF RowsFinite, Rows
<1>2. ASSUME NEW s \in Session, NEW q \in PhotoId, Fresh(q), CreateRow(s, q), Carrying(op[s].key) = {}
      PROVE  KeysUnique' /\ RowsFinite'
  <2>1. photo' = [photo EXCEPT ![q] = [key |-> op[s].key, thumb |-> op[s].thumb]]
    BY <1>2 DEF CreateRow
  <2>2. photo'[q].key = op[s].key /\ \A p \in PhotoId \ {q} : photo'[p] = photo[p]
    BY <2>1 DEF TypeOK
  <2>3. KeysUnique'
    BY <1>2, <2>2 DEF KeysUnique, Carrying
  <2>4. Rows' \in SUBSET (Rows \cup {q})
    BY <2>2
  <2> HIDE DEF Rows
  <2>5. IsFiniteSet(Rows')
    BY <2>4, FS_Subset, FS_AddElement DEF RowsFinite, Rows
  <2> QED
    BY <2>3, <2>5 DEF RowsFinite, Rows
<1>3. ASSUME NEW s \in Session, NEW q \in PhotoId, CreateRow(s, q), Carrying(op[s].key) # {}
      PROVE  photo' = photo
  BY <1>3 DEF CreateRow
<1>4. CASE \E s \in Session, q \in PhotoId : Fresh(q) /\ CreateRow(s, q) /\ Carrying(op[s].key) = {}
  BY <1>2, <1>4
<1>5. CASE ~\E s \in Session, q \in PhotoId : Fresh(q) /\ CreateRow(s, q) /\ Carrying(op[s].key) = {}
  <2>1. ASSUME NEW p \in PhotoId, photo'[p] # NoPhoto
        PROVE  photo[p] # NoPhoto /\ photo'[p].key = photo[p].key
    BY <1>3, <1>5, <2>1, RowsKeepKeys
  <2> QED
    BY <1>1, <2>1
<1> QED
  BY <1>4, <1>5

-----------------------------------------------------------------------------
(* Galleries. *)

\* What a write of item_photo rows leaves alone.
LEMMA LinkWritersKeep ==
  ASSUME Next, link' # link
  PROVE  photo' = photo /\ rival' = rival /\ blobs' = blobs
BY LinkWriters DEF AttachToItem, Unlink, ClearPrimary, MarkPrimary, Reorder, DeleteItem

LEMMA LinksApartNext ==
  ASSUME TypeOK, WorkNames, AttachedIsReal, LinksApart, [Next]_vars
  PROVE  LinksApart'
<1>0. link \in [PhotoId -> Link] /\ \A s \in Session : op[s] \in Work /\ Named(op[s], photo)
  BY DEF TypeOK, WorkNames
<1>1. CASE link' = link
  <2>1. \A p \in PhotoId : link[p] # NoLink => photo'[p].key = photo[p].key
    BY AttachedRowStays
  <2> QED
    BY <1>1, <2>1 DEF LinksApart, ItemOf
<1>2. ASSUME link' # link, Next PROVE LinksApart'
  <2>0. photo' = photo
    BY <1>2, LinkWritersKeep
  <2>1. ASSUME \A p \in PhotoId : link'[p] # NoLink =>
                 link[p] # NoLink /\ link'[p].position = link[p].position
        PROVE  LinksApart'
    BY <2>0, <2>1 DEF LinksApart, ItemOf
  <2>2. ASSUME NEW s \in Session, AttachToItem(s) PROVE LinksApart'
    <3> DEFINE i == op[s].key[1]  p == op[s].photo
    <3>1. /\ op[s].step = "attach" /\ photo[p] # NoPhoto /\ Admits(i, op[s].position, op[s].position = 0)
          /\ link' = [link EXCEPT ![p] = [position |-> op[s].position, primary |-> op[s].position = 0]]
      BY <1>2, <2>2 DEF AttachToItem
    <3>2. p \in PhotoId /\ photo[p].key = op[s].key
      BY <1>0, <3>1 DEF Named, Naming
    <3>3. \A q \in PhotoId \ {p} : link'[q] = link[q]
      BY <1>0, <3>1
    <3>4. link'[p].position = op[s].position /\ ItemOf(p) = i
      BY <1>0, <3>1, <3>2 DEF ItemOf
    <3>5. \A q \in PhotoId : link[q] # NoLink /\ ItemOf(q) = i => link[q].position # op[s].position
      BY <3>1 DEF Admits, Positions, Attached
    <3> HIDE DEF i, p
    <3> QED
      BY <2>0, <3>2, <3>3, <3>4, <3>5 DEF LinksApart, ItemOf
  <2>3. ASSUME NEW s \in Session, Unlink(s) PROVE LinksApart'
    BY <1>0, <2>1, <2>3 DEF Unlink
  <2>4. ASSUME NEW s \in Session, ClearPrimary(s) PROVE LinksApart'
    BY <1>0, <2>1, <2>4 DEF ClearPrimary, Attached, Link
  <2>5. ASSUME NEW s \in Session, MarkPrimary(s) PROVE LinksApart'
    <3>1. op[s].photo \in Attached(op[s].key[1]) /\ link' = [link EXCEPT ![op[s].photo].primary = TRUE]
      BY <1>2, <2>5 DEF MarkPrimary
    <3> QED
      BY <1>0, <2>1, <3>1 DEF Attached, Link
  <2>6. ASSUME NEW s \in Session, Reorder(s) PROVE LinksApart'
    <3> DEFINE i == op[s].key[1]  p == op[s].order[op[s].position + 1]
    <3>1. Updates(s, p, i)
      BY <1>2, <2>6, ReorderWrites
    <3> HIDE DEF i, p
    <3>2. p \in PhotoId /\ link[p] # NoLink /\ ItemOf(p) = i
      BY <3>1 DEF Updates, Attached
    <3>3. link'[p].position = Target(op[s]) /\ \A q \in PhotoId \ {p} : link'[q] = link[q]
      BY <1>0, <3>1, <3>2 DEF Updates, Link
    <3>4. \A q \in PhotoId \ {p} : link[q] # NoLink /\ ItemOf(q) = i => link[q].position # Target(op[s])
      BY <3>1 DEF Updates, Attached
    <3> QED
      BY <2>0, <3>2, <3>3, <3>4 DEF LinksApart, ItemOf
  <2>7. ASSUME NEW i \in Item, DeleteItem(i) PROVE LinksApart'
    BY <1>0, <2>1, <2>7 DEF DeleteItem
  <2> QED
    BY <1>2, <2>2, <2>3, <2>4, <2>5, <2>6, <2>7, LinkWriters
<1> QED
  BY <1>1, <1>2 DEF vars

LEMMA AttachedIsRealNext ==
  ASSUME TypeOK, WorkNames, AttachedIsReal, [Next]_vars
  PROVE  AttachedIsReal'
<1>0. link \in [PhotoId -> Link] /\ \A s \in Session : op[s] \in Work /\ Named(op[s], photo)
  BY DEF TypeOK, WorkNames
<1>1. ASSUME \A i \in Item : item[i] = "there" => item'[i] = "there", link' = link
      PROVE  AttachedIsReal'
  <2>1. SUFFICES ASSUME NEW p \in PhotoId, link'[p] # NoLink
                 PROVE  photo'[p] # NoPhoto /\ item'[photo'[p].key[1]] = "there"
    BY DEF AttachedIsReal, ItemOf
  <2>2. link[p] # NoLink
    BY <1>1, <2>1
  <2>3. item[photo[p].key[1]] = "there" /\ photo[p].key \in Key
    BY <2>2, AttachedRow DEF AttachedIsReal, ItemOf
  <2>4. photo[p].key[1] \in Item
    BY <2>3 DEF Key
  <2> QED
    BY <1>1, <2>2, <2>3, <2>4, AttachedRowStays
<1>2. ASSUME Next PROVE \/ \E i \in Item : DeleteItem(i)
                        \/ \A i \in Item : item[i] = "there" => item'[i] = "there"
  <2>1. UNCHANGED item \/ \E i \in Item : CreateItem(i) \/ DeleteItem(i)
    BY <1>2 DEF Next, Uploads, Deletes, Arranges, Backfills, Stop, Upload, PutFull, FindByStorageRef,
                TryGenerateThumbnail, CreateRow, ListByItem, AttachToItem, Delete, Unlink,
                DeleteRow, DropThumb, DropFull, SetPrimary, ClearPrimary, MarkPrimary, Move,
                Reorder, ListMissingThumbnail, OpenFull, PutThumb, SetThumbnailRef
  <2> QED
    BY <2>1 DEF CreateItem, TypeOK
<1>3. ASSUME NEW i \in Item, DeleteItem(i) PROVE AttachedIsReal'
  <2>1. photo' = photo /\ item' = [item EXCEPT ![i] = "deleted"]
        /\ link' = [p \in PhotoId |-> IF p \in Attached(i) THEN NoLink ELSE link[p]]
    BY <1>3 DEF DeleteItem
  <2>2. SUFFICES ASSUME NEW p \in PhotoId, link'[p] # NoLink
                 PROVE  photo[p] # NoPhoto /\ item'[photo[p].key[1]] = "there"
    BY <2>1 DEF AttachedIsReal, ItemOf
  <2>3. link[p] # NoLink /\ photo[p].key[1] # i
    BY <2>1, <2>2 DEF Attached, ItemOf
  <2> QED
    BY <2>1, <2>3 DEF AttachedIsReal, ItemOf, TypeOK
<1>4. ASSUME Next, link' # link, ~\E i \in Item : DeleteItem(i) PROVE AttachedIsReal'
  <2>0. photo' = photo /\ \A i \in Item : item[i] = "there" => item'[i] = "there"
    BY <1>2, <1>4, LinkWritersKeep
  <2>1. ASSUME \A p \in PhotoId : link'[p] # NoLink => link[p] # NoLink PROVE AttachedIsReal'
    <3>1. SUFFICES ASSUME NEW p \in PhotoId, link[p] # NoLink
                   PROVE  photo[p] # NoPhoto /\ item'[photo[p].key[1]] = "there"
      BY <2>0, <2>1 DEF AttachedIsReal, ItemOf
    <3>2. photo[p] # NoPhoto /\ photo[p].key \in Key /\ item[photo[p].key[1]] = "there"
      BY <3>1, AttachedRow DEF AttachedIsReal, ItemOf
    <3> QED
      BY <2>0, <3>2 DEF Key
  <2>2. ASSUME NEW s \in Session, AttachToItem(s) PROVE AttachedIsReal'
    <3> DEFINE i == op[s].key[1]  q == op[s].photo
    <3>1. /\ op[s].step = "attach" /\ item[i] = "there" /\ photo[q] # NoPhoto /\ item' = item
          /\ \E l \in Link : link' = [link EXCEPT ![q] = l]
      <4>1. op[s].position \in Nat
        BY <1>0 DEF Work
      <4>2. [position |-> op[s].position, primary |-> op[s].position = 0] \in Link
        BY <4>1 DEF Link
      <4> QED
        BY <1>4, <2>2, <4>2 DEF AttachToItem
    <3>2. q \in PhotoId /\ photo[q].key = op[s].key
      BY <1>0, <3>1 DEF Named, Naming
    <3>3. \A p \in PhotoId \ {q} : link'[p] = link[p]
      BY <1>0, <3>1
    <3> HIDE DEF q
    <3> QED
      BY <2>0, <3>1, <3>2, <3>3 DEF AttachedIsReal, ItemOf
  <2>3. ASSUME NEW s \in Session, Unlink(s) PROVE AttachedIsReal'
    BY <1>0, <2>1, <2>3 DEF Unlink
  <2>4. ASSUME NEW s \in Session, ClearPrimary(s) PROVE AttachedIsReal'
    BY <1>0, <2>1, <2>4 DEF ClearPrimary, Attached
  <2>5. ASSUME NEW s \in Session, MarkPrimary(s) PROVE AttachedIsReal'
    <3>1. op[s].photo \in Attached(op[s].key[1]) /\ link' = [link EXCEPT ![op[s].photo].primary = TRUE]
      BY <1>4, <2>5 DEF MarkPrimary
    <3> QED
      BY <1>0, <2>1, <3>1 DEF Attached
  <2>6. ASSUME NEW s \in Session, Reorder(s) PROVE AttachedIsReal'
    <3> DEFINE q == op[s].order[op[s].position + 1]
    <3>1. Updates(s, q, op[s].key[1])
      BY <1>4, <2>6, ReorderWrites
    <3> HIDE DEF q
    <3> QED
      BY <1>0, <2>1, <3>1 DEF Updates, Attached
  <2> QED
    BY <1>4, <2>2, <2>3, <2>4, <2>5, <2>6, LinkWriters
<1>5. CASE UNCHANGED vars
  BY <1>5 DEF vars, AttachedIsReal, ItemOf
<1> QED
  BY <1>1, <1>2, <1>3, <1>4, <1>5
-----------------------------------------------------------------------------
(* Bytes. *)

Acts(s) == Uploads(s) \/ Deletes(s) \/ Arranges(s) \/ Backfills(s) \/ Stop(s)

\* A session's work is changed by its own steps only.
LEMMA OwnStepsOnly ==
  ASSUME TypeOK, WorkNames, RowsFinite, AttachedIsReal, LinksApart, [Next]_vars, NEW t \in Session
  PROVE  Same(op'[t], op[t]) \/ Acts(t)
<1>1. ASSUME NEW s \in Session, GoesNamed(s), Acts(s) PROVE Same(op'[t], op[t]) \/ Acts(t)
  BY <1>1 DEF GoesNamed, Goes
<1>2. CASE UNCHANGED op
  BY <1>2 DEF Same
<1>3. ASSUME NEW i \in Item, DeleteItem(i) PROVE Same(op'[t], op[t])
  BY <1>3, ItemGone
<1>4. ASSUME NEW i \in Item, CreateItem(i) PROVE UNCHANGED op
  BY <1>4 DEF CreateItem
<1>5. ASSUME NEW s \in Session, Stop(s) PROVE GoesNamed(s)
  BY <1>5, GoesIdle DEF Stop
<1> QED
  BY <1>1, <1>2, <1>3, <1>4, <1>5, UploadWork, DeleteWork, ArrangeWork, BackfillWork DEF Next, vars, Acts

\* Which of its steps brings a session where it holds or removes bytes.
LEMMA WaysIn ==
  ASSUME TypeOK, NEW s \in Session, Acts(s)
  PROVE  /\ op'[s].step \in {"find", "thumbnail", "insert"} =>
              PutFull(s) \/ FindByStorageRef(s) \/ \E made \in BOOLEAN : TryGenerateThumbnail(s, made)
         /\ op'[s].step \in {"drop thumb", "drop full"} => DeleteRow(s) \/ DropThumb(s)
         /\ op'[s].step = "set thumb" => PutThumb(s)
         /\ op'[s].step \in MoveStep =>
              Reorder(s) \/ \E p \in PhotoId, up \in BOOLEAN : Move(s, p, up)
<1>0. op \in [Session -> Work] /\ op[s] \in Work
  BY DEF TypeOK
<1>1. ASSUME NEW work, Proceeds(s, work) \/ \E i : Disturbs(s, work, i) PROVE op'[s] = work
  BY <1>0, <1>1 DEF Proceeds, Disturbs
<1>2. Idle.step = "idle" /\ \A step : [Idle EXCEPT !.step = step].step = step
                                  /\ [op[s] EXCEPT !.step = step].step = step
  BY <1>0 DEF Idle, Work
<1>3. ASSUME Proceeds(s, Idle) \/ \E i : Disturbs(s, Idle, i) PROVE op'[s].step = "idle"
  BY <1>1, <1>2, <1>3
<1>4. CASE Uploads(s)
  <2>1. ASSUME NEW i \in Item, NEW c \in Content, Upload(s, i, c) PROVE op'[s].step = "put"
    <3>1. op'[s] = [Idle EXCEPT !.step = "put", !.key = <<i, c>>]
      BY <1>1, <2>1 DEF Upload
    <3> QED
      BY <3>1 DEF Idle
  <2>2. ASSUME NEW p \in PhotoId, CreateRow(s, p) PROVE op'[s].step \in {"list", "idle"}
    <3>1. op'[s].step = "idle" \/ op'[s] = [op[s] EXCEPT !.step = "list", !.photo = p]
      BY <1>1, <1>3, <2>2 DEF CreateRow
    <3> QED
      BY <1>0, <3>1 DEF Work
  <2>3. ASSUME ListByItem(s) PROVE op'[s].step = "attach"
    <3>1. op'[s] = [op[s] EXCEPT !.step = "attach", !.position = Cardinality(Attached(op[s].key[1]))]
      BY <1>1, <2>3 DEF ListByItem
    <3> QED
      BY <1>0, <3>1 DEF Work
  <2>4. ASSUME AttachToItem(s) PROVE op'[s].step = "idle"
    BY <1>3, <2>4 DEF AttachToItem
  <2>5. ASSUME PutFull(s) PROVE op'[s].step = "find"
    <3>1. op'[s] = [op[s] EXCEPT !.step = "find", !.raced = Deleting(op[s].key) # {}]
      BY <1>1, <2>5 DEF PutFull
    <3> QED
      BY <1>0, <3>1 DEF Work
  <2>6. ASSUME FindByStorageRef(s) PROVE op'[s].step \in {"thumbnail", "idle"}
    BY <1>1, <1>2, <2>6 DEF FindByStorageRef
  <2>7. ASSUME NEW made \in BOOLEAN, TryGenerateThumbnail(s, made) PROVE op'[s].step = "insert"
    <3>1. op'[s] = [op[s] EXCEPT !.step = "insert", !.thumb = made]
      BY <1>1, <2>7 DEF TryGenerateThumbnail
    <3> QED
      BY <1>0, <3>1 DEF Work
  <2> QED
    BY <1>4, <2>1, <2>2, <2>3, <2>4, <2>5, <2>6, <2>7 DEF Uploads, MoveStep
<1>5. CASE Deletes(s)
  <2>1. ASSUME NEW p \in PhotoId, Delete(s, p) PROVE op'[s].step = "unlink"
    <3>1. op'[s] = [Idle EXCEPT !.step = "unlink", !.key = photo[p].key, !.photo = p, !.thumb = photo[p].thumb]
      BY <1>1, <2>1 DEF Delete
    <3> QED
      BY <3>1 DEF Idle
  <2>2. ASSUME Unlink(s) PROVE op'[s].step = "delete row"
    BY <1>1, <1>2, <2>2 DEF Unlink
  <2>3. ASSUME DropThumb(s) PROVE op'[s].step = "drop full"
    BY <1>1, <1>2, <2>3 DEF DropThumb
  <2>4. ASSUME DropFull(s) PROVE op'[s].step = "idle"
    BY <1>3, <2>4 DEF DropFull
  <2>5. ASSUME DeleteRow(s) PROVE op'[s].step \in {"idle", "drop thumb", "drop full"}
    <3>1. Proceeds(s, Idle) \/ DropBytes(s)
      BY <2>5 DEF DeleteRow
    <3>2. ASSUME DropBytes(s) PROVE op'[s].step = FirstBlob(op[s])
      BY <1>2, <3>2 DEF DropBytes
    <3> QED
      BY <1>3, <3>1, <3>2 DEF FirstBlob
  <2> QED
    BY <1>5, <2>1, <2>2, <2>3, <2>4, <2>5 DEF Deletes, MoveStep
<1>6. CASE Arranges(s)
  <2>1. ASSUME NEW p \in PhotoId, SetPrimary(s, p) PROVE op'[s].step = "clear"
    <3>1. op'[s] = [Idle EXCEPT !.step = "clear", !.key = photo[p].key, !.photo = p]
      BY <1>1, <2>1 DEF SetPrimary
    <3> QED
      BY <3>1 DEF Idle
  <2>2. ASSUME NEW p \in PhotoId, NEW up \in BOOLEAN, Move(s, p, up) PROVE op'[s].step = "stage"
    <3>1. op'[s] = [Idle EXCEPT !.step = "stage", !.key = photo[p].key, !.calm = Dense(ItemOf(p)),
                                !.order = MoveOrder(InOrder(ItemOf(p)), p, up)]
      BY <1>1, <2>2 DEF Move
    <3> QED
      BY <3>1 DEF Idle
  <2>3. ASSUME ClearPrimary(s) PROVE op'[s].step = "set"
    BY <1>1, <1>2, <2>3 DEF ClearPrimary
  <2>4. ASSUME MarkPrimary(s) PROVE op'[s].step = "idle"
    BY <1>3, <2>4 DEF MarkPrimary
  <2>5. ASSUME Reorder(s) PROVE op'[s].step \in MoveStep \cup {"idle"}
    <3>1. op[s].step \in MoveStep /\ (op'[s].step = "idle" \/ op'[s] = NextUpdate(op[s]))
      BY <1>1, <1>3, <2>5 DEF Reorder
    <3>2. NextUpdate(op[s]).step \in MoveStep \cup {"idle"}
      BY <1>0, <1>2, <3>1 DEF NextUpdate, Work, MoveStep
    <3> QED
      BY <3>1, <3>2
  <2> QED
    BY <1>6, <2>1, <2>2, <2>3, <2>4, <2>5 DEF Arranges, MoveStep
<1>7. CASE Backfills(s)
  <2>1. ASSUME NEW p \in PhotoId, ListMissingThumbnail(s, p) PROVE op'[s].step = "open"
    <3>1. op'[s] = [Idle EXCEPT !.step = "open", !.key = photo[p].key, !.photo = p]
      BY <1>1, <2>1 DEF ListMissingThumbnail
    <3> QED
      BY <3>1 DEF Idle
  <2>2. ASSUME OpenFull(s) PROVE op'[s].step \in {"put thumb", "idle"}
    BY <1>1, <1>2, <2>2 DEF OpenFull
  <2>3. ASSUME PutThumb(s) PROVE op'[s].step = "set thumb"
    BY <1>1, <1>2, <2>3 DEF PutThumb
  <2>4. ASSUME SetThumbnailRef(s) PROVE op'[s].step = "idle"
    BY <1>3, <2>4 DEF SetThumbnailRef
  <2> QED
    BY <1>7, <2>1, <2>2, <2>3, <2>4 DEF Backfills, MoveStep
<1>8. CASE Stop(s)
  BY <1>3, <1>8 DEF Stop, MoveStep
<1> QED
  BY <1>4, <1>5, <1>6, <1>7, <1>8 DEF Acts
\* Another's deletion comes to the bytes of a key only by deleting its row, and
\* then every upload of the key that has put its bytes is told.
Removes(work, k) == work.step \in {"drop thumb", "drop full"} /\ work.key = k

LEMMA RemovalsNext ==
  ASSUME TypeOK, WorkNames, RowsFinite, AttachedIsReal, LinksApart, [Next]_vars,
         NEW t \in Session, NEW k, Removes(op'[t], k)
  PROVE  \/ t \in Deleting(k)
         \/ /\ DeleteRow(t) /\ DropBytes(t) /\ op[t].key = k /\ op[t].step = "delete row"
            /\ photo[op[t].photo] # NoPhoto /\ photo' = [photo EXCEPT ![op[t].photo] = NoPhoto]
<1>0. op \in [Session -> Work] /\ op[t] \in Work
  BY DEF TypeOK
<1>1. CASE Same(op'[t], op[t])
  BY <1>1 DEF Same, Removes, Deleting
<1>2. CASE DropThumb(t)
  <2>1. op[t].step = "drop thumb" /\ op'[t] = [op[t] EXCEPT !.step = "drop full"]
    BY <1>0, <1>2 DEF DropThumb, Proceeds
  <2>2. op'[t].key = op[t].key
    BY <1>0, <2>1 DEF Work
  <2> QED
    BY <2>1, <2>2 DEF Removes, Deleting
<1>3. CASE DeleteRow(t)
  <2>1. CASE Proceeds(t, Idle)
    <3>1. op'[t] = Idle
      BY <1>0, <2>1 DEF Proceeds
    <3>2. Idle.step = "idle"
      BY DEF Idle
    <3>3. op'[t].step = "idle"
      BY <3>1, <3>2
    <3> QED
      BY <3>3 DEF Removes
  <2>2. CASE ~Proceeds(t, Idle)
    <3>1. /\ op[t].step = "delete row" /\ DropBytes(t) /\ photo[op[t].photo] # NoPhoto
          /\ photo' = [photo EXCEPT ![op[t].photo] = NoPhoto]
      BY <1>3, <2>2 DEF DeleteRow
    <3>2. op'[t] = [op[t] EXCEPT !.step = FirstBlob(op[t])]
      BY <3>1 DEF DropBytes
    <3>3. op'[t].key = op[t].key
      BY <1>0, <3>2 DEF Work
    <3> QED
      BY <1>3, <3>1, <3>3 DEF Removes
  <2> QED
    BY <2>1, <2>2
<1>4. CASE Acts(t) /\ ~DropThumb(t) /\ ~DeleteRow(t)
  BY <1>4, WaysIn DEF Removes
<1> QED
  BY <1>1, <1>2, <1>3, <1>4, OwnStepsOnly

\* Bytes that nobody removes stay.
LEMMA BytesStay ==
  ASSUME [Next]_vars, NEW k, NEW variant \in Variant, <<k, variant>> \in blobs, Deleting(k) = {}
  PROVE  <<k, variant>> \in blobs'
<1>1. CASE UNCHANGED blobs
  BY <1>1
<1>2. ASSUME NEW s \in Session, PutFull(s) \/ PutThumb(s) \/ \E made \in BOOLEAN : TryGenerateThumbnail(s, made)
      PROVE  blobs \subseteq blobs'
  BY <1>2 DEF PutFull, PutThumb, TryGenerateThumbnail
<1>3. ASSUME NEW s \in Session, DropThumb(s) \/ DropFull(s) PROVE <<k, variant>> \in blobs'
  <2>1. op[s].key # k
    BY <1>3 DEF DropThumb, DropFull, Deleting
  <2> QED
    BY <1>3, <2>1 DEF DropThumb, DropFull
<1> QED
  BY <1>1, <1>2, <1>3, BlobWriters DEF vars

LEMMA UploadsHoldNext ==
  ASSUME TypeOK, WorkNames, RowsFinite, AttachedIsReal, LinksApart, UploadsHoldBytes, [Next]_vars
  PROVE  UploadsHoldBytes'
<1> DEFINE Putting == {"find", "thumbnail", "insert"}
           Full(k) == <<k, "full">> \in blobs'
           Thumb(k) == <<k, "thumb">> \in blobs'
           Quiet(k) == \A u \in Session : ~Removes(op'[u], k)
<1>0. op \in [Session -> Work] /\ \A t \in Session : op[t] \in Work
  BY DEF TypeOK
<1>1. SUFFICES ASSUME NEW t \in Session, op'[t].step \in Putting, ~op'[t].raced
               PROVE  /\ Full(op'[t].key) /\ Quiet(op'[t].key)
                      /\ op'[t].step = "insert" /\ op'[t].thumb => Thumb(op'[t].key)
  BY DEF UploadsHoldBytes, Deleting, Removes
<1>2. CASE Same(op'[t], op[t])
  <2> DEFINE k == op[t].key
  <2>1. op[t].step \in Putting /\ ~op[t].raced /\ op'[t].key = k /\ op'[t].thumb = op[t].thumb
        /\ op'[t].step = op[t].step
    BY <1>1, <1>2 DEF Same
  <2>2. /\ <<k, "full">> \in blobs /\ Deleting(k) = {}
        /\ op[t].step = "insert" /\ op[t].thumb => <<k, "thumb">> \in blobs
    BY <2>1 DEF UploadsHoldBytes
  <2>3. ASSUME NEW u \in Session, Removes(op'[u], k) PROVE FALSE
    <3>1. DropBytes(u) /\ op[u].key = k /\ op[u].step = "delete row"
      BY <2>2, <2>3, RemovalsNext
    <3>2. u # t /\ Uploading(t, op[u].key)
      BY <2>1, <3>1 DEF Uploading
    <3>3. op'[t] = [op[t] EXCEPT !.raced = op[t].raced \/ Uploading(t, op[u].key)]
      BY <3>1, <3>2 DEF DropBytes
    <3>4. op'[t].raced
      BY <1>0, <3>2, <3>3 DEF Work
    <3> QED
      BY <1>1, <3>4
  <2>4. Full(k) /\ (op[t].step = "insert" /\ op[t].thumb => Thumb(k))
    BY <2>2, BytesStay DEF Variant
  <2> HIDE DEF k
  <2> QED
    BY <2>1, <2>3, <2>4
<1>3. ASSUME NEW work, Proceeds(t, work), NEW k, ~Removes(work, k), Deleting(k) = {} PROVE Quiet(k)
  <2> SUFFICES ASSUME NEW u \in Session PROVE ~Removes(op'[u], k)
    OBVIOUS
  <2>1. CASE u = t
    BY <1>0, <1>3, <2>1 DEF Proceeds
  <2>2. CASE u # t
    BY <1>0, <1>3, <2>2 DEF Proceeds, Deleting, Removes
  <2> QED
    BY <2>1, <2>2
<1>4. CASE PutFull(t)
  <2> DEFINE work == [op[t] EXCEPT !.step = "find", !.raced = Deleting(op[t].key) # {}]
  <2>1. Proceeds(t, work) /\ blobs' = blobs \cup {<<op[t].key, "full">>}
    BY <1>4 DEF PutFull
  <2>2. op'[t] = work /\ work.step = "find" /\ work.key = op[t].key /\ work.raced = (Deleting(op[t].key) # {})
    BY <1>0, <2>1 DEF Proceeds, Work
  <2> HIDE DEF work
  <2>3. Deleting(op[t].key) = {}
    BY <1>1, <2>2
  <2>4. Quiet(op[t].key)
    BY <1>3, <2>1, <2>2, <2>3 DEF Removes
  <2> QED
    BY <2>1, <2>2, <2>4
<1>5. CASE FindByStorageRef(t)
  <2> DEFINE work == [op[t] EXCEPT !.step = "thumbnail"]
  <2>1. op[t].step = "find" /\ blobs' = blobs /\ (Proceeds(t, work) \/ Proceeds(t, Idle))
    BY <1>5 DEF FindByStorageRef
  <2>2. op'[t] # Idle
    BY <1>1 DEF Idle
  <2>3. Proceeds(t, work) /\ op'[t] = work
    BY <1>0, <2>1, <2>2 DEF Proceeds
  <2>4. work.step = "thumbnail" /\ work.key = op[t].key /\ work.raced = op[t].raced
    BY <1>0 DEF Work
  <2> HIDE DEF work
  <2>5. Full(op[t].key) /\ Deleting(op[t].key) = {}
    BY <1>1, <2>1, <2>3, <2>4 DEF UploadsHoldBytes
  <2>6. Quiet(op[t].key)
    BY <1>3, <2>3, <2>4, <2>5 DEF Removes
  <2> QED
    BY <2>3, <2>4, <2>5, <2>6
<1>6. ASSUME NEW made \in BOOLEAN, TryGenerateThumbnail(t, made)
      PROVE  /\ Full(op'[t].key) /\ Quiet(op'[t].key)
             /\ op'[t].step = "insert" /\ op'[t].thumb => Thumb(op'[t].key)
  <2> DEFINE work == [op[t] EXCEPT !.step = "insert", !.thumb = made]
  <2>1. /\ op[t].step = "thumbnail" /\ Proceeds(t, work)
        /\ blobs' = IF made THEN blobs \cup {<<op[t].key, "thumb">>} ELSE blobs
    BY <1>6 DEF TryGenerateThumbnail
  <2>2. op'[t] = work
    BY <1>0, <2>1 DEF Proceeds
  <2>3. work.step = "insert" /\ work.key = op[t].key /\ work.raced = op[t].raced /\ work.thumb = made
    BY <1>0 DEF Work
  <2> HIDE DEF work
  <2>4. <<op[t].key, "full">> \in blobs /\ Deleting(op[t].key) = {}
    BY <1>1, <2>1, <2>2, <2>3 DEF UploadsHoldBytes
  <2>5. Quiet(op[t].key)
    BY <1>3, <2>1, <2>3, <2>4 DEF Removes
  <2>6. Full(op[t].key) /\ (made => Thumb(op[t].key))
    BY <2>1, <2>4
  <2> QED
    BY <2>2, <2>3, <2>5, <2>6
<1>7. CASE Acts(t) /\ ~PutFull(t) /\ ~FindByStorageRef(t) /\ ~\E made \in BOOLEAN : TryGenerateThumbnail(t, made)
  BY <1>1, <1>7, WaysIn
<1> HIDE DEF Full, Thumb, Quiet
<1> QED
  BY <1>2, <1>4, <1>5, <1>6, <1>7, OwnStepsOnly
\* A row that its maker's upload has not raced a deletion for has its bytes, and
\* nobody removes them.
LEMMA NewRowHolds ==
  ASSUME TypeOK, WorkNames, UploadsHoldBytes,
         NEW s \in Session, NEW p \in PhotoId, CreateRow(s, p), ~Proceeds(s, Idle), p \notin rival'
  PROVE  /\ photo'[p].key = op[s].key /\ photo'[p].thumb = op[s].thumb
         /\ <<op[s].key, "full">> \in blobs' /\ (op[s].thumb => <<op[s].key, "thumb">> \in blobs')
         /\ \A u \in Session : ~Removes(op'[u], op[s].key)
<1>0. op \in [Session -> Work] /\ op[s] \in Work
  BY DEF TypeOK
<1> DEFINE work == [op[s] EXCEPT !.step = "list", !.photo = p]
<1>1. /\ op[s].step = "insert" /\ Proceeds(s, work) /\ blobs' = blobs
      /\ photo' = [photo EXCEPT ![p] = [key |-> op[s].key, thumb |-> op[s].thumb]]
      /\ rival' = IF op[s].raced THEN rival \cup {p} ELSE rival \ {p}
  BY DEF CreateRow
<1>2. ~op[s].raced
  BY <1>1
<1>3. /\ <<op[s].key, "full">> \in blobs /\ Deleting(op[s].key) = {}
      /\ op[s].thumb => <<op[s].key, "thumb">> \in blobs
  BY <1>1, <1>2 DEF UploadsHoldBytes
<1>4. work.step = "list"
  BY <1>0 DEF Work
<1> HIDE DEF work
<1>5. ASSUME NEW u \in Session PROVE ~Removes(op'[u], op[s].key)
  <2>1. CASE u = s
    BY <1>0, <1>1, <1>4, <2>1 DEF Proceeds, Removes
  <2>2. CASE u # s
    BY <1>0, <1>1, <1>3, <2>2 DEF Proceeds, Deleting, Removes
  <2> QED
    BY <2>1, <2>2
<1>6. photo'[p] = [key |-> op[s].key, thumb |-> op[s].thumb]
  BY <1>1 DEF TypeOK
<1> QED
  BY <1>1, <1>3, <1>5, <1>6

\* A row becomes a rival only as it is made.
LEMMA RivalsAreNew ==
  ASSUME [Next]_vars, NEW p \in PhotoId, ~Fresh(p)
  PROVE  p \in rival <=> p \in rival'
<1>1. CASE UNCHANGED rival
  BY <1>1
<1>2. ASSUME NEW s \in Session, NEW q \in PhotoId, Fresh(q), CreateRow(s, q)
      PROVE  p \in rival <=> p \in rival'
  BY <1>2 DEF CreateRow
<1>3. ASSUME NEW s \in Session, DeleteRow(s) \/ SetThumbnailRef(s) PROVE UNCHANGED rival
  BY <1>3 DEF DeleteRow, SetThumbnailRef
<1> QED
  BY <1>1, <1>2, <1>3, RowWriters DEF vars

\* An old row that is no rival was none.
LEMMA OldRow ==
  ASSUME TypeOK, WorkNames, [Next]_vars, NEW p \in PhotoId, photo'[p] # NoPhoto, p \notin rival'
  PROVE  \/ photo[p] # NoPhoto /\ photo'[p].key = photo[p].key /\ p \notin rival
         \/ \E s \in Session : CreateRow(s, p) /\ ~Proceeds(s, Idle)
<1>1. CASE photo[p] # NoPhoto /\ photo'[p].key = photo[p].key
  <2>1. ~Fresh(p)
    BY <1>1 DEF Fresh
  <2> QED
    BY <1>1, <2>1, RivalsAreNew
<1> QED
  BY <1>1, RowsKeepKeys

LEMMA RowsNotDeletingNext ==
  ASSUME Hung, [Next]_vars
  PROVE  RowsNotDeleting'
<1> USE DEF Hung
<1>1. SUFFICES ASSUME NEW p \in PhotoId, p \notin rival', photo'[p] # NoPhoto,
                      NEW u \in Session, Removes(op'[u], photo'[p].key)
               PROVE  FALSE
  BY DEF RowsNotDeleting, Deleting, Removes
<1>2. CASE photo[p] # NoPhoto /\ photo'[p].key = photo[p].key /\ p \notin rival
  <2> DEFINE k == photo[p].key
  <2>1. Deleting(k) = {} /\ Removes(op'[u], k)
    BY <1>1, <1>2 DEF RowsNotDeleting
  <2>2. /\ op[u].key = k /\ op[u].step = "delete row" /\ photo[op[u].photo] # NoPhoto
        /\ photo' = [photo EXCEPT ![op[u].photo] = NoPhoto]
    BY <2>1, RemovalsNext
  <2>3. op[u].photo \in PhotoId /\ photo[op[u].photo].key = k
    BY <2>2 DEF WorkNames, Named, Naming
  <2>4. op[u].photo = p
    BY <1>2, <2>2, <2>3 DEF KeysUnique
  <2> QED
    BY <1>1, <2>2, <2>4 DEF TypeOK
<1>3. ASSUME NEW s \in Session, CreateRow(s, p), ~Proceeds(s, Idle) PROVE FALSE
  <2>1. photo'[p].key = op[s].key
    BY <1>1, <1>3, NewRowHolds
  <2>2. ~Removes(op'[u], op[s].key)
    BY <1>1, <1>3, NewRowHolds
  <2> QED
    BY <1>1, <2>1, <2>2
<1> QED
  BY <1>1, <1>2, <1>3, OldRow

LEMMA BackfillHoldsNext ==
  ASSUME Hung, [Next]_vars
  PROVE  BackfillHoldsThumb'
<1> USE DEF Hung
<1>0. op \in [Session -> Work] /\ \A t \in Session : op[t] \in Work
  BY DEF TypeOK
<1>1. SUFFICES ASSUME NEW t \in Session, op'[t].step = "set thumb",
                      photo'[op'[t].photo] # NoPhoto, op'[t].photo \notin rival'
               PROVE  <<op'[t].key, "thumb">> \in blobs'
  BY DEF BackfillHoldsThumb
<1>2. CASE Same(op'[t], op[t])
  <2> DEFINE q == op[t].photo
  <2>1. op[t].step = "set thumb" /\ op'[t].photo = q /\ op'[t].key = op[t].key
    BY <1>1, <1>2 DEF Same
  <2>2. q \in PhotoId /\ ~Fresh(q)
    BY <2>1 DEF WorkNames, Named, Naming, Fresh
  <2>3. photo[q] # NoPhoto /\ q \notin rival
    <3>1. photo'[q] # NoPhoto /\ q \notin rival'
      BY <1>1, <2>1
    <3> QED
      BY <2>2, <3>1, RowsKeepKeys, RivalsAreNew
  <2>4. photo[q].key = op[t].key
    BY <2>2, <2>3 DEF WorkNames, Named
  <2>5. <<op[t].key, "thumb">> \in blobs /\ Deleting(op[t].key) = {}
    BY <2>1, <2>2, <2>3, <2>4 DEF BackfillHoldsThumb, RowsNotDeleting
  <2> QED
    BY <2>1, <2>5, BytesStay DEF Variant
<1>3. CASE PutThumb(t)
  <2>1. op'[t] = [op[t] EXCEPT !.step = "set thumb"] /\ blobs' = blobs \cup {<<op[t].key, "thumb">>}
    BY <1>0, <1>3 DEF PutThumb, Proceeds
  <2>2. op'[t].key = op[t].key
    BY <1>0, <2>1 DEF Work
  <2> QED
    BY <2>1, <2>2
<1>4. CASE Acts(t) /\ ~PutThumb(t)
  BY <1>1, <1>4, WaysIn
<1> QED
  BY <1>2, <1>3, <1>4, OwnStepsOnly

LEMMA BytesNext ==
  ASSUME Hung, [Next]_vars
  PROVE  BytesOutliveTheirRow'
<1> USE DEF Hung
<1> DEFINE Held(row, store) == /\ <<row.key, "full">> \in store
                               /\ row.thumb => <<row.key, "thumb">> \in store
<1>0. \A p \in PhotoId \ rival : photo[p] # NoPhoto => Held(photo[p], blobs)
  BY DEF BytesOutliveTheirRow, ResolveRef, Variant
<1>1. ASSUME NEW p \in PhotoId, p \notin rival', photo'[p] # NoPhoto
      PROVE  Held(photo'[p], blobs')
  <2>1. CASE photo[p] # NoPhoto /\ photo'[p].key = photo[p].key /\ p \notin rival
    <3> DEFINE k == photo[p].key
    <3>1. Deleting(k) = {}
      BY <2>1 DEF RowsNotDeleting
    <3>2. <<k, "full">> \in blobs /\ (photo[p].thumb => <<k, "thumb">> \in blobs)
      BY <1>0, <2>1
    <3>3. ASSUME photo'[p].thumb, ~photo[p].thumb PROVE <<k, "thumb">> \in blobs
      <4>1. photo'[p] # photo[p] /\ photo' # photo
        BY <3>3
      <4>2. ASSUME NEW s \in Session, NEW q \in PhotoId, Fresh(q), CreateRow(s, q) PROVE FALSE
        BY <2>1, <4>1, <4>2 DEF Fresh, CreateRow, TypeOK
      <4>3. ASSUME NEW s \in Session, DeleteRow(s) PROVE FALSE
        BY <1>1, <4>1, <4>3 DEF DeleteRow, TypeOK
      <4>4. PICK s \in Session : SetThumbnailRef(s)
        BY <4>1, <4>2, <4>3, RowWriters DEF vars
      <4>5. op[s].step = "set thumb" /\ photo' = [photo EXCEPT ![op[s].photo].thumb = TRUE]
        BY <4>1, <4>4 DEF SetThumbnailRef
      <4>6. op[s].photo = p
        BY <4>1, <4>5 DEF TypeOK
      <4>7. photo[p].key = op[s].key
        BY <2>1, <4>6 DEF WorkNames, Named
      <4> QED
        BY <2>1, <4>5, <4>6, <4>7 DEF BackfillHoldsThumb
    <3>4. <<k, "full">> \in blobs' /\ (photo'[p].thumb => <<k, "thumb">> \in blobs')
      BY <3>1, <3>2, <3>3, BytesStay DEF Variant
    <3> QED
      BY <2>1, <3>4
  <2>2. ASSUME NEW s \in Session, CreateRow(s, p), ~Proceeds(s, Idle) PROVE Held(photo'[p], blobs')
    <3>1. photo'[p].key = op[s].key /\ photo'[p].thumb = op[s].thumb
      BY <1>1, <2>2, NewRowHolds
    <3>2. <<op[s].key, "full">> \in blobs' /\ (op[s].thumb => <<op[s].key, "thumb">> \in blobs')
      BY <1>1, <2>2, NewRowHolds
    <3> QED
      BY <3>1, <3>2
  <2> QED
    BY <1>1, <2>1, <2>2, OldRow
<1> QED
  BY <1>1 DEF BytesOutliveTheirRow, ResolveRef, Variant

-----------------------------------------------------------------------------
LEMMA HungNext == Hung /\ [Next]_vars => Hung'
BY TypeNext, WorkNext, KeysNext, LinksApartNext, AttachedIsRealNext, UploadsHoldNext,
   RowsNotDeletingNext, BackfillHoldsNext, BytesNext DEF Hung

THEOREM HungAlways == Spec => []Hung
BY HungInit, HungNext, PTL DEF Spec

\* The rows, the store and the requests are well formed in every state, for any
\* number of items, photos and requests.
THEOREM GalleryTypes == Spec => []TypeOK
<1>1. Hung => TypeOK
  BY DEF Hung
<1> QED
  BY <1>1, HungAlways, PTL

\* A photo in a gallery has its row and its living item, whatever upload,
\* deletion of the photo and deletion of the item cross each other.
THEOREM AttachedPhotosAreReal == Spec => []AttachedIsReal
<1>1. Hung => AttachedIsReal
  BY DEF Hung
<1> QED
  BY <1>1, HungAlways, PTL

\* Every photo row whose upload met no deletion of its content has its bytes,
\* and its thumbnail, wherever deletions, uploads and the backfill stop.
THEOREM RowsHaveTheirBytes == Spec => []BytesOutliveTheirRow
<1>1. Hung => BytesOutliveTheirRow
  BY DEF Hung
<1> QED
  BY <1>1, HungAlways, PTL

-----------------------------------------------------------------------------
(* A reorder that nothing disturbs, for galleries of any size: the         *)
(* invariant of its two passes.                                            *)

\* The photo of place m, in the middle of a pass: the first pass puts it past
\* the last place, the second one brings it home.
Placed(work, l, m) ==
  LET n == Len(work.order)
      position == l[work.order[m]].position
  IN  IF work.step = "stage"
      THEN IF m <= work.position THEN position = n + m - 1 ELSE position < n
      ELSE IF m <= work.position THEN position = m - 1 ELSE position = n + m - 1

\* A calm reorder has every photo of the gallery, where its passes left it.
InPass(work, l, attached) ==
  /\ Enumerates(work.order, attached)
  /\ \A m \in 1..Len(work.order) : Placed(work, l, m)

CalmOrder ==
  \A t \in Session :
    op[t].step \in MoveStep /\ op[t].calm => InPass(op[t], link, Attached(op[t].key[1]))

LEMMA CalmInit == Init => CalmOrder
BY DEF Init, CalmOrder, Idle, MoveStep

-----------------------------------------------------------------------------
(* Others leave a calm reorder's gallery alone. *)

LEMMA Undisturbed ==
  ASSUME Hung, [Next]_vars, NEW t \in Session, Same(op'[t], op[t]),
         op[t].step \in MoveStep, op'[t].calm
  PROVE  LET i == op[t].key[1]
         IN  /\ \A p \in PhotoId : link'[p] # NoLink /\ photo'[p].key[1] = i <=> p \in Attached(i)
             /\ \A p \in Attached(i) : link'[p].position = link[p].position
<1> DEFINE i == op[t].key[1]
           Kept == /\ \A p \in PhotoId : link'[p] # NoLink /\ photo'[p].key[1] = i <=> p \in Attached(i)
                   /\ \A p \in Attached(i) : link'[p].position = link[p].position
<1>0. /\ TypeOK /\ link \in [PhotoId -> Link] /\ op \in [Session -> Work]
      /\ \A s \in Session : op[s] \in Work /\ Named(op[s], photo)
  BY DEF Hung, TypeOK, WorkNames
<1>1. \A p \in PhotoId : p \in Attached(i) <=> link[p] # NoLink /\ photo[p].key[1] = i
  BY DEF Attached, ItemOf
<1>2. CASE link' = link
  <2>1. \A p \in PhotoId : link[p] # NoLink => photo'[p].key = photo[p].key
    BY <1>0, AttachedRowStays DEF Hung
  <2> QED
    BY <1>1, <1>2, <2>1
<1>3. ASSUME Next, link' # link PROVE Kept
  <2>0. photo' = photo
    BY <1>3, LinkWritersKeep
  <2>1. ASSUME \A p \in PhotoId : \/ link'[p] = link[p]
                                  \/ /\ link[p] # NoLink /\ link'[p] # NoLink
                                     /\ link'[p].position = link[p].position
        PROVE  Kept
    <3>1. \A p \in PhotoId : link'[p] # NoLink <=> link[p] # NoLink
      BY <2>1
    <3>2. \A p \in PhotoId : link[p] # NoLink => link'[p].position = link[p].position
      BY <2>1
    <3>3. \A p \in Attached(i) : p \in PhotoId /\ link[p] # NoLink
      BY DEF Attached
    <3> QED
      BY <1>1, <2>0, <3>1, <3>2, <3>3
  <2>2. ASSUME \A p \in PhotoId : photo[p].key[1] = i => link'[p] = link[p]
        PROVE  Kept
    <3>1. \A p \in Attached(i) : p \in PhotoId /\ photo[p].key[1] = i
      BY DEF Attached, ItemOf
    <3> QED
      BY <1>1, <2>0, <2>2, <3>1
  <2>3. ASSUME NEW s \in Session, NEW work, NEW j, Disturbs(s, work, j), s # t PROVE j # i
    <3> DEFINE note == op[t].calm /\ i # j
    <3>1. op'[t] = [op[t] EXCEPT !.calm = note]
      BY <2>3 DEF Disturbs
    <3> HIDE DEF note
    <3>2. op'[t].calm = note
      BY <1>0, <3>1 DEF Work
    <3> QED
      BY <3>2 DEF note
  <2>4. ASSUME NEW s \in Session, AttachToItem(s) PROVE Kept
    <3> DEFINE q == op[s].photo
    <3>1. /\ op[s].step = "attach" /\ photo[q] # NoPhoto /\ Disturbs(s, Idle, op[s].key[1])
          /\ \E l \in Link : link' = [link EXCEPT ![q] = l]
      <4>1. op[s].position \in Nat
        BY <1>0 DEF Work
      <4>2. [position |-> op[s].position, primary |-> op[s].position = 0] \in Link
        BY <4>1 DEF Link
      <4> QED
        BY <1>3, <2>4, <4>2 DEF AttachToItem
    <3>2. s # t
      BY <3>1 DEF MoveStep
    <3>3. op[s].key[1] # i /\ q \in PhotoId /\ photo[q].key = op[s].key
      BY <1>0, <2>3, <3>1, <3>2 DEF Named, Naming
    <3>4. \A p \in PhotoId : p # q => link'[p] = link[p]
      BY <1>0, <3>1
    <3> HIDE DEF q
    <3> QED
      BY <2>2, <3>3, <3>4
  <2>5. ASSUME NEW s \in Session, Unlink(s) PROVE Kept
    <3> DEFINE q == op[s].photo
    <3>1. /\ op[s].step = "unlink" /\ Disturbs(s, [op[s] EXCEPT !.step = "delete row"], op[s].key[1])
          /\ link' = [link EXCEPT ![q] = NoLink]
      BY <2>5 DEF Unlink
    <3>2. s # t
      BY <3>1 DEF MoveStep
    <3>3. op[s].key[1] # i /\ q \in PhotoId
      BY <1>0, <2>3, <3>1, <3>2 DEF Named, Naming
    <3>4. link[q] # NoLink
      BY <1>0, <1>3, <3>1, <3>3
    <3>5. photo[q].key = op[s].key
      BY <1>0, <3>3, <3>4, AttachedRow DEF Named, Hung
    <3>6. \A p \in PhotoId : p # q => link'[p] = link[p]
      BY <1>0, <3>1
    <3> HIDE DEF q
    <3> QED
      BY <2>2, <3>3, <3>5, <3>6
  <2>6. \A p \in PhotoId, b \in BOOLEAN : link[p] # NoLink =>
           /\ [link[p] EXCEPT !.primary = b] # NoLink
           /\ [link[p] EXCEPT !.primary = b].position = link[p].position
    BY <1>0, GalleryAssumption DEF Link, NoLink
  <2>7. ASSUME NEW s \in Session, ClearPrimary(s) PROVE Kept
    <3>1. \A p \in PhotoId : link'[p] = link[p] \/ (link[p] # NoLink /\ link'[p] = [link[p] EXCEPT !.primary = FALSE])
      BY <2>7 DEF ClearPrimary, Attached
    <3> QED
      BY <2>1, <2>6, <3>1
  <2>8. ASSUME NEW s \in Session, MarkPrimary(s) PROVE Kept
    <3>1. op[s].photo \in Attached(op[s].key[1]) /\ link' = [link EXCEPT ![op[s].photo].primary = TRUE]
      BY <1>3, <2>8 DEF MarkPrimary
    <3>2. \A p \in PhotoId : link'[p] = link[p] \/ (link[p] # NoLink /\ link'[p] = [link[p] EXCEPT !.primary = TRUE])
      BY <1>0, <3>1 DEF Attached
    <3> QED
      BY <2>1, <2>6, <3>2
  <2>9. ASSUME NEW s \in Session, Reorder(s) PROVE Kept
    <3> DEFINE j == op[s].key[1]  q == op[s].order[op[s].position + 1]
    <3>1. Updates(s, q, j)
      BY <1>3, <2>9, ReorderWrites
    <3>2. q \in Attached(j) /\ \A r \in Attached(j) \ {q} : link[r].position # Target(op[s])
      BY <3>1 DEF Updates
    <3>3. op[s].step \in MoveStep /\ Disturbs(s, NextUpdate(op[s]), j)
      BY <1>3, <2>9, <3>2 DEF Reorder
    <3>4. s # t
      <4>1. SUFFICES ASSUME s = t PROVE FALSE
        OBVIOUS
      <4>2. op'[t] = NextUpdate(op[t])
        BY <3>3, <4>1 DEF Disturbs
      <4>3. op[t] \in Work /\ op[t].position \in Nat
        BY <1>0 DEF Work
      <4>4. NextUpdate(op[t]).step # op[t].step \/ NextUpdate(op[t]).position # op[t].position
        <5>1. Idle.step = "idle"
          BY DEF Idle
        <5> QED
          BY <4>3, <5>1 DEF NextUpdate, Work, MoveStep
      <4> QED
        BY <4>2, <4>4 DEF Same
    <3>5. j # i
      BY <2>3, <3>3, <3>4
    <3>6. link' = [link EXCEPT ![q].position = Target(op[s])] /\ ItemOf(q) = j
      BY <3>1 DEF Updates, Attached
    <3> HIDE DEF q, j
    <3>7. \A p \in PhotoId : p # q => link'[p] = link[p]
      BY <1>0, <3>6
    <3> QED
      BY <2>2, <3>5, <3>6, <3>7 DEF ItemOf
  <2>10. ASSUME NEW j \in Item, DeleteItem(j) PROVE Kept
    <3> DEFINE note == op[t].calm /\ i # j
    <3>1. op'[t] = [op[t] EXCEPT !.calm = note]
      BY <2>10 DEF DeleteItem
    <3> HIDE DEF note
    <3>2. op'[t].calm = note
      BY <1>0, <3>1 DEF Work
    <3>3. i # j
      BY <3>2 DEF note
    <3>4. \A p \in PhotoId : photo[p].key[1] = i => link'[p] = link[p]
      BY <2>10, <3>3 DEF DeleteItem, Attached, ItemOf
    <3> QED
      BY <2>2, <3>4
  <2> QED
    BY <1>3, <2>4, <2>5, <2>7, <2>8, <2>9, <2>10, LinkWriters
<1>4. CASE UNCHANGED vars
  BY <1>2, <1>4 DEF vars
<1> QED
  BY <1>2, <1>3, <1>4

-----------------------------------------------------------------------------
(* One UPDATE of a calm reorder. *)

\* A pass over work's list, in the middle of it.
Passing(work, l, attached) ==
  /\ work \in Work /\ work.step \in MoveStep /\ work.position < Len(work.order)
  /\ l \in [PhotoId -> Link] /\ attached \subseteq PhotoId /\ InPass(work, l, attached)
  /\ \A p \in attached : l[p] # NoLink

LEMMA PassNumbers ==
  ASSUME NEW work, NEW l, NEW attached, Passing(work, l, attached)
  PROVE  /\ Len(work.order) \in Nat /\ work.position \in Nat /\ work.position + 1 \in 1..Len(work.order)
         /\ DOMAIN work.order = 1..Len(work.order)
         /\ \A m \in 1..Len(work.order) :
              /\ work.order[m] \in attached /\ work.order[m] \in PhotoId
              /\ l[work.order[m]].position \in Nat
<1>1. work.order \in Seq(PhotoId) /\ work.position \in Nat
  BY DEF Passing, Work
<1>2. Len(work.order) \in Nat /\ DOMAIN work.order = 1..Len(work.order)
  BY <1>1
<1>3. \A m \in 1..Len(work.order) : work.order[m] \in attached /\ work.order[m] \in PhotoId
  BY <1>2 DEF Passing, InPass, Enumerates
<1>4. \A p \in attached : l[p].position \in Nat
  BY DEF Passing, Link
<1> QED
  BY <1>1, <1>2, <1>3, <1>4 DEF Passing

\* The place that an update is for is free.
LEMMA PlaceIsFree ==
  ASSUME NEW work, NEW l, NEW attached, Passing(work, l, attached)
  PROVE  \A q \in attached \ {work.order[work.position + 1]} : l[q].position # Target(work)
<1> DEFINE n == Len(work.order)  k == work.position  order == work.order
<1>0. /\ n \in Nat /\ k \in Nat /\ k + 1 \in 1..n /\ DOMAIN order = 1..n
      /\ \A m \in 1..n : l[order[m]].position \in Nat
  BY PassNumbers
<1>1. SUFFICES ASSUME NEW q \in attached, q # order[k + 1] PROVE l[q].position # Target(work)
  OBVIOUS
<1>2. PICK m \in 1..n : order[m] = q
  BY <1>0 DEF Passing, InPass, Enumerates
<1>3. m # k + 1 /\ Placed(work, l, m) /\ l[q].position \in Nat
  BY <1>0, <1>1, <1>2 DEF Passing, InPass
<1> HIDE DEF n, k, order
<1>4. CASE work.step = "stage"
  <2>1. Target(work) = k + n
    BY <1>4 DEF Target, n, k, order
  <2>2. IF m <= k THEN l[q].position = n + m - 1 ELSE l[q].position < n
    BY <1>2, <1>3, <1>4 DEF Placed, n, k, order
  <2> QED
    BY <1>0, <1>2, <1>3, <2>1, <2>2
<1>5. CASE work.step # "stage"
  <2>1. Target(work) = k
    BY <1>0, <1>5 DEF Target, k
  <2>2. IF m <= k THEN l[q].position = m - 1 ELSE l[q].position = n + m - 1
    BY <1>2, <1>3, <1>5 DEF Placed, n, k, order
  <2> QED
    BY <1>0, <1>2, <1>3, <2>1, <2>2
<1> QED
  BY <1>4, <1>5

\* After the update its photo is in its place, and the others are where they were.
LEMMA PassAdvances ==
  ASSUME NEW work, NEW l, NEW attached, Passing(work, l, attached), NEW m \in 1..Len(work.order)
  PROVE  LET after == [l EXCEPT ![work.order[work.position + 1]].position = Target(work)]
         IN  Placed([work EXCEPT !.position = work.position + 1], after, m)
<1> DEFINE n == Len(work.order)  k == work.position  order == work.order
           place == Target(work)
           after == [l EXCEPT ![order[k + 1]].position = place]
           next == [work EXCEPT !.position = k + 1]
<1>0. /\ n \in Nat /\ k \in Nat /\ k + 1 \in 1..n /\ DOMAIN order = 1..n
      /\ l[order[m]].position \in Nat
      /\ order[m] \in PhotoId /\ order[k + 1] \in PhotoId /\ order[k + 1] \in attached
  BY PassNumbers
<1>1. next.order = order /\ next.position = k + 1 /\ next.step = work.step
  BY DEF Passing, Work
<1>2. work.step \in {"stage", "finalize"} /\ l \in [PhotoId -> Link] /\ Placed(work, l, m)
  BY DEF Passing, MoveStep, InPass
<1>3. place = IF work.step = "stage" THEN k + n ELSE k
  BY <1>0 DEF Target
<1>4. l[order[k + 1]] # NoLink
  BY <1>0 DEF Passing
<1>5. m # k + 1 => order[m] # order[k + 1]
  BY <1>0 DEF Passing, InPass, Enumerates
<1> HIDE DEF n, k, order, place, next
<1>6. after[order[m]].position = IF m = k + 1 THEN place ELSE l[order[m]].position
  <2>1. l[order[k + 1]] \in [position : Nat, primary : BOOLEAN]
    BY <1>0, <1>2, <1>4 DEF Link
  <2>2. after[order[k + 1]] = [l[order[k + 1]] EXCEPT !.position = place]
    BY <1>0, <1>2
  <2>3. after[order[k + 1]].position = place
    BY <2>1, <2>2
  <2>4. m # k + 1 => after[order[m]] = l[order[m]]
    BY <1>0, <1>2, <1>5
  <2> HIDE DEF after
  <2> QED
    BY <2>3, <2>4
<1> HIDE DEF after
<1>7. IF work.step = "stage"
      THEN IF m <= k THEN l[order[m]].position = n + m - 1 ELSE l[order[m]].position < n
      ELSE IF m <= k THEN l[order[m]].position = m - 1 ELSE l[order[m]].position = n + m - 1
  BY <1>2 DEF Placed, n, k, order
<1>8. IF work.step = "stage"
      THEN IF m <= k + 1 THEN after[order[m]].position = n + m - 1 ELSE after[order[m]].position < n
      ELSE IF m <= k + 1 THEN after[order[m]].position = m - 1 ELSE after[order[m]].position = n + m - 1
  <2>1. m \in Nat
    BY <1>0 DEF n
  <2>2. CASE m <= k
    BY <1>0, <1>6, <1>7, <2>1, <2>2
  <2>3. CASE m = k + 1
    BY <1>0, <1>3, <1>6, <1>7, <2>1, <2>3
  <2>4. CASE m > k + 1
    BY <1>0, <1>6, <1>7, <2>1, <2>4
  <2> QED
    BY <1>0, <2>1, <2>2, <2>3, <2>4
<1>9. Placed(next, after, m)
  BY <1>1, <1>8 DEF Placed, n, order
<1> QED
  BY <1>9 DEF next, after, k, order, place

\* The last update of the first pass starts the second; that of the second one
\* ends the reorder, in the order that it was asked for.
LEMMA PassEnds ==
  ASSUME NEW work, NEW l, NEW attached, Passing(work, l, attached)
  PROVE  LET after == [l EXCEPT ![work.order[work.position + 1]].position = Target(work)]
         IN  /\ NextUpdate(work).step \in MoveStep => InPass(NextUpdate(work), after, attached)
             /\ NextUpdate(work) = Idle => Shows(after, work.order)
<1> DEFINE n == Len(work.order)  k == work.position  order == work.order
           after == [l EXCEPT ![order[k + 1]].position = Target(work)]
           next == [work EXCEPT !.position = k + 1]
<1>0. n \in Nat /\ k \in Nat /\ k + 1 \in 1..n /\ DOMAIN order = 1..n
  BY PassNumbers
<1>1. \A m \in 1..n : Placed(next, after, m)
  BY PassAdvances
<1>2. next.order = order /\ next.position = k + 1 /\ next.step = work.step /\ work.step \in MoveStep
  BY DEF Passing, Work
<1>3. Enumerates(order, attached)
  BY DEF Passing, InPass
<1> HIDE DEF after
<1>4. CASE k + 1 < n
  <2>1. NextUpdate(work) = next
    BY <1>4 DEF NextUpdate
  <2>2. next # Idle
    BY <1>2 DEF Idle, MoveStep
  <2> QED
    BY <1>1, <1>2, <1>3, <2>1, <2>2 DEF InPass, after
<1>5. CASE ~(k + 1 < n) /\ work.step = "stage"
  <2> DEFINE second == [work EXCEPT !.step = "finalize", !.position = 0]
  <2>1. NextUpdate(work) = second
    BY <1>5 DEF NextUpdate
  <2>2. second.step = "finalize" /\ second.position = 0 /\ second.order = order
    BY DEF Passing, Work
  <2>3. k + 1 = n
    BY <1>0, <1>5
  <2> HIDE DEF second
  <2>4. ASSUME NEW m \in 1..n PROVE Placed(second, after, m)
    <3>1. m \in Nat /\ m <= n /\ ~(m <= 0)
      BY <1>0
    <3>2. after[order[m]].position = n + m - 1
      BY <1>1, <1>2, <1>5, <2>3, <3>1 DEF Placed
    <3> QED
      BY <2>2, <3>1, <3>2 DEF Placed
  <2>5. second # Idle
    BY <2>2 DEF Idle
  <2> QED
    BY <1>3, <2>1, <2>2, <2>4, <2>5 DEF InPass, after
<1>6. CASE ~(k + 1 < n) /\ work.step # "stage"
  <2>1. NextUpdate(work) = Idle
    BY <1>6 DEF NextUpdate
  <2>2. k + 1 = n
    BY <1>0, <1>6
  <2>3. ASSUME NEW m \in 1..n PROVE after[order[m]].position = m - 1
    <3>1. m <= n
      BY <1>0
    <3> QED
      BY <1>1, <1>2, <1>6, <2>2, <3>1 DEF Placed
  <2>4. Shows(after, order)
    BY <1>0, <2>3 DEF Shows
  <2>5. Idle.step \notin MoveStep
    BY DEF Idle, MoveStep
  <2> QED
    BY <2>1, <2>4, <2>5 DEF after
<1> QED
  BY <1>4, <1>5, <1>6
-----------------------------------------------------------------------------
(* Steps. *)

LEMMA CalmIsPassing ==
  ASSUME Hung, CalmOrder, NEW t \in Session, op[t].step \in MoveStep, op[t].calm
  PROVE  Passing(op[t], link, Attached(op[t].key[1]))
<1>1. op[t] \in Work /\ Named(op[t], photo) /\ link \in [PhotoId -> Link]
  BY DEF Hung, TypeOK, WorkNames
<1>2. InPass(op[t], link, Attached(op[t].key[1]))
  BY DEF CalmOrder
<1> QED
  BY <1>1, <1>2 DEF Passing, Named, Attached

\* A calm reorder's UPDATE meets its photo, and no other photo in the way.
LEMMA CalmUpdate ==
  ASSUME Hung, CalmOrder, NEW t \in Session, Reorder(t), op[t].calm
  PROVE  LET p == op[t].order[op[t].position + 1]
             i == op[t].key[1]
         IN  /\ op[t].step \in MoveStep /\ Passing(op[t], link, Attached(i))
             /\ p \in Attached(i) /\ op'[t] = NextUpdate(op[t]) /\ photo' = photo
             /\ link' = [link EXCEPT ![p].position = Target(op[t])]
<1> DEFINE p == op[t].order[op[t].position + 1]
           i == op[t].key[1]
<1>1. op[t].step \in MoveStep /\ photo' = photo
  BY DEF Reorder
<1>2. Passing(op[t], link, Attached(i))
  BY <1>1, CalmIsPassing
<1>3. p \in Attached(i) /\ \A q \in Attached(i) \ {p} : link[q].position # Target(op[t])
  BY <1>2, PassNumbers, PlaceIsFree
<1>4. Disturbs(t, NextUpdate(op[t]), i) /\ link' = [link EXCEPT ![p].position = Target(op[t])]
  BY <1>3 DEF Reorder
<1>5. op'[t] = NextUpdate(op[t])
  BY <1>4 DEF Disturbs
<1> QED
  BY <1>1, <1>2, <1>3, <1>4, <1>5

\* What InPass says of a reorder depends on its list and its photos' places.
LEMMA PassDepends ==
  ASSUME NEW work, NEW next, NEW l, NEW after, NEW attached,
         Passing(work, l, attached), Same(next, work),
         \A p \in attached : after[p].position = l[p].position
  PROVE  InPass(next, after, attached)
<1>1. next.order = work.order /\ next.step = work.step /\ next.position = work.position
  BY DEF Same
<1>2. \A m \in 1..Len(work.order) :
        after[work.order[m]].position = l[work.order[m]].position /\ Placed(work, l, m)
  BY PassNumbers DEF Passing, InPass
<1>3. \A m \in 1..Len(work.order) : Placed(next, after, m)
  BY <1>1, <1>2 DEF Placed
<1> QED
  BY <1>1, <1>3 DEF Passing, InPass

\* A reorder starts calm when its gallery has no gaps.
LEMMA CalmStart ==
  ASSUME Hung, NEW t \in Session, NEW p \in PhotoId, NEW up \in BOOLEAN, Move(t, p, up), op'[t].calm
  PROVE  /\ op'[t].key = photo[p].key /\ link' = link /\ photo' = photo
         /\ InPass(op'[t], link, Attached(ItemOf(p)))
<1> DEFINE i == ItemOf(p)
           n == Cardinality(Attached(i))
           order == MoveOrder(InOrder(i), p, up)
           work == [Idle EXCEPT !.step = "stage", !.key = photo[p].key, !.calm = Dense(i),
                                !.order = order]
<1>0. TypeOK /\ RowsFinite /\ AttachedIsReal /\ LinksApart
  BY DEF Hung
<1>1. Proceeds(t, work) /\ link[p] # NoLink /\ link' = link /\ photo' = photo
  BY DEF Move, Viewable
<1>2. op'[t] = work
  BY <1>0, <1>1 DEF Proceeds, TypeOK
<1>3. p \in Attached(i) /\ n \in Nat /\ Attached(i) \subseteq PhotoId
  BY <1>0, <1>1, AttachedCounted DEF Attached
<1>4. order \in [1..n -> Attached(i)] /\ Enumerates(order, Attached(i))
  BY <1>0, <1>3, InOrderLists, MoveOrderLists
<1> HIDE DEF n, order
<1>5. work.step = "stage" /\ work.key = photo[p].key /\ work.order = order /\ work.position = 0
      /\ work.calm = Dense(i)
  BY DEF Idle
<1> HIDE DEF work
<1>6. Len(order) = n
  BY <1>3, <1>4
<1>7. \A q \in Attached(i) : link[q].position \in 0..(n - 1)
  <2>1. Positions(i) = 0..(n - 1)
    BY <1>2, <1>5 DEF Dense, n
  <2> QED
    BY <2>1 DEF Positions
<1>8. ASSUME NEW m \in 1..n PROVE Placed(work, link, m)
  <2>1. link[order[m]].position \in 0..(n - 1)
    BY <1>4, <1>7
  <2>2. link[order[m]].position < n /\ ~(m <= 0)
    BY <1>3, <2>1
  <2> QED
    BY <1>5, <1>6, <2>2 DEF Placed
<1> QED
  BY <1>1, <1>2, <1>4, <1>5, <1>6, <1>8 DEF InPass

LEMMA CalmNext ==
  ASSUME Hung, CalmOrder, [Next]_vars
  PROVE  CalmOrder'
<1> DEFINE After(i) == {p \in PhotoId : link'[p] # NoLink /\ photo'[p].key[1] = i}
<1>0. /\ TypeOK /\ WorkNames /\ RowsFinite /\ AttachedIsReal /\ LinksApart
      /\ op \in [Session -> Work] /\ link \in [PhotoId -> Link]
  BY DEF Hung, TypeOK
<1>1. SUFFICES ASSUME NEW t \in Session, op'[t].step \in MoveStep, op'[t].calm
               PROVE  InPass(op'[t], link', After(op'[t].key[1]))
  BY DEF CalmOrder, Attached, ItemOf
<1>2. CASE Same(op'[t], op[t])
  <2> DEFINE i == op[t].key[1]
  <2>1. op[t].step \in MoveStep /\ op[t].calm /\ op'[t].key[1] = i
    BY <1>1, <1>2 DEF Same
  <2>2. /\ \A p \in PhotoId : link'[p] # NoLink /\ photo'[p].key[1] = i <=> p \in Attached(i)
        /\ \A p \in Attached(i) : link'[p].position = link[p].position
    BY <1>1, <1>2, <2>1, Undisturbed
  <2>3. After(i) = Attached(i)
    BY <2>2 DEF Attached
  <2>4. Passing(op[t], link, Attached(i))
    BY <2>1, CalmIsPassing
  <2> HIDE DEF After
  <2>5. InPass(op'[t], link', Attached(i))
    BY <1>2, <2>2, <2>4, PassDepends
  <2> QED
    BY <2>1, <2>3, <2>5
<1>3. ASSUME NEW p \in PhotoId, NEW up \in BOOLEAN, Move(t, p, up)
      PROVE  InPass(op'[t], link', After(op'[t].key[1]))
  <2>1. /\ op'[t].key = photo[p].key /\ link' = link /\ photo' = photo
        /\ InPass(op'[t], link, Attached(ItemOf(p)))
    BY <1>1, <1>3, CalmStart
  <2>2. After(op'[t].key[1]) = Attached(ItemOf(p))
    BY <2>1 DEF Attached, ItemOf
  <2> QED
    BY <2>1, <2>2
<1>4. CASE Reorder(t)
  <2> DEFINE i == op[t].key[1]
             p == op[t].order[op[t].position + 1]
             after == [link EXCEPT ![p].position = Target(op[t])]
  <2>1. op[t].calm /\ op[t] \in Work /\ op'[t].key = op[t].key
    <3>0. op[t] \in Work
      BY <1>0
    <3>1. op'[t] = NextUpdate(op[t]) \/ op'[t] = Idle
      BY <1>0, <1>4 DEF Reorder, Proceeds, Disturbs
    <3>2. Idle.step = "idle" /\ Idle.calm = FALSE
      BY DEF Idle
    <3>3. /\ NextUpdate(op[t]).step \in MoveStep => NextUpdate(op[t]).key = op[t].key
          /\ NextUpdate(op[t]).calm => op[t].calm
      BY <3>0, <3>2 DEF NextUpdate, Work, MoveStep
    <3> QED
      BY <1>1, <3>0, <3>1, <3>2, <3>3 DEF MoveStep
  <2>2. /\ op[t].step \in MoveStep /\ Passing(op[t], link, Attached(i))
        /\ p \in Attached(i) /\ op'[t] = NextUpdate(op[t]) /\ photo' = photo /\ link' = after
    BY <1>4, <2>1, CalmUpdate
  <2>3. InPass(op'[t], link', Attached(i))
    BY <1>1, <2>2, PassEnds
  <2>4. \A q \in PhotoId : link'[q] # NoLink <=> link[q] # NoLink
    <3>1. link[p] # NoLink /\ p \in PhotoId
      BY <2>2 DEF Attached
    <3>2. Target(op[t]) \in Nat
      BY <2>1, <2>2 DEF Target, Work
    <3>3. \A q \in PhotoId : q # p => link'[q] = link[q]
      BY <1>0, <2>2
    <3> HIDE DEF p
    <3>4. link'[p] = [link[p] EXCEPT !.position = Target(op[t])]
      BY <1>0, <2>2, <3>1
    <3>5. link[p] \in [position : Nat, primary : BOOLEAN]
      BY <1>0, <3>1 DEF Link
    <3>6. link'[p].position \in Nat
      BY <3>2, <3>4, <3>5
    <3>7. link'[p] # NoLink
      BY <3>6, GalleryAssumption DEF NoLink
    <3> QED
      BY <3>1, <3>3, <3>7
  <2>5. After(i) = Attached(i)
    BY <2>2, <2>4 DEF Attached, ItemOf
  <2> QED
    BY <1>1, <2>1, <2>3, <2>5
<1> QED
  BY <1>0, <1>1, <1>2, <1>3, <1>4, OwnStepsOnly, WaysIn

LEMMA CalmAlways == Spec => []CalmOrder
BY CalmInit, CalmNext, HungAlways, PTL DEF Spec

\* A session in a reorder makes its next update, or stops.
LEMMA InAReorder ==
  ASSUME NEW s \in Session, Acts(s), op[s].step \in MoveStep
  PROVE  Reorder(s) \/ Stop(s)
<1>1. op[s] # Idle
  BY DEF Idle, MoveStep
<1> QED
  BY <1>1 DEF Acts, Uploads, Deletes, Arranges, Backfills, MoveStep, Upload, PutFull,
       FindByStorageRef, TryGenerateThumbnail, CreateRow, ListByItem, AttachToItem, Delete, Unlink,
       DeleteRow, DropThumb, DropFull, SetPrimary, ClearPrimary, MarkPrimary, Move,
       ListMissingThumbnail, OpenFull, PutThumb, SetThumbnailRef

\* A reorder of a gallery without gaps that nothing disturbs ends in the order
\* it was asked for: no update of its two passes meets the unique index on
\* positions, for a gallery of any size.
THEOREM CalmReordersSucceed == Spec => CalmReorderSucceeds
<1> DEFINE Ends(s) == op[s].step \in MoveStep /\ op[s].calm /\ op'[s] = Idle /\ faults' = faults
<1>1. ASSUME Hung, CalmOrder, [Next]_vars, NEW s \in Session, Ends(s)
      PROVE  Shows(link', op[s].order)
  <2>1. ~Same(op'[s], op[s])
    <3>1. Idle.step = "idle"
      BY DEF Idle
    <3> QED
      BY <1>1, <3>1 DEF Same, MoveStep
  <2>2. Acts(s) /\ faults \in Nat
    BY <1>1, <2>1, OwnStepsOnly, GalleryAssumption DEF Hung, TypeOK
  <2>3. ~Stop(s)
    BY <1>1, <2>2 DEF Stop
  <2>4. Reorder(s)
    BY <1>1, <2>2, <2>3, InAReorder
  <2>5. /\ Passing(op[s], link, Attached(op[s].key[1])) /\ op'[s] = NextUpdate(op[s])
        /\ link' = [link EXCEPT ![op[s].order[op[s].position + 1]].position = Target(op[s])]
    BY <1>1, <2>4, CalmUpdate
  <2> QED
    BY <1>1, <2>5, PassEnds
<1>2. Hung /\ CalmOrder /\ [Next]_vars => [\A s \in Session : Ends(s) => Shows(link', op[s].order)]_vars
  BY <1>1
<1> QED
  BY <1>2, HungAlways, CalmAlways, PTL DEF Spec, CalmReorderSucceeds
=============================================================================
