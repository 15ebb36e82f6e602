------------------------------ MODULE Gallery ------------------------------
(***************************************************************************)
(* The photos of items: internal/media's photo and item_photo rows, the    *)
(* bytes in the photo store, the requests that change them and the batch   *)
(* of cmd/backfill-thumbs.                                                 *)
(*                                                                         *)
(* Nothing here runs in a transaction: every statement commits by itself,  *)
(* and the store is a second system beside the database.  A session s is   *)
(* one request or batch; op[s] says which statement or store call it makes *)
(* next and what it read before.  It may stop before any of them: an       *)
(* error, a cancelled context, a dead process.                             *)
(*                                                                         *)
(* The key of a photo's bytes is the item and the hash of the content, so  *)
(* a photo uploaded twice to one item has one key.  Bytes are present or   *)
(* absent; a thumbnail may fail and is then NULL.                          *)
(***************************************************************************)
EXTENDS Naturals, Sequences, FiniteSets, Functions

CONSTANTS Item, Content, PhotoId, Session,
          None,        \* SQL NULL
          MaxFaults    \* bound: sessions that stop half-way

ASSUME GalleryAssumption ==
  /\ None \notin Item \cup Content \cup PhotoId \cup Nat /\ None \notin Item \X Content
  /\ MaxFaults \in Nat

VARIABLES item,    \* "unborn", "there" or "deleted"
          photo,   \* photo rows
          link,    \* item_photo rows; the item is the one of the photo's key
          blobs,   \* the objects in the photo store
          op,      \* what each session is doing
          rival,   \* rows made by an upload that crossed a deletion of its key
          faults
vars == <<item, photo, link, blobs, op, rival, faults>>

-----------------------------------------------------------------------------
(* Rows, objects and sessions. *)

\* storage_ref: the full object's key, which names the item.
Key == Item \X Content
Variant == {"full", "thumb"}

NoPhoto == [key |-> None, thumb |-> FALSE]
Photo == [key : Key, thumb : BOOLEAN] \cup {NoPhoto}

NoLink == [position |-> None, primary |-> FALSE]
Link == [position : Nat, primary : BOOLEAN] \cup {NoLink}

Idle == [step |-> "idle", key |-> None, photo |-> None, thumb |-> FALSE,
         position |-> 0, order |-> <<>>, raced |-> FALSE, calm |-> FALSE]

UploadStep == {"put", "find", "thumbnail", "insert", "list", "attach"}
DeleteStep == {"unlink", "delete row", "drop thumb", "drop full"}
MoveStep == {"stage", "finalize"}
BackfillStep == {"open", "put thumb", "set thumb"}
Step == UploadStep \cup DeleteStep \cup MoveStep \cup BackfillStep \cup {"clear", "set", "idle"}

Work == [step : Step, key : Key \cup {None}, photo : PhotoId \cup {None},
         thumb : BOOLEAN, position : Nat, order : Seq(PhotoId),
         raced : BOOLEAN, calm : BOOLEAN]

ItemOf(p) == photo[p].key[1]
Attached(i) == {p \in PhotoId : link[p] # NoLink /\ ItemOf(p) = i}
Positions(i) == {link[p].position : p \in Attached(i)}
Carrying(k) == {p \in PhotoId : photo[p] # NoPhoto /\ photo[p].key = k}

\* A thumbnail request falls back on the full image.
ResolveRef(p, variant) ==
  <<photo[p].key, IF variant = "thumb" /\ photo[p].thumb THEN "thumb" ELSE "full">>

\* Session s goes on.
Proceeds(s, work) == op' = [op EXCEPT ![s] = work]

\* Session s goes on and has changed item i's item_photo rows: a reorder of
\* the same photos is no longer alone.
Disturbs(s, work, i) ==
  op' = [t \in Session |->
           IF t = s THEN work
           ELSE [op[t] EXCEPT !.calm = @ /\ op[t].key[1] # i]]

-----------------------------------------------------------------------------
(* Upload. *)

\* The item is visible; the file is validated, scrubbed and hashed.
Upload(s, i, c) ==
  /\ op[s] = Idle /\ item[i] = "there"
  /\ Proceeds(s, [Idle EXCEPT !.step = "put", !.key = <<i, c>>])
  /\ UNCHANGED <<item, photo, link, blobs, rival, faults>>

\* Deletions of key k that have removed its row and not yet all of its bytes.
Deleting(k) == {t \in Session : op[t].step \in {"drop thumb", "drop full"} /\ op[t].key = k}

PutFull(s) ==
  /\ op[s].step = "put"
  /\ blobs' = blobs \cup {<<op[s].key, "full">>}
  /\ Proceeds(s, [op[s] EXCEPT !.step = "find", !.raced = Deleting(op[s].key) # {}])
  /\ UNCHANGED <<item, photo, link, rival, faults>>

\* A photo with this key answers the upload, attached or not.
FindByStorageRef(s) ==
  /\ op[s].step = "find"
  /\ Proceeds(s, IF Carrying(op[s].key) # {} THEN Idle ELSE [op[s] EXCEPT !.step = "thumbnail"])
  /\ UNCHANGED <<item, photo, link, blobs, rival, faults>>

\* A thumbnail that cannot be made or stored is left out.
TryGenerateThumbnail(s, made) ==
  /\ op[s].step = "thumbnail"
  /\ blobs' = IF made THEN blobs \cup {<<op[s].key, "thumb">>} ELSE blobs
  /\ Proceeds(s, [op[s] EXCEPT !.step = "insert", !.thumb = made])
  /\ UNCHANGED <<item, photo, link, rival, faults>>

Fresh(p) == photo[p] = NoPhoto /\ \A t \in Session : op[t].photo # p /\ p \notin Range(op[t].order)

\* storage_ref is UNIQUE: the loser of a race answers with the winner's row.
CreateRow(s, p) ==
  /\ op[s].step = "insert"
  /\ IF Carrying(op[s].key) # {}
     THEN Proceeds(s, Idle) /\ UNCHANGED <<photo, rival>>
     ELSE /\ photo' = [photo EXCEPT ![p] = [key |-> op[s].key, thumb |-> op[s].thumb]]
          /\ rival' = IF op[s].raced THEN rival \cup {p} ELSE rival \ {p}
          /\ Proceeds(s, [op[s] EXCEPT !.step = "list", !.photo = p])
  /\ UNCHANGED <<item, link, blobs, faults>>

ListByItem(s) ==
  /\ op[s].step = "list"
  /\ Proceeds(s, [op[s] EXCEPT !.step = "attach", !.position = Cardinality(Attached(op[s].key[1]))])
  /\ UNCHANGED <<item, photo, link, blobs, rival, faults>>

\* The unique indexes of item_photo: one photo per position, one primary.
Admits(i, position, primary) ==
  /\ position \notin Positions(i)
  /\ primary => \A p \in Attached(i) : ~link[p].primary

\* Mutant of AttachToItem: the INSERT does not ask whether the item is there.
AttachToAnything(s) ==
  LET i == op[s].key[1]  p == op[s].photo  position == op[s].position
  IN  /\ op[s].step = "attach"
      /\ IF photo[p] # NoPhoto /\ Admits(i, position, position = 0)
         THEN /\ link' = [link EXCEPT ![p] = [position |-> position, primary |-> position = 0]]
              /\ Disturbs(s, Idle, i)
         ELSE Proceeds(s, Idle) /\ UNCHANGED link
      /\ UNCHANGED <<item, photo, blobs, rival, faults>>

\* On an error the photo row and its bytes stay behind.
AttachToItem(s) ==
  LET i == op[s].key[1]  p == op[s].photo  position == op[s].position
  IN  /\ op[s].step = "attach"
      /\ IF item[i] = "there" /\ photo[p] # NoPhoto /\ Admits(i, position, position = 0)
         THEN /\ link' = [link EXCEPT ![p] = [position |-> position, primary |-> position = 0]]
              /\ Disturbs(s, Idle, i)
         ELSE Proceeds(s, Idle) /\ UNCHANGED link
      /\ UNCHANGED <<item, photo, blobs, rival, faults>>

-----------------------------------------------------------------------------
(* Delete. *)

\* The item is visible and the photo is attached to it.
Viewable(p) == link[p] # NoLink /\ item[ItemOf(p)] = "there"

\* Delete keeps the copy of the row it has read, thumbnail reference included.
Delete(s, p) ==
  /\ op[s] = Idle /\ Viewable(p)
  /\ Proceeds(s, [Idle EXCEPT !.step = "unlink", !.key = photo[p].key, !.photo = p,
                              !.thumb = photo[p].thumb])
  /\ UNCHANGED <<item, photo, link, blobs, rival, faults>>

Unlink(s) ==
  /\ op[s].step = "unlink"
  /\ link' = [link EXCEPT ![op[s].photo] = NoLink]
  /\ Disturbs(s, [op[s] EXCEPT !.step = "delete row"], op[s].key[1])
  /\ UNCHANGED <<item, photo, blobs, rival, faults>>

FirstBlob(work) == IF work.thumb THEN "drop thumb" ELSE "drop full"

\* Uploads of the key that have put the bytes and not yet made a row.
Uploading(t, k) == op[t].step \in {"find", "thumbnail", "insert"} /\ op[t].key = k

DropBytes(s) ==
  op' = [t \in Session |->
           IF t = s THEN [op[s] EXCEPT !.step = FirstBlob(op[s])]
           ELSE [op[t] EXCEPT !.raced = @ \/ Uploading(t, op[s].key)]]

\* Mutant of DeleteRow: it does not look at the number of rows deleted.
DeleteRowAnyway(s) ==
  LET p == op[s].photo
  IN  /\ op[s].step = "delete row"
      /\ photo' = [photo EXCEPT ![p] = NoPhoto]
      /\ DropBytes(s)
      /\ UNCHANGED <<item, link, blobs, rival, faults>>

\* No row: the photo was deleted by another request, whose business the bytes
\* are.  RESTRICT keeps a row that is still attached.
DeleteRow(s) ==
  LET p == op[s].photo
  IN  /\ op[s].step = "delete row"
      /\ IF photo[p] = NoPhoto \/ link[p] # NoLink
         THEN Proceeds(s, Idle) /\ UNCHANGED photo
         ELSE photo' = [photo EXCEPT ![p] = NoPhoto] /\ DropBytes(s)
      /\ UNCHANGED <<item, link, blobs, rival, faults>>

\* Deleting a missing object is not an error.
DropThumb(s) ==
  /\ op[s].step = "drop thumb"
  /\ blobs' = blobs \ {<<op[s].key, "thumb">>}
  /\ Proceeds(s, [op[s] EXCEPT !.step = "drop full"])
  /\ UNCHANGED <<item, photo, link, rival, faults>>

DropFull(s) ==
  /\ op[s].step = "drop full"
  /\ blobs' = blobs \ {<<op[s].key, "full">>}
  /\ Proceeds(s, Idle)
  /\ UNCHANGED <<item, photo, link, rival, faults>>

-----------------------------------------------------------------------------
(* Primary photo and order. *)

SetPrimary(s, p) ==
  /\ op[s] = Idle /\ Viewable(p)
  /\ Proceeds(s, [Idle EXCEPT !.step = "clear", !.key = photo[p].key, !.photo = p])
  /\ UNCHANGED <<item, photo, link, blobs, rival, faults>>

ClearPrimary(s) ==
  LET i == op[s].key[1]
  IN  /\ op[s].step = "clear"
      /\ link' = [p \in PhotoId |-> IF p \in Attached(i) THEN [link[p] EXCEPT !.primary = FALSE]
                                    ELSE link[p]]
      /\ Proceeds(s, [op[s] EXCEPT !.step = "set"])
      /\ UNCHANGED <<item, photo, blobs, rival, faults>>

\* Mutant of MarkPrimary: the UPDATE is an insert where there is no row.
MarkUnattached(s) ==
  LET i == op[s].key[1]  p == op[s].photo
  IN  /\ op[s].step = "set"
      /\ link' = IF \A q \in Attached(i) \ {p} : ~link[q].primary
                 THEN [link EXCEPT ![p].primary = TRUE]
                 ELSE link
      /\ Proceeds(s, Idle)
      /\ UNCHANGED <<item, photo, blobs, rival, faults>>

\* No row, or a primary set meanwhile: an error, and no primary is put back.
MarkPrimary(s) ==
  LET i == op[s].key[1]  p == op[s].photo
  IN  /\ op[s].step = "set"
      /\ link' = IF p \in Attached(i) /\ \A q \in Attached(i) \ {p} : ~link[q].primary
                 THEN [link EXCEPT ![p].primary = TRUE]
                 ELSE link
      /\ Proceeds(s, Idle)
      /\ UNCHANGED <<item, photo, blobs, rival, faults>>

InOrder(i) ==
  LET n == Cardinality(Attached(i))
  IN  CHOOSE order \in [1..n -> Attached(i)] :
        \A j, k \in 1..n : j < k => link[order[j]].position < link[order[k]].position

\* moveOrder: one step up or down, and nothing at either end.
MoveOrder(order, p, up) ==
  LET n == CHOOSE k \in DOMAIN order : order[k] = p
      m == IF up THEN n - 1 ELSE n + 1
  IN  IF m \in DOMAIN order THEN [order EXCEPT ![n] = order[m], ![m] = p] ELSE order

Dense(i) == Positions(i) = 0..(Cardinality(Attached(i)) - 1)

\* position counts the updates of the pass.
Move(s, p, up) ==
  LET i == ItemOf(p)
  IN  /\ op[s] = Idle /\ Viewable(p)
      /\ Proceeds(s, [Idle EXCEPT !.step = "stage", !.key = photo[p].key, !.calm = Dense(i),
                                  !.order = MoveOrder(InOrder(i), p, up)])
      /\ UNCHANGED <<item, photo, link, blobs, rival, faults>>

\* Mutant of Target: the photos go straight to their places.
TargetInPlace(work) == work.position

\* The first pass moves the photos out of the way, past the last place.
Target(work) == work.position + (IF work.step = "stage" THEN Len(work.order) ELSE 0)

NextUpdate(work) ==
  IF work.position + 1 < Len(work.order) THEN [work EXCEPT !.position = @ + 1]
  ELSE IF work.step = "stage" THEN [work EXCEPT !.step = "finalize", !.position = 0]
  ELSE Idle

\* One UPDATE of Reorder: it may meet no row, and it fails on a position that
\* another photo has.
Reorder(s) ==
  LET p == op[s].order[op[s].position + 1]  i == op[s].key[1]
  IN  /\ op[s].step \in MoveStep
      /\ IF p \notin Attached(i)
         THEN Proceeds(s, NextUpdate(op[s])) /\ UNCHANGED link
         ELSE IF \E q \in Attached(i) \ {p} : link[q].position = Target(op[s])
         THEN Proceeds(s, Idle) /\ UNCHANGED link
         ELSE /\ link' = [link EXCEPT ![p].position = Target(op[s])]
              /\ Disturbs(s, NextUpdate(op[s]), i)
      /\ UNCHANGED <<item, photo, blobs, rival, faults>>

-----------------------------------------------------------------------------
(* The thumbnail backfill. *)

\* A row of ListMissingThumbnail's page, which other sessions may overtake;
\* bound: one batch at a time.
ListMissingThumbnail(s, p) ==
  /\ op[s] = Idle /\ link[p] # NoLink /\ ~photo[p].thumb
  /\ \A t \in Session : op[t].step \notin BackfillStep
  /\ Proceeds(s, [Idle EXCEPT !.step = "open", !.key = photo[p].key, !.photo = p])
  /\ UNCHANGED <<item, photo, link, blobs, rival, faults>>

\* A photo that cannot be read is logged and left for the next run.
OpenFull(s) ==
  /\ op[s].step = "open"
  /\ Proceeds(s, IF <<op[s].key, "full">> \in blobs THEN [op[s] EXCEPT !.step = "put thumb"] ELSE Idle)
  /\ UNCHANGED <<item, photo, link, blobs, rival, faults>>

PutThumb(s) ==
  /\ op[s].step = "put thumb"
  /\ blobs' = blobs \cup {<<op[s].key, "thumb">>}
  /\ Proceeds(s, [op[s] EXCEPT !.step = "set thumb"])
  /\ UNCHANGED <<item, photo, link, rival, faults>>

SetThumbnailRef(s) ==
  /\ op[s].step = "set thumb"
  /\ photo' = IF photo[op[s].photo] = NoPhoto THEN photo
              ELSE [photo EXCEPT ![op[s].photo].thumb = TRUE]
  /\ Proceeds(s, Idle)
  /\ UNCHANGED <<item, link, blobs, rival, faults>>

-----------------------------------------------------------------------------
(* Items, and sessions that stop. *)

CreateItem(i) ==
  /\ item[i] = "unborn"
  /\ item' = [item EXCEPT ![i] = "there"]
  /\ UNCHANGED <<photo, link, blobs, op, rival, faults>>

\* ON DELETE CASCADE takes the item_photo rows; photo rows and bytes stay.
DeleteItem(i) ==
  /\ item[i] = "there"
  /\ item' = [item EXCEPT ![i] = "deleted"]
  /\ link' = [p \in PhotoId |-> IF p \in Attached(i) THEN NoLink ELSE link[p]]
  /\ op' = [s \in Session |-> [op[s] EXCEPT !.calm = @ /\ op[s].key[1] # i]]
  /\ UNCHANGED <<photo, blobs, rival, faults>>

\* An error, a cancelled context or a dead process between two calls.
Stop(s) ==
  /\ op[s] # Idle /\ faults < MaxFaults
  /\ faults' = faults + 1
  /\ Proceeds(s, Idle)
  /\ UNCHANGED <<item, photo, link, blobs, rival>>

-----------------------------------------------------------------------------
Init ==
  /\ item = [i \in Item |-> "unborn"]
  /\ photo = [p \in PhotoId |-> NoPhoto]
  /\ link = [p \in PhotoId |-> NoLink]
  /\ blobs = {} /\ rival = {} /\ faults = 0
  /\ op = [s \in Session |-> Idle]

Uploads(s) ==
  \/ \E i \in Item, c \in Content : Upload(s, i, c)
  \/ PutFull(s) \/ FindByStorageRef(s)
  \/ \E made \in BOOLEAN : TryGenerateThumbnail(s, made)
  \/ \E p \in PhotoId : Fresh(p) /\ CreateRow(s, p)
  \/ ListByItem(s) \/ AttachToItem(s)

Deletes(s) ==
  \/ \E p \in PhotoId : Delete(s, p)
  \/ Unlink(s) \/ DeleteRow(s) \/ DropThumb(s) \/ DropFull(s)

Arranges(s) ==
  \/ \E p \in PhotoId : SetPrimary(s, p) \/ \E up \in BOOLEAN : Move(s, p, up)
  \/ ClearPrimary(s) \/ MarkPrimary(s) \/ Reorder(s)

Backfills(s) ==
  \/ \E p \in PhotoId : ListMissingThumbnail(s, p)
  \/ OpenFull(s) \/ PutThumb(s) \/ SetThumbnailRef(s)

Next ==
  \/ \E s \in Session : Uploads(s) \/ Deletes(s) \/ Arranges(s) \/ Backfills(s) \/ Stop(s)
  \/ \E i \in Item : CreateItem(i) \/ DeleteItem(i)

Spec == Init /\ [][Next]_vars

-----------------------------------------------------------------------------
(* Properties. *)

\* Type invariant of the rows, the store and the sessions.
TypeOK ==
  /\ item \in [Item -> {"unborn", "there", "deleted"}]
  /\ photo \in [PhotoId -> Photo]
  /\ link \in [PhotoId -> Link]
  /\ blobs \subseteq Key \X Variant
  /\ op \in [Session -> Work]
  /\ rival \subseteq PhotoId
  /\ faults \in 0..MaxFaults

\* A photo in a gallery has its row and its item, whatever upload, deletion of
\* the photo and deletion of the item cross each other.
AttachedIsReal ==
  \A p \in PhotoId : link[p] # NoLink => photo[p] # NoPhoto /\ item[ItemOf(p)] = "there"

\* Rows first, bytes last (domain.PhotoRepository: "in that order, with no
\* reference count"): unless an upload crossed a deletion of the same content,
\* every photo row has its bytes, and the thumbnail it names, wherever
\* uploads, deletions, repeated deletions and the backfill stop.
BytesOutliveTheirRow ==
  \A p \in PhotoId \ rival :
    photo[p] # NoPhoto => \A variant \in Variant : ResolveRef(p, variant) \in blobs

Shows(l, order) == \A n \in DOMAIN order : l[order[n]].position = n - 1

\* A reorder of a gallery without gaps that nothing disturbs ends, and ends in
\* the order it was asked for, through the two passes and the unique index on
\* positions.
CalmReorderSucceeds ==
  [][\A s \in Session :
       (op[s].step \in MoveStep /\ op[s].calm /\ op'[s] = Idle /\ faults' = faults)
         => Shows(link', op[s].order)]_vars

\* domain.PhotoRepository: Delete "can safely remove the item_photo row, the
\* photo row, and the stored object, in that order, with no reference count".
AttachedHasBytes ==
  \A p \in PhotoId : link[p] # NoLink => \A variant \in Variant : ResolveRef(p, variant) \in blobs

\* PhotoService.Upload: "persists the resulting Photo, attached at the next
\* position", and a repeated upload "returns the EXISTING photo": an upload
\* that is answered with a photo finds it in the gallery of the living item.
UploadIsShown ==
  [][\A s \in Session : \A p \in Carrying(op[s].key) :
       (op[s].step = "find" /\ op'[s] = Idle /\ faults' = faults)
         => link[p] # NoLink \/ item[ItemOf(p)] = "deleted"]_vars
=============================================================================
