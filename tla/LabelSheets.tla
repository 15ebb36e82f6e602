----------------------------- MODULE LabelSheets -----------------------------
(***************************************************************************)
(* The label print screen and the sheet renderer: internal/labels.  The    *)
(* screen shows a picture of the first sheet; a change of the size and a   *)
(* tap on a cell ask the server for a new one.  The form that is sent to   *)
(* print holds the chosen size and the offset of the picture.  Lengths are *)
(* counted in hundred-thousandths of a millimetre.                         *)
(***************************************************************************)
EXTENDS Integers, Sequences, FiniteSets

CONSTANTS Bin,         \* bins, ordered by their codes: a set of positive numbers
          MaxLabels,   \* MaxBatchLabels
          None         \* no preference, no document, no value

VARIABLES bins,      \* the bins of the location
          pref,      \* the size the member printed last
          picture,   \* the preview fragment on the screen
          radio,     \* the size that is chosen
          flight,    \* the request for a fragment that is under way
          doc        \* the document that is drawn or was made last
vars == <<bins, pref, picture, radio, flight, doc>>

-----------------------------------------------------------------------------
(* The sizes and their geometry. *)

Avery5160 == [pageWidth |-> 21590000, pageHeight |-> 27940000, left |-> 476250, top |-> 1270000,
              columns |-> 3, rows |-> 10, width |-> 6667500, height |-> 2540000,
              gutterX |-> 317500, gutterY |-> 0]
Avery5163 == [pageWidth |-> 21590000, pageHeight |-> 27940000, left |-> 396875, top |-> 1270000,
              columns |-> 2, rows |-> 5, width |-> 10160000, height |-> 5080000,
              gutterX |-> 476250, gutterY |-> 0]
Single4x6 == [pageWidth |-> 10160000, pageHeight |-> 15240000, left |-> 0, top |-> 0,
              columns |-> 1, rows |-> 1, width |-> 10160000, height |-> 15240000,
              gutterX |-> 0, gutterY |-> 0]

Size == {Avery5160, Avery5163, Single4x6}

CellsPerPage(s) == s.columns * s.rows
Cells(s) == 0..CellsPerPage(s) - 1

\* Mutant of CellOrigin: the cells are counted down the columns.
CellOriginDown(s, cell) ==
  [x |-> s.left + (cell \div s.rows) * (s.width + s.gutterX),
   y |-> s.top + (cell % s.columns) * (s.height + s.gutterY)]

CellOrigin(s, cell) ==
  [x |-> s.left + (cell % s.columns) * (s.width + s.gutterX),
   y |-> s.top + (cell \div s.columns) * (s.height + s.gutterY)]

Padding == 200000
Gap == 150000

\* The QR square, and the text beside it in a wide cell, below it in a tall one.
CellLayout(s) ==
  LET innerW == s.width - 2 * Padding
      innerH == s.height - 2 * Padding
      wide   == s.width >= s.height
      side   == IF wide THEN innerH ELSE innerW
      behind == Padding + side + Gap
  IN  [qr   |-> [x |-> Padding, y |-> Padding, w |-> side, h |-> side],
       text |-> IF wide
                THEN [x |-> behind, y |-> Padding, w |-> s.width - behind - Padding, h |-> innerH]
                ELSE [x |-> Padding, y |-> behind, w |-> innerW, h |-> s.height - behind - Padding]]

-----------------------------------------------------------------------------
(* The screen. *)

\* What is on a cell, when it is no bin.
Blank == 0
Dimmed == -1

\* ListVisibleByLocation: by code.
Listed ==
  CHOOSE order \in [1..Cardinality(bins) -> bins] :
    \A i, j \in DOMAIN order : i < j => order[i] < order[j]

PreferredSize == IF pref = None THEN Avery5160 ELSE pref

ClampOffset(offset, s) ==
  IF offset < 0 THEN 0 ELSE IF offset \in Cells(s) THEN offset ELSE CellsPerPage(s) - 1

PreviewCell(list, offset, cell) ==
  IF cell < offset THEN Dimmed
  ELSE IF cell - offset < Len(list) THEN list[cell - offset + 1] ELSE Blank

SheetsNeeded(offset, count, cells) ==
  IF count = 0 THEN 0 ELSE (offset + count + cells - 1) \div cells

\* buildPreviewView.
Preview(s, offset) ==
  [size |-> s, offset |-> offset, list |-> Listed,
   cells |-> [c \in Cells(s) |-> PreviewCell(Listed, offset, c)],
   sheets |-> SheetsNeeded(offset, Len(Listed), CellsPerPage(s))]

\* A member moves a bin into the location or out of it.
ChangeBins(b) ==
  /\ bins' = IF b \in bins THEN bins \ {b} ELSE bins \cup {b}
  /\ UNCHANGED <<pref, picture, radio, flight, doc>>

\* GET /labels/print.
PrintScreen ==
  /\ radio' = PreferredSize /\ picture' = Preview(PreferredSize, 0) /\ flight' = None
  /\ UNCHANGED <<bins, pref, doc>>

\* What hx-include sends of the form, with the offset of hx-vals: the radio
\* has the name size_id.
Included(s, offset) == [size_id |-> s, offset |-> offset]

\* The radio changes at once, the picture when a fragment comes.
ChooseSize(s) ==
  /\ s # radio /\ flight = None
  /\ radio' = s /\ flight' = Included(s, 0)
  /\ UNCHANGED <<bins, pref, picture, doc>>

TapCell(cell) ==
  /\ cell \in DOMAIN picture.cells /\ flight = None
  /\ flight' = Included(radio, cell)
  /\ UNCHANGED <<bins, pref, picture, radio, doc>>

\* r.URL.Query().Get
Parameter(query, name) == IF name \in DOMAIN query THEN query[name] ELSE None

\* A size that is not registered is answered 400, and htmx leaves the screen
\* as it is.  The handler reads the size from "size", which the form does not
\* send: every fragment is refused, and the offset of a picture stays 0.
PrintPreview ==
  LET s == Parameter(flight, "size")
  IN  /\ flight # None
      /\ flight' = None
      /\ picture' = IF s \in Size THEN Preview(s, ClampOffset(flight.offset, s)) ELSE picture
      /\ UNCHANGED <<bins, pref, radio, doc>>

-----------------------------------------------------------------------------
(* The documents. *)

BlankPage(s) == [c \in Cells(s) |-> Blank]

\* Mutant of AddPage: every page leaves the cells before the start offset free.
AddPageFromOffset(d) ==
  IF d.cell \in Cells(d.size) THEN d
  ELSE [d EXCEPT !.pages = Append(@, BlankPage(d.size)), !.cell = d.offset]

AddPage(d) ==
  IF d.cell \in Cells(d.size) THEN d
  ELSE [d EXCEPT !.pages = Append(@, BlankPage(d.size)), !.cell = 0]

DrawCell(d) ==
  [d EXCEPT !.pages[Len(d.pages)][d.cell] = d.labels[d.drawn + 1],
            !.cell = @ + 1, !.drawn = @ + 1]

\* RenderLocationBatch refuses no bins, and more than a batch may have.
Printable == Len(Listed) \in 1..MaxLabels

\* A document with its first page; seen: the picture it was asked for from.
Document(s, offset, seen) ==
  [size |-> s, offset |-> offset, labels |-> Listed, seen |-> seen,
   pages |-> <<BlankPage(s)>>, cell |-> offset, drawn |-> 0]

\* POST /labels/print: the size is remembered whether or not a document comes
\* of it; a refusal loads the whole screen again.  The picture counts as seen
\* when no fragment is on its way to replace it.
PrintBatch ==
  LET offset == ClampOffset(picture.offset, radio)
  IN  /\ pref' = radio
      /\ IF Printable
         THEN /\ doc' = Document(radio, offset, IF flight = None THEN picture ELSE None)
              /\ UNCHANGED <<picture, flight>>
         ELSE /\ picture' = Preview(radio, offset) /\ flight' = None
              /\ UNCHANGED doc
      /\ UNCHANGED <<bins, radio>>

\* GET /locations/{id}/labels.pdf: an offset beyond the sheet is an error.
Download(s, offset) ==
  /\ Printable /\ offset \in Cells(s)
  /\ doc' = Document(s, offset, None)
  /\ UNCHANGED <<bins, pref, picture, radio, flight>>

\* Render's loop.
DrawLabel ==
  /\ doc.drawn < Len(doc.labels)
  /\ doc' = DrawCell(AddPage(doc))
  /\ UNCHANGED <<bins, pref, picture, radio, flight>>

\* The document is put away, or its request's context ends while it is drawn;
\* bound: before anything else happens.
Close == doc' = None /\ UNCHANGED <<bins, pref, picture, radio, flight>>

-----------------------------------------------------------------------------
Init ==
  /\ bins = {} /\ pref = None /\ flight = None /\ doc = None
  /\ radio = PreferredSize
  /\ picture = Preview(radio, 0)

Screen ==
  \/ PrintScreen \/ PrintPreview \/ PrintBatch
  \/ \E b \in Bin : ChangeBins(b)
  \/ \E s \in Size : ChooseSize(s)
  \/ \E cell \in DOMAIN picture.cells : TapCell(cell)

\* A download neither reads nor changes the screen; bound: one is made only
\* before the first print.
Next ==
  \/ doc = None /\ Screen
  \/ doc = None /\ flight = None /\ pref = None /\ \E s \in Size : \E offset \in Cells(s) : Download(s, offset)
  \/ doc # None /\ (DrawLabel \/ Close)

Spec == Init /\ [][Next]_vars

-----------------------------------------------------------------------------
(* Properties. *)

\* The handler answers with the document once every label is drawn.
Made == doc # None /\ doc.drawn = Len(doc.labels)

\* A label is on the cell, counted from the start offset through all sheets,
\* that its place in the batch says, and no sheet is empty: "startOffset
\* applies to the first page only; every subsequent page starts at cell zero".
LabelsFillTheSheets ==
  Made =>
    LET cells == CellsPerPage(doc.size)
        Place(p, c) == (p - 1) * cells + c - doc.offset + 1
    IN  /\ \A p \in DOMAIN doc.pages, c \in Cells(doc.size) :
             doc.pages[p][c] = IF Place(p, c) \in DOMAIN doc.labels THEN doc.labels[Place(p, c)] ELSE Blank
        /\ \A n \in DOMAIN doc.labels : \E p \in DOMAIN doc.pages, c \in Cells(doc.size) : Place(p, c) = n
        /\ \A p \in DOMAIN doc.pages : \E c \in Cells(doc.size) : doc.pages[p][c] # Blank

\* "The \"preview matches the produced PDF\" criterion holds by construction"
\* (buildPreviewView), and a refresh "never leaves the picture and the form's
\* own pending values disagreeing" (LabelSheetPreview): a document that is made
\* of the bins the picture showed, with no fragment on its way, has the
\* picture's size, its number of sheets and, on the first sheet, its labels.
PreviewMatchesPdf ==
  Made /\ doc.seen # None =>
    LET seen == doc.seen
    IN  seen.list = doc.labels =>
          /\ seen.size = doc.size /\ seen.sheets = Len(doc.pages)
          /\ \A c \in DOMAIN seen.cells :
               doc.pages[1][c] = IF seen.cells[c] = Dimmed THEN Blank ELSE seen.cells[c]

Epsilon == 1000
Rect(s, cell) ==
  [x |-> CellOrigin(s, cell).x, y |-> CellOrigin(s, cell).y, w |-> s.width, h |-> s.height]
Inside(r, w, h) ==
  r.w > 0 /\ r.h > 0 /\ r.x >= 0 /\ r.y >= 0 /\ r.x + r.w <= w + Epsilon /\ r.y + r.h <= h + Epsilon
Apart(r, q) == r.x + r.w <= q.x \/ q.x + q.w <= r.x \/ r.y + r.h <= q.y \/ q.y + q.h <= r.y

\* All cells lie on the page and no two overlap, and neither do the QR code
\* and the text of a label (overflowEpsilonMM allows 0.01 mm).
LabelsLieApart ==
  doc # None =>
    LET s == doc.size
        l == CellLayout(s)
        r == [c \in Cells(s) |-> Rect(s, c)]
    IN  /\ \A c \in Cells(s) : Inside(r[c], s.pageWidth, s.pageHeight)
        /\ \A c \in Cells(s) : \A d \in 0..c - 1 : Apart(r[c], r[d])
        /\ Inside(l.qr, s.width, s.height) /\ Inside(l.text, s.width, s.height) /\ Apart(l.qr, l.text)
=============================================================================
