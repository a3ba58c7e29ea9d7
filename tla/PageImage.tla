------------------------------- MODULE PageImage -------------------------------
(***************************************************************************)
(* The pixels of a page: from the stripes of a scanned sheet               *)
(* (doxiedx400/driver.go, image.go) to the stored image, and the edits that*)
(* turn it and cut it (doxiedx400/edit.go) over and over.                  *)
(*                                                                         *)
(* A pixel is where it comes from: <<stripe, line, x>>.  Whether it is     *)
(* dark is in the sheet's ink.  The steps of saving a page and its metadata*)
(* are those of ScanJobs.tla and PageApi.tla; here edits come one at a     *)
(* time, and write the file over (it is torn until they have).             *)
(***************************************************************************)
EXTENDS Integers, Sequences, FiniteSets, SequencesExt, FiniteSetsExt

CONSTANTS ImageWidth,   \* imageWidthPx
          StripeLines,  \* scan lines of a stripe: readChunkBytes \div lineWidthBytes
          InkLimit,     \* blankInkFractionThreshold, as <<numerator, denominator>>
          IntBits,      \* bits of an int
          Scenes

\* A sheet as the scanner delivers it: whole stripes, front and rear in turn
\* when the scan is duplex.
Sheet == [duplex : BOOLEAN, stripes : Nat, ink : SUBSET (Nat \X Nat \X Nat)]
Rect == [x0 : Int, y0 : Int, x1 : Int, y1 : Int]

\* The sheets there may be; the edits asked for; how many, on which pages; the
\* requests that read pages; how often the server dies.
Scene == [sheets : SUBSET Sheet, degrees : SUBSET {90, 180, 270}, ints : SUBSET Int,
          edits : Nat, pages : SUBSET (1 .. 2), requests : SUBSET Nat, crashes : Nat]

ASSUME SizeAssumption == {ImageWidth, StripeLines, IntBits} \subseteq Nat \ {0}
ASSUME SceneAssumption == Scenes \subseteq Scene

\* True of every number of bits; the provers do not know powers.
ASSUME WidthAssumption == 2 ^ IntBits \in Nat \ {0} /\ 2 ^ (IntBits - 1) \in Nat

VARIABLES
  scene,    \* the scene; no step changes it
  sheet,    \* the sheet
  scanned,  \* whether it has been scanned
  files,    \* the stored pages; Torn while one is written
  edit,     \* the edit that is writing its file
  edits,    \* edits still to come
  turns,    \* history: quarter-turns clockwise of each page
  seen,     \* history: the part of its side each page still shows
  astray    \* history: pages whose crop rectangle has overflowed

imageVars == <<scene, sheet, scanned, files, edit, edits, turns, seen, astray>>

Picture(w, h, P(_, _)) ==
  [w |-> w, h |-> h, px |-> [at \in (0 .. w - 1) \X (0 .. h - 1) |-> P(at[1], at[2])]]
Torn == [w |-> 0, h |-> 0, px |-> <<>>]
NoEdit == [page |-> 0, img |-> Torn, turns |-> 0, seen |-> {}, astray |-> FALSE]

Init == /\ scene \in Scenes
        /\ sheet \in scene.sheets
        /\ scanned = FALSE
        /\ files = <<>>
        /\ edit = NoEdit
        /\ edits = scene.edits
        /\ turns = <<>>
        /\ seen = <<>>
        /\ astray = {}

-------------------------------------------------------------------------------
(* Scanning *)

\* The n-th chunk of the sheet, packed.
Chunk(n) == [i \in 1 .. StripeLines * ImageWidth |->
               <<n, (i - 1) \div ImageWidth, (i - 1) % ImageWidth>>]
Chunks == [n \in 1 .. sheet.stripes |-> Chunk(n)]

joinChunks(chunks) == FlattenSeq(chunks)

\* splitDuplexChunks: the chunks with even and odd index (from 0).
Side(chunks, first) ==
  FlattenSeq([n \in 1 .. (Len(chunks) + 2 - first) \div 2 |-> chunks[2 * n - 2 + first]])
front(chunks) == Side(chunks, 1)
rear(chunks) == Side(chunks, 2)

\* Pixels that do not complete a scan line are left out.
nLines(raw) == Len(raw) \div ImageWidth
rawToImage(raw) == Picture(ImageWidth, nLines(raw), LAMBDA x, y : raw[y * ImageWidth + x + 1])

\* Mutant: at the threshold, too.
BelowOrAt(dark, total) == dark * InkLimit[2] <= InkLimit[1] * total
Below(dark, total) == dark * InkLimit[2] < InkLimit[1] * total
isBlank(raw) ==
  LET total == nLines(raw) * ImageWidth
  IN  \/ nLines(raw) = 0
      \/ Below(Cardinality({i \in 1 .. total : raw[i] \in sheet.ink}), total)

\* The images ScanPage returns.
Images == IF ~sheet.duplex THEN <<rawToImage(joinChunks(Chunks))>>
          ELSE <<rawToImage(front(Chunks))>>
               \o (IF isBlank(rear(Chunks)) THEN <<>> ELSE <<rawToImage(rear(Chunks))>>)

\* ScanPage, and saveImage for each image.  An image without a line cannot be
\* encoded, and ends the scan.
ScanPage ==
  /\ ~scanned
  /\ scanned' = TRUE
  /\ \E n \in 0 .. Len(Images) :
       /\ files' = SubSeq(Images, 1, n)
       /\ \A p \in 1 .. n : Images[p].h > 0
       /\ n < Len(Images) => Images[n + 1].h = 0
  /\ turns' = [p \in DOMAIN files' |-> 0]
  /\ seen' = [p \in DOMAIN files' |-> DOMAIN files'[p].px]
  /\ UNCHANGED <<scene, sheet, edit, edits, astray>>

-------------------------------------------------------------------------------
(* Editing *)

\* The imaging library: rotations are counter-clockwise.
imagingRotate90(img) == Picture(img.h, img.w, LAMBDA x, y : img.px[<<img.w - 1 - y, x>>])
imagingRotate180(img) ==
  Picture(img.w, img.h, LAMBDA x, y : img.px[<<img.w - 1 - x, img.h - 1 - y>>])
imagingRotate270(img) == Picture(img.h, img.w, LAMBDA x, y : img.px[<<y, img.h - 1 - x>>])
imagingCrop(img, r) ==
  Picture(r.x1 - r.x0, r.y1 - r.y0, LAMBDA x, y : img.px[<<r.x0 + x, r.y0 + y>>])

\* Mutant: the library's direction is not inverted.
RotateUninverted(img, degrees) == CASE degrees = 90 -> imagingRotate90(img)
                                    [] degrees = 180 -> imagingRotate180(img)
                                    [] degrees = 270 -> imagingRotate270(img)
Rotate(img, degrees) == CASE degrees = 90 -> imagingRotate270(img)
                          [] degrees = 180 -> imagingRotate180(img)
                          [] degrees = 270 -> imagingRotate90(img)

\* An int wraps around.
Wrapped(n) == ((n + 2 ^ (IntBits - 1)) % 2 ^ IntBits) - 2 ^ (IntBits - 1)

\* image.Rect: the corners may come in any order.
Rectangle(x0, y0, x1, y1) == [x0 |-> Min({x0, x1}), y0 |-> Min({y0, y1}),
                              x1 |-> Max({x0, x1}), y1 |-> Max({y0, y1})]
Clamped(r, img) == [x0 |-> Max({r.x0, 0}), y0 |-> Max({r.y0, 0}),
                    x1 |-> Min({r.x1, img.w}), y1 |-> Min({r.y1, img.h})]

\* Mutant: a rectangle with no width passes for one.
EmptyIfNegative(r) == r.x0 > r.x1 \/ r.y0 >= r.y1
Empty(r) == r.x0 >= r.x1 \/ r.y0 >= r.y1

\* A point of a page's side, where the page shows it.
Shown(at, points, quarters) ==
  LET xs == {o[1] : o \in points}
      ys == {o[2] : o \in points}
  IN  CASE quarters = 0 -> <<at[1] - Min(xs), at[2] - Min(ys)>>
        [] quarters = 1 -> <<Max(ys) - at[2], at[1] - Min(xs)>>
        [] quarters = 2 -> <<Max(xs) - at[1], Max(ys) - at[2]>>
        [] quarters = 3 -> <<at[2] - Min(ys), Max(xs) - at[1]>>

\* applyEdit, up to the truncated file.
CanEdit(p) == /\ edit = NoEdit
              /\ edits > 0
              /\ p \in scene.pages \cap DOMAIN files
              /\ files[p] # Torn
              /\ files' = [files EXCEPT ![p] = Torn]
              /\ edits' = edits - 1
              /\ UNCHANGED <<scene, sheet, scanned, turns, seen, astray>>

handleRotatePage(p, degrees) ==
  /\ CanEdit(p)
  /\ edit' = [page |-> p, img |-> Rotate(files[p], degrees),
              turns |-> (turns[p] + degrees \div 90) % 4, seen |-> seen[p], astray |-> FALSE]

\* A rectangle that does not meet the page is an error.
handleCropPage(p, x, y, width, height) ==
  LET asked == Rectangle(x, y, x + width, y + height)
      rect == Rectangle(x, y, Wrapped(x + width), Wrapped(y + height))
      clamped == Clamped(rect, files[p])
      Within(at) == /\ asked.x0 <= at[1] /\ at[1] < asked.x1
                    /\ asked.y0 <= at[2] /\ at[2] < asked.y1
  IN  /\ CanEdit(p)
      /\ ~Empty(clamped)
      /\ edit' = [page |-> p, img |-> imagingCrop(files[p], clamped), turns |-> turns[p],
                  seen |-> {o \in seen[p] : Within(Shown(o, seen[p], turns[p]))},
                  astray |-> rect # asked]

\* SavePageFile, and its write.
WritePage ==
  /\ edit # NoEdit
  /\ files' = [files EXCEPT ![edit.page] = edit.img]
  /\ turns' = [turns EXCEPT ![edit.page] = edit.turns]
  /\ seen' = [seen EXCEPT ![edit.page] = edit.seen]
  /\ astray' = IF edit.astray THEN astray \cup {edit.page} ELSE astray
  /\ edit' = NoEdit
  /\ UNCHANGED <<scene, sheet, scanned, edits>>

Edit == \E p \in scene.pages :
  \/ \E degrees \in scene.degrees : handleRotatePage(p, degrees)
  \/ \E x, y, width, height \in scene.ints : handleCropPage(p, x, y, width, height)

-------------------------------------------------------------------------------
(* What the properties are about *)

\* An image that is stored has a pixel: nothing is saved that has no line or
\* no column (edit.go:27-29).
ImageOK(img) == /\ img.w > 0 /\ img.h > 0
                /\ DOMAIN img.px = (0 .. img.w - 1) \X (0 .. img.h - 1)

\* Pixel o of the p-th page of the sheet, as the scanner read it.
Original(p, o) ==
  IF sheet.duplex THEN <<2 * (o[2] \div StripeLines) + p, o[2] % StripeLines, o[1]>>
                  ELSE <<o[2] \div StripeLines + 1, o[2] % StripeLines, o[1]>>

-------------------------------------------------------------------------------
(* Properties *)

\* However often a page has been turned and cropped, by rectangles within,
\* across or around its edges, given from either corner, it is its side of the
\* sheet, less what the crops have cut off, turned clockwise as often as asked
\* for.  (Not once a crop's x + width has overflowed: then the rectangle ends up
\* on the other side of x.)
PageShowsItsSide ==
  \A p \in DOMAIN files : files[p] # Torn /\ p \notin astray =>
    /\ files[p].w * files[p].h = Cardinality(seen[p])
    /\ \A o \in seen[p] : files[p].px[Shown(o, seen[p], turns[p])] = Original(p, o)

\* A back is dropped exactly when the share of dark pixels on that side of the
\* sheet is below the threshold, whatever is on the front.
BlankBacksAreDropped ==
  LET pixels == (1 .. sheet.stripes) \X (0 .. StripeLines - 1) \X (0 .. ImageWidth - 1)
      back == {o \in pixels : o[1] % 2 = 0}
      dark == Cardinality(back \cap sheet.ink)
      blank == back = {} \/ dark * InkLimit[2] < InkLimit[1] * Cardinality(back)
  IN  scanned /\ sheet.duplex /\ sheet.stripes > 0 => (Len(files) = 1 <=> blank)
===============================================================================
