---------------------------- MODULE TextExtraction ----------------------------
(***************************************************************************)
(* Requests that derive something from a stored page while it is being     *)
(* edited: its text (internal/ocr/ocr.go, api/ocr_handlers.go), through    *)
(* files in a temporary directory and two external programs, or a PDF      *)
(* document of it (internal/pdfexport/pdfexport.go).  Any of their steps   *)
(* may fail, and the server may die in between.                            *)
(*                                                                         *)
(* The text of an image stands for the image.                              *)
(***************************************************************************)
EXTENDS PageImage

CONSTANT Dirs  \* bound: names of temporary directories

VARIABLES
  at,       \* where each request is
  request,  \* what it is about, and what it has so far
  dirs,     \* the temporary directories there are, and their files
  crashes,  \* crashes still to come
  read,     \* history: the images its page has had since it came in
  left      \* history: directories no request will remove any more

ocrVars == <<at, request, dirs, crashes, read, left>>
vars == <<imageVars, ocrVars>>

Places == {"idle", "read", "mkdir", "write", "unpaper", "tesseract", "remove"}

\* No name; no file, or one that has not been written to the end.
NoDir == 0
NoFile == [w |-> 0, h |-> 0, body |-> <<>>]
NoRequest == [kind |-> "none", page |-> 0, img |-> Torn, dir |-> NoDir, reply |-> "none",
              result |-> Torn]

ASSUME DirsAssumption == Dirs \subseteq Nat \ {NoDir}

InitOcr == /\ Init
           /\ at = [r \in scene.requests |-> "idle"]
           /\ request = [r \in scene.requests |-> NoRequest]
           /\ dirs = <<>>
           /\ crashes = scene.crashes
           /\ read = [r \in scene.requests |-> {}]
           /\ left = {}

\* encodePPM, row by row; and how the programs read it.
encodePPM(img) ==
  [w |-> img.w, h |-> img.h,
   body |-> [i \in 1 .. img.w * img.h |-> img.px[<<(i - 1) % img.w, (i - 1) \div img.w>>]]]
Decoded(ppm) == Picture(ppm.w, ppm.h, LAMBDA x, y : ppm.body[y * ppm.w + x + 1])

\* CombinePagesPDF for one page: of the image's size, at 300 pixels an inch.
Document(img) == [w |-> img.w, h |-> img.h, px |-> img.px]

Running(r) == at[r] # "idle"
Goto(r, place) == at' = [at EXCEPT ![r] = place]
Replies(r, reply, result) ==
  request' = [request EXCEPT ![r] = [@ EXCEPT !.reply = reply, !.result = result, !.img = Torn]]

-------------------------------------------------------------------------------
(* Requests *)

\* handleExtractText and handleExportPage, once they have found the file.
\* (Bound: each request comes once, and once more after a crash.)
Begin(r, kind, p) ==
  /\ request[r] = NoRequest
  /\ p \in DOMAIN files
  /\ Goto(r, "read")
  /\ request' = [request EXCEPT ![r] = [NoRequest EXCEPT !.kind = kind, !.page = p]]
  /\ read' = [read EXCEPT ![r] = {files[p]}]
  /\ UNCHANGED <<imageVars, dirs, crashes, left>>

\* ReadFile and Decode: a torn file is an error.
Read(r) ==
  LET c == request[r]
      img == files[c.page]
  IN  /\ at[r] = "read"
      /\ CASE img = Torn -> Goto(r, "idle") /\ Replies(r, "error", Torn)
           [] img # Torn /\ c.kind = "pdf" ->
                Goto(r, "idle") /\ Replies(r, "done", Document(img))
           [] img # Torn /\ c.kind = "text" ->
                Goto(r, "mkdir") /\ request' = [request EXCEPT ![r].img = img]
      /\ UNCHANGED <<imageVars, dirs, crashes, read, left>>

\* MkdirTemp: a name nobody has, and no matter which.  Mutant: always the same.
OneDir == {Min(Dirs)}
FreshDir == {d \in Dirs \ DOMAIN dirs : \A e \in Dirs \ DOMAIN dirs : d <= e}

MkdirTemp(r) ==
  /\ at[r] = "mkdir"
  /\ \/ \E d \in FreshDir :
          /\ dirs' = [e \in DOMAIN dirs \cup {d} |->
                        IF e = d THEN [input |-> NoFile, corrected |-> NoFile] ELSE dirs[e]]
          /\ request' = [request EXCEPT ![r].dir = d]
          /\ Goto(r, "write")
     \/ /\ Replies(r, "error", Torn)
        /\ Goto(r, "idle")
        /\ UNCHANGED dirs
  /\ UNCHANGED <<imageVars, crashes, read, left>>

\* A step that works in the request's directory: it goes on, or fails.  Either
\* way the deferred RemoveAll is to come.  Mutant: only after the last step.
ToRemoveAfterLast(r) == IF at[r] = "tesseract" THEN "remove" ELSE "idle"
ToRemove(r) == "remove"

Step(r, place) ==
  /\ at[r] = place
  /\ UNCHANGED <<imageVars, crashes, read, left>>
Fails(r, reply) == Replies(r, reply, Torn) /\ Goto(r, ToRemove(r)) /\ UNCHANGED dirs
MyDir(r) == request[r].dir
Has(r, name) == MyDir(r) \in DOMAIN dirs /\ dirs[MyDir(r)][name] # NoFile

WritePPM(r) ==
  /\ Step(r, "write")
  /\ \/ /\ MyDir(r) \in DOMAIN dirs
        /\ dirs' = [dirs EXCEPT ![MyDir(r)].input = encodePPM(request[r].img)]
        /\ Goto(r, "unpaper")
        /\ UNCHANGED request
     \/ Fails(r, "error")

\* The program may not be there, or fail.
RunUnpaper(r) ==
  /\ Step(r, "unpaper")
  /\ \/ /\ Has(r, "input")
        /\ dirs' = [dirs EXCEPT ![MyDir(r)].corrected = dirs[MyDir(r)].input]
        /\ Goto(r, "tesseract")
        /\ UNCHANGED request
     \/ Fails(r, "unavailable")
     \/ Fails(r, "error")

RunTesseract(r) ==
  /\ Step(r, "tesseract")
  /\ \/ /\ Has(r, "corrected")
        /\ Replies(r, "done", Decoded(dirs[MyDir(r)].corrected))
        /\ Goto(r, ToRemove(r))
        /\ UNCHANGED dirs
     \/ Fails(r, "unavailable")
     \/ Fails(r, "error")

\* Its error goes unseen.
RemoveAll(r) ==
  /\ at[r] = "remove"
  /\ Goto(r, "idle")
  /\ request' = [request EXCEPT ![r].dir = NoDir]
  /\ \/ /\ dirs' = [d \in DOMAIN dirs \ {MyDir(r)} |-> dirs[d]]
        /\ UNCHANGED left
     \/ /\ left' = left \cup {MyDir(r)}
        /\ UNCHANGED dirs
  /\ UNCHANGED <<imageVars, crashes, read>>

\* No request survives the server, nor does an edit; files do.
Crash ==
  /\ crashes > 0
  /\ crashes' = crashes - 1
  /\ edit' = NoEdit
  /\ at' = [r \in scene.requests |-> "idle"]
  /\ request' = [r \in scene.requests |-> NoRequest]
  /\ read' = [r \in scene.requests |-> {}]
  /\ left' = left \cup DOMAIN dirs
  /\ UNCHANGED <<scene, sheet, scanned, files, edits, turns, seen, astray, dirs>>

\* The page's images a request may be about.
PageWritten ==
  /\ WritePage
  /\ read' = [r \in scene.requests |->
                IF Running(r) /\ request[r].page = edit.page THEN read[r] \cup {edit.img}
                ELSE read[r]]
  /\ UNCHANGED <<at, request, dirs, crashes, left>>

Next == \/ (ScanPage \/ Edit) /\ UNCHANGED ocrVars
        \/ PageWritten
        \/ Crash
        \/ \E r \in scene.requests :
             \/ \E kind \in {"text", "pdf"}, p \in 1 .. 2 : Begin(r, kind, p)
             \/ Read(r) \/ MkdirTemp(r) \/ WritePPM(r) \/ RunUnpaper(r) \/ RunTesseract(r)
             \/ RemoveAll(r)

Spec == InitOcr /\ [][Next]_vars

-------------------------------------------------------------------------------
(* Properties *)

TypeOK ==
  /\ scene \in Scenes /\ sheet \in scene.sheets /\ scanned \in BOOLEAN
  /\ \A p \in DOMAIN files : files[p] = Torn \/ ImageOK(files[p])
  /\ edit = NoEdit \/ ImageOK(edit.img)
  /\ edits \in 0 .. scene.edits
  /\ DOMAIN turns = DOMAIN files /\ DOMAIN seen = DOMAIN files /\ astray \subseteq DOMAIN files
  /\ at \in [scene.requests -> Places]
  /\ DOMAIN dirs \subseteq Dirs /\ left \subseteq Dirs
  /\ crashes \in 0 .. scene.crashes

\* What a request replies with is of an image that its page has had since it
\* came in, upright and whole, whatever other requests do in their directories
\* and whichever edit is under way ("deskewing happens on a temporary copy used
\* solely for this OCR pass", ocr.go:46).
ReplyIsOfThePage ==
  \A r \in scene.requests :
    Running(r) \/ request[r].reply # "done" \/ request[r].result \in read[r] \ {Torn}

\* A temporary directory is there for a request that is running, unless the
\* server died or the directory could not be removed (ocr.go:63).
NoDirLeftBehind ==
  \A d \in DOMAIN dirs : d \in left \/ \E r \in scene.requests : Running(r) /\ MyDir(r) = d
===============================================================================
