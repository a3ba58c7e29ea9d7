------------------------------- MODULE PageApi -------------------------------
(***************************************************************************)
(* The HTTP handlers that read and modify one scan (internal/api:          *)
(* scan_handlers.go, edit_handlers.go, export_handlers.go) over the job's  *)
(* directory (internal/storage/store.go), together with the goroutine that *)
(* may still be scanning into it (scanjobs/manager.go).                    *)
(*                                                                         *)
(* No lock protects a job's directory: every handler loads meta.json, works*)
(* on its copy, touches page files and saves the copy.  A step is one      *)
(* file-system call; os.WriteFile is two, the open that truncates and the  *)
(* write, which goes to the file that was opened even if that has been     *)
(* renamed or removed since.                                               *)
(*                                                                         *)
(* Image k is the k-th one scanned.  Of its pixels only the orientation is *)
(* kept: a quarter turn (or a crop) is what changes the width and height   *)
(* that meta.json repeats.                                                 *)
(***************************************************************************)
EXTENDS Naturals, Sequences, Functions

CONSTANTS Clients,      \* HTTP clients, each with one request at a time
          Scanner,      \* the goroutine of a scan into this job
          NoImage,      \* there is no file of that name
          PageLimit,    \* bound: pages the job has or may get
          CombineLimit, \* bound: pages of one combined document
          Scenes        \* who does what, and what may go wrong: see below

Numbers == 1 .. PageLimit

AllOps == {"rename", "reorder", "rotate", "deletePage", "getPage", "export", "combine",
           "deleteScan"}

\* The requests each client makes; how many pages the scan has, or may get if
\* it only starts now; whether file-system calls may fail, and whether the
\* server may be killed and restarted.
Scene == [ops : [Clients -> SUBSET AllOps], pages : Numbers, scanning : BOOLEAN,
          diskFails : BOOLEAN, crashes : BOOLEAN]

ASSUME ScannerAssumption == Scanner \notin Clients
ASSUME BoundAssumption == /\ PageLimit \in Nat \ {0} /\ CombineLimit \in Nat
                          /\ NoImage \notin Numbers
ASSUME SceneAssumption == Scenes \subseteq Scene

VARIABLES
  scene,    \* the scene; no step changes it
  meta,     \* meta.json
  files,    \* the files in pages/
  dir,      \* the job's directories
  pc,       \* where each process stands
  loc,      \* its local variables
  asked,    \* history: the images that clients have asked to delete
  clashed   \* history: a page deletion has overlapped another one, or an edit,
            \* or has come after one that was cut short

vars == <<scene, meta, files, dir, pc, loc, asked, clashed>>

Procs == Clients \cup {Scanner}

\* PageMeta: its number, the number in its file name, and whether its width
\* and height are those of the turned image.
Page == [index : Numbers, file : Numbers, turned : BOOLEAN]
\* JobMeta: Status, Pages and PageCount.
Body == [status : {"running", "completed", "failed"}, pages : Seq(Page), count : Nat]
NoBody == [status |-> "running", pages |-> <<>>, count |-> 0]

\* page-00n.png, and the name it has while pages are being renumbered.
Names == {"page", "temp"} \X Numbers
File(n) == <<"page", n>>
Temp(n) == <<"temp", n>>

\* A page file: which image, how it is turned, whether it is only partly
\* written, and who has it open for writing.
Content == [img : Numbers \cup {NoImage}, turned : BOOLEAN, torn : BOOLEAN, open : SUBSET Clients]
Missing == [img |-> NoImage, turned |-> FALSE, torn |-> FALSE, open |-> {}]
Fresh(k) == [img |-> k, turned |-> FALSE, torn |-> FALSE, open |-> {}]

\* meta.json: "empty" once truncated, "corrupt" when two writers have left a
\* mixture that no longer parses.
Record == [state : {"absent", "empty", "corrupt", "whole"}, body : Body, open : SUBSET Procs]

\* A page file that changes its name: the number in it, and the new one.
Move == [file : Numbers, index : Numbers]

\* A deletion has the moves yet to begin, and those that have come to the
\* temporary name.  A reading request has the pages it wants, the files it has
\* read for them, and whether no deletion has been going on meanwhile.
Local == [body : Body, n : 0 .. PageLimit, data : Content,
          away : SUBSET Move, pending : SUBSET Move,
          want : Seq(Numbers), got : Seq(Content), calm : BOOLEAN]
NoLocal == [body |-> NoBody, n |-> 0, data |-> Missing, away |-> {}, pending |-> {},
            want |-> <<>>, got |-> <<>>, calm |-> FALSE]

Deleting == {"remove", "move"}
Editing == {"loadPage", "openPage", "writePage"}
Reading == {"readPage", "decodePage", "nextPage", "combinePage"}
Places == {"idle", "saveMeta", "writeMeta", "serve", "removeAll", "scan", "back", "off"}
            \cup Deleting \cup Editing \cup Reading

Indexes(pages) == {pages[i].index : i \in DOMAIN pages}
\* Mutant: page n is taken to be the n-th.
FindPagePosition(pages, n) == pages[n]
FindPage(pages, n) == pages[CHOOSE i \in DOMAIN pages : pages[i].index = n]
FileOf(p) == File(FindPage(loc[p].body.pages, loc[p].n).file)

FullJob == [status |-> "completed", count |-> scene.pages,
            pages |-> [i \in 1 .. scene.pages |-> [index |-> i, file |-> i, turned |-> FALSE]]]

Init == /\ scene \in Scenes
        /\ meta = [state |-> "whole", open |-> {},
                   body |-> IF scene.scanning THEN NoBody ELSE FullJob]
        /\ files = [f \in Names |-> IF f[1] = "page" /\ f[2] <= scene.pages /\ ~scene.scanning
                                    THEN Fresh(f[2]) ELSE Missing]
        /\ dir = "whole"
        /\ pc = [p \in Procs |-> IF p \in Clients THEN "idle"
                                 ELSE IF scene.scanning THEN "scan" ELSE "off"]
        /\ loc = [p \in Procs |-> NoLocal]
        /\ asked = {}
        /\ clashed = FALSE

-------------------------------------------------------------------------------
(* Storage *)

Goto(p, place) == pc' = [pc EXCEPT ![p] = place]

\* The end of a request, with whatever answer; the scan goes on or is over.
Return(p) ==
  /\ Goto(p, IF p \in Clients THEN "idle" ELSE IF loc[p].body.status = "running" THEN "scan" ELSE "off")
  /\ loc' = IF p \in Clients THEN [loc EXCEPT ![p] = NoLocal] ELSE loc

\* Mutant: the directories are created when they are not there.
AlwaysThere == TRUE
JobDirThere == dir # "gone"

\* SaveMeta: open(2) with O_CREATE and O_TRUNC ...
OpenMeta(p) ==
  /\ pc[p] = "saveMeta"
  /\ \/ /\ JobDirThere
        /\ meta' = [state |-> "empty", body |-> NoBody, open |-> meta.open \cup {p}]
        /\ Goto(p, "writeMeta")
        /\ UNCHANGED loc
     \/ /\ ~JobDirThere \/ scene.diskFails
        /\ Return(p)
        /\ UNCHANGED meta
  /\ UNCHANGED <<files, dir, asked, clashed>>

\* ... and write(2), at offset 0 of whatever is there by then: what a longer
\* record of another writer has beyond the end stays.
Overwrite(old, body) ==
  IF old.state = "empty"
  THEN {[old EXCEPT !.state = "whole", !.body = body]}
  ELSE {[old EXCEPT !.state = "whole", !.body = body],
        [old EXCEPT !.state = "corrupt", !.body = NoBody]}

WriteMeta(p) ==
  /\ pc[p] = "writeMeta"
  /\ IF p \in meta.open
     THEN \E new \in Overwrite([meta EXCEPT !.open = @ \ {p}], loc[p].body)
                     \cup (IF scene.diskFails THEN {[meta EXCEPT !.open = @ \ {p}]} ELSE {}) :
            meta' = new
     ELSE UNCHANGED meta
  /\ Return(p)
  /\ UNCHANGED <<files, dir, asked, clashed>>

\* LoadMeta, which every request starts with; one that cannot read or parse
\* meta.json answers 404 at once.
Load(c, op, place, n) ==
  /\ pc[c] = "idle"
  /\ op \in scene.ops[c]
  /\ meta.state = "whole"
  /\ loc' = [loc EXCEPT ![c] = [NoLocal EXCEPT !.body = meta.body, !.n = n]]
  /\ Goto(c, place)

-------------------------------------------------------------------------------
(* handleRenameScan, handleReorderPages *)

\* The name itself tells no property anything apart.
Rename(c) ==
  /\ Load(c, "rename", "saveMeta", 0)
  /\ UNCHANGED <<meta, files, dir, asked, clashed>>

\* The order has to name every page once.
Reorder(c) ==
  LET pages == meta.body.pages
  IN  /\ pc[c] = "idle"
      /\ "reorder" \in scene.ops[c]
      /\ meta.state = "whole"
      /\ \E order \in [DOMAIN pages -> Indexes(pages)] :
           /\ IsInjective(order)
           /\ loc' = [loc EXCEPT ![c] =
                        [NoLocal EXCEPT !.body = [meta.body EXCEPT !.pages =
                           [i \in DOMAIN pages |-> FindPage(pages, order[i])]]]]
      /\ Goto(c, "saveMeta")
      /\ UNCHANGED <<meta, files, dir, asked, clashed>>

-------------------------------------------------------------------------------
(* handleDeletePage *)

\* Another client is in the middle of a request of this kind.
Others(c, places) == \E d \in Clients \ {c} : pc[d] \in places

DeletePage(c, n) ==
  /\ pc[c] = "idle"
  /\ "deletePage" \in scene.ops[c]
  /\ meta.state = "whole"
  /\ n \in Indexes(meta.body.pages)
  /\ loc' = [p \in Procs |-> IF p = c THEN [NoLocal EXCEPT !.body = meta.body, !.n = n]
                             ELSE [loc[p] EXCEPT !.calm = FALSE]]
  /\ Goto(c, "remove")
  /\ asked' = asked \cup {files[File(FindPage(meta.body.pages, n).file)].img}
  /\ clashed' = \/ clashed \/ Others(c, Deleting \cup Editing)
                 \/ \E k \in Numbers : files[Temp(k)] # Missing
  /\ UNCHANGED <<meta, files, dir>>

\* The pages that are left, in order.  (Numbers are distinct: MetaWellFormed.)
\* Mutant: the n-th is taken for page n.
WithoutPosition(pages, n) ==
  [i \in 1 .. Len(pages) - 1 |-> IF i < n THEN pages[i] ELSE pages[i + 1]]
Without(pages, n) ==
  LET gone == CHOOSE i \in DOMAIN pages : pages[i].index = n
  IN  [i \in 1 .. Len(pages) - 1 |-> IF i < gone THEN pages[i] ELSE pages[i + 1]]

\* ... and numbered from 1.  Mutants: numbered from 0; the file name is kept.
RenumberedFromZero(pages) ==
  [i \in DOMAIN pages |-> [pages[i] EXCEPT !.index = i - 1, !.file = i]]
RenumberedKeepingFile(pages) == [i \in DOMAIN pages |-> [pages[i] EXCEPT !.index = i]]
Renumbered(pages) == [i \in DOMAIN pages |-> [pages[i] EXCEPT !.index = i, !.file = i]]

\* The files that change their name.  Mutant: only those that move down.
MovesDown(pages) ==
  {[file |-> pages[i].file, index |-> i] : i \in {k \in DOMAIN pages : pages[k].file > k}}
Moves(pages) ==
  {[file |-> pages[i].file, index |-> i] : i \in {k \in DOMAIN pages : pages[k].file # k}}

RemoveFile(c) ==
  LET rest == Without(loc[c].body.pages, loc[c].n)
  IN  /\ pc[c] = "remove"
      /\ \/ /\ files[FileOf(c)] # Missing
            /\ files' = [files EXCEPT ![FileOf(c)] = Missing]
            /\ loc' = [loc EXCEPT ![c].body.pages = Renumbered(rest),
                                  ![c].body.count = Len(rest), ![c].away = Moves(rest)]
            /\ Goto(c, IF Moves(rest) = {} THEN "saveMeta" ELSE "move")
         \/ /\ files[FileOf(c)] = Missing \/ scene.diskFails
            /\ Return(c)
            /\ UNCHANGED files
      /\ UNCHANGED <<meta, dir, asked, clashed>>

\* rename(2) replaces the target if there is one.
RenameFile(c, from, to, away, pending) ==
  \/ /\ files[from] # Missing
     /\ files' = [files EXCEPT ![to] = files[from], ![from] = Missing]
     /\ loc' = [loc EXCEPT ![c].away = away, ![c].pending = pending]
     /\ Goto(c, IF away \cup pending = {} THEN "saveMeta" ELSE "move")
  \/ /\ files[from] = Missing \/ scene.diskFails
     /\ Return(c)
     /\ UNCHANGED files

\* The next one, in the order of the page list.
IsFirst(m, moves) == m \in moves /\ \A k \in moves : m.index <= k.index

\* Every file that changes its name goes to its temporary name first ...
MoveAside(c) ==
  /\ pc[c] = "move"
  /\ \E m \in Move : /\ IsFirst(m, loc[c].away)
                     /\ RenameFile(c, File(m.file), Temp(m.file),
                                   loc[c].away \ {m}, loc[c].pending \cup {m})
  /\ UNCHANGED <<meta, dir, asked, clashed>>

\* ... and then, when all are there, to its new one.
MoveBack(c) ==
  /\ pc[c] = "move"
  /\ loc[c].away = {}
  /\ \E m \in Move : /\ IsFirst(m, loc[c].pending)
                     /\ RenameFile(c, Temp(m.file), File(m.index), {}, loc[c].pending \ {m})
  /\ UNCHANGED <<meta, dir, asked, clashed>>

-------------------------------------------------------------------------------
(* applyEdit: rotate by a quarter turn, standing for every edit *)

Rotate(c, n) ==
  /\ Load(c, "rotate", "loadPage", n)
  /\ n \in Indexes(meta.body.pages)
  /\ clashed' = (clashed \/ Others(c, Deleting))
  /\ UNCHANGED <<meta, files, dir, asked>>

\* A file that is missing or does not decode is an error.
LoadPage(c) ==
  LET content == files[FileOf(c)]
  IN  /\ pc[c] = "loadPage"
      /\ IF content = Missing \/ content.torn
         THEN Return(c)
         ELSE /\ loc' = [loc EXCEPT ![c].data =
                           [content EXCEPT !.turned = ~@, !.open = {}]]
              /\ Goto(c, "openPage")
      /\ UNCHANGED <<meta, files, dir, asked, clashed>>

OpenPage(c) ==
  /\ pc[c] = "openPage"
  /\ \/ /\ dir = "whole"
        /\ files' = [files EXCEPT ![FileOf(c)] =
                       [loc[c].data EXCEPT !.torn = TRUE, !.open = files[FileOf(c)].open \cup {c}]]
        /\ Goto(c, "writePage")
        /\ UNCHANGED loc
     \/ /\ dir # "whole" \/ scene.diskFails
        /\ Return(c)
        /\ UNCHANGED files
  /\ UNCHANGED <<meta, dir, asked, clashed>>

\* The page list with the shape of the page that was edited.  Mutant: it is
\* left as it was.
OldShape(c) == loc[c].body.pages
NewShape(c) ==
  LET pages == loc[c].body.pages
  IN  [i \in DOMAIN pages |-> IF pages[i].index = loc[c].n
                              THEN [pages[i] EXCEPT !.turned = loc[c].data.turned]
                              ELSE pages[i]]

\* The write to the opened file, under whatever name it has by now.  When two
\* edits have truncated it both write at offset 0, and the bytes may be mixed.
WritePage(c) ==
  /\ pc[c] = "writePage"
  /\ \E torn \in BOOLEAN :
       /\ torn => scene.diskFails \/ \E f \in Names : c \in files[f].open /\ ~files[f].torn
       /\ files' = [f \in Names |->
            IF c \in files[f].open
            THEN [loc[c].data EXCEPT !.torn = torn, !.open = files[f].open \ {c}]
            ELSE files[f]]
       /\ IF torn /\ scene.diskFails
          THEN Return(c)
          ELSE /\ loc' = [loc EXCEPT ![c].body.pages = NewShape(c)]
               /\ Goto(c, "saveMeta")
  /\ UNCHANGED <<meta, dir, asked, clashed>>

-------------------------------------------------------------------------------
(* The requests that read: handleGetPage, handleExportPage, handleExtractText, *)
(* handleCombine                                                               *)

\* The page is sent as it is (handleGetPage, and format=png).
GetPage(c, n) ==
  /\ Load(c, "getPage", "readPage", n)
  /\ n \in Indexes(meta.body.pages)
  /\ UNCHANGED <<meta, files, dir, asked, clashed>>

\* It is decoded first (format=jpg and pdf, and the text extraction).
Export(c, n) ==
  /\ Load(c, "export", "decodePage", n)
  /\ n \in Indexes(meta.body.pages)
  /\ UNCHANGED <<meta, files, dir, asked, clashed>>

\* Pages in any order, any of them more than once.
Combine(c) ==
  /\ pc[c] = "idle"
  /\ "combine" \in scene.ops[c]
  /\ \E k \in 1 .. CombineLimit : \E want \in [1 .. k -> Numbers] :
       loc' = [loc EXCEPT ![c] = [NoLocal EXCEPT !.want = want,
                                                 !.calm = ~Others(c, Deleting)]]
  /\ Goto(c, "nextPage")
  /\ UNCHANGED <<meta, files, dir, asked, clashed>>

\* The record is read again for every page.
NextPage(c) ==
  LET n == loc[c].want[Len(loc[c].got) + 1]
  IN  /\ pc[c] = "nextPage"
      /\ \/ /\ meta.state = "whole" /\ n \in Indexes(meta.body.pages)
            /\ loc' = [loc EXCEPT ![c].body = meta.body, ![c].n = n]
            /\ Goto(c, "combinePage")
         \/ /\ meta.state # "whole" \/ n \notin Indexes(meta.body.pages)
            /\ Return(c)
      /\ UNCHANGED <<meta, files, dir, asked, clashed>>

\* LoadPageFile and png.Decode.  Mutant: the first page read is put into the
\* document for all of them.
GotFirst(c, content) == Append(loc[c].got, IF loc[c].got = <<>> THEN content ELSE loc[c].got[1])
Got(c, content) == Append(loc[c].got, content)

ReadPage(c) ==
  LET content == files[FileOf(c)]
  IN  /\ pc[c] \in {"readPage", "decodePage", "combinePage"}
      /\ IF content = Missing \/ (content.torn /\ pc[c] # "readPage")
         THEN Return(c)
         ELSE /\ loc' = [loc EXCEPT ![c].got = Got(c, [content EXCEPT !.open = {}])]
              /\ Goto(c, IF pc[c] = "combinePage" /\ Len(loc[c].got) + 1 < Len(loc[c].want)
                         THEN "nextPage" ELSE "serve")
      /\ UNCHANGED <<meta, files, dir, asked, clashed>>

Serve(c) ==
  /\ pc[c] = "serve"
  /\ Return(c)
  /\ UNCHANGED <<meta, files, dir, asked, clashed>>

-------------------------------------------------------------------------------
(* handleDeleteScan: os.RemoveAll, entry by entry in any order *)

DeleteScan(c) ==
  /\ Load(c, "deleteScan", "removeAll", 0)
  /\ asked' = asked \cup Numbers
  /\ UNCHANGED <<meta, files, dir, clashed>>

RemoveEntry(c) ==
  /\ pc[c] = "removeAll"
  /\ \/ /\ \E f \in Names : files[f] # Missing /\ files' = [files EXCEPT ![f] = Missing]
        /\ UNCHANGED <<meta, dir>>
     \/ /\ meta.state # "absent"
        /\ meta' = [state |-> "absent", body |-> NoBody, open |-> {}]
        /\ UNCHANGED <<files, dir>>
     \/ /\ dir = "whole" /\ \A f \in Names : files[f] = Missing
        /\ dir' = "noPages"
        /\ UNCHANGED <<meta, files>>
  /\ UNCHANGED <<pc, loc, asked, clashed>>

\* The job directory goes last, and only when it is empty; an entry that
\* another process has added meanwhile makes RemoveAll give up.
RemoveEnds(c) ==
  /\ pc[c] = "removeAll"
  /\ \/ dir = "noPages" /\ meta.state = "absent" /\ dir' = "gone"
     \/ dir = "gone" /\ UNCHANGED dir
     \/ /\ scene.diskFails \/ \E p \in Procs \ {c} : pc[p] \notin {"idle", "off"}
        /\ UNCHANGED dir
  /\ Return(c)
  /\ UNCHANGED <<meta, files, asked, clashed>>

-------------------------------------------------------------------------------
(* The scanning goroutine: run, saveImage and finish.  What a save that fails *)
(* leaves of a page file is in no record; it is modelled in ScanJobs.tla.     *)

\* A side becomes the next page; PageCount is set when it is the last one of
\* its sheet.
SaveSide(isLast) ==
  LET n == loc[Scanner].n + 1
  IN  /\ n <= scene.pages
      /\ dir = "whole"
      /\ files' = [files EXCEPT ![File(n)] = Fresh(n)]
      /\ loc' = [loc EXCEPT ![Scanner].n = n,
                            ![Scanner].body.count = IF isLast THEN n ELSE @,
                            ![Scanner].body.pages =
                              Append(@, [index |-> n, file |-> n, turned |-> FALSE])]
      /\ Goto(Scanner, IF isLast THEN "saveMeta" ELSE "back")
      /\ UNCHANGED <<meta, dir, asked, clashed>>

\* The front of the next sheet, which has a back or none.
ScanPage == /\ pc[Scanner] = "scan"
            /\ \/ SaveSide(TRUE)
               \/ loc[Scanner].n + 1 < scene.pages /\ SaveSide(FALSE)

ScanBack == pc[Scanner] = "back" /\ SaveSide(TRUE)

\* finish: the feeder is empty, the scanner fails or a side cannot be saved.
\* The pages stay as they are, and so does PageCount.
ScanFinish ==
  /\ \E status \in {"completed", "failed"} :
       /\ \/ pc[Scanner] = "scan"
          \/ pc[Scanner] = "back" /\ status = "failed" /\ (dir # "whole" \/ scene.diskFails)
       /\ loc' = [loc EXCEPT ![Scanner].body.status = status]
  /\ Goto(Scanner, "saveMeta")
  /\ UNCHANGED <<meta, files, dir, asked, clashed>>

-------------------------------------------------------------------------------
Crash ==
  /\ scene.crashes
  /\ pc' = [p \in Procs |-> IF p \in Clients THEN "idle" ELSE "off"]
  /\ loc' = [p \in Procs |-> NoLocal]
  /\ meta' = [meta EXCEPT !.open = {}]
  /\ files' = [f \in Names |-> [files[f] EXCEPT !.open = {}]]
  /\ UNCHANGED <<dir, asked, clashed>>

Request(c) == \/ Rename(c) \/ Reorder(c) \/ Combine(c) \/ DeleteScan(c)
              \/ \E n \in Numbers : DeletePage(c, n) \/ Rotate(c, n) \/ GetPage(c, n) \/ Export(c, n)

Handler(c) == \/ RemoveFile(c) \/ MoveAside(c) \/ MoveBack(c)
              \/ LoadPage(c) \/ OpenPage(c) \/ WritePage(c)
              \/ NextPage(c) \/ ReadPage(c) \/ Serve(c) \/ RemoveEntry(c) \/ RemoveEnds(c)

Save(p) == OpenMeta(p) \/ WriteMeta(p)

Next == /\ \/ \E c \in Clients : Request(c) \/ Handler(c)
           \/ \E p \in Procs : Save(p)
           \/ ScanPage \/ ScanBack \/ ScanFinish
           \/ Crash
        /\ UNCHANGED scene

Spec == Init /\ [][Next]_vars

-------------------------------------------------------------------------------
(* Properties *)

TypeOK == /\ scene \in Scenes
          /\ meta \in Record
          /\ files \in [Names -> Content]
          /\ dir \in {"whole", "noPages", "gone"}
          /\ pc \in [Procs -> Places]
          /\ loc \in [Procs -> Local]
          /\ asked \subseteq Numbers \cup {NoImage}
          /\ clashed \in BOOLEAN

\* Every record a handler can read is well formed, whoever wrote it last: the
\* pages are numbered from 1 without gaps, each names its own file, and
\* PageCount is right, but for a scan that has failed between the two sides of
\* a sheet (manager.go:142): the record has the front, the count has not.
WellFormed(body) == /\ \A i \in DOMAIN body.pages : body.pages[i].file = body.pages[i].index
                    /\ \A i, k \in DOMAIN body.pages :
                         body.pages[i].index = body.pages[k].index => i = k
                    /\ Indexes(body.pages) = 1 .. Len(body.pages)
Counted(body) == \/ body.count = Len(body.pages)
                 \/ body.status = "failed" /\ body.count + 1 = Len(body.pages)
MetaWellFormed == meta.state = "whole" => WellFormed(meta.body) /\ Counted(meta.body)

\* No request is being handled and no scan goes on.
Quiet == \A p \in Procs : pc[p] \in {"idle", "off"}

\* Between requests the record and the directory agree: every listed page has
\* its file, complete and of the listed shape, and there is no other file.
IdleConsistent ==
  Quiet /\ dir = "whole" /\ meta.state = "whole" =>
    LET pages == meta.body.pages
    IN  /\ \A i \in DOMAIN pages : LET content == files[File(pages[i].file)]
                                   IN  content # Missing /\ ~content.torn
                                       /\ content.turned = pages[i].turned
        /\ \A f \in Names : files[f] # Missing => \E i \in DOMAIN pages : f = File(pages[i].file)

\* "deleting one never destroys any other page's image" (scan_handlers.go:264):
\* an image that nobody has asked to delete is still in some file, be it under
\* a temporary name or cut short by an interrupted edit.
ImagesSurvive ==
  \A k \in 1 .. IF scene.scanning THEN loc[Scanner].n ELSE scene.pages :
    k \notin asked => \E f \in Names : files[f].img = k

\* For this it is enough that no deletion of a page overlaps another, or an
\* edit, or finds files that an interrupted one has left under temporary names:
\* the scan that goes on, requests that write only the record, failing calls
\* and crashes lose no image.
ImagesSurviveApart == ~clashed => ImagesSurvive

\* The pages of a combined document are whole, and those asked for under
\* different numbers are different images, if no page is deleted while they
\* are read one by one, each from the record of its moment.
CombinedPagesDiffer ==
  \A c \in Clients : pc[c] = "serve" /\ loc[c].calm /\ ~clashed =>
    \A i, k \in DOMAIN loc[c].want :
      /\ ~loc[c].got[i].torn
      /\ loc[c].got[i].img = loc[c].got[k].img => loc[c].want[i] = loc[c].want[k]

\* A deleted scan leaves nothing behind, and nothing brings it back.
GoneIsGone == dir = "gone" => meta.state = "absent" /\ \A f \in Names : files[f] = Missing

\* "once finished, storage.Store holds the authoritative persisted record"
\* (manager.go:45): after the scan, the record is not that of a running scan.
FinishedScanIsTerminal == Quiet /\ meta.state = "whole" => meta.body.status # "running"

\* not_found means "The requested job or page doesn't exist." (README.md:209):
\* a job that has not been deleted can be read once no request is in progress.
IdleJobIsReadable == Quiet /\ dir = "whole" => meta.state = "whole"
===============================================================================
