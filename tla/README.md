# TLA+ models of doxie-scanner

doxie-scanner is a Go server (with a small web application) that drives a Doxie DX400 sheet-fed scanner over
USB, keeps every scan as a directory of PNG files and a `meta.json`, and lets clients look at, edit, export and
delete the scans over HTTP. These modules model the parts of it where a test hardly reaches: the interleavings
of request handlers with the goroutine that scans, what a crash or a failed write leaves behind, the conversation
with a scanner that may fail at any byte of it, and a browser tab whose answers come late, out of order or not at all.

Paths below are relative to the repository; `manager.go` is `internal/scanjobs/manager.go` and so on, as in
`PROJECT.json`, which maps every definition to the lines it stands for.

## 1. The system

| Component | State it keeps | Operations | Hard behaviour |
|---|---|---|---|
| Scan-job manager (`internal/scanjobs`) | `m.running`, the live state of the last job started, under a mutex; the `JobMeta` each scan goroutine owns | `StartScan`, `run`, `saveImage`, `finish`, `CurrentJob` | one scanner, no queue; three critical sections with driver calls and file writes between them; errors ignored on purpose; crash |
| Storage (`internal/storage`) | `jobs/<id>/meta.json`, `pages/page-NNN.png` | create, save and load a record; save, load, rename, remove page files; delete a job | no locks; `os.WriteFile` truncates first; several writers |
| HTTP API (`internal/api`) | none of its own | `/api/scans...`: start, get, rename, delete, reorder; pages: get, rotate, crop, delete; export, combine, OCR; scanner status | each handler is load – change – save with nothing held in between |
| Driver interface and registry (`internal/driver`) | table filled at start-up | `Detect`, `Open`, `HasNextPage`, `ScanPage`, `Close` | the contract between scan loop and driver |
| Doxie driver (`internal/doxiedx400`) | window flags; chunks of the current sheet | a script of 14 commands per sheet; sense classification; splitting of duplex stripes; edits | end of document arrives as an error; front and back are told apart by parity |
| SCSI transport (`internal/scsiusb/cdb.go`) | none between commands | `Command` with four attempts, `REQUEST SENSE` | repeats commands that are not idempotent; short transfers; no sequence numbers |
| USB device (`internal/scsiusb/usbdevice.go`) | four library handles | `Open`, `Close` | eight calls that may fail; cleanup order; claim shared with status polls |
| Web application (`internal/web/static/app.js`) | selected scan, page grid, viewer, combine selection, progress timer, busy depth | asynchronous event handlers | answers out of order; page numbers that deletions reuse; overlapping polls |
| Image assembly and page editing (`image.go`, `edit.go` of the driver) | the stored image | splitting stripes, dropping blank backs; rotate, crop | edits compose; a crop rectangle may overflow `int` |
| PDF export, OCR (`internal/pdfexport`, `internal/ocr`) | a temporary directory per request | `CombinePagesPDF`; `ExtractText` through `unpaper` and `tesseract` | six steps may fail; pages are edited meanwhile; the server may die |
| Start-up and configuration | read once | – | a restart forgets `m.running` |

How they interact: a `POST /api/scans` reserves the manager and creates the record, then a goroutine opens the
driver, and for every sheet saves the page files, rewrites `meta.json` (a *checkpoint*) and publishes the
progress in `m.running`. `GET /api/scans/{id}` reads the record from disk and overlays the progress.
`GET /api/scanner/status` opens and closes the device, in competition with a scan. All other requests work on
the job's directory directly, without the manager and without each other's knowledge.

What makes each part correct:

* manager: one job at a time; the busy flag is exact (no job is refused or accepted wrongly); the persisted
  record is always backed by files; it is final once terminal; every accepted scan ends;
* storage and API: a record that can be read is well formed; record and directory agree between requests; no
  image is lost that nobody asked to delete; what is deleted stays deleted;
* driver and transport: host and scanner stay in step; a page is the next sheet, whole, its sides not mixed up;
  the batch ends only when the feeder is empty; a session always ends;
* USB device: nothing is left open, the claim is always given up;
* images: a stored page shows its side of the sheet, turned and cut as it was asked for, and nothing else; a back is
  dropped exactly when it is blank;
* text and PDF: the reply is about the page that was asked for, whole; no temporary directory stays behind;
* web application: a page number is used only for the page the user has seen, as far as the code goes (section 4 has
  the exceptions); the selection and the grid settle on one
  scan; the busy overlay comes down; the start button is disabled while a scan is watched and not for good; a scan
  is watched to its end.

## 2. The modules

| Module | Models |
|---|---|
| `ScanLifecycle` | abstract: jobs run one at a time and end once |
| `ScanJobs` | the manager with the store, the claim on the scanner, status polls and reading clients; implements `ScanLifecycle` |
| `ScanJobsProofs` | proofs about `ScanJobs` for every value of its constants |
| `PageDoc` | abstract: a scan is a sequence of pages that can be turned, removed, reordered |
| `PageApi` | the handlers that read or change one scan, over `meta.json` and the page files, with the goroutine that may still be scanning into it |
| `PageApiProofs` | proofs about `PageApi`: records and files |
| `PageFilesProofs` | proofs about `PageApi`: which image is under which name |
| `PageApiRefinement` | `PageApi` with the history variable that makes it an implementation of `PageDoc` |
| `PageDocProofs` | proofs about `PageApiRefinement`: one client's requests are operations of `PageDoc` |
| `SheetFeed` | abstract: what the scan loop expects of a `driver.Session` |
| `ScannerSession` | `HasNextPage`/`ScanPage` as sequences of `command` calls over `scsiusb.Command` and an external scanner; implements `SheetFeed` |
| `ScannerSessionProofs` | proofs about `ScannerSession`: types, host and scanner stay in step, its pages are whole sheets, it implements `SheetFeed` |
| `UsbDevice` | opening and closing the interface by several goroutines |
| `UsbDeviceProofs` | proofs about `UsbDevice` |
| `PageImage` | pixels: from stripes to the stored page, and the edits |
| `TextExtraction` | `PageImage` with the requests that read its pages: text extraction and the PDF of a page |
| `TextExtractionProofs` | proofs about `TextExtraction` and `PageImage`: images, pages and replies |
| `WebApp` | `app.js` in one browser tab, over a server seen from far away |
| `WebAppProofs` | proofs about `WebApp` |
| `MC*` | constants for TLC |

The models meet at their edges. `ScanJobs` has the session as three steps that succeed or fail (`Open`,
`HasNextPage`, `ScanPage`); `ScannerSession` is what is behind two of them and `UsbDevice` what is behind the
third and behind `DetectOpen`. `PageApi` has the goroutine of `ScanJobs` reduced to the steps that change its copy of
the page list (`ScanPage`, `ScanBack`, `ScanFinish`) and to its saves, because what matters there is what it writes
over the records of the handlers.
`PageApi` keeps of an image which one it is and whether it is turned; `PageImage` has the pixels behind that, and
`TextExtraction` the readers that take longer than one read. `WebApp` has the server of `ScanJobs` and `PageApi`
reduced to the answers a single user's requests get: each is handled at once, as a whole, and successfully unless
the request fails.

Several modules have *scenes*: a record, chosen once in `Init`, of who does what and what may go wrong. A run then
checks a handful of worlds instead of the product of everything, and the properties hold in each.

### ScanJobs

`pc[j]` is where job `j`'s `StartScan` call, and then its goroutine, stands; `meta[j]` is the `JobMeta` it owns;
`disk[j]` is `meta.json`; `running` is `m.running`. A step is one critical section, one driver call or one
file-system operation. A `SaveMeta` is two steps: the `open(2)` that truncates, after which the file is `Torn`,
and the `write(2)`. Pages are numbered in scanning order, so a page list is its length. Sheets with an empty or
blank back have only a front (`ScanPage` chooses). `Crash` keeps `disk`, `files` and `paper`: nothing at start-up
looks at old jobs. Readers take two steps, as `handleGetScan` does: the record, then the live state.

### PageApi

`pc[p]`, `loc[p]` are a handler's place and its copy of the record. `files` maps names to contents, a temporary
name being one that `renumberPages` uses; a file that is open for writing remembers by whom, since a write goes
to the file that was opened even if it has been renamed since. A write of `meta.json` over another writer's data
can leave a mixture that does not parse (`Overwrite`). The goroutine saves a front (`ScanPage`) and then a back if the
sheet has one (`ScanBack`), and sets the count with the last side of a sheet; if the back cannot be saved, `ScanFinish`
saves a record that lists the front and does not count it. An image is its number and whether it is turned, which
stands for every edit that changes the width and height the record repeats.

Requests that read (`getPage`, `export`, `combine`) look a page up in the record and then read its file. `combine`
does so page by page, with the record loaded anew each time, as `handleCombine` does. Histories: `asked` has the
images that clients wanted deleted; `clashed` says that a page deletion has overlapped another one, or an edit, or
has come after one that was cut short, whose files still have temporary names; a reader's `calm` says that no page
deletion was under way while it read.

### PageImage and TextExtraction

A pixel is where it comes from, `<<stripe, line, x>>`, and a picture is a function from coordinates to pixels, so
rotating and cropping are what the code does with coordinates, and the properties can say of every pixel where it
should be. Whether a pixel is dark is in the sheet's `ink`. Arithmetic of crop rectangles wraps at `IntBits`.
`TextExtraction` adds requests with their place in `ExtractText` (or the single read of a page's PDF), the temporary
directories with the two files in them, and the external programs, which read a file and write another or fail.
An edit overwrites the page in two steps, in between which the file is `Torn`; a crash keeps files and directories.

### WebApp

JavaScript runs to completion between two `await`s, so a step is what a click, a timer tick or an answer sets off,
up to the next `await`. `calls` lists the requests on the way; the server answers one (`Answer`), and its answer
arrives (`Return`), in any order unless the scene is `ordered`. Any request may fail, before or after it took
effect. `busyDepth` is the overlay of `withBusy`, `viewer` the page viewer: both cover the page, and a click goes
to what is on top. The viewer has a `phase`: `hide()`, or the button that dismisses it, only starts to fade it out
(`DeletePageReturns`, `CloseViewer`), and `state.viewer` lasts until `hidden.bs.modal` (`ViewerHidden`), which may come
after the overlay is down; until then the viewer takes clicks, for the page number it has.

`shown` is the grid, with the images its thumbnails have loaded. They are loaded when `renderJobDetail` runs: after
the `await` of `selectJob`, at a change of the selection (`Toggle`), and at the end of a drag (`DragEnds`). `selectJob`
changes the address of the images (`renderNonce`), so what is rendered between a deletion at the server and the
`selectJob` that follows it may come from the browser's cache or be loaded anew: `Rendered` has both. `shown.stale` is
a history: a page of that scan has been deleted since the thumbnails were loaded, or was while they were.

Other histories: `picked` is the image that was on display when a combine key was picked, `shifted` the keys that a
deletion has renumbered since, or had renumbered already when they were picked from outdated thumbnails or the fading
viewer of a deleted page, `late` (of a request) that it comes from such a viewer, `lost` the scans whose deletion of a
page was answered by an error although it happened. No scene lets
the user delete pages of a scan that is still running: what then becomes of the page list is decided by the
goroutine's own copy of it, which is the subject of `PageApi`, and not by the server as it is seen from here.

### ScannerSession

`at` is the command of the script (`hasPaper`, then `scanOnePage`), `phase` the place in `scsiusb.Command`, `pipe`
the transfers the scanner has queued. The scanner is external and modelled from what the driver's tests script:
it executes a command when it has received its CDB and, for SET WINDOW and SEND, its payload, queues the data phase and
a status, and on an error an empty data phase and CHECK CONDITION. A step is one write or one read: `SendCDB` and
`SendPayload` are two, with an error path each, and either makes `Command` start over with the CDB. A scanner that
waits for a payload then (`awaits`) is taken to start over as well, which is what
`TestCommand_OutDataWriteErrorRetries` expects of it, and the properties about pages rest on this; one that takes the CDB
for the payload is a fault of its own (`muddle`), after which only `SessionEnds` claims anything. What may go wrong in
one session is a record of `Troubles`: kinds and a number.

| kind | meaning |
|---|---|
| `write` | a CDB or a payload is not delivered |
| `muddle` | the CDB that comes after a payload that was not delivered is taken for it |
| `read` | a read fails, whether or not it has consumed its transfer |
| `busy`, `jam` | the scanner answers BUSY, or reports a hardware error |
| `soft` | it reports a success as CHECK CONDITION with sense key 0 |
| `pulled` | a sheet is taken out by hand |
| `split` | image data arrives in two short transfers |
| `bare` | an error without a data phase, as `scan_test.go:96` scripts it |

Where host and scanner are out of step, bytes are read as something they are not, and every meaning they can
have is a branch (`Arbitrary`, `StatusByte`, `SenseCodes`, `PaperBit`).

### UsbDevice

The eight library calls of `openDevice` in order, with the handles each error return closes. The library is
external; its rule that a handle closes only after those opened from it is in `CloseHandle`.

## 3. What is checked

| Run | Bounds | Shows |
|---|---|---|
| `ScanJobsFaults` | 2 jobs, 3 sheets, 1 poller, 1 reader, any write fails, crashes; symmetry in the jobs | the safety properties of the manager: `BusyFlagExact`, `DeviceExclusive`, `SavedPagesHaveFiles`, `CompletedIsExact`, `CountTrailsByOneFront`, `IdleMeansPersisted`; a record that can be read lists all pages saved but those of the sheet in hand, and one that cannot is in the middle of a `SaveMeta` or before its first, where a crash costs all of it (`CrashLosesOneSheet`); live progress is never older than the page list by more than a sheet (`LiveProgressFresh`); a false "not found" is transient (`NotFoundIsTransient`) |
| `ScanJobsLifecycle` | 2 jobs, 2 sheets, 1 poller, writes fail, crashes; fair | `ImplementsLifecycle`, `TerminalIsFinal`; and `ScanEnds`, `SessionReleased` |
| `PageApiDocument` | 1 client, 4 pages, all requests, documents of up to 3 pages | `ImplementsPageDoc`: each request is one abstract operation or none; `IdleConsistent`; `ServesDocument`: what is read, exported or combined is what the document has |
| `PageApiScenes` | 2 clients, up to 4 pages, documents of 2; six scenes: failing calls and crashes; one client during a scan, with failing calls; two clients during a scan; deleting against reordering and reading; two that delete, turn and combine; one that deletes again after a deletion that was cut short | `MetaWellFormed`: numbers, files and the count, which is one short only for a scan that failed between the sides of a sheet; `GoneIsGone`; `ImagesSurviveApart`: an image is lost only where a page deletion overlaps another or an edit, or follows one that was cut short; `CombinedPagesDiffer`: a combined document has the pages asked for unless a page is deleted meanwhile |
| `ScannerSession` | 2 sheets of 3 stripes, duplex, 4 attempts, six combinations of up to 5 faults; fair | `InStep`, `SheetsComplete`, `ImplementsSheetFeed` for the faults after which a command may be repeated, a CDB or payload that is not delivered among them; `SessionEnds` for all |
| `UsbDevice` | 3 openers; fair | `NothingLeaks`, `ClaimIsReleased` |
| `WebApp` | 2 scans of up to 2 pages, 2 or 3 requests on the way, at most 1 failure; seven scenes; fair | `EditsHitTheViewedPage`, `SelectionShowsWhatWasPicked`, `SelectionSettles`, `StartButtonFollowsTheScan`; `OverlayComesDown`, `WatchEnds` |
| `TextExtraction` | images 2 wide, 1 line to a stripe, up to 4 stripes (5 for the edited sheet), 3-bit integers, 3 edits; 2 requests and 1 crash while a page is turned | `PageShowsItsSide`, `BlankBacksAreDropped`, `ReplyIsOfThePage`, `NoDirLeftBehind` |

`PageApi`, `ScannerSession`, `WebApp` and `TextExtraction` each have their type invariant checked as well. Those of
`ScanJobs` and `UsbDevice` are only proved, and no run repeats the inductive invariants (section 5); two consequences
of them, `OneScanInFlight` and `ProgressIsSaved`, are theorems only, too. Every other property of the table is both
checked and proved, but for liveness.

Why the bounds are enough. Manager: jobs interact only through `running` and `holder`, which remember one job, so
two jobs show every overlap of an old job with a new one; three sheets give a first, a middle and a last, with one
or two sides each; the theorems do without these bounds. Pages: four pages give deletions at both ends and in the
middle after every reordering, the most that `renumberPages` tells apart; two clients suffice for every pair of
requests, and the theorems hold for any number. Session: five faults are one more than `Command` has attempts,
three stripes are an odd number, so that front and back differ in length, and two sheets show what one leaves
behind for the next. Browser: two scans give every change from one to another, two pages a deletion that renumbers
another page and one that does not; the overlay lets one action run at a time beside the polls and the reloads of
the scan list, so three requests on their way show each reordering; a second failure would find the page as the
first one left it. Scenes with one scan have three requests and a failure, those with both have either fewer
requests or no failure. Images: two by two and two by three pixels tell all four orientations and every cut apart, three-bit
integers overflow for rectangles just outside, and three edits undo and redo a turn; an oblong sheet shows when
axes are exchanged. Deadlock is not checked where the system may really stop: a scan that is deleted or unreadable
takes no more requests, a session that is over no more commands, a user may stop clicking.

Every property has a mutant, a plausible bug in the code, that breaks it (`PROJECT.json`). Those are the
definitions marked *Mutant* in the modules.

### Fairness

* `ScanJobs`: each job's goroutine keeps running (weak fairness of `Run(j)`): goroutines are scheduled, file
  writes end, and a driver call returns, with an error if need be. The last is not free, since bulk reads have no
  timeout; `ScannerSession!SessionEnds` is what it rests on. A poll closes what it has opened, in the same function.
  Clients are never obliged to send a request.
* `ScannerSession`: the host's next step is taken when it is possible. A read is possible only when a transfer
  is queued (or when the read may fail): nothing forces the scanner to send what it does not owe.
* `UsbDevice`: library calls return, and whoever has a session closes it (`Detect` at once, `run` by its `defer`).
* `WebApp`: the oldest request on the way is answered and its answer handled (weak fairness: `fetch` ends, with an
  error if need be), a scan ends (`ScanEnds`), and the interval ticks again and again (strong fairness, because a
  tick needs room under the bound on requests, which comes and goes). The user is never obliged to do anything.

## 4. Where the code does something else

Four runs are expected to find a violation, each of something the repository says of itself:

* `ConcurrentDeletes`: two clients each delete a page of one scan. Both work on the same list; the second removes
  by a file name that the first has meanwhile given to another page, whose image is lost. `scan_handlers.go:264`
  says that deleting one page never destroys another's image, which is so as long as no deletion overlaps another,
  or an edit, and none has been cut short before (`ImagesSurviveApart`).
* `RenameDuringScan`: a rename saves the record it loaded. If `finish` has saved the terminal record in between,
  the job says "running" for good, against `manager.go:45`.
* `RenameAndDelete`: two overlapping `SaveMeta` calls truncate twice and write twice at offset 0. The tail of the
  longer record stays behind the shorter one; from then on every request answers `not_found`.
* `StripesAlternate`: `Command` sends a READ again after a failed read, although the scanner has executed it. A
  stripe is lost, and from there on front and back are interchanged, against `image.go:46-47`.

Met while modelling, and part of the models although no run is devoted to them:

* `run` closes its session in a deferred call, *after* `finish` has freed the manager. A scan accepted in between
  finds the interface claimed and fails (`Open`). `DeviceExclusive` and `SessionReleased` say what holds.
* A record of a failed scan can list one page more than it counts (`CountTrailsByOneFront`).
* A read during a checkpoint finds a truncated `meta.json` and answers `not_found` (`NotFoundIsTransient`).
* A deletion that is cut short (by a crash, or a rename that fails) leaves pages under temporary names. Such a name is
  made from the page's old number, so the next deletion that moves a page of that number renames over it, and an
  image is lost with a single client, although `scan_handlers.go:315-316` says that renaming through temporary names
  keeps a page from overwriting another. `ConcurrentDeletes.cfg` with `Scenes <- Interrupted` and `PageLimit = 4`
  shows it in ten seconds.
* A page deleted during a scan is listed again by the next checkpoint, without a file.
* `readExact` stops at the first short transfer, so image data that arrives in two is cut in two; the rest is read
  as the status (`split`). When START SCAN reports the end of the document the scan fails (`pulled`): only the
  loop over the image data looks for it. After an error without a data phase the host waits for a status that
  does not come, without a timeout (`WaitsForNothing`).
* A sheet that ends before its first full scan line gives an image of height 0, which the PNG encoder refuses: the
  scan ends as failed.
* A status poll that holds the interface when a scan opens it makes the scan fail (`Open`).
* A document that is combined while one of its pages is deleted may have a page twice, or a wrong one.
* In a crop request, `x + width` may overflow; `image.Rect` then exchanges the corners, and another part of the page
  is cut out (`astray`).
* `unpaper` and `tesseract` run without a timeout, and go on when the client has gone away.
* `app.js` sets `selectedJobId` before its `await` and `selectedJob` after it (`166-169`), and `260-275` send a
  rename, a reordering or a deletion to the former while the grid shows the latter. So they go to another scan than
  the one on show between a click on a scan and its answer, and for longer when that answer fails or is overtaken
  by an earlier one. When a watched scan ends between a deletion and its answer, a scan is shown and none selected.
* A poll that takes longer than the interval and reports the end of a scan clears the timer of a later scan and
  enables the button during it (`595-604`). Deleting a scan that is being watched makes every later poll fail: the
  start button stays disabled until the page is loaded again.
* The combine selection keeps the numbers of the pages after a deleted one (`516-518`).
* A page is deleted, the reloads are faster than the viewer fades out (`520`), and a click on the fading viewer turns or
  deletes the page that has got the number, or picks it (`late`, `shifted`).
* When the `selectJob` after a deletion fails (`521`), the thumbnails show the pages as they were, and a page picked
  from them is another page than the one on display (`shown.stale`).
* The payload of a command is not delivered after its CDB was, and `Command` sends the CDB again (`cdb.go:127-131`). If
  the scanner takes it for the payload, host and scanner are out of step, and a read may wait for ever (`muddle`).
* A kill between the truncation and the write of `meta.json` leaves a scan that cannot be read (`store.go:70`).
* The job a rejected client is told about is read after the rejection (`scan_handlers.go:40`), so it may be over or
  another one; `app.js` does not look at it.

## 5. What is proved

All theorems are checked by TLAPS, from the named assumptions on the constants alone.

`ScanJobsProofs`, for every number of jobs, pollers, readers and sheets and both values of `DiskFails` and
`Crashes`: `TypeCorrect`, `Invariance`, `BusyFlagIsExact`, `OnlyOneScan`, `ExclusiveConversation`,
`ListedPagesExist`, `CompletedRecordsExact`, `StoreIsAuthoritative`, `ProgressCountsSavedPages`,
`CrashCostsOneSheet`, `CountIsRightButForAFront`, `LiveProgressIsFresh`, `NotFoundOnlyInPassing`,
`TerminalRecordsStay`, and `Refinement` (the manager implements `ScanLifecycle`). The assumptions: the values for
"no job" and "nobody" are not jobs or pollers, jobs are not pollers, the number of sheets is a natural number and
the two switches are Boolean.

The safety properties are not inductive one by one. `IInv` adds to the types, `BusyFlagExact` and
`DeviceExclusive` what the code relies on silently:

* `StatusFollowsPlace`: the status in the goroutine's record tells on which side of `finish` it is;
* `PagesFollowPlace`: the complete files are exactly the listed pages, and the count lags only within a sheet –
  without it a completed record could be wrong about the files;
* `DiskFollowsMeta`: the record on disk is never ahead of the goroutine's, and is terminal only when the
  goroutine has nothing left to save – which is why a terminal record stays;
* `PersistedAtEnd`: unless a write has failed (`unsaved`), the record is readable but for the moments of a
  `SaveMeta`, and `finish` has saved what it publishes;
* `DiskWithinOneSheet`: unless a write has failed, a record on disk that can be read lacks at most the pages of the sheet
  in hand – one after the front, two after the back, none between sheets. `CrashCostsOneSheet` adds when it can be
  read: always, but before its first save and in the middle of a save (`Unreadable`). A crash therefore costs one sheet,
  or, at those places, the whole record;
* `LiveFollowsMeta`: `m.running`, once idle, tells how its job ended, and its progress counts listed pages, all but
  those of the sheet in hand;
* `LoadedFollowsMeta`: what a reader has loaded is not ahead of the goroutine, so that the live state it reads later
  can be compared with it.

`TerminalRecordsStay` and `Refinement` use `IInv` as an invariant of every step: of all steps only `StartScan`,
`Mark`, `AbortStart` and `Crash` change what `ScanLifecycle` shows, and `BusyFlagExact` makes them `Accept`, `End`
and `Restart` of the right job.

`PageApiProofs`, for any number of clients and pages, every scene and every overlap of requests: `Invariance`,
`TypeCorrect` (`TypeOK`), `RecordsAreWellFormed` (`MetaWellFormed`) and `NothingComesBack` (`GoneIsGone`). None is
inductive, since a
handler saves a copy it made long ago; `IInv` therefore says of every *copy* what the properties say of the record:

* `Processes`: each handler's copy is well formed and has no more pages than there are numbers; a handler that acts
  on one page still has that page in its copy; the goroutine's copy counts its pages from 1;
* `MetaOK`: a record that parses is well formed, and one that is absent is open in nobody's hands – or a write
  begun before the deletion would bring it back;
* `FilesOK`, `DirOK`: the same for page files, and that a directory that is gone has neither.

The count is a second invariant, `CountsOK`: in the goroutine's copy it is the number of pages between sheets and one less
between the sides of a sheet, where the scan can only go on or fail (`CountedAt`); so in every other copy, and on disk,
it is right, or one short in a record that says "failed".

What a request makes of a page list (removing, renumbering, reordering, turning a page, appending one) is a lemma
each, about every well-formed list: the list it works on may long have been overwritten on disk.

`PageFilesProofs`, with the same constants: `ImagesAreKept` (`ImagesSurviveApart`) and `DocumentsAreAsAskedFor`
(`CombinedPagesDiffer`), from `ApartUnlessClashed`: as long as deletions keep apart (`~clashed`), `Apart` holds.
Both properties are about names; what makes them true is where the *images* are. `Apart` therefore says of every
image, wherever it is found (in a file, in the hands of an edit, among the pages a document has collected),
that it is under one name only (`OneToOne`), and adds what each kind of client relies on:

* `Alone`: a client that deletes a page is the only one that deletes or edits, and there are files with temporary
  names only while it renumbers; this is what `~clashed` buys;
* `Mover`: when a file has a temporary name its move is still pending, and the name a move goes to is free, or is
  that of a file which has yet to leave it; so no rename of `renumberPages` hits a file;
* `Remover`, `Editor`, `Reader`: the file removed is that of the page asked for; an edit writes to the file it has
  read; a document collects images of different pages of one record, as long as no deletion comes in between;
* `ScanAhead`: the goroutine writes beyond all pages that there are.

A step is then one of two kinds: it brings no image to another name (`OtherStep`, all handlers but a deletion), or
it moves files by an injection on names (`DeletionStep`). The attempt to prove this showed that `ImagesSurviveApart`
was not inductive once a crash leaves files under temporary names (section 4), and made `clashed` include it.

`PageDocProofs`, for any number of pages and of pages to a document: `RecordAgreesWithFiles` (`IdleConsistent`),
`ReadersSeeTheDocument` (`ServesDocument`) and `HandlersImplementPageDoc` (`ImplementsPageDoc`). They assume
`OneClient`: one client, no scan that goes on, no failing call and no crash, which is the scene of the run
`PageApiDocument`; when clients overlap or calls fail, none of the three holds in general (section 4). `IInv` and
`Apart` say what is true of any record and any image; here the *contents* matter, at every step between two requests.
`Sound(c, d)`
says where the request of `c` stands when the abstract document is `d`:

* `Untouched`: before the first call that changes a file, the record lists exactly the files there are, and these are
  the pages of `d` (`StandsFor`);
* `Opened`: an edit has truncated one file, and has its page, turned, in hand;
* `Moving`: a deletion has removed one file, and every other page of `d` is under its old name, its temporary name or
  its new one, according to the moves yet to be made; a page has settled when no move with its number is left;
* before and between the two calls of `SaveMeta` the copy in hand stands for a document that `d` may become by one
  operation (`Becomes`);
* `HasRead`: what a reading request has collected so far is of `d`, under the numbers asked for.

`Carries` is then the step lemma, one for each action: a step keeps `Sound` for the same document until the request
ends, and when it ends for one that `PageDoc` allows next. A reordering needs that an order which names no page twice
names them all (`OrderMovesPages`), a deletion that removing and renumbering a list is the same for record and
document (`OneLess`), the renames that `Mover` keeps them apart.

`UsbDeviceProofs`, for any number of openers: `TypeCorrect` and `NoHandleLeaks` (`NothingLeaks`), from an invariant
that says which handles are open at each step of opening, of cleaning up and of a session: without it nothing says
that what an error return closes is all that had been opened.

`ScannerSessionProofs`, for any number of sheets, stripes, attempts and faults, simplex and duplex: `TypeCorrect`
(`TypeOK`) and `StaysInStep` (`InStep`). `IInv` says how much of an answer is still in the pipe at each phase of
`scsiusb.Command`: nothing when a command or a REQUEST SENSE is about to be sent, two transfers when its data is due,
one when its status is due (`PipeFollowsPhase`), as long as only such faults occur after which a command may be
repeated; a payload that is not delivered is one, since nothing has been queued for a CDB alone. Of sessions with
other faults the three safety theorems say nothing. The types hold whatever occurs.

With the same constants, `PagesAreWholeSheets` (`SheetsComplete`) and `SessionRefinesSheetFeed`
(`ImplementsSheetFeed`). What host and scanner know of each other differs between the moment the scanner executes a
command and the moment the host learns it. `FeedInv` tells the two apart: `Executed` reads off the answer that is in
the pipe, or the sense data that the scanner will report, whether the command at hand has been executed; `Counts` then
relates the sheets and stripes the scanner has sent to the pages and chunks the host has, off by one exactly while the
command is `Executed`; `Contents` says what those chunks are, and that the end of the document is reported only after
the last stripe. Nothing is said once the session is bound to fail (`Doomed`: the sense data is neither a success
nor the end of the document). A retry keeps the invariant because a command that is repeated is never `Executed`.

`WebAppProofs`, for any number of scans, of pages and of requests on their way, every scene, with three invariants:

* `StartButtonIsRight` (`StartButtonFollowsTheScan`) from `IInv`. The second half of the property needs `OneAtATime`:
  while no poll takes longer than the interval, at most one start or poll is on its way, a start only while nothing is
  being watched and a poll only while something is.
* `TypeCorrect` (`TypeOK`) from `Types`. That `busyDepth` never falls below 0 needs `OneAction`: of all requests on
  their way at most one is under the overlay, and the depth is 1 while there is one; this is also what the next two
  theorems rest on.
* `EditsAreOfTheViewedPage` (`EditsHitTheViewedPage`) and `PicksAreKept` (`SelectionShowsWhatWasPicked`) from `Right`,
  in the scenes that do not both start scans and delete pages (`Tame`, the scope of the module, section 2). A page
  number that has been shown is one the scan has gone past (`Scanned`), so a running scan gives no other page that
  number; the viewer may show a deleted page, but then the deletion's answer is still to come and the overlay is up, or
  the viewer is fading out and its requests are `late`, of which nothing is claimed; no scan is deleted under the
  viewer; and thumbnails are those of their pages unless `stale` (`Loaded`).
* `SelectionIsOnShow` (`SelectionSettles`) from `Settled`, in the scenes of its hypothesis. That the last scan asked
  for is the one selected (`Newest`) would do if every selection succeeded, and it does only because a scan is
  selected while it is there: nothing is selected after a deletion that has been asked for (`InTurn`), and the list of
  scans that the user clicks on has none that is gone, but for the time between a deletion and the list that follows
  it, and that time is under the overlay (`ListsRight`).

`TextExtractionProofs`, for any number of requests, any sheets, images, edits, failures and crashes. The assumptions:
sizes are positive, scenes are of the declared kind, directory names are not the value for "no directory", and powers
of two are positive integers (`WidthAssumption`: true of any number of bits, but the provers do not know powers).
The inductive invariant `RInv` has three parts:

* `IInv`: a request has no directory before its `MkdirTemp` (`BeforeMkdirTemp`), so one that ends without `RemoveAll`
  owns nothing. From it follows `DirectoriesAreRemoved` (`NoDirLeftBehind`).
* `PagesInv`: what a page still shows of its side is a rectangle (`Box`), and the picture has the pixels of that
  rectangle, turned (`ShowsBox`). From it follow `TypeCorrect` (`TypeOK`), `PagesShowTheirSide` (`PageShowsItsSide`)
  and `BacksAreDropped` (`BlankBacksAreDropped`). That a turn keeps it is proved for 90 degrees (`TurnedOnce`), the
  other two being turns by 90 degrees repeated; that a crop keeps it, by giving the rectangle that is left on the
  sheet for each of the four orientations (`Cut`, `CroppedShows`): the crop is clamped to the picture in the picture's
  coordinates, and the property is about the sheet's.
* `RepliesInv`: a directory is one request's only, and the file that each program is about to read is an image that the page
  has had since the request came in. From it follows `RepliesAreOfThePage` (`ReplyIsOfThePage`).

The scanned image is put together by the library's `FlattenSeq`, which is recursive. What it computes of chunks of equal
length (`Concatenated`, `Flattened`: pixel `i` is that of chunk `(i - 1) \div L + 1`) is proved without the induction
theorems, whose parameter is an operator, by looking at the least number of chunks for which it would be false
(`Least`). `BlankIs` then counts the dark pixels of a back: a position in the joined stripes and a pixel of an even stripe
correspond one to one (`BackPixels`), so both have the same number of dark ones (`SameNumber`).

Only model-checked: liveness (`ScanEnds`, `SessionReleased`, `SessionEnds`, `ClaimIsReleased`, `OverlayComesDown`,
`WatchEnds`). TLAPS has no rule for `ENABLED`, on which fairness rests.

## 6. What is not modelled

* What a pixel's value is: colours, how dark is dark, JPEG and PNG; the encoding of a PDF document; what the external
  programs compute. Where a pixel ends up, which pages a document has, and how the programs are run, is modelled.
* A sheet that ends within a stripe. In `PageImage` every stripe has whole scan lines, at least one pixel wide, so
  the bytes that `rawToImage` drops after the last whole line are never there; an image without any line is.
* Identifiers: `NewJobID` is taken not to repeat one; it does with probability 2^-16 within a second.
* `CheckWritable`, request parsing, the order of `ListJobs`, translations, embedded files, the build.
* In the web application: the order of the selection's thumbnails, the viewer without editing, the dragging of a crop
  rectangle, the pane of extracted text, the scanner badge, clicks on nothing, the keyboard while the overlay is up.
* The scanner's and the USB library's insides, beyond the external definitions named in `PROJECT.json`.

## 7. Plan

Done, in this order: the manager (`ScanJobs`, `ScanLifecycle`, with proofs); the handlers (`PageApi`, `PageDoc`, with
proofs; reading requests and combined documents); the driver (`ScannerSession`, `SheetFeed`) and the USB device, each with
proofs; the web application, images, edits and text extraction, with proofs.

Left, should the code change or the need arise:

* `WebApp` with two tabs, whose users delete pages of the same scan: each tab's numbers would go stale by the
  other's deletions.
