------------------------------- MODULE ScanJobs -------------------------------
(***************************************************************************)
(* The scan-job manager (internal/scanjobs/manager.go) with everything it  *)
(* shares state with: the persisted record and page files of each job      *)
(* (internal/storage/store.go), the claim on the scanner's USB interface   *)
(* (driver.Open / Session.Close and the status poll's Detect), and the     *)
(* clients that read a job while it is being scanned (handleGetScan).      *)
(*                                                                         *)
(* A step is one critical section of m.mu, one call into the driver, or    *)
(* one file-system operation.  os.WriteFile is two of them: it opens the   *)
(* file with O_TRUNC and only then writes, so a reader or a crash can come *)
(* between.  Clients that modify a job (rename, delete, ...) are the       *)
(* subject of PageApi.tla.                                                 *)
(*                                                                         *)
(* The pages of a job are numbered 1, 2, ... in scanning order, nextIndex  *)
(* being len(meta.Pages) whenever the loop starts over, so a page list is  *)
(* represented by its length.                                              *)
(***************************************************************************)
EXTENDS Naturals, FiniteSets

CONSTANTS Jobs,        \* job identifiers; NewJobID never repeats one
          Pollers,     \* clients of GET /api/scanner/status
          Readers,     \* clients of GET /api/scans/{id}
          NoJob,       \* m.running == nil
          Nobody,      \* the USB interface is not claimed
          MaxSheets,   \* bound: sheets of paper fed over the whole run
          DiskFails,   \* TRUE when file-system writes may fail
          Crashes      \* TRUE when the server may be killed and restarted

ASSUME NoJobAssumption == NoJob \notin Jobs
ASSUME NobodyAssumption == /\ Nobody \notin Jobs \cup Pollers
                           /\ Jobs \cap Pollers = {}
ASSUME BoundAssumption == MaxSheets \in Nat
ASSUME FaultAssumption == DiskFails \in BOOLEAN /\ Crashes \in BOOLEAN

VARIABLES
  running,  \* m.running: the most recently started job's live state
  pc,       \* where each job's StartScan call and then its goroutine stands
  meta,     \* the JobMeta value the goroutine of each job owns
  disk,     \* meta.json of each job
  files,    \* the numbers of the complete page files of each job
  holder,   \* who has the USB interface claimed
  paper,    \* sheets that may still be fed
  get,      \* what each reading client has loaded or been answered
  unsaved   \* history: the jobs whose last SaveMeta call has failed

vars == <<running, pc, meta, disk, files, holder, paper, get, unsaved>>

Statuses == {"running", "completed", "failed"}

\* JobMeta: the status, the length of Pages, and PageCount.
Meta == [status : Statuses, pages : Nat, count : Nat]
NewMeta == [status |-> "running", pages |-> 0, count |-> 0]

\* meta.json: absent, truncated ("torn": open(2) with O_TRUNC has happened
\* and the write has not), or whole.
Record == [file : {"absent", "torn", "whole"}, meta : Meta]
Absent == [file |-> "absent", meta |-> NewMeta]
Torn   == [file |-> "torn", meta |-> NewMeta]
Whole(m) == [file |-> "whole", meta |-> m]

JobState == [id : Jobs \cup {NoJob}, status : Statuses, pages : Nat]
Nil == [id |-> NoJob, status |-> "failed", pages |-> 0]

\* One request of a reading client: the metadata it loaded and, once
\* answered, whether the job was found and whether the answer has the
\* live pagesScanned.
Reply == [step : {"idle", "loaded", "replied"}, job : Jobs \cup {NoJob},
          found : BOOLEAN, meta : Meta, live : BOOLEAN, pagesScanned : Nat]
NoReply == [step |-> "idle", job |-> NoJob, found |-> FALSE, meta |-> NewMeta,
            live |-> FALSE, pagesScanned |-> 0]

\* The goroutine's places between Open and Close in which it talks to the
\* scanner or saves what it got from it.
Scanning == {"next", "scan", "frontOnly", "front", "back", "checkpoint", "saving",
             "progress"}
\* From the acceptance of the request to the critical section that makes
\* the manager accept another one.
InProgress == {"create", "creating", "abort", "open", "finish", "finishing", "mark"}
                \cup Scanning
Places == {"unused", "close", "done", "aborted", "lost"} \cup InProgress

Active(j) == pc[j] \in InProgress
Busy == running.id # NoJob /\ running.status = "running"

Init == /\ running = Nil
        /\ pc = [j \in Jobs |-> "unused"]
        /\ meta = [j \in Jobs |-> NewMeta]
        /\ disk = [j \in Jobs |-> Absent]
        /\ files = [j \in Jobs |-> {}]
        /\ holder = Nobody
        /\ paper = MaxSheets
        /\ get = [r \in Readers |-> NoReply]
        /\ unsaved = {}

-------------------------------------------------------------------------------
(* StartScan, in the request's goroutine *)

Goto(j, place) == pc' = [pc EXCEPT ![j] = place]

\* Mutant: the busy check is gone.
StartScanUnchecked(j) ==
  /\ pc[j] = "unused"
  /\ running' = [id |-> j, status |-> "running", pages |-> 0]
  /\ Goto(j, "create")
  /\ UNCHANGED <<meta, disk, files, holder, paper, get, unsaved>>

\* The busy check and the reservation are one critical section.
StartScan(j) ==
  /\ pc[j] = "unused"
  /\ ~Busy
  /\ running' = [id |-> j, status |-> "running", pages |-> 0]
  /\ Goto(j, "create")
  /\ UNCHANGED <<meta, disk, files, holder, paper, get, unsaved>>

\* Mutant: the file is opened, and the write forgotten.
SaveUnwritten(j, writing, failed) ==
  disk' = [disk EXCEPT ![j] = Torn] /\ Goto(j, failed) /\ UNCHANGED unsaved

\* Writing fails: SaveMeta returns an error.
SaveFails(j, failed) == /\ DiskFails
                        /\ unsaved' = unsaved \cup {j}
                        /\ Goto(j, failed)
                        /\ UNCHANGED disk

\* SaveMeta up to the truncation of meta.json.
BeginSave(j, writing, failed) ==
  \/ disk' = [disk EXCEPT ![j] = Torn] /\ Goto(j, writing) /\ UNCHANGED unsaved
  \/ SaveFails(j, failed)

\* MkdirAll fails like SaveMeta's open does, and a job directory without a
\* meta.json is as good as no job to every reader.
CreateJob(j) ==
  /\ pc[j] = "create"
  /\ BeginSave(j, "creating", "abort")
  /\ UNCHANGED <<running, meta, files, holder, paper, get>>

\* The rest of SaveMeta, for its three callers: only CreateJob's looks at
\* the error.
Saved == [creating |-> "open", saving |-> "progress", finishing |-> "mark"]
\* Mutant: a checkpoint that fails is retried until it succeeds.
SaveRetried == [creating |-> "abort", saving |-> "checkpoint", finishing |-> "mark"]
SaveFailed == [creating |-> "abort", saving |-> "progress", finishing |-> "mark"]

WriteMeta(j) ==
  /\ pc[j] \in {"creating", "saving", "finishing"}
  /\ \/ disk' = [disk EXCEPT ![j] = Whole(meta[j])] /\ Goto(j, Saved[pc[j]])
        /\ unsaved' = unsaved \ {j}
     \/ SaveFails(j, SaveFailed[pc[j]])
  /\ UNCHANGED <<running, meta, files, holder, paper, get>>

\* CreateJob failed: m.running is marked failed whatever job it is about.
\* Mutant: the error is returned and m.running left as it is.
StillRunning == running
Aborted == [running EXCEPT !.status = "failed"]

AbortStart(j) ==
  /\ pc[j] = "abort"
  /\ running' = Aborted
  /\ Goto(j, "aborted")
  /\ UNCHANGED <<meta, disk, files, holder, paper, get, unsaved>>

-------------------------------------------------------------------------------
(* run, in the job's own goroutine *)

\* Mutant: finish frees the manager without saving the terminal record.
RunEndsUnsaved(j, status) ==
  /\ meta' = [meta EXCEPT ![j].status = status]
  /\ Goto(j, "mark")

\* The call m.finish(id, &meta, err), up to the SaveMeta in it.
RunEnds(j, status) ==
  /\ meta' = [meta EXCEPT ![j].status = status]
  /\ Goto(j, "finish")

\* Mutant: the interface is used without being claimed.
ClaimIgnored == TRUE
CanClaim == holder = Nobody

\* The driver finds no scanner, cannot claim it, or hands out a session.
Open(j) ==
  /\ pc[j] = "open"
  /\ \/ CanClaim /\ holder' = j /\ Goto(j, "next") /\ UNCHANGED meta
     \/ RunEnds(j, "failed") /\ UNCHANGED holder
  /\ UNCHANGED <<running, disk, files, paper, get, unsaved>>

HasNextPage(j) ==
  /\ pc[j] = "next"
  /\ \/ paper > 0 /\ Goto(j, "scan") /\ UNCHANGED meta
     \/ \E status \in {"completed", "failed"} : RunEnds(j, status)
  /\ UNCHANGED <<running, disk, files, holder, paper, get, unsaved>>

\* A sheet has a back when the job is duplex and the back is not blank.
ScanPage(j) ==
  /\ pc[j] = "scan"
  /\ \/ /\ paper > 0
        /\ paper' = paper - 1
        /\ \E sides \in {"frontOnly", "front"} : Goto(j, sides)
        /\ UNCHANGED meta
     \/ RunEnds(j, "failed") /\ UNCHANGED paper
  /\ UNCHANGED <<running, disk, files, holder, get, unsaved>>

\* Mutant: no checkpoint while the scan goes on.
NextSideUnsaved == [frontOnly |-> "progress", front |-> "back", back |-> "progress"]
NextSide == [frontOnly |-> "checkpoint", front |-> "back", back |-> "checkpoint"]

\* nextIndex once it has been incremented.
NextIndex(j) == meta[j].pages + 1

\* Mutant: the page is listed whether or not its file was written.
SaveImageUnchecked(j) ==
  LET n == NextIndex(j)
  IN  /\ pc[j] \in {"frontOnly", "front", "back"}
      /\ files' \in {[files EXCEPT ![j] = @ \cup {n}]} \cup {files}
      /\ meta' = [meta EXCEPT ![j].pages = n]
      /\ Goto(j, NextSide[pc[j]])
      /\ UNCHANGED <<running, disk, holder, paper, get, unsaved>>

\* saveImage for one side, then the append to meta.Pages.  Encoding may fail as
\* well as writing, and neither leaves a complete page file.
SaveImage(j) ==
  LET n == NextIndex(j)
  IN  /\ pc[j] \in {"frontOnly", "front", "back"}
      /\ \/ /\ files' = [files EXCEPT ![j] = @ \cup {n}]
            /\ meta' = [meta EXCEPT ![j].pages = n]
            /\ Goto(j, NextSide[pc[j]])
         \/ RunEnds(j, "failed") /\ UNCHANGED files
      /\ UNCHANGED <<running, disk, holder, paper, get, unsaved>>

\* The value PageCount gets.  Mutant: it counts sheets.
SheetCount(j) == meta[j].count + 1
PageCount(j) == meta[j].pages

Checkpoint(j) ==
  /\ pc[j] = "checkpoint"
  /\ meta' = [meta EXCEPT ![j].count = PageCount(j)]
  /\ BeginSave(j, "saving", "progress")
  /\ UNCHANGED <<running, files, holder, paper, get>>

\* The value PagesScanned gets.  Mutant: never updated.
PagesKept(j) == running.pages
PagesScanned(j) == meta[j].pages

Progress(j) ==
  /\ pc[j] = "progress"
  /\ running' = IF running.id = j THEN [running EXCEPT !.pages = PagesScanned(j)] ELSE running
  /\ Goto(j, "next")
  /\ UNCHANGED <<meta, disk, files, holder, paper, get, unsaved>>

\* finish saves the terminal record first ...
Finish(j) ==
  /\ pc[j] = "finish"
  /\ BeginSave(j, "finishing", "mark")
  /\ UNCHANGED <<running, meta, files, holder, paper, get>>

\* After finish, run returns and its deferred Close runs, if there is a
\* session.  Mutants: no return after finish; no deferred Close.
NoReturn(j) == IF holder = j THEN "next" ELSE "done"
NoClose(j) == "done"
AfterFinish(j) == IF holder = j THEN "close" ELSE "done"

\* ... and then frees the manager for the next request.
Mark(j) ==
  /\ pc[j] = "mark"
  /\ running' = IF running.id = j THEN [running EXCEPT !.status = meta[j].status] ELSE running
  /\ Goto(j, AfterFinish(j))
  /\ UNCHANGED <<meta, disk, files, holder, paper, get, unsaved>>

\* defer sess.Close() runs after finish has returned.
Close(j) ==
  /\ pc[j] = "close"
  /\ holder' = Nobody
  /\ Goto(j, "done")
  /\ UNCHANGED <<running, meta, disk, files, paper, get, unsaved>>

-------------------------------------------------------------------------------
(* The clients that only look *)

\* handleScannerStatus: Detect opens the device and closes it again; when it
\* cannot have it, it answers at once.
DetectOpen(p) ==
  /\ CanClaim
  /\ holder' = p
  /\ UNCHANGED <<running, pc, meta, disk, files, paper, get, unsaved>>

DetectClose(p) ==
  /\ holder = p
  /\ holder' = Nobody
  /\ UNCHANGED <<running, pc, meta, disk, files, paper, get, unsaved>>

\* handleGetScan loads meta.json ...
GetLoad(r, j) ==
  /\ get[r].step # "loaded"
  /\ pc[j] # "unused"
  /\ get' = [get EXCEPT ![r] =
               IF disk[j].file = "whole"
               THEN [NoReply EXCEPT !.step = "loaded", !.job = j, !.found = TRUE,
                                    !.meta = disk[j].meta]
               ELSE [NoReply EXCEPT !.step = "replied", !.job = j]]
  /\ UNCHANGED <<running, pc, meta, disk, files, holder, paper, unsaved>>

\* ... and then, under the lock, the live progress.
GetOverlay(r) ==
  /\ get[r].step = "loaded"
  /\ get' = [get EXCEPT ![r] =
               IF Busy /\ running.id = get[r].job
               THEN [get[r] EXCEPT !.step = "replied", !.live = TRUE,
                                   !.pagesScanned = running.pages]
               ELSE [get[r] EXCEPT !.step = "replied"]]
  /\ UNCHANGED <<running, pc, meta, disk, files, holder, paper, unsaved>>

-------------------------------------------------------------------------------
\* The server is killed and started again.  Only the data directory is left;
\* nothing at start-up (main.go) looks at the jobs in it.
Crash ==
  /\ Crashes
  /\ running' = Nil
  /\ pc' = [j \in Jobs |-> IF Active(j) THEN "lost"
                           ELSE IF pc[j] = "close" THEN "done" ELSE pc[j]]
  /\ holder' = Nobody
  /\ get' = [r \in Readers |-> NoReply]
  /\ UNCHANGED <<meta, disk, files, paper, unsaved>>

\* What the goroutines started for job j do by themselves.
Run(j) == \/ CreateJob(j) \/ WriteMeta(j) \/ AbortStart(j) \/ Open(j) \/ HasNextPage(j)
          \/ ScanPage(j) \/ SaveImage(j) \/ Checkpoint(j) \/ Progress(j) \/ Finish(j)
          \/ Mark(j) \/ Close(j)

Next == \/ \E j \in Jobs : StartScan(j) \/ Run(j)
        \/ \E p \in Pollers : DetectOpen(p) \/ DetectClose(p)
        \/ \E r \in Readers : GetOverlay(r) \/ \E j \in Jobs : GetLoad(r, j)
        \/ Crash

Spec == Init /\ [][Next]_vars

\* Goroutines are scheduled, the scanner answers (or errors), and files are
\* written in finite time; no client is obliged to ask for anything.
Fairness == /\ \A j \in Jobs : WF_vars(Run(j))
            /\ \A p \in Pollers : WF_vars(DetectClose(p))
FairSpec == Spec /\ Fairness

-------------------------------------------------------------------------------
(* Properties *)

\* Every variable holds a value of its type, and page files are numbered
\* from 1.
TypeOK == /\ running \in JobState
          /\ pc \in [Jobs -> Places]
          /\ meta \in [Jobs -> Meta]
          /\ disk \in [Jobs -> Record]
          /\ files \in [Jobs -> SUBSET (Nat \ {0})]
          /\ holder \in Jobs \cup Pollers \cup {Nobody}
          /\ paper \in 0 .. MaxSheets
          /\ get \in [Readers -> Reply]
          /\ unsaved \subseteq Jobs

\* The busy flag is exact: a job is in progress, from the acceptance of its
\* request to the end of finish, if and only if m.running says that this job
\* is running.  So the ID checks of run and finish (manager.go:153, 176)
\* never fail, and the unchecked write of the failed CreateJob (manager.go:84)
\* hits its own job.
BusyFlagExact == \A j \in Jobs : Active(j) <=> Busy /\ running.id = j

\* At most one job is in progress (manager.go:17-19, jobstate.go:4-6).
OneScanInFlight == \A i, j \in Jobs : Active(i) /\ Active(j) => i = j

\* A goroutine that talks to the scanner or still has a session to close has
\* the USB interface claimed, so no two conversations are ever interleaved on
\* the wire, not even while a finished scan has yet to close its session.
DeviceExclusive == \A j \in Jobs : pc[j] \in Scanning \cup {"close"} => holder = j

\* Page files are written before the record that lists them, so at every
\* moment, across crashes and failed writes, a readable meta.json lists only
\* pages whose files are complete.
SavedPagesHaveFiles ==
  \A j \in Jobs : disk[j].file = "whole" => 1 .. disk[j].meta.pages \subseteq files[j]

\* Once m.running no longer says "running", the store is authoritative
\* (CurrentJob's contract, manager.go:42-47): the job's record is on disk, in
\* full, with its final status.  The exception is the job whose last write
\* has failed: finish ignores that.
IdleMeansPersisted ==
  \A j \in Jobs \ unsaved :
    (running.id = j /\ ~Busy) => disk[j] = Whole(meta[j]) /\ meta[j].status = running.status

\* A record that says completed is exact, whatever failed on the way: its
\* PageCount is the length of its page list, and the page files on disk are
\* the listed ones and no others.
CompletedIsExact ==
  \A j \in Jobs : disk[j].file = "whole" /\ disk[j].meta.status = "completed" =>
    /\ disk[j].meta.count = disk[j].meta.pages
    /\ files[j] = 1 .. disk[j].meta.pages

\* An answer that has live progress is never older than its page list by more
\* than the sheet whose checkpoint is on disk and not yet published.
LiveProgressFresh ==
  \A r \in Readers : get[r].live => get[r].meta.pages <= get[r].pagesScanned + 2

\* A record's PageCount, which the scan list shows, is the length of its page
\* list but for one case: when the back of a sheet could not be saved, the
\* record of the failed scan lists the front and does not count it
\* (manager.go:142, 149).
CountTrails(m) == \/ m.count = m.pages
                  \/ m.status = "failed" /\ m.count + 1 = m.pages
CountTrailsByOneFront ==
  \A j \in Jobs : disk[j].file = "whole" => CountTrails(disk[j].meta)

\* not_found is "The requested job or page doesn't exist." (README.md:209).  A
\* reader is told so of a job that exists only in the moment between the two
\* halves of a SaveMeta, or when the server was killed in that moment.
Unreadable == {"unused", "create", "creating", "saving", "finishing", "lost"}
NotFoundIsTransient ==
  [][\A r \in Readers, j \in Jobs \ unsaved :
         get'[r] # get[r] /\ get'[r].step = "replied" /\ get'[r].job = j /\ ~get'[r].found
         => pc[j] \in Unreadable \ {"unused"}]_vars

\* What a crash costs.  A record that can be read lists every page saved but
\* those of the one sheet in hand, at most two.  One that cannot be, and so loses
\* all its pages, is that of a scan in the middle of a SaveMeta, or killed there:
\* after a crash between two saves it can.  (A checkpoint that fails is not
\* retried: then the next sheet's has to succeed first.)
CrashLosesOneSheet ==
  \A j \in Jobs \ unsaved :
    \/ disk[j].file = "whole" /\ files[j] \subseteq 1 .. disk[j].meta.pages + 2
    \/ disk[j].file # "whole" /\ pc[j] \in Unreadable

\* What the live progress counts has been saved.
ProgressIsSaved == running.id # NoJob => 1 .. running.pages \subseteq files[running.id]

\* A terminal record is final: it is never truncated or written again by the
\* scan that wrote it, or by any other.
TerminalIsFinal ==
  [][\A j \in Jobs : disk[j].file = "whole" /\ disk[j].meta.status # "running"
       => disk'[j] = disk[j]]_vars

\* The refinement mapping to ScanLifecycle.tla.
JobInProgress == IF Busy THEN running.id ELSE NoJob
Outcome(j) == CASE pc[j] = "unused" -> "none"
                [] Active(j) -> "running"
                [] pc[j] = "aborted" -> "failed"
                [] pc[j] = "lost" -> "lost"
                [] OTHER -> meta[j].status

Lifecycle == INSTANCE ScanLifecycle WITH
  busy <- JobInProgress, outcome <- [j \in Jobs |-> Outcome(j)]

\* The manager keeps the promise of ScanLifecycle.tla: what a caller can see
\* of m.running and of each job's end is an execution in which jobs run one
\* at a time and end once.
ImplementsLifecycle == Lifecycle!Spec

\* Every accepted scan ends, and the manager accepts requests again, provided
\* the scanner answers.
ScanEnds == \A j \in Jobs : Active(j) ~> ~Active(j)

\* Every claim on the scanner is given up, whatever error the scan ends with.
SessionReleased == \A h \in Jobs \cup Pollers : holder = h ~> holder # h

-------------------------------------------------------------------------------
(* The inductive invariant behind the safety properties *)

Ended == {"finish", "finishing", "mark", "close", "done"}

\* The status in the goroutine's metadata says which side of finish it is on.
StatusFollowsPlace ==
  \A j \in Jobs : /\ pc[j] \in Ended => meta[j].status # "running"
                  /\ pc[j] \notin Ended \cup {"lost"} => meta[j].status = "running"

\* The pages saved are the pages listed; PageCount lags behind only within a
\* sheet, and a scan that completes does so between two sheets.
PagesFollowPlace ==
  \A j \in Jobs :
    /\ files[j] = 1 .. meta[j].pages
    /\ (pc[j] \notin Ended \cup {"back", "checkpoint", "lost"} \/ meta[j].status = "completed")
         => meta[j].count = meta[j].pages
    /\ pc[j] = "unused" => meta[j].pages = 0
    /\ pc[j] = "back" => meta[j].pages = meta[j].count + 1
    /\ pc[j] \in Ended => CountTrails(meta[j])

\* The persisted record is never ahead of the goroutine's, and is terminal
\* only when the goroutine has nothing left to save.
DiskFollowsMeta ==
  \A j \in Jobs : disk[j].file = "whole" =>
    /\ disk[j].meta.pages <= meta[j].pages
    /\ disk[j].meta.status # "running" => /\ pc[j] \in {"mark", "close", "done", "lost"}
                                          /\ disk[j].meta = meta[j]

\* A job whose writes succeed is never aborted; from the creation of its record
\* on, the record is readable but for the moments of a SaveMeta; and finish has
\* saved its terminal record.
PersistedAtEnd ==
  \A j \in Jobs \ unsaved :
    /\ pc[j] \notin {"abort", "aborted"}
    /\ pc[j] \notin Unreadable => disk[j].file = "whole"
    /\ pc[j] \in {"mark", "close", "done"} => disk[j] = Whole(meta[j])

\* Places in which every page the goroutine lists has been offered to the last
\* checkpoint.
BetweenSheets == {"unused", "create", "creating", "open", "next", "scan", "frontOnly", "front",
                  "mark", "close", "done"}

\* n pages are as many as the job lists, but for those of the sheet in hand.
WithinOneSheet(n, place, listed) == /\ place \in BetweenSheets => listed <= n
                                    /\ place = "back" => listed <= n + 1
                                    /\ listed <= n + 2

\* What the last successful checkpoint saved.
DiskWithinOneSheet ==
  \A j \in Jobs \ unsaved : disk[j].file = "whole" =>
    WithinOneSheet(disk[j].meta.pages, IF pc[j] = "progress" THEN "next" ELSE pc[j],
                   meta[j].pages)

\* m.running, once idle, tells how its job ended; its progress counts pages
\* the job's metadata lists, and all of them but those of the sheet in hand.
LiveFollowsMeta ==
  \A j \in Jobs : running.id = j =>
    /\ running.pages <= meta[j].pages
    /\ Active(j) => WithinOneSheet(running.pages, IF pc[j] = "mark" THEN "finish" ELSE pc[j],
                                   meta[j].pages)
    /\ ~Busy => \/ pc[j] = "aborted"
                \/ pc[j] \in {"close", "done"} /\ running.status = meta[j].status

\* What a reader has loaded is not ahead of the goroutine.
LoadedFollowsMeta ==
  \A r \in Readers : get[r].step = "loaded" =>
    /\ get[r].job \in Jobs /\ get[r].found
    /\ get[r].meta.pages <= meta[get[r].job].pages
    /\ ~get[r].live

\* Together with the types, the exact busy flag and the exclusive session, the
\* facts above are inductive.
IInv == /\ TypeOK
        /\ BusyFlagExact
        /\ DeviceExclusive
        /\ StatusFollowsPlace
        /\ PagesFollowPlace
        /\ DiskFollowsMeta
        /\ PersistedAtEnd
        /\ LiveFollowsMeta
        /\ DiskWithinOneSheet
        /\ LoadedFollowsMeta
        /\ CountTrailsByOneFront
        /\ LiveProgressFresh

===============================================================================
