-------------------------------- MODULE WebApp --------------------------------
(***************************************************************************)
(* The web application (internal/web/static/app.js) in one browser tab,    *)
(* against the server of PageApi.tla and ScanJobs.tla seen from far away:  *)
(* it handles one request at a time, in any order, and its answers arrive  *)
(* in any order.                                                           *)
(*                                                                         *)
(* JavaScript runs to completion between two awaits, so a step is what a   *)
(* user's click, a tick of the timer or an answer sets off, up to the next *)
(* await.  The busy overlay and the page viewer cover the page: a click    *)
(* goes to what is on top, be it a viewer that is fading out.              *)
(*                                                                         *)
(* Page n of a scan is the n-th of its images: the order of display is of  *)
(* no consequence here.                                                    *)
(***************************************************************************)
EXTENDS Naturals, Sequences, FiniteSets

CONSTANTS Jobs,      \* scans
          NoJob,     \* null
          MaxPages,  \* bound: pages of a scan
          Scenes     \* what is there, what the user does, what may go wrong

Numbers == 1 .. MaxPages
Keys == Jobs \X Numbers

Events == {"select", "rename", "reorder", "deleteJob", "open", "edit", "deletePage", "toggle",
           "combine", "start"}

\* The scans there are; the user's repertoire; whether answers arrive in the
\* order of the requests; whether a poll may take longer than the interval
\* between two; how many requests fail; how many may be on their way at a time.
Scene == [scans : SUBSET Jobs, does : SUBSET Events, ordered : BOOLEAN, slow : BOOLEAN,
          failures : Nat, calls : Nat]

ASSUME NoJobAssumption == NoJob \notin Jobs
ASSUME BoundAssumption == MaxPages \in Nat
ASSUME SceneAssumption == Scenes \subseteq Scene

VARIABLES
  scene,      \* the scene; no step changes it
  failures,   \* failures still to come
  server,     \* the scans: status, and the image of each page
  calls,      \* requests and their answers on the way, oldest first
  listed,     \* state.jobs
  sel,        \* state.selectedJobId
  shown,      \* state.selectedJob and its thumbnails: what the page grid shows
  combined,   \* the keys of state.combineSelection, and of combineOrder
  viewer,     \* state.viewer, with the image it has been opened on
  busyDepth,  \* state.busyDepth
  scanning,   \* state.scanning
  timer,      \* state.scanPollTimer: the scan whose progress it asks for
  picked,     \* history: the image each key was picked for
  shifted,    \* history: the keys whose page a deletion had renumbered when they
              \* were picked, or has renumbered since
  lost        \* history: the scans the answer to a page deletion was lost for

vars == <<scene, failures, server, calls, listed, sel, shown, combined, viewer, busyDepth,
          scanning, timer, picked, shifted, lost>>
selection == <<combined, picked, shifted, lost>>
progress == <<scanning, timer>>
page == <<listed, sel, shown, viewer>>

NoImage == <<NoJob, 0>>
Images == Keys \cup {NoImage}
Scan == [status : {"none", "running", "over", "gone"}, pages : Seq(Keys)]

\* The grid: its scan, how many thumbnails, the images they show; and, a history,
\* whether a page of that scan has been deleted since those were loaded.
Grid == [job : Jobs \cup {NoJob}, count : 0 .. MaxPages, imgs : [Numbers -> Images],
         stale : BOOLEAN]
EmptyGrid == [job |-> NoJob, count |-> 0, imgs |-> [n \in Numbers |-> NoImage],
              stale |-> FALSE]

\* The viewer: open, or fading out, because it has been closed or because its
\* page has been deleted.
Viewer == [job : Jobs \cup {NoJob}, page : 0 .. MaxPages, img : Images,
           phase : {"open", "closed", "deleted"}]
NoViewer == [job |-> NoJob, page |-> 0, img |-> NoImage, phase |-> "closed"]

\* A request: what it is about, and whether it comes from a viewer whose page has
\* been deleted; whether it is part of an action under the overlay, and the
\* reloads that follow; then its answer.
Kinds == {"select", "list", "rename", "reorder", "deleteJob", "edit", "deletePage", "combine",
          "start", "poll"}
Call == [kind : Kinds, job : Jobs \cup {NoJob}, page : 0 .. MaxPages, img : Images,
         late : BOOLEAN, keys : SUBSET Keys, busy : BOOLEAN, then : Seq({"select", "list"}),
         answered : BOOLEAN, ok : BOOLEAN,
         count : 0 .. MaxPages, over : BOOLEAN, jobs : SUBSET Jobs]
NewCall(kind, job) ==
  [kind |-> kind, job |-> job, page |-> 0, img |-> NoImage, late |-> FALSE, keys |-> {},
   busy |-> FALSE, then |-> <<>>, answered |-> FALSE, ok |-> FALSE, count |-> 0, over |-> FALSE, jobs |-> {}]

There(j) == j \in Jobs /\ server[j].status \in {"running", "over"}
ImageAt(j, n) == IF There(j) /\ n \in DOMAIN server[j].pages THEN server[j].pages[n] ELSE NoImage

\* renderJobDetail.  The URL of an image has state.renderNonce in it, which
\* selectJob changes: between a deletion at the server and the selectJob that
\* follows it, the browser may show the images that it has loaded already.
Outdated(j) == \/ j \in lost
               \/ \E i \in DOMAIN calls : /\ calls[i].kind = "deletePage" /\ calls[i].ok
                                         /\ calls[i].job = j
Rendered(j, count) ==
  LET loaded(n) == IF n <= count THEN ImageAt(j, n) ELSE NoImage
      fresh == [job |-> j, count |-> count, imgs |-> [n \in Numbers |-> loaded(n)],
                stale |-> Outdated(j)]
  IN  {fresh} \cup (IF Outdated(j) /\ j = shown.job THEN {[fresh EXCEPT !.imgs = shown.imgs]}
                                                     ELSE {})

SomeScanRuns == \E j \in Jobs : server[j].status = "running"

Init == /\ scene \in Scenes
        /\ failures = scene.failures
        /\ server = [j \in Jobs |->
             IF j \in scene.scans THEN [status |-> "over", pages |-> [n \in Numbers |-> <<j, n>>]]
                                  ELSE [status |-> "none", pages |-> <<>>]]
        /\ calls = <<>>
        /\ listed = scene.scans
        /\ sel = NoJob
        /\ shown = EmptyGrid
        /\ combined = {}
        /\ viewer = NoViewer
        /\ busyDepth = 0
        /\ scanning = FALSE
        /\ timer = NoJob
        /\ picked = [k \in Keys |-> NoImage]
        /\ shifted = {}
        /\ lost = {}

-------------------------------------------------------------------------------
(* What the user does *)

\* withBusy.  Mutant: the overlay is not shown.
Uncovered(n) == 0
Covered(n) == n + 1

\* A click reaches the page when nothing covers it, and the viewer when it is
\* open.
Clicks(event, inViewer) ==
  /\ event \in scene.does
  /\ busyDepth = 0
  /\ (viewer # NoViewer) = inViewer
  /\ Len(calls) < scene.calls
  /\ UNCHANGED <<scene, failures, server>>

Send(call) == calls' = Append(calls, call)
SendBusy(call) == /\ Send([call EXCEPT !.busy = TRUE])
                  /\ busyDepth' = Covered(busyDepth)

\* selectJob, up to its await.
SelectJob(j) ==
  /\ Clicks("select", FALSE)
  /\ j \in listed
  /\ sel' = j
  /\ Send(NewCall("select", j))
  /\ UNCHANGED <<listed, shown, viewer, busyDepth, selection, progress>>

RenameJob ==
  /\ Clicks("rename", FALSE)
  /\ sel # NoJob
  /\ Send([NewCall("rename", sel) EXCEPT !.then = <<"list">>])
  /\ UNCHANGED <<page, busyDepth, selection, progress>>

\* The grid's order goes to the selected scan.
CommitReorder ==
  /\ Clicks("reorder", FALSE)
  /\ shown.count > 0
  /\ SendBusy([NewCall("reorder", sel) EXCEPT !.then = <<"select">>])
  /\ UNCHANGED <<page, selection, progress>>

DeleteJob ==
  /\ Clicks("deleteJob", FALSE)
  /\ sel # NoJob
  /\ SendBusy([NewCall("deleteJob", sel) EXCEPT !.then = <<"list">>])
  /\ UNCHANGED <<page, selection, progress>>

\* The thumbnail has been dropped, or the drag given up: renderJobDetail.
DragEnds ==
  /\ "reorder" \in scene.does
  /\ shown' \in Rendered(shown.job, shown.count)
  /\ UNCHANGED <<scene, failures, server, calls, listed, sel, viewer, busyDepth, selection,
                 progress>>

\* The browser loads the image under its number of this moment.
OpenPageViewer(n) ==
  /\ Clicks("open", FALSE)
  /\ n \in 1 .. shown.count
  /\ viewer' = [job |-> shown.job, page |-> n, img |-> ImageAt(shown.job, n), phase |-> "open"]
  /\ UNCHANGED <<calls, listed, sel, shown, busyDepth, selection, progress>>

\* The viewer starts to fade out ...
CloseViewer ==
  /\ Clicks("open", TRUE)
  /\ viewer.phase = "open"
  /\ viewer' = [viewer EXCEPT !.phase = "closed"]
  /\ UNCHANGED <<calls, listed, sel, shown, busyDepth, selection, progress>>

\* ... and has gone: hidden.bs.modal, be it under the overlay.
ViewerHidden ==
  /\ viewer.phase # "open"
  /\ viewer' = NoViewer
  /\ UNCHANGED <<scene, failures, server, calls, listed, sel, shown, busyDepth, selection,
                 progress>>

\* What a viewer's request is about.
ViewerCall(kind) == [NewCall(kind, viewer.job) EXCEPT !.page = viewer.page, !.img = viewer.img,
                                                      !.late = viewer.phase = "deleted"]

\* rotateCurrentPage, saveCrop
EditCurrentPage ==
  /\ Clicks("edit", TRUE)
  /\ SendBusy([ViewerCall("edit") EXCEPT !.then = <<"select">>])
  /\ UNCHANGED <<page, selection, progress>>

DeleteCurrentPage ==
  /\ Clicks("deletePage", TRUE)
  /\ SendBusy([ViewerCall("deletePage") EXCEPT !.then = <<"select", "list">>])
  /\ UNCHANGED <<page, selection, progress>>

\* The selection less a page.  Mutant: the page stays.
StillSelected(k) == combined
Without(k) == combined \ {k}

\* toggleCombine for a page of which img is on display, perhaps out of date.
Toggle(k, img, stale) ==
  /\ IF k \in combined
     THEN combined' = Without(k) /\ picked' = [picked EXCEPT ![k] = NoImage]
     ELSE combined' = combined \cup {k} /\ picked' = [picked EXCEPT ![k] = img]
  /\ shifted' = IF stale /\ k \notin combined THEN shifted \cup {k} ELSE shifted \ {k}
  /\ shown' \in Rendered(shown.job, shown.count)
  /\ UNCHANGED <<calls, listed, sel, viewer, busyDepth, lost, progress>>

\* From the thumbnail; from the viewer; and removeFromCombine, whatever scan is on
\* show.
ToggleCombine(n) == /\ Clicks("toggle", FALSE)
                    /\ n \in 1 .. shown.count
                    /\ Toggle(<<shown.job, n>>, shown.imgs[n], shown.stale)
ToggleViewed ==
  /\ Clicks("toggle", TRUE)
  /\ Toggle(<<viewer.job, viewer.page>>, viewer.img, viewer.phase = "deleted")
RemoveFromCombine == /\ Clicks("toggle", FALSE)
                     /\ \E k \in combined : Toggle(k, NoImage, FALSE)

\* combineSelected for the selection, exportWholeScan for the grid.
Combine ==
  /\ Clicks("combine", FALSE)
  /\ \E keys \in {combined, {<<shown.job, n>> : n \in 1 .. shown.count}} \ {{}} :
       SendBusy([NewCall("combine", NoJob) EXCEPT !.keys = keys])
  /\ UNCHANGED <<page, selection, progress>>

\* The button is disabled while scanning.  (Bound: there are scans left to start.)
StartScan ==
  /\ Clicks("start", FALSE)
  /\ ~scanning
  /\ Cardinality({j \in Jobs : server[j].status = "none"})
       > Cardinality({i \in DOMAIN calls : calls[i].kind = "start" /\ ~calls[i].answered})
  /\ scanning' = TRUE
  /\ Send(NewCall("start", NoJob))
  /\ UNCHANGED <<page, busyDepth, selection, timer>>

\* The interval's callback, up to its await.
Tick ==
  /\ timer # NoJob
  /\ Len(calls) < scene.calls
  /\ scene.slow \/ \A i \in DOMAIN calls : calls[i].kind # "poll"
  /\ Send(NewCall("poll", timer))
  /\ UNCHANGED <<scene, failures, server, page, busyDepth, selection, progress>>

-------------------------------------------------------------------------------
(* The server *)

\* handleDeletePage renumbers the pages after the deleted one.
Renumbered(pages, n) == [i \in 1 .. Len(pages) - 1 |-> IF i < n THEN pages[i] ELSE pages[i + 1]]

\* Whether the request can be granted, and the scans once it has been.
Granted(c) == CASE c.kind = "start" -> ~SomeScanRuns
                [] c.kind \in {"edit", "deletePage"} -> ImageAt(c.job, c.page) # NoImage
                [] c.kind = "list" -> TRUE
                [] c.kind = "combine" -> \A k \in c.keys : ImageAt(k[1], k[2]) # NoImage
                [] OTHER -> There(c.job)
Effects(c) ==
  CASE c.kind = "start" -> {[server EXCEPT ![j].status = "running"] :
                              j \in {k \in Jobs : server[k].status = "none"}}
    [] c.kind = "deletePage" -> {[server EXCEPT ![c.job].pages = Renumbered(@, c.page)]}
    [] c.kind = "deleteJob" -> {[server EXCEPT ![c.job] = [status |-> "gone", pages |-> <<>>]]}
    [] OTHER -> {server}

\* The answer to a request that has been granted.
Reply(c, after) ==
  [c EXCEPT !.answered = TRUE, !.ok = TRUE,
            !.job = IF c.kind = "start"
                    THEN CHOOSE j \in Jobs : after[j].status # server[j].status ELSE @,
            !.count = IF There(c.job) THEN Len(server[c.job].pages) ELSE 0,
            !.over = There(c.job) /\ server[c.job].status = "over",
            !.jobs = {j \in Jobs : There(j)}]

\* The thumbnails go on showing what they do, and the picked pages that a
\* deletion renumbers.
Outdates(c) == IF c.kind = "deletePage" /\ c.job = shown.job THEN [shown EXCEPT !.stale = TRUE]
                                                             ELSE shown
Shifts(c) == {k \in combined : c.kind = "deletePage" /\ k[1] = c.job /\ k[2] > c.page}

\* A request that fails may have been carried out or not.
Answer(i) ==
  LET c == calls[i]
      Refused == [c EXCEPT !.answered = TRUE]
  IN  /\ ~c.answered
      /\ scene.ordered => \A k \in 1 .. i - 1 : calls[k].answered
      /\ \/ /\ Granted(c)
            /\ shown' = Outdates(c) /\ shifted' = shifted \cup Shifts(c)
            /\ \E after \in Effects(c) :
                 /\ server' = after
                 /\ \/ /\ calls' = [calls EXCEPT ![i] = Reply(c, after)]
                       /\ UNCHANGED <<failures, lost>>
                    \/ /\ failures > 0
                       /\ failures' = failures - 1
                       /\ calls' = [calls EXCEPT ![i] = Refused]
                       /\ lost' = IF c.kind = "deletePage" THEN lost \cup {c.job} ELSE lost
         \/ /\ ~Granted(c)
            /\ calls' = [calls EXCEPT ![i] = Refused]
            /\ UNCHANGED <<server, shown, failures, shifted, lost>>
         \/ /\ failures > 0
            /\ failures' = failures - 1
            /\ calls' = [calls EXCEPT ![i] = Refused]
            /\ UNCHANGED <<server, shown, shifted, lost>>
      /\ UNCHANGED <<scene, listed, sel, viewer, busyDepth, combined, picked, progress>>

\* The scan goes on by itself.
ServerScans ==
  /\ \E j \in Jobs :
       LET scan == server[j]
           more == Append(scan.pages, <<j, Len(scan.pages) + 1>>)
       IN  /\ scan.status = "running"
           /\ server' = [server EXCEPT ![j] = IF Len(scan.pages) < MaxPages
                                              THEN [scan EXCEPT !.pages = more]
                                              ELSE [scan EXCEPT !.status = "over"]]
  /\ UNCHANGED <<scene, failures, calls, page, busyDepth, selection, progress>>

-------------------------------------------------------------------------------
(* What follows an answer *)

\* The end of an action, well or badly, takes its overlay away.  Mutants: only
\* an action that succeeds does; every request does.
EndsIfOk(c) == c.busy /\ c.ok
EndsAlways(c) == TRUE
Uncovers(c) == c.busy

\* The next reload of the action, if the request succeeded and there is one:
\* selectJob selects the scan at once.  (An exception ends the action.)
Continue(i, then, selected) ==
  LET c == calls[i]
      others == [k \in 1 .. Len(calls) - 1 |-> IF k < i THEN calls[k] ELSE calls[k + 1]]
  IN  /\ c.answered
      /\ scene.ordered => i = 1
      /\ IF c.ok /\ then # <<>>
         THEN /\ calls' = Append(others, [NewCall(Head(then), c.job) EXCEPT
                                            !.busy = c.busy, !.then = Tail(then)])
              /\ sel' = IF Head(then) = "select" THEN c.job ELSE selected
              /\ UNCHANGED busyDepth
         ELSE /\ calls' = others
              /\ sel' = selected
              /\ busyDepth' = IF Uncovers(c) THEN busyDepth - 1 ELSE busyDepth
      /\ UNCHANGED <<scene, failures, server, picked, shifted, lost>>

\* The answer shows nowhere but in the reloads that follow.
EditReturns(i) ==
  /\ calls[i].kind \in {"rename", "reorder", "edit", "combine"}
  /\ Continue(i, calls[i].then, sel)
  /\ UNCHANGED <<listed, shown, combined, viewer, progress>>

\* selectJob after its await: the grid shows the scan of the answer, and loads its
\* thumbnails.
SelectReturns(i) ==
  LET c == calls[i]
  IN  /\ c.kind = "select"
      /\ Continue(i, c.then, sel)
      /\ shown' \in IF c.ok THEN Rendered(c.job, c.count) ELSE {shown}
      /\ UNCHANGED <<listed, combined, viewer, progress>>

\* loadJobs after its await.
ListReturns(i) ==
  /\ calls[i].kind = "list"
  /\ Continue(i, calls[i].then, sel)
  /\ listed' = IF calls[i].ok THEN calls[i].jobs ELSE listed
  /\ UNCHANGED <<shown, combined, viewer, progress>>

\* The page leaves the selection, and hide() makes the viewer start to fade out,
\* or go on.
DeletePageReturns(i) ==
  LET c == calls[i]
  IN  /\ c.kind = "deletePage"
      /\ Continue(i, c.then, sel)
      /\ IF c.ok
         THEN /\ combined' = Without(<<c.job, c.page>>)
              /\ viewer' = IF viewer = NoViewer THEN viewer ELSE [viewer EXCEPT !.phase = "deleted"]
         ELSE UNCHANGED <<combined, viewer>>
      /\ UNCHANGED <<listed, shown, progress>>

\* Mutant: the grid goes on showing the scan.
StillShown == shown
Emptied == EmptyGrid

DeleteJobReturns(i) ==
  LET c == calls[i]
  IN  /\ c.kind = "deleteJob"
      /\ Continue(i, c.then, IF c.ok THEN NoJob ELSE sel)
      /\ shown' = IF c.ok THEN Emptied ELSE shown
      /\ UNCHANGED <<listed, combined, viewer, progress>>

\* watchScanProgress, or the error.  Mutant: the button is left disabled.
StillScanning(ok) == scanning
Started(ok) == ok /\ scanning

StartReturns(i) ==
  LET c == calls[i]
  IN  /\ c.kind = "start"
      /\ Continue(i, <<>>, sel)
      /\ timer' = IF c.ok THEN c.job ELSE timer
      /\ scanning' = Started(c.ok)
      /\ UNCHANGED <<listed, shown, combined, viewer>>

\* The interval ends with the scan, whichever interval it is by now; a poll
\* that fails changes nothing.  Mutant: the interval goes on.
NeverCleared(c) == timer
Cleared(c) == IF c.ok /\ c.over THEN NoJob ELSE timer
StillGoing(c) == scanning /\ ~(c.ok /\ c.over)

PollReturns(i) ==
  LET c == calls[i]
  IN  /\ c.kind = "poll"
      /\ Continue(i, IF c.over THEN <<"list", "select">> ELSE <<>>, sel)
      /\ timer' = Cleared(c)
      /\ scanning' = StillGoing(c)
      /\ UNCHANGED <<listed, shown, combined, viewer>>

-------------------------------------------------------------------------------
User == \/ \E j \in Jobs : SelectJob(j)
        \/ RenameJob \/ CommitReorder \/ DeleteJob
        \/ \E n \in Numbers : OpenPageViewer(n) \/ ToggleCombine(n)
        \/ CloseViewer \/ EditCurrentPage \/ DeleteCurrentPage
        \/ ToggleViewed \/ RemoveFromCombine
        \/ Combine \/ StartScan

Browser == DragEnds \/ ViewerHidden

Return(i) == \/ EditReturns(i) \/ SelectReturns(i) \/ ListReturns(i) \/ DeletePageReturns(i)
             \/ DeleteJobReturns(i) \/ StartReturns(i) \/ PollReturns(i)

Next == \/ User \/ Browser
        \/ Tick
        \/ \E i \in DOMAIN calls : Answer(i) \/ Return(i)
        \/ ServerScans

Spec == Init /\ [][Next]_vars

\* The server answers, the browser runs what an answer sets off, scans end.
\* The timer ticks, whatever the bound on calls: hence strong fairness.
FairSpec == /\ Spec
            /\ WF_vars(calls # <<>> /\ (Answer(1) \/ Return(1)))
            /\ WF_vars(ServerScans)
            /\ SF_vars(Tick)

-------------------------------------------------------------------------------
(* Properties *)

TypeOK == /\ scene \in Scenes
          /\ failures \in 0 .. scene.failures
          /\ server \in [Jobs -> Scan]
          /\ calls \in Seq(Call) /\ Len(calls) <= scene.calls
          /\ listed \subseteq Jobs
          /\ sel \in Jobs \cup {NoJob}
          /\ shown \in Grid
          /\ combined \subseteq Keys
          /\ viewer \in Viewer
          /\ busyDepth \in Nat
          /\ scanning \in BOOLEAN
          /\ timer \in Jobs \cup {NoJob}
          /\ picked \in [Keys -> Images]
          /\ shifted \subseteq Keys
          /\ lost \subseteq Jobs

\* "Wraps an async action with a full-screen busy spinner" (app.js:33): that is
\* also what keeps a page number from being used twice.  A request to edit or
\* delete a page reaches the server while that number is still the page that
\* the viewer was opened on - unless the answer to a deletion has been lost, or
\* the click has come after one, while the viewer of the deleted page was fading
\* out (app.js:520 hides it, and state.viewer lasts until it is hidden, 685): the
\* number is then that of another page.
EditsHitTheViewedPage ==
  \A i \in DOMAIN calls :
    LET c == calls[i]
    IN  c.kind \in {"edit", "deletePage"} /\ ~c.answered /\ ~c.late /\ c.job \notin lost
          => ImageAt(c.job, c.page) = c.img

\* A page in the combine selection is the one whose image was on display when it
\* was picked, as long as no page before it has been deleted (app.js:516-518
\* drops the deleted page only; the pages after it get its number and those that
\* follow).  One that was picked after a deletion, from thumbnails that had not
\* been loaded again because the selectJob that follows (521) had failed, or from
\* a viewer that was still fading out, may be another page from the start.
SelectionShowsWhatWasPicked ==
  \A k \in combined :
    \/ ImageAt(k[1], k[2]) = picked[k]
    \/ k \in shifted \/ k[1] \in lost \/ ~There(k[1])
    \/ \E m \in DOMAIN calls :
         calls[m].kind = "deletePage" /\ <<calls[m].job, calls[m].page>> = k

\* A scan that is renamed, reordered or deleted is the one on show, in between
\* answers, if they arrive in the order of the requests and none fails:
\* selectJob sets the two apart, before and after its await (app.js:166-169).
\* And no scan is on show when none is selected - but for the end of a scan that
\* is being watched: its selectJob may come between a deletion and its answer.
SelectionSettles ==
  scene.ordered /\ scene.failures = 0 /\ "start" \notin scene.does
    /\ (\A i \in DOMAIN calls : calls[i].kind # "select")
    => shown.job = sel

\* The start button never stays disabled with nothing on its way that could
\* enable it, however late the answers to polls are; and, "the existing disable
\* while a scan is already running" (app.js:90), it is disabled while the
\* progress of a scan is being watched, if no poll takes longer than the interval.
StartButtonFollowsTheScan ==
  /\ scanning => timer # NoJob \/ \E i \in DOMAIN calls : calls[i].kind = "start"
  /\ ~scene.slow /\ timer # NoJob => scanning

\* The overlay comes down, whatever request of the action fails.
OverlayComesDown == busyDepth > 0 ~> busyDepth = 0

\* The progress of a scan is watched until it has ended, or is deleted,
\* whatever polls fail.
WatchEnds == \A j \in Jobs : timer = j ~> (timer # j \/ ~There(j))
===============================================================================
