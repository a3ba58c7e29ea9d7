---------------------------- MODULE ScanJobsProofs ----------------------------
(***************************************************************************)
(* Proofs about ScanJobs.tla for any number of jobs, pollers, readers and  *)
(* sheets, with or without disk failures and crashes.                      *)
(***************************************************************************)
EXTENDS ScanJobs, TLAPS

-------------------------------------------------------------------------------
(* Types *)

LEMMA TypeInit == Init => TypeOK
BY BoundAssumption
   DEF Init, TypeOK, JobState, Nil, Statuses, Places, Meta, NewMeta, Record, Absent, Reply,
       NoReply

\* The helpers the actions share keep the types of what they assign.
LEMMA GotoType ==
  ASSUME TypeOK, NEW j \in Jobs, NEW place \in Places, Goto(j, place)
  PROVE  pc' \in [Jobs -> Places]
BY DEF TypeOK, Goto

LEMMA RunEndsType ==
  ASSUME TypeOK, NEW j \in Jobs, NEW status \in Statuses, RunEnds(j, status)
  PROVE  meta' \in [Jobs -> Meta] /\ pc' \in [Jobs -> Places]
<1>1. "finish" \in Places
  BY DEF Places, InProgress
<1> QED
  BY <1>1, GotoType DEF TypeOK, RunEnds, Meta

LEMMA BeginSaveType ==
  ASSUME TypeOK, NEW j \in Jobs, NEW writing \in Places, NEW failed \in Places,
         BeginSave(j, writing, failed)
  PROVE  /\ disk' \in [Jobs -> Record] /\ pc' \in [Jobs -> Places]
         /\ unsaved' \subseteq Jobs
<1>1. Torn \in Record
  BY DEF Torn, Record, NewMeta, Meta, Statuses
<1> QED
  BY <1>1, GotoType DEF TypeOK, BeginSave, SaveFails

\* Every place a goroutine is sent to is a place.
LEMMA PlacesFacts ==
  /\ InProgress \subseteq Places
  /\ Scanning \subseteq InProgress
  /\ {"create", "creating", "abort", "open", "finish", "finishing", "mark"} \subseteq InProgress
  /\ {"next", "scan", "frontOnly", "front", "back", "checkpoint", "saving", "progress"}
       \subseteq Scanning
  /\ {"unused", "close", "done", "aborted", "lost"} \subseteq Places
  /\ {"unused", "close", "done", "aborted", "lost"} \cap InProgress = {}
BY DEF Places, InProgress, Scanning

LEMMA TypeStep == TypeOK /\ [Next]_vars => TypeOK'
<1> SUFFICES ASSUME TypeOK, [Next]_vars PROVE TypeOK'
  OBVIOUS
<1> USE PlacesFacts
<1>1. ASSUME NEW j \in Jobs, StartScan(j) PROVE TypeOK'
  BY <1>1, GotoType DEF StartScan, TypeOK, JobState, Statuses
<1>2. ASSUME NEW j \in Jobs, CreateJob(j) PROVE TypeOK'
  BY <1>2, BeginSaveType DEF CreateJob, TypeOK
<1>3. ASSUME NEW j \in Jobs, WriteMeta(j) PROVE TypeOK'
  <2>1. Saved[pc[j]] \in Places /\ SaveFailed[pc[j]] \in Places
    BY <1>3 DEF WriteMeta, SaveFails, Saved, SaveFailed
  <2>2. pc' \in [Jobs -> Places]
    BY <1>3, <2>1, GotoType DEF WriteMeta, SaveFails
  <2>3. Whole(meta[j]) \in Record
    BY DEF Whole, Record, TypeOK
  <2>4. disk' \in [Jobs -> Record] /\ unsaved' \subseteq Jobs
    BY <1>3, <2>3 DEF WriteMeta, SaveFails, TypeOK
  <2> QED
    BY <1>3, <2>2, <2>4 DEF WriteMeta, TypeOK
<1>4. ASSUME NEW j \in Jobs, AbortStart(j) PROVE TypeOK'
  BY <1>4, GotoType DEF AbortStart, Aborted, TypeOK, JobState, Statuses
<1>5. ASSUME NEW j \in Jobs, Open(j) PROVE TypeOK'
  BY <1>5, GotoType, RunEndsType DEF Open, TypeOK, Statuses
<1>6. ASSUME NEW j \in Jobs, HasNextPage(j) PROVE TypeOK'
  BY <1>6, GotoType, RunEndsType DEF HasNextPage, TypeOK, Statuses
<1>7. ASSUME NEW j \in Jobs, ScanPage(j) PROVE TypeOK'
  <2>1. paper' \in 0 .. MaxSheets
    BY <1>7, BoundAssumption DEF ScanPage, TypeOK
  <2>2. meta' \in [Jobs -> Meta] /\ pc' \in [Jobs -> Places]
    BY <1>7, GotoType, RunEndsType DEF ScanPage, TypeOK, Statuses
  <2> QED
    BY <1>7, <2>1, <2>2 DEF ScanPage, TypeOK
<1>8. ASSUME NEW j \in Jobs, SaveImage(j) PROVE TypeOK'
  <2>1. meta[j].pages + 1 \in Nat \ {0}
    BY DEF TypeOK, Meta
  <2>2. files' \in [Jobs -> SUBSET (Nat \ {0})]
    BY <1>8, <2>1 DEF SaveImage, NextIndex, TypeOK
  <2>3. NextSide[pc[j]] \in Places
    BY <1>8 DEF SaveImage, NextSide
  <2>4. [meta EXCEPT ![j].pages = meta[j].pages + 1] \in [Jobs -> Meta]
    BY <2>1 DEF TypeOK, Meta
  <2>5. meta' \in [Jobs -> Meta] /\ pc' \in [Jobs -> Places]
    BY <1>8, <2>3, <2>4, GotoType, RunEndsType DEF SaveImage, NextIndex, Statuses
  <2> QED
    BY <1>8, <2>2, <2>5 DEF SaveImage, TypeOK
<1>9. ASSUME NEW j \in Jobs, Checkpoint(j) PROVE TypeOK'
  <2>1. meta' \in [Jobs -> Meta]
    BY <1>9 DEF Checkpoint, PageCount, TypeOK, Meta
  <2> QED
    BY <1>9, <2>1, BeginSaveType DEF Checkpoint, TypeOK
<1>10. ASSUME NEW j \in Jobs, Progress(j) PROVE TypeOK'
  BY <1>10, GotoType DEF Progress, PagesScanned, TypeOK, JobState, Meta
<1>11. ASSUME NEW j \in Jobs, Finish(j) PROVE TypeOK'
  BY <1>11, BeginSaveType DEF Finish, TypeOK
<1>12. ASSUME NEW j \in Jobs, Mark(j) PROVE TypeOK'
  BY <1>12, GotoType DEF Mark, AfterFinish, TypeOK, JobState, Meta
<1>13. ASSUME NEW j \in Jobs, Close(j) PROVE TypeOK'
  BY <1>13, GotoType DEF Close, TypeOK
<1>14. ASSUME NEW p \in Pollers, DetectOpen(p) \/ DetectClose(p) PROVE TypeOK'
  BY <1>14 DEF DetectOpen, DetectClose, TypeOK
<1>15. ASSUME NEW r \in Readers, NEW j \in Jobs, GetLoad(r, j) PROVE TypeOK'
  <2>1. NewMeta \in Meta /\ disk[j].meta \in Meta
    BY DEF TypeOK, Record, NewMeta, Meta, Statuses
  <2>2. get' \in [Readers -> Reply]
    BY <1>15, <2>1 DEF GetLoad, TypeOK, Reply, NoReply
  <2> QED
    BY <1>15, <2>2 DEF GetLoad, TypeOK
<1>16. ASSUME NEW r \in Readers, GetOverlay(r) PROVE TypeOK'
  <2>a. get[r] \in Reply /\ running.pages \in Nat
    BY DEF TypeOK, JobState
  <2>1. [get[r] EXCEPT !.step = "replied"] \in Reply
    BY <2>a DEF Reply
  <2>2. [get[r] EXCEPT !.step = "replied", !.live = TRUE, !.pagesScanned = running.pages]
          \in Reply
    BY <2>a DEF Reply
  <2>3. get' \in [Readers -> Reply]
    BY <1>16, <2>1, <2>2 DEF GetOverlay, TypeOK
  <2> QED
    BY <1>16, <2>3 DEF GetOverlay, TypeOK
<1>17. ASSUME Crash PROVE TypeOK'
  <2>1. Nil \in JobState /\ NoReply \in Reply
    BY DEF Nil, JobState, Statuses, NoReply, Reply, NewMeta, Meta
  <2>2. pc' \in [Jobs -> Places]
    BY <1>17 DEF Crash, TypeOK
  <2> QED
    BY <1>17, <2>1, <2>2 DEF Crash, TypeOK
<1>18. CASE UNCHANGED vars
  BY <1>18 DEF vars, TypeOK
<1> QED
  BY <1>1, <1>2, <1>3, <1>4, <1>5, <1>6, <1>7, <1>8, <1>9, <1>10, <1>11, <1>12, <1>13,
     <1>14, <1>15, <1>16, <1>17, <1>18 DEF Next, Run

\* Every variable keeps its type.
THEOREM TypeCorrect == Spec => []TypeOK
BY TypeInit, TypeStep, PTL DEF Spec

-------------------------------------------------------------------------------
(* One scan at a time *)

\* The steps that are not a job's own leave every place but the crashed ones
\* alone, and only Crash among them touches m.running.
LEMMA OtherSteps ==
  ASSUME \/ \E p \in Pollers : DetectOpen(p) \/ DetectClose(p)
         \/ \E r \in Readers : GetOverlay(r) \/ \E j \in Jobs : GetLoad(r, j)
         \/ UNCHANGED vars
  PROVE  UNCHANGED <<running, pc, meta, disk, files, paper, unsaved>>
BY DEF DetectOpen, DetectClose, GetOverlay, GetLoad, vars

\* A goroutine that has not reached the end of finish stays in progress and
\* does not touch the id or the status in m.running.
LEMMA StaysInProgress ==
  ASSUME TypeOK, NEW j \in Jobs,
         \/ CreateJob(j) \/ WriteMeta(j) \/ Open(j) \/ HasNextPage(j) \/ ScanPage(j)
         \/ SaveImage(j) \/ Checkpoint(j) \/ Progress(j) \/ Finish(j)
  PROVE  /\ pc[j] \in InProgress
         /\ \E place \in InProgress : pc' = [pc EXCEPT ![j] = place]
         /\ running'.id = running.id /\ running'.status = running.status
<1> USE PlacesFacts
<1>1. CASE CreateJob(j)
  BY <1>1 DEF CreateJob, BeginSave, SaveFails, Goto
<1>2. CASE WriteMeta(j)
  BY <1>2 DEF WriteMeta, SaveFails, Saved, SaveFailed, Goto
<1>3. CASE Open(j)
  BY <1>3 DEF Open, RunEnds, Goto
<1>4. CASE HasNextPage(j)
  BY <1>4 DEF HasNextPage, RunEnds, Goto
<1>5. CASE ScanPage(j)
  BY <1>5 DEF ScanPage, RunEnds, Goto
<1>6. CASE SaveImage(j)
  BY <1>6 DEF SaveImage, NextSide, RunEnds, Goto
<1>7. CASE Checkpoint(j)
  BY <1>7 DEF Checkpoint, BeginSave, SaveFails, Goto
<1>8. CASE Progress(j)
  BY <1>8 DEF Progress, Goto, TypeOK, JobState
<1>9. CASE Finish(j)
  BY <1>9 DEF Finish, BeginSave, SaveFails, Goto
<1> QED
  BY <1>1, <1>2, <1>3, <1>4, <1>5, <1>6, <1>7, <1>8, <1>9

LEMMA BusyStep ==
  TypeOK /\ StatusFollowsPlace /\ BusyFlagExact /\ [Next]_vars => BusyFlagExact'
<1> SUFFICES ASSUME TypeOK, StatusFollowsPlace, BusyFlagExact, [Next]_vars
             PROVE  BusyFlagExact'
  OBVIOUS
<1> USE PlacesFacts
<1>1. ASSUME NEW j \in Jobs, StartScan(j) PROVE BusyFlagExact'
  BY <1>1, NoJobAssumption DEF StartScan, Goto, BusyFlagExact, Active, Busy, TypeOK
<1>2. ASSUME NEW j \in Jobs,
             \/ CreateJob(j) \/ WriteMeta(j) \/ Open(j) \/ HasNextPage(j) \/ ScanPage(j)
             \/ SaveImage(j) \/ Checkpoint(j) \/ Progress(j) \/ Finish(j)
      PROVE  BusyFlagExact'
  BY <1>2, StaysInProgress DEF BusyFlagExact, Active, Busy, TypeOK
<1>3. ASSUME NEW j \in Jobs, AbortStart(j) PROVE BusyFlagExact'
  BY <1>3 DEF AbortStart, Aborted, Goto, BusyFlagExact, Active, Busy, TypeOK, JobState
<1>4. ASSUME NEW j \in Jobs, Mark(j) PROVE BusyFlagExact'
  <2>1. Active(j) /\ Busy /\ running.id = j
    BY <1>4 DEF Mark, BusyFlagExact, Active
  <2>2. meta[j].status # "running"
    BY <1>4 DEF Mark, StatusFollowsPlace, Ended
  <2>3. ~Busy'
    BY <1>4, <2>1, <2>2 DEF Mark, Busy, TypeOK, JobState
  <2>4. ~Active(j)' /\ \A i \in Jobs \ {j} : Active(i)' = Active(i)
    BY <1>4 DEF Mark, AfterFinish, Goto, Active, TypeOK
  <2> QED
    BY <2>1, <2>3, <2>4 DEF BusyFlagExact
<1>5. ASSUME NEW j \in Jobs, Close(j) PROVE BusyFlagExact'
  BY <1>5 DEF Close, Goto, BusyFlagExact, Active, Busy, TypeOK
<1>6. CASE Crash
  BY <1>6 DEF Crash, Nil, BusyFlagExact, Active, Busy, TypeOK
<1>7. CASE UNCHANGED <<running, pc>>
  BY <1>7 DEF BusyFlagExact, Active, Busy
<1> QED
  BY <1>1, <1>2, <1>3, <1>4, <1>5, <1>6, <1>7, OtherSteps DEF Next, Run

-------------------------------------------------------------------------------
(* The goroutine's metadata and its place *)

LEMMA StatusStep ==
  TypeOK /\ StatusFollowsPlace /\ [Next]_vars => StatusFollowsPlace'
<1> SUFFICES ASSUME TypeOK, StatusFollowsPlace, [Next]_vars PROVE StatusFollowsPlace'
  OBVIOUS
<1> USE DEF StatusFollowsPlace, Ended, Goto
\* What a step of job j has to do: keep the others, and end in the right place.
<1>1. ASSUME NEW j \in Jobs, NEW place \in Places, pc' = [pc EXCEPT ![j] = place],
             UNCHANGED meta,
             place \notin Ended \cup {"lost"} => pc[j] \notin Ended \cup {"lost"},
             place \in Ended => pc[j] \in Ended
      PROVE  StatusFollowsPlace'
  BY <1>1 DEF TypeOK
<1>2. ASSUME NEW j \in Jobs, NEW status \in {"completed", "failed"}, RunEnds(j, status)
      PROVE  StatusFollowsPlace'
  BY <1>2 DEF RunEnds, TypeOK, Meta
<1>3. ASSUME NEW j \in Jobs, StartScan(j) PROVE StatusFollowsPlace'
  BY <1>1, <1>3, PlacesFacts DEF StartScan
<1>4. ASSUME NEW j \in Jobs, CreateJob(j) PROVE StatusFollowsPlace'
  BY <1>1, <1>4, PlacesFacts DEF CreateJob, BeginSave, SaveFails
<1>5. ASSUME NEW j \in Jobs, WriteMeta(j) PROVE StatusFollowsPlace'
  BY <1>1, <1>5, PlacesFacts DEF WriteMeta, SaveFails, Saved, SaveFailed
<1>6. ASSUME NEW j \in Jobs, AbortStart(j) PROVE StatusFollowsPlace'
  BY <1>1, <1>6, PlacesFacts DEF AbortStart
<1>7. ASSUME NEW j \in Jobs, Open(j) PROVE StatusFollowsPlace'
  BY <1>1, <1>2, <1>7, PlacesFacts DEF Open
<1>8. ASSUME NEW j \in Jobs, HasNextPage(j) PROVE StatusFollowsPlace'
  BY <1>1, <1>2, <1>8, PlacesFacts DEF HasNextPage
<1>9. ASSUME NEW j \in Jobs, ScanPage(j) PROVE StatusFollowsPlace'
  BY <1>1, <1>2, <1>9, PlacesFacts DEF ScanPage
<1>10. ASSUME NEW j \in Jobs, SaveImage(j) PROVE StatusFollowsPlace'
  <2>1. CASE RunEnds(j, "failed")
    BY <1>2, <2>1
  <2>2. CASE /\ meta' = [meta EXCEPT ![j].pages = NextIndex(j)]
             /\ Goto(j, NextSide[pc[j]])
    <3>1. NextSide[pc[j]] \in {"back", "checkpoint"} /\ pc[j] \notin Ended \cup {"lost"}
      BY <1>10 DEF SaveImage, NextSide
    <3>2. \A i \in Jobs : meta'[i].status = meta[i].status
      BY <2>2 DEF TypeOK, Meta
    <3> QED
      BY <2>2, <3>1, <3>2 DEF TypeOK
  <2> QED
    BY <1>10, <2>1, <2>2 DEF SaveImage
<1>11. ASSUME NEW j \in Jobs, Checkpoint(j) PROVE StatusFollowsPlace'
  <2>1. \A i \in Jobs : meta'[i].status = meta[i].status
    BY <1>11 DEF Checkpoint, TypeOK, Meta
  <2> QED
    BY <1>11, <2>1 DEF Checkpoint, BeginSave, SaveFails, TypeOK
<1>12. ASSUME NEW j \in Jobs, Progress(j) PROVE StatusFollowsPlace'
  BY <1>1, <1>12, PlacesFacts DEF Progress
<1>13. ASSUME NEW j \in Jobs, Finish(j) PROVE StatusFollowsPlace'
  BY <1>1, <1>13, PlacesFacts DEF Finish, BeginSave, SaveFails
<1>14. ASSUME NEW j \in Jobs, Mark(j) PROVE StatusFollowsPlace'
  BY <1>1, <1>14, PlacesFacts DEF Mark, AfterFinish
<1>15. ASSUME NEW j \in Jobs, Close(j) PROVE StatusFollowsPlace'
  BY <1>1, <1>15, PlacesFacts DEF Close
<1>16. CASE Crash
  BY <1>16, PlacesFacts DEF Crash, Active, TypeOK
<1>17. CASE UNCHANGED <<pc, meta>>
  BY <1>17
<1> QED
  BY <1>3, <1>4, <1>5, <1>6, <1>7, <1>8, <1>9, <1>10, <1>11, <1>12, <1>13, <1>14, <1>15,
     <1>16, <1>17, OtherSteps DEF Next, Run

LEMMA DeviceStep == TypeOK /\ DeviceExclusive /\ [Next]_vars => DeviceExclusive'
<1> SUFFICES ASSUME TypeOK, DeviceExclusive, [Next]_vars PROVE DeviceExclusive'
  OBVIOUS
<1> USE DEF DeviceExclusive, Scanning, Goto
\* A step that leaves the claim alone may enter no new place that needs it.
<1>1. ASSUME NEW j \in Jobs, NEW place \in Places, pc' = [pc EXCEPT ![j] = place],
             UNCHANGED holder,
             place \in Scanning \cup {"close"} =>
               pc[j] \in Scanning \cup {"close"} \/ holder = j
      PROVE  DeviceExclusive'
  BY <1>1 DEF TypeOK
<1>2. ASSUME NEW j \in Jobs, NEW status, RunEnds(j, status), UNCHANGED holder
      PROVE  DeviceExclusive'
  BY <1>1, <1>2, PlacesFacts DEF RunEnds
<1>3. ASSUME NEW j \in Jobs, Open(j) PROVE DeviceExclusive'
  BY <1>2, <1>3, NobodyAssumption DEF Open, CanClaim, TypeOK
<1>4. ASSUME NEW j \in Jobs, Close(j) PROVE DeviceExclusive'
  BY <1>4 DEF Close, TypeOK
<1>5. ASSUME NEW p \in Pollers, DetectOpen(p) \/ DetectClose(p) PROVE DeviceExclusive'
  BY <1>5, NobodyAssumption DEF DetectOpen, DetectClose, CanClaim
<1>6. ASSUME NEW j \in Jobs, StartScan(j) \/ CreateJob(j) \/ AbortStart(j) \/ Finish(j)
      PROVE  DeviceExclusive'
  BY <1>1, <1>6, PlacesFacts DEF StartScan, CreateJob, AbortStart, Finish, BeginSave, SaveFails
<1>7. ASSUME NEW j \in Jobs, WriteMeta(j) PROVE DeviceExclusive'
  BY <1>1, <1>7, PlacesFacts DEF WriteMeta, SaveFails, Saved, SaveFailed
<1>8. ASSUME NEW j \in Jobs, HasNextPage(j) \/ ScanPage(j) PROVE DeviceExclusive'
  BY <1>1, <1>2, <1>8, PlacesFacts DEF HasNextPage, ScanPage
<1>9. ASSUME NEW j \in Jobs, SaveImage(j) PROVE DeviceExclusive'
  BY <1>1, <1>2, <1>9, PlacesFacts DEF SaveImage, NextSide
<1>10. ASSUME NEW j \in Jobs, Checkpoint(j) \/ Progress(j) \/ Mark(j) PROVE DeviceExclusive'
  BY <1>1, <1>10, PlacesFacts DEF Checkpoint, Progress, Mark, AfterFinish, BeginSave, SaveFails
<1>11. CASE Crash
  BY <1>11, PlacesFacts DEF Crash, Active, TypeOK
<1>12. CASE UNCHANGED <<pc, holder>>
  BY <1>12
<1> QED
  BY <1>3, <1>4, <1>5, <1>6, <1>7, <1>8, <1>9, <1>10, <1>11, <1>12
     DEF Next, Run, GetOverlay, GetLoad, vars

\* One more page extends both the file set and the page list.
LEMMA NextPageInterval ==
  ASSUME NEW n \in Nat
  PROVE  (1 .. n) \cup {n + 1} = 1 .. (n + 1)
OBVIOUS

LEMMA PagesStep ==
  TypeOK /\ StatusFollowsPlace /\ PagesFollowPlace /\ [Next]_vars => PagesFollowPlace'
<1> SUFFICES ASSUME TypeOK, StatusFollowsPlace, PagesFollowPlace, [Next]_vars
             PROVE  PagesFollowPlace'
  OBVIOUS
<1> USE DEF PagesFollowPlace, Ended, Goto, CountTrails
\* A step that touches neither pages nor metadata enters no place in which
\* PageCount has to be right.
<1>1. ASSUME NEW j \in Jobs, NEW place \in Places, pc' = [pc EXCEPT ![j] = place],
             UNCHANGED <<meta, files>>,
             place \notin Ended \cup {"back", "checkpoint", "lost"} =>
               pc[j] \notin Ended \cup {"back", "checkpoint", "lost"},
             place \notin {"unused", "back"}, place \in Ended => pc[j] \in Ended
      PROVE  PagesFollowPlace'
  BY <1>1 DEF TypeOK
<1>2. ASSUME NEW j \in Jobs, NEW status \in {"completed", "failed"}, RunEnds(j, status),
             UNCHANGED files, pc[j] \in {"open", "next", "scan", "frontOnly", "front", "back"},
             status = "completed" => pc[j] = "next"
      PROVE  PagesFollowPlace'
  <2>1. /\ meta'[j].pages = meta[j].pages /\ meta'[j].count = meta[j].count
        /\ meta'[j].status = status /\ \A i \in Jobs \ {j} : meta'[i] = meta[i]
    BY <1>2 DEF RunEnds, TypeOK, Meta
  <2>2. pc'[j] = "finish" /\ \A i \in Jobs \ {j} : pc'[i] = pc[i]
    BY <1>2 DEF RunEnds, TypeOK
  <2> QED
    BY <1>2, <2>1, <2>2
<1>3. ASSUME NEW j \in Jobs, StartScan(j) \/ CreateJob(j) \/ AbortStart(j) \/ Progress(j)
      PROVE  PagesFollowPlace'
  BY <1>1, <1>3, PlacesFacts DEF StartScan, CreateJob, AbortStart, Progress, BeginSave, SaveFails
<1>4. ASSUME NEW j \in Jobs, WriteMeta(j) PROVE PagesFollowPlace'
  BY <1>1, <1>4, PlacesFacts DEF WriteMeta, SaveFails, Saved, SaveFailed
<1>5. ASSUME NEW j \in Jobs, Open(j) \/ HasNextPage(j) PROVE PagesFollowPlace'
  BY <1>1, <1>2, <1>5, PlacesFacts DEF Open, HasNextPage
<1>6. ASSUME NEW j \in Jobs, ScanPage(j) PROVE PagesFollowPlace'
  BY <1>1, <1>2, <1>6, PlacesFacts DEF ScanPage
<1>7. ASSUME NEW j \in Jobs, SaveImage(j) PROVE PagesFollowPlace'
  <2>1. CASE RunEnds(j, "failed") /\ UNCHANGED files
    BY <1>2, <1>7, <2>1 DEF SaveImage
  <2>2. CASE /\ files' = [files EXCEPT ![j] = @ \cup {NextIndex(j)}]
             /\ meta' = [meta EXCEPT ![j].pages = NextIndex(j)]
             /\ Goto(j, NextSide[pc[j]])
    <3>1. /\ meta'[j].pages = meta[j].pages + 1 /\ meta'[j].status = meta[j].status
          /\ \A i \in Jobs \ {j} : meta'[i] = meta[i]
      BY <2>2 DEF NextIndex, TypeOK, Meta
    <3>2. files'[j] = 1 .. meta'[j].pages /\ \A i \in Jobs \ {j} : files'[i] = files[i]
      BY <2>2, <3>1, NextPageInterval DEF NextIndex, TypeOK, Meta
    <3>3. pc'[j] \in {"back", "checkpoint"} /\ \A i \in Jobs \ {j} : pc'[i] = pc[i]
      BY <1>7, <2>2 DEF SaveImage, NextSide, TypeOK
    <3>4. meta[j].status = "running"
      BY <1>7 DEF SaveImage, StatusFollowsPlace
    <3>5. pc'[j] = "back" => meta'[j].pages = meta'[j].count + 1
      <4>1. pc'[j] = "back" => pc[j] = "front"
        BY <1>7, <2>2 DEF SaveImage, NextSide, TypeOK
      <4>2. pc[j] = "front" => meta[j].count = meta[j].pages
        OBVIOUS
      <4>3. meta'[j].count = meta[j].count
        BY <2>2 DEF TypeOK, Meta
      <4> QED
        BY <3>1, <4>1, <4>2, <4>3
    <3> QED
      BY <3>1, <3>2, <3>3, <3>4, <3>5
  <2> QED
    BY <1>7, <2>1, <2>2 DEF SaveImage
<1>8. ASSUME NEW j \in Jobs, Checkpoint(j) PROVE PagesFollowPlace'
  <2>1. /\ meta'[j].pages = meta[j].pages /\ meta'[j].count = meta[j].pages
        /\ \A i \in Jobs \ {j} : meta'[i] = meta[i]
    BY <1>8 DEF Checkpoint, PageCount, TypeOK, Meta
  <2>2. pc'[j] \in {"saving", "progress"} /\ \A i \in Jobs \ {j} : pc'[i] = pc[i]
    BY <1>8 DEF Checkpoint, BeginSave, SaveFails, TypeOK
  <2> QED
    BY <1>8, <2>1, <2>2 DEF Checkpoint
<1>9. ASSUME NEW j \in Jobs, Finish(j) \/ Mark(j) \/ Close(j) PROVE PagesFollowPlace'
  BY <1>1, <1>9, PlacesFacts DEF Finish, Mark, Close, AfterFinish, BeginSave, SaveFails
<1>10. CASE Crash
  BY <1>10 DEF Crash, Active, InProgress, TypeOK
<1>11. CASE UNCHANGED <<pc, meta, files>>
  BY <1>11
<1> QED
  BY <1>3, <1>4, <1>5, <1>6, <1>7, <1>8, <1>9, <1>10, <1>11, OtherSteps DEF Next, Run

-------------------------------------------------------------------------------
(* The record on disk *)

LEMMA DiskStep ==
  TypeOK /\ StatusFollowsPlace /\ DiskFollowsMeta /\ [Next]_vars => DiskFollowsMeta'
<1> SUFFICES ASSUME TypeOK, StatusFollowsPlace, DiskFollowsMeta, [Next]_vars
             PROVE  DiskFollowsMeta'
  OBVIOUS
<1> USE DEF DiskFollowsMeta, Goto
\* A step that neither writes the record nor changes the metadata and leaves
\* no final place.
<1>1. ASSUME NEW j \in Jobs, NEW place \in Places, pc' = [pc EXCEPT ![j] = place],
             UNCHANGED <<meta, disk>>,
             pc[j] \in {"mark", "close", "done", "lost"} =>
               place \in {"mark", "close", "done", "lost"}
      PROVE  DiskFollowsMeta'
  BY <1>1 DEF TypeOK
\* A step that changes the metadata of a job with no terminal record.
<1>2. ASSUME NEW j \in Jobs, NEW place, Goto(j, place), NEW m \in Meta,
             meta' = [meta EXCEPT ![j] = m], meta[j].pages <= m.pages,
             UNCHANGED disk \/ disk' = [disk EXCEPT ![j] = Torn],
             pc[j] \notin {"mark", "close", "done", "lost"}
      PROVE  DiskFollowsMeta'
  <2>1. ASSUME NEW i \in Jobs \ {j} PROVE
          meta'[i] = meta[i] /\ disk'[i] = disk[i] /\ pc'[i] = pc[i]
    BY <1>2 DEF TypeOK
  <2>2. disk[j].meta.pages \in Nat /\ meta[j].pages \in Nat /\ m.pages \in Nat
    BY <1>2 DEF TypeOK, Record, Meta
  <2>3. disk'[j].file = "whole" => disk'[j] = disk[j] /\ disk[j].meta.status = "running"
    BY <1>2 DEF TypeOK, Torn, Record, Meta, Statuses
  <2>4. meta'[j] = m
    BY <1>2 DEF TypeOK
  <2> QED
    BY <1>2, <2>1, <2>2, <2>3, <2>4
<1>3. ASSUME NEW j \in Jobs, NEW status \in {"completed", "failed"}, RunEnds(j, status),
             UNCHANGED disk, pc[j] \notin {"mark", "close", "done", "lost"}
      PROVE  DiskFollowsMeta'
  <2>1. /\ [meta[j] EXCEPT !.status = status] \in Meta
        /\ meta' = [meta EXCEPT ![j] = [meta[j] EXCEPT !.status = status]]
        /\ meta[j].pages <= [meta[j] EXCEPT !.status = status].pages
    BY <1>3 DEF RunEnds, TypeOK, Meta, Statuses
  <2> QED
    BY <1>2, <1>3, <2>1 DEF RunEnds
<1>4. ASSUME NEW j \in Jobs, NEW writing \in Places, NEW failed \in Places,
             BeginSave(j, writing, failed), UNCHANGED meta,
             pc[j] \notin {"mark", "close", "done", "lost"}
      PROVE  DiskFollowsMeta'
  BY <1>4 DEF BeginSave, SaveFails, Torn, TypeOK, Record
<1>5. ASSUME NEW j \in Jobs, StartScan(j) \/ AbortStart(j) \/ Progress(j) \/ Mark(j) \/ Close(j)
      PROVE  DiskFollowsMeta'
  BY <1>1, <1>5, PlacesFacts DEF StartScan, AbortStart, Progress, Mark, Close, AfterFinish
<1>6. ASSUME NEW j \in Jobs, CreateJob(j) \/ Finish(j) PROVE DiskFollowsMeta'
  BY <1>4, <1>6, PlacesFacts DEF CreateJob, Finish
<1>7. ASSUME NEW j \in Jobs, WriteMeta(j) PROVE DiskFollowsMeta'
  <2>1. \A i \in Jobs \ {j} : disk'[i] = disk[i] /\ pc'[i] = pc[i]
    BY <1>7 DEF WriteMeta, SaveFails, TypeOK
  <2>2. /\ disk'[j] = disk[j] \/ disk'[j] = Whole(meta[j])
        /\ pc'[j] \in {"abort", "open", "progress", "mark"}
        /\ pc[j] = "finishing" => pc'[j] = "mark"
    BY <1>7 DEF WriteMeta, SaveFails, Saved, SaveFailed, TypeOK
  <2>3. pc[j] # "finishing" => meta[j].status = "running"
    BY <1>7 DEF WriteMeta, SaveFails, StatusFollowsPlace, Ended
  <2>4. meta[j].pages <= meta[j].pages
    BY DEF TypeOK, Meta
  <2>5. pc[j] \in {"creating", "saving", "finishing"} /\ UNCHANGED meta
    BY <1>7 DEF WriteMeta, SaveFails
  <2> QED
    BY <2>1, <2>2, <2>3, <2>4, <2>5 DEF Whole, TypeOK, Record
<1>8. ASSUME NEW j \in Jobs, Open(j) \/ HasNextPage(j) \/ ScanPage(j) PROVE DiskFollowsMeta'
  BY <1>1, <1>3, <1>8, PlacesFacts DEF Open, HasNextPage, ScanPage
<1>9. ASSUME NEW j \in Jobs, SaveImage(j) PROVE DiskFollowsMeta'
  <2>1. CASE RunEnds(j, "failed")
    BY <1>3, <1>9, <2>1 DEF SaveImage
  <2>2. CASE meta' = [meta EXCEPT ![j].pages = NextIndex(j)] /\ Goto(j, NextSide[pc[j]])
    <3>1. /\ [meta[j] EXCEPT !.pages = NextIndex(j)] \in Meta
          /\ meta' = [meta EXCEPT ![j] = [meta[j] EXCEPT !.pages = NextIndex(j)]]
          /\ meta[j].pages <= [meta[j] EXCEPT !.pages = NextIndex(j)].pages
      BY <2>2 DEF NextIndex, TypeOK, Meta
    <3> QED
      BY <1>2, <1>9, <2>2, <3>1 DEF SaveImage
  <2> QED
    BY <1>9, <2>1, <2>2 DEF SaveImage
<1>10. ASSUME NEW j \in Jobs, Checkpoint(j) PROVE DiskFollowsMeta'
  <2>1. /\ [meta[j] EXCEPT !.count = PageCount(j)] \in Meta
        /\ meta' = [meta EXCEPT ![j] = [meta[j] EXCEPT !.count = PageCount(j)]]
        /\ meta[j].pages <= [meta[j] EXCEPT !.count = PageCount(j)].pages
    BY <1>10 DEF Checkpoint, PageCount, TypeOK, Meta
  <2> QED
    BY <1>2, <1>10, <2>1 DEF Checkpoint, BeginSave, SaveFails
<1>11. CASE Crash
  BY <1>11, PlacesFacts DEF Crash, Active, TypeOK
<1>12. CASE UNCHANGED <<pc, meta, disk>>
  BY <1>12
<1> QED
  BY <1>5, <1>6, <1>7, <1>8, <1>9, <1>10, <1>11, <1>12, OtherSteps DEF Next, Run

\* A step changes the record, the metadata and the failures of one job only.
LEMMA PersistedStep ==
  TypeOK /\ PersistedAtEnd /\ [Next]_vars => PersistedAtEnd'
<1> SUFFICES ASSUME TypeOK, PersistedAtEnd, [Next]_vars PROVE PersistedAtEnd'
  OBVIOUS
<1> USE DEF PersistedAtEnd, Goto, Unreadable
\* A step of j that leaves the record alone enters no place where more of it
\* has to be there.
<1>1. ASSUME NEW j \in Jobs, NEW place \in Places, pc' = [pc EXCEPT ![j] = place],
             UNCHANGED <<disk, unsaved>>, \A i \in Jobs \ {j} : meta'[i] = meta[i],
             place \notin Unreadable => pc[j] \notin Unreadable,
             place \in {"abort", "aborted"} => pc[j] \in {"abort", "aborted"},
             place \in {"mark", "close", "done"} =>
               pc[j] \in {"mark", "close", "done"} /\ UNCHANGED meta
      PROVE  PersistedAtEnd'
  BY <1>1 DEF TypeOK
<1>2. ASSUME NEW j \in Jobs, NEW writing \in {"creating", "saving", "finishing"}, NEW failed,
             BeginSave(j, writing, failed),
             \A i \in Jobs \ {j} : meta'[i] = meta[i]
      PROVE  PersistedAtEnd'
  <2>1. \A i \in Jobs \ {j} : /\ pc'[i] = pc[i] /\ disk'[i] = disk[i] /\ meta'[i] = meta[i]
                              /\ i \notin unsaved' <=> i \notin unsaved
    BY <1>2 DEF BeginSave, SaveFails, TypeOK
  <2>2. j \in unsaved' \/ pc'[j] = writing
    BY <1>2 DEF BeginSave, SaveFails, TypeOK
  <2> QED
    BY <1>2, <2>1, <2>2
<1>3. ASSUME NEW j \in Jobs, NEW status, RunEnds(j, status), UNCHANGED <<disk, unsaved>>,
             pc[j] \notin Unreadable
      PROVE  PersistedAtEnd'
  BY <1>1, <1>3, PlacesFacts DEF RunEnds, TypeOK
<1>4. ASSUME NEW j \in Jobs, StartScan(j) \/ AbortStart(j) \/ Progress(j)
      PROVE  PersistedAtEnd'
  BY <1>1, <1>4, PlacesFacts DEF StartScan, AbortStart, Progress
<1>5. ASSUME NEW j \in Jobs, CreateJob(j) \/ Checkpoint(j) \/ Finish(j) PROVE PersistedAtEnd'
  BY <1>2, <1>5 DEF CreateJob, Checkpoint, Finish, TypeOK
<1>6. ASSUME NEW j \in Jobs, WriteMeta(j) PROVE PersistedAtEnd'
  <2>1. \A i \in Jobs \ {j} : /\ pc'[i] = pc[i] /\ disk'[i] = disk[i] /\ meta'[i] = meta[i]
                              /\ i \notin unsaved' <=> i \notin unsaved
    BY <1>6 DEF WriteMeta, SaveFails, TypeOK
  <2>2. j \in unsaved' \/ disk'[j] = Whole(meta'[j])
    BY <1>6 DEF WriteMeta, SaveFails, TypeOK
  <2>3. j \in unsaved' \/ pc'[j] \in {"open", "progress", "mark"}
    BY <1>6 DEF WriteMeta, Saved, SaveFails, TypeOK
  <2> QED
    BY <2>1, <2>2, <2>3 DEF Whole
<1>7. ASSUME NEW j \in Jobs, Open(j) \/ HasNextPage(j) \/ ScanPage(j) PROVE PersistedAtEnd'
  BY <1>1, <1>3, <1>7, PlacesFacts DEF Open, HasNextPage, ScanPage
<1>8. ASSUME NEW j \in Jobs, SaveImage(j) PROVE PersistedAtEnd'
  <2>1. NextSide[pc[j]] \in {"back", "checkpoint"} /\ pc[j] \notin Unreadable
    BY <1>8 DEF SaveImage, NextSide
  <2>2. CASE meta' = [meta EXCEPT ![j].pages = NextIndex(j)] /\ Goto(j, NextSide[pc[j]])
    <3>1. \A i \in Jobs \ {j} : meta'[i] = meta[i]
      BY <2>2 DEF TypeOK
    <3> QED
      BY <1>1, <1>8, <2>1, <2>2, <3>1, PlacesFacts DEF SaveImage
  <2>3. CASE RunEnds(j, "failed")
    BY <1>3, <1>8, <2>1, <2>3 DEF SaveImage
  <2> QED
    BY <1>8, <2>2, <2>3 DEF SaveImage
<1>9. ASSUME NEW j \in Jobs, Mark(j) \/ Close(j) PROVE PersistedAtEnd'
  BY <1>1, <1>9, PlacesFacts DEF Mark, Close, AfterFinish
<1>10. CASE Crash
  BY <1>10, PlacesFacts DEF Crash, Active, TypeOK
<1>11. CASE UNCHANGED <<pc, meta, disk, unsaved>>
  BY <1>11
<1> QED
  BY <1>4, <1>5, <1>6, <1>7, <1>8, <1>9, <1>10, <1>11, OtherSteps DEF Next, Run

-------------------------------------------------------------------------------
(* The live state *)

\* No step but the job's end shrinks its page list or changes its status.
LEMMA MetaGrows ==
  ASSUME TypeOK, [Next]_vars, NEW i \in Jobs
  PROVE  /\ meta[i].pages <= meta'[i].pages
         /\ meta'[i].status # meta[i].status => pc[i] \in InProgress
<1> USE PlacesFacts DEF TypeOK, Meta
<1>1. ASSUME NEW j \in Jobs, NEW status, RunEnds(j, status), pc[j] \in InProgress
      PROVE  /\ meta[i].pages <= meta'[i].pages
             /\ meta'[i].status # meta[i].status => pc[i] \in InProgress
  BY <1>1 DEF RunEnds
<1>2. CASE UNCHANGED meta
  BY <1>2
<1>3. ASSUME NEW j \in Jobs, Open(j) \/ HasNextPage(j) \/ ScanPage(j)
      PROVE  /\ meta[i].pages <= meta'[i].pages
             /\ meta'[i].status # meta[i].status => pc[i] \in InProgress
  BY <1>1, <1>2, <1>3 DEF Open, HasNextPage, ScanPage
<1>4. ASSUME NEW j \in Jobs, SaveImage(j)
      PROVE  /\ meta[i].pages <= meta'[i].pages
             /\ meta'[i].status # meta[i].status => pc[i] \in InProgress
  BY <1>1, <1>4 DEF SaveImage, NextIndex
<1>5. ASSUME NEW j \in Jobs, Checkpoint(j)
      PROVE  /\ meta[i].pages <= meta'[i].pages
             /\ meta'[i].status # meta[i].status => pc[i] \in InProgress
  BY <1>5 DEF Checkpoint
<1> QED
  BY <1>2, <1>3, <1>4, <1>5, OtherSteps
     DEF Next, Run, StartScan, CreateJob, WriteMeta, SaveFails, AbortStart, Progress, Finish, Mark,
         Close, Crash

\* The pages a job has listed beyond n after a step of its own, given what it
\* had before: StepWithinOneSheet is what the goroutine's loop does to the sheet
\* in hand, for any n it does not change.
LEMMA StepWithinOneSheet ==
  ASSUME TypeOK, NEW j \in Jobs, NEW n \in Nat,
         \/ Open(j) \/ HasNextPage(j) \/ ScanPage(j) \/ SaveImage(j),
         WithinOneSheet(n, pc[j], meta[j].pages)
  PROVE  WithinOneSheet(n, pc'[j], meta'[j].pages)
<1> USE DEF WithinOneSheet, BetweenSheets, Goto, RunEnds
<1>1. meta[j].pages \in Nat
  BY DEF TypeOK, Meta
<1>2. CASE Open(j) \/ HasNextPage(j) \/ ScanPage(j)
  <2>1. meta'[j].pages = meta[j].pages
    BY <1>2 DEF Open, HasNextPage, ScanPage, TypeOK, Meta
  <2>2. pc[j] \in BetweenSheets
    BY <1>2 DEF Open, HasNextPage, ScanPage
  <2> QED
    BY <1>1, <2>1, <2>2
<1>3. CASE SaveImage(j)
  <2>1. CASE RunEnds(j, "failed")
    <3>1. meta'[j].pages = meta[j].pages /\ pc'[j] = "finish"
      BY <2>1 DEF TypeOK, Meta
    <3> QED
      BY <1>1, <3>1
  <2>2. CASE meta' = [meta EXCEPT ![j].pages = NextIndex(j)] /\ Goto(j, NextSide[pc[j]])
    <3>1. meta'[j].pages = meta[j].pages + 1
      BY <2>2 DEF NextIndex, TypeOK, Meta
    <3>2. CASE pc[j] \in {"frontOnly", "front"}
      <4>1. pc'[j] \in {"back", "checkpoint"}
        BY <2>2, <3>2 DEF NextSide, TypeOK
      <4> QED
        BY <1>1, <3>1, <3>2, <4>1
    <3>3. CASE pc[j] = "back"
      <4>1. pc'[j] = "checkpoint"
        BY <2>2, <3>3 DEF NextSide, TypeOK
      <4> QED
        BY <1>1, <3>1, <3>3, <4>1
    <3> QED
      BY <1>3, <3>2, <3>3 DEF SaveImage
  <2> QED
    BY <1>3, <2>1, <2>2 DEF SaveImage
<1> QED
  BY <1>2, <1>3

\* The steps of the job in progress that leave its progress in m.running alone.
LEMMA ProgressWithinOneSheet ==
  ASSUME TypeOK, NEW j \in Jobs,
         \/ CreateJob(j) \/ WriteMeta(j) \/ Open(j) \/ HasNextPage(j) \/ ScanPage(j)
         \/ SaveImage(j) \/ Checkpoint(j) \/ Finish(j),
         WithinOneSheet(running.pages, IF pc[j] = "mark" THEN "finish" ELSE pc[j], meta[j].pages)
  PROVE  WithinOneSheet(running'.pages, IF pc'[j] = "mark" THEN "finish" ELSE pc'[j],
                        meta'[j].pages)
<1> USE DEF WithinOneSheet, BetweenSheets, Goto
<1>1. running.pages \in Nat /\ meta[j].pages \in Nat
  BY DEF TypeOK, JobState, Meta
<1>2. CASE Open(j) \/ HasNextPage(j) \/ ScanPage(j) \/ SaveImage(j)
  <2>1. UNCHANGED running /\ pc[j] # "mark"
    BY <1>2 DEF Open, HasNextPage, ScanPage, SaveImage
  <2>2. pc'[j] # "mark"
    BY <1>2 DEF Open, HasNextPage, ScanPage, SaveImage, RunEnds, NextSide, TypeOK
  <2> QED
    BY <1>1, <1>2, <2>1, <2>2, StepWithinOneSheet
<1>3. CASE CreateJob(j)
  <2>1. /\ pc[j] = "create" /\ pc'[j] \in {"creating", "abort"}
        /\ UNCHANGED <<running, meta>>
    BY <1>3 DEF CreateJob, BeginSave, SaveFails, TypeOK
  <2> QED
    BY <1>1, <2>1
<1>4. CASE WriteMeta(j)
  <2>1. /\ pc[j] = "creating" => pc'[j] \in {"open", "abort"}
        /\ pc[j] # "creating" => pc'[j] \in {"progress", "mark"}
        /\ UNCHANGED <<running, meta>>
    BY <1>4 DEF WriteMeta, SaveFails, Saved, SaveFailed, TypeOK
  <2>2. pc[j] # "mark"
    BY <1>4 DEF WriteMeta
  <2> QED
    BY <1>1, <2>1, <2>2
<1>5. CASE Checkpoint(j)
  <2>1. /\ pc'[j] \in {"saving", "progress"} /\ UNCHANGED running
        /\ meta'[j].pages = meta[j].pages
    BY <1>5 DEF Checkpoint, BeginSave, SaveFails, TypeOK, Meta
  <2> QED
    BY <1>1, <2>1
<1>6. CASE Finish(j)
  <2>1. pc'[j] \in {"finishing", "mark"} /\ UNCHANGED <<running, meta>>
    BY <1>6 DEF Finish, BeginSave, SaveFails, TypeOK
  <2> QED
    BY <1>1, <2>1
<1> QED
  BY <1>2, <1>3, <1>4, <1>5, <1>6

LEMMA LiveStep ==
  TypeOK /\ BusyFlagExact /\ StatusFollowsPlace /\ PagesFollowPlace /\ LiveFollowsMeta
         /\ [Next]_vars
    => LiveFollowsMeta'
<1> SUFFICES ASSUME TypeOK, BusyFlagExact, StatusFollowsPlace, PagesFollowPlace,
                    LiveFollowsMeta, [Next]_vars, NEW i \in Jobs, running'.id = i
             PROVE  /\ running'.pages <= meta'[i].pages
                    /\ Active(i)' => WithinOneSheet(running'.pages,
                                       IF pc'[i] = "mark" THEN "finish" ELSE pc'[i],
                                       meta'[i].pages)
                    /\ ~Busy' => \/ pc'[i] = "aborted"
                                 \/ /\ pc'[i] \in {"close", "done"}
                                    /\ running'.status = meta'[i].status
  BY DEF LiveFollowsMeta
<1> DEFINE Goal == /\ running'.pages <= meta'[i].pages
                   /\ Active(i)' => WithinOneSheet(running'.pages,
                                      IF pc'[i] = "mark" THEN "finish" ELSE pc'[i],
                                      meta'[i].pages)
                   /\ ~Busy' => \/ pc'[i] = "aborted"
                                \/ /\ pc'[i] \in {"close", "done"}
                                   /\ running'.status = meta'[i].status
<1> USE PlacesFacts
<1>a. meta[i].pages \in Nat /\ meta'[i].pages \in Nat /\ running.pages \in Nat
  BY TypeStep DEF TypeOK, Meta, JobState
<1>b. meta[i].pages <= meta'[i].pages
  BY MetaGrows
<1>1. ASSUME NEW j \in Jobs, StartScan(j) PROVE Goal
  <2>1. i = j /\ running'.pages = 0 /\ Busy' /\ meta'[i].pages = 0
    BY <1>1, NoJobAssumption DEF StartScan, Busy, PagesFollowPlace
  <2> QED
    BY <1>a, <2>1 DEF WithinOneSheet
<1>2. ASSUME NEW j \in Jobs,
             \/ CreateJob(j) \/ WriteMeta(j) \/ Open(j) \/ HasNextPage(j) \/ ScanPage(j)
             \/ SaveImage(j) \/ Checkpoint(j) \/ Finish(j)
      PROVE  Goal
  <2>1. Busy /\ running.id = j /\ Busy' /\ i = j /\ Active(j)
    BY <1>2, StaysInProgress DEF BusyFlagExact, Active, Busy
  <2>2. UNCHANGED running
    BY <1>2 DEF CreateJob, WriteMeta, Open, HasNextPage, ScanPage, SaveImage, Checkpoint, Finish
  <2>3. running'.pages <= meta'[i].pages
    BY <1>a, <1>b, <2>1, <2>2 DEF LiveFollowsMeta
  <2>4. WithinOneSheet(running.pages, IF pc[j] = "mark" THEN "finish" ELSE pc[j], meta[j].pages)
    BY <2>1 DEF LiveFollowsMeta
  <2>5. WithinOneSheet(running'.pages, IF pc'[j] = "mark" THEN "finish" ELSE pc'[j],
                       meta'[j].pages)
    BY <1>2, <2>4, ProgressWithinOneSheet
  <2> QED
    BY <2>1, <2>3, <2>5
<1>3. ASSUME NEW j \in Jobs, Progress(j) PROVE Goal
  <2>1. Busy /\ running.id = j /\ Busy' /\ i = j
    BY <1>3, StaysInProgress DEF BusyFlagExact, Active, Busy
  <2>2. running'.pages = meta'[j].pages /\ pc'[j] = "next"
    BY <1>3, <2>1 DEF Progress, PagesScanned, Goto, TypeOK, JobState
  <2> QED
    BY <1>a, <2>1, <2>2 DEF WithinOneSheet
<1>4. ASSUME NEW j \in Jobs, AbortStart(j) PROVE Goal
  <2>1. running.id = j /\ running'.id = j /\ running'.pages = running.pages /\ i = j
    BY <1>4 DEF AbortStart, Aborted, BusyFlagExact, Active, TypeOK, JobState
  <2>2. pc'[j] = "aborted" /\ UNCHANGED meta
    BY <1>4 DEF AbortStart, Goto, TypeOK
  <2> QED
    BY <1>a, <2>1, <2>2 DEF LiveFollowsMeta, Active
<1>5. ASSUME NEW j \in Jobs, Mark(j) PROVE Goal
  <2>1. running.id = j /\ running'.id = j /\ running'.pages = running.pages /\ i = j
        /\ running'.status = meta[j].status
    BY <1>5 DEF Mark, BusyFlagExact, Active, TypeOK, JobState
  <2>2. pc'[j] \in {"close", "done"} /\ UNCHANGED meta
    BY <1>5 DEF Mark, AfterFinish, Goto, TypeOK
  <2> QED
    BY <1>a, <2>1, <2>2 DEF LiveFollowsMeta, Active
<1>6. ASSUME NEW j \in Jobs, Close(j) PROVE Goal
  <2>1. UNCHANGED <<running, meta>> /\ pc[j] = "close" /\ pc' = [pc EXCEPT ![j] = "done"]
    BY <1>6 DEF Close, Goto
  <2>2. Active(i)' => Active(i) /\ pc'[i] = pc[i]
    BY <2>1 DEF Active, TypeOK
  <2> QED
    BY <1>a, <2>1, <2>2 DEF LiveFollowsMeta, TypeOK, Busy
<1>7. CASE Crash
  BY <1>7, NoJobAssumption DEF Crash, Nil
<1>8. CASE UNCHANGED <<running, pc, meta>>
  BY <1>8 DEF LiveFollowsMeta, Busy, Active
<1> QED
  BY <1>1, <1>2, <1>3, <1>4, <1>5, <1>6, <1>7, <1>8, OtherSteps DEF Next, Run

\* The goroutines of one job touch nothing of another one.
LEMMA OthersUntouched ==
  ASSUME TypeOK, NEW j \in Jobs, StartScan(j) \/ Run(j), NEW i \in Jobs, i # j
  PROVE  /\ pc'[i] = pc[i] /\ meta'[i] = meta[i] /\ disk'[i] = disk[i]
         /\ i \in unsaved' <=> i \in unsaved
<1> USE DEF TypeOK, Goto, RunEnds
<1>1. CASE CreateJob(j) \/ Checkpoint(j) \/ Finish(j) \/ WriteMeta(j)
  BY <1>1 DEF CreateJob, Checkpoint, Finish, WriteMeta, BeginSave, SaveFails
<1>2. CASE Open(j) \/ HasNextPage(j) \/ ScanPage(j) \/ SaveImage(j)
  BY <1>2 DEF Open, HasNextPage, ScanPage, SaveImage
<1>3. CASE StartScan(j) \/ AbortStart(j) \/ Progress(j) \/ Mark(j) \/ Close(j)
  BY <1>3 DEF StartScan, AbortStart, Progress, Mark, Close
<1> QED
  BY <1>1, <1>2, <1>3 DEF Run

\* A job's own step, seen from its record.
LEMMA DiskStepOfJob ==
  ASSUME TypeOK, NEW j \in Jobs, StartScan(j) \/ Run(j),
         j \notin unsaved', disk'[j].file = "whole",
         j \notin unsaved /\ disk[j].file = "whole" =>
           WithinOneSheet(disk[j].meta.pages, IF pc[j] = "progress" THEN "next" ELSE pc[j],
                          meta[j].pages)
  PROVE  WithinOneSheet(disk'[j].meta.pages, IF pc'[j] = "progress" THEN "next" ELSE pc'[j],
                        meta'[j].pages)
<1> USE DEF WithinOneSheet, BetweenSheets, Goto
<1>1. meta[j].pages \in Nat /\ disk[j].meta.pages \in Nat
  BY DEF TypeOK, Meta, Record
<1>2. CASE CreateJob(j) \/ Checkpoint(j) \/ Finish(j)
  BY <1>2 DEF CreateJob, Checkpoint, Finish, BeginSave, SaveFails, Torn, TypeOK
<1>3. CASE WriteMeta(j)
  <2>1. disk'[j] = Whole(meta[j]) /\ UNCHANGED meta
    BY <1>3 DEF WriteMeta, SaveFails, TypeOK
  <2> QED
    BY <1>1, <2>1 DEF Whole
<1>4. CASE Open(j) \/ HasNextPage(j) \/ ScanPage(j) \/ SaveImage(j)
  <2>1. UNCHANGED <<disk, unsaved>> /\ pc[j] # "progress"
    BY <1>4 DEF Open, HasNextPage, ScanPage, SaveImage
  <2>2. pc'[j] # "progress"
    BY <1>4 DEF Open, HasNextPage, ScanPage, SaveImage, RunEnds, NextSide, TypeOK
  <2>3. WithinOneSheet(disk[j].meta.pages, pc'[j], meta'[j].pages)
    BY <1>1, <1>4, <2>1, StepWithinOneSheet
  <2> QED
    BY <2>1, <2>2, <2>3
<1>5. CASE StartScan(j) \/ AbortStart(j) \/ Progress(j) \/ Mark(j) \/ Close(j)
  <2>1. UNCHANGED <<meta, disk, unsaved>>
    BY <1>5 DEF StartScan, AbortStart, Progress, Mark, Close
  <2>2. \/ pc[j] = "abort" /\ pc'[j] = "aborted"
        \/ pc[j] \in BetweenSheets \cup {"progress"} /\ pc'[j] \in BetweenSheets
    BY <1>5 DEF StartScan, AbortStart, Progress, Mark, Close, AfterFinish, TypeOK
  <2> QED
    BY <1>1, <2>1, <2>2
<1> QED
  BY <1>2, <1>3, <1>4, <1>5 DEF Run

LEMMA DiskWithinStep == TypeOK /\ DiskWithinOneSheet /\ [Next]_vars => DiskWithinOneSheet'
<1> SUFFICES ASSUME TypeOK, DiskWithinOneSheet, [Next]_vars,
                    NEW i \in Jobs, i \notin unsaved', disk'[i].file = "whole"
             PROVE  WithinOneSheet(disk'[i].meta.pages,
                      IF pc'[i] = "progress" THEN "next" ELSE pc'[i], meta'[i].pages)
  BY DEF DiskWithinOneSheet
<1> DEFINE Goal == WithinOneSheet(disk'[i].meta.pages,
                     IF pc'[i] = "progress" THEN "next" ELSE pc'[i], meta'[i].pages)
<1>1. ASSUME NEW j \in Jobs, StartScan(j) \/ Run(j) PROVE Goal
  <2>1. CASE i = j
    BY <1>1, <2>1, DiskStepOfJob DEF DiskWithinOneSheet
  <2>2. CASE i # j
    BY <1>1, <2>2, OthersUntouched DEF DiskWithinOneSheet
  <2> QED
    BY <2>1, <2>2
<1>2. CASE Crash
  <2>1. UNCHANGED <<meta, disk, unsaved>>
    BY <1>2 DEF Crash
  <2>2. pc'[i] \in {"lost", pc[i]} \/ (pc[i] = "close" /\ pc'[i] = "done")
    BY <1>2 DEF Crash, TypeOK
  <2>3. WithinOneSheet(disk[i].meta.pages, IF pc[i] = "progress" THEN "next" ELSE pc[i],
                       meta[i].pages)
    BY <2>1 DEF DiskWithinOneSheet
  <2> QED
    BY <2>1, <2>2, <2>3 DEF WithinOneSheet, BetweenSheets
<1>3. CASE UNCHANGED <<pc, meta, disk, unsaved>>
  BY <1>3 DEF DiskWithinOneSheet
<1> QED
  BY <1>1, <1>2, <1>3, OtherSteps DEF Next

\* What is written to meta.json has a count that trails by at most one.
LEMMA CountStep ==
  TypeOK /\ PagesFollowPlace /\ CountTrailsByOneFront /\ [Next]_vars => CountTrailsByOneFront'
<1> SUFFICES ASSUME TypeOK, PagesFollowPlace, CountTrailsByOneFront, [Next]_vars,
                    NEW i \in Jobs, disk'[i].file = "whole"
             PROVE  CountTrails(disk'[i].meta)
  BY DEF CountTrailsByOneFront
<1>1. ASSUME NEW j \in Jobs, WriteMeta(j) PROVE CountTrails(disk'[i].meta)
  <2>1. CASE disk'[i] = disk[i]
    BY <2>1 DEF CountTrailsByOneFront
  <2>2. CASE i = j /\ disk'[j] = Whole(meta[j])
    BY <1>1, <2>2 DEF WriteMeta, PagesFollowPlace, CountTrails, Whole, Ended
  <2> QED
    BY <1>1, <2>1, <2>2 DEF WriteMeta, SaveFails, TypeOK
<1>2. ASSUME NEW j \in Jobs, CreateJob(j) \/ Checkpoint(j) \/ Finish(j)
      PROVE  CountTrails(disk'[i].meta)
  <2>1. disk'[i] = disk[i]
    BY <1>2 DEF CreateJob, Checkpoint, Finish, BeginSave, SaveFails, Torn, TypeOK
  <2> QED
    BY <2>1 DEF CountTrailsByOneFront
<1>3. CASE UNCHANGED disk
  BY <1>3 DEF CountTrailsByOneFront
<1> QED
  BY <1>1, <1>2, <1>3, OtherSteps
     DEF Next, Run, StartScan, AbortStart, Open, HasNextPage, ScanPage, SaveImage, Progress,
         Mark, Close, Crash

-------------------------------------------------------------------------------
(* The reading clients *)

LEMMA LoadedStep ==
  TypeOK /\ DiskFollowsMeta /\ LoadedFollowsMeta /\ [Next]_vars => LoadedFollowsMeta'
<1> SUFFICES ASSUME TypeOK, DiskFollowsMeta, LoadedFollowsMeta, [Next]_vars,
                    NEW r \in Readers, get'[r].step = "loaded"
             PROVE  /\ get'[r].job \in Jobs /\ get'[r].found
                    /\ get'[r].meta.pages <= meta'[get'[r].job].pages
                    /\ ~get'[r].live
  BY DEF LoadedFollowsMeta
<1>1. ASSUME NEW i \in Jobs PROVE /\ meta[i].pages <= meta'[i].pages
                                  /\ meta[i].pages \in Nat /\ meta'[i].pages \in Nat
                                  /\ disk[i].meta.pages \in Nat
  BY MetaGrows, TypeStep DEF TypeOK, Meta, Record
<1>2. CASE get'[r] = get[r]
  <2>1. /\ get[r].job \in Jobs /\ get[r].found /\ get[r].meta.pages <= meta[get[r].job].pages
        /\ ~get[r].live /\ get[r].meta.pages \in Nat
    BY <1>2 DEF LoadedFollowsMeta, TypeOK, Reply, Meta
  <2> QED
    BY <1>1, <1>2, <2>1
<1>3. ASSUME NEW q \in Readers, NEW j \in Jobs, GetLoad(q, j), q = r
      PROVE  /\ get'[r].job \in Jobs /\ get'[r].found
             /\ get'[r].meta.pages <= meta'[get'[r].job].pages
             /\ ~get'[r].live
  <2>1. /\ disk[j].file = "whole" /\ get'[r].job = j /\ get'[r].meta = disk[j].meta
        /\ ~get'[r].live /\ get'[r].found
    BY <1>3 DEF GetLoad, NoReply, TypeOK
  <2>2. disk[j].meta.pages <= meta[j].pages
    BY <2>1 DEF DiskFollowsMeta
  <2> QED
    BY <1>1, <2>1, <2>2
<1>4. ASSUME NEW q \in Readers, GetOverlay(q), q = r PROVE FALSE
  BY <1>4 DEF GetOverlay, TypeOK, Reply
<1>5. CASE Crash
  BY <1>5 DEF Crash, NoReply
<1>6. ASSUME NEW q \in Readers, q # r, GetOverlay(q) \/ \E j \in Jobs : GetLoad(q, j)
      PROVE  get'[r] = get[r]
  BY <1>6 DEF GetOverlay, GetLoad, TypeOK
<1> QED
  BY <1>2, <1>3, <1>4, <1>5, <1>6
     DEF Next, Run, StartScan, CreateJob, WriteMeta, AbortStart, Open, HasNextPage, ScanPage,
         SaveImage, Checkpoint, Progress, Finish, Mark, Close, DetectOpen, DetectClose, vars

\* The overlay is taken later than the record, when the progress in m.running
\* is that of all but the sheet in hand.
LEMMA FreshStep ==
  TypeOK /\ BusyFlagExact /\ LiveFollowsMeta /\ LoadedFollowsMeta /\ LiveProgressFresh
         /\ [Next]_vars
    => LiveProgressFresh'
<1> SUFFICES ASSUME TypeOK, BusyFlagExact, LiveFollowsMeta, LoadedFollowsMeta,
                    LiveProgressFresh, [Next]_vars, NEW r \in Readers, get'[r].live
             PROVE  get'[r].meta.pages <= get'[r].pagesScanned + 2
  BY DEF LiveProgressFresh
<1>1. CASE get'[r] = get[r]
  BY <1>1 DEF LiveProgressFresh
<1>2. ASSUME NEW q \in Readers, NEW j \in Jobs, GetLoad(q, j), q = r PROVE FALSE
  BY <1>2 DEF GetLoad, NoReply, TypeOK
<1>3. ASSUME NEW q \in Readers, GetOverlay(q), q = r
      PROVE  get'[r].meta.pages <= get'[r].pagesScanned + 2
  <2> DEFINE j == get[r].job
  <2>1. /\ get[r].step = "loaded" /\ ~get[r].live /\ j \in Jobs
        /\ get[r].meta.pages <= meta[j].pages
    BY <1>3 DEF GetOverlay, LoadedFollowsMeta
  <2>2. Busy /\ running.id = j /\ get'[r].meta = get[r].meta
        /\ get'[r].pagesScanned = running.pages
    BY <1>3, <2>1 DEF GetOverlay, TypeOK, Reply
  <2>3. meta[j].pages <= running.pages + 2
    BY <2>1, <2>2 DEF BusyFlagExact, LiveFollowsMeta, WithinOneSheet
  <2>4. get[r].meta.pages \in Nat /\ meta[j].pages \in Nat /\ running.pages \in Nat
    BY <2>1 DEF TypeOK, Reply, Meta, JobState
  <2> QED
    BY <2>1, <2>2, <2>3, <2>4
<1>4. CASE Crash
  BY <1>4 DEF Crash, NoReply
<1>5. ASSUME NEW q \in Readers, q # r, GetOverlay(q) \/ \E j \in Jobs : GetLoad(q, j)
      PROVE  get'[r] = get[r]
  BY <1>5 DEF GetOverlay, GetLoad, TypeOK
<1> QED
  BY <1>1, <1>2, <1>3, <1>4, <1>5
     DEF Next, Run, StartScan, CreateJob, WriteMeta, AbortStart, Open, HasNextPage, ScanPage,
         SaveImage, Checkpoint, Progress, Finish, Mark, Close, DetectOpen, DetectClose, vars

-------------------------------------------------------------------------------
(* The invariant, and what follows from it *)

LEMMA InvInit == Init => IInv
<1> SUFFICES ASSUME Init PROVE IInv
  OBVIOUS
<1>1. TypeOK
  BY TypeInit
<1>2. BusyFlagExact /\ DeviceExclusive
  BY PlacesFacts DEF Init, BusyFlagExact, DeviceExclusive, Active, Busy, Nil
<1>3. StatusFollowsPlace /\ PersistedAtEnd
  BY DEF Init, StatusFollowsPlace, PersistedAtEnd, NewMeta, Ended, Unreadable
<1>4. PagesFollowPlace
  BY DEF Init, PagesFollowPlace, NewMeta, Ended
<1>5. DiskFollowsMeta /\ LiveFollowsMeta
  BY NoJobAssumption DEF Init, DiskFollowsMeta, LiveFollowsMeta, Absent, Nil
<1>6. DiskWithinOneSheet /\ CountTrailsByOneFront
  BY DEF Init, DiskWithinOneSheet, CountTrailsByOneFront, Absent
<1>7. LoadedFollowsMeta /\ LiveProgressFresh
  BY DEF Init, LoadedFollowsMeta, LiveProgressFresh, NoReply
<1> QED
  BY <1>1, <1>2, <1>3, <1>4, <1>5, <1>6, <1>7 DEF IInv

LEMMA InvStep == IInv /\ [Next]_vars => IInv'
BY TypeStep, BusyStep, DeviceStep, StatusStep, PagesStep, DiskStep, PersistedStep, LiveStep,
   DiskWithinStep, LoadedStep, CountStep, FreshStep
   DEF IInv

THEOREM Invariance == Spec => []IInv
BY InvInit, InvStep, PTL DEF Spec

\* The busy flag that StartScan tests is exact.
THEOREM BusyFlagIsExact == Spec => []BusyFlagExact
<1>1. IInv => BusyFlagExact
  BY DEF IInv
<1> QED
  BY <1>1, Invariance, PTL

\* There is never more than one job in progress.
THEOREM OnlyOneScan == Spec => []OneScanInFlight
<1>1. IInv => OneScanInFlight
  BY DEF IInv, BusyFlagExact, OneScanInFlight
<1> QED
  BY <1>1, Invariance, PTL

\* No two conversations with the scanner are ever interleaved.
THEOREM ExclusiveConversation == Spec => []DeviceExclusive
<1>1. IInv => DeviceExclusive
  BY DEF IInv
<1> QED
  BY <1>1, Invariance, PTL

\* A readable record lists only pages whose files are complete.
THEOREM ListedPagesExist == Spec => []SavedPagesHaveFiles
<1>1. ASSUME IInv PROVE SavedPagesHaveFiles
  <2> SUFFICES ASSUME NEW j \in Jobs, disk[j].file = "whole"
               PROVE  1 .. disk[j].meta.pages \subseteq files[j]
    BY DEF SavedPagesHaveFiles
  <2>1. disk[j].meta.pages \in Nat /\ meta[j].pages \in Nat
    BY <1>1 DEF IInv, TypeOK, Record, Meta
  <2>2. disk[j].meta.pages <= meta[j].pages /\ files[j] = 1 .. meta[j].pages
    BY <1>1 DEF IInv, DiskFollowsMeta, PagesFollowPlace
  <2> QED
    BY <2>1, <2>2
<1> QED
  BY <1>1, Invariance, PTL

\* What a completed record says is exact.
THEOREM CompletedRecordsExact == Spec => []CompletedIsExact
<1>1. ASSUME IInv PROVE CompletedIsExact
  BY <1>1 DEF IInv, DiskFollowsMeta, PagesFollowPlace, CompletedIsExact
<1> QED
  BY <1>1, Invariance, PTL

\* Once the manager is idle the store is authoritative.
THEOREM StoreIsAuthoritative == Spec => []IdleMeansPersisted
<1>1. ASSUME IInv PROVE IdleMeansPersisted
  BY <1>1 DEF IInv, PersistedAtEnd, LiveFollowsMeta, IdleMeansPersisted
<1> QED
  BY <1>1, Invariance, PTL

\* What the live progress counts has been saved.
THEOREM ProgressCountsSavedPages == Spec => []ProgressIsSaved
<1>1. ASSUME IInv PROVE ProgressIsSaved
  <2> SUFFICES ASSUME running.id # NoJob PROVE 1 .. running.pages \subseteq files[running.id]
    BY DEF ProgressIsSaved
  <2>1. running.id \in Jobs /\ running.pages \in Nat /\ meta[running.id].pages \in Nat
    BY <1>1 DEF IInv, TypeOK, JobState, Meta
  <2>2. running.pages <= meta[running.id].pages
    BY <1>1, <2>1 DEF IInv, LiveFollowsMeta
  <2>3. files[running.id] = 1 .. meta[running.id].pages
    BY <1>1, <2>1 DEF IInv, PagesFollowPlace
  <2> QED
    BY <2>1, <2>2, <2>3
<1> QED
  BY <1>1, Invariance, PTL

\* The record of a scan, if it can be read, lists all the pages saved but those of
\* the sheet in hand; and it can be read, before a crash and after it, but for the
\* time in the middle of a SaveMeta - a kill at that time costs every page.
THEOREM CrashCostsOneSheet == Spec => []CrashLosesOneSheet
<1>1. ASSUME IInv PROVE CrashLosesOneSheet
  <2>0. \A j \in Jobs \ unsaved : disk[j].file # "whole" => pc[j] \in Unreadable
    BY <1>1 DEF IInv, PersistedAtEnd
  <2> SUFFICES ASSUME NEW j \in Jobs \ unsaved, disk[j].file = "whole"
               PROVE  files[j] \subseteq 1 .. disk[j].meta.pages + 2
    BY <2>0 DEF CrashLosesOneSheet
  <2>1. disk[j].meta.pages \in Nat /\ meta[j].pages \in Nat
    BY <1>1 DEF IInv, TypeOK, Record, Meta
  <2>2. meta[j].pages <= disk[j].meta.pages + 2
    BY <1>1 DEF IInv, DiskWithinOneSheet, WithinOneSheet
  <2>3. files[j] = 1 .. meta[j].pages
    BY <1>1 DEF IInv, PagesFollowPlace
  <2> QED
    BY <2>1, <2>2, <2>3
<1> QED
  BY <1>1, Invariance, PTL

\* The count in a record trails its page list by the front of one sheet.
THEOREM CountIsRightButForAFront == Spec => []CountTrailsByOneFront
<1>1. IInv => CountTrailsByOneFront
  BY DEF IInv
<1> QED
  BY <1>1, Invariance, PTL

\* Live progress is as fresh as the page list it comes with, but for a sheet.
THEOREM LiveProgressIsFresh == Spec => []LiveProgressFresh
<1>1. IInv => LiveProgressFresh
  BY DEF IInv
<1> QED
  BY <1>1, Invariance, PTL

-------------------------------------------------------------------------------
(* Properties of steps *)

LEMMA NotFoundStep ==
  ASSUME IInv, [Next]_vars, NEW r \in Readers, NEW j \in Jobs \ unsaved,
         get'[r] # get[r], get'[r].step = "replied", get'[r].job = j, ~get'[r].found
  PROVE  pc[j] \in Unreadable \ {"unused"}
<1>1. \/ \E q \in Readers : GetOverlay(q) \/ \E i \in Jobs : GetLoad(q, i)
      \/ Crash
  BY DEF Next, Run, StartScan, CreateJob, WriteMeta, AbortStart, Open, HasNextPage, ScanPage,
         SaveImage, Checkpoint, Progress, Finish, Mark, Close, DetectOpen, DetectClose, vars
<1>2. CASE Crash
  BY <1>2 DEF Crash, NoReply
<1>3. ASSUME NEW q \in Readers, NEW i \in Jobs, GetLoad(q, i)
      PROVE  pc[j] \in Unreadable \ {"unused"}
  <2>1. q = r /\ i = j /\ disk[j].file # "whole" /\ pc[j] # "unused"
    BY <1>3 DEF GetLoad, NoReply, IInv, TypeOK
  <2> QED
    BY <2>1 DEF IInv, PersistedAtEnd
<1>4. ASSUME NEW q \in Readers, GetOverlay(q) PROVE get[r].step = "loaded" /\ ~get[r].found
  BY <1>4 DEF GetOverlay, IInv, TypeOK, Reply
<1> QED
  BY <1>1, <1>2, <1>3, <1>4 DEF IInv, LoadedFollowsMeta

\* A false not_found is transient.
THEOREM NotFoundOnlyInPassing == Spec => NotFoundIsTransient
<1>1. IInv /\ [Next]_vars =>
        [\A r \in Readers, j \in Jobs \ unsaved :
           get'[r] # get[r] /\ get'[r].step = "replied" /\ get'[r].job = j /\ ~get'[r].found
           => pc[j] \in Unreadable \ {"unused"}]_vars
  BY NotFoundStep
<1> QED
  BY <1>1, Invariance, PTL DEF Spec, NotFoundIsTransient

LEMMA TerminalStep ==
  ASSUME IInv, [Next]_vars, NEW j \in Jobs,
         disk[j].file = "whole", disk[j].meta.status # "running"
  PROVE  disk'[j] = disk[j]
<1>1. pc[j] \in {"mark", "close", "done", "lost"}
  BY DEF IInv, DiskFollowsMeta
<1>2. ASSUME NEW i \in Jobs, CreateJob(i) \/ WriteMeta(i) \/ Checkpoint(i) \/ Finish(i)
      PROVE  disk'[j] = disk[j]
  <2>1. i # j
    BY <1>1, <1>2 DEF CreateJob, WriteMeta, SaveFails, Checkpoint, Finish
  <2> QED
    BY <1>2, <2>1 DEF CreateJob, WriteMeta, Checkpoint, Finish, BeginSave, SaveFails, IInv, TypeOK
<1>3. CASE UNCHANGED disk
  BY <1>3
<1> QED
  BY <1>2, <1>3, OtherSteps
     DEF Next, Run, StartScan, AbortStart, Open, HasNextPage, ScanPage, SaveImage, Progress,
         Mark, Close, Crash

\* A terminal record is never touched again.
THEOREM TerminalRecordsStay == Spec => TerminalIsFinal
<1>1. IInv /\ [Next]_vars =>
        [\A j \in Jobs : disk[j].file = "whole" /\ disk[j].meta.status # "running"
           => disk'[j] = disk[j]]_vars
  BY TerminalStep
<1> QED
  BY <1>1, Invariance, PTL DEF Spec, TerminalIsFinal

-------------------------------------------------------------------------------
(* Refinement *)

\* Steps of a job that stays in progress are invisible to the manager's
\* callers.
LEMMA InProgressIsInvisible ==
  ASSUME IInv, NEW j \in Jobs, [Next]_vars,
         \/ CreateJob(j) \/ WriteMeta(j) \/ Open(j) \/ HasNextPage(j) \/ ScanPage(j)
         \/ SaveImage(j) \/ Checkpoint(j) \/ Progress(j) \/ Finish(j)
  PROVE  JobInProgress' = JobInProgress /\ \A i \in Jobs : Outcome(i)' = Outcome(i)
<1>1. /\ pc[j] \in InProgress
      /\ \E place \in InProgress : pc' = [pc EXCEPT ![j] = place]
      /\ running'.id = running.id /\ running'.status = running.status
  BY StaysInProgress DEF IInv
<1>2. \A i \in Jobs \ {j} : pc'[i] = pc[i]
  BY <1>1 DEF IInv, TypeOK
<1>3. pc'[j] \in InProgress
  BY <1>1 DEF IInv, TypeOK
<1>4. ASSUME NEW i \in Jobs, i # j PROVE meta'[i] = meta[i]
  BY <1>4 DEF CreateJob, WriteMeta, SaveFails, Open, HasNextPage, ScanPage, SaveImage, Checkpoint,
              Progress, Finish, RunEnds, IInv, TypeOK
<1>5. JobInProgress' = JobInProgress
  BY <1>1 DEF JobInProgress, Busy
<1>6. Outcome(j)' = Outcome(j)
  BY <1>1, <1>3, PlacesFacts DEF Outcome, Active
<1>7. ASSUME NEW i \in Jobs, i # j PROVE Outcome(i)' = Outcome(i)
  BY <1>2, <1>4, <1>7 DEF Outcome, Active
<1> QED
  BY <1>5, <1>6, <1>7

LEMMA LifecycleInit == Init => Lifecycle!Init
BY PlacesFacts DEF Init, Lifecycle!Init, JobInProgress, Busy, Nil, Outcome, Active

LEMMA LifecycleStep == IInv /\ [Next]_vars => [Lifecycle!Next]_Lifecycle!vars
<1> SUFFICES ASSUME IInv, [Next]_vars PROVE [Lifecycle!Next]_Lifecycle!vars
  OBVIOUS
<1> DEFINE outcome == [i \in Jobs |-> Outcome(i)]
<1> USE PlacesFacts
<1>a. /\ TypeOK /\ BusyFlagExact /\ StatusFollowsPlace
      /\ \A i \in Jobs : running.id = i => i # NoJob
  BY NoJobAssumption DEF IInv
<1>1. ASSUME JobInProgress' = JobInProgress, \A i \in Jobs : Outcome(i)' = Outcome(i)
      PROVE  UNCHANGED Lifecycle!vars
  BY <1>1 DEF Lifecycle!vars
<1>2. ASSUME NEW j \in Jobs, StartScan(j) PROVE Lifecycle!Accept(j)
  <2>1. JobInProgress = NoJob /\ JobInProgress' = j
    BY <1>2, NoJobAssumption DEF StartScan, JobInProgress, Busy
  <2>2. Outcome(j) = "none" /\ Outcome(j)' = "running"
    BY <1>2, <1>a DEF StartScan, Goto, Outcome, Active, TypeOK
  <2>3. \A i \in Jobs \ {j} : Outcome(i)' = Outcome(i)
    BY <1>2, <1>a DEF StartScan, Goto, Outcome, Active, TypeOK
  <2> QED
    BY <2>1, <2>2, <2>3 DEF Lifecycle!Accept
<1>3. ASSUME NEW j \in Jobs,
             \/ CreateJob(j) \/ WriteMeta(j) \/ Open(j) \/ HasNextPage(j) \/ ScanPage(j)
             \/ SaveImage(j) \/ Checkpoint(j) \/ Progress(j) \/ Finish(j)
      PROVE  UNCHANGED Lifecycle!vars
  BY <1>1, <1>3, InProgressIsInvisible
<1>4. ASSUME NEW j \in Jobs, NEW how \in {"completed", "failed"},
             Active(j), JobInProgress' = NoJob, Outcome(j)' = how,
             \A i \in Jobs \ {j} : Outcome(i)' = Outcome(i)
      PROVE  Lifecycle!End(j, how)
  <2>1. JobInProgress = j
    BY <1>4, <1>a DEF BusyFlagExact, JobInProgress
  <2> QED
    BY <1>4, <2>1 DEF Lifecycle!End
<1>5. ASSUME NEW j \in Jobs, AbortStart(j) PROVE Lifecycle!End(j, "failed")
  <2>1. Active(j) /\ JobInProgress' = NoJob
    BY <1>5, <1>a DEF AbortStart, Aborted, Active, JobInProgress, Busy, TypeOK, JobState
  <2>2. Outcome(j)' = "failed" /\ \A i \in Jobs \ {j} : Outcome(i)' = Outcome(i)
    BY <1>5, <1>a DEF AbortStart, Goto, Outcome, Active, TypeOK
  <2> QED
    BY <1>4, <2>1, <2>2
<1>6. ASSUME NEW j \in Jobs, Mark(j) PROVE Lifecycle!End(j, meta[j].status)
  <2>1. Active(j) /\ meta[j].status \in {"completed", "failed"}
    BY <1>6, <1>a DEF Mark, Active, StatusFollowsPlace, Ended, TypeOK, Meta, Statuses
  <2>2. JobInProgress' = NoJob
    BY <1>6, <1>a, <2>1 DEF Mark, BusyFlagExact, JobInProgress, Busy, TypeOK, JobState
  <2>3. Outcome(j)' = meta[j].status /\ \A i \in Jobs \ {j} : Outcome(i)' = Outcome(i)
    BY <1>6, <1>a DEF Mark, AfterFinish, Goto, Outcome, Active, TypeOK
  <2> QED
    BY <1>4, <2>1, <2>2, <2>3
<1>7. ASSUME NEW j \in Jobs, Close(j) PROVE UNCHANGED Lifecycle!vars
  <2>1. JobInProgress' = JobInProgress
    BY <1>7 DEF Close, JobInProgress, Busy
  <2>2. \A i \in Jobs : Outcome(i)' = Outcome(i)
    BY <1>7, <1>a DEF Close, Goto, Outcome, Active, TypeOK
  <2> QED
    BY <1>1, <2>1, <2>2
<1>8. CASE Crash
  <2>1. JobInProgress' = NoJob
    BY <1>8 DEF Crash, Nil, JobInProgress, Busy
  <2>2. ASSUME NEW i \in Jobs, Active(i) PROVE i = JobInProgress /\ Outcome(i)' = "lost"
    BY <1>8, <1>a, <2>2 DEF Crash, BusyFlagExact, JobInProgress, Outcome, Active
  <2>3. ASSUME NEW i \in Jobs, ~Active(i)
        PROVE  i # JobInProgress /\ Outcome(i)' = Outcome(i)
    <3>1. i # JobInProgress
      BY <1>a, <2>3, NoJobAssumption DEF BusyFlagExact, JobInProgress
    <3>2. Outcome(i)' = Outcome(i)
      BY <1>8, <2>3 DEF Crash, Outcome, Active
    <3> QED
      BY <3>1, <3>2
  <2>4. outcome' = [i \in Jobs |-> IF i = JobInProgress THEN "lost" ELSE outcome[i]]
    BY <2>2, <2>3
  <2>5. Lifecycle!Restart
    BY <2>1, <2>4 DEF Lifecycle!Restart
  <2> QED
    BY <2>5 DEF Lifecycle!Next
<1>9. CASE UNCHANGED <<running, pc, meta>>
  <2>1. JobInProgress' = JobInProgress /\ \A i \in Jobs : Outcome(i)' = Outcome(i)
    BY <1>9 DEF JobInProgress, Busy, Outcome, Active
  <2> QED
    BY <1>1, <2>1
<1>10. ASSUME NEW j \in Jobs, Mark(j) PROVE Lifecycle!Next
  <2>1. meta[j].status \in {"completed", "failed"}
    BY <1>10, <1>a DEF Mark, StatusFollowsPlace, Ended, TypeOK, Meta, Statuses
  <2> QED
    BY <1>6, <1>10, <2>1 DEF Lifecycle!Next
<1>11. ASSUME NEW j \in Jobs, StartScan(j) \/ AbortStart(j) PROVE Lifecycle!Next
  BY <1>2, <1>5, <1>11 DEF Lifecycle!Next
<1> QED
  BY <1>3, <1>7, <1>8, <1>9, <1>10, <1>11, OtherSteps DEF Next, Run

\* The manager implements the life cycle it promises.
THEOREM Refinement == Spec => ImplementsLifecycle
BY LifecycleInit, LifecycleStep, Invariance, PTL DEF Spec, ImplementsLifecycle, Lifecycle!Spec
===============================================================================
