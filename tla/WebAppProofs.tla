----------------------------- MODULE WebAppProofs -----------------------------
(***************************************************************************)
(* Proofs about WebApp.tla, for any number of scans, of pages and of       *)
(* requests on their way: the start button follows the scan that is being  *)
(* watched; the variables keep their types, one action at a time being     *)
(* under the overlay; page numbers that have been shown and picked are     *)
(* those of the pages meant; the scan acted on is the one on show.         *)
(***************************************************************************)
EXTENDS WebApp, TLAPS

-------------------------------------------------------------------------------
(* The inductive invariant *)

\* A request has its fields; the reloads that follow it are reloads; the answer
\* to a start that succeeds has the scan's identifier.
Fields == {"kind", "job", "page", "img", "late", "keys", "busy", "then", "answered", "ok", "count",
           "over", "jobs"}
CallOK(c) == /\ c = [f \in Fields |-> c[f]]
             /\ c.kind \in Kinds
             /\ c.then \in Seq({"select", "list"})
             /\ c.ok \in BOOLEAN /\ c.over \in BOOLEAN
             /\ c.kind = "start" /\ c.ok => c.job \in Jobs

IsSeq(s) == s \in Seq({s[i] : i \in DOMAIN s})
CallsOK == IsSeq(calls) /\ \A i \in DOMAIN calls : CallOK(calls[i])

\* The requests that the start button depends on.  While no poll takes longer
\* than the interval, there is never more than one of them: a start only while
\* nothing is watched, a poll only while something is.
Watching == {"start", "poll"}
OneAtATime ==
  ~scene.slow =>
    /\ \A i, k \in DOMAIN calls :
         calls[i].kind \in Watching /\ calls[k].kind \in Watching => i = k
    /\ \A i \in DOMAIN calls : /\ calls[i].kind = "start" => scanning /\ timer = NoJob
                               /\ calls[i].kind = "poll" => timer # NoJob

IInv == /\ server \in [Jobs -> Scan]
        /\ scanning \in BOOLEAN
        /\ CallsOK
        /\ OneAtATime
        /\ StartButtonFollowsTheScan

THEOREM Initially == Init => IInv
<1> SUFFICES ASSUME Init PROVE IInv
  OBVIOUS
<1>1. server \in [Jobs -> Scan]
  <2>1. \A j \in Jobs : [n \in Numbers |-> <<j, n>>] \in Seq(Keys)
    BY BoundAssumption DEF Numbers, Keys
  <2>2. <<>> \in Seq(Keys)
    OBVIOUS
  <2> QED
    BY <2>1, <2>2 DEF Init, Scan
<1>2. calls = <<>> /\ scanning = FALSE /\ timer = NoJob
  BY DEF Init
<1>3. DOMAIN calls = {}
  BY <1>2
<1>4. CallsOK
  <2>1. {calls[i] : i \in DOMAIN calls} = {}
    BY <1>3
  <2>2. calls \in Seq({})
    BY <1>2
  <2> QED
    BY <1>3, <2>1, <2>2 DEF CallsOK, IsSeq
<1> QED
  BY <1>1, <1>2, <1>3, <1>4 DEF IInv, OneAtATime, StartButtonFollowsTheScan

-------------------------------------------------------------------------------
(* The requests on their way *)

LEMMA SeqFacts ==
  ASSUME NEW s, IsSeq(s)
  PROVE  Len(s) \in Nat /\ DOMAIN s = 1 .. Len(s)
BY DEF IsSeq

LEMMA RangeSeq == ASSUME NEW S, NEW s \in Seq(S) PROVE IsSeq(s)
<1> DEFINE R == {s[i] : i \in DOMAIN s}
<1>1. Len(s) \in Nat /\ DOMAIN s = 1 .. Len(s) /\ s = [i \in 1 .. Len(s) |-> s[i]]
  OBVIOUS
<1>2. \A i \in 1 .. Len(s) : s[i] \in R
  BY <1>1
<1> HIDE DEF R
<1>3. s \in Seq(R)
  BY <1>1, <1>2
<1> QED
  BY <1>3 DEF IsSeq, R

LEMMA AppendIsSeq ==
  ASSUME NEW s, IsSeq(s), NEW x
  PROVE  /\ IsSeq(Append(s, x))
         /\ DOMAIN Append(s, x) = 1 .. Len(s) + 1
         /\ \A i \in 1 .. Len(s) : Append(s, x)[i] = s[i]
         /\ Append(s, x)[Len(s) + 1] = x
<1> DEFINE S == {s[i] : i \in DOMAIN s} \cup {x}
           t == Append(s, x)
<1>1. s \in Seq(S) /\ x \in S
  BY DEF IsSeq
<1>2. /\ t \in Seq(S) /\ Len(t) = Len(s) + 1
      /\ \A i \in 1 .. Len(s) : t[i] = s[i]
      /\ t[Len(s) + 1] = x
  BY <1>1
<1> HIDE DEF S, t
<1>3. IsSeq(t)
  BY <1>2, RangeSeq
<1>4. DOMAIN t = 1 .. Len(s) + 1
  BY <1>2
<1> QED
  BY <1>2, <1>3, <1>4 DEF t

LEMMA NewCallOK ==
  ASSUME NEW kind \in Kinds, NEW job
  PROVE  CallOK(NewCall(kind, job)) /\ NewCall(kind, job).kind = kind
<1>1. <<>> \in Seq({"select", "list"})
  OBVIOUS
<1> QED
  BY <1>1 DEF CallOK, Fields, NewCall

\* The scans and the requests stay what they are.
LEMMA Idle ==
  ASSUME IInv, UNCHANGED <<scene, server, calls, scanning, timer>>
  PROVE  IInv'
BY DEF IInv, CallsOK, IsSeq, CallOK, OneAtATime, StartButtonFollowsTheScan

\* One more request.
LEMMA Sent ==
  ASSUME CallsOK, NEW c, CallOK(c), calls' = Append(calls, c)
  PROVE  /\ CallsOK'
         /\ DOMAIN calls = 1 .. Len(calls) /\ Len(calls) \in Nat
         /\ DOMAIN calls' = 1 .. Len(calls) + 1
         /\ \A i \in DOMAIN calls : calls'[i] = calls[i]
         /\ calls'[Len(calls) + 1] = c
<1>1. /\ IsSeq(calls') /\ DOMAIN calls' = 1 .. Len(calls) + 1
      /\ \A i \in 1 .. Len(calls) : calls'[i] = calls[i]
      /\ calls'[Len(calls) + 1] = c
  BY AppendIsSeq DEF CallsOK
<1>2. DOMAIN calls = 1 .. Len(calls) /\ Len(calls) \in Nat
  BY SeqFacts DEF CallsOK
<1>3. \A i \in DOMAIN calls' : CallOK(calls'[i])
  BY <1>1, <1>2 DEF CallsOK
<1> QED
  BY <1>1, <1>2, <1>3 DEF CallsOK

\* One more request that the start button does not depend on.
LEMMA OtherSent ==
  ASSUME IInv, NEW c, CallOK(c), c.kind \notin Watching, calls' = Append(calls, c),
         UNCHANGED <<scene, server, scanning, timer>>
  PROVE  IInv'
<1>1. /\ CallsOK'
      /\ DOMAIN calls = 1 .. Len(calls) /\ Len(calls) \in Nat
      /\ DOMAIN calls' = 1 .. Len(calls) + 1
      /\ \A i \in DOMAIN calls : calls'[i] = calls[i]
      /\ calls'[Len(calls) + 1] = c
  BY Sent DEF IInv
<1>2. \A i \in DOMAIN calls' : calls'[i].kind \in Watching => i \in DOMAIN calls
  BY <1>1
<1>3. OneAtATime'
  BY <1>1, <1>2 DEF IInv, OneAtATime, Watching
<1>4. StartButtonFollowsTheScan'
  BY <1>1 DEF IInv, StartButtonFollowsTheScan
<1> QED
  BY <1>1, <1>3, <1>4 DEF IInv

-------------------------------------------------------------------------------
(* What the user does *)

LEMMA Reloads ==
  /\ <<>> \in Seq({"select", "list"})
  /\ <<"list">> \in Seq({"select", "list"})
  /\ <<"select">> \in Seq({"select", "list"})
  /\ <<"select", "list">> \in Seq({"select", "list"})
  /\ <<"list", "select">> \in Seq({"select", "list"})
OBVIOUS

\* Clicks that send nothing, and what the browser does by itself.
LEMMA QuietClicks ==
  ASSUME IInv,
         \/ \E n \in Numbers : OpenPageViewer(n) \/ ToggleCombine(n)
         \/ CloseViewer \/ ToggleViewed \/ RemoveFromCombine \/ Browser
  PROVE  IInv'
<1>1. UNCHANGED <<scene, server, calls, scanning, timer>>
  BY DEF OpenPageViewer, ToggleCombine, CloseViewer, ToggleViewed, RemoveFromCombine,
         Toggle, Clicks, Browser, DragEnds, ViewerHidden, progress
<1> QED
  BY <1>1, Idle

\* Clicks that send a request the start button does not depend on.
LEMMA Requests ==
  ASSUME IInv,
         \/ \E j \in Jobs : SelectJob(j)
         \/ RenameJob \/ CommitReorder \/ DeleteJob
         \/ EditCurrentPage \/ DeleteCurrentPage \/ Combine
  PROVE  IInv'
<1> DEFINE Other == {"select", "rename", "reorder", "deleteJob", "edit", "deletePage", "combine"}
<1>1. Other \subseteq Kinds \ Watching
  BY DEF Kinds, Watching
<1>2. UNCHANGED <<scene, server, scanning, timer>>
  BY DEF SelectJob, RenameJob, CommitReorder, DeleteJob, EditCurrentPage, DeleteCurrentPage,
         Combine, Clicks, progress
<1>3. ASSUME NEW kind \in Other, NEW job
      PROVE  CallOK(NewCall(kind, job)) /\ NewCall(kind, job).kind = kind
  BY <1>1, NewCallOK
<1>4. ASSUME NEW c, CallOK(c), c.kind \in Other, calls' = Append(calls, c)
      PROVE  IInv'
  BY <1>1, <1>2, <1>4, OtherSent
<1>5. CASE \E j \in Jobs : SelectJob(j)
  BY <1>3, <1>4, <1>5 DEF SelectJob, Send
<1>6. ASSUME NEW c, CallOK(c), c.kind \in Other, SendBusy(c)
      PROVE  IInv'
  <2> DEFINE d == [c EXCEPT !.busy = TRUE]
  <2>1. CallOK(d) /\ d.kind = c.kind
    BY <1>6 DEF CallOK, Fields
  <2> QED
    BY <1>4, <1>6, <2>1 DEF SendBusy, Send
<1>7. ASSUME NEW c, CallOK(c), NEW then \in Seq({"select", "list"})
      PROVE  CallOK([c EXCEPT !.then = then]) /\ [c EXCEPT !.then = then].kind = c.kind
  BY <1>7 DEF CallOK, Fields
<1>8. CASE RenameJob
  <2> DEFINE c == [NewCall("rename", sel) EXCEPT !.then = <<"list">>]
  <2>1. CallOK(NewCall("rename", sel)) /\ NewCall("rename", sel).kind = "rename"
    BY <1>3
  <2>2. CallOK(c) /\ c.kind = "rename"
    BY <1>7, <2>1, Reloads
  <2> QED
    BY <1>4, <1>8, <2>1, <2>2 DEF RenameJob, Send
<1>9. CASE CommitReorder
  <2> DEFINE c == [NewCall("reorder", sel) EXCEPT !.then = <<"select">>]
  <2>1. CallOK(NewCall("reorder", sel)) /\ NewCall("reorder", sel).kind = "reorder"
    BY <1>3
  <2>2. CallOK(c) /\ c.kind = "reorder"
    BY <1>7, <2>1, Reloads
  <2> QED
    BY <1>6, <1>9, <2>1, <2>2 DEF CommitReorder
<1>10. CASE DeleteJob
  <2> DEFINE c == [NewCall("deleteJob", sel) EXCEPT !.then = <<"list">>]
  <2>1. CallOK(NewCall("deleteJob", sel)) /\ NewCall("deleteJob", sel).kind = "deleteJob"
    BY <1>3
  <2>2. CallOK(c) /\ c.kind = "deleteJob"
    BY <1>7, <2>1, Reloads
  <2> QED
    BY <1>6, <1>10, <2>1, <2>2 DEF DeleteJob
<1>11. ASSUME NEW kind \in Other
       PROVE  CallOK(ViewerCall(kind)) /\ ViewerCall(kind).kind = kind
  <2>1. CallOK(NewCall(kind, viewer.job)) /\ NewCall(kind, viewer.job).kind = kind
    BY <1>3
  <2> QED
    BY <2>1 DEF ViewerCall, CallOK, Fields
<1>12. CASE EditCurrentPage
  <2> DEFINE c == [ViewerCall("edit") EXCEPT !.then = <<"select">>]
  <2>1. CallOK(c) /\ c.kind = "edit"
    BY <1>7, <1>11, Reloads
  <2> QED
    BY <1>6, <1>12, <2>1 DEF EditCurrentPage
<1>13. CASE DeleteCurrentPage
  <2> DEFINE c == [ViewerCall("deletePage") EXCEPT !.then = <<"select", "list">>]
  <2>1. CallOK(c) /\ c.kind = "deletePage"
    BY <1>7, <1>11, Reloads
  <2> QED
    BY <1>6, <1>13, <2>1 DEF DeleteCurrentPage
<1>14. CASE Combine
  <2>1. PICK keys : SendBusy([NewCall("combine", NoJob) EXCEPT !.keys = keys])
    BY <1>14 DEF Combine
  <2> DEFINE c == [NewCall("combine", NoJob) EXCEPT !.keys = keys]
  <2>2. CallOK(NewCall("combine", NoJob)) /\ NewCall("combine", NoJob).kind = "combine"
    BY <1>3
  <2>3. CallOK(c) /\ c.kind = "combine"
    BY <2>2 DEF CallOK, Fields
  <2> QED
    BY <1>6, <2>1, <2>3
<1> QED
  BY <1>5, <1>8, <1>9, <1>10, <1>12, <1>13, <1>14

\* The click disables the button, and no poll is on its way.
LEMMA StartScanStep == ASSUME IInv, StartScan PROVE IInv'
<1> DEFINE c == NewCall("start", NoJob)
<1>1. CallOK(c) /\ c.kind = "start"
  BY NewCallOK DEF Kinds
<1>2. /\ calls' = Append(calls, c) /\ ~scanning /\ scanning' = TRUE
      /\ UNCHANGED <<scene, server, timer>>
  BY DEF StartScan, Send, Clicks
<1>3. /\ CallsOK'
      /\ DOMAIN calls = 1 .. Len(calls) /\ Len(calls) \in Nat
      /\ DOMAIN calls' = 1 .. Len(calls) + 1
      /\ \A i \in DOMAIN calls : calls'[i] = calls[i]
      /\ calls'[Len(calls) + 1] = c
  BY <1>1, <1>2, Sent DEF IInv
<1>4. ~scene.slow => /\ timer = NoJob
                     /\ \A i \in DOMAIN calls : calls[i].kind \notin Watching
  BY <1>2 DEF IInv, OneAtATime, StartButtonFollowsTheScan, Watching
<1>5. OneAtATime'
  BY <1>1, <1>2, <1>3, <1>4 DEF OneAtATime, Watching
<1>6. StartButtonFollowsTheScan'
  BY <1>1, <1>2, <1>3 DEF StartButtonFollowsTheScan
<1> QED
  BY <1>2, <1>3, <1>5, <1>6 DEF IInv

\* While polls do not overlap, nothing else is on its way.
LEMMA TickStep == ASSUME IInv, Tick PROVE IInv'
<1> DEFINE c == NewCall("poll", timer)
<1>1. CallOK(c) /\ c.kind = "poll"
  BY NewCallOK DEF Kinds
<1>2. /\ calls' = Append(calls, c) /\ timer # NoJob
      /\ scene.slow \/ \A i \in DOMAIN calls : calls[i].kind # "poll"
      /\ UNCHANGED <<scene, server, scanning, timer>>
  BY DEF Tick, Send, progress
<1>3. /\ CallsOK'
      /\ DOMAIN calls = 1 .. Len(calls) /\ Len(calls) \in Nat
      /\ DOMAIN calls' = 1 .. Len(calls) + 1
      /\ \A i \in DOMAIN calls : calls'[i] = calls[i]
      /\ calls'[Len(calls) + 1] = c
  BY <1>1, <1>2, Sent DEF IInv
<1>4. ~scene.slow => \A i \in DOMAIN calls : calls[i].kind \notin Watching
  BY <1>2 DEF IInv, OneAtATime, Watching
<1>5. OneAtATime'
  BY <1>1, <1>2, <1>3, <1>4 DEF OneAtATime, Watching
<1>6. StartButtonFollowsTheScan'
  BY <1>1, <1>2, <1>3 DEF IInv, StartButtonFollowsTheScan
<1> QED
  BY <1>2, <1>3, <1>5, <1>6 DEF IInv

-------------------------------------------------------------------------------
(* The server *)

LEMMA Answered ==
  ASSUME IInv, NEW i \in DOMAIN calls, NEW x, CallOK(x), x.kind = calls[i].kind,
         calls' = [calls EXCEPT ![i] = x], server' \in [Jobs -> Scan],
         UNCHANGED <<scene, scanning, timer>>
  PROVE  IInv'
<1>1. DOMAIN calls' = DOMAIN calls /\ \A k \in DOMAIN calls : calls'[k].kind = calls[k].kind
  BY DEF IInv, CallsOK, IsSeq
<1>2. IsSeq(calls')
  <2> DEFINE S == {calls[k] : k \in DOMAIN calls} \cup {x}
  <2>1. calls \in Seq(S) /\ x \in S
    BY DEF IInv, CallsOK, IsSeq
  <2>2. calls' \in Seq(S)
    BY <2>1
  <2> QED
    BY <2>2, RangeSeq
<1>3. \A k \in DOMAIN calls' : CallOK(calls'[k])
  BY <1>1 DEF IInv, CallsOK, IsSeq
<1>4. OneAtATime'
  BY <1>1 DEF IInv, OneAtATime
<1>5. StartButtonFollowsTheScan'
  BY <1>1 DEF IInv, StartButtonFollowsTheScan
<1> QED
  BY <1>2, <1>3, <1>4, <1>5 DEF IInv, CallsOK

\* A request leaves scans behind, and a start one that was none before.
LEMMA EffectsOK ==
  ASSUME server \in [Jobs -> Scan], NEW c, Granted(c), NEW after \in Effects(c)
  PROVE  /\ after \in [Jobs -> Scan]
         /\ c.kind = "start" => \E j \in Jobs : after[j].status # server[j].status
<1>1. CASE c.kind = "start"
  <2>1. PICK k \in Jobs : /\ server[k].status = "none"
                          /\ after = [server EXCEPT ![k].status = "running"]
    BY <1>1 DEF Effects
  <2>2. after[k].status = "running" /\ after \in [Jobs -> Scan]
    BY <2>1 DEF Scan
  <2> QED
    BY <2>1, <2>2
<1>2. CASE c.kind = "deletePage"
  <2> DEFINE pages == server[c.job].pages
  <2>1. c.job \in Jobs /\ c.page \in DOMAIN pages
    BY <1>2 DEF Granted, ImageAt, There
  <2>2. pages \in Seq(Keys)
    BY <2>1 DEF Scan
  <2>3. Renumbered(pages, c.page) \in Seq(Keys)
    <3>1. Len(pages) - 1 \in Nat
      BY <2>1, <2>2
    <3>2. \A k \in 1 .. Len(pages) - 1 :
            (IF k < c.page THEN pages[k] ELSE pages[k + 1]) \in Keys
      BY <2>2
    <3> QED
      BY <3>1, <3>2 DEF Renumbered
  <2>4. after = [server EXCEPT ![c.job].pages = Renumbered(@, c.page)]
    BY <1>2 DEF Effects
  <2>5. after \in [Jobs -> Scan]
    BY <2>1, <2>3, <2>4 DEF Scan
  <2> QED
    BY <1>2, <2>5
<1>3. CASE c.kind = "deleteJob"
  <2>1. [status |-> "gone", pages |-> <<>>] \in Scan
    BY DEF Scan
  <2>2. after = [server EXCEPT ![c.job] = [status |-> "gone", pages |-> <<>>]]
    BY <1>3 DEF Effects
  <2> QED
    BY <1>3, <2>1, <2>2
<1>4. CASE c.kind \notin {"start", "deletePage", "deleteJob"}
  BY <1>4 DEF Effects
<1> QED
  BY <1>1, <1>2, <1>3, <1>4

LEMMA ReplyOK ==
  ASSUME NEW c, CallOK(c), NEW after,
         c.kind = "start" => \E j \in Jobs : after[j].status # server[j].status
  PROVE  CallOK(Reply(c, after)) /\ Reply(c, after).kind = c.kind
<1>1. c.kind = "start" => (CHOOSE j \in Jobs : after[j].status # server[j].status) \in Jobs
  OBVIOUS
<1>2. (There(c.job) /\ server[c.job].status = "over") \in BOOLEAN
  BY DEF There
<1> QED
  BY <1>1, <1>2 DEF CallOK, Fields, Reply

LEMMA AnswerStep == ASSUME IInv, NEW i \in DOMAIN calls, Answer(i) PROVE IInv'
<1> DEFINE c == calls[i]
           Refused == [c EXCEPT !.answered = TRUE]
<1>1. UNCHANGED <<scene, scanning, timer>> /\ CallOK(c) /\ server \in [Jobs -> Scan]
  BY DEF Answer, progress, IInv, CallsOK
<1>2. CallOK(Refused) /\ Refused.kind = c.kind
  BY <1>1 DEF CallOK, Fields
<1>3. CASE calls' = [calls EXCEPT ![i] = Refused] /\ server' \in [Jobs -> Scan]
  BY <1>1, <1>2, <1>3, Answered
<1>4. CASE Granted(c) /\ server' \in Effects(c) /\ calls' = [calls EXCEPT ![i] = Reply(c, server')]
  <2>1. /\ server' \in [Jobs -> Scan]
        /\ c.kind = "start" => \E j \in Jobs : server'[j].status # server[j].status
    BY <1>1, <1>4, EffectsOK
  <2>2. CallOK(Reply(c, server')) /\ Reply(c, server').kind = c.kind
    BY <1>1, <2>1, ReplyOK
  <2> QED
    BY <1>1, <1>4, <2>1, <2>2, Answered
<1>5. CASE Granted(c) /\ server' \in Effects(c) /\ calls' = [calls EXCEPT ![i] = Refused]
  BY <1>1, <1>3, <1>5, EffectsOK
<1>6. CASE UNCHANGED server /\ calls' = [calls EXCEPT ![i] = Refused]
  BY <1>1, <1>3, <1>6
<1> QED
  BY <1>4, <1>5, <1>6 DEF Answer

LEMMA ServerScansStep == ASSUME IInv, ServerScans PROVE IInv'
<1>1. UNCHANGED <<scene, calls, scanning, timer>>
  BY DEF ServerScans, progress
<1>2. PICK j \in Jobs :
        server' = [server EXCEPT ![j] =
                     IF Len(server[j].pages) < MaxPages
                     THEN [server[j] EXCEPT !.pages = Append(server[j].pages,
                                                             <<j, Len(server[j].pages) + 1>>)]
                     ELSE [server[j] EXCEPT !.status = "over"]]
  BY DEF ServerScans
<1> DEFINE pages == server[j].pages
           more == Append(pages, <<j, Len(pages) + 1>>)
<1>3. server[j] \in Scan /\ pages \in Seq(Keys)
  BY DEF IInv, Scan
<1>4. [server[j] EXCEPT !.status = "over"] \in Scan
  BY <1>3 DEF Scan
<1>5. ASSUME Len(pages) < MaxPages PROVE [server[j] EXCEPT !.pages = more] \in Scan
  <2>1. Len(pages) + 1 \in Numbers
    BY <1>3, <1>5, BoundAssumption DEF Numbers
  <2>2. more \in Seq(Keys)
    BY <1>3, <2>1 DEF Keys
  <2> HIDE DEF more
  <2> QED
    BY <1>3, <2>2 DEF Scan
<1>6. server' \in [Jobs -> Scan]
  <2>1. CASE Len(pages) < MaxPages
    <3>1. server' = [server EXCEPT ![j] = [server[j] EXCEPT !.pages = more]]
      BY <1>2, <2>1
    <3> QED
      BY <1>5, <2>1, <3>1 DEF IInv
  <2>2. CASE ~(Len(pages) < MaxPages)
    <3>1. server' = [server EXCEPT ![j] = [server[j] EXCEPT !.status = "over"]]
      BY <1>2, <2>2
    <3> QED
      BY <1>4, <3>1 DEF IInv
  <2> QED
    BY <2>1, <2>2
<1>7. CallsOK' /\ OneAtATime' /\ StartButtonFollowsTheScan'
  BY <1>1 DEF IInv, CallsOK, IsSeq, CallOK, OneAtATime, StartButtonFollowsTheScan
<1> QED
  BY <1>1, <1>6, <1>7 DEF IInv

-------------------------------------------------------------------------------
(* What follows an answer *)

\* The place a request had before the i-th left.
Old(i, k) == IF k < i THEN k ELSE k + 1

\* The i-th request leaves, and a reload may take the last place: whatever else
\* is on its way was so before, and still is.
LEMMA Continued ==
  ASSUME CallsOK, NEW i \in DOMAIN calls, NEW then \in Seq({"select", "list"}), NEW selected,
         Continue(i, then, selected)
  PROVE  /\ CallsOK'
         /\ \A k \in DOMAIN calls' :
              calls'[k].kind \in Watching =>
                /\ Old(i, k) \in DOMAIN calls \ {i}
                /\ calls'[k] = calls[Old(i, k)]
         /\ \A k \in DOMAIN calls \ {i} : \E m \in DOMAIN calls' : calls'[m] = calls[k]
         /\ DOMAIN calls' \subseteq Nat
         /\ UNCHANGED <<scene, server>>
<1> DEFINE c == calls[i]
           others == [k \in 1 .. Len(calls) - 1 |-> IF k < i THEN calls[k] ELSE calls[k + 1]]
           reload == [NewCall(Head(then), c.job) EXCEPT !.busy = c.busy, !.then = Tail(then)]
<1>1. Len(calls) \in Nat /\ DOMAIN calls = 1 .. Len(calls)
  BY SeqFacts DEF CallsOK
<1>2. Len(calls) - 1 \in Nat /\ i \in 1 .. Len(calls)
  BY <1>1
<1>3. others \in Seq({calls[k] : k \in DOMAIN calls})
  BY <1>1, <1>2
<1>4. /\ IsSeq(others)
      /\ DOMAIN others = 1 .. Len(calls) - 1 /\ Len(others) = Len(calls) - 1
      /\ \A k \in DOMAIN others : others[k] = calls[Old(i, k)] /\ Old(i, k) \in DOMAIN calls \ {i}
  <2>1. DOMAIN others = 1 .. Len(calls) - 1 /\ Len(others) = Len(calls) - 1
    BY <1>2
  <2>2. \A k \in DOMAIN others : others[k] = calls[Old(i, k)] /\ Old(i, k) \in DOMAIN calls \ {i}
    BY <1>1, <1>2, <2>1 DEF Old
  <2>3. IsSeq(others)
    BY <1>3, RangeSeq
  <2> QED
    BY <2>1, <2>2, <2>3
<1>5. \A k \in DOMAIN calls \ {i} : \E m \in DOMAIN others : others[m] = calls[k]
  <2>1. ASSUME NEW k \in DOMAIN calls, k < i PROVE k \in DOMAIN others /\ others[k] = calls[k]
    BY <1>1, <1>2, <1>4, <2>1
  <2>2. ASSUME NEW k \in DOMAIN calls, k > i
        PROVE  k - 1 \in DOMAIN others /\ others[k - 1] = calls[k]
    BY <1>1, <1>2, <1>4, <2>2 DEF Old
  <2>3. SUFFICES ASSUME NEW k \in DOMAIN calls \ {i}
                 PROVE  \E m \in DOMAIN others : others[m] = calls[k]
    OBVIOUS
  <2>4. k \in DOMAIN calls /\ (k < i \/ k > i)
    BY <1>1, <1>2
  <2> HIDE DEF others
  <2> QED
    BY <2>1, <2>2, <2>4
<1>6. \A k \in DOMAIN others : CallOK(others[k])
  BY <1>4 DEF CallsOK
<1> HIDE DEF others
<1>7. CASE calls' = others
  BY <1>2, <1>4, <1>5, <1>6, <1>7 DEF CallsOK, Continue
<1>8. CASE then # <<>> /\ calls' = Append(others, reload)
  <2>1. Head(then) \in {"select", "list"} /\ Tail(then) \in Seq({"select", "list"})
    BY <1>8
  <2>2. CallOK(NewCall(Head(then), c.job)) /\ NewCall(Head(then), c.job).kind = Head(then)
    BY <2>1, NewCallOK DEF Kinds
  <2>3. CallOK(reload) /\ reload.kind \notin Watching
    BY <2>1, <2>2 DEF CallOK, Fields, Watching
  <2> HIDE DEF reload
  <2>4. /\ IsSeq(calls') /\ DOMAIN calls' = 1 .. Len(others) + 1
        /\ \A k \in 1 .. Len(others) : calls'[k] = others[k]
        /\ calls'[Len(others) + 1] = reload
    BY <1>4, <1>8, AppendIsSeq
  <2>5. \A k \in DOMAIN calls' : k \in DOMAIN others \/ calls'[k] = reload
    BY <1>2, <1>4, <2>4
  <2>6. \A k \in DOMAIN others : k \in DOMAIN calls' /\ calls'[k] = others[k]
    BY <1>2, <1>4, <2>4
  <2>7. CallsOK'
    BY <1>6, <2>3, <2>4, <2>5, <2>6 DEF CallsOK
  <2>8. \A k \in DOMAIN calls \ {i} : \E m \in DOMAIN calls' : calls'[m] = calls[k]
    BY <1>5, <2>6
  <2> QED
    BY <1>2, <1>4, <2>3, <2>4, <2>5, <2>6, <2>7, <2>8 DEF Continue
<1> QED
  BY <1>7, <1>8 DEF Continue, others, reload

\* The answer to a request that the start button does not depend on.
LEMMA OtherReturns ==
  ASSUME IInv, NEW i \in DOMAIN calls, calls[i].kind \notin Watching,
         NEW then \in Seq({"select", "list"}), NEW selected, Continue(i, then, selected),
         UNCHANGED <<scanning, timer>>
  PROVE  IInv'
<1>1. /\ CallsOK'
      /\ \A k \in DOMAIN calls' :
           calls'[k].kind \in Watching =>
             /\ Old(i, k) \in DOMAIN calls \ {i}
             /\ calls'[k] = calls[Old(i, k)]
      /\ \A k \in DOMAIN calls \ {i} : \E m \in DOMAIN calls' : calls'[m] = calls[k]
      /\ DOMAIN calls' \subseteq Nat
      /\ UNCHANGED <<scene, server>>
  BY Continued DEF IInv
<1>2. \A k, m \in DOMAIN calls' : Old(i, k) = Old(i, m) => k = m
  BY <1>1, SeqFacts DEF Old, IInv, CallsOK
<1>3. OneAtATime'
  BY <1>1, <1>2 DEF IInv, OneAtATime, Watching
<1>4. StartButtonFollowsTheScan'
  <2>1. \A k \in DOMAIN calls : calls[k].kind = "start" => k # i
    BY DEF Watching
  <2> QED
    BY <1>1, <2>1 DEF IInv, StartButtonFollowsTheScan
<1> QED
  BY <1>1, <1>3, <1>4 DEF IInv

\* While polls do not overlap nothing else is on its way when a start or a poll
\* is answered.
LEMMA AloneReturns ==
  ASSUME IInv, NEW i \in DOMAIN calls, calls[i].kind \in Watching,
         NEW then \in Seq({"select", "list"}), NEW selected, Continue(i, then, selected),
         NEW k \in DOMAIN calls', ~scene.slow
  PROVE  calls'[k].kind \notin Watching
BY Continued DEF IInv, OneAtATime, Watching

\* The scan that has been started is watched from now on; after an error the
\* button is enabled, and nothing is watched unless polls overlap.
LEMMA StartReturnsStep == ASSUME IInv, NEW i \in DOMAIN calls, StartReturns(i) PROVE IInv'
<1> DEFINE c == calls[i]
<1>1. /\ CallOK(c) /\ c.kind = "start" /\ Continue(i, <<>>, sel)
      /\ timer' = IF c.ok THEN c.job ELSE timer
      /\ scanning' = (c.ok /\ scanning)
  BY DEF StartReturns, Started, IInv, CallsOK
<1>2. CallsOK' /\ UNCHANGED <<scene, server>>
  BY <1>1, Continued, Reloads DEF IInv
<1>3. ~scene.slow => \A k \in DOMAIN calls' : calls'[k].kind \notin Watching
  BY <1>1, AloneReturns, Reloads DEF Watching
<1>4. c.ok \in BOOLEAN /\ (c.ok => c.job # NoJob)
  BY <1>1, NoJobAssumption DEF CallOK
<1>5. scanning' \in BOOLEAN
  BY <1>1, <1>4 DEF IInv
<1>6. OneAtATime'
  BY <1>2, <1>3 DEF OneAtATime, Watching
<1>7. ~scene.slow => scanning /\ timer = NoJob
  BY <1>1 DEF IInv, OneAtATime
<1>8. StartButtonFollowsTheScan'
  BY <1>1, <1>2, <1>4, <1>7 DEF StartButtonFollowsTheScan
<1> QED
  BY <1>2, <1>5, <1>6, <1>8 DEF IInv

\* A poll that reports the end ends the watching and enables the button; any
\* other changes neither.
LEMMA PollReturnsStep == ASSUME IInv, NEW i \in DOMAIN calls, PollReturns(i) PROVE IInv'
<1> DEFINE c == calls[i]
           then == IF c.over THEN <<"list", "select">> ELSE <<>>
           over == c.ok /\ c.over
<1>1. /\ CallOK(c) /\ c.kind = "poll" /\ Continue(i, then, sel)
      /\ timer' = IF over THEN NoJob ELSE timer
      /\ scanning' = (scanning /\ ~over)
  BY DEF PollReturns, Cleared, StillGoing, IInv, CallsOK
<1>2. then \in Seq({"select", "list"})
  BY Reloads
<1> HIDE DEF then
<1>3. /\ CallsOK' /\ UNCHANGED <<scene, server>>
      /\ \A k \in DOMAIN calls \ {i} : \E m \in DOMAIN calls' : calls'[m] = calls[k]
  BY <1>1, <1>2, Continued DEF IInv
<1>4. ~scene.slow => \A k \in DOMAIN calls' : calls'[k].kind \notin Watching
  BY <1>1, <1>2, AloneReturns DEF Watching
<1>5. over \in BOOLEAN
  BY <1>1 DEF CallOK
<1> HIDE DEF over
<1>6. scanning' \in BOOLEAN
  BY <1>1, <1>5 DEF IInv
<1>7. OneAtATime'
  BY <1>3, <1>4 DEF OneAtATime, Watching
<1>8. StartButtonFollowsTheScan'
  <2>1. CASE over
    BY <1>1, <2>1 DEF StartButtonFollowsTheScan
  <2>2. CASE ~over
    <3>1. \A k \in DOMAIN calls : calls[k].kind = "start" => k # i
      BY <1>1
    <3> QED
      BY <1>1, <1>3, <2>2, <3>1 DEF IInv, StartButtonFollowsTheScan
  <2> QED
    BY <2>1, <2>2
<1> QED
  BY <1>3, <1>6, <1>7, <1>8 DEF IInv

LEMMA ReturnStep == ASSUME IInv, NEW i \in DOMAIN calls, Return(i) PROVE IInv'
<1> DEFINE c == calls[i]
<1>1. c.then \in Seq({"select", "list"})
  BY DEF IInv, CallsOK, CallOK
<1>2. CASE EditReturns(i)
  BY <1>1, <1>2, OtherReturns DEF EditReturns, progress, Watching
<1>3. CASE SelectReturns(i)
  BY <1>1, <1>3, OtherReturns DEF SelectReturns, progress, Watching
<1>4. CASE ListReturns(i)
  BY <1>1, <1>4, OtherReturns DEF ListReturns, progress, Watching
<1>5. CASE DeletePageReturns(i)
  BY <1>1, <1>5, OtherReturns DEF DeletePageReturns, progress, Watching
<1>6. CASE DeleteJobReturns(i)
  BY <1>1, <1>6, OtherReturns DEF DeleteJobReturns, progress, Watching
<1> QED
  BY <1>2, <1>3, <1>4, <1>5, <1>6, StartReturnsStep, PollReturnsStep DEF Return

-------------------------------------------------------------------------------
(* The theorems *)

THEOREM Inductive == IInv /\ [Next]_vars => IInv'
<1> SUFFICES ASSUME IInv, [Next]_vars PROVE IInv'
  OBVIOUS
<1>1. CASE User
  BY <1>1, QuietClicks, Requests, StartScanStep DEF User
<1>6. CASE Browser
  BY <1>6, QuietClicks
<1>2. CASE Tick
  BY <1>2, TickStep
<1>3. CASE \E i \in DOMAIN calls : Answer(i) \/ Return(i)
  BY <1>3, AnswerStep, ReturnStep
<1>4. CASE ServerScans
  BY <1>4, ServerScansStep
<1>5. CASE UNCHANGED vars
  BY <1>5, Idle DEF vars
<1> QED
  BY <1>1, <1>2, <1>3, <1>4, <1>5, <1>6 DEF Next

THEOREM Invariance == Spec => []IInv
<1>1. IInv /\ [Next]_vars => IInv'
  BY Inductive
<1> QED
  BY Initially, <1>1, PTL DEF Spec

\* The start button is disabled while a scan is being watched, if no poll takes
\* longer than the interval, and never without cause (app.js:90, 580, 595).
THEOREM StartButtonIsRight == Spec => []StartButtonFollowsTheScan
<1>1. IInv => StartButtonFollowsTheScan
  BY DEF IInv
<1> QED
  BY Invariance, <1>1, PTL
-------------------------------------------------------------------------------
(* Types *)

\* What else the types rest on.  A request that is part of an action under the
\* overlay, and that is the only one; a scan or a start that is granted is of a
\* scan; a list of pages has a number for each.
Acts == {"reorder", "deleteJob", "edit", "deletePage", "combine"}
Proper == {c \in Call : /\ c.kind \in Acts => c.busy
                        /\ c.ok => c.answered
                        /\ c.kind \in {"select", "start"} /\ c.ok => c.job \in Jobs}

OneAction == /\ \A i, k \in DOMAIN calls : calls[i].busy /\ calls[k].busy => i = k
             /\ busyDepth = IF \E i \in DOMAIN calls : calls[i].busy THEN 1 ELSE 0

CallTypes == calls \in Seq(Proper) /\ Len(calls) <= scene.calls /\ OneAction

ServerTypes == /\ scene \in Scenes
               /\ failures \in 0 .. scene.failures
               /\ server \in [Jobs -> Scan]
               /\ \A j \in Jobs : /\ Len(server[j].pages) <= MaxPages
                                  /\ server[j].status \in {"none", "gone"} => server[j].pages = <<>>

PageTypes == /\ listed \subseteq Jobs
             /\ sel \in Jobs \cup {NoJob}
             /\ shown \in Grid /\ (shown.count > 0 => shown.job \in Jobs)
             /\ viewer \in Viewer
             /\ viewer # NoViewer => viewer.job \in Jobs /\ viewer.page \in Numbers
             /\ scanning \in BOOLEAN
             /\ timer \in Jobs \cup {NoJob}

PickTypes == /\ combined \subseteq Keys
             /\ picked \in [Keys -> Images]
             /\ shifted \subseteq Keys
             /\ lost \subseteq Jobs

Types == CallTypes /\ ServerTypes /\ PageTypes /\ PickTypes

LEMMA TypesGiveTypeOK == ASSUME Types PROVE TypeOK
<1>1. calls \in Seq(Call)
  <2>1. Proper \subseteq Call
    BY DEF Proper
  <2> QED
    BY <2>1 DEF Types, CallTypes
<1>2. busyDepth \in Nat
  BY DEF Types, CallTypes, OneAction
<1> QED
  BY <1>1, <1>2 DEF Types, CallTypes, ServerTypes, PageTypes, PickTypes, TypeOK

\* Nothing on show.
LEMMA EmptyTypes ==
  /\ EmptyGrid \in Grid /\ ~(EmptyGrid.count > 0)
  /\ NoViewer \in Viewer /\ NoImage \in Images
BY BoundAssumption DEF EmptyGrid, Grid, NoViewer, Viewer, Images

LEMMA FirstTypes == ASSUME Init PROVE Types
<1>1. calls = <<>> /\ calls \in Seq(Proper) /\ DOMAIN calls = {} /\ Len(calls) = 0
  BY DEF Init
<1>2. scene \in Scene
  BY SceneAssumption DEF Init
<1>3. scene.calls \in Nat /\ scene.failures \in Nat /\ scene.scans \subseteq Jobs
  BY <1>2 DEF Scene
<1>4. CallTypes
  BY <1>1, <1>3 DEF Init, CallTypes, OneAction
<1>5. ServerTypes
  <2>1. \A j \in Jobs : /\ [n \in Numbers |-> <<j, n>>] \in Seq(Keys)
                        /\ Len([n \in Numbers |-> <<j, n>>]) = MaxPages
    BY BoundAssumption DEF Numbers, Keys
  <2>2. <<>> \in Seq(Keys) /\ Len(<<>>) = 0 /\ 0 <= MaxPages
    BY BoundAssumption
  <2>3. server \in [Jobs -> Scan]
    BY <2>1, <2>2 DEF Init, Scan
  <2>4. \A j \in Jobs : /\ server[j].pages \in {[n \in Numbers |-> <<j, n>>], <<>>}
                        /\ server[j].status \in {"none", "gone"} => server[j].pages = <<>>
    BY DEF Init
  <2>5. \A j \in Jobs : Len(server[j].pages) <= MaxPages
    BY <2>1, <2>2, <2>4, BoundAssumption
  <2>6. scene \in Scenes /\ failures \in 0 .. scene.failures
    BY <1>3 DEF Init
  <2> QED
    BY <2>3, <2>4, <2>5, <2>6 DEF ServerTypes
<1>6. PageTypes
  <2>1. /\ EmptyGrid \in Grid /\ ~(EmptyGrid.count > 0)
        /\ NoViewer \in Viewer
    BY EmptyTypes
  <2>2. /\ listed = scene.scans /\ sel = NoJob /\ shown = EmptyGrid /\ viewer = NoViewer
        /\ scanning = FALSE /\ timer = NoJob
    BY DEF Init
  <2> QED
    BY <1>3, <2>1, <2>2 DEF PageTypes
<1>7. PickTypes
  BY DEF Init, PickTypes, Images
<1> QED
  BY <1>4, <1>5, <1>6, <1>7 DEF Types

-------------------------------------------------------------------------------
(* The requests on their way, as a sequence *)

LEMMA CallFacts ==
  ASSUME Types
  PROVE  /\ Len(calls) \in Nat /\ DOMAIN calls = 1 .. Len(calls)
         /\ scene.calls \in Nat /\ scene.failures \in Nat
         /\ \A i \in DOMAIN calls : calls[i] \in Proper /\ calls[i] \in Call
<1>1. scene \in Scene
  BY SceneAssumption DEF Types, ServerTypes
<1> QED
  BY <1>1 DEF Types, CallTypes, Proper, Scene

\* A request that has been made up, and one more on its way.
LEMMA NewCallTypes ==
  ASSUME NEW kind \in Kinds, NEW job \in Jobs \cup {NoJob}
  PROVE  NewCall(kind, job) \in Call
BY BoundAssumption, Reloads DEF NewCall, Call, Images

LEMMA SentTypes ==
  ASSUME Types, NEW c \in Proper, calls' = Append(calls, c), Len(calls) < scene.calls,
         UNCHANGED scene,
         IF c.busy THEN busyDepth = 0 /\ busyDepth' = 1 ELSE UNCHANGED busyDepth
  PROVE  CallTypes'
<1>1. /\ Len(calls) \in Nat /\ DOMAIN calls = 1 .. Len(calls) /\ scene.calls \in Nat
  BY CallFacts
<1>2. /\ calls' \in Seq(Proper) /\ Len(calls') = Len(calls) + 1
      /\ DOMAIN calls' = 1 .. Len(calls) + 1
      /\ \A i \in DOMAIN calls : calls'[i] = calls[i]
      /\ calls'[Len(calls) + 1] = c
  BY <1>1 DEF Types, CallTypes
<1>3. Len(calls') <= scene'.calls
  BY <1>1, <1>2
<1>4. OneAction'
  <2>1. CASE c.busy
    <3>1. \A i \in DOMAIN calls : ~calls[i].busy
      BY <2>1 DEF Types, CallTypes, OneAction
    <3>2. \A i \in DOMAIN calls' : calls'[i].busy => i = Len(calls) + 1
      BY <1>1, <1>2, <3>1
    <3>3. Len(calls) + 1 \in DOMAIN calls'
      BY <1>1, <1>2
    <3> QED
      BY <1>2, <2>1, <3>2, <3>3 DEF OneAction
  <2>2. CASE ~c.busy
    <3>1. \A i \in DOMAIN calls' : calls'[i].busy => i \in DOMAIN calls
      BY <1>1, <1>2, <2>2
    <3>2. \A i \in DOMAIN calls : i \in DOMAIN calls'
      BY <1>1, <1>2
    <3> QED
      BY <1>2, <2>2, <3>1, <3>2 DEF Types, CallTypes, OneAction
  <2> QED
    BY <2>1, <2>2
<1> QED
  BY <1>2, <1>3, <1>4 DEF CallTypes

LEMMA AnsweredTypes ==
  ASSUME Types, NEW i \in DOMAIN calls, NEW x \in Proper, x.busy = calls[i].busy,
         calls' = [calls EXCEPT ![i] = x], UNCHANGED <<scene, busyDepth>>
  PROVE  CallTypes'
<1>1. Len(calls) \in Nat /\ DOMAIN calls = 1 .. Len(calls)
  BY CallFacts
<1>2. /\ calls' \in Seq(Proper) /\ Len(calls') = Len(calls) /\ DOMAIN calls' = DOMAIN calls
      /\ \A k \in DOMAIN calls : calls'[k].busy = calls[k].busy
  BY <1>1 DEF Types, CallTypes
<1> QED
  BY <1>2 DEF Types, CallTypes, OneAction


\* The reload that follows a request, and what it is.
Reload(c, then) == [NewCall(Head(then), c.job) EXCEPT !.busy = c.busy, !.then = Tail(then)]

LEMMA ReloadFacts ==
  ASSUME NEW c \in Call, NEW then \in Seq({"select", "list"}), then # <<>>
  PROVE  /\ Reload(c, then) \in Proper
         /\ Reload(c, then).kind = Head(then) /\ Head(then) \in {"select", "list"}
         /\ Reload(c, then).job = c.job /\ Reload(c, then).busy = c.busy
         /\ Reload(c, then).then = Tail(then)
         /\ ~Reload(c, then).answered /\ ~Reload(c, then).ok
<1>1. Head(then) \in {"select", "list"} /\ Tail(then) \in Seq({"select", "list"})
  OBVIOUS
<1>2. NewCall(Head(then), c.job) \in Call
  BY <1>1, NewCallTypes DEF Kinds, Call
<1>3. c.busy \in BOOLEAN
  BY DEF Call
<1> QED
  BY <1>1, <1>2, <1>3 DEF Reload, NewCall, Call, Proper, Acts

\* A request leaves; the others move up, and a reload may come last.
LEMMA Left ==
  ASSUME Types, NEW i \in DOMAIN calls, NEW then \in Seq({"select", "list"}), NEW selected,
         Continue(i, then, selected)
  PROVE  /\ calls' \in Seq(Proper)
         /\ \A k \in 1 .. Len(calls) - 1 : /\ k \in DOMAIN calls' /\ calls'[k] = calls[Old(i, k)]
                                           /\ Old(i, k) \in DOMAIN calls \ {i}
         /\ IF calls[i].ok /\ then # <<>>
            THEN /\ DOMAIN calls' = 1 .. Len(calls) /\ Len(calls') = Len(calls)
                 /\ calls'[Len(calls)] = Reload(calls[i], then)
                 /\ sel' = IF Head(then) = "select" THEN calls[i].job ELSE selected
                 /\ UNCHANGED busyDepth
            ELSE /\ DOMAIN calls' = 1 .. Len(calls) - 1 /\ Len(calls') = Len(calls) - 1
                 /\ sel' = selected
                 /\ busyDepth' = IF calls[i].busy THEN busyDepth - 1 ELSE busyDepth
         /\ \A k \in DOMAIN calls \ {i} : \E m \in 1 .. Len(calls) - 1 : Old(i, m) = k
         /\ calls[i].answered /\ (scene.ordered => i = 1)
         /\ UNCHANGED <<scene, failures, server, picked, shifted, lost>>
<1> DEFINE c == calls[i]
           others == [k \in 1 .. Len(calls) - 1 |-> IF k < i THEN calls[k] ELSE calls[k + 1]]
           more == c.ok /\ then # <<>>
<1>1. Len(calls) \in Nat /\ DOMAIN calls = 1 .. Len(calls) /\ c \in Call
  BY CallFacts
<1>2. Len(calls) - 1 \in Nat /\ i \in 1 .. Len(calls)
  BY <1>1
<1>3. /\ others \in Seq(Proper) /\ Len(others) = Len(calls) - 1
      /\ DOMAIN others = 1 .. Len(calls) - 1
  BY <1>1, <1>2 DEF Types, CallTypes
<1>4. \A k \in 1 .. Len(calls) - 1 : /\ others[k] = calls[Old(i, k)]
                                     /\ Old(i, k) \in DOMAIN calls \ {i}
  BY <1>1, <1>2 DEF Old
<1>5. /\ calls' = IF more THEN Append(others, Reload(c, then)) ELSE others
      /\ sel' = IF more /\ Head(then) = "select" THEN c.job ELSE selected
      /\ busyDepth' = IF ~more /\ c.busy THEN busyDepth - 1 ELSE busyDepth
      /\ c.answered /\ (scene.ordered => i = 1)
      /\ UNCHANGED <<scene, failures, server, picked, shifted, lost>>
  BY DEF Continue, Reload, Uncovers
<1>8. \A k \in DOMAIN calls \ {i} : \E m \in 1 .. Len(calls) - 1 : Old(i, m) = k
  <2>1. \A k \in 1 .. Len(calls) : k < i => k \in 1 .. Len(calls) - 1 /\ Old(i, k) = k
    BY <1>1, <1>2 DEF Old
  <2>2. \A k \in 1 .. Len(calls) : k > i => k - 1 \in 1 .. Len(calls) - 1 /\ Old(i, k - 1) = k
    BY <1>1, <1>2 DEF Old
  <2>3. \A k \in DOMAIN calls \ {i} : k \in 1 .. Len(calls) /\ (k < i \/ k > i)
    BY <1>1, <1>2
  <2> QED
    BY <2>1, <2>2, <2>3
<1> HIDE DEF others
<1>6. CASE more
  <2>1. Reload(c, then) \in Proper
    BY <1>1, <1>6, ReloadFacts
  <2>2. calls' = Append(others, Reload(c, then))
    BY <1>5, <1>6
  <2>3. /\ calls' \in Seq(Proper) /\ Len(calls') = Len(calls) /\ DOMAIN calls' = 1 .. Len(calls)
        /\ \A k \in 1 .. Len(calls) - 1 : calls'[k] = others[k]
        /\ calls'[Len(calls)] = Reload(c, then)
    BY <1>2, <1>3, <2>1, <2>2
  <2>4. \A k \in 1 .. Len(calls) - 1 : k \in DOMAIN calls'
    BY <1>2, <2>3
  <2> QED
    BY <1>4, <1>5, <1>6, <1>8, <2>3, <2>4
<1>7. CASE ~more
  BY <1>3, <1>4, <1>5, <1>7, <1>8
<1> QED
  BY <1>6, <1>7

\* The i-th request's successor in the overlay, if it was part of an action.
LEMMA ReturnedTypes ==
  ASSUME Types, NEW i \in DOMAIN calls, NEW then \in Seq({"select", "list"}),
         NEW selected \in Jobs \cup {NoJob}, Continue(i, then, selected)
  PROVE  CallTypes' /\ sel' \in Jobs \cup {NoJob}
<1> DEFINE c == calls[i]
           n == Len(calls)
           more == c.ok /\ then # <<>>
<1>1. n \in Nat /\ DOMAIN calls = 1 .. n /\ c \in Call /\ scene.calls \in Nat /\ i \in 1 .. n
  BY CallFacts
<1>2. /\ calls' \in Seq(Proper) /\ UNCHANGED scene
      /\ \A k \in 1 .. n - 1 : /\ k \in DOMAIN calls' /\ calls'[k] = calls[Old(i, k)]
                               /\ Old(i, k) \in DOMAIN calls \ {i}
  BY Left
<1>3. more => /\ DOMAIN calls' = 1 .. n /\ Len(calls') = n
              /\ calls'[n] = Reload(c, then) /\ UNCHANGED busyDepth
              /\ sel' \in {c.job, selected}
  BY Left
<1>4. ~more => /\ DOMAIN calls' = 1 .. n - 1 /\ Len(calls') = n - 1 /\ sel' = selected
               /\ busyDepth' = IF c.busy THEN busyDepth - 1 ELSE busyDepth
  BY Left
<1>5. Len(calls') <= scene'.calls /\ n <= scene.calls
  <2>1. n <= scene.calls
    BY DEF Types, CallTypes
  <2>2. Len(calls') = n \/ Len(calls') = n - 1
    BY <1>3, <1>4
  <2>3. scene'.calls = scene.calls
    BY <1>2
  <2>4. n \in Nat /\ scene.calls \in Nat
    BY <1>1
  <2> HIDE DEF n
  <2> QED
    BY <2>1, <2>2, <2>3, <2>4
<1>6. sel' \in Jobs \cup {NoJob}
  <2>1. c.job \in Jobs \cup {NoJob}
    BY <1>1 DEF Call
  <2> QED
    BY <1>3, <1>4, <2>1
<1>7. \A k, m \in 1 .. n - 1 : Old(i, k) = Old(i, m) => k = m
  BY <1>1 DEF Old
<1>8. \A k \in DOMAIN calls \ {i} : \E m \in 1 .. n - 1 : Old(i, m) = k
  BY Left
<1> DEFINE Covers == \E k \in DOMAIN calls : calls[k].busy
<1>9. c.busy => /\ busyDepth = 1
                /\ \A k \in DOMAIN calls \ {i} : ~calls[k].busy
  BY DEF Types, CallTypes, OneAction
<1>10. OneAction'
  <2>1. CASE more
    <3>1. calls'[n].busy = c.busy
      BY <1>1, <1>3, <2>1, ReloadFacts
    <3>2. \A k \in DOMAIN calls' : k = n \/ k \in 1 .. n - 1
      BY <1>1, <1>3, <2>1
    <3>3. n \in DOMAIN calls'
      BY <1>1, <1>3, <2>1
    <3>4. CASE c.busy
      <4>1. \A k \in DOMAIN calls' : calls'[k].busy => k = n
        BY <1>2, <1>9, <3>2, <3>4
      <4> QED
        BY <1>3, <1>9, <2>1, <3>1, <3>3, <3>4, <4>1 DEF OneAction
    <3>5. CASE ~c.busy
      <4>1. \A k \in DOMAIN calls' : calls'[k].busy => k \in 1 .. n - 1
        BY <3>1, <3>2, <3>5
      <4>2. \A k, m \in DOMAIN calls' : calls'[k].busy /\ calls'[m].busy => k = m
        BY <1>2, <1>7, <4>1 DEF Types, CallTypes, OneAction
      <4>3. (\E k \in DOMAIN calls' : calls'[k].busy) <=> Covers
        BY <1>2, <1>8, <3>5, <4>1
      <4> QED
        BY <1>3, <2>1, <4>2, <4>3 DEF Types, CallTypes, OneAction
    <3> QED
      BY <3>4, <3>5
  <2>2. CASE ~more
    <3>1. \A k \in DOMAIN calls' : k \in 1 .. n - 1
      BY <1>4, <2>2
    <3>2. CASE c.busy
      <4>1. \A k \in DOMAIN calls' : ~calls'[k].busy
        BY <1>2, <1>9, <3>1, <3>2
      <4>2. busyDepth' = 0
        BY <1>4, <1>9, <2>2, <3>2
      <4> QED
        BY <4>1, <4>2 DEF OneAction
    <3>3. CASE ~c.busy
      <4>1. \A k, m \in DOMAIN calls' : calls'[k].busy /\ calls'[m].busy => k = m
        BY <1>2, <1>7, <3>1 DEF Types, CallTypes, OneAction
      <4>2. (\E k \in DOMAIN calls' : calls'[k].busy) <=> Covers
        BY <1>2, <1>8, <3>1, <3>3
      <4> QED
        BY <1>4, <2>2, <3>3, <4>1, <4>2 DEF Types, CallTypes, OneAction
    <3> QED
      BY <3>2, <3>3
  <2> QED
    BY <2>1, <2>2
<1> QED
  BY <1>2, <1>5, <1>6, <1>10 DEF CallTypes


-------------------------------------------------------------------------------
(* Steps keep the types *)

\* A click reaches what is on top, with nothing under the overlay.
LEMMA ClickFacts ==
  ASSUME Types, NEW event, NEW inViewer, Clicks(event, inViewer)
  PROVE  /\ event \in scene.does
         /\ busyDepth = 0 /\ \A i \in DOMAIN calls : ~calls[i].busy
         /\ Len(calls) < scene.calls
         /\ (viewer # NoViewer) = inViewer
         /\ ServerTypes'
         /\ UNCHANGED <<scene, failures, server>>
<1>1. UNCHANGED <<scene, failures, server>>
  BY DEF Clicks
<1>2. ServerTypes'
  BY <1>1 DEF Types, ServerTypes
<1> QED
  BY <1>1, <1>2 DEF Clicks, Types, CallTypes, OneAction

\* Requests as the clicks make them.
LEMMA Sends ==
  ASSUME Types, NEW event, NEW inViewer, Clicks(event, inViewer), NEW c \in Call, ~c.ok
  PROVE  /\ c.kind \notin Acts /\ ~c.busy /\ Send(c) /\ UNCHANGED busyDepth => CallTypes'
         /\ SendBusy(c) => CallTypes'
<1>1. /\ busyDepth = 0 /\ Len(calls) < scene.calls /\ UNCHANGED scene
  BY ClickFacts
<1>2. ASSUME c.kind \notin Acts, ~c.busy, Send(c), UNCHANGED busyDepth PROVE CallTypes'
  <2>1. c \in Proper
    BY <1>2 DEF Proper
  <2> QED
    BY <1>1, <1>2, <2>1, SentTypes DEF Send
<1>3. ASSUME SendBusy(c) PROVE CallTypes'
  <2> DEFINE d == [c EXCEPT !.busy = TRUE]
  <2>1. d \in Proper /\ d.busy
    BY DEF Proper, Call
  <2>2. calls' = Append(calls, d) /\ busyDepth' = 1
    BY <1>1, <1>3 DEF SendBusy, Send, Covered
  <2> HIDE DEF d
  <2> QED
    BY <1>1, <2>1, <2>2, SentTypes
<1> QED
  BY <1>2, <1>3

LEMMA Unpicked ==
  ASSUME Types, UNCHANGED selection
  PROVE  PickTypes'
BY DEF Types, PickTypes, selection

LEMMA UnpagedTypes ==
  ASSUME Types, UNCHANGED <<page, progress>>
  PROVE  PageTypes'
BY DEF Types, PageTypes, page, progress

\* Clicks that send a request and change nothing on the page.
LEMMA RequestTypes ==
  ASSUME Types, RenameJob \/ CommitReorder \/ DeleteJob \/ EditCurrentPage
                \/ DeleteCurrentPage \/ Combine
  PROVE  Types'
<1>1. UNCHANGED <<page, progress, selection>>
  BY DEF RenameJob, CommitReorder, DeleteJob, EditCurrentPage, DeleteCurrentPage, Combine
<1>2. PageTypes' /\ PickTypes'
  BY <1>1, Unpicked, UnpagedTypes
<1>3. sel \in Jobs \cup {NoJob} /\ viewer \in Viewer
  BY DEF Types, PageTypes
<1>4. CASE RenameJob
  <2> DEFINE c == [NewCall("rename", sel) EXCEPT !.then = <<"list">>]
  <2>1. NewCall("rename", sel) \in Call
    BY <1>3, NewCallTypes DEF Kinds
  <2>2. c \in Call /\ ~c.ok /\ c.kind = "rename" /\ ~c.busy
    BY <2>1, Reloads DEF Call, NewCall
  <2>3. Clicks("rename", FALSE) /\ Send(c) /\ UNCHANGED busyDepth
    BY <1>4 DEF RenameJob
  <2> HIDE DEF c
  <2>4. CallTypes' /\ ServerTypes'
    BY <2>2, <2>3, Sends, ClickFacts DEF Acts
  <2> QED
    BY <1>2, <2>4 DEF Types
<1>5. CASE CommitReorder
  <2> DEFINE c == [NewCall("reorder", sel) EXCEPT !.then = <<"select">>]
  <2>1. NewCall("reorder", sel) \in Call
    BY <1>3, NewCallTypes DEF Kinds
  <2>2. c \in Call /\ ~c.ok
    BY <2>1, Reloads DEF Call, NewCall
  <2>3. Clicks("reorder", FALSE) /\ SendBusy(c)
    BY <1>5 DEF CommitReorder
  <2> HIDE DEF c
  <2>4. CallTypes' /\ ServerTypes'
    BY <2>2, <2>3, Sends, ClickFacts
  <2> QED
    BY <1>2, <2>4 DEF Types
<1>6. CASE DeleteJob
  <2> DEFINE c == [NewCall("deleteJob", sel) EXCEPT !.then = <<"list">>]
  <2>1. NewCall("deleteJob", sel) \in Call
    BY <1>3, NewCallTypes DEF Kinds
  <2>2. c \in Call /\ ~c.ok
    BY <2>1, Reloads DEF Call, NewCall
  <2>3. Clicks("deleteJob", FALSE) /\ SendBusy(c)
    BY <1>6 DEF DeleteJob
  <2> HIDE DEF c
  <2>4. CallTypes' /\ ServerTypes'
    BY <2>2, <2>3, Sends, ClickFacts
  <2> QED
    BY <1>2, <2>4 DEF Types
<1>7. ASSUME NEW kind \in {"edit", "deletePage"}
      PROVE  ViewerCall(kind) \in Call /\ ~ViewerCall(kind).ok
  <2>1. NewCall(kind, viewer.job) \in Call /\ ~NewCall(kind, viewer.job).ok
    BY <1>3, NewCallTypes DEF Kinds, Viewer, NewCall
  <2>2. /\ viewer.page \in 0 .. MaxPages /\ viewer.img \in Images
        /\ (viewer.phase = "deleted") \in BOOLEAN
    BY <1>3 DEF Viewer
  <2> QED
    BY <2>1, <2>2 DEF ViewerCall, Call
<1>8. CASE EditCurrentPage
  <2> DEFINE c == [ViewerCall("edit") EXCEPT !.then = <<"select">>]
  <2>1. ViewerCall("edit") \in Call /\ ~ViewerCall("edit").ok
    BY <1>7
  <2>2. c \in Call /\ ~c.ok
    BY <2>1, Reloads DEF Call
  <2>3. Clicks("edit", TRUE) /\ SendBusy(c)
    BY <1>8 DEF EditCurrentPage
  <2> HIDE DEF c
  <2>4. CallTypes' /\ ServerTypes'
    BY <2>2, <2>3, Sends, ClickFacts
  <2> QED
    BY <1>2, <2>4 DEF Types
<1>9. CASE DeleteCurrentPage
  <2> DEFINE c == [ViewerCall("deletePage") EXCEPT !.then = <<"select", "list">>]
  <2>1. ViewerCall("deletePage") \in Call /\ ~ViewerCall("deletePage").ok
    BY <1>7
  <2>2. c \in Call /\ ~c.ok
    BY <2>1, Reloads DEF Call
  <2>3. Clicks("deletePage", TRUE) /\ SendBusy(c)
    BY <1>9 DEF DeleteCurrentPage
  <2> HIDE DEF c
  <2>4. CallTypes' /\ ServerTypes'
    BY <2>2, <2>3, Sends, ClickFacts
  <2> QED
    BY <1>2, <2>4 DEF Types
<1>10. CASE Combine
  <2>1. PICK keys \in {combined, {<<shown.job, n>> : n \in 1 .. shown.count}} :
          SendBusy([NewCall("combine", NoJob) EXCEPT !.keys = keys])
    BY <1>10 DEF Combine
  <2>2. {<<shown.job, n>> : n \in 1 .. shown.count} \subseteq Keys
    <3>1. shown.count \in 0 .. MaxPages /\ (shown.count > 0 => shown.job \in Jobs)
      BY DEF Types, PageTypes, Grid
    <3>2. \A n \in 1 .. shown.count : n \in Numbers /\ shown.job \in Jobs
      BY <3>1, BoundAssumption DEF Numbers
    <3> QED
      BY <3>2 DEF Keys
  <2>3. keys \subseteq Keys
    BY <2>1, <2>2 DEF Types, PickTypes
  <2> DEFINE c == [NewCall("combine", NoJob) EXCEPT !.keys = keys]
  <2>4. NewCall("combine", NoJob) \in Call
    BY NewCallTypes DEF Kinds
  <2>5. c \in Call /\ ~c.ok
    BY <2>3, <2>4 DEF Call, NewCall
  <2>6. Clicks("combine", FALSE) /\ SendBusy(c)
    BY <1>10, <2>1 DEF Combine
  <2> HIDE DEF c
  <2>7. CallTypes' /\ ServerTypes'
    BY <2>5, <2>6, Sends, ClickFacts
  <2> QED
    BY <1>2, <2>7 DEF Types
<1> QED
  BY <1>4, <1>5, <1>6, <1>8, <1>9, <1>10


\* The thumbnails are of pages, whichever images they show.
LEMMA ImageTypes ==
  ASSUME Types, NEW j \in Jobs, NEW n \in Nat
  PROVE  ImageAt(j, n) \in Images
<1>1. server[j].pages \in Seq(Keys)
  BY DEF Types, ServerTypes, Scan
<1> QED
  BY <1>1 DEF ImageAt, Images

LEMMA RenderedTypes ==
  ASSUME Types, NEW j \in Jobs \cup {NoJob}, NEW count \in 0 .. MaxPages,
         count > 0 => j \in Jobs, NEW grid \in Rendered(j, count)
  PROVE  /\ grid \in Grid /\ grid.job = j /\ grid.count = count
         /\ (grid.count > 0 => grid.job \in Jobs)
<1> DEFINE loaded == [n \in Numbers |-> IF n <= count THEN ImageAt(j, n) ELSE NoImage]
<1>1. loaded \in [Numbers -> Images]
  <2>1. ASSUME NEW n \in Numbers
        PROVE  (IF n <= count THEN ImageAt(j, n) ELSE NoImage) \in Images
    <3>1. n \in Nat /\ n > 0 /\ NoImage \in Images
      BY BoundAssumption, EmptyTypes DEF Numbers
    <3>2. n <= count => j \in Jobs
      BY <3>1, BoundAssumption
    <3> QED
      BY <3>1, <3>2, ImageTypes
  <2> QED
    BY <2>1
<1>2. shown.imgs \in [Numbers -> Images]
  BY DEF Types, PageTypes, Grid
<1>3. Outdated(j) \in BOOLEAN
  BY DEF Outdated
<1>4. \E imgs \in {loaded, shown.imgs} :
        grid = [job |-> j, count |-> count, imgs |-> imgs, stale |-> Outdated(j)]
  BY DEF Rendered
<1> HIDE DEF loaded
<1> QED
  BY <1>1, <1>2, <1>3, <1>4 DEF Grid

\* Clicks that change the page, the interval, and what the browser does by itself.
LEMMA PageClickTypes ==
  ASSUME Types, \/ \E j \in Jobs : SelectJob(j)
                \/ \E n \in Numbers : OpenPageViewer(n)
                \/ CloseViewer \/ Browser \/ StartScan \/ Tick
  PROVE  Types'
<1>1. CASE \E j \in Jobs : SelectJob(j)
  <2>1. PICK j \in Jobs : SelectJob(j)
    BY <1>1
  <2> DEFINE c == NewCall("select", j)
  <2>2. c \in Call /\ ~c.ok /\ c.kind = "select" /\ ~c.busy
    BY NewCallTypes DEF Kinds, NewCall
  <2>3. /\ Clicks("select", FALSE) /\ Send(c) /\ UNCHANGED busyDepth /\ sel' = j
        /\ UNCHANGED <<listed, shown, viewer, selection, progress>>
    BY <2>1 DEF SelectJob
  <2> HIDE DEF c
  <2>4. CallTypes' /\ ServerTypes'
    BY <2>2, <2>3, Sends, ClickFacts DEF Acts
  <2>5. PageTypes' /\ PickTypes'
    BY <2>3, Unpicked DEF Types, PageTypes, progress
  <2> QED
    BY <2>4, <2>5 DEF Types
<1>2. CASE \E n \in Numbers : OpenPageViewer(n)
  <2>1. PICK n \in Numbers : OpenPageViewer(n)
    BY <1>2
  <2>2. /\ Clicks("open", FALSE) /\ n \in 1 .. shown.count
        /\ viewer' = [job |-> shown.job, page |-> n, img |-> ImageAt(shown.job, n),
                      phase |-> "open"]
        /\ UNCHANGED <<calls, listed, sel, shown, busyDepth, selection, progress>>
    BY <2>1 DEF OpenPageViewer
  <2>3. shown.job \in Jobs
    BY <2>2 DEF Types, PageTypes, Grid
  <2>4. ImageAt(shown.job, n) \in Images
    BY <2>3, ImageTypes, BoundAssumption DEF Numbers
  <2>5. viewer' \in Viewer /\ viewer'.job \in Jobs /\ viewer'.page \in Numbers
    BY <2>2, <2>3, <2>4, BoundAssumption DEF Viewer, Numbers
  <2>6. CallTypes' /\ ServerTypes'
    BY <2>2, ClickFacts DEF Types, CallTypes, OneAction
  <2>7. PageTypes' /\ PickTypes'
    BY <2>2, <2>5, Unpicked DEF Types, PageTypes, progress
  <2> QED
    BY <2>6, <2>7 DEF Types
<1>3. CASE CloseViewer
  <2>1. /\ Clicks("open", TRUE) /\ viewer' = [viewer EXCEPT !.phase = "closed"]
        /\ UNCHANGED <<calls, listed, sel, shown, busyDepth, selection, progress>>
    BY <1>3 DEF CloseViewer
  <2>2. CallTypes' /\ ServerTypes' /\ viewer # NoViewer
    BY <2>1, ClickFacts DEF Types, CallTypes, OneAction
  <2>3. viewer' \in Viewer /\ viewer'.job \in Jobs /\ viewer'.page \in Numbers
    BY <2>1, <2>2 DEF Types, PageTypes, Viewer
  <2>4. PageTypes' /\ PickTypes'
    BY <2>1, <2>3, Unpicked DEF Types, PageTypes, progress
  <2> QED
    BY <2>2, <2>4 DEF Types
<1>4. CASE StartScan
  <2> DEFINE c == NewCall("start", NoJob)
  <2>1. c \in Call /\ ~c.ok /\ c.kind = "start" /\ ~c.busy
    BY NewCallTypes DEF Kinds, NewCall
  <2>2. /\ Clicks("start", FALSE) /\ Send(c) /\ UNCHANGED busyDepth /\ scanning' = TRUE
        /\ UNCHANGED <<page, selection, timer>>
    BY <1>4 DEF StartScan
  <2> HIDE DEF c
  <2>3. CallTypes' /\ ServerTypes'
    BY <2>1, <2>2, Sends, ClickFacts DEF Acts
  <2>4. PageTypes' /\ PickTypes'
    BY <2>2, Unpicked DEF Types, PageTypes, page
  <2> QED
    BY <2>3, <2>4 DEF Types
<1>5. CASE Tick
  <2> DEFINE c == NewCall("poll", timer)
  <2>1. timer \in Jobs \cup {NoJob}
    BY DEF Types, PageTypes
  <2>2. c \in Call /\ ~c.ok /\ c.kind = "poll" /\ ~c.busy
    BY <2>1, NewCallTypes DEF Kinds, NewCall
  <2>3. c \in Proper
    BY <2>2 DEF Proper, Acts
  <2>4. /\ calls' = Append(calls, c) /\ Len(calls) < scene.calls
        /\ UNCHANGED <<scene, failures, server, busyDepth>>
        /\ UNCHANGED <<page, selection, progress>>
    BY <1>5 DEF Tick, Send
  <2> HIDE DEF c
  <2>5. CallTypes'
    BY <2>2, <2>3, <2>4, SentTypes
  <2>6. ServerTypes'
    BY <2>4 DEF Types, ServerTypes
  <2>7. PageTypes' /\ PickTypes'
    BY <2>4, Unpicked, UnpagedTypes
  <2> QED
    BY <2>5, <2>6, <2>7 DEF Types
<1>6. CASE Browser
  <2>1. UNCHANGED <<scene, failures, server, calls, listed, sel, busyDepth, selection, progress>>
    BY <1>6 DEF Browser, DragEnds, ViewerHidden
  <2>2. shown.job \in Jobs \cup {NoJob} /\ shown.count \in 0 .. MaxPages
        /\ (shown.count > 0 => shown.job \in Jobs)
    BY DEF Types, PageTypes, Grid
  <2>3. \/ shown' \in Rendered(shown.job, shown.count) /\ viewer' = viewer
        \/ shown' = shown /\ viewer' = NoViewer
    BY <1>6 DEF Browser, DragEnds, ViewerHidden
  <2>4. shown' \in Grid /\ (shown'.count > 0 => shown'.job \in Jobs)
    BY <2>2, <2>3, RenderedTypes DEF Types, PageTypes
  <2>5. viewer' \in Viewer /\ (viewer' # NoViewer => viewer'.job \in Jobs /\ viewer'.page \in Numbers)
    BY <2>3, EmptyTypes DEF Types, PageTypes
  <2>6. CallTypes' /\ ServerTypes' /\ PickTypes'
    BY <2>1, Unpicked DEF Types, CallTypes, OneAction, ServerTypes
  <2>7. PageTypes'
    BY <2>1, <2>4, <2>5 DEF Types, PageTypes, progress
  <2> QED
    BY <2>6, <2>7 DEF Types
<1> QED
  BY <1>1, <1>2, <1>3, <1>4, <1>5, <1>6

\* Picking pages.
LEMMA ToggleTypes ==
  ASSUME Types, NEW k \in Keys, NEW img \in Images, NEW stale, Toggle(k, img, stale)
  PROVE  PickTypes'
BY DEF Types, PickTypes, Toggle, Without, Images

LEMMA PickClickTypes ==
  ASSUME Types, \/ \E n \in Numbers : ToggleCombine(n)
                \/ ToggleViewed \/ RemoveFromCombine
  PROVE  Types'
<1>1. ASSUME NEW k \in Keys, NEW img \in Images, NEW stale, Toggle(k, img, stale),
             NEW inViewer, Clicks("toggle", inViewer)
      PROVE  Types'
  <2>1. PickTypes'
    BY <1>1, ToggleTypes
  <2>2. /\ UNCHANGED <<calls, listed, sel, viewer, busyDepth, progress>>
        /\ shown' \in Rendered(shown.job, shown.count)
    BY <1>1 DEF Toggle
  <2>3. CallTypes' /\ ServerTypes'
    BY <1>1, <2>2, ClickFacts DEF Types, CallTypes, OneAction
  <2>4. shown' \in Grid /\ (shown'.count > 0 => shown'.job \in Jobs)
    BY <2>2, RenderedTypes DEF Types, PageTypes, Grid
  <2>5. PageTypes'
    BY <2>2, <2>4 DEF Types, PageTypes, progress
  <2> QED
    BY <2>1, <2>3, <2>5 DEF Types
<1>2. ASSUME NEW n \in Numbers, ToggleCombine(n) PROVE Types'
  <2>1. Clicks("toggle", FALSE) /\ Toggle(<<shown.job, n>>, shown.imgs[n], shown.stale)
        /\ n \in 1 .. shown.count
    BY <1>2 DEF ToggleCombine
  <2>2. shown.job \in Jobs
    BY <2>1 DEF Types, PageTypes, Grid
  <2>3. <<shown.job, n>> \in Keys
    BY <2>2 DEF Keys
  <2>4. shown.imgs[n] \in Images
    BY DEF Types, PageTypes, Grid
  <2> QED
    BY <1>1, <2>1, <2>3, <2>4
<1>3. ASSUME ToggleViewed PROVE Types'
  <2>1. Clicks("toggle", TRUE) /\ Toggle(<<viewer.job, viewer.page>>, viewer.img, viewer.phase = "deleted")
    BY <1>3 DEF ToggleViewed
  <2>2. viewer # NoViewer
    BY <2>1 DEF Clicks
  <2>3. <<viewer.job, viewer.page>> \in Keys /\ viewer.img \in Images
    BY <2>2 DEF Types, PageTypes, Viewer, Keys
  <2> QED
    BY <1>1, <2>1, <2>3
<1>4. ASSUME RemoveFromCombine PROVE Types'
  <2>1. PICK k \in combined : Clicks("toggle", FALSE) /\ Toggle(k, NoImage, FALSE)
    BY <1>4 DEF RemoveFromCombine
  <2>2. k \in Keys /\ NoImage \in Images
    BY DEF Types, PickTypes, Images
  <2> QED
    BY <1>1, <2>1, <2>2
<1> QED
  BY <1>2, <1>3, <1>4


\* The server: the pages of each scan are as many as there are numbers, and a
\* scan that is not there has none.
LEMMA EffectTypes ==
  ASSUME Types, NEW i \in DOMAIN calls, Granted(calls[i]), NEW after \in Effects(calls[i])
  PROVE  /\ after \in [Jobs -> Scan]
         /\ \A j \in Jobs : /\ Len(after[j].pages) <= MaxPages
                            /\ after[j].status \in {"none", "gone"} => after[j].pages = <<>>
<1> DEFINE c == calls[i]
<1>1. c \in Call
  BY CallFacts
<1>2. after \in [Jobs -> Scan]
  BY EffectsOK DEF Types, ServerTypes
<1>3. \A j \in Jobs : /\ server[j].pages \in Seq(Keys) /\ server[j].status \in {"none", "running", "over", "gone"}
                      /\ Len(server[j].pages) <= MaxPages
                      /\ server[j].status \in {"none", "gone"} => server[j].pages = <<>>
  BY DEF Types, ServerTypes, Scan
<1>4. server \in [Jobs -> Scan]
  BY DEF Types, ServerTypes
<1>5. CASE c.kind = "start"
  <2>1. PICK k \in Jobs : /\ server[k].status = "none"
                          /\ after = [server EXCEPT ![k].status = "running"]
    BY <1>5 DEF Effects
  <2>2. \A j \in Jobs : after[j].pages = server[j].pages
    BY <1>4, <2>1 DEF Scan
  <2>3. \A j \in Jobs : j # k => after[j] = server[j]
    BY <1>4, <2>1
  <2>4. after[k].status = "running"
    BY <1>4, <2>1 DEF Scan
  <2> QED
    BY <1>2, <1>3, <2>2, <2>3, <2>4
<1>6. CASE c.kind = "deletePage"
  <2> DEFINE pages == server[c.job].pages
  <2>1. c.job \in Jobs /\ c.page \in DOMAIN pages
        /\ server[c.job].status \in {"running", "over"}
    BY <1>6 DEF Granted, ImageAt, There
  <2>2. after = [server EXCEPT ![c.job].pages = Renumbered(@, c.page)]
    BY <1>6 DEF Effects
  <2>3. Len(pages) - 1 \in Nat
    BY <1>3, <2>1
  <2>4. Len(Renumbered(pages, c.page)) = Len(pages) - 1
    BY <2>3 DEF Renumbered
  <2>5. /\ after[c.job].pages = Renumbered(pages, c.page)
        /\ after[c.job].status = server[c.job].status
        /\ \A j \in Jobs : j # c.job => after[j] = server[j]
    BY <1>4, <2>1, <2>2 DEF Scan
  <2>6. Len(pages) - 1 <= MaxPages
    BY <1>3, <2>1, <2>3, BoundAssumption
  <2>7. \A j \in Jobs : Len(after[j].pages) <= MaxPages
    BY <1>3, <2>4, <2>5, <2>6
  <2> QED
    BY <1>2, <1>3, <2>1, <2>5, <2>7
<1>7. CASE c.kind = "deleteJob"
  <2>1. after = [server EXCEPT ![c.job] = [status |-> "gone", pages |-> <<>>]]
    BY <1>7 DEF Effects
  <2>2. c.job \in Jobs
    BY <1>7 DEF Granted, There
  <2>3. /\ after[c.job].pages = <<>>
        /\ \A j \in Jobs : j # c.job => after[j] = server[j]
    BY <1>4, <2>1, <2>2
  <2>4. Len(<<>>) <= MaxPages
    BY BoundAssumption
  <2> QED
    BY <1>2, <1>3, <2>3, <2>4
<1>8. CASE c.kind \notin {"start", "deletePage", "deleteJob"}
  <2>1. after = server
    BY <1>8 DEF Effects
  <2> QED
    BY <1>2, <1>3, <2>1
<1> QED
  BY <1>5, <1>6, <1>7, <1>8

LEMMA ReplyTypes ==
  ASSUME Types, NEW i \in DOMAIN calls, Granted(calls[i]), NEW after \in Effects(calls[i])
  PROVE  /\ Reply(calls[i], after) \in Proper
         /\ Reply(calls[i], after).busy = calls[i].busy
<1> DEFINE c == calls[i]
           x == Reply(c, after)
           job == IF c.kind = "start"
                  THEN CHOOSE j \in Jobs : after[j].status # server[j].status ELSE c.job
           count == IF There(c.job) THEN Len(server[c.job].pages) ELSE 0
           over == There(c.job) /\ server[c.job].status = "over"
           jobs == {j \in Jobs : There(j)}
<1>1. c \in Call /\ (c.kind \in Acts => c.busy)
  BY CallFacts DEF Proper
<1>2. c.kind = "start" => \E j \in Jobs : after[j].status # server[j].status
  BY EffectsOK DEF Types, ServerTypes
<1>3. /\ c.kind = "start" => job \in Jobs
      /\ c.kind # "start" => job = c.job
  BY <1>2
<1>4. c.kind = "select" => c.job \in Jobs
  BY DEF Granted, There
<1>5. job \in Jobs \cup {NoJob}
  BY <1>1, <1>3 DEF Call
<1>6. count \in 0 .. MaxPages
  <2>1. ASSUME There(c.job) PROVE Len(server[c.job].pages) \in 0 .. MaxPages
    <3>1. c.job \in Jobs
      BY <2>1 DEF There
    <3>2. server[c.job].pages \in Seq(Keys) /\ Len(server[c.job].pages) <= MaxPages
      BY <3>1 DEF Types, ServerTypes, Scan
    <3> QED
      BY <3>2, BoundAssumption
  <2> QED
    BY <2>1, BoundAssumption
<1>7. over \in BOOLEAN /\ jobs \subseteq Jobs
  BY DEF There
<1>8. x = [c EXCEPT !.answered = TRUE, !.ok = TRUE, !.job = job, !.count = count, !.over = over,
                    !.jobs = jobs]
  BY <1>1 DEF Reply, Call
<1> HIDE DEF job, count, over, jobs
<1>9. x \in Call /\ x.kind = c.kind /\ x.busy = c.busy /\ x.answered /\ x.job = job
  BY <1>1, <1>5, <1>6, <1>7, <1>8 DEF Call
<1> QED
  BY <1>1, <1>3, <1>4, <1>9 DEF Proper

LEMMA AnswerTypes ==
  ASSUME Types, NEW i \in DOMAIN calls, Answer(i)
  PROVE  Types'
<1> DEFINE c == calls[i]
           Refused == [c EXCEPT !.answered = TRUE]
<1>1. UNCHANGED <<scene, listed, sel, viewer, progress, combined, picked, busyDepth>> /\ ~c.answered
  BY DEF Answer
<1>2. c \in Proper /\ c \in Call
  BY CallFacts
<1>7. PageTypes'
  <2>1. shown' = shown \/ shown' = [shown EXCEPT !.stale = TRUE]
    BY DEF Answer, Outdates
  <2>2. shown' \in Grid /\ (shown'.count > 0 => shown'.job \in Jobs)
    BY <2>1 DEF Types, PageTypes, Grid
  <2> QED
    BY <1>1, <2>2 DEF Types, PageTypes, progress
<1>3. Refused \in Proper /\ Refused.busy = c.busy
  BY <1>2 DEF Proper, Call
<1> HIDE DEF Refused
<1>4. CallTypes'
  <2>1. CASE calls' = [calls EXCEPT ![i] = Refused]
    BY <1>1, <1>3, <2>1, AnsweredTypes
  <2>2. ASSUME NEW after \in Effects(c), Granted(c), calls' = [calls EXCEPT ![i] = Reply(c, after)]
        PROVE  CallTypes'
    <3>1. Reply(c, after) \in Proper /\ Reply(c, after).busy = c.busy
      BY <2>2, ReplyTypes
    <3> QED
      BY <1>1, <2>2, <3>1, AnsweredTypes
  <2> QED
    BY <2>1, <2>2 DEF Answer, Refused
<1>5. ServerTypes'
  <2>1. \/ UNCHANGED server
        \/ Granted(c) /\ server' \in Effects(c)
    BY DEF Answer
  <2>2. /\ server' \in [Jobs -> Scan]
        /\ \A j \in Jobs : /\ Len(server'[j].pages) <= MaxPages
                           /\ server'[j].status \in {"none", "gone"} => server'[j].pages = <<>>
    BY <2>1, EffectTypes DEF Types, ServerTypes
  <2>3. failures' \in 0 .. scene.failures
    <3>1. failures' = failures \/ (failures > 0 /\ failures' = failures - 1)
      BY DEF Answer
    <3>2. failures \in 0 .. scene.failures /\ scene.failures \in Nat
      BY CallFacts DEF Types, ServerTypes
    <3> QED
      BY <3>1, <3>2
  <2> QED
    BY <1>1, <2>2, <2>3 DEF Types, ServerTypes
<1>6. PickTypes'
  <2>1. Shifts(c) \subseteq Keys
    BY DEF Shifts, Types, PickTypes
  <2>2. shifted' \subseteq Keys
    BY <2>1 DEF Answer, Types, PickTypes
  <2>3. lost' \subseteq Jobs
    <3>1. lost' = lost \/ (Granted(c) /\ c.kind = "deletePage" /\ lost' = lost \cup {c.job})
      BY DEF Answer
    <3>2. Granted(c) /\ c.kind = "deletePage" => c.job \in Jobs
      BY DEF Granted, ImageAt, There
    <3> QED
      BY <3>1, <3>2 DEF Types, PickTypes
  <2> QED
    BY <1>1, <2>2, <2>3 DEF Types, PickTypes
<1> QED
  BY <1>4, <1>5, <1>6, <1>7 DEF Types


LEMMA ServerScansTypes ==
  ASSUME Types, ServerScans
  PROVE  Types'
<1>1. /\ UNCHANGED <<scene, failures, calls, busyDepth>>
      /\ UNCHANGED <<page, selection, progress>>
  BY DEF ServerScans
<1>2. PICK j \in Jobs :
        /\ server[j].status = "running"
        /\ server' = [server EXCEPT ![j] =
                     IF Len(server[j].pages) < MaxPages
                     THEN [server[j] EXCEPT !.pages = Append(server[j].pages,
                                                             <<j, Len(server[j].pages) + 1>>)]
                     ELSE [server[j] EXCEPT !.status = "over"]]
  BY DEF ServerScans
<1> DEFINE pages == server[j].pages
           more == Append(pages, <<j, Len(pages) + 1>>)
<1>3. server \in [Jobs -> Scan] /\ server[j] \in Scan /\ pages \in Seq(Keys)
  BY DEF Types, ServerTypes, Scan
<1>4. /\ server'[j].status \in {"running", "over"}
      /\ server'[j].pages = IF Len(pages) < MaxPages THEN more ELSE pages
      /\ \A k \in Jobs \ {j} : server'[k] = server[k]
      /\ server' \in [Jobs -> [status : {"none", "running", "over", "gone"},
                               pages : {server'[j].pages} \cup Seq(Keys)]]
  BY <1>2, <1>3 DEF Scan
<1>5. server'[j].pages \in Seq(Keys) /\ Len(server'[j].pages) <= MaxPages
  <2>1. CASE Len(pages) < MaxPages
    <3>1. Len(pages) + 1 \in Numbers
      BY <1>3, <2>1, BoundAssumption DEF Numbers
    <3>2. more \in Seq(Keys) /\ Len(more) = Len(pages) + 1
      BY <1>3, <3>1 DEF Keys
    <3> HIDE DEF more
    <3> QED
      BY <1>3, <1>4, <2>1, <3>2, BoundAssumption
  <2>2. CASE ~(Len(pages) < MaxPages)
    BY <1>3, <1>4, <2>2 DEF Types, ServerTypes
  <2> QED
    BY <2>1, <2>2
<1>6. server' \in [Jobs -> Scan]
  BY <1>4, <1>5 DEF Scan
<1>7. ServerTypes'
  BY <1>1, <1>4, <1>5, <1>6 DEF Types, ServerTypes
<1>8. CallTypes' /\ PageTypes' /\ PickTypes'
  BY <1>1, Unpicked, UnpagedTypes DEF Types, CallTypes, OneAction
<1> QED
  BY <1>7, <1>8 DEF Types

LEMMA ReturnTypes ==
  ASSUME Types, NEW i \in DOMAIN calls, Return(i)
  PROVE  Types'
<1> DEFINE c == calls[i]
<1>1. c \in Proper /\ c \in Call
  BY CallFacts
<1>2. /\ c.then \in Seq({"select", "list"}) /\ c.job \in Jobs \cup {NoJob}
      /\ c.count \in 0 .. MaxPages /\ c.jobs \subseteq Jobs
      /\ c.ok \in BOOLEAN /\ c.over \in BOOLEAN
      /\ (c.kind \in {"select", "start"} /\ c.ok => c.job \in Jobs)
  BY <1>1 DEF Call, Proper
<1>3. ASSUME NEW then \in Seq({"select", "list"}), NEW selected \in Jobs \cup {NoJob},
             Continue(i, then, selected)
      PROVE  /\ CallTypes' /\ ServerTypes' /\ sel' \in Jobs \cup {NoJob}
             /\ UNCHANGED <<picked, shifted, lost>>
  <2>1. UNCHANGED <<scene, failures, server, picked, shifted, lost>>
    BY <1>3 DEF Continue
  <2> QED
    BY <1>3, <2>1, ReturnedTypes DEF Types, ServerTypes
<1>4. sel \in Jobs \cup {NoJob} /\ NoJob \in Jobs \cup {NoJob}
  BY DEF Types, PageTypes
<1>5. CASE EditReturns(i)
  <2>1. Continue(i, c.then, sel) /\ UNCHANGED <<listed, shown, combined, viewer, progress>>
    BY <1>5 DEF EditReturns
  <2> QED
    BY <1>2, <1>3, <1>4, <2>1 DEF Types, PageTypes, PickTypes, progress
<1>6. CASE SelectReturns(i)
  <2>1. /\ c.kind = "select" /\ Continue(i, c.then, sel)
        /\ shown' \in IF c.ok THEN Rendered(c.job, c.count) ELSE {shown}
        /\ UNCHANGED <<listed, combined, viewer, progress>>
    BY <1>6 DEF SelectReturns
  <2>2. shown' \in Grid /\ (shown'.count > 0 => shown'.job \in Jobs)
    <3>1. CASE c.ok
      BY <1>2, <2>1, <3>1, RenderedTypes
    <3>2. CASE ~c.ok
      BY <2>1, <3>2 DEF Types, PageTypes
    <3> QED
      BY <3>1, <3>2
  <2> QED
    BY <1>2, <1>3, <1>4, <2>1, <2>2 DEF Types, PageTypes, PickTypes, progress
<1>7. CASE ListReturns(i)
  <2>1. /\ Continue(i, c.then, sel)
        /\ listed' = IF c.ok THEN c.jobs ELSE listed
        /\ UNCHANGED <<shown, combined, viewer, progress>>
    BY <1>7 DEF ListReturns
  <2> QED
    BY <1>2, <1>3, <1>4, <2>1 DEF Types, PageTypes, PickTypes, progress
<1>8. CASE DeletePageReturns(i)
  <2>1. /\ Continue(i, c.then, sel)
        /\ combined' \in {combined, combined \ {<<c.job, c.page>>}}
        /\ viewer' = viewer \/ (viewer # NoViewer /\ viewer' = [viewer EXCEPT !.phase = "deleted"])
        /\ UNCHANGED <<listed, shown, progress>>
    BY <1>8 DEF DeletePageReturns, Without
  <2>2. viewer' \in Viewer /\ (viewer' # NoViewer => viewer'.job \in Jobs /\ viewer'.page \in Numbers)
    BY <2>1 DEF Types, PageTypes, Viewer
  <2> QED
    BY <1>2, <1>3, <1>4, <2>1, <2>2 DEF Types, PageTypes, PickTypes, progress
<1>9. CASE DeleteJobReturns(i)
  <2> DEFINE selected == IF c.ok THEN NoJob ELSE sel
  <2>1. /\ Continue(i, c.then, selected)
        /\ shown' = IF c.ok THEN EmptyGrid ELSE shown
        /\ UNCHANGED <<listed, combined, viewer, progress>>
    BY <1>9 DEF DeleteJobReturns, Emptied
  <2>2. EmptyGrid \in Grid /\ ~(EmptyGrid.count > 0)
    BY EmptyTypes
  <2>3. selected \in Jobs \cup {NoJob}
    BY <1>4
  <2> HIDE DEF selected
  <2> QED
    BY <1>2, <1>3, <2>1, <2>2, <2>3 DEF Types, PageTypes, PickTypes, progress
<1>10. CASE StartReturns(i)
  <2>1. /\ c.kind = "start" /\ Continue(i, <<>>, sel)
        /\ timer' = IF c.ok THEN c.job ELSE timer
        /\ scanning' = (c.ok /\ scanning)
        /\ UNCHANGED <<listed, shown, combined, viewer>>
    BY <1>10 DEF StartReturns, Started
  <2> QED
    BY <1>2, <1>3, <1>4, <2>1, Reloads DEF Types, PageTypes, PickTypes
<1>11. CASE PollReturns(i)
  <2> DEFINE then == IF c.over THEN <<"list", "select">> ELSE <<>>
             over == c.ok /\ c.over
  <2>1. /\ Continue(i, then, sel)
        /\ timer' = IF over THEN NoJob ELSE timer
        /\ scanning' = (scanning /\ ~over)
        /\ UNCHANGED <<listed, shown, combined, viewer>>
    BY <1>11 DEF PollReturns, Cleared, StillGoing
  <2>2. then \in Seq({"select", "list"}) /\ over \in BOOLEAN
    BY <1>2, Reloads
  <2> HIDE DEF then, over
  <2>3. timer' \in Jobs \cup {NoJob} /\ scanning' \in BOOLEAN
    BY <2>1, <2>2 DEF Types, PageTypes
  <2> QED
    BY <1>3, <1>4, <2>1, <2>2, <2>3 DEF Types, PageTypes, PickTypes
<1> QED
  BY <1>5, <1>6, <1>7, <1>8, <1>9, <1>10, <1>11 DEF Return

THEOREM TypesInductive == Types /\ [Next]_vars => Types'
<1> SUFFICES ASSUME Types, [Next]_vars PROVE Types'
  OBVIOUS
<1>1. CASE User
  BY <1>1, RequestTypes, PageClickTypes, PickClickTypes DEF User
<1>6. CASE Browser
  BY <1>6, PageClickTypes
<1>2. CASE Tick
  BY <1>2, PageClickTypes
<1>3. CASE \E i \in DOMAIN calls : Answer(i) \/ Return(i)
  BY <1>3, AnswerTypes, ReturnTypes
<1>4. CASE ServerScans
  BY <1>4, ServerScansTypes
<1>5. CASE UNCHANGED vars
  BY <1>5 DEF vars, Types, CallTypes, OneAction, ServerTypes, PageTypes, PickTypes
<1> QED
  BY <1>1, <1>2, <1>3, <1>4, <1>5, <1>6 DEF Next

THEOREM TypesInvariance == Spec => []Types
<1>1. Types /\ [Next]_vars => Types'
  BY TypesInductive
<1> QED
  BY FirstTypes, <1>1, PTL DEF Spec

\* Every variable keeps its type, whatever the order of the answers and whatever
\* fails.  The depth of the overlay never falls below 0, which withBusy guards
\* against (app.js:38-50): one action at a time is under it.
THEOREM TypeCorrect == Spec => []TypeOK
<1>1. Types => TypeOK
  BY TypesGiveTypeOK
<1> QED
  BY TypesInvariance, <1>1, PTL


-------------------------------------------------------------------------------
(* Page numbers *)

\* No page is deleted of a scan that is still running: see the README.
Tame == ~({"start", "deletePage"} \subseteq scene.does)

\* A page number that has been shown: the scan is there, or was, and goes on
\* after that page.
Scanned(j, n) == /\ j \in Jobs /\ server[j].status # "none"
                 /\ server[j].status = "running" => n <= Len(server[j].pages)

RightPage(j, n, img) == j \in lost \/ ImageAt(j, n) = img

\* What the requests on their way are about.
CallRight(c) ==
  /\ c.kind \in {"start", "deletePage"} => c.kind \in scene.does
  /\ c.kind = "select" /\ c.ok => Scanned(c.job, c.count)
  /\ c.kind \in {"edit", "deletePage"} =>
       Scanned(c.job, c.page) /\ (c.answered \/ c.late \/ RightPage(c.job, c.page, c.img))
CallsRight == \A i \in DOMAIN calls : CallRight(calls[i])

ScansRight == \A j \in Jobs : server[j].status = "running" => "start" \in scene.does

\* What the thumbnails show, unless a deletion has come in between.
Loaded(grid) == \/ grid.stale \/ grid.job \in lost \/ ~There(grid.job)
                \/ \A n \in 1 .. grid.count : ImageAt(grid.job, n) = grid.imgs[n]
GridRight == shown.count > 0 => Scanned(shown.job, shown.count) /\ Loaded(shown)

\* A page that has been deleted, but the browser has yet to learn it.
Deleted(k) == \E i \in DOMAIN calls : /\ calls[i].kind = "deletePage" /\ calls[i].ok
                                      /\ <<calls[i].job, calls[i].page>> = k

\* What the viewer shows, and what has been picked.
ViewerRight ==
  viewer # NoViewer =>
    /\ Scanned(viewer.job, viewer.page)
    /\ \A i \in DOMAIN calls : calls[i].kind # "deleteJob"
    /\ \/ \E i \in DOMAIN calls : calls[i].kind = "deletePage" /\ calls[i].ok
       \/ viewer.phase = "deleted"
       \/ RightPage(viewer.job, viewer.page, viewer.img)

PickRight(k) == /\ Scanned(k[1], k[2])
                /\ \/ ImageAt(k[1], k[2]) = picked[k]
                   \/ k \in shifted \/ k[1] \in lost \/ ~There(k[1])
                   \/ Deleted(k)
PicksRight == \A k \in combined : PickRight(k)

Right == Tame => CallsRight /\ ScansRight /\ GridRight /\ ViewerRight /\ PicksRight

LEMMA FirstRight == ASSUME Init PROVE Right
<1>1. DOMAIN calls = {} /\ combined = {} /\ viewer = NoViewer /\ shown.count = 0
  BY DEF Init, EmptyGrid
<1>2. \A j \in Jobs : server[j].status \in {"over", "none"}
  BY DEF Init
<1> QED
  BY <1>1, <1>2 DEF Right, CallsRight, ScansRight, GridRight, ViewerRight, PicksRight

\* One more request changes nothing of that, if it is right itself.
LEMMA SentRight ==
  ASSUME Types, Right, NEW c, Tame => CallRight(c), ~c.ok,
         c.kind = "deleteJob" => viewer = NoViewer,
         calls' = Append(calls, c),
         UNCHANGED <<scene, server, lost, shown, viewer, combined, picked, shifted>>
  PROVE  Right'
<1> SUFFICES ASSUME Tame' PROVE (CallsRight /\ ScansRight /\ GridRight /\ ViewerRight /\ PicksRight)'
  BY DEF Right
<1>1. Tame /\ CallRight(c) /\ CallsRight /\ ScansRight /\ GridRight /\ ViewerRight /\ PicksRight
  BY DEF Tame, Right
<1>2. IsSeq(calls)
  BY RangeSeq DEF Types, CallTypes
<1>3. /\ Len(calls) \in Nat /\ DOMAIN calls = 1 .. Len(calls)
      /\ DOMAIN calls' = 1 .. Len(calls) + 1
      /\ \A i \in 1 .. Len(calls) : calls'[i] = calls[i]
      /\ calls'[Len(calls) + 1] = c
  BY <1>2, AppendIsSeq, SeqFacts
<1>4. /\ \A i \in DOMAIN calls' : (i \in DOMAIN calls /\ calls'[i] = calls[i]) \/ calls'[i] = c
      /\ \A i \in DOMAIN calls : i \in DOMAIN calls' /\ calls'[i] = calls[i]
  <2>1. \A i \in 1 .. Len(calls) + 1 : i \in 1 .. Len(calls) \/ i = Len(calls) + 1
    BY <1>3
  <2> QED
    BY <1>3, <2>1
<1>5. \A j, n : Scanned(j, n) => Scanned(j, n)'
  BY DEF Scanned
<1>6. \A j, n : ImageAt(j, n)' = ImageAt(j, n) /\ There(j)' = There(j)
  BY DEF ImageAt, There
<1>7. ASSUME NEW d, CallRight(d) PROVE CallRight(d)'
  BY <1>5, <1>6, <1>7 DEF CallRight, RightPage
<1>8. CallsRight'
  BY <1>1, <1>4, <1>7 DEF CallsRight
<1>9. ScansRight' /\ GridRight'
  BY <1>1, <1>5, <1>6 DEF ScansRight, GridRight, Loaded
<1>10. ViewerRight'
  BY <1>1, <1>4, <1>5, <1>6 DEF ViewerRight, RightPage
<1>11. PicksRight'
  <2>1. \A k : Deleted(k) => Deleted(k)'
    BY <1>4 DEF Deleted
  <2> QED
    BY <1>1, <1>5, <1>6, <2>1 DEF PicksRight, PickRight
<1> QED
  BY <1>8, <1>9, <1>10, <1>11


\* The grid is drawn anew.
LEMMA RenderedRight ==
  ASSUME Types, NEW j \in Jobs \cup {NoJob}, NEW count \in 0 .. MaxPages,
         count > 0 => Scanned(j, count), shown' \in Rendered(j, count),
         UNCHANGED <<server, lost>>
  PROVE  GridRight'
<1> DEFINE loaded == [n \in Numbers |-> IF n <= count THEN ImageAt(j, n) ELSE NoImage]
<1>1. count > 0 => j \in Jobs
  BY DEF Scanned
<1>2. shown'.job = j /\ shown'.count = count
  BY <1>1, RenderedTypes
<1>3. shown'.stale \/ shown'.imgs = loaded
  <2> DEFINE fresh == [job |-> j, count |-> count, imgs |-> loaded, stale |-> Outdated(j)]
  <2>1. shown' = fresh \/ (Outdated(j) /\ shown' = [fresh EXCEPT !.imgs = shown.imgs])
    BY DEF Rendered
  <2> HIDE DEF loaded
  <2>2. shown'.stale = Outdated(j) /\ (shown' = fresh => shown'.imgs = loaded)
    BY <2>1
  <2> QED
    BY <2>1, <2>2
<1>4. \A n \in 1 .. count : loaded[n] = ImageAt(j, n)
  BY BoundAssumption DEF Numbers
<1> HIDE DEF loaded
<1>5. \A m, n : Scanned(m, n)' = Scanned(m, n) /\ ImageAt(m, n)' = ImageAt(m, n)
  BY DEF Scanned, ImageAt, There
<1>6. count > 0 => Scanned(j, count)'
  BY <1>5
<1>7. Loaded(shown)'
  BY <1>2, <1>3, <1>4, <1>5 DEF Loaded
<1> QED
  BY <1>2, <1>6, <1>7 DEF GridRight

\* Nothing but the grid, the viewer and the selection changes.
LEMMA RestRight ==
  ASSUME Types, Right, UNCHANGED <<scene, server, lost, calls>>,
         Tame /\ GridRight /\ ViewerRight /\ PicksRight
           => GridRight' /\ ViewerRight' /\ PicksRight'
  PROVE  Right'
<1>1. \A j, n : Scanned(j, n)' = Scanned(j, n) /\ ImageAt(j, n)' = ImageAt(j, n)
  BY DEF Scanned, ImageAt, There
<1>2. CallsRight => CallsRight'
  BY <1>1 DEF CallsRight, CallRight, RightPage
<1>3. (ScansRight => ScansRight') /\ Tame' = Tame
  BY <1>1 DEF ScansRight, Tame
<1> QED
  BY <1>2, <1>3 DEF Right

\* A page is picked as it is, or removed.
LEMMA ToggleRight ==
  ASSUME Types, Right, NEW k, NEW img, NEW stale \in BOOLEAN, Toggle(k, img, stale),
         UNCHANGED <<scene, server>>,
         Tame /\ GridRight /\ ViewerRight =>
           k \in combined \/ /\ k \in Keys /\ Scanned(k[1], k[2])
                             /\ stale \/ ~There(k[1]) \/ RightPage(k[1], k[2], img)
  PROVE  Right'
<1>1. /\ UNCHANGED <<calls, viewer, lost>>
      /\ \A o : o # k /\ o \in shifted => o \in shifted'
      /\ k \notin combined /\ stale => k \in shifted'
      /\ IF k \in combined
         THEN combined' = combined \ {k} /\ picked' = [picked EXCEPT ![k] = NoImage]
         ELSE combined' = combined \cup {k} /\ picked' = [picked EXCEPT ![k] = img]
  BY DEF Toggle, Without
<1>2. GridRight => GridRight'
  <2>1. /\ shown.job \in Jobs \cup {NoJob} /\ shown.count \in 0 .. MaxPages
        /\ shown' \in Rendered(shown.job, shown.count)
    BY DEF Toggle, Types, PageTypes, Grid
  <2>2. GridRight /\ shown.count > 0 => Scanned(shown.job, shown.count)
    BY DEF GridRight
  <2> QED
    BY <1>1, <2>1, <2>2, RenderedRight
<1>3. \A j, n : Scanned(j, n)' = Scanned(j, n) /\ ImageAt(j, n)' = ImageAt(j, n)
               /\ There(j)' = There(j)
  BY DEF Scanned, ImageAt, There
<1>4. \A o : Deleted(o)' = Deleted(o)
  BY <1>1 DEF Deleted
<1>5. picked \in [Keys -> Images] /\ combined \subseteq Keys
  BY DEF Types, PickTypes
<1>6. ASSUME Tame, GridRight, ViewerRight, PicksRight PROVE ViewerRight' /\ PicksRight'
  <2>1. ViewerRight'
    BY <1>1, <1>3, <1>6 DEF ViewerRight, RightPage
  <2>2. ASSUME NEW o \in combined', o # k PROVE PickRight(o)'
    <3>1. o \in combined /\ picked'[o] = picked[o] /\ (o \in shifted => o \in shifted')
      BY <1>1, <1>5, <2>2
    <3> QED
      BY <1>1, <1>3, <1>4, <1>6, <3>1 DEF PicksRight, PickRight
  <2>3. ASSUME k \in combined' PROVE PickRight(k)'
    <3>1. k \notin combined
      BY <1>1, <2>3
    <3>2. /\ k \in Keys /\ Scanned(k[1], k[2]) /\ picked'[k] = img
          /\ stale \/ ~There(k[1]) \/ RightPage(k[1], k[2], img)
      BY <1>1, <1>5, <1>6, <3>1
    <3> QED
      BY <1>1, <1>3, <3>1, <3>2 DEF PickRight, RightPage
  <2> QED
    BY <2>1, <2>2, <2>3 DEF PicksRight
<1> QED
  BY <1>1, <1>2, <1>6, RestRight

LEMMA QuietRight ==
  ASSUME Types, Right, \/ \E n \in Numbers : OpenPageViewer(n) \/ ToggleCombine(n)
                       \/ CloseViewer \/ ToggleViewed \/ RemoveFromCombine
                       \/ Browser
  PROVE  Right'
<1>1. ASSUME NEW event, NEW inViewer, Clicks(event, inViewer)
      PROVE  /\ \A i \in DOMAIN calls : calls[i].kind \notin Acts
             /\ (viewer # NoViewer) = inViewer /\ UNCHANGED <<scene, server>>
  BY <1>1, ClickFacts, CallFacts DEF Proper
<1>2. \A j, n : Scanned(j, n)' = Scanned(j, n) /\ ImageAt(j, n)' = ImageAt(j, n)
               /\ There(j)' = There(j)
  BY <1>1 DEF Scanned, ImageAt, There, OpenPageViewer, ToggleCombine, CloseViewer, ToggleViewed,
              RemoveFromCombine, Browser, DragEnds, ViewerHidden
<1>3. ASSUME NEW n \in 1 .. shown.count, GridRight
      PROVE  Scanned(shown.job, n)
  <2>1. shown.count \in Nat /\ shown.count > 0 /\ n <= shown.count /\ n \in Nat
    BY DEF Types, PageTypes, Grid
  <2>2. Scanned(shown.job, shown.count)
    BY <1>3, <2>1 DEF GridRight
  <2>3. server[shown.job].pages \in Seq(Keys)
    BY <2>2 DEF Scanned, Types, ServerTypes, Scan
  <2> QED
    BY <2>1, <2>2, <2>3 DEF Scanned
<1>0. ASSUME UNCHANGED <<shown, lost>>, GridRight PROVE GridRight'
  BY <1>0, <1>2 DEF GridRight, Loaded
<1>4. ASSUME UNCHANGED <<calls, combined, picked, shifted, lost>>, PicksRight PROVE PicksRight'
  BY <1>2, <1>4 DEF PicksRight, PickRight, Deleted
<1>5. ASSUME NEW n \in Numbers, OpenPageViewer(n) PROVE Right'
  <2>1. /\ Clicks("open", FALSE) /\ n \in 1 .. shown.count
        /\ viewer' = [job |-> shown.job, page |-> n, img |-> ImageAt(shown.job, n),
                      phase |-> "open"]
        /\ UNCHANGED <<calls, shown, combined, picked, shifted, lost>>
    BY <1>5 DEF OpenPageViewer, selection
  <2>2. ASSUME GridRight PROVE ViewerRight'
    BY <1>1, <1>2, <1>3, <2>1, <2>2 DEF ViewerRight, RightPage, Acts
  <2> QED
    BY <1>0, <1>1, <1>4, <2>1, <2>2, RestRight
<1>6. ASSUME CloseViewer PROVE Right'
  <2>1. /\ Clicks("open", TRUE) /\ viewer.phase = "open"
        /\ viewer' = [viewer EXCEPT !.phase = "closed"]
        /\ UNCHANGED <<calls, shown, combined, picked, shifted, lost>>
    BY <1>6 DEF CloseViewer, selection
  <2>2. /\ viewer # NoViewer
        /\ viewer'.job = viewer.job /\ viewer'.page = viewer.page /\ viewer'.img = viewer.img
    BY <1>1, <2>1 DEF Types, PageTypes, Viewer
  <2>3. ASSUME ViewerRight PROVE ViewerRight'
    BY <1>2, <2>1, <2>2, <2>3 DEF ViewerRight, RightPage
  <2> QED
    BY <1>0, <1>1, <1>4, <2>1, <2>3, RestRight
<1>10. ASSUME Browser PROVE Right'
  <2>1. /\ UNCHANGED <<scene, server, calls, combined, picked, shifted, lost>>
        /\ \/ shown' \in Rendered(shown.job, shown.count) /\ viewer' = viewer
           \/ shown' = shown /\ viewer' = NoViewer
    BY <1>10 DEF Browser, DragEnds, ViewerHidden, selection
  <2>2. ASSUME ViewerRight PROVE ViewerRight'
    BY <1>2, <2>1, <2>2 DEF ViewerRight, RightPage
  <2>3. ASSUME GridRight PROVE GridRight'
    <3>1. CASE shown' = shown
      BY <1>0, <2>1, <2>3, <3>1
    <3>2. CASE shown' \in Rendered(shown.job, shown.count)
      <4>1. shown.job \in Jobs \cup {NoJob} /\ shown.count \in 0 .. MaxPages
        BY DEF Types, PageTypes, Grid
      <4>2. shown.count > 0 => Scanned(shown.job, shown.count)
        BY <2>3 DEF GridRight
      <4> QED
        BY <2>1, <3>2, <4>1, <4>2, RenderedRight
    <3> QED
      BY <2>1, <3>1, <3>2
  <2> QED
    BY <1>4, <2>1, <2>2, <2>3, RestRight
<1>7. ASSUME NEW n \in Numbers, ToggleCombine(n) PROVE Right'
  <2>1. /\ Clicks("toggle", FALSE) /\ n \in 1 .. shown.count
        /\ Toggle(<<shown.job, n>>, shown.imgs[n], shown.stale)
    BY <1>7 DEF ToggleCombine
  <2>2. <<shown.job, n>> \in Keys /\ shown.stale \in BOOLEAN /\ shown.count > 0
    BY <2>1 DEF Types, PageTypes, Grid, Keys
  <2>3. GridRight => /\ Scanned(shown.job, n)
                     /\ \/ shown.stale \/ ~There(shown.job)
                        \/ RightPage(shown.job, n, shown.imgs[n])
    BY <1>3, <2>1, <2>2 DEF GridRight, Loaded, RightPage
  <2> QED
    BY <1>1, <2>1, <2>2, <2>3, ToggleRight
<1>8. ASSUME ToggleViewed PROVE Right'
  <2>1. /\ Clicks("toggle", TRUE)
        /\ Toggle(<<viewer.job, viewer.page>>, viewer.img, viewer.phase = "deleted")
    BY <1>8 DEF ToggleViewed
  <2>2. viewer # NoViewer /\ \A i \in DOMAIN calls : calls[i].kind \notin Acts
    BY <1>1, <2>1
  <2>3. <<viewer.job, viewer.page>> \in Keys
    BY <2>2 DEF Types, PageTypes, Viewer, Keys
  <2>4. ViewerRight => /\ Scanned(viewer.job, viewer.page)
                       /\ \/ viewer.phase = "deleted"
                          \/ RightPage(viewer.job, viewer.page, viewer.img)
    BY <2>2 DEF ViewerRight, Acts
  <2> QED
    BY <1>1, <2>1, <2>3, <2>4, ToggleRight
<1>9. ASSUME RemoveFromCombine PROVE Right'
  <2>1. PICK k \in combined : Clicks("toggle", FALSE) /\ Toggle(k, NoImage, FALSE)
    BY <1>9 DEF RemoveFromCombine
  <2> QED
    BY <1>1, <2>1, ToggleRight
<1> QED
  BY <1>5, <1>6, <1>7, <1>8, <1>9, <1>10

\* What the user does.
LEMMA ClicksRight ==
  ASSUME Types, Right, User
  PROVE  Right'
<1>1. scene \in Scene
  BY SceneAssumption DEF Types, ServerTypes
<1>2. ASSUME NEW event, NEW inViewer, Clicks(event, inViewer)
      PROVE  /\ \A i \in DOMAIN calls : calls[i].kind \notin Acts
             /\ event \in scene.does /\ (viewer # NoViewer) = inViewer
             /\ UNCHANGED <<scene, server>>
  BY <1>2, ClickFacts, CallFacts DEF Proper
<1>3. ASSUME NEW kind, NEW job PROVE NewCall(kind, job).kind = kind /\ ~NewCall(kind, job).ok
  BY DEF NewCall
<1>4. ASSUME NEW j \in Jobs, SelectJob(j) PROVE Right'
  <2> DEFINE c == NewCall("select", j)
  <2>1. /\ Clicks("select", FALSE) /\ calls' = Append(calls, c)
        /\ UNCHANGED <<lost, shown, viewer, combined, picked, shifted>>
    BY <1>4 DEF SelectJob, Send, selection
  <2>2. CallRight(c) /\ ~c.ok /\ c.kind = "select"
    BY <1>3 DEF CallRight
  <2> HIDE DEF c
  <2> QED
    BY <1>2, <2>1, <2>2, SentRight
<1>5. ASSUME NEW event, NEW inViewer, Clicks(event, inViewer), NEW c, ~c.ok,
             c.kind \notin {"start", "deletePage", "edit"},
             c.kind = "deleteJob" => viewer = NoViewer,
             calls' = Append(calls, c), UNCHANGED <<page, selection>>
      PROVE  Right'
  <2>1. CallRight(c)
    BY <1>5 DEF CallRight
  <2> QED
    BY <1>2, <1>5, <2>1, SentRight DEF page, selection
<1>6. CASE RenameJob \/ CommitReorder \/ DeleteJob \/ Combine
  <2>1. CASE RenameJob
    <3> DEFINE c == [NewCall("rename", sel) EXCEPT !.then = <<"list">>]
    <3>1. /\ Clicks("rename", FALSE) /\ calls' = Append(calls, c)
          /\ UNCHANGED <<page, selection>>
      BY <2>1 DEF RenameJob, Send
    <3>2. ~c.ok /\ c.kind = "rename"
      BY DEF NewCall
    <3> HIDE DEF c
    <3> QED
      BY <1>5, <3>1, <3>2
  <2>2. CASE CommitReorder
    <3> DEFINE c == [[NewCall("reorder", sel) EXCEPT !.then = <<"select">>] EXCEPT !.busy = TRUE]
    <3>1. /\ Clicks("reorder", FALSE) /\ calls' = Append(calls, c)
          /\ UNCHANGED <<page, selection>>
      BY <2>2 DEF CommitReorder, SendBusy, Send
    <3>2. ~c.ok /\ c.kind = "reorder"
      BY DEF NewCall
    <3> HIDE DEF c
    <3> QED
      BY <1>5, <3>1, <3>2
  <2>3. CASE DeleteJob
    <3> DEFINE c == [[NewCall("deleteJob", sel) EXCEPT !.then = <<"list">>] EXCEPT !.busy = TRUE]
    <3>1. /\ Clicks("deleteJob", FALSE) /\ calls' = Append(calls, c)
          /\ UNCHANGED <<page, selection>>
      BY <2>3 DEF DeleteJob, SendBusy, Send
    <3>2. ~c.ok /\ c.kind = "deleteJob"
      BY DEF NewCall
    <3>3. viewer = NoViewer
      BY <1>2, <3>1
    <3> HIDE DEF c
    <3> QED
      BY <1>5, <3>1, <3>2, <3>3
  <2>4. CASE Combine
    <3>1. PICK keys : SendBusy([NewCall("combine", NoJob) EXCEPT !.keys = keys])
      BY <2>4 DEF Combine
    <3> DEFINE c == [[NewCall("combine", NoJob) EXCEPT !.keys = keys] EXCEPT !.busy = TRUE]
    <3>2. /\ Clicks("combine", FALSE) /\ calls' = Append(calls, c)
          /\ UNCHANGED <<page, selection>>
      BY <2>4, <3>1 DEF Combine, SendBusy, Send
    <3>3. ~c.ok /\ c.kind = "combine"
      BY DEF NewCall
    <3> HIDE DEF c
    <3> QED
      BY <1>5, <3>2, <3>3
  <2> QED
    BY <1>6, <2>1, <2>2, <2>3, <2>4
\* The viewer's requests are about what it shows.
<1>7. ASSUME NEW kind \in {"edit", "deletePage"}, Clicks(kind, TRUE), NEW then,
             SendBusy([ViewerCall(kind) EXCEPT !.then = then]), UNCHANGED <<page, selection>>
      PROVE  Right'
  <2> DEFINE c == [[ViewerCall(kind) EXCEPT !.then = then] EXCEPT !.busy = TRUE]
  <2>1. /\ c.kind = kind /\ c.job = viewer.job /\ c.page = viewer.page /\ c.img = viewer.img
        /\ ~c.ok /\ ~c.answered /\ c.late = (viewer.phase = "deleted")
    BY DEF ViewerCall, NewCall
  <2>2. calls' = Append(calls, c)
    BY <1>7 DEF SendBusy, Send
  <2>3. Tame => CallRight(c)
    <3> SUFFICES ASSUME Tame PROVE CallRight(c)
      OBVIOUS
    <3>1. ViewerRight /\ viewer # NoViewer
      BY <1>2, <1>7 DEF Right
    <3>2. /\ Scanned(viewer.job, viewer.page)
          /\ viewer.phase = "deleted" \/ RightPage(viewer.job, viewer.page, viewer.img)
      BY <1>2, <1>7, <3>1 DEF ViewerRight, Acts
    <3> HIDE DEF c
    <3> QED
      BY <1>2, <1>7, <2>1, <3>2 DEF CallRight
  <2> HIDE DEF c
  <2> QED
    BY <1>2, <1>7, <2>1, <2>2, <2>3, SentRight DEF page, selection
<1>8. CASE EditCurrentPage
  BY <1>7, <1>8 DEF EditCurrentPage
<1>9. CASE DeleteCurrentPage
  BY <1>7, <1>9 DEF DeleteCurrentPage
<1>10. CASE StartScan
  <2> DEFINE c == NewCall("start", NoJob)
  <2>1. /\ Clicks("start", FALSE) /\ calls' = Append(calls, c)
        /\ UNCHANGED <<page, selection>>
    BY <1>10 DEF StartScan, Send
  <2>2. ~c.ok /\ c.kind = "start"
    BY <1>3
  <2> HIDE DEF c
  <2>3. CallRight(c)
    BY <1>2, <2>1, <2>2 DEF CallRight
  <2> QED
    BY <1>2, <2>1, <2>2, <2>3, SentRight DEF page, selection
\* Clicks that send nothing.
<1>11. CASE (\E n \in Numbers : OpenPageViewer(n) \/ ToggleCombine(n))
            \/ CloseViewer \/ ToggleViewed \/ RemoveFromCombine
  BY <1>11, QuietRight
<1> QED
  BY <1>4, <1>6, <1>8, <1>9, <1>10, <1>11 DEF User


LEMMA TickRight ==
  ASSUME Types, Right, Tick
  PROVE  Right'
<1> DEFINE c == NewCall("poll", timer)
<1>1. /\ calls' = Append(calls, c)
      /\ UNCHANGED <<scene, server, page, selection>>
  BY DEF Tick, Send
<1>2. CallRight(c) /\ ~c.ok /\ c.kind = "poll"
  BY DEF CallRight, NewCall
<1> HIDE DEF c
<1> QED
  BY <1>1, <1>2, SentRight DEF page, selection

\* Whatever the server does, a page number that has been shown stays one; and
\* only a deletion puts another image under it.
Keeps(j, n) == ImageAt(j, n)' = ImageAt(j, n)

LEMMA EffectRight ==
  ASSUME Types, Tame, ScansRight, NEW c, CallRight(c), Granted(c), server' \in Effects(c),
         UNCHANGED scene
  PROVE  /\ ScansRight'
         /\ \A j, n : Scanned(j, n) => Scanned(j, n)'
         /\ \A j, n : Scanned(j, n) /\ ~There(j) => ~There(j)'
         /\ \A j, n : c.kind \notin {"deletePage", "deleteJob"} \/ j # c.job => Keeps(j, n)
         /\ c.kind = "deletePage" =>
              /\ c.job \in Jobs
              /\ \A n \in Numbers : n < c.page => Keeps(c.job, n)
         /\ c.kind = "deleteJob" => ~There(c.job)'
         /\ c.kind \notin {"start", "deletePage", "deleteJob"} => UNCHANGED server
<1>1. server \in [Jobs -> Scan]
  BY DEF Types, ServerTypes
<1>2. \A j \in Jobs : /\ server[j].pages \in Seq(Keys)
                      /\ server[j].status = "none" => server[j].pages = <<>>
  BY DEF Types, ServerTypes, Scan
<1>3. CASE c.kind = "start"
  <2>1. PICK k \in Jobs : /\ server[k].status = "none"
                          /\ server' = [server EXCEPT ![k].status = "running"]
    BY <1>3 DEF Effects
  <2>2. /\ server'[k].status = "running" /\ server'[k].pages = <<>>
        /\ \A j \in Jobs : j # k => server'[j] = server[j]
    BY <1>1, <1>2, <2>1 DEF Scan
  <2>3. "start" \in scene'.does
    BY <1>3 DEF CallRight
  <2>4. ScansRight'
    BY <2>2, <2>3 DEF ScansRight
  <2>5. ASSUME NEW j, NEW n, Scanned(j, n) PROVE Scanned(j, n)' /\ (~There(j) => ~There(j)')
    BY <2>1, <2>2, <2>5 DEF Scanned, There
  <2>6. ASSUME NEW j, NEW n PROVE Keeps(j, n)
    <3>1. CASE j \notin Jobs
      BY <3>1 DEF Keeps, ImageAt, There
    <3>2. CASE j = k
      BY <1>2, <2>1, <2>2, <3>2 DEF Keeps, ImageAt, There
    <3>3. CASE j \in Jobs /\ j # k
      BY <2>2, <3>3 DEF Keeps, ImageAt, There
    <3> QED
      BY <3>1, <3>2, <3>3
  <2> QED
    BY <1>3, <2>4, <2>5, <2>6
<1>4. CASE c.kind = "deletePage"
  <2> DEFINE pages == server[c.job].pages
  <2>1. c.job \in Jobs /\ c.page \in DOMAIN pages /\ "deletePage" \in scene.does
    BY <1>4 DEF Granted, ImageAt, There, CallRight
  <2>2. server' = [server EXCEPT ![c.job].pages = Renumbered(@, c.page)]
    BY <1>4 DEF Effects
  <2>3. /\ server'[c.job].status = server[c.job].status
        /\ server'[c.job].pages = Renumbered(pages, c.page)
        /\ \A j \in Jobs : j # c.job => server'[j] = server[j]
    BY <1>1, <2>1, <2>2 DEF Scan
  <2>4. \A j \in Jobs : server'[j].status = server[j].status /\ server[j].status # "running"
    BY <2>1, <2>3 DEF Tame, ScansRight
  <2>5. ScansRight'
    BY <2>4 DEF ScansRight
  <2>6. ASSUME NEW j, NEW n, Scanned(j, n) PROVE Scanned(j, n)' /\ (~There(j) => ~There(j)')
    BY <2>4, <2>6 DEF Scanned, There
  <2>7. ASSUME NEW j, NEW n, j # c.job PROVE Keeps(j, n)
    BY <2>3, <2>7 DEF Keeps, ImageAt, There
  <2>8. ASSUME NEW n \in Numbers, n < c.page PROVE Keeps(c.job, n)
    <3>1. /\ Len(pages) \in Nat /\ DOMAIN pages = 1 .. Len(pages) /\ n \in Nat /\ n >= 1
          /\ c.page \in 1 .. Len(pages)
      BY <1>2, <2>1, BoundAssumption DEF Numbers
    <3>2. n \in 1 .. Len(pages) - 1 /\ n \in DOMAIN pages
      BY <2>8, <3>1
    <3>3. server'[c.job].pages[n] = pages[n] /\ n \in DOMAIN server'[c.job].pages
      BY <2>3, <2>8, <3>2 DEF Renumbered
    <3> QED
      BY <2>1, <2>3, <3>2, <3>3 DEF Keeps, ImageAt, There
  <2> QED
    BY <1>4, <2>1, <2>5, <2>6, <2>7, <2>8
<1>5. CASE c.kind = "deleteJob"
  <2>1. c.job \in Jobs /\ server' = [server EXCEPT ![c.job] = [status |-> "gone", pages |-> <<>>]]
    BY <1>5 DEF Granted, There, Effects
  <2>2. /\ server'[c.job].status = "gone"
        /\ \A j \in Jobs : j # c.job => server'[j] = server[j]
    BY <1>1, <2>1
  <2>3. ScansRight'
    BY <2>2 DEF ScansRight
  <2>4. ASSUME NEW j, NEW n, Scanned(j, n) PROVE Scanned(j, n)' /\ (~There(j) => ~There(j)')
    BY <2>2, <2>4 DEF Scanned, There
  <2>5. ASSUME NEW j, NEW n, j # c.job PROVE Keeps(j, n)
    BY <2>2, <2>5 DEF Keeps, ImageAt, There
  <2>6. ~There(c.job)'
    BY <2>2 DEF There
  <2> QED
    BY <1>5, <2>3, <2>4, <2>5, <2>6
<1>6. CASE c.kind \notin {"start", "deletePage", "deleteJob"}
  <2>1. UNCHANGED server
    BY <1>6 DEF Effects
  <2> QED
    BY <1>6, <2>1 DEF ScansRight, Scanned, There, Keeps, ImageAt
<1> QED
  BY <1>3, <1>4, <1>5, <1>6

\* The answer to a request that had to be granted, or to one that was not.
LEMMA AnswerRight ==
  ASSUME Types, Right, NEW i \in DOMAIN calls, Answer(i)
  PROVE  Right'
<1>a. PICK c : c = calls[i]
  OBVIOUS
<1> DEFINE Refused == [c EXCEPT !.answered = TRUE]
<1> SUFFICES ASSUME Tame' PROVE (CallsRight /\ ScansRight /\ GridRight /\ ViewerRight /\ PicksRight)'
  BY DEF Right
<1>1. UNCHANGED <<scene, viewer, combined, picked>> /\ ~c.answered
  BY <1>a DEF Answer
<1>2. Tame /\ CallsRight /\ ScansRight /\ GridRight /\ ViewerRight /\ PicksRight
  BY <1>1 DEF Tame, Right
<1>3. /\ Len(calls) \in Nat /\ DOMAIN calls = 1 .. Len(calls) /\ c \in Proper /\ c \in Call
      /\ calls \in Seq(Proper)
  BY <1>a, CallFacts DEF Types, CallTypes
<1>4. \/ /\ Granted(c) /\ server' \in Effects(c) /\ shifted' = shifted \cup Shifts(c)
         /\ shown' = Outdates(c)
         /\ \/ calls' = [calls EXCEPT ![i] = Reply(c, server')] /\ lost' = lost
            \/ /\ calls' = [calls EXCEPT ![i] = Refused]
               /\ lost' = IF c.kind = "deletePage" THEN lost \cup {c.job} ELSE lost
      \/ /\ calls' = [calls EXCEPT ![i] = Refused]
         /\ UNCHANGED <<server, shown, shifted, lost>>
  BY <1>a DEF Answer
<1>b. PICK x : x = calls'[i]
  OBVIOUS
<1>5. /\ DOMAIN calls' = DOMAIN calls /\ \A k \in DOMAIN calls \ {i} : calls'[k] = calls[k]
      /\ x = Reply(c, server') \/ x = Refused
  BY <1>3, <1>4, <1>b
<1>6. /\ x.kind = c.kind /\ x.page = c.page /\ x.answered
      /\ c.kind # "start" => x.job = c.job
      /\ x.ok => Granted(c) /\ server' \in Effects(c) /\ x = Reply(c, server')
  <2>1. c = [c EXCEPT !.kind = @] /\ ~c.ok
    BY <1>1, <1>3 DEF Call, Proper
  <2>2. x = Refused => /\ x.kind = c.kind /\ x.page = c.page /\ x.answered /\ x.job = c.job
                       /\ ~x.ok
    BY <1>3, <2>1 DEF Call
  <2>3. Reply(c, server').kind = c.kind /\ Reply(c, server').page = c.page
        /\ Reply(c, server').answered /\ (c.kind # "start" => Reply(c, server').job = c.job)
    BY <1>3 DEF Reply, Call
  <2>4. x = Refused \/ (Granted(c) /\ server' \in Effects(c) /\ x = Reply(c, server'))
    BY <1>3, <1>4, <1>b
  <2> QED
    BY <2>2, <2>3, <2>4
<1> HIDE DEF Refused
<1>c. CallRight(c)
  BY <1>a, <1>2 DEF CallsRight
<1>7. /\ ScansRight'
      /\ \A j, n : Scanned(j, n) => Scanned(j, n)'
      /\ \A j, n : Scanned(j, n) /\ ~There(j) => ~There(j)'
      /\ \A j, n : c.kind \notin {"deletePage", "deleteJob"} \/ j # c.job => Keeps(j, n)
      /\ \A j \in Jobs : j \in lost => j \in lost'
      /\ \A k : k \in shifted => k \in shifted'
  <2>1. CASE UNCHANGED <<server, shifted, lost>>
    BY <1>1, <1>2, <2>1 DEF ScansRight, Scanned, There, Keeps, ImageAt
  <2>2. CASE Granted(c) /\ server' \in Effects(c) /\ shifted' = shifted \cup Shifts(c)
    BY <1>1, <1>2, <1>4, <1>c, <2>2, EffectRight
  <2> QED
    BY <1>4, <2>1, <2>2
<1>8. \A k \in DOMAIN calls : calls[k].kind \in Acts /\ c.kind \in Acts => k = i
  <2>1. \A k \in DOMAIN calls : calls[k].kind \in Acts => calls[k].busy
    BY CallFacts DEF Proper
  <2> QED
    BY <1>a, <2>1 DEF Types, CallTypes, OneAction
\* The other requests: only the one under the overlay is about a page.
<1>9. ASSUME NEW k \in DOMAIN calls, k # i PROVE CallRight(calls[k])'
  <2>0. PICK d : d = calls[k]
    OBVIOUS
  <2>1. d = calls'[k] /\ CallRight(d)
    BY <1>2, <1>5, <1>9, <2>0 DEF CallsRight
  <2>2. d.kind \in {"edit", "deletePage"} => Keeps(d.job, d.page)
    BY <1>a, <1>7, <1>8, <1>9, <2>0 DEF Acts
  <2>3. d.kind \in {"edit", "deletePage"} => d.job \in Jobs
    BY <2>1 DEF CallRight, Scanned
  <2>4. CallRight(d)'
    BY <1>1, <1>7, <2>1, <2>2, <2>3 DEF CallRight, RightPage, Keeps
  <2> QED
    BY <2>1, <2>4
<1>10. CallRight(x)'
  <2>2. ASSUME x.kind = "select", x.ok PROVE Scanned(x.job, x.count)'
    <3>1. There(c.job) /\ UNCHANGED server
      BY <1>6, <2>2 DEF Granted, Effects
    <3>2. x.job = c.job /\ x.count = Len(server[c.job].pages)
      BY <1>3, <1>6, <2>2, <3>1 DEF Reply, Call
    <3>3. c.job \in Jobs
      BY <3>1 DEF There
    <3>4. Len(server[c.job].pages) \in Nat
      BY <3>3 DEF Types, ServerTypes, Scan
    <3> QED
      BY <3>1, <3>2, <3>3, <3>4 DEF Scanned, There
  <2> QED
    BY <1>1, <1>6, <1>7, <1>c, <2>2 DEF CallRight
<1>11. CallsRight'
  <2>1. ASSUME NEW k \in DOMAIN calls' PROVE CallRight(calls[k])'
    BY <1>5, <1>9, <1>10, <1>b
  <2> QED
    BY <2>1 DEF CallsRight
<1>12. GridRight'
  <2>0. PICK g : g = shown
    OBVIOUS
  <2>1. g \in Grid /\ (g.count > 0 => Scanned(g.job, g.count) /\ Loaded(g))
    BY <1>2, <2>0 DEF GridRight, Types, PageTypes
  <2>2. /\ shown' \in {g, [g EXCEPT !.stale = TRUE]}
        /\ shown'.job = g.job /\ shown'.count = g.count /\ shown'.imgs = g.imgs
        /\ (g.stale => shown'.stale)
    BY <1>4, <2>0, <2>1 DEF Outdates, Grid
  <2> SUFFICES ASSUME g.count > 0 PROVE Loaded(shown)'
    BY <1>7, <2>1, <2>2 DEF GridRight
  <2>3. Scanned(g.job, g.count) /\ Loaded(g) /\ g.job \in Jobs
    BY <2>1 DEF Scanned
  <2>4. g.stale \/ g.job \in lost \/ ~There(g.job) => Loaded(shown)'
    BY <1>7, <2>2, <2>3 DEF Loaded
  <2>5. CASE c.kind \notin {"deletePage", "deleteJob"} \/ g.job # c.job
    <3>1. \A n : Keeps(g.job, n)
      BY <1>7, <2>5
    <3> QED
      BY <2>2, <2>3, <2>4, <3>1 DEF Loaded, Keeps
  <2>6. CASE UNCHANGED <<server, lost>>
    BY <2>2, <2>3, <2>4, <2>6 DEF Loaded, ImageAt, There
  <2>7. CASE Granted(c) /\ server' \in Effects(c) /\ shown' = Outdates(c)
    <3>1. CASE c.kind = "deletePage" /\ g.job = c.job
      <4>1. shown'.stale
        BY <2>0, <2>1, <2>7, <3>1 DEF Outdates, Grid
      <4> QED
        BY <4>1 DEF Loaded
    <3>2. CASE c.kind = "deleteJob" /\ g.job = c.job
      <4>1. ~There(g.job)'
        BY <1>1, <1>2, <1>c, <2>7, <3>2, EffectRight
      <4> QED
        BY <2>2, <4>1 DEF Loaded
    <3> QED
      BY <2>5, <3>1, <3>2
  <2> QED
    BY <1>4, <2>6, <2>7
<1>13. \A k \in DOMAIN calls : calls[k].kind = "deletePage" /\ calls[k].ok =>
         k # i /\ calls'[k] = calls[k]
  BY <1>a, <1>1, <1>3, <1>5 DEF Proper
<1>14. ViewerRight'
  <2> SUFFICES ASSUME viewer # NoViewer PROVE ViewerRight'
    BY <1>1 DEF ViewerRight
  <2>1. /\ Scanned(viewer.job, viewer.page)'
        /\ \A k \in DOMAIN calls : calls[k].kind # "deleteJob"
    BY <1>1, <1>2, <1>7 DEF ViewerRight
  <2>2. \A k \in DOMAIN calls' : calls'[k].kind # "deleteJob"
    BY <1>a, <1>5, <1>6, <1>b, <2>1
  <2>3. CASE \E k \in DOMAIN calls : calls[k].kind = "deletePage" /\ calls[k].ok
    BY <1>1, <1>5, <1>13, <2>1, <2>2, <2>3 DEF ViewerRight
  <2>5. CASE viewer.phase = "deleted"
    BY <1>1, <2>1, <2>2, <2>5 DEF ViewerRight
  <2>4. CASE RightPage(viewer.job, viewer.page, viewer.img)
    <3>1. viewer.job \in Jobs
      BY DEF Types, PageTypes
    <3>2. CASE c.kind # "deletePage" \/ viewer.job # c.job
      <4>1. PICK v : v = viewer
        OBVIOUS
      <4>2. c.kind # "deleteJob"
        BY <1>a, <2>1
      <4>3. Keeps(v.job, v.page)
        BY <1>7, <3>2, <4>1, <4>2
      <4>4. RightPage(v.job, v.page, v.img)'
        BY <1>7, <2>4, <3>1, <4>1, <4>3 DEF RightPage, Keeps
      <4> QED
        BY <1>1, <2>1, <2>2, <4>1, <4>4 DEF ViewerRight
    <3>3. CASE c.kind = "deletePage" /\ viewer.job = c.job
      <4>1. x.ok \/ c.job \in lost' \/ UNCHANGED <<server, lost>>
        <5>1. ASSUME x = Reply(c, server') PROVE x.ok
          BY <1>3, <5>1 DEF Reply, Call
        <5> QED
          BY <1>3, <1>4, <1>b, <3>3, <5>1
      <4>2. CASE x.ok
        BY <1>1, <1>5, <1>6, <1>b, <2>1, <2>2, <3>3, <4>2 DEF ViewerRight
      <4>3. CASE c.job \in lost'
        BY <1>1, <2>1, <2>2, <3>3, <4>3 DEF ViewerRight, RightPage
      <4>4. CASE UNCHANGED <<server, lost>>
        BY <1>1, <2>1, <2>2, <2>4, <4>4 DEF ViewerRight, RightPage, ImageAt, There
      <4> QED
        BY <4>1, <4>2, <4>3, <4>4
    <3> QED
      BY <3>2, <3>3
  <2> QED
    BY <1>2, <2>3, <2>4, <2>5 DEF ViewerRight
<1>15. PicksRight'
  <2> SUFFICES ASSUME NEW k \in combined PROVE PickRight(k)'
    BY <1>1 DEF PicksRight
  <2>1. PickRight(k) /\ k \in Keys
    BY <1>2 DEF PicksRight, Types, PickTypes
  <2>2. k[1] \in Jobs /\ k[2] \in Numbers /\ k = <<k[1], k[2]>>
    BY <2>1 DEF Keys
  <2>3. Scanned(k[1], k[2])' /\ (~There(k[1]) => ~There(k[1])')
    BY <1>7, <2>1 DEF PickRight
  <2>4. Deleted(k) => Deleted(k)'
    BY <1>5, <1>13 DEF Deleted
  <2>5. CASE ImageAt(k[1], k[2]) # picked[k] \/ Keeps(k[1], k[2])
    BY <1>1, <1>7, <2>1, <2>2, <2>3, <2>4, <2>5 DEF PickRight, Keeps
  <2>6. CASE UNCHANGED server
    BY <1>1, <1>7, <2>1, <2>2, <2>3, <2>4, <2>6 DEF PickRight, ImageAt, There
  <2>7. CASE /\ c.kind \in {"deletePage", "deleteJob"} /\ k[1] = c.job
             /\ Granted(c) /\ server' \in Effects(c) /\ shifted' = shifted \cup Shifts(c)
    <3>1. CASE c.kind = "deleteJob"
      BY <1>1, <1>2, <1>c, <2>3, <2>7, <3>1, EffectRight DEF PickRight
    <3>2. CASE c.kind = "deletePage" /\ k[2] < c.page
      <4>1. Keeps(k[1], k[2])
        BY <1>1, <1>2, <1>c, <2>2, <2>7, <3>2, EffectRight
      <4> QED
        BY <2>5, <4>1
    <3>3. CASE c.kind = "deletePage" /\ k[2] > c.page
      <4>1. k \in Shifts(c)
        BY <2>7, <3>3 DEF Shifts
      <4> QED
        BY <2>3, <2>7, <4>1 DEF PickRight
    <3>4. CASE c.kind = "deletePage" /\ k[2] = c.page
      <4>1. x.ok \/ c.job \in lost' \/ UNCHANGED server
        <5>1. ASSUME x = Reply(c, server') PROVE x.ok
          BY <1>3, <5>1 DEF Reply, Call
        <5> QED
          BY <1>3, <1>4, <1>b, <3>4, <5>1
      <4>2. CASE x.ok
        <5>1. Deleted(k)'
          BY <1>5, <1>6, <1>b, <2>2, <2>7, <3>4, <4>2 DEF Deleted
        <5> QED
          BY <2>3, <5>1 DEF PickRight
      <4>3. CASE c.job \in lost'
        BY <2>3, <2>7, <4>3 DEF PickRight
      <4> QED
        BY <2>6, <4>1, <4>2, <4>3
    <3>5. c.page \in Nat /\ k[2] \in Nat
      BY <1>3, <2>2, BoundAssumption DEF Call, Numbers
    <3> QED
      BY <2>7, <3>1, <3>2, <3>3, <3>4, <3>5
  <2>8. Keeps(k[1], k[2]) \/ (c.kind \in {"deletePage", "deleteJob"} /\ k[1] = c.job)
    BY <1>7
  <2> QED
    BY <1>4, <2>5, <2>6, <2>7, <2>8
<1> QED
  BY <1>7, <1>11, <1>12, <1>14, <1>15


\* The scan goes on: the pages there are stay.
LEMMA ServerScansRight ==
  ASSUME Types, Right, ServerScans
  PROVE  Right'
<1> SUFFICES ASSUME Tame' PROVE (CallsRight /\ ScansRight /\ GridRight /\ ViewerRight /\ PicksRight)'
  BY DEF Right
<1>1. UNCHANGED <<scene, calls, shown, viewer, combined, picked, shifted, lost>>
  BY DEF ServerScans, page, selection
<1>2. CallsRight /\ ScansRight /\ GridRight /\ ViewerRight /\ PicksRight
  BY <1>1 DEF Tame, Right
<1>3. PICK j \in Jobs :
        /\ server[j].status = "running"
        /\ server' = [server EXCEPT ![j] =
                     IF Len(server[j].pages) < MaxPages
                     THEN [server[j] EXCEPT !.pages = Append(server[j].pages,
                                                             <<j, Len(server[j].pages) + 1>>)]
                     ELSE [server[j] EXCEPT !.status = "over"]]
  BY DEF ServerScans
<1>4. PICK pages : pages = server[j].pages
  OBVIOUS
<1> DEFINE more == Append(pages, <<j, Len(pages) + 1>>)
<1>5. server \in [Jobs -> Scan] /\ server[j] \in Scan /\ pages \in Seq(Keys)
  BY <1>4 DEF Types, ServerTypes, Scan
<1>6. /\ server'[j].status \in {"running", "over"}
      /\ server'[j].pages = more \/ server'[j].pages = pages
      /\ \A k \in Jobs \ {j} : server'[k] = server[k]
  BY <1>3, <1>4, <1>5 DEF Scan
<1>7. /\ Len(pages) \in Nat /\ Len(more) = Len(pages) + 1 /\ DOMAIN more = 1 .. Len(pages) + 1
      /\ DOMAIN pages = 1 .. Len(pages)
      /\ \A n \in 1 .. Len(pages) : more[n] = pages[n]
  BY <1>5
<1> HIDE DEF more
<1>8. ASSUME NEW k, NEW n \in Nat, Scanned(k, n)
      PROVE  Scanned(k, n)' /\ Keeps(k, n) /\ There(k)' = There(k)
  <2>1. CASE k = j
    <3>1. n <= Len(pages) /\ There(j) /\ There(j)'
      BY <1>3, <1>4, <1>6, <1>8, <2>1 DEF Scanned, There
    <3>2. Scanned(j, n)'
      BY <1>4, <1>6, <1>7, <3>1 DEF Scanned
    <3>3. n \in DOMAIN pages <=> n \in DOMAIN server'[j].pages
      BY <1>6, <1>7, <3>1
    <3>4. n \in DOMAIN pages => server'[j].pages[n] = pages[n]
      BY <1>6, <1>7
    <3> QED
      BY <1>4, <2>1, <3>1, <3>2, <3>3, <3>4 DEF Keeps, ImageAt
  <2>2. CASE k # j
    BY <1>6, <1>8, <2>2 DEF Scanned, Keeps, ImageAt, There
  <2> QED
    BY <2>1, <2>2
<1>9. ScansRight'
  BY <1>1, <1>2, <1>3, <1>6 DEF ScansRight
<1>10. GridRight'
  <2> SUFFICES ASSUME shown.count > 0 PROVE GridRight'
    BY <1>1 DEF GridRight
  <2>1. PICK g : g = shown
    OBVIOUS
  <2>2. g.count \in Nat /\ g.count > 0 /\ Scanned(g.job, g.count) /\ Loaded(g)
    BY <1>2, <2>1, BoundAssumption DEF GridRight, Types, PageTypes, Grid
  <2>3. Scanned(g.job, g.count)' /\ There(g.job)' = There(g.job)
    BY <1>8, <2>2
  <2>4. ASSUME NEW n \in 1 .. g.count PROVE Keeps(g.job, n)
    <3>1. n \in Nat /\ n <= g.count
      BY <2>2
    <3>2. server[g.job].pages \in Seq(Keys)
      BY <2>2 DEF Scanned, Types, ServerTypes, Scan
    <3>3. Scanned(g.job, n)
      BY <2>2, <3>1, <3>2 DEF Scanned
    <3> QED
      BY <1>8, <3>1, <3>3
  <2>5. Loaded(g)'
    BY <1>1, <2>2, <2>3, <2>4 DEF Loaded, Keeps
  <2> QED
    BY <1>1, <2>1, <2>3, <2>5 DEF GridRight, Loaded
<1>11. CallsRight'
  <2> SUFFICES ASSUME NEW i \in DOMAIN calls PROVE CallRight(calls[i])'
    BY <1>1 DEF CallsRight
  <2>1. PICK c : c = calls[i]
    OBVIOUS
  <2>2. CallRight(c) /\ c \in Call
    BY <1>2, <2>1, CallFacts DEF CallsRight
  <2>3. c.page \in Nat /\ c.count \in Nat
    BY <2>2, BoundAssumption DEF Call
  <2>4. CallRight(c)'
    BY <1>1, <1>8, <2>2, <2>3 DEF CallRight, RightPage, Keeps
  <2> QED
    BY <1>1, <2>1, <2>4
<1>12. ViewerRight'
  <2>1. PICK v : v = viewer
    OBVIOUS
  <2>2. v.page \in Nat
    BY <2>1, BoundAssumption DEF Types, PageTypes, Viewer
  <2> QED
    BY <1>1, <1>2, <1>8, <2>1, <2>2 DEF ViewerRight, RightPage, Keeps
<1>13. PicksRight'
  <2> SUFFICES ASSUME NEW k \in combined PROVE PickRight(k)'
    BY <1>1 DEF PicksRight
  <2>1. PickRight(k) /\ k[2] \in Nat
    BY <1>2, BoundAssumption DEF PicksRight, Types, PickTypes, Keys, Numbers
  <2>2. Deleted(k) => Deleted(k)'
    BY <1>1 DEF Deleted
  <2> QED
    BY <1>1, <1>8, <2>1, <2>2 DEF PickRight, Keeps
<1> QED
  BY <1>9, <1>10, <1>11, <1>12, <1>13

\* A request leaves, and nothing has changed at the server.
LEMMA LeftRight ==
  ASSUME Types, Right, NEW i \in DOMAIN calls, NEW then \in Seq({"select", "list"}),
         NEW selected, Continue(i, then, selected),
         Tame /\ CallsRight /\ GridRight => GridRight',
         combined' \subseteq combined,
         viewer' = viewer \/ (viewer # NoViewer /\ viewer' = [viewer EXCEPT !.phase = "deleted"]),
         calls[i].kind = "deletePage" /\ calls[i].ok =>
           /\ viewer' = NoViewer \/ viewer'.phase = "deleted"
           /\ <<calls[i].job, calls[i].page>> \notin combined'
  PROVE  Right'
<1> SUFFICES ASSUME Tame' PROVE (CallsRight /\ ScansRight /\ GridRight /\ ViewerRight /\ PicksRight)'
  BY DEF Right
<1>1. UNCHANGED <<scene, server, picked, shifted, lost>>
  BY DEF Continue
<1>2. Tame /\ CallsRight /\ ScansRight /\ GridRight /\ ViewerRight /\ PicksRight
  BY <1>1 DEF Tame, Right
<1>3. PICK c, n : c = calls[i] /\ n = Len(calls)
  OBVIOUS
<1>4. c \in Call /\ n \in Nat /\ DOMAIN calls = 1 .. n
  BY <1>3, CallFacts
<1>5. /\ \A k \in 1 .. n - 1 : /\ k \in DOMAIN calls' /\ calls'[k] = calls[Old(i, k)]
                               /\ Old(i, k) \in DOMAIN calls \ {i}
      /\ \A k \in DOMAIN calls \ {i} : \E m \in 1 .. n - 1 : Old(i, m) = k
  BY <1>3, Left
<1>6. \/ DOMAIN calls' = 1 .. n - 1
      \/ DOMAIN calls' = 1 .. n /\ calls'[n] = Reload(c, then) /\ then # <<>>
  BY <1>3, Left
<1>7. \A k \in DOMAIN calls' : \/ \E m \in DOMAIN calls \ {i} : calls'[k] = calls[m]
                               \/ calls'[k].kind \in {"select", "list"} /\ ~calls'[k].ok
  <2>1. \A k \in DOMAIN calls' : k \in 1 .. n - 1 \/ (k = n /\ calls'[n] = Reload(c, then) /\ then # <<>>)
    BY <1>4, <1>6
  <2>2. then # <<>> => /\ Reload(c, then).kind \in {"select", "list"}
                       /\ ~Reload(c, then).ok
    BY <1>4, ReloadFacts
  <2> QED
    BY <1>5, <2>1, <2>2
<1>8. \A k \in DOMAIN calls \ {i} : \E m \in DOMAIN calls' : calls'[m] = calls[k]
  BY <1>5
<1>9. /\ \A j, p : Scanned(j, p)' = Scanned(j, p) /\ ImageAt(j, p)' = ImageAt(j, p)
      /\ \A j : There(j)' = There(j)
  BY <1>1 DEF Scanned, ImageAt, There
<1>10. CallsRight'
  <2> SUFFICES ASSUME NEW k \in DOMAIN calls' PROVE CallRight(calls[k])'
    BY DEF CallsRight
  <2>1. PICK d : d = calls'[k]
    OBVIOUS
  <2>2. CallRight(d)
    BY <1>2, <1>7, <2>1 DEF CallsRight, CallRight
  <2>3. CallRight(d)'
    BY <1>1, <1>9, <2>2 DEF CallRight, RightPage
  <2> QED
    BY <2>1, <2>3
<1>11. ScansRight' /\ GridRight'
  BY <1>1, <1>2 DEF ScansRight
\* At most one deletion is on its way.
<1>12. \A k \in DOMAIN calls \ {i} : calls[k].kind = "deletePage" => c.kind # "deletePage"
  <2>1. \A k \in DOMAIN calls : calls[k].kind = "deletePage" => calls[k].busy
    BY CallFacts DEF Proper, Acts
  <2> QED
    BY <1>3, <2>1 DEF Types, CallTypes, OneAction
<1>13. ViewerRight'
  <2> SUFFICES ASSUME viewer # NoViewer, viewer' # NoViewer PROVE ViewerRight'
    BY DEF ViewerRight
  <2>1. PICK v : v = viewer
    OBVIOUS
  <2>0. v.job = viewer'.job /\ v.page = viewer'.page /\ v.img = viewer'.img
    BY <2>1 DEF Types, PageTypes, Viewer
  <2>2. /\ Scanned(v.job, v.page) /\ \A k \in DOMAIN calls : calls[k].kind # "deleteJob"
        /\ \/ \E k \in DOMAIN calls : calls[k].kind = "deletePage" /\ calls[k].ok
           \/ v.phase = "deleted"
           \/ RightPage(v.job, v.page, v.img)
    BY <1>2, <2>1 DEF ViewerRight
  <2>3. \A k \in DOMAIN calls' : calls'[k].kind # "deleteJob"
    BY <1>7, <2>2
  <2>4. ASSUME viewer'.phase # "deleted"
        PROVE  /\ v = viewer' /\ v.phase # "deleted"
               /\ \A k \in DOMAIN calls : calls[k].kind = "deletePage" /\ calls[k].ok => k # i
    BY <1>3, <2>1, <2>4 DEF Types, PageTypes, Viewer
  <2>5. \/ \E k \in DOMAIN calls' : calls'[k].kind = "deletePage" /\ calls'[k].ok
        \/ viewer'.phase = "deleted"
        \/ RightPage(v.job, v.page, v.img)
    BY <1>8, <2>2, <2>4
  <2>6. RightPage(v.job, v.page, v.img) => RightPage(v.job, v.page, v.img)'
    BY <1>1, <1>9 DEF RightPage
  <2>7. Scanned(v.job, v.page)'
    BY <1>9, <2>2
  <2> QED
    BY <2>0, <2>3, <2>5, <2>6, <2>7 DEF ViewerRight, RightPage
<1>14. PicksRight'
  <2> SUFFICES ASSUME NEW k \in combined' PROVE PickRight(k)'
    BY DEF PicksRight
  <2>1. PickRight(k)
    BY <1>2 DEF PicksRight
  <2>2. Deleted(k) => Deleted(k)'
    <3>1. ASSUME NEW m \in DOMAIN calls, calls[m].kind = "deletePage", calls[m].ok,
                 <<calls[m].job, calls[m].page>> = k
          PROVE  Deleted(k)'
      <4>1. m # i
        BY <3>1
      <4>2. PICK q \in DOMAIN calls' : calls'[q] = calls[m]
        BY <1>8, <4>1
      <4> QED
        BY <3>1, <4>2 DEF Deleted
    <3> QED
      BY <3>1 DEF Deleted
  <2> QED
    BY <1>1, <1>9, <2>1, <2>2 DEF PickRight
<1> QED
  BY <1>10, <1>11, <1>13, <1>14

LEMMA ReturnRight ==
  ASSUME Types, Right, NEW i \in DOMAIN calls, Return(i)
  PROVE  Right'
<1> DEFINE c == calls[i]
<1>1. c \in Call /\ c.then \in Seq({"select", "list"})
  BY CallFacts DEF Call
<1>7. ASSUME UNCHANGED <<server, lost, shown>>, GridRight PROVE GridRight'
  BY <1>7 DEF GridRight, Loaded, Scanned, ImageAt, There
<1>2. ASSUME NEW then \in Seq({"select", "list"}), NEW selected, Continue(i, then, selected),
             c.kind # "deletePage", UNCHANGED <<viewer, combined>>,
             shown' \in {shown, EmptyGrid}
      PROVE  Right'
  <2>1. GridRight => GridRight'
    <3>1. UNCHANGED <<server, lost>>
      BY <1>2 DEF Continue
    <3> QED
      BY <1>2, <1>7, <3>1 DEF GridRight, EmptyGrid
  <2> QED
    BY <1>2, <2>1, LeftRight
<1>3. CASE EditReturns(i) \/ ListReturns(i) \/ StartReturns(i) \/ PollReturns(i)
  <2>1. PICK then \in Seq({"select", "list"}) : Continue(i, then, sel)
    BY <1>1, <1>3, Reloads DEF EditReturns, ListReturns, StartReturns, PollReturns
  <2>2. c.kind # "deletePage" /\ UNCHANGED <<viewer, combined, shown>>
    BY <1>3 DEF EditReturns, ListReturns, StartReturns, PollReturns
  <2> QED
    BY <1>2, <2>1, <2>2
<1>4. CASE DeleteJobReturns(i)
  <2>1. /\ Continue(i, c.then, IF c.ok THEN NoJob ELSE sel) /\ c.kind # "deletePage"
        /\ shown' \in {shown, EmptyGrid} /\ UNCHANGED <<viewer, combined>>
    BY <1>4 DEF DeleteJobReturns, Emptied
  <2> QED
    BY <1>1, <1>2, <2>1
<1>5. CASE SelectReturns(i)
  <2>1. /\ c.kind = "select" /\ Continue(i, c.then, sel)
        /\ shown' \in IF c.ok THEN Rendered(c.job, c.count) ELSE {shown}
        /\ UNCHANGED <<viewer, combined>>
    BY <1>5 DEF SelectReturns
  <2>2. CallsRight /\ GridRight => GridRight'
    <3>1. UNCHANGED <<server, lost>> /\ c.job \in Jobs \cup {NoJob} /\ c.count \in 0 .. MaxPages
      BY <1>1, <2>1 DEF Continue, Call
    <3>2. CallsRight /\ c.ok => Scanned(c.job, c.count)
      BY <2>1 DEF CallsRight, CallRight
    <3>3. CASE c.ok
      BY <2>1, <3>1, <3>2, <3>3, RenderedRight
    <3>4. CASE ~c.ok
      BY <1>7, <2>1, <3>1, <3>4
    <3> QED
      BY <3>3, <3>4
  <2> QED
    BY <1>1, <2>1, <2>2, LeftRight
<1>6. CASE DeletePageReturns(i)
  <2>1. /\ c.kind = "deletePage" /\ Continue(i, c.then, sel) /\ UNCHANGED shown
        /\ IF c.ok THEN /\ combined' = combined \ {<<c.job, c.page>>}
                        /\ viewer' = IF viewer = NoViewer THEN viewer
                                     ELSE [viewer EXCEPT !.phase = "deleted"]
                   ELSE UNCHANGED <<combined, viewer>>
    BY <1>6 DEF DeletePageReturns, Without
  <2>2. GridRight => GridRight'
    <3>1. UNCHANGED <<server, lost>>
      BY <2>1 DEF Continue
    <3> QED
      BY <1>7, <2>1, <3>1
  <2>3. c.ok => viewer' = NoViewer \/ viewer'.phase = "deleted"
    BY <2>1 DEF Types, PageTypes, Viewer
  <2> QED
    BY <1>1, <2>1, <2>2, <2>3, LeftRight
<1> QED
  BY <1>3, <1>4, <1>5, <1>6 DEF Return

THEOREM RightInductive == Types /\ Right /\ [Next]_vars => Right'
<1> SUFFICES ASSUME Types, Right, [Next]_vars PROVE Right'
  OBVIOUS
<1>1. CASE User
  BY <1>1, ClicksRight
<1>6. CASE Browser
  BY <1>6, QuietRight
<1>2. CASE Tick
  BY <1>2, TickRight
<1>3. CASE \E i \in DOMAIN calls : Answer(i) \/ Return(i)
  BY <1>3, AnswerRight, ReturnRight
<1>4. CASE ServerScans
  BY <1>4, ServerScansRight
<1>5. CASE UNCHANGED vars
  <2>1. UNCHANGED <<scene, server, lost, calls, shown, viewer, combined, picked, shifted>>
    BY <1>5 DEF vars
  <2>2. \A j, n : Scanned(j, n)' = Scanned(j, n) /\ ImageAt(j, n)' = ImageAt(j, n)
                 /\ There(j)' = There(j)
    BY <2>1 DEF Scanned, ImageAt, There
  <2>3. /\ GridRight => GridRight'
        /\ ViewerRight => ViewerRight'
        /\ PicksRight => PicksRight'
    BY <2>1, <2>2 DEF GridRight, Loaded, ViewerRight, RightPage, PicksRight, PickRight, Deleted
  <2> QED
    BY <2>1, <2>3, RestRight
<1> QED
  BY <1>1, <1>2, <1>3, <1>4, <1>5, <1>6 DEF Next

THEOREM RightInvariance == Spec => []Right
<1>1. Init => Types /\ Right
  BY FirstTypes, FirstRight
<1>2. Types /\ Right /\ [Next]_vars => Types' /\ Right'
  BY TypesInductive, RightInductive
<1> QED
  BY <1>1, <1>2, PTL DEF Spec

\* As long as the pages of a running scan are left alone, a request to edit or
\* delete a page reaches the server while its number is still that of the page
\* the viewer was opened on (withBusy, app.js:33-50) - unless the click came
\* while the viewer of a page already deleted was fading out (app.js:520, 682),
\* or the answer to a deletion of the scan has been lost.
THEOREM EditsAreOfTheViewedPage == Spec => [](Tame => EditsHitTheViewedPage)
<1>1. Right => (Tame => EditsHitTheViewedPage)
  BY DEF Right, CallsRight, CallRight, RightPage, EditsHitTheViewedPage
<1> QED
  BY RightInvariance, <1>1, PTL

\* And a page in the combine selection is the one whose image was on display
\* when it was picked, as long as no page before it has been deleted since
\* (app.js:516-518), and it was not picked from thumbnails that a deletion had
\* outdated, or from a viewer fading out after one.
THEOREM PicksAreKept == Spec => [](Tame => SelectionShowsWhatWasPicked)
<1>1. Right => (Tame => SelectionShowsWhatWasPicked)
  BY DEF Right, PicksRight, PickRight, Deleted, SelectionShowsWhatWasPicked
<1> QED
  BY RightInvariance, <1>1, PTL


-------------------------------------------------------------------------------
(* The selection and the grid *)

\* The answers arrive in the order of the requests, and nothing fails.
Orderly == scene.ordered /\ scene.failures = 0 /\ "start" \notin scene.does

\* What follows a request, and what its answer can be: a scan is selected only
\* while it is there.
CallSettled(c) ==
  /\ c.kind \notin Watching
  /\ c.kind \in {"reorder", "edit"} => c.then = <<"select">>
  /\ c.kind = "deletePage" => c.then = <<"select", "list">>
  /\ c.kind \in {"rename", "deleteJob"} => c.then = <<"list">>
  /\ c.kind \in {"list", "combine"} => c.then = <<>>
  /\ c.kind = "select" => c.then \in {<<>>, <<"list">>}
  /\ c.kind = "select" => IF c.answered THEN c.ok ELSE There(c.job)
  /\ c.kind = "list" /\ c.answered => c.ok
  /\ c.kind \in {"reorder", "edit", "deletePage"} /\ c.ok => There(c.job)
CallsSettled == \A i \in DOMAIN calls : CallSettled(calls[i])

\* No scan is selected from the time its deletion is asked for.
InTurn ==
  /\ \A i, k \in DOMAIN calls : i < k /\ calls[k].answered => calls[i].answered
  /\ \A i, k \in DOMAIN calls : calls[i].kind = "deleteJob" /\ calls[k].kind = "select" => k < i

\* The scan that is selected is the one that was asked for last.
Newest ==
  /\ \A i \in DOMAIN calls :
       /\ calls[i].kind = "select"
       /\ \A k \in DOMAIN calls : calls[k].kind = "select" => k <= i
       => calls[i].job = sel
  /\ (\A i \in DOMAIN calls : calls[i].kind # "select") => shown.job = sel

\* The scans listed are there, and so are those of the lists on their way, but
\* for the time between a deletion and the list that follows it.
IsList(c) == c.kind = "list" /\ c.answered
Deletes(c) == (c.kind = "deleteJob" /\ c.ok) \/ (c.kind = "list" /\ c.busy)
AllThere(jobs) == \A j \in jobs : There(j)
ListsRight ==
  /\ \A i, k \in DOMAIN calls :
       i <= k /\ calls[i].kind = "list" /\ calls[i].busy /\ IsList(calls[k])
         => AllThere(calls[k].jobs)
  /\ (\A i \in DOMAIN calls : ~Deletes(calls[i])) =>
       AllThere(listed) /\ \A k \in DOMAIN calls : IsList(calls[k]) => AllThere(calls[k].jobs)

Settled == Orderly => /\ timer = NoJob /\ failures = 0
                      /\ CallsSettled /\ InTurn /\ Newest /\ ListsRight


LEMMA FirstSettled == ASSUME Init PROVE Settled
<1>1. DOMAIN calls = {} /\ timer = NoJob /\ shown.job = sel /\ failures = scene.failures
  BY DEF Init, EmptyGrid
<1>2. AllThere(listed)
  <2>1. scene \in Scene /\ listed = scene.scans
    BY SceneAssumption DEF Init
  <2>2. \A j \in listed : j \in Jobs /\ server[j].status = "over"
    BY <2>1 DEF Init, Scene
  <2> QED
    BY <2>2 DEF AllThere, There
<1> QED
  BY <1>1, <1>2 DEF Settled, Orderly, CallsSettled, InTurn, Newest, ListsRight

\* The scans stay, and so does what has been asked for and shown.
LEMMA Unsettled ==
  ASSUME Settled, UNCHANGED <<scene, failures, calls, sel, shown.job, listed, timer>>,
         \A j : There(j)' = There(j)
  PROVE  Settled'
<1> SUFFICES ASSUME Orderly' PROVE (/\ timer = NoJob /\ failures = 0 /\ CallsSettled
                                    /\ InTurn /\ Newest /\ ListsRight)'
  BY DEF Settled
<1>1. Orderly /\ CallsSettled /\ InTurn /\ Newest /\ ListsRight /\ timer = NoJob /\ failures = 0
  BY DEF Settled, Orderly
<1>2. \A c : CallSettled(c) => CallSettled(c)'
  BY DEF CallSettled
<1>3. \A jobs : AllThere(jobs)' = AllThere(jobs)
  BY DEF AllThere
<1>4. CallsSettled'
  <2> SUFFICES ASSUME NEW i \in DOMAIN calls PROVE CallSettled(calls[i])'
    BY DEF CallsSettled
  <2>1. PICK c : c = calls[i]
    OBVIOUS
  <2> QED
    BY <1>1, <1>2, <2>1 DEF CallsSettled
<1>5. InTurn' /\ Newest'
  BY <1>1 DEF InTurn, Newest
<1>6. ListsRight'
  BY <1>1, <1>3 DEF ListsRight, IsList, Deletes
<1> QED
  BY <1>1, <1>4, <1>5, <1>6

LEMMA RenderedKeepsJob ==
  ASSUME Types, shown' \in Rendered(shown.job, shown.count)
  PROVE  UNCHANGED shown.job
<1>1. /\ shown.job \in Jobs \cup {NoJob} /\ shown.count \in 0 .. MaxPages
      /\ (shown.count > 0 => shown.job \in Jobs)
  BY DEF Types, PageTypes, Grid
<1> QED
  BY <1>1, RenderedTypes

\* One more request: a scan that is there is selected, or nothing is.
LEMMA SentSettled ==
  ASSUME Types, Settled, NEW c, calls' = Append(calls, c),
         ~c.answered, ~c.ok, Orderly => CallSettled(c),
         Orderly /\ c.kind = "select" => /\ sel' = c.job
                                         /\ \A i \in DOMAIN calls : calls[i].kind # "deleteJob",
         c.kind # "select" => UNCHANGED sel, c.kind # "list",
         UNCHANGED <<scene, failures, server, shown, listed, timer>>
  PROVE  Settled'
<1> SUFFICES ASSUME Orderly' PROVE (/\ timer = NoJob /\ failures = 0 /\ CallsSettled
                                    /\ InTurn /\ Newest /\ ListsRight)'
  BY DEF Settled
<1>1. Orderly /\ CallsSettled /\ InTurn /\ Newest /\ ListsRight /\ timer = NoJob /\ failures = 0
  BY DEF Settled, Orderly
<1>2. IsSeq(calls)
  BY RangeSeq DEF Types, CallTypes
<1>3. PICK n : n = Len(calls)
  OBVIOUS
<1>4. /\ n \in Nat /\ DOMAIN calls = 1 .. n /\ DOMAIN calls' = 1 .. n + 1
      /\ \A i \in 1 .. n : calls'[i] = calls[i]
      /\ calls'[n + 1] = c
  BY <1>2, <1>3, AppendIsSeq, SeqFacts
<1>5. /\ \A i \in DOMAIN calls' : i \in 1 .. n \/ i = n + 1
      /\ \A i \in 1 .. n : i \in DOMAIN calls' /\ ~(n + 1 <= i) /\ i <= n + 1
      /\ n + 1 \in DOMAIN calls'
  BY <1>4
<1>6. \A j : There(j)' = There(j)
  BY DEF There
<1>7. CallsSettled'
  <2> SUFFICES ASSUME NEW i \in DOMAIN calls' PROVE CallSettled(calls[i])'
    BY DEF CallsSettled
  <2>1. PICK d : d = calls'[i]
    OBVIOUS
  <2>2. CallSettled(d)
    BY <1>1, <1>4, <1>5, <2>1 DEF CallsSettled
  <2>3. CallSettled(d)'
    BY <1>6, <2>2 DEF CallSettled
  <2> QED
    BY <2>1, <2>3
<1>8. InTurn'
  <2>1. ASSUME NEW i \in DOMAIN calls', NEW k \in DOMAIN calls', i < k, calls'[k].answered
        PROVE  calls'[i].answered
    <3>1. k \in 1 .. n
      BY <1>4, <1>5, <2>1
    <3>2. i \in 1 .. n
      BY <1>4, <1>5, <2>1, <3>1
    <3> QED
      BY <1>1, <1>4, <2>1, <3>1, <3>2 DEF InTurn
  <2>2. ASSUME NEW i \in DOMAIN calls', NEW k \in DOMAIN calls', calls'[i].kind = "deleteJob",
               calls'[k].kind = "select"
        PROVE  k < i
    <3>1. CASE i \in 1 .. n
      <4>1. k \in 1 .. n
        BY <1>1, <1>4, <1>5, <2>2, <3>1
      <4> QED
        BY <1>1, <1>4, <2>2, <3>1, <4>1 DEF InTurn
    <3>2. CASE i = n + 1
      <4>1. k \in 1 .. n
        BY <1>4, <1>5, <2>2, <3>2
      <4> QED
        BY <1>4, <3>2, <4>1
    <3> QED
      BY <1>5, <3>1, <3>2
  <2> QED
    BY <2>1, <2>2 DEF InTurn
<1>9. Newest'
  <2>1. CASE c.kind = "select"
    <3>1. ASSUME NEW i \in DOMAIN calls', \A k \in DOMAIN calls' : calls'[k].kind = "select" => k <= i
          PROVE  i = n + 1
      BY <1>4, <1>5, <2>1, <3>1
    <3> QED
      BY <1>1, <1>4, <1>5, <2>1, <3>1 DEF Newest
  <2>2. CASE c.kind # "select"
    <3>1. \A i \in DOMAIN calls' : calls'[i].kind = "select" => i \in DOMAIN calls /\ calls[i] = calls'[i]
      BY <1>4, <1>5, <2>2
    <3>2. \A i \in DOMAIN calls : i \in DOMAIN calls' /\ calls[i] = calls'[i]
      BY <1>4, <1>5
    <3> QED
      BY <1>1, <2>2, <3>1, <3>2 DEF Newest
  <2> QED
    BY <2>1, <2>2
<1>10. ListsRight'
  <2>1. \A jobs : AllThere(jobs)' = AllThere(jobs)
    BY <1>6 DEF AllThere
  <2>2. \A i \in DOMAIN calls' : calls'[i].kind = "list" => i \in 1 .. n
    BY <1>4, <1>5
  <2> QED
    BY <1>1, <1>4, <1>5, <2>1, <2>2 DEF ListsRight, IsList, Deletes
<1> QED
  BY <1>1, <1>7, <1>8, <1>9, <1>10


\* Nothing is being deleted when the user clicks: every scan listed is there.
LEMMA ClickSettled ==
  ASSUME Types, Settled, NEW event, NEW inViewer, Clicks(event, inViewer)
  PROVE  /\ \A i \in DOMAIN calls : calls[i].kind # "deleteJob"
         /\ Orderly => AllThere(listed)
<1>1. \A i \in DOMAIN calls : ~calls[i].busy /\ (calls[i].kind = "deleteJob" => calls[i].busy)
  BY ClickFacts, CallFacts DEF Proper, Acts
<1> QED
  BY <1>1 DEF Settled, ListsRight, Deletes

LEMMA ClicksSettled == ASSUME Types, Settled, User PROVE Settled'
\* The requests of an action, and what follows them.
<1>1. ASSUME NEW event, NEW inViewer, Clicks(event, inViewer), NEW c, NEW d,
             SendBusy(c), d = [c EXCEPT !.busy = TRUE],
             ~d.answered, ~d.ok, d.kind \in Acts, UNCHANGED <<page, selection, progress>>,
             \/ d.kind \in {"reorder", "edit"} /\ d.then = <<"select">>
             \/ d.kind = "deletePage" /\ d.then = <<"select", "list">>
             \/ d.kind = "deleteJob" /\ d.then = <<"list">>
             \/ d.kind = "combine" /\ d.then = <<>>
      PROVE  Settled'
  <2>1. /\ calls' = Append(calls, d)
        /\ UNCHANGED <<scene, failures, server, sel, shown, listed, timer>>
    BY <1>1, ClickFacts DEF SendBusy, Send, page, progress
  <2>2. CallSettled(d)
    BY <1>1 DEF CallSettled, Watching
  <2> QED
    BY <1>1, <2>1, <2>2, SentSettled DEF Acts
<1>6. ASSUME NEW j \in Jobs, SelectJob(j) PROVE Settled'
  <2> DEFINE c == NewCall("select", j)
  <2>1. /\ Clicks("select", FALSE) /\ j \in listed /\ sel' = j /\ calls' = Append(calls, c)
        /\ UNCHANGED <<listed, shown, timer>>
    BY <1>6 DEF SelectJob, Send, progress
  <2>2. /\ UNCHANGED <<scene, failures, server>>
        /\ \A i \in DOMAIN calls : calls[i].kind # "deleteJob"
        /\ Orderly => There(j)
    BY <2>1, ClickFacts, ClickSettled DEF AllThere
  <2>3. c.kind = "select" /\ c.job = j /\ c.then = <<>> /\ ~c.answered /\ ~c.ok
    BY DEF NewCall
  <2> HIDE DEF c
  <2>4. Orderly => CallSettled(c)
    BY <2>2, <2>3 DEF CallSettled, Watching
  <2> QED
    BY <2>1, <2>2, <2>3, <2>4, SentSettled
<1>7. CASE RenameJob
  <2> DEFINE c == [NewCall("rename", sel) EXCEPT !.then = <<"list">>]
  <2>1. c.kind = "rename" /\ c.then = <<"list">> /\ ~c.answered /\ ~c.ok
    BY DEF NewCall
  <2>2. /\ Clicks("rename", FALSE) /\ calls' = Append(calls, c)
        /\ UNCHANGED <<sel, listed, shown, timer>>
    BY <1>7 DEF RenameJob, Send, page, progress
  <2> HIDE DEF c
  <2>3. CallSettled(c)
    BY <2>1 DEF CallSettled, Watching
  <2>4. UNCHANGED <<scene, failures, server>>
    BY <2>2, ClickFacts
  <2> QED
    BY <2>1, <2>2, <2>3, <2>4, SentSettled
<1>8. CASE CommitReorder
  <2> DEFINE c == [NewCall("reorder", sel) EXCEPT !.then = <<"select">>]
             d == [c EXCEPT !.busy = TRUE]
  <2>1. d.kind = "reorder" /\ d.then = <<"select">> /\ ~d.answered /\ ~d.ok
    BY DEF NewCall
  <2>2. Clicks("reorder", FALSE) /\ SendBusy(c) /\ UNCHANGED <<page, selection, progress>>
    BY <1>8 DEF CommitReorder
  <2>3. d = [c EXCEPT !.busy = TRUE]
    OBVIOUS
  <2> HIDE DEF c, d
  <2> QED
    BY <1>1, <2>1, <2>2, <2>3 DEF Acts
<1>9. CASE DeleteJob
  <2> DEFINE c == [NewCall("deleteJob", sel) EXCEPT !.then = <<"list">>]
             d == [c EXCEPT !.busy = TRUE]
  <2>1. d.kind = "deleteJob" /\ d.then = <<"list">> /\ ~d.answered /\ ~d.ok
    BY DEF NewCall
  <2>2. Clicks("deleteJob", FALSE) /\ SendBusy(c) /\ UNCHANGED <<page, selection, progress>>
    BY <1>9 DEF DeleteJob
  <2>3. d = [c EXCEPT !.busy = TRUE]
    OBVIOUS
  <2> HIDE DEF c, d
  <2> QED
    BY <1>1, <2>1, <2>2, <2>3 DEF Acts
<1>10. CASE EditCurrentPage
  <2> DEFINE c == [ViewerCall("edit") EXCEPT !.then = <<"select">>]
             d == [c EXCEPT !.busy = TRUE]
  <2>1. d.kind = "edit" /\ d.then = <<"select">> /\ ~d.answered /\ ~d.ok
    BY DEF ViewerCall, NewCall
  <2>2. Clicks("edit", TRUE) /\ SendBusy(c) /\ UNCHANGED <<page, selection, progress>>
    BY <1>10 DEF EditCurrentPage
  <2>3. d = [c EXCEPT !.busy = TRUE]
    OBVIOUS
  <2> HIDE DEF c, d
  <2> QED
    BY <1>1, <2>1, <2>2, <2>3 DEF Acts
<1>11. CASE DeleteCurrentPage
  <2> DEFINE c == [ViewerCall("deletePage") EXCEPT !.then = <<"select", "list">>]
             d == [c EXCEPT !.busy = TRUE]
  <2>1. d.kind = "deletePage" /\ d.then = <<"select", "list">> /\ ~d.answered /\ ~d.ok
    BY DEF ViewerCall, NewCall
  <2>2. Clicks("deletePage", TRUE) /\ SendBusy(c) /\ UNCHANGED <<page, selection, progress>>
    BY <1>11 DEF DeleteCurrentPage
  <2>3. d = [c EXCEPT !.busy = TRUE]
    OBVIOUS
  <2> HIDE DEF c, d
  <2> QED
    BY <1>1, <2>1, <2>2, <2>3 DEF Acts
<1>12. CASE Combine
  <2>1. PICK keys : SendBusy([NewCall("combine", NoJob) EXCEPT !.keys = keys])
    BY <1>12 DEF Combine
  <2> DEFINE c == [NewCall("combine", NoJob) EXCEPT !.keys = keys]
             d == [c EXCEPT !.busy = TRUE]
  <2>2. d.kind = "combine" /\ d.then = <<>> /\ ~d.answered /\ ~d.ok
    BY DEF NewCall
  <2>3. Clicks("combine", FALSE) /\ SendBusy(c) /\ UNCHANGED <<page, selection, progress>>
    BY <1>12, <2>1 DEF Combine
  <2>4. d = [c EXCEPT !.busy = TRUE]
    OBVIOUS
  <2> HIDE DEF c, d
  <2> QED
    BY <1>1, <2>2, <2>3, <2>4 DEF Acts
<1>13. CASE StartScan
  BY <1>13 DEF StartScan, Clicks, Settled, Orderly
\* Clicks that send nothing.
<1>14. CASE (\E n \in Numbers : OpenPageViewer(n) \/ ToggleCombine(n))
            \/ CloseViewer \/ ToggleViewed \/ RemoveFromCombine
  <2>1. PICK event, inViewer : Clicks(event, inViewer)
    BY <1>14 DEF OpenPageViewer, ToggleCombine, CloseViewer, ToggleViewed, RemoveFromCombine
  <2>2. /\ UNCHANGED <<calls, sel, listed, timer>>
        /\ UNCHANGED shown \/ shown' \in Rendered(shown.job, shown.count)
    BY <1>14 DEF OpenPageViewer, ToggleCombine, CloseViewer, ToggleViewed, RemoveFromCombine,
                 Toggle, progress
  <2>3. UNCHANGED <<scene, failures, server>>
    BY <2>1, ClickFacts
  <2>4. UNCHANGED shown.job
    BY <2>2, RenderedKeepsJob
  <2> QED
    BY <2>2, <2>3, <2>4, Unsettled DEF There
<1> QED
  BY <1>6, <1>7, <1>8, <1>9, <1>10, <1>11, <1>12, <1>13, <1>14 DEF User

\* The browser by itself puts no other scan on show.
LEMMA BrowserSettled == ASSUME Types, Settled, Browser PROVE Settled'
<1>1. /\ UNCHANGED <<scene, failures, server, calls, sel, listed, timer>>
      /\ UNCHANGED shown \/ shown' \in Rendered(shown.job, shown.count)
  BY DEF Browser, DragEnds, ViewerHidden, progress
<1>2. UNCHANGED shown.job
  BY <1>1, RenderedKeepsJob
<1> QED
  BY <1>1, <1>2, Unsettled DEF There

\* No scan is being watched, and none goes on.
LEMMA IdleSettled == ASSUME Types, Settled, Tick \/ ServerScans PROVE Settled'
<1>1. CASE Tick
  BY <1>1 DEF Tick, Settled, Orderly
<1>2. CASE ServerScans
  <2>1. UNCHANGED <<scene, failures, calls, sel, shown, listed, timer>>
    BY <1>2 DEF ServerScans, page, progress
  <2>2. PICK j \in Jobs :
          /\ server[j].status = "running"
          /\ server' = [server EXCEPT ![j] =
                       IF Len(server[j].pages) < MaxPages
                       THEN [server[j] EXCEPT !.pages = Append(server[j].pages,
                                                               <<j, Len(server[j].pages) + 1>>)]
                       ELSE [server[j] EXCEPT !.status = "over"]]
    BY <1>2 DEF ServerScans
  <2>3. server \in [Jobs -> Scan] /\ server[j] \in Scan
    BY DEF Types, ServerTypes
  <2>4. /\ server'[j].status \in {"running", "over"}
        /\ \A k \in Jobs \ {j} : server'[k] = server[k]
    BY <2>2, <2>3 DEF Scan
  <2>5. \A k : There(k)' = There(k)
    BY <2>2, <2>3, <2>4 DEF There
  <2> QED
    BY <2>1, <2>5, Unsettled
<1> QED
  BY <1>1, <1>2


\* A deletion is the only request that takes a scan away.
LEMMA EffectSettled ==
  ASSUME Types, NEW c, c.kind # "start", NEW after \in Effects(c), server' = after
  PROVE  c.kind # "deleteJob" => \A j : There(j)' = There(j)
<1>1. server \in [Jobs -> Scan]
  BY DEF Types, ServerTypes
<1>2. CASE c.kind = "deletePage"
  <2>1. after = [server EXCEPT ![c.job].pages = Renumbered(@, c.page)]
    BY <1>2 DEF Effects
  <2>2. \A j \in Jobs : after[j].status = server[j].status
    BY <1>1, <2>1 DEF Scan
  <2> QED
    BY <2>2 DEF There
<1>3. CASE c.kind \notin {"deletePage", "deleteJob"}
  BY <1>3 DEF Effects, There
<1> QED
  BY <1>2, <1>3

LEMMA AnswerSettled == ASSUME Types, Settled, NEW i \in DOMAIN calls, Answer(i) PROVE Settled'
<1> SUFFICES ASSUME Orderly' PROVE (/\ timer = NoJob /\ failures = 0 /\ CallsSettled
                                    /\ InTurn /\ Newest /\ ListsRight)'
  BY DEF Settled
<1>1. UNCHANGED <<scene, sel, shown.job, listed, timer>>
  <2>1. UNCHANGED <<scene, sel, listed, timer>>
    BY DEF Answer, progress
  <2>2. shown' = shown \/ shown' = [shown EXCEPT !.stale = TRUE]
    BY DEF Answer, Outdates
  <2>3. shown \in Grid
    BY DEF Types, PageTypes
  <2> QED
    BY <2>1, <2>2, <2>3 DEF Grid
<1>2. Orderly /\ CallsSettled /\ InTurn /\ Newest /\ ListsRight /\ timer = NoJob /\ failures = 0
  BY <1>1 DEF Settled, Orderly
<1>3. PICK c : c = calls[i]
  OBVIOUS
<1>4. /\ c \in Call /\ CallSettled(c) /\ ~c.answered /\ ~c.ok
      /\ \A k \in 1 .. i - 1 : calls[k].answered
  <2>1. c \in Proper
    BY <1>3, CallFacts
  <2> QED
    BY <1>2, <1>3, <2>1 DEF Answer, Proper, CallsSettled, Orderly
<1>5. PICK x : /\ calls' = [calls EXCEPT ![i] = x]
               /\ \/ /\ Granted(c)
                     /\ \E after \in Effects(c) : server' = after /\ x = Reply(c, after)
                  \/ ~Granted(c) /\ UNCHANGED server /\ x = [c EXCEPT !.answered = TRUE]
               /\ failures' = 0
  <2>1. ~(failures > 0)
    BY <1>2
  <2> QED
    BY <1>2, <1>3, <2>1 DEF Answer
<1>6. /\ x.kind = c.kind /\ x.job = c.job /\ x.then = c.then /\ x.busy = c.busy /\ x.answered
      /\ Granted(c) => x.ok /\ x.jobs = {j \in Jobs : There(j)}
      /\ ~Granted(c) => ~x.ok
  <2>1. c.kind # "start"
    BY <1>4 DEF CallSettled, Watching
  <2>2. CASE Granted(c)
    <3>1. PICK after : x = Reply(c, after)
      BY <1>5, <2>2
    <3>2. /\ x.kind = c.kind /\ x.job = c.job /\ x.then = c.then /\ x.busy = c.busy
          /\ x.answered /\ x.ok /\ x.jobs = {j \in Jobs : There(j)}
      BY <1>4, <2>1, <3>1 DEF Reply, Call
    <3> QED
      BY <2>2, <3>2
  <2>3. CASE ~Granted(c)
    <3>1. x = [c EXCEPT !.answered = TRUE]
      BY <1>5, <2>3
    <3>2. /\ x.kind = c.kind /\ x.job = c.job /\ x.then = c.then /\ x.busy = c.busy
          /\ x.answered /\ ~x.ok
      BY <1>4, <3>1 DEF Call
    <3> QED
      BY <2>3, <3>2
  <2> QED
    BY <2>2, <2>3
<1>7. /\ c.kind # "deleteJob" => \A j : There(j)' = There(j)
      /\ ~Granted(c) => \A j : There(j)' = There(j)
  <2>1. c.kind # "start"
    BY <1>4 DEF CallSettled, Watching
  <2>2. ~Granted(c) => \A j : There(j)' = There(j)
    BY <1>5 DEF There
  <2> QED
    BY <1>5, <2>1, <2>2, EffectSettled
<1>8. /\ Len(calls) \in Nat /\ DOMAIN calls = 1 .. Len(calls) /\ DOMAIN calls' = DOMAIN calls
      /\ calls'[i] = x
      /\ \A k \in DOMAIN calls : k # i => calls'[k] = calls[k]
  BY <1>5, CallFacts DEF Types, CallTypes
\* While a scan is being deleted no other action is under way.
<1>9. c.kind = "deleteJob" =>
        \A k \in DOMAIN calls \ {i} : ~calls[k].busy /\ calls[k].kind \notin Acts
  <2>1. \A k \in DOMAIN calls : calls[k].kind \in Acts => calls[k].busy
    BY CallFacts DEF Proper
  <2> QED
    BY <1>3, <2>1 DEF Types, CallTypes, OneAction, Acts
<1>10. CallsSettled'
  <2> SUFFICES ASSUME NEW k \in DOMAIN calls PROVE CallSettled(calls[k])'
    BY <1>8 DEF CallsSettled
  <2>1. CASE k = i
    <3>1. c.kind \in {"select", "list"} => Granted(c)
      BY <1>4 DEF CallSettled, Granted
    <3>2. c.kind \in {"select", "reorder", "edit", "deletePage"} /\ Granted(c) => There(c.job)
      BY DEF Granted, ImageAt
    <3>3. CallSettled(x)'
      BY <1>4, <1>6, <1>7, <3>1, <3>2 DEF CallSettled
    <3> QED
      BY <1>8, <2>1, <3>3
  <2>2. CASE k # i
    <3>1. PICK d : d = calls[k]
      OBVIOUS
    <3>2. CallSettled(d)
      BY <1>2, <3>1 DEF CallsSettled
    <3>3. CallSettled(d)'
      <4>1. CASE c.kind # "deleteJob"
        BY <1>7, <3>2, <4>1 DEF CallSettled
      <4>2. CASE c.kind = "deleteJob"
        <5>1. d.kind = "select" => d.answered
          <6>1. d.kind = "select" => k < i
            BY <1>2, <1>3, <3>1, <4>2 DEF InTurn
          <6> QED
            BY <1>4, <1>8, <3>1, <6>1
        <5>2. d.kind \notin {"reorder", "edit", "deletePage"}
          BY <1>9, <2>2, <3>1, <4>2 DEF Acts
        <5> QED
          BY <3>2, <5>1, <5>2 DEF CallSettled
      <4> QED
        BY <4>1, <4>2
    <3> QED
      BY <1>8, <2>2, <3>1, <3>3
  <2> QED
    BY <2>1, <2>2
<1>11. \A k \in DOMAIN calls : calls'[k].kind = calls[k].kind /\ calls'[k].job = calls[k].job
                               /\ calls'[k].busy = calls[k].busy
  BY <1>3, <1>6, <1>8
<1>12. InTurn'
  <2>1. ASSUME NEW j \in DOMAIN calls, NEW k \in DOMAIN calls, j < k, calls'[k].answered
        PROVE  calls'[j].answered
    <3>1. CASE j = i
      BY <1>6, <1>8, <3>1
    <3>2. CASE j # i /\ k = i
      BY <1>4, <1>8, <2>1, <3>2
    <3>3. CASE j # i /\ k # i
      BY <1>2, <1>8, <2>1, <3>3 DEF InTurn
    <3> QED
      BY <3>1, <3>2, <3>3
  <2> QED
    BY <1>2, <1>8, <1>11, <2>1 DEF InTurn
<1>13. Newest'
  BY <1>1, <1>2, <1>8, <1>11 DEF Newest
<1>14. ListsRight'
  <2>1. CASE c.kind = "deleteJob" /\ Granted(c)
    <3>1. Deletes(calls'[i])
      BY <1>6, <1>8, <2>1 DEF Deletes
    <3>2. \A k \in DOMAIN calls : ~(calls'[k].kind = "list" /\ calls'[k].busy)
      BY <1>3, <1>9, <1>11, <2>1
    <3> QED
      BY <1>8, <3>1, <3>2 DEF ListsRight, Deletes
  <2>2. CASE c.kind # "deleteJob" \/ ~Granted(c)
    <3>1. \A jobs : AllThere(jobs)' = AllThere(jobs)
      BY <1>7, <2>2 DEF AllThere
    <3>2. \A k \in DOMAIN calls : Deletes(calls'[k]) = Deletes(calls[k])
      <4>1. Deletes(x) = Deletes(c)
        BY <1>4, <1>6, <2>2 DEF Deletes
      <4> QED
        BY <1>3, <1>8, <4>1
    <3>3. \A k \in DOMAIN calls : IsList(calls'[k]) =>
            AllThere(calls'[k].jobs) \/ (IsList(calls[k]) /\ calls'[k].jobs = calls[k].jobs)
      <4>1. x.kind = "list" => Granted(c)
        BY <1>6 DEF Granted
      <4>2. x.kind = "list" => AllThere(x.jobs)
        BY <1>6, <4>1 DEF AllThere
      <4> QED
        BY <1>8, <4>2 DEF IsList
    <3> QED
      BY <1>1, <1>2, <1>8, <1>11, <3>1, <3>2, <3>3 DEF ListsRight, IsList, Deletes
  <2> QED
    BY <2>1, <2>2
<1> QED
  BY <1>1, <1>2, <1>5, <1>10, <1>12, <1>13, <1>14


\* A request leaves, and its reload may come last.
LEMMA LeftSettled ==
  ASSUME Types, Settled, NEW i \in DOMAIN calls, NEW c, c = calls[i],
         Continue(i, c.then, IF c.kind = "deleteJob" /\ c.ok THEN NoJob ELSE sel),
         shown'.job = IF c.kind = "select" /\ c.ok THEN c.job
                      ELSE IF c.kind = "deleteJob" /\ c.ok THEN NoJob ELSE shown.job,
         listed' = IF c.kind = "list" /\ c.ok THEN c.jobs ELSE listed,
         UNCHANGED timer
  PROVE  Settled'
<1> SUFFICES ASSUME Orderly' PROVE (/\ timer = NoJob /\ failures = 0 /\ CallsSettled
                                    /\ InTurn /\ Newest /\ ListsRight)'
  BY DEF Settled
<1> DEFINE selected == IF c.kind = "deleteJob" /\ c.ok THEN NoJob ELSE sel
<1>1. UNCHANGED <<scene, failures, server>> /\ c.answered
  BY DEF Continue
<1>2. Orderly /\ CallsSettled /\ InTurn /\ Newest /\ ListsRight /\ timer = NoJob /\ failures = 0
  BY <1>1 DEF Settled, Orderly
<1>3. i = 1
  BY <1>2 DEF Continue, Orderly
<1>4. PICK n : n = Len(calls)
  OBVIOUS
<1>5. /\ n \in Nat /\ DOMAIN calls = 1 .. n /\ 1 \in 1 .. n /\ c \in Call /\ c \in Proper
      /\ CallSettled(c) /\ c.then \in Seq({"select", "list"})
  BY <1>2, <1>3, <1>4, CallFacts DEF CallsSettled, Call
<1>6. /\ \A k \in 1 .. n - 1 : k \in DOMAIN calls' /\ calls'[k] = calls[k + 1]
      /\ \A k \in 1 .. n : k = 1 \/ k - 1 \in 1 .. n - 1
  <2>1. \A k \in 1 .. n - 1 : Old(1, k) = k + 1
    BY <1>5 DEF Old
  <2>2. \A k \in 1 .. n - 1 : k \in DOMAIN calls' /\ calls'[k] = calls[Old(1, k)]
    BY <1>3, <1>4, <1>5, Left
  <2> QED
    BY <1>5, <2>1, <2>2
<1>7. PICK r : r = Reload(c, c.then)
  OBVIOUS
<1> DEFINE more == c.ok /\ c.then # <<>>
<1>8. /\ more => /\ DOMAIN calls' = 1 .. n /\ calls'[n] = r
                 /\ sel' = IF Head(c.then) = "select" THEN c.job ELSE selected
      /\ ~more => DOMAIN calls' = 1 .. n - 1 /\ sel' = selected
  BY <1>3, <1>4, <1>5, <1>7, Left
<1>9. /\ more => /\ r.kind = Head(c.then) /\ r.kind \in {"select", "list"} /\ r.job = c.job
                 /\ r.busy = c.busy /\ r.then = Tail(c.then) /\ ~r.answered /\ ~r.ok
  BY <1>5, <1>7, ReloadFacts
<1>10. /\ more => \A k \in DOMAIN calls' : k \in 1 .. n - 1 \/ (k = n /\ calls'[k] = r)
       /\ ~more => \A k \in DOMAIN calls' : k \in 1 .. n - 1
       /\ \A k \in DOMAIN calls' : k \in Nat /\ k <= n
  BY <1>5, <1>8
\* The reload, by what has been asked for.
<1>11. more => /\ r.kind = "select" => c.kind \in {"reorder", "edit", "deletePage"}
               /\ r.kind = "select" => r.then \in {<<>>, <<"list">>}
               /\ r.kind = "list" => c.kind \in {"rename", "deleteJob", "select"}
               /\ r.kind = "list" => r.then = <<>>
  <2>1. /\ Head(<<"select">>) = "select" /\ Tail(<<"select">>) = <<>>
        /\ Head(<<"select", "list">>) = "select" /\ Tail(<<"select", "list">>) = <<"list">>
        /\ Head(<<"list">>) = "list" /\ Tail(<<"list">>) = <<>>
    OBVIOUS
  <2>2. c.kind \in Kinds
    BY <1>5 DEF Call
  <2> QED
    BY <1>5, <1>9, <2>1, <2>2 DEF CallSettled, Kinds, Watching
<1> HIDE DEF more
<1>12. \A j : There(j)' = There(j)
  BY <1>1 DEF There
<1>13. CallsSettled'
  <2> SUFFICES ASSUME NEW k \in DOMAIN calls' PROVE CallSettled(calls[k])'
    BY DEF CallsSettled
  <2>1. PICK d : d = calls'[k]
    OBVIOUS
  <2>2. CASE k \in 1 .. n - 1
    <3>1. d = calls[k + 1] /\ k + 1 \in 1 .. n
      BY <1>5, <1>6, <2>1, <2>2
    <3>2. CallSettled(d)
      BY <1>2, <1>5, <3>1 DEF CallsSettled
    <3>3. CallSettled(d)'
      BY <1>12, <3>2 DEF CallSettled
    <3> QED
      BY <2>1, <3>3
  <2>3. CASE more /\ d = r
    <3>1. r.kind = "select" => There(c.job)
      BY <1>5, <1>11, <2>3 DEF CallSettled, more
    <3>2. CallSettled(r)'
      BY <1>9, <1>11, <1>12, <2>3, <3>1 DEF CallSettled, Watching
    <3> QED
      BY <2>1, <2>3, <3>2
  <2> QED
    BY <1>10, <2>1, <2>2, <2>3
\* Of a deletion, which is the only action under way.
<1>14. c.busy => \A k \in 1 .. n : k # 1 => ~calls[k].busy /\ calls[k].kind \notin Acts
  <2>1. \A k \in DOMAIN calls : calls[k].kind \in Acts => calls[k].busy
    BY CallFacts DEF Proper
  <2> QED
    BY <1>3, <1>5, <2>1 DEF Types, CallTypes, OneAction
<1>15. InTurn'
  <2>1. ASSUME NEW j \in DOMAIN calls', NEW k \in DOMAIN calls', j < k, calls'[k].answered
        PROVE  calls'[j].answered
    <3>1. k \in 1 .. n - 1
      BY <1>9, <1>10, <2>1
    <3>2. j \in 1 .. n - 1
      BY <1>5, <1>10, <2>1, <3>1
    <3>3. j + 1 \in 1 .. n /\ k + 1 \in 1 .. n /\ j + 1 < k + 1
      BY <1>5, <2>1, <3>1, <3>2
    <3> QED
      BY <1>2, <1>5, <1>6, <2>1, <3>1, <3>2, <3>3 DEF InTurn
  <2>2. ASSUME NEW j \in DOMAIN calls', NEW k \in DOMAIN calls', calls'[j].kind = "deleteJob",
               calls'[k].kind = "select"
        PROVE  k < j
    <3>1. j \in 1 .. n - 1
      BY <1>9, <1>10, <2>2
    <3>2. j + 1 \in 1 .. n /\ calls[j + 1].kind = "deleteJob" /\ j + 1 # 1
      BY <1>5, <1>6, <2>2, <3>1
    <3>3. CASE k \in 1 .. n - 1
      <4>1. k + 1 \in 1 .. n /\ calls[k + 1].kind = "select"
        BY <1>5, <1>6, <2>2, <3>3
      <4>2. k + 1 < j + 1
        BY <1>2, <1>5, <3>2, <4>1 DEF InTurn
      <4> QED
        BY <1>5, <3>1, <3>3, <4>2
    <3>4. CASE ~(k \in 1 .. n - 1)
      <4>1. more /\ r.kind = "select"
        BY <1>10, <2>2, <3>4
      <4>2. c.kind \in Acts
        BY <1>11, <4>1 DEF Acts
      <4>3. c.busy
        BY <1>5, <4>2 DEF Proper
      <4> QED
        BY <1>14, <3>2, <4>3 DEF Acts
    <3> QED
      BY <3>3, <3>4
  <2> QED
    BY <2>1, <2>2 DEF InTurn
<1>16. Newest'
  <2>1. CASE more /\ r.kind = "select"
    <3>1. sel' = c.job
      BY <1>8, <1>9, <2>1
    <3>2. n \in DOMAIN calls' /\ calls'[n] = r
      BY <1>5, <1>8, <2>1
    <3>3. ASSUME NEW j \in DOMAIN calls', \A k \in DOMAIN calls' : calls'[k].kind = "select" => k <= j
          PROVE  j = n
      <4>1. n <= j
        BY <2>1, <3>2, <3>3
      <4> QED
        BY <1>5, <1>10, <4>1
    <3> QED
      BY <1>9, <2>1, <3>1, <3>2, <3>3 DEF Newest
  <2>2. CASE ~(more /\ r.kind = "select")
    <3>1. sel' = selected
      BY <1>8, <1>9, <2>2
    <3>2. \A k \in DOMAIN calls' : calls'[k].kind = "select" => k \in 1 .. n - 1
      BY <1>10, <2>2
    <3>3. \A k \in 1 .. n - 1 : k + 1 \in 1 .. n /\ k + 1 # 1
      BY <1>5
    <3>4. CASE c.kind = "deleteJob"
      \* Whatever was selected came before it.
      <4>1. \A k \in 1 .. n : calls[k].kind # "select"
        BY <1>2, <1>3, <1>5, <3>4 DEF InTurn
      <4>2. \A k \in DOMAIN calls' : calls'[k].kind # "select"
        BY <1>6, <3>2, <3>3, <4>1
      <4>3. shown.job = sel
        BY <1>2, <1>5, <4>1 DEF Newest
      <4>4. shown'.job = sel'
        BY <3>1, <3>4, <4>3
      <4> QED
        BY <4>2, <4>4 DEF Newest
    <3>5. CASE c.kind # "deleteJob"
      <4>1. sel' = sel
        BY <3>1, <3>5
      <4>2. ASSUME NEW j \in DOMAIN calls', calls'[j].kind = "select",
                   \A k \in DOMAIN calls' : calls'[k].kind = "select" => k <= j
            PROVE  calls'[j].job = sel
        <5>1. j \in 1 .. n - 1 /\ j + 1 \in 1 .. n /\ calls'[j] = calls[j + 1]
          BY <1>6, <3>2, <3>3, <4>2
        <5>2. ASSUME NEW k \in 1 .. n, calls[k].kind = "select" PROVE k <= j + 1
          <6>1. CASE k = 1
            BY <1>5, <5>1, <6>1
          <6>2. CASE k # 1
            <7>1. k - 1 \in 1 .. n - 1 /\ calls'[k - 1] = calls[k] /\ k - 1 \in DOMAIN calls'
              BY <1>5, <1>6, <6>2
            <7>2. k - 1 <= j
              BY <4>2, <5>2, <7>1
            <7> QED
              BY <1>5, <5>1, <7>2
          <6> QED
            BY <6>1, <6>2
        <5> QED
          BY <1>2, <1>5, <4>2, <5>1, <5>2 DEF Newest
      <4>3. ASSUME \A k \in DOMAIN calls' : calls'[k].kind # "select" PROVE shown'.job = sel
        <5>1. \A k \in 1 .. n : k # 1 => calls[k].kind # "select"
          <6>1. ASSUME NEW k \in 1 .. n, k # 1 PROVE calls[k].kind # "select"
            <7>1. k - 1 \in 1 .. n - 1 /\ (k - 1) + 1 = k
              BY <1>5, <1>6, <6>1
            <7> QED
              BY <1>6, <4>3, <7>1
          <6> QED
            BY <6>1
        <5>2. CASE c.kind = "select"
          <6>1. c.ok
            BY <1>1, <1>5, <5>2 DEF CallSettled
          <6>2. \A k \in 1 .. n : calls[k].kind = "select" => k <= 1
            BY <1>5, <5>1
          <6>3. c.job = sel
            BY <1>2, <1>3, <1>5, <5>2, <6>2 DEF Newest
          <6> QED
            BY <5>2, <6>1, <6>3
        <5>3. CASE c.kind # "select"
          <6>1. \A k \in 1 .. n : calls[k].kind # "select"
            BY <1>3, <5>1, <5>3
          <6> QED
            BY <1>2, <1>5, <3>5, <5>3, <6>1 DEF Newest
        <5> QED
          BY <5>2, <5>3
      <4> QED
        BY <4>1, <4>2, <4>3 DEF Newest
    <3> QED
      BY <3>4, <3>5
  <2> QED
    BY <2>1, <2>2
<1>17. ListsRight'
  <2>1. \A jobs : AllThere(jobs)' = AllThere(jobs)
    BY <1>12 DEF AllThere
  <2>2. \A k \in DOMAIN calls' : IsList(calls'[k]) =>
          k \in 1 .. n - 1 /\ k + 1 \in 1 .. n /\ calls'[k] = calls[k + 1]
    BY <1>5, <1>6, <1>9, <1>10 DEF IsList
  <2>3. ASSUME NEW j \in DOMAIN calls', NEW k \in DOMAIN calls', j <= k, IsList(calls'[k]),
               calls'[j].kind = "list", calls'[j].busy
        PROVE  AllThere(calls'[k].jobs)
    <3>1. j \in 1 .. n - 1
      BY <1>5, <1>10, <2>2, <2>3
    <3>2. /\ j + 1 \in 1 .. n /\ calls'[j] = calls[j + 1]
          /\ k + 1 \in 1 .. n /\ calls'[k] = calls[k + 1] /\ j + 1 <= k + 1
      BY <1>5, <1>6, <2>2, <2>3, <3>1
    <3> QED
      BY <1>2, <1>5, <2>3, <3>2 DEF ListsRight
  <2>4. ASSUME \A k \in DOMAIN calls' : ~Deletes(calls'[k])
        PROVE  AllThere(listed') /\ \A k \in DOMAIN calls' : IsList(calls'[k]) => AllThere(calls'[k].jobs)
    <3>1. \A k \in 1 .. n : k # 1 => ~Deletes(calls[k])
      <4>1. ASSUME NEW k \in 1 .. n, k # 1 PROVE ~Deletes(calls[k])
        <5>1. k - 1 \in 1 .. n - 1 /\ (k - 1) + 1 = k
          BY <1>5, <1>6, <4>1
        <5> QED
          BY <1>6, <2>4, <5>1
      <4> QED
        BY <4>1
    <3>2. CASE c.kind = "list" /\ c.busy
      <4>1. IsList(c) /\ c.ok
        BY <1>1, <1>5, <3>2 DEF IsList, CallSettled
      <4>2. \A k \in 1 .. n : 1 <= k /\ (IsList(calls[k]) => AllThere(calls[k].jobs))
        BY <1>2, <1>3, <1>5, <3>2 DEF ListsRight
      <4>3. AllThere(listed')
        BY <1>3, <1>5, <3>2, <4>1, <4>2
      <4> QED
        BY <2>2, <4>2, <4>3
    <3>3. CASE c.kind = "deleteJob" /\ c.ok
      <4>1. more /\ r.kind = "list" /\ r.busy
        <5>1. c.then = <<"list">> /\ <<"list">> # <<>> /\ Head(<<"list">>) = "list" /\ c.busy
          BY <1>5, <3>3 DEF CallSettled, Proper, Acts
        <5> QED
          BY <1>9, <3>3, <5>1 DEF more
      <4>2. n \in DOMAIN calls' /\ calls'[n] = r
        BY <1>5, <1>8, <4>1 DEF more
      <4> QED
        BY <2>4, <4>1, <4>2 DEF Deletes
    <3>4. CASE ~(c.kind = "list" /\ c.busy) /\ ~(c.kind = "deleteJob" /\ c.ok)
      <4>1. \A k \in 1 .. n : ~Deletes(calls[k])
        BY <1>3, <3>1, <3>4 DEF Deletes
      <4>2. AllThere(listed) /\ \A k \in 1 .. n : IsList(calls[k]) => AllThere(calls[k].jobs)
        BY <1>2, <1>5, <4>1 DEF ListsRight
      <4>3. c.kind = "list" => AllThere(c.jobs)
        BY <1>1, <1>3, <1>5, <4>2 DEF IsList
      <4> QED
        BY <2>2, <4>2, <4>3
    <3> QED
      BY <3>2, <3>3, <3>4
  <2> QED
    BY <2>1, <2>3, <2>4 DEF ListsRight, IsList, Deletes
<1> QED
  BY <1>1, <1>2, <1>13, <1>15, <1>16, <1>17


LEMMA ReturnSettled == ASSUME Types, Settled, NEW i \in DOMAIN calls, Return(i) PROVE Settled'
<1>1. PICK c : c = calls[i]
  OBVIOUS
<1>2. UNCHANGED scene
  BY DEF Return, EditReturns, SelectReturns, ListReturns, DeletePageReturns, DeleteJobReturns,
         StartReturns, PollReturns, Continue
<1>3. CASE EditReturns(i)
  <2>1. /\ c.kind \in {"rename", "reorder", "edit", "combine"} /\ Continue(i, c.then, sel)
        /\ UNCHANGED <<listed, shown, timer>>
    BY <1>1, <1>3 DEF EditReturns, progress
  <2> QED
    BY <1>1, <2>1, LeftSettled
<1>4. CASE SelectReturns(i)
  <2>1. /\ c.kind = "select" /\ Continue(i, c.then, sel) /\ UNCHANGED <<listed, timer>>
        /\ shown' \in IF c.ok THEN Rendered(c.job, c.count) ELSE {shown}
    BY <1>1, <1>4 DEF SelectReturns, progress
  <2>2. /\ c.job \in Jobs \cup {NoJob} /\ c.count \in 0 .. MaxPages
        /\ c.ok => c.job \in Jobs
    BY <1>1, <2>1, CallFacts DEF Call, Proper
  <2>3. shown'.job = IF c.ok THEN c.job ELSE shown.job
    BY <2>1, <2>2, RenderedTypes
  <2> QED
    BY <1>1, <2>1, <2>3, LeftSettled
<1>5. CASE ListReturns(i)
  <2>1. /\ c.kind = "list" /\ Continue(i, c.then, sel) /\ UNCHANGED <<shown, timer>>
        /\ listed' = IF c.ok THEN c.jobs ELSE listed
    BY <1>1, <1>5 DEF ListReturns, progress
  <2> QED
    BY <1>1, <2>1, LeftSettled
<1>6. CASE DeletePageReturns(i)
  <2>1. /\ c.kind = "deletePage" /\ Continue(i, c.then, sel) /\ UNCHANGED <<listed, shown, timer>>
    BY <1>1, <1>6 DEF DeletePageReturns, progress
  <2> QED
    BY <1>1, <2>1, LeftSettled
<1>7. CASE DeleteJobReturns(i)
  <2>1. /\ c.kind = "deleteJob" /\ Continue(i, c.then, IF c.ok THEN NoJob ELSE sel)
        /\ shown' = IF c.ok THEN EmptyGrid ELSE shown
        /\ UNCHANGED <<listed, timer>>
    BY <1>1, <1>7 DEF DeleteJobReturns, progress, Emptied
  <2>2. EmptyGrid.job = NoJob
    BY DEF EmptyGrid
  <2>3. Continue(i, c.then, IF c.kind = "deleteJob" /\ c.ok THEN NoJob ELSE sel)
    BY <2>1
  <2> QED
    BY <1>1, <2>1, <2>2, <2>3, LeftSettled
<1>8. CASE StartReturns(i) \/ PollReturns(i)
  <2>1. c.kind \in Watching
    BY <1>1, <1>8 DEF StartReturns, PollReturns, Watching
  <2>2. ~Orderly
    BY <1>1, <2>1 DEF Settled, CallsSettled, CallSettled
  <2> QED
    BY <1>2, <2>2 DEF Settled, Orderly
<1> QED
  BY <1>3, <1>4, <1>5, <1>6, <1>7, <1>8 DEF Return

THEOREM SettledInductive == Types /\ Settled /\ [Next]_vars => Settled'
<1> SUFFICES ASSUME Types, Settled, [Next]_vars PROVE Settled'
  OBVIOUS
<1>1. CASE User
  BY <1>1, ClicksSettled
<1>5. CASE Browser
  BY <1>5, BrowserSettled
<1>2. CASE Tick \/ ServerScans
  BY <1>2, IdleSettled
<1>3. CASE \E i \in DOMAIN calls : Answer(i) \/ Return(i)
  BY <1>3, AnswerSettled, ReturnSettled
<1>4. CASE UNCHANGED vars
  <2>1. UNCHANGED <<scene, failures, server, calls, sel, shown, listed, timer>>
    BY <1>4 DEF vars
  <2> QED
    BY <2>1, Unsettled DEF There
<1> QED
  BY <1>1, <1>2, <1>3, <1>4, <1>5 DEF Next

\* Whatever the user does in whatever order, once the answers are in the scan
\* that is renamed, reordered or deleted is the one on show: if they come in the
\* order of the requests and none fails (app.js:165-172).
THEOREM SelectionIsOnShow == Spec => []SelectionSettles
<1>1. Init => Types /\ Settled
  BY FirstTypes, FirstSettled
<1>2. Types /\ Settled /\ [Next]_vars => Types' /\ Settled'
  BY TypesInductive, SettledInductive
<1>3. Settled => SelectionSettles
  BY DEF Settled, Orderly, Newest, SelectionSettles
<1> QED
  BY <1>1, <1>2, <1>3, PTL DEF Spec
===============================================================================
