----------------------------- MODULE PageApiProofs -----------------------------
(***************************************************************************)
(* Proofs about PageApi.tla for any number of clients and pages, in every  *)
(* scene: whatever requests overlap, whichever calls fail and whenever the *)
(* server is killed, the record a handler reads is well formed, and a scan *)
(* that is gone stays gone.                                                *)
(***************************************************************************)
EXTENDS PageApi, TLAPS, FiniteSetTheorems

(* The inductive invariant: the copy of the record that a process works on is *)
(* well formed too, the page it works on is in it, and the scanning goroutine *)
(* counts its pages.                                                          *)

WithPage == {"remove", "loadPage", "openPage", "readPage", "decodePage", "combinePage"}
HasPage(l) == l.n \in Indexes(l.body.pages)
Counts(l) == Len(l.body.pages) = l.n /\ \A i \in DOMAIN l.body.pages : l.body.pages[i].index = i

\* A record has no more pages than there are numbers.
BodyOK(body) == body \in Body /\ WellFormed(body) /\ Len(body.pages) <= PageLimit

LocalOK(l) == l \in Local /\ BodyOK(l.body)

Processes == /\ pc \in [Procs -> Places]
             /\ loc = [p \in Procs |-> loc[p]]
             /\ \A p \in Procs : LocalOK(loc[p])
             /\ \A c \in Clients : pc[c] \in WithPage => HasPage(loc[c])
             /\ Counts(loc[Scanner])
MetaOK == /\ meta \in Record
          /\ meta.state = "whole" => BodyOK(meta.body)
          /\ meta.state = "absent" => meta.open = {}
FilesOK == files \in [Names -> Content]
DirOK == /\ dir \in {"whole", "noPages", "gone"}
         /\ dir # "whole" => \A f \in Names : files[f] = Missing
         /\ dir = "gone" => meta.state = "absent"

IInv == scene \in Scenes /\ Processes /\ MetaOK /\ FilesOK /\ DirOK

-------------------------------------------------------------------------------
(* The initial states *)

LEMMA NoLocalOK == LocalOK(NoLocal) /\ Counts(NoLocal)
<1>1. NoBody \in Body /\ Missing \in Content /\ 0 \in 0 .. PageLimit /\ PageLimit \in Nat
  BY BoundAssumption DEF NoBody, Body, Missing, Content
<1>2. BodyOK(NoBody)
  BY <1>1 DEF BodyOK, NoBody, WellFormed, Indexes
<1>3. NoLocal \in Local
  BY <1>1 DEF NoLocal, Local
<1> QED
  BY <1>2, <1>3 DEF LocalOK, NoLocal, NoBody, Counts

LEMMA FreshContent == ASSUME NEW k \in Numbers PROVE Fresh(k) \in Content
BY DEF Fresh, Content

LEMMA MissingContent == Missing \in Content
BY DEF Missing, Content

LEMMA FullJobOK ==
  ASSUME scene \in Scenes
  PROVE  BodyOK(FullJob) /\ BodyOK(NoBody)
<1>1. scene.pages \in Nat /\ scene.pages <= PageLimit /\ 1 .. scene.pages \subseteq Numbers
  BY SceneAssumption, BoundAssumption DEF Scene, Numbers
<1>2. FullJob.pages \in Seq(Page)
  <2>1. \A i \in 1 .. scene.pages : [index |-> i, file |-> i, turned |-> FALSE] \in Page
    BY <1>1 DEF Page
  <2> QED
    BY <1>1, <2>1 DEF FullJob
<1>3. Indexes(FullJob.pages) = 1 .. Len(FullJob.pages)
  <2>1. Len(FullJob.pages) = scene.pages /\ DOMAIN FullJob.pages = 1 .. scene.pages
    BY <1>1 DEF FullJob
  <2>2. \A i \in 1 .. scene.pages : FullJob.pages[i].index = i
    BY DEF FullJob
  <2> QED
    BY <2>1, <2>2 DEF Indexes
<1>4. BodyOK(FullJob)
  BY <1>1, <1>2, <1>3 DEF FullJob, BodyOK, Body, WellFormed
<1> QED
  BY <1>4, NoLocalOK DEF LocalOK, NoLocal

THEOREM Initially == Init => IInv
<1> SUFFICES ASSUME Init PROVE IInv
  OBVIOUS
<1>1. Processes
  <2>1. pc \in [Procs -> Places]
    BY DEF Init, Places
  <2>2. \A c \in Clients : pc[c] \notin WithPage
    BY DEF Init, Procs, WithPage
  <2>3. loc = [p \in Procs |-> NoLocal] /\ Scanner \in Procs
    BY DEF Init, Procs
  <2> QED
    BY <2>1, <2>2, <2>3, NoLocalOK DEF Processes
<1>2. MetaOK
  BY FullJobOK DEF Init, MetaOK, BodyOK, Record
<1>3. FilesOK
  <2>1. ASSUME NEW f \in Names, f[1] = "page" PROVE Fresh(f[2]) \in Content
    BY FreshContent DEF Names
  <2> QED
    BY <2>1, MissingContent DEF Init, FilesOK
<1> QED
  BY <1>1, <1>2, <1>3 DEF Init, IInv, DirOK

-------------------------------------------------------------------------------
(* One process takes a step *)

LEMMA ProcessStep ==
  ASSUME Processes, NEW p \in Procs, NEW place \in Places, NEW l,
         Goto(p, place), loc' = [loc EXCEPT ![p] = l], LocalOK(l),
         p = Scanner => Counts(l), p \in Clients /\ place \in WithPage => HasPage(l)
  PROVE  Processes'
<1>1. pc' \in [Procs -> Places] /\ \A q \in Procs : pc'[q] = IF q = p THEN place ELSE pc[q]
  BY DEF Processes, Goto
<1>2. loc' = [q \in Procs |-> IF q = p THEN l ELSE loc[q]]
  BY DEF Processes
<1>3. \A q \in Procs : LocalOK(loc'[q])
  BY <1>2 DEF Processes
<1>4. \A c \in Clients : pc'[c] \in WithPage => HasPage(loc'[c])
  BY <1>1, <1>2 DEF Processes, Procs
<1>5. Counts(loc'[Scanner])
  BY <1>2 DEF Processes, Procs
<1> QED
  BY <1>1, <1>2, <1>3, <1>4, <1>5 DEF Processes

\* It goes on with the locals it has.
LEMMA ProcessMoves ==
  ASSUME Processes, NEW p \in Procs, NEW place \in Places, Goto(p, place), UNCHANGED loc,
         p \in Clients /\ place \in WithPage => HasPage(loc[p])
  PROVE  Processes'
<1>1. loc' = [loc EXCEPT ![p] = loc[p]]
  BY DEF Processes
<1> QED
  BY <1>1, ProcessStep DEF Processes

LEMMA ReturnStep == ASSUME Processes, NEW p \in Procs, Return(p) PROVE Processes'
<1>1. {"idle", "off", "scan"} \subseteq Places /\ {"idle", "off", "scan"} \cap WithPage = {}
  BY DEF Places, WithPage
<1>2. CASE p \in Clients
  <2>1. Goto(p, "idle") /\ loc' = [loc EXCEPT ![p] = NoLocal] /\ p # Scanner
    BY <1>2, ScannerAssumption DEF Return
  <2>2. "idle" \in Places /\ "idle" \notin WithPage
    BY <1>1
  <2> QED
    BY <2>1, <2>2, NoLocalOK, ProcessStep
<1>3. CASE p \notin Clients
  BY <1>1, <1>3, ProcessMoves DEF Return
<1> QED
  BY <1>2, <1>3

\* Requests start with the record, if it is there.
LEMMA LoadedOK ==
  ASSUME MetaOK, meta.state = "whole", NEW n \in 0 .. PageLimit,
         NEW l, l = [NoLocal EXCEPT !.body = meta.body, !.n = n]
  PROVE  LocalOK(l) /\ l.body = meta.body /\ l.n = n
<1>1. BodyOK(meta.body)
  BY DEF MetaOK
<1>2. l \in Local /\ l.body = meta.body /\ l.n = n
  BY <1>1, NoLocalOK DEF LocalOK, Local, BodyOK
<1> QED
  BY <1>1, <1>2 DEF LocalOK

LEMMA RecordUntouched ==
  ASSUME IInv, Processes', UNCHANGED <<scene, meta, files, dir>>
  PROVE  IInv'
BY DEF IInv, MetaOK, FilesOK, DirOK

LEMMA PlacesFacts ==
  /\ {"idle", "saveMeta", "writeMeta", "serve", "removeAll", "scan", "back", "off", "remove", "move",
      "loadPage", "openPage", "writePage", "readPage", "decodePage", "nextPage",
      "combinePage"} \subseteq Places
  /\ {"saveMeta", "writeMeta", "serve", "removeAll", "move", "writePage", "nextPage"}
       \cap WithPage = {}
BY DEF Places, Deleting, Editing, Reading, WithPage

-------------------------------------------------------------------------------
(* Requests come in *)

LEMMA LoadStep ==
  ASSUME IInv, NEW c \in Clients, NEW op, NEW place \in Places, NEW n \in 0 .. PageLimit,
         Load(c, op, place, n), place \in WithPage => n \in Indexes(meta.body.pages)
  PROVE  Processes'
<1> DEFINE l == [NoLocal EXCEPT !.body = meta.body, !.n = n]
<1>1. LocalOK(l) /\ l.body = meta.body /\ l.n = n
  BY LoadedOK DEF IInv, Load
<1>2. c \in Procs /\ c # Scanner
  BY ScannerAssumption DEF Procs
<1>3. Goto(c, place) /\ loc' = [loc EXCEPT ![c] = l]
  BY DEF Load
<1>4. place \in WithPage => HasPage(l)
  BY <1>1 DEF HasPage
<1> QED
  BY <1>1, <1>2, <1>3, <1>4, ProcessStep DEF IInv

LEMMA NumbersFacts == 0 \in 0 .. PageLimit /\ Numbers \subseteq 0 .. PageLimit
BY BoundAssumption DEF Numbers

LEMMA SimpleRequests ==
  ASSUME IInv, NEW c \in Clients, UNCHANGED scene,
         \/ Rename(c) \/ DeleteScan(c)
         \/ \E n \in Numbers : Rotate(c, n) \/ GetPage(c, n) \/ Export(c, n)
  PROVE  IInv'
<1> USE NumbersFacts, PlacesFacts
<1>1. CASE Rename(c)
  BY <1>1, LoadStep, RecordUntouched DEF Rename
<1>2. CASE DeleteScan(c)
  BY <1>2, LoadStep, RecordUntouched DEF DeleteScan
<1>3. ASSUME NEW n \in Numbers, Rotate(c, n) PROVE IInv'
  BY <1>3, LoadStep, RecordUntouched DEF Rotate
<1>4. ASSUME NEW n \in Numbers, GetPage(c, n) PROVE IInv'
  BY <1>4, LoadStep, RecordUntouched DEF GetPage
<1>5. ASSUME NEW n \in Numbers, Export(c, n) PROVE IInv'
  BY <1>5, LoadStep, RecordUntouched DEF Export
<1> QED
  BY <1>1, <1>2, <1>3, <1>4, <1>5

\* A request that starts with other locals than that.
LEMMA OrderedOK ==
  ASSUME NEW body, BodyOK(body), NEW l, l = [NoLocal EXCEPT !.body = body] PROVE LocalOK(l)
BY NoLocalOK DEF LocalOK, Local, BodyOK

LEMMA WantingOK ==
  ASSUME NEW want \in Seq(Numbers), NEW calm \in BOOLEAN,
         NEW l, l = [NoLocal EXCEPT !.want = want, !.calm = calm]
  PROVE  LocalOK(l)
BY NoLocalOK DEF LocalOK, Local

LEMMA CombineStep == ASSUME IInv, NEW c \in Clients, UNCHANGED scene, Combine(c) PROVE IInv'
<1>1. PICK k \in 1 .. CombineLimit : \E want \in [1 .. k -> Numbers] :
        loc' = [loc EXCEPT ![c] = [NoLocal EXCEPT !.want = want, !.calm = ~Others(c, Deleting)]]
  BY DEF Combine
<1>2. PICK want \in [1 .. k -> Numbers] :
        loc' = [loc EXCEPT ![c] = [NoLocal EXCEPT !.want = want, !.calm = ~Others(c, Deleting)]]
  BY <1>1
<1> DEFINE calm == ~Others(c, Deleting)
<1>3. want \in Seq(Numbers) /\ calm \in BOOLEAN
  BY BoundAssumption
<1> DEFINE l == [NoLocal EXCEPT !.want = want, !.calm = calm]
<1>4. LocalOK(l)
  <2> HIDE DEF calm
  <2> QED
    BY <1>3, WantingOK
<1>5. c \in Procs /\ c # Scanner /\ "nextPage" \in Places /\ "nextPage" \notin WithPage
  BY ScannerAssumption, PlacesFacts DEF Procs
<1>6. Goto(c, "nextPage") /\ loc' = [loc EXCEPT ![c] = l]
  BY <1>2 DEF Combine
<1>7. Processes'
  <2> HIDE DEF l
  <2> QED
    BY <1>4, <1>5, <1>6, ProcessStep DEF IInv
<1> QED
  BY <1>7, RecordUntouched DEF Combine

\* Page n is found when it is there.
LEMMA FindPageFinds ==
  ASSUME NEW pages, NEW n \in Indexes(pages)
  PROVE  \E i \in DOMAIN pages : FindPage(pages, n) = pages[i] /\ pages[i].index = n
BY DEF Indexes, FindPage

\* An order that names no page twice names them all.
LEMMA OrderIsOnto ==
  ASSUME NEW n \in Nat, NEW order \in [1 .. n -> 1 .. n], IsInjective(order)
  PROVE  \A j \in 1 .. n : \E i \in 1 .. n : order[i] = j
<1>1. IsFiniteSet(1 .. n)
  BY FS_Interval
<1>2. order \in Injection(1 .. n, 1 .. n)
  BY DEF Injection
<1>3. order \in Surjection(1 .. n, 1 .. n)
  BY <1>1, <1>2, FS_Injection
<1> QED
  BY <1>3 DEF Surjection

\* The pages in the order asked for: each of them once.
LEMMA ReorderStep == ASSUME IInv, NEW c \in Clients, UNCHANGED scene, Reorder(c) PROVE IInv'
<1> DEFINE pages == meta.body.pages
<1>1. PICK order \in [DOMAIN pages -> Indexes(pages)] :
        /\ IsInjective(order)
        /\ loc' = [loc EXCEPT ![c] = [NoLocal EXCEPT !.body = [meta.body EXCEPT !.pages =
                      [i \in DOMAIN pages |-> FindPage(pages, order[i])]]]]
  BY DEF Reorder
<1> DEFINE new == [i \in DOMAIN pages |-> FindPage(pages, order[i])]
           body == [meta.body EXCEPT !.pages = new]
           l == [NoLocal EXCEPT !.body = body]
<1>2. /\ meta.body \in Body /\ WellFormed(meta.body) /\ pages \in Seq(Page)
      /\ Len(pages) <= PageLimit
  BY DEF IInv, MetaOK, Record, Reorder, Body, BodyOK
<1>3. \A i \in DOMAIN pages : new[i] \in Page /\ new[i].index = order[i]
                               /\ new[i].file = new[i].index
  <2>1. \A i \in DOMAIN pages : order[i] \in Indexes(pages)
    OBVIOUS
  <2>2. \A k \in DOMAIN pages : pages[k] \in Page /\ pages[k].file = pages[k].index
    BY <1>2 DEF WellFormed
  <2> HIDE DEF pages
  <2> QED
    BY <2>1, <2>2, FindPageFinds
<1>4. DOMAIN new = DOMAIN pages /\ DOMAIN pages = 1 .. Len(pages) /\ Len(pages) \in Nat
  BY <1>2
<1>5. new \in Seq(Page) /\ Len(new) = Len(pages)
  <2>1. new \in [1 .. Len(pages) -> Page]
    BY <1>3, <1>4
  <2> HIDE DEF new
  <2> QED
    BY <2>1, <1>4
<1>6. body \in Body /\ body.pages = new /\ body.count = meta.body.count
  BY <1>2, <1>5 DEF Body
<1>7. \A i, k \in DOMAIN new : new[i].index = new[k].index => i = k
  <2> HIDE DEF new
  <2>1. \A i \in DOMAIN new : new[i].index = order[i]
    BY <1>3, <1>4
  <2>2. \A i, k \in DOMAIN new : order[i] = order[k] => i = k
    BY <1>1, <1>4 DEF IsInjective
  <2> QED
    BY <2>1, <2>2
<1>8. BodyOK(body)
  <2>1. Indexes(pages) = 1 .. Len(pages)
    BY <1>2 DEF WellFormed
  <2>2. order \in [1 .. Len(pages) -> 1 .. Len(pages)]
    BY <1>1, <1>4, <2>1
  <2>3. \A j \in 1 .. Len(pages) : \E i \in 1 .. Len(pages) : order[i] = j
    BY <1>1, <1>4, <2>2, OrderIsOnto
  <2> HIDE DEF new
  <2>4. Indexes(new) = 1 .. Len(new)
    BY <1>3, <1>4, <1>5, <2>2, <2>3 DEF Indexes
  <2> HIDE DEF body
  <2> QED
    BY <1>2, <1>3, <1>4, <1>5, <1>6, <1>7, <2>4 DEF WellFormed, BodyOK
<1>9. LocalOK(l)
  <2> HIDE DEF body
  <2> QED
    BY <1>8, OrderedOK
<1>10. c \in Procs /\ c # Scanner /\ "saveMeta" \in Places /\ "saveMeta" \notin WithPage
  BY ScannerAssumption, PlacesFacts DEF Procs
<1>11. Goto(c, "saveMeta") /\ loc' = [loc EXCEPT ![c] = l]
  BY <1>1 DEF Reorder
<1>12. Processes'
  <2> HIDE DEF l
  <2> QED
    BY <1>9, <1>10, <1>11, ProcessStep DEF IInv
<1> QED
  BY <1>12, RecordUntouched DEF Reorder

LEMMA DeletePageStep ==
  ASSUME IInv, NEW c \in Clients, NEW n \in Numbers, UNCHANGED scene, DeletePage(c, n)
  PROVE  IInv'
<1> DEFINE l == [NoLocal EXCEPT !.body = meta.body, !.n = n]
<1>1. LocalOK(l) /\ l.body = meta.body /\ l.n = n
  BY LoadedOK, NumbersFacts DEF IInv, DeletePage
<1>2. c \in Procs /\ Scanner \in Procs /\ c # Scanner
  BY ScannerAssumption DEF Procs
<1>3. loc' = [p \in Procs |-> IF p = c THEN l ELSE [loc[p] EXCEPT !.calm = FALSE]]
  BY DEF DeletePage
<1>4. ASSUME NEW p \in Procs, p # c
      PROVE  LocalOK(loc'[p]) /\ loc'[p].body = loc[p].body /\ loc'[p].n = loc[p].n
  <2> DEFINE m == loc'[p]
  <2>1. LocalOK(loc[p]) /\ m = [loc[p] EXCEPT !.calm = FALSE]
    BY <1>3, <1>4 DEF IInv, Processes
  <2> HIDE DEF m
  <2>3. LocalOK(m) /\ m.body = loc[p].body /\ m.n = loc[p].n
    BY <2>1 DEF LocalOK, Local
  <2> QED
    BY <2>3 DEF m
<1>5. pc' \in [Procs -> Places] /\ \A q \in Procs : pc'[q] = IF q = c THEN "remove" ELSE pc[q]
  BY PlacesFacts DEF IInv, Processes, Goto, DeletePage
<1>6. HasPage(l)
  BY <1>1 DEF HasPage, DeletePage
<1>7. \A q \in Clients : pc'[q] \in WithPage => HasPage(loc'[q])
  <2> HIDE DEF l
  <2> QED
    BY <1>3, <1>4, <1>5, <1>6 DEF IInv, Processes, Procs, HasPage
<1>8. Counts(loc'[Scanner])
  BY <1>2, <1>4 DEF IInv, Processes, Counts
<1>9. Processes'
  <2> HIDE DEF l
  <2> QED
    BY <1>1, <1>3, <1>4, <1>5, <1>7, <1>8 DEF Processes
<1> QED
  BY <1>9, RecordUntouched DEF DeletePage

-------------------------------------------------------------------------------
(* A page is deleted *)

\* The locals with another record and other moves.
LEMMA WithBodyOK ==
  ASSUME NEW k, LocalOK(k), NEW body, BodyOK(body),
         NEW away \in SUBSET Move, NEW pending \in SUBSET Move,
         NEW l, l = [k EXCEPT !.body = body, !.away = away, !.pending = pending]
  PROVE  LocalOK(l) /\ l.body = body /\ l.n = k.n
BY DEF LocalOK, Local, BodyOK

LEMMA WithoutOK ==
  ASSUME NEW pages \in Seq(Page), NEW n \in Indexes(pages)
  PROVE  Without(pages, n) \in Seq(Page) /\ Len(Without(pages, n)) = Len(pages) - 1
<1> DEFINE gone == CHOOSE i \in DOMAIN pages : pages[i].index = n
           rest == [i \in 1 .. Len(pages) - 1 |-> IF i < gone THEN pages[i] ELSE pages[i + 1]]
<1>1. gone \in 1 .. Len(pages)
  BY DEF Indexes
<1> HIDE DEF gone
<1>2. rest \in [1 .. Len(pages) - 1 -> Page] /\ Len(pages) - 1 \in Nat
  BY <1>1
<1>3. Without(pages, n) = rest
  BY DEF Without, gone
<1> HIDE DEF rest
<1> QED
  BY <1>2, <1>3

LEMMA RenumberedOK ==
  ASSUME NEW pages \in Seq(Page), Len(pages) <= PageLimit
  PROVE  /\ Renumbered(pages) \in Seq(Page) /\ Len(Renumbered(pages)) = Len(pages)
         /\ \A i \in DOMAIN Renumbered(pages) :
              Renumbered(pages)[i].index = i /\ Renumbered(pages)[i].file = i
         /\ Indexes(Renumbered(pages)) = 1 .. Len(pages)
<1> DEFINE new == [i \in DOMAIN pages |-> [pages[i] EXCEPT !.index = i, !.file = i]]
<1>1. DOMAIN pages = 1 .. Len(pages) /\ Len(pages) \in Nat
  OBVIOUS
<1>2. \A i \in DOMAIN pages : i \in Numbers
  BY <1>1, BoundAssumption DEF Numbers
<1>3. \A i \in DOMAIN pages : new[i] \in Page /\ new[i].index = i /\ new[i].file = i
  <2> SUFFICES ASSUME NEW i \in DOMAIN pages
               PROVE  new[i] \in Page /\ new[i].index = i /\ new[i].file = i
    OBVIOUS
  <2>1. pages[i] \in Page /\ i \in Numbers /\ new[i] = [pages[i] EXCEPT !.index = i, !.file = i]
    BY <1>2
  <2> HIDE DEF new
  <2> QED
    BY <2>1 DEF Page
<1>4. new \in [1 .. Len(pages) -> Page]
  BY <1>1, <1>3
<1>5. Renumbered(pages) = new
  BY DEF Renumbered
<1> HIDE DEF new
<1>6. new \in Seq(Page) /\ Len(new) = Len(pages) /\ DOMAIN new = DOMAIN pages
  BY <1>1, <1>4
<1>7. Indexes(new) = 1 .. Len(pages)
  BY <1>1, <1>3, <1>6 DEF Indexes
<1> QED
  BY <1>3, <1>5, <1>6, <1>7

\* A step that leaves the record alone.
LEMMA FilesStep ==
  ASSUME IInv, UNCHANGED <<scene, meta, dir>>, Processes',
         files' \in [Names -> Content],
         dir # "whole" => \A f \in Names : files'[f] = Missing
  PROVE  IInv'
BY DEF IInv, MetaOK, FilesOK, DirOK

\* The record, the files and the directories stay, and the request ends.
LEMMA ReturnOnly ==
  ASSUME IInv, NEW p \in Procs, Return(p), UNCHANGED <<scene, meta, files, dir>> PROVE IInv'
BY ReturnStep, RecordUntouched DEF IInv

LEMMA MovesAreMoves == ASSUME NEW pages \in Seq(Page), Len(pages) <= PageLimit
                       PROVE  Moves(pages) \in SUBSET Move
<1>1. \A i \in DOMAIN pages : i \in Numbers /\ pages[i] \in Page
  BY BoundAssumption DEF Numbers
<1> QED
  BY <1>1 DEF Moves, Move, Page

LEMMA RemoveFileStep == ASSUME IInv, NEW c \in Clients, UNCHANGED scene, RemoveFile(c) PROVE IInv'
<1> DEFINE rest == Without(loc[c].body.pages, loc[c].n)
           body == [loc[c].body EXCEPT !.pages = Renumbered(rest), !.count = Len(rest)]
           moves == Moves(rest)
           l == [loc[c] EXCEPT !.body = body, !.away = moves, !.pending = loc[c].pending]
<1>1. c \in Procs /\ c # Scanner /\ LocalOK(loc[c])
  BY ScannerAssumption DEF Procs, IInv, Processes
<1>2. CASE Return(c) /\ UNCHANGED files
  BY <1>1, <1>2, ReturnOnly DEF RemoveFile
<1>3. CASE /\ files' = [files EXCEPT ![FileOf(c)] = Missing]
           /\ loc' = [loc EXCEPT ![c].body.pages = Renumbered(rest),
                                 ![c].body.count = Len(rest), ![c].away = Moves(rest)]
           /\ Goto(c, IF Moves(rest) = {} THEN "saveMeta" ELSE "move")
  <2>1. /\ loc[c].body \in Body /\ loc[c].body.pages \in Seq(Page)
        /\ Len(loc[c].body.pages) <= PageLimit /\ loc[c].n \in Indexes(loc[c].body.pages)
    BY <1>1 DEF IInv, Processes, RemoveFile, WithPage, HasPage, LocalOK, BodyOK, Body
  <2>2. rest \in Seq(Page) /\ Len(rest) <= PageLimit /\ Len(rest) \in Nat
    BY <2>1, WithoutOK, BoundAssumption
  <2> HIDE DEF rest
  <2>0. moves \in SUBSET Move /\ loc[c].pending \in SUBSET Move
    BY <1>1, <2>2, MovesAreMoves DEF LocalOK, Local
  <2>3. body \in Body /\ body.pages = Renumbered(rest) /\ body.count = Len(rest)
    BY <2>1, <2>2, RenumberedOK DEF Body
  <2>4. loc' = [loc EXCEPT ![c] = l]
    BY <1>1, <1>3 DEF IInv, Processes, LocalOK, Local
  <2> HIDE DEF body, moves
  <2>5. BodyOK(body)
    BY <2>2, <2>3, RenumberedOK DEF BodyOK, WellFormed
  <2>6. LocalOK(l)
    <3> DEFINE pending == loc[c].pending
    <3>1. l = [loc[c] EXCEPT !.body = body, !.away = moves, !.pending = pending]
      OBVIOUS
    <3> HIDE DEF l, pending
    <3> QED
      BY <1>1, <2>0, <2>5, <3>1, WithBodyOK DEF pending
  <2> HIDE DEF l
  <2>7. Processes'
    BY <1>1, <1>3, <2>4, <2>6, ProcessStep, PlacesFacts DEF IInv
  <2>8. /\ files' \in [Names -> Content]
        /\ dir # "whole" => \A f \in Names : files'[f] = Missing
    BY <1>3, MissingContent DEF IInv, FilesOK, DirOK
  <2> QED
    BY <2>7, <2>8, FilesStep DEF RemoveFile
<1> QED
  BY <1>2, <1>3 DEF RemoveFile

\* Either way, a file gets another name.
LEMMA RenameFileStep ==
  ASSUME IInv, NEW c \in Clients, UNCHANGED <<scene, meta, dir>>,
         NEW from \in Names, NEW to \in Names,
         NEW away \in SUBSET Move, NEW pending \in SUBSET Move,
         RenameFile(c, from, to, away, pending)
  PROVE  IInv'
<1>1. c \in Procs /\ c # Scanner /\ LocalOK(loc[c])
  BY ScannerAssumption DEF Procs, IInv, Processes
<1>2. CASE Return(c) /\ UNCHANGED files
  BY <1>1, <1>2, ReturnOnly
<1>3. CASE /\ files[from] # Missing
           /\ files' = [files EXCEPT ![to] = files[from], ![from] = Missing]
           /\ loc' = [loc EXCEPT ![c].away = away, ![c].pending = pending]
           /\ Goto(c, IF away \cup pending = {} THEN "saveMeta" ELSE "move")
  <2> DEFINE body == loc[c].body
             l == [loc[c] EXCEPT !.body = body, !.away = away, !.pending = pending]
  <2>1. loc' = [loc EXCEPT ![c] = l]
    BY <1>1, <1>3 DEF IInv, Processes, LocalOK, Local
  <2>2. LocalOK(l)
    <3>1. BodyOK(body) /\ l = [loc[c] EXCEPT !.body = body, !.away = away, !.pending = pending]
      BY <1>1 DEF LocalOK
    <3> HIDE DEF l, body
    <3> QED
      BY <1>1, <3>1, WithBodyOK
  <2> HIDE DEF l
  <2>3. Processes'
    BY <1>1, <1>3, <2>1, <2>2, ProcessStep, PlacesFacts DEF IInv
  <2>4. /\ files' \in [Names -> Content]
        /\ dir # "whole" => \A f \in Names : files'[f] = Missing
    BY <1>3, MissingContent DEF IInv, FilesOK, DirOK
  <2> QED
    BY <2>3, <2>4, FilesStep
<1> QED
  BY <1>2, <1>3 DEF RenameFile

LEMMA MoveNames == ASSUME NEW m \in Move PROVE {File(m.file), Temp(m.file), File(m.index)} \subseteq Names
BY DEF Move, File, Temp, Names

LEMMA MoveFileStep ==
  ASSUME IInv, NEW c \in Clients, UNCHANGED scene, MoveAside(c) \/ MoveBack(c) PROVE IInv'
<1>1. loc[c].away \in SUBSET Move /\ loc[c].pending \in SUBSET Move
  BY DEF Procs, IInv, Processes, LocalOK, Local
<1>2. ASSUME NEW m \in Move,
             RenameFile(c, File(m.file), Temp(m.file), loc[c].away \ {m}, loc[c].pending \cup {m}),
             UNCHANGED <<meta, dir>>
      PROVE  IInv'
  <2> DEFINE away == loc[c].away \ {m}
             pending == loc[c].pending \cup {m}
  <2>1. away \in SUBSET Move /\ pending \in SUBSET Move
    BY <1>1
  <2> HIDE DEF away, pending
  <2>2. RenameFile(c, File(m.file), Temp(m.file), away, pending)
    BY <1>2 DEF away, pending
  <2> QED
    BY <1>2, <2>1, <2>2, MoveNames, RenameFileStep
<1>3. ASSUME NEW m \in Move,
             RenameFile(c, Temp(m.file), File(m.index), {}, loc[c].pending \ {m}),
             UNCHANGED <<meta, dir>>
      PROVE  IInv'
  <2> DEFINE away == {}
             pending == loc[c].pending \ {m}
  <2>1. away \in SUBSET Move /\ pending \in SUBSET Move
    BY <1>1
  <2> HIDE DEF away, pending
  <2>2. RenameFile(c, Temp(m.file), File(m.index), away, pending)
    BY <1>3 DEF away, pending
  <2> QED
    BY <1>3, <2>1, <2>2, MoveNames, RenameFileStep
<1> QED
  BY <1>2, <1>3 DEF MoveAside, MoveBack

-------------------------------------------------------------------------------
(* A page is edited *)

\* The page a request is about has a file name.
LEMMA FileOfName ==
  ASSUME NEW c \in Clients, LocalOK(loc[c]), HasPage(loc[c]) PROVE FileOf(c) \in Names
<1>1. loc[c].body.pages \in Seq(Page) /\ loc[c].n \in Indexes(loc[c].body.pages)
  BY DEF LocalOK, BodyOK, Body, HasPage
<1>2. FindPage(loc[c].body.pages, loc[c].n) \in Page
  BY <1>1, FindPageFinds
<1> QED
  BY <1>2 DEF FileOf, File, Names, Page

LEMMA WithDataOK ==
  ASSUME NEW k, LocalOK(k), NEW data \in Content, NEW l, l = [k EXCEPT !.data = data]
  PROVE  LocalOK(l) /\ l.body = k.body /\ l.n = k.n
BY DEF LocalOK, Local

LEMMA LoadPageStep == ASSUME IInv, NEW c \in Clients, UNCHANGED scene, LoadPage(c) PROVE IInv'
<1> DEFINE content == files[FileOf(c)]
           data == [content EXCEPT !.turned = ~@, !.open = {}]
           l == [loc[c] EXCEPT !.data = data]
<1>1. c \in Procs /\ c # Scanner /\ LocalOK(loc[c]) /\ HasPage(loc[c])
  BY ScannerAssumption DEF Procs, IInv, Processes, LoadPage, WithPage
<1>2. CASE Return(c)
  BY <1>1, <1>2, ReturnOnly DEF LoadPage
<1>3. CASE loc' = [loc EXCEPT ![c].data = data] /\ Goto(c, "openPage")
  <2>1. content \in Content
    BY <1>1, FileOfName DEF IInv, FilesOK
  <2> HIDE DEF content
  <2>2. data \in Content
    BY <2>1 DEF Content
  <2>3. loc' = [loc EXCEPT ![c] = l]
    BY <1>3
  <2> HIDE DEF data
  <2>4. LocalOK(l) /\ l.body = loc[c].body /\ l.n = loc[c].n
    BY <1>1, <2>2, WithDataOK
  <2> HIDE DEF l
  <2>5. HasPage(l)
    BY <1>1, <2>4 DEF HasPage
  <2> QED
    BY <1>1, <1>3, <2>3, <2>4, <2>5, ProcessStep, PlacesFacts, RecordUntouched
       DEF IInv, LoadPage
<1> QED
  BY <1>2, <1>3 DEF LoadPage

LEMMA OpenPageStep == ASSUME IInv, NEW c \in Clients, UNCHANGED scene, OpenPage(c) PROVE IInv'
<1> DEFINE new == [loc[c].data EXCEPT !.torn = TRUE, !.open = files[FileOf(c)].open \cup {c}]
<1>1. c \in Procs /\ c # Scanner /\ LocalOK(loc[c]) /\ HasPage(loc[c])
  BY ScannerAssumption DEF Procs, IInv, Processes, OpenPage, WithPage, Editing
<1>2. CASE Return(c) /\ UNCHANGED files
  BY <1>1, <1>2, ReturnOnly DEF OpenPage
<1>3. CASE /\ dir = "whole" /\ files' = [files EXCEPT ![FileOf(c)] = new]
           /\ Goto(c, "writePage") /\ UNCHANGED loc
  <2>1. files[FileOf(c)].open \cup {c} \in SUBSET Clients /\ loc[c].data \in Content
    BY <1>1, FileOfName DEF IInv, FilesOK, Content, LocalOK, Local
  <2>2. new \in Content
    BY <2>1 DEF Content
  <2> HIDE DEF new
  <2>3. files' \in [Names -> Content]
    BY <1>3, <2>2 DEF IInv, FilesOK
  <2>4. Processes'
    BY <1>1, <1>3, ProcessMoves, PlacesFacts DEF IInv
  <2> QED
    BY <1>3, <2>3, <2>4, FilesStep DEF OpenPage
<1> QED
  BY <1>2, <1>3 DEF OpenPage

\* The shape of a page is nothing that WellFormed is about.
LEMMA NewShapeOK ==
  ASSUME NEW c \in Clients, LocalOK(loc[c])
  PROVE  BodyOK([loc[c].body EXCEPT !.pages = NewShape(c)])
<1> DEFINE pages == loc[c].body.pages
           turned == loc[c].data.turned
           new == [i \in DOMAIN pages |-> IF pages[i].index = loc[c].n
                                           THEN [pages[i] EXCEPT !.turned = turned] ELSE pages[i]]
           body == [loc[c].body EXCEPT !.pages = new]
<1>1. /\ pages \in Seq(Page) /\ turned \in BOOLEAN /\ loc[c].body \in Body
      /\ Len(pages) <= PageLimit /\ WellFormed(loc[c].body)
  BY DEF LocalOK, Local, BodyOK, Body, Content
<1> HIDE DEF turned
<1>2. \A i \in DOMAIN pages : /\ new[i] \in Page /\ new[i].index = pages[i].index
                               /\ new[i].file = pages[i].file
  <2> SUFFICES ASSUME NEW i \in DOMAIN pages
               PROVE  /\ new[i] \in Page /\ new[i].index = pages[i].index
                      /\ new[i].file = pages[i].file
    OBVIOUS
  <2>1. pages[i] \in Page /\ new[i] \in {[pages[i] EXCEPT !.turned = turned], pages[i]}
    BY <1>1
  <2> HIDE DEF new, pages
  <2> QED
    BY <1>1, <2>1 DEF Page
<1>3. DOMAIN new = DOMAIN pages /\ DOMAIN pages = 1 .. Len(pages) /\ Len(pages) \in Nat
  BY <1>1
<1>4. new \in [1 .. Len(pages) -> Page]
  BY <1>2, <1>3
<1>5. NewShape(c) = new
  BY DEF NewShape, turned
<1> HIDE DEF new
<1>6. new \in Seq(Page) /\ Len(new) = Len(pages)
  BY <1>3, <1>4
<1>7. body \in Body /\ body.pages = new /\ body.count = loc[c].body.count
  BY <1>1, <1>6 DEF Body
<1> HIDE DEF body
<1>8. Indexes(new) = Indexes(pages)
  BY <1>2, <1>3, <1>6 DEF Indexes
<1>9. BodyOK(body)
  BY <1>1, <1>2, <1>3, <1>6, <1>7, <1>8 DEF BodyOK, WellFormed
<1> QED
  BY <1>5, <1>9 DEF body

LEMMA WritePageStep == ASSUME IInv, NEW c \in Clients, UNCHANGED scene, WritePage(c) PROVE IInv'
<1> DEFINE body == [loc[c].body EXCEPT !.pages = NewShape(c)]
           away == loc[c].away
           pending == loc[c].pending
           l == [loc[c] EXCEPT !.body = body, !.away = away, !.pending = pending]
<1>1. c \in Procs /\ c # Scanner /\ LocalOK(loc[c])
  BY ScannerAssumption DEF Procs, IInv, Processes
<1>2. PICK torn \in BOOLEAN :
        files' = [f \in Names |->
                    IF c \in files[f].open
                    THEN [loc[c].data EXCEPT !.torn = torn, !.open = files[f].open \ {c}]
                    ELSE files[f]]
  BY DEF WritePage
<1>3. files' \in [Names -> Content]
  <2> SUFFICES ASSUME NEW f \in Names
               PROVE  [loc[c].data EXCEPT !.torn = torn, !.open = files[f].open \ {c}] \in Content
    BY <1>2 DEF IInv, FilesOK
  <2>1. loc[c].data \in Content /\ files[f].open \ {c} \in SUBSET Clients
    BY <1>1 DEF LocalOK, Local, IInv, FilesOK, Content
  <2> QED
    BY <2>1 DEF Content
<1>4. dir # "whole" => \A f \in Names : files'[f] = Missing
  <2>1. c \notin Missing.open
    BY DEF Missing
  <2> QED
    BY <1>2, <2>1 DEF IInv, DirOK, WritePage
<1>5. CASE Return(c)
  BY <1>1, <1>3, <1>4, <1>5, ReturnStep, FilesStep DEF IInv, WritePage
<1>6. CASE loc' = [loc EXCEPT ![c].body.pages = NewShape(c)] /\ Goto(c, "saveMeta")
  <2>1. BodyOK(body)
    BY <1>1, NewShapeOK
  <2>2. loc' = [loc EXCEPT ![c] = l]
    BY <1>1, <1>6 DEF IInv, Processes, LocalOK, Local
  <2>7. away \in SUBSET Move /\ pending \in SUBSET Move
    BY <1>1 DEF LocalOK, Local
  <2> HIDE DEF body, away, pending
  <2>3. LocalOK(l)
    <3>1. l = [loc[c] EXCEPT !.body = body, !.away = away, !.pending = pending]
      OBVIOUS
    <3> HIDE DEF l
    <3> QED
      BY <1>1, <2>1, <2>7, <3>1, WithBodyOK
  <2> HIDE DEF l
  <2>4. Processes'
    BY <1>1, <1>6, <2>2, <2>3, ProcessStep, PlacesFacts DEF IInv
  <2> QED
    BY <1>3, <1>4, <2>4, FilesStep DEF WritePage
<1> QED
  BY <1>5, <1>6 DEF WritePage

-------------------------------------------------------------------------------
(* Pages are read *)

LEMMA IndexesAreNumbers == ASSUME NEW pages \in Seq(Page) PROVE Indexes(pages) \subseteq Numbers
<1>1. \A i \in DOMAIN pages : pages[i] \in Page
  OBVIOUS
<1> QED
  BY <1>1 DEF Indexes, Page

LEMMA NextPageStep == ASSUME IInv, NEW c \in Clients, UNCHANGED scene, NextPage(c) PROVE IInv'
<1> DEFINE n == loc[c].want[Len(loc[c].got) + 1]
           body == meta.body
           l == [loc[c] EXCEPT !.body = body, !.n = n]
<1>1. c \in Procs /\ c # Scanner /\ LocalOK(loc[c])
  BY ScannerAssumption DEF Procs, IInv, Processes
<1>2. CASE Return(c)
  BY <1>1, <1>2, ReturnOnly DEF NextPage
<1>3. CASE /\ meta.state = "whole" /\ n \in Indexes(body.pages)
           /\ loc' = [loc EXCEPT ![c].body = body, ![c].n = n] /\ Goto(c, "combinePage")
  <2>1. BodyOK(body)
    BY <1>3 DEF IInv, MetaOK
  <2>2. n \in 0 .. PageLimit
    <3>1. body.pages \in Seq(Page)
      BY <2>1 DEF BodyOK, Body
    <3> HIDE DEF body, n
    <3> QED
      BY <1>3, <3>1, IndexesAreNumbers, NumbersFacts
  <2>3. loc' = [loc EXCEPT ![c] = l]
    BY <1>1, <1>3 DEF IInv, Processes
  <2>4. n \in Indexes(body.pages)
    BY <1>3
  <2> HIDE DEF body, n
  <2>5. LocalOK(l) /\ l.body = body /\ l.n = n
    <3>1. l = [loc[c] EXCEPT !.body = body, !.n = n]
      OBVIOUS
    <3> HIDE DEF l
    <3> QED
      BY <1>1, <2>1, <2>2, <3>1 DEF LocalOK, Local, BodyOK
  <2> HIDE DEF l
  <2>6. LocalOK(l) /\ HasPage(l)
    BY <2>4, <2>5 DEF HasPage
  <2> QED
    BY <1>1, <1>3, <2>3, <2>6, ProcessStep, PlacesFacts, RecordUntouched DEF IInv, NextPage
<1> QED
  BY <1>2, <1>3 DEF NextPage

LEMMA ReadPageStep == ASSUME IInv, NEW c \in Clients, UNCHANGED scene, ReadPage(c) PROVE IInv'
<1> DEFINE got == Got(c, [files[FileOf(c)] EXCEPT !.open = {}])
           place == IF pc[c] = "combinePage" /\ Len(loc[c].got) + 1 < Len(loc[c].want)
                    THEN "nextPage" ELSE "serve"
           l == [loc[c] EXCEPT !.got = got]
<1>1. c \in Procs /\ c # Scanner /\ LocalOK(loc[c])
  BY ScannerAssumption DEF Procs, IInv, Processes
<1>2. CASE Return(c)
  BY <1>1, <1>2, ReturnOnly DEF ReadPage
<1>3. CASE loc' = [loc EXCEPT ![c].got = got] /\ Goto(c, place)
  <2>1. loc' = [loc EXCEPT ![c] = l]
    BY <1>3
  <2>2. place \in Places /\ place \notin WithPage
    BY PlacesFacts
  <2>3. got \in Seq(Content)
    <3> DEFINE content == files[FileOf(c)]
    <3>1. HasPage(loc[c])
      BY DEF IInv, Processes, ReadPage, WithPage
    <3>2. content \in Content
      BY <1>1, <3>1, FileOfName DEF IInv, FilesOK
    <3> HIDE DEF content
    <3>3. [content EXCEPT !.open = {}] \in Content /\ loc[c].got \in Seq(Content)
      BY <1>1, <3>2 DEF Content, LocalOK, Local
    <3> QED
      BY <3>3 DEF Got, content
  <2> HIDE DEF got, place
  <2>4. LocalOK(l)
    BY <1>1, <2>3 DEF LocalOK, Local
  <2> HIDE DEF l
  <2> QED
    BY <1>1, <1>3, <2>1, <2>2, <2>4, ProcessStep, RecordUntouched DEF IInv, ReadPage
<1> QED
  BY <1>2, <1>3 DEF ReadPage

-------------------------------------------------------------------------------
(* The scan is deleted *)

LEMMA RemoveStep ==
  ASSUME IInv, NEW c \in Clients, UNCHANGED scene, RemoveEntry(c) \/ RemoveEnds(c) PROVE IInv'
<1>1. CASE RemoveEntry(c)
  <2>1. Processes'
    BY <1>1 DEF RemoveEntry, IInv, Processes
  <2>2. NoBody \in Body
    BY FullJobOK DEF IInv, BodyOK
  <2>3. MetaOK'
    BY <1>1, <2>2 DEF RemoveEntry, IInv, MetaOK, Record
  <2>4. FilesOK' /\ DirOK'
    BY <1>1, MissingContent DEF RemoveEntry, IInv, FilesOK, DirOK
  <2> QED
    BY <2>1, <2>3, <2>4 DEF IInv
<1>2. CASE RemoveEnds(c)
  <2>1. Processes'
    BY <1>2, ReturnStep DEF RemoveEnds, IInv, Procs
  <2> QED
    BY <1>2, <2>1 DEF RemoveEnds, IInv, MetaOK, FilesOK, DirOK
<1> QED
  BY <1>1, <1>2

-------------------------------------------------------------------------------
(* The record is saved *)

LEMMA SaveStep == ASSUME IInv, NEW p \in Procs, UNCHANGED scene, Save(p) PROVE IInv'
<1>1. CASE Return(p) /\ UNCHANGED <<meta, files, dir>>
  BY <1>1, ReturnOnly
<1>2. CASE OpenMeta(p) /\ Goto(p, "writeMeta") /\ UNCHANGED loc /\ dir # "gone"
           /\ meta' = [state |-> "empty", body |-> NoBody, open |-> meta.open \cup {p}]
  <2>1. Processes'
    BY <1>2, ProcessMoves, PlacesFacts DEF IInv
  <2>2. MetaOK'
    BY <1>2, FullJobOK DEF IInv, MetaOK, Record, BodyOK
  <2> QED
    BY <1>2, <2>1, <2>2 DEF OpenMeta, IInv, FilesOK, DirOK
<1>3. CASE WriteMeta(p) /\ p \in meta.open
  <2>1. BodyOK(loc[p].body) /\ NoBody \in Body
    BY FullJobOK DEF IInv, Processes, LocalOK, BodyOK
  <2>2. meta.state # "absent" /\ dir # "gone" /\ meta.open \ {p} \in SUBSET Procs
    BY <1>3 DEF IInv, MetaOK, DirOK, Record
  <2> DEFINE old == [meta EXCEPT !.open = @ \ {p}]
  <2>3. /\ old \in Record /\ old.state = meta.state /\ old.body = meta.body
        /\ old.open = meta.open \ {p}
    BY <2>2 DEF IInv, MetaOK, Record
  <2>4. meta' \in Overwrite(old, loc[p].body) \cup {old}
    BY <1>3 DEF WriteMeta
  <2> HIDE DEF old
  <2>5. MetaOK'
    <3>1. CASE meta' = old
      BY <2>2, <2>3, <3>1 DEF IInv, MetaOK
    <3>2. CASE meta' = [old EXCEPT !.state = "whole", !.body = loc[p].body]
      BY <2>1, <2>3, <3>2 DEF MetaOK, Record, BodyOK
    <3>3. CASE meta' = [old EXCEPT !.state = "corrupt", !.body = NoBody]
      BY <2>1, <2>3, <3>3 DEF MetaOK, Record
    <3> QED
      BY <2>4, <3>1, <3>2, <3>3 DEF Overwrite
  <2>6. Processes'
    BY <1>3, ReturnStep DEF WriteMeta, IInv
  <2> QED
    BY <1>3, <2>2, <2>5, <2>6 DEF WriteMeta, IInv, FilesOK, DirOK
<1> QED
  BY <1>1, <1>2, <1>3 DEF Save, OpenMeta, WriteMeta, JobDirThere

-------------------------------------------------------------------------------
(* The scan goes on *)

LEMMA SaveSideStep ==
  ASSUME IInv, UNCHANGED scene, NEW isLast, SaveSide(isLast) PROVE IInv'
<1> DEFINE k == loc[Scanner]
           n == k.n + 1
           count == IF isLast THEN n ELSE k.body.count
           place == IF isLast THEN "saveMeta" ELSE "back"
           page == [index |-> n, file |-> n, turned |-> FALSE]
           new == Append(k.body.pages, page)
           body == [k.body EXCEPT !.pages = new, !.count = count]
           l == [k EXCEPT !.body = body, !.n = n]
<1>1. Scanner \in Procs /\ Scanner \notin Clients /\ LocalOK(k) /\ Counts(k)
  BY ScannerAssumption DEF Procs, IInv, Processes
<1>2. loc' = [loc EXCEPT ![Scanner] = l]
  <2>1. k \in Local /\ k.body \in Body
    BY <1>1 DEF LocalOK, BodyOK
  <2>2. loc = [p \in Procs |-> loc[p]] /\ loc[Scanner] = k
    BY DEF IInv, Processes
  <2>3. loc' = [loc EXCEPT ![Scanner].n = n,
                           ![Scanner].body.count = IF isLast THEN n ELSE @,
                           ![Scanner].body.pages = Append(@, page)]
    BY DEF SaveSide
  <2>4. l = [k EXCEPT !.n = n, !.body.count = IF isLast THEN n ELSE @, !.body.pages = Append(@, page)]
    BY <2>1 DEF Local, Body
  <2> HIDE DEF k, l, n, page
  <2> QED
    BY <1>1, <2>2, <2>3, <2>4
<1>3. /\ k.body \in Body /\ k.body.pages \in Seq(Page) /\ k.n \in Nat
      /\ Len(k.body.pages) = k.n
      /\ \A i \in DOMAIN k.body.pages : /\ k.body.pages[i].index = i
                                        /\ k.body.pages[i].file = i
  BY <1>1, BoundAssumption DEF LocalOK, BodyOK, Body, Counts, WellFormed
<1>4. n \in Numbers /\ n \in 0 .. PageLimit /\ n \in Nat /\ n <= PageLimit
  BY <1>3, SceneAssumption, BoundAssumption DEF SaveSide, IInv, Scene, Numbers
<1>5. page \in Page /\ count \in Nat
  BY <1>3, <1>4 DEF Page, Body
<1> HIDE DEF page, k, count
<1>6. new \in Seq(Page) /\ Len(new) = n /\ \A i \in DOMAIN new : new[i].index = i /\ new[i].file = i
  <2>1. /\ new \in Seq(Page) /\ Len(new) = n /\ new[n] = page
        /\ \A i \in 1 .. k.n : new[i] = k.body.pages[i]
    BY <1>3, <1>5
  <2>2. DOMAIN new = 1 .. n /\ DOMAIN k.body.pages = 1 .. k.n
    BY <1>3, <2>1
  <2>3. page.index = n /\ page.file = n
    BY DEF page
  <2> HIDE DEF new
  <2> QED
    BY <1>3, <2>1, <2>2, <2>3
<1> HIDE DEF new
<1> HIDE DEF n
<1>7. body \in Body /\ body.pages = new /\ body.count = count
  BY <1>3, <1>5, <1>6 DEF Body
<1> HIDE DEF body
<1>8. BodyOK(body)
  <2>1. Indexes(new) = 1 .. Len(new)
    BY <1>6 DEF Indexes
  <2> QED
    BY <1>4, <1>6, <1>7, <2>1 DEF BodyOK, WellFormed
<1>9. LocalOK(l) /\ l.body = body /\ l.n = n
  <2>1. l = [k EXCEPT !.body = body, !.n = n]
    OBVIOUS
  <2> HIDE DEF l
  <2> QED
    BY <1>1, <1>4, <1>8, <2>1 DEF LocalOK, Local, BodyOK
<1> HIDE DEF l
<1>10. Counts(l)
  BY <1>6, <1>7, <1>9 DEF Counts
<1>11. Processes'
  <2>1. Goto(Scanner, place) /\ place \in Places
    BY PlacesFacts DEF SaveSide
  <2> HIDE DEF place
  <2> QED
    BY <1>1, <1>2, <1>9, <1>10, <2>1, ProcessStep DEF IInv
<1>12. files' = [files EXCEPT ![File(n)] = Fresh(n)] /\ dir = "whole" /\ UNCHANGED <<meta, dir>>
  BY DEF SaveSide, n, k
<1>13. files' \in [Names -> Content]
  BY <1>4, <1>12, FreshContent DEF IInv, FilesOK
<1> QED
  BY <1>11, <1>12, <1>13, FilesStep

LEMMA ScanFinishStep == ASSUME IInv, UNCHANGED scene, ScanFinish PROVE IInv'
<1> DEFINE k == loc[Scanner]
           n == k.n
<1>1. Scanner \in Procs /\ Scanner \notin Clients /\ LocalOK(k) /\ Counts(k)
  BY ScannerAssumption DEF Procs, IInv, Processes
<1>0. PICK status \in {"completed", "failed"} : loc' = [loc EXCEPT ![Scanner].body.status = status]
  BY DEF ScanFinish
<1> DEFINE body == [k.body EXCEPT !.status = status]
           l == [k EXCEPT !.body = body, !.n = n]
<1>2. loc' = [loc EXCEPT ![Scanner] = l]
  BY <1>0, <1>1 DEF IInv, Processes, LocalOK
<1> HIDE DEF k
<1>3. BodyOK(k.body) /\ n \in 0 .. PageLimit
  BY <1>1 DEF LocalOK, Local
<1>4. body \in Body /\ body.pages = k.body.pages /\ body.count = k.body.count
  BY <1>3 DEF BodyOK, Body
<1> HIDE DEF body, n
<1>5. BodyOK(body)
  BY <1>3, <1>4 DEF BodyOK, WellFormed
<1>6. LocalOK(l) /\ l.body = body /\ l.n = n
  <2>1. l = [k EXCEPT !.body = body, !.n = n]
    OBVIOUS
  <2> HIDE DEF l
  <2> QED
    BY <1>1, <1>3, <1>5, <2>1 DEF LocalOK, Local, BodyOK
<1> HIDE DEF l
<1>7. Counts(l)
  BY <1>1, <1>4, <1>6 DEF Counts, n
<1>8. Processes'
  BY <1>1, <1>2, <1>6, <1>7, ProcessStep, PlacesFacts DEF IInv, ScanFinish
<1> QED
  BY <1>8, RecordUntouched DEF ScanFinish

-------------------------------------------------------------------------------
(* The server is killed *)

LEMMA CrashStep == ASSUME IInv, UNCHANGED scene, Crash PROVE IInv'
<1>1. pc' \in [Procs -> Places] /\ \A c \in Clients : pc'[c] \notin WithPage
  BY DEF Crash, Places, Procs, WithPage
<1>2. loc' = [p \in Procs |-> NoLocal] /\ Scanner \in Procs
  BY DEF Crash, Procs
<1>3. Processes'
  BY <1>1, <1>2, NoLocalOK DEF Processes
<1>4. MetaOK'
  BY DEF Crash, IInv, MetaOK, Record
<1>5. FilesOK' /\ (dir # "whole" => \A f \in Names : files'[f] = Missing)
  <2>1. files' = [f \in Names |-> [files[f] EXCEPT !.open = {}]]
    BY DEF Crash
  <2>2. \A content \in Content : [content EXCEPT !.open = {}] \in Content
    BY DEF Content
  <2>3. ASSUME NEW content, content = Missing, NEW m, m = [content EXCEPT !.open = {}]
        PROVE  m = Missing
    <3>1. content \in Content /\ m \in Content
      BY <2>2, <2>3, MissingContent
    <3>2. m.img = content.img /\ m.turned = content.turned /\ m.torn = content.torn /\ m.open = {}
      BY <2>3, <3>1 DEF Content
    <3>3. content.open = {}
      BY <2>3 DEF Missing
    <3>4. m = content
      BY <3>1, <3>2, <3>3 DEF Content
    <3> QED
      BY <2>3, <3>4
  <2>4. \A f \in Names : files[f] \in Content /\ files'[f] = [files[f] EXCEPT !.open = {}]
    BY <2>1 DEF IInv, FilesOK
  <2>5. FilesOK'
    BY <2>1, <2>2, <2>4 DEF FilesOK
  <2> QED
    BY <2>3, <2>4, <2>5 DEF IInv, DirOK
<1>6. DirOK'
  BY <1>5 DEF Crash, IInv, DirOK
<1> QED
  BY <1>3, <1>4, <1>5, <1>6 DEF IInv

-------------------------------------------------------------------------------
(* The theorems *)

THEOREM Inductive == IInv /\ [Next]_vars => IInv'
<1> SUFFICES ASSUME IInv, [Next]_vars PROVE IInv'
  OBVIOUS
<1>1. CASE UNCHANGED vars
  BY <1>1 DEF vars, IInv, Processes, MetaOK, FilesOK, DirOK
<1>2. CASE UNCHANGED scene /\ \E c \in Clients : Request(c)
  BY <1>2, SimpleRequests, CombineStep, ReorderStep, DeletePageStep DEF Request
<1>3. CASE UNCHANGED scene /\ \E c \in Clients : Handler(c)
  BY <1>3, RemoveFileStep, MoveFileStep, LoadPageStep, OpenPageStep, WritePageStep,
     NextPageStep, ReadPageStep, ReturnOnly, RemoveStep DEF Handler, Serve, Procs
<1>4. CASE UNCHANGED scene /\ \E p \in Procs : Save(p)
  BY <1>4, SaveStep
<1>5. CASE UNCHANGED scene /\ (ScanPage \/ ScanBack \/ ScanFinish \/ Crash)
  BY <1>5, SaveSideStep, ScanFinishStep, CrashStep DEF ScanPage, ScanBack
<1> QED
  BY <1>1, <1>2, <1>3, <1>4, <1>5 DEF Next

THEOREM Invariance == Spec => []IInv
BY Initially, Inductive, PTL DEF Spec

\* The histories, which no handler reads.
Histories == asked \subseteq Numbers \cup {NoImage} /\ clashed \in BOOLEAN

LEMMA HistoriesStep == ASSUME IInv, Histories, [Next]_vars PROVE Histories'
<1>1. CASE UNCHANGED <<asked, clashed>>
  BY <1>1 DEF Histories
<1>2. ASSUME NEW c \in Clients, NEW n \in Numbers, DeletePage(c, n) PROVE Histories'
  <2> DEFINE found == FindPage(meta.body.pages, n)
  <2>1. meta.body.pages \in Seq(Page) /\ n \in Indexes(meta.body.pages)
    BY <1>2 DEF DeletePage, IInv, MetaOK, BodyOK, Body
  <2>2. found \in Page
    BY <2>1, FindPageFinds
  <2>3. File(found.file) \in Names
    BY <2>2 DEF Page, File, Names
  <2>4. files[File(found.file)].img \in Numbers \cup {NoImage}
    BY <2>3 DEF IInv, FilesOK, Content
  <2>5. asked' = asked \cup {files[File(found.file)].img} /\ clashed' \in BOOLEAN
    BY <1>2 DEF DeletePage
  <2> HIDE DEF found
  <2> QED
    BY <2>4, <2>5 DEF Histories
<1>3. ASSUME NEW c \in Clients, NEW n \in Numbers, Rotate(c, n) PROVE Histories'
  BY <1>3 DEF Rotate, Histories
<1>4. ASSUME NEW c \in Clients, DeleteScan(c) PROVE Histories'
  BY <1>4 DEF DeleteScan, Histories
<1>5. ASSUME NEW c \in Clients, Request(c) PROVE Histories'
  BY <1>1, <1>2, <1>3, <1>4, <1>5 DEF Request, Rename, Reorder, Combine, GetPage, Export
<1>6. ASSUME NEW c \in Clients, Handler(c) PROVE Histories'
  BY <1>1, <1>6 DEF Handler, RemoveFile, MoveAside, MoveBack, LoadPage, OpenPage, WritePage,
     NextPage, ReadPage, Serve, RemoveEntry, RemoveEnds
<1>7. CASE \/ \E p \in Procs : Save(p)
           \/ ScanPage \/ ScanBack \/ ScanFinish \/ Crash \/ UNCHANGED vars
  BY <1>1, <1>7 DEF Save, OpenMeta, WriteMeta, ScanPage, ScanBack, SaveSide, ScanFinish, Crash, vars
<1> QED
  BY <1>5, <1>6, <1>7 DEF Next

\* Every variable keeps its type, however the requests, the scan and crashes
\* interleave: no page number, image or place leaves its range.
THEOREM TypeCorrect == Spec => []TypeOK
<1>1. Init => Histories
  BY DEF Init, Histories
<1>2. IInv /\ Histories /\ [Next]_vars => Histories'
  BY HistoriesStep
<1>3. IInv /\ Histories => TypeOK
  <2> SUFFICES ASSUME IInv, Histories PROVE TypeOK
    OBVIOUS
  <2>1. loc \in [Procs -> Local]
    BY DEF IInv, Processes, LocalOK
  <2> QED
    BY <2>1 DEF IInv, Processes, MetaOK, FilesOK, DirOK, Histories, TypeOK
<1> QED
  BY <1>1, <1>2, <1>3, Invariance, PTL DEF Spec

-------------------------------------------------------------------------------
(* PageCount: right in every copy of the record but that of a scan between the *)
(* two sides of a sheet, where it is one short.                                *)

CountedAt(body, place) ==
  CASE place = "scan" -> body.status = "running" /\ body.count = Len(body.pages)
    [] place = "back" -> body.status = "running" /\ body.count + 1 = Len(body.pages)
    [] OTHER -> Counted(body)

CountsOK == /\ meta.state = "whole" => Counted(meta.body)
            /\ \A p \in Procs : CountedAt(loc[p].body, pc[p])

\* One process takes a step.
LEMMA CountStep ==
  ASSUME IInv, CountsOK, NEW p \in Procs, NEW place, Goto(p, place),
         \A q \in Procs \ {p} : loc'[q].body = loc[q].body,
         CountedAt(loc'[p].body, place), meta'.state = "whole" => Counted(meta'.body)
  PROVE  CountsOK'
<1>1. \A q \in Procs : pc'[q] = IF q = p THEN place ELSE pc[q]
  BY DEF IInv, Processes, Goto
<1>2. \A q \in Procs : CountedAt(loc'[q].body, pc'[q])
  BY <1>1 DEF CountsOK
<1> QED
  BY <1>2 DEF CountsOK, CountedAt, Counted

\* It has a copy of the record that is counted, and goes anywhere but to scan.
LEMMA CountMoves ==
  ASSUME IInv, CountsOK, NEW p \in Procs, NEW place, place \notin {"scan", "back"},
         Goto(p, place), NEW l, loc' = [loc EXCEPT ![p] = l], Counted(l.body),
         meta'.state = "whole" => Counted(meta'.body)
  PROVE  CountsOK'
<1>1. /\ \A q \in Procs \ {p} : loc'[q].body = loc[q].body
      /\ loc'[p] = l
  BY DEF IInv, Processes
<1>2. CountedAt(loc'[p].body, place)
  BY <1>1 DEF CountedAt
<1> QED
  BY <1>1, <1>2, CountStep

LEMMA CountReturns ==
  ASSUME IInv, CountsOK, NEW p \in Procs, pc[p] \notin {"scan", "back"}, Return(p),
         meta'.state = "whole" => Counted(meta'.body)
  PROVE  CountsOK'
<1>1. CASE p \in Clients
  <2>1. Goto(p, "idle") /\ loc' = [loc EXCEPT ![p] = NoLocal] /\ Counted(NoLocal.body)
    BY <1>1 DEF Return, NoLocal, NoBody, Counted
  <2> QED
    BY <2>1, CountMoves
<1>2. CASE p \notin Clients
  <2> DEFINE place == IF loc[p].body.status = "running" THEN "scan" ELSE "off"
  <2>1. Goto(p, place) /\ UNCHANGED loc
    BY <1>2 DEF Return
  <2>2. Counted(loc[p].body)
    BY DEF CountsOK, CountedAt
  <2>3. CountedAt(loc'[p].body, place)
    BY <2>1, <2>2 DEF CountedAt, Counted
  <2> HIDE DEF place
  <2> QED
    BY <2>1, <2>3, CountStep
<1> QED
  BY <1>1, <1>2

\* Requests copy the record, or only change the order of its pages.
LEMMA CountRequests ==
  ASSUME IInv, CountsOK, NEW c \in Clients, Request(c) PROVE CountsOK'
<1> USE DEF Procs
<1>1. ASSUME NEW op, NEW place \in Places \ {"scan", "back"}, NEW n \in 0 .. PageLimit,
             Load(c, op, place, n), UNCHANGED meta
      PROVE  CountsOK'
  <2> DEFINE l == [NoLocal EXCEPT !.body = meta.body, !.n = n]
  <2>1. loc' = [loc EXCEPT ![c] = l] /\ Goto(c, place) /\ meta.state = "whole"
    BY <1>1 DEF Load
  <2>2. l.body = meta.body
    BY DEF NoLocal
  <2> HIDE DEF l
  <2> QED
    BY <1>1, <2>1, <2>2, CountMoves DEF CountsOK
<1>2. CASE Rename(c) \/ DeleteScan(c)
  BY <1>1, <1>2, NumbersFacts, PlacesFacts DEF Rename, DeleteScan
<1>3. ASSUME NEW n \in Numbers, Rotate(c, n) \/ GetPage(c, n) \/ Export(c, n) PROVE CountsOK'
  BY <1>1, <1>3, NumbersFacts, PlacesFacts DEF Rotate, GetPage, Export
<1>4. ASSUME NEW n \in Numbers, DeletePage(c, n) PROVE CountsOK'
  <2>1. /\ \A q \in Procs \ {c} : loc'[q] = [loc[q] EXCEPT !.calm = FALSE]
        /\ loc'[c] = [NoLocal EXCEPT !.body = meta.body, !.n = n]
    BY <1>4 DEF DeletePage
  <2>2. \A q \in Procs \ {c} : loc'[q].body = loc[q].body
    <3> SUFFICES ASSUME NEW q \in Procs \ {c} PROVE loc'[q].body = loc[q].body
      OBVIOUS
    <3>1. loc[q] \in Local
      BY DEF IInv, Processes, LocalOK
    <3> QED
      BY <2>1, <3>1 DEF Local
  <2>3. loc'[c].body = meta.body
    BY <2>1 DEF NoLocal
  <2>4. CountedAt(loc'[c].body, "remove")
    BY <1>4, <2>3 DEF CountsOK, CountedAt, DeletePage
  <2>5. Goto(c, "remove") /\ UNCHANGED meta
    BY <1>4 DEF DeletePage
  <2> QED
    BY <2>2, <2>4, <2>5, CountStep DEF CountsOK
<1>5. CASE Combine(c)
  <2>1. PICK k \in 1 .. CombineLimit : \E want \in [1 .. k -> Numbers] :
          loc' = [loc EXCEPT ![c] = [NoLocal EXCEPT !.want = want, !.calm = ~Others(c, Deleting)]]
    BY <1>5 DEF Combine
  <2>2. PICK want \in [1 .. k -> Numbers] :
          loc' = [loc EXCEPT ![c] = [NoLocal EXCEPT !.want = want, !.calm = ~Others(c, Deleting)]]
    BY <2>1
  <2> DEFINE l == [NoLocal EXCEPT !.want = want, !.calm = ~Others(c, Deleting)]
  <2>3. Counted(l.body)
    BY DEF NoLocal, NoBody, Counted
  <2>4. Goto(c, "nextPage") /\ UNCHANGED meta /\ loc' = [loc EXCEPT ![c] = l]
    BY <1>5, <2>2 DEF Combine
  <2> HIDE DEF l
  <2> QED
    BY <2>3, <2>4, CountMoves DEF CountsOK
<1>6. CASE Reorder(c)
  <2> DEFINE pages == meta.body.pages
  <2>1. PICK order \in [DOMAIN pages -> Indexes(pages)] :
          loc' = [loc EXCEPT ![c] = [NoLocal EXCEPT !.body = [meta.body EXCEPT !.pages =
                      [i \in DOMAIN pages |-> FindPage(pages, order[i])]]]]
    BY <1>6 DEF Reorder
  <2> DEFINE new == [i \in DOMAIN pages |-> FindPage(pages, order[i])]
             l == [NoLocal EXCEPT !.body = [meta.body EXCEPT !.pages = new]]
  <2>2. pages \in Seq(Page) /\ meta.body \in Body /\ Counted(meta.body)
    BY <1>6 DEF Reorder, IInv, MetaOK, BodyOK, Body, CountsOK
  <2>3. Len(new) = Len(pages)
    <3>1. DOMAIN new = 1 .. Len(pages) /\ Len(pages) \in Nat
      BY <2>2
    <3> HIDE DEF new
    <3> QED
      BY <3>1
  <2> HIDE DEF new
  <2>4. l.body.pages = new /\ l.body.count = meta.body.count /\ l.body.status = meta.body.status
    BY <2>2 DEF NoLocal, Body
  <2>5. Counted(l.body)
    BY <2>2, <2>3, <2>4 DEF Counted
  <2>6. Goto(c, "saveMeta") /\ UNCHANGED meta /\ loc' = [loc EXCEPT ![c] = l]
    BY <1>6, <2>1 DEF Reorder, new
  <2> HIDE DEF l
  <2> QED
    BY <2>5, <2>6, CountMoves DEF CountsOK
<1> QED
  BY <1>2, <1>3, <1>4, <1>5, <1>6 DEF Request

\* A handler at work has a counted copy.
LEMMA CountHandlers ==
  ASSUME IInv, CountsOK, NEW c \in Clients, Handler(c) PROVE CountsOK'
<1> DEFINE k == loc[c]
<1>1. c \in Procs /\ k \in Local /\ k.body \in Body
  BY DEF Procs, IInv, Processes, LocalOK, BodyOK
<1>2. ASSUME pc[c] \notin {"scan", "back"} PROVE Counted(k.body)
  BY <1>1, <1>2 DEF CountsOK, CountedAt
<1>3. ASSUME NEW place, pc[c] \notin {"scan", "back"}, place \notin {"scan", "back"},
             Goto(c, place), UNCHANGED <<loc, meta>>
      PROVE  CountsOK'
  <2>1. loc' = [loc EXCEPT ![c] = k]
    BY <1>3 DEF IInv, Processes
  <2> HIDE DEF k
  <2> QED
    BY <1>1, <1>2, <1>3, <2>1, CountMoves DEF CountsOK
<1>4. CASE RemoveFile(c)
  <2> DEFINE rest == Without(k.body.pages, k.n)
             place == IF Moves(rest) = {} THEN "saveMeta" ELSE "move"
  <2>1. CASE Return(c)
    BY <1>1, <1>4, <2>1, CountReturns DEF RemoveFile, CountsOK
  <2>2. CASE /\ loc' = [loc EXCEPT ![c].body.pages = Renumbered(rest),
                                   ![c].body.count = Len(rest), ![c].away = Moves(rest)]
             /\ Goto(c, place)
    <3>1. k.body.pages \in Seq(Page) /\ k.n \in Indexes(k.body.pages) /\ Len(k.body.pages) <= PageLimit
      BY <1>1, <1>4 DEF IInv, Processes, RemoveFile, WithPage, HasPage, LocalOK, BodyOK, Body
    <3>2. rest \in Seq(Page) /\ Len(rest) <= PageLimit
      BY <3>1, WithoutOK, BoundAssumption
    <3>3. Len(Renumbered(rest)) = Len(rest)
      <4> HIDE DEF rest
      <4> QED
        BY <3>2, RenumberedOK
    <3> DEFINE l == [k EXCEPT !.body.pages = Renumbered(rest), !.body.count = Len(rest),
                              !.away = Moves(rest)]
    <3>4. loc' = [loc EXCEPT ![c] = l]
      BY <2>2 DEF IInv, Processes
    <3>5. l.body.pages = Renumbered(rest) /\ l.body.count = Len(rest)
      <4> HIDE DEF rest
      <4> QED
        BY <1>1 DEF Local, Body
    <3>6. Counted(l.body)
      BY <3>3, <3>5 DEF Counted
    <3>7. place \notin {"scan", "back"}
      OBVIOUS
    <3> HIDE DEF l, place
    <3> QED
      BY <1>1, <1>4, <2>2, <3>4, <3>6, <3>7, CountMoves DEF CountsOK, RemoveFile
  <2> QED
    BY <1>4, <2>1, <2>2 DEF RemoveFile
<1>5. ASSUME NEW from, NEW to, NEW away, NEW pending, pc[c] = "move",
             RenameFile(c, from, to, away, pending), UNCHANGED meta
      PROVE  CountsOK'
  <2> DEFINE place == IF away \cup pending = {} THEN "saveMeta" ELSE "move"
             l == [k EXCEPT !.away = away, !.pending = pending]
  <2>1. CASE Return(c)
    BY <1>1, <1>5, <2>1, CountReturns DEF CountsOK
  <2>2. CASE loc' = [loc EXCEPT ![c].away = away, ![c].pending = pending] /\ Goto(c, place)
    <3>1. loc' = [loc EXCEPT ![c] = l]
      BY <2>2 DEF IInv, Processes
    <3>2. l.body = k.body
      BY <1>1 DEF Local
    <3>3. place \notin {"scan", "back"}
      OBVIOUS
    <3> HIDE DEF l, place
    <3> QED
      BY <1>1, <1>2, <1>5, <2>2, <3>1, <3>2, <3>3, CountMoves DEF CountsOK
  <2> QED
    BY <1>5, <2>1, <2>2 DEF RenameFile
<1>6. CASE MoveAside(c) \/ MoveBack(c)
  BY <1>5, <1>6 DEF MoveAside, MoveBack
<1>7. CASE LoadPage(c)
  <2>1. CASE Return(c)
    BY <1>1, <1>7, <2>1, CountReturns DEF LoadPage, CountsOK
  <2>2. ASSUME NEW data, loc' = [loc EXCEPT ![c].data = data], Goto(c, "openPage") PROVE CountsOK'
    <3> DEFINE l == [k EXCEPT !.data = data]
    <3>1. loc' = [loc EXCEPT ![c] = l] /\ l.body = k.body
      BY <1>1, <2>2 DEF IInv, Processes, Local
    <3> HIDE DEF l
    <3> QED
      BY <1>1, <1>2, <1>7, <2>2, <3>1, CountMoves DEF LoadPage, CountsOK
  <2> QED
    BY <1>7, <2>1, <2>2 DEF LoadPage
<1>8. CASE OpenPage(c)
  BY <1>1, <1>3, <1>8, CountReturns DEF OpenPage, CountsOK
<1>9. CASE WritePage(c)
  <2>1. CASE Return(c)
    BY <1>1, <1>9, <2>1, CountReturns DEF WritePage, CountsOK
  <2>2. CASE loc' = [loc EXCEPT ![c].body.pages = NewShape(c)] /\ Goto(c, "saveMeta")
    <3> DEFINE l == [k EXCEPT !.body.pages = NewShape(c)]
    <3>1. loc' = [loc EXCEPT ![c] = l]
      BY <2>2 DEF IInv, Processes
    <3>2. /\ l.body.pages = NewShape(c) /\ l.body.count = k.body.count
          /\ l.body.status = k.body.status
      BY <1>1 DEF Local, Body
    <3>3. Len(NewShape(c)) = Len(k.body.pages)
      <4> DEFINE new == NewShape(c)
      <4>1. k.body.pages \in Seq(Page)
        BY <1>1 DEF Body
      <4>2. DOMAIN new = 1 .. Len(k.body.pages) /\ Len(k.body.pages) \in Nat
        BY <4>1 DEF NewShape
      <4>3. new = [i \in 1 .. Len(k.body.pages) |-> new[i]]
        BY <4>1 DEF NewShape
      <4> HIDE DEF new
      <4> QED
        BY <4>2, <4>3 DEF new
    <3>4. Counted(l.body)
      BY <1>2, <1>9, <3>2, <3>3 DEF Counted, WritePage
    <3> HIDE DEF l
    <3> QED
      BY <1>1, <1>9, <2>2, <3>1, <3>4, CountMoves DEF WritePage, CountsOK
  <2> QED
    BY <1>9, <2>1, <2>2 DEF WritePage
<1>10. CASE NextPage(c)
  <2>1. CASE Return(c)
    BY <1>1, <1>10, <2>1, CountReturns DEF NextPage, CountsOK
  <2>2. ASSUME NEW n, meta.state = "whole", Goto(c, "combinePage"),
               loc' = [loc EXCEPT ![c].body = meta.body, ![c].n = n]
        PROVE  CountsOK'
    <3> DEFINE l == [k EXCEPT !.body = meta.body, !.n = n]
    <3>1. loc' = [loc EXCEPT ![c] = l] /\ l.body = meta.body
      BY <1>1, <2>2 DEF IInv, Processes, Local
    <3> HIDE DEF l
    <3> QED
      BY <1>1, <1>10, <2>2, <3>1, CountMoves DEF NextPage, CountsOK
  <2> QED
    BY <1>10, <2>1, <2>2 DEF NextPage
<1>11. CASE ReadPage(c)
  <2>1. CASE Return(c)
    BY <1>1, <1>11, <2>1, CountReturns DEF ReadPage, CountsOK
  <2>2. ASSUME NEW got, NEW place \in {"nextPage", "serve"},
               loc' = [loc EXCEPT ![c].got = got], Goto(c, place)
        PROVE  CountsOK'
    <3> DEFINE l == [k EXCEPT !.got = got]
    <3>1. loc' = [loc EXCEPT ![c] = l] /\ l.body = k.body
      BY <1>1, <2>2 DEF IInv, Processes, Local
    <3> HIDE DEF l
    <3> QED
      BY <1>1, <1>2, <1>11, <2>2, <3>1, CountMoves DEF ReadPage, CountsOK
  <2> QED
    BY <1>11, <2>1, <2>2 DEF ReadPage
<1>12. CASE Serve(c)
  BY <1>1, <1>12, CountReturns DEF Serve, CountsOK
<1>13. CASE RemoveEntry(c)
  BY <1>13 DEF RemoveEntry, CountsOK, CountedAt, Counted
<1>14. CASE RemoveEnds(c)
  BY <1>1, <1>14, CountReturns DEF RemoveEnds, CountsOK
<1> QED
  BY <1>4, <1>6, <1>7, <1>8, <1>9, <1>10, <1>11, <1>12, <1>13, <1>14 DEF Handler

LEMMA CountSaves == ASSUME IInv, CountsOK, NEW p \in Procs, Save(p) PROVE CountsOK'
<1>1. ASSUME pc[p] \in {"saveMeta", "writeMeta"} PROVE Counted(loc[p].body)
  BY <1>1 DEF CountsOK, CountedAt
<1>2. CASE OpenMeta(p)
  <2>1. CASE Return(p)
    BY <1>2, <2>1, CountReturns DEF OpenMeta, CountsOK
  <2>2. CASE Goto(p, "writeMeta") /\ UNCHANGED loc /\ meta'.state = "empty"
    <3>1. loc' = [loc EXCEPT ![p] = loc[p]]
      BY <2>2 DEF IInv, Processes
    <3> QED
      BY <1>1, <1>2, <2>2, <3>1, CountMoves DEF OpenMeta
  <2> QED
    BY <1>2, <2>1, <2>2 DEF OpenMeta
<1>3. CASE WriteMeta(p)
  <2>1. Counted(loc[p].body) /\ Return(p) /\ pc[p] = "writeMeta"
    BY <1>1, <1>3 DEF WriteMeta
  <2> DEFINE old == [meta EXCEPT !.open = @ \ {p}]
             body == loc[p].body
  <2>2. old \in Record /\ old.state = meta.state /\ old.body = meta.body /\ body \in Body
    BY DEF IInv, MetaOK, Record, Processes, LocalOK, BodyOK
  <2>3. meta' \in Overwrite(old, body) \cup {old, meta}
    BY <1>3 DEF WriteMeta
  <2> HIDE DEF old, body
  <2>4. meta'.state = "whole" => meta'.body \in {body, meta.body} /\ (meta'.body # body => meta.state = "whole")
    BY <2>2, <2>3 DEF Overwrite, Record
  <2>5. meta'.state = "whole" => Counted(meta'.body)
    BY <2>1, <2>4 DEF body, CountsOK
  <2> QED
    BY <2>1, <2>5, CountReturns
<1> QED
  BY <1>2, <1>3 DEF Save

\* The front of a sheet that has a back is in the list before it is counted.
LEMMA CountScan ==
  ASSUME IInv, CountsOK, ScanPage \/ ScanBack \/ ScanFinish PROVE CountsOK'
<1> DEFINE k == loc[Scanner]
<1>1. /\ Scanner \in Procs /\ k \in Local /\ k.body \in Body /\ k.body.pages \in Seq(Page)
      /\ k.n \in Nat /\ Len(k.body.pages) = k.n
  <2>1. Scanner \in Procs /\ LocalOK(k) /\ Counts(k)
    BY DEF Procs, IInv, Processes
  <2> HIDE DEF k
  <2>2. k \in Local /\ k.body \in Body /\ Len(k.body.pages) = k.n
    BY <2>1 DEF LocalOK, BodyOK, Counts
  <2> QED
    BY <2>1, <2>2, BoundAssumption DEF Local, Body
<1>2. /\ pc[Scanner] = "scan" => k.body.status = "running" /\ k.body.count = k.n
      /\ pc[Scanner] = "back" => k.body.status = "running" /\ k.body.count + 1 = k.n
  BY <1>1 DEF CountsOK, CountedAt
<1>3. ASSUME NEW isLast \in BOOLEAN, SaveSide(isLast),
             \/ pc[Scanner] = "scan"
             \/ pc[Scanner] = "back" /\ isLast
      PROVE  CountsOK'
  <2> DEFINE n == k.n + 1
             page == [index |-> n, file |-> n, turned |-> FALSE]
             place == IF isLast THEN "saveMeta" ELSE "back"
  <2>1. n \in Numbers /\ page \in Page
    <3>1. n \in Numbers
      BY <1>1, <1>3, SceneAssumption, BoundAssumption DEF SaveSide, IInv, Scene, Numbers
    <3> QED
      BY <3>1 DEF Page
  <2> DEFINE body == [k.body EXCEPT !.count = IF isLast THEN n ELSE k.body.count,
                                    !.pages = Append(k.body.pages, page)]
  <2>2. loc'[Scanner].body = body /\ \A q \in Procs \ {Scanner} : loc'[q] = loc[q]
    <3>1. loc = [p \in Procs |-> loc[p]]
      BY DEF IInv, Processes
    <3>2. loc' = [loc EXCEPT ![Scanner].n = n,
                             ![Scanner].body.count = IF isLast THEN n ELSE @,
                             ![Scanner].body.pages = Append(@, page)]
      BY <1>3 DEF SaveSide
    <3> HIDE DEF n, page
    <3> QED
      BY <1>1, <3>1, <3>2 DEF Local, Body
  <2>3. /\ body.status = "running" /\ body.count = (IF isLast THEN n ELSE k.body.count)
        /\ body.pages = Append(k.body.pages, page)
    BY <1>1, <1>2, <1>3 DEF Body
  <2>4. Len(body.pages) = n
    <3> HIDE DEF page, body
    <3> QED
      BY <1>1, <2>1, <2>3
  <2>5. CountedAt(body, place)
    <3> HIDE DEF body, page
    <3> QED
      BY <1>1, <1>2, <1>3, <2>3, <2>4 DEF CountedAt, Counted
  <2>6. Goto(Scanner, place) /\ UNCHANGED meta
    BY <1>3 DEF SaveSide
  <2> HIDE DEF body, page, place
  <2> QED
    BY <1>1, <2>2, <2>5, <2>6, CountStep DEF CountsOK
<1>4. CASE ScanPage \/ ScanBack
  BY <1>3, <1>4 DEF ScanPage, ScanBack
<1>5. CASE ScanFinish
  <2>1. PICK status \in {"completed", "failed"} :
          /\ \/ pc[Scanner] = "scan"
             \/ pc[Scanner] = "back" /\ status = "failed"
          /\ loc' = [loc EXCEPT ![Scanner].body.status = status]
    BY <1>5 DEF ScanFinish
  <2> DEFINE l == [k EXCEPT !.body.status = status]
  <2>2. loc' = [loc EXCEPT ![Scanner] = l]
    BY <2>1 DEF IInv, Processes
  <2>3. l.body.status = status /\ l.body.count = k.body.count /\ l.body.pages = k.body.pages
    BY <1>1 DEF Local, Body
  <2>4. Counted(l.body)
    BY <1>1, <1>2, <2>1, <2>3 DEF Counted
  <2> HIDE DEF l
  <2> QED
    BY <1>1, <1>5, <2>2, <2>4, CountMoves DEF ScanFinish, CountsOK
<1> QED
  BY <1>4, <1>5

LEMMA CountsPreserved == ASSUME IInv, CountsOK, [Next]_vars PROVE CountsOK'
<1>1. CASE UNCHANGED vars
  BY <1>1 DEF vars, CountsOK, CountedAt, Counted
<1>2. CASE Crash
  <2>1. \A p \in Procs : loc'[p].body = NoBody /\ pc'[p] \in {"idle", "off"}
    BY <1>2 DEF Crash, NoLocal
  <2>2. \A p \in Procs : CountedAt(loc'[p].body, pc'[p])
    BY <2>1 DEF CountedAt, Counted, NoBody
  <2>3. meta'.state = meta.state /\ meta'.body = meta.body
    BY <1>2 DEF Crash, IInv, MetaOK, Record
  <2> QED
    BY <2>2, <2>3 DEF CountsOK
<1> QED
  BY <1>1, <1>2, CountRequests, CountHandlers, CountSaves, CountScan DEF Next

\* Whoever wrote meta.json last (storage.SaveMeta, without a lock), a record that a
\* handler can read numbers its pages from 1 without gaps, each naming its own file,
\* and its PageCount is the number of its pages, or one less in the record of a scan
\* that has failed because the back of a sheet could not be saved (manager.go:142):
\* for any number of clients, pages and overlapping requests.
THEOREM RecordsAreWellFormed == Spec => []MetaWellFormed
<1>1. Init => CountsOK
  <2> SUFFICES ASSUME Init PROVE CountsOK
    OBVIOUS
  <2>1. \A p \in Procs : loc[p].body = NoBody /\ pc[p] # "back"
    BY DEF Init, NoLocal
  <2>2. \A p \in Procs : CountedAt(loc[p].body, pc[p])
    BY <2>1 DEF CountedAt, Counted, NoBody
  <2>3. Counted(NoBody) /\ Counted(FullJob)
    <3>1. scene.pages \in Nat
      BY SceneAssumption, BoundAssumption DEF Init, Scene, Numbers
    <3>2. Len(FullJob.pages) = scene.pages
      BY <3>1 DEF FullJob
    <3> QED
      BY <3>2 DEF Counted, NoBody, FullJob
  <2> QED
    BY <2>2, <2>3 DEF Init, CountsOK
<1>2. IInv /\ CountsOK /\ [Next]_vars => CountsOK'
  BY CountsPreserved
<1>3. IInv /\ CountsOK => MetaWellFormed
  BY DEF IInv, MetaOK, MetaWellFormed, BodyOK, CountsOK
<1> QED
  BY <1>1, <1>2, <1>3, Invariance, PTL DEF Spec

\* After handleDeleteScan has removed the last directory, no request that was under
\* way, no scan and no restart brings a file or the record of the job back.
THEOREM NothingComesBack == Spec => []GoneIsGone
<1>1. IInv => GoneIsGone
  BY DEF IInv, DirOK, GoneIsGone
<1> QED
  BY <1>1, Invariance, PTL
===============================================================================
