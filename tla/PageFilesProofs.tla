---------------------------- MODULE PageFilesProofs ----------------------------
(***************************************************************************)
(* Proofs about the page files of PageApi.tla, for any number of clients,  *)
(* pages and pages to a document, in every scene: as long as no deletion   *)
(* of a page overlaps another or an edit, or finds files that another left *)
(* under temporary names, no image is lost and combined documents have the *)
(* pages that were asked for.                                              *)
(*                                                                         *)
(* The invariant compares images wherever they are: in a file, in the hands*)
(* of an edit, or read already for a document.                             *)
(***************************************************************************)
EXTENDS PageApiProofs

\* Image k is, or will be, or has been read from the file f.
Held(f, k) ==
  \/ files[f].img = k
  \/ \E c \in Clients : /\ pc[c] \in {"openPage", "writePage"}
                        /\ f = File(loc[c].n) /\ k = loc[c].data.img
  \/ \E c \in Clients : /\ loc[c].calm
                        /\ \E i \in DOMAIN loc[c].got : /\ f = File(loc[c].want[i])
                                                        /\ k = loc[c].got[i].img

\* One image to a file name, and one file name to an image.
OneToOne == \A f, g \in Names, k, j \in Numbers : Held(f, k) /\ Held(g, j) => (f = g <=> k = j)

\* While a client deletes a page, no other one does, none edits a page, and
\* nobody takes the numbers to be settled.
Alone(c) == pc[c] \in Deleting => /\ \A d \in Clients \ {c} : pc[d] \notin Deleting \cup Editing
                                  /\ \A d \in Clients : ~loc[d].calm

\* What a document has so far is whole, and the rest is to come.
Reader(c) ==
  loc[c].calm => /\ pc[c] \in {"nextPage", "combinePage", "serve"}
                 /\ \A i \in DOMAIN loc[c].got : /\ loc[c].got[i].img \in Numbers
                                                 /\ ~loc[c].got[i].torn
                 /\ IF pc[c] = "serve" THEN Len(loc[c].got) = Len(loc[c].want)
                                       ELSE Len(loc[c].got) < Len(loc[c].want)
                 /\ pc[c] = "combinePage" => loc[c].n = loc[c].want[Len(loc[c].got) + 1]

\* An edit has an image of a page, and has no other page's file open.
Editor(c) ==
  /\ pc[c] \in {"openPage", "writePage"} => loc[c].n \in Numbers /\ loc[c].data.img \in Numbers
  /\ \A f \in Names : c \in files[f].open => pc[c] = "writePage" /\ f = File(loc[c].n)

\* What is removed has been asked for, and nothing has a temporary name.
Remover(c) ==
  /\ pc[c] = "remove" => /\ files[File(loc[c].n)].img \in asked \cup {NoImage}
                         /\ loc[c].pending = {}
                         /\ \A k \in Numbers : files[Temp(k)] = Missing
  /\ pc[c] = "removeAll" => Numbers \subseteq asked

\* The moves are different ones; what has a temporary name is on its way to
\* another; and where a file is to go there is none, or one that has yet to
\* leave.
Mover(c) ==
  pc[c] = "move" =>
    LET away == loc[c].away  pending == loc[c].pending  moves == away \cup pending
    IN  /\ \A m, k \in moves : m.file = k.file \/ m.index = k.index => m = k
        /\ away \cap pending = {}
        /\ \A m \in moves : m.index <= Len(loc[c].body.pages)
        /\ \A k \in Numbers : files[Temp(k)] # Missing => \E m \in pending : m.file = k
        /\ \A m \in moves : files[File(m.index)] # Missing => \E a \in away : a.file = m.index

Clientele == \A c \in Clients : Alone(c) /\ Reader(c) /\ Editor(c) /\ Remover(c) /\ Mover(c)

\* A file has an image.
Whole == \A f \in Names : files[f].img = NoImage => files[f] = Missing

\* A scan that goes on is ahead of all numbers and images there are.
ScanAhead ==
  pc[Scanner] # "off" =>
    /\ \A f \in Names, k \in Numbers : Held(f, k) => f[2] <= loc[Scanner].n /\ k <= loc[Scanner].n
    /\ Len(meta.body.pages) <= loc[Scanner].n
    /\ \A c \in Clients : Len(loc[c].body.pages) <= loc[Scanner].n

Apart == Clientele /\ Whole /\ OneToOne /\ ScanAhead /\ ImagesSurvive

-------------------------------------------------------------------------------
(* Names *)

LEMMA NameFacts ==
  /\ \A n, m : /\ File(n) # Temp(m)
               /\ File(n) = File(m) <=> n = m
               /\ Temp(n) = Temp(m) <=> n = m
               /\ File(n)[2] = n
  /\ \A n \in Numbers : File(n) \in Names /\ Temp(n) \in Names
  /\ \A f \in Names : f[2] \in Numbers /\ (f = File(f[2]) \/ f = Temp(f[2]))
BY DEF File, Temp, Names

LEMMA NumberFacts == NoImage \notin Numbers /\ Numbers \subseteq Nat /\ \A n \in Numbers : n >= 1
BY BoundAssumption DEF Numbers

\* The file of the page a request is about is that of its number.
LEMMA FileOfNumber ==
  ASSUME IInv, NEW c \in Clients, HasPage(loc[c])
  PROVE  /\ FileOf(c) = File(loc[c].n)
         /\ loc[c].n \in Numbers /\ loc[c].n <= Len(loc[c].body.pages)
<1>1. LocalOK(loc[c])
  BY DEF IInv, Processes, Procs
<1>2. /\ loc[c].body.pages \in Seq(Page) /\ WellFormed(loc[c].body)
      /\ loc[c].n \in 1 .. Len(loc[c].body.pages) /\ Len(loc[c].body.pages) <= PageLimit
      /\ Len(loc[c].body.pages) \in Nat
  BY <1>1 DEF LocalOK, BodyOK, Body, HasPage, WellFormed
<1>3. FindPage(loc[c].body.pages, loc[c].n).file = loc[c].n
  <2>1. loc[c].n \in Indexes(loc[c].body.pages)
    BY DEF HasPage
  <2>2. PICK i \in DOMAIN loc[c].body.pages :
          /\ FindPage(loc[c].body.pages, loc[c].n) = loc[c].body.pages[i]
          /\ loc[c].body.pages[i].index = loc[c].n
    BY <2>1, FindPageFinds
  <2>3. loc[c].body.pages[i].file = loc[c].body.pages[i].index
    BY <1>2 DEF WellFormed
  <2> QED
    BY <2>2, <2>3
<1> QED
  BY <1>2, <1>3, BoundAssumption DEF FileOf, Numbers

-------------------------------------------------------------------------------
(* Steps that bring no image to another name *)

\* What becomes of a file in such a step of p: nothing, it goes, or it is
\* written by p, which edits it.
FileStep(p, f) ==
  \/ files'[f] = files[f]
  \/ files'[f] = Missing /\ Numbers \subseteq asked'
  \/ /\ p \in Clients /\ pc[p] \in {"openPage", "writePage"}
     /\ f = File(loc[p].n) /\ files'[f].img = loc[p].data.img

\* p goes to that place with those locals.
Takes(p, place, l) == Goto(p, place) /\ loc' = [loc EXCEPT ![p] = l]

NoneDeletes(c) == \A d \in Clients \ {c} : pc[d] \notin Deleting

\* It begins no edit or document while a page is deleted.
Begins(p, place, l) ==
  p \in Clients => /\ place \in Editing /\ pc[p] \notin Editing => NoneDeletes(p)
                   /\ l.calm => NoneDeletes(p)

\* It has no image that was not held.
Holds(p, place, l) ==
  p \in Clients =>
    /\ place \in {"openPage", "writePage"} =>
         l.n \in Numbers /\ l.data.img \in Numbers /\ Held(File(l.n), l.data.img)
    /\ l.calm => \A i \in DOMAIN l.got : Held(File(l.want[i]), l.got[i].img)

\* Of the files only that of the page it edits is opened.
Opens(p, place, l) ==
  \A f \in Names : \A c \in files'[f].open :
    IF c = p THEN place = "writePage" /\ f = File(l.n) ELSE c \in files[f].open

Asks(place) == asked \subseteq asked' /\ (place = "removeAll" => Numbers \subseteq asked')

\* The scan stays ahead.
Follows(p, place, l) ==
  /\ p = Scanner => l.n = loc[p].n /\ (pc[p] = "off" => place = "off")
  /\ pc[Scanner] # "off" => /\ Len(l.body.pages) <= loc[Scanner].n
                            /\ Len(meta.body.pages)' <= loc[Scanner].n

LEMMA OtherStep ==
  ASSUME IInv, Apart, UNCHANGED scene,
         NEW p \in Procs, NEW place \in Places \ Deleting, NEW l,
         Takes(p, place, l), Begins(p, place, l), p \in Clients => Reader(p)',
         Holds(p, place, l), \A f \in Names : FileStep(p, f), Opens(p, place, l),
         Asks(place), Follows(p, place, l)
  PROVE  Apart'
<1> USE DEF Takes, NoneDeletes, Begins, Holds, Opens, Asks, Follows
<1>1. /\ \A q \in Procs : pc'[q] = IF q = p THEN place ELSE pc[q]
      /\ \A q \in Procs : loc'[q] = IF q = p THEN l ELSE loc[q]
      /\ Scanner \in Procs /\ Scanner \notin Clients /\ Clients \subseteq Procs
      /\ \A f \in Names : files[f] \in Content
  BY ScannerAssumption DEF IInv, Processes, FilesOK, Goto, Procs
<1>2. \A f \in Names, k \in Numbers : Held(f, k)' => Held(f, k)
  <2> SUFFICES ASSUME NEW f \in Names, NEW k \in Numbers, Held(f, k)' PROVE Held(f, k)
    OBVIOUS
  <2>1. CASE files'[f].img = k
    BY <2>1, NumberFacts DEF FileStep, Held, Missing
  <2>2. ASSUME NEW c \in Clients, pc'[c] \in {"openPage", "writePage"},
               f = File(loc'[c].n), k = loc'[c].data.img
        PROVE  Held(f, k)
    <3>1. CASE c = p
      BY <1>1, <2>2, <3>1
    <3>2. CASE c # p
      BY <1>1, <2>2, <3>2 DEF Held
    <3> QED
      BY <3>1, <3>2
  <2>3. ASSUME NEW c \in Clients, loc'[c].calm, NEW i \in DOMAIN loc'[c].got,
               f = File(loc'[c].want[i]), k = loc'[c].got[i].img
        PROVE  Held(f, k)
    <3>1. CASE c = p
      BY <1>1, <2>3, <3>1
    <3>2. CASE c # p
      BY <1>1, <2>3, <3>2 DEF Held
    <3> QED
      BY <3>1, <3>2
  <2> QED
    BY <2>1, <2>2, <2>3 DEF Held
<1>3. OneToOne'
  BY <1>2 DEF Apart, OneToOne
<1>4. ASSUME NEW c \in Clients, pc'[c] \in Deleting
      PROVE  /\ c # p /\ pc[c] \in Deleting /\ loc'[c] = loc[c]
             /\ \A f \in Names : \/ files'[f] = files[f]
                                 \/ files'[f] = Missing /\ Numbers \subseteq asked'
  <2>1. c # p /\ pc[c] \in Deleting /\ loc'[c] = loc[c]
    BY <1>1, <1>4
  <2>2. p \in Clients => pc[p] \notin Editing
    BY <2>1 DEF Apart, Clientele, Alone
  <2> QED
    BY <2>1, <2>2 DEF FileStep, Editing
<1>5. \A c \in Clients : Alone(c)'
  <2> SUFFICES ASSUME NEW c \in Clients, pc'[c] \in Deleting
               PROVE  /\ \A d \in Clients \ {c} : pc'[d] \notin Deleting \cup Editing
                      /\ \A d \in Clients : ~loc'[d].calm
    BY DEF Alone
  <2>1. c # p /\ pc[c] \in Deleting
    BY <1>4
  <2>2. /\ \A d \in Clients \ {c} : pc[d] \notin Deleting \cup Editing
        /\ \A d \in Clients : ~loc[d].calm
    BY <2>1 DEF Apart, Clientele, Alone
  <2>3. p \in Clients => ~l.calm /\ place \notin Editing
    BY <2>1, <2>2
  <2> QED
    BY <1>1, <2>2, <2>3
<1>6. \A c \in Clients : Reader(c)'
  <2> SUFFICES ASSUME NEW c \in Clients, c # p PROVE Reader(c)'
    OBVIOUS
  <2>1. pc'[c] = pc[c] /\ loc'[c] = loc[c]
    BY <1>1
  <2> QED
    BY <2>1 DEF Apart, Clientele, Reader
<1>7. \A c \in Clients : Editor(c)'
  <2> SUFFICES ASSUME NEW c \in Clients PROVE Editor(c)'
    OBVIOUS
  <2>1. CASE c = p
    BY <1>1, <2>1 DEF Editor
  <2>2. CASE c # p
    BY <1>1, <2>2 DEF Apart, Clientele, Editor
  <2> QED
    BY <2>1, <2>2
<1>8. \A c \in Clients : Remover(c)'
  <2> SUFFICES ASSUME NEW c \in Clients PROVE Remover(c)'
    OBVIOUS
  <2>1. ASSUME pc'[c] = "remove"
        PROVE  /\ files'[File(loc'[c].n)].img \in asked' \cup {NoImage}
               /\ loc'[c].pending = {}
               /\ \A k \in Numbers : files'[Temp(k)] = Missing
    <3>1. /\ pc[c] = "remove" /\ loc'[c] = loc[c]
          /\ \A f \in Names : files'[f] \in {files[f], Missing}
      BY <1>1, <1>4, <2>1 DEF Deleting
    <3>2. /\ files[File(loc[c].n)].img \in asked \cup {NoImage}
          /\ loc[c].pending = {}
          /\ \A k \in Numbers : files[Temp(k)] = Missing
      BY <3>1 DEF Apart, Clientele, Remover
    <3>3. loc[c].n \in Numbers
      BY <3>1, FileOfNumber DEF IInv, Processes, WithPage
    <3>4. File(loc[c].n) \in Names
      BY <3>3, NameFacts
    <3>5. files'[File(loc[c].n)].img \in asked' \cup {NoImage}
      BY <3>1, <3>2, <3>4 DEF Missing
    <3>6. \A k \in Numbers : files'[Temp(k)] = Missing
      BY <3>1, <3>2, NameFacts
    <3> QED
      BY <3>1, <3>2, <3>5, <3>6
  <2>2. ASSUME pc'[c] = "removeAll" PROVE Numbers \subseteq asked'
    BY <1>1, <2>2 DEF Apart, Clientele, Remover
  <2> QED
    BY <2>1, <2>2 DEF Remover
<1>9. \A c \in Clients : Mover(c)'
  <2> SUFFICES ASSUME NEW c \in Clients, pc'[c] = "move" PROVE Mover(c)'
    BY DEF Mover
  <2>1. /\ pc[c] = "move" /\ loc'[c] = loc[c]
        /\ \A f \in Names : files'[f] # Missing => files[f] # Missing
    BY <1>1, <1>4 DEF Deleting
  <2>2. \A m \in loc[c].away \cup loc[c].pending : m.index \in Numbers
    BY <1>1 DEF IInv, Processes, LocalOK, Local, Move
  <2>3. Mover(c)
    BY DEF Apart, Clientele
  <2> QED
    BY <2>1, <2>2, <2>3, NameFacts DEF Mover
<1>10. Clientele'
  BY <1>5, <1>6, <1>7, <1>8, <1>9 DEF Clientele
<1>11. Whole'
  <2> SUFFICES ASSUME NEW f \in Names, files'[f].img = NoImage PROVE files'[f] = Missing
    BY DEF Whole
  <2> QED
    BY NumberFacts DEF FileStep, Apart, Whole, Clientele, Editor
<1>12. ScanAhead'
  <2> SUFFICES ASSUME pc'[Scanner] # "off" PROVE ScanAhead'
    BY DEF ScanAhead
  <2>1. pc[Scanner] # "off" /\ loc'[Scanner].n = loc[Scanner].n
    BY <1>1
  <2>2. \A c \in Clients : Len(loc'[c].body.pages) <= loc[Scanner].n
    BY <1>1, <2>1 DEF Apart, ScanAhead
  <2> QED
    BY <1>2, <2>1, <2>2 DEF Apart, ScanAhead
<1>13. ImagesSurvive'
  <2> DEFINE bound == IF scene.scanning THEN loc[Scanner].n ELSE scene.pages
  <2>1. bound' = bound /\ bound \in 0 .. PageLimit
    BY <1>1, SceneAssumption, BoundAssumption
       DEF IInv, Processes, LocalOK, Local, Scene, Numbers
  <2> SUFFICES ASSUME NEW k \in 1 .. bound, k \notin asked' PROVE \E f \in Names : files'[f].img = k
    BY <2>1 DEF ImagesSurvive
  <2>2. k \in Numbers
    BY <2>1, BoundAssumption DEF Numbers
  <2> HIDE DEF bound
  <2>3. PICK f \in Names : files[f].img = k
    BY DEF Apart, ImagesSurvive, bound
  <2>4. CASE files'[f] = files[f]
    BY <2>3, <2>4
  <2>5. CASE files'[f] = Missing /\ Numbers \subseteq asked'
    BY <2>2, <2>5
  <2>6. CASE /\ p \in Clients /\ pc[p] \in {"openPage", "writePage"}
             /\ f = File(loc[p].n) /\ files'[f].img = loc[p].data.img
    <3>1. loc[p].data.img \in Numbers /\ Held(f, loc[p].data.img) /\ Held(f, k)
      BY <2>3, <2>6 DEF Held, Apart, Clientele, Editor
    <3>2. k = loc[p].data.img
      <4>1. \A j \in Numbers : Held(f, j) => j = k
        BY <2>2, <3>1 DEF Apart, OneToOne
      <4> QED
        BY <3>1, <4>1
    <3> QED
      BY <2>6, <3>2
  <2> QED
    BY <2>4, <2>5, <2>6 DEF FileStep
<1> QED
  BY <1>3, <1>10, <1>11, <1>12, <1>13 DEF Apart

\* ... nor does it touch a file or go on with a document.
LEMMA PlainStep ==
  ASSUME IInv, Apart, UNCHANGED <<scene, files>>,
         NEW p \in Procs, NEW place \in Places \ (Deleting \cup {"openPage", "writePage"}), NEW l,
         Takes(p, place, l), p \in Clients => ~l.calm, pc[p] # "writePage",
         place = "loadPage" /\ p \in Clients => NoneDeletes(p),
         Asks(place), Follows(p, place, l)
  PROVE  Apart'
<1>1. loc'[p] = l
  BY DEF IInv, Processes, Takes
<1>2. \A f \in Names : FileStep(p, f)
  BY DEF FileStep
<1>3. Opens(p, place, l)
  BY DEF Opens, Apart, Clientele, Editor, IInv, FilesOK, Content
<1>4. p \in Clients => Reader(p)'
  BY <1>1 DEF Reader
<1>5. Begins(p, place, l)
  BY DEF Editing, Begins
<1>6. Holds(p, place, l)
  BY DEF Holds
<1> QED
  BY <1>2, <1>3, <1>4, <1>5, <1>6, OtherStep

LEMMA ScanBounds ==
  ASSUME IInv, Apart, pc[Scanner] # "off"
  PROVE  /\ Len(meta.body.pages) <= loc[Scanner].n
         /\ \A p \in Procs : Len(loc[p].body.pages) <= loc[Scanner].n
         /\ loc[Scanner].n \in Nat /\ loc[Scanner].n <= PageLimit
<1>1. Len(loc[Scanner].body.pages) = loc[Scanner].n /\ loc[Scanner].n \in 0 .. PageLimit
  BY DEF IInv, Processes, Counts, LocalOK, Local, Procs
<1> QED
  BY <1>1, BoundAssumption DEF Apart, ScanAhead, Procs

LEMMA NoBodyFacts == NoBody.pages = <<>> /\ Len(NoBody.pages) = 0 /\ NoLocal.body = NoBody /\ ~NoLocal.calm
BY DEF NoBody, NoLocal

\* The request ends.
LEMMA ReturnApart ==
  ASSUME IInv, Apart, UNCHANGED <<scene, files, asked>>,
         NEW p \in Procs, Return(p), pc[p] \notin {"writePage", "off"},
         pc[Scanner] # "off" => Len(meta.body.pages)' <= loc[Scanner].n
  PROVE  Apart'
<1> DEFINE place == IF p \in Clients THEN "idle" ELSE IF loc[p].body.status = "running" THEN "scan" ELSE "off"
           l == IF p \in Clients THEN NoLocal ELSE loc[p]
<1>1. /\ place \in Places \ (Deleting \cup {"openPage", "writePage"})
      /\ place \notin {"loadPage", "removeAll"}
  BY DEF Places, Deleting
<1>2. Takes(p, place, l)
  BY DEF Takes, Return, IInv, Processes
<1>3. p \in Clients => p # Scanner
  BY ScannerAssumption
<1>4. p \in Clients => l.body = NoBody /\ ~l.calm
  BY NoBodyFacts
<1>5. p \notin Clients => l = loc[p] /\ p = Scanner
  BY DEF Procs
<1> HIDE DEF place, l
<1>6. Follows(p, place, l)
  BY <1>3, <1>4, <1>5, NoBodyFacts, ScanBounds DEF Follows
<1>7. Asks(place)
  BY <1>1 DEF Asks
<1> QED
  BY <1>1, <1>2, <1>4, <1>6, <1>7, PlainStep

\* ... and has changed nothing.
LEMMA EndsApart ==
  ASSUME IInv, Apart, UNCHANGED <<scene, meta, files, asked>>,
         NEW p \in Procs, Return(p), pc[p] \notin {"writePage", "off"}
  PROVE  Apart'
BY ReturnApart, ScanBounds

-------------------------------------------------------------------------------
(* Requests come in *)

LEMMA LoadApart ==
  ASSUME IInv, Apart, UNCHANGED <<scene, meta, files>>, NEW c \in Clients, NEW op, NEW n,
         NEW place \in {"saveMeta", "readPage", "decodePage", "removeAll", "loadPage"},
         Load(c, op, place, n),
         place = "loadPage" => NoneDeletes(c), Asks(place)
  PROVE  Apart'
<1> DEFINE l == [NoLocal EXCEPT !.body = meta.body, !.n = n]
<1>1. l.body = meta.body /\ ~l.calm
  BY DEF NoLocal
<1>2. c \in Procs /\ c # Scanner /\ pc[c] = "idle"
  BY ScannerAssumption DEF Procs, Load
<1>3. Takes(c, place, l)
  BY DEF Load, Takes
<1>4. place \in Places \ (Deleting \cup {"openPage", "writePage"})
  BY PlacesFacts DEF Deleting
<1> HIDE DEF l
<1>5. Follows(c, place, l)
  BY <1>1, <1>2, ScanBounds DEF Follows
<1> QED
  BY <1>1, <1>2, <1>3, <1>4, <1>5, PlainStep

LEMMA SimpleApart ==
  ASSUME IInv, Apart, UNCHANGED scene, ~clashed', NEW c \in Clients,
         \/ Rename(c) \/ DeleteScan(c)
         \/ \E n \in Numbers : Rotate(c, n) \/ GetPage(c, n) \/ Export(c, n)
  PROVE  Apart'
<1>1. CASE Rename(c)
  BY <1>1, LoadApart DEF Rename, Asks
<1>2. CASE DeleteScan(c)
  BY <1>2, LoadApart DEF DeleteScan, Asks
<1>3. ASSUME NEW n \in Numbers, Rotate(c, n) PROVE Apart'
  <2>1. NoneDeletes(c)
    BY <1>3 DEF Rotate, Others, NoneDeletes
  <2> QED
    BY <1>3, <2>1, LoadApart DEF Rotate, Asks
<1>4. ASSUME NEW n \in Numbers, GetPage(c, n) PROVE Apart'
  BY <1>4, LoadApart DEF GetPage, Asks
<1>5. ASSUME NEW n \in Numbers, Export(c, n) PROVE Apart'
  BY <1>5, LoadApart DEF Export, Asks
<1> QED
  BY <1>1, <1>2, <1>3, <1>4, <1>5

LEMMA ReorderApart ==
  ASSUME IInv, Apart, UNCHANGED scene, NEW c \in Clients, Reorder(c) PROVE Apart'
<1> DEFINE pages == meta.body.pages
<1>1. PICK order \in [DOMAIN pages -> Indexes(pages)] :
        loc' = [loc EXCEPT ![c] = [NoLocal EXCEPT !.body = [meta.body EXCEPT !.pages =
                  [i \in DOMAIN pages |-> FindPage(pages, order[i])]]]]
  BY DEF Reorder
<1> DEFINE new == [i \in DOMAIN pages |-> FindPage(pages, order[i])]
           l == [NoLocal EXCEPT !.body = [meta.body EXCEPT !.pages = new]]
<1>2. pages \in Seq(Page) /\ meta.body \in Body
  BY DEF IInv, MetaOK, Record, Body, BodyOK, Reorder
<1>3. Len(new) = Len(pages)
  BY <1>2
<1>4. l.body.pages = new /\ ~l.calm
  BY <1>2 DEF NoLocal, Body
<1>5. c \in Procs /\ c # Scanner /\ "saveMeta" \in Places \ (Deleting \cup {"openPage", "writePage"})
  BY ScannerAssumption, PlacesFacts DEF Procs, Deleting
<1>6. Takes(c, "saveMeta", l) /\ pc[c] = "idle" /\ Asks("saveMeta") /\ UNCHANGED <<files, meta>>
  BY <1>1 DEF Reorder, Takes, Asks
<1> HIDE DEF l
<1>7. Follows(c, "saveMeta", l)
  BY <1>3, <1>4, <1>5, <1>6, ScanBounds DEF Follows
<1> QED
  BY <1>4, <1>5, <1>6, <1>7, PlainStep

LEMMA CombineApart ==
  ASSUME IInv, Apart, UNCHANGED scene, NEW c \in Clients, Combine(c) PROVE Apart'
<1>1. PICK k \in 1 .. CombineLimit : \E want \in [1 .. k -> Numbers] :
        loc' = [loc EXCEPT ![c] = [NoLocal EXCEPT !.want = want, !.calm = ~Others(c, Deleting)]]
  BY DEF Combine
<1>2. PICK want \in [1 .. k -> Numbers] :
        loc' = [loc EXCEPT ![c] = [NoLocal EXCEPT !.want = want, !.calm = ~Others(c, Deleting)]]
  BY <1>1
<1> DEFINE l == [NoLocal EXCEPT !.want = want, !.calm = ~Others(c, Deleting)]
<1>3. l.body = NoBody /\ l.want = want /\ l.got = <<>> /\ l.calm = ~Others(c, Deleting)
  BY DEF NoLocal
<1>4. Len(l.got) = 0 /\ DOMAIN l.got = {} /\ Len(l.want) = k /\ k > 0
  BY <1>2, <1>3, BoundAssumption
<1>5. c \in Procs /\ c # Scanner /\ "nextPage" \in Places \ (Deleting \cup Editing)
  BY ScannerAssumption, PlacesFacts DEF Procs, Deleting, Editing
<1>6. /\ Takes(c, "nextPage", l) /\ pc[c] = "idle" /\ Asks("nextPage")
      /\ UNCHANGED <<files, meta>>
  BY <1>2 DEF Combine, Takes, Asks
<1> HIDE DEF l
<1>7. Follows(c, "nextPage", l)
  BY <1>3, <1>5, <1>6, NoBodyFacts, ScanBounds DEF Follows
<1>8. (\A f \in Names : FileStep(c, f)) /\ Opens(c, "nextPage", l)
  BY <1>6 DEF FileStep, Opens, Apart, Clientele, Editor
<1>9. Begins(c, "nextPage", l)
  BY <1>3, <1>5 DEF Begins, Others, NoneDeletes
<1>10. pc'[c] = "nextPage" /\ loc'[c] = l
  BY <1>5, <1>6 DEF IInv, Processes, Goto, Takes
<1>11. Reader(c)'
  BY <1>4, <1>10 DEF Reader
<1>12. Holds(c, "nextPage", l)
  BY <1>4 DEF Holds
<1>13. "nextPage" \in Places \ Deleting
  BY <1>5
<1> QED
  BY <1>5, <1>6, <1>7, <1>8, <1>9, <1>11, <1>12, <1>13, OtherStep

-------------------------------------------------------------------------------
(* Pages are read *)

\* Where the client is, what it may have open.
LEMMA Closed ==
  ASSUME Apart, NEW c \in Clients, pc[c] # "writePage"
  PROVE  \A f \in Names : c \notin files[f].open
BY DEF Apart, Clientele, Editor

LEMMA NotCalm ==
  ASSUME Apart, NEW c \in Clients, loc[c].calm
  PROVE  NoneDeletes(c)
BY DEF Apart, Clientele, Alone, NoneDeletes

LEMMA NextPageApart ==
  ASSUME IInv, Apart, UNCHANGED scene, NEW c \in Clients, NextPage(c) PROVE Apart'
<1> DEFINE n == loc[c].want[Len(loc[c].got) + 1]
           body == meta.body
           l == [loc[c] EXCEPT !.body = body, !.n = n]
<1>1. c \in Procs /\ c # Scanner /\ LocalOK(loc[c])
  BY ScannerAssumption DEF Procs, IInv, Processes
<1>2. CASE Return(c)
  BY <1>1, <1>2, EndsApart DEF NextPage
<1>3. CASE loc' = [loc EXCEPT ![c].body = body, ![c].n = n] /\ Goto(c, "combinePage")
  <2>1. Takes(c, "combinePage", l)
    BY <1>1, <1>3 DEF IInv, Processes, Takes
  <2>2. /\ l.body = body /\ l.n = n
        /\ l.got = loc[c].got /\ l.want = loc[c].want /\ l.calm = loc[c].calm
    BY <1>1 DEF LocalOK, Local
  <2> HIDE DEF l
  <2>3. pc'[c] = "combinePage" /\ loc'[c] = l
    BY <1>1, <2>1 DEF IInv, Processes, Goto, Takes
  <2>4. Reader(c)'
    BY <2>2, <2>3 DEF Reader, Apart, Clientele, NextPage
  <2>5. Holds(c, "combinePage", l)
    BY <2>2 DEF Holds, Held
  <2>6. Begins(c, "combinePage", l)
    BY <2>2, NotCalm DEF Editing, Begins
  <2>7. Follows(c, "combinePage", l) /\ Asks("combinePage")
    BY <1>1, <2>2, ScanBounds DEF NextPage, Follows, Asks
  <2>8. "combinePage" \in Places \ Deleting
    BY PlacesFacts DEF Deleting
  <2>9. (\A f \in Names : FileStep(c, f)) /\ Opens(c, "combinePage", l)
    BY Closed DEF NextPage, FileStep, Opens
  <2> QED
    BY <1>1, <2>1, <2>4, <2>5, <2>6, <2>7, <2>8, <2>9, OtherStep
<1> QED
  BY <1>2, <1>3 DEF NextPage

LEMMA ReadPageApart ==
  ASSUME IInv, Apart, UNCHANGED scene, NEW c \in Clients, ReadPage(c) PROVE Apart'
<1> DEFINE content == files[FileOf(c)]
           read == [content EXCEPT !.open = {}]
           place == IF pc[c] = "combinePage" /\ Len(loc[c].got) + 1 < Len(loc[c].want)
                    THEN "nextPage" ELSE "serve"
           l == [loc[c] EXCEPT !.got = Append(loc[c].got, read)]
<1>1. c \in Procs /\ c # Scanner /\ LocalOK(loc[c]) /\ HasPage(loc[c])
  BY ScannerAssumption DEF Procs, IInv, Processes, ReadPage, WithPage
<1>2. CASE Return(c)
  BY <1>1, <1>2, EndsApart DEF ReadPage
<1>3. CASE /\ loc' = [loc EXCEPT ![c].got = Got(c, read)] /\ Goto(c, place)
           /\ ~(content = Missing \/ (content.torn /\ pc[c] # "readPage"))
  <2>1. Takes(c, place, l)
    BY <1>3 DEF Got, Takes
  <2>2. /\ FileOf(c) = File(loc[c].n) /\ loc[c].n \in Numbers
        /\ content \in Content /\ FileOf(c) \in Names
    BY <1>1, FileOfNumber, FileOfName DEF IInv, FilesOK
  <2>3. content.img \in Numbers
    BY <1>3, <2>2 DEF Apart, Whole, Content
  <2>4. read.img = content.img /\ read.torn = content.torn /\ read \in Content
    BY <2>2 DEF Content
  <2>5. Held(File(loc[c].n), read.img)
    BY <2>2, <2>4 DEF Held
  <2>6. ~read.torn \/ pc[c] = "readPage"
    BY <1>3, <2>4
  <2> HIDE DEF content, read
  <2>7. loc[c].got \in Seq(Content) /\ loc[c].want \in Seq(Numbers)
    BY <1>1 DEF LocalOK, Local
  <2>8. /\ l.got = Append(loc[c].got, read) /\ l.want = loc[c].want
        /\ l.calm = loc[c].calm /\ l.body = loc[c].body
    BY <1>1 DEF LocalOK, Local
  <2>9. /\ Len(l.got) = Len(loc[c].got) + 1
        /\ DOMAIN l.got = 1 .. Len(loc[c].got) + 1 /\ DOMAIN loc[c].got = 1 .. Len(loc[c].got)
        /\ l.got[Len(loc[c].got) + 1] = read
        /\ \A i \in 1 .. Len(loc[c].got) : l.got[i] = loc[c].got[i]
        /\ Len(loc[c].got) \in Nat /\ Len(loc[c].want) \in Nat
    BY <2>4, <2>7, <2>8
  <2> HIDE DEF l
  <2>10. pc'[c] = place /\ loc'[c] = l
    BY <1>1, <2>1 DEF IInv, Processes, Goto, Takes
  <2>11. ASSUME l.calm
         PROVE  /\ pc[c] = "combinePage" /\ loc[c].n = loc[c].want[Len(loc[c].got) + 1]
                /\ Len(loc[c].got) < Len(loc[c].want)
                /\ \A i \in 1 .. Len(loc[c].got) : /\ loc[c].got[i].img \in Numbers
                                                   /\ ~loc[c].got[i].torn
                                                   /\ Held(File(loc[c].want[i]), loc[c].got[i].img)
    <3>1. Reader(c) /\ loc[c].calm /\ pc[c] \in {"readPage", "decodePage", "combinePage"}
      BY <2>8, <2>11 DEF Apart, Clientele, ReadPage
    <3>2. pc[c] = "combinePage"
      BY <3>1 DEF Reader
    <3> QED
      BY <2>9, <3>1, <3>2 DEF Reader, Held
  <2>12. l.calm => \A i \in DOMAIN l.got : /\ Held(File(l.want[i]), l.got[i].img)
                                           /\ l.got[i].img \in Numbers /\ ~l.got[i].torn
    <3> SUFFICES ASSUME l.calm, NEW i \in DOMAIN l.got
                 PROVE  /\ Held(File(l.want[i]), l.got[i].img)
                        /\ l.got[i].img \in Numbers /\ ~l.got[i].torn
      OBVIOUS
    <3>1. CASE i = Len(loc[c].got) + 1
      BY <2>3, <2>4, <2>5, <2>6, <2>8, <2>9, <2>11, <3>1
    <3>2. CASE i \in 1 .. Len(loc[c].got)
      BY <2>8, <2>9, <2>11, <3>2
    <3> QED
      BY <2>9, <3>1, <3>2
  <2>13. Reader(c)'
    <3> SUFFICES ASSUME l.calm
                 PROVE  /\ place \in {"nextPage", "serve"}
                        /\ IF place = "serve" THEN Len(l.got) = Len(l.want)
                                              ELSE Len(l.got) < Len(l.want)
      BY <2>10, <2>12 DEF Reader
    <3> QED
      BY <2>8, <2>9, <2>11
  <2>14. /\ place \in Places \ Deleting /\ place \notin Editing
         /\ place \notin {"openPage", "writePage", "removeAll"}
    BY PlacesFacts DEF Deleting, Editing
  <2> HIDE DEF place
  <2>15. Begins(c, place, l)
    BY <2>8, <2>14, NotCalm DEF Begins
  <2>16. Follows(c, place, l) /\ Asks(place)
    BY <1>1, <2>8, <2>14, ScanBounds DEF ReadPage, Follows, Asks
  <2>17. (\A f \in Names : FileStep(c, f)) /\ Opens(c, place, l)
    BY Closed DEF ReadPage, FileStep, Opens
  <2>18. Holds(c, place, l)
    BY <2>12, <2>14 DEF Holds
  <2> QED
    BY <1>1, <2>1, <2>13, <2>14, <2>15, <2>16, <2>17, <2>18, OtherStep
<1> QED
  BY <1>2, <1>3 DEF ReadPage

-------------------------------------------------------------------------------
(* A page is edited *)

LEMMA LoadPageApart ==
  ASSUME IInv, Apart, UNCHANGED scene, NEW c \in Clients, LoadPage(c) PROVE Apart'
<1> DEFINE content == files[FileOf(c)]
           data == [content EXCEPT !.turned = ~@, !.open = {}]
           l == [loc[c] EXCEPT !.data = data]
<1>1. c \in Procs /\ c # Scanner /\ LocalOK(loc[c]) /\ HasPage(loc[c])
  BY ScannerAssumption DEF Procs, IInv, Processes, LoadPage, WithPage
<1>2. CASE Return(c)
  BY <1>1, <1>2, EndsApart DEF LoadPage
<1>3. CASE /\ content # Missing /\ loc' = [loc EXCEPT ![c].data = data] /\ Goto(c, "openPage")
  <2>1. Takes(c, "openPage", l)
    BY <1>3 DEF Takes
  <2>2. /\ FileOf(c) = File(loc[c].n) /\ loc[c].n \in Numbers
        /\ content \in Content /\ FileOf(c) \in Names
    BY <1>1, FileOfNumber, FileOfName DEF IInv, FilesOK
  <2>3. content.img \in Numbers
    BY <1>3, <2>2 DEF Apart, Whole, Content
  <2>4. data.img = content.img
    BY <2>2 DEF Content
  <2>5. Held(File(loc[c].n), data.img)
    BY <2>2, <2>4 DEF Held
  <2> HIDE DEF content, data
  <2>6. l.data = data /\ l.n = loc[c].n /\ l.calm = loc[c].calm /\ l.body = loc[c].body
    BY <1>1 DEF LocalOK, Local
  <2> HIDE DEF l
  <2>7. ~l.calm
    BY <2>6 DEF Apart, Clientele, Reader, LoadPage
  <2>8. Begins(c, "openPage", l) /\ Asks("openPage") /\ "openPage" \in Places \ Deleting
    BY <2>7, PlacesFacts DEF Begins, Editing, Deleting, Asks, LoadPage
  <2>9. Holds(c, "openPage", l)
    BY <2>2, <2>3, <2>4, <2>5, <2>6, <2>7 DEF Holds
  <2>10. Follows(c, "openPage", l)
    BY <1>1, <2>6, ScanBounds DEF Follows, LoadPage
  <2>11. (\A f \in Names : FileStep(c, f)) /\ Opens(c, "openPage", l)
    BY Closed DEF LoadPage, FileStep, Opens
  <2>12. Reader(c)'
    BY <1>1, <2>1, <2>7 DEF Reader, Takes, IInv, Processes
  <2> QED
    BY <1>1, <2>1, <2>8, <2>9, <2>10, <2>11, <2>12, OtherStep
<1> QED
  BY <1>2, <1>3 DEF LoadPage

LEMMA OpenPageApart ==
  ASSUME IInv, Apart, UNCHANGED scene, NEW c \in Clients, OpenPage(c) PROVE Apart'
<1> DEFINE new == [loc[c].data EXCEPT !.torn = TRUE, !.open = files[FileOf(c)].open \cup {c}]
           l == loc[c]
<1>1. c \in Procs /\ c # Scanner /\ LocalOK(loc[c]) /\ HasPage(loc[c])
  BY ScannerAssumption DEF Procs, IInv, Processes, OpenPage, WithPage, Editing
<1>2. CASE Return(c) /\ UNCHANGED files
  BY <1>1, <1>2, EndsApart DEF OpenPage
<1>3. CASE /\ files' = [files EXCEPT ![FileOf(c)] = new]
           /\ Goto(c, "writePage") /\ UNCHANGED loc
  <2>1. Takes(c, "writePage", l)
    BY <1>3 DEF Takes, IInv, Processes
  <2>2. /\ FileOf(c) = File(loc[c].n) /\ loc[c].n \in Numbers /\ FileOf(c) \in Names
        /\ loc[c].data \in Content
    BY <1>1, FileOfNumber, FileOfName DEF LocalOK, Local
  <2>3. new.img = loc[c].data.img /\ new.open = files[FileOf(c)].open \cup {c}
    BY <2>2 DEF Content
  <2> HIDE DEF new
  <2>4. \A f \in Names : files'[f] = IF f = FileOf(c) THEN new ELSE files[f]
    BY <1>3 DEF IInv, FilesOK
  <2>5. \A f \in Names : FileStep(c, f)
    BY <2>2, <2>3, <2>4 DEF FileStep, OpenPage
  <2>6. Opens(c, "writePage", l)
    BY <2>2, <2>3, <2>4, Closed DEF Opens, OpenPage
  <2>7. loc[c].data.img \in Numbers /\ Held(File(loc[c].n), loc[c].data.img)
    BY DEF Apart, Clientele, Editor, Held, OpenPage
  <2>8. ~l.calm
    BY DEF Apart, Clientele, Reader, OpenPage
  <2>9. Holds(c, "writePage", l)
    BY <2>2, <2>7, <2>8 DEF Holds
  <2>10. /\ Begins(c, "writePage", l) /\ Asks("writePage")
         /\ "writePage" \in Places \ Deleting
    BY <2>8, PlacesFacts DEF Begins, Editing, Deleting, Asks, OpenPage
  <2>11. Follows(c, "writePage", l)
    BY <1>1, ScanBounds DEF Follows, OpenPage
  <2>12. Reader(c)'
    BY <1>3, <2>8 DEF Reader
  <2> HIDE DEF l
  <2> QED
    BY <1>1, <2>1, <2>5, <2>6, <2>9, <2>10, <2>11, <2>12, OtherStep
<1> QED
  BY <1>2, <1>3 DEF OpenPage

LEMMA WritePageApart ==
  ASSUME IInv, Apart, UNCHANGED scene, NEW c \in Clients, WritePage(c) PROVE Apart'
<1>1. c \in Procs /\ c # Scanner /\ LocalOK(loc[c]) /\ loc[c].data \in Content
  BY ScannerAssumption DEF Procs, IInv, Processes, LocalOK, Local
<1>2. PICK torn \in BOOLEAN :
        /\ files' = [f \in Names |->
                      IF c \in files[f].open
                      THEN [loc[c].data EXCEPT !.torn = torn, !.open = files[f].open \ {c}]
                      ELSE files[f]]
        /\ \/ Return(c)
           \/ loc' = [loc EXCEPT ![c].body.pages = NewShape(c)] /\ Goto(c, "saveMeta")
  BY DEF WritePage
<1>3. ASSUME NEW f \in Names
      PROVE  /\ FileStep(c, f)
             /\ \A d \in files'[f].open : d # c /\ d \in files[f].open
  <2>1. CASE c \in files[f].open
    <3> DEFINE new == [loc[c].data EXCEPT !.torn = torn, !.open = files[f].open \ {c}]
    <3>1. files'[f] = new
      BY <1>2, <2>1
    <3>2. new.img = loc[c].data.img /\ new.open = files[f].open \ {c}
      BY <1>1 DEF Content
    <3> HIDE DEF new
    <3>3. f = File(loc[c].n) /\ pc[c] = "writePage"
      BY <2>1 DEF Apart, Clientele, Editor
    <3> QED
      BY <3>1, <3>2, <3>3 DEF FileStep
  <2>2. CASE c \notin files[f].open
    BY <1>2, <2>2 DEF FileStep
  <2> QED
    BY <2>1, <2>2
<1>4. ASSUME NEW place \in {"idle", "saveMeta"}, NEW l, Takes(c, place, l), ~l.calm,
             pc[Scanner] # "off" => Len(l.body.pages) <= loc[Scanner].n
      PROVE  Apart'
  <2>1. /\ place \in Places \ Deleting /\ place \notin Editing
        /\ place \notin {"openPage", "writePage", "removeAll"}
    BY PlacesFacts DEF Deleting, Editing
  <2>2. Begins(c, place, l) /\ Holds(c, place, l) /\ Asks(place)
    BY <1>4, <2>1 DEF Begins, Holds, Asks, WritePage
  <2>3. (\A f \in Names : FileStep(c, f)) /\ Opens(c, place, l)
    BY <1>3 DEF Opens
  <2>4. Follows(c, place, l)
    BY <1>1, <1>4, ScanBounds DEF Follows, WritePage
  <2>5. Reader(c)'
    BY <1>1, <1>4 DEF Reader, Takes, IInv, Processes
  <2> QED
    BY <1>1, <1>4, <2>1, <2>2, <2>3, <2>4, <2>5, OtherStep
<1>5. CASE Return(c)
  <2>1. Takes(c, "idle", NoLocal)
    BY <1>5 DEF Return, Takes
  <2> QED
    BY <1>4, <2>1, NoBodyFacts, ScanBounds
<1>6. CASE loc' = [loc EXCEPT ![c].body.pages = NewShape(c)] /\ Goto(c, "saveMeta")
  <2> DEFINE body == [loc[c].body EXCEPT !.pages = NewShape(c)]
             l == [loc[c] EXCEPT !.body = body]
  <2>1. Takes(c, "saveMeta", l)
    BY <1>6 DEF Takes
  <2>2. body.pages = NewShape(c)
    BY <1>1 DEF LocalOK, BodyOK, Body
  <2> HIDE DEF body
  <2>3. l.body = body /\ l.calm = loc[c].calm
    BY <1>1 DEF LocalOK, Local
  <2>4. Len(NewShape(c)) = Len(loc[c].body.pages)
    <3>1. loc[c].body.pages \in Seq(Page)
      BY <1>1 DEF LocalOK, BodyOK, Body
    <3> QED
      BY <3>1 DEF NewShape
  <2>5. ~loc[c].calm
    BY DEF Apart, Clientele, Reader, WritePage
  <2> HIDE DEF l
  <2> QED
    BY <1>1, <1>4, <2>1, <2>2, <2>3, <2>4, <2>5, ScanBounds
<1> QED
  BY <1>2, <1>5, <1>6

-------------------------------------------------------------------------------
(* The scan is deleted, and the record is saved *)

LEMMA RemoveApart ==
  ASSUME IInv, Apart, UNCHANGED scene, NEW c \in Clients, RemoveEntry(c) \/ RemoveEnds(c)
  PROVE  Apart'
<1>1. CASE RemoveEnds(c)
  BY <1>1, EndsApart DEF RemoveEnds, Procs
<1>2. CASE RemoveEntry(c)
  <2> DEFINE l == loc[c]
  <2>1. c \in Procs /\ c # Scanner /\ pc[c] = "removeAll"
    BY <1>2, ScannerAssumption DEF Procs, RemoveEntry
  <2>2. Takes(c, "removeAll", l) /\ UNCHANGED <<pc, loc, asked>>
    BY <1>2 DEF RemoveEntry, Takes, Goto, IInv, Processes
  <2>3. Numbers \subseteq asked' /\ ~l.calm
    BY <2>1, <2>2 DEF Apart, Clientele, Remover, Reader
  <2>4. \A f \in Names : files'[f] = files[f] \/ files'[f] = Missing
    BY <1>2 DEF RemoveEntry, IInv, FilesOK
  <2>5. \A f \in Names : FileStep(c, f)
    BY <2>3, <2>4 DEF FileStep
  <2>6. Opens(c, "removeAll", l)
    BY <2>1, <2>4, Closed DEF Opens, Missing
  <2>7. Reader(c)'
    BY <2>2, <2>3 DEF Reader
  <2>8. "removeAll" \in Places \ Deleting /\ "removeAll" \notin Editing
    BY PlacesFacts DEF Deleting, Editing
  <2>9. Begins(c, "removeAll", l) /\ Holds(c, "removeAll", l) /\ Asks("removeAll")
    BY <2>2, <2>3, <2>8 DEF Begins, Holds, Asks
  <2>10. meta' = meta \/ meta'.body = NoBody
    BY <1>2 DEF RemoveEntry
  <2>11. Follows(c, "removeAll", l)
    BY <2>1, <2>10, NoBodyFacts, ScanBounds DEF Follows
  <2> HIDE DEF l
  <2> QED
    BY <2>1, <2>2, <2>5, <2>6, <2>7, <2>8, <2>9, <2>11, OtherStep
<1> QED
  BY <1>1, <1>2

LEMMA SaveApart ==
  ASSUME IInv, Apart, UNCHANGED scene, NEW p \in Procs, Save(p) PROVE Apart'
<1>1. CASE OpenMeta(p)
  <2>1. CASE Return(p) /\ UNCHANGED meta
    BY <1>1, <2>1, EndsApart DEF OpenMeta
  <2>2. CASE /\ meta' = [state |-> "empty", body |-> NoBody, open |-> meta.open \cup {p}]
             /\ Goto(p, "writeMeta") /\ UNCHANGED loc
    <3> DEFINE l == loc[p]
    <3>1. Takes(p, "writeMeta", l) /\ meta'.body = NoBody /\ pc[p] = "saveMeta"
      BY <1>1, <2>2 DEF Takes, OpenMeta, IInv, Processes
    <3>2. Follows(p, "writeMeta", l) /\ Asks("writeMeta")
      BY <1>1, <3>1, NoBodyFacts, ScanBounds DEF Follows, Asks, OpenMeta
    <3>3. p \in Clients => ~l.calm
      BY <3>1 DEF Apart, Clientele, Reader
    <3>4. "writeMeta" \in Places \ (Deleting \cup {"openPage", "writePage"})
      BY PlacesFacts DEF Deleting
    <3> HIDE DEF l
    <3> QED
      BY <1>1, <3>1, <3>2, <3>3, <3>4, PlainStep DEF OpenMeta
  <2> QED
    BY <1>1, <2>1, <2>2 DEF OpenMeta
<1>2. CASE WriteMeta(p)
  <2>1. meta'.body \in {meta.body, NoBody, loc[p].body}
    <3> DEFINE old == [meta EXCEPT !.open = @ \ {p}]
    <3>1. old \in Record /\ old.body = meta.body
      BY DEF IInv, MetaOK, Record
    <3>2. meta' \in Overwrite(old, loc[p].body) \cup {old, meta}
      BY <1>2 DEF WriteMeta
    <3> HIDE DEF old
    <3> QED
      BY <3>1, <3>2 DEF Overwrite, Record
  <2>2. pc[Scanner] # "off" => Len(meta.body.pages)' <= loc[Scanner].n
    BY <2>1, NoBodyFacts, ScanBounds
  <2> QED
    BY <1>2, <2>2, ReturnApart DEF WriteMeta
<1> QED
  BY <1>1, <1>2 DEF Save

LEMMA ScanFinishApart == ASSUME IInv, Apart, UNCHANGED scene, ScanFinish PROVE Apart'
<1>0. PICK status \in {"completed", "failed"} : loc' = [loc EXCEPT ![Scanner].body.status = status]
  BY DEF ScanFinish
<1> DEFINE body == [loc[Scanner].body EXCEPT !.status = status]
           l == [loc[Scanner] EXCEPT !.body = body]
<1>1. Scanner \in Procs /\ Scanner \notin Clients /\ LocalOK(loc[Scanner])
  BY ScannerAssumption DEF Procs, IInv, Processes
<1>2. Takes(Scanner, "saveMeta", l) /\ pc[Scanner] \in {"scan", "back"}
  BY <1>0 DEF ScanFinish, Takes
<1>3. body.pages = loc[Scanner].body.pages
  BY <1>1 DEF LocalOK, BodyOK, Body
<1> HIDE DEF body
<1>4. l.body = body /\ l.n = loc[Scanner].n
  BY <1>1 DEF LocalOK, Local
<1> HIDE DEF l
<1>5. Follows(Scanner, "saveMeta", l) /\ Asks("saveMeta")
  BY <1>1, <1>2, <1>3, <1>4, ScanBounds DEF Follows, Asks, ScanFinish
<1>6. "saveMeta" \in Places \ (Deleting \cup {"openPage", "writePage"})
  BY PlacesFacts DEF Deleting
<1> QED
  BY <1>1, <1>2, <1>5, <1>6, PlainStep DEF ScanFinish

-------------------------------------------------------------------------------
(* The scan goes on, and the server is killed *)

\* Page lists have a length, and moves have numbers.
LEMMA PageCounts ==
  ASSUME IInv
  PROVE  Len(meta.body.pages) \in Nat /\ \A p \in Procs : Len(loc[p].body.pages) \in Nat
<1>1. meta.body.pages \in Seq(Page)
  BY DEF IInv, MetaOK, Record, Body
<1>2. \A p \in Procs : loc[p].body.pages \in Seq(Page)
  BY DEF IInv, Processes, LocalOK, BodyOK, Body
<1> QED
  BY <1>1, <1>2

LEMMA MoveNumbers ==
  ASSUME IInv, NEW p \in Procs, NEW m \in loc[p].away \cup loc[p].pending
  PROVE  m \in Move /\ m.index \in Numbers /\ m.file \in Numbers
<1>1. LocalOK(loc[p])
  BY DEF IInv, Processes
<1>2. m \in Move
  BY <1>1 DEF LocalOK, Local
<1> QED
  BY <1>2 DEF Move

LEMMA SaveSideApart ==
  ASSUME IInv, Apart, UNCHANGED scene, NEW isLast \in BOOLEAN, SaveSide(isLast),
         pc[Scanner] \in {"scan", "back"}
  PROVE  Apart'
<1> DEFINE last == loc[Scanner].n
           n == last + 1
<1>1. /\ Scanner \in Procs /\ Scanner \notin Clients /\ Clients \subseteq Procs
      /\ pc[Scanner] \in {"scan", "back"} /\ last \in Nat /\ n \in Numbers /\ n \in Nat
  <2>1. n <= scene.pages /\ scene.pages \in Numbers
    BY SceneAssumption DEF SaveSide, IInv, Scene
  <2>2. LocalOK(loc[Scanner])
    BY DEF IInv, Processes, Procs
  <2>3. last \in Nat
    BY <2>2, BoundAssumption DEF LocalOK, Local
  <2> QED
    BY <2>1, <2>3, BoundAssumption, ScannerAssumption DEF Procs, Numbers, SaveSide
<1>2. /\ \A c \in Clients : pc'[c] = pc[c] /\ loc'[c] = loc[c]
      /\ pc'[Scanner] \in {"saveMeta", "back"} /\ UNCHANGED <<meta, asked>>
  BY <1>1 DEF SaveSide, Goto, IInv, Processes
<1>3. loc'[Scanner].n = n
  BY <1>1 DEF SaveSide, IInv, Processes, LocalOK, Local, BodyOK, Body
<1>4. \A f \in Names : files'[f] = IF f = File(n) THEN Fresh(n) ELSE files[f]
  BY DEF SaveSide, IInv, FilesOK
<1>5. \A f \in Names, k \in Numbers : Held(f, k) => f[2] <= last /\ k <= last
  BY <1>1 DEF Apart, ScanAhead
<1>6. /\ Len(meta.body.pages) <= last /\ \A c \in Clients : Len(loc[c].body.pages) <= last
  BY <1>1 DEF Apart, ScanAhead
<1>7. Fresh(n).img = n /\ Fresh(n) # Missing /\ Fresh(n).open = {}
  BY <1>1, NumberFacts DEF Fresh, Missing
<1>8. File(n) \in Names /\ File(n)[2] = n /\ ~(n <= last)
  BY <1>1, NameFacts
<1>0. n = last + 1
  OBVIOUS
<1> HIDE DEF n, last
<1>9. \A f \in Names, k \in Numbers : Held(f, k)' => Held(f, k) \/ (f = File(n) /\ k = n)
  <2> SUFFICES ASSUME NEW f \in Names, NEW k \in Numbers, Held(f, k)', ~Held(f, k)
               PROVE  f = File(n) /\ k = n
    OBVIOUS
  <2>1. files'[f].img = k
    BY <1>2 DEF Held
  <2>2. files[f].img # k
    BY DEF Held
  <2> QED
    BY <1>4, <1>7, <2>1, <2>2
<1>10. OneToOne'
  <2> SUFFICES ASSUME NEW f \in Names, NEW g \in Names, NEW k \in Numbers, NEW j \in Numbers,
                      Held(f, k)', Held(g, j)'
               PROVE  f = g <=> k = j
    BY DEF OneToOne
  <2>1. CASE Held(f, k) /\ Held(g, j)
    BY <2>1 DEF Apart, OneToOne
  <2>2. CASE Held(f, k) /\ g = File(n) /\ j = n
    BY <1>5, <1>8, <2>2
  <2>3. CASE Held(g, j) /\ f = File(n) /\ k = n
    BY <1>5, <1>8, <2>3
  <2> QED
    BY <1>9, <2>1, <2>2, <2>3
<1>11. \A k \in Numbers : k <= last => files'[File(k)] = files[File(k)]
  BY <1>4, <1>8, NameFacts
<1>12. \A k \in Numbers : files'[Temp(k)] = files[Temp(k)]
  BY <1>4, NameFacts
<1>13. Clientele'
  <2> SUFFICES ASSUME NEW c \in Clients
               PROVE  Alone(c)' /\ Reader(c)' /\ Editor(c)' /\ Remover(c)' /\ Mover(c)'
    BY DEF Clientele
  <2>1. Alone(c) /\ Reader(c) /\ Editor(c) /\ Remover(c) /\ Mover(c)
    BY DEF Apart, Clientele
  <2>2. Alone(c)' /\ Reader(c)'
    BY <1>2, <2>1 DEF Alone, Reader
  <2>3. Editor(c)'
    BY <1>2, <1>4, <1>7, <2>1 DEF Editor
  <2>4. Remover(c)'
    <3>1. pc[c] = "remove" => loc[c].n \in Numbers /\ loc[c].n <= last
      <4> SUFFICES ASSUME pc[c] = "remove" PROVE loc[c].n \in Numbers /\ loc[c].n <= last
        OBVIOUS
      <4>1. /\ loc[c].n \in Numbers /\ loc[c].n <= Len(loc[c].body.pages)
            /\ Len(loc[c].body.pages) \in Nat
        BY <1>1, FileOfNumber, PageCounts DEF IInv, Processes, WithPage
      <4>2. loc[c].n \in Nat /\ Len(loc[c].body.pages) <= last
        BY <1>6, <4>1, NumberFacts
      <4> QED
        BY <1>1, <4>1, <4>2
    <3> QED
      BY <1>2, <1>11, <1>12, <2>1, <3>1 DEF Remover
  <2>5. Mover(c)'
    <3> SUFFICES ASSUME pc[c] = "move" PROVE Mover(c)'
      BY <1>2 DEF Mover
    <3>1. /\ \A m \in loc[c].away \cup loc[c].pending :
                m.index \in Numbers /\ m.index <= Len(loc[c].body.pages)
          /\ Len(loc[c].body.pages) \in Nat
      BY <1>1, <2>1, PageCounts, MoveNumbers DEF Mover
    <3>2. \A m \in loc[c].away \cup loc[c].pending : m.index \in Numbers /\ m.index <= last
      <4> SUFFICES ASSUME NEW m \in loc[c].away \cup loc[c].pending
                   PROVE  m.index \in Numbers /\ m.index <= last
        OBVIOUS
      <4>1. m.index \in Numbers /\ m.index <= Len(loc[c].body.pages)
        BY <3>1
      <4>2. m.index \in Nat /\ Len(loc[c].body.pages) <= last /\ Len(loc[c].body.pages) \in Nat
        BY <1>6, <3>1, <4>1, NumberFacts
      <4> QED
        BY <1>1, <4>1, <4>2
    <3> QED
      BY <1>2, <1>11, <1>12, <2>1, <3>2 DEF Mover
  <2> QED
    BY <2>2, <2>3, <2>4, <2>5
<1>14. Whole'
  BY <1>4, <1>7, NumberFacts, <1>1 DEF Whole, Apart
<1>15. ScanAhead'
  <2>1. n = last + 1 /\ last \in Nat
    BY <1>0, <1>1
  <2>2. \A f \in Names : f[2] \in Nat
    BY NameFacts, NumberFacts
  <2>3. \A f \in Names, k \in Numbers : Held(f, k)' => f[2] <= n /\ k <= n
    BY <1>5, <1>8, <1>9, <2>1, <2>2, NumberFacts
  <2>4. Len(meta.body.pages) \in Nat /\ \A c \in Clients : Len(loc[c].body.pages) \in Nat
    BY <1>1, PageCounts
  <2>5. Len(meta.body.pages) <= n /\ \A c \in Clients : Len(loc[c].body.pages) <= n
    BY <1>6, <2>1, <2>4
  <2> QED
    BY <1>2, <1>3, <2>3, <2>5 DEF ScanAhead
<1>16. ImagesSurvive'
  <2> DEFINE bound == IF scene.scanning THEN last ELSE scene.pages
  <2>1. n = last + 1 /\ last \in Nat /\ scene.pages \in Numbers /\ last <= PageLimit
    <3>1. LocalOK(loc[Scanner])
      BY <1>1 DEF IInv, Processes
    <3>2. last <= PageLimit
      BY <3>1, BoundAssumption DEF LocalOK, Local, last
    <3> QED
      BY <1>0, <1>1, <3>2, SceneAssumption DEF IInv, Scene
  <2> SUFFICES ASSUME NEW k \in 1 .. (IF scene.scanning THEN n ELSE scene.pages), k \notin asked
               PROVE  \E f \in Names : files'[f].img = k
    BY <1>2, <1>3 DEF ImagesSurvive
  <2>2. k \in Numbers
    BY <1>1, <2>1, BoundAssumption DEF Numbers
  <2>3. CASE k = n
    BY <1>4, <1>7, <1>8, <2>3
  <2>4. CASE k # n
    <3>1. k \in 1 .. bound
      BY <2>1, <2>4
    <3>2. PICK f \in Names : files[f].img = k
      BY <3>1 DEF Apart, ImagesSurvive, bound, last
    <3>3. f # File(n)
      BY <1>5, <1>8, <2>2, <3>2 DEF Held
    <3> QED
      BY <1>4, <3>2, <3>3
  <2> QED
    BY <2>3, <2>4
<1> QED
  BY <1>10, <1>13, <1>14, <1>15, <1>16 DEF Apart

LEMMA CrashApart == ASSUME IInv, Apart, UNCHANGED scene, Crash PROVE Apart'
<1>1. \A c \in Clients : pc'[c] = "idle" /\ ~loc'[c].calm
  BY NoBodyFacts DEF Crash, Procs
<1>2. pc'[Scanner] = "off" /\ loc'[Scanner].n = 0
  BY ScannerAssumption DEF Crash, Procs, NoLocal
<1>3. \A f \in Names : /\ files'[f].img = files[f].img /\ files'[f].open = {}
                       /\ files[f] = Missing => files'[f] = Missing
  <2> SUFFICES ASSUME NEW f \in Names
               PROVE  /\ files'[f].img = files[f].img /\ files'[f].open = {}
                      /\ files[f] = Missing => files'[f] = Missing
    OBVIOUS
  <2>1. files'[f] = [files[f] EXCEPT !.open = {}] /\ files[f] \in Content
    BY DEF Crash, IInv, FilesOK
  <2>2. ASSUME NEW m \in Content, NEW k, k = [m EXCEPT !.open = {}]
        PROVE  k \in Content /\ k.img = m.img /\ k.open = {} /\ k.turned = m.turned /\ k.torn = m.torn
    BY <2>2 DEF Content
  <2>3. /\ files'[f] \in Content /\ files'[f].img = files[f].img /\ files'[f].open = {}
        /\ files'[f].turned = files[f].turned /\ files'[f].torn = files[f].torn
    BY <2>1, <2>2
  <2>4. ASSUME files[f] = Missing PROVE files'[f] = Missing
    <3>1. /\ files'[f].img = Missing.img /\ files'[f].open = Missing.open
          /\ files'[f].turned = Missing.turned /\ files'[f].torn = Missing.torn
      BY <2>3, <2>4 DEF Missing
    <3> QED
      BY <2>3, <3>1, MissingContent DEF Content
  <2> QED
    BY <2>3, <2>4
<1>4. \A f \in Names, k \in Numbers : Held(f, k)' => Held(f, k)
  BY <1>1, <1>3 DEF Held
<1>5. OneToOne'
  BY <1>4 DEF Apart, OneToOne
<1>6. Clientele'
  BY <1>1, <1>3 DEF Clientele, Alone, Reader, Editor, Remover, Mover, Deleting
<1>7. Whole' /\ ScanAhead'
  BY <1>2, <1>3 DEF Apart, Whole, ScanAhead
<1>8. ImagesSurvive'
  <2> DEFINE bound == IF scene.scanning THEN 0 ELSE scene.pages
  <2>0. bound = (IF scene.scanning THEN loc[Scanner].n ELSE scene.pages)' /\ asked' = asked
    BY <1>2 DEF Crash
  <2> HIDE DEF bound
  <2> SUFFICES ASSUME NEW k \in 1 .. bound, k \notin asked
               PROVE  \E f \in Names : files'[f].img = k
    BY <2>0 DEF ImagesSurvive
  <2>1. ~scene.scanning
    BY DEF bound
  <2>2. PICK f \in Names : files[f].img = k
    BY <2>1 DEF Apart, ImagesSurvive, bound
  <2> QED
    BY <1>3, <2>2
<1> QED
  BY <1>5, <1>6, <1>7, <1>8 DEF Apart

-------------------------------------------------------------------------------
(* A page is deleted *)

LEMMA DeletePageApart ==
  ASSUME IInv, Apart, UNCHANGED scene, ~clashed',
         NEW c \in Clients, NEW n \in Numbers, DeletePage(c, n)
  PROVE  Apart'
<1> DEFINE l == [NoLocal EXCEPT !.body = meta.body, !.n = n]
<1>1. c \in Procs /\ Scanner \in Procs /\ c # Scanner /\ Clients \subseteq Procs
  BY ScannerAssumption DEF Procs
<1>2. /\ pc[c] = "idle" /\ pc'[c] = "remove" /\ \A p \in Procs \ {c} : pc'[p] = pc[p]
      /\ UNCHANGED <<meta, files>>
  BY <1>1 DEF DeletePage, Goto, IInv, Processes
<1>3. l.body = meta.body /\ l.n = n /\ ~l.calm /\ l.pending = {}
  BY DEF NoLocal
<1>4. \A p \in Procs : loc'[p] = IF p = c THEN l ELSE [loc[p] EXCEPT !.calm = FALSE]
  BY DEF DeletePage
<1> HIDE DEF l
<1>5. ASSUME NEW p \in Procs, p # c
      PROVE  /\ loc'[p].n = loc[p].n /\ loc'[p].body = loc[p].body
             /\ loc'[p].data = loc[p].data /\ ~loc'[p].calm
  <2>1. LocalOK(loc[p])
    BY DEF IInv, Processes
  <2>2. loc'[p] = [loc[p] EXCEPT !.calm = FALSE]
    BY <1>4, <1>5
  <2> QED
    BY <2>1, <2>2 DEF LocalOK, Local
<1>6. \A p \in Procs : ~loc'[p].calm
  BY <1>3, <1>4, <1>5
<1>7. \A d \in Clients \ {c} : pc[d] \notin Deleting \cup Editing
  BY DEF DeletePage, Others
<1>8. \A k \in Numbers : files[Temp(k)] = Missing
  BY DEF DeletePage
<1>9. files[File(n)].img \in asked' /\ asked \subseteq asked'
  <2>1. WellFormed(meta.body) /\ n \in Indexes(meta.body.pages)
    BY DEF IInv, MetaOK, BodyOK, DeletePage
  <2>2. FindPage(meta.body.pages, n).file = n
    BY <2>1, FindPageFinds DEF WellFormed
  <2> QED
    BY <2>2 DEF DeletePage
<1>10. \A f \in Names, k \in Numbers : Held(f, k)' => Held(f, k)
  <2> SUFFICES ASSUME NEW f \in Names, NEW k \in Numbers, Held(f, k)' PROVE Held(f, k)
    OBVIOUS
  <2>1. CASE files'[f].img = k
    BY <1>2, <2>1 DEF Held
  <2>2. ASSUME NEW d \in Clients, pc'[d] \in {"openPage", "writePage"} PROVE FALSE
    BY <1>1, <1>2, <1>7, <2>2 DEF Editing
  <2> QED
    BY <1>1, <1>6, <2>1, <2>2 DEF Held
<1>11. OneToOne'
  BY <1>10 DEF Apart, OneToOne
<1>12. ASSUME NEW d \in Clients
       PROVE  Alone(d)' /\ Reader(d)' /\ Editor(d)' /\ Remover(d)' /\ Mover(d)'
  <2>1. d # c => pc'[d] = pc[d] /\ pc'[d] \notin Deleting \cup Editing
    BY <1>1, <1>2, <1>7
  <2>2. Alone(d)'
    BY <1>1, <1>2, <1>6, <1>7, <2>1 DEF Alone, Deleting, Editing
  <2>3. Reader(d)'
    BY <1>1, <1>6 DEF Reader
  <2>4. Editor(d)'
    <3>1. pc[d] # "writePage" /\ pc'[d] \notin {"openPage", "writePage"}
      BY <1>2, <2>1 DEF Editing
    <3>2. \A f \in Names : d \notin files'[f].open
      BY <1>2, <3>1, Closed
    <3> QED
      BY <3>1, <3>2 DEF Editor
  <2>5. Remover(d)'
    <3>1. CASE d = c
      BY <1>1, <1>2, <1>3, <1>4, <1>8, <1>9, <3>1 DEF Remover
    <3>2. CASE d # c
      BY <1>9, <2>1, <3>2 DEF Remover, Deleting, Apart, Clientele
    <3> QED
      BY <3>1, <3>2
  <2>6. Mover(d)'
    BY <1>2, <2>1 DEF Mover, Deleting
  <2> QED
    BY <2>2, <2>3, <2>4, <2>5, <2>6
<1>13. Clientele' /\ Whole'
  BY <1>2, <1>12 DEF Clientele, Apart, Whole
<1>14. ScanAhead'
  <2> SUFFICES ASSUME pc[Scanner] # "off" PROVE ScanAhead'
    BY <1>1, <1>2 DEF ScanAhead
  <2>1. loc'[Scanner].n = loc[Scanner].n
    BY <1>1, <1>5
  <2>2. \A d \in Clients : Len(loc'[d].body.pages) <= loc[Scanner].n
    BY <1>1, <1>3, <1>4, <1>5, ScanBounds
  <2> QED
    BY <1>2, <1>10, <2>1, <2>2 DEF Apart, ScanAhead
<1>15. ImagesSurvive'
  <2> DEFINE bound == IF scene.scanning THEN loc[Scanner].n ELSE scene.pages
  <2>0. bound' = bound
    BY <1>1, <1>5
  <2> SUFFICES ASSUME NEW k \in 1 .. bound, k \notin asked' PROVE \E f \in Names : files'[f].img = k
    BY <2>0 DEF ImagesSurvive
  <2> QED
    BY <1>2, <1>9 DEF Apart, ImagesSurvive
<1> QED
  BY <1>11, <1>13, <1>14, <1>15 DEF Apart

\* What is left of a page list without page n: the other pages, each once.
Left(pages, n, rest) ==
  /\ rest \in Seq(Page) /\ Len(rest) \in Nat /\ Len(rest) < Len(pages)
  /\ \A i, k \in DOMAIN rest : rest[i].file = rest[k].file => i = k
  /\ \A k \in 1 .. Len(pages) : k # n => \E i \in DOMAIN rest : rest[i].file = k

LEMMA WithoutFacts ==
  ASSUME NEW body, BodyOK(body), NEW n \in Indexes(body.pages)
  PROVE  Left(body.pages, n, Without(body.pages, n))
<1> DEFINE pages == body.pages
           rest == Without(pages, n)
<1> DEFINE gone == CHOOSE i \in DOMAIN pages : pages[i].index = n
<1>1. /\ pages \in Seq(Page) /\ Len(pages) \in Nat /\ DOMAIN pages = 1 .. Len(pages)
      /\ \A i \in DOMAIN pages : pages[i].file = pages[i].index
      /\ \A i, k \in DOMAIN pages : pages[i].index = pages[k].index => i = k
      /\ Indexes(pages) = 1 .. Len(pages)
  BY DEF BodyOK, Body, WellFormed
<1>2. gone \in DOMAIN pages /\ pages[gone].index = n
  BY DEF Indexes
<1>3. rest = [i \in 1 .. Len(pages) - 1 |-> IF i < gone THEN pages[i] ELSE pages[i + 1]]
  BY DEF Without
<1> HIDE DEF gone, pages
<1>4. rest \in Seq(Page) /\ Len(rest) = Len(pages) - 1
  BY <1>1, WithoutOK DEF pages
<1> HIDE DEF rest
<1>5. Len(rest) \in Nat /\ Len(rest) < Len(pages) /\ DOMAIN rest = 1 .. Len(pages) - 1
  BY <1>1, <1>2, <1>4
<1>6. ASSUME NEW i \in DOMAIN rest, NEW k \in DOMAIN rest, rest[i].file = rest[k].file PROVE i = k
  <2> DEFINE at(j) == IF j < gone THEN j ELSE j + 1
  <2>1. /\ at(i) \in DOMAIN pages /\ rest[i] = pages[at(i)]
        /\ at(k) \in DOMAIN pages /\ rest[k] = pages[at(k)]
    BY <1>1, <1>2, <1>3, <1>5
  <2>2. at(i) = at(k)
    BY <1>1, <1>6, <2>1
  <2> QED
    BY <1>1, <1>2, <1>5, <2>2
<1>7. ASSUME NEW k \in 1 .. Len(pages), k # n PROVE \E i \in DOMAIN rest : rest[i].file = k
  <2>1. PICK j \in DOMAIN pages : pages[j].index = k
    BY <1>1 DEF Indexes
  <2>2. j # gone /\ pages[j].file = k
    BY <1>1, <1>2, <1>7, <2>1
  <2> DEFINE i == IF j < gone THEN j ELSE j - 1
  <2>3. i \in DOMAIN rest /\ rest[i] = pages[j]
    BY <1>1, <1>2, <1>3, <1>5, <2>2
  <2> QED
    BY <2>2, <2>3
<1> QED
  BY <1>4, <1>5, <1>6, <1>7 DEF Left, pages, rest

\* A step of a deletion, in which a file may go or get another name.
LEMMA DeletionStep ==
  ASSUME IInv, Apart, UNCHANGED <<scene, meta, asked>>,
         NEW c \in Clients, pc[c] \in Deleting, NEW place \in {"move", "saveMeta"}, NEW l,
         Takes(c, place, l), ~l.calm, place = "move" => Mover(c)',
         Len(l.body.pages) \in Nat, Len(l.body.pages) <= Len(loc[c].body.pages),
         \* the name a file had before
         NEW from \in [Names -> Names], \A f, g \in Names : from[f] = from[g] => f = g,
         \A f \in Names : files'[f] \in {Missing, files[from[f]]},
         \A f \in Names : files'[f] # Missing =>
           f[2] <= from[f][2] \/ f[2] <= Len(loc[c].body.pages),
         \* only a file that is to go is gone
         \A g \in Names : files[g].img \in asked \cup {NoImage} \/ \E f \in Names : files'[f] = files[g]
  PROVE  Apart'
<1>1. c \in Procs /\ Scanner \in Procs /\ c # Scanner /\ Clients \subseteq Procs
  BY ScannerAssumption DEF Procs
<1>2. /\ pc'[c] = place /\ \A p \in Procs \ {c} : pc'[p] = pc[p]
      /\ loc'[c] = l /\ \A p \in Procs \ {c} : loc'[p] = loc[p]
  BY <1>1 DEF Takes, Goto, IInv, Processes
<1>3. /\ \A d \in Clients \ {c} : pc[d] \notin Deleting \cup Editing
      /\ \A d \in Clients : ~loc'[d].calm
  BY <1>1, <1>2 DEF Apart, Clientele, Alone
<1>4. \A d \in Clients : pc[d] \notin Editing /\ pc'[d] \notin Editing
  BY <1>1, <1>2, <1>3 DEF Deleting, Editing
<1>5. \A f \in Names, k \in Numbers : Held(f, k)' => files'[f] # Missing /\ Held(from[f], k)
  <2> SUFFICES ASSUME NEW f \in Names, NEW k \in Numbers, Held(f, k)'
               PROVE  files'[f] # Missing /\ Held(from[f], k)
    OBVIOUS
  <2>1. files'[f].img = k
    BY <1>3, <1>4 DEF Held, Editing
  <2>2. files'[f] # Missing
    BY <2>1, NumberFacts DEF Missing
  <2> QED
    BY <2>1, <2>2 DEF Held
<1>6. OneToOne'
  <2> SUFFICES ASSUME NEW f \in Names, NEW g \in Names, NEW k \in Numbers, NEW j \in Numbers,
                      Held(f, k)', Held(g, j)'
               PROVE  f = g <=> k = j
    BY DEF OneToOne
  <2>1. Held(from[f], k) /\ Held(from[g], j) /\ from[f] \in Names /\ from[g] \in Names
    BY <1>5
  <2>2. from[f] = from[g] <=> k = j
    BY <2>1 DEF Apart, OneToOne
  <2> QED
    BY <2>2
<1>7. \A f \in Names : \A d \in Clients : d \notin files'[f].open
  <2> SUFFICES ASSUME NEW f \in Names, NEW d \in Clients PROVE d \notin files'[f].open
    OBVIOUS
  <2>1. d \notin Missing.open /\ d \notin files[from[f]].open
    BY <1>4, Closed DEF Missing, Editing
  <2> QED
    BY <2>1
<1>8. ASSUME NEW d \in Clients
      PROVE  Alone(d)' /\ Reader(d)' /\ Editor(d)' /\ Remover(d)' /\ Mover(d)'
  <2>1. d # c => pc'[d] = pc[d] /\ loc'[d] = loc[d] /\ pc'[d] \notin Deleting
    BY <1>1, <1>2, <1>3
  <2>2. Alone(d)'
    BY <1>1, <1>2, <1>3, <2>1 DEF Alone
  <2>3. Reader(d)' /\ Editor(d)'
    BY <1>3, <1>4, <1>7 DEF Reader, Editor, Editing
  <2>4. Remover(d)'
    BY <1>2, <2>1 DEF Remover, Deleting, Apart, Clientele
  <2>5. Mover(d)'
    BY <1>2, <2>1 DEF Mover, Deleting
  <2> QED
    BY <2>2, <2>3, <2>4, <2>5
<1>9. Whole'
  <2> SUFFICES ASSUME NEW f \in Names, files'[f].img = NoImage PROVE files'[f] = Missing
    BY DEF Whole
  <2> QED
    BY DEF Apart, Whole
<1>10. ScanAhead'
  <2> SUFFICES ASSUME pc[Scanner] # "off" PROVE ScanAhead'
    BY <1>1, <1>2 DEF ScanAhead
  <2> DEFINE last == loc[Scanner].n
  <2>1. loc'[Scanner].n = last /\ last \in Nat /\ Len(loc[c].body.pages) <= last
    BY <1>1, <1>2, ScanBounds
  <2>2. Len(loc[c].body.pages) \in Nat
    BY <1>1, PageCounts
  <2>3. \A d \in Clients : Len(loc'[d].body.pages) <= last
    <3>1. Len(l.body.pages) <= last
      BY <2>1, <2>2
    <3> QED
      BY <1>1, <1>2, <3>1, ScanBounds
  <2>4. \A f \in Names, k \in Numbers : Held(f, k) => f[2] <= last /\ k <= last
    BY DEF Apart, ScanAhead
  <2> HIDE DEF last
  <2>5. \A f \in Names : f[2] \in Nat /\ from[f] \in Names /\ from[f][2] \in Nat
    BY NameFacts, NumberFacts
  <2>6. ASSUME NEW f \in Names, NEW k \in Numbers, Held(f, k)' PROVE f[2] <= last /\ k <= last
    <3>1. files'[f] # Missing /\ Held(from[f], k)
      BY <1>5, <2>6
    <3>2. from[f][2] <= last /\ k <= last
      BY <2>4, <2>5, <3>1
    <3> QED
      BY <2>1, <2>2, <2>5, <3>1, <3>2
  <2> QED
    BY <1>1, <1>2, <2>1, <2>3, <2>6, ScanBounds DEF ScanAhead, last
<1>11. ImagesSurvive'
  <2> DEFINE bound == IF scene.scanning THEN loc[Scanner].n ELSE scene.pages
  <2>0. bound' = bound /\ bound \in 0 .. PageLimit
    BY <1>1, <1>2, SceneAssumption, BoundAssumption
       DEF IInv, Processes, LocalOK, Local, Scene, Numbers
  <2> SUFFICES ASSUME NEW k \in 1 .. bound, k \notin asked' PROVE \E f \in Names : files'[f].img = k
    BY <2>0 DEF ImagesSurvive
  <2>1. k # NoImage
    BY <2>0, BoundAssumption DEF Numbers
  <2>2. PICK g \in Names : files[g].img = k
    BY DEF Apart, ImagesSurvive
  <2> QED
    BY <2>1, <2>2
<1> QED
  BY <1>6, <1>8, <1>9, <1>10, <1>11 DEF Apart, Clientele

LEMMA RemoveFileApart ==
  ASSUME IInv, Apart, UNCHANGED scene, NEW c \in Clients, RemoveFile(c) PROVE Apart'
<1> DEFINE pages == loc[c].body.pages
           n == loc[c].n
           rest == Without(pages, n)
           moves == Moves(rest)
           place == IF moves = {} THEN "saveMeta" ELSE "move"
           body == [loc[c].body EXCEPT !.pages = Renumbered(rest), !.count = Len(rest)]
           l == [loc[c] EXCEPT !.body = body, !.away = moves]
<1>1. c \in Procs /\ LocalOK(loc[c]) /\ HasPage(loc[c]) /\ pc[c] = "remove"
  BY DEF Procs, IInv, Processes, RemoveFile, WithPage
<1>2. CASE Return(c) /\ UNCHANGED files
  BY <1>1, <1>2, EndsApart DEF RemoveFile
<1>3. CASE /\ files' = [files EXCEPT ![FileOf(c)] = Missing]
           /\ loc' = [loc EXCEPT ![c].body.pages = Renumbered(rest),
                                 ![c].body.count = Len(rest), ![c].away = moves]
           /\ Goto(c, place)
  <2>1. BodyOK(loc[c].body) /\ n \in Indexes(pages)
    BY <1>1 DEF LocalOK, HasPage
  <2>2. /\ rest \in Seq(Page) /\ Len(rest) \in Nat /\ Len(rest) < Len(pages)
        /\ \A i, k \in DOMAIN rest : rest[i].file = rest[k].file => i = k
        /\ \A k \in 1 .. Len(pages) : k # n => \E i \in DOMAIN rest : rest[i].file = k
    <3>1. Left(pages, n, rest)
      BY <2>1, WithoutFacts
    <3> QED
      BY <3>1 DEF Left
  <2>3. Len(pages) \in Nat /\ Len(pages) <= PageLimit
    BY <1>1, <2>1, PageCounts DEF BodyOK
  <2>4. FileOf(c) = File(n) /\ n \in Numbers /\ File(n) \in Names
    BY <1>1, FileOfNumber, NameFacts
  <2>5. Takes(c, place, l)
    BY <1>1, <1>3 DEF IInv, Processes, LocalOK, Local, Takes
  <2> HIDE DEF rest
  <2>6. Len(Renumbered(rest)) = Len(rest)
    BY <2>2, <2>3, RenumberedOK, BoundAssumption
  <2>7. body.pages = Renumbered(rest)
    BY <2>1 DEF BodyOK, Body
  <2> HIDE DEF body
  <2>8. l.body = body /\ l.calm = loc[c].calm /\ l.away = moves /\ l.pending = loc[c].pending
    BY <1>1 DEF LocalOK, Local
  <2>9. Len(l.body.pages) = Len(rest)
    BY <2>6, <2>7, <2>8
  <2>10. ~l.calm /\ l.pending = {} /\ \A k \in Numbers : files[Temp(k)] = Missing
    BY <1>1, <2>8 DEF Apart, Clientele, Alone, Remover, Deleting
  <2> HIDE DEF l
  <2>11. \A f \in Names : files'[f] = IF f = File(n) THEN Missing ELSE files[f]
    BY <1>3, <2>4 DEF IInv, FilesOK
  <2>12. pc'[c] = place /\ loc'[c] = l
    BY <1>1, <2>5 DEF Takes, Goto, IInv, Processes
  <2>13. \A m \in moves : \E i \in DOMAIN rest : /\ rest[i].file # i
                                                 /\ m = [file |-> rest[i].file, index |-> i]
    BY DEF Moves
  <2>14. \A i \in DOMAIN rest : rest[i].file # i => [file |-> rest[i].file, index |-> i] \in moves
    BY DEF Moves
  <2> HIDE DEF moves
  <2>15. DOMAIN rest = 1 .. Len(rest)
    BY <2>2
  <2>16. \A m, k \in moves : m.file = k.file \/ m.index = k.index => m = k
    <3> SUFFICES ASSUME NEW m \in moves, NEW k \in moves, m.file = k.file \/ m.index = k.index
                 PROVE  m = k
      OBVIOUS
    <3>1. PICK i \in DOMAIN rest : m = [file |-> rest[i].file, index |-> i]
      BY <2>13
    <3>2. PICK j \in DOMAIN rest : k = [file |-> rest[j].file, index |-> j]
      BY <2>13
    <3>3. i = j
      BY <2>2, <3>1, <3>2
    <3> QED
      BY <3>1, <3>2, <3>3
  <2>17. ASSUME NEW m \in moves, files'[File(m.index)] # Missing
         PROVE  \E a \in moves : a.file = m.index
    <3>1. PICK i \in DOMAIN rest : rest[i].file # i /\ m = [file |-> rest[i].file, index |-> i]
      BY <2>13
    <3>2. m.index = i /\ i \in 1 .. Len(pages) /\ i \in Numbers
      BY <2>2, <2>3, <2>15, <3>1, BoundAssumption DEF Numbers
    <3>3. i # n
      BY <2>4, <2>11, <2>17, <3>2
    <3>4. PICK j \in DOMAIN rest : rest[j].file = i
      BY <2>2, <3>2, <3>3
    <3>5. j # i
      BY <3>1, <3>4
    <3>6. [file |-> rest[j].file, index |-> j] \in moves
      BY <2>14, <3>4, <3>5
    <3> QED
      BY <3>2, <3>4, <3>6
  <2>18. \A m \in moves : m.index <= Len(rest)
    BY <2>2, <2>13, <2>15
  <2>19. \A k \in Numbers : files'[Temp(k)] = Missing
    BY <2>10, <2>11, NameFacts
  <2>20. place = "move" => Mover(c)'
    BY <2>8, <2>9, <2>10, <2>12, <2>16, <2>17, <2>18, <2>19 DEF Mover
  <2> DEFINE from == [f \in Names |-> f]
  <2>21. from \in [Names -> Names] /\ \A f \in Names : from[f] = f
    OBVIOUS
  <2> HIDE DEF from
  <2>22. /\ \A f, g \in Names : from[f] = from[g] => f = g
         /\ \A f \in Names : files'[f] \in {Missing, files[from[f]]}
         /\ \A f \in Names : files'[f] # Missing =>
              f[2] <= from[f][2] \/ f[2] <= Len(loc[c].body.pages)
    <3>1. \A f \in Names : f[2] \in Nat
      BY NameFacts, NumberFacts
    <3>2. \A f \in Names : f[2] <= from[f][2]
      BY <2>21, <3>1
    <3>3. \A f \in Names : files'[f] \in {Missing, files[from[f]]}
      BY <2>11, <2>21
    <3> QED
      BY <2>21, <3>2, <3>3
  <2>23. files[File(n)].img \in asked \cup {NoImage}
    BY <1>1 DEF Apart, Clientele, Remover
  <2>24. \A g \in Names : \/ files[g].img \in asked \cup {NoImage}
                          \/ \E f \in Names : files'[f] = files[g]
    BY <2>11, <2>23
  <2>25. Len(l.body.pages) \in Nat /\ Len(l.body.pages) <= Len(loc[c].body.pages)
    BY <2>2, <2>3, <2>9
  <2>26. place \in {"move", "saveMeta"} /\ pc[c] \in Deleting /\ UNCHANGED <<meta, asked>>
    BY <1>1 DEF RemoveFile, Deleting
  <2> HIDE DEF place, pages, n
  <2> QED
    BY <2>5, <2>10, <2>20, <2>21, <2>22, <2>24, <2>25, <2>26, DeletionStep
<1> QED
  BY <1>2, <1>3 DEF RemoveFile

\* A file gets another name.
Renames(c, from, to, away, pending) ==
  /\ files' = [files EXCEPT ![to] = files[from], ![from] = Missing]
  /\ loc' = [loc EXCEPT ![c].away = away, ![c].pending = pending]

LEMMA RenamesFacts ==
  ASSUME IInv, NEW c \in Clients, NEW from \in Names, NEW to \in Names, from # to,
         NEW away, NEW pending, Renames(c, from, to, away, pending)
  PROVE  /\ \A f \in Names : files'[f] = IF f = from THEN Missing
                                         ELSE IF f = to THEN files[from] ELSE files[f]
         /\ loc' = [loc EXCEPT ![c] = loc'[c]] /\ loc'[c].away = away /\ loc'[c].pending = pending
         /\ loc'[c].body = loc[c].body /\ loc'[c].calm = loc[c].calm
<1>1. c \in Procs /\ LocalOK(loc[c])
  BY DEF Procs, IInv, Processes
<1>2. \A f \in Names : files'[f] = IF f = from THEN Missing
                                   ELSE IF f = to THEN files[from] ELSE files[f]
  BY DEF Renames, IInv, FilesOK
<1> DEFINE l == [loc[c] EXCEPT !.away = away, !.pending = pending]
<1>3. loc' = [loc EXCEPT ![c] = l] /\ loc'[c] = l
  BY <1>1 DEF Renames, IInv, Processes
<1>4. l.away = away /\ l.pending = pending /\ l.body = loc[c].body /\ l.calm = loc[c].calm
  BY <1>1 DEF LocalOK, Local
<1> HIDE DEF l
<1> QED
  BY <1>2, <1>3, <1>4

LEMMA RenameApart ==
  ASSUME IInv, Apart, UNCHANGED <<scene, meta, asked>>, NEW c \in Clients, pc[c] = "move",
         NEW from \in Names, NEW to \in Names, from # to, files[to] = Missing,
         to[2] <= from[2] \/ to[2] <= Len(loc[c].body.pages),
         NEW away, NEW pending, RenameFile(c, from, to, away, pending),
         Renames(c, from, to, away, pending) => Mover(c)'
  PROVE  Apart'
<1>1. c \in Procs
  BY DEF Procs
<1>2. CASE Return(c) /\ UNCHANGED files
  BY <1>1, <1>2, EndsApart
<1> DEFINE place == IF away \cup pending = {} THEN "saveMeta" ELSE "move"
<1>3. CASE Renames(c, from, to, away, pending) /\ Goto(c, place)
  <2>1. /\ \A f \in Names : files'[f] = IF f = from THEN Missing
                                        ELSE IF f = to THEN files[from] ELSE files[f]
        /\ loc' = [loc EXCEPT ![c] = loc'[c]]
        /\ loc'[c].body = loc[c].body /\ loc'[c].calm = loc[c].calm
    BY <1>3, RenamesFacts
  <2> DEFINE l == loc'[c]
             swap == [f \in Names |-> IF f = from THEN to ELSE IF f = to THEN from ELSE f]
  <2>2. Takes(c, place, l)
    BY <1>3, <2>1 DEF Takes
  <2>3. ~l.calm /\ Len(l.body.pages) = Len(loc[c].body.pages) /\ Len(loc[c].body.pages) \in Nat
    BY <1>1, <2>1, PageCounts DEF Apart, Clientele, Alone, Deleting
  <2>4. /\ swap \in [Names -> Names] /\ swap[from] = to /\ swap[to] = from
        /\ \A f \in Names \ {from, to} : swap[f] = f
    OBVIOUS
  <2> HIDE DEF swap, l
  <2>5. \A f, g \in Names : swap[f] = swap[g] => f = g
    BY <2>4
  <2>6. \A f \in Names : files'[f] \in {Missing, files[swap[f]]}
    BY <2>1, <2>4
  <2>7. \A f \in Names : files'[f] # Missing =>
          f[2] <= swap[f][2] \/ f[2] <= Len(loc[c].body.pages)
    <3> SUFFICES ASSUME NEW f \in Names, files'[f] # Missing
                 PROVE  f[2] <= swap[f][2] \/ f[2] <= Len(loc[c].body.pages)
      OBVIOUS
    <3>1. f # from /\ f[2] \in Nat
      BY <2>1, NameFacts, NumberFacts
    <3>2. CASE f = to
      BY <2>4, <3>2
    <3>3. CASE f # to
      BY <2>4, <3>1, <3>3
    <3> QED
      BY <3>2, <3>3
  <2>8. \A g \in Names : \/ files[g].img \in asked \cup {NoImage}
                         \/ \E f \in Names : files'[f] = files[g]
    <3> SUFFICES ASSUME NEW g \in Names, files[g].img # NoImage
                 PROVE  \E f \in Names : files'[f] = files[g]
      OBVIOUS
    <3>1. g # to
      BY DEF Missing
    <3>2. CASE g = from
      BY <2>1, <3>2
    <3>3. CASE g # from
      BY <2>1, <3>1, <3>3
    <3> QED
      BY <3>2, <3>3
  <2>9. Len(l.body.pages) \in Nat /\ Len(l.body.pages) <= Len(loc[c].body.pages)
    BY <2>3
  <2>10. place \in {"move", "saveMeta"} /\ pc[c] \in Deleting /\ Mover(c)'
    BY <1>3 DEF Deleting
  <2> HIDE DEF place
  <2> QED
    BY <2>2, <2>3, <2>4, <2>5, <2>6, <2>7, <2>8, <2>9, <2>10, DeletionStep
<1> QED
  BY <1>2, <1>3 DEF RenameFile, Renames

\* To the temporary name, which no file has.
LEMMA MoveAsideApart ==
  ASSUME IInv, Apart, UNCHANGED scene, NEW c \in Clients, MoveAside(c) PROVE Apart'
<1>1. PICK m \in Move : /\ IsFirst(m, loc[c].away)
                        /\ RenameFile(c, File(m.file), Temp(m.file),
                                      loc[c].away \ {m}, loc[c].pending \cup {m})
  BY DEF MoveAside
<1> DEFINE from == File(m.file)
           to == Temp(m.file)
           away == loc[c].away \ {m}
           pending == loc[c].pending \cup {m}
<1>2. /\ m \in loc[c].away /\ m.file \in Numbers /\ m.index \in Numbers /\ pc[c] = "move"
      /\ UNCHANGED <<meta, asked>>
  BY <1>1 DEF IsFirst, Move, MoveAside
<1>3. /\ \A i, k \in loc[c].away \cup loc[c].pending : i.file = k.file \/ i.index = k.index => i = k
      /\ loc[c].away \cap loc[c].pending = {}
      /\ \A i \in loc[c].away \cup loc[c].pending : i.index <= Len(loc[c].body.pages)
      /\ \A k \in Numbers : files[Temp(k)] # Missing => \E i \in loc[c].pending : i.file = k
      /\ \A i \in loc[c].away \cup loc[c].pending :
           files[File(i.index)] # Missing => \E a \in loc[c].away : a.file = i.index
  BY <1>2 DEF Apart, Clientele, Mover
<1>4. from \in Names /\ to \in Names /\ from # to /\ to[2] = from[2] /\ to[2] \in Nat
  BY <1>2, NameFacts, NumberFacts DEF File, Temp
<1>5. files[to] = Missing
  BY <1>2, <1>3
<1>6. ASSUME Renames(c, from, to, away, pending) PROVE Mover(c)'
  <2>1. /\ \A f \in Names : files'[f] = IF f = from THEN Missing
                                        ELSE IF f = to THEN files[from] ELSE files[f]
        /\ loc'[c].away = away /\ loc'[c].pending = pending /\ loc'[c].body = loc[c].body
    <3> HIDE DEF from, to, away, pending
    <3> QED
      BY <1>4, <1>6, RenamesFacts
  <2>2. away \cup pending = loc[c].away \cup loc[c].pending /\ away \cap pending = {}
    BY <1>2, <1>3
  <2>3. ASSUME NEW k \in Numbers, files'[Temp(k)] # Missing PROVE \E i \in pending : i.file = k
    <3>1. CASE k = m.file
      BY <3>1
    <3>2. CASE k # m.file
      BY <1>2, <1>3, <2>1, <2>3, <3>2, NameFacts
    <3> QED
      BY <3>1, <3>2
  <2>4. ASSUME NEW i \in away \cup pending, files'[File(i.index)] # Missing
        PROVE  \E a \in away : a.file = i.index
    <3>1. i \in loc[c].away \cup loc[c].pending /\ i.index \in Numbers
      BY <2>2, MoveNumbers DEF Procs
    <3>2. i.index # m.file /\ files[File(i.index)] # Missing
      BY <1>2, <2>1, <2>4, <3>1, NameFacts
    <3>3. PICK a \in loc[c].away : a.file = i.index
      BY <1>3, <3>1, <3>2
    <3> QED
      BY <3>2, <3>3
  <2> HIDE DEF away, pending
  <2> QED
    BY <1>3, <2>1, <2>2, <2>3, <2>4 DEF Mover
<1>7. RenameFile(c, from, to, away, pending) /\ to[2] <= from[2]
  BY <1>1, <1>4
<1> HIDE DEF from, to, away, pending
<1> QED
  BY <1>2, <1>4, <1>5, <1>6, <1>7, RenameApart

\* To the new name: the file that had it has left.
LEMMA MoveBackApart ==
  ASSUME IInv, Apart, UNCHANGED scene, NEW c \in Clients, MoveBack(c) PROVE Apart'
<1>1. PICK m \in Move : /\ IsFirst(m, loc[c].pending)
                        /\ RenameFile(c, Temp(m.file), File(m.index), {}, loc[c].pending \ {m})
  BY DEF MoveBack
<1> DEFINE from == Temp(m.file)
           to == File(m.index)
           away == {}
           pending == loc[c].pending \ {m}
<1>2. /\ m \in loc[c].pending /\ m.file \in Numbers /\ m.index \in Numbers /\ pc[c] = "move"
      /\ loc[c].away = {} /\ UNCHANGED <<meta, asked>>
  BY <1>1 DEF IsFirst, Move, MoveBack
<1>3. /\ \A i, k \in loc[c].pending : i.file = k.file \/ i.index = k.index => i = k
      /\ \A i \in loc[c].pending : i.index <= Len(loc[c].body.pages)
      /\ \A k \in Numbers : files[Temp(k)] # Missing => \E i \in loc[c].pending : i.file = k
      /\ \A i \in loc[c].pending : files[File(i.index)] = Missing
  BY <1>2 DEF Apart, Clientele, Mover
<1>4. /\ from \in Names /\ to \in Names /\ from # to /\ files[to] = Missing
      /\ to[2] <= Len(loc[c].body.pages)
  BY <1>2, <1>3, NameFacts
<1>5. ASSUME Renames(c, from, to, away, pending) PROVE Mover(c)'
  <2>1. /\ \A f \in Names : files'[f] = IF f = from THEN Missing
                                        ELSE IF f = to THEN files[from] ELSE files[f]
        /\ loc'[c].away = away /\ loc'[c].pending = pending /\ loc'[c].body = loc[c].body
    <3> HIDE DEF from, to, away, pending
    <3> QED
      BY <1>4, <1>5, RenamesFacts
  <2>2. ASSUME NEW k \in Numbers, files'[Temp(k)] # Missing PROVE \E i \in pending : i.file = k
    <3>1. k # m.file /\ files[Temp(k)] # Missing
      BY <1>2, <2>1, <2>2, NameFacts
    <3> QED
      BY <1>3, <3>1
  <2>3. ASSUME NEW i \in pending PROVE files'[File(i.index)] = Missing
    <3>1. i \in loc[c].pending /\ i.index \in Numbers /\ i.index # m.index
      BY <1>2, <1>3, MoveNumbers DEF Procs
    <3> QED
      BY <1>2, <1>3, <2>1, <3>1, NameFacts
  <2>4. pending \subseteq loc[c].pending /\ away \cup pending = pending /\ away = {}
    OBVIOUS
  <2> HIDE DEF away, pending
  <2> QED
    BY <1>3, <2>1, <2>2, <2>3, <2>4 DEF Mover
<1>6. RenameFile(c, from, to, away, pending)
  BY <1>1
<1> HIDE DEF from, to, away, pending
<1> QED
  BY <1>2, <1>4, <1>5, <1>6, RenameApart

-------------------------------------------------------------------------------
(* The theorems *)

LEMMA AtFirst == ASSUME Init PROVE Apart
<1>1. /\ \A c \in Clients : pc[c] = "idle" /\ ~loc[c].calm
      /\ \A c \in Clients : Len(loc[c].body.pages) = 0
      /\ loc[Scanner].n = 0
  BY NoBodyFacts, ScannerAssumption DEF Init, Procs, NoLocal
<1>2. \A f \in Names : /\ files[f].open = {}
                       /\ files[f] = Missing \/ (f = File(f[2]) /\ files[f].img = f[2])
                       /\ scene.scanning => files[f] = Missing
  BY NameFacts DEF Init, Fresh, Missing, Names, File
<1>3. \A f \in Names, k \in Numbers : Held(f, k) => f = File(k) /\ ~scene.scanning
  BY <1>1, <1>2, NumberFacts DEF Held, Missing
<1>4. OneToOne
  BY <1>3, NameFacts DEF OneToOne
<1>5. Clientele
  BY <1>1, <1>2 DEF Clientele, Alone, Reader, Editor, Remover, Mover, Deleting
<1>6. Whole
  BY <1>2, NameFacts, NumberFacts DEF Whole
<1>7. ScanAhead
  <2> SUFFICES ASSUME pc[Scanner] # "off" PROVE ScanAhead
    BY DEF ScanAhead
  <2>1. scene.scanning
    BY ScannerAssumption DEF Init, Procs
  <2>2. Len(meta.body.pages) = 0
    BY <2>1, NoBodyFacts DEF Init
  <2> QED
    BY <1>1, <1>3, <2>1, <2>2 DEF ScanAhead
<1>8. ImagesSurvive
  <2> SUFFICES ASSUME NEW k \in 1 .. scene.pages, ~scene.scanning
               PROVE  \E f \in Names : files[f].img = k
    BY <1>1 DEF ImagesSurvive
  <2>1. k \in Numbers /\ k <= scene.pages
    BY SceneAssumption, BoundAssumption DEF Init, Scene, Numbers
  <2>2. File(k) \in Names /\ File(k)[1] = "page" /\ File(k)[2] = k
    BY <2>1, NameFacts DEF File
  <2> QED
    BY <2>1, <2>2 DEF Init, Fresh
<1> QED
  BY <1>4, <1>5, <1>6, <1>7, <1>8 DEF Apart

LEMMA ApartStep == ASSUME IInv, Apart, [Next]_vars, ~clashed' PROVE Apart'
<1>1. CASE UNCHANGED vars
  BY <1>1 DEF vars, Apart, Clientele, Alone, Reader, Editor, Remover, Mover, Whole, OneToOne,
     ScanAhead, ImagesSurvive, Held
<1>2. CASE UNCHANGED scene /\ \E c \in Clients : Request(c)
  BY <1>2, SimpleApart, CombineApart, ReorderApart, DeletePageApart DEF Request
<1>3. CASE UNCHANGED scene /\ \E c \in Clients : Handler(c)
  BY <1>3, RemoveFileApart, MoveAsideApart, MoveBackApart, LoadPageApart, OpenPageApart,
     WritePageApart, NextPageApart, ReadPageApart, EndsApart, RemoveApart
     DEF Handler, Serve, Procs
<1>4. CASE UNCHANGED scene /\ \E p \in Procs : Save(p)
  BY <1>4, SaveApart
<1>5. CASE UNCHANGED scene /\ (ScanPage \/ ScanBack \/ ScanFinish \/ Crash)
  BY <1>5, SaveSideApart, ScanFinishApart, CrashApart DEF ScanPage, ScanBack
<1> QED
  BY <1>1, <1>2, <1>3, <1>4, <1>5 DEF Next

\* A clash is not forgotten.
LEMMA ClashedStays == ASSUME clashed, [Next]_vars PROVE clashed'
<1>1. CASE UNCHANGED clashed
  BY <1>1
<1>2. ASSUME NEW c \in Clients, Request(c) PROVE clashed'
  BY <1>1, <1>2 DEF Request, Rename, Reorder, Combine, DeleteScan, DeletePage, Rotate, GetPage,
     Export
<1>3. ASSUME NEW c \in Clients, Handler(c) PROVE clashed'
  BY <1>1, <1>3 DEF Handler, RemoveFile, MoveAside, MoveBack, LoadPage, OpenPage, WritePage,
     NextPage, ReadPage, Serve, RemoveEntry, RemoveEnds
<1>4. CASE \/ \E p \in Procs : Save(p)
           \/ ScanPage \/ ScanBack \/ ScanFinish \/ Crash \/ UNCHANGED vars
  BY <1>1, <1>4 DEF Save, OpenMeta, WriteMeta, ScanPage, ScanBack, SaveSide, ScanFinish, Crash,
     vars
<1> QED
  BY <1>2, <1>3, <1>4 DEF Next

\* The invariant, as long as nothing has clashed.
THEOREM ApartUnlessClashed == Spec => [](~clashed => Apart)
<1>1. Init => (~clashed => Apart)
  BY AtFirst
<1>2. IInv /\ (~clashed => Apart) /\ [Next]_vars => (~clashed' => Apart')
  BY ApartStep, ClashedStays
<1> QED
  BY <1>1, <1>2, Invariance, PTL DEF Spec

\* handleDeletePage, renumberPages and the edits lose no image that nobody has asked
\* to delete, whatever the scan, failing calls and crashes do meanwhile, provided that
\* a deletion overlaps no other and no edit, and finds no file under a temporary name.
THEOREM ImagesAreKept == Spec => []ImagesSurviveApart
<1>1. (~clashed => Apart) => ImagesSurviveApart
  BY DEF Apart, ImagesSurviveApart
<1> QED
  BY <1>1, ApartUnlessClashed, PTL

\* handleCombine sends, for different numbers, different images, and each of them
\* whole, although it reads the record and the file of every page anew, unless a page
\* is deleted meanwhile or has been deleted in a clash.
THEOREM DocumentsAreAsAskedFor == Spec => []CombinedPagesDiffer
<1>1. ASSUME IInv, ~clashed => Apart PROVE CombinedPagesDiffer
  <2> SUFFICES ASSUME NEW c \in Clients, pc[c] = "serve", loc[c].calm, ~clashed,
                      NEW i \in DOMAIN loc[c].want, NEW k \in DOMAIN loc[c].want
               PROVE  /\ ~loc[c].got[i].torn
                      /\ loc[c].got[i].img = loc[c].got[k].img => loc[c].want[i] = loc[c].want[k]
    BY DEF CombinedPagesDiffer
  <2>1. Reader(c) /\ OneToOne
    BY <1>1 DEF Apart, Clientele
  <2>2. loc[c].want \in Seq(Numbers) /\ loc[c].got \in Seq(Content)
    BY <1>1 DEF IInv, Processes, Procs, LocalOK, Local
  <2>3. i \in DOMAIN loc[c].got /\ k \in DOMAIN loc[c].got
    BY <2>1, <2>2 DEF Reader
  <2>4. /\ ~loc[c].got[i].torn /\ loc[c].got[i].img \in Numbers
        /\ Held(File(loc[c].want[i]), loc[c].got[i].img)
        /\ Held(File(loc[c].want[k]), loc[c].got[k].img)
    BY <2>1, <2>3 DEF Reader, Held
  <2>5. File(loc[c].want[i]) \in Names /\ File(loc[c].want[k]) \in Names
    BY <2>2, NameFacts
  <2>6. ASSUME loc[c].got[i].img = loc[c].got[k].img PROVE loc[c].want[i] = loc[c].want[k]
    <3>1. \A f, g \in Names, j \in Numbers : Held(f, j) /\ Held(g, j) => f = g
      BY <2>1 DEF OneToOne
    <3>2. File(loc[c].want[i]) = File(loc[c].want[k])
      BY <2>4, <2>5, <2>6, <3>1
    <3> QED
      BY <3>2, NameFacts
  <2> QED
    BY <2>4, <2>6
<1> QED
  BY <1>1, ApartUnlessClashed, Invariance, PTL
===============================================================================
