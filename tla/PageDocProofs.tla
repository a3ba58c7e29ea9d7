----------------------------- MODULE PageDocProofs -----------------------------
(***************************************************************************)
(* Proofs that PageApi.tla implements PageDoc.tla while one client makes   *)
(* its requests and nothing fails, for any number of pages and of pages to *)
(* a combined document: from one quiet moment to the next the scan changes *)
(* by one abstract operation or not at all, and what is read is what the   *)
(* document has.                                                           *)
(***************************************************************************)
EXTENDS PageFilesProofs, PageApiRefinement

\* One client, no scan that goes on, no failing call and no crash; the scan has
\* all its pages.
OneClient(c) ==
  /\ Clients = {c}
  /\ \A s \in Scenes : s.pages = PageLimit /\ ~s.scanning /\ ~s.diskFails /\ ~s.crashes

-------------------------------------------------------------------------------
(* The invariant *)

\* A page of a document, and what a request may make of the document.
Leaf == [img : Numbers, turned : BOOLEAN]
Turned(leaf) == [img |-> leaf.img, turned |-> ~leaf.turned]
OneTurned(d, i) == [d EXCEPT ![i] = Turned(d[i])]
OneRemoved(d, i) == [k \in 1 .. Len(d) - 1 |-> IF k < i THEN d[k] ELSE d[k + 1]]
Reordered(d, order) == [i \in DOMAIN d |-> d[order[i]]]
Becomes(d, e) == \/ e = d
                 \/ \E i \in DOMAIN d : e = OneTurned(d, i) \/ e = OneRemoved(d, i)
                 \/ \E order \in Bijection(DOMAIN d, DOMAIN d) : e = Reordered(d, order)
                 \/ e = <<>>

\* The content of a page's file while nobody writes it.
Stores(content, leaf) == /\ content.img = leaf.img /\ content.turned = leaf.turned
                         /\ ~content.torn /\ content.open = {}

\* The pages of a record are listed with the shapes that they have in d.
Lists(body, d) == /\ d \in Seq(Leaf) /\ Len(d) = Len(body.pages)
                  /\ \A i \in DOMAIN d : body.pages[i].turned = d[i].turned

\* There are no files but those of a record.
OnlyListed(body) ==
  \A f \in Names : files[f] # Missing => \E i \in DOMAIN body.pages : f = File(body.pages[i].file)

\* A record stands for a document.
StandsFor(body, d) ==
  /\ Lists(body, d) /\ OnlyListed(body)
  /\ \A i \in DOMAIN d : Stores(files[File(body.pages[i].file)], d[i])

\* The job is as the last request has left it, or it has been deleted.
Untouched(d) == dir = "whole" /\ meta.state = "whole" /\ StandsFor(meta.body, d)
Deleted(d) == dir = "gone" /\ d = <<>>

\* The file of the page that is edited has been truncated.
Opened(c, d) ==
  /\ dir = "whole" /\ meta.state = "whole"
  /\ Lists(meta.body, d) /\ OnlyListed(meta.body)
  /\ \A i \in DOMAIN d :
       IF meta.body.pages[i].index = loc[c].n
       THEN /\ Stores(loc[c].data, Turned(d[i]))
            /\ files[File(meta.body.pages[i].file)].torn
            /\ files[File(meta.body.pages[i].file)].open = {c}
       ELSE Stores(files[File(meta.body.pages[i].file)], d[i])

\* No file has yet to move to this place.
Settled(c, i) == \A m \in loc[c].away \cup loc[c].pending : m.index # i

\* The files are on their way to where the record has them.
Moving(c, e) ==
  /\ dir = "whole" /\ Lists(loc[c].body, e)
  /\ \A i \in DOMAIN e : /\ loc[c].body.pages[i].file = i
                         /\ Settled(c, i) => Stores(files[File(i)], e[i])
  /\ \A m \in loc[c].away : /\ Stores(files[File(m.file)], e[m.index])
                            /\ m.file \in DOMAIN e => ~Settled(c, m.file)
  /\ \A m \in loc[c].pending : Stores(files[Temp(m.file)], e[m.index])
  /\ \A f \in Names : files[f] # Missing =>
       \/ \E m \in loc[c].away : f = File(m.file)
       \/ \E m \in loc[c].pending : f = Temp(m.file)
       \/ \E i \in DOMAIN e : Settled(c, i) /\ f = File(i)

\* This content is that of page n of the document.
Shows(d, n, content) ==
  /\ ~content.torn
  /\ \E i \in DOMAIN d : /\ meta.body.pages[i].index = n
                         /\ d[i] = [img |-> content.img, turned |-> content.turned]

\* What has been read is of the document, and the rest is to come.
HasRead(c, d) ==
  /\ \A k \in DOMAIN loc[c].got : Shows(d, Asked(c)[k], loc[c].got[k])
  /\ pc[c] \in {"readPage", "decodePage"} => loc[c].got = <<>> /\ loc[c].want = <<>>
  /\ pc[c] \in {"nextPage", "combinePage"} => Len(loc[c].got) < Len(loc[c].want)
  /\ pc[c] = "combinePage" => loc[c].n = loc[c].want[Len(loc[c].got) + 1]
  /\ pc[c] = "serve" => Len(loc[c].got) = Len(Asked(c))

\* Where a request stands while the document is d.
At(c, d) ==
  /\ pc[c] # "off"
  /\ pc[c] \in {"idle", "nextPage"} => Untouched(d) \/ Deleted(d)
  /\ pc[c] \in WithPage \cup {"serve"} => Untouched(d) /\ loc[c].body = meta.body
  /\ pc[c] = "openPage" => \A i \in DOMAIN d : meta.body.pages[i].index = loc[c].n =>
                             Stores(loc[c].data, Turned(d[i]))
  /\ pc[c] = "writePage" => HasPage(loc[c]) /\ loc[c].body = meta.body /\ Opened(c, d)
  /\ pc[c] = "move" => /\ loc[c].away \cup loc[c].pending # {}
                       /\ \E i \in DOMAIN d : Moving(c, OneRemoved(d, i))
  /\ pc[c] \in {"saveMeta", "writeMeta"} =>
       dir = "whole" /\ \E e \in Seq(Leaf) : Becomes(d, e) /\ StandsFor(loc[c].body, e)
  /\ pc[c] = "writeMeta" => meta.state = "empty" /\ c \in meta.open
  /\ pc[c] \in Reading \cup {"serve"} => HasRead(c, d)

Steady == /\ pc[Scanner] = "off" /\ ~clashed
          /\ meta.state # "whole" => meta.body = NoBody

Sound(c, d) == d \in Seq(Leaf) /\ At(c, d) /\ Steady

\* A step leads to a sound state for a document that this one may become, and
\* for this one as long as the request goes on.
Carries(c, d) ==
  \E e \in Seq(Leaf) : Becomes(d, e) /\ (pc'[c] # "idle" => e = d) /\ Sound(c, e)'

-------------------------------------------------------------------------------
(* One client *)

LEMMA OneFacts ==
  ASSUME NEW c, OneClient(c), IInv
  PROVE  /\ c \in Clients /\ c # Scanner /\ Procs = {c, Scanner}
         /\ scene.pages = PageLimit /\ ~scene.scanning /\ ~scene.diskFails /\ ~scene.crashes
         /\ \A places : ~Others(c, places)
BY ScannerAssumption DEF OneClient, IInv, Procs, Others

LEMMA Goes ==
  ASSUME NEW c, OneClient(c), IInv, NEW place, Goto(c, place)
  PROVE  pc'[c] = place /\ pc'[Scanner] = pc[Scanner]
BY OneFacts DEF Goto, IInv, Processes

\* It comes to this place with these locals.
LEMMA Arrives ==
  ASSUME NEW c, OneClient(c), IInv, NEW place, NEW l, Takes(c, place, l)
  PROVE  pc'[c] = place /\ pc'[Scanner] = pc[Scanner] /\ loc'[c] = l
<1>1. loc'[c] = l
  BY OneFacts DEF Takes, IInv, Processes
<1> QED
  BY <1>1, Goes DEF Takes

LEMMA Returns ==
  ASSUME NEW c, OneClient(c), IInv, Return(c)
  PROVE  Takes(c, "idle", NoLocal) /\ pc'[c] = "idle" /\ pc'[Scanner] = pc[Scanner]
<1>1. Takes(c, "idle", NoLocal)
  BY OneFacts DEF Return, Takes
<1> QED
  BY <1>1, Arrives

\* A request ends.
LEMMA Ends ==
  ASSUME NEW c, OneClient(c), IInv, NEW d, Sound(c, d), Return(c),
         NEW e \in Seq(Leaf), Becomes(d, e), Untouched(e)' \/ Deleted(e)',
         ~clashed', meta'.state # "whole" => meta'.body = NoBody
  PROVE  Carries(c, d)
<1>1. pc'[c] = "idle" /\ pc'[Scanner] = "off"
  BY Returns DEF Sound, Steady
<1>2. At(c, e)'
  BY <1>1 DEF At, WithPage, Reading
<1>3. Sound(c, e)'
  BY <1>1, <1>2 DEF Sound, Steady
<1> QED
  BY <1>1, <1>3 DEF Carries

\* A request goes on.
LEMMA GoesOn ==
  ASSUME NEW c, OneClient(c), IInv, NEW d, Sound(c, d), NEW place, Goto(c, place),
         At(c, d)', ~clashed', meta'.state # "whole" => meta'.body = NoBody
  PROVE  Carries(c, d)
BY Goes DEF Carries, Sound, Steady, Becomes

\* The record that has been loaded, and its pages.
LEMMA Listed ==
  ASSUME IInv, meta.state = "whole"
  PROVE  /\ meta.body \in Body /\ WellFormed(meta.body) /\ meta.body.pages \in Seq(Page)
         /\ Len(meta.body.pages) \in Nat /\ DOMAIN meta.body.pages = 1 .. Len(meta.body.pages)
         /\ \A i \in DOMAIN meta.body.pages :
              /\ meta.body.pages[i] \in Page
              /\ meta.body.pages[i].file = meta.body.pages[i].index
              /\ meta.body.pages[i].index \in Numbers
         /\ \A i, k \in DOMAIN meta.body.pages :
              meta.body.pages[i].index = meta.body.pages[k].index => i = k
<1>1. meta.body \in Body /\ WellFormed(meta.body) /\ meta.body.pages \in Seq(Page)
  BY DEF IInv, MetaOK, BodyOK, Body
<1>2. \A i \in DOMAIN meta.body.pages : meta.body.pages[i] \in Page
  BY <1>1
<1> QED
  BY <1>1, <1>2 DEF WellFormed, Page

LEMMA StoresFacts ==
  ASSUME NEW content \in Content, NEW leaf \in Leaf, Stores(content, leaf)
  PROVE  /\ content # Missing /\ ~content.torn /\ content.open = {}
         /\ Stores([content EXCEPT !.open = {}], leaf)
         /\ Stores([content EXCEPT !.turned = ~@, !.open = {}], Turned(leaf))
<1>1. content.img \in Numbers
  BY DEF Stores, Leaf
<1>2. content # Missing
  BY <1>1, NumberFacts DEF Missing
<1> QED
  BY <1>2 DEF Stores, Turned, Leaf, Content

\* What is seen of a record that stands for a document is the document.
LEMMA ViewIs ==
  ASSUME IInv, NEW d, Untouched(d) \/ (Deleted(d) /\ meta.body = NoBody)
  PROVE  View = d
<1>1. CASE Untouched(d)
  <2>1. d \in Seq(Leaf) /\ DOMAIN d = DOMAIN meta.body.pages
    BY <1>1, Listed DEF Untouched, StandsFor, Lists
  <2>2. \A i \in DOMAIN d : /\ d[i] = [img |-> d[i].img, turned |-> d[i].turned]
                            /\ Stores(files[File(meta.body.pages[i].file)], d[i])
    <3>1. \A i \in DOMAIN d : d[i] \in Leaf
      BY <2>1
    <3> QED
      BY <1>1, <3>1 DEF Untouched, StandsFor, Leaf
  <2>3. View = [i \in DOMAIN d |-> [img |-> d[i].img, turned |-> d[i].turned]]
    BY <2>1, <2>2 DEF View, Stores
  <2>4. View = [i \in DOMAIN d |-> d[i]]
    BY <2>2, <2>3
  <2> QED
    BY <2>1, <2>4
<1>2. CASE Deleted(d) /\ meta.body = NoBody
  BY <1>2, NoBodyFacts DEF Deleted, View
<1> QED
  BY <1>1, <1>2

\* The page with the number of the request.
LEMMA ThePage ==
  ASSUME NEW c, OneClient(c), IInv, NEW d, Untouched(d), HasPage(loc[c]), loc[c].body = meta.body
  PROVE  /\ FileOf(c) = File(loc[c].n) /\ FileOf(c) \in Names
         /\ files[FileOf(c)] \in Content /\ files[FileOf(c)] # Missing
         /\ \E i \in DOMAIN d : /\ meta.body.pages[i].index = loc[c].n
                                /\ meta.body.pages[i].file = loc[c].n
                                /\ d[i] \in Leaf
                                /\ Stores(files[FileOf(c)], d[i])
<1>1. FileOf(c) = File(loc[c].n) /\ loc[c].n \in Numbers
  BY FileOfNumber, OneFacts
<1>2. d \in Seq(Leaf) /\ DOMAIN d = DOMAIN meta.body.pages
  BY Listed DEF Untouched, StandsFor, Lists
<1>3. PICK i \in DOMAIN d : meta.body.pages[i].index = loc[c].n
  BY <1>2 DEF HasPage, Indexes
<1>4. meta.body.pages[i].file = loc[c].n /\ d[i] \in Leaf
  BY <1>2, <1>3, Listed DEF Untouched
<1>5. Stores(files[FileOf(c)], d[i])
  BY <1>1, <1>4 DEF Untouched, StandsFor
<1>6. files[FileOf(c)] # Missing /\ files[FileOf(c)] \in Content
  BY <1>1, <1>4, <1>5, StoresFacts, NameFacts DEF IInv, FilesOK
<1> QED
  BY <1>1, <1>3, <1>4, <1>5, <1>6, NameFacts

-------------------------------------------------------------------------------
(* Requests come in *)

\* What is kept while no file-system call is made.
LEMMA Kept ==
  ASSUME NEW d, UNCHANGED <<meta, files, dir>>
  PROVE  /\ Untouched(d) => Untouched(d)'
         /\ Deleted(d) => Deleted(d)'
         /\ \A body : StandsFor(body, d) => StandsFor(body, d)'
BY DEF Untouched, Deleted, StandsFor, Lists, OnlyListed

LEMMA SoundRecord ==
  ASSUME NEW c, NEW d, IInv, Sound(c, d), pc[c] \in {"idle", "nextPage"}, meta.state = "whole"
  PROVE  Untouched(d)
BY DEF Sound, At, Deleted, IInv, DirOK

\* A request starts with the record.
LEMMA Loads ==
  ASSUME NEW c, OneClient(c), IInv, NEW d, Sound(c, d), NEW op, NEW place, NEW n,
         Load(c, op, place, n), UNCHANGED <<meta, files, dir>>
  PROVE  /\ Goto(c, place) /\ pc'[c] = place
         /\ Untouched(d) /\ Untouched(d)'
         /\ loc'[c].body = meta.body /\ loc'[c].n = n
         /\ loc'[c].got = <<>> /\ loc'[c].want = <<>>
<1> DEFINE l == [NoLocal EXCEPT !.body = meta.body, !.n = n]
<1>1. Takes(c, place, l)
  BY DEF Load, Takes
<1>2. pc'[c] = place /\ loc'[c] = l /\ Goto(c, place)
  <2> HIDE DEF l
  <2> QED
    BY <1>1, Arrives DEF Takes
<1>3. Untouched(d)
  BY SoundRecord DEF Load
<1> QED
  BY <1>2, <1>3, Kept DEF NoLocal

LEMMA StaysSteady ==
  ASSUME Steady, UNCHANGED <<meta, clashed>>
  PROVE  ~clashed' /\ (meta'.state # "whole" => meta'.body = NoBody)
BY DEF Steady

LEMMA RenameCarries ==
  ASSUME NEW c, OneClient(c), IInv, NEW d, Sound(c, d), Rename(c) PROVE Carries(c, d)
<1>1. /\ Goto(c, "saveMeta") /\ pc'[c] = "saveMeta" /\ Untouched(d) /\ Untouched(d)'
      /\ loc'[c].body = meta.body /\ UNCHANGED <<meta, dir, clashed>>
  BY Loads DEF Rename
<1>2. Becomes(d, d) /\ d \in Seq(Leaf) /\ StandsFor(loc[c].body, d)'
  BY <1>1 DEF Becomes, Sound, Untouched
<1>3. At(c, d)'
  BY <1>1, <1>2 DEF At, Untouched, WithPage, Reading
<1> QED
  BY <1>1, <1>3, GoesOn, StaysSteady DEF Sound

LEMMA DeleteScanCarries ==
  ASSUME NEW c, OneClient(c), IInv, NEW d, Sound(c, d), DeleteScan(c) PROVE Carries(c, d)
<1>1. Goto(c, "removeAll") /\ pc'[c] = "removeAll" /\ UNCHANGED <<meta, clashed>>
  BY Loads DEF DeleteScan
<1>2. At(c, d)'
  BY <1>1 DEF At, WithPage, Reading
<1> QED
  BY <1>1, <1>2, GoesOn, StaysSteady DEF Sound

LEMMA RotateCarries ==
  ASSUME NEW c, OneClient(c), IInv, NEW d, Sound(c, d), NEW n \in Numbers, Rotate(c, n)
  PROVE  Carries(c, d)
<1>1. /\ Goto(c, "loadPage") /\ pc'[c] = "loadPage" /\ Untouched(d)'
      /\ loc'[c].body = meta.body /\ UNCHANGED meta
  BY Loads DEF Rotate
<1>2. ~clashed'
  BY OneFacts DEF Rotate, Sound, Steady
<1>3. At(c, d)'
  BY <1>1 DEF At, WithPage, Reading
<1> QED
  BY <1>1, <1>2, <1>3, GoesOn DEF Sound, Steady

\* A reading request has not read anything yet.
LEMMA ReadingCarries ==
  ASSUME NEW c, OneClient(c), IInv, NEW d, Sound(c, d), NEW n \in Numbers,
         GetPage(c, n) \/ Export(c, n)
  PROVE  Carries(c, d)
<1>1. PICK op \in {"getPage", "export"}, place \in {"readPage", "decodePage"} :
        Load(c, op, place, n) /\ UNCHANGED <<meta, files, dir, clashed>>
  BY DEF GetPage, Export
<1>2. /\ Goto(c, place) /\ pc'[c] = place /\ Untouched(d)' /\ loc'[c].body = meta.body
      /\ loc'[c].got = <<>> /\ loc'[c].want = <<>>
  BY <1>1, Loads
<1>3. HasRead(c, d)'
  BY <1>2 DEF HasRead
<1>4. At(c, d)'
  BY <1>1, <1>2, <1>3 DEF At, WithPage, Reading
<1> QED
  BY <1>1, <1>2, <1>4, GoesOn, StaysSteady DEF Sound

LEMMA CombineCarries ==
  ASSUME NEW c, OneClient(c), IInv, NEW d, Sound(c, d), Combine(c) PROVE Carries(c, d)
<1>1. PICK k \in 1 .. CombineLimit : \E want \in [1 .. k -> Numbers] :
        loc' = [loc EXCEPT ![c] = [NoLocal EXCEPT !.want = want, !.calm = ~Others(c, Deleting)]]
  BY DEF Combine
<1>2. PICK want \in [1 .. k -> Numbers] :
        loc' = [loc EXCEPT ![c] = [NoLocal EXCEPT !.want = want, !.calm = ~Others(c, Deleting)]]
  BY <1>1
<1> DEFINE l == [NoLocal EXCEPT !.want = want, !.calm = ~Others(c, Deleting)]
<1>3. /\ Takes(c, "nextPage", l) /\ l.got = <<>> /\ l.want = want
      /\ UNCHANGED <<meta, files, dir, clashed>>
  BY <1>2 DEF Combine, Takes, NoLocal
<1> HIDE DEF l
<1>4. pc'[c] = "nextPage" /\ loc'[c] = l
  BY <1>3, Arrives
<1>5. Len(want) = k /\ k \in Nat /\ k > 0
  BY BoundAssumption
<1>6. HasRead(c, d)'
  BY <1>3, <1>4, <1>5 DEF HasRead
<1>7. Untouched(d)' \/ Deleted(d)'
  BY <1>3, Kept DEF Combine, Sound, At
<1>8. At(c, d)'
  BY <1>4, <1>6, <1>7 DEF At, WithPage, Reading
<1> QED
  BY <1>3, <1>8, GoesOn, StaysSteady DEF Sound, Takes

\* The places of the pages, in the order asked for, are those of the record.
LEMMA OrderMovesPages ==
  ASSUME NEW pages \in Seq(Page), Indexes(pages) = 1 .. Len(pages),
         \A i, k \in DOMAIN pages : pages[i].index = pages[k].index => i = k,
         NEW order \in [DOMAIN pages -> Indexes(pages)], IsInjective(order)
  PROVE  \E move \in Bijection(DOMAIN pages, DOMAIN pages) :
           \A i \in DOMAIN pages : FindPage(pages, order[i]) = pages[move[i]]
<1> DEFINE at(n) == CHOOSE i \in DOMAIN pages : pages[i].index = n
           move == [i \in DOMAIN pages |-> at(order[i])]
<1>1. DOMAIN pages = 1 .. Len(pages) /\ Len(pages) \in Nat
  OBVIOUS
<1>2. \A n \in Indexes(pages) : at(n) \in DOMAIN pages /\ pages[at(n)].index = n
  BY DEF Indexes
<1>3. \A n : FindPage(pages, n) = pages[at(n)]
  BY DEF FindPage
<1> HIDE DEF at
<1>4. move \in [DOMAIN pages -> DOMAIN pages] /\ \A i \in DOMAIN pages : move[i] = at(order[i])
  BY <1>2
<1>5. \A i \in DOMAIN pages : FindPage(pages, order[i]) = pages[move[i]]
  BY <1>3, <1>4
<1>6. \A i \in DOMAIN pages : pages[move[i]].index = order[i]
  BY <1>2, <1>4
<1> HIDE DEF move
<1>7. IsInjective(move)
  BY <1>4, <1>6 DEF IsInjective
<1>8. move \in [1 .. Len(pages) -> 1 .. Len(pages)]
  BY <1>1, <1>4
<1>9. \A j \in 1 .. Len(pages) : \E i \in 1 .. Len(pages) : move[i] = j
  BY <1>1, <1>7, <1>8, OrderIsOnto
<1>10. move \in Bijection(DOMAIN pages, DOMAIN pages)
  BY <1>1, <1>4, <1>7, <1>9 DEF Bijection, Injection, Surjection
<1> QED
  BY <1>5, <1>10

LEMMA ReorderCarries ==
  ASSUME NEW c, OneClient(c), IInv, NEW d, Sound(c, d), Reorder(c) PROVE Carries(c, d)
<1> DEFINE pages == meta.body.pages
<1>1. PICK order \in [DOMAIN pages -> Indexes(pages)] :
        /\ IsInjective(order)
        /\ loc' = [loc EXCEPT ![c] = [NoLocal EXCEPT !.body = [meta.body EXCEPT !.pages =
                      [i \in DOMAIN pages |-> FindPage(pages, order[i])]]]]
  BY DEF Reorder
<1> DEFINE new == [i \in DOMAIN pages |-> FindPage(pages, order[i])]
           l == [NoLocal EXCEPT !.body = [meta.body EXCEPT !.pages = new]]
<1>2. /\ Untouched(d) /\ UNCHANGED <<meta, files, dir, clashed>> /\ Goto(c, "saveMeta")
  BY SoundRecord DEF Reorder
<1>3. /\ pages \in Seq(Page) /\ DOMAIN pages = 1 .. Len(pages) /\ Len(pages) \in Nat
      /\ Indexes(pages) = 1 .. Len(pages)
      /\ \A i, k \in DOMAIN pages : pages[i].index = pages[k].index => i = k
  BY <1>2, Listed DEF Untouched, WellFormed
<1>4. l.body.pages = new
  BY <1>2, Listed DEF Untouched, NoLocal, Body
<1>5. Takes(c, "saveMeta", l)
  BY <1>1, <1>2 DEF Takes
<1> HIDE DEF l
<1>6. pc'[c] = "saveMeta" /\ loc'[c].body.pages = new
  BY <1>4, <1>5, Arrives
<1> HIDE DEF pages
<1>7. PICK move \in Bijection(DOMAIN pages, DOMAIN pages) :
        \A i \in DOMAIN pages : FindPage(pages, order[i]) = pages[move[i]]
  BY <1>1, <1>3, OrderMovesPages
<1>8. /\ DOMAIN new = DOMAIN pages /\ \A i \in DOMAIN pages : new[i] = pages[move[i]]
      /\ \A i \in DOMAIN pages : move[i] \in DOMAIN pages
      /\ \A j \in DOMAIN pages : \E i \in DOMAIN pages : move[i] = j
  BY <1>7 DEF Bijection, Surjection, Injection
<1> HIDE DEF new
<1>9. /\ d \in Seq(Leaf) /\ DOMAIN d = DOMAIN pages /\ Len(d) = Len(pages)
      /\ \A i \in DOMAIN d : /\ Stores(files[File(pages[i].file)], d[i])
                             /\ pages[i].turned = d[i].turned
      /\ \A f \in Names : files[f] # Missing => \E i \in DOMAIN pages : f = File(pages[i].file)
  BY <1>2, <1>3 DEF Untouched, StandsFor, Lists, OnlyListed, pages
<1> DEFINE e == Reordered(d, move)
<1>10. /\ e \in Seq(Leaf) /\ Len(e) = Len(pages) /\ DOMAIN e = DOMAIN pages
       /\ \A i \in DOMAIN e : e[i] = d[move[i]]
  <2>1. DOMAIN e = DOMAIN pages /\ \A i \in DOMAIN e : e[i] = d[move[i]]
    BY <1>9 DEF Reordered
  <2>2. \A i \in DOMAIN e : e[i] \in Leaf
    BY <1>8, <1>9, <2>1
  <2>3. e \in [1 .. Len(pages) -> Leaf]
    BY <1>3, <1>9, <2>1, <2>2 DEF Reordered
  <2> HIDE DEF e
  <2> QED
    BY <1>3, <2>1, <2>3
<1>11. Becomes(d, e)
  BY <1>7, <1>9 DEF Becomes
<1> HIDE DEF e
<1>12. Len(new) = Len(pages)
  <2>1. new = [i \in 1 .. Len(pages) |-> FindPage(pages, order[i])]
    BY <1>3 DEF new
  <2> QED
    BY <1>3, <2>1
<1>13. StandsFor(loc[c].body, e)'
  <2>1. Lists(loc[c].body, e)'
    BY <1>6, <1>8, <1>9, <1>10, <1>12 DEF Lists
  <2>2. OnlyListed(loc[c].body)'
    BY <1>2, <1>6, <1>8, <1>9 DEF OnlyListed
  <2>3. \A i \in DOMAIN e : Stores(files'[File(loc'[c].body.pages[i].file)], e[i])
    BY <1>2, <1>6, <1>8, <1>9, <1>10
  <2> QED
    BY <2>1, <2>2, <2>3 DEF StandsFor
<1>14. At(c, d)'
  BY <1>2, <1>6, <1>10, <1>11, <1>13 DEF At, Untouched, WithPage, Reading
<1> QED
  BY <1>2, <1>14, GoesOn, StaysSteady DEF Sound

\* Nothing has a temporary name, so that nothing clashes.
LEMMA DeletePageCarries ==
  ASSUME NEW c, OneClient(c), IInv, NEW d, Sound(c, d), NEW n \in Numbers, DeletePage(c, n)
  PROVE  Carries(c, d)
<1>1. Untouched(d) /\ UNCHANGED <<meta, files, dir>> /\ Goto(c, "remove")
  BY SoundRecord DEF DeletePage
<1>2. loc'[c].body = meta.body /\ pc'[c] = "remove"
  BY <1>1, OneFacts, Goes DEF DeletePage, NoLocal
<1>3. \A k \in Numbers : files[Temp(k)] = Missing
  BY <1>1, NameFacts DEF Untouched, StandsFor, OnlyListed
<1>4. ~clashed'
  BY <1>3, OneFacts DEF DeletePage, Sound, Steady
<1>5. At(c, d)'
  BY <1>1, <1>2, Kept DEF At, WithPage, Reading
<1> QED
  BY <1>1, <1>4, <1>5, GoesOn DEF Sound, Steady

-------------------------------------------------------------------------------
(* Requests that read *)

\* One that ends without having touched anything.
LEMMA EndsQuietly ==
  ASSUME NEW c, OneClient(c), IInv, NEW d, Sound(c, d), Return(c), Untouched(d) \/ Deleted(d),
         UNCHANGED <<meta, files, dir, clashed>>
  PROVE  Carries(c, d)
BY Ends, Kept, StaysSteady DEF Sound, Becomes

LEMMA ServeCarries ==
  ASSUME NEW c, OneClient(c), IInv, NEW d, Sound(c, d), Serve(c) PROVE Carries(c, d)
BY EndsQuietly DEF Serve, Sound, At

\* The locals of a client are what they are declared to be.
LEMMA Locals ==
  ASSUME NEW c, OneClient(c), IInv
  PROVE  /\ loc = [p \in Procs |-> loc[p]] /\ c \in Procs
         /\ loc[c] \in Local /\ BodyOK(loc[c].body)
         /\ loc[c].got \in Seq(Content) /\ Len(loc[c].got) \in Nat
         /\ loc[c].want \in Seq(Numbers) /\ Len(loc[c].want) \in Nat
         /\ DOMAIN loc[c].got = 1 .. Len(loc[c].got) /\ DOMAIN loc[c].want = 1 .. Len(loc[c].want)
<1>1. loc[c] \in Local /\ BodyOK(loc[c].body)
  BY OneFacts DEF IInv, Processes, LocalOK
<1>2. loc[c].got \in Seq(Content) /\ loc[c].want \in Seq(Numbers)
  BY <1>1 DEF Local
<1> QED
  BY <1>1, <1>2, OneFacts DEF IInv, Processes

LEMMA NextPageCarries ==
  ASSUME NEW c, OneClient(c), IInv, NEW d, Sound(c, d), NextPage(c) PROVE Carries(c, d)
<1> DEFINE n == loc[c].want[Len(loc[c].got) + 1]
           l == [loc[c] EXCEPT !.body = meta.body, !.n = n]
<1>1. /\ pc[c] = "nextPage" /\ UNCHANGED <<meta, files, dir, clashed>>
      /\ HasRead(c, d) /\ (Untouched(d) \/ Deleted(d))
  BY DEF NextPage, Sound, At, Reading
<1>2. CASE Return(c)
  BY <1>1, <1>2, EndsQuietly
<1>3. ASSUME meta.state = "whole", loc' = [loc EXCEPT ![c].body = meta.body, ![c].n = n],
             Goto(c, "combinePage")
      PROVE  Carries(c, d)
  <2>1. /\ l.body = meta.body /\ l.n = n /\ l.got = loc[c].got /\ l.want = loc[c].want
        /\ Takes(c, "combinePage", l)
    BY <1>3, Locals DEF Takes, Local
  <2> HIDE DEF l
  <2>2. pc'[c] = "combinePage" /\ loc'[c] = l
    BY <2>1, Arrives
  <2>3. Untouched(d)
    BY <1>1, <1>3 DEF Deleted, IInv, DirOK
  <2>4. \A content, k : Shows(d, k, content) => Shows(d, k, content)'
    BY <1>1 DEF Shows
  <2>5. Asked(c)' = Asked(c)
    BY <1>1, <2>1, <2>2, Locals DEF Asked, HasRead
  <2>6. HasRead(c, d)'
    BY <1>1, <2>1, <2>2, <2>4, <2>5 DEF HasRead
  <2>7. At(c, d)'
    BY <1>1, <2>1, <2>2, <2>3, <2>6, Kept DEF At, WithPage, Reading
  <2> QED
    BY <1>1, <1>3, <2>7, GoesOn, StaysSteady DEF Sound
<1> QED
  BY <1>2, <1>3 DEF NextPage

LEMMA ReadPageCarries ==
  ASSUME NEW c, OneClient(c), IInv, NEW d, Sound(c, d), ReadPage(c) PROVE Carries(c, d)
<1> DEFINE got == Got(c, [files[FileOf(c)] EXCEPT !.open = {}])
           place == IF pc[c] = "combinePage" /\ Len(loc[c].got) + 1 < Len(loc[c].want)
                    THEN "nextPage" ELSE "serve"
           l == [loc[c] EXCEPT !.got = got]
<1>1. /\ pc[c] \in {"readPage", "decodePage", "combinePage"}
      /\ UNCHANGED <<meta, files, dir, clashed>>
      /\ HasRead(c, d) /\ Untouched(d) /\ loc[c].body = meta.body /\ HasPage(loc[c])
  BY OneFacts DEF ReadPage, Sound, At, Reading, WithPage, IInv, Processes
<1>2. PICK i \in DOMAIN d : /\ meta.body.pages[i].index = loc[c].n /\ d[i] \in Leaf
                            /\ Stores(files[FileOf(c)], d[i])
  BY <1>1, ThePage
<1>3. /\ files[FileOf(c)] \in Content /\ files[FileOf(c)] # Missing /\ ~files[FileOf(c)].torn
  BY <1>1, <1>2, ThePage, StoresFacts
<1>4. loc' = [loc EXCEPT ![c].got = got] /\ Goto(c, place)
  BY <1>2, <1>3 DEF ReadPage
<1>5. PICK content : content = [files[FileOf(c)] EXCEPT !.open = {}]
  OBVIOUS
<1>6. Shows(d, loc[c].n, content)
  <2>1. d[i] = [img |-> d[i].img, turned |-> d[i].turned]
    BY <1>2 DEF Leaf
  <2>2. Stores(content, d[i])
    BY <1>2, <1>3, <1>5, StoresFacts
  <2> QED
    BY <1>2, <2>1, <2>2 DEF Shows, Stores
<1>7. got = Append(loc[c].got, content)
  BY <1>5 DEF Got
<1>8. /\ l.got = got /\ l.body = loc[c].body /\ l.n = loc[c].n /\ l.want = loc[c].want
      /\ Takes(c, place, l)
  BY <1>4, Locals DEF Takes, Local
<1> HIDE DEF got, l
<1>9. pc'[c] = place /\ loc'[c] = l
  <2> HIDE DEF place
  <2> QED
    BY <1>8, Arrives
<1>10. /\ Len(got) = Len(loc[c].got) + 1 /\ DOMAIN got = 1 .. Len(got)
       /\ \A k \in DOMAIN loc[c].got : got[k] = loc[c].got[k]
       /\ got[Len(loc[c].got) + 1] = content
  BY <1>5, <1>7, Locals
<1>11. Asked(c)' = Asked(c) /\ Asked(c)[Len(loc[c].got) + 1] = loc[c].n
  <2>1. Asked(c)' = Asked(c)
    BY <1>8, <1>9 DEF Asked
  <2>2. CASE pc[c] = "combinePage"
    <3>1. loc[c].want # <<>> /\ loc[c].n = loc[c].want[Len(loc[c].got) + 1]
      BY <1>1, <2>2, Locals DEF HasRead
    <3> QED
      BY <2>1, <3>1 DEF Asked
  <2>3. CASE pc[c] # "combinePage"
    <3>1. loc[c].want = <<>> /\ Len(loc[c].got) = 0
      BY <1>1, <2>3 DEF HasRead
    <3> QED
      BY <2>1, <3>1 DEF Asked
  <2> QED
    BY <2>2, <2>3
<1>12. \A any, k : Shows(d, k, any) => Shows(d, k, any)'
  BY <1>1 DEF Shows
<1>13. \A k \in DOMAIN got : Shows(d, Asked(c)[k], got[k])
  BY <1>1, <1>6, <1>10, <1>11, Locals DEF HasRead
<1>14. pc'[c] = "serve" => Len(got) = Len(Asked(c))
  <2>1. CASE pc[c] = "combinePage"
    BY <1>1, <1>9, <1>10, <2>1, Locals DEF HasRead, Asked
  <2>2. CASE pc[c] # "combinePage"
    BY <1>1, <1>10, <2>2 DEF HasRead, Asked
  <2> QED
    BY <2>1, <2>2
<1>15. HasRead(c, d)'
  BY <1>8, <1>9, <1>10, <1>11, <1>12, <1>13, <1>14 DEF HasRead
<1>16. At(c, d)'
  BY <1>1, <1>8, <1>9, <1>15, Kept DEF At, WithPage, Reading
<1> QED
  BY <1>1, <1>4, <1>16, GoesOn, StaysSteady DEF Sound

-------------------------------------------------------------------------------
(* Edits *)

LEMMA LoadPageCarries ==
  ASSUME NEW c, OneClient(c), IInv, NEW d, Sound(c, d), LoadPage(c) PROVE Carries(c, d)
<1> DEFINE data == [files[FileOf(c)] EXCEPT !.turned = ~@, !.open = {}]
           l == [loc[c] EXCEPT !.data = data]
<1>1. /\ pc[c] = "loadPage" /\ UNCHANGED <<meta, files, dir, clashed>>
      /\ Untouched(d) /\ loc[c].body = meta.body /\ HasPage(loc[c])
  BY OneFacts DEF LoadPage, Sound, At, WithPage, IInv, Processes
<1>2. PICK i \in DOMAIN d : /\ meta.body.pages[i].index = loc[c].n /\ d[i] \in Leaf
                            /\ Stores(files[FileOf(c)], d[i])
  BY <1>1, ThePage
<1>3. loc' = [loc EXCEPT ![c].data = data] /\ Goto(c, "openPage")
  BY <1>1, <1>2, ThePage, StoresFacts DEF LoadPage
<1>4. Stores(data, Turned(d[i]))
  BY <1>1, <1>2, ThePage, StoresFacts
<1>5. /\ l.data = data /\ l.body = loc[c].body /\ l.n = loc[c].n
      /\ Takes(c, "openPage", l)
  BY <1>3, Locals DEF Takes, Local
<1> HIDE DEF data, l
<1>6. pc'[c] = "openPage" /\ loc'[c] = l
  BY <1>5, Arrives
<1>7. \A k \in DOMAIN d : meta.body.pages[k].index = loc[c].n => k = i
  <2>1. DOMAIN d = DOMAIN meta.body.pages
    BY <1>1, Listed DEF Untouched, StandsFor, Lists
  <2> QED
    BY <1>1, <1>2, <2>1, Listed DEF Untouched
<1>8. At(c, d)'
  BY <1>1, <1>4, <1>5, <1>6, <1>7, Kept DEF At, WithPage, Reading
<1> QED
  BY <1>1, <1>3, <1>8, GoesOn, StaysSteady DEF Sound

LEMMA OpenPageCarries ==
  ASSUME NEW c, OneClient(c), IInv, NEW d, Sound(c, d), OpenPage(c) PROVE Carries(c, d)
<1> DEFINE pages == meta.body.pages
           name == FileOf(c)
           content == [loc[c].data EXCEPT !.torn = TRUE, !.open = files[name].open \cup {c}]
<1>1. /\ pc[c] = "openPage" /\ UNCHANGED <<meta, dir, clashed>>
      /\ Untouched(d) /\ loc[c].body = meta.body /\ HasPage(loc[c])
      /\ \A i \in DOMAIN d : pages[i].index = loc[c].n => Stores(loc[c].data, Turned(d[i]))
  BY OneFacts DEF OpenPage, Sound, At, WithPage, IInv, Processes
<1>2. UNCHANGED loc /\ Goto(c, "writePage") /\ files' = [files EXCEPT ![name] = content]
  BY <1>1, OneFacts DEF OpenPage, Untouched
<1>3. /\ name = File(loc[c].n) /\ name \in Names
      /\ \E i \in DOMAIN d : pages[i].file = loc[c].n /\ Stores(files[name], d[i])
  BY <1>1, ThePage
<1>4. /\ content.torn /\ content.open = {c}
      /\ \A f \in Names : files'[f] = IF f = name THEN content ELSE files[f]
  <2>1. files[name].open = {} /\ loc[c].data \in Content
    BY <1>3, Locals DEF Stores, Local
  <2>2. content.torn /\ content.open = {c}
    BY <2>1 DEF Content
  <2> HIDE DEF content, name
  <2> QED
    BY <1>2, <2>2 DEF IInv, FilesOK
<1>5. /\ Lists(meta.body, d) /\ OnlyListed(meta.body) /\ DOMAIN d = DOMAIN pages
      /\ \A i \in DOMAIN d : /\ pages[i].file = pages[i].index /\ pages[i].file \in Numbers
                             /\ Stores(files[File(pages[i].file)], d[i])
  BY <1>1, Listed DEF Untouched, StandsFor, Lists
<1> HIDE DEF content, name
<1>6. Opened(c, d)'
  <2>1. Lists(meta.body, d)' /\ dir' = "whole" /\ meta'.state = "whole"
    BY <1>1, <1>5 DEF Lists, Untouched
  <2>2. OnlyListed(meta.body)'
    BY <1>1, <1>3, <1>4, <1>5 DEF OnlyListed
  <2>3. ASSUME NEW i \in DOMAIN d, pages[i].index = loc[c].n
        PROVE  /\ Stores(loc[c].data, Turned(d[i]))
               /\ files'[File(pages[i].file)].torn /\ files'[File(pages[i].file)].open = {c}
    BY <1>1, <1>3, <1>4, <1>5, <2>3
  <2>4. ASSUME NEW i \in DOMAIN d, pages[i].index # loc[c].n
        PROVE  Stores(files'[File(pages[i].file)], d[i])
    BY <1>3, <1>4, <1>5, <2>4, NameFacts
  <2> QED
    BY <1>1, <1>2, <2>1, <2>2, <2>3, <2>4 DEF Opened
<1>7. pc'[c] = "writePage"
  BY <1>2, Goes
<1>8. HasPage(loc[c])' /\ loc'[c].body = meta'.body
  BY <1>1, <1>2 DEF HasPage
<1>9. At(c, d)'
  BY <1>6, <1>7, <1>8 DEF At, WithPage, Reading
<1> QED
  BY <1>1, <1>2, <1>9, GoesOn, StaysSteady DEF Sound

\* The list of the pages that is saved after an edit.
LEMMA NewShapeIs ==
  ASSUME NEW c, OneClient(c), IInv
  PROVE  /\ NewShape(c) \in Seq(Page) /\ Len(NewShape(c)) = Len(loc[c].body.pages)
         /\ DOMAIN NewShape(c) = DOMAIN loc[c].body.pages
         /\ \A i \in DOMAIN loc[c].body.pages :
              /\ NewShape(c)[i].file = loc[c].body.pages[i].file
              /\ NewShape(c)[i].turned = IF loc[c].body.pages[i].index = loc[c].n
                                         THEN loc[c].data.turned ELSE loc[c].body.pages[i].turned
<1> DEFINE pages == loc[c].body.pages
           new == [i \in DOMAIN pages |-> IF pages[i].index = loc[c].n
                                          THEN [pages[i] EXCEPT !.turned = loc[c].data.turned]
                                          ELSE pages[i]]
<1>1. /\ pages \in Seq(Page) /\ loc[c].data.turned \in BOOLEAN
      /\ DOMAIN pages = 1 .. Len(pages) /\ Len(pages) \in Nat
  BY Locals DEF BodyOK, Body, Local, Content
<1>2. new = NewShape(c)
  BY DEF NewShape
<1> HIDE DEF pages
<1>3. ASSUME NEW i \in DOMAIN pages
      PROVE  /\ new[i] \in Page /\ new[i].file = pages[i].file
             /\ new[i].turned = IF pages[i].index = loc[c].n
                                THEN loc[c].data.turned ELSE pages[i].turned
  <2>1. pages[i] \in Page
    BY <1>1
  <2> QED
    BY <1>1, <2>1 DEF Page
<1>4. new \in [1 .. Len(pages) -> Page]
  BY <1>1, <1>3
<1> HIDE DEF new
<1>5. new \in Seq(Page) /\ Len(new) = Len(pages) /\ DOMAIN new = DOMAIN pages
  BY <1>1, <1>4
<1> QED
  BY <1>2, <1>3, <1>5 DEF pages

LEMMA WritePageCarries ==
  ASSUME NEW c, OneClient(c), IInv, NEW d, Sound(c, d), WritePage(c) PROVE Carries(c, d)
<1> DEFINE pages == meta.body.pages
           n == loc[c].n
<1>1. /\ pc[c] = "writePage" /\ UNCHANGED <<meta, dir, clashed>> /\ d \in Seq(Leaf)
      /\ HasPage(loc[c]) /\ loc[c].body = meta.body /\ Opened(c, d)
  BY DEF WritePage, Sound, At
<1>2. /\ Lists(meta.body, d) /\ OnlyListed(meta.body) /\ DOMAIN d = DOMAIN pages
      /\ pages \in Seq(Page) /\ Len(pages) \in Nat /\ DOMAIN pages = 1 .. Len(pages)
      /\ \A i \in DOMAIN d : pages[i].file = pages[i].index /\ pages[i].file \in Numbers
      /\ \A i, k \in DOMAIN d : pages[i].index = pages[k].index => i = k
  BY <1>1, Listed DEF Opened, Lists
<1>3. PICK i \in DOMAIN d : pages[i].index = n
  BY <1>1, <1>2 DEF HasPage, Indexes
<1>4. /\ File(n) \in Names /\ n \in Numbers /\ pages[i].file = n
      /\ files[File(n)].torn /\ files[File(n)].open = {c} /\ Stores(loc[c].data, Turned(d[i]))
      /\ \A k \in DOMAIN d \ {i} : Stores(files[File(pages[k].file)], d[k])
  <2>1. pages[i].file = n /\ n \in Numbers /\ File(n) \in Names
    BY <1>2, <1>3, NameFacts
  <2>2. \A k \in DOMAIN d \ {i} : pages[k].index # n
    BY <1>2, <1>3
  <2>3. /\ files[File(pages[i].file)].torn /\ files[File(pages[i].file)].open = {c}
        /\ Stores(loc[c].data, Turned(d[i]))
    BY <1>1, <1>3 DEF Opened
  <2>4. \A k \in DOMAIN d \ {i} : Stores(files[File(pages[k].file)], d[k])
    BY <1>1, <2>2 DEF Opened
  <2> QED
    BY <2>1, <2>3, <2>4
<1>5. ASSUME NEW f \in Names, c \in files[f].open PROVE f = File(n)
  <2>1. files[f] # Missing
    BY <1>5 DEF Missing
  <2>2. PICK k \in DOMAIN d : f = File(pages[k].file)
    BY <1>2, <2>1 DEF OnlyListed
  <2>3. k = i
    BY <1>4, <1>5, <2>2 DEF Stores
  <2> QED
    BY <1>4, <2>2, <2>3
<1>6. PICK torn \in BOOLEAN :
       /\ torn => scene.diskFails \/ \E f \in Names : c \in files[f].open /\ ~files[f].torn
       /\ files' = [f \in Names |->
            IF c \in files[f].open
            THEN [loc[c].data EXCEPT !.torn = torn, !.open = files[f].open \ {c}]
            ELSE files[f]]
       /\ IF torn /\ scene.diskFails
          THEN Return(c)
          ELSE /\ loc' = [loc EXCEPT ![c].body.pages = NewShape(c)]
               /\ Goto(c, "saveMeta")
  BY DEF WritePage
<1>7. ~torn
  BY <1>4, <1>5, <1>6, OneFacts
<1>8. /\ Stores(files'[File(n)], Turned(d[i]))
      /\ \A f \in Names : f # File(n) => files'[f] = files[f]
  <2>1. files'[File(n)] = [loc[c].data EXCEPT !.torn = torn, !.open = {c} \ {c}]
    BY <1>4, <1>6
  <2>2. loc[c].data \in Content
    BY Locals DEF Local
  <2> QED
    BY <1>4, <1>5, <1>6, <1>7, <2>1, <2>2 DEF Stores, Content
<1> DEFINE l == [loc[c] EXCEPT !.body.pages = NewShape(c)]
<1>9. /\ Takes(c, "saveMeta", l) /\ Goto(c, "saveMeta") /\ l.body.pages = NewShape(c)
  BY <1>6, <1>7, Locals DEF Takes, Local, BodyOK, Body
<1> HIDE DEF l
<1>10. pc'[c] = "saveMeta" /\ loc'[c].body.pages = NewShape(c)
  BY <1>9, Arrives
<1> DEFINE e == OneTurned(d, i)
<1>11. /\ e \in Seq(Leaf) /\ Len(e) = Len(d) /\ DOMAIN e = DOMAIN d
       /\ \A k \in DOMAIN d : e[k] = IF k = i THEN Turned(d[i]) ELSE d[k]
  <2>1. Turned(d[i]) \in Leaf
    <3>1. d[i] \in Leaf
      BY <1>1
    <3> QED
      BY <3>1 DEF Turned, Leaf
  <2> QED
    BY <1>1, <2>1 DEF OneTurned
<1>12. Becomes(d, e)
  BY DEF Becomes
<1> HIDE DEF e
<1>13. StandsFor(loc[c].body, e)'
  <2>1. ASSUME NEW k \in DOMAIN d
        PROVE  /\ NewShape(c)[k].file = pages[k].file
               /\ NewShape(c)[k].turned = e[k].turned
               /\ Stores(files'[File(pages[k].file)], e[k])
    <3>1. CASE k = i
      <4>1. NewShape(c)[k].turned = loc[c].data.turned
        BY <1>1, <1>2, <1>3, <3>1, NewShapeIs
      <4> QED
        BY <1>1, <1>2, <1>4, <1>8, <1>11, <3>1, <4>1, NewShapeIs DEF Stores
    <3>2. CASE k # i
      <4>1. /\ NewShape(c)[k].turned = d[k].turned /\ NewShape(c)[k].file = pages[k].file
            /\ pages[k].file # n /\ e[k] = d[k]
        BY <1>1, <1>2, <1>3, <1>11, <3>2, NewShapeIs DEF Lists
      <4>2. File(pages[k].file) # File(n) /\ File(pages[k].file) \in Names
        BY <1>2, <4>1, NameFacts
      <4> QED
        BY <1>4, <1>8, <3>2, <4>1, <4>2
    <3> QED
      BY <3>1, <3>2
  <2>2. Lists(loc[c].body, e)'
    BY <1>1, <1>2, <1>10, <1>11, <2>1, NewShapeIs DEF Lists
  <2>3. OnlyListed(loc[c].body)'
    <3>1. ASSUME NEW f \in Names, files'[f] # Missing
          PROVE  \E k \in DOMAIN pages : f = File(pages[k].file)
      <4>1. CASE f = File(n)
        BY <1>2, <1>4, <4>1
      <4>2. CASE f # File(n)
        BY <1>2, <1>8, <3>1, <4>2 DEF OnlyListed
      <4> QED
        BY <4>1, <4>2
    <3> QED
      BY <1>1, <1>2, <1>10, <2>1, <3>1, NewShapeIs DEF OnlyListed
  <2> QED
    BY <1>1, <1>2, <1>10, <1>11, <2>1, <2>2, <2>3 DEF StandsFor
<1>14. At(c, d)'
  BY <1>1, <1>10, <1>11, <1>12, <1>13 DEF At, Opened, WithPage, Reading
<1> QED
  BY <1>1, <1>9, <1>14, GoesOn, StaysSteady DEF Sound

-------------------------------------------------------------------------------
(* The deletion of a page *)

\* The rest of the pages without the i-th, and the same numbered anew, against
\* the rest of the document.
Shrinks(pages, d, i, rest, new, e) ==
  /\ e \in Seq(Leaf) /\ rest \in Seq(Page) /\ new \in Seq(Page)
  /\ Len(rest) = Len(e) /\ Len(new) = Len(e) /\ Len(e) \in Nat /\ DOMAIN e = 1 .. Len(e)
  /\ \A k \in DOMAIN e : \E j \in DOMAIN d \ {i} : rest[k] = pages[j] /\ e[k] = d[j]
  /\ \A k \in DOMAIN e : new[k].file = k /\ new[k].turned = rest[k].turned
  /\ \A j \in DOMAIN d \ {i} : \E k \in DOMAIN e : rest[k] = pages[j]
  /\ \A k, q \in DOMAIN e : rest[k].file = rest[q].file => k = q

\* What it leaves of the record is what it leaves of the document.
LEMMA OneLess ==
  ASSUME NEW body, BodyOK(body), NEW d \in Seq(Leaf), Len(d) = Len(body.pages),
         NEW i \in DOMAIN d
  PROVE  LET rest == Without(body.pages, body.pages[i].index)
         IN  Shrinks(body.pages, d, i, rest, Renumbered(rest), OneRemoved(d, i))
<1> DEFINE pages == body.pages
           n == pages[i].index
           rest == Without(pages, n)
           new == Renumbered(rest)
           e == OneRemoved(d, i)
           size == Len(pages)
           at(k) == IF k < i THEN k ELSE k + 1
<1>1. /\ pages \in Seq(Page) /\ size \in Nat /\ DOMAIN pages = 1 .. size /\ DOMAIN d = 1 .. size
      /\ size <= PageLimit
      /\ \A j, k \in DOMAIN pages : pages[j].index = pages[k].index => j = k
  BY DEF BodyOK, Body, WellFormed
<1>2. n \in Indexes(pages) /\ (CHOOSE k \in DOMAIN pages : pages[k].index = n) = i
  BY <1>1 DEF Indexes
<1>3. i \in 1 .. size /\ size - 1 \in Nat
  BY <1>1
<1>4. \A k \in 1 .. size - 1 : at(k) \in DOMAIN d \ {i}
  BY <1>1, <1>3
<1>5. rest = [k \in 1 .. size - 1 |-> IF k < i THEN pages[k] ELSE pages[k + 1]]
  BY <1>2 DEF Without
<1>6. Left(pages, n, rest)
  BY <1>2, WithoutFacts
<1>7. rest \in Seq(Page) /\ Len(rest) = size - 1 /\ DOMAIN rest = 1 .. size - 1
  BY <1>3, <1>5, <1>6 DEF Left
<1>8. \A k \in 1 .. size - 1 : rest[k] = pages[at(k)]
  BY <1>5
<1>9. e = [k \in 1 .. size - 1 |-> d[at(k)]]
  <2>1. e = [k \in 1 .. size - 1 |-> IF k < i THEN d[k] ELSE d[k + 1]]
    BY DEF OneRemoved
  <2> QED
    BY <2>1
<1>10. e \in Seq(Leaf) /\ Len(e) = size - 1 /\ DOMAIN e = 1 .. size - 1
  <2>1. \A k \in 1 .. size - 1 : d[at(k)] \in Leaf
    BY <1>4
  <2> HIDE DEF at
  <2> QED
    BY <1>3, <1>9, <2>1
<1>11. \A k \in DOMAIN e : \E j \in DOMAIN d \ {i} : rest[k] = pages[j] /\ e[k] = d[j]
  <2> HIDE DEF at
  <2> QED
    BY <1>4, <1>8, <1>9, <1>10
<1>12. \A j \in DOMAIN d \ {i} : \E k \in DOMAIN e : rest[k] = pages[j]
  <2> SUFFICES ASSUME NEW j \in DOMAIN d \ {i} PROVE \E k \in DOMAIN e : rest[k] = pages[j]
    OBVIOUS
  <2>1. CASE j < i
    <3>1. j \in 1 .. size - 1 /\ at(j) = j
      BY <1>1, <1>3, <2>1
    <3> QED
      BY <1>8, <1>10, <3>1
  <2>2. CASE ~(j < i)
    <3>1. j - 1 \in 1 .. size - 1 /\ at(j - 1) = j
      BY <1>1, <1>3, <2>2
    <3> QED
      BY <1>8, <1>10, <3>1
  <2> QED
    BY <2>1, <2>2
<1>13. /\ new \in Seq(Page) /\ Len(new) = size - 1
       /\ \A k \in DOMAIN e : new[k].file = k /\ new[k].turned = rest[k].turned
  <2> HIDE DEF rest, e
  <2>1. new = [k \in 1 .. size - 1 |-> [rest[k] EXCEPT !.index = k, !.file = k]]
    BY <1>7 DEF Renumbered
  <2>2. ASSUME NEW k \in DOMAIN e PROVE new[k].turned = rest[k].turned
    <3>1. rest[k] \in Page
      BY <1>7, <1>10
    <3> QED
      BY <1>10, <2>1, <3>1 DEF Page
  <2>3. Len(rest) <= PageLimit
    BY <1>1, <1>3, <1>7, BoundAssumption
  <2>4. /\ new \in Seq(Page) /\ Len(new) = Len(rest)
        /\ \A k \in DOMAIN new : new[k].file = k
    BY <1>7, <2>3, RenumberedOK
  <2>5. DOMAIN new = 1 .. size - 1
    BY <2>1
  <2> QED
    BY <1>7, <1>10, <2>2, <2>4, <2>5
<1>14. \A k, q \in DOMAIN e : rest[k].file = rest[q].file => k = q
  BY <1>6, <1>7, <1>10 DEF Left
<1> HIDE DEF at, rest, new, e
<1>15. Shrinks(pages, d, i, rest, new, e)
  BY <1>3, <1>7, <1>10, <1>11, <1>12, <1>13, <1>14 DEF Shrinks
<1> QED
  BY <1>15 DEF rest, new, e

LEMMA RemoveFileCarries ==
  ASSUME NEW c, OneClient(c), IInv, Apart, NEW d, Sound(c, d), RemoveFile(c) PROVE Carries(c, d)
<1> DEFINE pages == meta.body.pages
           n == loc[c].n
           rest == Without(pages, n)
           new == Renumbered(rest)
           moves == Moves(rest)
           place == IF moves = {} THEN "saveMeta" ELSE "move"
<1>1. /\ pc[c] = "remove" /\ UNCHANGED <<meta, dir, clashed>> /\ d \in Seq(Leaf)
      /\ HasPage(loc[c]) /\ loc[c].body = meta.body /\ Untouched(d) /\ loc[c].pending = {}
  BY OneFacts DEF RemoveFile, Sound, At, WithPage, IInv, Processes, Apart, Clientele, Remover
<1>2. PICK i \in DOMAIN d : pages[i].index = n /\ pages[i].file = n
  BY <1>1, ThePage
<1>3. FileOf(c) = File(n) /\ File(n) \in Names /\ files[FileOf(c)] # Missing
  BY <1>1, ThePage
<1>4. /\ files' = [files EXCEPT ![File(n)] = Missing]
      /\ loc' = [loc EXCEPT ![c].body.pages = new, ![c].body.count = Len(rest), ![c].away = moves]
      /\ Goto(c, place)
  BY <1>1, <1>3, OneFacts DEF RemoveFile
<1> DEFINE l == [loc[c] EXCEPT !.body.pages = new, !.body.count = Len(rest), !.away = moves]
<1>5. l.body.pages = new /\ l.away = moves /\ l.pending = {} /\ Takes(c, place, l)
  BY <1>1, <1>4, Locals DEF Takes, Local, BodyOK, Body
<1> HIDE DEF l
<1>6. /\ pc'[c] = place /\ loc'[c].body.pages = new /\ loc'[c].away = moves
      /\ loc'[c].pending = {}
  <2> HIDE DEF place, moves, new
  <2> QED
    BY <1>5, Arrives
<1>7. /\ \A f \in Names : files'[f] = IF f = File(n) THEN Missing ELSE files[f]
      /\ dir' = "whole"
  BY <1>1, <1>3, <1>4 DEF IInv, FilesOK, Untouched
<1>8. /\ BodyOK(meta.body) /\ Len(d) = Len(pages) /\ DOMAIN d = DOMAIN pages
      /\ OnlyListed(meta.body)
      /\ \A j \in DOMAIN d : /\ pages[j].file = pages[j].index /\ pages[j].file \in Numbers
                             /\ Stores(files[File(pages[j].file)], d[j])
                             /\ pages[j].turned = d[j].turned
      /\ \A j, k \in DOMAIN d : pages[j].index = pages[k].index => j = k
  BY <1>1, Listed DEF Untouched, StandsFor, Lists, IInv, MetaOK
<1> DEFINE e == OneRemoved(d, i)
<1>9. /\ e \in Seq(Leaf)
      /\ Len(new) = Len(e) /\ Len(rest) = Len(e) /\ Len(e) \in Nat /\ DOMAIN e = 1 .. Len(e)
      /\ rest \in Seq(Page)
      /\ \A k \in DOMAIN e : \E j \in DOMAIN d \ {i} : rest[k] = pages[j] /\ e[k] = d[j]
      /\ \A k \in DOMAIN e : new[k].file = k /\ new[k].turned = rest[k].turned
      /\ \A j \in DOMAIN d \ {i} : \E k \in DOMAIN e : rest[k] = pages[j]
      /\ \A k, q \in DOMAIN e : rest[k].file = rest[q].file => k = q
  <2> HIDE DEF new, rest, e
  <2>1. Shrinks(pages, d, i, rest, new, e)
    BY <1>1, <1>2, <1>8, OneLess DEF rest, new, e
  <2> QED
    BY <2>1 DEF Shrinks
<1>10. Becomes(d, e)
  BY DEF Becomes
<1>11. /\ \A k \in DOMAIN e : rest[k].file # k => [file |-> rest[k].file, index |-> k] \in moves
       /\ \A m \in moves : /\ m.index \in DOMAIN e /\ m.file = rest[m.index].file
                           /\ m.file # m.index
  <2> HIDE DEF rest, e
  <2>1. DOMAIN rest = DOMAIN e
    BY <1>9
  <2> QED
    BY <2>1 DEF Moves
<1> HIDE DEF rest, new, e, moves
\* Page k of what is left has its file, under the name it has had so far.
<1>12. \A k \in DOMAIN e : /\ Stores(files'[File(rest[k].file)], e[k])
                           /\ rest[k].turned = e[k].turned
                           /\ rest[k].file \in Numbers
  <2> SUFFICES ASSUME NEW k \in DOMAIN e
               PROVE  /\ Stores(files'[File(rest[k].file)], e[k])
                      /\ rest[k].turned = e[k].turned /\ rest[k].file \in Numbers
    OBVIOUS
  <2>1. PICK j \in DOMAIN d \ {i} : rest[k] = pages[j] /\ e[k] = d[j]
    BY <1>9
  <2>2. pages[j].file # n
    BY <1>2, <1>8, <2>1
  <2> QED
    BY <1>7, <1>8, <2>1, <2>2, NameFacts
<1>13. \A f \in Names : files'[f] # Missing => \E k \in DOMAIN e : f = File(rest[k].file)
  <2> SUFFICES ASSUME NEW f \in Names, files'[f] # Missing
               PROVE  \E k \in DOMAIN e : f = File(rest[k].file)
    OBVIOUS
  <2>1. f # File(n) /\ files[f] # Missing
    BY <1>7
  <2>2. PICK j \in DOMAIN d : f = File(pages[j].file)
    BY <1>8, <2>1 DEF OnlyListed
  <2>3. j # i
    BY <1>2, <2>1, <2>2
  <2> QED
    BY <1>9, <2>2, <2>3
<1>14. Lists(loc[c].body, e)'
  BY <1>6, <1>9, <1>12 DEF Lists
<1>15. CASE moves = {}
  <2>1. \A k \in DOMAIN e : rest[k].file = k
    BY <1>11, <1>15
  <2>2. OnlyListed(loc[c].body)'
    BY <1>6, <1>9, <1>13, <2>1 DEF OnlyListed
  <2>3. StandsFor(loc[c].body, e)'
    BY <1>6, <1>9, <1>12, <1>14, <2>1, <2>2 DEF StandsFor
  <2>4. At(c, d)'
    BY <1>6, <1>7, <1>9, <1>10, <1>15, <2>3 DEF At, WithPage, Reading
  <2> QED
    BY <1>1, <1>4, <2>4, GoesOn, StaysSteady DEF Sound
<1>16. CASE moves # {}
  <2>1. ASSUME NEW k \in DOMAIN e, Settled(c, k)' PROVE rest[k].file = k
    <3>1. \A m \in moves : m.index # k
      BY <1>6, <2>1 DEF Settled
    <3> QED
      BY <1>11, <3>1
  <2>2. ASSUME NEW m \in moves, m.file \in DOMAIN e PROVE ~Settled(c, m.file)'
    <3>1. rest[m.file].file # m.file
      BY <1>9, <1>11, <2>2
    <3>2. [file |-> rest[m.file].file, index |-> m.file] \in moves
      BY <1>11, <2>2, <3>1
    <3> QED
      BY <1>6, <3>2 DEF Settled
  <2>3. ASSUME NEW k \in DOMAIN e, ~Settled(c, k)' PROVE \E m \in moves : m.file = rest[k].file
    BY <1>6, <1>11, <2>3 DEF Settled
  <2>4. ASSUME NEW f \in Names, files'[f] # Missing
        PROVE  \/ \E m \in moves : f = File(m.file)
               \/ \E k \in DOMAIN e : Settled(c, k)' /\ f = File(k)
    <3>1. PICK k \in DOMAIN e : f = File(rest[k].file)
      BY <1>13, <2>4
    <3>2. CASE Settled(c, k)'
      BY <2>1, <3>1, <3>2
    <3>3. CASE ~Settled(c, k)'
      BY <2>3, <3>1, <3>3
    <3> QED
      BY <3>2, <3>3
  <2>5. Moving(c, e)'
    BY <1>6, <1>7, <1>9, <1>11, <1>12, <1>14, <2>1, <2>2, <2>4 DEF Moving
  <2>6. At(c, d)'
    <3>1. loc'[c].away \cup loc'[c].pending # {} /\ pc'[c] = "move"
      BY <1>6, <1>16
    <3>2. \E j \in DOMAIN d : Moving(c, OneRemoved(d, j))'
      BY <2>5 DEF e
    <3> QED
      BY <3>1, <3>2 DEF At, WithPage, Reading
  <2> QED
    BY <1>1, <1>4, <2>6, GoesOn, StaysSteady DEF Sound
<1> QED
  BY <1>15, <1>16

\* A file that is there gets its other name.
LEMMA Renamed ==
  ASSUME NEW c, OneClient(c), IInv, NEW from \in Names, NEW to \in Names, from # to,
         NEW away, NEW pending, RenameFile(c, from, to, away, pending), files[from] # Missing
  PROVE  /\ \A f \in Names : files'[f] = IF f = from THEN Missing
                                         ELSE IF f = to THEN files[from] ELSE files[f]
         /\ loc'[c].away = away /\ loc'[c].pending = pending /\ loc'[c].body = loc[c].body
         /\ Goto(c, IF away \cup pending = {} THEN "saveMeta" ELSE "move")
<1>1. /\ Renames(c, from, to, away, pending)
      /\ Goto(c, IF away \cup pending = {} THEN "saveMeta" ELSE "move")
  BY OneFacts DEF RenameFile, Renames
<1> QED
  BY <1>1, RenamesFacts, OneFacts

\* A deletion whose files are on the move.
LEMMA OnTheMove ==
  ASSUME NEW c, OneClient(c), IInv, Apart, NEW d, Sound(c, d), pc[c] = "move"
  PROVE  /\ d \in Seq(Leaf)
         /\ \A m \in loc[c].away \cup loc[c].pending :
              /\ m \in Move /\ m.file \in Numbers /\ m.index \in Numbers
              /\ m.index <= Len(loc[c].body.pages)
         /\ \A m, k \in loc[c].away \cup loc[c].pending :
              m.file = k.file \/ m.index = k.index => m = k
         /\ loc[c].away \cap loc[c].pending = {}
         /\ \E i \in DOMAIN d : Moving(c, OneRemoved(d, i))
<1>1. Mover(c)
  BY OneFacts DEF Apart, Clientele
<1>2. \A m \in loc[c].away \cup loc[c].pending :
        m \in Move /\ m.file \in Numbers /\ m.index \in Numbers
  BY MoveNumbers, OneFacts
<1> QED
  BY <1>1, <1>2 DEF Mover, Sound, At

\* A page that is on its way is in its file, whatever the name.
LEMMA MovedContent ==
  ASSUME NEW c, OneClient(c), IInv, NEW e, Moving(c, e), NEW m \in Move, NEW f \in Names,
         \/ m \in loc[c].away /\ f = File(m.file)
         \/ m \in loc[c].pending /\ f = Temp(m.file),
         m.index <= Len(loc[c].body.pages)
  PROVE  m.index \in DOMAIN e /\ Stores(files[f], e[m.index]) /\ files[f] # Missing
<1>1. e \in Seq(Leaf) /\ Len(e) = Len(loc[c].body.pages) /\ Len(e) \in Nat
  BY DEF Moving, Lists
<1>2. m.index \in DOMAIN e /\ e[m.index] \in Leaf
  BY <1>1, BoundAssumption DEF Move, Numbers
<1>3. Stores(files[f], e[m.index])
  BY DEF Moving
<1> QED
  BY <1>2, <1>3, StoresFacts DEF IInv, FilesOK

LEMMA MoveAsideCarries ==
  ASSUME NEW c, OneClient(c), IInv, Apart, NEW d, Sound(c, d), MoveAside(c) PROVE Carries(c, d)
<1>1. pc[c] = "move" /\ UNCHANGED <<meta, dir, clashed>>
  BY DEF MoveAside
<1>2. PICK m \in Move : /\ IsFirst(m, loc[c].away)
                        /\ RenameFile(c, File(m.file), Temp(m.file),
                                      loc[c].away \ {m}, loc[c].pending \cup {m})
  BY DEF MoveAside
<1>3. PICK i \in DOMAIN d : Moving(c, OneRemoved(d, i))
  BY <1>1, OnTheMove
<1> DEFINE e == OneRemoved(d, i)
           from == File(m.file)
           to == Temp(m.file)
           away == loc[c].away \ {m}
           pending == loc[c].pending \cup {m}
<1>4. /\ Moving(c, e) /\ m \in loc[c].away /\ m.file \in Numbers
      /\ m.index <= Len(loc[c].body.pages)
      /\ from \in Names /\ to \in Names /\ from # to
  BY <1>1, <1>2, <1>3, OnTheMove, NameFacts DEF IsFirst
<1> HIDE DEF e
<1>5. m.index \in DOMAIN e /\ Stores(files[from], e[m.index]) /\ files[from] # Missing
  BY <1>4, MovedContent
<1>6. away \cup pending = loc[c].away \cup loc[c].pending /\ away \cup pending # {}
  BY <1>4
<1>7. /\ \A f \in Names : files'[f] = IF f = from THEN Missing
                                      ELSE IF f = to THEN files[from] ELSE files[f]
      /\ loc'[c].away = away /\ loc'[c].pending = pending /\ loc'[c].body = loc[c].body
      /\ Goto(c, "move")
  <2> HIDE DEF from, to, away, pending
  <2>1. RenameFile(c, from, to, away, pending)
    BY <1>2 DEF from, to, away, pending
  <2> QED
    BY <1>4, <1>5, <1>6, <2>1, Renamed
<1>8. \A k : Settled(c, k)' <=> Settled(c, k)
  <2> HIDE DEF away, pending
  <2> QED
    BY <1>6, <1>7 DEF Settled
<1>9. DOMAIN e \subseteq Numbers
  <2>1. /\ e \in Seq(Leaf) /\ Len(e) = Len(loc[c].body.pages) /\ Len(e) \in Nat
        /\ Len(e) <= PageLimit
    BY <1>4, Locals DEF Moving, Lists, BodyOK
  <2> QED
    BY <2>1, BoundAssumption DEF Numbers
<1>10. Lists(loc[c].body, e)'
  BY <1>4, <1>7 DEF Moving, Lists
<1>11. ASSUME NEW k \in DOMAIN e, Settled(c, k)
       PROVE  Stores(files'[File(k)], e[k])
  <2>1. k # m.file /\ k \in Numbers /\ Stores(files[File(k)], e[k])
    BY <1>4, <1>9, <1>11 DEF Moving
  <2> QED
    BY <1>4, <1>7, <2>1, NameFacts
<1>12. ASSUME NEW a \in away
       PROVE  Stores(files'[File(a.file)], e[a.index]) /\ (a.file \in DOMAIN e => ~Settled(c, a.file))
  <2>1. /\ a.file # m.file /\ a.file \in Numbers /\ Stores(files[File(a.file)], e[a.index])
        /\ a.file \in DOMAIN e => ~Settled(c, a.file)
    BY <1>1, <1>4, <1>12, OnTheMove DEF Moving
  <2> QED
    BY <1>4, <1>7, <2>1, NameFacts
<1>13. ASSUME NEW a \in pending PROVE Stores(files'[Temp(a.file)], e[a.index])
  <2>1. CASE a = m
    BY <1>4, <1>5, <1>7, <2>1
  <2>2. CASE a # m
    <3>1. a \in loc[c].pending /\ a.file # m.file /\ a.file \in Numbers
      BY <1>1, <1>4, <1>13, <2>2, OnTheMove
    <3>2. Stores(files[Temp(a.file)], e[a.index])
      BY <1>4, <3>1 DEF Moving
    <3> QED
      BY <1>4, <1>7, <3>1, <3>2, NameFacts
  <2> QED
    BY <2>1, <2>2
<1>14. ASSUME NEW f \in Names, files'[f] # Missing
       PROVE  \/ \E a \in away : f = File(a.file)
              \/ \E a \in pending : f = Temp(a.file)
              \/ \E k \in DOMAIN e : Settled(c, k) /\ f = File(k)
  <2>1. CASE f = to
    BY <2>1
  <2>2. CASE f # to
    <3>1. f # from /\ files[f] # Missing
      BY <1>7, <1>14, <2>2
    <3>2. \/ \E a \in loc[c].away : f = File(a.file)
          \/ \E a \in loc[c].pending : f = Temp(a.file)
          \/ \E k \in DOMAIN e : Settled(c, k) /\ f = File(k)
      BY <1>4, <3>1 DEF Moving
    <3> QED
      BY <3>1, <3>2
  <2> QED
    BY <2>1, <2>2
<1>15. Moving(c, e)'
  <2> HIDE DEF from, to, away, pending
  <2>1. \A k \in DOMAIN e : loc'[c].body.pages[k].file = k
    BY <1>4, <1>7 DEF Moving
  <2>2. dir' = "whole"
    BY <1>1, <1>4 DEF Moving
  <2> QED
    BY <1>7, <1>8, <1>10, <1>11, <1>12, <1>13, <1>14, <2>1, <2>2 DEF Moving
<1>16. At(c, d)'
  <2>1. pc'[c] = "move" /\ loc'[c].away \cup loc'[c].pending # {}
    BY <1>6, <1>7, Goes
  <2>2. \E j \in DOMAIN d : Moving(c, OneRemoved(d, j))'
    BY <1>15 DEF e
  <2> QED
    BY <2>1, <2>2 DEF At, WithPage, Reading
<1> QED
  BY <1>1, <1>7, <1>16, GoesOn, StaysSteady DEF Sound

LEMMA MoveBackCarries ==
  ASSUME NEW c, OneClient(c), IInv, Apart, NEW d, Sound(c, d), MoveBack(c) PROVE Carries(c, d)
<1>1. pc[c] = "move" /\ UNCHANGED <<meta, dir, clashed>> /\ loc[c].away = {}
  BY DEF MoveBack
<1>2. PICK m \in Move : /\ IsFirst(m, loc[c].pending)
                        /\ RenameFile(c, Temp(m.file), File(m.index), {}, loc[c].pending \ {m})
  BY DEF MoveBack
<1>3. PICK i \in DOMAIN d : Moving(c, OneRemoved(d, i))
  BY <1>1, OnTheMove
<1> DEFINE e == OneRemoved(d, i)
           from == Temp(m.file)
           to == File(m.index)
           pending == loc[c].pending \ {m}
           place == IF pending = {} THEN "saveMeta" ELSE "move"
<1>4. /\ Moving(c, e) /\ m \in loc[c].pending /\ m.file \in Numbers /\ m.index \in Numbers
      /\ m.index <= Len(loc[c].body.pages)
      /\ from \in Names /\ to \in Names /\ from # to
      /\ \A a \in pending : a.file # m.file /\ a.index # m.index /\ a.file \in Numbers
  BY <1>1, <1>2, <1>3, OnTheMove, NameFacts DEF IsFirst
<1>5. Becomes(d, e)
  BY DEF Becomes
<1> HIDE DEF e
<1>6. m.index \in DOMAIN e /\ Stores(files[from], e[m.index]) /\ files[from] # Missing
  BY <1>4, MovedContent
<1>7. /\ \A f \in Names : files'[f] = IF f = from THEN Missing
                                      ELSE IF f = to THEN files[from] ELSE files[f]
      /\ loc'[c].away = {} /\ loc'[c].pending = pending /\ loc'[c].body = loc[c].body
      /\ Goto(c, place)
  <2> HIDE DEF from, to, pending
  <2>1. RenameFile(c, from, to, {}, pending)
    BY <1>2 DEF from, to, pending
  <2>2. {} \cup pending = pending
    OBVIOUS
  <2> QED
    BY <1>4, <1>6, <2>1, <2>2, Renamed
<1>8. \A k : Settled(c, k)' <=> Settled(c, k) \/ k = m.index
  <2>1. Settled(c, m.index)'
    BY <1>4, <1>7 DEF Settled
  <2>2. ASSUME NEW k, Settled(c, k) PROVE Settled(c, k)'
    BY <1>7, <2>2 DEF Settled
  <2>3. ASSUME NEW k, k # m.index, Settled(c, k)' PROVE Settled(c, k)
    BY <1>1, <1>7, <2>3 DEF Settled
  <2> QED
    BY <2>1, <2>2, <2>3
<1>9. /\ e \in Seq(Leaf) /\ Len(e) = Len(loc[c].body.pages) /\ Len(e) \in Nat
      /\ DOMAIN e \subseteq Numbers /\ DOMAIN e = DOMAIN loc[c].body.pages
  <2>1. /\ e \in Seq(Leaf) /\ Len(e) = Len(loc[c].body.pages) /\ Len(e) \in Nat
        /\ Len(e) <= PageLimit /\ loc[c].body.pages \in Seq(Page)
    BY <1>4, Locals DEF Moving, Lists, BodyOK, Body
  <2> QED
    BY <2>1, BoundAssumption DEF Numbers
<1>10. Lists(loc[c].body, e)' /\ \A k \in DOMAIN e : loc'[c].body.pages[k].file = k
  BY <1>4, <1>7 DEF Moving, Lists
<1>11. ASSUME NEW k \in DOMAIN e, Settled(c, k)'
       PROVE  Stores(files'[File(k)], e[k])
  <2>1. CASE k = m.index
    BY <1>4, <1>6, <1>7, <2>1
  <2>2. CASE k # m.index
    <3>1. k \in Numbers /\ Stores(files[File(k)], e[k])
      BY <1>4, <1>8, <1>9, <1>11, <2>2 DEF Moving
    <3> QED
      BY <1>4, <1>7, <2>2, <3>1, NameFacts
  <2> QED
    BY <2>1, <2>2
<1>12. ASSUME NEW a \in pending PROVE Stores(files'[Temp(a.file)], e[a.index])
  <2>1. Stores(files[Temp(a.file)], e[a.index])
    BY <1>4, <1>12 DEF Moving
  <2> QED
    BY <1>4, <1>7, <1>12, <2>1, NameFacts
<1>13. ASSUME NEW f \in Names, files'[f] # Missing
       PROVE  \/ \E a \in pending : f = Temp(a.file)
              \/ \E k \in DOMAIN e : Settled(c, k)' /\ f = File(k)
  <2>1. CASE f = to
    BY <1>6, <1>8, <2>1
  <2>2. CASE f # to
    <3>1. f # from /\ files[f] # Missing
      BY <1>7, <1>13, <2>2
    <3>2. \/ \E a \in loc[c].pending : f = Temp(a.file)
          \/ \E k \in DOMAIN e : Settled(c, k) /\ f = File(k)
      BY <1>1, <1>4, <3>1 DEF Moving
    <3> QED
      BY <1>8, <3>1, <3>2
  <2> QED
    BY <2>1, <2>2
<1>14. dir' = "whole" /\ pc'[c] = place
  BY <1>1, <1>4, <1>7, Goes DEF Moving
<1> HIDE DEF from, to, pending
<1>15. CASE pending = {}
  <2>1. \A k : Settled(c, k)'
    BY <1>7, <1>15 DEF Settled
  <2>2. OnlyListed(loc[c].body)'
    BY <1>7, <1>9, <1>10, <1>13, <1>15, <2>1 DEF OnlyListed
  <2>3. StandsFor(loc[c].body, e)'
    BY <1>10, <1>11, <2>1, <2>2 DEF StandsFor
  <2>4. At(c, d)'
    BY <1>5, <1>9, <1>14, <1>15, <2>3 DEF At, WithPage, Reading
  <2> QED
    BY <1>1, <1>7, <2>4, GoesOn, StaysSteady DEF Sound
<1>16. CASE pending # {}
  <2>1. Moving(c, e)'
    BY <1>7, <1>10, <1>11, <1>12, <1>13, <1>14 DEF Moving
  <2>2. At(c, d)'
    <3>1. pc'[c] = "move" /\ loc'[c].away \cup loc'[c].pending # {}
      BY <1>7, <1>14, <1>16
    <3>2. \E j \in DOMAIN d : Moving(c, OneRemoved(d, j))'
      BY <2>1 DEF e
    <3> QED
      BY <3>1, <3>2 DEF At, WithPage, Reading
  <2> QED
    BY <1>1, <1>7, <2>2, GoesOn, StaysSteady DEF Sound
<1> QED
  BY <1>15, <1>16

-------------------------------------------------------------------------------
(* Saving, and deleting the scan *)

LEMMA OpenMetaCarries ==
  ASSUME NEW c, OneClient(c), IInv, NEW d, Sound(c, d), OpenMeta(c) PROVE Carries(c, d)
<1>1. /\ pc[c] = "saveMeta" /\ dir = "whole" /\ UNCHANGED <<files, dir, clashed>>
      /\ \E e \in Seq(Leaf) : Becomes(d, e) /\ StandsFor(loc[c].body, e)
  BY DEF OpenMeta, Sound, At
<1>2. /\ meta' = [state |-> "empty", body |-> NoBody, open |-> meta.open \cup {c}]
      /\ Goto(c, "writeMeta") /\ UNCHANGED loc
  BY <1>1, OneFacts DEF OpenMeta, JobDirThere
<1>3. \E e \in Seq(Leaf) : Becomes(d, e) /\ StandsFor(loc[c].body, e)'
  BY <1>1, <1>2 DEF StandsFor, Lists, OnlyListed
<1>4. /\ pc'[c] = "writeMeta" /\ meta'.state = "empty" /\ c \in meta'.open
      /\ meta'.body = NoBody
  BY <1>2, Goes
<1>5. At(c, d)'
  BY <1>1, <1>3, <1>4 DEF At, WithPage, Reading
<1> QED
  BY <1>1, <1>2, <1>4, <1>5, GoesOn DEF Sound, Steady

LEMMA WriteMetaCarries ==
  ASSUME NEW c, OneClient(c), IInv, NEW d, Sound(c, d), WriteMeta(c) PROVE Carries(c, d)
<1>1. /\ pc[c] = "writeMeta" /\ dir = "whole" /\ UNCHANGED <<files, dir, clashed>>
      /\ meta.state = "empty" /\ c \in meta.open /\ Return(c)
  BY DEF WriteMeta, Sound, At
<1>2. PICK e \in Seq(Leaf) : Becomes(d, e) /\ StandsFor(loc[c].body, e)
  BY <1>1 DEF Sound, At
<1> DEFINE old == [meta EXCEPT !.open = @ \ {c}]
<1>3. meta' = [old EXCEPT !.state = "whole", !.body = loc[c].body]
  <2>1. old.state = "empty"
    BY <1>1 DEF IInv, MetaOK, Record
  <2>2. \E new \in Overwrite(old, loc[c].body) \cup {} : meta' = new
    BY <1>1, OneFacts DEF WriteMeta
  <2> HIDE DEF old
  <2> QED
    BY <2>1, <2>2 DEF Overwrite
<1>4. meta'.state = "whole" /\ meta'.body = loc[c].body
  BY <1>3 DEF IInv, MetaOK, Record
<1>5. StandsFor(meta.body, e)'
  BY <1>1, <1>2, <1>4 DEF StandsFor, Lists, OnlyListed
<1>6. Untouched(e)'
  BY <1>1, <1>4, <1>5 DEF Untouched
<1>7. ~clashed'
  BY <1>1 DEF Sound, Steady
<1> QED
  BY <1>1, <1>2, <1>4, <1>6, <1>7, Ends

\* While the scan is deleted nothing is seen of it.
LEMMA RemoveEntryCarries ==
  ASSUME NEW c, OneClient(c), IInv, NEW d, Sound(c, d), RemoveEntry(c) PROVE Carries(c, d)
<1>1. pc[c] = "removeAll" /\ UNCHANGED <<pc, loc, clashed>>
  BY DEF RemoveEntry
<1>2. Goto(c, "removeAll")
  BY <1>1 DEF Goto, IInv, Processes
<1>3. meta'.state # "whole" => meta'.body = NoBody
  BY DEF RemoveEntry, Sound, Steady
<1>4. ~clashed'
  BY <1>1 DEF Sound, Steady
<1>5. At(c, d)'
  BY <1>1 DEF At, WithPage, Reading
<1> QED
  BY <1>2, <1>3, <1>4, <1>5, GoesOn

LEMMA RemoveEndsCarries ==
  ASSUME NEW c, OneClient(c), IInv, NEW d, Sound(c, d), RemoveEnds(c) PROVE Carries(c, d)
<1>1. Return(c) /\ UNCHANGED <<meta, clashed>>
  BY DEF RemoveEnds
<1>2. dir' = "gone"
  BY OneFacts DEF RemoveEnds, Sound, Steady
<1>3. <<>> \in Seq(Leaf) /\ Becomes(d, <<>>) /\ Deleted(<<>>)'
  BY <1>2 DEF Becomes, Deleted
<1> QED
  BY <1>1, <1>3, Ends, StaysSteady DEF Sound

-------------------------------------------------------------------------------
(* The theorems *)

LEMMA StepCarries ==
  ASSUME NEW c, OneClient(c), IInv, Apart, NEW d, Sound(c, d), Next
  PROVE  Carries(c, d)
<1>1. \A e \in Clients : e = c
  BY DEF OneClient
<1>2. CASE \E e \in Clients : Request(e)
  BY <1>1, <1>2, RenameCarries, ReorderCarries, CombineCarries, DeleteScanCarries,
     DeletePageCarries, RotateCarries, ReadingCarries DEF Request
<1>3. CASE \E e \in Clients : Handler(e)
  BY <1>1, <1>3, RemoveFileCarries, MoveAsideCarries, MoveBackCarries, LoadPageCarries,
     OpenPageCarries, WritePageCarries, NextPageCarries, ReadPageCarries, ServeCarries,
     RemoveEntryCarries, RemoveEndsCarries DEF Handler
<1>4. CASE \E p \in Procs : Save(p)
  <2>1. ~Save(Scanner)
    BY DEF Save, OpenMeta, WriteMeta, Sound, Steady
  <2>2. Save(c)
    BY <1>4, <2>1, OneFacts
  <2> QED
    BY <2>2, OpenMetaCarries, WriteMetaCarries DEF Save
<1>5. ~ScanPage /\ ~ScanBack /\ ~ScanFinish /\ ~Crash
  BY OneFacts DEF ScanPage, ScanBack, ScanFinish, Crash, Sound, Steady
<1> QED
  BY <1>2, <1>3, <1>4, <1>5 DEF Next

LEMMA SoundStays == ASSUME NEW c, NEW d, Sound(c, d), UNCHANGED vars PROVE Sound(c, d)' /\ ~clashed'
<1> USE DEF vars
<1>1. /\ Untouched(d) => Untouched(d)'
      /\ Deleted(d) => Deleted(d)'
      /\ \A body, e : StandsFor(body, e) => StandsFor(body, e)'
  BY Kept
<1>2. Opened(c, d) => Opened(c, d)'
  BY DEF Opened, Lists, OnlyListed
<1>3. \A e : Moving(c, e) => Moving(c, e)'
  BY DEF Moving, Lists, Settled
<1>4. HasRead(c, d) => HasRead(c, d)'
  BY DEF HasRead, Shows, Asked
<1>5. HasPage(loc[c]) => HasPage(loc[c])'
  BY DEF HasPage
<1>6. At(c, d)'
  BY <1>1, <1>2, <1>3, <1>4, <1>5 DEF At, Sound, WithPage, Reading
<1> QED
  BY <1>6 DEF Sound, Steady

\* The document that the scan is at first.
Original == [i \in 1 .. PageLimit |-> [img |-> i, turned |-> FALSE]]

LEMMA SoundAtFirst ==
  ASSUME NEW c, OneClient(c), Init PROVE Sound(c, Original)
<1>1. /\ scene.pages = PageLimit /\ ~scene.scanning /\ scene \in Scenes
      /\ pc[c] = "idle" /\ pc[Scanner] = "off"
  BY ScannerAssumption DEF OneClient, Init, Procs
<1>2. /\ meta.state = "whole" /\ dir = "whole" /\ ~clashed
      /\ meta.body.pages = [i \in 1 .. PageLimit |-> [index |-> i, file |-> i, turned |-> FALSE]]
  BY <1>1 DEF Init, FullJob
<1>3. /\ Original \in Seq(Leaf) /\ Len(Original) = PageLimit /\ DOMAIN Original = Numbers
      /\ Len(meta.body.pages) = PageLimit /\ DOMAIN meta.body.pages = Numbers
  <2>1. Original \in [1 .. PageLimit -> Leaf]
    BY DEF Original, Leaf, Numbers
  <2>2. PageLimit \in Nat
    BY BoundAssumption
  <2> QED
    BY <1>2, <2>1, <2>2 DEF Numbers
<1>4. /\ \A k \in Numbers : files[File(k)] = Fresh(k)
      /\ \A f \in Names : files[f] # Missing => f = File(f[2]) /\ f[2] \in Numbers
  <2>1. \A f \in Names : files[f] = IF f[1] = "page" /\ f[2] <= PageLimit THEN Fresh(f[2]) ELSE Missing
    BY <1>1 DEF Init
  <2>2. \A k \in Numbers : /\ File(k) \in Names /\ File(k)[1] = "page" /\ File(k)[2] = k
                           /\ k <= PageLimit
    <3>1. \A k \in Numbers : File(k) \in Names
      BY NameFacts
    <3>2. \A k : File(k)[1] = "page" /\ File(k)[2] = k
      BY DEF File
    <3> QED
      BY <3>1, <3>2, BoundAssumption DEF Numbers
  <2>3. \A f \in Names : f[2] \in Numbers /\ (f[1] = "page" => f = File(f[2]))
    BY DEF Names, File
  <2> QED
    BY <2>1, <2>2, <2>3
<1>5. \A k \in Numbers : /\ Stores(files[File(k)], Original[k]) /\ meta.body.pages[k].file = k
                         /\ meta.body.pages[k].turned = Original[k].turned
  <2> SUFFICES ASSUME NEW k \in Numbers
               PROVE  /\ Stores(files[File(k)], Original[k]) /\ meta.body.pages[k].file = k
                      /\ meta.body.pages[k].turned = Original[k].turned
    OBVIOUS
  <2>1. Original[k] = [img |-> k, turned |-> FALSE]
    BY DEF Original, Numbers
  <2>2. meta.body.pages[k] = [index |-> k, file |-> k, turned |-> FALSE]
    BY <1>2 DEF Numbers
  <2>3. files[File(k)] = Fresh(k)
    BY <1>4
  <2>4. Stores(Fresh(k), Original[k])
    BY <2>1 DEF Stores, Fresh
  <2>5. meta.body.pages[k].file = k /\ meta.body.pages[k].turned = Original[k].turned
    BY <2>1, <2>2
  <2> QED
    BY <2>3, <2>4, <2>5
<1>6. Untouched(Original)
  <2>1. Lists(meta.body, Original)
    BY <1>3, <1>5 DEF Lists
  <2>2. OnlyListed(meta.body)
    BY <1>3, <1>4, <1>5 DEF OnlyListed
  <2>3. StandsFor(meta.body, Original)
    BY <1>3, <1>5, <2>1, <2>2 DEF StandsFor
  <2> QED
    BY <1>2, <2>3 DEF Untouched
<1>7. At(c, Original)
  BY <1>1, <1>6 DEF At, WithPage, Reading
<1> QED
  BY <1>1, <1>2, <1>3, <1>7 DEF Sound, Steady

\* One client's handlers leave the record and the directory in agreement: as often as it
\* waits for no answer, every listed page has its file, whole and of the listed shape, and
\* there is no other file, not even one that renumberPages has set aside.
THEOREM RecordAgreesWithFiles ==
  ASSUME NEW c, OneClient(c) PROVE Spec => []IdleConsistent
<1> DEFINE Inv == ~clashed /\ \E d : Sound(c, d)
<1>1. Init => Inv
  BY SoundAtFirst DEF Sound, Steady
<1>2. ASSUME IInv, ~clashed => Apart, Inv, [Next]_vars PROVE Inv'
  <2>1. PICK d : Sound(c, d)
    BY <1>2
  <2>2. CASE Next
    <3>1. Carries(c, d)
      BY <1>2, <2>1, <2>2, StepCarries
    <3>2. PICK e \in Seq(Leaf) : Sound(c, e)'
      BY <3>1 DEF Carries
    <3> QED
      BY <3>2 DEF Sound, Steady
  <2>3. CASE UNCHANGED vars
    BY <1>2, <2>1, <2>3, SoundStays
  <2> QED
    BY <1>2, <2>2, <2>3
<1>3. ASSUME IInv, Inv PROVE IdleConsistent
  <2> SUFFICES ASSUME Quiet, dir = "whole", meta.state = "whole" PROVE IdleConsistent
    BY DEF IdleConsistent
  <2>1. PICK d : Sound(c, d)
    BY <1>3
  <2>2. pc[c] = "idle"
    BY OneFacts, <1>3, <2>1 DEF Quiet, Sound, At
  <2>3. Untouched(d)
    BY <2>1, <2>2, <1>3, SoundRecord
  <2>4. /\ d \in Seq(Leaf) /\ DOMAIN d = DOMAIN meta.body.pages /\ OnlyListed(meta.body)
        /\ \A i \in DOMAIN d : /\ File(meta.body.pages[i].file) \in Names
                               /\ Stores(files[File(meta.body.pages[i].file)], d[i])
                               /\ meta.body.pages[i].turned = d[i].turned
    BY <1>3, <2>3, Listed, NameFacts DEF Untouched, StandsFor, Lists
  <2>5. ASSUME NEW i \in DOMAIN d PROVE files[File(meta.body.pages[i].file)] # Missing
    <3>1. d[i] \in Leaf
      BY <2>4
    <3> QED
      BY <1>3, <2>4, <3>1, StoresFacts DEF IInv, FilesOK
  <2> QED
    BY <2>4, <2>5 DEF IdleConsistent, OnlyListed, Stores
<1> QED
  BY <1>1, <1>2, <1>3, Invariance, ApartUnlessClashed, PTL DEF Spec

\* A document that the job stands for is what is seen of it.
SeenAsStored == \A d : Untouched(d) \/ (Deleted(d) /\ meta.body = NoBody) => View = d

Shown == doc' = IF Quiet' THEN View' ELSE doc

\* A step of the scan together with what is seen of it.
LEMMA ShownStep ==
  ASSUME NEW c, OneClient(c), IInv, IInv', ~clashed => Apart, SeenAsStored', Sound(c, doc),
         [Next /\ Shown]_<<vars, doc>>
  PROVE  Sound(c, doc)' /\ Becomes(doc, doc')
<1>1. CASE UNCHANGED <<vars, doc>>
  <2>1. PICK d : d = doc
    OBVIOUS
  <2>2. Sound(c, d)'
    BY <1>1, <2>1, SoundStays
  <2> QED
    BY <1>1, <2>1, <2>2 DEF Becomes
<1>2. CASE Next /\ Shown
  <2>1. PICK d : d = doc
    OBVIOUS
  <2>2. Carries(c, d)
    BY <1>2, <2>1, StepCarries DEF Sound, Steady
  <2>3. PICK e \in Seq(Leaf) : Becomes(d, e) /\ (pc'[c] # "idle" => e = d) /\ Sound(c, e)'
    BY <2>2 DEF Carries
  <2>4. Quiet' <=> pc'[c] = "idle"
    BY <2>3, OneFacts DEF Quiet, Sound, At, Steady
  <2>5. CASE pc'[c] = "idle"
    <3>1. Untouched(e)' \/ (Deleted(e)' /\ meta'.body = NoBody)
      BY <2>3, <2>5 DEF Sound, At, Steady, Deleted, IInv, DirOK
    <3>2. View' = e
      BY <3>1 DEF SeenAsStored
    <3> QED
      BY <1>2, <2>1, <2>3, <2>4, <2>5, <3>2 DEF Shown
  <2>6. CASE pc'[c] # "idle"
    BY <1>2, <2>1, <2>3, <2>4, <2>6 DEF Shown
  <2> QED
    BY <2>5, <2>6
<1> QED
  BY <1>1, <1>2

LEMMA ShownAtFirst ==
  ASSUME NEW c, OneClient(c), Init, doc = View PROVE Sound(c, doc) /\ doc = Original
<1>1. Sound(c, Original) /\ pc[c] = "idle" /\ IInv /\ dir = "whole"
  BY SoundAtFirst, Initially, ScannerAssumption DEF OneClient, Init, Procs
<1>2. Untouched(Original)
  BY <1>1 DEF Sound, At, Deleted
<1>3. View = Original
  BY <1>1, <1>2, ViewIs
<1> QED
  BY <1>1, <1>3

\* What the invariant is made of, in the specification with the view.
LEMMA ShownSound ==
  ASSUME NEW c, OneClient(c)
  PROVE  SpecWithView => [](IInv /\ (~clashed => Apart) /\ SeenAsStored /\ Sound(c, doc))
<1>1. SpecWithView => Spec
  <2>1. [Next /\ Shown]_<<vars, doc>> => [Next]_vars
    OBVIOUS
  <2> QED
    BY <2>1, PTL DEF SpecWithView, Spec, Shown
<1>2. IInv => SeenAsStored
  BY ViewIs DEF SeenAsStored
<1>3. Init /\ doc = View => Sound(c, doc)
  BY ShownAtFirst
<1>4. IInv /\ IInv' /\ (~clashed => Apart) /\ SeenAsStored' /\ Sound(c, doc)
        /\ [Next /\ Shown]_<<vars, doc>> => Sound(c, doc)'
  BY ShownStep
<1> QED
  BY <1>1, <1>2, <1>3, <1>4, Invariance, ApartUnlessClashed, PTL DEF SpecWithView, Shown

\* handleGetPage, handleExportPage and handleCombine send the pages that the document has
\* under the numbers asked for, whole, as they are turned there, and in that order, whatever
\* requests of the client have reordered, turned and renumbered them before.
THEOREM ReadersSeeTheDocument ==
  ASSUME NEW c, OneClient(c) PROVE SpecWithView => []ServesDocument
<1>1. ASSUME IInv, Sound(c, doc) PROVE ServesDocument
  <2> SUFFICES ASSUME pc[c] = "serve"
               PROVE  /\ Len(loc[c].got) = Len(Asked(c))
                      /\ \A k \in DOMAIN loc[c].got : \E i \in DOMAIN doc :
                           /\ loc[c].body.pages[i].index = Asked(c)[k]
                           /\ doc[i] = [img |-> loc[c].got[k].img, turned |-> loc[c].got[k].turned]
                           /\ ~loc[c].got[k].torn
    BY DEF ServesDocument, OneClient
  <2>1. HasRead(c, doc) /\ loc[c].body = meta.body
    BY <1>1 DEF Sound, At
  <2> QED
    BY <2>1 DEF HasRead, Shows
<1> QED
  BY <1>1, ShownSound, PTL

\* A request that one client makes is, as a whole, one operation of PageDoc.tla: it turns
\* one page (edit_handlers.go:96), takes one out and closes the gap (scan_handlers.go:261),
\* reorders them (scan_handlers.go:164), deletes the scan, or changes nothing, however many
\* calls on meta.json and on page files it takes.
THEOREM HandlersImplementPageDoc ==
  ASSUME NEW c, OneClient(c) PROVE SpecWithView => ImplementsPageDoc
<1>1. Init /\ doc = View => Abstract!Init
  BY ShownAtFirst DEF Abstract!Init, Original
<1>2. ASSUME Sound(c, doc), NEW e, Becomes(doc, e), doc' = e
      PROVE  [Abstract!Next]_doc
  <2>1. doc \in Seq(Leaf) /\ \A i \in DOMAIN doc : doc[i] \in Leaf
    BY <1>2 DEF Sound
  <2>2. ASSUME NEW i \in DOMAIN doc, e = OneTurned(doc, i) PROVE Abstract!Turn(i)
    <3>1. [doc[i] EXCEPT !.turned = ~@] = Turned(doc[i])
      BY <2>1 DEF Turned, Leaf
    <3> QED
      BY <1>2, <2>2, <3>1 DEF OneTurned, Abstract!Turn
  <2>3. ASSUME NEW i \in DOMAIN doc, e = OneRemoved(doc, i) PROVE Abstract!Delete(i)
    BY <1>2, <2>3 DEF OneRemoved, Abstract!Delete
  <2>4. ASSUME NEW order \in Bijection(DOMAIN doc, DOMAIN doc), e = Reordered(doc, order)
        PROVE  Abstract!Reorder
    BY <1>2, <2>4 DEF Reordered, Abstract!Reorder, Bijection, Abstract!Bijection,
       Injection, Abstract!Injection, Surjection, Abstract!Surjection, IsInjective, Abstract!IsInjective
  <2>5. CASE e = <<>>
    BY <1>2, <2>5 DEF Abstract!Next, Abstract!DeleteAll
  <2> QED
    BY <1>2, <2>2, <2>3, <2>4, <2>5 DEF Becomes, Abstract!Next
<1>3. IInv /\ IInv' /\ (~clashed => Apart) /\ SeenAsStored' /\ Sound(c, doc)
        /\ [Next /\ Shown]_<<vars, doc>> => [Abstract!Next]_doc
  BY <1>2, ShownStep
<1> QED
  BY <1>1, <1>3, ShownSound, PTL DEF SpecWithView, Shown, ImplementsPageDoc, Abstract!Spec
=============================================================================
